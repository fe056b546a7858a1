SPECIFICATION ToolsFairSpec
CONSTANTS
  a = a
  b = b
  c = c
  d = d
  e = e
  NoUser = NoUser
  Users <- FiveUsers
  Mode <- MCMode
  Mark <- MCMark
  Header <- MCHeader
  Scenarios <- FairScenarios
CHECK_DEADLOCK FALSE
PROPERTIES RedirectHeals CleanUndoes
