SPECIFICATION ToolsSpec
CONSTANTS
  a = a
  b = b
  c = c
  d = d
  e = e
  NoUser = NoUser
  Users <- HeaderUsers
  Mode <- MCMode
  Mark <- MCMark
  Header <- OwnHeaders
  Scenarios <- HeaderScenarios
CHECK_DEADLOCK FALSE
INVARIANTS ResourcesRemoved
