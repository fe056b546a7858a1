SPECIFICATION ToolsSpec
CONSTANTS
  a = a
  b = b
  c = c
  d = d
  e = e
  NoUser = NoUser
  Users <- FiveUsers
  Mode <- MCMode
  Mark <- MCMark
  Header <- MCHeader
  Scenarios <- SafetyScenarios
CHECK_DEADLOCK FALSE
INVARIANTS SelectorRecoverable RefsExact ServiceServed SessionServed ResourcesRemoved CleanSparesOwn MeshRecoveryStays
PROPERTIES OwnShadowServiceOnly
