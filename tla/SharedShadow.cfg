SPECIFICATION FairSpec
CONSTANTS
  u1 = u1
  u2 = u2
  u3 = u3
  NoUser = NoUser
  Users <- ThreeUsers
  Scenarios <- MCScenarios
CHECK_DEADLOCK FALSE
INVARIANTS ShadowServesUsers ResourcesRemoved
PROPERTIES JoinEnds
