SPECIFICATION Spec
CONSTANTS
  u1 = u1
  u2 = u2
  u3 = u3
  NoUser = NoUser
  Users <- ThreeUsers
  Scenarios <- JoinScenarios
CHECK_DEADLOCK FALSE
INVARIANTS SharedByAll
