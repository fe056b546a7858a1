SPECIFICATION FairSpec
CONSTANTS
  u1 = u1
  u2 = u2
  NoUser = NoUser
  Unset = Unset
  Users <- TwoUsers
  Original = 2
  Scenarios <- MCScenarios
INVARIANTS DownIsRecorded Restored ServiceServed 
PROPERTIES CleanRestores
CHECK_DEADLOCK FALSE
