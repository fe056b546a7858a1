SPECIFICATION FairSpec
CONSTANTS
  s1 = s1
  s2 = s2
  s3 = s3
  Nobody = Nobody
  Sessions <- ThreeSessions
  Headers <- TwoHeaders
  Scenarios <- MCScenarios
INVARIANTS LoadedIsWritten
PROPERTIES ImplementsStore StaysRouted GetsRouted
CHECK_DEADLOCK FALSE
