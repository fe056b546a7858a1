CONSTANTS
  u1 = u1
  u2 = u2
  Users <- TwoUsers
  LockTimeout = 2
  MaxTries = 1
  MaxTime = 4
  Skew <- SomeSkew
  TimelyUnlock = TRUE
SPECIFICATION FairSpec
PROPERTIES ImplementsMutex LockServiceEnds
