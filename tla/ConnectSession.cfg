SPECIFICATION FairSpec
CONSTANTS
  Writers <- TwoWriters
  Scenarios <- MCScenarios
INVARIANTS NothingLeft UserLinesKept SectionDropped
PROPERTIES NeverAborted PidFileEndsSession GoneEndsSession
CHECK_DEADLOCK FALSE
