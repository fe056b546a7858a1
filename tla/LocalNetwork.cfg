SPECIFICATION FairSpec
CONSTANTS
  svcName = svcName
  shortDomain = shortDomain
  rawDomain = rawDomain
  address = address
  foreign = foreign
  q1 = q1
  q2 = q2
  Segments = 3
  SegBits = 2
  Threshold = 2
  ListLimit = 3
  MaxBroken = 1
  Scenes <- MCScenes
  Names = {svcName}
  Domains = {shortDomain, rawDomain}
  Possible <- MCPossible
  Extras <- MCExtras
  Addresses = {address}
  FirstRecords <- MCFirstRecords
  Foreign = foreign
  Orders <- MCOrders
  Queries = {q1, q2}
  TtlLocal = 2
  TtlShadow = 1
  MaxWait = 1
  MaxChanges = 1
  MaxFailures = 2
  Ip <- MCIp
INVARIANTS CidrExact ApiServerDirect ExcludedBypassed NamesReachCluster
PROPERTIES AnswersSettle ProxyReconnects
CHECK_DEADLOCK FALSE
