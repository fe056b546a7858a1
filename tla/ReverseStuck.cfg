SPECIFICATION InboundFairSpec
CONSTANTS
  MaxStopping = 2
  t1 = t1
  t2 = t2
  Tunnels <- TwoPorts
CHECK_DEADLOCK FALSE
PROPERTIES AllReconnect
