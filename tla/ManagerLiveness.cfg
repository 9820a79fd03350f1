\* A client that is given up and registers again, one stop and restart, overlaps of RX and TX included.
CONSTANTS
  MaxNodes = 2
  Host = {h1}
  Port = {p1}
  RETRY_NUM = 1
  MAX_SAFE_QUEUE = 2
  MaxStops = 1
SPECIFICATION FairSpec
INVARIANTS
  TypeOK
PROPERTIES
  NoStaleDispatch
  DeadNodeRemoved
  StopReturns
  NodesAsAssumed
