\* RX and TX overlap: one client gets two nodes.
CONSTANTS
  MaxNodes = 3
  Host = {h1}
  Port = {p1, p2}
  RETRY_NUM = 1
  MAX_SAFE_QUEUE = 2
  MaxStops = 0
SPECIFICATION Spec
INVARIANTS
  AddedOnlyIfNotPresent
