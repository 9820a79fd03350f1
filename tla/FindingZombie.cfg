\* stop() discards a DEAD notification.
CONSTANTS
  MaxNodes = 1
  Host = {h1}
  Port = {p1}
  RETRY_NUM = 1
  MAX_SAFE_QUEUE = 2
  MaxStops = 1
SPECIFICATION Spec
INVARIANTS
  DeadNodeIsNotified
