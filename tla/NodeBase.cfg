\* Two nodes, two retries, a queue that overflows, stops and starts.
CONSTANTS
  MaxNodes = 2
  Host = {h1}
  Port = {p1}
  RETRY_NUM = 2
  MAX_SAFE_QUEUE = 2
SPECIFICATION FairNodeSpec
INVARIANTS
  NodeTypeOK
  DeadNoticeMeansLeaving
  DeadNoticeIsLast
PROPERTIES
  ImplementsLifecycle
  SilentNodeGivenUp
