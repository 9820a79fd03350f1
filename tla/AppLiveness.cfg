\* Both directions at once, one restart.
CONSTANTS
  MaxDatagrams = 2
  MaxSends = 1
  MaxStarts = 2
  MAX_SAFE_QUEUE = 2
  SentTypes = {"REGISTER", "PONG", "OTHER"}
SPECIFICATION FairSpec
PROPERTIES
  SilentWhenStopped
  MainReturns
  Served
