\* g_receivedIOQueue refuses a packet.
CONSTANTS
  MaxDatagrams = 1
  MaxSends = 0
  MaxStarts = 1
  MAX_SAFE_QUEUE = 2
  SentTypes = {"REGISTER", "PONG", "OTHER"}
SPECIFICATION Spec
INVARIANTS
  PacketIsOwned
