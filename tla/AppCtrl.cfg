\* Three datagrams and three packets to send, queues of two, one restart.
CONSTANTS
  MaxDatagrams = 3
  MaxSends = 3
  MaxStarts = 2
  MAX_SAFE_QUEUE = 2
  SentTypes = {"REGISTER", "OTHER"}
SPECIFICATION Spec
INVARIANTS
  TypeOK
  ReceivedInOrder
  SentInOrder
  NoDanglingPacket
  SendersEndBeforeClose
