\* The program's payload lengths and buffer size.
CONSTANTS
  PING_PLAYLOADLENGTH = 20
  NOTIFY_PLAYLOADLENGTH = 40
  Texts <- MCTexts
  Types = {0, 1, 2, 3, 200}
  Ports <- MCPorts
  Datagrams <- MCDatagrams
SPECIFICATION Spec
INVARIANTS
  TypeOK
  ClientUnderstands
  ManagerUnderstands
  InBounds
  NoNodeFromNothing
