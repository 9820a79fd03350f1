--------------------------------- MODULE Codec ---------------------------------
(***************************************************************************)
(* The messages on the wire: what the manager encodes (Packet.cpp,         *)
(* Utils.cpp) and a client parses, and what a client builds and the        *)
(* manager decodes.  The clients are those of src/tool/udp_client_gui.py,  *)
(* which has its own idea of the format.                                   *)
(*                                                                         *)
(* Bytes are 0..255 and strings are sequences of bytes.  A state holds one *)
(* message; at says how far it is on its way.  The manager's own texts     *)
(* ("Ping", "Timeout " and a time) have 4 and 27 bytes; encode is given    *)
(* others too.                                                             *)
(***************************************************************************)
EXTENDS Integers, Sequences, SequencesExt, FiniteSetsExt

CONSTANTS
  PING_PLAYLOADLENGTH, NOTIFY_PLAYLOADLENGTH,  \* 20 and 40 in Utils.h
  Texts,       \* bound: texts of messages
  Types,       \* bound: bytes in the place of a TypeNode
  Ports,       \* bound: UDP ports, in host order
  Datagrams    \* bound: datagrams that no client has built

Byte == 0..255
Port == {n \in Nat : n <= 65535}
BUFFER_SIZE == 256

ASSUME CodecAssumption ==
  /\ PING_PLAYLOADLENGTH \in 3..255 /\ NOTIFY_PLAYLOADLENGTH \in 7..255
  /\ Texts \subseteq Seq(Byte) /\ Datagrams \subseteq Seq(Byte)
  /\ Types \subseteq Byte /\ Ports \subseteq Port

VARIABLES
  at,        \* "idle", "down" (to the client), "up" (to the manager), "read"
  packet,    \* what the sender means
  datagram,  \* its bytes
  got,       \* what the receiver makes of it
  offset     \* where encode or decode left its bit offset

vars == <<at, packet, datagram, got, offset>>

REGISTER == 0
PING == 1
PONG == 2
NOTIFY == 3
TIMEOUT == 2    \* of StateList
BASE == 0       \* of TypeNode
DATA_PLANE == 1
OAM == 3

Nothing == [type |-> -1]

-----------------------------------------------------------------------------
(* Utils.cpp.  Bit k of a string is bit 7 - k % 8 of byte k / 8. *)

(* value >> bitCount, of a uint16_t at most. *)
ShiftRight(value, bitCount) ==
  LET shifted[i \in 0..16] == IF i = 0 THEN value ELSE shifted[i - 1] \div 2
  IN shifted[bitCount]

Bit(str, k) == ShiftRight(str[k \div 8 + 1], 7 - (k % 8)) % 2

(* set_bits of a value, and of a string: the bits they write. *)
ValueBits(value, bitCount) ==
  [i \in 1..bitCount |-> ShiftRight(value, bitCount - i) % 2]

StringBits(str, strLen) == [i \in 1..(8 * strLen) |-> Bit(str, i - 1)]

\* Mutant: the bits are shifted too far.
MutNumber(bits) ==
  LET value[i \in 0..Len(bits)] ==
        IF i = 0 THEN 0 ELSE 2 * (value[i - 1] + bits[i])
  IN value[Len(bits)]

(* The number that bits make, each shifted to its place.                   *)
Number(bits) ==
  LET value[i \in 0..Len(bits)] == IF i = 0 THEN 0 ELSE 2 * value[i - 1] + bits[i]
  IN value[Len(bits)]

(* The bits are or-ed into the buffer at the offset, which they advance.   *)
set_bits(c, bits) ==
  LET end == c.offset + Len(bits)
      Written(k) == IF k \in c.offset..(end - 1) THEN bits[k - c.offset + 1] ELSE 0
      NewBit(k) == IF Bit(c.buffer, k) + Written(k) > 0 THEN 1 ELSE 0
      NewByte(j) == Number([i \in 1..8 |-> NewBit(8 * (j - 1) + i - 1)])
      Touched == (c.offset \div 8 + 1)..((end + 7) \div 8)
  IN [buffer |-> [j \in DOMAIN c.buffer |->
                    IF j \in Touched THEN NewByte(j) ELSE c.buffer[j]],
      offset |-> end]

(* get_bits of a value, and of a string. *)
get_bits(buffer, from, numBits) ==
  Number([i \in 1..numBits |-> Bit(buffer, from + i - 1)])

get_string(buffer, from, strLen) ==
  [i \in 1..strLen |-> get_bits(buffer, from + 8 * (i - 1), 8)]

-----------------------------------------------------------------------------
(* Packet.cpp. *)

\* Mutant: no room is left for the final null.
MutFitting(size, sizeRemain) == IF size < sizeRemain THEN size ELSE sizeRemain

(* How much of a message of the given size is written. *)
Fitting(size, sizeRemain) == IF size < sizeRemain THEN size ELSE sizeRemain - 1

(* The header, field after field. *)
Header(p, empty) ==
  LET Field(c, value, bitCount) == set_bits(c, ValueBits(value, bitCount))
      header == Field(Field(empty, p.type, 8), p.payloadLengh, 8)
  IN IF p.type = NOTIFY
     THEN Field(Field(Field(header, p.typeNode, 8), p.portNodeNotify, 16),
                p.stateNodeNotify, 8)
     ELSE header

(* PingPacket::encode and NotifyPacket::encode: into a zeroed buffer with  *)
(* one byte to spare, of which the payload is sent.                        *)
encode(p) ==
  LET empty == [buffer |-> [j \in 1..(p.payloadLengh + 1) |-> 0], offset |-> 0]
      header == Header(p, empty)
      sizeRemain == p.payloadLengh - header.offset \div 8
  IN set_bits(header, StringBits(p.message, Fitting(Len(p.message), sizeRemain)))

(* A C string ends at its first null. *)
UpToNull(str) ==
  SubSeq(str, 1, SelectInSeq(Append(str, 0), LAMBDA c : c = 0) - 1)

\* Mutant: the type of the node is not counted.
MutHeaderLength(type) == 2

HeaderLength(type) == IF type = REGISTER THEN 3 ELSE 2

(* RigisterPacket::decode and PongPacket::decode: the second byte says     *)
(* where the message ends, however long the datagram was.                  *)
decode(buffer) ==
  LET type == get_bits(buffer, 0, 8)
      payloadLengh == get_bits(buffer, 8, 8)
      header == HeaderLength(type)
      size == payloadLengh - header
      message == IF size > 0 THEN get_string(buffer, 8 * header, size) ELSE <<>>
  IN CASE type = REGISTER -> [type |-> type, payloadLengh |-> payloadLengh,
                              typeNode |-> get_bits(buffer, 16, 8),
                              message |-> UpToNull(message)]
       [] type = PONG -> [type |-> type, payloadLengh |-> payloadLengh,
                          message |-> message]
       [] OTHER -> Nothing

DecodeOffset(p) ==
  IF p = Nothing THEN 8 ELSE 8 * Max({HeaderLength(p.type), p.payloadLengh})

\* Mutant: the buffer is not cleared.
MutRecvDataUDP(d) == [i \in 1..BUFFER_SIZE |-> IF i <= Len(d) THEN d[i] ELSE 1]

(* recvDataUDP: at most BUFFER_SIZE - 1 bytes, into a zeroed buffer.       *)
(* <<>> stands for WSAECONNRESET and an empty datagram too.                *)
recvDataUDP(d) == [i \in 1..BUFFER_SIZE |-> IF i <= Len(d) THEN d[i] ELSE 0]

-----------------------------------------------------------------------------
(* The client. *)

(* build_register_packet and build_pong_packet, which refuse a packet of   *)
(* more than 255 bytes.                                                    *)
Build(type, body) == <<type, 2 + Len(body)>> \o body

(* parse_incoming_packet: only the bytes that the length byte counts;      *)
(* the port is unpacked little-endian.                                     *)
parse_incoming_packet(d) ==
  LET payload == SubSeq(d, 3, d[2])
  IN IF Len(d) < 2 \/ Len(d) < d[2] \/ d[2] < 2 THEN Nothing
     ELSE CASE d[1] = PING -> [type |-> PING, message |-> payload]
            [] d[1] = NOTIFY /\ Len(payload) >= 4 ->
                 [type |-> NOTIFY, typeNode |-> payload[1],
                  port |-> payload[2] + 256 * payload[3], state |-> payload[4],
                  message |-> SubSeq(payload, 5, Len(payload))]
            [] OTHER -> Nothing

-----------------------------------------------------------------------------
Init ==
  at = "idle" /\ packet = Nothing /\ datagram = <<>> /\ got = Nothing /\ offset = 0

(* encode, and send the payload. *)
Send(p) ==
  /\ at = "idle"
  /\ packet' = p
  /\ LET c == encode(p)
     IN /\ datagram' = SubSeq(c.buffer, 1, p.payloadLengh)
        /\ offset' = c.offset
  /\ at' = "down"
  /\ UNCHANGED got

checkPingMessage(text) ==
  Send([type |-> PING, payloadLengh |-> PING_PLAYLOADLENGTH, message |-> text])

\* Mutant: ntohs(sin_port).
MutSinPort(port) == port

(* sin_port, in network order, read as a number by a little-endian machine. *)
SinPort(port) == 256 * (port % 256) + (port \div 256)

checkNotifyMessage(typeNode, port, text) ==
  Send([type |-> NOTIFY, payloadLengh |-> NOTIFY_PLAYLOADLENGTH, typeNode |-> typeNode,
        portNodeNotify |-> SinPort(port), stateNodeNotify |-> TIMEOUT,
        port |-> port, message |-> text])

udp_listener ==
  /\ at = "down"
  /\ got' = parse_incoming_packet(datagram)
  /\ at' = "read"
  /\ UNCHANGED <<packet, datagram, offset>>

(* Something for the manager: p says what, if a client meant anything. *)
Arrive(p, d) ==
  /\ at = "idle"
  /\ Len(d) <= 255
  /\ packet' = p
  /\ datagram' = d
  /\ at' = "up"
  /\ UNCHANGED <<got, offset>>

send_register(typeNode, text) ==
  Arrive([type |-> REGISTER, typeNode |-> typeNode, message |-> text],
         Build(REGISTER, <<typeNode>> \o text))

send_pong(text) == Arrive([type |-> PONG, message |-> text], Build(PONG, text))

(* recvDataUDP, checkMessageType and pushMessageReceived. *)
pushMessageReceived ==
  /\ at = "up"
  /\ got' = decode(recvDataUDP(datagram))
  /\ offset' = DecodeOffset(got')
  /\ at' = "read"
  /\ UNCHANGED <<packet, datagram>>

(* The message is done with. *)
Finish ==
  /\ at = "read"
  /\ at' = "idle" /\ packet' = Nothing /\ datagram' = <<>> /\ got' = Nothing
  /\ offset' = 0

Next ==
  \/ \E text \in Texts :
       \/ checkPingMessage(text)
       \/ \E typeNode \in Types \cap DATA_PLANE..OAM, port \in Ports :
            checkNotifyMessage(typeNode, port, text)
       \/ \E typeNode \in Types : send_register(typeNode, text)
       \/ send_pong(text)
  \/ \E d \in Datagrams : Arrive(Nothing, d)
  \/ udp_listener
  \/ pushMessageReceived
  \/ Finish

Spec == Init /\ [][Next]_vars

-----------------------------------------------------------------------------
TypeOK ==
  /\ at \in {"idle", "down", "up", "read"}
  /\ packet = Nothing \/ packet.type \in REGISTER..NOTIFY
  /\ datagram \in Seq(Byte)
  /\ got # Nothing => got.type \in REGISTER..NOTIFY /\ got.message \in Seq(Byte)
  /\ offset \in Nat

(* The client gets what the manager meant: the node's type, state and      *)
(* port, which is written in the byte order of the manager's machine and   *)
(* read in the opposite one to the header's, and the text, of which only   *)
(* what does not leave room for a final null is cut off.                   *)
ClientUnderstands ==
  at = "read" /\ packet.type \in {PING, NOTIFY} =>
    LET room == IF packet.type = PING THEN PING_PLAYLOADLENGTH - 3
                                      ELSE NOTIFY_PLAYLOADLENGTH - 7
    IN /\ got.type = packet.type
       /\ Last(got.message) = 0
       /\ UpToNull(got.message) =
            UpToNull(SubSeq(packet.message, 1, Min({room, Len(packet.message)})))
       /\ packet.type = NOTIFY =>
            /\ got.typeNode = packet.typeNode
            /\ got.port = packet.port
            /\ got.state = TIMEOUT

(* The manager gets what the client meant, for messages of any length that *)
(* fits, and nothing of an earlier datagram.                               *)
ManagerUnderstands ==
  at = "read" /\ packet.type \in {REGISTER, PONG} =>
    /\ got.type = packet.type
    /\ UpToNull(got.message) = UpToNull(packet.message)
    /\ packet.type = REGISTER => got.typeNode = packet.typeNode
    /\ packet.type = PONG => got.message = packet.message

(* Neither encode nor decode leaves its buffer, whatever the length byte   *)
(* of a datagram says and however long a text is; encode keeps the last    *)
(* byte of the payload for the null.                                       *)
InBounds ==
  offset <= 8 * (IF packet.type \in {PING, NOTIFY} THEN packet.payloadLengh - 1
                                                   ELSE BUFFER_SIZE)

(* A buffer that recvDataUDP has not filled reads as a REGISTER.  It never *)
(* registers a node: that takes a datagram that names the node's type.     *)
NoNodeFromNothing ==
  at = "read" /\ got.type = REGISTER /\ got.typeNode # BASE => Len(datagram) >= 3
=============================================================================
