------------------------------- MODULE IOHandler -------------------------------
(***************************************************************************)
(* The I/O half of the program: UDPReceived (udp_connected_lib/            *)
(* UDPConnector.cpp) reads datagrams from the socket into                  *)
(* g_bufferUDPRecv; IOHandler's receive thread (RX) turns them into        *)
(* packets on g_receivedIOQueue; its send thread (TX) writes the packets   *)
(* of g_sendIOQueue to the socket; the main thread starts and stops        *)
(* IOHandler.  AppCtrl is the rest of the main thread.                     *)
(*                                                                         *)
(* Packets are allocated by one thread and deleted by another: the set     *)
(* live holds the ones that are allocated.  A packet to the manager is     *)
(* identified by the number of its datagram, one to the socket by the      *)
(* number of the manager's push.                                           *)
(*                                                                         *)
(* The network and NodeManagament are the environment: datagrams arrive in *)
(* any number and kind; the manager pops and deletes packets, and pushes   *)
(* pings and notifications.  The contents of a message are reduced to its  *)
(* type; Codec is about them.                                              *)
(***************************************************************************)
EXTENDS Integers, Sequences, SequencesExt

CONSTANTS
  MaxDatagrams,   \* bound: returns of recvDataUDP with 0
  MaxSends,       \* bound: packets the manager pushes
  MaxStarts,      \* bound: calls of IOHandler::start
  MAX_SAFE_QUEUE, \* capacity of a ThreadSafeQueue (100000 in Utils.h)
  SentTypes       \* bound: types of the messages that clients send

(* Every type but REGISTER and PONG is ignored. *)
TypeMessage == {"REGISTER", "PONG", "OTHER"}

ASSUME IOAssumption ==
  /\ SentTypes \subseteq TypeMessage
  /\ MaxDatagrams \in Nat /\ MaxSends \in Nat /\ MaxStarts \in Nat
  /\ MAX_SAFE_QUEUE \in Nat \ {0}

VARIABLES
  m_running,          \* IOHandler::m_running
  mainAt, quitting,   \* main thread: location; whether it is in finalize()
  starts,             \* calls of IOHandler::start so far
  sock,               \* of the SharedContext; INVALID_SOCKET without one
  udpAt, dataUDP, arrived,        \* UDPReceived's thread; datagrams so far
  g_bufferUDPRecv, bufferOpen,    \* the queue and its m_running
  rxAt, dataPDU,                  \* RX: location, datagram
  g_receivedIOQueue, receivedOpen,
  managerAt, produced,            \* the manager's threads; pushes so far
  g_sendIOQueue, sendOpen,
  txAt, packet,                   \* TX: location, packet
  live,               \* packets allocated and not deleted
  consumed, sent      \* history: last datagram the manager, last packet the
                      \* socket has been given

flags == <<m_running, quitting, starts, sock>>
mainVars == <<flags, mainAt>>
udpVars == <<udpAt, dataUDP, arrived>>
bufferVars == <<g_bufferUDPRecv, bufferOpen>>
rxVars == <<rxAt, dataPDU>>
receivedVars == <<g_receivedIOQueue, receivedOpen, consumed>>
managerVars == <<managerAt, produced>>
sendVars == <<g_sendIOQueue, sendOpen>>
txVars == <<txAt, packet, sent>>
receiveSide == <<udpVars, bufferVars, rxVars, receivedVars>>
sendSide == <<managerVars, sendVars, txVars>>
vars == <<mainVars, receiveSide, sendSide, live>>

(* DataReceivedUDP, numbered.  A zeroed buffer reads as a REGISTER.  It is *)
(* what dataPDU starts with, and what recvDataUDP returns for an empty     *)
(* datagram and for WSAECONNRESET.                                         *)
Datagram == [seq : Nat \ {0}, m_typeMess : TypeMessage]
NoDatagram == [seq |-> 0, m_typeMess |-> "REGISTER"]

PacketId == [to : {"manager", "socket"}, seq : Nat \ {0}]
ToManager(k) == [to |-> "manager", seq |-> k]
ToSocket(k) == [to |-> "socket", seq |-> k]
NULL == 0
INITIAL == -1   \* the Packet that handleTxThread allocates to start with

TypeOK ==
  /\ m_running \in BOOLEAN
  /\ mainAt \in {"init", "initIO", "idle", "startSend", "startBuffer",
                 "stopBuffer", "stopSend", "join", "stopManager",
                 "joinManager", "close", "closed"}
  /\ quitting \in BOOLEAN
  /\ starts \in 0..MaxStarts
  /\ sock \in {"INVALID_SOCKET", "open", "closed"}
  /\ udpAt \in {"absent", "recv", "check", "push"}
  /\ dataUDP \in Datagram \cup {NoDatagram}
  /\ arrived \in 0..MaxDatagrams
  /\ g_bufferUDPRecv \in Seq(Datagram)
  /\ bufferOpen \in BOOLEAN
  /\ rxAt \in {"exited", "pop", "check", "push"}
  /\ dataPDU \in Datagram \cup {NoDatagram}
  /\ g_receivedIOQueue \in Seq(Nat \ {0})
  /\ receivedOpen \in BOOLEAN
  /\ consumed \in Nat
  /\ managerAt \in {"absent", "idle", "next", "check", "push"}
  /\ produced \in 0..MaxSends
  /\ g_sendIOQueue \in Seq(Nat \ {0})
  /\ sendOpen \in BOOLEAN
  /\ txAt \in {"exited", "pop", "send"}
  /\ packet \in Nat \cup {INITIAL}
  /\ sent \in Nat
  /\ live \subseteq PacketId

(* The constructors. *)
Init ==
  /\ m_running = FALSE /\ mainAt = "init" /\ quitting = FALSE /\ starts = 0
  /\ sock = "INVALID_SOCKET"
  /\ udpAt = "absent" /\ dataUDP = NoDatagram /\ arrived = 0
  /\ g_bufferUDPRecv = <<>> /\ bufferOpen = TRUE
  /\ rxAt = "exited" /\ dataPDU = NoDatagram
  /\ g_receivedIOQueue = <<>> /\ receivedOpen = TRUE /\ consumed = 0
  /\ managerAt = "absent" /\ produced = 0
  /\ g_sendIOQueue = <<>> /\ sendOpen = TRUE
  /\ txAt = "exited" /\ packet = NULL /\ sent = 0
  /\ live = {}

\* Mutant: push_front.
MutPushed(q, value) == <<value>> \o q

(* push(value, true) under the lock of a queue holding q. *)
Pushed(q, value) ==
  Append(IF Len(q) >= MAX_SAFE_QUEUE THEN Tail(q) ELSE q, value)

-----------------------------------------------------------------------------
(* UDPReceived::handleRxThread.  Its m_running stays TRUE: the only call   *)
(* of UDPReceived::stop is commented out.                                  *)

(* recvDataUDP returns 0.  Errors other than WSAECONNRESET, such as those  *)
(* of a closed or missing socket, make the thread call it again, and       *)
(* change nothing.                                                         *)
UdpReceive(type) ==
  /\ udpAt = "recv"
  /\ sock = "open"
  /\ arrived < MaxDatagrams
  /\ arrived' = arrived + 1
  /\ dataUDP' = [seq |-> arrived + 1, m_typeMess |-> type]
  /\ udpAt' = "check"
  /\ UNCHANGED <<mainVars, bufferVars, rxVars, receivedVars, sendSide, live>>

(* push tests g_bufferUDPRecv's m_running before it locks. *)
UdpCheck ==
  /\ udpAt = "check"
  /\ udpAt' = IF bufferOpen THEN "push" ELSE "recv"
  /\ UNCHANGED <<mainVars, dataUDP, arrived, bufferVars, rxVars,
                 receivedVars, sendSide, live>>

UdpPush ==
  /\ udpAt = "push"
  /\ g_bufferUDPRecv' = Pushed(g_bufferUDPRecv, dataUDP)
  /\ udpAt' = "recv"
  /\ UNCHANGED <<mainVars, dataUDP, arrived, bufferOpen, rxVars,
                 receivedVars, sendSide, live>>

Udp ==
  \/ \E type \in SentTypes : UdpReceive(type)
  \/ UdpCheck
  \/ UdpPush

-----------------------------------------------------------------------------
(* IOHandler::handleRxThread. *)

(* waitAndPop returns with a datagram or, from a stopped queue, with       *)
(* dataPDU as it was; then m_running is tested.  A REGISTER or PONG        *)
(* becomes a packet (pushMessageReceived).                                 *)
RxPop ==
  /\ rxAt = "pop"
  /\ ~bufferOpen \/ g_bufferUDPRecv # <<>>
  /\ IF bufferOpen
     THEN /\ dataPDU' = Head(g_bufferUDPRecv)
          /\ g_bufferUDPRecv' = Tail(g_bufferUDPRecv)
     ELSE UNCHANGED <<dataPDU, g_bufferUDPRecv>>
  /\ IF ~m_running
     THEN rxAt' = "exited" /\ UNCHANGED live
     ELSE IF dataPDU'.m_typeMess \in {"REGISTER", "PONG"}
          THEN rxAt' = "check" /\ live' = live \cup {ToManager(dataPDU'.seq)}
          ELSE UNCHANGED <<rxAt, live>>
  /\ UNCHANGED <<mainVars, udpVars, bufferOpen, receivedVars, sendSide>>

(* push on g_receivedIOQueue: nobody deletes a packet that it refuses, or  *)
(* that it drops at the limit.                                             *)
RxCheck ==
  /\ rxAt = "check"
  /\ rxAt' = IF receivedOpen THEN "push" ELSE "pop"
  /\ UNCHANGED <<mainVars, udpVars, bufferVars, dataPDU, receivedVars,
                 sendSide, live>>

RxPush ==
  /\ rxAt = "push"
  /\ g_receivedIOQueue' = Pushed(g_receivedIOQueue, dataPDU.seq)
  /\ rxAt' = "pop"
  /\ UNCHANGED <<mainVars, udpVars, bufferVars, dataPDU, receivedOpen,
                 consumed, sendSide, live>>

Rx == RxPop \/ RxCheck \/ RxPush

-----------------------------------------------------------------------------
(* IOHandler::handleTxThread. *)

(* waitAndPop and the test of m_running, as in RxPop; the packet in hand   *)
(* on exit is deleted.  The initial packet is of no type that is sent.     *)
TxPop ==
  /\ txAt = "pop"
  /\ ~sendOpen \/ g_sendIOQueue # <<>>
  /\ LET taken == IF sendOpen THEN Head(g_sendIOQueue) ELSE packet
     IN IF ~m_running
        THEN /\ txAt' = "exited"
             /\ packet' = NULL
             /\ live' = live \ {ToSocket(taken)}
        ELSE /\ packet' = IF taken = INITIAL THEN NULL ELSE taken
             /\ txAt' = IF packet' = NULL THEN "pop" ELSE "send"
             /\ UNCHANGED live
  /\ g_sendIOQueue' = IF sendOpen THEN Tail(g_sendIOQueue) ELSE g_sendIOQueue
  /\ UNCHANGED <<mainVars, receiveSide, managerVars, sendOpen, sent>>

(* sendDataUDP; that sendto may fail is noticed by nobody. *)
sendDataUDP(k) == sent' = k

\* Mutant: packet = nullptr is missing after the delete.
MutTxSend ==
  /\ txAt = "send"
  /\ sendDataUDP(packet)
  /\ live' = live \ {ToSocket(packet)}
  /\ UNCHANGED packet
  /\ txAt' = "pop"
  /\ UNCHANGED <<mainVars, receiveSide, managerVars, sendVars>>

(* encode, sendDataUDP, delete packet, packet = nullptr. *)
TxSend ==
  /\ txAt = "send"
  /\ sendDataUDP(packet)
  /\ live' = live \ {ToSocket(packet)}
  /\ packet' = NULL
  /\ txAt' = "pop"
  /\ UNCHANGED <<mainVars, receiveSide, managerVars, sendVars>>

Tx == TxPop \/ TxSend

-----------------------------------------------------------------------------
(* The manager, as IOHandler sees it. *)

(* handleReceivedData: waitAndPop, and delete. *)
ManagerPop ==
  /\ managerAt # "absent"
  /\ receivedOpen
  /\ g_receivedIOQueue # <<>>
  /\ g_receivedIOQueue' = Tail(g_receivedIOQueue)
  /\ consumed' = Head(g_receivedIOQueue)
  /\ live' = live \ {ToManager(Head(g_receivedIOQueue))}
  /\ UNCHANGED <<mainVars, udpVars, bufferVars, rxVars, receivedOpen,
                 sendSide>>

(* handleSendData begins to serve a message: not once the manager's        *)
(* m_running, which is TRUE while its queue is open, is cleared.           *)
ManagerServe ==
  /\ managerAt = "idle"
  /\ receivedOpen
  /\ managerAt' = "next"
  /\ UNCHANGED <<mainVars, receiveSide, produced, sendVars, txVars, live>>

(* checkPingMessage and checkNotifyMessage: new, and push, once or for     *)
(* each node; the loop goes on to its end when stop() has begun meanwhile. *)
ManagerAllocate ==
  /\ managerAt = "next"
  /\ produced < MaxSends
  /\ produced' = produced + 1
  /\ live' = live \cup {ToSocket(produced + 1)}
  /\ managerAt' = "check"
  /\ UNCHANGED <<mainVars, receiveSide, sendVars, txVars>>

ManagerCheck ==
  /\ managerAt = "check"
  /\ managerAt' = IF sendOpen THEN "push" ELSE "next"
  /\ UNCHANGED <<mainVars, receiveSide, produced, sendVars, txVars, live>>

ManagerPush ==
  /\ managerAt = "push"
  /\ g_sendIOQueue' = Pushed(g_sendIOQueue, produced)
  /\ managerAt' = "next"
  /\ UNCHANGED <<mainVars, receiveSide, produced, sendOpen, txVars, live>>

ManagerReturn ==
  /\ managerAt = "next"
  /\ managerAt' = "idle"
  /\ UNCHANGED <<mainVars, receiveSide, produced, sendVars, txVars, live>>

Manager ==
  \/ ManagerPop \/ ManagerServe \/ ManagerAllocate
  \/ ManagerCheck \/ ManagerPush \/ ManagerReturn

-----------------------------------------------------------------------------
(* The main thread in IOHandler::start and IOHandler::stop. *)

Advance(from, to) == mainAt = from /\ mainAt' = to

(* UDPReceived::start, which does nothing when its thread runs already. *)
StartUdp ==
  /\ udpAt' = IF udpAt = "absent" THEN "recv" ELSE udpAt
  /\ UNCHANGED <<dataUDP, arrived>>

start ==
  /\ mainAt \in {"initIO", "idle"} /\ mainAt' = "startSend"
  /\ ~m_running
  /\ starts < MaxStarts
  /\ starts' = starts + 1
  /\ m_running' = TRUE
  /\ StartUdp
  /\ UNCHANGED <<quitting, sock, bufferVars, rxVars, receivedVars,
                 sendSide, live>>

StartSendQueue ==
  /\ Advance("startSend", "startBuffer")
  /\ sendOpen' = TRUE
  /\ UNCHANGED <<flags, receiveSide, managerVars, g_sendIOQueue, txVars,
                 live>>

\* Mutant: g_bufferUDPRecv is not started again.
MutStartBufferAndThreads ==
  /\ Advance("startBuffer", "idle")
  /\ rxAt' = "pop" /\ dataPDU' = NoDatagram
  /\ txAt' = "pop" /\ packet' = INITIAL
  /\ UNCHANGED <<flags, udpVars, bufferVars, receivedVars, managerVars,
                 sendVars, sent, live>>

(* g_bufferUDPRecv is started, then RX and TX. *)
StartBufferAndThreads ==
  /\ Advance("startBuffer", "idle")
  /\ bufferOpen' = TRUE
  /\ rxAt' = "pop" /\ dataPDU' = NoDatagram
  /\ txAt' = "pop" /\ packet' = INITIAL
  /\ UNCHANGED <<flags, udpVars, g_bufferUDPRecv, receivedVars, managerVars,
                 sendVars, sent, live>>

\* Mutant: the queues are stopped while m_running is still set.
MutStop ==
  /\ Advance("idle", "stopBuffer")
  /\ m_running
  /\ UNCHANGED <<flags, receiveSide, sendSide, live>>

stop ==
  /\ Advance("idle", "stopBuffer")
  /\ m_running
  /\ m_running' = FALSE
  /\ UNCHANGED <<quitting, starts, sock, receiveSide, sendSide, live>>

StopBuffer ==
  /\ Advance("stopBuffer", "stopSend")
  /\ bufferOpen' = FALSE
  /\ UNCHANGED <<flags, udpVars, g_bufferUDPRecv, rxVars, receivedVars,
                 sendSide, live>>

\* Mutant: g_sendIOQueue is not stopped.
MutStopSendQueue ==
  /\ Advance("stopSend", "join")
  /\ UNCHANGED <<flags, receiveSide, sendSide, live>>

StopSendQueue ==
  /\ Advance("stopSend", "join")
  /\ sendOpen' = FALSE
  /\ UNCHANGED <<flags, receiveSide, managerVars, g_sendIOQueue, txVars,
                 live>>

\* Mutant: a thread is detached.
MutJoined(at) == TRUE

Joined(at) == at = "exited"

(* RX and TX are joined; stop() returns, to execute() or to finalize(). *)
JoinThreads ==
  /\ mainAt = "join"
  /\ Joined(rxAt) /\ Joined(txAt)
  /\ mainAt' = IF quitting THEN "stopManager" ELSE "idle"
  /\ UNCHANGED <<flags, receiveSide, sendSide, live>>

-----------------------------------------------------------------------------
(* Order and multiplicity, receiving: the manager gets packets in the      *)
(* order in which their datagrams arrived, and no datagram twice, whatever *)
(* is dropped and however often IOHandler and the manager are stopped and  *)
(* started.  In particular RX never turns the datagram it still holds into *)
(* a second packet when its queue is stopped under it.                     *)
Increasing(s) == \A i, j \in 1..Len(s) : i < j => s[i] < s[j]

ReceivedInOrder ==
  Increasing(<<consumed>> \o g_receivedIOQueue
             \o (IF rxAt \in {"check", "push"} THEN <<dataPDU.seq>> ELSE <<>>)
             \o [i \in 1..Len(g_bufferUDPRecv) |-> g_bufferUDPRecv[i].seq]
             \o (IF udpAt \in {"check", "push"} THEN <<dataUDP.seq>> ELSE <<>>))

(* Order and multiplicity, sending: the packets go to the socket in the    *)
(* order in which the manager pushed them, and none twice.                 *)
SentInOrder ==
  Increasing(<<sent>> \o (IF txAt = "send" THEN <<packet>> ELSE <<>>)
             \o g_sendIOQueue)

(* Ownership: a packet that a queue holds, or a thread will use or delete, *)
(* has not been deleted.                                                   *)
NoDanglingPacket ==
  /\ \A i \in 1..Len(g_receivedIOQueue) : ToManager(g_receivedIOQueue[i]) \in live
  /\ rxAt \in {"check", "push"} => ToManager(dataPDU.seq) \in live
  /\ \A i \in 1..Len(g_sendIOQueue) : ToSocket(g_sendIOQueue[i]) \in live
  /\ packet \notin {NULL, INITIAL} => ToSocket(packet) \in live

(* After stop() has returned IOHandler is silent: until it is started      *)
(* again nothing is sent and the manager gets nothing new, not even in     *)
(* the place of an older packet of a full queue.                           *)
SilentWhenStopped ==
  [][mainAt = "idle" /\ ~m_running =>
       /\ sent' = sent
       /\ \/ g_receivedIOQueue' = g_receivedIOQueue
          \/ /\ g_receivedIOQueue # <<>>
             /\ g_receivedIOQueue' = Tail(g_receivedIOQueue)]_vars

-----------------------------------------------------------------------------
(* What a comment of the repository says, and the code does not do. *)

(* IOHandler.cpp: "The caller is responsible for eventually deleting the   *)
(* allocated Packet": a packet is deleted or somebody still has it.        *)
PacketIsOwned ==
  \A k \in 1..MaxDatagrams : ToManager(k) \in live =>
    \/ Contains(g_receivedIOQueue, k)
    \/ rxAt \in {"check", "push"} /\ dataPDU.seq = k
=============================================================================
