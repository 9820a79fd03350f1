----------------------------- MODULE AppCtrlProofs -----------------------------
(***************************************************************************)
(* Proofs about IOHandler and AppCtrl, for any number of datagrams, sends  *)
(* and restarts and any queue capacity: what the main thread's location    *)
(* says about the other threads, the order of what goes through the        *)
(* queues, and who owns a packet.                                          *)
(***************************************************************************)
EXTENDS AppCtrl, TLAPS

HoldsUdp == udpAt \in {"check", "push"}
HoldsRx == rxAt \in {"check", "push"}
HoldsTx == txAt = "send"
HoldsManager == managerAt \in {"check", "push"}

(* m_running is set between start() and stop(), and while it is, RX and TX *)
(* find their queues started; when it is not, RX and TX have ended, or the *)
(* main thread is about to join them.  The socket is closed at the very    *)
(* end, when the manager has ended too.                                    *)
MainControl ==
  /\ m_running => mainAt \in {"startSend", "startBuffer", "idle", "joinManager"}
  /\ mainAt \in {"startSend", "startBuffer"}
       => m_running /\ rxAt = "exited" /\ txAt = "exited"
  /\ ~m_running /\ mainAt \notin {"stopBuffer", "stopSend", "join"}
       => rxAt = "exited" /\ txAt = "exited"
  /\ mainAt = "startBuffer" => sendOpen
  /\ m_running /\ mainAt \notin {"startSend", "startBuffer"} => bufferOpen /\ sendOpen
  /\ quitting => mainAt \in {"stopBuffer", "stopSend", "join", "stopManager",
                             "joinManager", "close", "closed"}
  /\ quitting => ~m_running
  /\ mainAt \in {"stopManager", "close", "closed"} => quitting
  /\ mainAt \in {"close", "closed"} => managerAt = "absent"
  /\ sock = "closed" => mainAt = "closed"

(* What the threads have in hand.                                          *)
InHand ==
  /\ HoldsUdp => dataUDP \in Datagram
  /\ HoldsRx => dataPDU \in Datagram
  /\ HoldsManager => produced > 0
  /\ txAt = "exited" => packet = NULL
  /\ txAt = "pop" => packet \in {NULL, INITIAL}
  /\ txAt = "send" => packet \in Nat \ {0}

(* Number k is newer than what the manager has got or will get next, than  *)
(* what RX holds, and than what is buffered.                               *)
AfterReceived(k) ==
  consumed < k /\ \A i \in 1..Len(g_receivedIOQueue) : g_receivedIOQueue[i] < k
AfterRx(k) == AfterReceived(k) /\ (HoldsRx => dataPDU.seq < k)
AfterBuffer(k) ==
  AfterRx(k) /\ \A i \in 1..Len(g_bufferUDPRecv) : g_bufferUDPRecv[i].seq < k

(* The numbers rise from the manager back to the network.                  *)
ReceiveOrder ==
  /\ \A i \in 1..Len(g_receivedIOQueue) : consumed < g_receivedIOQueue[i]
  /\ Increasing(g_receivedIOQueue)
  /\ HoldsRx => AfterReceived(dataPDU.seq)
  /\ \A i \in 1..Len(g_bufferUDPRecv) : AfterRx(g_bufferUDPRecv[i].seq)
  /\ \A i, j \in 1..Len(g_bufferUDPRecv) :
       i < j => g_bufferUDPRecv[i].seq < g_bufferUDPRecv[j].seq
  /\ HoldsUdp => AfterBuffer(dataUDP.seq) /\ dataUDP.seq <= arrived
  /\ AfterBuffer(arrived + 1)

AfterSent(k) ==
  /\ sent < k
  /\ HoldsTx => packet < k
  /\ \A i \in 1..Len(g_sendIOQueue) : g_sendIOQueue[i] < k

(* And from the socket back to the manager.                                *)
SendOrder ==
  /\ \A i \in 1..Len(g_sendIOQueue) : sent < g_sendIOQueue[i]
  /\ Increasing(g_sendIOQueue)
  /\ HoldsTx => sent < packet /\ \A i \in 1..Len(g_sendIOQueue) : packet < g_sendIOQueue[i]
  /\ HoldsManager => AfterSent(produced)
  /\ AfterSent(produced + 1)

(* A packet is allocated as long as a queue or a thread has it.            *)
ReceiveOwned ==
  /\ \A i \in 1..Len(g_receivedIOQueue) : ToManager(g_receivedIOQueue[i]) \in live
  /\ HoldsRx => ToManager(dataPDU.seq) \in live

SendOwned ==
  /\ \A i \in 1..Len(g_sendIOQueue) : ToSocket(g_sendIOQueue[i]) \in live
  /\ HoldsTx => ToSocket(packet) \in live
  /\ HoldsManager => ToSocket(produced) \in live

IOInv ==
  /\ TypeOK /\ MainControl /\ InHand
  /\ ReceiveOrder /\ SendOrder
  /\ ReceiveOwned /\ SendOwned

-----------------------------------------------------------------------------
(* push drops the oldest value when the queue is full.                     *)
Dropped(q) == IF Len(q) >= MAX_SAFE_QUEUE THEN 1 ELSE 0

(* push on a queue: what was there moves up by one place if the oldest     *)
(* value is dropped, and the new value comes last.                         *)
LEMMA PushedShift ==
  ASSUME NEW S, NEW q \in Seq(S), NEW v \in S
  PROVE  /\ Pushed(q, v) \in Seq(S)
         /\ Len(Pushed(q, v)) \in Nat \ {0}
         /\ Pushed(q, v)[Len(Pushed(q, v))] = v
         /\ \A i \in 1..Len(Pushed(q, v)) :
              i # Len(Pushed(q, v)) => /\ i + Dropped(q) \in 1..Len(q)
                                       /\ Pushed(q, v)[i] = q[i + Dropped(q)]
<1>1. CASE Len(q) >= MAX_SAFE_QUEUE
  <2>1. q # <<>> /\ Pushed(q, v) = Append(Tail(q), v)
    BY <1>1, IOAssumption DEF Pushed
  <2>2. /\ Append(Tail(q), v) \in Seq(S)
        /\ Len(Append(Tail(q), v)) = Len(q) /\ Len(q) \in Nat \ {0}
        /\ Append(Tail(q), v)[Len(q)] = v
        /\ \A i \in 1..Len(q) : i # Len(q) =>
             i + 1 \in 1..Len(q) /\ Append(Tail(q), v)[i] = q[i + 1]
    BY <2>1
  <2> QED BY <1>1, <2>1, <2>2 DEF Dropped
<1>2. CASE ~(Len(q) >= MAX_SAFE_QUEUE)
  <2>1. Pushed(q, v) = Append(q, v)
    BY <1>2 DEF Pushed
  <2>2. /\ Append(q, v) \in Seq(S)
        /\ Len(Append(q, v)) = Len(q) + 1 /\ Len(q) \in Nat
        /\ Append(q, v)[Len(q) + 1] = v
        /\ \A i \in 1..Len(q) + 1 : i # Len(q) + 1 =>
             i + 0 \in 1..Len(q) /\ Append(q, v)[i] = q[i + 0]
    OBVIOUS
  <2> QED BY <1>2, <2>1, <2>2 DEF Dropped
<1> QED BY <1>1, <1>2

(* What holds of every value of a queue and of the new one holds of all,   *)
(* and a new value that is greater than all keeps the order.               *)
LEMMA PushedIncreasing ==
  ASSUME NEW q \in Seq(Nat \ {0}), NEW v \in Nat \ {0},
         Increasing(q), \A i \in 1..Len(q) : q[i] < v
  PROVE  /\ Increasing(Pushed(q, v))
         /\ \A i \in 1..Len(Pushed(q, v)) :
              Pushed(q, v)[i] = v \/ \E j \in 1..Len(q) : Pushed(q, v)[i] = q[j]
<1> DEFINE r == Pushed(q, v)
           N == Nat \ {0}
           d == Dropped(q)
<1>0. q \in Seq(N) /\ v \in N
  OBVIOUS
<1> HIDE DEF N
<1>1. \A i \in 1..Len(r) : i # Len(r) => i + d \in 1..Len(q) /\ r[i] = q[i + d]
  BY <1>0, PushedShift
<1>2. Len(r) \in Nat \ {0} /\ r[Len(r)] = v
  BY <1>0, PushedShift
<1>3. Len(q) \in Nat /\ \A i \in 1..Len(q) : q[i] \in Nat
  OBVIOUS
<1>4. d \in {0, 1}
  BY DEF Dropped
<1> HIDE DEF r, d
<1>5. ASSUME NEW i \in 1..Len(r), NEW j \in 1..Len(r), i < j
      PROVE  r[i] < r[j]
  <2>1. i # Len(r) /\ i + d \in 1..Len(q) /\ r[i] = q[i + d]
    BY <1>1, <1>2, <1>5, <1>4
  <2>2. CASE j = Len(r)
    BY <1>2, <2>1, <2>2
  <2>3. CASE j # Len(r)
    BY <1>1, <1>4, <1>5, <2>1, <2>3 DEF Increasing
  <2> QED BY <2>2, <2>3
<1>6. \A i \in 1..Len(r) : r[i] = v \/ \E j \in 1..Len(q) : r[i] = q[j]
  BY <1>1, <1>2
<1> QED BY <1>5, <1>6 DEF Increasing, r

(* Numbers stay numbers.                                                   *)
LEMMA NumberQueue ==
  ASSUME NEW q \in Seq(Nat \ {0}), NEW v \in Nat \ {0}
  PROVE  Pushed(q, v) \in Seq(Nat \ {0})
<1> DEFINE N == Nat \ {0}
<1>1. q \in Seq(N) /\ v \in N
  OBVIOUS
<1> HIDE DEF N
<1>2. Pushed(q, v) \in Seq(N)
  BY <1>1, PushedShift
<1> QED BY <1>2 DEF N

(* The same for datagrams.                                                 *)
LEMMA DatagramPushed ==
  ASSUME NEW q \in Seq(Datagram), NEW v \in Datagram,
         \A i, j \in 1..Len(q) : i < j => q[i].seq < q[j].seq,
         \A i \in 1..Len(q) : q[i].seq < v.seq
  PROVE  /\ Pushed(q, v) \in Seq(Datagram)
         /\ \A i, j \in 1..Len(Pushed(q, v)) :
              i < j => Pushed(q, v)[i].seq < Pushed(q, v)[j].seq
         /\ \A i \in 1..Len(Pushed(q, v)) :
              Pushed(q, v)[i] = v \/ \E j \in 1..Len(q) : Pushed(q, v)[i] = q[j]
<1> DEFINE r == Pushed(q, v)
           d == Dropped(q)
<1>1. /\ r \in Seq(Datagram) /\ Len(r) \in Nat \ {0} /\ r[Len(r)] = v
      /\ \A i \in 1..Len(r) : i # Len(r) => i + d \in 1..Len(q) /\ r[i] = q[i + d]
  BY PushedShift
<1>2. d \in {0, 1}
  BY DEF Dropped
<1> HIDE DEF r, d
<1>3. ASSUME NEW i \in 1..Len(r), NEW j \in 1..Len(r), i < j
      PROVE  r[i].seq < r[j].seq
  <2>1. i # Len(r) /\ i + d \in 1..Len(q) /\ r[i] = q[i + d]
    BY <1>1, <1>2, <1>3
  <2>2. CASE j = Len(r)
    BY <1>1, <2>1, <2>2
  <2>3. CASE j # Len(r)
    BY SMTT(20), <1>1, <1>2, <1>3, <2>1, <2>3
  <2> QED BY <2>2, <2>3
<1>4. \A i \in 1..Len(r) : r[i] = v \/ \E j \in 1..Len(q) : r[i] = q[j]
  BY <1>1
<1> QED BY <1>1, <1>3, <1>4 DEF r

(* Taking the oldest value. *)
LEMMA TailShift ==
  ASSUME NEW S, NEW q \in Seq(S), q # <<>>
  PROVE  /\ Tail(q) \in Seq(S) /\ Len(q) \in Nat \ {0} /\ Len(Tail(q)) = Len(q) - 1
         /\ Head(q) = q[1] /\ q[1] \in S
         /\ \A i \in 1..Len(Tail(q)) : i + 1 \in 1..Len(q) /\ Tail(q)[i] = q[i + 1]
  OBVIOUS

(* The same for a queue of numbers. *)
LEMMA TailNumbers ==
  ASSUME NEW q \in Seq(Nat \ {0}), q # <<>>
  PROVE  /\ Tail(q) \in Seq(Nat \ {0}) /\ Len(Tail(q)) = Len(q) - 1
         /\ Head(q) = q[1] /\ q[1] \in Nat \ {0} /\ 1 \in 1..Len(q)
         /\ \A i \in 1..Len(Tail(q)) :
              i + 1 \in 1..Len(q) /\ 1 < i + 1 /\ Tail(q)[i] = q[i + 1]
<1> DEFINE N == Nat \ {0}
<1>1. q \in Seq(N)
  OBVIOUS
<1> HIDE DEF N
<1>2. /\ Tail(q) \in Seq(N) /\ Len(q) \in Nat \ {0} /\ Len(Tail(q)) = Len(q) - 1
      /\ Head(q) = q[1] /\ q[1] \in N
      /\ \A i \in 1..Len(Tail(q)) : i + 1 \in 1..Len(q) /\ Tail(q)[i] = q[i + 1]
  BY <1>1, TailShift
<1>3. 1 \in 1..Len(q) /\ \A i \in 1..Len(Tail(q)) : 1 < i + 1
  BY <1>2
<1> QED BY <1>2, <1>3 DEF N

-----------------------------------------------------------------------------
(* The steps of UDPReceived's thread. *)
LEMMA UdpKeeps ==
  ASSUME IOInv, Udp
  PROVE  IOInv'
<1> USE IOAssumption DEF IOInv
<1>1. UNCHANGED <<mainVars, bufferOpen, rxVars, receivedVars, sendSide, live>>
  BY DEF Udp, UdpReceive, UdpCheck, UdpPush, bufferVars
<1> USE <1>1 DEF mainVars, flags, rxVars, receivedVars, sendSide, managerVars,
                 sendVars, txVars, HoldsUdp, HoldsRx, HoldsTx, HoldsManager
<1>2. MainControl' /\ SendOrder' /\ ReceiveOwned' /\ SendOwned'
  BY DEF MainControl, SendOrder, AfterSent, ReceiveOwned, SendOwned
<1>3. /\ consumed \in Nat /\ arrived \in Nat /\ g_bufferUDPRecv \in Seq(Datagram)
      /\ \A i \in 1..Len(g_bufferUDPRecv) : g_bufferUDPRecv[i].seq \in Nat
      /\ \A i \in 1..Len(g_receivedIOQueue) : g_receivedIOQueue[i] \in Nat
      /\ HoldsRx => dataPDU.seq \in Nat
      /\ HoldsUdp => dataUDP.seq \in Nat
  <2>1. \A i \in 1..Len(g_bufferUDPRecv) : g_bufferUDPRecv[i] \in Datagram
    BY DEF TypeOK
  <2> QED BY <2>1 DEF TypeOK, InHand, Datagram
<1>4. CASE \E type \in SentTypes : UdpReceive(type)
  <2>1. PICK type \in SentTypes :
          /\ arrived < MaxDatagrams /\ arrived' = arrived + 1
          /\ dataUDP' = [seq |-> arrived + 1, m_typeMess |-> type]
          /\ udpAt' = "check" /\ UNCHANGED g_bufferUDPRecv
    BY <1>4 DEF UdpReceive, bufferVars
  <2>2. TypeOK' /\ InHand'
    BY <2>1 DEF TypeOK, InHand, Datagram
  <2>3. dataUDP'.seq = arrived + 1
    BY <2>1
  <2>4. ReceiveOrder'
    BY <1>3, <2>1, <2>3
       DEF ReceiveOrder, AfterReceived, AfterRx, AfterBuffer, Increasing
  <2> QED BY <1>2, <2>2, <2>4
<1>5. CASE UdpCheck
  <2>1. TypeOK' /\ InHand'
    BY <1>5 DEF UdpCheck, bufferVars, TypeOK, InHand
  <2>2. ReceiveOrder'
    BY <1>5 DEF UdpCheck, bufferVars, ReceiveOrder, AfterReceived, AfterRx, AfterBuffer,
                Increasing
  <2> QED BY <1>2, <2>1, <2>2
<1>6. CASE UdpPush
  <2> DEFINE b == g_bufferUDPRecv
             c == g_bufferUDPRecv'
  <2>1. /\ c = Pushed(b, dataUDP) /\ udpAt = "push" /\ udpAt' = "recv"
        /\ UNCHANGED <<dataUDP, arrived>>
    BY <1>6 DEF UdpPush
  <2>2. dataUDP \in Datagram /\ b \in Seq(Datagram)
    BY <1>3, <2>1 DEF InHand
  <2> HIDE DEF b, c
  <2>3. /\ \A i \in 1..Len(b) : AfterRx(b[i].seq) /\ b[i].seq < dataUDP.seq
        /\ \A i, j \in 1..Len(b) : i < j => b[i].seq < b[j].seq
        /\ AfterRx(dataUDP.seq) /\ dataUDP.seq <= arrived
        /\ \A i \in 1..Len(b) : b[i].seq < arrived + 1
        /\ AfterRx(arrived + 1)
    BY <2>1 DEF ReceiveOrder, AfterBuffer, b
  <2>4. /\ c \in Seq(Datagram)
        /\ \A i, j \in 1..Len(c) : i < j => c[i].seq < c[j].seq
        /\ \A i \in 1..Len(c) : c[i] = dataUDP \/ \E j \in 1..Len(b) : c[i] = b[j]
    BY <2>1, <2>2, <2>3, DatagramPushed
  <2>5. TypeOK' /\ InHand'
    BY <2>1, <2>4 DEF TypeOK, InHand, c
  <2>6. \A i \in 1..Len(c) : AfterRx(c[i].seq) /\ c[i].seq < arrived + 1
    BY <1>3, <2>1, <2>3, <2>4
  <2>7. ReceiveOrder'
    BY <2>1, <2>3, <2>4, <2>6
       DEF ReceiveOrder, AfterReceived, AfterRx, AfterBuffer, Increasing, c
  <2> QED BY <1>2, <2>5, <2>7
<1> QED BY <1>4, <1>5, <1>6 DEF Udp

-----------------------------------------------------------------------------
(* RX goes on with a datagram only if its queue has given it one.          *)
LEMMA RxPopIs ==
  ASSUME MainControl, RxPop
  PROVE  /\ rxAt = "pop" /\ rxAt' \in {"exited", "pop", "check"}
         /\ rxAt' = "exited" <=> ~m_running
         /\ \/ UNCHANGED <<dataPDU, g_bufferUDPRecv>> /\ rxAt' = "exited" /\ live' = live
            \/ /\ g_bufferUDPRecv # <<>>
               /\ dataPDU' = Head(g_bufferUDPRecv)
               /\ g_bufferUDPRecv' = Tail(g_bufferUDPRecv)
               /\ IF rxAt' = "check" THEN live' = live \cup {ToManager(dataPDU'.seq)}
                                     ELSE live' = live
<1>1. rxAt = "pop" /\ (m_running => bufferOpen)
  BY DEF RxPop, MainControl
<1> QED BY <1>1 DEF RxPop

(* The steps of RX. *)
LEMMA RxKeeps ==
  ASSUME IOInv, Rx
  PROVE  IOInv'
<1> USE IOAssumption DEF IOInv
<1>1. UNCHANGED <<mainVars, udpVars, bufferOpen, receivedOpen, consumed, sendSide>>
  BY DEF Rx, RxPop, RxCheck, RxPush, receivedVars, bufferVars
<1> USE <1>1 DEF mainVars, flags, udpVars, sendSide, managerVars,
                 sendVars, txVars, HoldsUdp, HoldsRx, HoldsTx, HoldsManager
<1>2. SendOrder'
  BY DEF SendOrder, AfterSent
<1>3. MainControl'
  BY DEF Rx, RxPop, RxCheck, RxPush, MainControl
<1>4. /\ consumed \in Nat /\ arrived \in Nat /\ g_bufferUDPRecv \in Seq(Datagram)
      /\ \A i \in 1..Len(g_bufferUDPRecv) : g_bufferUDPRecv[i].seq \in Nat
      /\ g_receivedIOQueue \in Seq(Nat \ {0})
      /\ \A i \in 1..Len(g_receivedIOQueue) : g_receivedIOQueue[i] \in Nat
      /\ HoldsRx => dataPDU.seq \in Nat \ {0}
      /\ HoldsUdp => dataUDP.seq \in Nat
  <2>1. \A i \in 1..Len(g_bufferUDPRecv) : g_bufferUDPRecv[i] \in Datagram
    BY DEF TypeOK
  <2> QED BY SMTT(20), <2>1 DEF TypeOK, InHand, Datagram
<1>5. CASE RxPop
  <2>1. UNCHANGED g_receivedIOQueue /\ rxAt = "pop" /\ rxAt' \in {"exited", "pop", "check"}
    BY <1>5, RxPopIs DEF RxPop, receivedVars
  <2>2. CASE UNCHANGED <<dataPDU, g_bufferUDPRecv>> /\ rxAt' = "exited" /\ live' = live
    <3>1. TypeOK' /\ InHand'
      BY <2>1, <2>2 DEF TypeOK, InHand
    <3>2. ReceiveOrder'
      BY <2>1, <2>2 DEF ReceiveOrder, AfterReceived, AfterRx, AfterBuffer, Increasing
    <3>3. ReceiveOwned' /\ SendOwned'
      BY <2>1, <2>2 DEF ReceiveOwned, SendOwned
    <3> QED BY <1>2, <1>3, <3>1, <3>2, <3>3
  <2>3. CASE /\ g_bufferUDPRecv # <<>>
             /\ dataPDU' = Head(g_bufferUDPRecv)
             /\ g_bufferUDPRecv' = Tail(g_bufferUDPRecv)
             /\ IF rxAt' = "check" THEN live' = live \cup {ToManager(dataPDU'.seq)}
                                   ELSE live' = live
    <3> DEFINE b == g_bufferUDPRecv
               c == g_bufferUDPRecv'
    <3>0. b \in Seq(Datagram) /\ b # <<>> /\ c = Tail(b) /\ dataPDU' = Head(b)
      BY <1>4, <2>3
    <3> HIDE DEF b, c
    <3>1. /\ c \in Seq(Datagram) /\ Len(b) \in Nat \ {0} /\ Len(c) = Len(b) - 1
          /\ dataPDU' = b[1] /\ b[1] \in Datagram
          /\ \A i \in 1..Len(c) : i + 1 \in 1..Len(b) /\ c[i] = b[i + 1]
      BY <3>0, TailShift
    <3>2. TypeOK' /\ InHand'
      <4>1. dataPDU'.seq \in Nat \ {0}
        BY <3>1 DEF Datagram
      <4>2. live' \subseteq PacketId
        BY <2>3, <4>1 DEF TypeOK, PacketId, ToManager
      <4> QED BY <2>1, <3>1, <4>2 DEF TypeOK, InHand, c
    <3>3. /\ \A i \in 1..Len(b) : AfterReceived(b[i].seq)
          /\ \A i, j \in 1..Len(b) : i < j => b[i].seq < b[j].seq
          /\ HoldsUdp => /\ AfterReceived(dataUDP.seq)
                         /\ \A i \in 1..Len(b) : b[i].seq < dataUDP.seq
                         /\ dataUDP.seq <= arrived
          /\ \A i \in 1..Len(b) : b[i].seq < arrived + 1
          /\ AfterReceived(arrived + 1)
      BY DEF ReceiveOrder, AfterBuffer, AfterRx, b
    <3>4. /\ AfterReceived(b[1].seq)
          /\ \A i \in 1..Len(c) : AfterReceived(c[i].seq) /\ b[1].seq < c[i].seq
          /\ \A i, j \in 1..Len(c) : i < j => c[i].seq < c[j].seq
          /\ HoldsUdp => \A i \in 1..Len(c) : c[i].seq < dataUDP.seq
          /\ HoldsUdp => b[1].seq < dataUDP.seq
          /\ \A i \in 1..Len(c) : c[i].seq < arrived + 1
          /\ b[1].seq < arrived + 1
      <4>1. 1 \in 1..Len(b) /\ \A i \in 1..Len(c) : 1 < i + 1
        BY <3>1
      <4>2. \A i \in 1..Len(c) : AfterReceived(c[i].seq) /\ c[i].seq < arrived + 1
        BY <3>1, <3>3
      <4>3. \A i \in 1..Len(c) : b[1].seq < c[i].seq
        BY <3>1, <3>3, <4>1
      <4>4. ASSUME NEW i \in 1..Len(c), NEW j \in 1..Len(c), i < j
            PROVE  c[i].seq < c[j].seq
        <5>1. i + 1 \in 1..Len(b) /\ j + 1 \in 1..Len(b) /\ i + 1 < j + 1
          BY <3>1, <4>4
        <5> QED BY <3>1, <3>3, <5>1
      <4>5. HoldsUdp => \A i \in 1..Len(c) : c[i].seq < dataUDP.seq
        BY <3>1, <3>3
      <4> QED BY <3>3, <4>1, <4>2, <4>3, <4>4, <4>5
    <3>5. ReceiveOrder'
      BY <2>1, <3>1, <3>3, <3>4
         DEF ReceiveOrder, AfterReceived, AfterRx, AfterBuffer, Increasing, c
    <3>6. ReceiveOwned' /\ SendOwned'
      BY <2>1, <2>3 DEF ReceiveOwned, SendOwned
    <3> QED BY <1>2, <1>3, <3>2, <3>5, <3>6
  <2> QED BY <1>5, <2>2, <2>3, RxPopIs
<1>6. CASE RxCheck
  <2>1. TypeOK' /\ InHand'
    BY <1>6 DEF RxCheck, bufferVars, receivedVars, TypeOK, InHand
  <2>2. ReceiveOrder'
    BY <1>6 DEF RxCheck, bufferVars, receivedVars, ReceiveOrder, AfterReceived, AfterRx,
                AfterBuffer, Increasing
  <2>3. ReceiveOwned' /\ SendOwned'
    BY <1>6 DEF RxCheck, receivedVars, ReceiveOwned, SendOwned
  <2> QED BY <1>2, <1>3, <2>1, <2>2, <2>3
<1>7. CASE RxPush
  <2> DEFINE r == g_receivedIOQueue
             s == g_receivedIOQueue'
             k == dataPDU.seq
  <2>1. /\ s = Pushed(r, k) /\ rxAt = "push" /\ rxAt' = "pop"
        /\ UNCHANGED <<bufferVars, dataPDU, live>> /\ k \in Nat \ {0}
    BY <1>4, <1>7 DEF RxPush
  <2>2. r \in Seq(Nat \ {0})
    BY <1>4
  <2> HIDE DEF r, s, k
  <2>3. Increasing(r) /\ \A i \in 1..Len(r) : r[i] < k
    BY <2>1 DEF ReceiveOrder, AfterReceived, r, k
  <2>4. /\ s \in Seq(Nat \ {0}) /\ Increasing(s)
        /\ \A i \in 1..Len(s) : s[i] = k \/ \E j \in 1..Len(r) : s[i] = r[j]
    BY ZenonT(60), <2>1, <2>2, <2>3, NumberQueue, PushedIncreasing
  <2>5. TypeOK' /\ InHand'
    BY <2>1, <2>4 DEF bufferVars, TypeOK, InHand, s
  <2>6. /\ consumed < k /\ \A j \in 1..Len(r) : consumed < r[j]
        /\ \A i \in 1..Len(g_bufferUDPRecv) :
             /\ AfterReceived(g_bufferUDPRecv[i].seq)
             /\ k < g_bufferUDPRecv[i].seq
        /\ HoldsUdp => AfterReceived(dataUDP.seq) /\ k < dataUDP.seq
        /\ AfterReceived(arrived + 1) /\ k < arrived + 1
    BY <2>1 DEF ReceiveOrder, AfterReceived, AfterRx, AfterBuffer, r, k
  <2>7. \A m : AfterReceived(m) /\ k < m => consumed < m /\ \A i \in 1..Len(s) : s[i] < m
    BY <2>4 DEF AfterReceived, r
  <2>8. ReceiveOrder'
    <3>1. \A i \in 1..Len(s) : consumed < s[i]
      BY <2>4, <2>6
    <3>2. \A i \in 1..Len(g_bufferUDPRecv) : \A j \in 1..Len(s) : s[j] < g_bufferUDPRecv[i].seq
      BY <2>6, <2>7
    <3>3. HoldsUdp => \A j \in 1..Len(s) : s[j] < dataUDP.seq
      BY <2>6, <2>7
    <3>4. \A j \in 1..Len(s) : s[j] < arrived + 1
      BY <2>6, <2>7
    <3> QED
      BY <2>1, <2>4, <3>1, <3>2, <3>3, <3>4
         DEF ReceiveOrder, AfterReceived, AfterRx, AfterBuffer, Increasing, bufferVars, s
  <2>9. ReceiveOwned' /\ SendOwned'
    BY <2>1, <2>4 DEF ReceiveOwned, SendOwned, r, s, k
  <2> QED BY <1>2, <1>3, <2>5, <2>8, <2>9
<1> QED BY <1>5, <1>6, <1>7 DEF Rx

-----------------------------------------------------------------------------
(* Different numbers are different packets. *)
LEMMA PacketsDiffer ==
  /\ \A k, m : ToSocket(k) = ToSocket(m) <=> k = m
  /\ \A k, m : ToManager(k) = ToManager(m) <=> k = m
  /\ \A k, m : ToManager(k) # ToSocket(m)
<1>1. \A k, m : ToSocket(k).seq = k /\ ToManager(k).seq = k
  BY DEF ToSocket, ToManager
<1>2. \A k, m : ToSocket(k).to = "socket" /\ ToManager(m).to = "manager"
  BY DEF ToSocket, ToManager
<1> QED BY <1>1, <1>2

(* The steps of TX. *)
LEMMA TxKeeps ==
  ASSUME IOInv, Tx
  PROVE  IOInv'
<1> USE IOAssumption DEF IOInv
<1>1. UNCHANGED <<mainVars, receiveSide, managerVars, sendOpen>>
  BY DEF Tx, TxPop, TxSend, sendVars
<1> USE <1>1 DEF mainVars, flags, receiveSide, udpVars, bufferVars, rxVars, receivedVars,
                 managerVars, HoldsUdp, HoldsRx, HoldsTx, HoldsManager
<1>2. ReceiveOrder'
  BY DEF ReceiveOrder, AfterReceived, AfterRx, AfterBuffer, Increasing
<1>3. MainControl'
  BY DEF Tx, TxPop, TxSend, MainControl
<1>4. g_sendIOQueue \in Seq(Nat \ {0}) /\ \A i \in 1..Len(g_sendIOQueue) : g_sendIOQueue[i] \in Nat \ {0}
  BY DEF TypeOK
<1>5. CASE TxSend
  <2>1. /\ txAt = "send" /\ txAt' = "pop" /\ sent' = packet /\ packet' = NULL
        /\ live' = live \ {ToSocket(packet)} /\ UNCHANGED g_sendIOQueue
        /\ packet \in Nat \ {0}
    BY <1>5 DEF TxSend, sendDataUDP, sendVars, InHand
  <2>2. TypeOK' /\ InHand'
    BY <2>1 DEF TypeOK, InHand, NULL
  <2>3. SendOrder'
    BY <2>1 DEF SendOrder, AfterSent, Increasing
  <2>4. ReceiveOwned' /\ SendOwned'
    <3>1. /\ \A i \in 1..Len(g_sendIOQueue) : g_sendIOQueue[i] # packet
          /\ HoldsManager => produced # packet
      BY <1>4, <2>1 DEF SendOrder, AfterSent, TypeOK
    <3> QED BY <2>1, <3>1, PacketsDiffer DEF ReceiveOwned, SendOwned
  <2> QED BY <1>2, <1>3, <2>2, <2>3, <2>4
<1>6. CASE TxPop
  <2> DEFINE s == g_sendIOQueue
             t == g_sendIOQueue'
             taken == IF sendOpen THEN Head(s) ELSE packet
  <2>1. /\ txAt = "pop" /\ packet \in {NULL, INITIAL} /\ UNCHANGED sent
        /\ sendOpen => s # <<>> /\ t = Tail(s)
        /\ ~sendOpen => t = s
        /\ m_running => sendOpen
    BY <1>6 DEF TxPop, InHand, MainControl
  <2>2. sendOpen =>
          /\ t \in Seq(Nat \ {0}) /\ taken = s[1] /\ s[1] \in Nat \ {0} /\ 1 \in 1..Len(s)
          /\ \A i \in 1..Len(t) : i + 1 \in 1..Len(s) /\ 1 < i + 1 /\ t[i] = s[i + 1]
    BY <1>4, <2>1, TailNumbers
  <2>3. IF m_running
        THEN txAt' = "send" /\ packet' = s[1] /\ live' = live
        ELSE txAt' = "exited" /\ packet' = NULL /\ live' = live \ {ToSocket(taken)}
    <3>1. m_running => taken # INITIAL /\ taken # NULL /\ taken = s[1]
      BY <2>1, <2>2 DEF INITIAL, NULL
    <3> QED BY <1>6, <3>1 DEF TxPop
  <2> HIDE DEF s, t, taken
  <2>4. live' \subseteq live
    BY <2>3
  <2>5. TypeOK' /\ InHand'
    BY <1>4, <2>1, <2>2, <2>3, <2>4 DEF TypeOK, InHand, NULL, s, t
  <2>6. /\ \A i \in 1..Len(t) : /\ sent < t[i]
                                /\ t[i] < produced + 1
                                /\ HoldsManager => t[i] < produced
                                /\ sendOpen => s[1] < t[i]
        /\ sendOpen => /\ sent < s[1] /\ s[1] < produced + 1
                       /\ HoldsManager => s[1] < produced
        /\ \A i, j \in 1..Len(t) : i < j => t[i] < t[j]
        /\ sent < produced + 1 /\ (HoldsManager => sent < produced)
    <3>1. CASE sendOpen
      <4>1. /\ \A i \in 1..Len(s) : /\ sent < s[i] /\ s[i] < produced + 1
                                    /\ HoldsManager => s[i] < produced
            /\ \A i, j \in 1..Len(s) : i < j => s[i] < s[j]
            /\ sent < produced + 1 /\ (HoldsManager => sent < produced)
        BY DEF SendOrder, AfterSent, Increasing, s
      <4>2. ASSUME NEW i \in 1..Len(t), NEW j \in 1..Len(t), i < j
            PROVE  t[i] < t[j]
        <5>1. i + 1 \in 1..Len(s) /\ j + 1 \in 1..Len(s) /\ i + 1 < j + 1
          BY <2>2, <3>1, <4>2
        <5> QED BY <2>2, <3>1, <4>1, <5>1
      <4> QED BY <2>2, <3>1, <4>1, <4>2
    <3>2. CASE ~sendOpen
      BY <2>1, <3>2 DEF SendOrder, AfterSent, Increasing, s, t
    <3> QED BY <3>1, <3>2
  <2>7. SendOrder'
    BY <2>1, <2>3, <2>6 DEF SendOrder, AfterSent, Increasing, t
  <2>8. ReceiveOwned' /\ SendOwned'
    <3>1. ReceiveOwned'
      BY <2>3, PacketsDiffer DEF ReceiveOwned
    <3>2. \A i \in 1..Len(t) : ToSocket(t[i]) \in live
      <4>1. CASE sendOpen
        BY <2>2, <4>1 DEF SendOwned, s
      <4>2. CASE ~sendOpen
        BY <2>1, <4>2 DEF SendOwned, s, t
      <4> QED BY <4>1, <4>2
    <3>3. ~m_running => /\ \A i \in 1..Len(t) : t[i] # taken
                        /\ HoldsManager => produced # taken
      <4>1. CASE sendOpen
        BY <1>4, <2>1, <2>2, <2>6, <4>1 DEF TypeOK
      <4>2. CASE ~sendOpen
        <5>1. taken \in {NULL, INITIAL} /\ t = s
          BY <2>1, <4>2 DEF taken
        <5> QED BY <1>4, <5>1 DEF NULL, INITIAL, InHand, TypeOK, s
      <4> QED BY <4>1, <4>2
    <3>4. m_running => ToSocket(s[1]) \in live
      BY <2>1, <2>2 DEF SendOwned, s
    <3>5. SendOwned'
      BY <2>1, <2>3, <3>2, <3>3, <3>4, PacketsDiffer DEF SendOwned, t
    <3> QED BY <3>1, <3>5
  <2> QED BY <1>2, <1>3, <2>5, <2>7, <2>8
<1> QED BY <1>5, <1>6 DEF Tx

-----------------------------------------------------------------------------
(* The steps of the manager's threads. *)
LEMMA ManagerKeeps ==
  ASSUME IOInv, Manager
  PROVE  IOInv'
<1> USE IOAssumption DEF IOInv
<1>1. UNCHANGED <<mainVars, udpVars, bufferVars, rxVars, receivedOpen, sendOpen, txVars>>
  BY DEF Manager, ManagerPop, ManagerServe, ManagerAllocate, ManagerCheck, ManagerPush,
         ManagerReturn, receiveSide, sendSide, sendVars, receivedVars
<1> USE <1>1 DEF mainVars, flags, udpVars, bufferVars, rxVars, txVars, HoldsUdp, HoldsRx,
                 HoldsTx, HoldsManager
<1>2. MainControl'
  BY DEF Manager, ManagerPop, ManagerServe, ManagerAllocate, ManagerCheck, ManagerPush,
         ManagerReturn, MainControl, sendSide, managerVars
<1>3. /\ consumed \in Nat /\ produced \in Nat /\ sent \in Nat /\ arrived \in Nat
      /\ g_receivedIOQueue \in Seq(Nat \ {0}) /\ g_sendIOQueue \in Seq(Nat \ {0})
      /\ \A i \in 1..Len(g_sendIOQueue) : g_sendIOQueue[i] \in Nat \ {0}
      /\ \A i \in 1..Len(g_bufferUDPRecv) : g_bufferUDPRecv[i].seq \in Nat
      /\ HoldsRx => dataPDU.seq \in Nat \ {0}
      /\ HoldsUdp => dataUDP.seq \in Nat
      /\ HoldsTx => packet \in Nat
  <2>1. \A i \in 1..Len(g_bufferUDPRecv) : g_bufferUDPRecv[i] \in Datagram
    BY DEF TypeOK
  <2> QED BY <2>1 DEF TypeOK, InHand, Datagram
<1>4. CASE ManagerPop
  <2> DEFINE r == g_receivedIOQueue
             t == g_receivedIOQueue'
  <2>1. /\ r # <<>> /\ t = Tail(r) /\ consumed' = Head(r)
        /\ live' = live \ {ToManager(Head(r))}
        /\ UNCHANGED <<managerAt, produced, g_sendIOQueue>>
    BY <1>4 DEF ManagerPop, sendSide, managerVars, sendVars
  <2> HIDE DEF t
  <2>2. /\ t \in Seq(Nat \ {0}) /\ consumed' = r[1] /\ r[1] \in Nat \ {0}
        /\ 1 \in 1..Len(r) /\ live' = live \ {ToManager(r[1])}
        /\ \A i \in 1..Len(t) : i + 1 \in 1..Len(r) /\ 1 < i + 1 /\ t[i] = r[i + 1]
    BY <1>3, <2>1, TailNumbers
  <2>3. /\ \A i, j \in 1..Len(r) : i < j => r[i] < r[j]
        /\ HoldsRx => \A i \in 1..Len(r) : r[i] < dataPDU.seq
    BY DEF ReceiveOrder, AfterReceived, Increasing
  <2> HIDE DEF r
  <2>4. \A i \in 1..Len(t) : r[1] < t[i]
    BY <2>2, <2>3
  <2>5. ASSUME NEW i \in 1..Len(t), NEW j \in 1..Len(t), i < j
        PROVE  t[i] < t[j]
    <3>1. i + 1 \in 1..Len(r) /\ j + 1 \in 1..Len(r) /\ i + 1 < j + 1
      BY <2>2, <2>5
    <3> QED BY <2>2, <2>3, <3>1
  <2>6. TypeOK' /\ InHand'
    <3>1. TypeOK'
      BY <2>1, <2>2 DEF TypeOK, t
    <3>2. InHand'
      BY <2>1 DEF InHand
    <3> QED BY <3>1, <3>2
  <2>7. \A k : AfterReceived(k) => r[1] < k /\ \A i \in 1..Len(t) : t[i] < k
    BY <2>2 DEF AfterReceived, r
  <2>8. ReceiveOrder'
    BY ZenonT(60), <2>1, <2>2, <2>4, <2>5, <2>7
       DEF ReceiveOrder, AfterReceived, AfterRx, AfterBuffer, Increasing, t
  <2>9. SendOrder' /\ SendOwned'
    BY <2>1, <2>2, PacketsDiffer DEF SendOrder, AfterSent, SendOwned
  <2>10. ReceiveOwned'
    <3>1. \A i \in 1..Len(t) : ToManager(t[i]) \in live /\ t[i] # r[1]
      BY <1>3, <2>2, <2>4 DEF ReceiveOwned, r
    <3>2. HoldsRx => ToManager(dataPDU.seq) \in live /\ dataPDU.seq # r[1]
      BY <1>3, <2>2, <2>3 DEF ReceiveOwned
    <3> QED BY <2>2, <3>1, <3>2, PacketsDiffer DEF ReceiveOwned, t
  <2> QED BY <1>2, <2>6, <2>8, <2>9, <2>10
<1>5. CASE ManagerAllocate
  <2>1. /\ managerAt' = "check" /\ produced < MaxSends /\ produced' = produced + 1
        /\ live' = live \cup {ToSocket(produced + 1)}
        /\ UNCHANGED <<g_receivedIOQueue, consumed, g_sendIOQueue>>
    BY <1>5 DEF ManagerAllocate, receiveSide, receivedVars, sendVars
  <2>2. TypeOK' /\ InHand'
    BY <1>3, <2>1 DEF TypeOK, InHand, PacketId, ToSocket
  <2>3. ReceiveOrder' /\ ReceiveOwned' /\ SendOwned'
    BY <2>1 DEF ReceiveOrder, AfterReceived, AfterRx, AfterBuffer, Increasing,
                ReceiveOwned, SendOwned
  <2>4. SendOrder'
    BY <1>3, <2>1 DEF SendOrder, AfterSent, Increasing
  <2> QED BY <1>2, <2>2, <2>3, <2>4
<1>6. CASE ManagerServe \/ ManagerCheck \/ ManagerReturn
  <2>1. /\ managerAt' \in {"next", "push", "idle"}
        /\ managerAt' = "push" => managerAt = "check"
        /\ UNCHANGED <<produced, live, g_receivedIOQueue, consumed, g_sendIOQueue>>
    BY <1>6 DEF ManagerServe, ManagerCheck, ManagerReturn, receiveSide, receivedVars, sendVars
  <2>2. TypeOK' /\ InHand'
    BY <2>1 DEF TypeOK, InHand
  <2>3. ReceiveOrder' /\ ReceiveOwned' /\ SendOwned' /\ SendOrder'
    BY <2>1 DEF ReceiveOrder, AfterReceived, AfterRx, AfterBuffer, Increasing,
                ReceiveOwned, SendOwned, SendOrder, AfterSent
  <2> QED BY <1>2, <2>2, <2>3
<1>7. CASE ManagerPush
  <2> DEFINE s == g_sendIOQueue
             t == g_sendIOQueue'
  <2>1. /\ t = Pushed(s, produced) /\ managerAt = "push" /\ managerAt' = "next"
        /\ UNCHANGED <<produced, live, g_receivedIOQueue, consumed>>
        /\ produced \in Nat \ {0}
    BY <1>3, <1>7 DEF ManagerPush, receiveSide, receivedVars, InHand
  <2>2. s \in Seq(Nat \ {0})
    BY <1>3
  <2> HIDE DEF s, t
  <2>3. /\ Increasing(s) /\ AfterSent(produced)
        /\ \A i \in 1..Len(s) : /\ s[i] < produced /\ sent < s[i]
                                /\ HoldsTx => packet < s[i]
    BY <2>1 DEF SendOrder, AfterSent, s
  <2>4. /\ t \in Seq(Nat \ {0}) /\ Increasing(t)
        /\ \A i \in 1..Len(t) : t[i] = produced \/ \E j \in 1..Len(s) : t[i] = s[j]
    BY ZenonT(60), <2>1, <2>2, <2>3, NumberQueue, PushedIncreasing
  <2>5. TypeOK' /\ InHand'
    <3>1. TypeOK'
      BY <2>1, <2>4 DEF TypeOK, t
    <3> QED BY <2>1, <3>1 DEF InHand
  <2>6. ReceiveOrder' /\ ReceiveOwned'
    BY <2>1 DEF ReceiveOrder, AfterReceived, AfterRx, AfterBuffer, Increasing, ReceiveOwned
  <2>7. SendOrder'
    <3>1. \A i \in 1..Len(t) : /\ sent < t[i] /\ (HoldsTx => packet < t[i])
                               /\ t[i] < produced + 1
      <4>1. \A j \in 1..Len(s) : s[j] < produced + 1
        <5>1. produced \in Nat /\ \A j \in 1..Len(s) : s[j] \in Nat /\ s[j] < produced
          BY <1>3, <2>3 DEF s
        <5> QED BY <5>1
      <4>2. sent < produced /\ (HoldsTx => packet < produced) /\ produced < produced + 1
        BY <2>1, <2>3 DEF AfterSent
      <4>3. \A j \in 1..Len(s) : sent < s[j] /\ (HoldsTx => packet < s[j])
        BY <2>3
      <4> HIDE DEF HoldsTx
      <4> QED BY <2>4, <4>1, <4>2, <4>3
    <3> QED BY <2>1, <2>4, <3>1 DEF SendOrder, AfterSent, t
  <2>8. SendOwned'
    BY <2>1, <2>4 DEF SendOwned, s, t
  <2> QED BY <1>2, <2>5, <2>6, <2>7, <2>8
<1> QED
  <2> HIDE DEF IOInv
  <2> QED BY <1>4, <1>5, <1>6, <1>7 DEF Manager

-----------------------------------------------------------------------------
(* The main thread moves between locations, and what it changes beside     *)
(* them leaves queues and packets alone: only StartBufferAndThreads        *)
(* touches what RX and TX have in hand, and they have ended then.          *)
LEMMA MainFrame ==
  ASSUME main
  PROVE  /\ UNCHANGED <<dataUDP, arrived, g_bufferUDPRecv, g_receivedIOQueue, consumed,
                        produced, g_sendIOQueue, sent, live>>
         /\ HoldsUdp' <=> HoldsUdp
         /\ \/ UNCHANGED <<rxAt, dataPDU, txAt, packet>>
            \/ rxAt' = "pop" /\ dataPDU' = NoDatagram /\ txAt' = "pop" /\ packet' = INITIAL
         /\ managerAt' = managerAt \/ managerAt' \in {"absent", "idle"}
<1> USE DEF mainVars, flags, udpVars, bufferVars, rxVars, receivedVars, managerVars,
            sendVars, txVars, receiveSide, sendSide, HoldsUdp
<1>1. CASE initialize \/ StartManager
  BY <1>1 DEF initialize, StartManager, StartThreadsOfManager
<1>2. CASE start
  BY <1>2 DEF start, StartUdp
<1>3. CASE StartBufferAndThreads
  BY <1>3 DEF StartBufferAndThreads
<1>4. CASE StartSendQueue \/ stop \/ StopBuffer \/ StopSendQueue \/ JoinThreads
  BY <1>4 DEF StartSendQueue, stop, StopBuffer, StopSendQueue, JoinThreads
<1>5. CASE StopManager \/ JoinManager \/ finalize \/ SkipManager \/ closeUDPSock
  BY <1>5 DEF StopManager, JoinManager, finalize, SkipManager, closeUDPSock
<1> QED BY <1>1, <1>2, <1>3, <1>4, <1>5 DEF main

(* The main thread's own steps keep the table of its locations.            *)
LEMMA MainControlKept ==
  ASSUME TypeOK, MainControl, main
  PROVE  TypeOK' /\ MainControl'
<1> USE IOAssumption
    DEF mainVars, flags, udpVars, bufferVars, rxVars, receivedVars, managerVars,
        sendVars, txVars, receiveSide, sendSide, Advance, MainControl
<1>0. /\ m_running \in BOOLEAN /\ quitting \in BOOLEAN /\ bufferOpen \in BOOLEAN
      /\ sendOpen \in BOOLEAN
  BY DEF TypeOK
<1>1. CASE initialize
  <2>1. MainControl'
    BY <1>1 DEF initialize, StartThreadsOfManager, initUDPSock
  <2>2. TypeOK'
    BY <1>1 DEF initialize, StartThreadsOfManager, initUDPSock, TypeOK
  <2> QED BY <2>1, <2>2
<1>2. CASE start
  <2>1. MainControl'
    BY <1>2 DEF start
  <2>2. TypeOK'
    BY <1>2 DEF start, StartUdp, TypeOK
  <2> QED BY <2>1, <2>2
<1>3. CASE StartSendQueue
  BY <1>3 DEF StartSendQueue, TypeOK
<1>4. CASE StartBufferAndThreads
  <2>1. MainControl'
    BY <1>4 DEF StartBufferAndThreads
  <2>2. TypeOK'
    BY <1>4 DEF StartBufferAndThreads, TypeOK
  <2> QED BY <2>1, <2>2
<1>5. CASE stop
  <2>1. MainControl'
    BY <1>0, <1>5 DEF stop
  <2>2. m_running' \in BOOLEAN
    BY <1>5, Zenon DEF stop
  <2>3. TypeOK'
    BY <1>5, <2>2 DEF stop, TypeOK
  <2> QED BY <2>1, <2>3
<1>6. CASE StopBuffer
  <2>1. MainControl'
    BY <1>0, <1>6 DEF StopBuffer
  <2>2. bufferOpen' \in BOOLEAN
    BY <1>6, Zenon DEF StopBuffer
  <2>3. TypeOK'
    BY <1>6, <2>2 DEF StopBuffer, TypeOK
  <2> QED BY <2>1, <2>3
<1>7. CASE StopSendQueue
  <2>1. MainControl'
    BY <1>0, <1>7 DEF StopSendQueue
  <2>2. sendOpen' \in BOOLEAN
    BY <1>7, Zenon DEF StopSendQueue
  <2>3. TypeOK'
    BY <1>7, <2>2 DEF StopSendQueue, TypeOK
  <2> QED BY <2>1, <2>3
<1>8. CASE JoinThreads
  BY <1>8 DEF JoinThreads, Joined, TypeOK
<1>9. CASE StartManager
  <2>1. MainControl'
    BY <1>9 DEF StartManager, StartThreadsOfManager
  <2>2. TypeOK'
    BY <1>9 DEF StartManager, StartThreadsOfManager, TypeOK
  <2> QED BY <2>1, <2>2
<1>10. CASE StopManager
  <2>1. MainControl'
    BY <1>0, <1>10 DEF StopManager
  <2>2. receivedOpen' \in BOOLEAN
    BY <1>10, Zenon DEF StopManager
  <2>3. TypeOK'
    BY <1>10, <2>2 DEF StopManager, TypeOK
  <2> QED BY <2>1, <2>3
<1>11. CASE JoinManager
  BY <1>11 DEF JoinManager, TypeOK
<1>12. CASE finalize
  <2>1. MainControl'
    BY <1>0, <1>12 DEF finalize
  <2>2. m_running' \in BOOLEAN
    BY <1>12, Zenon DEF finalize
  <2>3. TypeOK'
    BY <1>12, <2>2 DEF finalize, TypeOK
  <2> QED BY <2>1, <2>3
<1>13. CASE SkipManager
  BY <1>13 DEF SkipManager, TypeOK
<1>14. CASE closeUDPSock
  BY <1>14 DEF closeUDPSock, TypeOK
<1> QED BY <1>1, <1>2, <1>3, <1>4, <1>5, <1>6, <1>7, <1>8, <1>9, <1>10, <1>11, <1>12,
           <1>13, <1>14 DEF main

(* The steps of the main thread: what the others hold stays as it was.     *)
LEMMA MainThreadKeeps ==
  ASSUME IOInv, main
  PROVE  IOInv'
<1> USE DEF IOInv
<1>1. TypeOK' /\ MainControl'
  BY MainControlKept
<1>2. /\ UNCHANGED <<dataUDP, arrived, g_bufferUDPRecv, g_receivedIOQueue, consumed,
                     produced, g_sendIOQueue, sent, live>>
      /\ HoldsUdp' <=> HoldsUdp
      /\ HoldsRx' => HoldsRx /\ dataPDU' = dataPDU
      /\ HoldsTx' => HoldsTx /\ packet' = packet
      /\ HoldsManager' => HoldsManager
  BY MainFrame DEF HoldsRx, HoldsTx, HoldsManager
<1>3. InHand'
  <2>1. CASE UNCHANGED <<rxAt, dataPDU, txAt, packet>>
    BY <1>2, <2>1 DEF InHand
  <2>2. CASE rxAt' = "pop" /\ txAt' = "pop" /\ packet' = INITIAL
    BY <1>2, <2>2 DEF InHand, HoldsRx
  <2> QED BY <2>1, <2>2, MainFrame
<1>4. ReceiveOrder'
  BY <1>2 DEF ReceiveOrder, AfterReceived, AfterRx, AfterBuffer, Increasing
<1>5. SendOrder'
  BY <1>2 DEF SendOrder, AfterSent, Increasing
<1>6. ReceiveOwned' /\ SendOwned'
  BY <1>2 DEF ReceiveOwned, SendOwned
<1> QED BY <1>1, <1>3, <1>4, <1>5, <1>6

-----------------------------------------------------------------------------
(* The constructors establish the invariant ... *)
LEMMA IOInvInit ==
  ASSUME Init
  PROVE  IOInv
<1> USE IOAssumption DEF Init, HoldsUdp, HoldsRx, HoldsTx, HoldsManager
<1>1. TypeOK
  <2>1. g_bufferUDPRecv \in Seq(Datagram)
    OBVIOUS
  <2>2. g_receivedIOQueue \in Seq(Nat \ {0}) /\ g_sendIOQueue \in Seq(Nat \ {0})
    OBVIOUS
  <2>3. packet \in Nat \cup {INITIAL}
    BY DEF NULL
  <2>4. starts \in 0..MaxStarts /\ arrived \in 0..MaxDatagrams /\ produced \in 0..MaxSends
    OBVIOUS
  <2> QED BY <2>1, <2>2, <2>3, <2>4 DEF TypeOK
<1>2. MainControl /\ InHand
  BY DEF MainControl, InHand
<1>3. ReceiveOrder /\ SendOrder
  BY DEF ReceiveOrder, AfterReceived, AfterRx, AfterBuffer, SendOrder, AfterSent, Increasing
<1>4. ReceiveOwned /\ SendOwned
  BY DEF ReceiveOwned, SendOwned
<1> QED BY <1>1, <1>2, <1>3, <1>4 DEF IOInv

(* ... and every step of every thread keeps it.                            *)
LEMMA IOInvStep == IOInv /\ [Next]_vars => IOInv'
<1> SUFFICES ASSUME IOInv, [Next]_vars
             PROVE  IOInv'
  OBVIOUS
<1>1. CASE UNCHANGED vars
  BY <1>1 DEF vars, mainVars, flags, udpVars, bufferVars, rxVars, receivedVars, managerVars,
              sendVars, txVars, receiveSide, sendSide, IOInv, TypeOK, MainControl, InHand,
              ReceiveOrder, SendOrder, ReceiveOwned, SendOwned, HoldsUdp, HoldsRx, HoldsTx,
              HoldsManager, AfterReceived, AfterRx, AfterBuffer, AfterSent, Increasing
<1>2. CASE Udp
  BY <1>2, UdpKeeps
<1>3. CASE Rx
  BY <1>3, RxKeeps
<1>4. CASE Tx
  BY <1>4, TxKeeps
<1>5. CASE Manager
  BY <1>5, ManagerKeeps
<1>6. CASE main
  BY <1>6, MainThreadKeeps
<1> QED BY <1>1, <1>2, <1>3, <1>4, <1>5, <1>6 DEF Next, Terminated

(* So it holds in all states of the program.                               *)
LEMMA IOInvAlways == Spec => []IOInv
<1>1. Init => IOInv
  BY IOInvInit
<1>2. IOInv /\ [Next]_vars => IOInv'
  BY IOInvStep
<1> QED BY <1>1, <1>2, PTL DEF Spec

-----------------------------------------------------------------------------
(* All numbers of s are smaller than all numbers of t.                     *)
Before(s, t) == \A i \in 1..Len(s), j \in 1..Len(t) : s[i] < t[j]

(* Two rising sequences, the first before the second, make a rising one,   *)
(* which is before whatever both are before.                               *)
LEMMA ConcatIncreasing ==
  ASSUME NEW s \in Seq(Nat), NEW t \in Seq(Nat),
         Increasing(s), Increasing(t), Before(s, t)
  PROVE  /\ s \o t \in Seq(Nat)
         /\ Increasing(s \o t)
         /\ \A u \in Seq(Nat) : Before(s, u) /\ Before(t, u) => Before(s \o t, u)
<1> DEFINE c == s \o t
<1>1. /\ c \in Seq(Nat) /\ Len(c) = Len(s) + Len(t) /\ Len(s) \in Nat /\ Len(t) \in Nat
      /\ \A i \in 1..Len(s) : c[i] = s[i]
      /\ \A i \in 1..Len(c) : i > Len(s) => i - Len(s) \in 1..Len(t) /\ c[i] = t[i - Len(s)]
  OBVIOUS
<1> HIDE DEF c
<1>2. ASSUME NEW i \in 1..Len(c), NEW j \in 1..Len(c), i < j
      PROVE  c[i] < c[j]
  <2>1. CASE j <= Len(s)
    <3>1. i \in 1..Len(s) /\ j \in 1..Len(s)
      BY <1>1, <1>2, <2>1
    <3> QED BY <1>1, <1>2, <3>1 DEF Increasing
  <2>2. CASE i <= Len(s) /\ j > Len(s)
    <3>1. i \in 1..Len(s) /\ j - Len(s) \in 1..Len(t)
      BY <1>1, <1>2, <2>2
    <3> QED BY <1>1, <2>2, <3>1 DEF Before
  <2>3. CASE i > Len(s)
    <3>1. i \in Nat /\ j \in Nat /\ j > Len(s) /\ i - Len(s) < j - Len(s)
      <4>1. i \in Nat /\ j \in Nat /\ Len(s) \in Nat
        BY <1>1
      <4> QED BY <1>2, <2>3, <4>1
    <3>2. i - Len(s) \in 1..Len(t) /\ c[i] = t[i - Len(s)]
      BY <1>1, <2>3
    <3>3. j - Len(s) \in 1..Len(t) /\ c[j] = t[j - Len(s)]
      BY <1>1, <3>1
    <3>4. t[i - Len(s)] < t[j - Len(s)]
      BY <3>1, <3>2, <3>3 DEF Increasing
    <3> QED BY <3>2, <3>3, <3>4
  <2> QED BY <1>1, <1>2, <2>1, <2>2, <2>3
<1>3. ASSUME NEW u \in Seq(Nat), Before(s, u), Before(t, u)
      PROVE  Before(c, u)
  <2> SUFFICES ASSUME NEW i \in 1..Len(c), NEW j \in 1..Len(u)
               PROVE  c[i] < u[j]
    BY DEF Before
  <2>1. CASE i <= Len(s)
    <3>1. i \in 1..Len(s)
      BY <1>1, <2>1
    <3> QED BY <1>1, <1>3, <3>1 DEF Before
  <2>2. CASE i > Len(s)
    <3>1. i - Len(s) \in 1..Len(t) /\ c[i] = t[i - Len(s)]
      BY <1>1, <2>2
    <3> QED BY <1>3, <3>1 DEF Before
  <2> QED BY <1>1, <2>1, <2>2
<1>4. Increasing(c)
  BY <1>2 DEF Increasing
<1> QED BY <1>1, <1>3, <1>4 DEF c

(* At most one number, as a sequence: the number a thread holds, if any.   *)
Held(b, k) == IF b THEN <<k>> ELSE <<>>

(* It rises trivially, and what is in it is that number.                   *)
LEMMA HeldIs ==
  ASSUME NEW b \in BOOLEAN, NEW k, b => k \in Nat
  PROVE  /\ Held(b, k) \in Seq(Nat) /\ Increasing(Held(b, k))
         /\ \A i \in 1..Len(Held(b, k)) : b /\ Held(b, k)[i] = k
<1>1. CASE b
  <2>1. Held(b, k) = <<k>>
    BY <1>1 DEF Held
  <2>2. /\ <<k>> \in Seq(Nat) /\ Len(<<k>>) = 1
        /\ \A i \in 1..1 : i = 1 /\ <<k>>[i] = k
    BY <1>1
  <2>3. Increasing(<<k>>)
    BY <2>2 DEF Increasing
  <2> QED BY <1>1, <2>1, <2>2, <2>3
<1>2. CASE ~b
  <2>1. Held(b, k) = <<>>
    BY <1>2 DEF Held
  <2>2. <<>> \in Seq(Nat) /\ Len(<<>>) = 0 /\ 1..0 = {}
    OBVIOUS
  <2> QED BY <2>1, <2>2 DEF Increasing
<1> QED BY <1>1, <1>2

(* The manager's order is the order of the network: the invariant puts     *)
(* the numbers in hand in one row.                                         *)
LEMMA ReceivedRow == IOInv => ReceivedInOrder
<1> SUFFICES ASSUME IOInv
             PROVE  ReceivedInOrder
  OBVIOUS
<1> USE DEF IOInv
<1> DEFINE A == <<consumed>>
           R == g_receivedIOQueue
           X == Held(HoldsRx, dataPDU.seq)
           B == [i \in 1..Len(g_bufferUDPRecv) |-> g_bufferUDPRecv[i].seq]
           Y == Held(HoldsUdp, dataUDP.seq)
<1>1. /\ consumed \in Nat /\ R \in Seq(Nat)
      /\ B \in Seq(Nat) /\ Len(B) = Len(g_bufferUDPRecv)
      /\ \A i \in 1..Len(B) : B[i] = g_bufferUDPRecv[i].seq
      /\ HoldsRx => dataPDU.seq \in Nat
      /\ HoldsUdp => dataUDP.seq \in Nat
  <2>1. \A i \in 1..Len(g_bufferUDPRecv) : g_bufferUDPRecv[i].seq \in Nat
    <3>1. \A i \in 1..Len(g_bufferUDPRecv) : g_bufferUDPRecv[i] \in Datagram
      BY DEF TypeOK
    <3> QED BY <3>1 DEF Datagram
  <2>2. Len(g_bufferUDPRecv) \in Nat
    BY DEF TypeOK
  <2>3. B \in Seq(Nat) /\ Len(B) = Len(g_bufferUDPRecv)
    BY <2>1, <2>2
  <2>4. consumed \in Nat /\ R \in Seq(Nat)
    BY DEF TypeOK
  <2> QED BY <2>3, <2>4 DEF InHand, Datagram
<1>2. /\ X \in Seq(Nat) /\ Increasing(X)
      /\ \A i \in 1..Len(X) : HoldsRx /\ X[i] = dataPDU.seq
  <2>1. HoldsRx \in BOOLEAN
    BY DEF HoldsRx
  <2> HIDE DEF X
  <2> QED BY <1>1, <2>1, HeldIs DEF X
<1>3. /\ Y \in Seq(Nat) /\ Increasing(Y)
      /\ \A i \in 1..Len(Y) : HoldsUdp /\ Y[i] = dataUDP.seq
  <2>1. HoldsUdp \in BOOLEAN
    BY DEF HoldsUdp
  <2> QED BY <1>1, <2>1, HeldIs
<1>4. A \in Seq(Nat) /\ Increasing(A) /\ \A i \in 1..Len(A) : A[i] = consumed
  <2>1. A \in Seq(Nat) /\ Len(A) = 1 /\ A[1] = consumed
    BY <1>1
  <2> QED BY <2>1 DEF Increasing
<1> HIDE DEF A, X, B, Y
<1>5. /\ Before(A, R) /\ Before(A, X) /\ Before(A, B) /\ Before(A, Y)
      /\ Before(R, X) /\ Before(R, B) /\ Before(R, Y)
  BY <1>1, <1>2, <1>3, <1>4
     DEF ReceiveOrder, AfterReceived, AfterRx, AfterBuffer, Before
<1>6. Before(X, B) /\ Before(X, Y) /\ Before(B, Y)
  BY <1>1, <1>2, <1>3 DEF ReceiveOrder, AfterRx, AfterBuffer, Before
<1>7. Increasing(R) /\ Increasing(B)
  BY <1>1 DEF ReceiveOrder, Increasing
<1> HIDE DEF R
<1>8. /\ A \o R \in Seq(Nat) /\ Increasing(A \o R)
      /\ Before(A \o R, X) /\ Before(A \o R, B) /\ Before(A \o R, Y)
  BY <1>1, <1>2, <1>3, <1>4, <1>5, <1>7, ConcatIncreasing
<1>9. /\ A \o R \o X \in Seq(Nat) /\ Increasing(A \o R \o X)
      /\ Before(A \o R \o X, B) /\ Before(A \o R \o X, Y)
  BY <1>1, <1>2, <1>3, <1>6, <1>8, ConcatIncreasing
<1>10. /\ A \o R \o X \o B \in Seq(Nat) /\ Increasing(A \o R \o X \o B)
       /\ Before(A \o R \o X \o B, Y)
  BY <1>1, <1>3, <1>6, <1>7, <1>9, ConcatIncreasing
<1>11. Increasing(A \o R \o X \o B \o Y)
  BY <1>3, <1>10, ConcatIncreasing
<1> QED BY <1>11 DEF ReceivedInOrder, A, R, X, B, Y, Held, HoldsRx, HoldsUdp

(* The socket's order is the order of the manager's pushes.                *)
LEMMA SentRow == IOInv => SentInOrder
<1> SUFFICES ASSUME IOInv
             PROVE  SentInOrder
  OBVIOUS
<1> USE DEF IOInv
<1> DEFINE A == <<sent>>
           X == Held(HoldsTx, packet)
           S == g_sendIOQueue
<1>1. sent \in Nat /\ S \in Seq(Nat) /\ (HoldsTx => packet \in Nat)
  BY DEF TypeOK, InHand, HoldsTx
<1>2. /\ X \in Seq(Nat) /\ Increasing(X)
      /\ \A i \in 1..Len(X) : HoldsTx /\ X[i] = packet
  <2>1. HoldsTx \in BOOLEAN
    BY DEF HoldsTx
  <2> QED BY <1>1, <2>1, HeldIs
<1>3. A \in Seq(Nat) /\ Increasing(A) /\ \A i \in 1..Len(A) : A[i] = sent
  <2>1. A \in Seq(Nat) /\ Len(A) = 1 /\ A[1] = sent
    BY <1>1
  <2> QED BY <2>1 DEF Increasing
<1> HIDE DEF A, X
<1>4. Before(A, X) /\ Before(A, S) /\ Before(X, S) /\ Increasing(S)
  BY <1>1, <1>2, <1>3 DEF SendOrder, Before
<1> HIDE DEF S
<1>5. A \o X \in Seq(Nat) /\ Increasing(A \o X) /\ Before(A \o X, S)
  BY <1>1, <1>2, <1>3, <1>4, ConcatIncreasing
<1>6. Increasing(A \o X \o S)
  BY <1>1, <1>4, <1>5, ConcatIncreasing
<1> QED BY <1>6 DEF SentInOrder, A, X, S, Held, HoldsTx

-----------------------------------------------------------------------------
(* Every variable of the program keeps its type, in all interleavings of   *)
(* its threads.                                                            *)
THEOREM AppTypeCorrect == Spec => []TypeOK
<1>1. IOInv => TypeOK
  BY DEF IOInv
<1> QED BY <1>1, IOInvAlways, PTL

(* IOHandler.cpp, ThreadSafeQueue.h: the manager is given the packets in   *)
(* the order in which recvDataUDP returned their datagrams, none twice,    *)
(* through drops at the limit and any stops and starts.                    *)
THEOREM ReceivedInOrderCorrect == Spec => []ReceivedInOrder
BY IOInvAlways, ReceivedRow, PTL

(* IOHandler.cpp, ThreadSafeQueue.h: sendDataUDP is called with the        *)
(* packets in the order in which the manager pushed them, none twice.      *)
THEOREM SentInOrderCorrect == Spec => []SentInOrder
BY IOInvAlways, SentRow, PTL

(* IOHandler.cpp, Packet.cpp: no thread and no queue has a packet that has *)
(* been deleted: it is deleted once, by the thread it ended up with.       *)
THEOREM NoDanglingPacketCorrect == Spec => []NoDanglingPacket
<1>1. IOInv => NoDanglingPacket
  <2> SUFFICES ASSUME IOInv
               PROVE  NoDanglingPacket
    OBVIOUS
  <2>1. txAt \in {"exited", "pop", "send"}
    BY DEF IOInv, TypeOK
  <2>2. packet \notin {NULL, INITIAL} => ToSocket(packet) \in live
    BY <2>1 DEF IOInv, InHand, SendOwned, HoldsTx
  <2> QED BY <2>2 DEF IOInv, ReceiveOwned, SendOwned, NoDanglingPacket, HoldsRx
<1> QED BY <1>1, IOInvAlways, PTL

(* AppCtrl.cpp, finalize: when the socket is closed TX has ended, without  *)
(* a packet, and so have the manager's threads.                            *)
THEOREM SendersEndBeforeCloseCorrect == Spec => []SendersEndBeforeClose
<1>1. IOInv => SendersEndBeforeClose
  <2> SUFFICES ASSUME IOInv, sock = "closed"
               PROVE  txAt = "exited" /\ packet = NULL /\ managerAt = "absent"
    BY DEF SendersEndBeforeClose
  <2>1. mainAt = "closed" /\ quitting
    BY DEF IOInv, MainControl
  <2>2. ~m_running
    BY <2>1 DEF IOInv, MainControl
  <2>3. txAt = "exited" /\ managerAt = "absent"
    BY <2>1, <2>2 DEF IOInv, MainControl
  <2> QED BY <2>3 DEF IOInv, InHand
<1> QED BY <1>1, IOInvAlways, PTL

(* IOHandler.cpp, stop: between the return of stop() and the next start()  *)
(* no step of any thread sends a packet or gives the manager a new one.    *)
THEOREM SilentWhenStoppedCorrect == Spec => SilentWhenStopped
<1> DEFINE Quiet == /\ sent' = sent
                    /\ \/ g_receivedIOQueue' = g_receivedIOQueue
                       \/ /\ g_receivedIOQueue # <<>>
                          /\ g_receivedIOQueue' = Tail(g_receivedIOQueue)
           Silent == mainAt = "idle" /\ ~m_running => Quiet
<1>1. IOInv /\ [Next]_vars => Silent
  <2> SUFFICES ASSUME IOInv, [Next]_vars, mainAt = "idle", ~m_running
               PROVE  Quiet
    OBVIOUS
  <2>1. rxAt = "exited" /\ txAt = "exited"
    BY DEF IOInv, MainControl
  <2>3. CASE UNCHANGED vars
    BY <2>3 DEF vars, receiveSide, receivedVars, sendSide, txVars
  <2>4. CASE Udp
    BY <2>4 DEF Udp, UdpReceive, UdpCheck, UdpPush, receivedVars, sendSide, txVars
  <2>5. CASE Rx \/ Tx
    BY <2>1, <2>5 DEF Rx, RxPop, RxCheck, RxPush, Tx, TxPop, TxSend
  <2>6. CASE Manager
    <3>1. CASE ManagerPop
      BY <3>1 DEF ManagerPop, sendSide, txVars
    <3>2. CASE ~ManagerPop
      BY <2>6, <3>2 DEF Manager, ManagerServe, ManagerAllocate, ManagerCheck, ManagerPush,
                        ManagerReturn, receiveSide, receivedVars, txVars
    <3> QED BY <3>1, <3>2
  <2>7. CASE main
    BY <2>7, MainFrame
  <2> QED BY <2>3, <2>4, <2>5, <2>6, <2>7 DEF Next, Terminated
<1>2. Spec => []IOInv
  BY IOInvAlways
<1>3. Spec => [][Silent]_vars
  BY <1>1, <1>2, PTL DEF Spec
<1> QED BY <1>3 DEF SilentWhenStopped
=============================================================================
