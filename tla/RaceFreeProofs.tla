----------------------------- MODULE RaceFreeProofs -----------------------------
(***************************************************************************)
(* Proofs about NodeManagament as long as RX and TX have not overlapped on *)
(* the vector (~raced), for any number of nodes, clients, stops and        *)
(* restarts: what the vector, the two traversals, the notifications and    *)
(* the nodes' threads have to do with each other.                          *)
(***************************************************************************)
EXTENDS NodeManagamentProofs

(* TX is serving the DEAD notification of this node. *)
Serving == txAt \in {"scan", "erase", "join"}
Dying == messageNode.m_nodeID

In(n) == \E i \in 1..size : m_vecNodeBase[i] = n

(* The vector holds the nodes that are not deleted, one per port.  While   *)
(* erase moves elements down, the slot at its iterator may be empty.       *)
VecShape ==
  /\ \A i \in 1..size : m_vecNodeBase[i] = NULL => txAt \in {"erase", "join"} /\ i = txIt
  /\ \A i \in 1..size :
       m_vecNodeBase[i] # NULL => m_thread[m_vecNodeBase[i]] \notin {"absent", "freed"}
  /\ \A n \in Node : m_thread[n] \notin {"absent", "freed"} => In(n) \/ txNode = n
  /\ DistinctPorts

(* The elements before RX's iterator are of other ports than its packet's; *)
(* only the node that RX has just pushed is not started.                   *)
RxShape ==
  /\ rxAt \in RxInVector => txAt \notin {"erase", "join"}
  /\ rxAt = "push" => txAt \notin TxInVector /\ rxIt = size + 1
  /\ rxAt \in {"scan", "test", "push"} =>
       /\ rxIt <= size + 1
       /\ \A i \in 1..size :
            i < rxIt => getPortInfo(m_vecNodeBase[i]) # rxPacket.m_clientAddr.sin_port
  /\ rxAt = "setPong" => rxIt <= size
  /\ rxAt = "start" => size > 0 /\ m_thread[m_vecNodeBase[size]] = "created"
  /\ \A n \in Node : m_thread[n] = "created" => rxAt = "start" /\ m_vecNodeBase[size] = n

(* TX scans for, erases and joins the node that sent the notification.     *)
TxShape ==
  /\ txAt \in {"bcast", "scan"} => txIt \in 1..size + 1
  /\ Serving => messageNode.m_clientAddr = m_clientAddr[Dying]
  /\ txAt = "scan" =>
       /\ m_thread[Dying] \in {"stop", "exited"}
       /\ \A i \in 1..size : i < txIt => m_vecNodeBase[i] # Dying
  /\ txAt = "erase" =>
       /\ txIt \in 1..size /\ txEnd = size + 1
       /\ \/ m_vecNodeBase[txIt] = Dying /\ m_thread[Dying] \in {"stop", "exited"}
          \/ m_vecNodeBase[txIt] = NULL /\ m_thread[Dying] = "freed"
  /\ txAt = "join" =>
       /\ txNode = Dying
       /\ m_thread[Dying] \in {"stop", "exited"}
       /\ ~In(Dying)
       /\ \/ txIt \in 1..size /\ txEnd = size + 1 /\ m_vecNodeBase[txIt] = NULL
          \/ txIt = txEnd /\ txIt > size

(* A queued notification is of a living node, and not of the one whose     *)
(* death TX is serving.                                                    *)
NoticesOK ==
  \A i \in 1..Len(g_messageNodeQueue) :
    LET m == g_messageNodeQueue[i] IN
    m.m_messageType = 1 =>
      /\ m_thread[m.m_nodeID] \notin {"absent", "created", "freed"}
      /\ m.m_clientAddr = m_clientAddr[m.m_nodeID]
      /\ Serving => m.m_nodeID # Dying

(* The death of a node is announced, being served, or its announcement was *)
(* discarded.                                                              *)
DeathKnown ==
  \A n \in Node : m_thread[n] \in {"stop", "exited"} =>
    \/ n \in lost
    \/ Serving /\ Dying = n
    \/ \E i \in 1..Len(g_messageNodeQueue) : IsNotice(g_messageNodeQueue[i], n, "DEAD")

RaceFree ==
  ~crashed /\ VecShape /\ RxShape /\ TxShape /\ NoticesOK /\ DeathKnown

RaceFreeInv == ~raced => RaceFree

-----------------------------------------------------------------------------
(* What push does to the queue: it may lose the oldest message, and then   *)
(* that of a death is recorded in lost.                                    *)
LEMMA PushedMessages ==
  ASSUME MessagesOK, NEW msg \in Message, PushMessage(msg)
  PROVE  /\ lost \subseteq lost'
         /\ \E j \in 1..Len(g_messageNodeQueue') : g_messageNodeQueue'[j] = msg
         /\ \A j \in 1..Len(g_messageNodeQueue') :
              \/ g_messageNodeQueue'[j] = msg
              \/ \E i \in 1..Len(g_messageNodeQueue) :
                   g_messageNodeQueue'[j] = g_messageNodeQueue[i]
         /\ \A i \in 1..Len(g_messageNodeQueue) :
              \/ \E j \in 1..Len(g_messageNodeQueue') :
                   g_messageNodeQueue'[j] = g_messageNodeQueue[i]
              \/ \A n \in Node : IsNotice(g_messageNodeQueue[i], n, "DEAD") => n \in lost'
<1> USE NodeAssumption
<1> DEFINE q == g_messageNodeQueue
           r == g_messageNodeQueue'
<1>1. q \in Seq(Message) /\ Len(q) \in Nat
  BY DEF MessagesOK
<1>2. CASE Len(q) >= MAX_SAFE_QUEUE
  <2>1. /\ q # <<>>
        /\ r = Append(Tail(q), msg)
        /\ lost' = lost \cup {n \in Node : IsNotice(q[1], n, "DEAD")}
    BY <1>1, <1>2 DEF PushMessage, Discard
  <2>2. /\ Len(r) = Len(q)
        /\ r[Len(q)] = msg
        /\ \A j \in 1..Len(q) : j # Len(q) => j + 1 \in 1..Len(q) /\ r[j] = q[j + 1]
    BY <1>1, <2>1
  <2>3. \A i \in 1..Len(q) : i # 1 => i - 1 \in 1..Len(q) /\ r[i - 1] = q[i]
    BY <1>1, <2>2
  <2>4. Len(q) \in 1..Len(q)
    BY <1>1, <1>2
  <2> HIDE DEF q, r
  <2>5. \E j \in 1..Len(r) : r[j] = msg
    BY <2>2, <2>4
  <2>6. \A j \in 1..Len(r) : r[j] = msg \/ \E i \in 1..Len(q) : r[j] = q[i]
    BY <2>2
  <2>7. \A i \in 1..Len(q) : \/ \E j \in 1..Len(r) : r[j] = q[i]
                             \/ \A n \in Node : IsNotice(q[i], n, "DEAD") => n \in lost'
    BY <2>1, <2>2, <2>3
  <2>8. lost \subseteq lost'
    BY <2>1
  <2> QED BY <2>5, <2>6, <2>7, <2>8 DEF q, r
<1>3. CASE ~(Len(q) >= MAX_SAFE_QUEUE)
  <2>1. r = Append(q, msg) /\ lost' = lost
    BY <1>3 DEF PushMessage
  <2>2. /\ Len(r) = Len(q) + 1
        /\ r[Len(q) + 1] = msg
        /\ \A j \in 1..Len(q) : r[j] = q[j]
    BY <1>1, <2>1
  <2> HIDE DEF q, r
  <2>3. \E j \in 1..Len(r) : r[j] = msg
    BY <1>1, <2>2
  <2>4. \A j \in 1..Len(r) : r[j] = msg \/ \E i \in 1..Len(q) : r[j] = q[i]
    BY <1>1, <2>2
  <2>5. \A i \in 1..Len(q) : \E j \in 1..Len(r) : r[j] = q[i]
    BY <1>1, <2>2
  <2> QED BY <2>1, <2>3, <2>4, <2>5 DEF q, r
<1> QED BY <1>2, <1>3

(* What the step of a node's thread has to do with notifications: it adds  *)
(* a notification only from pushNotify, a death is announced when the      *)
(* thread gets to stop, unless that is recorded in lost, and the thread    *)
(* can then only end.                                                      *)
LEMMA ThreadStepNotices ==
  ASSUME NodeInv, NEW n \in Node, handleThread(n)
  PROVE  /\ lost \subseteq lost'
         /\ \A j \in 1..Len(g_messageNodeQueue') :
              \/ \E i \in 1..Len(g_messageNodeQueue) :
                   g_messageNodeQueue'[j] = g_messageNodeQueue[i]
              \/ g_messageNodeQueue'[j].m_messageType = 0
              \/ g_messageNodeQueue'[j] = Notice(n) /\ m_thread[n] = "pushNotify"
         /\ \A k \in Node, i \in 1..Len(g_messageNodeQueue) :
              IsNotice(g_messageNodeQueue[i], k, "DEAD") =>
                \/ k \in lost'
                \/ \E j \in 1..Len(g_messageNodeQueue') :
                     IsNotice(g_messageNodeQueue'[j], k, "DEAD")
         /\ m_thread'[n] = "stop" =>
              \/ n \in lost'
              \/ \E j \in 1..Len(g_messageNodeQueue') :
                   IsNotice(g_messageNodeQueue'[j], n, "DEAD")
         /\ m_thread'[n] = "exited" <=> m_thread[n] = "stop"
<1> USE DEF NodeInv
<1>1. CASE \/ BeginPing(n) \/ PingCheck(n) \/ PongReceived(n) \/ WakeUp(n)
           \/ PongTimeout(n) \/ RetriesExhausted(n) \/ StopSelf(n)
  <2>1. UNCHANGED queueVars
    BY <1>1 DEF BeginPing, PingCheck, PongReceived, WakeUp, PongTimeout,
                RetriesExhausted, StopSelf
  <2>2. /\ m_thread'[n] # "stop"
        /\ m_thread'[n] = "exited" <=> m_thread[n] = "stop"
    BY <1>1 DEF BeginPing, PingCheck, PongReceived, WakeUp, PongTimeout,
                RetriesExhausted, StopSelf, Goto, NodesOK
  <2> QED BY <2>1, <2>2 DEF queueVars
<1>2. CASE PushPing(n)
  <2>1. /\ m_thread[n] = "pushPing" /\ m_thread'[n] = "wait"
        /\ PushMessage([m_messageType |-> 0, m_clientAddr |-> m_clientAddr[n]])
    BY <1>2 DEF PushPing, Goto, NodesOK
  <2>2. [m_messageType |-> 0, m_clientAddr |-> m_clientAddr[n]] \in Message
    BY <2>1, PingIsMessage
  <2> DEFINE msg == [m_messageType |-> 0, m_clientAddr |-> m_clientAddr[n]]
  <2>3. msg.m_messageType = 0
    OBVIOUS
  <2> HIDE DEF msg
  <2> QED BY <2>1, <2>2, <2>3, PushedMessages DEF msg
<1>3. CASE NotifyCheck(n)
  <2>1. m_thread[n] = "run" /\ UNCHANGED g_messageNodeQueue
    BY <1>3 DEF NotifyCheck
  <2>2. lost \subseteq lost'
    BY <1>3 DEF NotifyCheck, Discard
  <2>3. m_thread'[n] # "exited"
    BY <1>3 DEF NotifyCheck, AfterNotify, Goto, NodesOK
  <2>4. m_thread'[n] = "stop" => n \in lost'
    BY <1>3 DEF NotifyCheck, AfterNotify, Discard, Goto, NodesOK, Notice, IsNotice
  <2> QED BY <2>1, <2>2, <2>3, <2>4
<1>4. CASE PushNotify(n)
  <2>1. m_thread[n] = "pushNotify" /\ PushMessage(Notice(n)) /\ AfterNotify(n)
    BY <1>4 DEF PushNotify
  <2>2. Notice(n) \in Message
    BY <2>1, NoticeIsMessage
  <2>3. m_thread'[n] # "exited"
    BY <2>1 DEF AfterNotify, Goto, NodesOK
  <2>4. m_thread'[n] = "stop" => IsNotice(Notice(n), n, "DEAD")
    BY <2>1 DEF AfterNotify, Goto, NodesOK, Notice, IsNotice, Control
  <2> QED BY <2>1, <2>2, <2>3, <2>4, PushedMessages
<1> QED BY <1>1, <1>2, <1>3, <1>4 DEF handleThread

-----------------------------------------------------------------------------
(* The steps of RX that read the vector, or nothing. *)
LEMMA RxQuietRaceFree ==
  ASSUME ManagerInv, ManagerInv', RaceFree, ~Overlap',
         (\E packet \in Packet : RxPop(packet)) \/ RxStopped \/ RxScan \/ RxTest
  PROVE  RaceFree'
<1>1. UNCHANGED <<nodeVars, queueVars, mainVars, vecVars, txVars, crashed>>
  BY DEF RxPop, RxStopped, RxScan, RxTest
<1>2. VecShape' /\ TxShape' /\ NoticesOK' /\ DeathKnown' /\ ~crashed'
  <2> USE <1>1 DEF RaceFree, nodeVars, queueVars, vecVars, txVars, Serving, Dying
  <2>1. VecShape'
    BY DEF VecShape, In, DistinctPorts, getPortInfo
  <2>2. TxShape'
    BY DEF TxShape, In
  <2>3. NoticesOK' /\ DeathKnown'
    BY DEF NoticesOK, DeathKnown
  <2> QED BY <2>1, <2>2, <2>3
<1>3. size \in Nat /\ rxIt \in Nat /\ rxIt >= 1
  BY DEF ManagerInv, VecOK, RxOK
<1>4. RxShape'
  <2>1. UNCHANGED <<m_vecNodeBase, size, m_thread, m_clientAddr, txAt>>
    BY <1>1 DEF vecVars, nodeVars, txVars
  <2> USE <1>3, <2>1 DEF RaceFree, RxShape, Overlap, getPortInfo
  <2>2. CASE \E packet \in Packet : RxPop(packet)
    BY <2>2 DEF RxPop, RxInVector
  <2>3. CASE RxStopped
    BY <2>3 DEF RxStopped, RxInVector
  <2>4. CASE RxScan
    BY <2>4 DEF RxScan, RxReturn, AtEnd, RxInVector
  <2>5. CASE RxTest
    BY <2>5 DEF RxTest, RxReturn, AtEnd, RxInVector
  <2> QED BY <2>2, <2>3, <2>4, <2>5
<1> QED BY <1>2, <1>4 DEF RaceFree

(* setPongState only sets a flag of a node in the vector.                  *)
LEMMA RxSetPongRaceFree ==
  ASSUME ManagerInv, RaceFree, RxSetPong
  PROVE  RaceFree'
<1>1. /\ UNCHANGED <<m_thread, m_clientAddr, queueVars, vecVars, txVars, crashed>>
      /\ rxAt = "setPong" /\ rxAt' = "pop"
  BY DEF RxSetPong, SetPong, RxReturn
<1> USE <1>1 DEF RaceFree, queueVars, vecVars, txVars, Serving, Dying
<1>2. VecShape'
  BY DEF VecShape, In, DistinctPorts, getPortInfo
<1>3. TxShape'
  BY DEF TxShape, In
<1>4. NoticesOK' /\ DeathKnown'
  BY DEF NoticesOK, DeathKnown
<1>5. RxShape'
  BY DEF RxShape, RxInVector
<1> QED BY <1>2, <1>3, <1>4, <1>5

(* RX pushes a node only after it has compared the packet's port with that *)
(* of every element, while TX is not in the vector.                        *)
LEMMA RxPushRaceFree ==
  ASSUME ManagerInv, RaceFree, RxPush
  PROVE  RaceFree'
<1> DEFINE n == m_nodeID + 1
<1>1. /\ n \in Node /\ size \in Nat /\ size + 1 \in Slot
      /\ m_vecNodeBase \in [Slot -> Node \cup {NULL}]
      /\ m_thread \in [Node -> Location]
      /\ m_clientAddr \in [Node -> Client \cup {NoClient}]
      /\ rxPacket \in Packet
  BY NodeAssumption
     DEF ManagerInv, NodeInv, NodesOK, VecOK, RxOK, RxPush, Node, Slot
<1> HIDE DEF n
<1>2. /\ m_thread[n] = "absent" /\ m_thread' = [m_thread EXCEPT ![n] = "created"]
      /\ m_clientAddr' = [m_clientAddr EXCEPT ![n] = rxPacket.m_clientAddr]
      /\ m_vecNodeBase' = [m_vecNodeBase EXCEPT ![size + 1] = n]
      /\ size' = size + 1
      /\ rxAt = "push" /\ rxAt' = "start"
      /\ UNCHANGED <<g_messageNodeQueue, lost, txAt, messageNode, txEnd, txNode, crashed>>
  BY DEF RxPush, Construct, Goto, queueVars, n
<1>3. txAt \notin TxInVector /\ rxIt = size + 1 /\ ~crashed
  BY <1>2 DEF RaceFree, RxShape
<1>4. txNode = NULL /\ NULL \notin Node
  BY <1>3 DEF ManagerInv, TxOK, TxInVector, NULL, Node
<1>5. /\ \A i \in 1..size' : i \in 1..size \/ i = size + 1
      /\ m_vecNodeBase'[size + 1] = n
      /\ \A i \in 1..size : /\ m_vecNodeBase'[i] = m_vecNodeBase[i]
                            /\ m_vecNodeBase[i] \in Node \ {n}
                            /\ m_thread[m_vecNodeBase[i]] \notin {"absent", "freed"}
  <2>1. ASSUME NEW i \in 1..size
        PROVE  i \in Slot /\ i # size + 1
    BY <1>1, <2>1, NodeAssumption DEF Slot
  <2>2. \A i \in 1..size : m_vecNodeBase[i] # NULL
    BY <1>3 DEF RaceFree, VecShape, TxInVector
  <2> QED BY <1>1, <1>2, <2>1, <2>2 DEF RaceFree, VecShape
<1>6. \A i \in 1..size :
        getPortInfo(m_vecNodeBase[i]) # rxPacket.m_clientAddr.sin_port
  BY <1>1, <1>2, <1>3 DEF RaceFree, RxShape
<1>7. DistinctPorts'
  <2>1. \A i \in 1..size :
          /\ m_vecNodeBase'[i] = m_vecNodeBase[i]
          /\ m_clientAddr'[m_vecNodeBase[i]] = m_clientAddr[m_vecNodeBase[i]]
    BY <1>1, <1>2, <1>5
  <2>2. m_clientAddr'[n] = rxPacket.m_clientAddr
    BY <1>1, <1>2
  <2>3. DistinctPorts
    BY DEF RaceFree, VecShape
  <2> QED BY <1>5, <1>6, <2>1, <2>2, <2>3 DEF DistinctPorts, getPortInfo
<1>8. VecShape'
  <2>1. \A i \in 1..size' : m_vecNodeBase'[i] # NULL
    BY <1>4, <1>5, <1>1
  <2>2. \A i \in 1..size' : m_thread'[m_vecNodeBase'[i]] \notin {"absent", "freed"}
    BY <1>1, <1>2, <1>5
  <2>3. ASSUME NEW k \in Node, m_thread'[k] \notin {"absent", "freed"}
        PROVE  In(k)'
    <3>1. CASE k = n
      BY <1>1, <1>2, <1>5, <3>1 DEF In
    <3>2. CASE k # n
      <4>1. In(k)
        BY <1>1, <1>2, <1>4, <2>3, <3>2 DEF RaceFree, VecShape
      <4> QED BY <1>1, <1>2, <1>5, <4>1 DEF In
    <3> QED BY <3>1, <3>2
  <2> QED BY <1>7, <2>1, <2>2, <2>3 DEF VecShape
<1>9. RxShape'
  <2>1. \A k \in Node : m_thread'[k] = "created" => k = n
    BY <1>1, <1>2 DEF RaceFree, RxShape
  <2> QED
    BY <1>1, <1>2, <1>3, <1>5, <2>1 DEF RxShape, TxInVector, RxInVector
<1>10. TxShape' /\ DeathKnown' /\ NoticesOK'
  <2>1. txAt' \notin TxInVector
    BY <1>2, <1>3
  <2>2. TxShape'
    BY <2>1 DEF TxShape, Serving, TxInVector
  <2>3. DeathKnown'
    BY <1>1, <1>2, <1>3 DEF RaceFree, DeathKnown, Serving, TxInVector
  <2>4. NoticesOK'
    BY <1>1, <1>2, <1>3 DEF RaceFree, NoticesOK, Serving, TxInVector
  <2> QED BY <2>2, <2>3, <2>4
<1> QED BY <1>2, <1>3, <1>8, <1>9, <1>10 DEF RaceFree

(* The node that RX starts is the one it has pushed.                       *)
LEMMA RxStartRaceFree ==
  ASSUME ManagerInv, RaceFree, RxStart
  PROVE  RaceFree'
<1> DEFINE n == m_vecNodeBase[size]
<1>1. /\ n \in Node /\ m_thread[n] = "created"
      /\ m_thread \in [Node -> Location]
  <2>1. n \in Node
    BY ValidIsNode DEF RxStart, ManagerInv
  <2> QED BY <2>1 DEF RaceFree, RxShape, RxStart, ManagerInv, NodeInv, NodesOK
<1>2. /\ m_thread' = [m_thread EXCEPT ![n] = "run"]
      /\ UNCHANGED <<m_clientAddr, queueVars, vecVars, txVars, crashed>>
      /\ rxAt = "start" /\ rxAt' = "pop"
  BY <1>1 DEF RxStart, RxReturn, StartNode, Goto
<1> HIDE DEF n
<1>3. \A k \in Node : /\ k # n => m_thread'[k] = m_thread[k]
                      /\ k = n => m_thread'[k] = "run"
  BY <1>1, <1>2
<1> USE <1>1, <1>2 DEF RaceFree, queueVars, vecVars, txVars, Serving, Dying
<1>4. VecShape'
  <2>1. \A i \in 1..size : m_vecNodeBase[i] \in Node \cup {NULL}
    BY NodeAssumption DEF ManagerInv, VecOK, Slot
  <2>2. \A i \in 1..size :
          m_vecNodeBase[i] # NULL => m_thread'[m_vecNodeBase[i]] \notin {"absent", "freed"}
    BY <1>3, <2>1 DEF VecShape
  <2>3. \A k \in Node :
          m_thread'[k] \notin {"absent", "freed"} => m_thread[k] \notin {"absent", "freed"}
    BY <1>3
  <2> QED BY <2>2, <2>3 DEF VecShape, In, DistinctPorts, getPortInfo
<1>5. TxShape'
  <2>1. Serving => Dying \in Node
    BY DeadIsNotice DEF ManagerInv, TxOK
  <2>2. rxAt \in RxInVector
    BY DEF RxInVector
  <2> QED BY <1>3, <2>1, <2>2 DEF TxShape, RxShape
<1>6. NoticesOK'
  <2>1. \A i \in 1..Len(g_messageNodeQueue) :
          g_messageNodeQueue[i].m_messageType = 1
            => g_messageNodeQueue[i].m_nodeID \in Node
    <3>1. \A i \in 1..Len(g_messageNodeQueue) : g_messageNodeQueue[i] \in Message
      BY DEF ManagerInv, NodeInv, MessagesOK
    <3> QED BY <3>1 DEF Message, PingMessage, NotifyMessage
  <2> QED BY <1>3, <2>1 DEF NoticesOK
<1>7. DeathKnown'
  BY <1>3 DEF DeathKnown
<1>8. RxShape'
  BY <1>3 DEF RxShape, RxInVector, n
<1> QED BY <1>4, <1>5, <1>6, <1>7, <1>8

(* RX finds every element alive. *)
LEMMA RxNoCrash ==
  ASSUME ManagerInv, RaceFree
  PROVE  ~RxCrash
<1>1. size \in 0..MaxNodes /\ rxIt \in 1..MaxNodes + 1 /\ MaxNodes \in Nat
  BY NodeAssumption DEF ManagerInv, VecOK, RxOK
<1>2. rxAt \in RxInVector => \A i \in 1..size : Valid(i)
  BY <1>1 DEF RaceFree, VecShape, RxShape, Valid, Slot
<1>3. rxAt = "scan" /\ ~AtEnd(rxIt) => rxIt \in 1..size
  BY <1>1 DEF RaceFree, RxShape, AtEnd
<1>4. rxAt = "setPong" => rxIt \in 1..size
  BY <1>1 DEF RaceFree, RxShape
<1>5. rxAt = "start" => size \in 1..size /\ m_thread[m_vecNodeBase[size]] = "created"
  BY <1>1 DEF RaceFree, RxShape
<1> QED BY <1>2, <1>3, <1>4, <1>5 DEF RxCrash, RxInVector

(* A step of RX keeps it, unless it overlaps with TX.                      *)
LEMMA RxRaceFree ==
  ASSUME ManagerInv, ManagerInv', RaceFree, ~Overlap', Rx
  PROVE  RaceFree'
  BY RxQuietRaceFree, RxSetPongRaceFree, RxPushRaceFree, RxStartRaceFree, RxNoCrash DEF Rx

-----------------------------------------------------------------------------
(* Facts about the state that the steps of TX rest on: types, and that a   *)
(* node in the vector is there once.                                       *)
LEMMA RaceFreeFacts ==
  ASSUME ManagerInv, RaceFree
  PROVE  /\ size \in 0..MaxNodes /\ MaxNodes \in Nat
         /\ m_thread \in [Node -> Location]
         /\ m_clientAddr \in [Node -> Client \cup {NoClient}]
         /\ m_vecNodeBase \in [Slot -> Node \cup {NULL}]
         /\ NULL \notin Node
         /\ \A i \in 1..size : i \in Slot /\ m_vecNodeBase[i] \in Node \cup {NULL}
         /\ Serving => Dying \in Node
         /\ \A i, j \in 1..size :
              m_vecNodeBase[i] # NULL /\ m_vecNodeBase[i] = m_vecNodeBase[j] => i = j
<1>1. /\ size \in 0..MaxNodes /\ MaxNodes \in Nat
      /\ m_thread \in [Node -> Location]
      /\ m_clientAddr \in [Node -> Client \cup {NoClient}]
      /\ m_vecNodeBase \in [Slot -> Node \cup {NULL}]
      /\ NULL \notin Node
  BY NodeAssumption DEF ManagerInv, NodeInv, NodesOK, VecOK, Node, NULL
<1>2. \A i \in 1..size : i \in Slot /\ m_vecNodeBase[i] \in Node \cup {NULL}
  BY <1>1 DEF Slot
<1>3. Serving => Dying \in Node
  BY DeadIsNotice DEF ManagerInv, TxOK, Serving, Dying
<1>4. \A i, j \in 1..size :
        m_vecNodeBase[i] # NULL /\ m_vecNodeBase[i] = m_vecNodeBase[j] => i = j
  BY DEF RaceFree, VecShape, DistinctPorts
<1> QED BY <1>1, <1>2, <1>3, <1>4

(* RX's part is kept by a step of TX that changes neither the vector nor   *)
(* the nodes, and that RX is not overlapped by.                            *)
LEMMA RxShapeKept ==
  ASSUME RxShape, ~Overlap', UNCHANGED <<rxVars, vecVars, nodeVars>>
  PROVE  RxShape'
  BY DEF RxShape, Overlap, rxVars, vecVars, nodeVars, getPortInfo

(* TX takes the oldest message.  Of its node nothing else is queued if it  *)
(* announces its death.                                                    *)
LEMMA TxPopRaceFree ==
  ASSUME ManagerInv, RaceFree, ~Overlap', TxPop
  PROVE  RaceFree'
<1> DEFINE q == g_messageNodeQueue
           r == g_messageNodeQueue'
           m == q[1]
<1>1. /\ q \in Seq(Message) /\ q # <<>> /\ r = Tail(q) /\ Head(q) = m
      /\ txAt = "pop" /\ txAt' \in {"pop", "bcast", "scan", "exited"}
      /\ UNCHANGED <<nodeVars, vecVars, rxVars, txNode, crashed>>
  BY DEF TxPop, Dispatch, TxReturn, ManagerInv, NodeInv, MessagesOK
<1>2. /\ Len(q) \in Nat /\ m \in Message /\ 1 \in 1..Len(q)
      /\ \A i \in 1..Len(r) : i + 1 \in 1..Len(q) /\ 1 < i + 1 /\ r[i] = q[i + 1]
      /\ \A i \in 1..Len(q) : i # 1 => i - 1 \in 1..Len(r) /\ r[i - 1] = q[i]
  BY <1>1
<1>3. /\ txAt' \in {"pop", "bcast", "exited"}
         => lost' = lost \cup {n \in Node : IsNotice(m, n, "DEAD")}
      /\ txAt' = "scan" => /\ IsNotice(m, m.m_nodeID, "DEAD") /\ IsDead(m)
                           /\ messageNode' = m /\ lost' = lost
      /\ txAt' \in {"bcast", "scan"} => txIt' = 1
  <2>1. CASE m_running
    <3>1. Dispatch(m) /\ lost' = lost
      BY <1>1, <2>1 DEF TxPop
    <3>2. txAt' \in {"pop", "bcast"} => \A n \in Node : ~IsNotice(m, n, "DEAD")
      BY <1>2, <3>1 DEF Dispatch, TxReturn, IsNotice, Message, PingMessage, NotifyMessage
    <3>3. txAt' = "scan" => IsNotice(m, m.m_nodeID, "DEAD") /\ IsDead(m) /\ messageNode' = m
      BY <1>2, <3>1 DEF Dispatch, TxReturn, IsNotice, IsDead, Message, PingMessage,
                        NotifyMessage
    <3>4. txAt' # "exited" /\ (txAt' \in {"bcast", "scan"} => txIt' = 1)
      BY <3>1 DEF Dispatch, TxReturn
    <3> QED BY <3>1, <3>2, <3>3, <3>4
  <2>2. CASE ~m_running
    BY <1>1, <2>2 DEF TxPop, Discard
  <2> QED BY <2>1, <2>2
<1>4. QueueOK(q, m_thread)
  BY DEF ManagerInv, NodeInv, MessagesOK
<1> HIDE DEF q, r, m
<1>5. txNode = NULL
  BY <1>1 DEF ManagerInv, TxOK
<1>6. VecShape'
  BY <1>1 DEF RaceFree, VecShape, In, DistinctPorts, getPortInfo, vecVars, nodeVars
<1>7. RxShape'
  BY <1>1, RxShapeKept DEF RaceFree
<1>8. txAt' = "scan" =>
        /\ m.m_messageType = 1
        /\ m_thread[m.m_nodeID] \in {"stop", "exited"}
        /\ m.m_clientAddr = m_clientAddr[m.m_nodeID]
        /\ \A i \in 1..Len(r) : r[i].m_messageType = 1 => r[i].m_nodeID # m.m_nodeID
  <2>1. IsDead(m) => m_thread[m.m_nodeID] \in Leaving
    BY <1>2, <1>4 DEF QueueOK, m
  <2>2. m.m_messageType = 1 => /\ m_thread[m.m_nodeID] # "freed"
                               /\ m.m_clientAddr = m_clientAddr[m.m_nodeID]
    BY <1>2 DEF RaceFree, NoticesOK, m, q
  <2>3. \A j \in 1..Len(q) :
          1 < j /\ m.m_messageType = 1 /\ q[j].m_messageType = 1
            /\ m.m_nodeID = q[j].m_nodeID => ~IsDead(m)
    BY <1>2, <1>4 DEF QueueOK, m
  <2> QED BY <1>2, <1>3, <2>1, <2>2, <2>3 DEF Leaving, IsDead
<1>9. TxShape'
  <2>1. size \in Nat
    BY DEF ManagerInv, VecOK
  <2> QED
    BY <1>1, <1>3, <1>8, <2>1 DEF TxShape, Serving, Dying, nodeVars, vecVars
<1>10. NoticesOK'
  <2>1. ASSUME NEW i \in 1..Len(r), r[i].m_messageType = 1
        PROVE  /\ m_thread[r[i].m_nodeID] \notin {"absent", "created", "freed"}
               /\ r[i].m_clientAddr = m_clientAddr[r[i].m_nodeID]
    BY <1>2, <2>1 DEF RaceFree, NoticesOK, q
  <2>2. ASSUME NEW i \in 1..Len(r), r[i].m_messageType = 1, Serving'
        PROVE  r[i].m_nodeID # Dying'
    BY <1>1, <1>3, <1>8, <2>2 DEF Serving, Dying
  <2> QED BY <1>1, <2>1, <2>2 DEF NoticesOK, nodeVars, r
<1>11. DeathKnown'
  <2>1. ASSUME NEW n \in Node, m_thread[n] \in {"stop", "exited"}
        PROVE  \/ n \in lost'
               \/ Serving' /\ Dying' = n
               \/ \E i \in 1..Len(r) : IsNotice(r[i], n, "DEAD")
    <3>1. n \in lost \/ \E i \in 1..Len(q) : IsNotice(q[i], n, "DEAD")
      BY <1>1, <2>1 DEF RaceFree, DeathKnown, Serving, q
    <3>2. CASE n \in lost
      BY <1>1, <1>3, <3>2
    <3>3. CASE \E i \in 1..Len(q) : i # 1 /\ IsNotice(q[i], n, "DEAD")
      BY <1>2, <3>3
    <3>4. CASE IsNotice(m, n, "DEAD")
      BY <1>1, <1>3, <3>4 DEF Serving, Dying, IsNotice
    <3> QED BY <3>1, <3>2, <3>3, <3>4 DEF m
  <2> QED BY <1>1, <2>1 DEF DeathKnown, nodeVars, r
<1> QED BY <1>1, <1>6, <1>7, <1>9, <1>10, <1>11 DEF RaceFree

(* TX ends, or goes on to the next node of a broadcast. *)
LEMMA TxQuietRaceFree ==
  ASSUME ManagerInv, RaceFree, ~Overlap', TxStopped \/ TxBroadcast
  PROVE  RaceFree'
<1>1. /\ UNCHANGED <<nodeVars, queueVars, vecVars, rxVars, txNode, crashed>>
      /\ txAt \in {"pop", "bcast"} /\ txAt' \in {"pop", "bcast", "exited"}
  BY StoppedMeansOver DEF TxStopped, TxBroadcast, TxReturn
<1>2. txAt' = "bcast" => txIt' \in 1..size + 1
  BY RaceFreeFacts, <1>1, StoppedMeansOver DEF TxStopped, TxBroadcast, TxReturn, Valid, AtEnd, RaceFree, TxShape
<1>3. VecShape'
  BY <1>1 DEF RaceFree, VecShape, In, DistinctPorts, getPortInfo, vecVars, nodeVars
<1>4. RxShape'
  BY <1>1, RxShapeKept DEF RaceFree
<1>5. TxShape'
  BY <1>1, <1>2 DEF TxShape, Serving, vecVars
<1>6. NoticesOK' /\ DeathKnown'
  BY <1>1 DEF RaceFree, NoticesOK, DeathKnown, Serving, nodeVars, queueVars
<1> QED BY <1>1, <1>3, <1>4, <1>5, <1>6 DEF RaceFree

(* TX looks for the dead node by its port and finds that node, for it is   *)
(* in the vector and no other has its port.                                *)
LEMMA TxScanRaceFree ==
  ASSUME ManagerInv, RaceFree, ~Overlap', TxScan
  PROVE  RaceFree'
<1>1. /\ UNCHANGED <<nodeVars, queueVars, vecVars, rxVars, txNode, crashed>>
      /\ txAt = "scan" /\ Serving
  BY DEF TxScan, Serving
<1>2. PICK k \in 1..size : m_vecNodeBase[k] = Dying
  <2>1. txNode = NULL
    BY <1>1 DEF ManagerInv, TxOK
  <2> QED
    BY <1>1, <2>1, RaceFreeFacts DEF RaceFree, TxShape, VecShape, In
<1>3. Dying # NULL /\ getPortInfo(Dying) = messageNode.m_clientAddr.sin_port
  BY <1>1, RaceFreeFacts DEF RaceFree, TxShape, getPortInfo
<1>4. txIt \in 1..size
  BY <1>1, <1>2, RaceFreeFacts DEF RaceFree, TxShape
<1>5. /\ messageNode' = messageNode
      /\ IF getPortInfo(m_vecNodeBase[txIt]) = messageNode.m_clientAddr.sin_port
         THEN txAt' = "erase" /\ txEnd' = size + 1 /\ txIt' = txIt
         ELSE txAt' = "scan" /\ txIt' = txIt + 1
  BY <1>1, <1>4, RaceFreeFacts DEF TxScan, AtEnd
<1>6. m_vecNodeBase[txIt] # NULL
  BY <1>1, <1>4 DEF RaceFree, VecShape
<1>7. getPortInfo(m_vecNodeBase[txIt]) = messageNode.m_clientAddr.sin_port
        <=> m_vecNodeBase[txIt] = Dying
  BY <1>2, <1>3, <1>4, <1>6 DEF RaceFree, VecShape, DistinctPorts
<1>8. TxShape'
  <2>1. CASE m_vecNodeBase[txIt] = Dying
    BY <1>1, <1>4, <1>5, <1>7, <2>1
       DEF RaceFree, TxShape, Serving, Dying, vecVars, nodeVars
  <2>2. CASE m_vecNodeBase[txIt] # Dying
    <3>1. txAt' = "scan" /\ txIt' = txIt + 1
      BY <1>5, <1>7, <2>2
    <3>2. \A i \in 1..size : i < txIt + 1 => m_vecNodeBase[i] # Dying
      BY <1>1, <1>4, <2>2, RaceFreeFacts DEF RaceFree, TxShape
    <3> QED
      BY <1>1, <1>4, <1>5, <3>1, <3>2, RaceFreeFacts
         DEF RaceFree, TxShape, Serving, Dying, vecVars, nodeVars
  <2> QED BY <2>1, <2>2
<1>9. VecShape'
  BY <1>1, <1>5 DEF RaceFree, VecShape, In, DistinctPorts, getPortInfo, vecVars, nodeVars
<1>10. RxShape'
  BY <1>1, RxShapeKept DEF RaceFree
<1>11. NoticesOK' /\ DeathKnown'
  BY <1>1, <1>5 DEF RaceFree, NoticesOK, DeathKnown, Serving, Dying, nodeVars, queueVars
<1> QED BY <1>1, <1>8, <1>9, <1>10, <1>11 DEF RaceFree

(* A step of erase: one element moves down, or the last slot goes.  What   *)
(* is deleted is the node whose death TX is serving, or nothing.           *)
LEMMA TxEraseRaceFree ==
  ASSUME ManagerInv, RaceFree, TxErase
  PROVE  RaceFree'
<1> USE RaceFreeFacts
<1>1. /\ UNCHANGED <<nodeVars, queueVars, rxVars, messageNode, crashed>> \/ txAt' = "pop"
      /\ UNCHANGED <<nodeVars, queueVars, rxVars, crashed>>
      /\ txAt = "erase" /\ Serving
  BY DEF TxErase, TxDelete, TxReturn, Serving
<1>2. /\ txIt \in 1..size /\ txEnd = size + 1
      /\ \/ m_vecNodeBase[txIt] = Dying /\ m_thread[Dying] \in {"stop", "exited"}
         \/ m_vecNodeBase[txIt] = NULL /\ m_thread[Dying] = "freed"
  BY <1>1 DEF RaceFree, TxShape
<1>3. /\ rxAt \notin RxInVector
      /\ \A n \in Node : m_thread[n] # "created"
      /\ \A i \in 1..size : i # txIt => m_vecNodeBase[i] \in Node /\ m_vecNodeBase[i] # Dying
  <2>1. rxAt \notin RxInVector
    BY <1>1 DEF RaceFree, RxShape
  <2>2. \A n \in Node : m_thread[n] # "created"
    BY <2>1 DEF RaceFree, RxShape, RxInVector
  <2>3. \A i \in 1..size : i # txIt => m_vecNodeBase[i] # NULL
    BY <1>1 DEF RaceFree, VecShape
  <2>4. \A i \in 1..size : i # txIt => m_vecNodeBase[i] # Dying
    BY <1>1, <1>2, <2>3 DEF RaceFree, VecShape
  <2> QED BY <2>1, <2>2, <2>3, <2>4
<1>4. txNode = NULL
  BY <1>1 DEF ManagerInv, TxOK
<1>5. RxShape'
  BY <1>1, <1>3 DEF RxShape, RxInVector, rxVars, nodeVars
<1>6. CASE txIt < size
  <2>1. /\ m_vecNodeBase' = [m_vecNodeBase EXCEPT ![txIt] = m_vecNodeBase[txIt + 1],
                                                  ![txIt + 1] = NULL]
        /\ TxDelete(m_vecNodeBase[txIt], txIt + 1)
        /\ size' = size
    BY <1>2, <1>6 DEF TxErase
  <2>2. txIt + 1 \in 1..size /\ txIt + 1 # txEnd /\ txIt + 1 \in Slot /\ txIt \in Slot
    BY <1>2, <1>6
  <2>3. \A i \in 1..size :
          m_vecNodeBase'[i] = IF i = txIt THEN m_vecNodeBase[txIt + 1]
                              ELSE IF i = txIt + 1 THEN NULL ELSE m_vecNodeBase[i]
    BY <2>1, <2>2
  <2>4. /\ txIt' = txIt + 1 /\ UNCHANGED <<messageNode, txEnd>>
        /\ IF m_vecNodeBase[txIt] = Dying
           THEN txAt' = "join" /\ txNode' = Dying
           ELSE txAt' = "erase" /\ txNode' = NULL
    BY <1>1, <1>2, <1>4, <2>1, <2>2 DEF TxDelete
  <2>5. VecShape'
    <3>1. \A i \in 1..size : m_vecNodeBase'[i] = NULL => i = txIt + 1
      BY <1>3, <2>2, <2>3
    <3>2. \A i \in 1..size :
            m_vecNodeBase'[i] # NULL
              => \E j \in 1..size : /\ m_vecNodeBase'[i] = m_vecNodeBase[j]
                                    /\ j = IF i = txIt THEN txIt + 1 ELSE i
      BY <2>2, <2>3
    <3>3. \A i \in 1..size :
            m_vecNodeBase'[i] # NULL
              => m_thread[m_vecNodeBase'[i]] \notin {"absent", "freed"}
      BY <3>2 DEF RaceFree, VecShape
    <3>4. ASSUME NEW n \in Node, m_thread[n] \notin {"absent", "freed"}
          PROVE  In(n)' \/ txNode' = n
      <4>1. PICK i \in 1..size : m_vecNodeBase[i] = n
        BY <1>4, <3>4 DEF RaceFree, VecShape, In
      <4>2. CASE i = txIt
        BY <1>2, <2>4, <3>4, <4>1, <4>2
      <4>3. CASE i = txIt + 1
        BY <1>2, <2>1, <2>3, <4>1, <4>3 DEF In
      <4>4. CASE i # txIt /\ i # txIt + 1
        BY <2>1, <2>3, <4>1, <4>4 DEF In
      <4> QED BY <4>2, <4>3, <4>4
    <3>5. ASSUME NEW i \in 1..size, NEW j \in 1..size, i # j,
                 m_vecNodeBase'[i] # NULL, m_vecNodeBase'[j] # NULL
          PROVE  getPortInfo(m_vecNodeBase'[i]) # getPortInfo(m_vecNodeBase'[j])
      <4>1. i # txIt + 1 /\ j # txIt + 1
        BY <2>2, <2>3, <3>5
      <4>2. PICK k \in 1..size : /\ m_vecNodeBase'[i] = m_vecNodeBase[k]
                                 /\ k = IF i = txIt THEN txIt + 1 ELSE i
        BY <3>2, <3>5
      <4>3. PICK l \in 1..size : /\ m_vecNodeBase'[j] = m_vecNodeBase[l]
                                 /\ l = IF j = txIt THEN txIt + 1 ELSE j
        BY <3>2, <3>5
      <4>4. k # l
        BY <3>5, <4>1, <4>2, <4>3
      <4> QED BY <3>5, <4>2, <4>3, <4>4 DEF RaceFree, VecShape, DistinctPorts
    <3> QED
      BY <1>1, <2>1, <2>4, <3>1, <3>3, <3>4, <3>5
         DEF VecShape, DistinctPorts, getPortInfo, nodeVars
  <2>6. TxShape'
    <3>1. m_vecNodeBase'[txIt + 1] = NULL
      BY <2>2, <2>3
    <3>2. ~In(Dying)'
      BY <1>1, <1>3, <2>1, <2>2, <2>3, <2>4 DEF In, Dying
    <3> QED
      BY <1>1, <1>2, <2>1, <2>2, <2>4, <3>1, <3>2
         DEF RaceFree, TxShape, Serving, Dying, nodeVars
  <2>7. NoticesOK' /\ DeathKnown'
    BY <1>1, <2>4
       DEF RaceFree, NoticesOK, DeathKnown, Serving, Dying, nodeVars, queueVars
  <2> QED BY <1>1, <1>5, <2>5, <2>6, <2>7 DEF RaceFree
<1>7. CASE txIt = size
  <2>1. /\ size > 0 /\ size' = size - 1
        /\ m_vecNodeBase' = [m_vecNodeBase EXCEPT ![size] = NULL]
        /\ TxDelete(m_vecNodeBase[size], txEnd)
    BY <1>2, <1>7 DEF TxErase
  <2>2. \A i \in 1..size' : /\ i \in 1..size /\ i # size
                            /\ m_vecNodeBase'[i] = m_vecNodeBase[i]
    BY <2>1
  <2>3. IF m_vecNodeBase[size] = Dying
        THEN /\ txAt' = "join" /\ txNode' = Dying /\ txIt' = txEnd
             /\ UNCHANGED <<messageNode, txEnd>>
        ELSE txAt' = "pop" /\ txNode' = NULL
    BY <1>1, <1>2, <1>4, <1>7, <2>1 DEF TxDelete, TxReturn
  <2>4. VecShape'
    <3>1. \A i \in 1..size' : m_vecNodeBase'[i] # NULL
      BY <1>3, <1>7, <2>2
    <3>2. \A i \in 1..size' : m_thread[m_vecNodeBase'[i]] \notin {"absent", "freed"}
      BY <2>2, <3>1 DEF RaceFree, VecShape
    <3>3. ASSUME NEW n \in Node, m_thread[n] \notin {"absent", "freed"}
          PROVE  In(n)' \/ txNode' = n
      <4>1. PICK i \in 1..size : m_vecNodeBase[i] = n
        BY <1>4, <3>3 DEF RaceFree, VecShape, In
      <4>2. CASE i = size
        BY <1>2, <1>7, <2>3, <3>3, <4>1, <4>2
      <4>3. CASE i # size
        <5>1. i \in 1..size'
          BY <2>1, <4>3
        <5> QED BY <2>2, <4>1, <5>1 DEF In
      <4> QED BY <4>2, <4>3
    <3>4. DistinctPorts'
      BY <1>1, <2>2 DEF RaceFree, VecShape, DistinctPorts, getPortInfo, nodeVars
    <3> QED BY <1>1, <3>1, <3>2, <3>3, <3>4 DEF VecShape, nodeVars
  <2>5. TxShape'
    <3>1. \A i \in 1..size' : m_vecNodeBase'[i] # Dying
      BY <1>3, <1>7, <2>2
    <3> QED
      BY <1>1, <1>2, <1>7, <2>1, <2>3, <3>1
         DEF RaceFree, TxShape, Serving, Dying, In, nodeVars
  <2>6. NoticesOK'
    BY <1>1, <2>3 DEF RaceFree, NoticesOK, Serving, Dying, nodeVars, queueVars
  <2>7. DeathKnown'
    BY <1>1, <1>2, <1>7, <2>3 DEF RaceFree, DeathKnown, Serving, Dying, nodeVars, queueVars
  <2> QED BY <1>1, <1>5, <2>4, <2>5, <2>6, <2>7 DEF RaceFree
<1> QED BY <1>2, <1>6, <1>7

(* The dead node's thread is joined and the node deleted. *)
LEMMA TxJoinRaceFree ==
  ASSUME ManagerInv, RaceFree, TxJoin
  PROVE  RaceFree'
<1> USE RaceFreeFacts
<1>1. /\ UNCHANGED <<m_clientAddr, queueVars, vecVars, rxVars, crashed>>
      /\ txAt = "join" /\ Serving /\ txNode' = NULL
  BY DEF TxJoin, Destroy, Serving
<1>2. /\ txNode = Dying /\ Dying \in Node /\ ~In(Dying)
      /\ \/ txIt \in 1..size /\ txEnd = size + 1 /\ m_vecNodeBase[txIt] = NULL
         \/ txIt = txEnd /\ txIt > size
  BY <1>1 DEF RaceFree, TxShape
<1>3. m_thread' = [m_thread EXCEPT ![Dying] = "freed"]
  BY <1>2 DEF TxJoin, Destroy, Goto
<1>4. \A n \in Node : m_thread'[n] = IF n = Dying THEN "freed" ELSE m_thread[n]
  BY <1>2, <1>3
<1>5. \/ /\ txAt' = "erase" /\ UNCHANGED <<messageNode, txIt, txEnd>>
         /\ txIt \in 1..size /\ txEnd = size + 1 /\ m_vecNodeBase[txIt] = NULL
      \/ txAt' = "pop" /\ txIt > size
  BY <1>2 DEF TxJoin, TxReturn
<1>6. VecShape'
  <2>1. \A i \in 1..size : m_vecNodeBase[i] = NULL => i = txIt
    BY DEF RaceFree, VecShape
  <2>2. \A i \in 1..size : m_vecNodeBase[i] = NULL => txAt' = "erase" /\ txIt' = txIt
    BY <1>5, <2>1
  <2>3. \A i \in 1..size : m_vecNodeBase[i] # NULL =>
          m_thread'[m_vecNodeBase[i]] \notin {"absent", "freed"}
    BY <1>2, <1>4 DEF RaceFree, VecShape, In
  <2>4. \A n \in Node : m_thread'[n] \notin {"absent", "freed"} => In(n)
    BY <1>2, <1>4 DEF RaceFree, VecShape
  <2>5. DistinctPorts'
    BY <1>1 DEF RaceFree, VecShape, DistinctPorts, getPortInfo, vecVars
  <2> QED BY <1>1, <2>1, <2>2, <2>3, <2>4, <2>5 DEF VecShape, In, vecVars
<1>7. RxShape'
  <2>1. rxAt \notin RxInVector
    BY <1>1 DEF RaceFree, RxShape
  <2>2. \A n \in Node : m_thread'[n] # "created"
    BY <1>4, <2>1 DEF RaceFree, RxShape, RxInVector
  <2> QED BY <1>1, <2>1, <2>2 DEF RxShape, RxInVector, rxVars
<1>8. TxShape'
  BY <1>1, <1>2, <1>4, <1>5 DEF RaceFree, TxShape, Serving, Dying, vecVars
<1>9. NoticesOK'
  <2>1. \A i \in 1..Len(g_messageNodeQueue) :
          g_messageNodeQueue[i].m_messageType = 1
            => g_messageNodeQueue[i].m_nodeID \in Node
    <3>1. \A i \in 1..Len(g_messageNodeQueue) : g_messageNodeQueue[i] \in Message
      BY DEF ManagerInv, NodeInv, MessagesOK
    <3> QED BY <3>1 DEF Message, PingMessage, NotifyMessage
  <2>2. Serving' => Dying' = Dying
    BY <1>5 DEF Serving, Dying
  <2> QED BY <1>1, <1>4, <2>1, <2>2 DEF RaceFree, NoticesOK, queueVars
<1>10. DeathKnown'
  BY <1>1, <1>4 DEF RaceFree, DeathKnown, Serving, queueVars
<1> QED BY <1>1, <1>6, <1>7, <1>8, <1>9, <1>10 DEF RaceFree

(* TX finds every element alive, its iterator stands, and the node it      *)
(* joins is not deleted.                                                   *)
LEMMA TxNoCrash ==
  ASSUME ManagerInv, RaceFree
  PROVE  ~TxCrash
<1> USE RaceFreeFacts
<1>1. txAt \in {"bcast", "scan"} /\ ~AtEnd(txIt) => Valid(txIt)
  BY DEF RaceFree, VecShape, TxShape, AtEnd, Valid
<1>2. txAt = "erase" => txIt # Dangling /\ size # 0
  BY DEF RaceFree, TxShape, Dangling
<1>3. txAt = "join" => m_thread[txNode] # "freed"
  BY DEF RaceFree, TxShape
<1> QED BY <1>1, <1>2, <1>3 DEF TxCrash

(* A step of TX keeps it, unless it overlaps with RX.                      *)
LEMMA TxRaceFree ==
  ASSUME ManagerInv, RaceFree, ~Overlap', Tx
  PROVE  RaceFree'
  BY TxPopRaceFree, TxQuietRaceFree, TxScanRaceFree, TxEraseRaceFree, TxJoinRaceFree,
     TxNoCrash DEF Tx

-----------------------------------------------------------------------------
(* stop() touches nothing of this; start() finds RX and TX ended. *)
LEMMA MainRaceFree ==
  ASSUME ManagerInv, RaceFree, Main
  PROVE  RaceFree'
<1>1. /\ UNCHANGED <<nodeVars, g_messageNodeQueue, lost, vecVars, txNode, crashed>>
      /\ \/ UNCHANGED <<rxVars, txVars>>
         \/ /\ rxAt = "exited" /\ txAt = "exited"
            /\ rxAt' = "pop" /\ txAt' = "pop"
  BY MainBounds
<1> USE <1>1 DEF RaceFree, nodeVars, vecVars, rxVars, txVars, Serving, Dying
<1>2. VecShape'
  BY DEF VecShape, In, DistinctPorts, getPortInfo
<1>3. RxShape'
  BY DEF RxShape, RxInVector, TxInVector, getPortInfo
<1>4. TxShape'
  BY DEF TxShape, In
<1>5. NoticesOK' /\ DeathKnown'
  BY DEF NoticesOK, DeathKnown
<1> QED BY <1>2, <1>3, <1>4, <1>5

(* A node's thread announces its own death, once, before it ends.          *)
LEMMA NodeRaceFree ==
  ASSUME ManagerInv, RaceFree, NEW n \in Node, NodeStep(n)
  PROVE  RaceFree'
<1> USE RaceFreeFacts
<1>1. /\ handleThread(n) /\ NodeInv /\ NodesOK
      /\ UNCHANGED <<vecVars, rxVars, txVars, crashed>>
  BY DEF NodeStep, ManagerInv, NodeInv
<1>2. /\ m_clientAddr' = m_clientAddr
      /\ m_thread[n] \notin {"absent", "created", "exited", "freed"}
      /\ m_thread'[n] \notin {"absent", "created", "freed"}
      /\ \A k \in Node : k # n => m_thread'[k] = m_thread[k]
      /\ m_thread'[n] = "exited" <=> m_thread[n] = "stop"
  BY <1>1, ThreadStepBounds, ThreadStepNotices
<1>3. \A k \in Node :
        /\ \A loc \in {"absent", "created", "freed"} : m_thread'[k] = loc <=> m_thread[k] = loc
        /\ m_thread[k] \in {"stop", "exited"} => m_thread'[k] \in {"stop", "exited"}
  BY <1>2
<1>4. VecShape'
  <2>1. \A k \in Node :
          m_thread'[k] \notin {"absent", "freed"} <=> m_thread[k] \notin {"absent", "freed"}
    BY <1>3
  <2>2. \A i \in 1..size : m_vecNodeBase[i] # NULL =>
          m_thread'[m_vecNodeBase[i]] \notin {"absent", "freed"}
    BY <2>1 DEF RaceFree, VecShape
  <2> QED
    BY <1>1, <1>2, <2>1, <2>2
       DEF RaceFree, VecShape, In, DistinctPorts, getPortInfo, vecVars, txVars
<1>5. RxShape'
  <2>1. rxAt = "start" => m_vecNodeBase[size] \in Node
    BY DEF RaceFree, RxShape, VecShape, RxInVector
  <2> QED
    BY <1>1, <1>2, <1>3, <2>1 DEF RaceFree, RxShape, getPortInfo, vecVars, rxVars, txVars
<1>6. TxShape'
  BY <1>1, <1>2, <1>3 DEF RaceFree, TxShape, Serving, Dying, In, vecVars, txVars
<1>7. Serving => Dying # n \/ m_thread[n] = "stop"
  BY <1>2 DEF RaceFree, TxShape, Serving
<1>8. NoticesOK'
  <2>1. \A i \in 1..Len(g_messageNodeQueue) :
          g_messageNodeQueue[i].m_messageType = 1
            => g_messageNodeQueue[i].m_nodeID \in Node
    <3>1. \A i \in 1..Len(g_messageNodeQueue) : g_messageNodeQueue[i] \in Message
      BY DEF ManagerInv, NodeInv, MessagesOK
    <3> QED BY <3>1 DEF Message, PingMessage, NotifyMessage
  <2> DEFINE Fine(m) == m.m_messageType = 1 =>
                          /\ m_thread'[m.m_nodeID] \notin {"absent", "created", "freed"}
                          /\ m.m_clientAddr = m_clientAddr'[m.m_nodeID]
                          /\ Serving' => m.m_nodeID # Dying'
  <2>2. \A i \in 1..Len(g_messageNodeQueue) : Fine(g_messageNodeQueue[i])
    BY <1>1, <1>2, <1>3, <2>1 DEF RaceFree, NoticesOK, Serving, Dying, txVars
  <2>3. m_thread[n] = "pushNotify" => Fine(Notice(n))
    BY <1>1, <1>2, <1>7 DEF Notice, Serving, Dying, txVars
  <2>4. \A j \in 1..Len(g_messageNodeQueue') : Fine(g_messageNodeQueue'[j])
    <3> HIDE DEF Fine
    <3>1. \A j \in 1..Len(g_messageNodeQueue') :
            g_messageNodeQueue'[j].m_messageType = 0 => Fine(g_messageNodeQueue'[j])
      BY DEF Fine
    <3> QED BY <1>1, <2>2, <2>3, <3>1, ThreadStepNotices
  <2> QED BY <2>4 DEF NoticesOK
<1>9. DeathKnown'
  <2>1. ASSUME NEW k \in Node, m_thread'[k] \in {"stop", "exited"}
        PROVE  \/ k \in lost'
               \/ Serving /\ Dying = k
               \/ \E j \in 1..Len(g_messageNodeQueue') :
                    IsNotice(g_messageNodeQueue'[j], k, "DEAD")
    <3>1. CASE m_thread[k] \in {"stop", "exited"}
      BY <1>1, <3>1, ThreadStepNotices DEF RaceFree, DeathKnown
    <3>2. CASE m_thread[k] \notin {"stop", "exited"}
      <4>1. k = n /\ m_thread'[n] = "stop"
        BY <1>2, <2>1, <3>2
      <4> QED BY <1>1, <4>1, ThreadStepNotices
    <3> QED BY <3>1, <3>2
  <2> QED BY <1>1, <2>1 DEF DeathKnown, Serving, Dying, txVars
<1> QED BY <1>1, <1>4, <1>5, <1>6, <1>8, <1>9 DEF RaceFree

-----------------------------------------------------------------------------
(* The invariant holds initially. *)
LEMMA RaceFreeInit == Init => RaceFreeInv
  BY DEF Init, NodeInit, RaceFreeInv, RaceFree, VecShape, RxShape, TxShape, NoticesOK,
         DeathKnown, DistinctPorts, In, RxInVector, TxInVector, Serving

(* A step of one of the threads.                                           *)
LEMMA RaceFreeThreads ==
  ASSUME ManagerInv, ManagerInv', RaceFree, ~Overlap',
         Rx \/ Tx \/ Main \/ \E n \in Node : NodeStep(n)
  PROVE  RaceFree'
  BY RxRaceFree, TxRaceFree, MainRaceFree, NodeRaceFree

(* It is kept by every step. *)
LEMMA RaceFreeStep ==
  ASSUME ManagerInv, RaceFreeInv, [Next]_vars
  PROVE  RaceFreeInv'
<1> SUFFICES ASSUME ~raced'
             PROVE  RaceFree'
  BY DEF RaceFreeInv
<1>1. ManagerInv'
  BY ManagerInvStep
<1>2. CASE Terminated \/ UNCHANGED vars
  <2> USE <1>2 DEF Terminated, vars, nodeVars, queueVars, vecVars, rxVars, txVars,
                   RaceFreeInv, RaceFree, Serving, Dying
  <2>1. VecShape'
    BY DEF VecShape, In, DistinctPorts, getPortInfo
  <2>2. RxShape'
    BY DEF RxShape, getPortInfo
  <2>3. TxShape'
    BY DEF TxShape, In
  <2>4. NoticesOK' /\ DeathKnown'
    BY DEF NoticesOK, DeathKnown
  <2> QED BY <2>1, <2>2, <2>3, <2>4
<1>3. CASE Step(Rx) \/ Step(Tx) \/ Step(Main) \/ \E n \in Node : Step(NodeStep(n))
  <2>1. raced' = (raced \/ Overlap')
    BY <1>3 DEF Step
  <2>2. ~raced /\ ~Overlap'
    BY <2>1, Zenon
  <2> QED BY <1>1, <1>3, <2>2, RaceFreeThreads DEF Step, RaceFreeInv
<1> QED BY <1>2, <1>3 DEF Next

(* The inductive invariant implies the properties.                         *)
LEMMA RaceFreeImplies ==
  ASSUME ManagerInv, RaceFreeInv
  PROVE  /\ UniquePorts /\ JoinTargetIsDying /\ NoCrashWithoutRace
         /\ ZombieOnlyByLoss /\ NoNoticeOfDeleted
<1> USE DEF RaceFreeInv, RaceFree
<1>1. UniquePorts
  BY DEF UniquePorts, VecShape
<1>2. JoinTargetIsDying
  BY DEF JoinTargetIsDying, TxShape, Dying
<1>3. NoCrashWithoutRace
  BY DEF NoCrashWithoutRace
<1>4. ZombieOnlyByLoss
  <2> SUFFICES ASSUME ~raced, NEW n \in Monitored, m_thread[n] = "exited", n \notin lost
               PROVE  DeadPending(n)
    BY DEF ZombieOnlyByLoss
  <2>1. n \in Node /\ In(n)
    BY RaceFreeFacts DEF Monitored, In
  <2>2. CASE Serving /\ Dying = n
    BY <2>1, <2>2 DEF TxShape, Serving, Dying, DeadPending
  <2>3. CASE \E i \in 1..Len(g_messageNodeQueue) :
               IsNotice(g_messageNodeQueue[i], n, "DEAD")
    BY <2>3 DEF DeadPending
  <2> QED BY <2>1, <2>2, <2>3 DEF DeathKnown
<1>5. NoNoticeOfDeleted
  BY DEF NoNoticeOfDeleted, NoticesOK
<1> QED BY <1>1, <1>2, <1>3, <1>4, <1>5

(* Both invariants, as one fact about the specification.                   *)
LEMMA RaceFreeAlways == Spec => [](ManagerInv /\ RaceFreeInv)
  BY ManagerInvInit, ManagerInvStep, RaceFreeInit, RaceFreeStep, PTL DEF Spec

(* Without an overlap of RX and TX no two nodes of the vector have the     *)
(* same port, over any number of registrations, deaths and restarts.       *)
THEOREM UniquePortsCorrect == Spec => []UniquePorts
  BY RaceFreeAlways, RaceFreeImplies, PTL

(* TX joins the node that announced its death and no other, although the   *)
(* notification names a port only, and that node's thread is ending.       *)
THEOREM JoinTargetCorrect == Spec => []JoinTargetIsDying
  BY RaceFreeAlways, RaceFreeImplies, PTL

(* Nothing but an overlap of RX and TX on the vector makes the manager use *)
(* a stale iterator, a null or a deleted node, or overwrite a running      *)
(* thread.                                                                 *)
THEOREM NoCrashCorrect == Spec => []NoCrashWithoutRace
  BY RaceFreeAlways, RaceFreeImplies, PTL

(* A node whose thread has ended stays in the vector only if its DEAD      *)
(* notification is still to be served, or was discarded.                   *)
THEOREM ZombieOnlyByLossCorrect == Spec => []ZombieOnlyByLoss
  BY RaceFreeAlways, RaceFreeImplies, PTL

(* No notification of a deleted node is left in the queue, not even after  *)
(* a restart.                                                              *)
THEOREM NoNoticeOfDeletedCorrect == Spec => []NoNoticeOfDeleted
  BY RaceFreeAlways, RaceFreeImplies, PTL

-----------------------------------------------------------------------------
(* The manager as the environment of the nodes. *)
NodeFrame == <<nodeVars, queueVars>>

(* RX constructs, starts, and delivers pongs.                              *)
LEMMA RxAsAssumed ==
  ASSUME ManagerInv, Rx
  PROVE  [NodeNext]_NodeFrame
<1>1. CASE UNCHANGED NodeFrame
  BY <1>1
<1>2. CASE RxSetPong
  <2>1. m_vecNodeBase[rxIt] \in Node
    BY <1>2, ValidIsNode DEF ManagerInv, RxSetPong
  <2>2. Pong(m_vecNodeBase[rxIt])
    BY <1>2 DEF RxSetPong, Pong
  <2> QED BY <2>1, <2>2 DEF NodeNext
<1>3. CASE RxPush
  <2>1. m_nodeID + 1 \in Node /\ rxPacket.m_clientAddr \in Client
    BY <1>3, NodeAssumption DEF RxPush, ManagerInv, RxOK, VecOK, Packet, Node
  <2>2. Register(m_nodeID + 1, rxPacket.m_clientAddr)
    BY <1>3 DEF RxPush, Register
  <2> QED BY <2>1, <2>2 DEF NodeNext
<1>4. CASE RxStart
  <2>1. m_vecNodeBase[size] \in Node
    BY <1>4, ValidIsNode DEF ManagerInv, RxStart
  <2>2. Start(m_vecNodeBase[size]) \/ UNCHANGED NodeFrame
    BY <1>4 DEF RxStart, Start, NodeFrame
  <2> QED BY <2>1, <2>2 DEF NodeNext
<1>5. CASE \/ \E packet \in Packet : RxPop(packet)
           \/ RxStopped \/ RxScan \/ RxTest \/ RxCrash
  BY <1>5 DEF RxPop, RxStopped, RxScan, RxTest, RxCrash, Crash, NodeFrame
<1> QED BY <1>2, <1>3, <1>4, <1>5 DEF Rx

(* TX takes messages, and deletes a node whose thread has ended: it joins  *)
(* the node that announced its death, which is past "created".             *)
LEMMA TxAsAssumed ==
  ASSUME ManagerInv, JoinTargetIsDying, ~raced, Tx
  PROVE  [NodeNext]_NodeFrame
<1>1. CASE TxPop
  <2>1. Consume
    BY <1>1 DEF TxPop, Consume
  <2> QED BY <2>1 DEF NodeNext
<1>2. CASE TxJoin
  <2>1. txNode \in Node /\ m_thread[txNode] \in {"stop", "exited"}
    BY <1>2 DEF TxJoin, ManagerInv, TxOK, JoinTargetIsDying
  <2>2. Delete(txNode)
    BY <1>2, <2>1 DEF TxJoin, Delete, Destroy
  <2> QED BY <2>1, <2>2 DEF NodeNext
<1>3. CASE TxStopped \/ TxBroadcast \/ TxScan \/ TxErase \/ TxCrash
  BY <1>3 DEF TxStopped, TxBroadcast, TxScan, TxErase, TxCrash, Crash, NodeFrame
<1> QED BY <1>1, <1>2, <1>3 DEF Tx

(* The main thread stops and starts the queue of messages.                 *)
LEMMA MainAsAssumed ==
  ASSUME ManagerInv, Main
  PROVE  [NodeNext]_NodeFrame
<1>1. UNCHANGED <<nodeVars, g_messageNodeQueue, lost>>
  BY MainBounds
<1>2. queueOpen' \in BOOLEAN /\ queueOpen \in BOOLEAN
  BY MainBounds, NodeInvImplies DEF ManagerInv, NodeTypeOK
<1>3. CASE queueOpen' = queueOpen
  BY <1>1, <1>3 DEF NodeFrame, queueVars
<1>4. CASE queueOpen' = ~queueOpen
  BY <1>1, <1>4 DEF SwitchQueue, NodeNext
<1> QED BY <1>2, <1>3, <1>4

(* Every step of the manager is one of NodeBase, or none.                  *)
LEMMA StepAsAssumed ==
  ASSUME ManagerInv, RaceFreeInv, [Next]_vars, ~raced'
  PROVE  [NodeNext]_NodeFrame
<1>1. CASE Terminated \/ UNCHANGED vars
  BY <1>1 DEF Terminated, vars, NodeFrame
<1>2. CASE Step(Rx)
  BY <1>2, RxAsAssumed DEF Step
<1>3. CASE Step(Tx)
  BY <1>3, TxAsAssumed, RaceFreeImplies DEF Step
<1>4. CASE Step(Main)
  BY <1>4, MainAsAssumed DEF Step
<1>5. CASE \E n \in Node : Step(NodeStep(n))
  BY <1>5 DEF Step, NodeStep, NodeNext
<1> QED BY <1>1, <1>2, <1>3, <1>4, <1>5 DEF Next

(* What NodeBase assumes of its environment the manager keeps, for any     *)
(* number of nodes, stops and restarts, until RX and TX overlap: the       *)
(* results about NodeBase are results about the running program.           *)
THEOREM NodesAsAssumedCorrect == Spec => NodesAsAssumed
<1>1. Init => NodeInit
  BY DEF Init
<1>2. ASSUME ManagerInv, RaceFreeInv, [Next]_vars
      PROVE  [raced' \/ NodeNext]_<<nodeVars, queueVars>>
  BY <1>2, StepAsAssumed DEF NodeFrame
<1> QED BY <1>1, <1>2, RaceFreeAlways, PTL DEF Spec, NodesAsAssumed

(* In the manager, each node goes through the life cycle of NodeLifecycle. *)
NodesLive ==
  /\ Lifecycle!Init
  /\ [][raced' \/ Lifecycle!Next]_(Lifecycle!lifecycleVars)

(* Composed with RX, TX and stop(), no node is given up before 1 +         *)
(* RETRY_NUM silent windows in a row, and none that was removed is         *)
(* monitored again under its number, until RX and TX overlap.              *)
THEOREM LifecycleInManager == Spec => NodesLive
<1>1. Init => Lifecycle!Init
  BY LifecycleInit DEF Init
<1>2. ASSUME ManagerInv, RaceFreeInv, [Next]_vars
      PROVE  [raced' \/ Lifecycle!Next]_(Lifecycle!lifecycleVars)
  BY <1>2, StepAsAssumed, NodeNextRefines
     DEF ManagerInv, NodeInv, LifecycleStep, NodeFrame
<1> QED BY <1>1, <1>2, RaceFreeAlways, PTL DEF Spec, NodesLive
=============================================================================
