-------------------------- MODULE NodeManagamentProofs --------------------------
(***************************************************************************)
(* Proofs about NodeManagament that hold whatever RX and TX do to each     *)
(* other through the vector: types, and the discipline of start() and      *)
(* stop().  The nodes keep the invariant of NodeBaseProofs: all that the   *)
(* manager does to a node, its environment there may do.                   *)
(***************************************************************************)
EXTENDS NodeManagament, NodeBaseProofs

(* The main thread: the flags say where it is in stop() and start(), and   *)
(* RX and TX have ended from the end of stop() to the end of start().      *)
Starting == {"startReceived", "startMessages", "startThreads"}

MainOK ==
  /\ m_running \in BOOLEAN /\ receivedOpen \in BOOLEAN
  /\ mainAt \in {"up", "stopReceived", "stopMessages", "join", "down"} \cup Starting
  /\ stops \in 0..MaxStops
  /\ m_running <=> mainAt \in {"up"} \cup Starting
  /\ mainAt \in {"up", "startThreads"} => queueOpen
  /\ mainAt \in {"down"} \cup Starting => rxAt = "exited" /\ txAt = "exited"

VecOK ==
  /\ m_vecNodeBase \in [Slot -> Node \cup {NULL}]
  /\ size \in 0..MaxNodes
  /\ capacity \in Nat
  /\ m_nodeID \in 0..MaxNodes

(* RX has a packet in hand while it is in the vector; a registration has   *)
(* been let in only while a node could still be created.                   *)
RxOK ==
  /\ rxAt \in RxInVector \cup {"pop", "exited"}
  /\ rxPacket \in Packet \cup {NoPacket}
  /\ rxIt \in 1..MaxNodes + 1
  /\ rxAt \in {"scan", "setPong", "test", "push"} => rxPacket \in Packet
  /\ rxAt \in {"test", "push"} => rxPacket.m_typeMess = "REGISTER"
  /\ rxAt \in {"scan", "test", "push"} /\ rxPacket.m_typeMess = "REGISTER"
       => m_nodeID < MaxNodes

(* TX scans and erases for a DEAD notification only; it has a node in hand *)
(* exactly while it joins it.                                              *)
TxOK ==
  /\ txAt \in TxInVector \cup {"pop", "exited"}
  /\ messageNode \in Message \cup {NoMessage}
  /\ txIt \in 0..MaxNodes + 1
  /\ txEnd \in 1..MaxNodes + 1
  /\ txNode \in Node \cup {NULL}
  /\ txAt \in {"scan", "erase", "join"} => messageNode \in Message /\ IsDead(messageNode)
  /\ txAt = "join" <=> txNode # NULL

(* The nodes that have been created are the first m_nodeID.                *)
Fresh(n) ==
  /\ m_thread[n] = "absent" <=> n > m_nodeID
  /\ m_thread[n] = "absent" => m_clientAddr[n] = NoClient
  /\ m_thread[n] \in {"absent", "created"} => m_currentState[n] = "INIT"

ManagerInv ==
  /\ NodeInv
  /\ MainOK /\ VecOK /\ RxOK /\ TxOK
  /\ \A n \in Node : Fresh(n)
  /\ raced \in BOOLEAN /\ crashed \in BOOLEAN

(* The inductive invariant implies the properties.                         *)
LEMMA ManagerInvImplies == ManagerInv => TypeOK
  BY NodeInvImplies
     DEF ManagerInv, MainOK, Starting, VecOK, RxOK, TxOK, TypeOK, Message

(* When waitAndPop can return without a message, m_running is cleared.     *)
LEMMA StoppedMeansOver ==
  ASSUME ManagerInv, txAt = "pop", ~queueOpen
  PROVE  ~m_running
  BY DEF ManagerInv, MainOK, Starting

(* It holds initially. *)
LEMMA ManagerInvInit == Init => ManagerInv
<1> SUFFICES ASSUME Init PROVE ManagerInv
  OBVIOUS
<1> USE NodeAssumption, ManagerAssumption DEF Init
<1>1. NodeInv
  BY NodeInvInit
<1>2. MainOK
  BY DEF MainOK, Starting, NodeInit
<1>3. VecOK /\ RxOK /\ TxOK
  BY DEF VecOK, RxOK, TxOK, RxInVector, TxInVector, NULL, Node
<1>4. \A n \in Node : Fresh(n)
  BY DEF Fresh, NodeInit, Node
<1> QED BY <1>1, <1>2, <1>3, <1>4 DEF ManagerInv

-----------------------------------------------------------------------------
(* The nodes' part is kept by a step that leaves the nodes and the queue   *)
(* alone, or only takes the oldest message away, or switches the queue.    *)
LEMMA NodesFrame ==
  ASSUME ManagerInv, UNCHANGED nodeVars, queueOpen' \in BOOLEAN, lost' \subseteq Node,
         \/ g_messageNodeQueue' = g_messageNodeQueue
         \/ g_messageNodeQueue # <<>> /\ g_messageNodeQueue' = Tail(g_messageNodeQueue)
  PROVE  NodeInv'
<1>1. NodesOK' /\ LeavingStays
  BY DEF ManagerInv, NodeInv, NodesOK, Control, LeavingStays, nodeVars
<1>2. MessagesOK'
  BY <1>1, MessagesKept DEF ManagerInv, NodeInv
<1> QED BY <1>1, <1>2 DEF NodeInv

(* What the manager does to one node keeps the nodes' part.                *)
LEMMA NodesOutside ==
  ASSUME ManagerInv, NEW n \in Node, UNCHANGED queueVars,
         (\E addr \in Client : Construct(n, addr)) \/ StartNode(n) \/ SetPong(n) \/ Destroy(n)
  PROVE  NodeInv'
<1>1. NodesOK' /\ LeavingStays
  BY OutsideStep DEF ManagerInv, NodeInv
<1>2. MessagesOK'
  BY <1>1, MessagesKept DEF ManagerInv, NodeInv, queueVars, MessagesOK
<1> QED BY <1>1, <1>2 DEF NodeInv

(* A position that RX or TX finds valid holds a node that has been created *)
(* and not deleted.                                                        *)
LEMMA ValidIsNode ==
  ASSUME VecOK, NEW it, Valid(it)
  PROVE  it \in Slot /\ m_vecNodeBase[it] \in Node
  BY DEF VecOK, Valid

(* A crash ends the behaviour where it is.                                 *)
LEMMA CrashKeeps ==
  ASSUME ManagerInv, Crash, raced' \in BOOLEAN
  PROVE  ManagerInv'
<1> USE DEF Crash, nodeVars, queueVars, mainVars, vecVars, rxVars, txVars
<1>1. NodeInv'
  BY NodesFrame DEF ManagerInv, NodeInv, MessagesOK
<1>2. MainOK' /\ VecOK' /\ RxOK' /\ TxOK' /\ (\A n \in Node : Fresh(n)')
  BY DEF ManagerInv, MainOK, VecOK, RxOK, TxOK, Fresh
<1> QED BY <1>1, <1>2 DEF ManagerInv

-----------------------------------------------------------------------------
(* The steps of RX. *)
LEMMA RxKeeps ==
  ASSUME ManagerInv, Rx, raced' \in BOOLEAN
  PROVE  ManagerInv'
<1> USE NodeAssumption DEF ManagerInv
<1> DEFINE Quiet == UNCHANGED <<nodeVars, queueVars, mainVars, vecVars, txVars, crashed>>
<1>1. ASSUME Quiet, RxOK', rxAt # "exited"
      PROVE  ManagerInv'
  <2> USE <1>1 DEF nodeVars, queueVars, mainVars, vecVars, txVars
  <2>1. NodeInv'
    BY NodesFrame DEF NodeInv, MessagesOK
  <2>2. MainOK' /\ VecOK' /\ TxOK' /\ (\A n \in Node : Fresh(n)')
    BY DEF MainOK, VecOK, TxOK, Fresh
  <2> QED BY <2>1, <2>2
<1>2. ASSUME NEW packet \in Packet, RxPop(packet)
      PROVE  ManagerInv'
  <2>1. RxOK'
    BY <1>2 DEF RxPop, RxOK, VecOK, vecVars, RxInVector, Packet
  <2> QED BY <1>1, <1>2, <2>1 DEF RxPop
<1>3. CASE RxStopped
  <2>1. RxOK' /\ Quiet
    BY <1>3 DEF RxStopped, RxOK, vecVars, RxInVector, rxVars
  <2> QED BY <1>1, <1>3, <2>1 DEF RxStopped
<1>4. CASE RxScan
  <2>1. Valid(rxIt) => rxIt \in Slot
    BY DEF Valid
  <2>2. RxOK'
    BY <1>4, <2>1 DEF RxScan, RxReturn, RxOK, vecVars, RxInVector, Packet, Slot
  <2>3. Quiet
    BY <1>4 DEF RxScan
  <2> QED BY <1>1, <1>4, <2>2, <2>3 DEF RxScan
<1>5. CASE RxTest
  <2>1. RxOK'
    BY <1>5 DEF RxTest, RxReturn, RxOK, vecVars, RxInVector
  <2> QED BY <1>1, <1>5, <2>1 DEF RxTest
<1>6. CASE RxSetPong
  <2>1. m_vecNodeBase[rxIt] \in Node /\ SetPong(m_vecNodeBase[rxIt])
    BY <1>6, ValidIsNode DEF RxSetPong
  <2>2. NodeInv'
    BY <1>6, <2>1, NodesOutside DEF RxSetPong
  <2>3. RxOK'
    BY <1>6 DEF RxSetPong, RxReturn, RxOK, vecVars, RxInVector
  <2>4. MainOK' /\ VecOK' /\ TxOK' /\ (\A n \in Node : Fresh(n)') /\ crashed' \in BOOLEAN
    BY <1>6 DEF RxSetPong, SetPong, queueVars, mainVars, vecVars, txVars,
                MainOK, VecOK, TxOK, Fresh
  <2> QED BY <2>2, <2>3, <2>4
<1>7. CASE RxPush
  <2>1. /\ m_nodeID + 1 \in Node /\ m_nodeID < MaxNodes /\ m_nodeID \in Nat
        /\ rxPacket.m_clientAddr \in Client
    BY <1>7 DEF RxPush, RxOK, VecOK, Node, Packet
  <2>2. NodeInv'
    BY <1>7, <2>1, NodesOutside DEF RxPush
  <2>3. MainOK' /\ RxOK' /\ TxOK' /\ crashed' \in BOOLEAN
    BY <1>7 DEF RxPush, mainVars, queueVars, MainOK, RxOK, TxOK, RxInVector, Dangling
  <2>4. VecOK'
    BY <1>7, <2>1 DEF RxPush, VecOK, Slot, Node
  <2>5. ASSUME NEW n \in Node
        PROVE  Fresh(n)'
    <3>1. Fresh(n) /\ n \in Nat
      BY DEF Node
    <3> QED
      BY <1>7, <2>1, <3>1 DEF RxPush, Construct, Goto, Fresh, NodeInv, NodesOK
  <2> QED BY <2>2, <2>3, <2>4, <2>5
<1>8. CASE RxStart
  <2>1. m_vecNodeBase[size] \in Node
    BY <1>8, ValidIsNode DEF RxStart
  <2>2. NodeInv'
    <3>1. CASE StartNode(m_vecNodeBase[size])
      BY <1>8, <2>1, <3>1, NodesOutside DEF RxStart
    <3>2. CASE UNCHANGED nodeVars
      BY <1>8, <3>2, NodesFrame DEF RxStart, NodeInv, MessagesOK, queueVars
    <3> QED BY <1>8, <3>1, <3>2 DEF RxStart
  <2>3. MainOK' /\ VecOK' /\ RxOK' /\ TxOK' /\ crashed' \in BOOLEAN
    BY <1>8 DEF RxStart, RxReturn, mainVars, queueVars, vecVars, txVars,
                MainOK, VecOK, RxOK, TxOK, RxInVector
  <2>4. ASSUME NEW n \in Node
        PROVE  Fresh(n)'
    <3>1. CASE StartNode(m_vecNodeBase[size])
      BY <1>8, <2>1, <3>1 DEF RxStart, StartNode, Goto, Fresh, NodeInv, NodesOK, vecVars
    <3>2. CASE UNCHANGED nodeVars
      BY <1>8, <3>2 DEF RxStart, Fresh, nodeVars, vecVars
    <3> QED BY <1>8, <3>1, <3>2 DEF RxStart
  <2> QED BY <2>2, <2>3, <2>4
<1>9. CASE RxCrash
  BY <1>9, CrashKeeps DEF RxCrash
<1> QED
  BY <1>2, <1>3, <1>4, <1>5, <1>6, <1>7, <1>8, <1>9 DEF Rx

-----------------------------------------------------------------------------
(* The steps of TX. *)
LEMMA TxKeeps ==
  ASSUME ManagerInv, Tx, raced' \in BOOLEAN
  PROVE  ManagerInv'
<1> USE NodeAssumption DEF ManagerInv
<1>1. CASE TxPop
  <2>1. /\ Head(g_messageNodeQueue) \in Message
        /\ Head(g_messageNodeQueue) = g_messageNodeQueue[1]
    BY <1>1 DEF TxPop, NodeInv, MessagesOK
  <2>2. NodeInv'
    <3>1. lost' \subseteq Node
      BY <1>1 DEF TxPop, Discard, NodeInv, MessagesOK
    <3> QED BY <1>1, <3>1, NodesFrame DEF TxPop, NodeInv, MessagesOK
  <2>3. TxOK'
    BY <1>1, <2>1 DEF TxPop, Dispatch, TxReturn, TxOK, TxInVector, IsDead, Message,
                      PingMessage, NotifyMessage, NULL, Node
  <2>4. MainOK' /\ VecOK' /\ RxOK' /\ (\A n \in Node : Fresh(n)') /\ crashed' \in BOOLEAN
    BY <1>1 DEF TxPop, nodeVars, mainVars, vecVars, rxVars, MainOK, VecOK, RxOK, Fresh
  <2> QED BY <2>2, <2>3, <2>4
<1>2. CASE TxStopped \/ TxBroadcast \/ TxScan
  <2>0. TxStopped => txAt' = "exited" /\ UNCHANGED <<messageNode, txIt, txEnd, txNode>>
    BY StoppedMeansOver DEF TxStopped
  <2>1. UNCHANGED <<nodeVars, queueVars, mainVars, vecVars, rxVars, crashed>>
    BY <1>2 DEF TxStopped, TxBroadcast, TxScan
  <2>2. NodeInv'
    BY <2>1, NodesFrame DEF NodeInv, MessagesOK, queueVars
  <2>3. Valid(txIt) => txIt \in Slot
    BY DEF Valid
  <2>4. TxOK'
    <3>1. CASE TxStopped
      BY <2>0, <3>1 DEF TxStopped, TxOK, TxInVector
    <3> QED
      BY <1>2, <2>1, <2>3, <3>1 DEF TxBroadcast, TxScan, TxReturn, TxOK, VecOK,
                                    TxInVector, Slot, vecVars
  <2>5. txAt # "exited"
    BY <1>2 DEF TxStopped, TxBroadcast, TxScan
  <2>6. MainOK' /\ VecOK' /\ RxOK' /\ (\A n \in Node : Fresh(n)')
    BY <2>1, <2>5 DEF nodeVars, queueVars, mainVars, vecVars, rxVars,
                      MainOK, VecOK, RxOK, Fresh
  <2> QED BY <2>1, <2>2, <2>4, <2>6
<1>3. CASE TxErase
  <2>1. UNCHANGED <<nodeVars, queueVars, mainVars, capacity, m_nodeID, rxVars, crashed>>
    BY <1>3 DEF TxErase
  <2>2. NodeInv'
    BY <2>1, NodesFrame DEF NodeInv, MessagesOK, queueVars
  <2>3. VecOK'
    BY <1>3, <2>1 DEF TxErase, VecOK, TxOK, Slot, Dangling
  <2>4. TxOK'
    <3>1. CASE txIt + 1 < txEnd /\ TxDelete(m_vecNodeBase[txIt], txIt + 1)
      <4>1. m_vecNodeBase[txIt] \in Node \cup {NULL} /\ txIt + 1 \in 0..MaxNodes + 1
        BY <1>3, <3>1 DEF TxErase, VecOK, TxOK, Slot, Dangling
      <4> QED
        BY <1>3, <3>1, <4>1 DEF TxErase, TxDelete, TxReturn, TxOK, TxInVector, Message
    <3>2. CASE /\ txIt + 1 = txEnd /\ size > 0
               /\ TxDelete(m_vecNodeBase[size], txEnd)
      <4>1. m_vecNodeBase[size] \in Node \cup {NULL} /\ txEnd \in 0..MaxNodes + 1
        BY <1>3, <3>2 DEF TxErase, VecOK, TxOK, Slot
      <4> QED
        BY <1>3, <3>2, <4>1 DEF TxErase, TxDelete, TxReturn, TxOK, TxInVector, Message
    <3> QED BY <1>3, <3>1, <3>2 DEF TxErase
  <2>5. txAt # "exited"
    BY <1>3 DEF TxErase
  <2>6. MainOK' /\ RxOK' /\ (\A n \in Node : Fresh(n)')
    BY <2>1, <2>5 DEF nodeVars, queueVars, mainVars, rxVars, MainOK, RxOK, Fresh
  <2> QED BY <2>1, <2>2, <2>3, <2>4, <2>6
<1>4. CASE TxJoin
  <2>1. txNode \in Node /\ Destroy(txNode)
    BY <1>4 DEF TxJoin, TxOK, NULL
  <2>2. UNCHANGED <<queueVars, mainVars, vecVars, rxVars, crashed>> /\ txAt # "exited"
    BY <1>4 DEF TxJoin
  <2>3. NodeInv'
    BY <2>1, <2>2, NodesOutside
  <2>4. TxOK'
    BY <1>4 DEF TxJoin, TxReturn, TxOK, TxInVector
  <2>5. MainOK' /\ VecOK' /\ RxOK'
    BY <2>2 DEF queueVars, mainVars, vecVars, rxVars, MainOK, VecOK, RxOK
  <2>6. ASSUME NEW n \in Node
        PROVE  Fresh(n)'
    BY <2>1, <2>2 DEF Destroy, Goto, Fresh, NodeInv, NodesOK, vecVars
  <2> QED BY <2>2, <2>3, <2>4, <2>5, <2>6
<1>5. CASE TxCrash
  BY <1>5, CrashKeeps DEF TxCrash
<1> QED BY <1>1, <1>2, <1>3, <1>4, <1>5 DEF Tx

-----------------------------------------------------------------------------
(* The main thread touches neither the nodes nor the vector; it creates RX *)
(* and TX when the earlier ones have ended.                                *)
LEMMA MainBounds ==
  ASSUME ManagerInv, Main
  PROVE  /\ UNCHANGED <<nodeVars, g_messageNodeQueue, lost, vecVars, txNode, crashed>>
         /\ queueOpen' \in BOOLEAN
         /\ UNCHANGED <<rxVars, txVars>> \/ StartThreads
         /\ \/ UNCHANGED <<rxVars, txVars>>
            \/ rxAt = "exited" /\ txAt = "exited" /\ rxAt' = "pop" /\ txAt' = "pop"
<1> USE DEF Main, MainGoesOn, stop, StopReceivedQueue, StopMessageQueue, JoinThreads,
            start, StartReceivedQueue, StartMessageQueue, StartThreads
<1>1. /\ UNCHANGED <<nodeVars, g_messageNodeQueue, lost, vecVars, txNode, crashed>>
      /\ UNCHANGED <<rxVars, txVars>> \/ StartThreads
  BY DEF queueVars, txVars
<1>2. queueOpen' \in BOOLEAN
  BY DEF queueVars, ManagerInv, MainOK, NodeInv, MessagesOK
<1>3. StartThreads =>
        rxAt = "exited" /\ txAt = "exited" /\ rxAt' = "pop" /\ txAt' = "pop"
  BY DEF RxReturn, TxReturn, ManagerInv, MainOK, Starting
<1> QED BY <1>1, <1>2, <1>3

(* The steps of the main thread. *)
LEMMA MainKeeps ==
  ASSUME ManagerInv, Main, raced' \in BOOLEAN
  PROVE  ManagerInv'
<1> USE NodeAssumption, ManagerAssumption DEF ManagerInv
<1> USE DEF Main, MainGoesOn
<1>1. /\ UNCHANGED <<nodeVars, g_messageNodeQueue, lost, vecVars, txNode, crashed>>
      /\ UNCHANGED <<rxVars, txVars>> \/ StartThreads
  BY MainBounds
<1>2. queueOpen' \in BOOLEAN
  BY MainBounds
<1>3. NodeInv'
  BY <1>1, <1>2, NodesFrame DEF NodeInv, MessagesOK
<1>4. MainOK'
  <2> USE DEF MainOK, Starting
  <2>1. CASE stop
    <3>1. stops' \in 0..MaxStops
      BY <2>1 DEF stop
    <3>2. m_running' \in BOOLEAN /\ ~m_running'
      BY <2>1 DEF stop
    <3>3. mainAt' = "stopReceived" /\ receivedOpen' \in BOOLEAN
      BY <2>1 DEF stop
    <3> QED BY <3>1, <3>2, <3>3
  <2>2. CASE StopReceivedQueue
    BY <2>2 DEF StopReceivedQueue, queueVars
  <2>3. CASE StopMessageQueue
    BY <2>3 DEF StopMessageQueue
  <2>4. CASE JoinThreads
    BY <2>4 DEF JoinThreads, queueVars, rxVars, txVars
  <2>5. CASE start
    BY <2>5 DEF start, queueVars, rxVars, txVars
  <2>6. CASE StartReceivedQueue
    BY <2>6 DEF StartReceivedQueue, queueVars, rxVars, txVars
  <2>7. CASE StartMessageQueue
    BY <2>7 DEF StartMessageQueue, rxVars, txVars
  <2>8. CASE StartThreads
    BY <2>8 DEF StartThreads, queueVars
  <2> QED BY <2>1, <2>2, <2>3, <2>4, <2>5, <2>6, <2>7, <2>8
<1>5. VecOK' /\ (\A n \in Node : Fresh(n)')
  BY <1>1 DEF nodeVars, vecVars, VecOK, Fresh
<1>6. RxOK' /\ TxOK'
  <2>1. CASE UNCHANGED <<rxVars, txVars>>
    BY <1>1, <2>1 DEF vecVars, rxVars, txVars, RxOK, TxOK
  <2>2. CASE StartThreads
    BY <1>1, <2>2 DEF StartThreads, RxReturn, TxReturn, MainOK, Starting, RxOK, TxOK,
                      RxInVector, TxInVector
  <2> QED BY <1>1, <2>1, <2>2
<1> QED BY <1>1, <1>3, <1>4, <1>5, <1>6

(* What a step of a node's thread may do to the nodes' thread locations    *)
(* and addresses: only a started thread moves, and it never becomes absent,*)
(* created or freed.                                                       *)
LEMMA ThreadStepBounds ==
  ASSUME NodesOK, NEW n \in Node, handleThread(n)
  PROVE  /\ m_clientAddr' = m_clientAddr
         /\ m_thread[n] \notin {"absent", "created", "exited", "freed"}
         /\ m_thread'[n] \notin {"absent", "created", "freed"}
         /\ \A k \in Node \ {n} : /\ m_thread'[k] = m_thread[k]
                                  /\ m_currentState'[k] = m_currentState[k]
  BY DEF NodesOK, handleThread, BeginPing, PingCheck, PushPing, PongReceived, WakeUp,
         PongTimeout, NotifyCheck, PushNotify, AfterNotify, RetriesExhausted, StopSelf,
         Goto, changeState

(* The steps of the nodes' threads.                                        *)
LEMMA NodeKeeps ==
  ASSUME ManagerInv, NEW n \in Node, NodeStep(n), raced' \in BOOLEAN
  PROVE  ManagerInv'
<1> USE DEF ManagerInv
<1>1. handleThread(n) /\ UNCHANGED <<mainVars, vecVars, rxVars, txVars, crashed>>
  BY DEF NodeStep
<1>2. NodeInv'
  BY <1>1, ThreadStepNodes, ThreadStepMessages DEF NodeInv
<1>3. queueOpen' = queueOpen
  BY <1>1 DEF handleThread, BeginPing, PingCheck, PushPing, PongReceived, WakeUp,
              PongTimeout, NotifyCheck, PushNotify, RetriesExhausted, StopSelf,
              PushMessage, queueVars
<1>4. MainOK' /\ VecOK' /\ RxOK' /\ TxOK' /\ crashed' \in BOOLEAN
  BY <1>1, <1>3 DEF mainVars, vecVars, rxVars, txVars, MainOK, VecOK, RxOK, TxOK
<1>5. ASSUME NEW k \in Node
      PROVE  Fresh(k)'
  BY <1>1, ThreadStepBounds DEF NodeInv, Fresh, vecVars
<1> QED BY <1>2, <1>4, <1>5

(* Every step keeps the invariant. *)
LEMMA ManagerInvStep ==
  ASSUME ManagerInv, [Next]_vars
  PROVE  ManagerInv'
<1>1. CASE Terminated \/ UNCHANGED vars
  <2> USE <1>1 DEF Terminated, vars, nodeVars, queueVars, mainVars, vecVars, rxVars,
                   txVars, ManagerInv
  <2>1. NodeInv'
    BY NodesFrame DEF NodeInv, MessagesOK
  <2>2. MainOK' /\ VecOK' /\ RxOK' /\ TxOK' /\ (\A n \in Node : Fresh(n)')
    BY DEF MainOK, VecOK, RxOK, TxOK, Fresh
  <2> QED BY <2>1, <2>2
<1>2. CASE Step(Rx) \/ Step(Tx) \/ Step(Main) \/ \E n \in Node : Step(NodeStep(n))
  <2>1. raced' \in BOOLEAN
    <3>1. raced' = (raced \/ Overlap')
      BY <1>2 DEF Step
    <3> QED BY <3>1, Zenon
  <2> QED BY <1>2, <2>1, RxKeeps, TxKeeps, MainKeeps, NodeKeeps DEF Step
<1> QED BY <1>1, <1>2 DEF Next

(* The manager and its nodes keep their types whatever RX and TX do to     *)
(* each other: iterators stay in their ranges, a registration never        *)
(* creates more nodes than there may be, and what is in the vector is a    *)
(* node or a null.                                                         *)
THEOREM ManagerTypeCorrect == Spec => []TypeOK
  BY ManagerInvInit, ManagerInvStep, ManagerInvImplies, PTL DEF Spec

(* handleSendData acts on a notification only in the iteration that took   *)
(* it from the queue, never again when waitAndPop returns without one:     *)
(* stop() clears m_running before it stops the queue, TX is not created    *)
(* before start() has started the queue, and so on over any number of      *)
(* stops and starts.                                                       *)
THEOREM NoStaleDispatchCorrect == Spec => NoStaleDispatch
<1> DEFINE Taken == /\ g_messageNodeQueue # <<>>
                    /\ messageNode' = Head(g_messageNodeQueue)
                    /\ g_messageNodeQueue' = Tail(g_messageNodeQueue)
           Serve == txAt = "pop" /\ txAt' \in {"bcast", "scan"}
<1>1. ManagerInv /\ [Next]_vars => [Serve => Taken]_vars
  <2> SUFFICES ASSUME ManagerInv, Next, Serve
               PROVE  Taken
    OBVIOUS
  <2>1. Tx
    <3>1. txAt' # txAt
      OBVIOUS
    <3>2. ~Main /\ ~Rx /\ ~(\E n \in Node : NodeStep(n)) /\ ~Terminated
      <4>1. ~Main
        BY <3>1, MainBounds DEF txVars
      <4>2. ~Rx
        BY <3>1 DEF Rx, RxPop, RxStopped, RxScan, RxSetPong, RxTest, RxPush, RxStart,
                    RxCrash, Crash, txVars
      <4>3. ~(\E n \in Node : NodeStep(n)) /\ ~Terminated
        BY <3>1 DEF NodeStep, Terminated, vars, txVars
      <4> QED BY <4>1, <4>2, <4>3
    <3> QED BY <3>2 DEF Next, Step
  <2>2. CASE TxPop
    BY <2>2 DEF TxPop, Dispatch, TxReturn
  <2>3. CASE TxStopped
    BY <2>3, StoppedMeansOver DEF TxStopped
  <2>4. CASE TxCrash
    BY <2>4 DEF TxCrash, Crash, txVars
  <2> QED
    BY <2>1, <2>2, <2>3, <2>4 DEF Tx, TxBroadcast, TxScan, TxErase, TxJoin
<1> QED BY <1>1, ManagerInvInit, ManagerInvStep, PTL DEF Spec, NoStaleDispatch

(* In the whole manager too, whatever RX and TX do to the vector, a DEAD   *)
(* notification in the queue is that of a thread that is ending.           *)
THEOREM DeadNoticeInManager == Spec => []DeadNoticeMeansLeaving
<1>1. ManagerInv => DeadNoticeMeansLeaving
  BY NodeInvImplies DEF ManagerInv
<1> QED BY <1>1, ManagerInvInit, ManagerInvStep, PTL DEF Spec

(* And it is the last notification of its node, also when a stop discards  *)
(* some of them and a restart finds others still queued.                   *)
THEOREM LastNoticeInManager == Spec => []DeadNoticeIsLast
<1>1. ManagerInv => DeadNoticeIsLast
  BY NodeInvImplies DEF ManagerInv
<1> QED BY <1>1, ManagerInvInit, ManagerInvStep, PTL DEF Spec
=============================================================================
