--------------------------- MODULE NodeBaseProofs ---------------------------
(***************************************************************************)
(* Proofs about NodeBase, for any number of nodes and clients, any         *)
(* RETRY_NUM that a uint8_t can reach and any queue capacity.              *)
(***************************************************************************)
EXTENDS NodeBase, TLAPS

Message == PingMessage \cup NotifyMessage

Leaving == {"stop", "exited", "freed"}

(* What the location of a node's thread says about its state.  NodeTypeOK  *)
(* needs it: a notification is sent only from TIMEOUT and DEAD, and the    *)
(* retry counter is incremented only below RETRY_NUM.                      *)
Control(n) ==
  /\ m_thread[n] # "absent" => m_clientAddr[n] \in Client
  /\ m_thread[n] = "pushNotify" => m_currentState[n] \in {"TIMEOUT", "DEAD"}
  /\ m_thread[n] = "retry" => m_currentState[n] = "TIMEOUT"
  /\ m_thread[n] \in {"ping", "pushPing", "wait"} => m_currentState[n] # "DEAD"
  /\ m_thread[n] \in {"ping", "pushPing", "wait"} /\ m_currentState[n] = "TIMEOUT"
       => retryTime[n] < RETRY_NUM
  /\ m_thread[n] = "sleep" => m_currentState[n] = "ALIVE"
  /\ m_thread[n] = "stop" => m_currentState[n] = "DEAD"

-----------------------------------------------------------------------------
(* The properties of the queue, of a sequence q and locations th. *)
IsDead(m) == m.m_messageType = 1 /\ m.m_state = "DEAD"

QueueOK(q, th) ==
  /\ \A i \in 1..Len(q) : IsDead(q[i]) => th[q[i].m_nodeID] \in Leaving
  /\ \A i, j \in 1..Len(q) :
       i < j /\ q[i].m_messageType = 1 /\ q[j].m_messageType = 1
             /\ q[i].m_nodeID = q[j].m_nodeID
         => ~IsDead(q[i])

(* The two properties of the queue, as a fact about one sequence.          *)
LEMMA QueueOKIs ==
  QueueOK(g_messageNodeQueue, m_thread) <=> DeadNoticeMeansLeaving /\ DeadNoticeIsLast
  BY DEF QueueOK, IsDead, DeadNoticeMeansLeaving, DeadNoticeIsLast, Leaving

(* Consuming or dropping the oldest message keeps them.                    *)
LEMMA QueueOKTail ==
  ASSUME NEW q \in Seq(Message), q # <<>>, NEW th, QueueOK(q, th)
  PROVE  Tail(q) \in Seq(Message) /\ QueueOK(Tail(q), th)
<1>1. /\ Tail(q) \in Seq(Message)
      /\ Len(q) \in Nat
      /\ Len(Tail(q)) = Len(q) - 1
      /\ \A i \in 1..Len(Tail(q)) : i + 1 \in 1..Len(q) /\ Tail(q)[i] = q[i + 1]
  OBVIOUS
<1> QED BY <1>1 DEF QueueOK

(* Threads that are leaving stay so. *)
LEMMA QueueOKThreads ==
  ASSUME NEW q, NEW th, NEW th2, QueueOK(q, th),
         \A i \in 1..Len(q) :
           IsDead(q[i]) /\ th[q[i].m_nodeID] \in Leaving => th2[q[i].m_nodeID] \in Leaving
  PROVE  QueueOK(q, th2)
  BY DEF QueueOK

(* A message may be queued unless its node has announced its death. *)
LEMMA QueueOKAppend ==
  ASSUME NEW q \in Seq(Message), NEW th, NEW m \in Message, QueueOK(q, th),
         IsDead(m) => th[m.m_nodeID] \in Leaving,
         \A i \in 1..Len(q) :
           m.m_messageType = 1 /\ IsDead(q[i]) => q[i].m_nodeID # m.m_nodeID
  PROVE  Append(q, m) \in Seq(Message) /\ QueueOK(Append(q, m), th)
<1> DEFINE r == Append(q, m)
<1>1. /\ r \in Seq(Message)
      /\ Len(q) \in Nat
      /\ Len(r) = Len(q) + 1
      /\ r[Len(q) + 1] = m
      /\ \A i \in 1..Len(q) : r[i] = q[i]
  OBVIOUS
<1> HIDE DEF r
<1>2. \A i \in 1..Len(r) : i \in 1..Len(q) \/ i = Len(q) + 1
  BY <1>1
<1>3. \A i \in 1..Len(r) : IsDead(r[i]) => th[r[i].m_nodeID] \in Leaving
  BY <1>1, <1>2 DEF QueueOK
<1>4. ASSUME NEW i \in 1..Len(r), NEW j \in 1..Len(r), i < j,
             r[i].m_messageType = 1, r[j].m_messageType = 1,
             r[i].m_nodeID = r[j].m_nodeID
      PROVE  ~IsDead(r[i])
  <2>1. i \in 1..Len(q) /\ r[i] = q[i]
    BY <1>1, <1>2, <1>4
  <2>2. CASE j = Len(q) + 1
    BY <1>1, <1>4, <2>1, <2>2
  <2>3. CASE j \in 1..Len(q)
    <3>1. r[j] = q[j]
      BY <1>1, <2>3
    <3> QED BY <1>4, <2>1, <2>3, <3>1 DEF QueueOK
  <2> QED BY <1>2, <2>2, <2>3
<1>5. QueueOK(r, th)
  BY <1>3, <1>4 DEF QueueOK
<1> QED BY <1>1, <1>5 DEF r

-----------------------------------------------------------------------------
(* The inductive invariant: a part about the nodes and one about the queue. *)
NodesOK ==
  /\ m_currentState \in [Node -> StateList]
  /\ m_pongState \in [Node -> BOOLEAN]
  /\ retryTime \in [Node -> 0..RETRY_NUM]
  /\ m_clientAddr \in [Node -> Client \cup {NoClient}]
  /\ m_thread \in [Node -> Location]
  /\ \A n \in Node : Control(n)

MessagesOK ==
  /\ g_messageNodeQueue \in Seq(Message)
  /\ queueOpen \in BOOLEAN
  /\ lost \subseteq Node
  /\ QueueOK(g_messageNodeQueue, m_thread)

NodeInv == NodesOK /\ MessagesOK

(* The inductive invariant implies the properties.                         *)
LEMMA NodeInvImplies ==
  NodeInv => NodeTypeOK /\ DeadNoticeMeansLeaving /\ DeadNoticeIsLast
  BY QueueOKIs DEF NodeInv, NodesOK, MessagesOK, NodeTypeOK, Message

(* No step brings a leaving thread back. *)
LeavingStays == \A n \in Node : m_thread[n] \in Leaving => m_thread'[n] \in Leaving

(* A DEAD message is a notification.                                       *)
LEMMA DeadIsNotice ==
  ASSUME NEW m \in Message, IsDead(m)
  PROVE  m.m_nodeID \in Node
  BY DEF Message, PingMessage, NotifyMessage, IsDead

(* The queue part after a step that adds nothing to the queue. *)
LEMMA MessagesKept ==
  ASSUME MessagesOK, LeavingStays, queueOpen' \in BOOLEAN, lost' \subseteq Node,
         \/ g_messageNodeQueue' = g_messageNodeQueue
         \/ g_messageNodeQueue # <<>> /\ g_messageNodeQueue' = Tail(g_messageNodeQueue)
  PROVE  MessagesOK'
<1>1. g_messageNodeQueue' \in Seq(Message) /\ QueueOK(g_messageNodeQueue', m_thread)
  BY QueueOKTail DEF MessagesOK
<1>2. \A i \in 1..Len(g_messageNodeQueue') :
        IsDead(g_messageNodeQueue'[i]) => g_messageNodeQueue'[i].m_nodeID \in Node
  <2>1. \A i \in 1..Len(g_messageNodeQueue') : g_messageNodeQueue'[i] \in Message
    BY <1>1
  <2> QED BY <2>1, DeadIsNotice
<1>3. QueueOK(g_messageNodeQueue', m_thread')
  BY <1>1, <1>2, QueueOKThreads DEF LeavingStays
<1> QED BY <1>1, <1>3 DEF MessagesOK, QueueOK

(* The queue part after a push: the sender has not announced its death     *)
(* before, and is leaving if that is what it announces.                    *)
LEMMA MessagesPushed ==
  ASSUME NodesOK, MessagesOK, LeavingStays, NEW msg \in Message, PushMessage(msg),
         IsDead(msg) => m_thread'[msg.m_nodeID] \in Leaving,
         msg.m_messageType = 1 => m_thread[msg.m_nodeID] \notin Leaving
  PROVE  MessagesOK'
<1> USE NodeAssumption
<1> DEFINE full == Len(g_messageNodeQueue) >= MAX_SAFE_QUEUE
           room == IF full THEN Tail(g_messageNodeQueue) ELSE g_messageNodeQueue
<1>1. full => g_messageNodeQueue # <<>>
  OBVIOUS
<1>2. room \in Seq(Message) /\ QueueOK(room, m_thread)
  BY <1>1, QueueOKTail DEF MessagesOK
<1>3. \A i \in 1..Len(room) : IsDead(room[i]) => room[i].m_nodeID \in Node
  <2>1. \A i \in 1..Len(room) : room[i] \in Message
    BY <1>2
  <2> QED BY <2>1, DeadIsNotice
<1>4. /\ g_messageNodeQueue' = Append(room, msg)
      /\ lost' \subseteq Node
      /\ queueOpen' = queueOpen
  BY DEF PushMessage, Discard, MessagesOK
<1> HIDE DEF room, full
<1>5. QueueOK(room, m_thread')
  BY <1>2, <1>3, QueueOKThreads DEF LeavingStays
<1>6. \A i \in 1..Len(room) :
        msg.m_messageType = 1 /\ IsDead(room[i]) => room[i].m_nodeID # msg.m_nodeID
  BY <1>2 DEF QueueOK
<1>7. Append(room, msg) \in Seq(Message) /\ QueueOK(Append(room, msg), m_thread')
  BY <1>2, <1>5, <1>6, QueueOKAppend
<1> QED BY <1>4, <1>7 DEF MessagesOK, QueueOK

-----------------------------------------------------------------------------
(* The messages are well formed. *)
LEMMA PingIsMessage ==
  ASSUME NodesOK, NEW n \in Node, m_thread[n] = "pushPing"
  PROVE  /\ [m_messageType |-> 0, m_clientAddr |-> m_clientAddr[n]] \in Message
         /\ ~IsDead([m_messageType |-> 0, m_clientAddr |-> m_clientAddr[n]])
  BY DEF NodesOK, Control, Message, PingMessage, IsDead

(* What PushNotify pushes is a notification of TIMEOUT or DEAD.            *)
LEMMA NoticeIsMessage ==
  ASSUME NodesOK, NEW n \in Node, m_thread[n] = "pushNotify"
  PROVE  /\ Notice(n) \in Message
         /\ Notice(n).m_nodeID = n
         /\ Notice(n).m_messageType = 1
         /\ IsDead(Notice(n)) <=> m_currentState[n] = "DEAD"
  BY DEF NodesOK, Control, Message, NotifyMessage, Notice, IsDead

-----------------------------------------------------------------------------
(* The steps of a node's thread. *)
LEMMA ThreadStepNodes ==
  ASSUME NodesOK, NEW n \in Node, handleThread(n)
  PROVE  NodesOK' /\ LeavingStays
<1> USE NodeAssumption DEF NodesOK, Control, LeavingStays, Leaving, Location, StateList,
                          Goto, changeState, g_stateChangeTable
<1>1. CASE BeginPing(n)
  BY <1>1 DEF BeginPing
<1>2. CASE PingCheck(n)
  BY <1>2 DEF PingCheck
<1>3. CASE PushPing(n)
  BY <1>3 DEF PushPing
<1>4. CASE PongReceived(n)
  BY <1>4 DEF PongReceived
<1>5. CASE WakeUp(n)
  BY <1>5 DEF WakeUp
<1>6. CASE PongTimeout(n)
  BY <1>6 DEF PongTimeout
<1>7. CASE NotifyCheck(n)
  BY <1>7 DEF NotifyCheck, AfterNotify
<1>8. CASE PushNotify(n)
  BY <1>8 DEF PushNotify, AfterNotify
<1>9. CASE RetriesExhausted(n)
  BY <1>9 DEF RetriesExhausted
<1>10. CASE StopSelf(n)
  BY <1>10 DEF StopSelf
<1> QED
  BY <1>1, <1>2, <1>3, <1>4, <1>5, <1>6, <1>7, <1>8, <1>9, <1>10 DEF handleThread

(* A step of a node's thread keeps the queue part of the invariant.        *)
LEMMA ThreadStepMessages ==
  ASSUME NodeInv, NEW n \in Node, handleThread(n)
  PROVE  MessagesOK'
<1>1. NodesOK /\ MessagesOK /\ LeavingStays
  BY ThreadStepNodes DEF NodeInv
<1>2. CASE \/ BeginPing(n) \/ PingCheck(n) \/ PongReceived(n) \/ WakeUp(n)
           \/ PongTimeout(n) \/ RetriesExhausted(n) \/ StopSelf(n)
  <2>1. UNCHANGED queueVars
    BY <1>2 DEF BeginPing, PingCheck, PongReceived, WakeUp, PongTimeout,
                RetriesExhausted, StopSelf
  <2> QED BY <1>1, <2>1, MessagesKept DEF queueVars, MessagesOK
<1>3. CASE PushPing(n)
  BY <1>1, <1>3, PingIsMessage, MessagesPushed DEF PushPing
<1>4. CASE NotifyCheck(n)
  <2>1. UNCHANGED <<g_messageNodeQueue, queueOpen>> /\ lost' \subseteq Node
    BY <1>1, <1>4 DEF NotifyCheck, Discard, MessagesOK
  <2> QED BY <1>1, <2>1, MessagesKept DEF MessagesOK
<1>5. CASE PushNotify(n)
  <2>1. m_thread[n] = "pushNotify" /\ PushMessage(Notice(n)) /\ AfterNotify(n)
    BY <1>5 DEF PushNotify
  <2>2. IsDead(Notice(n)) => m_thread'[n] \in Leaving
    BY <1>1, <2>1, NoticeIsMessage DEF AfterNotify, Goto, Leaving, NodesOK
  <2> QED BY <1>1, <2>1, <2>2, NoticeIsMessage, MessagesPushed DEF Leaving
<1> QED BY <1>2, <1>3, <1>4, <1>5 DEF handleThread

(* The steps others take on a node. *)
LEMMA OutsideStep ==
  ASSUME NodesOK, NEW n \in Node,
         (\E addr \in Client : Construct(n, addr)) \/ StartNode(n) \/ SetPong(n) \/ Destroy(n)
  PROVE  NodesOK' /\ LeavingStays
<1> USE DEF NodesOK, Control, LeavingStays, Leaving, Location, StateList, Goto
<1>1. ASSUME NEW addr \in Client, Construct(n, addr)
      PROVE  NodesOK' /\ LeavingStays
  BY <1>1 DEF Construct
<1>2. CASE StartNode(n)
  BY <1>2 DEF StartNode
<1>3. CASE SetPong(n)
  BY <1>3 DEF SetPong
<1>4. CASE Destroy(n)
  BY <1>4 DEF Destroy
<1> QED BY <1>1, <1>2, <1>3, <1>4

(* The inductive invariant holds initially.                                *)
LEMMA NodeInvInit == NodeInit => NodeInv
  BY NodeAssumption DEF NodeInit, NodeInv, NodesOK, MessagesOK, QueueOK, Control,
                        StateList, Location

(* The inductive invariant is kept by every step.                          *)
LEMMA NodeInvStep ==
  ASSUME NodeInv, [NodeNext]_<<nodeVars, queueVars>>
  PROVE  NodeInv'
<1>1. ASSUME NEW n \in Node, handleThread(n)
      PROVE  NodeInv'
  BY <1>1, ThreadStepNodes, ThreadStepMessages DEF NodeInv
<1>2. ASSUME NEW n \in Node,
             (\E addr \in Client : Register(n, addr)) \/ Start(n) \/ Pong(n) \/ Delete(n)
      PROVE  NodeInv'
  <2>1. NodesOK' /\ LeavingStays
    BY <1>2, OutsideStep DEF Register, Start, Pong, Delete, NodeInv
  <2>2. UNCHANGED queueVars
    BY <1>2 DEF Register, Start, Pong, Delete
  <2> QED BY <2>1, <2>2, MessagesKept DEF NodeInv, queueVars, MessagesOK
<1>3. CASE Consume \/ SwitchQueue \/ UNCHANGED <<nodeVars, queueVars>>
  <2>1. UNCHANGED nodeVars
    BY <1>3 DEF Consume, SwitchQueue
  <2>2. NodesOK' /\ LeavingStays
    BY <2>1 DEF NodeInv, NodesOK, Control, LeavingStays, nodeVars
  <2>3. MessagesOK'
    <3>1. queueOpen' \in BOOLEAN /\ lost' \subseteq Node
      BY <1>3 DEF NodeInv, MessagesOK, Consume, Discard, SwitchQueue, queueVars
    <3> QED BY <1>3, <2>2, <3>1, MessagesKept
            DEF NodeInv, Consume, SwitchQueue, queueVars, MessagesOK
  <2> QED BY <2>2, <2>3 DEF NodeInv
<1> QED BY <1>1, <1>2, <1>3 DEF NodeNext

(* The nodes and the queue keep their types: retryTime stays in            *)
(* 0..RETRY_NUM, so the uint8_t never wraps, and only TIMEOUT and DEAD are *)
(* ever notified.                                                          *)
THEOREM NodeTypeCorrect == NodeSpec => []NodeTypeOK
  BY NodeInvInit, NodeInvStep, NodeInvImplies, PTL DEF NodeSpec

(* However many nodes there are, a DEAD notification in the queue is that  *)
(* of a thread that is ending: joining it cannot block on monitoring.      *)
THEOREM DeadNoticeCorrect == NodeSpec => []DeadNoticeMeansLeaving
  BY NodeInvInit, NodeInvStep, NodeInvImplies, PTL DEF NodeSpec

(* No notification of a node follows its DEAD notification in the queue.   *)
THEOREM LastNoticeCorrect == NodeSpec => []DeadNoticeIsLast
  BY NodeInvInit, NodeInvStep, NodeInvImplies, PTL DEF NodeSpec

-----------------------------------------------------------------------------
(* NodeBase implements NodeLifecycle. *)

(* Node n takes the abstract step from phase p1 and count s1 to p2 and s2. *)
AbstractStep(p1, s1, p2, s2) ==
  \/ p1 = "absent" /\ p2 = "new" /\ s2 = s1
  \/ /\ \/ p1 \in {"new", "alive"}
        \/ p1 = "suspect" /\ s1 <= RETRY_NUM
     /\ p2 = "alive" /\ s2 = 0
  \/ /\ p1 \in {"new", "alive", "suspect"} /\ s1 <= RETRY_NUM
     /\ p2 = "suspect" /\ s2 = s1 + 1
  \/ p1 = "suspect" /\ s1 = RETRY_NUM + 1 /\ p2 = "dead" /\ s2 = s1
  \/ p2 = p1 /\ s2 = s1

LifecycleStep == Lifecycle!Next \/ UNCHANGED Lifecycle!lifecycleVars

(* A step that concerns one node is a step of the abstract specification. *)
LEMMA LiftStep ==
  ASSUME NEW n \in Node,
         \A k \in Node \ {n} : PhaseOf(k)' = PhaseOf(k) /\ SilentOf(k)' = SilentOf(k),
         AbstractStep(PhaseOf(n), SilentOf(n), PhaseOf(n)', SilentOf(n)')
  PROVE  LifecycleStep
<1> DEFINE ph == [k \in Node |-> PhaseOf(k)]
           si == [k \in Node |-> SilentOf(k)]
<1>1. /\ ph' = [ph EXCEPT ![n] = PhaseOf(n)']
      /\ si' = [si EXCEPT ![n] = SilentOf(n)']
  OBVIOUS
<1>2. ph[n] = PhaseOf(n) /\ si[n] = SilentOf(n)
  OBVIOUS
<1>3. CASE PhaseOf(n)' = PhaseOf(n) /\ SilentOf(n)' = SilentOf(n)
  <2>1. ph' = ph /\ si' = si
    BY <1>3
  <2> QED BY <2>1 DEF LifecycleStep, Lifecycle!lifecycleVars
<1> HIDE DEF ph, si
<1>4. CASE ~(PhaseOf(n)' = PhaseOf(n) /\ SilentOf(n)' = SilentOf(n))
  <2>1. \/ Lifecycle!Register(n) \/ Lifecycle!AnsweredWindow(n)
        \/ Lifecycle!SilentWindow(n) \/ Lifecycle!GiveUp(n)
    BY <1>1, <1>2, <1>4
       DEF AbstractStep, Lifecycle!Register, Lifecycle!AnsweredWindow,
           Lifecycle!SilentWindow, Lifecycle!GiveUp, ph, si
  <2> QED BY <2>1 DEF LifecycleStep, Lifecycle!Next
<1> QED BY <1>3, <1>4

(* Every step of a node's thread is a step of the abstract life cycle of   *)
(* that node, or changes nothing in it.                                    *)
LEMMA ThreadStepRefines ==
  ASSUME NodesOK, NEW n \in Node, handleThread(n)
  PROVE  LifecycleStep
<1> USE NodeAssumption
<1>1. ASSUME NEW k \in Node \ {n}
      PROVE  PhaseOf(k)' = PhaseOf(k) /\ SilentOf(k)' = SilentOf(k)
  <2>1. /\ m_thread'[k] = m_thread[k]
        /\ m_currentState'[k] = m_currentState[k]
        /\ retryTime'[k] = retryTime[k]
    BY <1>1 DEF handleThread, BeginPing, PingCheck, PushPing, PongReceived, WakeUp,
                PongTimeout, NotifyCheck, PushNotify, AfterNotify, RetriesExhausted,
                StopSelf, changeState, Goto, NodesOK
  <2> QED BY <2>1 DEF PhaseOf, SilentOf
<1> DEFINE AbsN == AbstractStep(PhaseOf(n), SilentOf(n), PhaseOf(n)', SilentOf(n)')
<1>2. /\ m_thread[n] \in Location /\ m_currentState[n] \in StateList
      /\ retryTime[n] \in 0..RETRY_NUM /\ Control(n)
  BY DEF NodesOK
<1>3. AbsN
  <2> USE <1>2 DEF Goto, changeState, g_stateChangeTable, NodesOK, Control, StateList,
                   PhaseOf, SilentOf, AbstractStep
  <2>1. CASE BeginPing(n)
    BY <2>1 DEF BeginPing
  <2>2. CASE PingCheck(n)
    BY <2>2 DEF PingCheck
  <2>3. CASE PushPing(n)
    BY <2>3 DEF PushPing
  <2>4. CASE PongReceived(n)
    BY <2>4 DEF PongReceived
  <2>5. CASE WakeUp(n)
    BY <2>5 DEF WakeUp
  <2>6. CASE PongTimeout(n)
    BY <2>6 DEF PongTimeout
  <2>7. CASE NotifyCheck(n)
    BY <2>7 DEF NotifyCheck, AfterNotify
  <2>8. CASE PushNotify(n)
    BY <2>8 DEF PushNotify, AfterNotify
  <2>9. CASE RetriesExhausted(n)
    BY <2>9 DEF RetriesExhausted
  <2>10. CASE StopSelf(n)
    BY <2>10 DEF StopSelf
  <2> QED
    BY <2>1, <2>2, <2>3, <2>4, <2>5, <2>6, <2>7, <2>8, <2>9, <2>10 DEF handleThread
<1> QED BY <1>1, <1>3, LiftStep

(* So is every step of the environment.                                    *)
LEMMA OutsideStepRefines ==
  ASSUME NodesOK, NEW n \in Node,
         (\E addr \in Client : Register(n, addr)) \/ Start(n) \/ Pong(n) \/ Delete(n)
  PROVE  LifecycleStep
<1>1. ASSUME NEW k \in Node \ {n}
      PROVE  PhaseOf(k)' = PhaseOf(k) /\ SilentOf(k)' = SilentOf(k)
  <2>1. /\ m_thread'[k] = m_thread[k]
        /\ m_currentState'[k] = m_currentState[k]
        /\ retryTime'[k] = retryTime[k]
    BY <1>1 DEF Register, Start, Pong, Delete, Construct, StartNode, SetPong, Destroy,
                Goto, NodesOK
  <2> QED BY <2>1 DEF PhaseOf, SilentOf
<1>2. AbstractStep(PhaseOf(n), SilentOf(n), PhaseOf(n)', SilentOf(n)')
  BY DEF Register, Start, Pong, Delete, Construct, StartNode, SetPong, Destroy,
         Goto, NodesOK, StateList, PhaseOf, SilentOf, AbstractStep
<1> QED BY <1>1, <1>2, LiftStep

(* So is every step of NodeBase, for the node that takes it.               *)
LEMMA NodeNextRefines ==
  ASSUME NodesOK, [NodeNext]_<<nodeVars, queueVars>>
  PROVE  LifecycleStep
<1>1. CASE Consume \/ SwitchQueue \/ UNCHANGED <<nodeVars, queueVars>>
  <2>1. UNCHANGED nodeVars
    BY <1>1 DEF Consume, SwitchQueue
  <2> QED BY <2>1 DEF LifecycleStep, nodeVars, Lifecycle!lifecycleVars, PhaseOf, SilentOf
<1>2. CASE \E n \in Node :
             \/ handleThread(n)
             \/ \E addr \in Client : Register(n, addr)
             \/ Start(n) \/ Pong(n) \/ Delete(n)
  BY <1>2, ThreadStepRefines, OutsideStepRefines
<1> QED BY <1>1, <1>2 DEF NodeNext

(* Initially every node is absent.                                         *)
LEMMA LifecycleInit == NodeInit => Lifecycle!Init
  BY DEF NodeInit, Lifecycle!Init, PhaseOf, SilentOf

(* Whatever pongs arrive and whatever becomes of the messages, each node   *)
(* is a run of the abstract life cycle: dead after exactly 1 + RETRY_NUM   *)
(* silent windows in a row, and dead for good.                             *)
THEOREM LifecycleImplemented == NodeSpec => ImplementsLifecycle
<1>1. ASSUME NodeInv, [NodeNext]_<<nodeVars, queueVars>>
      PROVE  [Lifecycle!Next]_(Lifecycle!lifecycleVars)
  BY <1>1, NodeNextRefines DEF NodeInv, LifecycleStep
<1> QED
  BY <1>1, LifecycleInit, NodeInvInit, NodeInvStep, PTL
     DEF NodeSpec, ImplementsLifecycle, Lifecycle!Spec
=============================================================================
