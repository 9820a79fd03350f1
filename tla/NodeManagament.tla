---------------------------- MODULE NodeManagament ----------------------------
(***************************************************************************)
(* The manager (source/NodeManagament.cpp) composed with the nodes of      *)
(* NodeBase.  Its receive thread (RX, handleReceivedData) registers nodes  *)
(* and delivers pongs; its send thread (TX, handleSendData) serves the     *)
(* nodes' messages, broadcasts timeouts and erases dead nodes; the main    *)
(* thread calls start() and stop().                                        *)
(*                                                                         *)
(* RX and TX share m_vecNodeBase WITHOUT a lock (m_mtx is declared but     *)
(* never used), so a traversal is modelled element by element and          *)
(* push_back and erase move by move, as libstdc++ performs them.  What the *)
(* two threads can do to each other through the vector is thus explored;   *)
(* the flag raced records that one of them changed the vector while the    *)
(* other was inside an operation on it.                                    *)
(*                                                                         *)
(* Abstracted: g_receivedIOQueue delivers any packet at any time (UDP may  *)
(* delay, repeat or lose them); g_sendIOQueue is reduced to what has been  *)
(* broadcast.  DataPlaneNode, ControlPlaneNode and OAMNode behave alike    *)
(* and are one kind of node, "OAM".                                        *)
(***************************************************************************)
EXTENDS NodeBase, FiniteSets

CONSTANT MaxStops  \* bound: calls of stop() in a behaviour

ASSUME ManagerAssumption == MaxStops \in Nat

VARIABLES
  m_running,      \* NodeManagament::m_running
  mainAt, stops,  \* main thread: progress in stop() and start(); stops so far
  m_vecNodeBase,  \* slots of the vector's buffer
  size, capacity, \* m_vecNodeBase.size() and .capacity()
  m_nodeID,       \* NodeBase::m_nodeID, the number of nodes created
  receivedOpen,   \* g_receivedIOQueue.m_running
  rxAt, rxPacket, rxIt,         \* RX: location, packet, iterator
  txAt, messageNode, txIt,      \* TX: location, messageNode, iterator
  txEnd, txNode,  \* TX in erase: end of the range moved, node being deleted
  raced,          \* history: RX and TX have overlapped on the vector
  crashed         \* the process has died

mainVars == <<m_running, mainAt, stops, receivedOpen>>
vecVars == <<m_vecNodeBase, size, capacity, m_nodeID>>
rxVars == <<rxAt, rxPacket, rxIt>>
txVars == <<txAt, messageNode, txIt, txEnd, txNode>>
vars == <<nodeVars, queueVars, mainVars, vecVars, rxVars, txVars, raced, crashed>>

NULL == 0
Slot == 1..MaxNodes

(* An iterator is a position in 1..size+1; 0 is one into a buffer that a   *)
(* push_back has since reallocated.                                        *)
Dangling == 0

Packet ==
  [m_typeMess : {"PONG"}, m_clientAddr : Client] \cup
  [m_typeMess : {"REGISTER"}, m_typeNode : {"BASE", "OAM"}, m_clientAddr : Client]
NoPacket == [m_typeMess |-> "OTHER", m_clientAddr |-> NoClient]  \* nullptr
NoMessage == [m_messageType |-> 0, m_clientAddr |-> NoClient]

RxInVector == {"scan", "test", "setPong", "push", "start"}
TxInVector == {"bcast", "scan", "erase", "join"}

TypeOK ==
  /\ NodeTypeOK
  /\ m_running \in BOOLEAN
  /\ mainAt \in {"up", "stopReceived", "stopMessages", "join", "down",
                 "startReceived", "startMessages", "startThreads"}
  /\ stops \in 0..MaxStops
  /\ m_vecNodeBase \in [Slot -> Node \cup {NULL}]
  /\ size \in 0..MaxNodes
  /\ capacity \in Nat
  /\ m_nodeID \in 0..MaxNodes
  /\ receivedOpen \in BOOLEAN
  /\ rxAt \in RxInVector \cup {"pop", "exited"}
  /\ rxPacket \in Packet \cup {NoPacket}
  /\ rxIt \in 1..MaxNodes + 1
  /\ txAt \in TxInVector \cup {"pop", "exited"}
  /\ messageNode \in PingMessage \cup NotifyMessage \cup {NoMessage}
  /\ txIt \in 0..MaxNodes + 1
  /\ txEnd \in 1..MaxNodes + 1
  /\ txNode \in Node \cup {NULL}
  /\ raced \in BOOLEAN
  /\ crashed \in BOOLEAN

Init ==
  /\ NodeInit
  /\ m_running = TRUE
  /\ mainAt = "up"
  /\ stops = 0
  /\ m_vecNodeBase = [i \in Slot |-> NULL]
  /\ size = 0
  /\ capacity = 0
  /\ m_nodeID = 0
  /\ receivedOpen = TRUE
  /\ rxAt = "pop" /\ rxPacket = NoPacket /\ rxIt = 1
  /\ txAt = "pop" /\ messageNode = NoMessage /\ txIt = 1
  /\ txEnd = 1 /\ txNode = NULL
  /\ raced = FALSE
  /\ crashed = FALSE

-----------------------------------------------------------------------------
(* What dereferencing position it finds: a live node, or undefined         *)
(* behaviour, taken as the death of the process.                           *)
Valid(it) ==
  /\ it \in Slot
  /\ m_vecNodeBase[it] # NULL
  /\ m_thread[m_vecNodeBase[it]] # "freed"

Crash ==
  /\ crashed' = TRUE
  /\ UNCHANGED <<nodeVars, queueVars, mainVars, vecVars, rxVars, txVars>>

getPortInfo(n) == m_clientAddr[n].sin_port

\* Mutants: the loops end one element early, or one too late.
MutAtEnd(it) == it >= size
MutPastEnd(it) == it = size + 2

(* it == m_vecNodeBase.end() *)
AtEnd(it) == it = size + 1

-----------------------------------------------------------------------------
(* RX, handleReceivedData. *)

RxReturn == rxAt' = "pop" /\ rxPacket' = NoPacket /\ rxIt' = 1

(* waitAndPop hands over a packet, which is dropped if stop() has begun.   *)
(* Registrations end when MaxNodes nodes exist.                            *)
RxPop(packet) ==
  /\ rxAt = "pop"
  /\ receivedOpen
  /\ packet.m_typeMess = "REGISTER" => m_nodeID < MaxNodes
  /\ IF m_running
     THEN rxAt' = "scan" /\ rxPacket' = packet /\ rxIt' = 1
     ELSE rxAt' = "exited" /\ UNCHANGED <<rxPacket, rxIt>>
  /\ UNCHANGED <<nodeVars, queueVars, mainVars, vecVars, txVars, crashed>>

(* waitAndPop returns because the queue is stopped, and packet is null:    *)
(* RX ends, or it would wait again.                                        *)
RxStopped ==
  /\ rxAt = "pop"
  /\ ~receivedOpen
  /\ ~m_running
  /\ rxAt' = "exited"
  /\ UNCHANGED <<nodeVars, queueVars, mainVars, vecVars, rxPacket, rxIt, txVars, crashed>>

(* The loops of checkPongMessage and checkRegisterMessage: the first node  *)
(* with the sender's PORT is taken, its address is not compared.           *)
RxScan ==
  /\ rxAt = "scan"
  /\ \/ /\ AtEnd(rxIt)
        /\ IF rxPacket.m_typeMess = "PONG"
           THEN RxReturn
           ELSE rxAt' = "test" /\ UNCHANGED <<rxPacket, rxIt>>
        /\ UNCHANGED crashed
     \/ /\ ~AtEnd(rxIt)
        /\ Valid(rxIt)
        /\ IF getPortInfo(m_vecNodeBase[rxIt]) = rxPacket.m_clientAddr.sin_port
           THEN /\ rxAt' = IF rxPacket.m_typeMess = "PONG" THEN "setPong" ELSE "test"
                /\ UNCHANGED rxIt
           ELSE rxIt' = rxIt + 1 /\ UNCHANGED rxAt
        /\ UNCHANGED <<rxPacket, crashed>>
  /\ UNCHANGED <<nodeVars, queueVars, mainVars, vecVars, txVars>>

(* setPongState(true) on the element found; it waits for the node's m_mtx. *)
RxSetPong ==
  /\ rxAt = "setPong"
  /\ Valid(rxIt)
  /\ SetPong(m_vecNodeBase[rxIt])
  /\ RxReturn
  /\ UNCHANGED <<queueVars, mainVars, vecVars, txVars, crashed>>

(* if(it == m_vecNodeBase.end()), and the switch on the node type. *)
RxTest ==
  /\ rxAt = "test"
  /\ IF AtEnd(rxIt) /\ rxPacket.m_typeNode # "BASE"
     THEN rxAt' = "push" /\ UNCHANGED <<rxPacket, rxIt>>
     ELSE RxReturn
  /\ UNCHANGED <<nodeVars, queueVars, mainVars, vecVars, txVars, crashed>>

(* pushNodeToVector up to push_back; a full buffer is replaced by one of   *)
(* twice the capacity, and TX's iterator is left dangling.                 *)
RxPush ==
  /\ rxAt = "push"
  /\ size < MaxNodes
  /\ m_nodeID' = m_nodeID + 1
  /\ Construct(m_nodeID + 1, rxPacket.m_clientAddr)
  /\ m_vecNodeBase' = [m_vecNodeBase EXCEPT ![size + 1] = m_nodeID + 1]
  /\ size' = size + 1
  /\ capacity' = IF size < capacity THEN capacity
                 ELSE IF capacity = 0 THEN 1 ELSE 2 * capacity
  /\ txIt' = IF size = capacity /\ txAt \in TxInVector THEN Dangling ELSE txIt
  /\ rxAt' = "start"
  /\ UNCHANGED <<queueVars, mainVars, rxPacket, rxIt,
                 txAt, messageNode, txEnd, txNode, crashed>>

(* m_vecNodeBase.back()->start(): start() does nothing on a running node. *)
RxStart ==
  /\ rxAt = "start"
  /\ Valid(size)
  /\ LET n == m_vecNodeBase[size] IN
     /\ m_thread[n] # "exited"
     /\ IF m_thread[n] = "created" THEN StartNode(n) ELSE UNCHANGED nodeVars
  /\ RxReturn
  /\ UNCHANGED <<queueVars, mainVars, vecVars, txVars, crashed>>

(* Undefined behaviour in RX: a null, deleted or past-the-end element, or  *)
(* a second std::thread assigned to a node whose thread was not joined.    *)
RxCrash ==
  /\ \/ rxAt = "scan" /\ ~AtEnd(rxIt) /\ ~Valid(rxIt)
     \/ rxAt = "setPong" /\ ~Valid(rxIt)
     \/ rxAt = "start" /\ ~(Valid(size) /\ m_thread[m_vecNodeBase[size]] # "exited")
  /\ Crash

Rx ==
  \/ \E packet \in Packet : RxPop(packet)
  \/ RxStopped \/ RxScan \/ RxSetPong \/ RxTest \/ RxPush \/ RxStart \/ RxCrash

-----------------------------------------------------------------------------
(* TX, handleSendData. *)

TxReturn == txAt' = "pop" /\ messageNode' = NoMessage /\ txIt' = 1 /\ txEnd' = 1

\* Mutant: a TIMEOUT notification erases the node too.
MutDispatch(m) ==
  IF m.m_messageType = 0 THEN TxReturn
  ELSE messageNode' = m /\ txIt' = 1 /\ txAt' = "scan" /\ UNCHANGED txEnd

(* A ping goes to g_sendIOQueue at once; a notification starts a traversal *)
(* of the vector, to broadcast a timeout or to find a dead node.           *)
Dispatch(m) ==
  IF m.m_messageType = 0 THEN TxReturn
  ELSE /\ messageNode' = m
       /\ txIt' = 1
       /\ txAt' = IF m.m_state = "TIMEOUT" THEN "bcast" ELSE "scan"
       /\ UNCHANGED txEnd

(* waitAndPop hands over a message, which is dropped if stop() has begun. *)
TxPop ==
  /\ txAt = "pop"
  /\ queueOpen
  /\ g_messageNodeQueue # <<>>
  /\ g_messageNodeQueue' = Tail(g_messageNodeQueue)
  /\ IF m_running
     THEN Dispatch(Head(g_messageNodeQueue)) /\ UNCHANGED lost
     ELSE /\ Discard(Head(g_messageNodeQueue))
          /\ txAt' = "exited"
          /\ UNCHANGED <<messageNode, txIt, txEnd>>
  /\ UNCHANGED <<nodeVars, queueOpen, mainVars, vecVars, rxVars, txNode, crashed>>

(* waitAndPop returns without a message because the queue is stopped.  If  *)
(* m_running is set, TX serves what its variable messageNode was left      *)
(* with: its last message, or anything when it is uninitialized.  That is  *)
(* not kept between messages; it may be any message here.                  *)
TxStopped ==
  /\ txAt = "pop"
  /\ ~queueOpen
  /\ IF m_running
     THEN \E m \in PingMessage \cup NotifyMessage : Dispatch(m)
     ELSE txAt' = "exited" /\ UNCHANGED <<messageNode, txIt, txEnd>>
  /\ UNCHANGED <<nodeVars, queueVars, mainVars, vecVars, rxVars, txNode, crashed>>

(* checkNotifyMessage, TIMEOUT: one NOTIFY packet per element. *)
TxBroadcast ==
  /\ txAt = "bcast"
  /\ \/ AtEnd(txIt) /\ TxReturn
     \/ /\ ~AtEnd(txIt)
        /\ Valid(txIt)
        /\ txIt' = txIt + 1
        /\ UNCHANGED <<txAt, messageNode, txEnd>>
  /\ UNCHANGED <<nodeVars, queueVars, mainVars, vecVars, rxVars, txNode, crashed>>

(* checkNotifyMessage, DEAD: find the first node with the dead one's port. *)
TxScan ==
  /\ txAt = "scan"
  /\ \/ AtEnd(txIt) /\ TxReturn
     \/ /\ ~AtEnd(txIt)
        /\ Valid(txIt)
        /\ IF getPortInfo(m_vecNodeBase[txIt]) = messageNode.m_clientAddr.sin_port
           THEN txAt' = "erase" /\ txEnd' = size + 1 /\ UNCHANGED txIt
           ELSE txIt' = txIt + 1 /\ UNCHANGED <<txAt, txEnd>>
        /\ UNCHANGED messageNode
  /\ UNCHANGED <<nodeVars, queueVars, mainVars, vecVars, rxVars, txNode, crashed>>

(* Delete what a slot held, if anything, and go on at position it; erase   *)
(* is over at position txEnd.                                              *)
TxDelete(n, it) ==
  IF n # NULL
  THEN txAt' = "join" /\ txNode' = n /\ txIt' = it /\ UNCHANGED <<messageNode, txEnd>>
  ELSE /\ UNCHANGED txNode
       /\ IF it = txEnd THEN TxReturn
          ELSE txIt' = it /\ UNCHANGED <<txAt, messageNode, txEnd>>

(* m_vecNodeBase.erase(it): each later element is moved down by one; a     *)
(* move leaves null behind and deletes what the target held.  At the end   *)
(* the last slot is destroyed.  Deleting a node joins its thread.          *)
TxErase ==
  /\ txAt = "erase"
  /\ txIt # Dangling
  /\ \/ /\ txIt + 1 < txEnd
        /\ m_vecNodeBase' = [m_vecNodeBase EXCEPT ![txIt] = m_vecNodeBase[txIt + 1],
                                                  ![txIt + 1] = NULL]
        /\ TxDelete(m_vecNodeBase[txIt], txIt + 1)
        /\ UNCHANGED size
     \/ /\ txIt + 1 = txEnd
        /\ size > 0
        /\ size' = size - 1
        /\ m_vecNodeBase' = [m_vecNodeBase EXCEPT ![size] = NULL]
        /\ TxDelete(m_vecNodeBase[size], txEnd)
  /\ UNCHANGED <<nodeVars, queueVars, mainVars, capacity, m_nodeID, rxVars, crashed>>

\* Mutant: ~NodeBase does not wait for the thread.
MutTxJoin ==
  /\ txAt = "join"
  /\ m_thread[txNode] # "freed"
  /\ Goto(txNode, "freed")
  /\ txNode' = NULL
  /\ IF txIt = txEnd THEN TxReturn
                     ELSE txAt' = "erase" /\ UNCHANGED <<messageNode, txIt, txEnd>>
  /\ UNCHANGED <<m_currentState, m_pongState, retryTime, m_clientAddr,
                 queueVars, mainVars, vecVars, rxVars, crashed>>

(* ~NodeBase of the erased node: TX waits until its thread has returned. *)
TxJoin ==
  /\ txAt = "join"
  /\ Destroy(txNode)
  /\ txNode' = NULL
  /\ IF txIt = txEnd THEN TxReturn
                     ELSE txAt' = "erase" /\ UNCHANGED <<messageNode, txIt, txEnd>>
  /\ UNCHANGED <<queueVars, mainVars, vecVars, rxVars, crashed>>

(* Undefined behaviour in TX. *)
TxCrash ==
  /\ \/ txAt \in {"bcast", "scan"} /\ ~AtEnd(txIt) /\ ~Valid(txIt)
     \/ txAt = "erase" /\ (txIt = Dangling \/ size = 0)
     \/ txAt = "join" /\ m_thread[txNode] = "freed"
  /\ Crash

Tx == TxPop \/ TxStopped \/ TxBroadcast \/ TxScan \/ TxErase \/ TxJoin \/ TxCrash

-----------------------------------------------------------------------------
(* The main thread: stop() clears m_running, stops the two queues one      *)
(* after the other and joins RX and TX.  The nodes go on.  start() sets    *)
(* m_running, starts the queues and creates RX and TX.                     *)
stop ==
  /\ mainAt = "up"
  /\ m_running
  /\ stops < MaxStops
  /\ stops' = stops + 1
  /\ m_running' = FALSE
  /\ mainAt' = "stopReceived"
  /\ UNCHANGED <<nodeVars, queueVars, receivedOpen, vecVars, rxVars, txVars, crashed>>

StopReceivedQueue ==
  /\ mainAt = "stopReceived"
  /\ receivedOpen' = FALSE
  /\ mainAt' = "stopMessages"
  /\ UNCHANGED <<nodeVars, queueVars, m_running, stops, vecVars, rxVars, txVars, crashed>>

\* Mutant: g_messageNodeQueue is not stopped.
MutStopMessageQueue ==
  /\ mainAt = "stopMessages"
  /\ mainAt' = "join"
  /\ UNCHANGED <<nodeVars, queueVars, m_running, stops, receivedOpen,
                 vecVars, rxVars, txVars, crashed>>

StopMessageQueue ==
  /\ mainAt = "stopMessages"
  /\ queueOpen' = FALSE
  /\ mainAt' = "join"
  /\ UNCHANGED <<nodeVars, g_messageNodeQueue, lost, m_running, stops, receivedOpen,
                 vecVars, rxVars, txVars, crashed>>

JoinThreads ==
  /\ mainAt = "join"
  /\ rxAt = "exited"
  /\ txAt = "exited"
  /\ mainAt' = "down"
  /\ UNCHANGED <<nodeVars, queueVars, m_running, stops, receivedOpen,
                 vecVars, rxVars, txVars, crashed>>

start ==
  /\ mainAt = "down"
  /\ ~m_running
  /\ m_running' = TRUE
  /\ mainAt' = "startReceived"
  /\ UNCHANGED <<nodeVars, queueVars, stops, receivedOpen, vecVars, rxVars,
                 txVars, crashed>>

StartReceivedQueue ==
  /\ mainAt = "startReceived"
  /\ receivedOpen' = TRUE
  /\ mainAt' = "startMessages"
  /\ UNCHANGED <<nodeVars, queueVars, m_running, stops, vecVars, rxVars, txVars, crashed>>

\* Mutant: g_messageNodeQueue is not started again.
MutStartMessageQueue ==
  /\ mainAt = "startMessages"
  /\ mainAt' = "startThreads"
  /\ UNCHANGED <<nodeVars, queueVars, m_running, stops, receivedOpen,
                 vecVars, rxVars, txVars, crashed>>

StartMessageQueue ==
  /\ mainAt = "startMessages"
  /\ queueOpen' = TRUE
  /\ mainAt' = "startThreads"
  /\ UNCHANGED <<nodeVars, g_messageNodeQueue, lost, m_running, stops, receivedOpen,
                 vecVars, rxVars, txVars, crashed>>

StartThreads ==
  /\ mainAt = "startThreads"
  /\ mainAt' = "up"
  /\ RxReturn
  /\ TxReturn
  /\ UNCHANGED <<nodeVars, queueVars, m_running, stops, receivedOpen,
                 vecVars, txNode, crashed>>

(* stop() and start() once they have been called. *)
MainGoesOn ==
  \/ StopReceivedQueue \/ StopMessageQueue \/ JoinThreads
  \/ StartReceivedQueue \/ StartMessageQueue \/ StartThreads

Main == stop \/ start \/ MainGoesOn

(* A step of one of the nodes' threads. *)
NodeStep(n) ==
  handleThread(n) /\ UNCHANGED <<mainVars, vecVars, rxVars, txVars, crashed>>

-----------------------------------------------------------------------------
(* RX and TX are inside operations on the vector, one of which changes it. *)
Overlap ==
  \/ rxAt = "push" /\ txAt \in TxInVector
  \/ txAt \in {"erase", "join"} /\ rxAt \in RxInVector

(* One step of the thread whose action is A. *)
Step(A) ==
  /\ ~crashed
  /\ A
  /\ raced' = (raced \/ Overlap')

(* The process has died. *)
Terminated == crashed /\ UNCHANGED vars

Next ==
  \/ Step(Rx)
  \/ Step(Tx)
  \/ Step(Main)
  \/ \E n \in Node : Step(NodeStep(n))
  \/ Terminated

Spec == Init /\ [][Next]_vars

(* The scheduler runs every thread that can take a step.  stop() and       *)
(* start() may never be called; once called, they are carried through.     *)
Fairness ==
  /\ WF_vars(Step(Rx))
  /\ WF_vars(Step(Tx))
  /\ WF_vars(Step(MainGoesOn))
  /\ \A n \in Node : WF_vars(Step(NodeStep(n)))

FairSpec == Spec /\ Fairness

-----------------------------------------------------------------------------
(* The nodes in the vector. *)
Monitored == {m_vecNodeBase[i] : i \in 1..size} \ {NULL}

(* The DEAD notification of node n is queued, or TX is serving it. *)
DeadPending(n) ==
  \/ \E i \in 1..Len(g_messageNodeQueue) : IsNotice(g_messageNodeQueue[i], n, "DEAD")
  \/ txAt \in {"scan", "erase"} /\ messageNode.m_nodeID = n

DistinctPorts ==
  \A i, j \in 1..size :
    i # j /\ m_vecNodeBase[i] # NULL /\ m_vecNodeBase[j] # NULL
      => getPortInfo(m_vecNodeBase[i]) # getPortInfo(m_vecNodeBase[j])

(* checkPongMessage and checkNotifyMessage take the FIRST node with a port *)
(* for the right one.  As long as RX and TX do not overlap it is the only  *)
(* one: a client that registers again, before or after it was given up,    *)
(* never gets a second node beside its first.                              *)
UniquePorts == raced \/ DistinctPorts

(* A DEAD notification names a port, and TX joins the thread of whatever   *)
(* node has that port when it gets there.  It is the node that sent the    *)
(* notification, and its thread is on its way out: TX, and with it every   *)
(* ping of every node, is not held up by a node that is still monitoring.  *)
JoinTargetIsDying ==
  ~raced /\ txAt = "join" =>
    /\ txNode = messageNode.m_nodeID
    /\ m_thread[txNode] \in {"stop", "exited"}

(* As long as RX and TX do not overlap, no iterator is used after the      *)
(* vector changed under it, no null or deleted node is used, and no        *)
(* running std::thread is overwritten, over any number of registrations,   *)
(* reallocations, erasures and restarts.                                   *)
NoCrashWithoutRace == crashed => raced

(* A node whose thread has ended stays in the vector only until TX has     *)
(* served its DEAD notification, unless a stop or a full queue discarded   *)
(* that notification.                                                      *)
ZombieOnlyByLoss ==
  ~raced =>
    \A n \in Monitored : m_thread[n] = "exited" => DeadPending(n) \/ n \in lost

(* When a node is deleted, every notification it ever sent has been served *)
(* or discarded, even across a restart: TX never acts for a node that is   *)
(* gone, on a port that may belong to its successor.                       *)
NoNoticeOfDeleted ==
  ~raced =>
    \A i \in 1..Len(g_messageNodeQueue) :
      LET m == g_messageNodeQueue[i] IN
      m.m_messageType = 1 => m_thread[m.m_nodeID] # "freed"

(* What TX serves it has just taken from the queue.  It never broadcasts   *)
(* its last notification a second time, or erases for it whatever node     *)
(* has the port by then, when waitAndPop returns without a message: stop() *)
(* clears m_running before it stops the queue, and while start() has set   *)
(* m_running and not yet started the queue, TX does not run.               *)
NoStaleDispatch ==
  [][txAt = "pop" /\ txAt' \in {"bcast", "scan"} =>
       /\ g_messageNodeQueue # <<>>
       /\ messageNode' = Head(g_messageNodeQueue)
       /\ g_messageNodeQueue' = Tail(g_messageNodeQueue)]_vars

Abstract == INSTANCE Monitor WITH
  NoPort <- NoClient.sin_port,
  known <- Monitored,
  portOf <- [n \in Node |-> getPortInfo(n)],
  givenUp <- {n \in Node : m_currentState[n] = "DEAD" \/ m_thread[n] \in {"exited", "freed"}}

(* Until RX and TX overlap, the vector, moved element by element, and the  *)
(* messages that name a port implement Monitor: one node per port, none    *)
(* given up that is not in the vector, and none removed that is not given  *)
(* up, whatever notification of an earlier node of its port is queued.     *)
(* Steps that change nothing the mapping reads are told apart first, to    *)
(* spare TLC the mapping.                                                  *)
ImplementsMonitor ==
  /\ Abstract!Init
  /\ [][\/ raced'
        \/ UNCHANGED <<m_vecNodeBase, size, m_clientAddr, m_thread, m_currentState>>
        \/ Abstract!Next]_(Abstract!monitorVars)

(* What RX, TX and the main thread do to the nodes and to their queue is   *)
(* what NodeBase lets its environment do: TX deletes only nodes whose      *)
(* threads have ended, a node is created for one client and started once,  *)
(* a pong waits for the node's mutex, and messages leave the queue at its  *)
(* head only, while it is open, across any stop and restart.               *)
NodesAsAssumed ==
  /\ NodeInit
  /\ [][raced' \/ NodeNext]_<<nodeVars, queueVars>>

(* A node that has ended is removed by TX, unless its notification was     *)
(* discarded or the manager is stopped.                                    *)
DeadNodeRemoved ==
  \A n \in Node :
    m_thread[n] = "exited" ~>
      m_thread[n] = "freed" \/ n \in lost \/ ~m_running \/ raced

(* stop() returns: RX and TX both end, even when RX waits for the mutex of *)
(* a sleeping node or TX is joining a node.                                *)
StopReturns == ~m_running ~> mainAt = "down" \/ raced

-----------------------------------------------------------------------------
(* What the repository's comments say, and the code does not do. *)

(* NodeManagament.cpp: "adds a new node if not already present". *)
AddedOnlyIfNotPresent == txAt # "join" => DistinctPorts

(* NodeBase.cpp: "Notify for NoM that this node is dead, need to remove":  *)
(* while the manager runs, no node that has ended stays unannounced.       *)
DeadNodeIsNotified ==
  ~raced /\ mainAt = "up" =>
    \A n \in Monitored : m_thread[n] = "exited" => DeadPending(n)
=============================================================================
