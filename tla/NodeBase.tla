------------------------------- MODULE NodeBase -------------------------------
(***************************************************************************)
(* A monitored node (source/node_service/NodeBase.cpp): an object with a   *)
(* thread of its own that pings a client through g_messageNodeQueue, waits *)
(* for setPongState(true) and runs the state machine                       *)
(* INIT -> ALIVE <-> TIMEOUT -> DEAD.                                      *)
(*                                                                         *)
(* The module has one action per step of the node's thread that touches    *)
(* shared state.  Its neighbours are the environment of NodeSpec: whoever  *)
(* registers nodes, delivers pongs, consumes the message queue, and stops  *)
(* or starts that queue.  NodeManagament replaces the environment.         *)
(*                                                                         *)
(* A node's m_running is TRUE exactly while m_thread[n] is neither         *)
(* "absent", "created", "exited" nor "freed": only DeadState calls stop(). *)
(* The branches of the wait that test it are therefore never taken.        *)
(***************************************************************************)
EXTENDS Naturals, Sequences

CONSTANTS
  MaxNodes,       \* bound: node objects created in a behaviour
  Host, Port,     \* addresses and UDP ports of the clients
  RETRY_NUM,      \* silent retries before a node is dead (5 in Utils.h)
  MAX_SAFE_QUEUE  \* capacity of a ThreadSafeQueue (100000 in Utils.h)

ASSUME NodeAssumption ==
  /\ MaxNodes \in Nat
  /\ RETRY_NUM \in 1..255      \* it is compared with a uint8_t
  /\ MAX_SAFE_QUEUE \in Nat \ {0}

VARIABLES
  m_currentState,      \* state object of each node
  m_pongState,         \* the flag a pong sets
  retryTime,           \* local of TimeoutState::handleState
  m_clientAddr,        \* client of each node
  m_thread,            \* where each node's thread is
  g_messageNodeQueue,  \* messages of the nodes to the manager
  queueOpen,           \* g_messageNodeQueue.m_running
  lost                 \* history: nodes whose DEAD notification was discarded

nodeVars == <<m_currentState, m_pongState, retryTime, m_clientAddr, m_thread>>
queueVars == <<g_messageNodeQueue, queueOpen, lost>>

Node == 1..MaxNodes      \* m_objectNodeID
Client == [sin_addr : Host, sin_port : Port]
NoClient == [sin_addr |-> "none", sin_port |-> "none"]  \* before setClientInfor
StateList == {"INIT", "ALIVE", "TIMEOUT", "DEAD"}

(* str_MessageState, with the fields the manager or a property reads. *)
PingMessage == [m_messageType : {0}, m_clientAddr : Client]
NotifyMessage ==
  [m_messageType : {1}, m_nodeID : Node, m_state : {"TIMEOUT", "DEAD"},
   m_clientAddr : Client]

(* created: constructed, start() not called yet.  run: about to call       *)
(* handleState.  ping: setPongState(false) done, sendPing next.  pushPing, *)
(* pushNotify: push has seen a running queue and will lock it.  wait: in   *)
(* m_cv.wait_for.  sleep: sleep_for WITH m_mtx held.  retry: head of the   *)
(* loop of TimeoutState.  stop: DeadState has pushed its message.  exited: *)
(* the thread has returned.  freed: the object is deleted.                 *)
Location == {"absent", "created", "run", "ping", "pushPing", "pushNotify",
             "wait", "sleep", "retry", "stop", "exited", "freed"}

NodeTypeOK ==
  /\ m_currentState \in [Node -> StateList]
  /\ m_pongState \in [Node -> BOOLEAN]
  /\ retryTime \in [Node -> 0..RETRY_NUM]
  /\ m_clientAddr \in [Node -> Client \cup {NoClient}]
  /\ m_thread \in [Node -> Location]
  /\ g_messageNodeQueue \in Seq(PingMessage \cup NotifyMessage)
  /\ queueOpen \in BOOLEAN
  /\ lost \subseteq Node

NodeInit ==
  /\ m_currentState = [n \in Node |-> "INIT"]
  /\ m_pongState = [n \in Node |-> FALSE]
  /\ retryTime = [n \in Node |-> 0]
  /\ m_clientAddr = [n \in Node |-> NoClient]
  /\ m_thread = [n \in Node |-> "absent"]
  /\ g_messageNodeQueue = <<>>
  /\ queueOpen = TRUE
  /\ lost = {}

-----------------------------------------------------------------------------
(* Rows: previous state; columns: the states it may change to. *)
g_stateChangeTable ==
  [INIT    |-> {"ALIVE", "TIMEOUT"},
   ALIVE   |-> {"TIMEOUT"},
   TIMEOUT |-> {"ALIVE", "DEAD"},
   DEAD    |-> {"INIT"}]

changeState(n, s) ==
  m_currentState' = IF s \in g_stateChangeTable[m_currentState[n]]
                    THEN [m_currentState EXCEPT ![n] = s]
                    ELSE m_currentState

Goto(n, loc) == m_thread' = [m_thread EXCEPT ![n] = loc]

IsNotice(msg, n, s) ==
  msg.m_messageType = 1 /\ msg.m_nodeID = n /\ msg.m_state = s

(* Message msg is discarded. *)
Discard(msg) == lost' = lost \cup {n \in Node : IsNotice(msg, n, "DEAD")}

(* push(msg, true) under the queue's lock: at the limit the oldest message *)
(* is discarded.                                                           *)
PushMessage(msg) ==
  LET full == Len(g_messageNodeQueue) >= MAX_SAFE_QUEUE
      room == IF full THEN Tail(g_messageNodeQueue) ELSE g_messageNodeQueue
  IN /\ g_messageNodeQueue' = Append(room, msg)
     /\ IF full THEN Discard(Head(g_messageNodeQueue)) ELSE UNCHANGED lost
     /\ UNCHANGED queueOpen

-----------------------------------------------------------------------------
(* NodeBase::NodeBase and setClientInfor: object n, for client addr. *)
Construct(n, addr) ==
  /\ m_thread[n] = "absent"
  /\ Goto(n, "created")
  /\ m_clientAddr' = [m_clientAddr EXCEPT ![n] = addr]
  /\ UNCHANGED <<m_currentState, m_pongState, retryTime>>

(* NodeBase::start: a fresh InitState and the thread. *)
StartNode(n) ==
  /\ m_thread[n] = "created"
  /\ m_currentState' = [m_currentState EXCEPT ![n] = "INIT"]
  /\ Goto(n, "run")
  /\ UNCHANGED <<m_pongState, retryTime, m_clientAddr>>

(* setPongState(true), called by the manager's receive thread.  It needs   *)
(* m_mtx, which the node holds while it sleeps.                            *)
SetPong(n) ==
  /\ m_thread[n] \notin {"absent", "freed", "sleep"}
  /\ m_pongState' = [m_pongState EXCEPT ![n] = TRUE]
  /\ UNCHANGED <<m_currentState, retryTime, m_clientAddr, m_thread>>

(* ~NodeBase: joins the thread, which must therefore have returned. *)
Destroy(n) ==
  /\ m_thread[n] \in {"created", "exited"}
  /\ Goto(n, "freed")
  /\ UNCHANGED <<m_currentState, m_pongState, retryTime, m_clientAddr>>

-----------------------------------------------------------------------------
\* Mutant: one retry too many.
MutBeginPing(n) ==
  /\ \/ m_thread[n] = "run" /\ m_currentState[n] \in {"INIT", "ALIVE"}
     \/ m_thread[n] = "retry" /\ retryTime[n] <= RETRY_NUM
  /\ m_pongState' = [m_pongState EXCEPT ![n] = FALSE]
  /\ Goto(n, "ping")
  /\ UNCHANGED <<m_currentState, retryTime, m_clientAddr, queueVars>>

(* node->setPongState(false), at the start of Init and Alive and of every  *)
(* retry of Timeout: a pong that came before this ping is forgotten.       *)
BeginPing(n) ==
  /\ \/ m_thread[n] = "run" /\ m_currentState[n] \in {"INIT", "ALIVE"}
     \/ m_thread[n] = "retry" /\ retryTime[n] < RETRY_NUM
  /\ m_pongState' = [m_pongState EXCEPT ![n] = FALSE]
  /\ Goto(n, "ping")
  /\ UNCHANGED <<m_currentState, retryTime, m_clientAddr, queueVars>>

(* sendPing: push tests the queue's m_running before it locks. *)
PingCheck(n) ==
  /\ m_thread[n] = "ping"
  /\ Goto(n, IF queueOpen THEN "pushPing" ELSE "wait")
  /\ UNCHANGED <<m_currentState, m_pongState, retryTime, m_clientAddr, queueVars>>

PushPing(n) ==
  /\ m_thread[n] = "pushPing"
  /\ PushMessage([m_messageType |-> 0, m_clientAddr |-> m_clientAddr[n]])
  /\ Goto(n, "wait")
  /\ UNCHANGED <<m_currentState, m_pongState, retryTime, m_clientAddr>>

(* wait_for returns true: the pong has come.  Init and Timeout change to   *)
(* ALIVE; Alive and Timeout then sleep before the next ping.  retryTime is *)
(* a local of the handler that returns.                                    *)
PongReceived(n) ==
  /\ m_thread[n] = "wait"
  /\ m_pongState[n]
  /\ IF m_currentState[n] = "ALIVE" THEN UNCHANGED m_currentState
                                    ELSE changeState(n, "ALIVE")
  /\ Goto(n, IF m_currentState[n] = "INIT" THEN "run" ELSE "sleep")
  /\ retryTime' = [retryTime EXCEPT ![n] = 0]
  /\ UNCHANGED <<m_pongState, m_clientAddr, queueVars>>

WakeUp(n) ==
  /\ m_thread[n] = "sleep"
  /\ Goto(n, "run")
  /\ UNCHANGED <<m_currentState, m_pongState, retryTime, m_clientAddr, queueVars>>

\* Mutant: AliveState calls wait instead of wait_for.
MutPongTimeout(n) ==
  /\ m_thread[n] = "wait"
  /\ ~m_pongState[n]
  /\ m_currentState[n] # "ALIVE"
  /\ IF m_currentState[n] = "TIMEOUT"
     THEN /\ retryTime' = [retryTime EXCEPT ![n] = (@ + 1) % 256]
          /\ Goto(n, "retry")
          /\ UNCHANGED m_currentState
     ELSE /\ changeState(n, "TIMEOUT")
          /\ Goto(n, "run")
          /\ UNCHANGED retryTime
  /\ UNCHANGED <<m_pongState, m_clientAddr, queueVars>>

(* wait_for returns false: TIMEOUT_PERIODS have passed and the predicate,  *)
(* tested once more under m_mtx, is still false.                           *)
PongTimeout(n) ==
  /\ m_thread[n] = "wait"
  /\ ~m_pongState[n]
  /\ IF m_currentState[n] = "TIMEOUT"
     THEN /\ retryTime' = [retryTime EXCEPT ![n] = (@ + 1) % 256]
          /\ Goto(n, "retry")
          /\ UNCHANGED m_currentState
     ELSE /\ changeState(n, "TIMEOUT")
          /\ Goto(n, "run")
          /\ UNCHANGED retryTime
  /\ UNCHANGED <<m_pongState, m_clientAddr, queueVars>>

(* The message of Timeout and Dead. *)
Notice(n) ==
  [m_messageType |-> 1, m_nodeID |-> n, m_state |-> m_currentState[n],
   m_clientAddr |-> m_clientAddr[n]]

(* After the push of a notification, whether it was queued or not: Timeout *)
(* starts its retries, Dead goes on to stop the node.                      *)
AfterNotify(n) ==
  /\ Goto(n, IF m_currentState[n] = "TIMEOUT" THEN "retry" ELSE "stop")
  /\ retryTime' = IF m_currentState[n] = "TIMEOUT"
                  THEN [retryTime EXCEPT ![n] = 0] ELSE retryTime

(* Entry of TimeoutState and DeadState: the notification to the manager,   *)
(* discarded by a stopped queue.                                           *)
NotifyCheck(n) ==
  /\ m_thread[n] = "run"
  /\ m_currentState[n] \in {"TIMEOUT", "DEAD"}
  /\ IF queueOpen
     THEN Goto(n, "pushNotify") /\ UNCHANGED <<retryTime, lost>>
     ELSE AfterNotify(n) /\ Discard(Notice(n))
  /\ UNCHANGED <<m_currentState, m_pongState, m_clientAddr,
                 g_messageNodeQueue, queueOpen>>

PushNotify(n) ==
  /\ m_thread[n] = "pushNotify"
  /\ PushMessage(Notice(n))
  /\ AfterNotify(n)
  /\ UNCHANGED <<m_currentState, m_pongState, m_clientAddr>>

\* Mutant: one retry too few.
MutRetriesExhausted(n) ==
  /\ m_thread[n] = "retry"
  /\ retryTime[n] + 1 >= RETRY_NUM
  /\ changeState(n, "DEAD")
  /\ Goto(n, "run")
  /\ retryTime' = [retryTime EXCEPT ![n] = 0]
  /\ UNCHANGED <<m_pongState, m_clientAddr, queueVars>>

(* All retries failed. *)
RetriesExhausted(n) ==
  /\ m_thread[n] = "retry"
  /\ retryTime[n] = RETRY_NUM
  /\ changeState(n, "DEAD")
  /\ Goto(n, "run")
  /\ retryTime' = [retryTime EXCEPT ![n] = 0]
  /\ UNCHANGED <<m_pongState, m_clientAddr, queueVars>>

\* Mutant: DeadState does not call stop().
MutStopSelf(n) ==
  /\ m_thread[n] = "stop"
  /\ changeState(n, "INIT")
  /\ Goto(n, "run")
  /\ UNCHANGED <<m_pongState, retryTime, m_clientAddr, queueVars>>

(* End of DeadState: changeState(INIT), stop(), and handleThread returns. *)
StopSelf(n) ==
  /\ m_thread[n] = "stop"
  /\ changeState(n, "INIT")
  /\ Goto(n, "exited")
  /\ UNCHANGED <<m_pongState, retryTime, m_clientAddr, queueVars>>

handleThread(n) ==
  \/ BeginPing(n) \/ PingCheck(n) \/ PushPing(n)
  \/ PongReceived(n) \/ WakeUp(n) \/ PongTimeout(n)
  \/ NotifyCheck(n) \/ PushNotify(n)
  \/ RetriesExhausted(n) \/ StopSelf(n)

-----------------------------------------------------------------------------
(* The environment of the nodes. *)
Register(n, addr) == Construct(n, addr) /\ UNCHANGED queueVars

Start(n) == StartNode(n) /\ UNCHANGED queueVars

Pong(n) == SetPong(n) /\ UNCHANGED queueVars

Delete(n) == m_thread[n] = "exited" /\ Destroy(n) /\ UNCHANGED queueVars

(* g_messageNodeQueue.waitAndPop; a manager that is being stopped drops    *)
(* the message it gets.                                                    *)
Consume ==
  /\ queueOpen
  /\ g_messageNodeQueue # <<>>
  /\ g_messageNodeQueue' = Tail(g_messageNodeQueue)
  /\ UNCHANGED lost \/ Discard(Head(g_messageNodeQueue))
  /\ UNCHANGED <<nodeVars, queueOpen>>

(* g_messageNodeQueue.stop and .start *)
SwitchQueue ==
  /\ queueOpen' = ~queueOpen
  /\ UNCHANGED <<nodeVars, g_messageNodeQueue, lost>>

NodeNext ==
  \/ \E n \in Node :
       \/ handleThread(n)
       \/ \E addr \in Client : Register(n, addr)
       \/ Start(n) \/ Pong(n) \/ Delete(n)
  \/ Consume
  \/ SwitchQueue

(* A started thread keeps running: every call it makes returns.  Nothing   *)
(* is assumed of the environment.                                          *)
NodeFairness == \A n \in Node : WF_<<nodeVars, queueVars>>(handleThread(n))

NodeSpec == NodeInit /\ [][NodeNext]_<<nodeVars, queueVars>>

FairNodeSpec == NodeSpec /\ NodeFairness

-----------------------------------------------------------------------------
(* The abstract life cycle that a node's control state stands for. *)
PhaseOf(n) ==
  IF m_thread[n] \in {"absent", "created"} THEN "absent"
  ELSE IF m_thread[n] \in {"exited", "freed"} THEN "dead"
  ELSE CASE m_currentState[n] = "INIT" -> "new"
         [] m_currentState[n] = "ALIVE" -> "alive"
         [] m_currentState[n] = "TIMEOUT" -> "suspect"
         [] m_currentState[n] = "DEAD" -> "dead"

SilentOf(n) ==
  CASE PhaseOf(n) \in {"absent", "new", "alive"} -> 0
    [] PhaseOf(n) = "dead" -> RETRY_NUM + 1
    [] OTHER -> IF m_thread[n] \in {"run", "pushNotify"} THEN 1
                ELSE 1 + retryTime[n]

Lifecycle == INSTANCE NodeLifecycle WITH
  phase <- [n \in Node |-> PhaseOf(n)],
  silent <- [n \in Node |-> SilentOf(n)]

(* Every node follows the life cycle whatever the interleaving of its      *)
(* thread with pongs, a full queue and a stopped queue: it is given up     *)
(* after exactly 1 + RETRY_NUM silent windows in a row, counted afresh     *)
(* each time it becomes suspect, and never comes back.                     *)
ImplementsLifecycle == Lifecycle!Spec

(* The manager joins a node's thread when it reads the node's DEAD         *)
(* notification.  It does not wait on a node that still monitors: such a   *)
(* notification exists only when the thread has nothing left to do but     *)
(* stop itself.                                                            *)
DeadNoticeMeansLeaving ==
  \A i \in 1..Len(g_messageNodeQueue) :
    LET m == g_messageNodeQueue[i] IN
    m.m_messageType = 1 /\ m.m_state = "DEAD"
      => m_thread[m.m_nodeID] \in {"stop", "exited", "freed"}

(* The DEAD notification is the last one of its node, and there is one.    *)
DeadNoticeIsLast ==
  \A i, j \in 1..Len(g_messageNodeQueue) :
    LET a == g_messageNodeQueue[i]
        b == g_messageNodeQueue[j]
    IN i < j /\ a.m_messageType = 1 /\ b.m_messageType = 1
             /\ a.m_nodeID = b.m_nodeID
         => a.m_state # "DEAD"

(* A node whose client falls silent is given up, whatever state it was in, *)
(* a healthy one included: once a ping is under way and no pong has come,  *)
(* the thread ends unless one comes.                                       *)
SilentNodeGivenUp ==
  \A n \in Node :
    m_thread[n] \in {"ping", "pushPing", "wait"} /\ ~m_pongState[n]
      ~> m_thread[n] \in {"exited", "freed"} \/ m_pongState[n]
=============================================================================
