------------------------------- MODULE NodeTiming -------------------------------
(***************************************************************************)
(* The nodes' windows in real time.  A node sleeps TIMESEND_PING with its  *)
(* m_mtx held, and the one thread that delivers pongs (checkPongMessage)   *)
(* waits for that mutex when another pong for the node comes: everybody's  *)
(* pongs wait with it.  How late can a pong become, and when is a client   *)
(* that answers every ping in time taken for silent?                       *)
(*                                                                         *)
(* A node is judged as NodeLifecycle says, which NodeBase implements; this *)
(* module adds when.  Threads take no time: the clock stands still while   *)
(* one of them has something to do.  The queue is below its limit, at      *)
(* which a push drops the oldest pong (100000 in Utils.h); nothing is      *)
(* stopped.                                                                *)
(***************************************************************************)
EXTENDS Integers, Sequences

CONSTANTS
  Node, RETRY_NUM,
  TIMEOUT_PERIODS, TIMESEND_PING,  \* ticks (2000 ms and 500 ms in Utils.h)
  Punctual,   \* clients that answer every ping in time
  RoundTrip,  \* ticks from a ping to the arrival of a punctual answer at most
  MaxPongs    \* bound: pongs queued when one more than the punctual ones comes

(* In time means before the window of the ping is over. *)
ASSUME TimingAssumption ==
  /\ Punctual \subseteq Node
  /\ RETRY_NUM \in 1..255
  /\ TIMESEND_PING \in Nat \ {0} /\ TIMEOUT_PERIODS \in Nat
  /\ RoundTrip \in Nat /\ RoundTrip < TIMEOUT_PERIODS
  /\ MaxPongs \in Nat

VARIABLES
  phase, silent,      \* of NodeLifecycle
  where, elapsed,     \* location of a node's thread, and ticks spent there
  m_pongState,
  answering,          \* punctual clients whose answer is due
  g_receivedIOQueue   \* pongs: whose, queued behind how many others, and for
                      \* how many ticks; RX is at the head

Life == INSTANCE NodeLifecycle

clientVars == <<answering, g_receivedIOQueue>>
vars == <<phase, silent, where, elapsed, m_pongState, clientVars>>

TypeOK ==
  /\ phase \in [Node -> {"absent", "new", "alive", "suspect", "dead"}]
  /\ silent \in [Node -> 0..RETRY_NUM + 1]
  /\ where \in [Node -> {"absent", "begin", "window", "sleep", "ended"}]
  /\ elapsed \in [Node -> 0..TIMEOUT_PERIODS \cup 0..TIMESEND_PING]
  /\ m_pongState \in [Node -> BOOLEAN]
  /\ answering \subseteq Punctual
  /\ g_receivedIOQueue \in Seq([from : Node, ahead : Nat, age : Nat])

Init ==
  /\ Life!Init
  /\ where = [n \in Node |-> "absent"]
  /\ elapsed = [n \in Node |-> 0]
  /\ m_pongState = [n \in Node |-> FALSE]
  /\ answering = {}
  /\ g_receivedIOQueue = <<>>

Goto(n, loc) ==
  where' = [where EXCEPT ![n] = loc] /\ elapsed' = [elapsed EXCEPT ![n] = 0]

-----------------------------------------------------------------------------
(* The nodes.  Between windows a node's mutex is free for a moment. *)

Register(n) ==
  /\ Life!Register(n)
  /\ Goto(n, "begin")
  /\ UNCHANGED <<m_pongState, clientVars>>

\* Mutant: the flag is not cleared, so that the node sleeps again at once.
MutBeginPing(n) ==
  /\ where[n] = "begin"
  /\ silent[n] <= RETRY_NUM
  /\ answering' = answering \cup ({n} \cap Punctual)
  /\ Goto(n, "window")
  /\ UNCHANGED <<phase, silent, m_pongState, g_receivedIOQueue>>

(* setPongState(false), sendPing and the beginning of wait_for. *)
BeginPing(n) ==
  /\ where[n] = "begin"
  /\ silent[n] <= RETRY_NUM
  /\ m_pongState' = [m_pongState EXCEPT ![n] = FALSE]
  /\ answering' = answering \cup ({n} \cap Punctual)
  /\ Goto(n, "window")
  /\ UNCHANGED <<phase, silent, g_receivedIOQueue>>

(* InitState pings again at once; AliveState and TimeoutState sleep.       *)
AfterPong(n) == IF phase[n] = "new" THEN "begin" ELSE "sleep"

(* wait_for returns true.  If it was for an old pong, the answer to this   *)
(* ping comes at any time (LatePong).                                      *)
PongReceived(n) ==
  /\ where[n] = "window"
  /\ m_pongState[n]
  /\ Life!AnsweredWindow(n)
  /\ Goto(n, AfterPong(n))
  /\ answering' = answering \ {n}
  /\ UNCHANGED <<m_pongState, g_receivedIOQueue>>

\* Mutant: off by one.
MutExpired(n) == elapsed[n] > TIMEOUT_PERIODS

Expired(n) == elapsed[n] >= TIMEOUT_PERIODS

(* wait_for returns false. *)
PongTimeout(n) ==
  /\ where[n] = "window"
  /\ ~m_pongState[n]
  /\ Expired(n)
  /\ Life!SilentWindow(n)
  /\ Goto(n, "begin")
  /\ UNCHANGED <<m_pongState, clientVars>>

Rested(n) == elapsed[n] >= TIMESEND_PING

(* sleep_for returns, and the mutex is unlocked. *)
WakeUp(n) ==
  /\ where[n] = "sleep"
  /\ Rested(n)
  /\ Goto(n, "begin")
  /\ UNCHANGED <<phase, silent, m_pongState, clientVars>>

GiveUp(n) ==
  /\ where[n] = "begin"
  /\ Life!GiveUp(n)
  /\ Goto(n, "ended")
  /\ UNCHANGED <<m_pongState, clientVars>>

handleThread(n) ==
  BeginPing(n) \/ PongReceived(n) \/ PongTimeout(n) \/ WakeUp(n) \/ GiveUp(n)

-----------------------------------------------------------------------------
(* The clients and the receive thread. *)

Queue(n) ==
  /\ g_receivedIOQueue' =
       Append(g_receivedIOQueue, [from |-> n, ahead |-> Len(g_receivedIOQueue), age |-> 0])
  /\ UNCHANGED <<phase, silent, where, elapsed, m_pongState>>

PunctualPong(n) ==
  /\ n \in answering
  /\ answering' = answering \ {n}
  /\ Queue(n)

(* Any client's answer may come late or once more, or to no ping at all.   *)
LatePong(n) ==
  /\ phase[n] # "absent"
  /\ Len(g_receivedIOQueue) < MaxPongs
  /\ Queue(n)
  /\ UNCHANGED answering

\* Mutant: a node holds its mutex while it waits for the pong.
MutMutexFree == where[Head(g_receivedIOQueue).from] \notin {"sleep", "window"}

MutexFree == where[Head(g_receivedIOQueue).from] # "sleep"

(* checkPongMessage and setPongState(true) *)
checkPongMessage ==
  /\ g_receivedIOQueue # <<>>
  /\ MutexFree
  /\ m_pongState' = [m_pongState EXCEPT ![Head(g_receivedIOQueue).from] = TRUE]
  /\ g_receivedIOQueue' = Tail(g_receivedIOQueue)
  /\ UNCHANGED <<phase, silent, where, elapsed, answering>>

-----------------------------------------------------------------------------
(* Time passes when no thread can go on and no punctual answer is due. *)
Waiting(n) ==
  \/ where[n] \in {"absent", "ended"}
  \/ where[n] = "sleep" /\ ~Rested(n)
  \/ where[n] = "window" /\ ~m_pongState[n] /\ ~Expired(n)

Tick ==
  /\ \A n \in Node : Waiting(n)
  /\ g_receivedIOQueue # <<>> => ~MutexFree
  /\ \A n \in answering : elapsed[n] < RoundTrip
  /\ elapsed' = [n \in Node |-> IF where[n] \in {"window", "sleep"}
                                THEN elapsed[n] + 1 ELSE elapsed[n]]
  /\ g_receivedIOQueue' = [i \in DOMAIN g_receivedIOQueue |->
                             [g_receivedIOQueue[i] EXCEPT !.age = @ + 1]]
  /\ UNCHANGED <<phase, silent, where, m_pongState, answering>>

Next ==
  \/ \E n \in Node :
       Register(n) \/ handleThread(n) \/ PunctualPong(n) \/ LatePong(n)
  \/ checkPongMessage
  \/ Tick

Spec == Init /\ [][Next]_vars

-----------------------------------------------------------------------------
(* A pong is delivered after one sleep for each pong queued before it and  *)
(* one for itself at most, whoever they are from, however the sleeps of    *)
(* several nodes follow each other, and however many pongs are queued.     *)
DeliveryBounded ==
  \A i \in 1..Len(g_receivedIOQueue) :
    g_receivedIOQueue[i].age <= (g_receivedIOQueue[i].ahead + 1) * TIMESEND_PING

(* A client that answers every ping in time fails a window only when its   *)
(* answer came in the window and is still queued, behind so many pongs     *)
(* that one sleep for each of them takes what RoundTrip leaves of the      *)
(* window.                                                                 *)
PunctualLostOnlyToBacklog ==
  [][\A n \in Punctual : silent'[n] > silent[n] =>
       \E i \in 1..Len(g_receivedIOQueue) :
         LET pong == g_receivedIOQueue[i] IN
         /\ pong.from = n
         /\ pong.age <= elapsed[n]
         /\ TIMEOUT_PERIODS <= RoundTrip + pong.ahead * TIMESEND_PING]_vars

-----------------------------------------------------------------------------
(* What the repository's comments say, and the code does not do. *)

(* NodeManagament.cpp: "Updates the corresponding node's PongState when a  *)
(* PONG is received", and NodeBase.cpp: "Pong received - stay alive": a    *)
(* client that answers every ping in time is not suspected.                *)
PunctualNeverSuspected ==
  \A n \in Punctual : phase[n] \notin {"suspect", "dead"}
=============================================================================
