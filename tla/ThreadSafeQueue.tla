--------------------------- MODULE ThreadSafeQueue ---------------------------
(***************************************************************************)
(* The class template ThreadSafeQueue of source/Utils.h: a bounded FIFO    *)
(* with a mutex (m_mtx), a condition variable (m_cv) and an atomic flag    *)
(* (m_running).  The four global queues of the program are instances.      *)
(*                                                                         *)
(* Every section executed under m_mtx is one step, because the mutex is    *)
(* never held across a wait: m_cv.wait releases it.  The checks of         *)
(* m_running that push, pop and tryPop make BEFORE they lock are steps of  *)
(* their own, so that stop() and start() may run between check and lock.   *)
(* peek and getSize only read and are left out.                            *)
(*                                                                         *)
(* An element is identified by the thread that pushed it and the number    *)
(* of that thread's call.                                                  *)
(***************************************************************************)
EXTENDS Naturals, Sequences

CONSTANTS
  Threads,         \* threads that use the queue
  MAX_SAFE_QUEUE,  \* capacity (100000 in Utils.h)
  MaxCalls         \* bound: calls of push per thread

ASSUME QueueAssumption ==
  /\ MAX_SAFE_QUEUE \in Nat \ {0}
  /\ MaxCalls \in Nat

VARIABLES
  m_queue,    \* std::queue<T>
  m_running,  \* std::atomic<bool>
  pc,         \* where each thread is inside the queue's methods
  calls,      \* number of push calls each thread has made
  delivered   \* history: per producer, the last element handed to a consumer

vars == <<m_queue, m_running, pc, calls, delivered>>

Element == [from : Threads, seq : Nat \ {0}]

(* "pushForce"/"pushTry": push has seen m_running = true and is about to   *)
(* lock, with bForce = true/false; "pop"/"tryPop" likewise.  "blocked":    *)
(* asleep in m_cv.wait; "woken": notified, must lock again and re-test.    *)
Location == {"idle", "pushForce", "pushTry", "pop", "tryPop", "blocked", "woken"}

TypeOK ==
  /\ m_queue \in Seq(Element)
  /\ m_running \in BOOLEAN
  /\ pc \in [Threads -> Location]
  /\ calls \in [Threads -> Nat]
  /\ delivered \in [Threads -> Nat]

Init ==
  /\ m_queue = <<>>
  /\ m_running = TRUE
  /\ pc = [t \in Threads |-> "idle"]
  /\ calls = [t \in Threads |-> 0]
  /\ delivered = [t \in Threads |-> 0]

-----------------------------------------------------------------------------
Goto(t, loc) == pc' = [pc EXCEPT ![t] = loc]

\* Mutant: notify_one() in place of notify_all().
MutNotifyOne(t) ==
  LET asleep == {u \in Threads : pc[u] = "blocked"}
      lucky  == CHOOSE u \in asleep : TRUE
  IN pc' = [u \in Threads |->
              IF u = t THEN "idle"
              ELSE IF asleep # {} /\ u = lucky THEN "woken" ELSE pc[u]]

(* m_cv.notify_all() by thread t, which then returns from its method. *)
NotifyAllAndReturn(t) ==
  pc' = [u \in Threads |->
           IF u = t THEN "idle"
           ELSE IF pc[u] = "blocked" THEN "woken" ELSE pc[u]]

\* Mutant: the front element is handed out but not removed.
MutTake(t) ==
  /\ delivered' = [delivered EXCEPT ![Head(m_queue).from] = Head(m_queue).seq]
  /\ Goto(t, "idle")
  /\ UNCHANGED <<m_queue, m_running, calls>>

(* value = std::move(m_queue.front()); m_queue.pop(); return. *)
Take(t) ==
  /\ m_queue' = Tail(m_queue)
  /\ delivered' = [delivered EXCEPT ![Head(m_queue).from] = Head(m_queue).seq]
  /\ Goto(t, "idle")
  /\ UNCHANGED <<m_running, calls>>

-----------------------------------------------------------------------------
(* push, first part: the unlocked test of m_running.  A push on a stopped  *)
(* queue returns and its element is discarded.                             *)
PushCheck(t, bForce) ==
  /\ pc[t] = "idle"
  /\ calls[t] < MaxCalls
  /\ calls' = [calls EXCEPT ![t] = @ + 1]
  /\ Goto(t, IF ~m_running THEN "idle"
             ELSE IF bForce THEN "pushForce" ELSE "pushTry")
  /\ UNCHANGED <<m_queue, m_running, delivered>>

\* Mutant: the size test lets one element too many in.
MutPushLocked(t) ==
  /\ pc[t] \in {"pushForce", "pushTry"}
  /\ LET full == Len(m_queue) > MAX_SAFE_QUEUE
         room == IF full THEN Tail(m_queue) ELSE m_queue
     IN IF full /\ pc[t] = "pushTry"
        THEN UNCHANGED m_queue /\ Goto(t, "idle")
        ELSE /\ m_queue' = Append(room, [from |-> t, seq |-> calls[t]])
             /\ NotifyAllAndReturn(t)
  /\ UNCHANGED <<m_running, calls, delivered>>

\* Mutant: what is pushed has been moved from already.
MutPushMoved(t) ==
  /\ pc[t] \in {"pushForce", "pushTry"}
  /\ Len(m_queue) < MAX_SAFE_QUEUE
  /\ m_queue' = Append(m_queue, [from |-> t, seq |-> 0])
  /\ NotifyAllAndReturn(t)
  /\ UNCHANGED <<m_running, calls, delivered>>

(* push, second part, under the lock: a full queue loses its oldest element *)
(* if bForce, and refuses the new one otherwise.  m_running is NOT tested   *)
(* again, so an element may enter a queue that was stopped meanwhile.       *)
PushLocked(t) ==
  /\ pc[t] \in {"pushForce", "pushTry"}
  /\ LET full == Len(m_queue) >= MAX_SAFE_QUEUE
         room == IF full THEN Tail(m_queue) ELSE m_queue
     IN IF full /\ pc[t] = "pushTry"
        THEN UNCHANGED m_queue /\ Goto(t, "idle")
        ELSE /\ m_queue' = Append(room, [from |-> t, seq |-> calls[t]])
             /\ NotifyAllAndReturn(t)
  /\ UNCHANGED <<m_running, calls, delivered>>

(* pop and tryPop, first part: return false on a stopped queue. *)
PopCheck(t, method) ==
  /\ pc[t] = "idle"
  /\ m_running
  /\ Goto(t, method)
  /\ UNCHANGED <<m_queue, m_running, calls, delivered>>

(* pop, second part: the front element is discarded. *)
PopLocked(t) ==
  /\ pc[t] = "pop"
  /\ m_queue' = IF m_queue = <<>> THEN m_queue ELSE Tail(m_queue)
  /\ Goto(t, "idle")
  /\ UNCHANGED <<m_running, calls, delivered>>

(* tryPop, second part: the front element, if any, is handed to the caller. *)
TryPopLocked(t) ==
  /\ pc[t] = "tryPop"
  /\ IF m_queue = <<>>
     THEN Goto(t, "idle") /\ UNCHANGED <<m_queue, m_running, calls, delivered>>
     ELSE Take(t)

(* waitAndPop.  The predicate is tested under the lock, on entry and after *)
(* every wake-up: a running, empty queue puts the caller to sleep; a       *)
(* stopped one makes it return -1 with value untouched; otherwise the      *)
(* caller gets the front element.                                          *)
WaitAndPop(t) ==
  /\ pc[t] \in {"idle", "woken"}
  /\ IF m_running /\ m_queue # <<>>
     THEN Take(t)
     ELSE /\ Goto(t, IF m_running THEN "blocked" ELSE "idle")
          /\ UNCHANGED <<m_queue, m_running, calls, delivered>>

(* std::condition_variable may wake a sleeper that nobody notified. *)
SpuriousWakeup(t) ==
  /\ pc[t] = "blocked"
  /\ Goto(t, "woken")
  /\ UNCHANGED <<m_queue, m_running, calls, delivered>>

resetQueue(t) ==
  /\ pc[t] = "idle"
  /\ m_queue' = <<>>
  /\ NotifyAllAndReturn(t)
  /\ UNCHANGED <<m_running, calls, delivered>>

\* Mutant: the flag is cleared but the sleepers are not notified.
MutStop(t) ==
  /\ pc[t] = "idle"
  /\ m_running
  /\ m_running' = FALSE
  /\ UNCHANGED <<m_queue, pc, calls, delivered>>

(* stop and start change the flag under the lock and notify all sleepers;  *)
(* they do nothing when the flag already has the value.                    *)
stop(t) ==
  /\ pc[t] = "idle"
  /\ m_running
  /\ m_running' = FALSE
  /\ NotifyAllAndReturn(t)
  /\ UNCHANGED <<m_queue, calls, delivered>>

start(t) ==
  /\ pc[t] = "idle"
  /\ ~m_running
  /\ m_running' = TRUE
  /\ NotifyAllAndReturn(t)
  /\ UNCHANGED <<m_queue, calls, delivered>>

Next ==
  \E t \in Threads :
    \/ \E bForce \in BOOLEAN : PushCheck(t, bForce)
    \/ PushLocked(t)
    \/ \E method \in {"pop", "tryPop"} : PopCheck(t, method)
    \/ PopLocked(t)
    \/ TryPopLocked(t)
    \/ WaitAndPop(t)
    \/ SpuriousWakeup(t)
    \/ resetQueue(t)
    \/ stop(t)
    \/ start(t)

(* A thread that was woken gets the mutex sooner or later: no section under *)
(* m_mtx blocks.  Nothing is assumed of the callers.                        *)
Fairness == \A t \in Threads : WF_vars(pc[t] = "woken" /\ WaitAndPop(t))

Spec == Init /\ [][Next]_vars

FairSpec == Spec /\ Fairness

-----------------------------------------------------------------------------
(* No lost wake-up: a thread sleeps in waitAndPop only while the queue is  *)
(* running and empty.  push, resetQueue, stop and start change what the    *)
(* predicate reads under m_mtx and notify before they unlock.              *)
NoLostWakeup ==
  \A t \in Threads : pc[t] = "blocked" => m_running /\ m_queue = <<>>

(* The size test and the push are made under the same lock, so that racing *)
(* producers never exceed MAX_SAFE_QUEUE together.                         *)
CapacityRespected == Len(m_queue) <= MAX_SAFE_QUEUE

(* The elements of one producer are delivered at most once and in the      *)
(* order of its push calls, whatever is dropped at the limit, by pop or by *)
(* resetQueue, and across stop and start.                                  *)
FifoPerProducer ==
  /\ \A i, j \in 1..Len(m_queue) :
       i < j /\ m_queue[i].from = m_queue[j].from
         => m_queue[i].seq < m_queue[j].seq
  /\ \A i \in 1..Len(m_queue) : delivered[m_queue[i].from] < m_queue[i].seq

Fifo == INSTANCE LossyFifo WITH
  Producer <- Threads, Number <- 1..MaxCalls, Capacity <- MAX_SAFE_QUEUE,
  content <- m_queue, last <- delivered

(* The methods are atomic to their callers although push, pop and tryPop   *)
(* test m_running before they lock: whatever happens between, elements are *)
(* handed out oldest first, and a push loses the oldest at the limit only. *)
(* LossyFifo may lose its oldest element, or all, at any other time too:   *)
(* anybody may call pop and resetQueue.                                    *)
ImplementsFifo == Fifo!Spec

(* Graceful stop: a consumer that is in waitAndPop when the queue is       *)
(* stopped returns, unless the queue is started again first.               *)
StopReleasesWaiters ==
  \A t \in Threads :
    pc[t] \in {"blocked", "woken"} /\ ~m_running ~> pc[t] = "idle" \/ m_running
=============================================================================
