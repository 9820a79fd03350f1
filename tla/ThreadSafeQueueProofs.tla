------------------------ MODULE ThreadSafeQueueProofs ------------------------
(***************************************************************************)
(* Proofs about ThreadSafeQueue, for any threads, capacity and number of   *)
(* calls.  TypeOK and FifoPerProducer are not inductive by themselves:     *)
(* FifoInv adds that an element about to be pushed is newer than all those *)
(* its thread pushed before.                                               *)
(***************************************************************************)
EXTENDS ThreadSafeQueue, TLAPS

Pushing(t) == pc[t] \in {"pushForce", "pushTry"}

(* The least number the next element of thread t may carry. *)
Limit(t) == IF Pushing(t) THEN calls[t] ELSE calls[t] + 1

-----------------------------------------------------------------------------
(* What a step may do to the queue and the history. *)
Kept == m_queue' = m_queue /\ delivered' = delivered
Dropped == m_queue # <<>> /\ m_queue' = Tail(m_queue) /\ delivered' = delivered
Emptied == m_queue' = <<>> /\ delivered' = delivered
Taken ==
  /\ m_queue # <<>>
  /\ m_queue' = Tail(m_queue)
  /\ delivered' = [delivered EXCEPT ![Head(m_queue).from] = Head(m_queue).seq]
PushedOnto(room, t) ==
  /\ Pushing(t)
  /\ ~Pushing(t)'
  /\ m_queue' = Append(room, [from |-> t, seq |-> calls[t]])
  /\ UNCHANGED <<delivered, calls>>
Pushed(t) ==
  \/ Len(m_queue) < MAX_SAFE_QUEUE /\ PushedOnto(m_queue, t)
  \/ m_queue # <<>> /\ Len(m_queue) >= MAX_SAFE_QUEUE /\ PushedOnto(Tail(m_queue), t)

QueueChange == Kept \/ Dropped \/ Emptied \/ Taken \/ \E t \in Threads : Pushed(t)

(* What a step may do to the callers: limits only grow. *)
CallersAdvance ==
  /\ pc' \in [Threads -> Location]
  /\ calls' \in [Threads -> Nat]
  /\ m_running' \in BOOLEAN
  /\ \A u \in Threads : Limit(u)' >= Limit(u)

(* A thread that notifies the others returns, and enters no push. *)
LEMMA NotifyAdvance ==
  ASSUME TypeOK, NEW t \in Threads, NotifyAllAndReturn(t),
         calls' = calls, m_running' \in BOOLEAN
  PROVE  CallersAdvance /\ ~Pushing(t)'
<1>1. pc' \in [Threads -> Location]
  BY DEF TypeOK, NotifyAllAndReturn, Location
<1>2. \A u \in Threads : Pushing(u)' => Pushing(u)
  BY DEF TypeOK, NotifyAllAndReturn, Pushing
<1>3. ~Pushing(t)'
  BY DEF TypeOK, NotifyAllAndReturn, Pushing
<1> QED BY <1>1, <1>2, <1>3 DEF CallersAdvance, Limit, TypeOK

(* So does one that merely moves on. *)
LEMMA GotoAdvance ==
  ASSUME TypeOK, NEW t \in Threads,
         NEW loc \in Location \ {"pushForce", "pushTry"}, Goto(t, loc),
         calls' = calls, m_running' \in BOOLEAN
  PROVE  CallersAdvance
<1>1. pc' \in [Threads -> Location]
  BY DEF TypeOK, Goto
<1>2. \A u \in Threads : Pushing(u)' => Pushing(u)
  BY DEF TypeOK, Goto, Pushing
<1> QED BY <1>1, <1>2 DEF CallersAdvance, Limit, TypeOK

(* Every step is of one of these forms. *)
LEMMA StepForms ==
  ASSUME TypeOK, [Next]_vars
  PROVE  QueueChange /\ CallersAdvance
<1> USE QueueAssumption
<1>1. ASSUME NEW t \in Threads, NEW bForce \in BOOLEAN, PushCheck(t, bForce)
      PROVE  QueueChange /\ CallersAdvance
  BY <1>1 DEF PushCheck, Goto, TypeOK, Location, QueueChange, Kept, CallersAdvance,
              Limit, Pushing
<1>2. ASSUME NEW t \in Threads, PushLocked(t)
      PROVE  QueueChange /\ CallersAdvance
  <2> m_running' \in BOOLEAN /\ calls' = calls /\ delivered' = delivered
    BY <1>2 DEF PushLocked, TypeOK
  <2>1. CASE Len(m_queue) >= MAX_SAFE_QUEUE /\ pc[t] = "pushTry"
    <3>1. Goto(t, "idle") /\ m_queue' = m_queue
      BY <1>2, <2>1 DEF PushLocked
    <3> QED BY <3>1, GotoAdvance DEF Location, QueueChange, Kept
  <2>2. CASE ~(Len(m_queue) >= MAX_SAFE_QUEUE /\ pc[t] = "pushTry")
    <3>1. NotifyAllAndReturn(t)
      BY <1>2, <2>2 DEF PushLocked
    <3>2. CallersAdvance /\ Pushing(t) /\ ~Pushing(t)'
      BY <1>2, <3>1, NotifyAdvance DEF PushLocked, Pushing
    <3>3. CASE Len(m_queue) >= MAX_SAFE_QUEUE
      <4>1. PushedOnto(Tail(m_queue), t)
        BY <1>2, <2>2, <3>2, <3>3 DEF PushLocked, PushedOnto
      <4>2. m_queue # <<>>
        BY <3>3
      <4> QED BY <3>2, <3>3, <4>1, <4>2 DEF QueueChange, Pushed
    <3>4. CASE ~(Len(m_queue) >= MAX_SAFE_QUEUE)
      <4>1. PushedOnto(m_queue, t)
        BY <1>2, <2>2, <3>2, <3>4 DEF PushLocked, PushedOnto
      <4>2. Len(m_queue) < MAX_SAFE_QUEUE
        BY <3>4 DEF TypeOK
      <4> QED BY <3>2, <4>1, <4>2 DEF QueueChange, Pushed
    <3> QED BY <3>3, <3>4
  <2> QED BY <2>1, <2>2
<1>3. ASSUME NEW t \in Threads, NEW method \in {"pop", "tryPop"}, PopCheck(t, method)
      PROVE  QueueChange /\ CallersAdvance
  BY <1>3, GotoAdvance DEF PopCheck, TypeOK, Location, QueueChange, Kept
<1>4. ASSUME NEW t \in Threads, PopLocked(t)
      PROVE  QueueChange /\ CallersAdvance
  BY <1>4, GotoAdvance DEF PopLocked, TypeOK, Location, QueueChange, Kept, Dropped
<1>5. ASSUME NEW t \in Threads, TryPopLocked(t)
      PROVE  QueueChange /\ CallersAdvance
  BY <1>5, GotoAdvance DEF TryPopLocked, Take, TypeOK, Location, QueueChange, Kept, Taken
<1>6. ASSUME NEW t \in Threads, WaitAndPop(t)
      PROVE  QueueChange /\ CallersAdvance
  <2>1. CASE m_running /\ m_queue # <<>>
    BY <1>6, <2>1, GotoAdvance DEF WaitAndPop, Take, TypeOK, Location, QueueChange, Taken
  <2>2. CASE ~(m_running /\ m_queue # <<>>)
    <3> DEFINE loc == IF m_running THEN "blocked" ELSE "idle"
    <3>1. Goto(t, loc) /\ Kept /\ calls' = calls /\ m_running' = m_running
      BY <1>6, <2>2 DEF WaitAndPop, Kept
    <3>2. loc \in Location \ {"pushForce", "pushTry"}
      BY DEF Location
    <3> HIDE DEF loc
    <3> QED BY <3>1, <3>2, GotoAdvance DEF QueueChange, TypeOK
  <2> QED BY <2>1, <2>2
<1>7. ASSUME NEW t \in Threads, SpuriousWakeup(t)
      PROVE  QueueChange /\ CallersAdvance
  BY <1>7, GotoAdvance DEF SpuriousWakeup, TypeOK, Location, QueueChange, Kept
<1>8. ASSUME NEW t \in Threads, resetQueue(t)
      PROVE  QueueChange /\ CallersAdvance
  BY <1>8, NotifyAdvance DEF resetQueue, TypeOK, QueueChange, Emptied
<1>9. ASSUME NEW t \in Threads, stop(t) \/ start(t)
      PROVE  QueueChange /\ CallersAdvance
  <2>1. NotifyAllAndReturn(t) /\ Kept /\ calls' = calls /\ m_running' \in BOOLEAN
    BY <1>9 DEF stop, start, Kept
  <2> QED BY <2>1, NotifyAdvance DEF QueueChange
<1>10. CASE UNCHANGED vars
  BY <1>10 DEF vars, TypeOK, QueueChange, Kept, CallersAdvance, Limit, Pushing
<1> QED
  BY <1>1, <1>2, <1>3, <1>4, <1>5, <1>6, <1>7, <1>8, <1>9, <1>10 DEF Next

-----------------------------------------------------------------------------
(* What the invariant says of the elements of a sequence q, when d is the  *)
(* history and lim the limits of the threads.                              *)
Ordered(q, d, lim) ==
  /\ \A i \in 1..Len(q) :
       d[q[i].from] < q[i].seq /\ q[i].seq < lim[q[i].from]
  /\ \A i, j \in 1..Len(q) :
       i < j /\ q[i].from = q[j].from => q[i].seq < q[j].seq

Limits == [u \in Threads |-> Limit(u)]

(* The element that push makes of a thread and a call number.              *)
LEMMA ElementFields ==
  ASSUME NEW q \in Seq(Element)
  PROVE  \A i \in 1..Len(q) :
           q[i] \in Element /\ q[i].from \in Threads /\ q[i].seq \in Nat
<1>1. \A i \in 1..Len(q) : q[i] \in Element
  OBVIOUS
<1> QED BY <1>1 DEF Element

(* Removing the front element keeps a queue ordered.                       *)
LEMMA OrderedTail ==
  ASSUME NEW q \in Seq(Element), q # <<>>, NEW d, NEW lim, Ordered(q, d, lim)
  PROVE  Tail(q) \in Seq(Element) /\ Ordered(Tail(q), d, lim)
<1>1. /\ Tail(q) \in Seq(Element)
      /\ Len(q) \in Nat
      /\ Len(Tail(q)) = Len(q) - 1
      /\ \A i \in 1..Len(Tail(q)) : i + 1 \in 1..Len(q) /\ Tail(q)[i] = q[i + 1]
  OBVIOUS
<1> QED BY <1>1 DEF Ordered

(* So does letting the threads go on to later calls.                       *)
LEMMA OrderedLimits ==
  ASSUME NEW q \in Seq(Element), NEW d,
         NEW lim \in [Threads -> Nat], NEW lim2 \in [Threads -> Nat],
         \A u \in Threads : lim2[u] >= lim[u],
         Ordered(q, d, lim)
  PROVE  Ordered(q, d, lim2)
<1>1. \A i \in 1..Len(q) : q[i].from \in Threads /\ q[i].seq \in Nat
  BY ElementFields
<1> QED BY <1>1 DEF Ordered

(* Handing out the front element keeps a queue ordered, and the element    *)
(* is newer than all its thread had delivered before.                      *)
LEMMA OrderedTaken ==
  ASSUME NEW q \in Seq(Element), q # <<>>, NEW d \in [Threads -> Nat], NEW lim,
         Ordered(q, d, lim)
  PROVE  /\ Head(q).from \in Threads
         /\ Head(q).seq \in Nat
         /\ Head(q).seq < lim[Head(q).from]
         /\ Ordered(Tail(q), [d EXCEPT ![Head(q).from] = Head(q).seq], lim)
<1>1. /\ Head(q) = q[1] /\ 1 \in 1..Len(q)
      /\ Len(q) \in Nat
      /\ Len(Tail(q)) = Len(q) - 1
      /\ \A i \in 1..Len(Tail(q)) :
           i + 1 \in 1..Len(q) /\ 1 < i + 1 /\ Tail(q)[i] = q[i + 1]
  OBVIOUS
<1>2. \A i \in 1..Len(q) : q[i].from \in Threads /\ q[i].seq \in Nat
  BY ElementFields
<1> QED BY <1>1, <1>2 DEF Ordered

(* A thread whose push is under way may append its newest element.         *)
LEMMA OrderedAppend ==
  ASSUME NEW q \in Seq(Element), NEW d \in [Threads -> Nat],
         NEW lim \in [Threads -> Nat], NEW lim2 \in [Threads -> Nat],
         NEW e \in Element,
         Ordered(q, d, lim),
         \A u \in Threads : lim2[u] >= lim[u],
         lim[e.from] = e.seq, lim2[e.from] > e.seq, d[e.from] < e.seq
  PROVE  Append(q, e) \in Seq(Element) /\ Ordered(Append(q, e), d, lim2)
<1>1. /\ Append(q, e) \in Seq(Element)
      /\ Len(q) \in Nat
      /\ Len(Append(q, e)) = Len(q) + 1
      /\ Append(q, e)[Len(q) + 1] = e
      /\ \A i \in 1..Len(q) : Append(q, e)[i] = q[i]
  OBVIOUS
<1>2. \A i \in 1..Len(q) : q[i].from \in Threads /\ q[i].seq \in Nat
  BY ElementFields
<1>3. e.from \in Threads /\ e.seq \in Nat
  BY DEF Element
<1> DEFINE r == Append(q, e)
<1>4. \A i \in 1..Len(r) : i \in 1..Len(q) \/ i = Len(q) + 1
  BY <1>1
<1>5. \A i \in 1..Len(r) : d[r[i].from] < r[i].seq /\ r[i].seq < lim2[r[i].from]
  BY <1>1, <1>2, <1>3, <1>4 DEF Ordered
<1>6. ASSUME NEW i \in 1..Len(r), NEW j \in 1..Len(r), i < j, r[i].from = r[j].from
      PROVE  r[i].seq < r[j].seq
  <2>1. i \in 1..Len(q) /\ r[i] = q[i]
    BY <1>1, <1>4, <1>6
  <2>2. CASE j = Len(q) + 1
    BY <1>1, <1>2, <1>3, <1>6, <2>1, <2>2 DEF Ordered
  <2>3. CASE j \in 1..Len(q)
    BY <1>1, <1>6, <2>1, <2>3 DEF Ordered
  <2> QED BY <1>4, <2>2, <2>3
<1> QED BY <1>1, <1>5, <1>6 DEF Ordered

(* The inductive invariant behind FifoPerProducer: every element a thread  *)
(* has pushed, queued or delivered, is older than the one it pushes next.  *)
FifoInv ==
  /\ TypeOK
  /\ Ordered(m_queue, delivered, Limits)
  /\ \A u \in Threads : delivered[u] < Limits[u]

(* FifoInv holds of a new queue.                                           *)
LEMMA FifoInit == Init => FifoInv
  BY DEF Init, FifoInv, TypeOK, Ordered, Limits, Limit, Pushing, Location

(* FifoInv is inductive: every step keeps the order, whatever it does to   *)
(* the queue.                                                              *)
LEMMA FifoStep ==
  ASSUME FifoInv, [Next]_vars
  PROVE  FifoInv'
<1> DEFINE lim == Limits
           lim2 == Limits'
<1>1. /\ m_queue \in Seq(Element)
      /\ delivered \in [Threads -> Nat]
      /\ TypeOK
      /\ Ordered(m_queue, delivered, lim)
      /\ \A u \in Threads : delivered[u] < lim[u]
  BY DEF FifoInv, TypeOK
<1>2. QueueChange /\ CallersAdvance
  BY <1>1, StepForms
<1>3. /\ lim \in [Threads -> Nat] /\ lim2 \in [Threads -> Nat]
      /\ \A u \in Threads : lim2[u] >= lim[u]
  BY <1>1, <1>2 DEF CallersAdvance, TypeOK, Limits, Limit
<1> HIDE DEF lim, lim2
<1>4. SUFFICES /\ m_queue' \in Seq(Element)
               /\ delivered' \in [Threads -> Nat]
               /\ Ordered(m_queue', delivered', lim2)
               /\ \A u \in Threads : delivered'[u] < lim2[u]
  BY <1>2 DEF FifoInv, TypeOK, CallersAdvance, lim2, Ordered
<1>5. \A u \in Threads : delivered[u] < lim2[u]
  BY <1>1, <1>3
<1>6. Ordered(m_queue, delivered, lim2)
  BY <1>1, <1>3, OrderedLimits
<1>7. CASE Kept
  BY <1>1, <1>5, <1>6, <1>7 DEF Kept
<1>8. CASE Emptied
  <2>1. <<>> \in Seq(Element) /\ Ordered(<<>>, delivered, lim2)
    BY DEF Ordered
  <2> QED BY <1>1, <1>5, <1>8, <2>1 DEF Emptied
<1>9. CASE Dropped
  BY <1>1, <1>5, <1>6, <1>9, OrderedTail DEF Dropped
<1>10. CASE Taken
  <2>1. /\ Head(m_queue).from \in Threads
        /\ Head(m_queue).seq \in Nat
        /\ Head(m_queue).seq < lim2[Head(m_queue).from]
        /\ Ordered(Tail(m_queue), delivered', lim2)
    BY <1>1, <1>6, <1>10, OrderedTaken DEF Taken
  <2>2. Tail(m_queue) \in Seq(Element)
    BY <1>1, <1>10 DEF Taken
  <2> QED BY <1>1, <1>5, <1>10, <2>1, <2>2 DEF Taken
<1>11. ASSUME NEW t \in Threads, Pushed(t)
       PROVE  /\ m_queue' \in Seq(Element)
              /\ delivered' \in [Threads -> Nat]
              /\ Ordered(m_queue', delivered', lim2)
              /\ \A u \in Threads : delivered'[u] < lim2[u]
  <2> DEFINE new == [from |-> t, seq |-> calls[t]]
  <2>1. PICK room \in {m_queue, Tail(m_queue)} :
          PushedOnto(room, t) /\ (room = m_queue \/ m_queue # <<>>)
    BY <1>11 DEF Pushed
  <2>2. room \in Seq(Element) /\ Ordered(room, delivered, lim)
    BY <1>1, <2>1, OrderedTail
  <2>3. lim[t] = calls[t] /\ lim2[t] = calls[t] + 1 /\ calls[t] \in Nat \ {0}
    <3>1. lim[t] = calls[t] /\ lim2[t] = calls[t] + 1
      BY <2>1 DEF PushedOnto, lim, lim2, Limits, Limit
    <3>2. calls[t] \in Nat /\ delivered[t] \in Nat /\ delivered[t] < lim[t]
      BY <1>1 DEF TypeOK
    <3> QED BY <3>1, <3>2
  <2>4. new \in Element /\ new.from = t /\ new.seq = calls[t]
    BY <2>3 DEF Element
  <2>5. m_queue' = Append(room, new) /\ delivered' = delivered
    BY <2>1 DEF PushedOnto
  <2> HIDE DEF new
  <2>6. m_queue' \in Seq(Element) /\ Ordered(m_queue', delivered, lim2)
    <3>1. /\ lim[new.from] = new.seq
          /\ lim2[new.from] > new.seq
          /\ delivered[new.from] < new.seq
      BY <1>1, <2>3, <2>4
    <3>2. Append(room, new) \in Seq(Element) /\ Ordered(Append(room, new), delivered, lim2)
      BY <1>1, <1>3, <2>2, <2>4, <3>1, OrderedAppend
    <3> QED BY <2>5, <3>2
  <2> QED BY <1>1, <1>5, <2>5, <2>6
<1> QED BY <1>2, <1>7, <1>8, <1>9, <1>10, <1>11 DEF QueueChange

(* The queue and the callers keep their types; in particular push never    *)
(* runs into a state from which its second part could not continue.        *)
THEOREM TypeCorrect == Spec => []TypeOK
<1>1. FifoInv => TypeOK
  BY DEF FifoInv
<1> QED BY <1>1, FifoInit, FifoStep, PTL DEF Spec

(* Elements of one producer reach the consumers at most once and in the    *)
(* order pushed, for any number of threads and calls, any capacity, and    *)
(* whatever tryPop, pop, resetQueue, stop and start do meanwhile.          *)
THEOREM FifoCorrect == Spec => []FifoPerProducer
<1>1. FifoInv => FifoPerProducer
  BY DEF FifoInv, Ordered, FifoPerProducer
<1> QED BY <1>1, FifoInit, FifoStep, PTL DEF Spec

(* MAX_SAFE_QUEUE is respected by any number of racing producers. *)
THEOREM CapacityCorrect == Spec => []CapacityRespected
<1> USE QueueAssumption
<1>1. Init => CapacityRespected
  BY DEF Init, CapacityRespected
<1>2. ASSUME TypeOK, CapacityRespected, [Next]_vars
      PROVE  CapacityRespected'
  <2>1. /\ Len(m_queue) \in Nat /\ Len(m_queue) <= MAX_SAFE_QUEUE
        /\ m_queue # <<>> => /\ Tail(m_queue) \in Seq(Element)
                             /\ Len(Tail(m_queue)) = Len(m_queue) - 1
    BY <1>2 DEF TypeOK, CapacityRespected
  <2>2. QueueChange
    BY <1>2, StepForms
  <2>3. CASE Kept \/ Dropped \/ Emptied \/ Taken
    BY <2>1, <2>3 DEF Kept, Dropped, Emptied, Taken, CapacityRespected
  <2>4. ASSUME NEW t \in Threads, Pushed(t)
        PROVE  CapacityRespected'
    <3>1. CASE Len(m_queue) < MAX_SAFE_QUEUE /\ PushedOnto(m_queue, t)
      <4>1. Len(m_queue') = Len(m_queue) + 1
        BY <1>2, <3>1 DEF PushedOnto, TypeOK
      <4> QED BY <2>1, <3>1, <4>1 DEF CapacityRespected
    <3>2. CASE m_queue # <<>> /\ PushedOnto(Tail(m_queue), t)
      <4>1. Len(m_queue') = Len(Tail(m_queue)) + 1
        BY <2>1, <3>2 DEF PushedOnto
      <4> QED BY <2>1, <3>2, <4>1 DEF CapacityRespected
    <3> QED BY <2>4, <3>1, <3>2 DEF Pushed
  <2> QED BY <2>2, <2>3, <2>4 DEF QueueChange
<1> QED BY <1>1, <1>2, TypeCorrect, PTL DEF Spec

(* No thread sleeps through a push, a stop or a start, for any number of   *)
(* threads: a sleeper always sees a running, empty queue.                  *)
THEOREM WakeupCorrect == Spec => []NoLostWakeup
<1>1. Init => NoLostWakeup
  BY DEF Init, NoLostWakeup
<1>2. ASSUME TypeOK, NoLostWakeup, [Next]_vars
      PROVE  NoLostWakeup'
  <2>1. ASSUME NEW t \in Threads, NotifyAllAndReturn(t)
        PROVE  NoLostWakeup'
    BY <1>2, <2>1 DEF NotifyAllAndReturn, NoLostWakeup, TypeOK
  <2>2. ASSUME NEW t \in Threads, NEW loc \in Location \ {"blocked"}, Goto(t, loc),
               m_running' = m_running, m_queue = <<>> => m_queue' = <<>>
        PROVE  NoLostWakeup'
    BY <1>2, <2>2 DEF Goto, NoLostWakeup, TypeOK
  <2> USE DEF Location
  <2>3. ASSUME NEW t \in Threads, NEW bForce \in BOOLEAN, PushCheck(t, bForce)
        PROVE  NoLostWakeup'
    <3> DEFINE loc == IF ~m_running THEN "idle"
                      ELSE IF bForce THEN "pushForce" ELSE "pushTry"
    <3>1. Goto(t, loc) /\ UNCHANGED <<m_running, m_queue>>
      BY <2>3 DEF PushCheck
    <3>2. loc \in Location \ {"blocked"}
      OBVIOUS
    <3> HIDE DEF loc
    <3> QED BY <2>2, <3>1, <3>2
  <2>4. ASSUME NEW t \in Threads, PushLocked(t) PROVE NoLostWakeup'
    BY <2>1, <2>2, <2>4 DEF PushLocked
  <2>5. ASSUME NEW t \in Threads, NEW method \in {"pop", "tryPop"}, PopCheck(t, method)
        PROVE  NoLostWakeup'
    BY <2>2, <2>5 DEF PopCheck
  <2>6. ASSUME NEW t \in Threads, PopLocked(t) PROVE NoLostWakeup'
    BY <2>2, <2>6 DEF PopLocked
  <2>7. ASSUME NEW t \in Threads, TryPopLocked(t) PROVE NoLostWakeup'
    BY <2>2, <2>7 DEF TryPopLocked, Take
  <2>8. ASSUME NEW t \in Threads, WaitAndPop(t) PROVE NoLostWakeup'
    <3>1. CASE m_running /\ m_queue # <<>>
      BY <2>2, <2>8, <3>1 DEF WaitAndPop, Take
    <3>2. CASE m_running /\ m_queue = <<>>
      BY <1>2, <2>8, <3>2 DEF WaitAndPop, Goto, NoLostWakeup, TypeOK
    <3>3. CASE ~m_running
      BY <2>2, <2>8, <3>3 DEF WaitAndPop
    <3> QED BY <3>1, <3>2, <3>3
  <2>9. ASSUME NEW t \in Threads, SpuriousWakeup(t) PROVE NoLostWakeup'
    BY <2>2, <2>9 DEF SpuriousWakeup
  <2>10. ASSUME NEW t \in Threads, resetQueue(t) \/ stop(t) \/ start(t)
         PROVE  NoLostWakeup'
    BY <2>1, <2>10 DEF resetQueue, stop, start
  <2>11. CASE UNCHANGED vars
    BY <1>2, <2>11 DEF vars, NoLostWakeup
  <2> QED
    BY <1>2, <2>3, <2>4, <2>5, <2>6, <2>7, <2>8, <2>9, <2>10, <2>11 DEF Next
<1> QED BY <1>1, <1>2, TypeCorrect, PTL DEF Spec

-----------------------------------------------------------------------------
(* The bound MaxCalls on the calls of a thread, which the model puts on    *)
(* push, is kept: the numbers of the elements are those LossyFifo knows.   *)
CallsBounded == \A t \in Threads : calls[t] <= MaxCalls

(* Only the first part of push counts a call, below the bound.             *)
LEMMA CallsStep ==
  ASSUME TypeOK, CallsBounded, [Next]_vars
  PROVE  CallsBounded'
<1> USE QueueAssumption
<1>1. ASSUME NEW t \in Threads, NEW bForce \in BOOLEAN, PushCheck(t, bForce)
      PROVE  CallsBounded'
  <2>1. calls \in [Threads -> Nat] /\ calls[t] < MaxCalls
        /\ calls' = [calls EXCEPT ![t] = @ + 1]
    BY <1>1 DEF PushCheck, TypeOK
  <2> QED BY <2>1, CallsBounded DEF CallsBounded
<1>2. CASE calls' = calls
  BY <1>2 DEF CallsBounded
<1> QED
  BY <1>1, <1>2 DEF Next, vars, PushLocked, PopCheck, PopLocked, TryPopLocked, WaitAndPop,
                    Take, SpuriousWakeup, resetQueue, stop, start

(* A push under way is a Put of LossyFifo: its element is newer than all   *)
(* its thread has put in before, because FifoInv holds.                    *)
LEMMA PushedIsPut ==
  ASSUME FifoInv, CallsBounded, NEW t \in Threads, Pushed(t)
  PROVE  calls[t] \in 1..MaxCalls /\ Fifo!Put(t, calls[t])
<1> USE QueueAssumption
<1>1. /\ m_queue \in Seq(Element)
      /\ delivered[t] \in Nat /\ calls[t] \in Nat /\ calls[t] <= MaxCalls
      /\ Ordered(m_queue, delivered, Limits)
      /\ delivered[t] < Limits[t]
  BY DEF FifoInv, TypeOK, CallsBounded
<1>2. Limits[t] = calls[t]
  BY DEF Pushed, PushedOnto, Limits, Limit
<1>3. calls[t] \in 1..MaxCalls
  BY <1>1, <1>2
<1>4. Fifo!Newer(t, calls[t])
  BY <1>1, <1>2 DEF Fifo!Newer, Ordered
<1>5. Len(m_queue) \in Nat
  BY <1>1
<1>6. CASE Len(m_queue) < MAX_SAFE_QUEUE /\ PushedOnto(m_queue, t)
  <2>1. ~(Len(m_queue) >= MAX_SAFE_QUEUE)
    BY <1>5, <1>6
  <2> QED BY <1>3, <1>4, <1>6, <2>1 DEF Fifo!Put, PushedOnto
<1>7. CASE Len(m_queue) >= MAX_SAFE_QUEUE /\ PushedOnto(Tail(m_queue), t)
  BY <1>3, <1>4, <1>7 DEF Fifo!Put, PushedOnto
<1> QED BY <1>6, <1>7 DEF Pushed

(* ThreadSafeQueue implements LossyFifo, for any number of threads and     *)
(* calls and any capacity: although push, pop and tryPop test m_running    *)
(* before they lock, each call takes effect at once, or not at all.        *)
THEOREM FifoImplemented == Spec => ImplementsFifo
<1>1. Init => CallsBounded /\ Fifo!Init
  BY QueueAssumption DEF Init, CallsBounded, Fifo!Init
<1>2. ASSUME FifoInv, CallsBounded, [Next]_vars
      PROVE  [Fifo!Next]_<<m_queue, delivered>>
  <2>1. QueueChange
    BY <1>2, StepForms DEF FifoInv
  <2>2. CASE Kept
    BY <2>2 DEF Kept
  <2>3. CASE Dropped
    BY <2>3 DEF Dropped, Fifo!Next, Fifo!Drop
  <2>4. CASE Emptied
    BY <2>4 DEF Emptied, Fifo!Next, Fifo!Clear
  <2>5. CASE Taken
    BY <2>5 DEF Taken, Fifo!Next, Fifo!Get
  <2>6. ASSUME NEW t \in Threads, Pushed(t)
        PROVE  Fifo!Next
    BY <1>2, <2>6, PushedIsPut DEF Fifo!Next
  <2> QED BY <2>1, <2>2, <2>3, <2>4, <2>5, <2>6 DEF QueueChange
<1>3. ASSUME FifoInv, CallsBounded, [Next]_vars
      PROVE  FifoInv' /\ CallsBounded'
  BY <1>3, FifoStep, CallsStep DEF FifoInv
<1> QED BY <1>1, <1>2, <1>3, FifoInit, PTL DEF Spec, ImplementsFifo, Fifo!Spec
=============================================================================
