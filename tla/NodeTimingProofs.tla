---------------------------- MODULE NodeTimingProofs ----------------------------
(***************************************************************************)
(* Proofs about NodeTiming, for any number of nodes, any lengths of        *)
(* windows, sleeps and round trips, and any number of pongs queued: each   *)
(* waits no longer than one sleep for each pong before it and one for      *)
(* itself, and a punctual client loses a window only to a queue so long    *)
(* that these sleeps use the window up.                                    *)
(***************************************************************************)
EXTENDS NodeTiming, TLAPS

Pong == [from : Node, ahead : Nat, age : Nat]

(* What the clock says about the threads.                                  *)
ClockOf(n) ==
  /\ phase[n] = "absent" => where[n] = "absent"
  /\ where[n] = "sleep" => elapsed[n] <= TIMESEND_PING
  /\ where[n] = "window" => elapsed[n] <= TIMEOUT_PERIODS
ClockOK == \A n \in Node : ClockOf(n)

(* Pong i answers the ping of the window n is in, or came in that window   *)
(* at least, not later than RoundTrip after it began.                      *)
Answer(n, i) ==
  /\ g_receivedIOQueue[i].from = n
  /\ g_receivedIOQueue[i].age <= elapsed[n]
  /\ elapsed[n] <= RoundTrip + g_receivedIOQueue[i].age

(* In the window of a punctual client the ping is being answered, or an    *)
(* answer is queued, or one has been delivered.                            *)
PunctualOf(n) ==
  /\ n \in answering => where[n] = "window" /\ elapsed[n] <= RoundTrip
  /\ where[n] = "window" =>
       \/ m_pongState[n]
       \/ n \in answering
       \/ \E i \in 1..Len(g_receivedIOQueue) : Answer(n, i)
PunctualOK == \A n \in Punctual : PunctualOf(n)

Sleeps(c) == c * TIMESEND_PING

(* The ticks that n has slept of the last sleep that the pong of n at the  *)
(* head of the queue can have to wait for: none if it may still fall       *)
(* asleep, all if it will not.                                             *)
Slept(n) ==
  IF where[n] = "window" /\ m_pongState[n] THEN 0
  ELSE IF where[n] = "sleep" THEN elapsed[n] ELSE TIMESEND_PING

Spent ==
  IF g_receivedIOQueue = <<>> THEN 0 ELSE Slept(g_receivedIOQueue[1].from)

(* What a pong has waited, and may yet wait for the pongs before it and    *)
(* for itself, is one sleep for each that was queued when it came, and one *)
(* for itself.                                                             *)
BudgetOK ==
  \A i \in 1..Len(g_receivedIOQueue) :
    g_receivedIOQueue[i].age + Sleeps(i)
      <= Sleeps(g_receivedIOQueue[i].ahead + 1) + Spent

(* If the pong at the head came in the window its node is in, it waits no  *)
(* more: that node slept before the window.                                *)
HeadOK ==
  g_receivedIOQueue # <<>> =>
    LET head == g_receivedIOQueue[1] IN
    where[head.from] = "window" /\ head.age <= elapsed[head.from]
      => head.age <= Sleeps(head.ahead)

TimingInv == TypeOK /\ ClockOK /\ PunctualOK /\ BudgetOK /\ HeadOK

-----------------------------------------------------------------------------
(* Each pong costs one sleep more.                                         *)
LEMMA SleepsAdd ==
  /\ \A c \in Nat : Sleeps(c) \in Nat /\ Sleeps(c + 1) = Sleeps(c) + TIMESEND_PING
  /\ \A c, d \in Nat : c <= d => Sleeps(c) <= Sleeps(d)
<1> USE TimingAssumption DEF Sleeps
<1>1. \A c \in Nat : Sleeps(c) \in Nat /\ Sleeps(c + 1) = Sleeps(c) + TIMESEND_PING
  OBVIOUS
<1>2. ASSUME NEW c \in Nat, NEW d \in Nat, c <= d
      PROVE  Sleeps(c) <= Sleeps(d)
  <2>1. d - c \in Nat /\ Sleeps(d) = Sleeps(c) + (d - c) * TIMESEND_PING
    BY <1>2
  <2>2. (d - c) * TIMESEND_PING \in Nat
    BY <2>1
  <2> QED BY <1>1, <2>1, <2>2
<1> QED BY <1>1, <1>2

(* What can have been slept is at most one sleep. *)
LEMMA SpentBounds ==
  TypeOK /\ ClockOK => /\ \A n \in Node : Slept(n) \in 0..TIMESEND_PING
                       /\ Spent \in 0..TIMESEND_PING
<1> SUFFICES ASSUME TypeOK, ClockOK
             PROVE  /\ \A n \in Node : Slept(n) \in 0..TIMESEND_PING
                    /\ Spent \in 0..TIMESEND_PING
  OBVIOUS
<1>1. ASSUME NEW n \in Node
      PROVE  Slept(n) \in 0..TIMESEND_PING
  BY <1>1, TimingAssumption DEF TypeOK, ClockOK, ClockOf, Slept
<1>2. CASE g_receivedIOQueue = <<>>
  BY <1>1, <1>2, TimingAssumption DEF Spent
<1>3. CASE g_receivedIOQueue # <<>>
  <2>1. g_receivedIOQueue[1] \in Pong
    <3>1. g_receivedIOQueue \in Seq(Pong)
      BY DEF TypeOK, Pong
    <3> QED BY <1>3, <3>1
  <2> QED BY <1>1, <1>3, <2>1 DEF Spent, Pong
<1> QED BY <1>1, <1>2, <1>3

(* The queue, as far as its type goes. *)
LEMMA QueueFacts ==
  ASSUME TypeOK
  PROVE  /\ g_receivedIOQueue \in Seq(Pong) /\ Len(g_receivedIOQueue) \in Nat
         /\ \A i \in 1..Len(g_receivedIOQueue) :
              /\ g_receivedIOQueue[i] \in Pong /\ g_receivedIOQueue[i].from \in Node
              /\ g_receivedIOQueue[i].age \in Nat /\ g_receivedIOQueue[i].ahead \in Nat
<1>1. g_receivedIOQueue \in Seq(Pong) /\ Len(g_receivedIOQueue) \in Nat
  BY DEF TypeOK, Pong
<1>2. \A i \in 1..Len(g_receivedIOQueue) : g_receivedIOQueue[i] \in Pong
  BY <1>1
<1> QED BY <1>1, <1>2 DEF Pong

(* Pongs from the second place on have waited no longer than the sleeps of *)
(* the pongs before them, and the first not longer than its own as well.   *)
LEMMA AgeBounded ==
  ASSUME TimingInv, NEW i \in 1..Len(g_receivedIOQueue)
  PROVE  LET pong == g_receivedIOQueue[i] IN
         /\ pong.age <= Sleeps(pong.ahead + 1)
         /\ i # 1 => pong.age <= Sleeps(pong.ahead)
<1> DEFINE a == g_receivedIOQueue[i].age
           d == g_receivedIOQueue[i].ahead
<1>1. /\ i \in Nat /\ i >= 1 /\ a \in Nat /\ d \in Nat
      /\ Spent \in 0..TIMESEND_PING /\ a + Sleeps(i) <= Sleeps(d + 1) + Spent
  BY QueueFacts, SpentBounds DEF TimingInv, BudgetOK
<1> HIDE DEF a, d
<1>2. /\ Sleeps(d) \in Nat /\ Sleeps(d + 1) = Sleeps(d) + TIMESEND_PING
      /\ Sleeps(i) \in Nat /\ TIMESEND_PING \in Nat
  BY <1>1, SleepsAdd, TimingAssumption
<1>3. Sleeps(1) = TIMESEND_PING /\ Sleeps(2) = 2 * TIMESEND_PING
  BY TimingAssumption DEF Sleeps
<1>4. Sleeps(i) >= TIMESEND_PING
  BY <1>1, <1>3, SleepsAdd
<1>5. i # 1 => Sleeps(i) >= 2 * TIMESEND_PING
  <2>1. i # 1 => 2 <= i
    BY <1>1
  <2> QED BY <1>1, <1>3, <2>1, SleepsAdd
<1>6. a <= Sleeps(d + 1) /\ (i # 1 => a <= Sleeps(d))
  BY <1>1, <1>2, <1>4, <1>5
<1> QED BY <1>6 DEF a, d

(* A step of one node that leaves the queue alone. *)
LEMMA OneNode ==
  ASSUME TimingInv, TypeOK', UNCHANGED g_receivedIOQueue,
         NEW n \in Node, ClockOf(n)', n \in Punctual => PunctualOf(n)',
         Slept(n) <= Slept(n)',
         where'[n] = "window" => elapsed'[n] = 0,
         \A m \in Node \ {n} :
           /\ phase'[m] = phase[m] /\ where'[m] = where[m] /\ elapsed'[m] = elapsed[m]
           /\ m_pongState'[m] = m_pongState[m] /\ (m \in answering' <=> m \in answering)
  PROVE  TimingInv'
<1> USE TimingAssumption DEF TimingInv
<1> DEFINE q == g_receivedIOQueue
<1>1. ClockOK'
  BY DEF ClockOK, ClockOf
<1>2. PunctualOK'
  <2> SUFFICES ASSUME NEW m \in Punctual, m # n
               PROVE  PunctualOf(m)'
    BY DEF PunctualOK
  <2>1. PunctualOf(m) /\ m \in Node
    BY DEF PunctualOK
  <2> QED BY <2>1 DEF PunctualOf, Answer
<1>3. /\ Spent \in 0..TIMESEND_PING /\ Spent' \in 0..TIMESEND_PING
      /\ \A m \in Node : Slept(m) \in 0..TIMESEND_PING
  <2>1. (TypeOK /\ ClockOK)' => (Spent \in 0..TIMESEND_PING)'
    BY SpentBounds, PTL
  <2> QED BY <1>1, <2>1, SpentBounds
<1>4. q # <<>> => 1 \in 1..Len(q) /\ q[1].from \in Node
  BY QueueFacts
<1>5. Spent <= Spent'
  <2>1. CASE q = <<>>
    BY <2>1 DEF Spent
  <2>2. CASE q # <<>>
    <3>1. Slept(q[1].from) <= Slept(q[1].from)'
      <4>1. \A m \in Node \ {n} : Slept(m)' = Slept(m)
        BY DEF Slept
      <4> QED BY <1>3, <1>4, <2>2, <4>1
    <3> QED BY <2>2, <3>1 DEF Spent
  <2> QED BY <2>1, <2>2
<1>6. BudgetOK'
  <2> SUFFICES ASSUME NEW i \in 1..Len(q)
               PROVE  q[i].age + Sleeps(i) <= Sleeps(q[i].ahead + 1) + Spent'
    BY DEF BudgetOK
  <2> DEFINE a == q[i].age
             d == q[i].ahead + 1
  <2>1. i \in Nat /\ a \in Nat /\ d \in Nat
    BY QueueFacts
  <2>2. a + Sleeps(i) <= Sleeps(d) + Spent
    BY DEF BudgetOK
  <2> HIDE DEF a, d
  <2>3. Sleeps(i) \in Nat /\ Sleeps(d) \in Nat
    BY <2>1, SleepsAdd
  <2>4. a + Sleeps(i) <= Sleeps(d) + Spent'
    BY <1>3, <1>5, <2>1, <2>2, <2>3
  <2> QED BY <2>4 DEF a, d
<1>7. HeadOK'
  <2> SUFFICES ASSUME q # <<>>, where'[q[1].from] = "window",
                      q[1].age <= elapsed'[q[1].from]
               PROVE  q[1].age <= Sleeps(q[1].ahead)
    BY DEF HeadOK
  <2>1. CASE q[1].from = n
    <3>1. q[1].age \in Nat /\ q[1].age <= 0 /\ Sleeps(q[1].ahead) \in Nat
      BY <1>4, <2>1, QueueFacts, SleepsAdd
    <3> QED BY <3>1
  <2>2. CASE q[1].from # n
    BY <1>4, <2>2 DEF HeadOK
  <2> QED BY <2>1, <2>2
<1> QED BY <1>1, <1>2, <1>6, <1>7

(* The steps of a node's thread, and its registration. *)
LEMMA ThreadKeeps ==
  ASSUME TimingInv, NEW n \in Node, Register(n) \/ handleThread(n)
  PROVE  TimingInv'
<1> USE TimingAssumption DEF TimingInv
<1>1. UNCHANGED g_receivedIOQueue
  BY DEF Register, handleThread, BeginPing, PongReceived, PongTimeout, WakeUp, GiveUp,
         clientVars
<1>2. /\ ClockOf(n) /\ (n \in Punctual => PunctualOf(n))
      /\ Slept(n) \in 0..TIMESEND_PING
  BY SpentBounds DEF ClockOK, PunctualOK
<1>3. n \in answering => n \in Punctual /\ where[n] = "window"
  BY DEF TypeOK, PunctualOK, PunctualOf
<1>4. /\ n \in DOMAIN phase /\ n \in DOMAIN silent /\ n \in DOMAIN where
      /\ n \in DOMAIN elapsed /\ n \in DOMAIN m_pongState
      /\ DOMAIN phase = Node /\ DOMAIN silent = Node /\ DOMAIN where = Node
      /\ DOMAIN elapsed = Node /\ DOMAIN m_pongState = Node
      /\ m_pongState[n] \in BOOLEAN
  BY DEF TypeOK
<1>5. CASE Register(n)
  <2>1. /\ phase[n] = "absent" /\ phase' = [phase EXCEPT ![n] = "new"]
        /\ where' = [where EXCEPT ![n] = "begin"] /\ elapsed' = [elapsed EXCEPT ![n] = 0]
        /\ UNCHANGED <<silent, m_pongState, answering>>
    BY <1>5 DEF Register, Life!Register, Goto, clientVars
  <2>2. TypeOK'
    BY <1>1, <2>1 DEF TypeOK
  <2>3. ClockOf(n)' /\ where'[n] = "begin" /\ where[n] = "absent"
    BY <1>2, <1>4, <2>1 DEF ClockOf
  <2>4. n \in Punctual => PunctualOf(n)'
    BY <1>3, <2>1, <2>3 DEF PunctualOf
  <2>5. Slept(n) <= Slept(n)'
    BY <1>2, <2>3 DEF Slept
  <2> QED BY <1>1, <1>4, <2>1, <2>2, <2>3, <2>4, <2>5, OneNode
<1>6. CASE BeginPing(n)
  <2>1. /\ where[n] = "begin" /\ m_pongState' = [m_pongState EXCEPT ![n] = FALSE]
        /\ answering' = answering \cup ({n} \cap Punctual)
        /\ where' = [where EXCEPT ![n] = "window"] /\ elapsed' = [elapsed EXCEPT ![n] = 0]
        /\ UNCHANGED <<phase, silent>>
    BY <1>6 DEF BeginPing, Goto
  <2>2. TypeOK'
    BY <1>1, <2>1 DEF TypeOK
  <2>3. /\ ClockOf(n)' /\ where'[n] = "window" /\ elapsed'[n] = 0 /\ ~m_pongState'[n]
    BY <1>2, <1>4, <2>1 DEF ClockOf
  <2>4. n \in Punctual => PunctualOf(n)'
    BY <2>1, <2>3 DEF PunctualOf
  <2>5. Slept(n) <= Slept(n)'
    BY <1>2, <2>3 DEF Slept
  <2> QED BY <1>1, <1>4, <2>1, <2>2, <2>3, <2>4, <2>5, OneNode
<1>7. CASE PongReceived(n)
  <2>1. /\ where[n] = "window" /\ m_pongState[n]
        /\ phase' = [phase EXCEPT ![n] = "alive"] /\ silent' = [silent EXCEPT ![n] = 0]
        /\ where' = [where EXCEPT ![n] = AfterPong(n)] /\ elapsed' = [elapsed EXCEPT ![n] = 0]
        /\ answering' = answering \ {n} /\ UNCHANGED m_pongState
    BY <1>7 DEF PongReceived, Life!AnsweredWindow, Goto
  <2>2. AfterPong(n) \in {"begin", "sleep"}
    BY DEF AfterPong
  <2>3. TypeOK'
    BY <1>1, <2>1, <2>2 DEF TypeOK
  <2>4. /\ ClockOf(n)' /\ where'[n] \in {"begin", "sleep"} /\ elapsed'[n] = 0
    BY <1>2, <1>4, <2>1, <2>2 DEF ClockOf
  <2>5. n \in Punctual => PunctualOf(n)'
    BY <2>1, <2>4 DEF PunctualOf
  <2>6. Slept(n) <= Slept(n)'
    <3>1. Slept(n) = 0
      BY <2>1 DEF Slept
    <3> QED BY <3>1, <2>4 DEF Slept
  <2> QED BY <1>1, <1>4, <2>1, <2>3, <2>4, <2>5, <2>6, OneNode
<1>8. CASE PongTimeout(n)
  <2>1. /\ where[n] = "window" /\ ~m_pongState[n] /\ elapsed[n] >= TIMEOUT_PERIODS
        /\ silent[n] <= RETRY_NUM /\ phase' = [phase EXCEPT ![n] = "suspect"]
        /\ silent' = [silent EXCEPT ![n] = @ + 1]
        /\ where' = [where EXCEPT ![n] = "begin"] /\ elapsed' = [elapsed EXCEPT ![n] = 0]
        /\ UNCHANGED <<m_pongState, answering>>
    BY <1>8 DEF PongTimeout, Expired, Life!SilentWindow, Goto, clientVars
  <2>2. TypeOK'
    BY <1>1, <2>1 DEF TypeOK
  <2>3. ClockOf(n)' /\ where'[n] = "begin"
    BY <1>4, <2>1 DEF ClockOf
  <2>4. n \notin answering
    <3>1. elapsed[n] \in Nat
      <4>1. elapsed[n] \in 0..TIMEOUT_PERIODS \cup 0..TIMESEND_PING
        BY DEF TypeOK
      <4> QED BY <4>1
    <3> QED BY <1>2, <1>3, <2>1, <3>1 DEF PunctualOf
  <2>5. n \in Punctual => PunctualOf(n)'
    BY <2>1, <2>3, <2>4 DEF PunctualOf
  <2>6. Slept(n) <= Slept(n)'
    BY <1>2, <2>1, <2>3 DEF Slept
  <2> QED BY <1>1, <1>4, <2>1, <2>2, <2>3, <2>5, <2>6, OneNode
<1>9. CASE WakeUp(n)
  <2>1. /\ where[n] = "sleep"
        /\ where' = [where EXCEPT ![n] = "begin"] /\ elapsed' = [elapsed EXCEPT ![n] = 0]
        /\ UNCHANGED <<phase, silent, m_pongState, answering>>
    BY <1>9 DEF WakeUp, Goto, clientVars
  <2>2. TypeOK'
    BY <1>1, <2>1 DEF TypeOK
  <2>3. ClockOf(n)' /\ where'[n] = "begin"
    BY <1>2, <1>4, <2>1 DEF ClockOf
  <2>4. n \in Punctual => PunctualOf(n)'
    BY <1>3, <2>1, <2>3 DEF PunctualOf
  <2>5. Slept(n) <= Slept(n)'
    BY <1>2, <2>3 DEF Slept
  <2> QED BY <1>1, <1>4, <2>1, <2>2, <2>3, <2>4, <2>5, OneNode
<1>10. CASE GiveUp(n)
  <2>1. /\ where[n] = "begin" /\ phase[n] = "suspect"
        /\ phase' = [phase EXCEPT ![n] = "dead"]
        /\ where' = [where EXCEPT ![n] = "ended"] /\ elapsed' = [elapsed EXCEPT ![n] = 0]
        /\ UNCHANGED <<silent, m_pongState, answering>>
    BY <1>10 DEF GiveUp, Life!GiveUp, Goto, clientVars
  <2>2. TypeOK'
    BY <1>1, <2>1 DEF TypeOK
  <2>3. ClockOf(n)' /\ where'[n] = "ended"
    BY <1>4, <2>1 DEF ClockOf
  <2>4. n \in Punctual => PunctualOf(n)'
    BY <1>3, <2>1, <2>3 DEF PunctualOf
  <2>5. Slept(n) <= Slept(n)'
    BY <1>2, <2>1, <2>3 DEF Slept
  <2> QED BY <1>1, <1>4, <2>1, <2>2, <2>3, <2>4, <2>5, OneNode
<1> QED BY <1>5, <1>6, <1>7, <1>8, <1>9, <1>10 DEF handleThread

-----------------------------------------------------------------------------
(* A pong joins the queue: it has not waited yet.                          *)
LEMMA QueueKeeps ==
  ASSUME TimingInv, NEW n \in Node, PunctualPong(n) \/ LatePong(n)
  PROVE  TimingInv'
<1> USE TimingAssumption DEF TimingInv
<1> DEFINE q == g_receivedIOQueue
           r == g_receivedIOQueue'
           e == [from |-> n, ahead |-> Len(q), age |-> 0]
<1>1. /\ r = Append(q, e) /\ UNCHANGED <<phase, silent, where, elapsed, m_pongState>>
      /\ \/ n \in answering /\ answering' = answering \ {n}
         \/ answering' = answering
  BY DEF PunctualPong, LatePong, Queue
<1>2. /\ q \in Seq(Pong) /\ Len(q) \in Nat
      /\ \A i \in 1..Len(q) : q[i] \in Pong
  BY QueueFacts
<1>3. e \in Pong /\ e.from = n /\ e.ahead = Len(q) /\ e.age = 0
  BY <1>2 DEF Pong
<1> HIDE DEF e
<1>4. /\ r \in Seq(Pong) /\ Len(r) = Len(q) + 1 /\ r[Len(r)] = e
      /\ \A i \in 1..Len(q) : i \in 1..Len(r) /\ r[i] = q[i]
      /\ \A i \in 1..Len(r) : i = Len(r) \/ i \in 1..Len(q)
      /\ Len(r) \in 1..Len(r)
  BY <1>1, <1>2, <1>3
<1>5. TypeOK'
  <2>1. answering' \subseteq Punctual
    BY <1>1 DEF TypeOK
  <2> QED BY <1>1, <1>4, <2>1 DEF TypeOK, Pong
<1>6. ClockOK'
  BY <1>1 DEF ClockOK, ClockOf
<1>7. \A i \in 1..Len(q) : q # <<>> /\ r # <<>> /\ r[1] = q[1]
  BY <1>2, <1>4
<1> HIDE DEF q, r
<1>8. PunctualOK'
  <2> SUFFICES ASSUME NEW m \in Punctual
               PROVE  PunctualOf(m)'
    BY DEF PunctualOK
  <2>1. PunctualOf(m)
    BY DEF PunctualOK
  <2>2. ASSUME NEW i \in 1..Len(q), Answer(m, i)
        PROVE  i \in 1..Len(r) /\ Answer(m, i)'
    BY <1>1, <1>4, <2>2 DEF Answer, q, r
  <2>3. ASSUME m \in answering, m \notin answering'
        PROVE  \E i \in 1..Len(r) : Answer(m, i)'
    <3>1. m = n /\ elapsed[m] \in Nat
      <4>1. elapsed[m] \in 0..TIMEOUT_PERIODS \cup 0..TIMESEND_PING
        BY DEF TypeOK
      <4> QED BY <1>1, <2>3, <4>1
    <3>2. elapsed[m] <= RoundTrip + 0 /\ 0 <= elapsed[m]
      BY <2>1, <2>3, <3>1 DEF PunctualOf
    <3>3. ASSUME NEW i \in 1..Len(r), i = Len(r)
          PROVE  Answer(m, i)'
      BY <1>1, <1>3, <1>4, <3>1, <3>2, <3>3 DEF Answer, r
    <3> QED BY <1>4, <3>3
  <2>4. m \in answering' => m \in answering
    BY <1>1
  <2> QED BY <1>1, <1>4, <2>1, <2>2, <2>3, <2>4 DEF PunctualOf, q, r
<1>9. BudgetOK'
  <2>1. Spent' \in 0..TIMESEND_PING /\ \A i \in 1..Len(q) : Spent' = Spent
    <3>1. (TypeOK /\ ClockOK)' => (Spent \in 0..TIMESEND_PING)'
      BY SpentBounds, PTL
    <3>2. \A i \in 1..Len(q) : Spent' = Spent
      BY <1>1, <1>7 DEF Spent, Slept, q, r
    <3> QED BY <1>5, <1>6, <3>1, <3>2
  <2> SUFFICES ASSUME NEW i \in 1..Len(r)
               PROVE  r[i].age + Sleeps(i) <= Sleeps(r[i].ahead + 1) + Spent'
    BY DEF BudgetOK, r
  <2>2. CASE i \in 1..Len(q)
    BY <1>4, <2>1, <2>2 DEF BudgetOK, q
  <2>3. CASE i = Len(r)
    <3>1. r[i].age = 0 /\ r[i].ahead + 1 = i /\ i \in Nat
      BY <1>2, <1>3, <1>4, <2>3
    <3>2. Sleeps(i) \in Nat /\ Sleeps(r[i].ahead + 1) = Sleeps(i)
      BY <3>1, SleepsAdd
    <3> QED BY <2>1, <3>1, <3>2
  <2> QED BY <1>4, <2>2, <2>3
<1>10. HeadOK'
  <2>1. CASE q = <<>>
    <3>1. Len(q) = 0
      BY <2>1
    <3>2. r[1].age = 0 /\ r[1].ahead = 0
      BY <1>3, <1>4, <3>1
    <3>3. 0 <= Sleeps(0)
      BY DEF Sleeps
    <3> QED BY <3>2, <3>3 DEF HeadOK, r
  <2>2. CASE q # <<>>
    <3>1. 1 \in 1..Len(q)
      BY <1>2, <2>2
    <3> QED BY <1>1, <1>7, <2>2, <3>1 DEF HeadOK, q, r
  <2> QED BY <2>1, <2>2
<1> QED BY <1>5, <1>6, <1>8, <1>9, <1>10

(* The receive thread delivers the pong at the head: the others have one   *)
(* fewer to wait for.                                                      *)
LEMMA DeliveryKeeps ==
  ASSUME TimingInv, checkPongMessage
  PROVE  TimingInv'
<1> USE TimingAssumption DEF TimingInv
<1> DEFINE q == g_receivedIOQueue
           r == g_receivedIOQueue'
           h == g_receivedIOQueue[1].from
<1>1. /\ q # <<>> /\ r = Tail(q)
      /\ m_pongState' = [m_pongState EXCEPT ![h] = TRUE]
      /\ UNCHANGED <<phase, silent, where, elapsed, answering>>
  <2>1. g_receivedIOQueue # <<>> => Head(g_receivedIOQueue) = g_receivedIOQueue[1]
    BY QueueFacts
  <2> QED BY <2>1 DEF checkPongMessage
<1>2. /\ q \in Seq(Pong) /\ Len(q) \in Nat
      /\ \A i \in 1..Len(q) :
           q[i] \in Pong /\ q[i].from \in Node /\ q[i].age \in Nat /\ q[i].ahead \in Nat
  BY QueueFacts
<1>3. /\ r \in Seq(Pong) /\ Len(r) \in Nat /\ Len(q) = Len(r) + 1 /\ 1 \in 1..Len(q)
      /\ \A i \in 1..Len(r) : i + 1 \in 1..Len(q) /\ i + 1 # 1 /\ r[i] = q[i + 1]
      /\ \A i \in 1..Len(q) : i # 1 => i - 1 \in 1..Len(r) /\ r[i - 1] = q[i]
      /\ r # <<>> => 1 \in 1..Len(r)
  BY <1>1, <1>2
<1>4. h \in Node /\ DOMAIN m_pongState = Node
  BY <1>2, <1>3 DEF TypeOK
<1>5. TypeOK'
  BY <1>1, <1>3 DEF TypeOK, Pong
<1>6. ClockOK'
  BY <1>1 DEF ClockOK, ClockOf
<1> HIDE DEF q, r, h
<1>7. PunctualOK'
  <2> SUFFICES ASSUME NEW m \in Punctual
               PROVE  PunctualOf(m)'
    BY DEF PunctualOK
  <2>1. PunctualOf(m) /\ m \in Node
    BY DEF PunctualOK
  <2>2. CASE m = h
    <3>1. m_pongState'[m]
      BY <1>1, <1>4, <2>2
    <3> QED BY <1>1, <2>1, <3>1 DEF PunctualOf
  <2>3. CASE m # h
    <3>1. m_pongState'[m] = m_pongState[m]
      BY <1>1, <1>4, <2>1, <2>3
    <3>2. ASSUME NEW i \in 1..Len(q), Answer(m, i)
          PROVE  i - 1 \in 1..Len(r) /\ Answer(m, i - 1)'
      <4>1. i # 1
        BY <2>3, <3>2 DEF Answer, q, h
      <4>2. i - 1 \in 1..Len(r) /\ r[i - 1] = q[i]
        BY <1>3, <4>1
      <4> QED BY <1>1, <3>2, <4>2 DEF Answer, q, r
    <3> QED BY <1>1, <2>1, <3>1, <3>2 DEF PunctualOf, q, r
  <2> QED BY <2>2, <2>3
<1>8. ASSUME NEW i \in 1..Len(r)
      PROVE  /\ r[i].age + Sleeps(i) <= Sleeps(r[i].ahead + 1)
             /\ i = 1 => r[i].age <= Sleeps(r[i].ahead)
  <2> DEFINE a == r[i].age
             d == r[i].ahead
  <2>1. /\ i \in Nat /\ a \in Nat /\ d \in Nat /\ Spent \in 0..TIMESEND_PING
        /\ a + Sleeps(i + 1) <= Sleeps(d + 1) + Spent
    BY <1>2, <1>3, SpentBounds DEF BudgetOK, q
  <2> HIDE DEF a, d
  <2>2. /\ Sleeps(i) \in Nat /\ Sleeps(i + 1) = Sleeps(i) + TIMESEND_PING
        /\ Sleeps(d) \in Nat /\ Sleeps(d + 1) = Sleeps(d) + TIMESEND_PING
        /\ Sleeps(1) = TIMESEND_PING /\ TIMESEND_PING \in Nat
    <3>1. Sleeps(1) = TIMESEND_PING
      BY DEF Sleeps
    <3> QED BY <2>1, <3>1, SleepsAdd
  <2>3. a + Sleeps(i) <= Sleeps(d + 1) /\ (i = 1 => a <= Sleeps(d))
    BY <2>1, <2>2
  <2> QED BY <2>3 DEF a, d
<1>9. BudgetOK'
  <2>1. Spent' \in 0..TIMESEND_PING
    <3>1. (TypeOK /\ ClockOK)' => (Spent \in 0..TIMESEND_PING)'
      BY SpentBounds, PTL
    <3> QED BY <1>5, <1>6, <3>1
  <2>2. ASSUME NEW i \in 1..Len(r)
        PROVE  r[i].age + Sleeps(i) <= Sleeps(r[i].ahead + 1) + Spent'
    <3> DEFINE a == r[i].age
               d == r[i].ahead + 1
    <3>1. i \in Nat /\ a \in Nat /\ d \in Nat /\ a + Sleeps(i) <= Sleeps(d)
      BY <1>2, <1>3, <1>8
    <3> HIDE DEF a, d
    <3>2. Sleeps(i) \in Nat /\ Sleeps(d) \in Nat
      BY <3>1, SleepsAdd
    <3>3. a + Sleeps(i) <= Sleeps(d) + Spent'
      BY <2>1, <3>1, <3>2
    <3> QED BY <3>3 DEF a, d
  <2> QED BY <2>2 DEF BudgetOK, r
<1>10. HeadOK'
  BY <1>3, <1>8 DEF HeadOK, r
<1> QED BY <1>5, <1>6, <1>7, <1>9, <1>10

(* A tick: the receive thread waits for the sleep of the node whose pong   *)
(* is at the head, and so do all pongs.                                    *)
LEMMA TickKeeps ==
  ASSUME TimingInv, Tick
  PROVE  TimingInv'
<1> USE TimingAssumption DEF TimingInv
<1> DEFINE q == g_receivedIOQueue
           r == g_receivedIOQueue'
<1>1. /\ \A n \in Node : Waiting(n)
      /\ q # <<>> => where[Head(q).from] = "sleep"
      /\ \A n \in answering : elapsed[n] < RoundTrip
      /\ \A n \in Node : elapsed'[n] = IF where[n] \in {"window", "sleep"}
                                       THEN elapsed[n] + 1 ELSE elapsed[n]
      /\ elapsed' = [n \in Node |-> IF where[n] \in {"window", "sleep"}
                                    THEN elapsed[n] + 1 ELSE elapsed[n]]
      /\ UNCHANGED <<phase, silent, where, m_pongState, answering>>
  BY DEF Tick, MutexFree
<1>2. /\ q \in Seq(Pong) /\ Len(q) \in Nat
      /\ \A i \in 1..Len(q) :
           q[i] \in Pong /\ q[i].from \in Node /\ q[i].age \in Nat /\ q[i].ahead \in Nat
  BY QueueFacts
<1>3. /\ r \in Seq(Pong) /\ Len(r) = Len(q)
      /\ \A i \in 1..Len(q) : /\ r[i].from = q[i].from /\ r[i].ahead = q[i].ahead
                              /\ r[i].age = q[i].age + 1
  <2>1. r = [i \in 1..Len(q) |-> [q[i] EXCEPT !.age = @ + 1]]
    BY <1>2 DEF Tick
  <2>2. ASSUME NEW e \in Pong
        PROVE  /\ [e EXCEPT !.age = @ + 1] \in Pong
               /\ [e EXCEPT !.age = @ + 1].from = e.from
               /\ [e EXCEPT !.age = @ + 1].ahead = e.ahead
               /\ [e EXCEPT !.age = @ + 1].age = e.age + 1
    BY DEF Pong
  <2> HIDE DEF q, r
  <2>3. \A i \in 1..Len(q) : r[i] = [q[i] EXCEPT !.age = @ + 1] /\ r[i] \in Pong
    BY <1>2, <2>1, <2>2
  <2>4. r \in Seq(Pong) /\ Len(r) = Len(q)
    BY SMTT(20), <1>2, <2>1, <2>3
  <2> QED BY <1>2, <2>2, <2>3, <2>4
<1>4. \A n \in Node : /\ elapsed[n] \in Nat
                      /\ where[n] = "window" => elapsed[n] < TIMEOUT_PERIODS
                      /\ where[n] = "sleep" => elapsed[n] < TIMESEND_PING
  <2>1. \A n \in Node : elapsed[n] \in 0..TIMEOUT_PERIODS \cup 0..TIMESEND_PING
    BY DEF TypeOK
  <2>2. \A n \in Node : elapsed[n] \in Nat
    <3>1. \A k \in 0..TIMEOUT_PERIODS \cup 0..TIMESEND_PING : k \in Nat
      OBVIOUS
    <3> QED BY <2>1, <3>1
  <2> QED BY <1>1, <2>2 DEF Waiting, Rested, Expired
<1>5. TypeOK'
  <2>1. elapsed' \in [Node -> 0..TIMEOUT_PERIODS \cup 0..TIMESEND_PING]
    <3>1. \A n \in Node : elapsed'[n] \in 0..TIMEOUT_PERIODS \cup 0..TIMESEND_PING
      BY <1>1, <1>4 DEF TypeOK
    <3> QED BY <1>1, <3>1
  <2> QED BY <1>1, <1>3, <2>1 DEF TypeOK, Pong
<1>6. ClockOK'
  BY <1>1, <1>4 DEF ClockOK, ClockOf
<1> HIDE DEF q, r
<1>7. PunctualOK'
  <2> SUFFICES ASSUME NEW m \in Punctual
               PROVE  PunctualOf(m)'
    BY DEF PunctualOK
  <2>1. PunctualOf(m) /\ m \in Node /\ elapsed[m] \in Nat
    BY <1>4 DEF PunctualOK
  <2>2. where[m] = "window" => elapsed'[m] = elapsed[m] + 1
    BY <1>1, <2>1
  <2>3. ASSUME NEW i \in 1..Len(q), Answer(m, i), where[m] = "window"
        PROVE  Answer(m, i)'
    <3>1. /\ q[i].from = m /\ q[i].age <= elapsed[m] /\ elapsed[m] <= RoundTrip + q[i].age
          /\ q[i].age \in Nat /\ r[i].from = m /\ r[i].age = q[i].age + 1
      BY <1>2, <1>3, <2>3 DEF Answer, q
    <3>2. r[i].age <= elapsed'[m] /\ elapsed'[m] <= RoundTrip + r[i].age
      BY <2>1, <2>2, <2>3, <3>1
    <3> QED BY <3>1, <3>2 DEF Answer, r
  <2>4. m \in answering => elapsed'[m] <= RoundTrip
    BY <1>1, <2>1, <2>2 DEF PunctualOf
  <2> QED BY <1>1, <1>3, <2>1, <2>3, <2>4 DEF PunctualOf, q, r
<1>8. q # <<>> => 1 \in 1..Len(q) /\ Head(q) = q[1] /\ where[q[1].from] = "sleep"
  BY <1>1, <1>2 DEF q
<1>9. BudgetOK'
  <2>1. q # <<>> => Spent \in Nat /\ Spent' = Spent + 1
    <3> SUFFICES ASSUME q # <<>>
                 PROVE  Spent \in Nat /\ Spent' = Spent + 1
      OBVIOUS
    <3>1. /\ where[q[1].from] = "sleep" /\ q[1].from \in Node /\ r[1].from = q[1].from
          /\ r # <<>>
      BY <1>2, <1>3, <1>8
    <3>2. Spent = elapsed[q[1].from]
      BY <3>1 DEF Spent, Slept, q
    <3>3. Spent' = elapsed'[q[1].from]
      BY <1>1, <3>1 DEF Spent, Slept, r
    <3> QED BY <1>1, <1>4, <3>1, <3>2, <3>3
  <2>2. ASSUME NEW i \in 1..Len(r)
        PROVE  r[i].age + Sleeps(i) <= Sleeps(r[i].ahead + 1) + Spent'
    <3> DEFINE a == q[i].age
               d == q[i].ahead + 1
    <3>1. /\ q # <<>> /\ r[i].age = a + 1 /\ r[i].ahead + 1 = d
          /\ i \in Nat /\ a \in Nat /\ d \in Nat
      BY <1>2, <1>3
    <3>2. a + Sleeps(i) <= Sleeps(d) + Spent
      BY <1>3 DEF BudgetOK, q
    <3> HIDE DEF a, d
    <3>3. Sleeps(i) \in Nat /\ Sleeps(d) \in Nat
      BY <3>1, SleepsAdd
    <3> QED BY <2>1, <3>1, <3>2, <3>3
  <2> QED BY <2>2 DEF BudgetOK, r
<1>10. HeadOK'
  <2> SUFFICES ASSUME r # <<>>
               PROVE  where'[r[1].from] # "window"
    BY DEF HeadOK, r
  <2>1. q # <<>> /\ 1 \in 1..Len(q)
    BY <1>2, <1>3
  <2> QED BY <1>1, <1>3, <1>8, <2>1
<1> QED BY <1>5, <1>6, <1>7, <1>9, <1>10

-----------------------------------------------------------------------------
(* Nothing is registered, and nothing queued, to start with.               *)
LEMMA TimingInvInit ==
  ASSUME Init
  PROVE  TimingInv
<1> USE TimingAssumption DEF Init, Life!Init
<1>1. TypeOK
  BY DEF TypeOK
<1>2. ClockOK
  BY DEF ClockOK, ClockOf
<1>3. g_receivedIOQueue = <<>> /\ Len(g_receivedIOQueue) = 0 /\ 1..0 = {}
  OBVIOUS
<1>4. PunctualOK
  BY DEF PunctualOK, PunctualOf
<1>5. BudgetOK
  BY <1>3 DEF BudgetOK
<1>6. HeadOK
  BY DEF HeadOK
<1> QED BY <1>1, <1>2, <1>4, <1>5, <1>6 DEF TimingInv

(* Every step of the nodes, the clients, the receive thread and the clock  *)
(* keeps the invariant.                                                    *)
LEMMA TimingInvStep == TimingInv /\ [Next]_vars => TimingInv'
<1> SUFFICES ASSUME TimingInv, [Next]_vars
             PROVE  TimingInv'
  OBVIOUS
<1>1. CASE UNCHANGED vars
  BY <1>1 DEF vars, clientVars, TimingInv, TypeOK, ClockOK, ClockOf, PunctualOK, PunctualOf,
              Answer, BudgetOK, HeadOK, Spent, Slept
<1>2. ASSUME NEW n \in Node, Register(n) \/ handleThread(n)
      PROVE  TimingInv'
  BY <1>2, ThreadKeeps
<1>3. ASSUME NEW n \in Node, PunctualPong(n) \/ LatePong(n)
      PROVE  TimingInv'
  BY <1>3, QueueKeeps
<1>4. CASE checkPongMessage
  BY <1>4, DeliveryKeeps
<1>5. CASE Tick
  BY <1>5, TickKeeps
<1> QED BY <1>1, <1>2, <1>3, <1>4, <1>5 DEF Next

(* So it holds in all states.                                              *)
LEMMA TimingInvAlways == Spec => []TimingInv
<1>1. Init => TimingInv
  BY TimingInvInit
<1>2. TimingInv /\ [Next]_vars => TimingInv'
  BY TimingInvStep
<1> QED BY <1>1, <1>2, PTL DEF Spec

(* NodeBase.cpp: the clock never runs past the end of a wait_for or of a   *)
(* sleep_for, whatever its thread has to wait for.                         *)
THEOREM TimingTypeCorrect == Spec => []TypeOK
<1>1. TimingInv => TypeOK
  BY DEF TimingInv
<1> QED BY <1>1, TimingInvAlways, PTL

(* NodeBase.cpp:153 setPongState, NodeManagament.cpp checkPongMessage: a   *)
(* pong waits at most one sleep for each pong queued before it, and one.   *)
THEOREM DeliveryBoundedCorrect == Spec => []DeliveryBounded
<1>1. TimingInv => DeliveryBounded
  <2> SUFFICES ASSUME TimingInv, NEW i \in 1..Len(g_receivedIOQueue)
               PROVE  g_receivedIOQueue[i].age
                        <= (g_receivedIOQueue[i].ahead + 1) * TIMESEND_PING
    BY DEF DeliveryBounded
  <2> QED BY AgeBounded DEF Sleeps
<1> QED BY <1>1, TimingInvAlways, PTL

-----------------------------------------------------------------------------
(* A window of n that ends without a pong. *)
LEMMA LostWindow ==
  ASSUME TimingInv, NEW n \in Punctual, PongTimeout(n)
  PROVE  \E i \in 1..Len(g_receivedIOQueue) :
           LET pong == g_receivedIOQueue[i] IN
           /\ pong.from = n
           /\ pong.age <= elapsed[n]
           /\ TIMEOUT_PERIODS <= RoundTrip + pong.ahead * TIMESEND_PING
<1> USE TimingAssumption
<1>1. /\ where[n] = "window" /\ ~m_pongState[n] /\ elapsed[n] >= TIMEOUT_PERIODS
      /\ elapsed[n] \in Nat
  <2>1. elapsed[n] \in 0..TIMEOUT_PERIODS \cup 0..TIMESEND_PING
    BY DEF TimingInv, TypeOK
  <2> QED BY <2>1 DEF PongTimeout, Expired
<1>2. PunctualOf(n)
  BY DEF TimingInv, PunctualOK
<1>3. n \notin answering
  BY <1>1, <1>2 DEF PunctualOf
<1>4. PICK i \in 1..Len(g_receivedIOQueue) : Answer(n, i)
  BY <1>1, <1>2, <1>3 DEF PunctualOf
<1> DEFINE pong == g_receivedIOQueue[i]
<1>5. /\ pong.from = n /\ pong.age <= elapsed[n] /\ elapsed[n] <= RoundTrip + pong.age
      /\ pong.age \in Nat /\ pong.ahead \in Nat
  BY <1>4, QueueFacts DEF Answer, TimingInv
<1>6. pong.age <= Sleeps(pong.ahead)
  <2>1. CASE i = 1
    <3>1. g_receivedIOQueue # <<>>
      BY <2>1, QueueFacts DEF TimingInv
    <3> QED BY <1>1, <1>5, <2>1, <3>1 DEF TimingInv, HeadOK
  <2>2. CASE i # 1
    BY <2>2, AgeBounded
  <2> QED BY <2>1, <2>2
<1>7. TIMEOUT_PERIODS <= RoundTrip + Sleeps(pong.ahead)
  <2> DEFINE a == pong.age
             s == Sleeps(pong.ahead)
  <2>1. a \in Nat /\ s \in Nat /\ a <= s /\ elapsed[n] <= RoundTrip + a
    BY <1>5, <1>6, SleepsAdd
  <2> HIDE DEF a, s
  <2>2. TIMEOUT_PERIODS <= RoundTrip + s
    BY <1>1, <2>1
  <2> QED BY <2>2 DEF s
<1> QED BY <1>5, <1>7 DEF Sleeps

(* NodeBase.cpp, the ping windows: a client that answers every ping within *)
(* RoundTrip loses a window only if its answer is queued behind so many    *)
(* pongs that their sleeps use up the rest of the window.                  *)
THEOREM BacklogCorrect == Spec => PunctualLostOnlyToBacklog
<1> DEFINE Lost(n) ==
             \E i \in 1..Len(g_receivedIOQueue) :
               LET pong == g_receivedIOQueue[i] IN
               /\ pong.from = n
               /\ pong.age <= elapsed[n]
               /\ TIMEOUT_PERIODS <= RoundTrip + pong.ahead * TIMESEND_PING
           OnlyToBacklog == \A n \in Punctual : silent'[n] > silent[n] => Lost(n)
<1>1. TimingInv /\ [Next]_vars => [OnlyToBacklog]_vars
  <2> SUFFICES ASSUME TimingInv, Next, NEW n \in Punctual, silent'[n] > silent[n]
               PROVE  Lost(n)
    OBVIOUS
  <2>1. n \in Node /\ silent \in [Node -> 0..RETRY_NUM + 1]
    BY TimingAssumption DEF TimingInv, TypeOK
  <2>2. silent'[n] # silent[n] /\ silent' # silent
    <3>1. silent[n] \in Int
      BY <2>1, TimingAssumption
    <3> QED BY <3>1
  <2>3. PICK m \in Node : PongReceived(m) \/ PongTimeout(m)
    BY <2>2 DEF Next, Register, Life!Register, handleThread, BeginPing, WakeUp, GiveUp,
                Life!GiveUp, PunctualPong, LatePong, Queue, checkPongMessage, Tick
  <2>4. ~PongReceived(m)
    <3> SUFFICES ASSUME PongReceived(m)
                 PROVE  FALSE
      OBVIOUS
    <3>1. silent' = [silent EXCEPT ![m] = 0]
      BY DEF PongReceived, Life!AnsweredWindow
    <3>2. m = n /\ silent'[n] = 0 /\ silent[n] \in Nat
      BY <2>1, <2>2, <3>1, TimingAssumption
    <3> QED BY <3>2
  <2>5. PongTimeout(m) /\ m = n
    <3>1. PongTimeout(m) /\ silent' = [silent EXCEPT ![m] = @ + 1]
      BY <2>3, <2>4 DEF PongTimeout, Life!SilentWindow
    <3> QED BY <2>1, <2>2, <3>1
  <2> QED BY <2>5, LostWindow
<1>2. Spec => [][OnlyToBacklog]_vars
  BY <1>1, TimingInvAlways, PTL DEF Spec
<1> QED BY <1>2 DEF PunctualLostOnlyToBacklog
=============================================================================
