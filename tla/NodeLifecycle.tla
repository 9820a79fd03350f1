---------------------------- MODULE NodeLifecycle ----------------------------
(***************************************************************************)
(* What a monitored node promises, without threads, flags or queues: it is *)
(* judged one ping window (TIMEOUT_PERIODS) at a time, the first silent    *)
(* window makes it suspect, an answered one makes it healthy again, and it *)
(* is given up after RETRY_NUM further silent windows in a row, for good.  *)
(* NodeBase implements this specification.                                 *)
(***************************************************************************)
EXTENDS Naturals

CONSTANTS Node, RETRY_NUM

VARIABLES
  phase,   \* the manager's opinion of each node
  silent   \* number of silent windows since the last answered one

lifecycleVars == <<phase, silent>>

Init ==
  /\ phase = [n \in Node |-> "absent"]
  /\ silent = [n \in Node |-> 0]

Register(n) ==
  /\ phase[n] = "absent"
  /\ phase' = [phase EXCEPT ![n] = "new"]
  /\ UNCHANGED silent

AnsweredWindow(n) ==
  /\ \/ phase[n] \in {"new", "alive"}
     \/ phase[n] = "suspect" /\ silent[n] <= RETRY_NUM
  /\ phase' = [phase EXCEPT ![n] = "alive"]
  /\ silent' = [silent EXCEPT ![n] = 0]

SilentWindow(n) ==
  /\ phase[n] \in {"new", "alive", "suspect"}
  /\ silent[n] <= RETRY_NUM
  /\ phase' = [phase EXCEPT ![n] = "suspect"]
  /\ silent' = [silent EXCEPT ![n] = @ + 1]

GiveUp(n) ==
  /\ phase[n] = "suspect"
  /\ silent[n] = RETRY_NUM + 1
  /\ phase' = [phase EXCEPT ![n] = "dead"]
  /\ UNCHANGED silent

Next ==
  \E n \in Node :
    Register(n) \/ AnsweredWindow(n) \/ SilentWindow(n) \/ GiveUp(n)

Spec == Init /\ [][Next]_lifecycleVars
=============================================================================
