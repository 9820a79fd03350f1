-------------------------------- MODULE Monitor --------------------------------
(***************************************************************************)
(* What the program promises about its nodes, without threads, a vector or *)
(* messages: it admits a client that has no node, once, and removes a node *)
(* only after it has given it up.  How a node is judged is the business of *)
(* NodeLifecycle.  NodeManagament implements this specification as long as *)
(* its two threads do not overlap on the vector.                           *)
(***************************************************************************)
CONSTANTS Node, Port, NoPort

VARIABLES
  known,    \* nodes that are monitored
  portOf,   \* the client of each node
  givenUp   \* nodes whose client is taken for dead

monitorVars == <<known, portOf, givenUp>>

Init ==
  /\ known = {}
  /\ portOf = [n \in Node |-> NoPort]
  /\ givenUp = {}

(* p has no node among those monitored; n is new. *)
Admit(n, p) ==
  /\ known' = known \cup {n}
  /\ portOf' = [portOf EXCEPT ![n] = p]
  /\ \A m \in known : portOf[m] # p
  /\ UNCHANGED givenUp

GiveUp(n) == givenUp' = givenUp \cup {n} /\ UNCHANGED <<known, portOf>>

Remove(n) == known' = known \ {n} /\ UNCHANGED <<portOf, givenUp>>

Next ==
  \/ \E n \in {m \in Node : portOf[m] = NoPort}, p \in Port : Admit(n, p)
  \/ \E n \in known \ givenUp : GiveUp(n)
  \/ \E n \in known \cap givenUp : Remove(n)

Spec == Init /\ [][Next]_monitorVars
=============================================================================
