------------------------------- MODULE LossyFifo -------------------------------
(***************************************************************************)
(* What the users of a queue may rely on: a FIFO of bounded capacity whose *)
(* operations are atomic, which loses its oldest element for a new one     *)
(* when it is full, and may lose its oldest element (pop) or all of them   *)
(* (resetQueue) at any time.  Every element is newer than all that its     *)
(* producer has put in before.  ThreadSafeQueue implements this.           *)
(***************************************************************************)
EXTENDS Naturals, Sequences

CONSTANTS Producer, Number, Capacity

VARIABLES
  content,  \* elements [from, seq]
  last      \* number of the last element of each producer handed out

Init ==
  /\ content = <<>>
  /\ last = [p \in Producer |-> 0]

Newer(p, k) ==
  /\ last[p] < k
  /\ \A i \in 1..Len(content) : content[i].from = p => content[i].seq < k

Put(p, k) ==
  /\ Newer(p, k)
  /\ content' = Append(IF Len(content) >= Capacity THEN Tail(content) ELSE content,
                       [from |-> p, seq |-> k])
  /\ UNCHANGED last

Get ==
  /\ content # <<>>
  /\ content' = Tail(content)
  /\ last' = [last EXCEPT ![Head(content).from] = Head(content).seq]

Drop == content # <<>> /\ content' = Tail(content) /\ UNCHANGED last

Clear == content' = <<>> /\ UNCHANGED last

Next ==
  \/ \E p \in Producer, k \in Number : Put(p, k)
  \/ Get \/ Drop \/ Clear

Spec == Init /\ [][Next]_<<content, last>>
=============================================================================
