--------------------------- MODULE MCNodeManagament ---------------------------
(***************************************************************************)
(* NodeManagament for TLC.  Properties that are promised only while RX and *)
(* TX have not overlapped need not be explored beyond the first overlap.   *)
(* A third registration and a stop are both explored, but not together,    *)
(* and RX serves nothing once there are three nodes, or two and a stop.    *)
(* Ports are interchangeable: nothing compares them but for equality.      *)
(***************************************************************************)
EXTENDS NodeManagament, TLC

MostNodes == IF stops > 0 THEN 2 ELSE 3

UntilOverlap ==
  /\ ~raced
  /\ m_nodeID <= MostNodes
  /\ m_nodeID = MostNodes => rxAt \in {"pop", "start", "exited"}

PortSymmetry == Permutations(Port)
=============================================================================
