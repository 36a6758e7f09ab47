---------------------------- MODULE SpecRegister ----------------------------
(****************************************************************************)
(* What users are promised about the spec of a OnecloudCluster: it is a     *)
(* register that users write, and in which the operator only fills in what  *)
(* they left open.  ClusterControl, with its cached copies, repeated writes *)
(* and two writers, implements it.                                          *)
(****************************************************************************)
EXTENDS Naturals

CONSTANTS
  Values, \* what a user may write
  Full    \* how far the operator fills a spec in

VARIABLES value, filled, writes

Init == value \in Values /\ filled = 0 /\ writes = 0

\* A user writes, and keeps or drops what was filled in.
Edit ==
  /\ writes' = writes + 1
  /\ value' \in Values /\ filled' \in {0, filled}

\* The operator fills in the next part: nothing that builds on a part comes before it.
FillIn ==
  /\ filled < Full /\ filled' = filled + 1
  /\ UNCHANGED <<value, writes>>

Spec == Init /\ [][Edit \/ FillIn]_<<value, filled, writes>>
=============================================================================
