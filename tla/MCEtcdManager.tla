--------------------------- MODULE MCEtcdManager ---------------------------
(* Model values for the runs of EtcdManager. *)
EXTENDS EtcdManager, TLC

\* Member names and goroutine slots are interchangeable.
Symmetry == Permutations(Name) \cup Permutations(Gor)
=============================================================================
