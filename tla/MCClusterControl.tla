-------------------------- MODULE MCClusterControl --------------------------
(* The instance of ClusterControl that the runs check. *)
EXTENDS ClusterControl
=============================================================================
