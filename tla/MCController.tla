---------------------------- MODULE MCController ----------------------------
(* An instance of Controller for TLC. *)
EXTENDS Controller

OneOwner == [d \in Deployments |-> CHOOSE c \in Clusters : TRUE]
=============================================================================
