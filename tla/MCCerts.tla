------------------------------- MODULE MCCerts -------------------------------
(* The certificates for TLC: the constants are numbers, given in the .cfg. *)
EXTENDS Certs
=============================================================================
