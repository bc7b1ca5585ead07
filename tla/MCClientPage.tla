---------------------------- MODULE MCClientPage ----------------------------
(* Instances of ClientPage for TLC. *)
EXTENDS ClientPage

=============================================================================
