----------------------------- MODULE MCInputPath -----------------------------
(* Instances of InputPath for TLC. *)
EXTENDS InputPath

=============================================================================
