---------------------------- MODULE MCEncodeRing ----------------------------
(* Instances of EncodeRing for TLC. *)
EXTENDS EncodeRing

=============================================================================
