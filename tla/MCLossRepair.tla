---------------------------- MODULE MCLossRepair ----------------------------
(* Instances of LossRepair for TLC. *)
EXTENDS LossRepair

=============================================================================
