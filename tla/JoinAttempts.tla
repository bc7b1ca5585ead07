---------------------------- MODULE JoinAttempts ----------------------------
(***************************************************************************)
(* What SessionLifecycle and Transport have in common: the offers, each a  *)
(* POST /whep, of which the one follows the session row and the display    *)
(* and the other the peer connection.                                      *)
(***************************************************************************)
EXTENDS FiniteSets

CONSTANTS
  Attempts,   \* the POST /whep requests of a behaviour
  None        \* no join, no display, no device, no transport

ASSUME AttemptsAssumption == IsFiniteSet(Attempts) /\ None \notin Attempts

=============================================================================
