----------------------------- MODULE MCServices -----------------------------
(***************************************************************************)
(* The relay session of the host and the remote input of one session, each *)
(* on its own: `part` says which one a behaviour is about, and the other   *)
(* keeps its initial state, the page of the relay session with public      *)
(* sessions off.                                                           *)
(***************************************************************************)
EXTENDS RelaySession

CONSTANTS Keys, SeqSpace, FirstSeqs, FastCap, MaxFrames, MaxActs

\* Two moves of a session are less than half the number space apart (protocol.rs:122-124).
ASSUME ServicesAssumption ==
  /\ {SeqSpace, MaxFrames} \subseteq Nat /\ 2 * MaxFrames < SeqSpace
  /\ FirstSeqs \subseteq Nat

VARIABLES part,
  first, sent, acts, tab, pending, onFast, onReliable, link, stop, control, relief, fast,
  reliable, inj, cursor

Input == INSTANCE InputPath

ofInput == <<first, sent, acts, tab, pending, onFast, onReliable, link, stop, control, relief,
             fast, reliable, inj, cursor>>

ServicesInit ==
  /\ part \in {"relay", "input"}
  /\ Init /\ (part # "relay" => ~public)
  /\ Input!Init

RelayNext == part = "relay" /\ Next /\ UNCHANGED <<part, ofInput>>
InputNext == part = "input" /\ Input!Next /\ UNCHANGED <<part, vars>>

ServicesNext == RelayNext \/ InputNext

\* What is fair is idle in the other part.
ServicesSpec ==
  /\ ServicesInit /\ [][ServicesNext]_<<part, vars, ofInput>>
  /\ Fairness /\ Input!Fairness

\* InputPath
CursorForward == Input!CursorForward
EndsReleased  == Input!EndsReleased

=============================================================================
