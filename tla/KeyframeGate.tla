---------------------------- MODULE KeyframeGate ----------------------------
(***************************************************************************)
(* How often one session may ask its encoder for a keyframe: KeyframeGate, *)
(* shared without a lock by the RTCP reader, the RTP writer, the client's  *)
(* control channel and the connection-state callback, and PliBackoff,      *)
(* which the RTCP reader keeps in front of it                              *)
(* (src-tauri/src/streamer/keyframe.rs, webrtc_session.rs:146-206 and      *)
(* 1293-1371).                                                             *)
(*                                                                         *)
(* Time is a counter of ticks; the constants of the code are parameters.   *)
(* One step is one atomic access of the gate.  An admitted request goes to *)
(* the encoder; whether as a keyframe or as a repair is the business of    *)
(* another module.                                                         *)
(***************************************************************************)
EXTENDS Integers

CONSTANTS
  Callers,        \* the tasks that ask, the RTCP reader among them
  Reader,         \* the RTCP reader
  None,           \* no time as yet
  Floor, Cap,     \* the clamp of the gate's window (for_locality)
  Wants,          \* what twice a measured round trip may come to
  BackoffFloor,   \* PLI_BACKOFF_FLOOR_MS
  BackoffCap,     \* PLI_BACKOFF_CAP_MS
  HealthyCap,     \* PLI_BACKOFF_CAP_HEALTHY_MS
  Quiet,          \* PLI_QUIET_RESET_MS
  MaxTime,        \* bound: the last tick
  MaxSpurious     \* bound: spurious failures of compare_exchange_weak

ASSUME GateAssumption ==
  /\ Reader \in Callers
  /\ None \notin Nat
  /\ Floor \in Nat \ {0} /\ Cap \in Nat /\ Floor <= Cap
  /\ Wants \subseteq Nat
  /\ BackoffFloor \in Nat \ {0} /\ BackoffCap \in Nat /\ HealthyCap \in Nat
  /\ BackoffFloor <= BackoffCap /\ BackoffCap <= HealthyCap
  /\ Quiet \in Nat
  /\ MaxTime \in Nat /\ MaxSpurious \in Nat

VARIABLES
  now,        \* host_now_ns(): it starts above the sentinel 0
  last,       \* last_request_ns; 0 means nobody has asked
  interval,   \* interval_ns
  at,         \* where each caller is in allow()
  asked,      \* the now_ns each caller came with
  limit,      \* its copy of the interval
  seen,       \* its copy of last_request_ns
  window, lastAdmit, lastPli, evidence,  \* PliBackoff
  spurious    \* what the bound counts

gate    == <<last, interval>>
call    == <<at, asked, limit, seen>>
backoff == <<window, lastAdmit, lastPli, evidence>>
vars    == <<now, gate, call, backoff, spurious>>

\* u64::saturating_sub
Minus(a, b) == IF a >= b THEN a - b ELSE 0

Clamp(x, lo, hi) == IF x < lo THEN lo ELSE IF x > hi THEN hi ELSE x

TypeOK ==
  /\ now \in Nat \ {0} /\ last \in Nat /\ interval \in Floor..Cap
  /\ at \in [Callers -> {"idle", "passed", "called", "limited", "deciding"}]
  /\ asked \in [Callers -> Nat] /\ limit \in [Callers -> {0} \cup Floor..Cap] /\ seen \in [Callers -> Nat]
  /\ window \in {0} \cup BackoffFloor..HealthyCap
  /\ lastAdmit \in Nat \cup {None} /\ lastPli \in Nat \cup {None}
  /\ evidence \in BOOLEAN
  /\ spurious \in Nat

Init ==
  /\ now = 1 /\ last = 0 /\ interval = Floor
  /\ at = [c \in Callers |-> "idle"]
  /\ asked = [c \in Callers |-> 0]
  /\ limit = [c \in Callers |-> 0]
  /\ seen = [c \in Callers |-> 0]
  /\ window = 0 /\ lastAdmit = None /\ lastPli = None /\ evidence = FALSE
  /\ spurious = 0

-----------------------------------------------------------------------------
Tick ==
  /\ now < MaxTime
  /\ now' = now + 1
  /\ UNCHANGED <<gate, call, backoff, spurious>>

\* observe_rtt_ms, from the bandwidth poll.
ObserveRtt ==
  /\ \E want \in Wants : interval' = Clamp(want, Floor, Cap)
  /\ UNCHANGED <<now, last, call, backoff, spurious>>

\* A task calls allow(host_now_ns()); the RTCP reader does for a PLI that its
\* back-off has let through.
Ask(c) ==
  /\ at[c] = IF c = Reader THEN "passed" ELSE "idle"
  /\ at' = [at EXCEPT ![c] = "called"]
  /\ asked' = [asked EXCEPT ![c] = now]
  /\ UNCHANGED <<now, gate, limit, seen, backoff, spurious>>

\* allow: load the interval, then the last request.
LoadInterval(c) ==
  /\ at[c] = "called"
  /\ at' = [at EXCEPT ![c] = "limited"]
  /\ limit' = [limit EXCEPT ![c] = interval]
  /\ UNCHANGED <<now, gate, asked, seen, backoff, spurious>>

LoadLast(c) ==
  /\ at[c] = "limited"
  /\ at' = [at EXCEPT ![c] = "deciding"]
  /\ seen' = [seen EXCEPT ![c] = last]
  /\ UNCHANGED <<now, gate, asked, limit, backoff, spurious>>

\* The window is still closed, as far as c has seen.
Shut(c) == seen[c] # 0 /\ Minus(asked[c], seen[c]) < limit[c]

\* allow returns; its locals are gone.
Return(c) ==
  /\ at' = [at EXCEPT ![c] = "idle"]
  /\ asked' = [asked EXCEPT ![c] = 0]
  /\ limit' = [limit EXCEPT ![c] = 0]
  /\ seen' = [seen EXCEPT ![c] = 0]

\* A request is suppressed.
Suppress(c) ==
  /\ at[c] = "deciding"
  /\ Shut(c)
  /\ Return(c)
  /\ UNCHANGED <<now, gate, backoff, spurious>>

\* Mutant: the window is claimed with a plain store.
AdmitStore(c) ==
  /\ at[c] = "deciding"
  /\ ~Shut(c)
  /\ last' = asked[c]
  /\ Return(c)
  /\ UNCHANGED <<now, interval, backoff, spurious>>

\* The compare-exchange finds what c saw and claims the window.
Admit(c) ==
  /\ at[c] = "deciding"
  /\ ~Shut(c)
  /\ last = seen[c]
  /\ last' = asked[c]
  /\ Return(c)
  /\ UNCHANGED <<now, interval, backoff, spurious>>

\* It fails, because another caller was faster or for no reason, and c looks at
\* what it found instead.
Retry(c) ==
  /\ at[c] = "deciding"
  /\ ~Shut(c)
  /\ IF last # seen[c] THEN UNCHANGED spurious
     ELSE spurious < MaxSpurious /\ spurious' = spurious + 1
  /\ seen' = [seen EXCEPT ![c] = last]
  /\ UNCHANGED <<now, gate, at, asked, limit, backoff>>

-----------------------------------------------------------------------------
(* PliBackoff, in the RTCP reader.                                         *)

\* A loss report, a NACK or the client's own counter.
NoteEvidence ==
  /\ at[Reader] = "idle"
  /\ evidence' = TRUE
  /\ UNCHANGED <<now, gate, call, window, lastAdmit, lastPli, spurious>>

\* Nothing has asked for so long that whatever asked is satisfied.
QuietNow == lastPli = None \/ Minus(now, lastPli) >= Quiet

\* The window this PLI meets: closed again by quiet or by evidence.
WindowMet == IF QuietNow \/ evidence THEN 0 ELSE window

Held == lastAdmit # None /\ Minus(now, lastAdmit) < WindowMet

\* What every PLI does first.  The evidence is only looked at, and so only
\* spent, when the receiver was not quiet.
Arrive ==
  /\ at[Reader] = "idle"
  /\ lastPli' = now
  /\ evidence' = (QuietNow /\ evidence)

\* Mutant: a PLI that is held begins the window anew.
PliHeldRenews ==
  /\ Arrive
  /\ Held
  /\ window' = WindowMet
  /\ lastAdmit' = now
  /\ UNCHANGED <<now, gate, call, spurious>>

\* The back-off holds the PLI.
PliHeld ==
  /\ Arrive
  /\ Held
  /\ window' = WindowMet
  /\ UNCHANGED <<now, gate, call, lastAdmit, spurious>>

\* The back-off lets it through to the gate and opens the window for the next.
PliPasses ==
  /\ Arrive
  /\ ~Held
  /\ lastAdmit' = now
  /\ \E cap \in {BackoffCap, HealthyCap} :
       window' = Clamp(2 * WindowMet, BackoffFloor, cap)
  /\ at' = [at EXCEPT ![Reader] = "passed"]
  /\ UNCHANGED <<now, gate, asked, limit, seen, spurious>>

-----------------------------------------------------------------------------
Allow(c) == LoadInterval(c) \/ LoadLast(c) \/ Suppress(c) \/ Admit(c) \/ Retry(c)

Pli == PliHeld \/ PliPasses

Next == \/ Tick \/ ObserveRtt \/ NoteEvidence \/ Pli
        \/ \E c \in Callers : Ask(c) \/ Allow(c)

Spec == Init /\ [][Next]_vars

-----------------------------------------------------------------------------
(* What the gate guarantees.                                               *)

\* Two keyframes are never asked for within Floor of each other, whichever tasks
\* ask, in whatever order their clock readings reach the gate, and whatever the
\* round trip was when each of them looked (keyframe.rs:115-142).
Spaced == [][last' # last => last = 0 \/ last' - last >= Floor]_vars

\* A request is only suppressed when another was admitted less than Cap before
\* it: the gate is never deaf for longer (keyframe.rs:20-22), and the first
\* request of a session is always admitted (lines 123-124).
SuppressedForCause ==
  [][\A c \in Callers : at[c] = "deciding" /\ at'[c] = "idle" /\ last' = last
                        => last # 0 /\ asked[c] - last < Cap]_vars

\* A PLI that the back-off holds comes less than one gate window and one back-off
\* window after a keyframe was asked for: the two limiters in a row do not leave
\* a decoder without a picture for longer than the sum of both
\* (keyframe.rs:166-178, webrtc_session.rs:1340-1344).
HeldForCause ==
  [][PliHeld => last # 0 /\ now - last < Cap + HealthyCap]_vars

=============================================================================
