------------------------------ MODULE JoinGate ------------------------------
(***************************************************************************)
(* What stands between a join request and its session: the check of the    *)
(* code, and the limiter of wrong ones (streamer/server.rs: process_whep;  *)
(* streamer/session.rs: OtpLimiter).  Requests are served side by side;    *)
(* the limiter's two locks are taken one at a time, and let go between the *)
(* checks, the validation and the record of its outcome.                   *)
(*                                                                         *)
(* A device is a device_key.  A request brings an approved token, a code,  *)
(* right or wrong, or the command that changes the code; what is refused   *)
(* before (syntax, size, a ban), and the token an accepted join is given,  *)
(* touch no state of the limiter.                                          *)
(***************************************************************************)
EXTENDS Integers, FiniteSets

CONSTANTS
  Devices,
  Requests,     \* requests under way at a time
  None,
  MaxAttempts,  \* MAX_OTP_ATTEMPTS
  GlobalMax,    \* MAX_GLOBAL_OTP_ATTEMPTS
  Lockout,      \* OTP_LOCKOUT
  Window,       \* GLOBAL_OTP_WINDOW
  Pause,        \* GLOBAL_OTP_PAUSE
  MaxTime,      \* bound: ticks
  MaxWrong      \* bound: wrong codes

VARIABLES
  now,
  attempts,   \* OtpLimiter.attempts; a device without an entry has a fresh one
  overall,    \* OtpLimiter.global
  request,    \* where each request stands, and whose it is
  wrong,      \* history: wrong codes of each device
  guesses,    \* history: wrong codes of all of them
  locks,      \* history: lockouts of each device
  pauses      \* history: pauses

limiter == <<attempts, overall>>
bad     == <<wrong, guesses>>
vars    == <<now, limiter, request, bad, locks, pauses>>

Fresh       == [failures |-> 0, until |-> None]
FreshGlobal == [failures |-> 0, start |-> None, until |-> None]
Free        == [at |-> "free", device |-> None]

Over(until)    == until # None /\ now >= until
Holding(until) == until # None /\ now < until

Init ==
  /\ now = 0
  /\ attempts = [d \in Devices |-> Fresh] /\ overall = FreshGlobal
  /\ request = [r \in Requests |-> Free]
  /\ wrong = [d \in Devices |-> 0] /\ guesses = 0 /\ locks = [d \in Devices |-> 0] /\ pauses = 0

Goes(r, where) == request' = [request EXCEPT ![r].at = where]
Ends(r)        == request' = [request EXCEPT ![r] = Free]

-----------------------------------------------------------------------------
(* process_whep                                                            *)

\* A join goes through the checks; one with an approved token skips them, for
\* record_success; the command that changes the code comes to clear the limiter.
Arrive(r, d, where) ==
  /\ request[r] = Free
  /\ request' = [request EXCEPT ![r] = [at |-> where, device |-> d]]
  /\ UNCHANGED <<now, limiter, bad, locks, pauses>>

\* global_paused: refused, or a pause that is over is forgotten.
CheckGlobal(r) ==
  /\ request[r].at = "global"
  /\ IF Holding(overall.until) THEN Ends(r) ELSE Goes(r, "device")
  /\ overall' = IF Over(overall.until) THEN FreshGlobal ELSE overall
  /\ UNCHANGED <<now, attempts, bad, locks, pauses>>

\* locked_for
CheckDevice(r) ==
  LET d == request[r].device
  IN /\ request[r].at = "device"
     /\ IF Holding(attempts[d].until) THEN Ends(r) ELSE Goes(r, "code")
     /\ attempts' = IF Over(attempts[d].until) THEN [attempts EXCEPT ![d] = Fresh] ELSE attempts
     /\ UNCHANGED <<now, overall, bad, locks, pauses>>

\* validate: right or wrong.
Validate(r) ==
  /\ request[r].at = "code"
  /\ \/ Goes(r, "success") /\ UNCHANGED bad
     \/ /\ Goes(r, "note") /\ guesses < MaxWrong
        /\ wrong' = [wrong EXCEPT ![request[r].device] = @ + 1] /\ guesses' = guesses + 1
  /\ UNCHANGED <<now, limiter, locks, pauses>>

\* record_success and reset: the device's entry, or all of them, and then the global one.
ClearDevice(r) ==
  /\ request[r].at \in {"success", "clear"}
  /\ attempts' = [d \in Devices |-> IF request[r].at = "clear" \/ d = request[r].device THEN Fresh ELSE attempts[d]]
  /\ Goes(r, "clear global")
  /\ UNCHANGED <<now, overall, bad, locks, pauses>>

ClearGlobal(r) ==
  /\ request[r].at = "clear global"
  /\ overall' = FreshGlobal
  /\ Ends(r)
  /\ UNCHANGED <<now, attempts, bad, locks, pauses>>

\* The window a failure counts in: the one that is open, or a new one.
InWindow(g) ==
  IF g.start # None /\ now - g.start < Window THEN g ELSE [g EXCEPT !.start = now, !.failures = 0]

\* note_global_failure: nothing is counted during a pause.
NoteGlobal(r) ==
  /\ request[r].at = "note"
  /\ Goes(r, "record")
  /\ IF Holding(overall.until) THEN UNCHANGED <<overall, pauses>>
     ELSE LET g == InWindow(IF Over(overall.until) THEN FreshGlobal ELSE overall)
              n == g.failures + 1
          IN IF n >= GlobalMax
             THEN overall' = [g EXCEPT !.failures = n, !.until = now + Pause] /\ pauses' = pauses + 1
             ELSE overall' = [g EXCEPT !.failures = n] /\ UNCHANGED pauses
  /\ UNCHANGED <<now, attempts, bad, locks>>

\* Mutant: record_failure leaves it to locked_for to forget a lockout that is over.
KeptEntry(entry) == entry

\* A lockout that is over is forgotten with its failures.
Entry(entry) == IF Over(entry.until) THEN Fresh ELSE entry

\* record_failure: one past the limit starts the lockout, or starts it again.
RecordFailure(r) ==
  LET d     == request[r].device
      entry == Entry(attempts[d])
      n     == entry.failures + 1
  IN /\ request[r].at = "record"
     /\ Ends(r)
     /\ attempts' = [attempts EXCEPT ![d] =
          [failures |-> n, until |-> IF n >= MaxAttempts THEN now + Lockout ELSE entry.until]]
     /\ locks' = IF n >= MaxAttempts /\ ~Holding(attempts[d].until) THEN [locks EXCEPT ![d] = @ + 1] ELSE locks
     /\ UNCHANGED <<now, overall, bad, pauses>>

Tick == now < MaxTime /\ now' = now + 1 /\ UNCHANGED <<limiter, request, bad, locks, pauses>>

Next ==
  \/ Tick
  \/ \E r \in Requests :
       \/ \E d \in Devices, where \in {"global", "success", "clear"} : Arrive(r, d, where)
       \/ CheckGlobal(r) \/ CheckDevice(r) \/ Validate(r)
       \/ ClearDevice(r) \/ ClearGlobal(r) \/ NoteGlobal(r) \/ RecordFailure(r)

Spec == Init /\ [][Next]_vars

-----------------------------------------------------------------------------
TypeOK ==
  /\ now \in 0..MaxTime
  /\ \A d \in Devices : attempts[d].failures \in 0..MaxWrong /\ attempts[d].until \in Nat \cup {None}
  /\ overall.failures \in 0..GlobalMax /\ (overall.until # None => overall.start # None)
  /\ \A r \in Requests :
       request[r].at \in {"free", "global", "device", "code", "success", "clear", "clear global", "note", "record"}

\* Every lockout has cost its device MaxAttempts wrong codes of its own, and every pause
\* has cost GlobalMax of somebody's, whatever was under way when the last one ended
\* (session.rs:1268-1289, 1218-1244).
LockoutsEarned ==
  /\ \A d \in Devices : locks[d] * MaxAttempts <= wrong[d]
  /\ pauses * GlobalMax <= guesses

=============================================================================
