-------------------------- MODULE ComponentsProofs --------------------------
(***************************************************************************)
(* Proofs about the components of MCComponents, for any numbers of         *)
(* callers, hosts, devices, requests, ids and reports, and any limits and  *)
(* sizes: the keyframe gate, the bitrate driver, the audio ring, the       *)
(* limiter of codes, the hosts on one display driver, and the repair of    *)
(* lost frames.                                                            *)
(*                                                                         *)
(* A component's invariant is about its own variables, so every step of    *)
(* another component keeps it; the proofs for the ring are those of        *)
(* AudioRingProofs, whose module is instantiated here.                     *)
(***************************************************************************)
EXTENDS MCComponents, Sequences, FiniteSetTheorems, WellFoundedInduction, TLAPS

-----------------------------------------------------------------------------
(* The keyframe gate.                                                      *)
(*                                                                         *)
(* The inductive invariant says what a caller knows between its loads: its *)
(* copy of the interval lies in the clamp, its copy of the last request is *)
(* no later than the last request, and its own clock reading is no later   *)
(* than the clock.  Two more conjuncts tie the back-off to the gate it     *)
(* stands in front of.                                                     *)

Inside == {"called", "limited", "deciding"}

\* A caller's clock reading is one the clock has shown.
AskedInTime == \A c \in Callers : at[c] \in Inside => asked[c] >= 1 /\ asked[c] <= now

\* A caller that has copied the interval has a value of the clamp.
LimitClamped ==
  \A c \in Callers : at[c] \in {"limited", "deciding"} => limit[c] >= Floor

\* What a caller saw of the last request is no later than the last request.
SeenInPast == \A c \in Callers : at[c] = "deciding" => seen[c] <= last

\* The back-off admitted a PLI no later than now, nor later than the reader's
\* clock reading for it.
AdmitInTime ==
  lastAdmit # None => /\ lastAdmit <= now
                      /\ at[Reader] \in Inside => lastAdmit <= asked[Reader]

\* Once the gate has dealt with a PLI that the back-off admitted, a keyframe was
\* asked for less than a gate window before it.
AdmitMet ==
  lastAdmit # None /\ at[Reader] = "idle" => last # 0 /\ lastAdmit - last < Cap

\* The inductive invariant.
Inv == /\ TypeOK /\ AskedInTime /\ LimitClamped /\ SeenInPast
       /\ AdmitInTime /\ AdmitMet

-----------------------------------------------------------------------------
\* The clamp does what it says, when its bounds are in order.
LEMMA ClampBounds ==
  ASSUME NEW x \in Nat, NEW lo \in Nat, NEW hi \in Nat, lo <= hi
  PROVE  Clamp(x, lo, hi) \in lo..hi
BY DEF Clamp

\* A caller that finds the window open, with the request before it at hand, is at
\* least Floor later than that request, unless there was none.
LEMMA OpenIsLater ==
  ASSUME Inv, NEW c \in Callers, at[c] = "deciding", ~Shut(c)
  PROVE  seen[c] = 0 \/ asked[c] - seen[c] >= Floor
<1>1. limit[c] \in Nat /\ limit[c] >= Floor /\ Floor \in Nat /\ Floor >= 1
  BY GateAssumption DEF Inv, TypeOK, LimitClamped
<1>2. seen[c] \in Nat /\ asked[c] \in Nat
  BY DEF Inv, TypeOK
<1>3. seen[c] = 0 \/ Minus(asked[c], seen[c]) >= limit[c]
  BY <1>1, <1>2 DEF Shut, Minus
<1>. QED BY <1>1, <1>2, <1>3 DEF Minus

\* A caller that is suppressed found a request less than Cap before its own.
LEMMA ShutIsRecent ==
  ASSUME Inv, NEW c \in Callers, at[c] = "deciding", Shut(c)
  PROVE  last # 0 /\ asked[c] - last < Cap
<1>1. limit[c] \in Nat /\ limit[c] <= Cap /\ Cap \in Nat /\ Cap >= 1
  BY GateAssumption DEF Inv, TypeOK
<1>2. seen[c] \in Nat /\ asked[c] \in Nat /\ last \in Nat /\ seen[c] <= last
  BY DEF Inv, TypeOK, SeenInPast
<1>3. seen[c] # 0 /\ Minus(asked[c], seen[c]) < limit[c]
  BY DEF Shut
<1>. QED BY <1>1, <1>2, <1>3 DEF Minus

LEMMA InitInv == Init => Inv
<1>. SUFFICES ASSUME Init PROVE Inv
  OBVIOUS
<1>1. TypeOK
  <2>1. now \in Nat \ {0} /\ last \in Nat /\ interval \in Floor..Cap
    BY GateAssumption DEF Init
  <2>2. /\ at \in [Callers -> {"idle", "passed", "called", "limited", "deciding"}]
        /\ asked \in [Callers -> Nat] /\ seen \in [Callers -> Nat]
        /\ limit \in [Callers -> {0} \cup Floor..Cap]
    BY DEF Init
  <2>3. /\ window \in {0} \cup BackoffFloor..HealthyCap
        /\ lastAdmit \in Nat \cup {None} /\ lastPli \in Nat \cup {None}
        /\ evidence \in BOOLEAN /\ spurious \in Nat
    BY DEF Init
  <2>. QED BY <2>1, <2>2, <2>3 DEF TypeOK
<1>. QED BY <1>1 DEF Init, Inv, AskedInTime, LimitClamped, SeenInPast,
                     AdmitInTime, AdmitMet, Inside

-----------------------------------------------------------------------------
(* One lemma per action.                                                   *)

LEMMA TickInv == Inv /\ Tick => Inv'
<1>. SUFFICES ASSUME Inv, Tick PROVE Inv'
  OBVIOUS
<1>. USE GateAssumption DEF Tick, gate, call, backoff
<1>1. TypeOK'
  BY DEF Inv, TypeOK
<1>2. AskedInTime'
  BY DEF Inv, TypeOK, AskedInTime
<1>3. LimitClamped' /\ SeenInPast' /\ AdmitMet'
  BY DEF Inv, LimitClamped, SeenInPast, AdmitMet
<1>4. AdmitInTime'
  BY DEF Inv, TypeOK, AdmitInTime
<1>. QED BY <1>1, <1>2, <1>3, <1>4 DEF Inv

LEMMA ObserveRttInv == Inv /\ ObserveRtt => Inv'
<1>. SUFFICES ASSUME Inv, ObserveRtt PROVE Inv'
  OBVIOUS
<1>1. interval' \in Floor..Cap
  BY ClampBounds, GateAssumption DEF ObserveRtt
<1>2. TypeOK'
  BY <1>1 DEF Inv, TypeOK, ObserveRtt, call, backoff
<1>3. AskedInTime' /\ LimitClamped' /\ SeenInPast' /\ AdmitInTime' /\ AdmitMet'
  BY DEF Inv, ObserveRtt, call, backoff, AskedInTime, LimitClamped, SeenInPast,
         AdmitInTime, AdmitMet
<1>. QED BY <1>2, <1>3 DEF Inv

LEMMA NoteEvidenceInv == Inv /\ NoteEvidence => Inv'
<1>. SUFFICES ASSUME Inv, NoteEvidence PROVE Inv'
  OBVIOUS
<1>. USE DEF NoteEvidence, gate, call
<1>1. TypeOK'
  BY DEF Inv, TypeOK
<1>2. AskedInTime' /\ LimitClamped' /\ SeenInPast' /\ AdmitInTime' /\ AdmitMet'
  BY DEF Inv, AskedInTime, LimitClamped, SeenInPast, AdmitInTime, AdmitMet
<1>. QED BY <1>1, <1>2 DEF Inv

LEMMA PliHeldInv == Inv /\ PliHeld => Inv'
<1>. SUFFICES ASSUME Inv, PliHeld PROVE Inv'
  OBVIOUS
<1>. USE DEF PliHeld, Arrive, gate, call
<1>1. TypeOK'
  BY DEF Inv, TypeOK, WindowMet
<1>2. AskedInTime' /\ LimitClamped' /\ SeenInPast' /\ AdmitInTime' /\ AdmitMet'
  BY DEF Inv, AskedInTime, LimitClamped, SeenInPast, AdmitInTime, AdmitMet
<1>. QED BY <1>1, <1>2 DEF Inv

LEMMA PliPassesInv == Inv /\ PliPasses => Inv'
<1>. SUFFICES ASSUME Inv, PliPasses PROVE Inv'
  OBVIOUS
<1>. USE DEF PliPasses, Arrive, gate
<1>1. window' \in BackoffFloor..HealthyCap
  <2>1. 2 * WindowMet \in Nat
    BY GateAssumption DEF Inv, TypeOK, WindowMet
  <2>2. PICK cap \in {BackoffCap, HealthyCap} :
          window' = Clamp(2 * WindowMet, BackoffFloor, cap)
    OBVIOUS
  <2>3. cap \in Nat /\ BackoffFloor \in Nat /\ BackoffFloor <= cap /\ cap <= HealthyCap
    BY GateAssumption
  <2>4. window' \in BackoffFloor..cap
    BY <2>1, <2>2, <2>3, ClampBounds
  <2>. QED BY <2>3, <2>4, GateAssumption
<1>2. TypeOK'
  BY <1>1, GateAssumption DEF Inv, TypeOK
<1>3. AskedInTime' /\ LimitClamped' /\ SeenInPast'
  BY DEF Inv, TypeOK, AskedInTime, LimitClamped, SeenInPast, Inside
<1>4. AdmitInTime' /\ AdmitMet'
  BY GateAssumption DEF Inv, TypeOK, AdmitInTime, AdmitMet, Inside
<1>. QED BY <1>2, <1>3, <1>4 DEF Inv

LEMMA AskInv == ASSUME NEW c \in Callers PROVE Inv /\ Ask(c) => Inv'
<1>. SUFFICES ASSUME Inv, Ask(c) PROVE Inv'
  OBVIOUS
<1>. USE DEF Ask, gate, backoff
<1>1. TypeOK'
  BY DEF Inv, TypeOK
<1>2. AskedInTime'
  BY DEF Inv, TypeOK, AskedInTime, Inside
<1>3. LimitClamped' /\ SeenInPast'
  BY DEF Inv, TypeOK, LimitClamped, SeenInPast
<1>4. AdmitInTime' /\ AdmitMet'
  BY GateAssumption DEF Inv, TypeOK, AdmitInTime, AdmitMet, Inside
<1>. QED BY <1>1, <1>2, <1>3, <1>4 DEF Inv

LEMMA LoadIntervalInv == ASSUME NEW c \in Callers PROVE Inv /\ LoadInterval(c) => Inv'
<1>. SUFFICES ASSUME Inv, LoadInterval(c) PROVE Inv'
  OBVIOUS
<1>. USE DEF LoadInterval, gate, backoff
<1>1. TypeOK'
  BY DEF Inv, TypeOK
<1>2. AskedInTime'
  BY DEF Inv, TypeOK, AskedInTime, Inside
<1>3. LimitClamped' /\ SeenInPast'
  BY GateAssumption DEF Inv, TypeOK, LimitClamped, SeenInPast
<1>4. AdmitInTime' /\ AdmitMet'
  BY GateAssumption DEF Inv, TypeOK, AdmitInTime, AdmitMet, Inside
<1>. QED BY <1>1, <1>2, <1>3, <1>4 DEF Inv

LEMMA LoadLastInv == ASSUME NEW c \in Callers PROVE Inv /\ LoadLast(c) => Inv'
<1>. SUFFICES ASSUME Inv, LoadLast(c) PROVE Inv'
  OBVIOUS
<1>. USE DEF LoadLast, gate, backoff
<1>1. TypeOK'
  BY DEF Inv, TypeOK
<1>2. AskedInTime'
  BY DEF Inv, TypeOK, AskedInTime, Inside
<1>3. LimitClamped' /\ SeenInPast'
  BY DEF Inv, TypeOK, LimitClamped, SeenInPast
<1>4. AdmitInTime' /\ AdmitMet'
  BY GateAssumption DEF Inv, TypeOK, AdmitInTime, AdmitMet, Inside
<1>. QED BY <1>1, <1>2, <1>3, <1>4 DEF Inv

LEMMA SuppressInv == ASSUME NEW c \in Callers PROVE Inv /\ Suppress(c) => Inv'
<1>. SUFFICES ASSUME Inv, Suppress(c) PROVE Inv'
  OBVIOUS
<1>. USE DEF Suppress, Return, gate, backoff
<1>1. TypeOK'
  BY DEF Inv, TypeOK
<1>2. AskedInTime' /\ LimitClamped' /\ SeenInPast' /\ AdmitInTime'
  BY GateAssumption DEF Inv, TypeOK, AskedInTime, LimitClamped, SeenInPast, AdmitInTime, Inside
<1>3. AdmitMet'
  <2>1. last # 0 /\ asked[c] - last < Cap
    BY ShutIsRecent
  <2>2. CASE c = Reader
    BY <2>1, <2>2, GateAssumption DEF Inv, TypeOK, AdmitInTime, AdmitMet, Inside
  <2>3. CASE c # Reader
    BY <2>3, GateAssumption DEF Inv, TypeOK, AdmitMet
  <2>. QED BY <2>2, <2>3
<1>. QED BY <1>1, <1>2, <1>3 DEF Inv

LEMMA AdmitInv == ASSUME NEW c \in Callers PROVE Inv /\ Admit(c) => Inv'
<1>. SUFFICES ASSUME Inv, Admit(c) PROVE Inv'
  OBVIOUS
<1>. USE DEF Admit, Return, backoff
<1>1. last \in Nat /\ asked[c] \in Nat /\ asked[c] >= 1 /\ asked[c] <= now
  BY DEF Inv, TypeOK, AskedInTime, Inside
<1>2. asked[c] >= last
  BY <1>1, OpenIsLater, GateAssumption DEF Inv, TypeOK
<1>3. TypeOK'
  BY <1>1 DEF Inv, TypeOK
<1>4. AskedInTime' /\ LimitClamped' /\ AdmitInTime'
  BY GateAssumption DEF Inv, TypeOK, AskedInTime, LimitClamped, AdmitInTime, Inside
<1>5. SeenInPast'
  BY <1>1, <1>2 DEF Inv, TypeOK, SeenInPast
<1>6. AdmitMet'
  <2>1. CASE c = Reader
    BY <1>1, <2>1, GateAssumption DEF Inv, TypeOK, AdmitInTime, AdmitMet, Inside
  <2>2. CASE c # Reader
    BY <1>1, <1>2, <2>2, GateAssumption DEF Inv, TypeOK, AdmitMet
  <2>. QED BY <2>1, <2>2
<1>. QED BY <1>3, <1>4, <1>5, <1>6 DEF Inv

LEMMA RetryInv == ASSUME NEW c \in Callers PROVE Inv /\ Retry(c) => Inv'
<1>. SUFFICES ASSUME Inv, Retry(c) PROVE Inv'
  OBVIOUS
<1>. USE DEF Retry, gate, backoff
<1>1. TypeOK'
  <2>1. spurious' \in Nat
    BY DEF Inv, TypeOK
  <2>. QED BY <2>1 DEF Inv, TypeOK
<1>2. AskedInTime' /\ LimitClamped' /\ AdmitInTime' /\ AdmitMet'
  BY DEF Inv, AskedInTime, LimitClamped, AdmitInTime, AdmitMet
<1>3. SeenInPast'
  BY DEF Inv, TypeOK, SeenInPast
<1>. QED BY <1>1, <1>2, <1>3 DEF Inv

\* The invariant is inductive.
LEMMA NextInv == Inv /\ [Next]_vars => Inv'
<1>. SUFFICES ASSUME Inv, [Next]_vars PROVE Inv'
  OBVIOUS
<1>1. CASE UNCHANGED vars
  BY <1>1 DEF vars, gate, call, backoff, Inv, TypeOK, AskedInTime, LimitClamped,
              SeenInPast, AdmitInTime, AdmitMet
<1>2. CASE Next
  BY <1>2, TickInv, ObserveRttInv, NoteEvidenceInv, PliHeldInv, PliPassesInv, AskInv,
     LoadIntervalInv, LoadLastInv, SuppressInv, AdmitInv, RetryInv DEF Next, Pli, Allow
<1>. QED BY <1>1, <1>2

\* Every reachable state satisfies the invariant.
LEMMA GateInvariant == Spec => []Inv
BY InitInv, NextInv, PTL DEF Spec

-----------------------------------------------------------------------------
\* The interval and every copy of it stay in the clamp of the session's locality,
\* and the back-off's window in its own (keyframe.rs:105-113, 247-251).
THEOREM TypeCorrect == Spec => []TypeOK
<1>1. Inv => TypeOK
  BY DEF Inv
<1>. QED BY <1>1, GateInvariant, PTL

\* Whoever asks, and however their loads and compare-exchanges interleave, two
\* admitted requests are at least Floor apart (keyframe.rs:119-142).
THEOREM RequestsSpaced == Spec => Spaced
<1>1. Inv /\ [Next]_vars => [last' # last => last = 0 \/ last' - last >= Floor]_vars
  <2>. SUFFICES ASSUME Inv, Next, last' # last PROVE last = 0 \/ last' - last >= Floor
    OBVIOUS
  <2>1. PICK c \in Callers : Admit(c)
    BY DEF Next, Tick, ObserveRtt, NoteEvidence, Pli, PliHeld, PliPasses, Ask, Allow,
           LoadInterval, LoadLast, Suppress, Retry, gate
  <2>. QED BY <2>1, OpenIsLater DEF Admit
<1>. QED BY <1>1, GateInvariant, PTL DEF Spec, Spaced

\* Nobody is turned away but by a request less than Cap older than its own, and
\* the first request of a session never (keyframe.rs:122-127).
THEOREM SuppressionHasCause == Spec => SuppressedForCause
<1>. DEFINE Cause == \A c \in Callers : at[c] = "deciding" /\ at'[c] = "idle" /\ last' = last
                       => last # 0 /\ asked[c] - last < Cap
<1>1. Inv /\ [Next]_vars => [Cause]_vars
  <2>. SUFFICES ASSUME Inv, Next, NEW c \in Callers,
                       at[c] = "deciding", at'[c] = "idle", last' = last
                PROVE  last # 0 /\ asked[c] - last < Cap
    BY DEF Cause
  <2>1. Suppress(c) \/ Admit(c)
    BY GateAssumption DEF Inv, TypeOK, Next, Tick, ObserveRtt, NoteEvidence, Pli, PliHeld,
           PliPasses, Ask, Allow, LoadInterval, LoadLast, Suppress, Admit, Retry, Return,
           call
  <2>2. CASE Suppress(c)
    BY <2>2, ShutIsRecent DEF Suppress
  <2>3. CASE Admit(c)
    BY <2>3, OpenIsLater, GateAssumption DEF Inv, TypeOK, AskedInTime, Inside, Admit
  <2>. QED BY <2>1, <2>2, <2>3
<1>. QED BY <1>1, GateInvariant, PTL DEF Spec, SuppressedForCause

\* The back-off and the gate behind it hold a PLI only within one window of each
\* of a keyframe that was asked for (keyframe.rs:233-254, webrtc_session.rs:1340).
THEOREM HoldHasCause == Spec => HeldForCause
<1>1. Inv /\ [Next]_vars => [PliHeld => last # 0 /\ now - last < Cap + HealthyCap]_vars
  <2>. SUFFICES ASSUME Inv, PliHeld PROVE last # 0 /\ now - last < Cap + HealthyCap
    OBVIOUS
  <2>1. /\ lastAdmit # None /\ Minus(now, lastAdmit) < WindowMet
        /\ last # 0 /\ lastAdmit - last < Cap
    BY DEF PliHeld, Arrive, Held, Inv, AdmitMet
  <2>2. /\ WindowMet \in Nat /\ WindowMet <= HealthyCap
        /\ lastAdmit \in Nat /\ lastAdmit <= now
        /\ now \in Nat /\ last \in Nat
    BY <2>1, GateAssumption DEF Inv, TypeOK, AdmitInTime, WindowMet
  <2>. QED BY <2>1, <2>2, GateAssumption DEF Minus
<1>. QED BY <1>1, GateInvariant, PTL DEF Spec, HeldForCause

-----------------------------------------------------------------------------
(* The bitrate driver.  What may still move the rate in a turn: a report   *)
(* that waits, one that the turn has taken, the same of the receiver       *)
(* reports, and lags.  Each of them was heard, but for the first.          *)

Worth(b) == IF b THEN 1 ELSE 0

News ==
  Worth(covered > 0) + Worth(drained.reported > 0) + Worth(rr # lastRR) + Worth(fresh) + Worth(lags > 0)

Counters == {covered, missing, losing, lags, heard, moved, gone, acted} \subseteq Nat

Drained == fresh \in BOOLEAN /\ drained \in [reported : Nat, lost : Nat]

BitrateInv ==
  /\ Counters /\ Drained
  /\ moved + News <= heard + 1
  /\ acted + missing + losing <= gone

\* A move that is paid for with news.
LEMMA Paid ==
  ASSUME NEW m \in Nat, NEW n \in Nat, NEW h \in Nat, m + n <= h + 1,
         NEW p \in Nat, NEW q \in Nat, p <= m + 1, q + 1 <= n
  PROVE  p + q <= h + 1
  OBVIOUS

LEMMA Lossless ==
  ASSUME NEW a \in Nat, NEW m \in Nat, NEW l \in Nat, NEW g \in Nat, a + m + l <= g, NEW k \in Nat
  PROVE  a + m + k <= g + k
  OBVIOUS

LEMMA BitrateInit == Tasks!Init => BitrateInv
  <1> SUFFICES ASSUME Tasks!Init PROVE BitrateInv
    OBVIOUS
  <1>1. /\ covered = 0 /\ missing = 0 /\ losing = 0 /\ lags = 0 /\ heard = 0 /\ moved = 0 /\ gone = 0
        /\ acted = 0 /\ fresh = FALSE /\ drained = [reported |-> 0, lost |-> 0]
    BY DEF Tasks!Init, Tasks!Nothing
  <1>2. /\ drained.reported = 0
        /\ fresh \in BOOLEAN /\ drained \in [reported : Nat, lost : Nat]
    BY <1>1
  <1>3. News <= 1 /\ News \in Nat
    BY <1>1, <1>2 DEF News, Worth
  <1> QED
    BY <1>1, <1>2, <1>3 DEF BitrateInv, Counters, Drained

LEMMA FeedbackKeeps == BitrateInv /\ Tasks!Feedback => BitrateInv'
  <1> SUFFICES ASSUME BitrateInv, Tasks!Feedback PROVE BitrateInv'
    OBVIOUS
  <1>1. CASE Tasks!ReportBegins
    <2>1. /\ UNCHANGED <<missing, lags, rr, drained, lastRR, fresh, moved, acted>>
          /\ heard' = heard + 1 /\ losing' \in {0, 1} /\ losing \in Nat
          /\ gone' = gone + losing' /\ covered' = covered + 2
      BY <1>1 DEF Tasks!ReportBegins, Tasks!Hear, Tasks!drive, BitrateInv, Counters
    <2>2. News' <= News + 1 /\ News \in Nat /\ News' \in Nat
      BY <2>1 DEF BitrateInv, Counters, Drained, News, Worth
    <2>6. losing' \in Nat /\ covered' \in Nat /\ heard' \in Nat /\ gone' \in Nat
      BY <2>1 DEF BitrateInv, Counters
    <2>3. Counters' /\ Drained'
      BY <2>1, <2>6 DEF BitrateInv, Counters, Drained
    <2>4. moved' + News' <= heard' + 1
      BY <2>1, <2>2, <2>3 DEF BitrateInv, Counters
    <2>5. acted' + missing' + losing' <= gone'
      <3>1. acted + missing + losing' <= gone + losing'
        BY <2>6, Lossless DEF BitrateInv, Counters
      <3> QED
        BY <2>1, <3>1
    <2> QED
      BY <2>3, <2>4, <2>5 DEF BitrateInv
  <1>2. CASE Tasks!ReportEnds
    BY <1>2 DEF Tasks!ReportEnds, BitrateInv, Counters, Drained, News, Worth, Tasks!link,
       Tasks!drive, Tasks!sound
  <1>3. CASE Tasks!ReceiverReport
    BY <1>3 DEF Tasks!ReceiverReport, Tasks!Hear, BitrateInv, Counters, Drained, News, Worth,
       Tasks!link, Tasks!drive,
                Tasks!sound
  <1>4. CASE Tasks!Lag
    BY <1>4 DEF Tasks!Lag, Tasks!Hear, BitrateInv, Counters, Drained, News, Worth, Tasks!link,
       Tasks!drive, Tasks!sound
  <1> QED
    BY <1>1, <1>2, <1>3, <1>4 DEF Tasks!Feedback

\* A turn moves the rate on news only, and uses it up.
LEMMA UpdateKeeps == BitrateInv /\ Tasks!Update => BitrateInv'
  <1> SUFFICES ASSUME BitrateInv, Tasks!Update PROVE BitrateInv'
    OBVIOUS
  <1>1. PICK a \in Tasks!LossArm : \E b \in Tasks!RttArm(a) : \E c \in Tasks!LagArm(b) :
               moved' = moved + (IF c = rate THEN 0 ELSE 1)
    BY DEF Tasks!Update
  <1>2. PICK b \in Tasks!RttArm(a) : \E c \in Tasks!LagArm(b) :
               moved' = moved + (IF c = rate THEN 0 ELSE 1)
    BY <1>1
  <1>3. PICK c \in Tasks!LagArm(b) : moved' = moved + (IF c = rate THEN 0 ELSE 1)
    BY <1>2
  <1>4. /\ UNCHANGED <<covered, missing, losing, rr, lastRR, heard, gone, acted>>
        /\ lags' = 0 /\ fresh' = FALSE /\ drained' = [reported |-> 0, lost |-> 0]
    BY DEF Tasks!Update, Tasks!Nothing, Tasks!link, Tasks!sound
  <1>7. /\ drained'.reported = 0 /\ drained' \in [reported : Nat, lost : Nat]
        /\ fresh' \in BOOLEAN /\ lags' \in Nat
    BY <1>4
  <1>8. News' <= News /\ News \in Nat /\ News' \in Nat
    BY <1>4, <1>7 DEF BitrateInv, Counters, Drained, News, Worth
  <1>5. CASE ~(drained.reported > 0) /\ ~fresh /\ ~(lags > 0)
    <2>1. a = rate
      BY <1>1, <1>5 DEF Tasks!LossArm
    <2>2. b = rate
      BY <1>2, <1>5, <2>1 DEF Tasks!RttArm, Tasks!RttCounts
    <2>3. c = rate
      BY <1>3, <1>5, <2>2 DEF Tasks!LagArm
    <2>4. moved' = moved
      BY <1>3, <2>3 DEF BitrateInv, Counters, Drained
    <2>5. Counters' /\ Drained'
      BY <1>4, <1>7, <2>4 DEF BitrateInv, Counters, Drained
    <2>6. moved' + News' <= heard' + 1
      BY <1>4, <1>8, <2>4, <2>5 DEF BitrateInv, Counters
    <2> QED
      BY <1>4, <2>5, <2>6 DEF BitrateInv
  <1>6. CASE drained.reported > 0 \/ fresh \/ lags > 0
    <2>1. News' + 1 <= News
      BY <1>4, <1>6, <1>7 DEF BitrateInv, Counters, Drained, News, Worth
    <2>2. moved' \in Nat /\ moved' <= moved + 1
      BY <1>3 DEF BitrateInv, Counters, Drained
    <2>5. Counters' /\ Drained'
      BY <1>4, <1>7, <2>2 DEF BitrateInv, Counters, Drained
    <2>6. moved' + News' <= heard' + 1
      <3>1. moved \in Nat /\ heard \in Nat
        BY DEF BitrateInv, Counters
      <3>2. moved' + News' <= heard + 1
        BY <3>1, <1>8, <2>1, <2>2, Paid DEF BitrateInv
      <3> QED
        BY <3>2, <1>4
    <2> QED
      BY <1>4, <2>5, <2>6 DEF BitrateInv
  <1> QED
    BY <1>5, <1>6

LEMMA DriveKeeps == BitrateInv /\ Tasks!Drive => BitrateInv'
  <1> SUFFICES ASSUME BitrateInv, Tasks!Drive PROVE BitrateInv'
    OBVIOUS
  <1>1. CASE Tasks!Poll
    BY <1>1 DEF Tasks!Poll, BitrateInv, Counters, Drained, News, Worth, Tasks!feedback
  <1>2. CASE Tasks!Stats
    <2>1. UNCHANGED <<missing, losing, rr, heard, gone, lags, moved, acted>>
      BY <1>2 DEF Tasks!Stats
    <2>2. CASE UNCHANGED <<covered, lastRR, fresh, drained>>
      BY <2>1, <2>2 DEF BitrateInv, Counters, Drained, News, Worth
    <2>3. CASE /\ fresh' = (rr # lastRR) /\ lastRR' = rr
               /\ drained' = [reported |-> covered, lost |-> 0] /\ covered' = 0
      <3>1. /\ drained'.reported = covered /\ drained' \in [reported : Nat, lost : Nat]
            /\ covered' \in Nat /\ ~(covered' > 0)
        BY <2>3 DEF BitrateInv, Counters, Drained
      <3>2. fresh' \in BOOLEAN /\ (fresh' <=> rr # lastRR) /\ ~(rr # lastRR)'
        BY <2>1, <2>3
      <3>3. Worth(fresh)' = Worth(rr # lastRR) /\ Worth(rr # lastRR)' = 0
        BY <3>2 DEF Worth
      <3>4. News' <= News /\ News \in Nat /\ News' \in Nat
        BY <2>1, <3>1, <3>3 DEF BitrateInv, Counters, Drained, News, Worth
      <3>5. Counters' /\ Drained'
        BY <2>1, <3>1, <3>2 DEF BitrateInv, Counters, Drained
      <3>6. moved' + News' <= heard' + 1
        BY <2>1, <3>4, <3>5 DEF BitrateInv, Counters
      <3> QED
        BY <2>1, <3>5, <3>6 DEF BitrateInv
    <2> QED
      BY <1>2, <2>2, <2>3 DEF Tasks!Stats, Tasks!Remembered
  <1>3. CASE Tasks!TakeLost
    BY <1>3 DEF Tasks!TakeLost, Tasks!EmptyLost, BitrateInv, Counters, Drained, News, Worth
  <1>4. CASE Tasks!Update
    BY <1>4, UpdateKeeps
  <1> QED
    BY <1>1, <1>2, <1>3, <1>4 DEF Tasks!Drive

LEMMA BitrateStep == BitrateInv /\ [ComponentsNext]_all => BitrateInv'
  <1> SUFFICES ASSUME BitrateInv, [ComponentsNext]_all PROVE BitrateInv'
    OBVIOUS
  <1>1. CASE UNCHANGED ofTasks
    BY <1>1 DEF ofTasks, BitrateInv, Counters, Drained, News
  <1>2. CASE Tasks!Link
    BY <1>2 DEF Tasks!Link, Tasks!Connect, Tasks!Disconnect, Tasks!End, Tasks!feedback, Tasks!drive,
                BitrateInv, Counters, Drained, News
  <1>3. CASE Tasks!Feedback
    BY <1>3, FeedbackKeeps
  <1>4. CASE Tasks!Drive
    BY <1>4, DriveKeeps
  <1> QED
    BY <1>1, <1>2, <1>3, <1>4 DEF ComponentsNext, KeyframesNext, RepairNext, SoundNext, DriverNext,
       CodesNext, BitrateNext, all

\* However turns and reports interleave, what is heard moves the rate in one turn at most,
\* and a lost packet is taken into account once at most (webrtc_session.rs:2199-2206).
THEOREM RateActsOnce == ComponentsSpec => []ActsOnce
  <1>1. ComponentsInit => BitrateInv
    BY BitrateInit DEF ComponentsInit
  <1>2. BitrateInv => ActsOnce
    BY DEF BitrateInv, Counters, Drained, News, Worth, ActsOnce, Tasks!ActsOnce
  <1> QED
    BY <1>1, <1>2, BitrateStep, PTL DEF ComponentsSpec

-----------------------------------------------------------------------------
(* The audio ring: the steps of its part are those of AudioRing.           *)

Ring == INSTANCE AudioRingProofs WITH Cap <- RingCap

LEMMA SoundIsRing == ComponentsSpec => Ring!Spec
  <1>1. Sound!Init => Ring!Init
    BY DEF Sound!Init, Ring!Init
  <1>2. Sound!Next => Ring!Next
    BY DEF Sound!Next, Sound!Push, Sound!PushAt, Sound!StorePos, Sound!StoreNs, Sound!Publish,
           Sound!Write, Sound!CopyIn, Sound!Release, Sound!Pop, Sound!CopyOut, Sound!Return,
           Sound!Anchor, Sound!LoadSeq, Sound!LoadPos, Sound!LoadNs, Sound!Compare, Sound!ProdAt,
           Sound!Free, Sound!Least, Sound!Between, Sound!GiveUp, Sound!Again, Sound!Unmoved,
           Sound!anchor,
           Ring!Next, Ring!Push, Ring!PushAt, Ring!StorePos, Ring!StoreNs, Ring!Publish,
           Ring!Write, Ring!CopyIn, Ring!Release, Ring!Pop, Ring!CopyOut, Ring!Return,
           Ring!Anchor, Ring!LoadSeq, Ring!LoadPos, Ring!LoadNs, Ring!Compare, Ring!ProdAt,
           Ring!Free, Ring!Least, Ring!Between, Ring!GiveUp, Ring!Again, Ring!Unmoved, Ring!anchor
  <1>3. [ComponentsNext]_all => [Ring!Next]_(Ring!vars)
    BY <1>2 DEF ComponentsNext, KeyframesNext, RepairNext, SoundNext, DriverNext, CodesNext,
       BitrateNext, all, ofSound, Ring!vars
  <1>4. ComponentsInit => Ring!Init
    BY <1>1 DEF ComponentsInit
  <1> QED
    BY <1>3, <1>4, PTL DEF ComponentsSpec, Ring!Spec

LEMMA RingSizes == Ring!Sizes
  BY ComponentsAssumption DEF Ring!Sizes

\* The consumer is given the samples in the order in which they were accepted, each once,
\* whatever the size of the ring and wherever its counters wrap (ring.rs:123-124).
THEOREM SoundInOrder == ComponentsSpec => []InOrder
  <1>1. Ring!Spec => []Ring!InOrder
    BY Ring!SamplesInOrder, RingSizes
  <1>2. Ring!InOrder => InOrder
    BY DEF InOrder, Sound!InOrder, Ring!InOrder
  <1> QED
    BY <1>1, <1>2, SoundIsRing, PTL

\* And a stamp is never paired with the place of another block (ring.rs:94-105, 162-176).
THEOREM SoundAnchorTrue == ComponentsSpec => []AnchorTrue
  <1>1. Ring!Spec => []Ring!AnchorTrue
    BY Ring!AnchorIsTrue, RingSizes
  <1>2. Ring!AnchorTrue => AnchorTrue
    BY DEF AnchorTrue, Sound!AnchorTrue, Ring!AnchorTrue
  <1> QED
    BY <1>1, <1>2, SoundIsRing, PTL

-----------------------------------------------------------------------------
(* The codes.  A device's wrong codes pay for its lockouts, for the        *)
(* failures on its entry, and for those that are still to be recorded; the *)
(* same for all devices together and the pauses.                           *)

Places == {"free", "global", "device", "code", "success", "clear", "clear global", "note", "record"}

Due(d) == {r \in Requests : request[r].at \in {"note", "record"} /\ request[r].device = d}
Unnoted == {r \in Requests : request[r].at = "note"}

\* Failures that count towards the next limit.
Open(entry) == IF entry.until = None THEN entry.failures ELSE 0

CodesTyped ==
  /\ clock \in Nat /\ guesses \in Nat /\ pauses \in Nat
  /\ wrong \in [Devices -> Nat] /\ locks \in [Devices -> Nat]
  /\ attempts \in [Devices -> [failures : Nat, until : Nat \cup {None}]]
  /\ overall \in [failures : Nat, start : Nat \cup {None}, until : Nat \cup {None}]
  /\ request \in [Requests -> [at : Places, device : Devices \cup {None}]]
  /\ \A r \in Requests : request[r].at # "free" => request[r].device \in Devices

DevicePaid(d) ==
  /\ attempts[d].until = None => attempts[d].failures < MaxAttempts
  /\ locks[d] * MaxAttempts + Open(attempts[d]) + Cardinality(Due(d)) <= wrong[d]

PausesPaid ==
  /\ overall.until = None => overall.failures < GlobalMax
  /\ pauses * GlobalMax + Open(overall) + Cardinality(Unnoted) <= guesses

CodesInv == CodesTyped /\ (\A d \in Devices : DevicePaid(d)) /\ PausesPaid

LEMMA Times == ASSUME NEW n \in Nat, NEW m \in Nat PROVE n * m \in Nat /\ (n + 1) * m = n * m + m
  OBVIOUS

\* A limit that is reached turns the failures that were counted into one more lockout.
LEMMA Reached ==
  ASSUME NEW p \in Nat, NEW f \in Nat, NEW o \in Nat, NEW c \in Nat, NEW w \in Nat, NEW l \in Nat,
         NEW q \in Nat, NEW k \in Nat,
         p + o + c <= w, f <= o, f + 1 >= l, f < l, k + 1 = c, q = p + l
  PROVE  q + 0 + k <= w
  OBVIOUS

LEMMA Recorded ==
  ASSUME NEW p \in Nat, NEW f \in Nat, NEW o \in Nat, NEW c \in Nat, NEW w \in Nat, NEW k \in Nat,
         NEW n \in Nat, p + o + c <= w, f <= o, k + 1 = c, n <= f + 1
  PROVE  p + n + k <= w
  OBVIOUS

LEMMA Limits == MaxAttempts \in Nat /\ GlobalMax \in Nat /\ MaxAttempts > 0 /\ GlobalMax > 0
                /\ Lockout \in Nat /\ Pause \in Nat
  BY ComponentsAssumption

LEMMA Counts == ASSUME NEW d PROVE /\ IsFiniteSet(Due(d)) /\ Cardinality(Due(d)) \in Nat
                                   /\ IsFiniteSet(Unnoted) /\ Cardinality(Unnoted) \in Nat
  <1>1. Due(d) \subseteq Requests /\ Unnoted \subseteq Requests
    BY DEF Due, Unnoted
  <1> QED
    BY <1>1, ComponentsAssumption, FS_Subset, FS_CardinalityType

\* A request goes on to another place, or ends.
LEMMA GoesOn ==
  ASSUME CodesTyped, NEW r \in Requests, NEW where \in Places, request[r].at # "free", Codes!Goes(r, where)
  PROVE  /\ request' \in [Requests -> [at : Places, device : Devices \cup {None}]]
         /\ request'[r].at = where /\ request'[r].device = request[r].device
         /\ \A q \in Requests \ {r} : request'[q] = request[q]
         /\ \A q \in Requests : request'[q].at # "free" => request'[q].device \in Devices
  <1>1. request' = [request EXCEPT ![r].at = where]
    BY DEF Codes!Goes
  <1>2. request[r] \in [at : Places, device : Devices \cup {None}]
    BY DEF CodesTyped
  <1> QED
    BY <1>1, <1>2 DEF CodesTyped

LEMMA EndsThere ==
  ASSUME CodesTyped, NEW r \in Requests, Codes!Ends(r)
  PROVE  /\ request' \in [Requests -> [at : Places, device : Devices \cup {None}]]
         /\ request'[r].at = "free"
         /\ \A q \in Requests \ {r} : request'[q] = request[q]
         /\ \A q \in Requests : request'[q].at # "free" => request'[q].device \in Devices
  <1>1. request' = [request EXCEPT ![r] = [at |-> "free", device |-> None]]
    BY DEF Codes!Ends, Codes!Free
  <1>2. [at |-> "free", device |-> None] \in [at : Places, device : Devices \cup {None}]
    BY DEF Places
  <1> QED
    BY <1>1, <1>2 DEF CodesTyped

LEMMA CodesStart == Codes!Init => CodesInv
  <1> SUFFICES ASSUME Codes!Init PROVE CodesInv
    OBVIOUS
  <1> USE DEF Codes!Init, Codes!Fresh, Codes!FreshGlobal, Codes!Free
  <1>1. CodesTyped
    BY DEF CodesTyped, Places
  <1>2. Unnoted = {} /\ \A d \in Devices : Due(d) = {}
    BY DEF Unnoted, Due
  <1>3. Cardinality({}) = 0
    BY FS_EmptySet
  <1>4. ASSUME NEW d \in Devices PROVE DevicePaid(d)
    BY <1>2, <1>3, Limits DEF DevicePaid, Open
  <1>5. PausesPaid
    BY <1>2, <1>3, Limits DEF PausesPaid, Open
  <1> QED
    BY <1>1, <1>4, <1>5 DEF CodesInv

\* What a step leaves alone, or only forgives.
LEMMA DeviceAsBefore ==
  ASSUME CodesTyped, NEW d \in Devices, DevicePaid(d), Due(d)' = Due(d), locks' = locks, wrong' = wrong,
         attempts'[d] = attempts[d] \/ attempts'[d] = [failures |-> 0, until |-> None]
  PROVE  DevicePaid(d)'
  <1>1. /\ attempts[d] \in [failures : Nat, until : Nat \cup {None}]
        /\ locks[d] \in Nat /\ wrong[d] \in Nat
    BY DEF CodesTyped
  <1>2. locks[d] * MaxAttempts \in Nat /\ Cardinality(Due(d)) \in Nat /\ Open(attempts[d]) \in Nat
    BY <1>1, Times, Limits, Counts DEF Open
  <1>3. CASE attempts'[d] = attempts[d]
    BY <1>3 DEF DevicePaid, Open
  <1>4. CASE attempts'[d] = [failures |-> 0, until |-> None]
    <2>1. attempts'[d].failures = 0 /\ attempts'[d].until = None
      BY <1>4
    <2>2. locks[d] * MaxAttempts + 0 + Cardinality(Due(d)) <= wrong[d]
      BY <1>1, <1>2 DEF DevicePaid
    <2> QED
      BY <2>1, <2>2, Limits DEF DevicePaid, Open
  <1> QED
    BY <1>3, <1>4

LEMMA PausesAsBefore ==
  ASSUME CodesTyped, PausesPaid, Unnoted' = Unnoted, pauses' = pauses, guesses' = guesses,
         overall' = overall \/ overall' = [failures |-> 0, start |-> None, until |-> None]
  PROVE  PausesPaid'
  <1>1. overall \in [failures : Nat, start : Nat \cup {None}, until : Nat \cup {None}]
    BY DEF CodesTyped
  <1>2. /\ pauses * GlobalMax \in Nat /\ Cardinality(Unnoted) \in Nat /\ Open(overall) \in Nat
        /\ guesses \in Nat
    BY <1>1, Times, Limits, Counts DEF Open, CodesTyped
  <1>3. CASE overall' = overall
    BY <1>3 DEF PausesPaid, Open
  <1>4. CASE overall' = [failures |-> 0, start |-> None, until |-> None]
    <2>1. overall'.failures = 0 /\ overall'.until = None
      BY <1>4
    <2>2. pauses * GlobalMax + 0 + Cardinality(Unnoted) <= guesses
      BY <1>2 DEF PausesPaid
    <2> QED
      BY <2>1, <2>2, Limits DEF PausesPaid, Open
  <1> QED
    BY <1>3, <1>4

LEMMA ArriveKeeps ==
  ASSUME CodesInv, NEW r \in Requests, NEW d \in Devices, NEW where \in {"global", "success", "clear"},
         Codes!Arrive(r, d, where)
  PROVE  CodesInv'
  <1>1. /\ request[r] = [at |-> "free", device |-> None]
        /\ request' = [request EXCEPT ![r] = [at |-> where, device |-> d]]
        /\ UNCHANGED <<clock, attempts, overall, wrong, guesses, locks, pauses>>
    BY DEF Codes!Arrive, Codes!Free, Codes!limiter, Codes!bad
  <1>2. [at |-> where, device |-> d] \in [at : Places, device : Devices \cup {None}]
    BY DEF Places
  <1>3. /\ request' \in [Requests -> [at : Places, device : Devices \cup {None}]]
        /\ request'[r] = [at |-> where, device |-> d] /\ \A q \in Requests \ {r} : request'[q] = request[q]
    BY <1>1, <1>2 DEF CodesInv, CodesTyped
  <1>4. CodesTyped'
    BY <1>1, <1>3 DEF CodesInv, CodesTyped
  <1>5. Unnoted' = Unnoted /\ \A e \in Devices : Due(e)' = Due(e)
    BY <1>1, <1>3 DEF Unnoted, Due
  <1>6. \A e \in Devices : DevicePaid(e)'
    BY <1>1, <1>5, DeviceAsBefore DEF CodesInv
  <1>7. PausesPaid'
    BY <1>1, <1>5, PausesAsBefore DEF CodesInv
  <1> QED
    BY <1>4, <1>6, <1>7 DEF CodesInv

LEMMA CheckGlobalKeeps == ASSUME CodesInv, NEW r \in Requests, Codes!CheckGlobal(r) PROVE CodesInv'
  <1>1. /\ request[r].at = "global"
        /\ Codes!Ends(r) \/ Codes!Goes(r, "device")
        /\ overall' = overall \/ overall' = [failures |-> 0, start |-> None, until |-> None]
        /\ UNCHANGED <<clock, attempts, wrong, guesses, locks, pauses>>
    BY DEF Codes!CheckGlobal, Codes!FreshGlobal, Codes!bad
  <1>2. /\ request' \in [Requests -> [at : Places, device : Devices \cup {None}]]
        /\ request'[r].at \in {"free", "device"}
        /\ \A q \in Requests \ {r} : request'[q] = request[q]
        /\ \A q \in Requests : request'[q].at # "free" => request'[q].device \in Devices
    <2>1. CASE Codes!Ends(r)
      BY <2>1, EndsThere DEF CodesInv
    <2>2. CASE Codes!Goes(r, "device")
      BY <1>1, <2>2, GoesOn DEF CodesInv, Places
    <2> QED
      BY <1>1, <2>1, <2>2
  <1>3. overall' \in [failures : Nat, start : Nat \cup {None}, until : Nat \cup {None}]
    BY <1>1 DEF CodesInv, CodesTyped
  <1>4. CodesTyped'
    BY <1>1, <1>2, <1>3 DEF CodesInv, CodesTyped
  <1>5. Unnoted' = Unnoted /\ \A e \in Devices : Due(e)' = Due(e)
    BY <1>1, <1>2 DEF Unnoted, Due
  <1>6. \A e \in Devices : DevicePaid(e)'
    BY <1>1, <1>5, DeviceAsBefore DEF CodesInv
  <1>7. PausesPaid'
    BY <1>1, <1>5, PausesAsBefore DEF CodesInv
  <1> QED
    BY <1>4, <1>6, <1>7 DEF CodesInv

LEMMA CheckDeviceKeeps == ASSUME CodesInv, NEW r \in Requests, Codes!CheckDevice(r) PROVE CodesInv'
  <1> DEFINE d == request[r].device
             fresh0 == [failures |-> 0, until |-> None]
  <1>1. /\ request[r].at = "device"
        /\ Codes!Ends(r) \/ Codes!Goes(r, "code")
        /\ attempts' = attempts \/ attempts' = [attempts EXCEPT ![d] = fresh0]
        /\ UNCHANGED <<clock, overall, wrong, guesses, locks, pauses>>
    BY DEF Codes!CheckDevice, Codes!Fresh, Codes!bad
  <1>2. /\ request' \in [Requests -> [at : Places, device : Devices \cup {None}]]
        /\ request'[r].at \in {"free", "code"}
        /\ \A q \in Requests \ {r} : request'[q] = request[q]
        /\ \A q \in Requests : request'[q].at # "free" => request'[q].device \in Devices
    <2>1. CASE Codes!Ends(r)
      BY <2>1, EndsThere DEF CodesInv
    <2>2. CASE Codes!Goes(r, "code")
      BY <1>1, <2>2, GoesOn DEF CodesInv, Places
    <2> QED
      BY <1>1, <2>1, <2>2
  <1>3. /\ attempts' \in [Devices -> [failures : Nat, until : Nat \cup {None}]]
        /\ \A e \in Devices : attempts'[e] = attempts[e] \/ attempts'[e] = fresh0
    <2>1. fresh0 \in [failures : Nat, until : Nat \cup {None}]
      OBVIOUS
    <2> HIDE DEF fresh0, d
    <2> QED
      BY <1>1, <2>1 DEF CodesInv, CodesTyped
  <1>4. CodesTyped'
    BY <1>1, <1>2, <1>3 DEF CodesInv, CodesTyped
  <1>5. Unnoted' = Unnoted /\ \A e \in Devices : Due(e)' = Due(e)
    BY <1>1, <1>2 DEF Unnoted, Due
  <1>6. \A e \in Devices : DevicePaid(e)'
    BY <1>1, <1>3, <1>5, DeviceAsBefore DEF CodesInv
  <1>7. PausesPaid'
    BY <1>1, <1>5, PausesAsBefore DEF CodesInv
  <1> QED
    BY <1>4, <1>6, <1>7 DEF CodesInv

LEMMA ClearDeviceKeeps == ASSUME CodesInv, NEW r \in Requests, Codes!ClearDevice(r) PROVE CodesInv'
  <1> DEFINE fresh0 == [failures |-> 0, until |-> None]
  <1>1. /\ request[r].at \in {"success", "clear"} /\ Codes!Goes(r, "clear global")
        /\ UNCHANGED <<clock, overall, wrong, guesses, locks, pauses>>
    BY DEF Codes!ClearDevice, Codes!bad
  <1>2. /\ request' \in [Requests -> [at : Places, device : Devices \cup {None}]]
        /\ request'[r].at = "clear global"
        /\ \A q \in Requests \ {r} : request'[q] = request[q]
        /\ \A q \in Requests : request'[q].at # "free" => request'[q].device \in Devices
    BY <1>1, GoesOn DEF CodesInv, Places
  <1>3. /\ attempts' \in [Devices -> [failures : Nat, until : Nat \cup {None}]]
        /\ \A e \in Devices : attempts'[e] = attempts[e] \/ attempts'[e] = fresh0
    <2>1. fresh0 \in [failures : Nat, until : Nat \cup {None}]
      OBVIOUS
    <2>2. attempts' = [e \in Devices |-> IF request[r].at = "clear" \/ e = request[r].device
                                         THEN fresh0 ELSE attempts[e]]
      BY DEF Codes!ClearDevice, Codes!Fresh
    <2> HIDE DEF fresh0
    <2> QED
      BY <2>1, <2>2 DEF CodesInv, CodesTyped
  <1>4. CodesTyped'
    BY <1>1, <1>2, <1>3 DEF CodesInv, CodesTyped
  <1>5. Unnoted' = Unnoted /\ \A e \in Devices : Due(e)' = Due(e)
    BY <1>1, <1>2 DEF Unnoted, Due
  <1>6. \A e \in Devices : DevicePaid(e)'
    BY <1>1, <1>3, <1>5, DeviceAsBefore DEF CodesInv
  <1>7. PausesPaid'
    BY <1>1, <1>5, PausesAsBefore DEF CodesInv
  <1> QED
    BY <1>4, <1>6, <1>7 DEF CodesInv

LEMMA ClearGlobalKeeps == ASSUME CodesInv, NEW r \in Requests, Codes!ClearGlobal(r) PROVE CodesInv'
  <1>1. /\ request[r].at = "clear global" /\ Codes!Ends(r)
        /\ overall' = [failures |-> 0, start |-> None, until |-> None]
        /\ UNCHANGED <<clock, attempts, wrong, guesses, locks, pauses>>
    BY DEF Codes!ClearGlobal, Codes!FreshGlobal, Codes!bad
  <1>2. /\ request' \in [Requests -> [at : Places, device : Devices \cup {None}]]
        /\ request'[r].at = "free"
        /\ \A q \in Requests \ {r} : request'[q] = request[q]
        /\ \A q \in Requests : request'[q].at # "free" => request'[q].device \in Devices
    BY <1>1, EndsThere DEF CodesInv
  <1>3. overall' \in [failures : Nat, start : Nat \cup {None}, until : Nat \cup {None}]
    BY <1>1
  <1>4. CodesTyped'
    BY <1>1, <1>2, <1>3 DEF CodesInv, CodesTyped
  <1>5. Unnoted' = Unnoted /\ \A e \in Devices : Due(e)' = Due(e)
    BY <1>1, <1>2 DEF Unnoted, Due
  <1>6. \A e \in Devices : DevicePaid(e)'
    BY <1>1, <1>5, DeviceAsBefore DEF CodesInv
  <1>7. PausesPaid'
    BY <1>1, <1>5, PausesAsBefore DEF CodesInv
  <1> QED
    BY <1>4, <1>6, <1>7 DEF CodesInv

\* One more code that is still to be noted and recorded.
LEMMA Owed ==
  ASSUME NEW p \in Nat, NEW o \in Nat, NEW c \in Nat, NEW w \in Nat, NEW k \in Nat, NEW v \in Nat,
         p + o + c <= w, k <= c + 1, v = w + 1
  PROVE  p + o + k <= v
  OBVIOUS

LEMMA ValidateKeeps == ASSUME CodesInv, NEW r \in Requests, Codes!Validate(r) PROVE CodesInv'
  <1>0. PICK d : d = request[r].device
    OBVIOUS
  <1>1. /\ request[r].at = "code" /\ UNCHANGED <<clock, attempts, overall, locks, pauses>>
        /\ \/ Codes!Goes(r, "success") /\ UNCHANGED <<wrong, guesses>>
           \/ /\ Codes!Goes(r, "note") /\ guesses' = guesses + 1
              /\ wrong' = [wrong EXCEPT ![d] = @ + 1]
    BY <1>0 DEF Codes!Validate, Codes!limiter, Codes!bad
  <1>2. d \in Devices
    BY <1>0, <1>1 DEF CodesInv, CodesTyped
  <1>3. CASE Codes!Goes(r, "success") /\ UNCHANGED <<wrong, guesses>>
    <2>2. /\ request' \in [Requests -> [at : Places, device : Devices \cup {None}]]
          /\ request'[r].at = "success"
          /\ \A q \in Requests \ {r} : request'[q] = request[q]
          /\ \A q \in Requests : request'[q].at # "free" => request'[q].device \in Devices
      BY <1>1, <1>3, GoesOn DEF CodesInv, Places
    <2>4. CodesTyped'
      BY <1>1, <1>3, <2>2 DEF CodesInv, CodesTyped
    <2>5. Unnoted' = Unnoted /\ \A e \in Devices : Due(e)' = Due(e)
      BY <1>1, <2>2 DEF Unnoted, Due
    <2>6. \A e \in Devices : DevicePaid(e)'
      BY <1>1, <1>3, <2>5, DeviceAsBefore DEF CodesInv
    <2>7. PausesPaid'
      BY <1>1, <1>3, <2>5, PausesAsBefore DEF CodesInv
    <2> QED
      BY <2>4, <2>6, <2>7 DEF CodesInv
  <1>4. CASE Codes!Goes(r, "note") /\ guesses' = guesses + 1 /\ wrong' = [wrong EXCEPT ![d] = @ + 1]
    <2>2. /\ request' \in [Requests -> [at : Places, device : Devices \cup {None}]]
          /\ request'[r].at = "note" /\ request'[r].device = d
          /\ \A q \in Requests \ {r} : request'[q] = request[q]
          /\ \A q \in Requests : request'[q].at # "free" => request'[q].device \in Devices
      BY <1>0, <1>1, <1>4, GoesOn DEF CodesInv, Places
    <2>3. /\ guesses' \in Nat /\ wrong' \in [Devices -> Nat] /\ wrong'[d] = wrong[d] + 1
          /\ \A e \in Devices \ {d} : wrong'[e] = wrong[e]
      BY <1>2, <1>4 DEF CodesInv, CodesTyped
    <2>4. CodesTyped'
      BY <1>1, <2>2, <2>3 DEF CodesInv, CodesTyped
    <2>5. /\ Unnoted' = Unnoted \cup {r} /\ r \notin Unnoted
          /\ Due(d)' = Due(d) \cup {r} /\ r \notin Due(d)
          /\ \A e \in Devices \ {d} : Due(e)' = Due(e)
      BY <1>0, <1>1, <2>2 DEF Unnoted, Due
    <2>6. /\ Cardinality(Unnoted)' = Cardinality(Unnoted) + 1
          /\ Cardinality(Due(d))' = Cardinality(Due(d)) + 1
      BY <2>5, Counts, FS_AddElement
    <2>7. DevicePaid(d)'
      <3>1. /\ locks[d] * MaxAttempts \in Nat /\ Open(attempts[d]) \in Nat /\ Cardinality(Due(d)) \in Nat
            /\ wrong[d] \in Nat /\ wrong'[d] \in Nat /\ Cardinality(Due(d))' \in Nat
        BY <1>2, <2>3, <2>6, Times, Limits, Counts DEF CodesInv, CodesTyped, Open
      <3>2. locks[d] * MaxAttempts + Open(attempts[d]) + Cardinality(Due(d))' <= wrong'[d]
        BY <1>2, <2>3, <2>6, <3>1, Owed DEF CodesInv, DevicePaid
      <3> QED
        BY <1>1, <1>2, <3>2 DEF CodesInv, DevicePaid, Open
    <2>8. ASSUME NEW e \in Devices \ {d} PROVE DevicePaid(e)'
      BY <1>1, <2>3, <2>5 DEF CodesInv, DevicePaid, Open
    <2>9. PausesPaid'
      <3>1. /\ pauses * GlobalMax \in Nat /\ Open(overall) \in Nat /\ Cardinality(Unnoted) \in Nat
            /\ guesses \in Nat /\ guesses' \in Nat /\ Cardinality(Unnoted)' \in Nat
        BY <2>3, <2>6, Times, Limits, Counts DEF CodesInv, CodesTyped, Open
      <3>2. pauses * GlobalMax + Open(overall) + Cardinality(Unnoted)' <= guesses'
        BY <1>4, <2>6, <3>1, Owed DEF CodesInv, PausesPaid
      <3> QED
        BY <1>1, <3>2 DEF CodesInv, PausesPaid, Open
    <2> QED
      BY <2>4, <2>7, <2>8, <2>9 DEF CodesInv
  <1> QED
    BY <1>1, <1>3, <1>4

LEMMA NoteGlobalKeeps == ASSUME CodesInv, NEW r \in Requests, Codes!NoteGlobal(r) PROVE CodesInv'
  <1> DEFINE Global == [failures : Nat, start : Nat \cup {None}, until : Nat \cup {None}]
             found  == IF Codes!Over(overall.until) THEN Codes!FreshGlobal ELSE overall
             g      == Codes!InWindow(found)
             n      == g.failures + 1
  <1>1. /\ request[r].at = "note" /\ Codes!Goes(r, "record")
        /\ UNCHANGED <<clock, attempts, wrong, guesses, locks>>
    BY DEF Codes!NoteGlobal, Codes!bad
  <1>2. /\ request' \in [Requests -> [at : Places, device : Devices \cup {None}]]
        /\ request'[r].at = "record" /\ request'[r].device = request[r].device
        /\ \A q \in Requests \ {r} : request'[q] = request[q]
        /\ \A q \in Requests : request'[q].at # "free" => request'[q].device \in Devices
    BY <1>1, GoesOn DEF CodesInv, Places
  <1>3. /\ Unnoted' = Unnoted \ {r} /\ r \in Unnoted
        /\ \A e \in Devices : Due(e)' = Due(e)
    BY <1>1, <1>2 DEF Unnoted, Due
  <1>4. /\ Cardinality(Unnoted)' + 1 = Cardinality(Unnoted)
        /\ Cardinality(Unnoted) \in Nat /\ Cardinality(Unnoted)' \in Nat
    BY <1>3, Counts, FS_RemoveElement, FS_Subset, FS_CardinalityType
  <1>5. \A e \in Devices : DevicePaid(e)'
    BY <1>1, <1>3, DeviceAsBefore DEF CodesInv
  <1>6. /\ overall \in Global /\ clock \in Nat /\ None \notin Nat
        /\ pauses * GlobalMax \in Nat /\ Open(overall) \in Nat /\ guesses \in Nat /\ pauses \in Nat
    BY GateAssumption, Times, Limits DEF CodesInv, CodesTyped, Open
  <1>7. CASE UNCHANGED <<overall, pauses>>
    <2>1. CodesTyped'
      BY <1>1, <1>2, <1>7 DEF CodesInv, CodesTyped
    <2>2. pauses * GlobalMax + Open(overall) + Cardinality(Unnoted)' <= guesses
      BY <1>4, <1>6 DEF CodesInv, PausesPaid
    <2> QED
      BY <1>1, <1>5, <1>7, <2>1, <2>2 DEF CodesInv, PausesPaid, Open
  <1>8. CASE ~Codes!Holding(overall.until)
    <2>1. /\ found \in Global /\ found.until = None /\ found.failures <= Open(overall)
          /\ found.failures < GlobalMax /\ found.failures \in Nat
      <3>1. CASE Codes!Over(overall.until)
        BY <1>6, <3>1, Limits DEF Codes!FreshGlobal
      <3>2. CASE ~Codes!Over(overall.until)
        <4>1. overall.until = None
          BY <1>6, <1>8, <3>2 DEF Codes!Over, Codes!Holding
        <4> QED
          BY <1>6, <3>2, <4>1 DEF CodesInv, PausesPaid, Open
      <3> QED
        BY <3>1, <3>2
    <2> HIDE DEF found
    <2>2. g = found \/ g = [found EXCEPT !.start = clock, !.failures = 0]
      BY DEF Codes!InWindow
    <2>3. /\ g \in Global /\ g.until = None /\ g.failures <= Open(overall)
          /\ g.failures < GlobalMax /\ g.failures \in Nat
      <3>1. CASE g = found
        BY <2>1, <3>1
      <3>2. CASE g = [found EXCEPT !.start = clock, !.failures = 0]
        <4>1. clock \in Nat /\ found \in Global
          BY <1>6, <2>1
        <4>2. [found EXCEPT !.start = clock, !.failures = 0] \in Global
          BY <4>1
        <4>3. g \in Global /\ g.until = None /\ g.failures = 0
          BY <2>1, <3>2, <4>1, <4>2
        <4> QED
          BY <1>6, <4>3, Limits
      <3> QED
        BY <2>2, <3>1, <3>2
    <2> HIDE DEF g
    <2>4. IF n >= GlobalMax
          THEN overall' = [g EXCEPT !.failures = n, !.until = clock + Pause] /\ pauses' = pauses + 1
          ELSE overall' = [g EXCEPT !.failures = n] /\ pauses' = pauses
      BY <1>8 DEF Codes!NoteGlobal, g, found
    <2>5. CASE n >= GlobalMax
      <3>1. clock + Pause \in Nat /\ n \in Nat /\ pauses' \in Nat /\ clock + Pause # None
        BY <1>6, <2>3, <2>4, <2>5, Limits
      <3>2. overall' \in Global /\ overall'.until # None
        BY <2>3, <2>4, <2>5, <3>1
      <3>3. CodesTyped'
        BY <1>1, <1>2, <3>1, <3>2 DEF CodesInv, CodesTyped
      <3>4. pauses' * GlobalMax = pauses * GlobalMax + GlobalMax /\ pauses' * GlobalMax \in Nat
        BY <1>6, <2>4, <2>5, Times, Limits
      <3>5. pauses' * GlobalMax + 0 + Cardinality(Unnoted)' <= guesses
        BY <1>4, <1>6, <2>3, <2>5, <3>4, Reached, Limits DEF CodesInv, PausesPaid
      <3> QED
        BY <1>1, <1>5, <3>2, <3>3, <3>5 DEF CodesInv, PausesPaid, Open
    <2>6. CASE ~(n >= GlobalMax)
      <3>1. n \in Nat /\ n < GlobalMax
        BY <2>3, <2>6, Limits
      <3>2. overall' \in Global /\ overall'.until = None /\ overall'.failures = n
        BY <2>3, <2>4, <2>6, <3>1
      <3>3. CodesTyped'
        BY <1>1, <1>2, <1>6, <2>4, <2>6, <3>2 DEF CodesInv, CodesTyped
      <3>5. pauses * GlobalMax + n + Cardinality(Unnoted)' <= guesses
        BY <1>4, <1>6, <2>3, <3>1, Recorded DEF CodesInv, PausesPaid
      <3> QED
        BY <1>1, <1>5, <2>4, <2>6, <3>1, <3>2, <3>3, <3>5 DEF CodesInv, PausesPaid, Open
    <2> QED
      BY <2>5, <2>6
  <1> QED
    BY <1>7, <1>8 DEF Codes!NoteGlobal

LEMMA RecordFailureKeeps == ASSUME CodesInv, NEW r \in Requests, Codes!RecordFailure(r) PROVE CodesInv'
  <1>0. PICK d : d = request[r].device
    OBVIOUS
  <1> DEFINE Record == [failures : Nat, until : Nat \cup {None}]
             entry  == Codes!Entry(attempts[d])
             n      == entry.failures + 1
             until  == IF n >= MaxAttempts THEN clock + Lockout ELSE entry.until
  <1>1. /\ request[r].at = "record" /\ Codes!Ends(r)
        /\ attempts' = [attempts EXCEPT ![d] = [failures |-> n, until |-> until]]
        /\ locks' = IF n >= MaxAttempts /\ ~Codes!Holding(attempts[d].until) THEN [locks EXCEPT ![d] = @ + 1]
                    ELSE locks
        /\ UNCHANGED <<clock, overall, wrong, guesses, pauses>>
    BY <1>0 DEF Codes!RecordFailure, Codes!bad
  <1>2. /\ d \in Devices /\ attempts[d] \in Record /\ clock \in Nat /\ None \notin Nat
        /\ locks[d] \in Nat /\ wrong[d] \in Nat /\ locks[d] * MaxAttempts \in Nat
        /\ Open(attempts[d]) \in Nat
    BY <1>0, <1>1, GateAssumption, Times, Limits DEF CodesInv, CodesTyped, Open
  <1>3. /\ request' \in [Requests -> [at : Places, device : Devices \cup {None}]]
        /\ request'[r].at = "free"
        /\ \A q \in Requests \ {r} : request'[q] = request[q]
        /\ \A q \in Requests : request'[q].at # "free" => request'[q].device \in Devices
    BY <1>1, EndsThere DEF CodesInv
  <1>4. /\ Unnoted' = Unnoted
        /\ Due(d)' = Due(d) \ {r} /\ r \in Due(d)
        /\ \A e \in Devices \ {d} : Due(e)' = Due(e)
    BY <1>0, <1>1, <1>3 DEF Unnoted, Due
  <1>5. /\ Cardinality(Due(d))' + 1 = Cardinality(Due(d))
        /\ Cardinality(Due(d)) \in Nat /\ Cardinality(Due(d))' \in Nat
    BY <1>4, Counts, FS_RemoveElement, FS_Subset, FS_CardinalityType
  <1>6. /\ entry \in Record /\ n \in Nat
        /\ ~Codes!Holding(attempts[d].until) =>
             entry.until = None /\ entry.failures <= Open(attempts[d]) /\ entry.failures < MaxAttempts
        /\ Codes!Holding(attempts[d].until) => entry.until # None
    <2>1. CASE Codes!Over(attempts[d].until)
      BY <1>2, <2>1, Limits DEF Codes!Entry, Codes!Fresh, Codes!Over, Codes!Holding
    <2>2. CASE ~Codes!Over(attempts[d].until)
      <3>1. entry = attempts[d] /\ entry \in Record /\ n \in Nat
        BY <1>2, <2>2 DEF Codes!Entry
      <3>2. ~Codes!Holding(attempts[d].until) => attempts[d].until = None
        BY <1>2, <2>2 DEF Codes!Over, Codes!Holding
      <3>3. Codes!Holding(attempts[d].until) => attempts[d].until # None
        BY DEF Codes!Holding
      <3> HIDE DEF entry
      <3> QED
        BY <1>2, <3>1, <3>2, <3>3 DEF CodesInv, DevicePaid, Open
    <2> QED
      BY <2>1, <2>2
  <1> HIDE DEF entry
  <1>7. until \in Nat \cup {None} /\ (n >= MaxAttempts => until # None)
    BY <1>2, <1>6, Limits
  <1>8. /\ attempts'[d].failures = n /\ attempts'[d].until = until
        /\ \A e \in Devices \ {d} : attempts'[e] = attempts[e] /\ locks'[e] = locks[e]
        /\ attempts' \in [Devices -> Record] /\ locks' \in [Devices -> Nat]
    <2>1. [failures |-> n, until |-> until] \in Record
      BY <1>6, <1>7
    <2> HIDE DEF n, until, Record
    <2>2. /\ attempts'[d] = [failures |-> n, until |-> until]
          /\ \A e \in Devices \ {d} : attempts'[e] = attempts[e]
          /\ attempts' \in [Devices -> Record]
      BY <1>1, <1>2, <2>1 DEF CodesInv, CodesTyped, Record
    <2>3. (\A e \in Devices \ {d} : locks'[e] = locks[e]) /\ locks' \in [Devices -> Nat]
      BY <1>1, <1>2 DEF CodesInv, CodesTyped
    <2> QED
      BY <2>2, <2>3
  <1>9. CodesTyped'
    BY <1>1, <1>3, <1>8 DEF CodesInv, CodesTyped
  <1>10. PausesPaid'
    BY <1>1, <1>4, PausesAsBefore DEF CodesInv
  <1>11. ASSUME NEW e \in Devices \ {d} PROVE DevicePaid(e)'
    BY <1>1, <1>4, <1>8 DEF CodesInv, DevicePaid, Open
  <1>12. DevicePaid(d)'
    <2>1. CASE Codes!Holding(attempts[d].until)
      <3>1. until # None /\ locks' = locks
        BY <1>1, <1>6, <1>7, <2>1
      <3>2. locks[d] * MaxAttempts + 0 + Cardinality(Due(d))' <= wrong[d]
        BY <1>2, <1>5 DEF CodesInv, DevicePaid
      <3> QED
        BY <1>1, <1>8, <3>1, <3>2 DEF DevicePaid, Open
    <2>2. CASE ~Codes!Holding(attempts[d].until) /\ n >= MaxAttempts
      <3>1. until # None /\ locks'[d] = locks[d] + 1
        BY <1>1, <1>2, <1>7, <2>2 DEF CodesInv, CodesTyped
      <3>2. locks'[d] * MaxAttempts = locks[d] * MaxAttempts + MaxAttempts /\ locks'[d] * MaxAttempts \in Nat
        BY <1>2, <3>1, Times, Limits
      <3>3. entry.failures \in Nat /\ entry.failures + 1 >= MaxAttempts
        BY <1>6, <2>2
      <3>4. locks'[d] * MaxAttempts + 0 + Cardinality(Due(d))' <= wrong[d]
        BY <1>2, <1>5, <1>6, <2>2, <3>2, <3>3, Reached, Limits DEF CodesInv, DevicePaid
      <3> QED
        BY <1>1, <1>8, <3>1, <3>4 DEF DevicePaid, Open
    <2>3. CASE ~Codes!Holding(attempts[d].until) /\ ~(n >= MaxAttempts)
      <3>1. until = None /\ locks' = locks /\ n < MaxAttempts
        BY <1>1, <1>6, <2>3, Limits
      <3>2. entry.failures \in Nat
        BY <1>6
      <3>3. locks[d] * MaxAttempts + n + Cardinality(Due(d))' <= wrong[d]
        BY <1>2, <1>5, <1>6, <2>3, <3>2, Recorded DEF CodesInv, DevicePaid
      <3> QED
        BY <1>1, <1>8, <3>1, <3>3 DEF DevicePaid, Open
    <2> QED
      BY <2>1, <2>2, <2>3
  <1> QED
    BY <1>9, <1>10, <1>11, <1>12 DEF CodesInv

LEMMA CodesStep == CodesInv /\ [ComponentsNext]_all => CodesInv'
  <1> SUFFICES ASSUME CodesInv, [ComponentsNext]_all PROVE CodesInv'
    OBVIOUS
  <1>1. CASE UNCHANGED ofCodes
    BY <1>1 DEF ofCodes, Codes!limiter, CodesInv, CodesTyped, DevicePaid, PausesPaid, Due, Unnoted,
       Open
  <1>2. CASE Codes!Tick
    <2>1. clock' \in Nat /\ UNCHANGED <<attempts, overall, request, wrong, guesses, locks, pauses>>
      BY <1>2 DEF Codes!Tick, Codes!limiter, Codes!bad, CodesInv, CodesTyped
    <2> QED
      BY <2>1 DEF CodesInv, CodesTyped, DevicePaid, PausesPaid, Due, Unnoted, Open
  <1>3. ASSUME NEW r \in Requests, NEW d \in Devices, NEW where \in {"global", "success", "clear"},
               Codes!Arrive(r, d, where)
        PROVE  CodesInv'
    BY <1>3, ArriveKeeps
  <1>4. ASSUME NEW r \in Requests,
               \/ Codes!CheckGlobal(r) \/ Codes!CheckDevice(r) \/ Codes!Validate(r)
               \/ Codes!ClearDevice(r) \/ Codes!ClearGlobal(r)
               \/ Codes!NoteGlobal(r) \/ Codes!RecordFailure(r)
        PROVE  CodesInv'
    BY <1>4, CheckGlobalKeeps, CheckDeviceKeeps, ValidateKeeps, ClearDeviceKeeps, ClearGlobalKeeps,
       NoteGlobalKeeps, RecordFailureKeeps
  <1>5. Codes!Next => CodesInv'
    BY <1>2, <1>3, <1>4 DEF Codes!Next
  <1> QED
    BY <1>1, <1>5 DEF ComponentsNext, KeyframesNext, RepairNext, SoundNext, DriverNext, CodesNext,
       BitrateNext, all

\* No device is locked out, and nobody's codes are paused, before that many wrong codes have
\* been given, however the requests' checks, validations and records interleave
\* (session.rs:1268-1289, 1218-1244).
THEOREM LockoutsPaid == ComponentsSpec => []LockoutsEarned
  <1>1. ComponentsInit => CodesInv
    BY CodesStart DEF ComponentsInit
  <1>2. CodesInv => LockoutsEarned
    <2> SUFFICES ASSUME CodesInv PROVE LockoutsEarned
      OBVIOUS
    <2>1. ASSUME NEW d \in Devices PROVE locks[d] * MaxAttempts <= wrong[d]
      <3>1. /\ locks[d] * MaxAttempts \in Nat /\ Open(attempts[d]) \in Nat /\ Cardinality(Due(d)) \in Nat
            /\ wrong[d] \in Nat
        BY Times, Limits, Counts DEF CodesInv, CodesTyped, Open
      <3> QED
        BY <3>1 DEF CodesInv, DevicePaid
    <2>2. pauses * GlobalMax <= guesses
      <3>1. /\ pauses * GlobalMax \in Nat /\ Open(overall) \in Nat /\ Cardinality(Unnoted) \in Nat
            /\ guesses \in Nat
        BY Times, Limits, Counts DEF CodesInv, CodesTyped, Open
      <3> QED
        BY <3>1 DEF CodesInv, PausesPaid
    <2> QED
      BY <2>1, <2>2 DEF LockoutsEarned, Codes!LockoutsEarned
  <1> QED
    BY <1>1, <1>2, CodesStep, PTL DEF ComponentsSpec

-----------------------------------------------------------------------------
(* The virtual display driver.  First what its two functions on sets of    *)
(* ids do.                                                                 *)

LEMMA Smallest == ASSUME NEW S \in SUBSET Nat, S # {} PROVE \E x \in S : \A y \in S : x <= y
  <1>1. IsWellFoundedOn(OpToRel(<, Nat), Nat)
    BY NatLessThanWellFounded
  <1>2. PICK x \in S : \A y \in S : ~(<<y, x>> \in OpToRel(<, Nat))
    BY <1>1, WFMin
  <1>3. \A y \in S : ~(y < x)
    BY <1>2 DEF OpToRel
  <1> QED
    BY <1>3

LEMMA Largest == ASSUME NEW n \in Nat, NEW S \in SUBSET (-1..n), S # {} PROVE \E x \in S : \A y \in S : x >= y
  <1> DEFINE T == {n - x : x \in S}
  <1>1. T \in SUBSET Nat /\ T # {}
    <2>1. \A x \in S : n - x \in Nat
      OBVIOUS
    <2> QED
      BY <2>1
  <1>2. PICK t \in T : \A u \in T : t <= u
    BY <1>1, Smallest
  <1>3. PICK x \in S : t = n - x
    BY <1>2
  <1>4. ASSUME NEW y \in S PROVE x >= y
    <2>1. n - x <= n - y
      BY <1>2, <1>3
    <2>2. x \in Int /\ y \in Int
      OBVIOUS
    <2> QED
      BY <2>1, <2>2
  <1> QED
    BY <1>4

Spans == {ids \in SUBSET Driver!Ids : Driver!Attachable(ids)}

LEMMA SpansMeet == ASSUME NEW a \in Spans, NEW b \in Spans PROVE a \cap b \in Spans
  <1>1. PICK p \in 0..1, q \in -1..MaxId : a = p..q
    BY DEF Spans, Driver!Attachable
  <1>2. PICK r \in 0..1, s \in -1..MaxId : b = r..s
    BY DEF Spans, Driver!Attachable
  <1> DEFINE lo == IF p > r THEN p ELSE r
             hi == IF q < s THEN q ELSE s
  <1>3. lo \in 0..1 /\ hi \in -1..MaxId
    OBVIOUS
  <1>4. a \cap b = lo..hi
    BY <1>1, <1>2, ComponentsAssumption
  <1> QED
    BY <1>3, <1>4 DEF Spans, Driver!Attachable

\* Of spans of which any two have their meet among them, one is the least.
LEMMA LeastSpan ==
  ASSUME NEW F \in SUBSET Spans, F # {}, \A a, b \in F : a \cap b \in F
  PROVE  \E a \in F : \A b \in F : a \subseteq b
  <1> DEFINE Tops == {q \in -1..MaxId : \E p \in 0..1 : p..q \in F}
             Bottoms == {p \in 0..1 : \E q \in -1..MaxId : p..q \in F}
  <1>1. \A a \in F : \E p \in Bottoms, q \in Tops : a = p..q
    BY DEF Spans, Driver!Attachable
  <1>2. Tops # {} /\ Bottoms # {}
    BY <1>1
  <1>3. PICK q \in Tops : \A s \in Tops : q <= s
    <2> DEFINE Shifted == {s + 1 : s \in Tops}
    <2>1. Shifted \in SUBSET Nat /\ Shifted # {}
      BY <1>2, ComponentsAssumption
    <2>2. PICK t \in Shifted : \A u \in Shifted : t <= u
      BY <2>1, Smallest
    <2>3. PICK q \in Tops : t = q + 1
      BY <2>2
    <2>4. ASSUME NEW s \in Tops PROVE q <= s
      <3>1. q + 1 <= s + 1
        BY <2>2, <2>3
      <3>2. q \in Int /\ s \in Int
        BY ComponentsAssumption
      <3> QED
        BY <3>1, <3>2
    <2> QED
      BY <2>4
  <1>4. PICK p \in Bottoms : \A r \in Bottoms : p >= r
    <2>1. CASE 1 \in Bottoms
      BY <2>1
    <2>2. CASE 1 \notin Bottoms
      <3>1. \A r \in Bottoms : r = 0
        BY <2>2
      <3> HIDE DEF Bottoms
      <3> QED
        BY <1>2, <3>1
    <2> QED
      BY <2>1, <2>2
  <1>5. PICK a \in F, r \in 0..1, b \in F, s \in -1..MaxId : a = r..q /\ b = p..s
    OBVIOUS
  <1>6. a \cap b = p..q
    <2>1. r \in Bottoms /\ s \in Tops
      BY <1>3, <1>4, <1>5
    <2>2. p >= r /\ q <= s
      BY <1>3, <1>4, <2>1
    <2>3. p \in Int /\ q \in Int /\ r \in Int /\ s \in Int
      BY ComponentsAssumption
    <2> QED
      BY <1>5, <2>2, <2>3
  <1>7. p..q \in F
    BY <1>5, <1>6
  <1>8. ASSUME NEW c \in F PROVE p..q \subseteq c
    <2>1. PICK r2 \in Bottoms, s2 \in Tops : c = r2..s2
      BY <1>1
    <2>2. p >= r2 /\ q <= s2
      BY <1>3, <1>4
    <2>3. p \in Int /\ q \in Int /\ r2 \in Int /\ s2 \in Int
      BY ComponentsAssumption
    <2> QED
      BY <2>1, <2>2, <2>3
  <1> QED
    BY <1>7, <1>8

\* compact: what is kept is in the list, and holds all that is not released; and it attaches
\* if the list did.
LEMMA Compacted ==
  ASSUME NEW ids \in SUBSET Driver!Ids, NEW released
  PROVE  /\ Driver!Compact(ids, released) \subseteq ids
         /\ ids \ released \subseteq Driver!Compact(ids, released)
         /\ Driver!Attachable(ids) => Driver!Attachable(Driver!Compact(ids, released))
  <1> DEFINE fits == {rest \in SUBSET ids : Driver!Attachable(rest) /\ ids \ released \subseteq rest}
             kept == IF fits = {} THEN ids
                     ELSE CHOOSE rest \in fits : \A other \in fits : rest \subseteq other
  <1>1. Driver!Compact(ids, released) = kept
    BY DEF Driver!Compact
  <1>2. CASE fits = {}
    <2>1. kept = ids
      BY <1>2
    <2> QED
      BY <1>1, <2>1
  <1>3. CASE fits # {}
    <2>1. fits \in SUBSET Spans
      BY DEF Spans
    <2>2. ASSUME NEW a \in fits, NEW b \in fits PROVE a \cap b \in fits
      <3>1. a \cap b \in Spans
        BY <2>1, SpansMeet
      <3> QED
        BY <3>1 DEF Spans
    <2> HIDE DEF fits
    <2>3. \E a \in fits : \A b \in fits : a \subseteq b
      BY <1>3, <2>1, <2>2, LeastSpan
    <2>4. kept \in fits
      BY <1>3, <2>3
    <2> HIDE DEF kept
    <2> QED
      BY <1>1, <2>4 DEF fits
  <1> QED
    BY <1>2, <1>3

\* allocate: a released id, or one that is in nobody's use; a list that attaches still does.
LEMMA Allocated ==
  ASSUME NEW ids \in SUBSET Driver!Ids, NEW released \in SUBSET Driver!Ids
  PROVE  /\ released # {} => Driver!Allocate(ids, released) \in released
         /\ released = {} => /\ Driver!Allocate(ids, released) \notin ids
                             /\ Driver!Attachable(ids) /\ Driver!Allocate(ids, released) \in Driver!Ids
                                  => Driver!Attachable(ids \cup {Driver!Allocate(ids, released)})
  <1>1. MaxId \in Nat /\ Driver!Ids = 0..MaxId /\ ids \in SUBSET Nat
    BY ComponentsAssumption DEF Driver!Ids
  <1>2. CASE released # {}
    <2>1. released \in SUBSET Nat
      BY <1>1
    <2>2. Driver!Least(released) \in released
      BY <1>2, <2>1, Smallest DEF Driver!Least
    <2> QED
      BY <1>2, <2>2 DEF Driver!Allocate
  <1>3. CASE released = {} /\ ids = {}
    <2>1. Driver!Allocate(ids, released) = 0
      BY <1>3 DEF Driver!Allocate
    <2>2. 0..0 = {0} /\ 0 \in -1..MaxId
      BY <1>1
    <2> QED
      BY <1>3, <2>1, <2>2 DEF Driver!Attachable
  <1>4. CASE released = {} /\ ids # {}
    <2>1. /\ Driver!Least(ids) \in ids /\ \A y \in ids : Driver!Least(ids) <= y
      BY <1>1, <1>4, Smallest DEF Driver!Least
    <2>2. /\ Driver!Greatest(ids) \in ids /\ \A y \in ids : Driver!Greatest(ids) >= y
      <3>1. ids \in SUBSET (-1..MaxId)
        BY <1>1
      <3>2. \E x \in ids : \A y \in ids : x >= y
        BY <1>1, <1>4, <3>1, Largest
      <3> QED
        BY <3>2 DEF Driver!Greatest
    <2>3. CASE Driver!Least(ids) = 1
      <3>1. Driver!Allocate(ids, released) = 0
        BY <1>4, <2>3 DEF Driver!Allocate
      <3>2. 0 \notin ids
        BY <1>1, <2>1, <2>3
      <3>3. ASSUME Driver!Attachable(ids) PROVE Driver!Attachable(ids \cup {0})
        <4>1. PICK p \in 0..1, q \in -1..MaxId : ids = p..q
          BY <3>3 DEF Driver!Attachable
        <4>2. p = 1 /\ q >= 1
          BY <1>1, <2>1, <2>3, <4>1
        <4>3. ids \cup {0} = 0..q
          BY <1>1, <4>1, <4>2
        <4> QED
          BY <4>3 DEF Driver!Attachable
      <3> QED
        BY <1>4, <3>1, <3>2, <3>3
    <2>4. CASE Driver!Least(ids) # 1
      <3> DEFINE top == Driver!Greatest(ids)
      <3>1. Driver!Allocate(ids, released) = top + 1
        BY <1>4, <2>4 DEF Driver!Allocate
      <3>2. top \in Nat /\ top + 1 \notin ids
        <4>1. top \in Nat /\ \A y \in ids : top >= y
          BY <1>1, <2>2
        <4> HIDE DEF top
        <4>2. ~(top >= top + 1)
          BY <4>1
        <4> QED
          BY <4>1, <4>2
      <3>3. ASSUME Driver!Attachable(ids), top + 1 \in Driver!Ids PROVE Driver!Attachable(ids \cup {top + 1})
        <4>1. PICK p \in 0..1, q \in -1..MaxId : ids = p..q
          BY <3>3 DEF Driver!Attachable
        <4>2. p = 0 /\ q = top
          <5>1. p <= q /\ p \in ids /\ q \in ids
            BY <1>1, <1>4, <4>1
          <5>2. Driver!Least(ids) = p /\ top = q
            BY <1>1, <2>1, <2>2, <4>1, <5>1
          <5> QED
            BY <2>4, <5>2
        <4>3. ids \cup {top + 1} = 0..(q + 1) /\ q + 1 \in -1..MaxId
          BY <1>1, <3>2, <3>3, <4>1, <4>2
        <4> QED
          BY <4>3 DEF Driver!Attachable
      <3> QED
        BY <1>4, <3>1, <3>2, <3>3
    <2> QED
      BY <2>3, <2>4
  <1> QED
    BY <1>2, <1>3, <1>4

-----------------------------------------------------------------------------
(* The types, for a set F of the ids whose monitors nobody registered.     *)

Pcs      == {"off", "idle", "read", "confirm", "pause", "save", "write", "dead"}
Planning == {"confirm", "pause", "save", "write"}

ListsOf(F) == {list \in Driver!Lists : \A i \in Driver!Ids : list[i] = Foreign <=> i \in F}
RegsOf(F)  == {reg \in [Driver!Ids -> Hosts \cup {Released, None}] : \A i \in F : reg[i] = None}
Claims(F)  == SUBSET (Driver!Ids \ F)
PlansOf(F) ==
  [list : ListsOf(F), reg : RegsOf(F), ours : Claims(F), unread : SUBSET Driver!Ids]

DriverTyped(F) ==
  /\ driver \in ListsOf(F) /\ registry \in RegsOf(F) /\ late \in Nat
  /\ lock \in Hosts \cup {None} /\ cutOff \subseteq Hosts /\ astray \subseteq Driver!Ids
  /\ pc \in [Hosts -> Pcs] /\ cache \in [Hosts -> Driver!Lists]
  /\ owned \in [Hosts -> Claims(F)] /\ keep \in [Hosts -> Claims(F)] /\ new \in [Hosts -> BOOLEAN]
  /\ plan \in [Hosts -> PlansOf(F) \cup {None}]
  /\ pipe \in [Hosts -> Seq(ListsOf(F) \cup {None})] /\ replies \in [Hosts -> Seq(ListsOf(F))]
  /\ \A h \in Hosts :
       /\ keep[h] \subseteq owned[h]
       /\ Driver!Up(h) => cache[h] \in ListsOf(F)
       /\ pc[h] \in Planning \cup {"read"} => lock = h
       /\ pc[h] \in Planning => plan[h] \in PlansOf(F)

Theirs == {i \in Driver!Ids : driver[i] = Foreign}

DriverInv == DriverTyped(Theirs)

(* While the driver answers in time: a host's monitors are in the list and *)
(* in the registry if they are in it at all; and a monitor in the list is  *)
(* in the registry or free for anyone, but for those the registry may have *)
(* lost: in the list and the registry that are and in those that the       *)
(* commit under way has planned.                                           *)

Keeps(list, reg, x) == \A i \in owned[x] : list[i] = x /\ reg[i] \in {x, None}
Knows(list, reg, x, but) == \A i \in Driver!Ids \ but : list[i] = x => reg[i] \in {x, Released}
Settled(list, reg, x, but) ==
  /\ Driver!Up(x) /\ misfiled = {} => Keeps(list, reg, x)
  /\ x \notin cutOff => Knows(list, reg, x, but)

\* What the registry has lost once the commit of h is written.
Later(h) == (astray \cup plan[h].unread) \ (owned[h] \cup plan[h].ours)

\* A list and a registry that may take the place of what is, or the list alone.
SoundAs(h, p, later, but) ==
  /\ misfiled = {} => Driver!Attachable(Driver!IdsOf(p.list))
  /\ \A i \in p.ours : p.list[i] = h /\ p.reg[i] = h
  /\ Knows(p.list, p.reg, h, later) /\ Knows(p.list, registry, h, but \cup p.ours)
  /\ \A x \in Hosts \ {h} : Settled(p.list, p.reg, x, later) /\ Settled(p.list, registry, x, but)

SoundPlan(h) == SoundAs(h, plan[h], Later(h), Driver!Doubtful)

\* Where the commands of a host and the answers to them can be.
Asked(h) ==
  /\ pc[h] # "pause" /\ (h \in cutOff => pc[h] = "dead")
  /\ pc[h] \in {"off", "dead"} => owned[h] = {}
  /\ pc[h] \in {"off", "idle", "dead", "save", "write"} => pipe[h] = <<>> /\ replies[h] = <<>>
  /\ pc[h] = "read" => \/ pipe[h] = <<None>> /\ replies[h] = <<>>
                       \/ pipe[h] = <<>> /\ replies[h] = <<driver>>
  /\ pc[h] \in {"confirm", "save", "write"} => SoundPlan(h)
  /\ pc[h] \in {"save", "write"} => driver = plan[h].list
  /\ pc[h] = "write" => registry = Driver!Nothing
  /\ pc[h] = "confirm" => \/ pipe[h] = <<plan[h].list, None>> /\ replies[h] = <<>>
                          \/ /\ driver = plan[h].list
                             /\ \/ pipe[h] = <<None>> /\ replies[h] = <<>>
                                \/ pipe[h] = <<>> /\ replies[h] = <<driver>>

InTime ==
  /\ misfiled = {} => Driver!Attachable(Driver!IdsOf(driver))
  /\ \A x \in Hosts : pc[x] \notin Planning => Settled(driver, registry, x, Driver!Doubtful)
  /\ \A h \in Hosts : Asked(h)

LEMMA Names ==
  /\ None # Foreign /\ None # Released /\ Foreign # Released
  /\ None \notin Hosts /\ Foreign \notin Hosts /\ Released \notin Hosts
  <1>1. ASSUME NEW a, NEW b PROVE IsFiniteSet({a, b}) /\ Cardinality({a, b}) <= 2
    <2>1. IsFiniteSet({a}) /\ Cardinality({a}) = 1
      BY FS_Singleton
    <2>2. {a, b} = {a} \cup {b}
      OBVIOUS
    <2> QED
      BY <2>1, <2>2, FS_AddElement
  <1>2. ASSUME None = Foreign \/ None = Released \/ Foreign = Released PROVE FALSE
    <2>1. \E a, b : {None, Foreign, Released} = {a, b}
      BY <1>2
    <2>2. Cardinality({None, Foreign, Released}) <= 2
      BY <1>1, <2>1
    <2> QED
      BY <2>2, ComponentsAssumption
  <1> QED
    BY <1>2, ComponentsAssumption

\* The registry as the commit marks it.
LEMMA MarkedIs ==
  ASSUME NEW h \in Hosts, NEW live, NEW file, NEW i \in Driver!Ids
  PROVE  /\ i \in owned[h] \ keep[h] => Driver!Marked(h, live, file)[i] = Released
         /\ i \notin owned[h] \ keep[h] =>
              Driver!Marked(h, live, file)[i] =
                IF live[i] = None THEN None
                ELSE IF file[i] \in Hosts \ {h} /\ ~Driver!Up(file[i]) THEN Released
                ELSE file[i]
  BY DEF Driver!Marked, Driver!Found

LEMMA ReleasedIs ==
  ASSUME NEW F \in SUBSET Driver!Ids, DriverTyped(F), NEW h \in Hosts, NEW live \in ListsOf(F),
         NEW file \in RegsOf(F)
  PROVE  Driver!ReleasedIn(Driver!Marked(h, live, file)) \subseteq Driver!Ids \ F
  <1> SUFFICES ASSUME NEW i \in F, Driver!Marked(h, live, file)[i] = Released PROVE FALSE
    BY DEF Driver!ReleasedIn
  <1>1. i \in Driver!Ids /\ live[i] = Foreign /\ file[i] = None /\ i \notin owned[h]
    BY DEF ListsOf, DriverTyped, RegsOf, Claims
  <1>2. Driver!Marked(h, live, file)[i] = None
    BY <1>1, MarkedIs, Names
  <1> QED
    BY <1>2, Names

\* What the commit plans: its host's monitors are in the list and in the registry, and
\* each other monitor stays what it was, unless it was released.
LEMMA Planned ==
  ASSUME NEW F \in SUBSET Driver!Ids, DriverTyped(F), NEW h \in Hosts, NEW live \in ListsOf(F),
         NEW file \in RegsOf(F),
         Driver!Fresh(h, live, file) \subseteq Driver!Ids,
         NEW p, p = Driver!PlanOf(h, live, file)
  PROVE  /\ p \in PlansOf(F) /\ p.unread = {i \in Driver!Ids : file[i] # registry[i]}
         /\ keep[h] \subseteq p.ours
         /\ \A i \in p.ours : p.list[i] = h /\ p.reg[i] = h
         /\ \A i \in p.ours \ keep[h] : live[i] = None \/ Driver!Marked(h, live, file)[i] = Released
         /\ \A i \in Driver!Ids \ p.ours :
              /\ p.list[i] \in {live[i], None}
              /\ Driver!Marked(h, live, file)[i] # Released => p.list[i] = live[i]
              /\ p.list[i] # None => p.reg[i] = Driver!Marked(h, live, file)[i]
         /\ Driver!Attachable(Driver!IdsOf(live)) /\ owned[h] \subseteq Driver!IdsOf(live) =>
              Driver!Attachable(Driver!IdsOf(p.list))
  <1> DEFINE reg  == Driver!Marked(h, live, file)
             new1 == Driver!Fresh(h, live, file)
             ours == keep[h] \cup new1
             free == Driver!ReleasedIn(reg) \ ours
             list == [i \in Driver!Ids |-> IF i \in ours THEN h ELSE live[i]]
             stay == Driver!Compact(Driver!IdsOf(list), free)
             shown == [i \in Driver!Ids |-> IF i \in stay THEN list[i] ELSE None]
             after == [i \in Driver!Ids |-> IF i \in ours THEN h
                                            ELSE IF i \in Driver!Gone(free, stay) THEN None ELSE reg[i]]
  <1>1. p = [list |-> shown, reg |-> after, ours |-> ours,
             unread |-> {i \in Driver!Ids : file[i] # registry[i]}]
    BY DEF Driver!PlanOf
  <1>2. /\ Driver!IdsOf(list) \in SUBSET Driver!Ids
        /\ stay \subseteq Driver!IdsOf(list) /\ Driver!IdsOf(list) \ free \subseteq stay
        /\ Driver!Attachable(Driver!IdsOf(list)) => Driver!Attachable(stay)
    <2>1. Driver!IdsOf(list) \in SUBSET Driver!Ids
      BY DEF Driver!IdsOf
    <2> QED
      BY <2>1, Compacted
  <1>3. /\ h # None /\ h # Foreign /\ keep[h] \in Claims(F) /\ keep[h] \subseteq owned[h]
        /\ live \in Driver!Lists /\ \A i \in Driver!Ids : live[i] = Foreign <=> i \in F
    BY Names DEF DriverTyped, ListsOf
  <1>4. \/ new1 = {}
        \/ \E f \in Driver!Ids :
             new1 = {f} /\ f = Driver!Allocate(Driver!IdsOf(live), Driver!ReleasedIn(reg))
    BY DEF Driver!Fresh
  <1>5. Driver!ReleasedIn(reg) \in SUBSET (Driver!Ids \ F) /\ Driver!IdsOf(live) \in SUBSET Driver!Ids
    BY ReleasedIs DEF Driver!IdsOf
  <1>6. \A f \in new1 : (live[f] = None \/ reg[f] = Released) /\ f \notin F
    <2> SUFFICES ASSUME NEW f \in Driver!Ids, f = Driver!Allocate(Driver!IdsOf(live), Driver!ReleasedIn(reg))
                 PROVE  (live[f] = None \/ reg[f] = Released) /\ f \notin F
      BY <1>4
    <2> HIDE DEF reg
    <2>1. CASE Driver!ReleasedIn(reg) # {}
      <3>1. f \in Driver!ReleasedIn(reg)
        BY <1>5, <2>1, Allocated
      <3> QED
        BY <1>5, <3>1 DEF Driver!ReleasedIn
    <2>2. CASE Driver!ReleasedIn(reg) = {}
      <3>1. f \notin Driver!IdsOf(live)
        BY <1>5, <2>2, Allocated
      <3>2. live[f] = None
        BY <3>1 DEF Driver!IdsOf
      <3> QED
        BY <1>3, <3>2, Names
    <2> QED
      BY <2>1, <2>2
  <1>7. ours \in Claims(F)
    BY <1>3, <1>4, <1>6 DEF Claims
  <1>8. \A i \in ours : i \in stay /\ shown[i] = h /\ after[i] = h
    <2> SUFFICES ASSUME NEW i \in ours PROVE i \in stay /\ shown[i] = h /\ after[i] = h
      OBVIOUS
    <2>1. i \in Driver!Ids
      BY <1>7 DEF Claims
    <2>2. i \in Driver!IdsOf(list) /\ i \notin free /\ list[i] = h
      BY <1>3, <2>1 DEF Driver!IdsOf
    <2>3. i \in stay
      BY <1>2, <2>2
    <2> HIDE DEF ours, stay, list, free
    <2> QED
      BY <2>1, <2>2, <2>3
  <1>9. ASSUME NEW i \in Driver!Ids \ ours
        PROVE  /\ shown[i] \in {live[i], None}
               /\ reg[i] # Released => shown[i] = live[i]
               /\ shown[i] # None => after[i] = reg[i]
    <2>1. list[i] = live[i]
      OBVIOUS
    <2>2. reg[i] # Released /\ live[i] # None => i \in stay
      BY <1>2, <2>1 DEF Driver!IdsOf, Driver!ReleasedIn
    <2>3. shown[i] # None => i \in stay /\ i \notin Driver!Gone(free, stay)
      BY DEF Driver!Gone
    <2> HIDE DEF stay, list, free, ours, reg
    <2> QED
      BY <2>1, <2>2, <2>3
  <1>10. shown \in ListsOf(F)
    <2>1. list \in Driver!Lists /\ \A i \in Driver!Ids : list[i] = Foreign <=> i \in F
      BY <1>3, <1>7 DEF Driver!Lists, Claims
    <2>2. \A i \in F : i \in stay
      <3> SUFFICES ASSUME NEW i \in F PROVE i \in stay
        OBVIOUS
      <3>1. i \in Driver!Ids /\ list[i] = Foreign /\ i \notin free
        BY <1>5, <2>1
      <3>2. i \in Driver!IdsOf(list)
        BY <3>1, Names DEF Driver!IdsOf
      <3> QED
        BY <1>2, <3>1, <3>2
    <2> HIDE DEF stay, list
    <2> QED
      BY <2>1, <2>2, Names DEF ListsOf, Driver!Lists
  <1>11. after \in RegsOf(F)
    <2>1. ASSUME NEW i \in Driver!Ids PROVE reg[i] \in Hosts \cup {Released, None}
      <3>1. file[i] \in Hosts \cup {Released, None}
        BY DEF DriverTyped, RegsOf
      <3> QED
        BY <3>1, MarkedIs
    <2>2. ASSUME NEW i \in F PROVE reg[i] = None
      <3>1. i \in Driver!Ids /\ live[i] = Foreign /\ file[i] = None /\ i \notin owned[h]
        BY <1>3 DEF DriverTyped, RegsOf, Claims
      <3> QED
        BY <3>1, MarkedIs, Names
    <2>3. \A i \in F : i \notin ours
      BY <1>7 DEF Claims
    <2> HIDE DEF reg, ours, free, stay
    <2> QED
      BY <2>1, <2>2, <2>3 DEF RegsOf
  <1>12. ASSUME Driver!Attachable(Driver!IdsOf(live)), owned[h] \subseteq Driver!IdsOf(live)
         PROVE  Driver!Attachable(Driver!IdsOf(shown))
    <2>1. Driver!IdsOf(list) = Driver!IdsOf(live) \cup new1
      BY <1>3, <1>4, <1>12 DEF Driver!IdsOf
    <2>2. Driver!ReleasedIn(reg) \subseteq Driver!IdsOf(live)
      <3> SUFFICES ASSUME NEW i \in Driver!Ids, reg[i] = Released, live[i] = None, i \notin owned[h]
                   PROVE  FALSE
        BY <1>12 DEF Driver!ReleasedIn, Driver!IdsOf
      <3> QED
        BY MarkedIs, Names
    <2>3. Driver!Attachable(Driver!IdsOf(list))
      <3>1. CASE new1 = {}
        BY <1>12, <2>1, <3>1
      <3>2. CASE new1 # {}
        <4>1. PICK f \in Driver!Ids :
                new1 = {f} /\ f = Driver!Allocate(Driver!IdsOf(live), Driver!ReleasedIn(reg))
          BY <1>4, <3>2
        <4> HIDE DEF reg
        <4>2. CASE Driver!ReleasedIn(reg) # {}
          <5>1. f \in Driver!IdsOf(live)
            BY <1>5, <2>2, <4>1, <4>2, Allocated
          <5>2. Driver!IdsOf(live) \cup {f} = Driver!IdsOf(live)
            BY <5>1
          <5> QED
            BY <1>12, <2>1, <4>1, <5>2
        <4>3. CASE Driver!ReleasedIn(reg) = {}
          <5>1. Driver!Attachable(Driver!IdsOf(live) \cup {f})
            BY <1>5, <1>12, <4>1, <4>3, Allocated
          <5> QED
            BY <2>1, <4>1, <5>1
        <4> QED
          BY <4>2, <4>3
      <3> QED
        BY <3>1, <3>2
    <2>4. Driver!IdsOf(shown) = stay
      <3> HIDE DEF stay, list
      <3> QED
        BY <1>2 DEF Driver!IdsOf
    <2> QED
      BY <1>2, <2>3, <2>4
  <1> HIDE DEF shown, after, reg
  <1>13. /\ p.list = shown /\ p.reg = after /\ p.ours = ours /\ p \in PlansOf(F)
         /\ p.unread = {i \in Driver!Ids : file[i] # registry[i]}
    <2> HIDE DEF ours
    <2> QED
      BY <1>1, <1>7, <1>10, <1>11 DEF PlansOf
  <1>14. \A i \in ours \ keep[h] : live[i] = None \/ reg[i] = Released
    BY <1>6
  <1> HIDE DEF ours
  <1> QED
    BY <1>8, <1>9, <1>12, <1>13, <1>14 DEF ours, reg

\* What a host reads of the registry.
LEMMA ReadingsTyped == ASSUME NEW F \in SUBSET Driver!Ids, DriverTyped(F) PROVE Driver!Readings \subseteq RegsOf(F)
  BY DEF Driver!Readings, Driver!Nothing, DriverTyped, RegsOf

LEMMA HeadAndTail == ASSUME NEW S, NEW s \in Seq(S), s # <<>> PROVE Head(s) \in S /\ Tail(s) \in Seq(S)
  OBVIOUS

LEMMA Sent ==
  ASSUME NEW F, DriverTyped(F), NEW h \in Hosts, NEW commands \in Seq(ListsOf(F) \cup {None}),
         Driver!Send(h, commands)
  PROVE  /\ pipe' \in [Hosts -> Seq(ListsOf(F) \cup {None})]
         /\ pipe'[h] = pipe[h] \o commands /\ \A x \in Hosts \ {h} : pipe'[x] = pipe[x]
  <1>1. pipe' = [pipe EXCEPT ![h] = pipe[h] \o commands] /\ pipe[h] \in Seq(ListsOf(F) \cup {None})
    BY DEF Driver!Send, DriverTyped
  <1>2. pipe[h] \o commands \in Seq(ListsOf(F) \cup {None})
    BY <1>1
  <1> QED
    BY <1>1, <1>2 DEF DriverTyped

LEMMA RequestKeepsTypes ==
  ASSUME NEW F \in SUBSET Driver!Ids, DriverTyped(F), NEW h \in Hosts, pc[h] \in {"off", "idle"},
         NEW kept \in SUBSET owned[h], NEW one \in BOOLEAN, Driver!Request(h, kept, one),
         owned' = owned, cache' = cache \/ cache' = [cache EXCEPT ![h] = driver],
         pc[h] = "off" => cache' = [cache EXCEPT ![h] = driver]
  PROVE  DriverTyped(F)'
  <1>1. /\ lock = None /\ lock' = h /\ pc' = [pc EXCEPT ![h] = "read"]
        /\ keep' = [keep EXCEPT ![h] = kept] /\ new' = [new EXCEPT ![h] = one]
        /\ Driver!Send(h, <<None>>) /\ UNCHANGED <<driver, registry, plan, replies, late, cutOff, astray>>
    BY DEF Driver!Request, Driver!TakeLock
  <1>2. pipe' \in [Hosts -> Seq(ListsOf(F) \cup {None})]
    <2>1. <<None>> \in Seq(ListsOf(F) \cup {None})
      OBVIOUS
    <2> QED
      BY <1>1, <2>1, Sent
  <1>3. kept \in Claims(F) /\ keep' \in [Hosts -> Claims(F)] /\ \A x \in Hosts : keep'[x] \subseteq owned[x]
    <2>1. owned[h] \in Claims(F)
      BY DEF DriverTyped
    <2>2. kept \in Claims(F)
      BY <2>1 DEF Claims
    <2> QED
      BY <1>1, <2>2 DEF DriverTyped
  <1>4. /\ pc' \in [Hosts -> Pcs] /\ pc'[h] = "read" /\ \A x \in Hosts \ {h} : pc'[x] = pc[x]
        /\ new' \in [Hosts -> BOOLEAN]
    BY <1>1 DEF DriverTyped, Pcs
  <1>5. \A x \in Hosts : pc[x] \notin Planning \cup {"read"}
    BY <1>1, Names DEF DriverTyped
  <1>6. /\ cache' \in [Hosts -> Driver!Lists]
        /\ \A x \in Hosts : Driver!Up(x)' => cache'[x] \in ListsOf(F)
    <2>1. driver \in ListsOf(F) /\ driver \in Driver!Lists /\ cache \in [Hosts -> Driver!Lists]
      BY DEF DriverTyped, ListsOf
    <2>2. \A x \in Hosts \ {h} : cache'[x] = cache[x] /\ (Driver!Up(x)' <=> Driver!Up(x))
      BY <1>4, <2>1 DEF Driver!Up
    <2>3. cache'[h] \in ListsOf(F)
      BY <2>1 DEF DriverTyped, Driver!Up
    <2>4. cache' \in [Hosts -> Driver!Lists]
      BY <2>1
    <2> QED
      BY <2>2, <2>3, <2>4 DEF DriverTyped
  <1>7. ASSUME NEW x \in Hosts
        PROVE  /\ pc'[x] \in Planning \cup {"read"} => lock' = x
               /\ pc'[x] \in Planning => plan'[x] \in PlansOf(F)
    <2>1. CASE x = h
      BY <1>1, <1>4, <2>1 DEF Planning
    <2>2. CASE x # h
      BY <1>4, <1>5, <2>2
    <2> QED
      BY <2>1, <2>2
  <1> QED
    BY <1>1, <1>2, <1>3, <1>4, <1>6, <1>7 DEF DriverTyped

LEMMA MergeKeepsTypes ==
  ASSUME NEW F \in SUBSET Driver!Ids, DriverTyped(F), NEW h \in Hosts, pc[h] = "read",
         NEW live \in ListsOf(F), NEW file \in RegsOf(F), Driver!Merge(h, live, file),
         UNCHANGED <<driver, registry, lock, owned, cache, keep, new, jobs, cutOff, astray>>,
         late' \in Nat, replies' \in [Hosts -> Seq(ListsOf(F))]
  PROVE  DriverTyped(F)'
  <1>1. PICK p : p = Driver!PlanOf(h, live, file)
    OBVIOUS
  <1>2. /\ Driver!Fresh(h, live, file) \subseteq Driver!Ids /\ plan' = [plan EXCEPT ![h] = p]
        /\ \/ pc' = [pc EXCEPT ![h] = "confirm"] /\ Driver!Send(h, <<p.list, None>>)
           \/ pc' = [pc EXCEPT ![h] = "save"] /\ UNCHANGED pipe
    BY <1>1 DEF Driver!Merge
  <1>3. p \in PlansOf(F)
    BY <1>1, <1>2, Planned
  <1>4. pipe' \in [Hosts -> Seq(ListsOf(F) \cup {None})]
    <2>1. <<p.list, None>> \in Seq(ListsOf(F) \cup {None})
      BY <1>3 DEF PlansOf
    <2> QED
      BY <1>2, <2>1, Sent DEF DriverTyped
  <1>5. /\ pc' \in [Hosts -> Pcs] /\ \A x \in Hosts \ {h} : pc'[x] = pc[x]
        /\ pc'[h] \in {"confirm", "save"}
    BY <1>2 DEF DriverTyped, Pcs
  <1>6. /\ plan' \in [Hosts -> PlansOf(F) \cup {None}] /\ plan'[h] \in PlansOf(F)
        /\ \A x \in Hosts \ {h} : plan'[x] = plan[x]
    BY <1>2, <1>3 DEF DriverTyped
  <1>7. \A x \in Hosts : Driver!Up(x)' <=> Driver!Up(x)
    BY <1>5 DEF Driver!Up
  <1>8. ASSUME NEW x \in Hosts
        PROVE  /\ pc'[x] \in Planning \cup {"read"} => lock' = x
               /\ pc'[x] \in Planning => plan'[x] \in PlansOf(F)
    <2>1. CASE x = h
      BY <1>6, <2>1 DEF DriverTyped
    <2>2. CASE x # h
      BY <1>5, <1>6, <2>2 DEF DriverTyped
    <2> QED
      BY <2>1, <2>2
  <1> QED
    BY <1>4, <1>5, <1>6, <1>7, <1>8 DEF DriverTyped

\* A host reads the next answer.
LEMMA Read ==
  ASSUME NEW F, DriverTyped(F), NEW h \in Hosts, replies[h] # <<>>,
         replies' = [replies EXCEPT ![h] = Tail(@)]
  PROVE  /\ Head(replies[h]) \in ListsOf(F) /\ replies' \in [Hosts -> Seq(ListsOf(F))]
         /\ replies'[h] = Tail(replies[h]) /\ \A x \in Hosts \ {h} : replies'[x] = replies[x]
  <1>1. replies[h] \in Seq(ListsOf(F))
    BY DEF DriverTyped
  <1>2. Head(replies[h]) \in ListsOf(F) /\ Tail(replies[h]) \in Seq(ListsOf(F))
    BY <1>1, HeadAndTail
  <1> QED
    BY <1>2 DEF DriverTyped

\* A host goes on, and its claims, its plan and the lists stay.
LEMMA OnKeepsTypes ==
  ASSUME NEW F, DriverTyped(F), NEW h \in Hosts, pc[h] \in Planning, NEW where \in Planning,
         pc' = [pc EXCEPT ![h] = where], late' \in Nat,
         pipe' \in [Hosts -> Seq(ListsOf(F) \cup {None})], replies' \in [Hosts -> Seq(ListsOf(F))],
         registry' \in RegsOf(F),
         UNCHANGED <<driver, lock, owned, cache, keep, new, plan, cutOff, astray>>
  PROVE  DriverTyped(F)'
  <1>1. /\ pc' \in [Hosts -> Pcs] /\ \A x \in Hosts \ {h} : pc'[x] = pc[x]
        /\ pc'[h] \in Planning
    BY DEF DriverTyped, Pcs, Planning
  <1>2. \A x \in Hosts : (Driver!Up(x)' <=> Driver!Up(x)) /\ (pc'[x] \in Planning <=> pc[x] \in Planning)
                         /\ (pc'[x] = "read" => pc[x] = "read")
    BY <1>1 DEF Driver!Up, Planning
  <1> QED
    BY <1>1, <1>2 DEF DriverTyped

\* A commit is over, whatever has come of it.
LEMMA OverKeepsTypes ==
  ASSUME NEW F, DriverTyped(F), NEW h \in Hosts, Driver!Up(h),
         pc' = [pc EXCEPT ![h] = "idle"], lock' = None, lock = h,
         keep' = [keep EXCEPT ![h] = {}], new' = [new EXCEPT ![h] = FALSE],
         registry' \in RegsOf(F), owned' \in [Hosts -> Claims(F)],
         plan' \in [Hosts -> PlansOf(F) \cup {None}],
         \A x \in Hosts \ {h} : owned'[x] = owned[x],
         replies' \in [Hosts -> Seq(ListsOf(F))],
         astray' \subseteq Driver!Ids,
         UNCHANGED <<driver, cache, pipe, late, cutOff>>
  PROVE  DriverTyped(F)'
  <1>1. /\ pc' \in [Hosts -> Pcs] /\ pc'[h] = "idle" /\ \A x \in Hosts \ {h} : pc'[x] = pc[x]
        /\ \A x \in Hosts : Driver!Up(x)' <=> Driver!Up(x)
    BY DEF DriverTyped, Pcs, Driver!Up
  <1>2. {} \in Claims(F)
    BY DEF Claims
  <1>3. /\ keep' \in [Hosts -> Claims(F)] /\ new' \in [Hosts -> BOOLEAN]
        /\ \A x \in Hosts : keep'[x] \subseteq owned'[x]
    BY <1>2 DEF DriverTyped
  <1>4. \A x \in Hosts \ {h} : pc[x] \notin Planning \cup {"read"}
    BY DEF DriverTyped
  <1>5. \A x \in Hosts : pc'[x] \notin Planning \cup {"read"}
    BY <1>1, <1>4 DEF Planning
  <1> QED
    BY <1>1, <1>3, <1>5 DEF DriverTyped

LEMMA TakesKeepsTypes ==
  ASSUME NEW F, DriverTyped(F), NEW h \in Hosts, Driver!DriverTakes(h)
  PROVE  DriverTyped(F)'
  <1>1. /\ pipe[h] # <<>> /\ pipe' = [pipe EXCEPT ![h] = Tail(@)]
        /\ UNCHANGED <<registry, lock, pc, owned, keep, new, plan, late, cutOff, astray>>
    BY DEF Driver!DriverTakes, Driver!job
  <1>2. pipe[h] \in Seq(ListsOf(F) \cup {None})
    BY DEF DriverTyped
  <1>3. Head(pipe[h]) \in ListsOf(F) \cup {None} /\ Tail(pipe[h]) \in Seq(ListsOf(F) \cup {None})
    BY <1>1, <1>2, HeadAndTail
  <1>4. pipe' \in [Hosts -> Seq(ListsOf(F) \cup {None})]
    BY <1>1, <1>3 DEF DriverTyped
  <1>5. \A x \in Hosts : Driver!Up(x)' <=> Driver!Up(x)
    BY <1>1 DEF Driver!Up
  <1>6. CASE Head(pipe[h]) = None
    <2>1. replies' = [replies EXCEPT ![h] = Append(@, driver)] /\ UNCHANGED <<driver, cache>>
      BY <1>6 DEF Driver!DriverTakes
    <2>2. replies[h] \in Seq(ListsOf(F)) /\ driver \in ListsOf(F)
      BY DEF DriverTyped
    <2>3. Append(replies[h], driver) \in Seq(ListsOf(F))
      BY <2>2
    <2>4. replies' \in [Hosts -> Seq(ListsOf(F))]
      BY <2>1, <2>3 DEF DriverTyped
    <2> QED
      BY <1>1, <1>4, <1>5, <2>1, <2>4 DEF DriverTyped
  <1>7. CASE Head(pipe[h]) # None
    <2>1. driver' = Head(pipe[h]) /\ Driver!Changed(h, driver') /\ UNCHANGED replies
      BY <1>7 DEF Driver!DriverTakes
    <2>2. driver' \in ListsOf(F) /\ driver' \in Driver!Lists
      BY <1>3, <1>7, <2>1 DEF ListsOf
    <2>3. /\ cache' \in [Hosts -> Driver!Lists]
          /\ \A x \in Hosts : cache'[x] = driver' \/ cache'[x] = cache[x]
      BY <2>1, <2>2 DEF Driver!Changed, DriverTyped
    <2> QED
      BY <1>1, <1>4, <1>5, <2>1, <2>2, <2>3 DEF DriverTyped
  <1> QED
    BY <1>6, <1>7

\* What a death leaves of the lists.
LEMMA DiesWith ==
  ASSUME NEW F, DriverTyped(F), NEW h \in Hosts, Driver!Die(h)
  PROVE  driver' = driver \/ \E k \in 1..Len(pipe[h]) : driver' = pipe[h][k] /\ pipe[h][k] # None
  <1> DEFINE written == {pipe[h][k] : k \in 1..Len(pipe[h])} \ {None}
  <1>1. \E list \in written \cup {driver} : driver' = list
    BY DEF Driver!Die
  <1> QED
    BY <1>1

LEMMA DieKeepsTypes ==
  ASSUME NEW F, DriverTyped(F), NEW h \in Hosts, Driver!Die(h)
  PROVE  DriverTyped(F)'
  <1>1. /\ pc' = [pc EXCEPT ![h] = "dead"] /\ lock' = IF lock = h THEN None ELSE lock
        /\ cutOff' \in {cutOff, cutOff \cup {h}} /\ UNCHANGED <<registry, late>>
        /\ astray' \in {astray, Driver!Ids}
        /\ owned' = [owned EXCEPT ![h] = {}] /\ plan' = [plan EXCEPT ![h] = None]
        /\ keep' = [keep EXCEPT ![h] = {}] /\ new' = [new EXCEPT ![h] = FALSE]
        /\ pipe' = [pipe EXCEPT ![h] = <<>>] /\ replies' = [replies EXCEPT ![h] = <<>>]
    BY DEF Driver!Die
  <1>2. driver' \in ListsOf(F)
    <2>1. driver \in ListsOf(F) /\ pipe[h] \in Seq(ListsOf(F) \cup {None})
      BY DEF DriverTyped
    <2>2. \A k \in 1..Len(pipe[h]) : pipe[h][k] \in ListsOf(F) \cup {None}
      BY <2>1
    <2> QED
      BY <2>1, <2>2, DiesWith
  <1>3. \E list : /\ driver' = list
                  /\ \/ cache' = [cache EXCEPT ![h] = Driver!Nothing]
                     \/ cache' = [g \in Hosts |-> IF g = h THEN Driver!Nothing
                                                  ELSE IF Driver!Up(g) THEN list ELSE cache[g]]
    BY DEF Driver!Die
  <1>4. /\ cache' \in [Hosts -> Driver!Lists]
        /\ \A x \in Hosts \ {h} : cache'[x] = driver' \/ cache'[x] = cache[x]
    <2>1. Driver!Nothing \in Driver!Lists /\ driver' \in Driver!Lists
      BY <1>2 DEF Driver!Nothing, Driver!Lists, ListsOf
    <2>2. cache \in [Hosts -> Driver!Lists]
      BY DEF DriverTyped
    <2>3. CASE cache' = [cache EXCEPT ![h] = Driver!Nothing]
      BY <2>1, <2>2, <2>3
    <2>4. CASE cache' = [g \in Hosts |-> IF g = h THEN Driver!Nothing
                                         ELSE IF Driver!Up(g) THEN driver' ELSE cache[g]]
      <3>1. \A x \in Hosts : /\ cache'[x] \in Driver!Lists
                             /\ x # h => cache'[x] = driver' \/ cache'[x] = cache[x]
        BY <2>1, <2>2, <2>4
      <3> QED
        BY <2>4, <3>1
    <2> QED
      BY <1>3, <2>3, <2>4
  <1>5. /\ pc' \in [Hosts -> Pcs] /\ pc'[h] = "dead" /\ \A x \in Hosts \ {h} : pc'[x] = pc[x]
        /\ ~Driver!Up(h)' /\ \A x \in Hosts \ {h} : Driver!Up(x)' <=> Driver!Up(x)
    BY <1>1 DEF DriverTyped, Pcs, Driver!Up
  <1>6. {} \in Claims(F) /\ <<>> \in Seq(ListsOf(F) \cup {None}) /\ <<>> \in Seq(ListsOf(F))
    BY DEF Claims
  <1>7. /\ owned' \in [Hosts -> Claims(F)] /\ keep' \in [Hosts -> Claims(F)] /\ new' \in [Hosts -> BOOLEAN]
        /\ plan' \in [Hosts -> PlansOf(F) \cup {None}] /\ \A x \in Hosts \ {h} : plan'[x] = plan[x]
        /\ \A x \in Hosts : keep'[x] \subseteq owned'[x]
    BY <1>1, <1>6 DEF DriverTyped
  <1>8. pipe' \in [Hosts -> Seq(ListsOf(F) \cup {None})] /\ replies' \in [Hosts -> Seq(ListsOf(F))]
    BY <1>1, <1>6 DEF DriverTyped
  <1>9. lock' \in Hosts \cup {None} /\ cutOff' \subseteq Hosts /\ astray' \subseteq Driver!Ids
    BY <1>1 DEF DriverTyped
  <1>10. ASSUME NEW x \in Hosts
         PROVE  /\ Driver!Up(x)' => cache'[x] \in ListsOf(F)
                /\ pc'[x] \in Planning \cup {"read"} => lock' = x
                /\ pc'[x] \in Planning => plan'[x] \in PlansOf(F)
    <2>1. CASE x = h
      BY <1>5, <2>1 DEF Planning
    <2>2. CASE x # h
      BY <1>1, <1>2, <1>4, <1>5, <1>7, <2>2 DEF DriverTyped
    <2> QED
      BY <2>1, <2>2
  <1> QED
    BY <1>1, <1>2, <1>4, <1>5, <1>7, <1>8, <1>9, <1>10 DEF DriverTyped

LEMMA TypesKept ==
  ASSUME NEW F \in SUBSET Driver!Ids, DriverTyped(F), [ComponentsNext]_all
  PROVE  DriverTyped(F)'
  <1>1. CASE UNCHANGED ofDriver
    BY <1>1 DEF ofDriver, DriverTyped, Driver!Up
  <1>2. CASE Driver!Next
    <2>1. PICK h \in Hosts :
            \/ Driver!Start(h) \/ Driver!Create(h) \/ Driver!Remove(h) \/ Driver!RemoveAll(h)
            \/ Driver!ReadReply(h) \/ Driver!ReadLate(h) \/ Driver!NotifyFails(h)
            \/ Driver!Confirm(h) \/ Driver!AskAgain(h) \/ Driver!ConfirmLate(h) \/ Driver!GiveUp(h)
            \/ Driver!Truncate(h) \/ Driver!Save(h) \/ Driver!SaveFails(h)
            \/ Driver!DriverTakes(h) \/ Driver!ReplyDropped(h) \/ Driver!Die(h)
      BY <1>2 DEF Driver!Next
    <2>2. CASE Driver!Start(h)
      <3>1. /\ pc[h] = "off" /\ Driver!Request(h, {}, FALSE) /\ cache' = [cache EXCEPT ![h] = driver]
            /\ owned' = owned
        BY <2>2 DEF Driver!Start
      <3> QED
        BY <3>1, RequestKeepsTypes
    <2>3. CASE Driver!Create(h)
      BY <2>3, RequestKeepsTypes DEF Driver!Create
    <2>4. CASE Driver!Remove(h)
      BY <2>4, RequestKeepsTypes DEF Driver!Remove
    <2>5. CASE Driver!RemoveAll(h)
      BY <2>5, RequestKeepsTypes DEF Driver!RemoveAll
    <2>6. CASE Driver!ReadReply(h)
      <3>1. /\ pc[h] = "read" /\ replies[h] # <<>> /\ replies' = [replies EXCEPT ![h] = Tail(@)]
            /\ \E file \in Driver!Readings : Driver!Merge(h, Head(replies[h]), file)
            /\ UNCHANGED <<driver, registry, lock, owned, cache, keep, new, jobs, late, cutOff, astray>>
        BY <2>6 DEF Driver!ReadReply
      <3>2. late' \in Nat
        BY <3>1 DEF DriverTyped
      <3> QED
        BY <3>1, <3>2, Read, ReadingsTyped, MergeKeepsTypes
    <2>7. CASE Driver!ReadLate(h)
      <3>1. /\ pc[h] = "read" /\ late' = late + 1
            /\ \E file \in Driver!Readings : Driver!Merge(h, cache[h], file)
            /\ UNCHANGED <<driver, registry, lock, owned, cache, keep, new, replies, jobs, cutOff, astray>>
        BY <2>7 DEF Driver!ReadLate
      <3>2. late' \in Nat /\ replies' \in [Hosts -> Seq(ListsOf(F))] /\ cache[h] \in ListsOf(F)
        <4>1. late' \in Nat /\ replies' \in [Hosts -> Seq(ListsOf(F))]
          BY <3>1 DEF DriverTyped
        <4>2. cache[h] \in ListsOf(F)
          BY <3>1 DEF DriverTyped, Driver!Up
        <4> QED
          BY <4>1, <4>2
      <3> QED
        BY <3>1, <3>2, ReadingsTyped, MergeKeepsTypes
    <2>8. CASE Driver!NotifyFails(h)
      <3>1. /\ pc[h] = "read" /\ replies[h] # <<>> /\ replies' = [replies EXCEPT ![h] = Tail(@)]
            /\ pc' = [pc EXCEPT ![h] = "idle"] /\ lock' = None
            /\ keep' = [keep EXCEPT ![h] = {}] /\ new' = [new EXCEPT ![h] = FALSE]
            /\ UNCHANGED <<driver, registry, owned, cache, plan, pipe, jobs, late, cutOff, astray>>
        BY <2>8 DEF Driver!NotifyFails
      <3>2. /\ replies' \in [Hosts -> Seq(ListsOf(F))] /\ Driver!Up(h) /\ lock = h
            /\ registry' \in RegsOf(F) /\ owned' \in [Hosts -> Claims(F)]
            /\ plan' \in [Hosts -> PlansOf(F) \cup {None}] /\ astray' \subseteq Driver!Ids
        BY <3>1, Read DEF DriverTyped, Driver!Up
      <3> QED
        BY <3>1, <3>2, OverKeepsTypes
    <2>9. CASE Driver!Confirm(h)
      <3>1. /\ pc[h] \in Planning /\ replies[h] # <<>> /\ replies' = [replies EXCEPT ![h] = Tail(@)]
            /\ \E where \in Planning : pc' = [pc EXCEPT ![h] = where]
            /\ UNCHANGED <<driver, registry, lock, owned, cache, keep, new, plan, pipe, late, cutOff, astray>>
        BY <2>9 DEF Driver!Confirm, Driver!job, Planning
      <3>2. /\ replies' \in [Hosts -> Seq(ListsOf(F))] /\ late' \in Nat /\ registry' \in RegsOf(F)
            /\ pipe' \in [Hosts -> Seq(ListsOf(F) \cup {None})]
        BY <3>1, Read DEF DriverTyped
      <3> QED
        BY <3>1, <3>2, OnKeepsTypes
    <2>10. CASE Driver!AskAgain(h)
      <3>1. /\ pc[h] \in Planning /\ pc' = [pc EXCEPT ![h] = "confirm"] /\ "confirm" \in Planning
            /\ Driver!Send(h, <<None>>)
            /\ UNCHANGED <<driver, registry, lock, owned, cache, keep, new, plan, replies, late, cutOff, astray>>
        BY <2>10 DEF Driver!AskAgain, Driver!job, Planning
      <3>2. /\ replies' \in [Hosts -> Seq(ListsOf(F))] /\ late' \in Nat /\ registry' \in RegsOf(F)
            /\ pipe' \in [Hosts -> Seq(ListsOf(F) \cup {None})]
        <4>1. <<None>> \in Seq(ListsOf(F) \cup {None})
          OBVIOUS
        <4> QED
          BY <3>1, <4>1, Sent DEF DriverTyped
      <3> QED
        BY <3>1, <3>2, OnKeepsTypes
    <2>11. CASE Driver!ConfirmLate(h)
      <3>1. /\ pc[h] \in Planning /\ \E where \in Planning : pc' = [pc EXCEPT ![h] = where]
            /\ late' = late + 1
            /\ UNCHANGED <<driver, registry, lock, owned, cache, keep, new, plan, pipe, replies, cutOff, astray>>
        BY <2>11 DEF Driver!ConfirmLate, Driver!job, Planning
      <3>2. /\ replies' \in [Hosts -> Seq(ListsOf(F))] /\ late' \in Nat /\ registry' \in RegsOf(F)
            /\ pipe' \in [Hosts -> Seq(ListsOf(F) \cup {None})]
        BY <3>1 DEF DriverTyped
      <3> QED
        BY <3>1, <3>2, OnKeepsTypes
    <2>12. CASE Driver!Save(h) \/ Driver!SaveFails(h)
      <3>1. /\ pc[h] \in Planning /\ registry' \in {registry, plan[h].reg}
            /\ owned' = [owned EXCEPT ![h] = plan[h].ours]
            /\ plan' = [plan EXCEPT ![h] = None]
            /\ keep' = [keep EXCEPT ![h] = {}] /\ new' = [new EXCEPT ![h] = FALSE]
            /\ pc' = [pc EXCEPT ![h] = "idle"] /\ lock' = None
            /\ UNCHANGED <<driver, cache, pipe, replies, jobs, late, cutOff>>
        BY <2>12 DEF Driver!Save, Driver!SaveFails, Driver!Ends, Planning
      <3>2. plan[h] \in PlansOf(F) /\ lock = h /\ Driver!Up(h)
        BY <3>1 DEF DriverTyped, Planning, Driver!Up
      <3>3. /\ plan[h].reg \in RegsOf(F) /\ plan[h].ours \in Claims(F)
            /\ plan[h].unread \subseteq Driver!Ids
        BY <3>2 DEF PlansOf
      <3>4. /\ registry' \in RegsOf(F) /\ owned' \in [Hosts -> Claims(F)]
            /\ plan' \in [Hosts -> PlansOf(F) \cup {None}] /\ replies' \in [Hosts -> Seq(ListsOf(F))]
            /\ \A x \in Hosts \ {h} : owned'[x] = owned[x]
        BY <3>1, <3>3 DEF DriverTyped
      <3>5. astray' \subseteq Driver!Ids
        <4>1. astray \subseteq Driver!Ids /\ plan[h].ours \subseteq Driver!Ids
          BY <3>3 DEF DriverTyped, Claims
        <4> QED
          BY <2>12, <3>3, <4>1 DEF Driver!Save, Driver!SaveFails
      <3> QED
        BY <3>1, <3>2, <3>4, <3>5, OverKeepsTypes
    <2>13. CASE Driver!DriverTakes(h)
      BY <2>13, TakesKeepsTypes
    <2>14. CASE Driver!ReplyDropped(h)
      <3>1. /\ replies[h] # <<>> /\ replies' = [replies EXCEPT ![h] = Tail(@)]
            /\ UNCHANGED <<driver, registry, lock, pc, owned, cache, keep, new, plan, pipe, late, cutOff, astray>>
        BY <2>14 DEF Driver!ReplyDropped, Driver!job
      <3>2. replies' \in [Hosts -> Seq(ListsOf(F))]
        BY <3>1, Read
      <3> QED
        BY <3>1, <3>2 DEF DriverTyped, Driver!Up
    <2>15. CASE Driver!Die(h)
      BY <2>15, DieKeepsTypes
    <2>16. CASE Driver!GiveUp(h) \/ Driver!Truncate(h)
      <3>1. /\ pc[h] \in Planning /\ \E where \in Planning : pc' = [pc EXCEPT ![h] = where]
            /\ registry' \in {registry, Driver!Nothing}
            /\ UNCHANGED <<driver, lock, owned, cache, keep, new, plan, pipe, replies, late, cutOff, astray>>
        BY <2>16 DEF Driver!GiveUp, Driver!Truncate, Driver!job, Planning
      <3>2. /\ replies' \in [Hosts -> Seq(ListsOf(F))] /\ late' \in Nat
            /\ pipe' \in [Hosts -> Seq(ListsOf(F) \cup {None})]
        BY <3>1 DEF DriverTyped
      <3>3. registry' \in RegsOf(F)
        BY <3>1, ReadingsTyped DEF Driver!Readings
      <3> QED
        BY <3>1, <3>2, <3>3, OnKeepsTypes
    <2> QED
      BY <2>1, <2>2, <2>3, <2>4, <2>5, <2>6, <2>7, <2>8, <2>9, <2>10, <2>11, <2>12, <2>13, <2>14,
         <2>15, <2>16
  <1> QED
    BY <1>1, <1>2 DEF ComponentsNext, KeyframesNext, RepairNext, SoundNext, DriverNext, CodesNext,
       BitrateNext, all

LEMMA DriverStart == Driver!Init => DriverInv
  <1> SUFFICES ASSUME Driver!Init PROVE DriverInv
    OBVIOUS
  <1>1. driver \in [Driver!Ids -> {Foreign, None}]
    BY DEF Driver!Init
  <1>2. driver \in ListsOf(Theirs)
    BY <1>1 DEF ListsOf, Theirs, Driver!Lists
  <1>3. Driver!Nothing \in RegsOf(Theirs) /\ Driver!Nothing \in Driver!Lists
    BY DEF Driver!Nothing, RegsOf, Theirs, Driver!Lists
  <1>4. {} \in Claims(Theirs) /\ \A S : <<>> \in Seq(S)
    BY DEF Claims
  <1> QED
    BY <1>2, <1>3, <1>4 DEF Driver!Init, DriverInv, DriverTyped, Pcs, Planning, Driver!Up

LEMMA DriverStep ==
  DriverInv /\ [ComponentsNext]_all => DriverInv' /\ Theirs' = Theirs
  <1> SUFFICES ASSUME DriverInv, [ComponentsNext]_all PROVE DriverInv' /\ Theirs' = Theirs
    OBVIOUS
  <1>1. PICK F \in SUBSET Driver!Ids : F = Theirs
    BY DEF Theirs
  <1>2. DriverTyped(F)'
    BY <1>1, TypesKept DEF DriverInv
  <1>3. driver' \in ListsOf(F)
    BY <1>2 DEF DriverTyped
  <1>4. Theirs' = F
    BY <1>3 DEF Theirs, ListsOf
  <1> QED
    BY <1>1, <1>2, <1>4 DEF DriverInv

\* A monitor nobody registered is taken off the driver's list by no host, whatever commits,
\* late answers and deaths interleave, and whatever the registry has lost
\* (virtual_display.rs:1070).
THEOREM ForeignKept == ComponentsSpec => ForeignStays
  <1>1. ComponentsInit => DriverInv
    BY DriverStart DEF ComponentsInit
  <1>2. DriverInv /\ [ComponentsNext]_all =>
          [\A i \in Driver!Ids : driver[i] = Foreign => driver'[i] = Foreign]_(Driver!vars)
    BY DriverStep DEF Theirs
  <1>3. DriverInv /\ [ComponentsNext]_all => DriverInv'
    BY DriverStep
  <1> QED
    BY <1>1, <1>2, <1>3, PTL DEF ComponentsSpec, ForeignStays, Driver!ForeignStays

\* The registry is in doubt while it is being written, by the host that has the lock.
LEMMA NoWriter ==
  ASSUME NEW F, DriverTyped(F), NEW h \in Hosts, lock = h \/ lock = None, pc[h] # "write"
  PROVE  Driver!Doubtful = astray
  <1>1. \A g \in Hosts \ {h} : pc[g] # "write"
    BY Names DEF DriverTyped, Planning
  <1> QED
    BY <1>1 DEF Driver!Doubtful

LEMMA DoubtStays ==
  ASSUME NEW h \in Hosts, \A g \in Hosts \ {h} : pc'[g] = pc[g], pc[h] # "write", pc'[h] # "write",
         astray' = astray
  PROVE  Driver!Doubtful' = Driver!Doubtful
  BY DEF Driver!Doubtful

\* While one host has the lock, or is about to take it, the others have nothing under way.
LEMMA OthersRest ==
  ASSUME NEW F, DriverTyped(F), InTime, NEW h \in Hosts, lock = h \/ lock = None, NEW g \in Hosts \ {h}
  PROVE  /\ pc[g] \in {"off", "idle", "dead"} /\ pipe[g] = <<>> /\ replies[g] = <<>>
         /\ pc[g] # "idle" => owned[g] = {}
         /\ g \in cutOff => pc[g] = "dead"
         /\ Settled(driver, registry, g, Driver!Doubtful)
  <1>1. pc[g] \in Pcs /\ pc[g] \notin Planning \cup {"read"}
    BY Names DEF DriverTyped
  <1>2. pc[g] \in {"off", "idle", "dead"}
    BY <1>1 DEF Pcs, Planning
  <1>3. Asked(g) /\ Settled(driver, registry, g, Driver!Doubtful)
    BY <1>1 DEF InTime
  <1> QED
    BY <1>2, <1>3 DEF Asked

LEMMA StillRest ==
  ASSUME NEW F, DriverTyped(F), InTime, NEW h \in Hosts, lock = h \/ lock = None, NEW g \in Hosts \ {h},
         pc'[g] = pc[g], owned'[g] = owned[g], pipe'[g] = pipe[g], replies'[g] = replies[g],
         cutOff' \in {cutOff, cutOff \cup {h}}
  PROVE  Asked(g)'
  <1>1. /\ pc[g] \in {"off", "idle", "dead"} /\ pipe[g] = <<>> /\ replies[g] = <<>>
        /\ pc[g] # "idle" => owned[g] = {}
        /\ g \in cutOff => pc[g] = "dead"
    BY OthersRest
  <1>2. g \in cutOff' => pc[g] = "dead"
    BY <1>1
  <1> QED
    BY <1>1, <1>2 DEF Asked

LEMMA RequestInTime ==
  ASSUME NEW F, DriverTyped(F), InTime, NEW h \in Hosts, pc[h] \in {"off", "idle"},
         NEW kept, NEW one, Driver!Request(h, kept, one), owned' = owned
  PROVE  InTime'
  <1>1. /\ lock = None /\ pc' = [pc EXCEPT ![h] = "read"] /\ Driver!Send(h, <<None>>)
        /\ UNCHANGED <<driver, registry, replies, cutOff, astray, misfiled>>
    BY DEF Driver!Request, Driver!TakeLock
  <1>2. pc'[h] = "read" /\ \A g \in Hosts \ {h} : pc'[g] = pc[g]
    BY <1>1 DEF DriverTyped
  <1>3. Asked(h) /\ Settled(driver, registry, h, Driver!Doubtful) /\ Driver!Doubtful' = Driver!Doubtful
    BY <1>1, <1>2, DoubtStays DEF InTime, Planning
  <1>4. pipe'[h] = <<None>> /\ replies'[h] = <<>> /\ \A g \in Hosts \ {h} : pipe'[g] = pipe[g]
    <2>1. <<None>> \in Seq(ListsOf(F) \cup {None}) /\ pipe[h] = <<>> /\ replies[h] = <<>>
      BY <1>3 DEF Asked
    <2>2. <<>> \o <<None>> = <<None>>
      OBVIOUS
    <2> QED
      BY <1>1, <2>1, <2>2, Sent
  <1>5. ASSUME NEW x \in Hosts PROVE Settled(driver, registry, x, Driver!Doubtful)'
    <2>1. CASE x = h
      BY <1>1, <1>2, <1>3, <2>1 DEF Settled, Keeps, Knows, Driver!Up, Asked
    <2>2. CASE x # h
      <3>1. Settled(driver, registry, x, Driver!Doubtful)
        BY <1>1, <2>2, OthersRest
      <3> QED
        BY <1>1, <1>2, <1>3, <2>2, <3>1 DEF Settled, Keeps, Knows, Driver!Up
    <2> QED
      BY <2>1, <2>2
  <1>6. ASSUME NEW g \in Hosts \ {h} PROVE Asked(g)'
    BY <1>1, <1>2, <1>4, StillRest
  <1>7. Asked(h)'
    BY <1>1, <1>2, <1>3, <1>4 DEF Asked
  <1>8. (misfiled = {} => Driver!Attachable(Driver!IdsOf(driver)))'
    BY <1>1 DEF InTime, Driver!Attachable, Driver!IdsOf
  <1> QED
    BY <1>5, <1>6, <1>7, <1>8 DEF InTime

\* What is planned from the driver's list is sound.
LEMMA PlannedSound ==
  ASSUME NEW F \in SUBSET Driver!Ids, DriverTyped(F), InTime, NEW h \in Hosts, pc[h] = "read",
         NEW file \in Driver!Readings, Driver!Fresh(h, driver, file) \subseteq Driver!Ids,
         NEW p, p = Driver!PlanOf(h, driver, file),
         NEW later, later = (astray \cup p.unread) \ (owned[h] \cup p.ours)
  PROVE  SoundAs(h, p, later, astray)
  <1>1. /\ lock = h /\ Driver!Up(h) /\ h \notin cutOff /\ driver \in ListsOf(F)
        /\ Driver!Doubtful = astray
    BY NoWriter DEF DriverTyped, InTime, Asked, Driver!Up
  <1>2. (misfiled = {} => Keeps(driver, registry, h)) /\ Knows(driver, registry, h, astray)
    BY <1>1 DEF InTime, Settled, Planning
  <1>3. /\ p \in PlansOf(F) /\ keep[h] \subseteq p.ours /\ keep[h] \subseteq owned[h]
        /\ owned[h] \subseteq Driver!Ids /\ p.unread = {i \in Driver!Ids : file[i] # registry[i]}
        /\ \A i \in p.ours : p.list[i] = h /\ p.reg[i] = h
        /\ \A i \in p.ours \ keep[h] : driver[i] = None \/ Driver!Marked(h, driver, file)[i] = Released
        /\ \A i \in Driver!Ids \ p.ours :
             /\ p.list[i] \in {driver[i], None}
             /\ Driver!Marked(h, driver, file)[i] # Released => p.list[i] = driver[i]
             /\ p.list[i] # None => p.reg[i] = Driver!Marked(h, driver, file)[i]
        /\ Driver!Attachable(Driver!IdsOf(driver)) /\ owned[h] \subseteq Driver!IdsOf(driver) =>
             Driver!Attachable(Driver!IdsOf(p.list))
    <2>1. keep[h] \subseteq owned[h] /\ owned[h] \subseteq Driver!Ids /\ file \in RegsOf(F)
      BY ReadingsTyped DEF DriverTyped, Claims
    <2>2. DriverTyped(F) /\ driver \in ListsOf(F) /\ Driver!Fresh(h, driver, file) \subseteq Driver!Ids
      BY <1>1
    <2> QED
      BY ONLY <2>1, <2>2, Planned, F \in SUBSET Driver!Ids, h \in Hosts,
         p = Driver!PlanOf(h, driver, file)
  <1>4. misfiled = {} => Driver!Attachable(Driver!IdsOf(p.list))
    <2>1. misfiled = {} => owned[h] \subseteq Driver!IdsOf(driver)
      BY <1>2, <1>3, Names DEF Keeps, Driver!IdsOf
    <2> QED
      BY <1>3, <2>1 DEF InTime
  <1>5. \A i \in Driver!Ids : i \notin p.unread => file[i] = registry[i]
    BY <1>3
  <1>6. ASSUME NEW x \in Hosts, Knows(driver, registry, x, astray),
               NEW i \in Driver!Ids, p.list[i] = x, i \notin p.ours
        PROVE  /\ i \notin later => p.reg[i] \in {x, Released}
               /\ i \notin astray => registry[i] \in {x, Released}
    <2>1. driver[i] = x /\ p.reg[i] = Driver!Marked(h, driver, file)[i] /\ x # None
      BY <1>3, <1>6, Names
    <2>2. i \notin astray => registry[i] \in {x, Released}
      BY <1>6, <2>1 DEF Knows
    <2>3. CASE i \in owned[h]
      <3>1. i \in owned[h] \ keep[h]
        BY <1>3, <1>6, <2>3
      <3> QED
        BY <2>1, <2>2, <3>1, MarkedIs
    <2>4. CASE i \notin owned[h]
      <3>1. i \notin later => i \notin astray /\ file[i] = registry[i]
        BY <1>5, <1>6, <2>4
      <3> QED
        BY <2>1, <2>2, <2>4, <3>1, MarkedIs, Names
    <2> QED
      BY <2>3, <2>4
  <1>7. Knows(p.list, p.reg, h, later) /\ Knows(p.list, registry, h, astray \cup p.ours)
    <2>1. \A i \in Driver!Ids \ later : p.list[i] = h => p.reg[i] \in {h, Released}
      BY <1>2, <1>3, <1>6
    <2>2. \A i \in Driver!Ids \ (astray \cup p.ours) : p.list[i] = h => registry[i] \in {h, Released}
      BY <1>2, <1>6
    <2> QED
      BY <2>1, <2>2 DEF Knows
  <1>8. ASSUME NEW x \in Hosts \ {h}
        PROVE  Settled(p.list, p.reg, x, later) /\ Settled(p.list, registry, x, astray)
    <2>1. Settled(driver, registry, x, astray)
      BY <1>1, OthersRest
    <2>2. ASSUME Driver!Up(x), misfiled = {}, NEW i \in owned[x]
          PROVE  p.list[i] = x /\ p.reg[i] \in {x, None} /\ registry[i] \in {x, None}
      <3>1. driver[i] = x /\ registry[i] \in {x, None}
        BY <2>1, <2>2 DEF Settled, Keeps
      <3>2. i \in Driver!Ids
        BY DEF DriverTyped, Claims
      <3>3. i \notin owned[h]
        BY <1>2, <2>2, <3>1 DEF Keeps
      <3>4. file[i] \in {x, None}
        BY <3>1, <3>2 DEF Driver!Readings, Driver!Nothing
      <3>5. Driver!Marked(h, driver, file)[i] \in {x, None}
        BY <2>2, <3>1, <3>2, <3>3, <3>4, MarkedIs, Names
      <3>6. i \notin p.ours
        BY <1>3, <3>1, <3>3, <3>5, Names
      <3> QED
        BY <1>3, <3>1, <3>2, <3>5, <3>6, Names
    <2>3. ASSUME x \notin cutOff PROVE Knows(p.list, p.reg, x, later) /\ Knows(p.list, registry, x, astray)
      <3>1. \A i \in Driver!Ids : p.list[i] = x => i \notin p.ours
        BY <1>3
      <3>2. \A i \in Driver!Ids \ later : p.list[i] = x => p.reg[i] \in {x, Released}
        BY <1>6, <2>1, <2>3, <3>1 DEF Settled
      <3>3. \A i \in Driver!Ids \ astray : p.list[i] = x => registry[i] \in {x, Released}
        BY <1>6, <2>1, <2>3, <3>1 DEF Settled
      <3> QED
        BY <3>2, <3>3 DEF Knows
    <2> QED
      BY <2>2, <2>3 DEF Settled, Keeps
  <1> QED
    BY <1>3, <1>4, <1>7, <1>8 DEF SoundAs

LEMMA ReadInTime ==
  ASSUME NEW F \in SUBSET Driver!Ids, DriverTyped(F), InTime, NEW h \in Hosts, Driver!ReadReply(h)
  PROVE  InTime'
  <1>1. /\ pc[h] = "read" /\ replies[h] # <<>> /\ replies' = [replies EXCEPT ![h] = Tail(@)]
        /\ \E file \in Driver!Readings : Driver!Merge(h, Head(replies[h]), file)
        /\ UNCHANGED <<driver, registry, lock, owned, cutOff, astray, misfiled>>
    BY DEF Driver!ReadReply
  <1>2. Asked(h) /\ lock = h /\ Driver!Doubtful = astray
    BY <1>1, NoWriter DEF InTime, DriverTyped
  <1>3. pipe[h] = <<>> /\ replies[h] = <<driver>>
    BY <1>1, <1>2 DEF Asked
  <1>4. Head(replies[h]) = driver /\ Tail(replies[h]) = <<>>
    BY <1>3
  <1> PICK file \in Driver!Readings : Driver!Merge(h, driver, file)
    BY <1>1, <1>4
  <1>5. PICK p, later : /\ p = Driver!PlanOf(h, driver, file)
                        /\ later = (astray \cup p.unread) \ (owned[h] \cup p.ours)
    OBVIOUS
  <1>6. /\ Driver!Fresh(h, driver, file) \subseteq Driver!Ids /\ plan' = [plan EXCEPT ![h] = p]
        /\ \/ pc' = [pc EXCEPT ![h] = "confirm"] /\ Driver!Send(h, <<p.list, None>>)
           \/ p.list = driver /\ pc' = [pc EXCEPT ![h] = "save"] /\ UNCHANGED pipe
    BY <1>5 DEF Driver!Merge
  <1>7. SoundAs(h, p, later, astray)
    BY <1>1, <1>5, <1>6, PlannedSound
  <1>8. /\ pc'[h] \in {"confirm", "save"} /\ \A g \in Hosts \ {h} : pc'[g] = pc[g]
        /\ \A x \in Hosts : Driver!Up(x)' <=> Driver!Up(x)
    BY <1>1, <1>6 DEF DriverTyped, Driver!Up
  <1>16. Driver!Doubtful' = astray
    BY <1>1, <1>2, <1>8, DoubtStays
  <1>9. plan'[h] = p /\ replies'[h] = <<>> /\ \A g \in Hosts \ {h} : replies'[g] = replies[g]
    BY <1>1, <1>4, <1>6 DEF DriverTyped
  <1>10. /\ pc'[h] = "confirm" => pipe'[h] = <<p.list, None>>
         /\ pc'[h] = "save" => p.list = driver /\ pipe'[h] = <<>>
         /\ \A g \in Hosts \ {h} : pipe'[g] = pipe[g]
    <2>1. CASE pc' = [pc EXCEPT ![h] = "confirm"] /\ Driver!Send(h, <<p.list, None>>)
      <3>1. p \in PlansOf(F)
        BY <1>5, <1>6, ReadingsTyped, Planned DEF DriverTyped
      <3>2. <<p.list, None>> \in Seq(ListsOf(F) \cup {None}) /\ <<>> \o <<p.list, None>> = <<p.list, None>>
        BY <3>1 DEF PlansOf
      <3>3. pc'[h] = "confirm"
        BY <2>1 DEF DriverTyped
      <3> QED
        BY <1>3, <2>1, <3>2, <3>3, Sent
    <2>2. CASE p.list = driver /\ pc' = [pc EXCEPT ![h] = "save"] /\ UNCHANGED pipe
      BY <1>3, <2>2 DEF DriverTyped
    <2> QED
      BY <1>6, <2>1, <2>2
  <1>11. SoundPlan(h)'
    <2>1. SoundAs(h, p, later, astray)'
      BY <1>1, <1>7, <1>8 DEF SoundAs, Settled, Keeps, Knows, Driver!Attachable, Driver!IdsOf
    <2>2. Later(h)' = later
      BY <1>1, <1>5, <1>9 DEF Later
    <2> QED
      BY <1>1, <1>9, <1>16, <2>1, <2>2 DEF SoundPlan, SoundAs, Settled, Keeps, Knows,
         Driver!Attachable, Driver!IdsOf
  <1>12. Asked(h)'
    BY <1>1, <1>2, <1>8, <1>9, <1>10, <1>11 DEF Asked
  <1>13. ASSUME NEW g \in Hosts \ {h} PROVE Asked(g)'
    BY <1>1, <1>2, <1>8, <1>9, <1>10, StillRest
  <1>14. ASSUME NEW x \in Hosts, pc'[x] \notin Planning PROVE Settled(driver, registry, x, Driver!Doubtful)'
    <2>1. x # h
      BY <1>8, <1>14 DEF Planning
    <2>2. Settled(driver, registry, x, Driver!Doubtful)
      BY <1>2, <2>1, OthersRest
    <2> QED
      BY <1>1, <1>2, <1>8, <1>16, <2>2 DEF Settled, Keeps, Knows
  <1>15. (misfiled = {} => Driver!Attachable(Driver!IdsOf(driver)))'
    BY <1>1 DEF InTime, Driver!Attachable, Driver!IdsOf
  <1> QED
    BY <1>12, <1>13, <1>14, <1>15 DEF InTime

\* A host whose plan is on its way, or taken.
LEMMA ConfirmInTime ==
  ASSUME NEW F, DriverTyped(F), InTime, NEW h \in Hosts, Driver!Confirm(h)
  PROVE  InTime'
  <1>1. /\ pc[h] = "confirm" /\ replies[h] # <<>> /\ replies' = [replies EXCEPT ![h] = Tail(@)]
        /\ pc' = [pc EXCEPT ![h] = IF Driver!IdsOf(Head(replies[h])) = Driver!IdsOf(plan[h].list)
                                   THEN "save" ELSE "pause"]
        /\ UNCHANGED <<driver, registry, lock, owned, plan, pipe, cutOff, astray, misfiled>>
    BY DEF Driver!Confirm, Driver!job
  <1>2. Asked(h) /\ lock = h
    BY <1>1 DEF InTime, DriverTyped, Planning
  <1>3. driver = plan[h].list /\ pipe[h] = <<>> /\ replies[h] = <<driver>> /\ SoundPlan(h)
    BY <1>1, <1>2 DEF Asked
  <1>4. Head(replies[h]) = driver /\ Tail(replies[h]) = <<>>
    BY <1>3
  <1>5. /\ pc'[h] = "save" /\ \A g \in Hosts \ {h} : pc'[g] = pc[g]
        /\ \A x \in Hosts : Driver!Up(x)' <=> Driver!Up(x)
    BY <1>1, <1>3, <1>4 DEF DriverTyped, Driver!Up
  <1>12. Driver!Doubtful' = Driver!Doubtful
    BY <1>1, <1>5, DoubtStays
  <1>6. replies'[h] = <<>> /\ \A g \in Hosts \ {h} : replies'[g] = replies[g]
    BY <1>1, <1>4 DEF DriverTyped
  <1>7. SoundPlan(h)'
    BY <1>1, <1>3, <1>5, <1>12 DEF SoundPlan, SoundAs, Later, Settled, Keeps, Knows, Driver!Attachable,
       Driver!IdsOf
  <1>8. Asked(h)'
    BY <1>1, <1>2, <1>3, <1>5, <1>6, <1>7 DEF Asked
  <1>9. ASSUME NEW g \in Hosts \ {h} PROVE Asked(g)'
    BY <1>1, <1>2, <1>5, <1>6, StillRest
  <1>10. ASSUME NEW x \in Hosts, pc'[x] \notin Planning PROVE Settled(driver, registry, x, Driver!Doubtful)'
    <2>1. x # h
      BY <1>5, <1>10 DEF Planning
    <2>2. Settled(driver, registry, x, Driver!Doubtful)
      BY <1>2, <2>1, OthersRest
    <2> QED
      BY <1>1, <1>5, <1>12, <2>2 DEF Settled, Keeps, Knows
  <1>11. (misfiled = {} => Driver!Attachable(Driver!IdsOf(driver)))'
    BY <1>1 DEF InTime, Driver!Attachable, Driver!IdsOf
  <1> QED
    BY <1>8, <1>9, <1>10, <1>11 DEF InTime

LEMMA FailsInTime ==
  ASSUME NEW F, DriverTyped(F), InTime, NEW h \in Hosts, Driver!NotifyFails(h)
  PROVE  InTime'
  <1>1. /\ pc[h] = "read" /\ replies[h] # <<>> /\ replies' = [replies EXCEPT ![h] = Tail(@)]
        /\ pc' = [pc EXCEPT ![h] = "idle"]
        /\ UNCHANGED <<driver, registry, owned, pipe, cutOff, astray, misfiled>>
    BY DEF Driver!NotifyFails
  <1>2. Asked(h) /\ lock = h /\ Settled(driver, registry, h, Driver!Doubtful)
    BY <1>1 DEF InTime, DriverTyped, Planning
  <1>3. pipe[h] = <<>> /\ replies[h] = <<driver>>
    BY <1>1, <1>2 DEF Asked
  <1>4. Tail(replies[h]) = <<>>
    BY <1>3
  <1>5. /\ pc'[h] = "idle" /\ \A g \in Hosts \ {h} : pc'[g] = pc[g]
        /\ \A x \in Hosts : Driver!Up(x)' <=> Driver!Up(x)
    BY <1>1 DEF DriverTyped, Driver!Up
  <1>12. Driver!Doubtful' = Driver!Doubtful
    BY <1>1, <1>5, DoubtStays
  <1>6. replies'[h] = <<>> /\ \A g \in Hosts \ {h} : replies'[g] = replies[g]
    BY <1>1, <1>4 DEF DriverTyped
  <1>8. Asked(h)'
    BY <1>1, <1>2, <1>3, <1>5, <1>6 DEF Asked
  <1>9. ASSUME NEW g \in Hosts \ {h} PROVE Asked(g)'
    BY <1>1, <1>2, <1>5, <1>6, StillRest
  <1>10. ASSUME NEW x \in Hosts PROVE Settled(driver, registry, x, Driver!Doubtful)'
    <2>1. Settled(driver, registry, x, Driver!Doubtful)
      BY <1>2, OthersRest
    <2> QED
      BY <1>1, <1>5, <1>12, <2>1 DEF Settled, Keeps, Knows
  <1>11. (misfiled = {} => Driver!Attachable(Driver!IdsOf(driver)))'
    BY <1>1 DEF InTime, Driver!Attachable, Driver!IdsOf
  <1> QED
    BY <1>8, <1>9, <1>10, <1>11 DEF InTime

\* The file is emptied.
LEMMA TruncateInTime ==
  ASSUME NEW F, DriverTyped(F), InTime, NEW h \in Hosts, Driver!Truncate(h)
  PROVE  InTime'
  <1>1. /\ pc[h] = "save" /\ registry' = Driver!Nothing /\ pc' = [pc EXCEPT ![h] = "write"]
        /\ UNCHANGED <<driver, lock, owned, plan, pipe, replies, cutOff, astray, misfiled>>
    BY DEF Driver!Truncate, Driver!job
  <1>2. Asked(h) /\ lock = h
    BY <1>1 DEF InTime, DriverTyped, Planning
  <1>3. driver = plan[h].list /\ pipe[h] = <<>> /\ replies[h] = <<>> /\ SoundPlan(h)
    BY <1>1, <1>2 DEF Asked
  <1>4. /\ pc'[h] = "write" /\ \A g \in Hosts \ {h} : pc'[g] = pc[g]
        /\ \A x \in Hosts : Driver!Up(x)' <=> Driver!Up(x)
    BY <1>1 DEF DriverTyped, Driver!Up
  <1>5. Driver!Doubtful' = Driver!Ids
    BY <1>4 DEF Driver!Doubtful
  <1>6. ASSUME NEW x \in Hosts, NEW list, Driver!Up(x) /\ misfiled = {} => \A i \in owned[x] : list[i] = x
        PROVE  Settled(list, registry, x, Driver!Doubtful)'
    <2>1. \A i \in owned[x] : Driver!Nothing[i] = None
      BY DEF DriverTyped, Claims, Driver!Nothing
    <2> QED
      BY <1>1, <1>4, <1>5, <1>6, <2>1 DEF Settled, Keeps, Knows
  <1>7. SoundPlan(h)'
    <2>1. PICK p, later : p = plan[h] /\ later = Later(h)
      OBVIOUS
    <2>2. plan'[h] = p /\ Later(h)' = later
      BY <1>1, <2>1 DEF Later
    <2>3. /\ (misfiled = {} => Driver!Attachable(Driver!IdsOf(p.list)))'
          /\ \A i \in p.ours : p.list[i] = h /\ p.reg[i] = h
          /\ Knows(p.list, p.reg, h, later)'
      BY <1>1, <1>3, <2>1 DEF SoundPlan, SoundAs, Knows, Driver!Attachable, Driver!IdsOf
    <2>4. Knows(p.list, registry, h, Driver!Doubtful \cup p.ours)'
      BY <1>5 DEF Knows
    <2>5. ASSUME NEW x \in Hosts \ {h}
          PROVE  Settled(p.list, p.reg, x, later)' /\ Settled(p.list, registry, x, Driver!Doubtful)'
      <3>1. Settled(p.list, p.reg, x, later)
        BY <1>3, <2>1 DEF SoundPlan, SoundAs
      <3>2. Settled(p.list, p.reg, x, later)'
        BY <1>1, <1>4, <3>1 DEF Settled, Keeps, Knows
      <3> QED
        BY <1>6, <3>1, <3>2 DEF Settled, Keeps
    <2> QED
      BY <2>2, <2>3, <2>4, <2>5 DEF SoundPlan, SoundAs, Settled, Keeps, Knows, Driver!Attachable,
         Driver!IdsOf
  <1>8. Asked(h)'
    BY <1>1, <1>2, <1>3, <1>4, <1>7 DEF Asked
  <1>9. ASSUME NEW g \in Hosts \ {h} PROVE Asked(g)'
    BY <1>1, <1>2, <1>4, StillRest
  <1>10. ASSUME NEW x \in Hosts, pc'[x] \notin Planning PROVE Settled(driver, registry, x, Driver!Doubtful)'
    <2>1. x # h
      BY <1>4, <1>10 DEF Planning
    <2>2. Settled(driver, registry, x, Driver!Doubtful)
      BY <1>2, <2>1, OthersRest
    <2>3. Driver!Up(x) /\ misfiled = {} => \A i \in owned[x] : driver[i] = x
      BY <2>2 DEF Settled, Keeps
    <2> QED
      BY <1>1, <1>6, <2>3 DEF Settled, Keeps, Knows
  <1>11. (misfiled = {} => Driver!Attachable(Driver!IdsOf(driver)))'
    BY <1>1 DEF InTime, Driver!Attachable, Driver!IdsOf
  <1> QED
    BY <1>8, <1>9, <1>10, <1>11 DEF InTime

\* A commit is over: in the registry or not, which has lost no more than it says.
LEMMA EndsInTime ==
  ASSUME NEW F, DriverTyped(F), InTime, NEW h \in Hosts, pc[h] \in {"save", "write"}, Driver!Ends(h),
         misfiled' = {} => misfiled = {},
         misfiled' = {} => \A i \in plan[h].ours : registry'[i] \in {h, None},
         Knows(plan[h].list, registry', h, astray'),
         \A x \in Hosts \ {h} :
           /\ Driver!Up(x) /\ misfiled' = {} => Keeps(plan[h].list, registry', x)
           /\ x \notin cutOff => Knows(plan[h].list, registry', x, astray')
  PROVE  InTime'
  <1>1. /\ owned' = [owned EXCEPT ![h] = plan[h].ours] /\ pc' = [pc EXCEPT ![h] = "idle"]
        /\ UNCHANGED <<driver, pipe, replies, cutOff>>
    BY DEF Driver!Ends
  <1>2. Asked(h) /\ lock = h
    BY DEF InTime, DriverTyped, Planning
  <1>3. driver = plan[h].list /\ pipe[h] = <<>> /\ replies[h] = <<>> /\ SoundPlan(h)
    BY <1>2 DEF Asked
  <1>4. /\ pc'[h] = "idle" /\ \A g \in Hosts \ {h} : pc'[g] = pc[g]
        /\ \A x \in Hosts : Driver!Up(x)' <=> Driver!Up(x)
    BY <1>1 DEF DriverTyped, Driver!Up
  <1>5. Driver!Doubtful' = astray'
    <2>1. \A g \in Hosts : pc'[g] # "write"
      BY <1>2, <1>4, Names DEF DriverTyped, Planning
    <2> QED
      BY <2>1 DEF Driver!Doubtful
  <1>6. owned'[h] = plan[h].ours /\ \A g \in Hosts \ {h} : owned'[g] = owned[g]
    BY <1>1 DEF DriverTyped
  <1>7. Asked(h)'
    BY <1>1, <1>2, <1>3, <1>4 DEF Asked
  <1>8. ASSUME NEW g \in Hosts \ {h} PROVE Asked(g)'
    BY <1>1, <1>2, <1>4, <1>6, StillRest
  <1>9. ASSUME NEW x \in Hosts PROVE Settled(driver, registry, x, Driver!Doubtful)'
    <2>1. Knows(driver, registry', x, astray') \/ x \in cutOff
      BY <1>3
    <2>2. CASE x = h
      <3>1. \A i \in owned'[h] : driver[i] = h /\ (misfiled' = {} => registry'[i] \in {h, None})
        BY <1>3, <1>6 DEF SoundPlan, SoundAs
      <3> QED
        BY <1>1, <1>5, <2>1, <2>2, <3>1 DEF Settled, Keeps, Knows
    <2>3. CASE x # h
      <3>1. Driver!Up(x) /\ misfiled' = {} => Keeps(driver, registry', x)
        BY <1>3, <2>3
      <3> QED
        BY <1>1, <1>4, <1>5, <1>6, <2>1, <2>3, <3>1 DEF Settled, Keeps, Knows
    <2> QED
      BY <2>2, <2>3
  <1>10. (misfiled = {} => Driver!Attachable(Driver!IdsOf(driver)))'
    BY <1>1 DEF InTime, Driver!Attachable, Driver!IdsOf
  <1> QED
    BY <1>7, <1>8, <1>9, <1>10 DEF InTime

LEMMA SaveInTime ==
  ASSUME NEW F, DriverTyped(F), InTime, NEW h \in Hosts, Driver!Save(h)
  PROVE  InTime'
  <1>1. /\ pc[h] = "write" /\ registry' = plan[h].reg /\ Driver!Ends(h) /\ UNCHANGED misfiled
        /\ astray' = Later(h)
    BY DEF Driver!Save, Later
  <1>2. SoundPlan(h)
    BY <1>1 DEF InTime, Asked
  <1>3. /\ \A i \in plan[h].ours : registry'[i] = h
        /\ Knows(plan[h].list, registry', h, astray')
        /\ \A x \in Hosts \ {h} : Settled(plan[h].list, registry', x, astray')
    BY <1>1, <1>2 DEF SoundPlan, SoundAs
  <1> QED
    BY <1>1, <1>3, EndsInTime DEF Settled

LEMMA SaveFailsInTime ==
  ASSUME NEW F, DriverTyped(F), InTime, NEW h \in Hosts, Driver!SaveFails(h)
  PROVE  InTime'
  <1>1. /\ pc[h] \in {"save", "write"} /\ Driver!Ends(h) /\ registry' = registry
        /\ astray' = IF pc[h] = "write" THEN Driver!Ids
                     ELSE astray \cup {i \in plan[h].ours : registry[i] # h}
        /\ misfiled' = misfiled \cup {i \in plan[h].ours : registry[i] \notin {h, None}}
    BY DEF Driver!SaveFails
  <1>2. SoundPlan(h) /\ lock = h
    BY <1>1 DEF InTime, Asked, DriverTyped, Planning
  <1>3. misfiled' = {} => misfiled = {} /\ \A i \in plan[h].ours : registry'[i] \in {h, None}
    BY <1>1
  <1>4. Driver!Doubtful \subseteq astray'
    <2>1. CASE pc[h] = "write"
      BY <1>1, <2>1 DEF Driver!Doubtful, DriverTyped
    <2>2. CASE pc[h] # "write"
      BY <1>1, <1>2, <2>2, NoWriter
    <2> QED
      BY <2>1, <2>2
  <1>5. Knows(plan[h].list, registry', h, astray')
    <2>1. Knows(plan[h].list, registry, h, Driver!Doubtful \cup plan[h].ours)
      BY <1>2 DEF SoundPlan, SoundAs
    <2>2. \A i \in plan[h].ours \ astray' : registry[i] = h \/ i \notin Driver!Ids
      BY <1>1
    <2> QED
      BY <1>1, <1>4, <2>1, <2>2 DEF Knows
  <1>6. ASSUME NEW x \in Hosts \ {h}
        PROVE  /\ Driver!Up(x) /\ misfiled' = {} => Keeps(plan[h].list, registry', x)
               /\ x \notin cutOff => Knows(plan[h].list, registry', x, astray')
    <2>1. Settled(plan[h].list, registry, x, Driver!Doubtful)
      BY <1>2 DEF SoundPlan, SoundAs
    <2> QED
      BY <1>1, <1>3, <1>4, <2>1 DEF Settled, Knows
  <1> QED
    BY <1>1, <1>3, <1>5, <1>6, EndsInTime

LEMMA TakesInTime ==
  ASSUME NEW F, DriverTyped(F), InTime, NEW h \in Hosts, Driver!DriverTakes(h)
  PROVE  InTime'
  <1>1. /\ pipe[h] # <<>> /\ pipe' = [pipe EXCEPT ![h] = Tail(@)]
        /\ UNCHANGED <<registry, lock, pc, owned, plan, cutOff, astray, misfiled>>
        /\ IF Head(pipe[h]) = None
           THEN replies' = [replies EXCEPT ![h] = Append(@, driver)] /\ UNCHANGED driver
           ELSE driver' = Head(pipe[h]) /\ UNCHANGED replies
    BY DEF Driver!DriverTakes, Driver!job
  <1>2. Asked(h) /\ pc[h] \in Pcs
    BY DEF InTime, DriverTyped
  <1>3. pc[h] \in {"read", "confirm"}
    BY <1>1, <1>2 DEF Asked, Pcs
  <1>4. lock = h
    BY <1>3 DEF DriverTyped, Planning
  <1>5. (\A x \in Hosts : Driver!Up(x)' <=> Driver!Up(x)) /\ Driver!Doubtful' = Driver!Doubtful
    BY <1>1 DEF Driver!Up, Driver!Doubtful
  <1>6. pipe'[h] = Tail(pipe[h]) /\ \A g \in Hosts \ {h} : pipe'[g] = pipe[g]
    BY <1>1 DEF DriverTyped
  <1>7. \A x \in Hosts \ {h} : Settled(driver, registry, x, Driver!Doubtful)
    BY <1>4, OthersRest
  <1>8. CASE Head(pipe[h]) = None
    <2>1. pipe[h] = <<None>> /\ replies[h] = <<>> /\ (pc[h] = "confirm" => driver = plan[h].list)
      <3>1. CASE pc[h] = "read"
        BY <1>1, <1>2, <3>1 DEF Asked
      <3>2. CASE pc[h] = "confirm"
        <4>1. plan[h].list # None
          BY <3>2, ListsAssumption DEF DriverTyped, Planning, PlansOf, ListsOf
        <4>2. Head(<<plan[h].list, None>>) = plan[h].list
          OBVIOUS
        <4> QED
          BY <1>1, <1>2, <1>8, <3>2, <4>1, <4>2 DEF Asked
      <3> QED
        BY <1>3, <3>1, <3>2
    <2>2. Tail(<<None>>) = <<>> /\ Append(<<>>, driver) = <<driver>>
      OBVIOUS
    <2>3. /\ driver' = driver /\ pipe'[h] = <<>> /\ replies'[h] = <<driver>>
          /\ \A g \in Hosts \ {h} : replies'[g] = replies[g]
      BY <1>1, <1>6, <1>8, <2>1, <2>2 DEF DriverTyped
    <2>4. pc[h] = "confirm" => SoundPlan(h)'
      <3> SUFFICES ASSUME pc[h] = "confirm" PROVE SoundPlan(h)'
        OBVIOUS
      <3>1. SoundPlan(h)
        BY <1>2 DEF Asked
      <3> QED
        BY <1>1, <1>5, <2>3, <3>1 DEF SoundPlan, SoundAs, Later, Settled, Keeps, Knows,
           Driver!Attachable, Driver!IdsOf
    <2>5. Asked(h)'
      BY <1>1, <1>2, <1>3, <2>1, <2>3, <2>4 DEF Asked
    <2>6. ASSUME NEW g \in Hosts \ {h} PROVE Asked(g)'
      BY <1>1, <1>4, <1>6, <2>3, StillRest
    <2>7. ASSUME NEW x \in Hosts, pc'[x] \notin Planning PROVE Settled(driver, registry, x, Driver!Doubtful)'
      <3>1. Settled(driver, registry, x, Driver!Doubtful)
        BY <1>1, <2>7 DEF InTime
      <3> QED
        BY <1>1, <1>5, <2>3, <3>1 DEF Settled, Keeps, Knows
    <2>8. (misfiled = {} => Driver!Attachable(Driver!IdsOf(driver)))'
      BY <1>1, <2>3 DEF InTime, Driver!Attachable, Driver!IdsOf
    <2> QED
      BY <2>5, <2>6, <2>7, <2>8 DEF InTime
  <1>9. CASE Head(pipe[h]) # None
    <2>1. pc[h] = "confirm" /\ pipe[h] = <<plan[h].list, None>> /\ replies[h] = <<>> /\ SoundPlan(h)
      <3>1. pipe[h] # <<None>>
        BY <1>9
      <3> QED
        BY <1>1, <1>2, <1>3, <3>1 DEF Asked
    <2>2. Head(<<plan[h].list, None>>) = plan[h].list /\ Tail(<<plan[h].list, None>>) = <<None>>
      OBVIOUS
    <2>3. driver' = plan[h].list /\ pipe'[h] = <<None>> /\ UNCHANGED replies
      BY <1>1, <1>6, <1>9, <2>1, <2>2
    <2>4. SoundPlan(h)'
      BY <1>1, <1>5, <2>1 DEF SoundPlan, SoundAs, Later, Settled, Keeps, Knows, Driver!Attachable,
         Driver!IdsOf
    <2>5. Asked(h)'
      BY <1>1, <1>2, <2>1, <2>3, <2>4 DEF Asked
    <2>6. ASSUME NEW g \in Hosts \ {h} PROVE Asked(g)'
      BY <1>1, <1>4, <1>6, <2>3, StillRest
    <2>7. ASSUME NEW x \in Hosts, pc'[x] \notin Planning PROVE Settled(driver, registry, x, Driver!Doubtful)'
      <3>1. x # h
        BY <1>1, <2>1, <2>7 DEF Planning
      <3>2. Settled(plan[h].list, registry, x, Driver!Doubtful)
        BY <2>1, <3>1 DEF SoundPlan, SoundAs
      <3> QED
        BY <1>1, <1>5, <2>3, <3>2 DEF Settled, Keeps, Knows
    <2>8. (misfiled = {} => Driver!Attachable(Driver!IdsOf(driver)))'
      BY <1>1, <2>1, <2>3 DEF SoundPlan, SoundAs, Driver!Attachable, Driver!IdsOf
    <2> QED
      BY <2>5, <2>6, <2>7, <2>8 DEF InTime
  <1> QED
    BY <1>8, <1>9

LEMMA DieInTime ==
  ASSUME NEW F, DriverTyped(F), InTime, NEW h \in Hosts, Driver!Die(h)
  PROVE  InTime'
  <1>1. /\ Driver!Up(h) /\ pc' = [pc EXCEPT ![h] = "dead"]
        /\ cutOff' = IF pc[h] \in Planning THEN cutOff \cup {h} ELSE cutOff
        /\ astray' = IF pc[h] = "write" THEN Driver!Ids ELSE astray
        /\ UNCHANGED <<registry, misfiled>> /\ owned' = [owned EXCEPT ![h] = {}] /\ plan' = [plan EXCEPT ![h] = None]
        /\ pipe' = [pipe EXCEPT ![h] = <<>>] /\ replies' = [replies EXCEPT ![h] = <<>>]
    BY DEF Driver!Die, Planning
  <1>2. /\ pc'[h] = "dead" /\ owned'[h] = {} /\ pipe'[h] = <<>> /\ replies'[h] = <<>>
        /\ \A g \in Hosts \ {h} : /\ pc'[g] = pc[g] /\ owned'[g] = owned[g] /\ plan'[g] = plan[g]
                                  /\ pipe'[g] = pipe[g] /\ replies'[g] = replies[g]
    BY <1>1 DEF DriverTyped
  <1>3. /\ ~Driver!Up(h)' /\ \A g \in Hosts \ {h} : Driver!Up(g)' <=> Driver!Up(g)
        /\ \A g \in Hosts \ {h} : g \in cutOff' <=> g \in cutOff
    BY <1>1, <1>2 DEF Driver!Up
  <1>4. Asked(h) /\ pc[h] \in Pcs
    BY DEF InTime, DriverTyped
  <1>5. \/ driver' = driver
        \/ pc[h] = "confirm" /\ driver' = plan[h].list /\ pipe[h] = <<plan[h].list, None>>
    <2>1. driver' = driver \/ \E k \in 1..Len(pipe[h]) : driver' = pipe[h][k] /\ pipe[h][k] # None
      BY DiesWith
    <2> SUFFICES ASSUME driver' # driver
                 PROVE  pc[h] = "confirm" /\ driver' = plan[h].list /\ pipe[h] = <<plan[h].list, None>>
      OBVIOUS
    <2> PICK k \in 1..Len(pipe[h]) : driver' = pipe[h][k] /\ pipe[h][k] # None
      BY <2>1
    <2>2. pipe[h] # <<>> /\ pipe[h] # <<None>>
      <3>1. Len(<<>>) = 0 /\ Len(<<None>>) = 1 /\ <<None>>[1] = None
        OBVIOUS
      <3>2. pipe[h] # <<>>
        BY <3>1
      <3>3. ASSUME pipe[h] = <<None>> PROVE FALSE
        <4>1. k = 1
          BY <3>1, <3>3
        <4> QED
          BY <3>1, <3>3, <4>1
      <3> QED
        BY <3>2, <3>3
    <2>3. pc[h] = "confirm" /\ pipe[h] = <<plan[h].list, None>>
      BY <1>1, <1>4, <2>2 DEF Asked, Pcs, Driver!Up
    <2>4. /\ Len(<<plan[h].list, None>>) = 2 /\ <<plan[h].list, None>>[1] = plan[h].list
          /\ <<plan[h].list, None>>[2] = None
      OBVIOUS
    <2>5. k = 1
      BY <2>3, <2>4
    <2> QED
      BY <2>3, <2>4, <2>5
  <1>6. pc[h] = "confirm" => SoundPlan(h) /\ lock = h
    BY <1>4 DEF Asked, DriverTyped, Planning
  <1>11. Driver!Doubtful \subseteq Driver!Doubtful' /\ (lock # h => Driver!Doubtful' = Driver!Doubtful)
    <2>1. CASE pc[h] = "write"
      <3>1. lock = h
        BY <2>1 DEF DriverTyped, Planning
      <3>2. Driver!Doubtful' = Driver!Ids /\ Driver!Doubtful = Driver!Ids
        BY <1>1, <2>1 DEF Driver!Doubtful
      <3> QED
        BY <3>1, <3>2
    <2>2. CASE pc[h] # "write"
      <3>1. Driver!Doubtful' = Driver!Doubtful
        BY <1>1, <1>2, <2>2, DoubtStays
      <3> QED
        BY <3>1
    <2> QED
      BY <2>1, <2>2
  <1>7. Asked(h)'
    BY <1>1, <1>2 DEF Asked
  <1>8. ASSUME NEW g \in Hosts \ {h} PROVE Asked(g)'
    <2>1. CASE lock = h \/ lock = None
      BY <1>1, <1>2, <2>1, StillRest
    <2>2. CASE ~(lock = h \/ lock = None)
      <3>1. driver' = driver /\ cutOff' = cutOff
        BY <1>1, <1>5, <1>6, <2>2 DEF DriverTyped
      <3>2. Asked(g) /\ h \notin cutOff
        BY <1>1, <1>4 DEF InTime, Asked, Driver!Up
      <3>3. SoundPlan(g) => SoundPlan(g)'
        <4> SUFFICES ASSUME SoundPlan(g) PROVE SoundPlan(g)'
          OBVIOUS
        <4>1. PICK p, later : p = plan[g] /\ later = Later(g)
          OBVIOUS
        <4>2. plan'[g] = p /\ Later(g)' = later
          <5>1. pc[h] # "write"
            BY <2>2 DEF DriverTyped, Planning
          <5> QED
            BY <1>1, <1>2, <4>1, <5>1 DEF Later
        <4>3. ASSUME NEW x \in Hosts \ {g}
              PROVE  Settled(p.list, p.reg, x, later)' /\ Settled(p.list, registry, x, Driver!Doubtful)'
          <5>1. Settled(p.list, p.reg, x, later) /\ Settled(p.list, registry, x, Driver!Doubtful)
            BY <4>1 DEF SoundPlan, SoundAs
          <5> QED
            BY <1>1, <1>2, <1>3, <1>11, <2>2, <3>1, <5>1 DEF Settled, Keeps, Knows
        <4>4. /\ misfiled = {} => Driver!Attachable(Driver!IdsOf(p.list))
              /\ Knows(p.list, p.reg, g, later) /\ Knows(p.list, registry, g, Driver!Doubtful \cup p.ours)
              /\ \A i \in p.ours : p.list[i] = g /\ p.reg[i] = g
          BY <4>1 DEF SoundPlan, SoundAs
        <4> QED
          BY <1>1, <1>11, <2>2, <4>2, <4>3, <4>4 DEF SoundPlan, SoundAs, Settled, Keeps, Knows,
             Driver!Attachable, Driver!IdsOf
      <3> QED
        BY <1>1, <1>2, <3>1, <3>2, <3>3 DEF Asked
    <2> QED
      BY <2>1, <2>2
  <1>9. ASSUME NEW x \in Hosts, pc'[x] \notin Planning PROVE Settled(driver, registry, x, Driver!Doubtful)'
    <2>1. CASE x = h
      <3>1. CASE pc[h] \in Planning
        BY <1>1, <1>3, <2>1, <3>1 DEF Settled
      <3>2. CASE pc[h] \notin Planning
        <4>1. driver' = driver /\ cutOff' = cutOff /\ Settled(driver, registry, h, Driver!Doubtful)
          BY <1>1, <1>5, <3>2 DEF InTime, Planning
        <4> QED
          BY <1>1, <1>3, <1>11, <2>1, <4>1 DEF Settled, Knows
      <3> QED
        BY <3>1, <3>2
    <2>2. CASE x # h
      <3>1. CASE driver' = driver
        <4>1. Settled(driver, registry, x, Driver!Doubtful)
          BY <1>2, <1>9, <2>2 DEF InTime
        <4> QED
          BY <1>1, <1>2, <1>3, <1>11, <2>2, <3>1, <4>1 DEF Settled, Keeps, Knows
      <3>2. CASE pc[h] = "confirm" /\ driver' = plan[h].list
        <4>1. Settled(plan[h].list, registry, x, Driver!Doubtful)
          BY <1>6, <2>2, <3>2 DEF SoundPlan, SoundAs
        <4> QED
          BY <1>1, <1>2, <1>3, <1>11, <2>2, <3>2, <4>1 DEF Settled, Keeps, Knows
      <3> QED
        BY <1>5, <3>1, <3>2
    <2> QED
      BY <2>1, <2>2
  <1>10. (misfiled = {} => Driver!Attachable(Driver!IdsOf(driver)))'
    <2>1. CASE driver' = driver
      BY <1>1, <2>1 DEF InTime, Driver!Attachable, Driver!IdsOf
    <2>2. CASE pc[h] = "confirm" /\ driver' = plan[h].list
      BY <1>1, <1>6, <2>2 DEF SoundPlan, SoundAs, Driver!Attachable, Driver!IdsOf
    <2> QED
      BY <1>5, <2>1, <2>2
  <1> QED
    BY <1>7, <1>8, <1>9, <1>10 DEF InTime

LEMMA InTimeStart == Driver!Init => InTime
  <1> SUFFICES ASSUME Driver!Init PROVE InTime
    OBVIOUS
  <1>1. /\ driver \in [Driver!Ids -> {Foreign, None}] /\ Driver!Attachable(Driver!IdsOf(driver))
        /\ cutOff = {}
        /\ \A h \in Hosts : pc[h] = "off" /\ owned[h] = {} /\ pipe[h] = <<>> /\ replies[h] = <<>>
    BY DEF Driver!Init
  <1>2. \A x \in Hosts : Settled(driver, registry, x, Driver!Doubtful)
    BY <1>1, Names DEF Settled, Keeps, Knows
  <1>3. \A h \in Hosts : Asked(h)
    BY <1>1 DEF Asked
  <1> QED
    BY <1>1, <1>2, <1>3 DEF InTime

LEMMA InTimeStep ==
  ASSUME NEW F \in SUBSET Driver!Ids, DriverTyped(F), InTime, [ComponentsNext]_all, late' = 0
  PROVE  InTime'
  <1>1. CASE UNCHANGED ofDriver
    BY <1>1 DEF ofDriver, InTime, Asked, SoundPlan, SoundAs, Later, Settled, Keeps, Knows, Driver!Up,
       Driver!Doubtful, Driver!Attachable, Driver!IdsOf
  <1>2. CASE Driver!Next
    <2>1. PICK h \in Hosts :
            \/ Driver!Start(h) \/ Driver!Create(h) \/ Driver!Remove(h) \/ Driver!RemoveAll(h)
            \/ Driver!ReadReply(h) \/ Driver!ReadLate(h) \/ Driver!NotifyFails(h)
            \/ Driver!Confirm(h) \/ Driver!AskAgain(h) \/ Driver!ConfirmLate(h) \/ Driver!GiveUp(h)
            \/ Driver!Truncate(h) \/ Driver!Save(h) \/ Driver!SaveFails(h)
            \/ Driver!DriverTakes(h) \/ Driver!ReplyDropped(h) \/ Driver!Die(h)
      BY <1>2 DEF Driver!Next
    <2>2. CASE Driver!Start(h) \/ Driver!Create(h) \/ Driver!Remove(h) \/ Driver!RemoveAll(h)
      <3>1. /\ pc[h] \in {"off", "idle"} /\ owned' = owned
            /\ \E kept, one : Driver!Request(h, kept, one)
        BY <2>2 DEF Driver!Start, Driver!Create, Driver!Remove, Driver!RemoveAll
      <3> QED
        BY <3>1, RequestInTime
    <2>3. Asked(h) /\ late \in Nat
      BY DEF InTime, DriverTyped
    <2>4. CASE Driver!ReadLate(h) \/ Driver!ConfirmLate(h)
      BY <2>3, <2>4 DEF Driver!ReadLate, Driver!ConfirmLate
    <2>5. CASE Driver!AskAgain(h) \/ Driver!GiveUp(h)
      BY <2>3, <2>5 DEF Driver!AskAgain, Driver!GiveUp, Asked
    <2>6. CASE Driver!ReplyDropped(h)
      BY <2>3, <2>6 DEF Driver!ReplyDropped, Asked
    <2> QED
      BY <2>1, <2>2, <2>4, <2>5, <2>6, ReadInTime, FailsInTime, ConfirmInTime,
         TruncateInTime, SaveInTime, SaveFailsInTime, TakesInTime, DieInTime
  <1> QED
    BY <1>1, <1>2 DEF ComponentsNext, KeyframesNext, RepairNext, SoundNext, DriverNext, CodesNext,
       BitrateNext, all

InTimeInv == DriverInv /\ (late = 0 => InTime)

LEMMA InTimeAlways == ComponentsSpec => []InTimeInv
  <1>1. ComponentsInit => InTimeInv
    BY DriverStart, InTimeStart DEF ComponentsInit, InTimeInv
  <1>2. InTimeInv /\ [ComponentsNext]_all => InTimeInv'
    <2> SUFFICES ASSUME InTimeInv, [ComponentsNext]_all PROVE InTimeInv'
      OBVIOUS
    <2>1. DriverInv'
      BY DriverStep DEF InTimeInv
    <2>2. ASSUME late' = 0 PROVE InTime'
      <3>1. late = 0
        <4>1. late \in Nat
          BY DEF InTimeInv, DriverInv, DriverTyped
        <4>2. late' = late \/ late' = late + 1
          BY DEF ComponentsNext, KeyframesNext, RepairNext, SoundNext, DriverNext, CodesNext,
             BitrateNext, all,
             ofDriver, Driver!Next, Driver!Start, Driver!Create, Driver!Remove, Driver!RemoveAll,
             Driver!Request, Driver!ReadReply, Driver!ReadLate, Driver!NotifyFails, Driver!Confirm,
             Driver!AskAgain, Driver!ConfirmLate, Driver!GiveUp, Driver!Truncate, Driver!Save,
             Driver!SaveFails, Driver!Ends, Driver!DriverTakes, Driver!ReplyDropped, Driver!Die
        <4> QED
          BY <2>2, <4>1, <4>2
      <3>2. PICK F \in SUBSET Driver!Ids : F = Theirs
        BY DEF Theirs
      <3>3. DriverTyped(F) /\ InTime
        BY <3>1, <3>2 DEF InTimeInv, DriverInv
      <3> QED
        BY <2>2, <3>3, InTimeStep
    <2> QED
      BY <2>1, <2>2 DEF InTimeInv
  <1> QED
    BY <1>1, <1>2, PTL DEF ComponentsSpec

\* While the driver answers in time, a live host keeps every monitor it has attached, in a
\* list the driver attaches, through any number of other hosts' commits, deaths at any step
\* (inside the write of the registry too), registries that were emptied or cannot be read, and
\* the reclaim of what the dead have left (virtual_display.rs:1050-1070); until a write is
\* lost that should have taken a place from another or from the released (1121-1127).
THEOREM HostsKeep == ComponentsSpec => []HostsKeepTheirs
  <1>1. InTimeInv => HostsKeepTheirs
    BY DEF InTimeInv, InTime, Settled, Keeps, HostsKeepTheirs, Driver!HostsKeepTheirs, Driver!Up,
       Planning
  <1> QED
    BY <1>1, InTimeAlways, PTL

\* And what a host has left can be reclaimed, unless it died between its notify and the end of
\* its commit, or the registry lost track of the monitor and its host has not entered it again
\* since: in a write that was cut off, or a file that could not be read
\* (virtual_display.rs:1066-1070, 1114-1127).
THEOREM LeftIsReclaimable == ComponentsSpec => []Reclaimable
  <1>1. InTimeInv => Reclaimable
    BY DEF InTimeInv, InTime, Settled, Knows, Reclaimable, Driver!Reclaimable, Planning
  <1> QED
    BY <1>1, InTimeAlways, PTL

-----------------------------------------------------------------------------
(* The repair of lost frames.  The history of sent packets is the last of  *)
(* them but for what is retired, so a number names one packet of it; and a *)
(* loss is only ever noted against a frame that has one.                   *)

Packets     == [seq : Nat, frame : Nat]
Tallies     == [frame : Nat, sent : Nat, received : Nat, lost : Nat]
SentPackets == [frame : Nat, arrived : BOOLEAN]

\* Frames of which a packet did not arrive.
Gone == {sent[n].frame : n \in {k \in 1..Len(sent) : ~sent[k].arrived}}

\* The place among all packets of one that is remembered.
Place(i) == Len(sent) - Len(history) + i

RepairTypes ==
  /\ next \in Nat /\ queue \in Seq(Nat) /\ (writing # None => writing.frame \in Nat)
  /\ sent \in Seq(SentPackets) /\ history \in Seq(Packets) /\ tallies \in Seq(Tallies)
  /\ lost \in Seq(Nat) /\ receipts \in [ack : {receipts.ack}, lost : SUBSET Nat]
  /\ reported \in 0..Len(sent)

Remembered ==
  /\ Len(history) <= HistoryCap /\ Len(history) <= Len(sent)
  /\ \A i \in 1..Len(history) : /\ history[i].seq = (Place(i) - 1) % Wrap
                                /\ history[i].frame = sent[Place(i)].frame

Covered == \A r \in reports : r.base \in Nat /\ 1 <= r.base /\ r.top \in 0..Len(sent)

LossesNoted == \A i \in 1..Len(tallies) : tallies[i].lost > 0 => tallies[i].frame \in Gone

LostGone == (\A i \in 1..Len(lost) : lost[i] \in Gone) /\ receipts.lost \subseteq Gone

RepairInv == RepairTypes /\ Remembered /\ Covered /\ LossesNoted /\ LostGone

\* Different multiples of a turn are at least a turn apart.
LEMMA TwoTurns == ASSUME NEW s \in Nat \ {0}, NEW k \in Int
                  PROVE  (k >= 1 => s * k >= s) /\ (k <= -1 => s * k <= -s)
  BY SMT

\* Two packets less than a turn of the numbers apart have different numbers.
LEMMA SameNumber ==
  ASSUME NEW s \in Nat \ {0}, NEW x \in Nat, NEW y \in Nat, x < y + s, y < x + s, x % s = y % s
  PROVE  x = y
  <1> DEFINE a == x % s
             b == y % s
             q == x \div s
             p == y \div s
  <1>1. x = s * q + a /\ a \in 0..(s - 1) /\ q \in Int
    BY SMT
  <1>2. y = s * p + b /\ b \in 0..(s - 1) /\ p \in Int
    BY SMT
  <1>3. a = b
    OBVIOUS
  <1> HIDE DEF a, b, q, p
  <1>4. s * (q - p) = s * q - s * p /\ q - p \in Int /\ s * q \in Int /\ s * p \in Int
    BY <1>1, <1>2
  <1>5. s * (q - p) = x - y
    <2> DEFINE g == s * q
               h == s * p
    <2>1. g \in Int /\ h \in Int /\ x = g + a /\ y = h + a
      BY <1>1, <1>2, <1>3, <1>4
    <2> HIDE DEF g, h
    <2>2. g - h = x - y
      BY <2>1, <1>1
    <2> QED
      BY <2>2, <1>4 DEF g, h
  <1>6. q - p = 0
    BY <1>4, <1>5, TwoTurns
  <1> QED
    BY <1>4, <1>5, <1>6

\* What a queue that drops its oldest is, with one more at its end.
Lengthened(q, p, x, cap) ==
  /\ Len(p) \in Nat /\ Len(p) >= 1 /\ p[Len(p)] = x
  /\ \/ Len(q) = cap /\ Len(p) = cap /\ \A i \in 1..(Len(p) - 1) : p[i] = q[i + 1]
     \/ Len(q) # cap /\ Len(p) = Len(q) + 1 /\ \A i \in 1..Len(q) : p[i] = q[i]

LEMMA Pushed ==
  ASSUME NEW S, NEW q \in Seq(S), NEW x \in S, NEW cap \in Nat \ {0}
  PROVE  /\ Repair!Push(q, x, cap) \in Seq(S)
         /\ Lengthened(q, Repair!Push(q, x, cap), x, cap)
  <1>1. CASE Len(q) = cap
    <2>1. q # <<>> /\ Tail(q) \in Seq(S) /\ Len(Tail(q)) = Len(q) - 1
          /\ \A i \in 1..Len(Tail(q)) : Tail(q)[i] = q[i + 1]
      BY <1>1
    <2> DEFINE u == Tail(q)
    <2>2. u \in Seq(S) /\ Len(u) = cap - 1 /\ \A i \in 1..Len(u) : u[i] = q[i + 1]
      BY <1>1, <2>1
    <2> HIDE DEF u
    <2>3. /\ Append(u, x) \in Seq(S) /\ Len(Append(u, x)) = cap /\ Append(u, x)[cap] = x
          /\ \A i \in 1..(cap - 1) : Append(u, x)[i] = u[i]
      BY <2>2
    <2> QED
      BY <1>1, <2>2, <2>3 DEF Repair!Push, Lengthened, u
  <1>2. CASE Len(q) # cap
    BY <1>2 DEF Repair!Push, Lengthened
  <1> QED
    BY <1>1, <1>2

\* What is lost stays so.
LEMMA GoneStays ==
  ASSUME sent \in Seq(SentPackets), NEW x \in SentPackets, sent' = Append(sent, x)
  PROVE  Gone \subseteq Gone'
  <1>1. \A n \in 1..Len(sent) : n \in 1..Len(sent') /\ sent'[n] = sent[n]
    OBVIOUS
  <1> QED
    BY <1>1 DEF Gone

LEMMA GoneIsBroken == ASSUME RepairTypes, NEW f, f \in Gone PROVE Repair!Broken(f)
  <1>1. DOMAIN sent = 1..Len(sent)
    BY DEF RepairTypes
  <1> QED
    BY <1>1 DEF Gone, Repair!Broken

LEMMA RepairInit == ComponentsInit => RepairInv
  BY RepairAssumption
     DEF ComponentsInit, Repair!Init, Repair!NoReceipt, RepairInv, RepairTypes, Remembered, Covered,
         LossesNoted, LostGone, Packets, Tallies, SentPackets

\* A step that sends nothing and reads no report.
LEMMA RepairKeeps ==
  ASSUME RepairInv, UNCHANGED <<sent, history, tallies, reported>>, RepairTypes',
         \A r \in reports' : r \in reports \/ (r.base \in Nat /\ 1 <= r.base /\ r.top \in 0..Len(sent)),
         \A i \in 1..Len(lost') : lost'[i] \in Gone,
         receipts'.lost \subseteq receipts.lost
  PROVE  RepairInv'
  <1>1. Gone' = Gone
    BY DEF Gone
  <1>2. Remembered'
    BY DEF RepairInv, Remembered, Place
  <1>3. Covered'
    BY DEF RepairInv, Covered
  <1>4. LossesNoted'
    BY <1>1 DEF RepairInv, LossesNoted
  <1>5. LostGone'
    BY <1>1 DEF RepairInv, LostGone
  <1> QED
    BY <1>2, <1>3, <1>4, <1>5 DEF RepairInv

LEMMA ToldBroken == ASSUME RepairInv, NEW f \in receipts.lost PROVE f \in Gone
  BY DEF RepairInv, LostGone

LEMMA LostBroken == ASSUME RepairInv PROVE \A i \in 1..Len(lost) : lost[i] \in Gone
  BY DEF RepairInv, LostGone

LEMMA CoderSteps == ASSUME RepairInv, Repair!Coder PROVE RepairInv'
  <1>1. UNCHANGED <<writing, history, tallies, receipts, sent, reports, reported>>
    BY DEF Repair!Coder, Repair!TakeLost, Repair!TakeAction, Repair!Mark, Repair!Encode, Repair!Repeat,
           Repair!writer, Repair!reader, Repair!network
  <1>2. lost' = lost \/ lost' = <<>>
    BY DEF Repair!Coder, Repair!TakeLost, Repair!TakeAction, Repair!Mark, Repair!Encode, Repair!Repeat,
           Repair!repair
  <1>3. \/ UNCHANGED <<queue, next>>
        \/ queue' = Repair!Push(queue, next, BroadcastCap) /\ next' = next + 1
    BY DEF Repair!Coder, Repair!TakeLost, Repair!TakeAction, Repair!Mark, Repair!Encode, Repair!Repeat,
           Repair!writer
  <1>4. queue' \in Seq(Nat) /\ next' \in Nat
    <2>1. queue \in Seq(Nat) /\ next \in Nat /\ BroadcastCap \in Nat \ {0}
      BY RepairAssumption DEF RepairInv, RepairTypes
    <2>2. Repair!Push(queue, next, BroadcastCap) \in Seq(Nat)
      BY <2>1, Pushed
    <2> QED
      BY <1>3, <2>1, <2>2
  <1>5. RepairTypes'
    <2>1. lost' \in Seq(Nat)
      <3>1. lost \in Seq(Nat) /\ <<>> \in Seq(Nat)
        BY DEF RepairInv, RepairTypes
      <3> QED
        BY <1>2, <3>1
    <2> QED
      BY <1>1, <1>4, <2>1 DEF RepairInv, RepairTypes
  <1>6. \A i \in 1..Len(lost') : lost'[i] \in Gone
    BY <1>2, LostBroken
  <1> QED
    BY <1>1, <1>5, <1>6, RepairKeeps DEF RepairInv, Covered

\* The writer takes a frame, or asks for a repair.
LEMMA WriterSteps ==
  ASSUME RepairInv, Repair!RequestRepair \/ Repair!TakeFrame
  PROVE  RepairInv'
  <1>1. UNCHANGED <<next, lost, history, tallies, receipts, sent, reports, reported>>
    BY DEF Repair!RequestRepair, Repair!TakeFrame, Repair!coder, Repair!repair, Repair!writer,
           Repair!reader, Repair!network
  <1>2. \/ UNCHANGED <<queue, writing>>
        \/ queue # <<>> /\ queue' = Tail(queue) /\ writing' = [frame |-> Head(queue), part |-> 0]
    BY DEF Repair!RequestRepair, Repair!TakeFrame, Repair!writer
  <1>3. queue' \in Seq(Nat) /\ (writing' # None => writing'.frame \in Nat)
    <2>1. queue \in Seq(Nat) /\ (writing # None => writing.frame \in Nat)
      BY DEF RepairInv, RepairTypes
    <2>2. ASSUME queue # <<>> PROVE Tail(queue) \in Seq(Nat) /\ Head(queue) \in Nat
      BY <2>1, <2>2
    <2>3. CASE UNCHANGED <<queue, writing>>
      BY <2>1, <2>3
    <2>4. CASE /\ queue # <<>> /\ queue' = Tail(queue)
               /\ writing' = [frame |-> Head(queue), part |-> 0]
      BY <2>2, <2>4
    <2> QED
      BY <1>2, <2>3, <2>4
  <1>4. RepairTypes'
    BY <1>1, <1>3 DEF RepairInv, RepairTypes
  <1> QED
    BY <1>1, <1>4, LostBroken, RepairKeeps DEF RepairInv, Covered

\* A report is sent, or lost.
LEMMA ClientSteps == ASSUME RepairInv, Repair!Client PROVE RepairInv'
  <1>1. UNCHANGED <<next, queue, writing, lost, history, tallies, receipts, sent>>
    BY DEF Repair!Client, Repair!Report, Repair!ReportLost, Repair!coder, Repair!repair, Repair!writer,
           Repair!reader
  <1>2. CASE Repair!ReportLost
    <2>1. reports' \subseteq reports /\ reported' = reported
      BY <1>2 DEF Repair!ReportLost
    <2>2. RepairTypes'
      BY <1>1, <2>1 DEF RepairInv, RepairTypes
    <2> QED
      BY <1>1, <2>1, <2>2, LostBroken, RepairKeeps DEF RepairInv, Covered
  <1>3. CASE Repair!Report
    <2>1. PICK n \in (reported + 1)..Len(sent) :
             reports' = reports \cup {[base |-> reported + 1, top |-> n]} /\ reported' = n
      BY <1>3 DEF Repair!Report
    <2>2. reported \in Nat /\ Len(sent) \in Nat /\ n \in 0..Len(sent)
      BY <2>1 DEF RepairInv, RepairTypes
    <2>3. RepairTypes'
      BY <1>1, <2>1, <2>2 DEF RepairInv, RepairTypes
    <2>4. Covered'
      BY <1>1, <2>1, <2>2 DEF RepairInv, Covered
    <2>5. Remembered'
      BY <1>1 DEF RepairInv, Remembered, Place
    <2>6. Gone' = Gone
      BY <1>1 DEF Gone
    <2>7. LossesNoted' /\ LostGone'
      BY <1>1, <2>6 DEF RepairInv, LossesNoted, LostGone
    <2> QED
      BY <2>3, <2>4, <2>5, <2>7 DEF RepairInv
  <1> QED
    BY <1>2, <1>3 DEF Repair!Client

\* What follows a report.
LEMMA ReaderSteps ==
  ASSUME RepairInv, Repair!Acknowledge \/ Repair!SetBits \/ Repair!NoteLost
  PROVE  RepairInv'
  <1>1. UNCHANGED <<next, queue, writing, history, tallies, sent, reports, reported>>
    BY DEF Repair!Acknowledge, Repair!SetBits, Repair!NoteLost, Repair!coder, Repair!repair, Repair!writer,
           Repair!network
  <1>2. receipts \in [ack : {receipts.ack}, lost : SUBSET Nat] /\ lost \in Seq(Nat)
    BY DEF RepairInv, RepairTypes
  <1>3. CASE Repair!Acknowledge \/ Repair!SetBits
    <2>1. lost' = lost /\ (receipts' = receipts \/ receipts' = [receipts EXCEPT !.ack = None])
      BY <1>3 DEF Repair!Acknowledge, Repair!SetBits
    <2>2. receipts' \in [ack : {receipts'.ack}, lost : SUBSET Nat] /\ receipts'.lost = receipts.lost
      BY <1>2, <2>1
    <2>3. RepairTypes'
      BY <1>1, <2>1, <2>2 DEF RepairInv, RepairTypes
    <2> QED
      BY <1>1, <2>1, <2>2, <2>3, LostBroken, RepairKeeps DEF RepairInv, Covered
  <1>4. CASE Repair!NoteLost
    <2> DEFINE f == Repair!Min(receipts.lost)
               room == IF Len(lost) = LostCap THEN Tail(lost) ELSE lost
    <2>1. /\ receipts.lost # {} /\ receipts' = [receipts EXCEPT !.lost = @ \ {f}]
          /\ lost' = lost \/ lost' = room \/ lost' = Append(room, f)
      BY <1>4 DEF Repair!NoteLost
    <2>2. f \in receipts.lost /\ f \in Nat
      <3>1. PICK x \in receipts.lost : \A y \in receipts.lost : x <= y
        BY <1>2, <2>1, Smallest
      <3> QED
        BY <1>2, <3>1 DEF Repair!Min
    <2>3. room \in Seq(Nat) /\ \A i \in 1..Len(room) : \E j \in 1..Len(lost) : room[i] = lost[j]
      <3>1. CASE Len(lost) = LostCap
        <4>1. lost # <<>>
          BY <1>2, <3>1, RepairAssumption
        <4>2. Tail(lost) \in Seq(Nat) /\ Len(Tail(lost)) = Len(lost) - 1
              /\ \A i \in 1..Len(Tail(lost)) : Tail(lost)[i] = lost[i + 1]
          BY <1>2, <4>1
        <4>3. \A i \in 1..(Len(lost) - 1) : i + 1 \in 1..Len(lost)
          BY <1>2
        <4> QED
          BY <3>1, <4>2, <4>3
      <3>2. CASE Len(lost) # LostCap
        BY <1>2, <3>2
      <3> QED
        BY <3>1, <3>2
    <2> HIDE DEF f, room
    <2>4. f \in Gone /\ \A i \in 1..Len(room) : room[i] \in Gone
      <3>1. f \in Gone
        BY <2>2, ToldBroken
      <3>2. ASSUME NEW i \in 1..Len(room) PROVE room[i] \in Gone
        <4>1. PICK j \in 1..Len(lost) : room[i] = lost[j]
          BY <2>3
        <4>2. lost[j] \in Gone
          BY LostBroken
        <4> QED
          BY <4>1, <4>2
      <3> QED
        BY <3>1, <3>2
    <2>5. Append(room, f) \in Seq(Nat) /\ \A i \in 1..Len(Append(room, f)) : Append(room, f)[i] \in Gone
      <3>1. \A i \in 1..Len(Append(room, f)) : (i \in 1..Len(room) /\ Append(room, f)[i] = room[i])
                                               \/ Append(room, f)[i] = f
        BY <2>2, <2>3
      <3>2. Append(room, f) \in Seq(Nat)
        BY <2>2, <2>3
      <3> QED
        BY <2>4, <3>1, <3>2
    <2>6. lost' \in Seq(Nat) /\ \A i \in 1..Len(lost') : lost'[i] \in Gone
      BY <1>2, <2>1, <2>3, <2>4, <2>5, LostBroken
    <2>7. receipts' \in [ack : {receipts'.ack}, lost : SUBSET Nat] /\ receipts'.lost \subseteq receipts.lost
      BY <1>2, <2>1
    <2>8. RepairTypes'
      BY <1>1, <2>6, <2>7 DEF RepairInv, RepairTypes
    <2> QED
      BY <1>1, <2>6, <2>7, <2>8, RepairKeeps DEF RepairInv, Covered
  <1> QED
    BY <1>3, <1>4

\* A packet goes out: it is the newest of those remembered, and of its frame's tally.
LEMMA RecordStep == ASSUME RepairInv, Repair!Record PROVE RepairInv'
  <1>1. UNCHANGED <<next, queue, lost, receipts, reports, reported>> /\ writing # None
    BY DEF Repair!Record, Repair!coder, Repair!repair, Repair!reader
  <1>2. /\ sent \in Seq(SentPackets) /\ history \in Seq(Packets) /\ tallies \in Seq(Tallies)
        /\ writing.frame \in Nat /\ Len(sent) \in Nat
    BY <1>1 DEF RepairInv, RepairTypes
  <1> DEFINE p == [seq |-> Len(sent) % Wrap, frame |-> writing.frame]
  <1>3. history' = Repair!Push(history, p, HistoryCap)
    BY DEF Repair!Record
  <1>4. p \in Packets
    <2>1. Wrap \in Nat \ {0}
      BY RepairAssumption
    <2>2. Len(sent) % Wrap \in Nat
      BY <1>2, <2>1
    <2> QED
      BY <1>2, <2>2 DEF Packets
  <1>5. PICK x \in SentPackets : x.frame = writing.frame /\ sent' = Append(sent, x)
    BY <1>2 DEF Repair!Record, SentPackets
  <1>6. /\ sent' \in Seq(SentPackets) /\ Len(sent') = Len(sent) + 1 /\ sent'[Len(sent) + 1] = x
        /\ \A n \in 1..Len(sent) : sent'[n] = sent[n]
    BY <1>2, <1>5
  <1>7. Gone \subseteq Gone'
    BY <1>2, <1>5, GoneStays
  <1>13. /\ HistoryCap \in Nat \ {0} /\ history' \in Seq(Packets) /\ Len(history') >= 1
         /\ history'[Len(history')] = p /\ Len(history') \in Nat
         /\ \/ /\ Len(history) = HistoryCap /\ Len(history') = HistoryCap
               /\ \A i \in 1..(Len(history') - 1) : history'[i] = history[i + 1]
            \/ /\ Len(history) # HistoryCap /\ Len(history') = Len(history) + 1
               /\ \A i \in 1..Len(history) : history'[i] = history[i]
    <2>1. HistoryCap \in Nat \ {0}
      BY RepairAssumption
    <2>2. PICK h : h = history'
      OBVIOUS
    <2>3. h = Repair!Push(history, p, HistoryCap) /\ history \in Seq(Packets) /\ p \in Packets
      BY <1>2, <1>3, <1>4, <2>2
    <2> HIDE DEF p
    <2>4. h \in Seq(Packets) /\ Lengthened(history, h, p, HistoryCap)
      BY <2>1, <2>3, Pushed
    <2> QED
      BY <2>1, <2>2, <2>4 DEF Lengthened
  <1>8. Remembered'
    <2> DEFINE h == history'
               L == Len(history)
               M == Len(h)
               N == Len(sent)
    <2>1. /\ HistoryCap \in Nat \ {0} /\ h \in Seq(Packets) /\ M >= 1 /\ h[M] = p /\ M \in Nat
          /\ \/ L = HistoryCap /\ M = HistoryCap /\ \A i \in 1..(M - 1) : h[i] = history[i + 1]
             \/ L # HistoryCap /\ M = L + 1 /\ \A i \in 1..L : h[i] = history[i]
      BY <1>13
    <2>2. /\ L \in Nat /\ N \in Nat /\ L <= HistoryCap /\ L <= N
          /\ \A i \in 1..L : /\ history[i].seq = (N - L + i - 1) % Wrap
                             /\ history[i].frame = sent[N - L + i].frame
      BY <1>2 DEF RepairInv, Remembered, Place
    <2> HIDE DEF h, L, M, N, p
    <2>3. M <= HistoryCap /\ M <= N + 1
      BY <2>1, <2>2
    <2>4. ASSUME NEW i \in 1..M
          PROVE  /\ h[i].seq = (N + 1 - M + i - 1) % Wrap
                 /\ h[i].frame = sent'[N + 1 - M + i].frame
      <3>1. CASE i = M
        <4>1. h[i].seq = N % Wrap /\ h[i].frame = x.frame
          BY <1>5, <2>1, <3>1 DEF p, N
        <4>2. N + 1 - M + i = N + 1 /\ N + 1 - M + i - 1 = N
          BY <2>1, <2>2, <3>1
        <4>3. sent'[N + 1] = x
          BY <1>6 DEF N
        <4> QED
          BY <4>1, <4>2, <4>3
      <3>2. CASE i # M
        <4>1. PICK j \in 1..L : h[i] = history[j] /\ N + 1 - M + i = N - L + j
          <5>1. CASE L = HistoryCap /\ M = HistoryCap /\ \A k \in 1..(M - 1) : h[k] = history[k + 1]
            <6>4. M = L /\ M \in Nat
              BY ONLY <2>1, <5>1, Zenon
            <6>1. M = L /\ i \in 1..(M - 1) /\ i + 1 \in 1..L
              BY ONLY <3>2, <6>4
            <6>2. h[i] = history[i + 1]
              BY <5>1, <6>1
            <6>3. N + 1 - M + i = N - L + (i + 1)
              BY <2>1, <2>2, <6>1
            <6> QED
              BY <6>1, <6>2, <6>3
          <5>2. CASE L # HistoryCap /\ M = L + 1 /\ \A k \in 1..L : h[k] = history[k]
            <6>1. i \in 1..L /\ h[i] = history[i] /\ N + 1 - M + i = N - L + i
              BY <2>1, <2>2, <3>2, <5>2
            <6> QED
              BY <6>1
          <5> QED
            BY <2>1, <5>1, <5>2
        <4>2. N - L + j \in 1..N
          BY <2>2
        <4>3. sent'[N - L + j] = sent[N - L + j]
          BY <1>6, <4>2 DEF N
        <4>4. N + 1 - M + i - 1 = N - L + j - 1
          BY <2>1, <2>2, <4>1
        <4>5. history[j].seq = (N - L + j - 1) % Wrap /\ history[j].frame = sent[N - L + j].frame
          BY <2>2
        <4> QED
          BY <4>1, <4>3, <4>4, <4>5
      <3> QED
        BY <3>1, <3>2
    <2>5. Len(sent') = N + 1
      BY <1>6 DEF N
    <2>7. M \in Nat /\ N \in Nat
      BY <2>1, <2>2
    <2>6. /\ Len(history') <= HistoryCap /\ Len(history') <= Len(sent')
          /\ \A i \in 1..Len(history') :
                /\ history'[i].seq = (Len(sent') - Len(history') + i - 1) % Wrap
                /\ history'[i].frame = sent'[Len(sent') - Len(history') + i].frame
      <3>1. Len(history') = M /\ history' = h
        BY DEF h, M
      <3>2. /\ M <= HistoryCap /\ M <= N + 1
            /\ \A i \in 1..M : /\ h[i].seq = (N + 1 - M + i - 1) % Wrap
                               /\ h[i].frame = sent'[N + 1 - M + i].frame
        BY <2>3, <2>4
      <3>3. ASSUME NEW i \in 1..Len(history')
            PROVE  /\ history'[i].seq = (Len(sent') - Len(history') + i - 1) % Wrap
                   /\ history'[i].frame = sent'[Len(sent') - Len(history') + i].frame
        <4>1. i \in 1..M /\ Len(sent') - Len(history') + i = N + 1 - M + i
              /\ Len(sent') - Len(history') + i - 1 = N + 1 - M + i - 1
          <5>1. i \in 1..M
            BY ONLY <3>1, <3>3, Zenon
          <5>2. Len(sent') - Len(history') + i = N + 1 - M + i
            BY ONLY <2>5, <2>7, <3>1, <5>1
          <5> QED
            BY ONLY <2>5, <2>7, <3>1, <5>1, <5>2
        <4>2. /\ h[i].seq = (N + 1 - M + i - 1) % Wrap
              /\ h[i].frame = sent'[N + 1 - M + i].frame
          BY <3>2, <4>1
        <4> QED
          BY ONLY <3>1, <4>1, <4>2, Zenon
      <3>4. Len(history') <= HistoryCap /\ Len(history') <= Len(sent')
        BY <2>5, <3>1, <3>2
      <3> QED
        BY <3>3, <3>4
    <2> QED
      BY <2>6 DEF Remembered, Place
  <1>9. tallies' \in Seq(Tallies) /\ LossesNoted'
    <2>1. tallies' = Repair!Tally(writing.frame)
      BY DEF Repair!Record
    <2>2. CASE tallies # <<>> /\ Repair!Last(tallies).frame = writing.frame
      <3> DEFINE k == Len(tallies)
      <3>1. tallies' = [tallies EXCEPT ![k].sent = @ + 1] /\ k \in 1..Len(tallies)
        BY <1>2, <2>1, <2>2 DEF Repair!Tally
      <3> HIDE DEF k
      <3>6. tallies[k] \in Tallies
        BY <1>2, <3>1
      <3>2. tallies[k] \in Tallies /\ [tallies[k] EXCEPT !.sent = @ + 1] \in Tallies
        BY <3>6 DEF Tallies
      <3>3. tallies' = [tallies EXCEPT ![k] = [tallies[k] EXCEPT !.sent = @ + 1]]
        BY <3>1
      <3>4. tallies' \in Seq(Tallies) /\ Len(tallies') = Len(tallies)
            /\ \A i \in 1..Len(tallies) : tallies'[i] = IF i = k THEN [tallies[k] EXCEPT !.sent = @ + 1] ELSE tallies[i]
        BY <1>2, <3>1, <3>2, <3>3
      <3>5. \A i \in 1..Len(tallies) : tallies'[i].lost = tallies[i].lost /\ tallies'[i].frame = tallies[i].frame
        BY <3>2, <3>4 DEF Tallies
      <3> QED
        BY <1>7, <3>4, <3>5 DEF RepairInv, LossesNoted
    <2>3. CASE ~(tallies # <<>> /\ Repair!Last(tallies).frame = writing.frame)
      <3> DEFINE y == [frame |-> writing.frame, sent |-> 1, received |-> 0, lost |-> 0]
      <3>1. tallies' = Repair!Push(tallies, y, TallyCap) /\ y \in Tallies /\ TallyCap \in Nat \ {0}
        BY <1>2, <2>1, <2>3, RepairAssumption DEF Repair!Tally, Tallies
      <3>2. y.lost = 0
        OBVIOUS
      <3> HIDE DEF y
      <3>3. /\ tallies' \in Seq(Tallies)
            /\ \A i \in 1..Len(tallies') : tallies'[i] = y \/ \E j \in 1..Len(tallies) : tallies'[i] = tallies[j]
        <4>3. PICK u : u = tallies'
          OBVIOUS
        <4>4. u = Repair!Push(tallies, y, TallyCap) /\ tallies \in Seq(Tallies)
          BY <1>2, <3>1, <4>3
        <4>5. u \in Seq(Tallies) /\ Lengthened(tallies, u, y, TallyCap)
          BY <3>1, <4>4, Pushed
        <4>1. /\ u \in Seq(Tallies) /\ Len(u) \in Nat /\ Len(u) >= 1 /\ u[Len(u)] = y
              /\ \/ Len(tallies) = TallyCap /\ Len(u) = TallyCap /\ \A i \in 1..(Len(u) - 1) : u[i] = tallies[i + 1]
                 \/ Len(tallies) # TallyCap /\ Len(u) = Len(tallies) + 1 /\ \A i \in 1..Len(tallies) : u[i] = tallies[i]
          BY <4>5 DEF Lengthened
        <4>2. ASSUME NEW i \in 1..Len(u), i # Len(u) PROVE \E j \in 1..Len(tallies) : u[i] = tallies[j]
          <5>1. Len(u) \in Nat /\ Len(tallies) \in Nat
            BY <1>2, <4>1
          <5>2. CASE Len(tallies) = TallyCap /\ Len(u) = TallyCap /\ \A k \in 1..(Len(u) - 1) : u[k] = tallies[k + 1]
            <6>1. i \in 1..(Len(u) - 1) /\ i + 1 \in 1..Len(tallies)
              BY <4>2, <5>1, <5>2
            <6> QED
              BY <5>2, <6>1
          <5>3. CASE Len(u) = Len(tallies) + 1 /\ \A k \in 1..Len(tallies) : u[k] = tallies[k]
            <6>1. i \in 1..Len(tallies)
              BY <4>2, <5>1, <5>3
            <6> QED
              BY <5>3, <6>1
          <5> QED
            BY <4>1, <5>2, <5>3
        <4> QED
          BY <4>1, <4>2, <4>3
      <3>4. ASSUME NEW i \in 1..Len(tallies'), tallies'[i].lost > 0 PROVE tallies'[i].frame \in Gone'
        <4>1. PICK j \in 1..Len(tallies) : tallies'[i] = tallies[j]
          BY <3>2, <3>3, <3>4
        <4>2. tallies[j].frame \in Gone
          BY <3>4, <4>1 DEF RepairInv, LossesNoted
        <4> QED
          BY <1>7, <4>1, <4>2
      <3> QED
        BY <3>3, <3>4 DEF LossesNoted
    <2> QED
      BY <2>2, <2>3
  <1>10. RepairTypes'
    <2>1. writing' # None => writing'.frame \in Nat
      BY <1>2 DEF Repair!Record
    <2>2. history' \in Seq(Packets)
      BY <1>2, <1>3, <1>4, Pushed, RepairAssumption
    <2> QED
      BY <1>1, <1>6, <1>9, <2>1, <2>2 DEF RepairInv, RepairTypes
  <1>11. Covered'
    BY <1>1, <1>2, <1>6 DEF RepairInv, Covered
  <1>12. LostGone'
    BY <1>1, <1>7 DEF RepairInv, LostGone
  <1> QED
    BY <1>8, <1>9, <1>10, <1>11, <1>12 DEF RepairInv

\* A suffix of a sequence.
LEMMA Suffixes ==
  ASSUME NEW S, NEW q \in Seq(S), NEW m \in 1..(Len(q) + 1), NEW p, p = SubSeq(q, m, Len(q))
  PROVE  /\ p \in Seq(S) /\ Len(p) = Len(q) - m + 1
         /\ \A i \in 1..Len(p) : m + i - 1 \in 1..Len(q) /\ p[i] = q[m + i - 1]
         /\ \A i \in 1..Len(p) : \E j \in 1..Len(q) : p[i] = q[j]
  <1>1. Len(q) \in Nat /\ m \in Int
    OBVIOUS
  <1>2. p \in Seq(S)
    BY <1>1
  <1>3. Len(p) = Len(q) - m + 1
    BY <1>1
  <1>4. \A i \in 1..Len(p) : m + i - 1 \in 1..Len(q) /\ p[i] = q[m + i - 1]
    BY <1>1, <1>3
  <1> QED
    BY <1>2, <1>3, <1>4

\* Forgetting what has been reported on leaves the newest packets.
LEMMA RetiredIsSuffix ==
  ASSUME RepairInv, NEW r \in reports, history' = Repair!Retired(r), sent' = sent
  PROVE  history' \in Seq(Packets) /\ Remembered'
  <1>1. history \in Seq(Packets) /\ sent \in Seq(SentPackets) /\ Len(history) \in Nat /\ Len(sent) \in Nat
    BY DEF RepairInv, RepairTypes
  <1>2. \E m \in 1..(Len(history) + 1) : history' = SubSeq(history, m, Len(history))
    <2> DEFINE ahead(p) == (p.seq - (r.top - 1)) % Wrap
               kept == {i \in DOMAIN history : ahead(history[i]) \in 1..(Wrap \div 2 - 1)}
    <2>1. history' = IF kept = {} THEN <<>> ELSE SubSeq(history, Repair!Min(kept), Len(history))
      BY DEF Repair!Retired
    <2>2. kept \subseteq 1..Len(history)
      BY <1>1
    <2> HIDE DEF kept
    <2>3. CASE kept = {}
      <3>1. PICK m : m = Len(history) + 1
        OBVIOUS
      <3>2. m \in 1..(Len(history) + 1) /\ SubSeq(history, m, Len(history)) = <<>>
        BY <1>1, <3>1
      <3>3. history' = <<>>
        BY <2>1, <2>3
      <3> QED
        BY ONLY <3>2, <3>3, Zenon
    <2>4. CASE kept # {}
      <3>1. \E x \in kept : \A y \in kept : x <= y
        BY <2>2, <2>4, Smallest
      <3>2. Repair!Min(kept) \in kept
        BY <3>1 DEF Repair!Min
      <3>3. PICK m : m = Repair!Min(kept)
        OBVIOUS
      <3>4. m \in 1..Len(history)
        BY ONLY <2>2, <3>2, <3>3, Zenon
      <3>5. m \in 1..(Len(history) + 1)
        BY ONLY <1>1, <3>4
      <3>6. history' = SubSeq(history, m, Len(history))
        BY <2>1, <2>4, <3>3
      <3> QED
        BY ONLY <3>5, <3>6, Zenon
    <2> QED
      BY <2>3, <2>4
  <1>3. PICK m \in 1..(Len(history) + 1) : history' = SubSeq(history, m, Len(history))
    BY <1>2
  <1>4. PICK h : h = history'
    OBVIOUS
  <1>5. /\ h \in Seq(Packets) /\ Len(h) = Len(history) - m + 1
        /\ \A i \in 1..Len(h) : m + i - 1 \in 1..Len(history) /\ h[i] = history[m + i - 1]
    BY <1>1, <1>3, <1>4, Suffixes
  <1>6. /\ Len(history) <= HistoryCap /\ Len(history) <= Len(sent) /\ HistoryCap \in Nat
    BY RepairAssumption DEF RepairInv, Remembered
  <1>7. Len(h) \in Nat /\ Len(h) <= HistoryCap /\ Len(h) <= Len(sent)
    <2>1. m \in Int /\ 1 <= m /\ m <= Len(history) + 1 /\ HistoryCap \in Nat
      BY <1>1, RepairAssumption
    <2> QED
      BY <1>1, <1>5, <1>6, <2>1
  <1>8. ASSUME NEW i \in 1..Len(h)
        PROVE  /\ h[i].seq = (Len(sent) - Len(h) + i - 1) % Wrap
               /\ h[i].frame = sent[Len(sent) - Len(h) + i].frame
    <2> DEFINE j == m + i - 1
    <2>1. j \in 1..Len(history) /\ h[i] = history[j]
      BY <1>5
    <2>2. Len(sent) - Len(h) + i = Place(j)
      BY <1>1, <1>5 DEF Place
    <2> HIDE DEF j
    <2>3. history[j].seq = (Place(j) - 1) % Wrap /\ history[j].frame = sent[Place(j)].frame
      BY <2>1 DEF RepairInv, Remembered
    <2>4. PICK v : v = Place(j)
      OBVIOUS
    <2>5. history[j].seq = (v - 1) % Wrap /\ history[j].frame = sent[v].frame
      BY ONLY <2>3, <2>4, Zenon
    <2>6. v = Len(sent) - Len(h) + i
      BY ONLY <2>2, <2>4, Zenon
    <2> QED
      BY ONLY <2>1, <2>5, <2>6, SMT
  <1>9. /\ Len(history') <= HistoryCap /\ Len(history') <= Len(sent')
        /\ \A i \in 1..Len(history') :
              /\ history'[i].seq = (Len(sent') - Len(history') + i - 1) % Wrap
              /\ history'[i].frame = sent'[Len(sent') - Len(history') + i].frame
    BY ONLY <1>4, <1>7, <1>8, sent' = sent, Zenon
  <1>10. Remembered'
    BY ONLY <1>9 DEF Remembered, Place
  <1>11. history' \in Seq(Packets)
    BY ONLY <1>4, <1>5, Zenon
  <1> QED
    BY <1>10, <1>11

\* Packets of frame f that report r covers and that did, or did not, arrive.
Verdict(r, f, arrived) ==
  {n \in r.base..r.top : /\ sent[n].arrived = arrived
                         /\ \E i \in Repair!Lookup(n) : history[i].frame = f}

LEMMA VerdictsCount ==
  ASSUME NEW r \in reports, NEW f, NEW b \in BOOLEAN, RepairInv
  PROVE  /\ Repair!Verdicts(r, f, b) \in Nat
         /\ Repair!Verdicts(r, f, b) > 0 => Verdict(r, f, b) # {}
  <1>1. r.base \in Int /\ r.top \in Int
    BY DEF RepairInv, Covered, RepairTypes
  <1>2. IsFiniteSet(r.base..r.top)
    BY <1>1, FS_Interval
  <1>3. IsFiniteSet(Verdict(r, f, b)) /\ Cardinality(Verdict(r, f, b)) \in Nat
    BY <1>2, FS_Subset, FS_CardinalityType DEF Verdict
  <1>4. Cardinality({}) = 0
    BY FS_EmptySet
  <1>5. Repair!Verdicts(r, f, b) = Cardinality(Verdict(r, f, b))
    BY DEF Repair!Verdicts, Verdict, Cardinality, Repair!Cardinality
  <1> QED
    BY <1>3, <1>4, <1>5

\* A number in a report that is not late by a turn names the packet that had it.
LEMMA LookedUp ==
  ASSUME RepairInv, NEW r \in reports, Len(sent) < r.base + Wrap, NEW n \in r.base..r.top,
         NEW i \in Repair!Lookup(n)
  PROVE  n \in 1..Len(sent) /\ history[i].frame = sent[n].frame
  <1>1. /\ r.base \in Nat /\ 1 <= r.base /\ r.top \in 0..Len(sent) /\ Len(sent) \in Nat
        /\ Len(history) \in Nat /\ DOMAIN history = 1..Len(history)
    BY DEF RepairInv, Covered, RepairTypes
  <1>2. n \in 1..Len(sent) /\ n \in Nat /\ r.base <= n
    BY <1>1
  <1>3. i \in 1..Len(history) /\ history[i].seq = (n - 1) % Wrap
    BY <1>1 DEF Repair!Lookup
  <1>4. PICK m : m = Place(i)
    OBVIOUS
  <1>5. /\ Len(history) <= HistoryCap /\ Len(history) <= Len(sent)
        /\ history[i].seq = (m - 1) % Wrap /\ history[i].frame = sent[m].frame
    BY <1>3, <1>4 DEF RepairInv, Remembered
  <1>6. m = Len(sent) - Len(history) + i
    BY <1>4 DEF Place
  <1>7. HistoryCap \in Nat /\ Wrap \in Nat \ {0} /\ 2 * HistoryCap <= Wrap
    BY RepairAssumption
  <1>8. m \in Nat /\ m >= 1 /\ m <= Len(sent) /\ Len(sent) < m + HistoryCap
    BY <1>1, <1>3, <1>5, <1>6, <1>7
  <1>9. n - 1 \in Nat /\ m - 1 \in Nat /\ n - 1 < (m - 1) + Wrap /\ m - 1 < (n - 1) + Wrap
    BY <1>1, <1>2, <1>7, <1>8
  <1>10. n - 1 = m - 1
    <2> DEFINE x == n - 1
               y == m - 1
    <2>1. x \in Nat /\ y \in Nat /\ x < y + Wrap /\ y < x + Wrap /\ x % Wrap = y % Wrap
      BY <1>3, <1>5, <1>9
    <2> HIDE DEF x, y
    <2>2. x = y
      BY <1>7, <2>1, SameNumber
    <2> QED
      BY <2>2 DEF x, y
  <1>11. n = m
    BY <1>2, <1>8, <1>10
  <1> QED
    BY <1>2, <1>5, <1>11

\* The tallies with the report's verdicts.
LEMMA NotedTallies ==
  ASSUME RepairInv, NEW r \in reports, Len(sent) < r.base + Wrap
  PROVE  /\ Repair!Noted(r) \in Seq(Tallies) /\ Len(Repair!Noted(r)) = Len(tallies)
         /\ \A i \in 1..Len(tallies) : Repair!Noted(r)[i].lost > 0 => Repair!Noted(r)[i].frame \in Gone
  <1> DEFINE N == Repair!Noted(r)
  <1>1. tallies \in Seq(Tallies) /\ DOMAIN tallies = 1..Len(tallies) /\ Len(tallies) \in Nat
    BY DEF RepairInv, RepairTypes
  <1>2. \A i \in 1..Len(tallies) : tallies[i] \in Tallies
    BY <1>1
  <1>3. ASSUME NEW i \in 1..Len(tallies)
        PROVE  /\ N[i] \in Tallies /\ N[i].frame = tallies[i].frame
               /\ N[i].lost = tallies[i].lost + Repair!Verdicts(r, tallies[i].frame, FALSE)
    <2>1. N[i] = [tallies[i] EXCEPT !.received = @ + Repair!Verdicts(r, tallies[i].frame, TRUE),
                                    !.lost = @ + Repair!Verdicts(r, tallies[i].frame, FALSE)]
      BY <1>1 DEF Repair!Noted
    <2>2. Repair!Verdicts(r, tallies[i].frame, TRUE) \in Nat /\ Repair!Verdicts(r, tallies[i].frame, FALSE) \in Nat
      BY VerdictsCount
    <2>3. PICK t, a, b : /\ t = tallies[i] /\ a = Repair!Verdicts(r, tallies[i].frame, TRUE)
                          /\ b = Repair!Verdicts(r, tallies[i].frame, FALSE)
      OBVIOUS
    <2>4. t \in Tallies /\ a \in Nat /\ b \in Nat
      BY ONLY <1>2, <2>2, <2>3
    <2>5. [t EXCEPT !.received = @ + a, !.lost = @ + b] \in Tallies
          /\ [t EXCEPT !.received = @ + a, !.lost = @ + b].frame = t.frame
          /\ [t EXCEPT !.received = @ + a, !.lost = @ + b].lost = t.lost + b
      <3>1. PICK g, h : g = t.received + a /\ h = t.lost + b
        OBVIOUS
      <3>2. g \in Nat /\ h \in Nat
        <4>1. PICK v, w : v = t.received /\ w = t.lost
          OBVIOUS
        <4>2. v \in Nat /\ w \in Nat
          BY ONLY <2>4, <4>1 DEF Tallies
        <4>3. g = v + a /\ h = w + b
          BY ONLY <3>1, <4>1, Zenon
        <4> QED
          BY ONLY <2>4, <4>2, <4>3
      <3>3. [t EXCEPT !.received = g, !.lost = h] \in Tallies
        BY ONLY <2>4, <3>2 DEF Tallies
      <3>4. [t EXCEPT !.received = g, !.lost = h].frame = t.frame
            /\ [t EXCEPT !.received = g, !.lost = h].lost = h
        BY ONLY <2>4, <3>2 DEF Tallies
      <3> QED
        BY ONLY <3>1, <3>3, <3>4, Zenon
    <2>6. N[i] = [t EXCEPT !.received = @ + a, !.lost = @ + b]
      BY ONLY <2>1, <2>3
    <2> HIDE DEF N
    <2> QED
      BY ONLY <2>3, <2>5, <2>6
  <1>4. N = [i \in 1..Len(tallies) |-> N[i]]
    BY <1>1 DEF Repair!Noted
  <1> HIDE DEF N
  <1>5. N \in Seq(Tallies) /\ Len(N) = Len(tallies)
    <2>1. PICK L : L = Len(tallies)
      OBVIOUS
    <2>2. L \in Nat /\ N = [i \in 1..L |-> N[i]] /\ \A i \in 1..L : N[i] \in Tallies
      BY <1>1, <1>3, <1>4, <2>1
    <2>3. N \in Seq(Tallies) /\ Len(N) = L
      BY ONLY <2>2
    <2> QED
      BY <2>1, <2>3
  <1>6. ASSUME NEW i \in 1..Len(tallies), N[i].lost > 0 PROVE N[i].frame \in Gone
    <2> DEFINE f == tallies[i].frame
    <2>1. N[i].frame = f /\ N[i].lost = tallies[i].lost + Repair!Verdicts(r, f, FALSE) /\ tallies[i].lost \in Nat
      BY <1>2, <1>3 DEF Tallies
    <2>2. CASE tallies[i].lost > 0
      BY <2>1, <2>2 DEF RepairInv, LossesNoted
    <2>3. CASE ~(tallies[i].lost > 0)
      <3> HIDE DEF f
      <3>1. Repair!Verdicts(r, f, FALSE) > 0
        <4>1. Repair!Verdicts(r, f, FALSE) \in Nat
          BY VerdictsCount
        <4> QED
          <5>1. PICK a, b, c : a = tallies[i].lost /\ b = Repair!Verdicts(r, f, FALSE) /\ c = N[i].lost
            OBVIOUS
          <5>2. a \in Nat /\ b \in Nat /\ c = a + b /\ c > 0 /\ ~(a > 0)
            BY ONLY <1>6, <2>1, <2>3, <4>1, <5>1, Zenon
          <5>3. b > 0
            BY ONLY <5>2
          <5> QED
            BY ONLY <5>1, <5>3, Zenon
      <3>2. PICK n \in Verdict(r, f, FALSE) : TRUE
        BY <3>1, VerdictsCount
      <3>3. n \in r.base..r.top /\ sent[n].arrived = FALSE /\ \E j \in Repair!Lookup(n) : history[j].frame = f
        BY <3>2 DEF Verdict
      <3>4. n \in 1..Len(sent) /\ sent[n].frame = f
        BY <3>3, LookedUp
      <3> QED
        BY <2>1, <3>3, <3>4 DEF Gone
    <2> QED
      BY <2>2, <2>3
  <1> QED
    BY <1>5, <1>6 DEF N

\* What is decided is a prefix, and each of it is.
LEMMA PrefixDecided ==
  ASSUME NEW ts \in Seq(Tallies)
  PROVE  \E k \in 0..Len(ts) : /\ Repair!Prefix(ts) = SubSeq(ts, 1, k)
                               /\ \A i \in 1..k : Repair!Decided(ts[i])
  <1> DEFINE U == {i \in DOMAIN ts : ~Repair!Decided(ts[i])}
             T == {Len(ts) + 1} \cup U
  <1>1. Len(ts) \in Nat /\ DOMAIN ts = 1..Len(ts)
    OBVIOUS
  <1>2. U \subseteq 1..Len(ts) /\ T \subseteq 1..(Len(ts) + 1) /\ T # {} /\ T \in SUBSET Nat
    BY <1>1
  <1> DEFINE m == Repair!Min(T)
  <1>3. m \in T /\ \A y \in T : m <= y
    <2>1. \E x \in T : \A y \in T : x <= y
      BY <1>2, Smallest
    <2> HIDE DEF T
    <2> QED
      BY <2>1 DEF Repair!Min
  <1>4. Repair!Prefix(ts) = SubSeq(ts, 1, m - 1)
    BY DEF Repair!Prefix
  <1>5. U \subseteq T
    OBVIOUS
  <1> HIDE DEF m, T
  <1>6. m \in 1..(Len(ts) + 1) /\ m - 1 \in 0..Len(ts)
    BY <1>1, <1>2, <1>3
  <1>7. ASSUME NEW i \in 1..(m - 1) PROVE Repair!Decided(ts[i])
    <2>1. i \in DOMAIN ts /\ ~(m <= i)
      BY <1>1, <1>6
    <2>2. i \notin U
      BY <1>3, <1>5, <2>1
    <2> QED
      BY <2>1, <2>2
  <1> QED
    BY <1>4, <1>6, <1>7

LEMMA InterpretStep == ASSUME RepairInv, Repair!Interpret PROVE RepairInv'
  <1>1. UNCHANGED <<next, queue, writing, lost, sent, reported>>
    BY DEF Repair!Interpret, Repair!coder, Repair!repair
  <1>2. PICK r \in reports :
          /\ Len(sent) < r.base + Wrap /\ reports' = reports \ {r}
          /\ history' = Repair!Retired(r)
          /\ tallies' = SubSeq(Repair!Noted(r), Len(Repair!Prefix(Repair!Noted(r))) + 1, Len(tallies))
          /\ LET decided == Repair!Prefix(Repair!Noted(r))
                 whole   == {decided[i].frame : i \in {j \in DOMAIN decided : Repair!Intact(decided[j])}}
                 broken  == {decided[i].frame : i \in {j \in DOMAIN decided : ~Repair!Intact(decided[j])}}
             IN  receipts' = [ack |-> IF whole = {} THEN None ELSE Repair!Max(whole), lost |-> broken]
    BY DEF Repair!Interpret
  <1> DEFINE N == Repair!Noted(r)
             d == Repair!Prefix(N)
             whole  == {d[i].frame : i \in {j \in DOMAIN d : Repair!Intact(d[j])}}
             broken == {d[i].frame : i \in {j \in DOMAIN d : ~Repair!Intact(d[j])}}
  <1>3. /\ N \in Seq(Tallies) /\ Len(N) = Len(tallies)
        /\ \A i \in 1..Len(tallies) : N[i].lost > 0 => N[i].frame \in Gone
    BY <1>2, NotedTallies
  <1>4. PICK k \in 0..Len(N) : d = SubSeq(N, 1, k) /\ \A i \in 1..k : Repair!Decided(N[i])
    BY <1>3, PrefixDecided
  <1>5. receipts' = [ack |-> IF whole = {} THEN None ELSE Repair!Max(whole), lost |-> broken]
        /\ tallies' = SubSeq(N, Len(d) + 1, Len(N))
    BY <1>2, <1>3
  <1> HIDE DEF N
  <1>6. /\ d \in Seq(Tallies) /\ Len(d) = k /\ DOMAIN d = 1..k /\ Len(N) \in Nat
        /\ \A i \in 1..k : d[i] = N[i] /\ N[i] \in Tallies
    <2>1. Len(N) \in Nat /\ k \in Int /\ k <= Len(N)
      BY <1>3, <1>4
    <2> QED
      BY <1>3, <1>4, <2>1
  <1> HIDE DEF d
  <1>7. ASSUME NEW i \in 1..k, ~Repair!Intact(d[i]) PROVE d[i].frame \in Gone
    <2>1. Repair!Decided(d[i]) /\ d[i] \in Tallies
      BY <1>4, <1>6
    <2>2. d[i].lost > 0
      BY <1>7, <2>1 DEF Repair!Decided, Repair!Intact, Tallies
    <2>3. i \in 1..Len(tallies)
      BY <1>3, <1>4, <1>6
    <2> QED
      BY <1>3, <1>6, <2>2, <2>3
  <1>8. broken \subseteq Gone
    BY <1>6, <1>7
  <1>9. broken \subseteq Nat
    BY <1>6 DEF Tallies
  <1> HIDE DEF whole, broken
  <1>11. receipts' \in [ack : {receipts'.ack}, lost : SUBSET Nat] /\ receipts'.lost = broken
    BY <1>5, <1>9
  <1>12. /\ tallies' \in Seq(Tallies)
         /\ \A i \in 1..Len(tallies') : \E j \in 1..Len(N) : tallies'[i] = N[j]
    <2>1. k + 1 \in 1..(Len(N) + 1) /\ tallies' = SubSeq(N, k + 1, Len(N))
      <3>1. PICK n : n = Len(N)
        OBVIOUS
      <3>2. n \in Nat /\ k \in 0..n
        BY ONLY <1>4, <1>6, <3>1, Zenon
      <3>3. k + 1 \in 1..(n + 1)
        BY ONLY <3>2
      <3>4. tallies' = SubSeq(N, k + 1, Len(N))
        BY ONLY <1>5, <1>6, Zenon
      <3> QED
        BY ONLY <3>1, <3>3, <3>4, Zenon
    <2> QED
      BY <1>3, <1>4, <1>6, <2>1, Suffixes
  <1>13. Gone' = Gone
    BY <1>1 DEF Gone
  <1>14. LossesNoted'
    BY <1>3, <1>12, <1>13 DEF LossesNoted
  <1>15. LostGone'
    BY <1>1, <1>8, <1>11, <1>13 DEF RepairInv, LostGone
  <1>16. Covered'
    BY <1>1, <1>2 DEF RepairInv, Covered
  <1>17. history' \in Seq(Packets) /\ Remembered'
    BY <1>1, <1>2, RetiredIsSuffix
  <1> QED
    BY <1>1, <1>11, <1>12, <1>14, <1>15, <1>16, <1>17 DEF RepairInv, RepairTypes

LEMMA RepairStep == RepairInv /\ [ComponentsNext]_all => RepairInv'
  <1> SUFFICES ASSUME RepairInv, [ComponentsNext]_all PROVE RepairInv'
    OBVIOUS
  <1>1. CASE Repair!Next
    <2>1. CASE Repair!Coder
      BY <2>1, CoderSteps
    <2>2. CASE Repair!RequestRepair \/ Repair!TakeFrame
      BY <2>2, WriterSteps
    <2>3. CASE Repair!Record
      BY <2>3, RecordStep
    <2>4. CASE Repair!Client
      BY <2>4, ClientSteps
    <2>5. CASE Repair!Interpret
      BY <2>5, InterpretStep
    <2>6. CASE Repair!Acknowledge \/ Repair!SetBits \/ Repair!NoteLost
      BY <2>6, ReaderSteps
    <2> QED
      BY <1>1, <2>1, <2>2, <2>3, <2>4, <2>5, <2>6
         DEF Repair!Next, Repair!Writer, Repair!ReaderStep
  <1>2. CASE UNCHANGED ofRepair
    <2>1. UNCHANGED <<next, queue, writing, lost, history, tallies, receipts, sent, reports, reported>>
      BY <1>2 DEF ofRepair
    <2>2. RepairTypes'
      BY <2>1 DEF RepairInv, RepairTypes
    <2> QED
      BY <2>1, <2>2, LostBroken, RepairKeeps DEF RepairInv, Covered
  <1> QED
    BY <1>1, <1>2
       DEF ComponentsNext, KeyframesNext, RepairNext, SoundNext, DriverNext, CodesNext, BitrateNext, all

\* A frame is only ever reported lost when a packet of it did not arrive, whatever reports are
\* lost or overtake each other, and however the numbers wrap (congestion.rs:132-200, 283-352).
THEOREM LossesAreTrue == ComponentsSpec => []LostIsTrue
  <1>1. RepairInv => LostIsTrue
    <2> SUFFICES ASSUME RepairInv, NEW f \in Repair!ToSet(lost) \cup receipts.lost
                 PROVE  Repair!Broken(f)
      BY DEF LostIsTrue, Repair!LostIsTrue
    <2>1. RepairTypes /\ lost \in Seq(Nat) /\ DOMAIN lost = 1..Len(lost)
      BY DEF RepairInv, RepairTypes
    <2>2. f \in Gone
      <3>1. CASE f \in receipts.lost
        BY <3>1, ToldBroken
      <3>2. CASE f \in Repair!ToSet(lost)
        BY <2>1, <3>2, LostBroken DEF Repair!ToSet
      <3> QED
        BY <3>1, <3>2
    <2> QED
      BY <2>1, <2>2, GoneIsBroken
  <1> QED
    BY <1>1, RepairInit, RepairStep, PTL DEF ComponentsSpec

=============================================================================
