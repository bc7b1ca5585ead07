----------------------- MODULE SessionLifecycleProofs -----------------------
(***************************************************************************)
(* What holds of SessionLifecycle for any number of attempts, joins,       *)
(* displays and modes.  At either granularity: the type invariant, that no *)
(* two joins ever record one display, and that a session stays its         *)
(* device's.  And on one executor thread (~Preempt), where a task keeps    *)
(* the processor from one await to the next: what is served is whole, no   *)
(* capture is left without somebody to stop it, no dashboard row without   *)
(* somebody to take it down, nothing that is in use is removed, what a     *)
(* session records is up and stays true, and nothing is left behind at the *)
(* end that two renegotiations did not lose.                               *)
(***************************************************************************)
EXTENDS SessionLifecycle, TLAPS

-----------------------------------------------------------------------------
(* Type correctness.  TypeOK is not inductive: that an attempt which activates a transport *)
(* has landed on a display rests on its capture running only once it has one, and that a  *)
(* connection can be marked only for a join, on an answer having an offer before it.       *)

EarlyPcs == {"idle", "open", "seq", "stopPrev", "existing", "display", "setMode",
             "readBack", "lock", "attach", "record", "check", "start"}

Underway ==
    /\ \A a \in running : pc[a] \notin EarlyPcs /\ (pc[a] = "join" => got[a] # None)
    /\ \A a \in answered : pc[a] # "idle"

TInv == TypeOK /\ Underway

\* The locals a task gives up when it ends.
LocalsTyped ==
    /\ want \in [Attempts -> Modes \cup {None}]
    /\ had \in [Attempts -> LiveDisplay \cup {None}]
    /\ got \in [Attempts -> LiveDisplay \cup {None}]
    /\ outcome \in [Attempts -> {"kept", "applied", "refused"}]
    /\ snap \in [Attempts -> LiveDisplay \cup {None}]
    /\ taken \in [Attempts -> LiveDisplay \cup {None}]

\* Ending a task, or going on, keeps the types of its locals.
LEMMA GoOrEndTyped ==
    ASSUME TaskTyped, NEW a \in Attempts, NEW l \in PcLabels, GoOrEnd(a, l)
    PROVE  pc' \in [Attempts -> PcLabels] /\ LocalsTyped'
<1>1. pc' \in [Attempts -> PcLabels]
  BY DEF TaskTyped, GoOrEnd, Goto
<1>2. CASE l = "done"
  <2>1. want' \in [Attempts -> Modes \cup {None}]
    BY <1>2 DEF TaskTyped, GoOrEnd
  <2>2. /\ had' \in [Attempts -> LiveDisplay \cup {None}]
        /\ got' \in [Attempts -> LiveDisplay \cup {None}]
    BY <1>2 DEF TaskTyped, GoOrEnd
  <2>3. /\ snap' \in [Attempts -> LiveDisplay \cup {None}]
        /\ taken' \in [Attempts -> LiveDisplay \cup {None}]
    BY <1>2 DEF TaskTyped, GoOrEnd
  <2>4. outcome' \in [Attempts -> {"kept", "applied", "refused"}]
    BY <1>2 DEF TaskTyped, GoOrEnd
  <2>. QED  BY <1>1, <2>1, <2>2, <2>3, <2>4 DEF LocalsTyped
<1>3. CASE l # "done"
  BY <1>1, <1>3 DEF TaskTyped, LocalsTyped, GoOrEnd, locals
<1>. QED  BY <1>2, <1>3

\* The initial state is well typed.
LEMMA InitTyped == Init => TInv
  BY LifecycleAssumption DEF Init, TInv, TypeOK, SessTyped, TaskTyped, HostTyped, TaskWhole,
         Underway, NoEntry, Entry, LiveDisplay, PcLabels, GotPcs, ServePcs, EarlyPcs

\* Whatever id a page claims, the join an offer continues is one of the host's.
LEMMA ContinuationsAreJoins ==
    ASSUME TypeOK, NEW a \in Attempts, NEW claim \in Claims(a), NEW c \in Continuations(a, claim)
    PROVE  c \in Joins \cup {None}
<1>1. claim \in Joins \cup {None}
  BY DEF TypeOK, TaskTyped, HostTyped, Claims
<1>2. PendingJoins(a) \subseteq Joins
  BY DEF PendingJoins
<1>3. \A r : RelayJoins(r) \subseteq Joins
  BY DEF RelayJoins
<1>4. RelayContinuations(a) \subseteq Joins \cup {None}
  BY <1>3 DEF RelayContinuations
<1>. QED  BY <1>1, <1>2, <1>4 DEF Continuations

\* The lemmas below take one action each.
LEMMA OfferTyped ==
    ASSUME TInv, NEW a \in Attempts, Offer(a)
    PROVE  TInv'
<1>1. jn' \in [Attempts -> Joins \cup {None}] /\ jn'[a] \in Joins /\ minted' \subseteq Joins
  BY ContinuationsAreJoins DEF Offer, TInv, TypeOK, TaskTyped, HostTyped
<1>2. want' \in [Attempts -> Modes \cup {None}] /\ want'[a] \in Modes
  BY DEF Offer, TInv, TypeOK, TaskTyped
<1>3. cont' \in [Attempts -> BOOLEAN]
  BY DEF Offer, TInv, TypeOK, TaskTyped
<1>4. pc' \in [Attempts -> PcLabels] /\ cpu' \in Attempts \cup {None}
  BY DEF Offer, TInv, TypeOK, TaskTyped, Goto, Hold, PcLabels
<1>5. TaskTyped'
  BY <1>1, <1>2, <1>3, <1>4 DEF Offer, TInv, TypeOK, TaskTyped, linkVars
<1>6. HostTyped'
  BY <1>1, <1>4 DEF Offer, TInv, TypeOK, HostTyped, osVars
<1>7. (\A b \in Attempts : TaskWhole(b))'
  BY <1>1, <1>2 DEF Offer, TInv, TypeOK, TaskTyped, TaskWhole, Goto, GotPcs, ServePcs
<1>8. SessTyped' /\ Underway'
  BY DEF Offer, TInv, TypeOK, TaskTyped, SessTyped, Underway, EarlyPcs, Goto
<1>. QED  BY <1>5, <1>6, <1>7, <1>8 DEF TInv, TypeOK

LEMMA OpenSessionTyped ==
    ASSUME TInv, NEW a \in Attempts, OpenSession(a)
    PROVE  TInv'
<1>1. SessTyped'
  <2>. DEFINE r == IF RelayOf[a] = None THEN sess[jn[a]].relay ELSE RelayOf[a]
              e == [sess[jn[a]] EXCEPT !.open = TRUE, !.token = DeviceOf[a],
                                       !.page = PageOf[a], !.relay = r]
  <2>1. jn[a] \in Joins /\ sess[jn[a]] \in Entry
    BY DEF OpenSession, TInv, TypeOK, SessTyped, TaskWhole
  <2>2. DeviceOf[a] \in Devices /\ PageOf[a] \in Pages /\ r \in Relays \cup {None}
    BY <2>1 DEF Devices, Pages, Relays, Entry
  <2>3. e \in Entry
    BY <2>1, <2>2 DEF Entry
  <2>4. sess' = [sess EXCEPT ![jn[a]] = e]
    BY DEF OpenSession
  <2>. HIDE DEF e
  <2>. QED  BY <2>1, <2>3, <2>4 DEF TInv, TypeOK, SessTyped
<1>2. TaskTyped'
  BY DEF OpenSession, Goto, Hold, Run, claimVars, buildVars, linkVars, osVars, TInv, TypeOK,
         TaskTyped, PcLabels, BuildPcs, ServePcs, EndPcs, LiveDisplay
<1>3. HostTyped'
  BY LifecycleAssumption DEF OpenSession, Goto, Hold, Run, claimVars, buildVars, linkVars,
         osVars, TInv, TypeOK, TaskTyped, HostTyped, TaskWhole
<1>4. (\A b \in Attempts : TaskWhole(b))'
  BY DEF OpenSession, Goto, Hold, Run, claimVars, buildVars, linkVars, osVars, TInv, TypeOK,
         SessTyped, TaskTyped, HostTyped, TaskWhole, GotPcs, ServePcs
<1>5. Underway'
  BY DEF OpenSession, Goto, Hold, Run, claimVars, buildVars, linkVars, osVars, TInv, TypeOK,
         TaskTyped, HostTyped, TaskWhole, Underway, EarlyPcs, GotPcs, ServePcs
<1>. QED  BY <1>1, <1>2, <1>3, <1>4, <1>5 DEF TInv, TypeOK

LEMMA NextSeqTyped ==
    ASSUME TInv, NEW a \in Attempts, NextSeq(a)
    PROVE  TInv'
<1>1. SessTyped'
  <2>. DEFINE n == sess[jn[a]].seq + 1
              e == [sess[jn[a]] EXCEPT !.open = TRUE, !.seq = n]
  <2>1. jn[a] \in Joins /\ sess[jn[a]] \in Entry
    BY DEF NextSeq, TInv, TypeOK, SessTyped, TaskWhole
  <2>2. n \in Nat
    BY <2>1 DEF Entry
  <2>3. sess' = [sess EXCEPT ![jn[a]] = e]
    BY DEF NextSeq
  <2>4. e \in Entry
    <3>. HIDE DEF n
    <3>. QED  BY <2>1, <2>2 DEF Entry
  <2>. HIDE DEF e
  <2>. QED  BY <2>1, <2>3, <2>4 DEF TInv, TypeOK, SessTyped
<1>2. TaskTyped'
  <2>1. jn[a] \in Joins /\ sess[jn[a]] \in Entry
    BY DEF NextSeq, TInv, TypeOK, SessTyped, TaskWhole
  <2>2. sess[jn[a]].seq + 1 \in Nat
    BY <2>1 DEF Entry
  <2>. QED
    BY <2>2 DEF NextSeq, TInv, TypeOK, TaskTyped, Goto, PcLabels, buildVars, linkVars
<1>3. HostTyped'
  BY LifecycleAssumption DEF NextSeq, Goto, Hold, Run, buildVars, linkVars, osVars, TInv,
         TypeOK, TaskTyped, HostTyped, TaskWhole
<1>4. (\A b \in Attempts : TaskWhole(b))'
  BY DEF NextSeq, Goto, Hold, Run, buildVars, linkVars, osVars, TInv, TypeOK, SessTyped,
         TaskTyped, HostTyped, TaskWhole, GotPcs, ServePcs
<1>5. Underway'
  BY DEF NextSeq, Goto, Hold, Run, buildVars, linkVars, osVars, TInv, TypeOK, TaskTyped,
         HostTyped, TaskWhole, Underway, EarlyPcs, GotPcs, ServePcs
<1>. QED  BY <1>1, <1>2, <1>3, <1>4, <1>5 DEF TInv, TypeOK

LEMMA StopPreviousTyped ==
    ASSUME TInv, NEW a \in Attempts, StopPrevious(a)
    PROVE  TInv'
<1>1. SessTyped'
  <2>. DEFINE e == [sess[jn[a]] EXCEPT !.cap = None]
  <2>1. jn[a] \in Joins /\ sess[jn[a]] \in Entry
    BY DEF StopPrevious, TInv, TypeOK, SessTyped, TaskWhole
  <2>2. e \in Entry
    BY <2>1 DEF Entry
  <2>3. sess' = [sess EXCEPT ![jn[a]] = e]
    BY DEF StopPrevious
  <2>. HIDE DEF e
  <2>. QED  BY <2>1, <2>2, <2>3 DEF TInv, TypeOK, SessTyped
<1>2. TaskTyped'
  BY DEF StopPrevious, Goto, Hold, Yield, Run, claimVars, buildVars, linkVars, osVars, TInv,
         TypeOK, TaskTyped, PcLabels, BuildPcs, ServePcs, EndPcs, LiveDisplay
<1>3. HostTyped'
  BY LifecycleAssumption DEF StopPrevious, Goto, Hold, Yield, Run, claimVars, buildVars,
         linkVars, osVars, TInv, TypeOK, TaskTyped, HostTyped, TaskWhole
<1>4. (\A b \in Attempts : TaskWhole(b))'
  BY DEF StopPrevious, Goto, Hold, Yield, Run, claimVars, buildVars, linkVars, osVars, TInv,
         TypeOK, SessTyped, TaskTyped, HostTyped, TaskWhole, GotPcs, ServePcs
<1>5. Underway'
  BY DEF StopPrevious, Goto, Hold, Yield, Run, claimVars, buildVars, linkVars, osVars, TInv,
         TypeOK, TaskTyped, HostTyped, TaskWhole, Underway, EarlyPcs, GotPcs, ServePcs
<1>. QED  BY <1>1, <1>2, <1>3, <1>4, <1>5 DEF TInv, TypeOK

LEMMA ReadExistingTyped ==
    ASSUME TInv, NEW a \in Attempts, ReadExisting(a)
    PROVE  TInv'
<1>1. SessTyped'
  <2>. DEFINE e == [sess[jn[a]] EXCEPT !.open = TRUE]
  <2>1. jn[a] \in Joins /\ sess[jn[a]] \in Entry
    BY DEF ReadExisting, TInv, TypeOK, SessTyped, TaskWhole
  <2>2. e \in Entry
    BY <2>1 DEF Entry
  <2>3. sess' = [sess EXCEPT ![jn[a]] = e]
    BY DEF ReadExisting
  <2>. HIDE DEF e
  <2>. QED  BY <2>1, <2>2, <2>3 DEF TInv, TypeOK, SessTyped
<1>2. TaskTyped'
  <2>1. had' \in [Attempts -> LiveDisplay \cup {None}]
    BY DEF ReadExisting, TInv, TypeOK, SessTyped, TaskTyped, TaskWhole, Entry
  <2>. QED
    BY <2>1 DEF ReadExisting, TInv, TypeOK, TaskTyped, Goto, PcLabels, BuildPcs, claimVars
<1>3. HostTyped'
  BY LifecycleAssumption DEF ReadExisting, Goto, Hold, Run, claimVars, osVars, TInv, TypeOK,
         TaskTyped, HostTyped, TaskWhole
<1>4. (\A b \in Attempts : TaskWhole(b))'
  BY DEF ReadExisting, Goto, Hold, Run, claimVars, osVars, TInv, TypeOK, SessTyped, TaskTyped,
         HostTyped, TaskWhole, GotPcs, ServePcs
<1>5. Underway'
  BY DEF ReadExisting, Goto, Hold, Run, claimVars, osVars, TInv, TypeOK, TaskTyped, HostTyped,
         TaskWhole, Underway, EarlyPcs, GotPcs, ServePcs
<1>. QED  BY <1>1, <1>2, <1>3, <1>4, <1>5 DEF TInv, TypeOK

LEMMA ReuseUntouchedTyped ==
    ASSUME TInv, NEW a \in Attempts, ReuseUntouched(a)
    PROVE  TInv'
  BY LifecycleAssumption DEF ReuseUntouched, Goto, Hold, Run, claimVars, linkVars, osVars, TInv,
         TypeOK, SessTyped, TaskTyped, HostTyped, TaskWhole, Underway, PcLabels, BuildPcs,
         ServePcs, EndPcs, GotPcs, EarlyPcs, LiveDisplay

LEMMA ReuseChangeTyped ==
    ASSUME TInv, NEW a \in Attempts, ReuseChange(a)
    PROVE  TInv'
<1>1. SessTyped'
  BY DEF ReuseChange, Goto, Yield, Run, claimVars, linkVars, osVars, IsCurrent, TInv, TypeOK,
         SessTyped
<1>2. TaskTyped'
  <2>1. pc' \in [Attempts -> PcLabels]
    BY DEF ReuseChange, TInv, TypeOK, TaskTyped, Goto, PcLabels, BuildPcs
  <2>2. got' \in [Attempts -> LiveDisplay \cup {None}]
    BY DEF ReuseChange, TInv, TypeOK, TaskTyped
  <2>. QED
    BY <2>1, <2>2 DEF ReuseChange, TInv, TypeOK, TaskTyped, claimVars, linkVars
<1>3. HostTyped'
  BY LifecycleAssumption DEF ReuseChange, Goto, Yield, Run, claimVars, linkVars, osVars,
         IsCurrent, TInv, TypeOK, TaskTyped, HostTyped, TaskWhole
<1>4. (\A b \in Attempts : TaskWhole(b))'
  BY DEF ReuseChange, Goto, Yield, Run, claimVars, linkVars, osVars, IsCurrent, TInv, TypeOK,
         SessTyped, TaskTyped, HostTyped, TaskWhole, GotPcs, ServePcs
<1>5. Underway'
  BY DEF ReuseChange, Goto, Yield, Run, claimVars, linkVars, osVars, IsCurrent, TInv, TypeOK,
         TaskTyped, HostTyped, TaskWhole, Underway, EarlyPcs, GotPcs, ServePcs
<1>. QED  BY <1>1, <1>2, <1>3, <1>4, <1>5 DEF TInv, TypeOK

LEMMA NeedDisplayTyped ==
    ASSUME TInv, NEW a \in Attempts, NeedDisplay(a)
    PROVE  TInv'
  BY LifecycleAssumption DEF NeedDisplay, Goto, Yield, Run, claimVars, buildVars, linkVars,
         osVars, TInv, TypeOK, SessTyped, TaskTyped, HostTyped, TaskWhole, Underway, PcLabels,
         BuildPcs, ServePcs, EndPcs, GotPcs, EarlyPcs, LiveDisplay

LEMMA CreateDisplayTyped ==
    ASSUME TInv, NEW a \in Attempts, CreateDisplay(a)
    PROVE  TInv'
<1>1. SessTyped'
  BY DEF CreateDisplay, Goto, Yield, Run, claimVars, linkVars, TInv, TypeOK, SessTyped
<1>2. TaskTyped'
  <2>1. pc' \in [Attempts -> PcLabels]
    BY DEF CreateDisplay, TInv, TypeOK, TaskTyped, Goto, PcLabels, BuildPcs
  <2>2. \A d \in Displays, m \in Modes : [id |-> d, mode |-> m] \in LiveDisplay
    BY DEF LiveDisplay
  <2>3. got' \in [Attempts -> LiveDisplay \cup {None}]
    BY <2>2 DEF CreateDisplay, TInv, TypeOK, TaskTyped
  <2>. QED
    BY <2>1, <2>3 DEF CreateDisplay, TInv, TypeOK, TaskTyped, claimVars, linkVars
<1>3. HostTyped'
  <2>1. /\ attached' \subseteq Displays /\ corr' \in Attempts \cup {None}
        /\ madeFor' \in [Displays -> Joins \cup {None}]
    BY DEF CreateDisplay, TInv, TypeOK, TaskTyped, HostTyped, TaskWhole
  <2>2. /\ mode' \in [Displays -> Modes \cup {None}]
        /\ (\A d \in attached : mode[d] \in Modes)'
    BY DEF CreateDisplay, TInv, TypeOK, HostTyped
  <2>3. cpu' \in Attempts \cup {None}
    BY DEF CreateDisplay, Yield
  <2>. QED
    BY <2>1, <2>2, <2>3 DEF CreateDisplay, TInv, TypeOK, HostTyped, claimVars
<1>4. (\A b \in Attempts : TaskWhole(b))'
  <2>1. \A d \in Displays, m \in Modes : [id |-> d, mode |-> m] # None
    BY LifecycleAssumption DEF LiveDisplay
  <2>. QED
    BY <2>1 DEF CreateDisplay, TInv, TypeOK, TaskTyped, TaskWhole, Goto, claimVars, GotPcs,
            ServePcs
<1>5. Underway'
  BY DEF CreateDisplay, Goto, Yield, Run, claimVars, linkVars, TInv, TypeOK, TaskTyped,
         HostTyped, TaskWhole, Underway, EarlyPcs, GotPcs, ServePcs
<1>. QED  BY <1>1, <1>2, <1>3, <1>4, <1>5 DEF TInv, TypeOK

\* The displays a topology reset has re-applied are rows of the session map.
LEMMA RestoreOthersTyped ==
    ASSUME SessTyped, HostTyped, NEW a \in Attempts, RestoreOthers(a)
    PROVE  restore' \subseteq LiveDisplay
<1>1. \A j \in Joins : sess[j].live \in LiveDisplay \cup {None}
  BY DEF SessTyped, Entry
<1>2. restore \subseteq LiveDisplay
  BY DEF HostTyped
<1>3. {sess[j].live : j \in Joins \ {jn[a]}} \ {None} \subseteq LiveDisplay
  BY <1>1
<1>4. \/ restore' = restore
      \/ restore' = restore \cup ({sess[j].live : j \in Joins \ {jn[a]}} \ {None})
  BY DEF RestoreOthers
<1>. QED  BY <1>2, <1>3, <1>4

LEMMA AttachTyped ==
    ASSUME TInv, NEW a \in Attempts, Attach(a)
    PROVE  TInv'
<1>1. restore' \subseteq LiveDisplay
  BY RestoreOthersTyped DEF Attach, TInv, TypeOK, HostTyped
<1>2. pc' = [pc EXCEPT ![a] = "record"] \/ pc' = [pc EXCEPT ![a] = "setMode"]
  BY DEF Attach, Goto
<1>3. SessTyped' /\ TaskTyped'
  BY <1>2 DEF Attach, TInv, TypeOK, SessTyped, TaskTyped, PcLabels, BuildPcs, claimVars, linkVars
<1>4. HostTyped'
  BY <1>1 DEF Attach, Yield, TInv, TypeOK, HostTyped, claimVars
<1>5. (\A b \in Attempts : TaskWhole(b))'
  BY <1>2 DEF Attach, TInv, TypeOK, TaskTyped, TaskWhole, GotPcs, ServePcs, claimVars
<1>6. Underway'
  BY <1>2 DEF Attach, TInv, TypeOK, TaskTyped, HostTyped, Underway, EarlyPcs, claimVars
<1>. QED  BY <1>3, <1>4, <1>5, <1>6 DEF TInv, TypeOK

LEMMA AttachFailedTyped ==
    ASSUME TInv, NEW a \in Attempts, AttachFailed(a)
    PROVE  TInv'
  BY LifecycleAssumption DEF AttachFailed, Goto, Yield, Run, claimVars, linkVars, TInv, TypeOK,
         SessTyped, TaskTyped, HostTyped, TaskWhole, Underway, PcLabels, BuildPcs, ServePcs,
         EndPcs, GotPcs, EarlyPcs, LiveDisplay

LEMMA ModeAppliedTyped ==
    ASSUME TInv, NEW a \in Attempts, ModeApplied(a)
    PROVE  TInv'
<1>1. restore' \subseteq LiveDisplay
  BY RestoreOthersTyped DEF ModeApplied, TInv, TypeOK, HostTyped
<1>. QED
  BY LifecycleAssumption, <1>1 DEF ModeApplied, Goto, Yield, Run, claimVars, linkVars, TInv, TypeOK,
         SessTyped, TaskTyped, HostTyped, TaskWhole, Underway, PcLabels, BuildPcs, ServePcs,
         EndPcs, GotPcs, EarlyPcs, LiveDisplay

LEMMA ModeRefusedTyped ==
    ASSUME TInv, NEW a \in Attempts, ModeRefused(a)
    PROVE  TInv'
<1>1. restore' \subseteq LiveDisplay
  BY RestoreOthersTyped DEF ModeRefused, TInv, TypeOK, HostTyped
<1>. QED
  BY LifecycleAssumption, <1>1 DEF ModeRefused, Goto, Yield, Run, claimVars, linkVars, TInv, TypeOK,
         SessTyped, TaskTyped, HostTyped, TaskWhole, Underway, PcLabels, BuildPcs, ServePcs,
         EndPcs, GotPcs, EarlyPcs, LiveDisplay

LEMMA ReadBackTyped ==
    ASSUME TInv, NEW a \in Attempts, ReadBack(a)
    PROVE  TInv'
  BY LifecycleAssumption DEF ReadBack, Goto, Yield, Run, claimVars, linkVars, osVars, TInv,
         TypeOK, SessTyped, TaskTyped, HostTyped, TaskWhole, Underway, PcLabels, BuildPcs,
         ServePcs, EndPcs, GotPcs, EarlyPcs, LiveDisplay

LEMMA RecordTyped ==
    ASSUME TInv, NEW a \in Attempts, Record(a)
    PROVE  TInv'
<1>1. SessTyped'
  <2>. DEFINE e == [sess[jn[a]] EXCEPT !.open = TRUE, !.live = got[a]]
  <2>1. jn[a] \in Joins /\ sess[jn[a]] \in Entry
    BY DEF Record, TInv, TypeOK, SessTyped, TaskWhole
  <2>2. got[a] \in LiveDisplay \cup {None}
    BY <2>1 DEF TInv, TypeOK, TaskTyped
  <2>3. e \in Entry
    BY <2>1, <2>2 DEF Entry
  <2>4. sess' = [sess EXCEPT ![jn[a]] = e]
    BY DEF Record
  <2>. HIDE DEF e
  <2>. QED  BY <2>1, <2>3, <2>4 DEF TInv, TypeOK, SessTyped
<1>2. TaskTyped'
  BY DEF Record, Goto, Hold, Run, claimVars, buildVars, linkVars, osVars, TInv, TypeOK,
         TaskTyped, PcLabels, BuildPcs, ServePcs, EndPcs, LiveDisplay
<1>3. HostTyped'
  BY LifecycleAssumption DEF Record, Goto, Hold, Run, claimVars, buildVars, linkVars, osVars,
         TInv, TypeOK, TaskTyped, HostTyped, TaskWhole
<1>4. (\A b \in Attempts : TaskWhole(b))'
  BY DEF Record, Goto, Hold, Run, claimVars, buildVars, linkVars, osVars, TInv, TypeOK,
         SessTyped, TaskTyped, HostTyped, TaskWhole, GotPcs, ServePcs
<1>5. Underway'
  BY DEF Record, Goto, Hold, Run, claimVars, buildVars, linkVars, osVars, TInv, TypeOK,
         TaskTyped, HostTyped, TaskWhole, Underway, EarlyPcs, GotPcs, ServePcs
<1>. QED  BY <1>1, <1>2, <1>3, <1>4, <1>5 DEF TInv, TypeOK

LEMMA CheckBeforeCaptureTyped ==
    ASSUME TInv, NEW a \in Attempts, CheckBeforeCapture(a)
    PROVE  TInv'
  BY LifecycleAssumption DEF CheckBeforeCapture, Goto, Yield, Run, claimVars, buildVars,
         linkVars, osVars, IsCurrent, TInv, TypeOK, SessTyped, TaskTyped, HostTyped, TaskWhole,
         Underway, PcLabels, BuildPcs, ServePcs, EndPcs, GotPcs, EarlyPcs, LiveDisplay

LEMMA StartCaptureTyped ==
    ASSUME TInv, NEW a \in Attempts, StartCapture(a)
    PROVE  TInv'
  BY LifecycleAssumption DEF StartCapture, Goto, Yield, Run, claimVars, buildVars, linkVars,
         osVars, ScaleDue, TInv, TypeOK, SessTyped, TaskTyped, HostTyped, TaskWhole, Underway,
         PcLabels, BuildPcs, ServePcs, EndPcs, GotPcs, EarlyPcs, LiveDisplay

LEMMA ReadScaleTyped ==
    ASSUME TInv, NEW a \in Attempts, ReadScale(a)
    PROVE  TInv'
<1>1. SessTyped'
  BY DEF ReadScale, Goto, Hold, Yield, Run, claimVars, linkVars, osVars, TInv, TypeOK, SessTyped
<1>2. TaskTyped'
  <2>1. snap' \in [Attempts -> LiveDisplay \cup {None}]
    BY DEF ReadScale, TInv, TypeOK, SessTyped, TaskTyped, TaskWhole, Entry
  <2>. QED
    BY <2>1 DEF ReadScale, TInv, TypeOK, TaskTyped, Goto, PcLabels, BuildPcs, claimVars, linkVars
<1>3. HostTyped'
  BY LifecycleAssumption DEF ReadScale, Goto, Hold, Yield, Run, claimVars, linkVars, osVars,
         TInv, TypeOK, TaskTyped, HostTyped, TaskWhole
<1>4. (\A b \in Attempts : TaskWhole(b))'
  BY DEF ReadScale, Goto, Hold, Yield, Run, claimVars, linkVars, osVars, TInv, TypeOK,
         SessTyped, TaskTyped, HostTyped, TaskWhole, GotPcs, ServePcs
<1>5. Underway'
  BY DEF ReadScale, Goto, Hold, Yield, Run, claimVars, linkVars, osVars, TInv, TypeOK,
         TaskTyped, HostTyped, TaskWhole, Underway, EarlyPcs, GotPcs, ServePcs
<1>. QED  BY <1>1, <1>2, <1>3, <1>4, <1>5 DEF TInv, TypeOK

LEMMA WriteScaleTyped ==
    ASSUME TInv, NEW a \in Attempts, WriteScale(a)
    PROVE  TInv'
<1>1. SessTyped'
  <2>. DEFINE e == [sess[jn[a]] EXCEPT !.open = TRUE, !.live = snap[a]]
  <2>1. jn[a] \in Joins /\ sess[jn[a]] \in Entry
    BY DEF WriteScale, TInv, TypeOK, SessTyped, TaskWhole
  <2>2. snap[a] \in LiveDisplay \cup {None}
    BY <2>1 DEF TInv, TypeOK, TaskTyped
  <2>3. e \in Entry
    BY <2>1, <2>2 DEF Entry
  <2>4. sess' = [sess EXCEPT ![jn[a]] = e]
    BY DEF WriteScale
  <2>. HIDE DEF e
  <2>. QED  BY <2>1, <2>3, <2>4 DEF TInv, TypeOK, SessTyped
<1>2. TaskTyped'
  BY DEF WriteScale, Goto, Yield, Run, claimVars, linkVars, osVars, TInv, TypeOK, TaskTyped,
         PcLabels, BuildPcs, ServePcs, EndPcs, LiveDisplay
<1>3. HostTyped'
  BY LifecycleAssumption DEF WriteScale, Goto, Yield, Run, claimVars, linkVars, osVars, TInv,
         TypeOK, TaskTyped, HostTyped, TaskWhole
<1>4. (\A b \in Attempts : TaskWhole(b))'
  BY DEF WriteScale, Goto, Yield, Run, claimVars, linkVars, osVars, TInv, TypeOK, SessTyped,
         TaskTyped, HostTyped, TaskWhole, GotPcs, ServePcs
<1>5. Underway'
  BY DEF WriteScale, Goto, Yield, Run, claimVars, linkVars, osVars, TInv, TypeOK, TaskTyped,
         HostTyped, TaskWhole, Underway, EarlyPcs, GotPcs, ServePcs
<1>. QED  BY <1>1, <1>2, <1>3, <1>4, <1>5 DEF TInv, TypeOK

LEMMA HandshakeTyped ==
    ASSUME TInv, NEW a \in Attempts, Handshake(a)
    PROVE  TInv'
  BY LifecycleAssumption DEF Handshake, claimVars, buildVars, osVars, TInv, TypeOK, SessTyped,
         TaskTyped, HostTyped, TaskWhole, Underway, PcLabels, BuildPcs, ServePcs, EndPcs,
         GotPcs, EarlyPcs, LiveDisplay

LEMMA HalfFailedTyped ==
    ASSUME TInv, NEW a \in Attempts, HalfFailed(a)
    PROVE  TInv'
  BY LifecycleAssumption DEF HalfFailed, Goto, Yield, Run, claimVars, buildVars, osVars, TInv,
         TypeOK, SessTyped, TaskTyped, HostTyped, TaskWhole, Underway, PcLabels, BuildPcs,
         ServePcs, EndPcs, GotPcs, EarlyPcs, LiveDisplay

LEMMA BothReadyTyped ==
    ASSUME TInv, NEW a \in Attempts, BothReady(a)
    PROVE  TInv'
  BY LifecycleAssumption DEF BothReady, Goto, Yield, Run, claimVars, buildVars, linkVars,
         osVars, IsCurrent, TInv, TypeOK, SessTyped, TaskTyped, HostTyped, TaskWhole, Underway,
         PcLabels, BuildPcs, ServePcs, EndPcs, GotPcs, EarlyPcs, LiveDisplay

LEMMA StandDownTyped ==
    ASSUME TInv, NEW a \in Attempts, StandDown(a)
    PROVE  TInv'
<1>1. SessTyped'
  BY DEF StandDown, Goto, GoOrEnd, Yield, Run, claimVars, locals, osVars, TInv, TypeOK,
         SessTyped
<1>2. TaskTyped'
  <2>1. pc' \in [Attempts -> PcLabels] /\ LocalsTyped'
    BY GoOrEndTyped DEF StandDown, TInv, TypeOK, PcLabels, EndPcs
  <2>2. tr' \in [Attempts -> {"none", "gathering", "open", "failed", "closed"}]
    BY DEF StandDown, TInv, TypeOK, TaskTyped
  <2>. QED
    BY <2>1, <2>2 DEF StandDown, TInv, TypeOK, TaskTyped, LocalsTyped, claimVars
<1>3. HostTyped'
  BY LifecycleAssumption DEF StandDown, Goto, GoOrEnd, Yield, Run, claimVars, locals, osVars,
         TInv, TypeOK, TaskTyped, HostTyped, TaskWhole
<1>4. (\A b \in Attempts : TaskWhole(b))'
  BY DEF StandDown, Goto, GoOrEnd, Yield, Run, claimVars, locals, osVars, TInv, TypeOK,
         SessTyped, TaskTyped, HostTyped, TaskWhole, GotPcs, ServePcs
<1>5. Underway'
  BY DEF StandDown, Goto, GoOrEnd, Yield, Run, claimVars, locals, osVars, TInv, TypeOK,
         TaskTyped, HostTyped, TaskWhole, Underway, EarlyPcs, GotPcs, ServePcs
<1>. QED  BY <1>1, <1>2, <1>3, <1>4, <1>5 DEF TInv, TypeOK

LEMMA ActivatedTyped ==
    ASSUME TInv, NEW a \in Attempts, Activated(a)
    PROVE  TInv'
  BY LifecycleAssumption DEF Activated, Goto, Hold, Yield, Run, claimVars, buildVars, linkVars,
         osVars, IsCurrent, TInv, TypeOK, SessTyped, TaskTyped, HostTyped, TaskWhole, Underway,
         PcLabels, BuildPcs, ServePcs, EndPcs, GotPcs, EarlyPcs, LiveDisplay

LEMMA ActivateFailedTyped ==
    ASSUME TInv, NEW a \in Attempts, ActivateFailed(a)
    PROVE  TInv'
  BY LifecycleAssumption DEF ActivateFailed, Goto, Yield, Run, claimVars, buildVars, osVars,
         TInv, TypeOK, SessTyped, TaskTyped, HostTyped, TaskWhole, Underway, PcLabels, BuildPcs,
         ServePcs, EndPcs, GotPcs, EarlyPcs, LiveDisplay

LEMMA ArmSessionTyped ==
    ASSUME TInv, NEW a \in Attempts, ArmSession(a)
    PROVE  TInv'
<1>1. SessTyped'
  <2>. DEFINE e == [sess[jn[a]] EXCEPT !.open = TRUE, !.leave = a]
  <2>1. jn[a] \in Joins /\ sess[jn[a]] \in Entry
    BY DEF ArmSession, TInv, TypeOK, SessTyped, TaskWhole
  <2>2. e \in Entry
    BY <2>1 DEF Entry
  <2>3. sess' = [sess EXCEPT ![jn[a]] = e]
    BY DEF ArmSession
  <2>. HIDE DEF e
  <2>. QED  BY <2>1, <2>2, <2>3 DEF TInv, TypeOK, SessTyped
<1>2. TaskTyped'
  BY DEF ArmSession, Goto, Hold, Run, claimVars, buildVars, linkVars, osVars, TInv, TypeOK,
         TaskTyped, PcLabels, BuildPcs, ServePcs, EndPcs, LiveDisplay
<1>3. HostTyped'
  BY LifecycleAssumption DEF ArmSession, Goto, Hold, Run, claimVars, buildVars, linkVars,
         osVars, TInv, TypeOK, TaskTyped, HostTyped, TaskWhole
<1>4. (\A b \in Attempts : TaskWhole(b))'
  BY DEF ArmSession, Goto, Hold, Run, claimVars, buildVars, linkVars, osVars, TInv, TypeOK,
         SessTyped, TaskTyped, HostTyped, TaskWhole, GotPcs, ServePcs
<1>5. Underway'
  BY DEF ArmSession, Goto, Hold, Run, claimVars, buildVars, linkVars, osVars, TInv, TypeOK,
         TaskTyped, HostTyped, TaskWhole, Underway, EarlyPcs, GotPcs, ServePcs
<1>. QED  BY <1>1, <1>2, <1>3, <1>4, <1>5 DEF TInv, TypeOK

LEMMA AnswerTyped ==
    ASSUME TInv, NEW a \in Attempts, Answer(a)
    PROVE  TInv'
<1>1. SessTyped'
  <2>. DEFINE e == [sess[jn[a]] EXCEPT !.open = TRUE, !.cap = a]
  <2>1. jn[a] \in Joins /\ sess[jn[a]] \in Entry
    BY DEF Answer, TInv, TypeOK, SessTyped, TaskWhole
  <2>2. e \in Entry
    BY <2>1 DEF Entry
  <2>3. sess' = [sess EXCEPT ![jn[a]] = e]
    BY DEF Answer
  <2>. HIDE DEF e
  <2>. QED  BY <2>1, <2>2, <2>3 DEF TInv, TypeOK, SessTyped
<1>2. TaskTyped'
  BY DEF Answer, Goto, Yield, Run, claimVars, buildVars, linkVars, osVars, TInv, TypeOK,
         TaskTyped, PcLabels, BuildPcs, ServePcs, EndPcs, LiveDisplay
<1>3. HostTyped'
  BY LifecycleAssumption DEF Answer, Goto, Yield, Run, claimVars, buildVars, linkVars, osVars,
         TInv, TypeOK, TaskTyped, HostTyped, TaskWhole
<1>4. (\A b \in Attempts : TaskWhole(b))'
  BY DEF Answer, Goto, Yield, Run, claimVars, buildVars, linkVars, osVars, TInv, TypeOK,
         SessTyped, TaskTyped, HostTyped, TaskWhole, GotPcs, ServePcs
<1>5. Underway'
  BY DEF Answer, Goto, Yield, Run, claimVars, buildVars, linkVars, osVars, TInv, TypeOK,
         TaskTyped, HostTyped, TaskWhole, Underway, EarlyPcs, GotPcs, ServePcs
<1>. QED  BY <1>1, <1>2, <1>3, <1>4, <1>5 DEF TInv, TypeOK

LEMMA MarkConnectedTyped ==
    ASSUME TInv, NEW a \in Attempts, MarkConnected(a)
    PROVE  TInv'
<1>1. SessTyped'
  <2>. DEFINE e == [sess[jn[a]] EXCEPT !.connected = TRUE]
  <2>1. jn[a] \in Joins /\ sess[jn[a]] \in Entry
    BY DEF MarkConnected, TInv, TypeOK, SessTyped, TaskWhole, Underway
  <2>2. e \in Entry
    BY <2>1 DEF Entry
  <2>3. sess' = [sess EXCEPT ![jn[a]] = e]
    BY DEF MarkConnected
  <2>. HIDE DEF e
  <2>. QED  BY <2>1, <2>2, <2>3 DEF TInv, TypeOK, SessTyped
<1>2. TaskTyped'
  BY DEF MarkConnected, claimVars, buildVars, linkVars, osVars, IsCurrent, TInv, TypeOK,
         TaskTyped, PcLabels, BuildPcs, ServePcs, EndPcs, LiveDisplay
<1>3. HostTyped'
  BY LifecycleAssumption DEF MarkConnected, claimVars, buildVars, linkVars, osVars, IsCurrent,
         TInv, TypeOK, TaskTyped, HostTyped, TaskWhole
<1>4. (\A b \in Attempts : TaskWhole(b))'
  BY DEF MarkConnected, claimVars, buildVars, linkVars, osVars, IsCurrent, TInv, TypeOK,
         SessTyped, TaskTyped, HostTyped, TaskWhole, GotPcs, ServePcs
<1>5. Underway'
  BY DEF MarkConnected, claimVars, buildVars, linkVars, osVars, IsCurrent, TInv, TypeOK,
         TaskTyped, HostTyped, TaskWhole, Underway, EarlyPcs, GotPcs, ServePcs
<1>. QED  BY <1>1, <1>2, <1>3, <1>4, <1>5 DEF TInv, TypeOK

LEMMA AbandonTyped ==
    ASSUME TInv, NEW a \in Attempts, Abandon(a)
    PROVE  TInv'
<1>1. SessTyped'
  BY DEF Abandon, Goto, GoOrEnd, Hold, Yield, Run, claimVars, locals, linkVars, osVars,
         IsCurrent, TInv, TypeOK, SessTyped
<1>2. TaskTyped'
  <2>1. pc' \in [Attempts -> PcLabels] /\ LocalsTyped'
    BY GoOrEndTyped DEF Abandon, TInv, TypeOK, PcLabels, EndPcs
  <2>. QED
    BY <2>1 DEF Abandon, TInv, TypeOK, TaskTyped, LocalsTyped, claimVars, linkVars
<1>3. HostTyped'
  BY LifecycleAssumption DEF Abandon, Goto, GoOrEnd, Hold, Yield, Run, claimVars, locals,
         linkVars, osVars, IsCurrent, TInv, TypeOK, TaskTyped, HostTyped, TaskWhole
<1>4. (\A b \in Attempts : TaskWhole(b))'
  BY DEF Abandon, Goto, GoOrEnd, Hold, Yield, Run, claimVars, locals, linkVars, osVars,
         IsCurrent, TInv, TypeOK, SessTyped, TaskTyped, HostTyped, TaskWhole, GotPcs, ServePcs
<1>5. Underway'
  BY DEF Abandon, Goto, GoOrEnd, Hold, Yield, Run, claimVars, locals, linkVars, osVars,
         IsCurrent, TInv, TypeOK, TaskTyped, HostTyped, TaskWhole, Underway, EarlyPcs, GotPcs,
         ServePcs
<1>. QED  BY <1>1, <1>2, <1>3, <1>4, <1>5 DEF TInv, TypeOK

LEMMA GraceOverTyped ==
    ASSUME TInv, NEW a \in Attempts, GraceOver(a)
    PROVE  TInv'
<1>1. SessTyped'
  BY DEF GraceOver, Goto, GoOrEnd, Hold, Yield, Run, claimVars, locals, linkVars, osVars,
         IsCurrent, TInv, TypeOK, SessTyped
<1>2. TaskTyped'
  <2>1. pc' \in [Attempts -> PcLabels] /\ LocalsTyped'
    BY GoOrEndTyped DEF GraceOver, TInv, TypeOK, PcLabels, EndPcs
  <2>. QED
    BY <2>1 DEF GraceOver, TInv, TypeOK, TaskTyped, LocalsTyped, claimVars, linkVars
<1>3. HostTyped'
  BY LifecycleAssumption DEF GraceOver, Goto, GoOrEnd, Hold, Yield, Run, claimVars, locals,
         linkVars, osVars, IsCurrent, TInv, TypeOK, TaskTyped, HostTyped, TaskWhole
<1>4. (\A b \in Attempts : TaskWhole(b))'
  BY DEF GraceOver, Goto, GoOrEnd, Hold, Yield, Run, claimVars, locals, linkVars, osVars,
         IsCurrent, TInv, TypeOK, SessTyped, TaskTyped, HostTyped, TaskWhole, GotPcs, ServePcs
<1>5. Underway'
  BY DEF GraceOver, Goto, GoOrEnd, Hold, Yield, Run, claimVars, locals, linkVars, osVars,
         IsCurrent, TInv, TypeOK, TaskTyped, HostTyped, TaskWhole, Underway, EarlyPcs, GotPcs,
         ServePcs
<1>. QED  BY <1>1, <1>2, <1>3, <1>4, <1>5 DEF TInv, TypeOK

LEMMA TakeDisplayTyped ==
    ASSUME TInv, NEW a \in Attempts, TakeDisplay(a)
    PROVE  TInv'
<1>1. SessTyped'
  <2>. DEFINE e == [sess[jn[a]] EXCEPT !.live = None]
  <2>1. jn[a] \in Joins /\ sess[jn[a]] \in Entry
    BY DEF TakeDisplay, TInv, TypeOK, SessTyped, TaskWhole
  <2>2. e \in Entry
    BY <2>1 DEF Entry
  <2>3. sess' = [sess EXCEPT ![jn[a]] = e]
    BY DEF TakeDisplay
  <2>. HIDE DEF e
  <2>. QED  BY <2>1, <2>2, <2>3 DEF TInv, TypeOK, SessTyped
<1>2. TaskTyped'
  <2>1. taken' \in [Attempts -> LiveDisplay \cup {None}]
    BY DEF TakeDisplay, TInv, TypeOK, SessTyped, TaskTyped, TaskWhole, Entry
  <2>. QED
    BY <2>1 DEF TakeDisplay, TInv, TypeOK, TaskTyped, Goto, PcLabels, EndPcs, claimVars,
            buildVars, linkVars
<1>3. HostTyped'
  BY LifecycleAssumption DEF TakeDisplay, Goto, Hold, Run, claimVars, buildVars, linkVars,
         osVars, TInv, TypeOK, TaskTyped, HostTyped, TaskWhole
<1>4. (\A b \in Attempts : TaskWhole(b))'
  BY DEF TakeDisplay, Goto, Hold, Run, claimVars, buildVars, linkVars, osVars, TInv, TypeOK,
         SessTyped, TaskTyped, HostTyped, TaskWhole, GotPcs, ServePcs
<1>5. Underway'
  BY DEF TakeDisplay, Goto, Hold, Run, claimVars, buildVars, linkVars, osVars, TInv, TypeOK,
         TaskTyped, HostTyped, TaskWhole, Underway, EarlyPcs, GotPcs, ServePcs
<1>. QED  BY <1>1, <1>2, <1>3, <1>4, <1>5 DEF TInv, TypeOK

LEMMA RemoveSessionTyped ==
    ASSUME TInv, NEW a \in Attempts, RemoveSession(a)
    PROVE  TInv'
<1>1. SessTyped'
  <2>1. NoEntry \in Entry
    BY DEF NoEntry, Entry
  <2>. QED  BY <2>1 DEF RemoveSession, TInv, TypeOK, SessTyped
<1>2. TaskTyped'
  <2>1. pc' \in [Attempts -> PcLabels] /\ LocalsTyped'
    BY GoOrEndTyped DEF RemoveSession, TInv, TypeOK, PcLabels, EndPcs
  <2>. QED
    BY <2>1 DEF RemoveSession, TInv, TypeOK, TaskTyped, LocalsTyped, claimVars, linkVars
<1>3. HostTyped'
  BY LifecycleAssumption DEF RemoveSession, Goto, GoOrEnd, Yield, Run, claimVars, locals,
         linkVars, osVars, Doomed, LeaveDashboard, TInv, TypeOK, TaskTyped, HostTyped, TaskWhole
<1>4. (\A b \in Attempts : TaskWhole(b))'
  BY DEF RemoveSession, Goto, GoOrEnd, Yield, Run, claimVars, locals, linkVars, osVars, Doomed,
         LeaveDashboard, TInv, TypeOK, SessTyped, TaskTyped, HostTyped, TaskWhole, GotPcs,
         ServePcs
<1>5. Underway'
  BY DEF RemoveSession, Goto, GoOrEnd, Yield, Run, claimVars, locals, linkVars, osVars, Doomed,
         LeaveDashboard, TInv, TypeOK, TaskTyped, HostTyped, TaskWhole, Underway, EarlyPcs,
         GotPcs, ServePcs
<1>. QED  BY <1>1, <1>2, <1>3, <1>4, <1>5 DEF TInv, TypeOK

LEMMA RemoveDisplayTyped ==
    ASSUME TInv, NEW a \in Attempts, RemoveDisplay(a)
    PROVE  TInv'
<1>1. SessTyped'
  BY DEF RemoveDisplay, Goto, GoOrEnd, Yield, Run, claimVars, locals, linkVars, Doomed,
         LeaveDashboard, TInv, TypeOK, SessTyped
<1>2. TaskTyped'
  <2>1. pc' \in [Attempts -> PcLabels] /\ LocalsTyped'
    BY GoOrEndTyped DEF RemoveDisplay, TInv, TypeOK, PcLabels, EndPcs
  <2>. QED
    BY <2>1 DEF RemoveDisplay, TInv, TypeOK, TaskTyped, LocalsTyped, claimVars, linkVars
<1>3. HostTyped'
  BY LifecycleAssumption DEF RemoveDisplay, Goto, GoOrEnd, Yield, Run, claimVars, locals,
         linkVars, Doomed, LeaveDashboard, TInv, TypeOK, TaskTyped, HostTyped, TaskWhole
<1>4. (\A b \in Attempts : TaskWhole(b))'
  BY DEF RemoveDisplay, Goto, GoOrEnd, Yield, Run, claimVars, locals, linkVars, Doomed,
         LeaveDashboard, TInv, TypeOK, SessTyped, TaskTyped, HostTyped, TaskWhole, GotPcs,
         ServePcs
<1>5. Underway'
  BY DEF RemoveDisplay, Goto, GoOrEnd, Yield, Run, claimVars, locals, linkVars, Doomed,
         LeaveDashboard, TInv, TypeOK, TaskTyped, HostTyped, TaskWhole, Underway, EarlyPcs,
         GotPcs, ServePcs
<1>. QED  BY <1>1, <1>2, <1>3, <1>4, <1>5 DEF TInv, TypeOK

LEMMA ListenTyped ==
    ASSUME TInv, NEW a \in Attempts, Listen(a)
    PROVE  TInv'
  BY LifecycleAssumption DEF Listen, Goto, Yield, Run, claimVars, buildVars, linkVars, osVars,
         TInv, TypeOK, SessTyped, TaskTyped, HostTyped, TaskWhole, Underway, PcLabels, BuildPcs,
         ServePcs, EndPcs, GotPcs, EarlyPcs, LiveDisplay

LEMMA EndedTyped ==
    ASSUME TInv, NEW a \in Attempts, Ended(a)
    PROVE  TInv'
  BY LifecycleAssumption DEF Ended, Goto, Yield, Run, claimVars, buildVars, linkVars, osVars,
         TInv, TypeOK, SessTyped, TaskTyped, HostTyped, TaskWhole, Underway, PcLabels, BuildPcs,
         ServePcs, EndPcs, GotPcs, EarlyPcs, LiveDisplay

LEMMA CloseTransportTyped ==
    ASSUME TInv, NEW a \in Attempts, CloseTransport(a)
    PROVE  TInv'
  BY LifecycleAssumption DEF CloseTransport, Goto, Yield, Run, claimVars, buildVars, osVars,
         TInv, TypeOK, SessTyped, TaskTyped, HostTyped, TaskWhole, Underway, PcLabels, BuildPcs,
         ServePcs, EndPcs, GotPcs, EarlyPcs, LiveDisplay

LEMMA StopOwnTyped ==
    ASSUME TInv, NEW a \in Attempts, StopOwn(a)
    PROVE  TInv'
<1>1. SessTyped'
  <2>. DEFINE e == [sess[jn[a]] EXCEPT !.cap = None]
  <2>1. jn[a] \in Joins /\ sess[jn[a]] \in Entry
    BY DEF StopOwn, TInv, TypeOK, SessTyped, TaskWhole
  <2>2. e \in Entry
    BY <2>1 DEF Entry
  <2>3. [sess[jn[a]] EXCEPT !.cap = @] = sess[jn[a]]
    BY <2>1 DEF Entry
  <2>4. \/ sess' = [sess EXCEPT ![jn[a]] = e]
        \/ sess' = [sess EXCEPT ![jn[a]] = [sess[jn[a]] EXCEPT !.cap = @]]
    BY DEF StopOwn
  <2>. HIDE DEF e
  <2>. QED  BY <2>1, <2>2, <2>3, <2>4 DEF TInv, TypeOK, SessTyped
<1>2. TaskTyped'
  BY DEF StopOwn, Goto, Yield, Run, claimVars, buildVars, linkVars, osVars, TInv, TypeOK,
         TaskTyped, PcLabels, BuildPcs, ServePcs, EndPcs, LiveDisplay
<1>3. HostTyped'
  BY LifecycleAssumption DEF StopOwn, Goto, Yield, Run, claimVars, buildVars, linkVars, osVars,
         TInv, TypeOK, TaskTyped, HostTyped, TaskWhole
<1>4. (\A b \in Attempts : TaskWhole(b))'
  BY DEF StopOwn, Goto, Yield, Run, claimVars, buildVars, linkVars, osVars, TInv, TypeOK,
         SessTyped, TaskTyped, HostTyped, TaskWhole, GotPcs, ServePcs
<1>5. Underway'
  BY DEF StopOwn, Goto, Yield, Run, claimVars, buildVars, linkVars, osVars, TInv, TypeOK,
         TaskTyped, HostTyped, TaskWhole, Underway, EarlyPcs, GotPcs, ServePcs
<1>. QED  BY <1>1, <1>2, <1>3, <1>4, <1>5 DEF TInv, TypeOK

LEMMA PeerClosedTyped ==
    ASSUME TInv, NEW a \in Attempts, PeerClosed(a)
    PROVE  TInv'
  BY LifecycleAssumption DEF PeerClosed, claimVars, buildVars, osVars, TInv, TypeOK, SessTyped,
         TaskTyped, HostTyped, TaskWhole, Underway, PcLabels, BuildPcs, ServePcs, EndPcs,
         GotPcs, EarlyPcs, LiveDisplay

LEMMA LeaveTyped ==
    ASSUME TInv, NEW j \in Joins, Leave(j)
    PROVE  TInv'
  BY LifecycleAssumption DEF Leave, claimVars, buildVars, osVars, Wake, TInv, TypeOK, SessTyped,
         TaskTyped, HostTyped, TaskWhole, Underway, PcLabels, BuildPcs, ServePcs, EndPcs,
         GotPcs, EarlyPcs, LiveDisplay

LEMMA KickTyped ==
    ASSUME TInv, NEW j \in Joins, Kick(j)
    PROVE  TInv'
<1>1. SessTyped'
  <2>. DEFINE e == [sess[j] EXCEPT !.open = TRUE]
  <2>1. sess[j] \in Entry
    BY DEF TInv, TypeOK, SessTyped
  <2>2. e \in Entry
    BY <2>1 DEF Entry
  <2>3. sess' = [sess EXCEPT ![j] = e]
    BY DEF Kick
  <2>. HIDE DEF e
  <2>. QED  BY <2>1, <2>2, <2>3 DEF TInv, TypeOK, SessTyped
<1>2. TaskTyped'
  BY DEF Kick, claimVars, buildVars, osVars, Wake, TInv, TypeOK, TaskTyped, PcLabels, BuildPcs,
         ServePcs, EndPcs, LiveDisplay
<1>3. HostTyped'
  BY LifecycleAssumption DEF Kick, claimVars, buildVars, osVars, Wake, TInv, TypeOK, TaskTyped,
         HostTyped, TaskWhole
<1>4. (\A b \in Attempts : TaskWhole(b))'
  BY DEF Kick, claimVars, buildVars, osVars, Wake, TInv, TypeOK, SessTyped, TaskTyped,
         HostTyped, TaskWhole, GotPcs, ServePcs
<1>5. Underway'
  BY DEF Kick, claimVars, buildVars, osVars, Wake, TInv, TypeOK, TaskTyped, HostTyped,
         TaskWhole, Underway, EarlyPcs, GotPcs, ServePcs
<1>. QED  BY <1>1, <1>2, <1>3, <1>4, <1>5 DEF TInv, TypeOK

LEMMA ScaleReadTyped ==
    ASSUME TInv, NEW j \in Joins, ScaleRead(j)
    PROVE  TInv'
  BY LifecycleAssumption DEF ScaleRead, claimVars, buildVars, linkVars, osVars, TInv, TypeOK,
         SessTyped, TaskTyped, HostTyped, TaskWhole, Underway, PcLabels, BuildPcs, ServePcs,
         EndPcs, GotPcs, EarlyPcs, LiveDisplay, Entry

LEMMA ScaleApplyTyped ==
    ASSUME TInv, ScaleApply
    PROVE  TInv'
<1>1. scaler' \in [step : {"idle", "dpi", "row"}, join : Joins \cup {None},
                   live : LiveDisplay \cup {None}]
  <2>1. CASE scaler' = [scaler EXCEPT !.step = "idle", !.join = None, !.live = None]
    BY <2>1 DEF TInv, TypeOK, HostTyped
  <2>2. CASE scaler' = [scaler EXCEPT !.step = "row"]
    BY <2>2 DEF TInv, TypeOK, HostTyped
  <2>. QED  BY <2>1, <2>2 DEF ScaleApply
<1>2. scaler'.step # "idle" => scaler'.join \in Joins /\ scaler'.live # None
  BY DEF ScaleApply, TInv, TypeOK, HostTyped
<1>3. HostTyped'
  BY <1>1, <1>2 DEF ScaleApply, TInv, TypeOK, HostTyped, claimVars, osVars
<1>4. SessTyped' /\ TaskTyped' /\ (\A b \in Attempts : TaskWhole(b))' /\ Underway'
  BY DEF ScaleApply, TInv, TypeOK, SessTyped, TaskTyped, TaskWhole, Underway, claimVars,
         buildVars, linkVars
<1>. QED  BY <1>3, <1>4 DEF TInv, TypeOK

LEMMA ScaleRecordTyped ==
    ASSUME TInv, ScaleRecord
    PROVE  TInv'
<1>1. SessTyped'
  <2>. DEFINE e == [sess[scaler.join] EXCEPT !.open = TRUE, !.live = scaler.live]
  <2>1. scaler.join \in Joins /\ sess[scaler.join] \in Entry
    BY DEF ScaleRecord, TInv, TypeOK, SessTyped, HostTyped
  <2>2. scaler.live \in LiveDisplay \cup {None}
    BY <2>1 DEF TInv, TypeOK, HostTyped
  <2>3. e \in Entry
    BY <2>1, <2>2 DEF Entry
  <2>4. sess' = [sess EXCEPT ![scaler.join] = e]
    BY DEF ScaleRecord
  <2>. HIDE DEF e
  <2>. QED  BY <2>1, <2>3, <2>4 DEF TInv, TypeOK, SessTyped
<1>2. TaskTyped'
  BY DEF ScaleRecord, claimVars, buildVars, linkVars, osVars, TInv, TypeOK, TaskTyped, PcLabels,
         BuildPcs, ServePcs, EndPcs, LiveDisplay
<1>3. HostTyped'
  BY LifecycleAssumption DEF ScaleRecord, claimVars, buildVars, linkVars, osVars, TInv, TypeOK,
         TaskTyped, HostTyped, TaskWhole
<1>4. (\A b \in Attempts : TaskWhole(b))'
  BY DEF ScaleRecord, claimVars, buildVars, linkVars, osVars, TInv, TypeOK, SessTyped,
         TaskTyped, HostTyped, TaskWhole, GotPcs, ServePcs
<1>5. Underway'
  BY DEF ScaleRecord, claimVars, buildVars, linkVars, osVars, TInv, TypeOK, TaskTyped,
         HostTyped, TaskWhole, Underway, EarlyPcs, GotPcs, ServePcs
<1>. QED  BY <1>1, <1>2, <1>3, <1>4, <1>5 DEF TInv, TypeOK

LEMMA RestoreTyped ==
    ASSUME TInv, Restore
    PROVE  TInv'
<1>1. SessTyped'
  BY DEF Restore, claimVars, buildVars, linkVars, TInv, TypeOK, SessTyped
<1>2. TaskTyped'
  BY DEF Restore, claimVars, buildVars, linkVars, TInv, TypeOK, TaskTyped
<1>3. HostTyped'
  <2>1. PICK r \in restore :
          /\ restore' = restore \ {r}
          /\ mode' \in {mode} \cup
                IF r.id \in attached THEN {[mode EXCEPT ![r.id] = r.mode]} ELSE {}
    BY DEF Restore
  <2>2. r \in LiveDisplay /\ r.id \in Displays /\ r.mode \in Modes
    BY DEF TInv, TypeOK, HostTyped, LiveDisplay
  <2>3. mode' = mode \/ mode' = [mode EXCEPT ![r.id] = r.mode]
    BY <2>1
  <2>4. /\ mode' \in [Displays -> Modes \cup {None}]
        /\ \A d \in attached : mode'[d] \in Modes
    BY <2>2, <2>3 DEF TInv, TypeOK, HostTyped
  <2>. QED  BY <2>1, <2>4 DEF Restore, claimVars, buildVars, linkVars, TInv, TypeOK, HostTyped
<1>4. (\A b \in Attempts : TaskWhole(b))'
  BY DEF Restore, claimVars, buildVars, linkVars, TInv, TypeOK, TaskWhole
<1>5. Underway'
  BY DEF Restore, claimVars, buildVars, linkVars, TInv, Underway
<1>. QED  BY <1>1, <1>2, <1>3, <1>4, <1>5 DEF TInv, TypeOK

\* Every step keeps the invariant.
LEMMA NextTyped == TInv /\ [Next]_vars => TInv'
<1>. SUFFICES ASSUME TInv, [Next]_vars
              PROVE  TInv'
  OBVIOUS
<1>1. ASSUME NEW a \in Attempts, Build(a) PROVE TInv'
  BY <1>1, OpenSessionTyped, NextSeqTyped, StopPreviousTyped, ReadExistingTyped,
     ReuseUntouchedTyped, ReuseChangeTyped, NeedDisplayTyped, CreateDisplayTyped, AttachTyped,
     AttachFailedTyped, ModeAppliedTyped, ModeRefusedTyped, ReadBackTyped, RecordTyped,
     CheckBeforeCaptureTyped, StartCaptureTyped, ReadScaleTyped, WriteScaleTyped,
     HandshakeTyped, HalfFailedTyped, BothReadyTyped, StandDownTyped, ActivatedTyped,
     ActivateFailedTyped, ArmSessionTyped, AnswerTyped DEF Build
<1>2. ASSUME NEW a \in Attempts, Unwind(a) PROVE TInv'
  BY <1>2, AbandonTyped, GraceOverTyped, TakeDisplayTyped, RemoveSessionTyped,
     RemoveDisplayTyped, ListenTyped, EndedTyped, CloseTransportTyped, StopOwnTyped DEF Unwind
<1>3. ASSUME NEW a \in Attempts, Offer(a) \/ MarkConnected(a) \/ PeerClosed(a) PROVE TInv'
  BY <1>3, OfferTyped, MarkConnectedTyped, PeerClosedTyped
<1>4. ASSUME NEW j \in Joins, Host(j) PROVE TInv'
  BY <1>4, LeaveTyped, KickTyped, ScaleReadTyped DEF Host
<1>5. CASE ScaleApply \/ ScaleRecord \/ Restore
  BY <1>5, ScaleApplyTyped, ScaleRecordTyped, RestoreTyped
<1>6. CASE UNCHANGED vars
  BY <1>6 DEF TInv, TypeOK, SessTyped, TaskTyped, HostTyped, TaskWhole, Underway, vars
<1>. QED  BY <1>1, <1>2, <1>3, <1>4, <1>5, <1>6 DEF Next, Task, Finished

LEMMA AlwaysTyped == Spec => []TInv
  BY InitTyped, NextTyped, PTL DEF Spec

\* Every variable holds what the code's types allow, in every state of every behaviour.
THEOREM TypeCorrect == Spec => []TypeOK
<1>1. TInv => TypeOK
  BY DEF TInv
<1>. QED  BY AlwaysTyped, <1>1, PTL

-----------------------------------------------------------------------------
(* No display is ever shared.  The invariant follows a display from the driver: wherever   *)
(* the host holds one on behalf of a join, it was created for that join.                   *)

OwnedBy(l, j) == l # None => j \in Joins /\ madeFor[l.id] = j

OwnDisplays ==
    /\ \A j \in Joins : OwnedBy(sess[j].live, j)
    /\ \A a \in Attempts : /\ OwnedBy(had[a], jn[a]) /\ OwnedBy(got[a], jn[a])
                           /\ OwnedBy(snap[a], jn[a]) /\ OwnedBy(taken[a], jn[a])
    /\ OwnedBy(scaler.live, scaler.join)

LEMMA OfferOwns ==
    ASSUME TypeOK, OwnDisplays, NEW a \in Attempts, Offer(a)
    PROVE  OwnDisplays'
  BY LifecycleAssumption DEF Offer, osVars, Goto, TypeOK, SessTyped, TaskTyped, HostTyped,
         TaskWhole, OwnDisplays, OwnedBy

LEMMA OpenSessionOwns ==
    ASSUME TypeOK, OwnDisplays, NEW a \in Attempts, OpenSession(a)
    PROVE  OwnDisplays'
  BY DEF OpenSession, claimVars, buildVars, osVars, TypeOK, SessTyped, TaskTyped, HostTyped,
         TaskWhole, Entry, OwnDisplays, OwnedBy

LEMMA NextSeqOwns ==
    ASSUME TypeOK, OwnDisplays, NEW a \in Attempts, NextSeq(a)
    PROVE  OwnDisplays'
  BY DEF NextSeq, buildVars, osVars, TypeOK, SessTyped, TaskTyped, HostTyped, TaskWhole, Entry,
         OwnDisplays, OwnedBy

LEMMA StopPreviousOwns ==
    ASSUME TypeOK, OwnDisplays, NEW a \in Attempts, StopPrevious(a)
    PROVE  OwnDisplays'
  BY DEF StopPrevious, claimVars, buildVars, osVars, TypeOK, SessTyped, TaskTyped, HostTyped,
         TaskWhole, Entry, OwnDisplays, OwnedBy

LEMMA ReadExistingOwns ==
    ASSUME TypeOK, OwnDisplays, NEW a \in Attempts, ReadExisting(a)
    PROVE  OwnDisplays'
  BY DEF ReadExisting, claimVars, osVars, TypeOK, SessTyped, TaskTyped, HostTyped, TaskWhole,
         Entry, OwnDisplays, OwnedBy

LEMMA ReuseUntouchedOwns ==
    ASSUME TypeOK, OwnDisplays, NEW a \in Attempts, ReuseUntouched(a)
    PROVE  OwnDisplays'
  BY DEF ReuseUntouched, claimVars, osVars, TypeOK, SessTyped, TaskTyped, HostTyped, TaskWhole,
         OwnDisplays, OwnedBy

LEMMA ReuseChangeOwns ==
    ASSUME TypeOK, OwnDisplays, NEW a \in Attempts, ReuseChange(a)
    PROVE  OwnDisplays'
  BY DEF ReuseChange, claimVars, osVars, TypeOK, SessTyped, TaskTyped, HostTyped, TaskWhole,
         OwnDisplays, OwnedBy

LEMMA NeedDisplayOwns ==
    ASSUME TypeOK, OwnDisplays, NEW a \in Attempts, NeedDisplay(a)
    PROVE  OwnDisplays'
  BY DEF NeedDisplay, claimVars, buildVars, osVars, OwnDisplays, OwnedBy

LEMMA CreateDisplayOwns ==
    ASSUME TypeOK, OwnDisplays, NEW a \in Attempts, CreateDisplay(a)
    PROVE  OwnDisplays'
<1>1. jn[a] \in Joins
  BY DEF CreateDisplay, TypeOK, TaskWhole
<1>2. \A l \in LiveDisplay \cup {None}, j \in Joins \cup {None} : OwnedBy(l, j) => OwnedBy(l, j)'
  BY LifecycleAssumption, <1>1 DEF CreateDisplay, OwnedBy, TypeOK, HostTyped, LiveDisplay
<1>3. OwnedBy(got[a], jn[a])'
  <2>1. CASE got' = got
    BY <1>2, <2>1 DEF CreateDisplay, OwnDisplays, TypeOK, TaskTyped, claimVars
  <2>2. CASE got' # got
    BY <1>1, <2>2 DEF CreateDisplay, OwnedBy, TypeOK, TaskTyped, HostTyped, LiveDisplay, claimVars
  <2>. QED  BY <2>1, <2>2
<1>4. \A b \in Attempts : b # a => OwnedBy(got[b], jn[b])'
  BY <1>2 DEF CreateDisplay, OwnDisplays, TypeOK, TaskTyped, claimVars
<1>5. \A b \in Attempts : /\ OwnedBy(had[b], jn[b])' /\ OwnedBy(snap[b], jn[b])'
                         /\ OwnedBy(taken[b], jn[b])'
  BY <1>2 DEF CreateDisplay, OwnDisplays, TypeOK, TaskTyped, claimVars
<1>6. \A j \in Joins : OwnedBy(sess[j].live, j)'
  BY <1>2 DEF CreateDisplay, OwnDisplays, TypeOK, SessTyped, Entry
<1>7. OwnedBy(scaler.live, scaler.join)'
  BY <1>2 DEF CreateDisplay, OwnDisplays, TypeOK, HostTyped
<1>. QED  BY <1>3, <1>4, <1>5, <1>6, <1>7 DEF OwnDisplays

LEMMA AttachOwns ==
    ASSUME TypeOK, OwnDisplays, NEW a \in Attempts, Attach(a)
    PROVE  OwnDisplays'
  BY DEF Attach, claimVars, OwnDisplays, OwnedBy

LEMMA AttachFailedOwns ==
    ASSUME TypeOK, OwnDisplays, NEW a \in Attempts, AttachFailed(a)
    PROVE  OwnDisplays'
  BY DEF AttachFailed, claimVars, TypeOK, SessTyped, TaskTyped, HostTyped, TaskWhole,
         OwnDisplays, OwnedBy

LEMMA ModeAppliedOwns ==
    ASSUME TypeOK, OwnDisplays, NEW a \in Attempts, ModeApplied(a)
    PROVE  OwnDisplays'
<1>1. got[a] # None /\ got[a] \in LiveDisplay
  BY DEF ModeApplied, TypeOK, TaskTyped, TaskWhole, GotPcs
<1>2. got'[a].id = got[a].id /\ \A b \in Attempts : b # a => got'[b] = got[b]
  BY <1>1 DEF ModeApplied, TypeOK, TaskTyped, LiveDisplay
<1>3. \A b \in Attempts : OwnedBy(got[b], jn[b])'
  BY <1>1, <1>2 DEF ModeApplied, OwnDisplays, OwnedBy, claimVars
<1>. QED  BY <1>3 DEF ModeApplied, OwnDisplays, OwnedBy, claimVars

LEMMA ModeRefusedOwns ==
    ASSUME TypeOK, OwnDisplays, NEW a \in Attempts, ModeRefused(a)
    PROVE  OwnDisplays'
  BY DEF ModeRefused, claimVars, osVars, OwnDisplays, OwnedBy

LEMMA ReadBackOwns ==
    ASSUME TypeOK, OwnDisplays, NEW a \in Attempts, ReadBack(a)
    PROVE  OwnDisplays'
<1>1. got[a] # None /\ got[a] \in LiveDisplay
  BY DEF ReadBack, TypeOK, TaskTyped, TaskWhole, GotPcs
<1>2. got'[a].id = got[a].id /\ \A b \in Attempts : b # a => got'[b] = got[b]
  BY <1>1 DEF ReadBack, TypeOK, TaskTyped, LiveDisplay
<1>3. \A b \in Attempts : OwnedBy(got[b], jn[b])'
  BY <1>1, <1>2 DEF ReadBack, OwnDisplays, OwnedBy, claimVars, osVars
<1>. QED  BY <1>3 DEF ReadBack, OwnDisplays, OwnedBy, claimVars, osVars

LEMMA RecordOwns ==
    ASSUME TypeOK, OwnDisplays, NEW a \in Attempts, Record(a)
    PROVE  OwnDisplays'
  BY DEF Record, claimVars, buildVars, osVars, TypeOK, SessTyped, TaskTyped, HostTyped,
         TaskWhole, Entry, OwnDisplays, OwnedBy

LEMMA CheckBeforeCaptureOwns ==
    ASSUME TypeOK, OwnDisplays, NEW a \in Attempts, CheckBeforeCapture(a)
    PROVE  OwnDisplays'
  BY DEF CheckBeforeCapture, claimVars, buildVars, osVars, OwnDisplays, OwnedBy

LEMMA StartCaptureOwns ==
    ASSUME TypeOK, OwnDisplays, NEW a \in Attempts, StartCapture(a)
    PROVE  OwnDisplays'
  BY DEF StartCapture, claimVars, buildVars, osVars, OwnDisplays, OwnedBy

LEMMA ReadScaleOwns ==
    ASSUME TypeOK, OwnDisplays, NEW a \in Attempts, ReadScale(a)
    PROVE  OwnDisplays'
  BY DEF ReadScale, claimVars, osVars, TypeOK, SessTyped, TaskTyped, HostTyped, TaskWhole,
         OwnDisplays, OwnedBy

LEMMA WriteScaleOwns ==
    ASSUME TypeOK, OwnDisplays, NEW a \in Attempts, WriteScale(a)
    PROVE  OwnDisplays'
  BY DEF WriteScale, claimVars, osVars, TypeOK, SessTyped, TaskTyped, HostTyped, TaskWhole,
         Entry, OwnDisplays, OwnedBy

LEMMA HandshakeOwns ==
    ASSUME TypeOK, OwnDisplays, NEW a \in Attempts, Handshake(a)
    PROVE  OwnDisplays'
  BY DEF Handshake, claimVars, buildVars, osVars, OwnDisplays, OwnedBy

LEMMA HalfFailedOwns ==
    ASSUME TypeOK, OwnDisplays, NEW a \in Attempts, HalfFailed(a)
    PROVE  OwnDisplays'
  BY DEF HalfFailed, claimVars, buildVars, osVars, OwnDisplays, OwnedBy

LEMMA BothReadyOwns ==
    ASSUME TypeOK, OwnDisplays, NEW a \in Attempts, BothReady(a)
    PROVE  OwnDisplays'
  BY DEF BothReady, claimVars, buildVars, osVars, OwnDisplays, OwnedBy

LEMMA StandDownOwns ==
    ASSUME TypeOK, OwnDisplays, NEW a \in Attempts, StandDown(a)
    PROVE  OwnDisplays'
  BY DEF StandDown, claimVars, locals, osVars, GoOrEnd, Goto, TypeOK, SessTyped, TaskTyped,
         HostTyped, TaskWhole, OwnDisplays, OwnedBy

LEMMA ActivatedOwns ==
    ASSUME TypeOK, OwnDisplays, NEW a \in Attempts, Activated(a)
    PROVE  OwnDisplays'
  BY DEF Activated, claimVars, buildVars, osVars, OwnDisplays, OwnedBy

LEMMA ActivateFailedOwns ==
    ASSUME TypeOK, OwnDisplays, NEW a \in Attempts, ActivateFailed(a)
    PROVE  OwnDisplays'
  BY DEF ActivateFailed, claimVars, buildVars, osVars, OwnDisplays, OwnedBy

LEMMA ArmSessionOwns ==
    ASSUME TypeOK, OwnDisplays, NEW a \in Attempts, ArmSession(a)
    PROVE  OwnDisplays'
  BY DEF ArmSession, claimVars, buildVars, osVars, TypeOK, SessTyped, TaskTyped, HostTyped,
         TaskWhole, Entry, OwnDisplays, OwnedBy

LEMMA AnswerOwns ==
    ASSUME TypeOK, OwnDisplays, NEW a \in Attempts, Answer(a)
    PROVE  OwnDisplays'
  BY DEF Answer, claimVars, buildVars, osVars, TypeOK, SessTyped, TaskTyped, HostTyped,
         TaskWhole, Entry, OwnDisplays, OwnedBy

LEMMA MarkConnectedOwns ==
    ASSUME TypeOK, OwnDisplays, NEW a \in Attempts, MarkConnected(a)
    PROVE  OwnDisplays'
  BY DEF MarkConnected, claimVars, buildVars, osVars, TypeOK, SessTyped, TaskTyped, HostTyped,
         TaskWhole, Entry, OwnDisplays, OwnedBy

LEMMA AbandonOwns ==
    ASSUME TypeOK, OwnDisplays, NEW a \in Attempts, Abandon(a)
    PROVE  OwnDisplays'
  BY DEF Abandon, claimVars, locals, osVars, GoOrEnd, Goto, TypeOK, SessTyped, TaskTyped,
         HostTyped, TaskWhole, OwnDisplays, OwnedBy

LEMMA GraceOverOwns ==
    ASSUME TypeOK, OwnDisplays, NEW a \in Attempts, GraceOver(a)
    PROVE  OwnDisplays'
  BY DEF GraceOver, claimVars, locals, osVars, GoOrEnd, Goto, TypeOK, SessTyped, TaskTyped,
         HostTyped, TaskWhole, OwnDisplays, OwnedBy

LEMMA TakeDisplayOwns ==
    ASSUME TypeOK, OwnDisplays, NEW a \in Attempts, TakeDisplay(a)
    PROVE  OwnDisplays'
  BY DEF TakeDisplay, claimVars, buildVars, osVars, TypeOK, SessTyped, TaskTyped, HostTyped,
         TaskWhole, Entry, OwnDisplays, OwnedBy

LEMMA RemoveSessionOwns ==
    ASSUME TypeOK, OwnDisplays, NEW a \in Attempts, RemoveSession(a)
    PROVE  OwnDisplays'
  BY DEF RemoveSession, claimVars, locals, osVars, GoOrEnd, Goto, TypeOK, SessTyped, TaskTyped,
         HostTyped, TaskWhole, Entry, NoEntry, OwnDisplays, OwnedBy

LEMMA RemoveDisplayOwns ==
    ASSUME TypeOK, OwnDisplays, NEW a \in Attempts, RemoveDisplay(a)
    PROVE  OwnDisplays'
  BY DEF RemoveDisplay, claimVars, locals, GoOrEnd, Goto, TypeOK, SessTyped, TaskTyped,
         HostTyped, TaskWhole, OwnDisplays, OwnedBy

LEMMA ListenOwns ==
    ASSUME TypeOK, OwnDisplays, NEW a \in Attempts, Listen(a)
    PROVE  OwnDisplays'
  BY DEF Listen, claimVars, buildVars, osVars, OwnDisplays, OwnedBy

LEMMA EndedOwns ==
    ASSUME TypeOK, OwnDisplays, NEW a \in Attempts, Ended(a)
    PROVE  OwnDisplays'
  BY DEF Ended, claimVars, buildVars, osVars, OwnDisplays, OwnedBy

LEMMA CloseTransportOwns ==
    ASSUME TypeOK, OwnDisplays, NEW a \in Attempts, CloseTransport(a)
    PROVE  OwnDisplays'
  BY DEF CloseTransport, claimVars, buildVars, osVars, OwnDisplays, OwnedBy

LEMMA StopOwnOwns ==
    ASSUME TypeOK, OwnDisplays, NEW a \in Attempts, StopOwn(a)
    PROVE  OwnDisplays'
  BY DEF StopOwn, claimVars, buildVars, osVars, TypeOK, SessTyped, TaskTyped, HostTyped,
         TaskWhole, Entry, OwnDisplays, OwnedBy

LEMMA PeerClosedOwns ==
    ASSUME TypeOK, OwnDisplays, NEW a \in Attempts, PeerClosed(a)
    PROVE  OwnDisplays'
  BY DEF PeerClosed, claimVars, buildVars, osVars, OwnDisplays, OwnedBy

LEMMA LeaveOwns ==
    ASSUME TypeOK, OwnDisplays, NEW j \in Joins, Leave(j)
    PROVE  OwnDisplays'
  BY DEF Leave, claimVars, buildVars, osVars, OwnDisplays, OwnedBy

LEMMA KickOwns ==
    ASSUME TypeOK, OwnDisplays, NEW j \in Joins, Kick(j)
    PROVE  OwnDisplays'
  BY DEF Kick, claimVars, buildVars, osVars, TypeOK, SessTyped, TaskTyped, HostTyped, TaskWhole,
         Entry, OwnDisplays, OwnedBy

LEMMA ScaleReadOwns ==
    ASSUME TypeOK, OwnDisplays, NEW j \in Joins, ScaleRead(j)
    PROVE  OwnDisplays'
  BY DEF ScaleRead, claimVars, buildVars, osVars, TypeOK, SessTyped, TaskTyped, HostTyped,
         TaskWhole, OwnDisplays, OwnedBy

LEMMA ScaleApplyOwns ==
    ASSUME TypeOK, OwnDisplays, ScaleApply
    PROVE  OwnDisplays'
<1>1. scaler'.live # None => scaler'.live = scaler.live /\ scaler'.join = scaler.join
  <2>1. CASE scaler' = [scaler EXCEPT !.step = "idle", !.join = None, !.live = None]
    BY <2>1 DEF TypeOK, HostTyped
  <2>2. CASE scaler' = [scaler EXCEPT !.step = "row"]
    BY <2>2 DEF TypeOK, HostTyped
  <2>. QED  BY <2>1, <2>2 DEF ScaleApply
<1>. QED  BY <1>1 DEF ScaleApply, OwnDisplays, OwnedBy, claimVars, buildVars, osVars

LEMMA ScaleRecordOwns ==
    ASSUME TypeOK, OwnDisplays, ScaleRecord
    PROVE  OwnDisplays'
  BY DEF ScaleRecord, claimVars, buildVars, osVars, TypeOK, SessTyped, TaskTyped, HostTyped,
         TaskWhole, Entry, OwnDisplays, OwnedBy

LEMMA RestoreOwns ==
    ASSUME TypeOK, OwnDisplays, Restore
    PROVE  OwnDisplays'
  BY DEF Restore, claimVars, buildVars, OwnDisplays, OwnedBy

\* Every step keeps the displays with the joins they were created for.
LEMMA NextOwns == TypeOK /\ OwnDisplays /\ [Next]_vars => OwnDisplays'
<1>. SUFFICES ASSUME TypeOK, OwnDisplays, [Next]_vars
              PROVE  OwnDisplays'
  OBVIOUS
<1>1. ASSUME NEW a \in Attempts, Build(a) PROVE OwnDisplays'
  BY <1>1, OpenSessionOwns, NextSeqOwns, StopPreviousOwns, ReadExistingOwns, ReuseUntouchedOwns,
     ReuseChangeOwns, NeedDisplayOwns, CreateDisplayOwns, AttachOwns, AttachFailedOwns,
     ModeAppliedOwns, ModeRefusedOwns, ReadBackOwns, RecordOwns, CheckBeforeCaptureOwns,
     StartCaptureOwns, ReadScaleOwns, WriteScaleOwns, HandshakeOwns, HalfFailedOwns,
     BothReadyOwns, StandDownOwns, ActivatedOwns, ActivateFailedOwns, ArmSessionOwns, AnswerOwns
     DEF Build
<1>2. ASSUME NEW a \in Attempts, Unwind(a) PROVE OwnDisplays'
  BY <1>2, AbandonOwns, GraceOverOwns, TakeDisplayOwns, RemoveSessionOwns, RemoveDisplayOwns,
     ListenOwns, EndedOwns, CloseTransportOwns, StopOwnOwns DEF Unwind
<1>3. ASSUME NEW a \in Attempts, Offer(a) \/ MarkConnected(a) \/ PeerClosed(a)
      PROVE  OwnDisplays'
  BY <1>3, OfferOwns, MarkConnectedOwns, PeerClosedOwns
<1>4. ASSUME NEW j \in Joins, Host(j) PROVE OwnDisplays'
  BY <1>4, LeaveOwns, KickOwns, ScaleReadOwns DEF Host
<1>5. CASE ScaleApply \/ ScaleRecord \/ Restore
  BY <1>5, ScaleApplyOwns, ScaleRecordOwns, RestoreOwns
<1>6. CASE UNCHANGED vars
  BY <1>6 DEF OwnDisplays, OwnedBy, vars
<1>. QED  BY <1>1, <1>2, <1>3, <1>4, <1>5, <1>6 DEF Next, Task, Finished

\* Two joins never record one display, however their attempts, teardowns, scale changes and
\* the driver interleave.
THEOREM DisplaysNotShared == Spec => []NoSharedDisplay
<1>1. Init => OwnDisplays
  BY DEF Init, OwnDisplays, OwnedBy, NoEntry
<1>2. OwnDisplays => NoSharedDisplay
  BY DEF OwnDisplays, OwnedBy, NoSharedDisplay
<1>. QED  BY TypeCorrect, <1>1, NextOwns, <1>2, PTL DEF Spec

-----------------------------------------------------------------------------
(* A session stays its device's.  A join id is handed out once; whoever works on a join    *)
(* afterwards presented the token of the device its session belongs to.                    *)

JoinsHaveOneDevice ==
    /\ \A a \in Attempts : pc[a] = "idle" \/ jn[a] \in minted
    /\ \A a, b \in Attempts :
          jn[a] = jn[b] /\ pc[a] # "idle" /\ pc[b] # "idle" => DeviceOf[a] = DeviceOf[b]
    /\ \A j \in Joins : sess[j].token # None =>
          /\ j \in minted
          /\ \A a \in Attempts : jn[a] = j /\ pc[a] # "idle" => DeviceOf[a] = sess[j].token

\* An offer only continues a session of the device it comes from.
LEMMA ContinuesOwnDevice ==
    ASSUME TypeOK, NEW a \in Attempts, NEW claim \in Claims(a), NEW c \in Continuations(a, claim),
           c # None
    PROVE  c \in Joins /\ sess[c].token = DeviceOf[a]
<1>1. c \in Joins
  BY ContinuationsAreJoins
<1>2. CASE claim # None
  BY <1>1, <1>2 DEF Continuations, ContinuingJoin
<1>3. CASE claim = None /\ PendingJoins(a) # {}
  BY <1>1, <1>3 DEF Continuations, PendingJoins
<1>4. CASE claim = None /\ PendingJoins(a) = {}
  BY <1>1, <1>4 DEF Continuations, RelayContinuations
<1>. QED  BY <1>1, <1>2, <1>3, <1>4

LEMMA OfferKeepsDevice ==
    ASSUME TypeOK, JoinsHaveOneDevice, NEW a \in Attempts, Offer(a)
    PROVE  JoinsHaveOneDevice' /\ \A j \in Joins : sess'[j].token = sess[j].token
<1>1. PICK claim \in Claims(a) : \E c \in Continuations(a, claim) :
         \E j \in IF c = None THEN Joins \ minted ELSE {c} :
            jn' = [jn EXCEPT ![a] = j] /\ minted' = minted \cup {j}
  BY DEF Offer
<1>2. PICK c \in Continuations(a, claim) :
         \E j \in IF c = None THEN Joins \ minted ELSE {c} :
            jn' = [jn EXCEPT ![a] = j] /\ minted' = minted \cup {j}
  BY <1>1
<1>3. PICK j \in IF c = None THEN Joins \ minted ELSE {c} :
            jn' = [jn EXCEPT ![a] = j] /\ minted' = minted \cup {j}
  BY <1>2
<1>4. pc' = [pc EXCEPT ![a] = "open"] /\ sess' = sess
  BY DEF Offer, Goto
<1>5. j \notin minted \/ (j \in Joins /\ sess[j].token = DeviceOf[a])
  BY <1>3, ContinuesOwnDevice
<1>6. DeviceOf[a] # None
  BY LifecycleAssumption
<1>7. \A b \in Attempts : jn[b] = j /\ pc[b] # "idle" => DeviceOf[b] = DeviceOf[a]
  BY <1>5, <1>6 DEF JoinsHaveOneDevice
<1>. QED
  BY <1>3, <1>4, <1>5, <1>6, <1>7 DEF JoinsHaveOneDevice, TypeOK, TaskTyped

LEMMA OpenSessionKeepsDevice ==
    ASSUME TypeOK, JoinsHaveOneDevice, NEW a \in Attempts, OpenSession(a)
    PROVE  /\ JoinsHaveOneDevice'
           /\ \A j \in Joins : sess[j].token # None => sess'[j].token = sess[j].token
<1>1. jn[a] \in Joins /\ sess[jn[a]] \in Entry
  BY DEF OpenSession, TypeOK, SessTyped, TaskWhole
<1>2. /\ sess'[jn[a]].token = DeviceOf[a]
      /\ \A j \in Joins : j # jn[a] => sess'[j] = sess[j]
  BY <1>1 DEF OpenSession, TypeOK, SessTyped, Entry
<1>3. pc' = [pc EXCEPT ![a] = "seq"] /\ pc[a] = "open" /\ jn' = jn /\ minted' = minted
  BY DEF OpenSession, Goto, claimVars
<1>. QED
  BY <1>1, <1>2, <1>3 DEF JoinsHaveOneDevice, TypeOK, TaskTyped

\* What every other step does: it hands out no token and starts no attempt.
NoNewToken ==
    /\ jn' = jn /\ minted' = minted
    /\ \A a \in Attempts : pc[a] = "idle" => pc'[a] = "idle"
    /\ \A j \in Joins :
          /\ sess'[j].token \in {sess[j].token, None}
          /\ sess'[j].open => sess'[j].token = sess[j].token

LEMMA NoNewTokenKeepsDevice == JoinsHaveOneDevice /\ NoNewToken => JoinsHaveOneDevice'
<1>. SUFFICES ASSUME JoinsHaveOneDevice, NoNewToken
              PROVE  JoinsHaveOneDevice'
  OBVIOUS
<1>1. \A a \in Attempts : pc'[a] # "idle" => pc[a] # "idle"
  BY DEF NoNewToken
<1>2. \A j \in Joins : sess'[j].token # None => sess'[j].token = sess[j].token
  BY DEF NoNewToken
<1>3. (\A a \in Attempts : pc[a] = "idle" \/ jn[a] \in minted)'
  BY <1>1 DEF JoinsHaveOneDevice, NoNewToken
<1>4. (\A a, b \in Attempts :
          jn[a] = jn[b] /\ pc[a] # "idle" /\ pc[b] # "idle" => DeviceOf[a] = DeviceOf[b])'
  BY <1>1 DEF JoinsHaveOneDevice, NoNewToken
<1>5. (\A j \in Joins : sess[j].token # None =>
          /\ j \in minted
          /\ \A a \in Attempts : jn[a] = j /\ pc[a] # "idle" => DeviceOf[a] = sess[j].token)'
  BY <1>1, <1>2 DEF JoinsHaveOneDevice, NoNewToken
<1>. QED  BY <1>3, <1>4, <1>5 DEF JoinsHaveOneDevice


LEMMA TaskNoNewToken ==
    ASSUME TypeOK, NEW a \in Attempts, Task(a) \/ MarkConnected(a) \/ PeerClosed(a), ~OpenSession(a)
    PROVE  NoNewToken
<1>1. CASE NextSeq(a)
  BY <1>1 DEF NextSeq, buildVars, osVars, Goto, TypeOK, TaskTyped, TaskWhole, SessTyped, Entry,
         NoNewToken
<1>2. CASE StopPrevious(a)
  BY <1>2 DEF StopPrevious, claimVars, buildVars, osVars, Goto, TypeOK, TaskTyped, TaskWhole,
         SessTyped, Entry, NoNewToken
<1>3. CASE ReadExisting(a)
  BY <1>3 DEF ReadExisting, claimVars, osVars, Goto, TypeOK, TaskTyped, TaskWhole, SessTyped,
         Entry, NoNewToken
<1>4. CASE ReuseUntouched(a)
  BY <1>4 DEF ReuseUntouched, claimVars, osVars, Goto, TypeOK, TaskTyped, NoNewToken
<1>5. CASE ReuseChange(a)
  BY <1>5 DEF ReuseChange, claimVars, osVars, Goto, TypeOK, TaskTyped, NoNewToken
<1>6. CASE NeedDisplay(a)
  BY <1>6 DEF NeedDisplay, claimVars, buildVars, osVars, Goto, TypeOK, TaskTyped, NoNewToken
<1>7. CASE CreateDisplay(a)
  BY <1>7 DEF CreateDisplay, claimVars, Goto, TypeOK, TaskTyped, NoNewToken
<1>8. CASE Attach(a)
  BY <1>8 DEF Attach, claimVars, Goto, TypeOK, TaskTyped, NoNewToken
<1>9. CASE AttachFailed(a)
  BY <1>9 DEF AttachFailed, claimVars, Goto, TypeOK, TaskTyped, NoNewToken
<1>10. CASE ModeApplied(a)
  BY <1>10 DEF ModeApplied, claimVars, Goto, TypeOK, TaskTyped, NoNewToken
<1>11. CASE ModeRefused(a)
  BY <1>11 DEF ModeRefused, claimVars, osVars, Goto, TypeOK, TaskTyped, NoNewToken
<1>12. CASE ReadBack(a)
  BY <1>12 DEF ReadBack, claimVars, osVars, Goto, TypeOK, TaskTyped, NoNewToken
<1>13. CASE Record(a)
  BY <1>13 DEF Record, claimVars, buildVars, osVars, Goto, TypeOK, TaskTyped, TaskWhole,
         SessTyped, Entry, NoNewToken
<1>14. CASE CheckBeforeCapture(a)
  BY <1>14 DEF CheckBeforeCapture, claimVars, buildVars, osVars, Goto, TypeOK, TaskTyped,
         NoNewToken
<1>15. CASE StartCapture(a)
  BY <1>15 DEF StartCapture, claimVars, buildVars, osVars, Goto, TypeOK, TaskTyped, NoNewToken
<1>16. CASE ReadScale(a)
  BY <1>16 DEF ReadScale, claimVars, osVars, Goto, TypeOK, TaskTyped, NoNewToken
<1>17. CASE WriteScale(a)
  BY <1>17 DEF WriteScale, claimVars, osVars, Goto, TypeOK, TaskTyped, TaskWhole, SessTyped,
         Entry, NoNewToken
<1>18. CASE Handshake(a)
  BY <1>18 DEF Handshake, claimVars, buildVars, osVars, TypeOK, TaskTyped, NoNewToken
<1>19. CASE HalfFailed(a)
  BY <1>19 DEF HalfFailed, claimVars, buildVars, osVars, Goto, TypeOK, TaskTyped, NoNewToken
<1>20. CASE BothReady(a)
  BY <1>20 DEF BothReady, claimVars, buildVars, osVars, Goto, TypeOK, TaskTyped, NoNewToken
<1>21. CASE StandDown(a)
  BY <1>21 DEF StandDown, claimVars, osVars, GoOrEnd, Goto, TypeOK, TaskTyped, NoNewToken
<1>22. CASE Activated(a)
  BY <1>22 DEF Activated, claimVars, buildVars, osVars, Goto, TypeOK, TaskTyped, NoNewToken
<1>23. CASE ActivateFailed(a)
  BY <1>23 DEF ActivateFailed, claimVars, buildVars, osVars, Goto, TypeOK, TaskTyped, NoNewToken
<1>24. CASE ArmSession(a)
  BY <1>24 DEF ArmSession, claimVars, buildVars, osVars, Goto, TypeOK, TaskTyped, TaskWhole,
         SessTyped, Entry, NoNewToken
<1>25. CASE Answer(a)
  BY <1>25 DEF Answer, claimVars, buildVars, osVars, Goto, TypeOK, TaskTyped, TaskWhole,
         SessTyped, Entry, NoNewToken
<1>26. CASE Abandon(a)
  BY <1>26 DEF Abandon, claimVars, osVars, GoOrEnd, Goto, TypeOK, TaskTyped, NoNewToken
<1>27. CASE GraceOver(a)
  BY <1>27 DEF GraceOver, claimVars, osVars, GoOrEnd, Goto, TypeOK, TaskTyped, NoNewToken
<1>28. CASE TakeDisplay(a)
  BY <1>28 DEF TakeDisplay, claimVars, buildVars, osVars, Goto, TypeOK, TaskTyped, TaskWhole,
         SessTyped, Entry, NoNewToken
<1>29. CASE RemoveSession(a)
  BY <1>29 DEF RemoveSession, claimVars, osVars, GoOrEnd, Goto, TypeOK, TaskTyped, TaskWhole,
         SessTyped, Entry, NoEntry, NoNewToken
<1>30. CASE RemoveDisplay(a)
  BY <1>30 DEF RemoveDisplay, claimVars, GoOrEnd, Goto, TypeOK, TaskTyped, NoNewToken
<1>31. CASE Listen(a)
  BY <1>31 DEF Listen, claimVars, buildVars, osVars, Goto, TypeOK, TaskTyped, NoNewToken
<1>32. CASE Ended(a)
  BY <1>32 DEF Ended, claimVars, buildVars, osVars, Goto, TypeOK, TaskTyped, NoNewToken
<1>33. CASE CloseTransport(a)
  BY <1>33 DEF CloseTransport, claimVars, buildVars, osVars, Goto, TypeOK, TaskTyped, NoNewToken
<1>34. CASE StopOwn(a)
  BY <1>34 DEF StopOwn, claimVars, buildVars, osVars, Goto, TypeOK, TaskTyped, TaskWhole,
         SessTyped, Entry, NoNewToken
<1>35. CASE MarkConnected(a)
  BY <1>35 DEF MarkConnected, claimVars, buildVars, osVars, TypeOK, TaskTyped, TaskWhole,
         SessTyped, Entry, NoNewToken
<1>36. CASE PeerClosed(a)
  BY <1>36 DEF PeerClosed, claimVars, buildVars, osVars, TypeOK, TaskTyped, NoNewToken
<1>. QED
  BY <1>1, <1>2, <1>3, <1>4, <1>5, <1>6, <1>7, <1>8, <1>9, <1>10, <1>11, <1>12, <1>13, <1>14,
     <1>15, <1>16, <1>17, <1>18, <1>19, <1>20, <1>21, <1>22, <1>23, <1>24, <1>25, <1>26, <1>27,
     <1>28, <1>29, <1>30, <1>31, <1>32, <1>33, <1>34, <1>35, <1>36 DEF Task, Build, Unwind

LEMMA HostNoNewToken ==
    ASSUME TypeOK, (\E j \in Joins : Host(j)) \/ ScaleApply \/ ScaleRecord \/ Restore
    PROVE  NoNewToken
<1>1. CASE \E j \in Joins : Leave(j) \/ ScaleRead(j)
  BY <1>1 DEF Leave, ScaleRead, claimVars, NoNewToken
<1>2. CASE \E j \in Joins : Kick(j)
  BY <1>2 DEF Kick, claimVars, TypeOK, SessTyped, Entry, NoNewToken
<1>3. CASE ScaleRecord
  BY <1>3 DEF ScaleRecord, claimVars, TypeOK, SessTyped, HostTyped, Entry, NoNewToken
<1>4. CASE ScaleApply \/ Restore
  BY <1>4 DEF ScaleApply, Restore, claimVars, NoNewToken
<1>. QED  BY <1>1, <1>2, <1>3, <1>4 DEF Host

\* A session stays the device's that opened it: no page gets at another device's session by
\* an id it presents, a page load it repeats or a relay client it shares.
THEOREM DeviceKept == Spec => SessionKeepsDevice
<1>. DEFINE Kept == \A j \in Joins :
              sess[j].token # None /\ sess'[j].open => sess'[j].token = sess[j].token
<1>1. Init => JoinsHaveOneDevice
  BY DEF Init, JoinsHaveOneDevice, NoEntry
<1>2. TypeOK /\ JoinsHaveOneDevice /\ [Next]_vars => JoinsHaveOneDevice' /\ [Kept]_vars
  <2>. SUFFICES ASSUME TypeOK, JoinsHaveOneDevice, [Next]_vars
                PROVE  JoinsHaveOneDevice' /\ [Kept]_vars
    OBVIOUS
  <2>1. CASE \E a \in Attempts : Offer(a)
    BY <2>1, OfferKeepsDevice
  <2>2. CASE \E a \in Attempts : OpenSession(a)
    BY <2>2, OpenSessionKeepsDevice
  <2>3. CASE NoNewToken
    BY <2>3, NoNewTokenKeepsDevice DEF NoNewToken
  <2>4. CASE UNCHANGED vars
    BY <2>4 DEF JoinsHaveOneDevice, vars
  <2>5. CASE \E a \in Attempts : Task(a) \/ MarkConnected(a) \/ PeerClosed(a)
    BY <2>2, <2>3, <2>5, TaskNoNewToken
  <2>6. CASE (\E j \in Joins : Host(j)) \/ ScaleApply \/ ScaleRecord \/ Restore
    BY <2>3, <2>6, HostNoNewToken
  <2>. HIDE DEF Kept
  <2>. QED
    BY <2>1, <2>4, <2>5, <2>6 DEF Next, Finished
<1>. QED
  BY TypeCorrect, <1>1, <1>2, PTL DEF Spec, SessionKeepsDevice

-----------------------------------------------------------------------------
(* On one executor thread.  Preempt = FALSE: a task keeps the processor from one await to  *)
(* the next.  First the claims attempts have on joins: what the sequence numbers say, and  *)
(* who holds the processor.                                                                *)

\* Where a task got without an await since the step before, and keeps the processor.
HeldPcs == {"open", "seq", "stopPrev", "display", "check", "writeScale", "arm", "capture",
            "forget", "remove"}

\* Where it has just been found current.
CurrentPcs == {"stopPrev", "arm", "capture", "forget", "remove"}

\* It has drawn its number.
Late(a) == pc[a] \notin {"idle", "open", "seq"}

HeldBySync == \A a \in Attempts : pc[a] \in HeldPcs => cpu = a

\* The attempts of a join have numbers of their own, up to the one the session has.
Numbered ==
    /\ \A a \in Attempts : pc[a] = "idle" => jn[a] = None
    /\ \A a \in Attempts : Late(a) =>
          seq[a] # 0 /\ (sess[jn[a]].seq # 0 => seq[a] <= sess[jn[a]].seq)
    /\ \A a, b \in Attempts :
          Late(a) /\ Late(b) /\ jn[a] = jn[b] /\ seq[a] = seq[b] => a = b

\* A session that was given a number is open and a device's, and the other way round.
RowsOpen ==
    /\ \A j \in Joins : sess[j].seq # 0 => sess[j].open /\ sess[j].token # None
    /\ \A j \in Joins : sess[j].token # None =>
          sess[j].seq # 0 \/ \E a \in Attempts : jn[a] = j /\ pc[a] = "seq"
    /\ \A a \in Attempts : pc[a] = "seq" => sess[jn[a]].token # None

\* Who is current where the code relies on it, and that somebody always is.
StandsCurrent ==
    /\ \A a \in Attempts :
          /\ pc[a] \in CurrentPcs => IsCurrent(a)
          /\ pc[a] = "stopPrev" => cont[a]
          /\ pc[a] = "standDown" => sess[jn[a]].seq # seq[a]
          /\ pc[a] = "removeDisplay" => sess[jn[a]].seq = 0
    /\ \A j \in Joins : sess[j].seq # 0 =>
          \E a \in Attempts : /\ Late(a) /\ jn[a] = j
                              /\ seq[a] = sess[j].seq /\ pc[a] # "done"

\* A join an offer has just minted is its alone.
FreshJoins ==
    /\ \A a \in Attempts : pc[a] \in {"open", "seq"} =>
          IF cont[a] THEN sess[jn[a]].seq # 0
          ELSE /\ sess[jn[a]].seq = 0
               /\ \A b \in Attempts : jn[b] = jn[a] => b = a
    /\ \A j \in Joins \ minted :
          sess[j].seq = 0 /\ sess[j].token = None /\ \A a \in Attempts : jn[a] # j

ClaimInv == HeldBySync /\ Numbered /\ RowsOpen /\ StandsCurrent /\ FreshJoins

\* What the steps that neither claim a join nor give one up have in common.
ClaimsKept ==
    /\ minted' = minted /\ jn' = jn /\ cont' = cont /\ seq' = seq
    /\ \A j \in Joins : /\ sess'[j].seq = sess[j].seq /\ sess'[j].token = sess[j].token
                        /\ sess[j].open => sess'[j].open

\* A task that has its number takes one step.
Moves(a) ==
    /\ Run(a) /\ Late(a) /\ cpu' \in {None, a}
    /\ \A b \in Attempts : b # a => pc'[b] = pc[b]
    /\ pc'[a] \notin {"idle", "open", "seq", "stopPrev", "removeDisplay"}
    /\ pc'[a] \in HeldPcs => cpu' = a
    /\ pc'[a] \in CurrentPcs => IsCurrent(a)
    /\ pc'[a] \in {"standDown", "done"} => sess[jn[a]].seq # seq[a]

LEMMA ClaimsKeptInv ==
    ASSUME TInv, ClaimInv, ClaimsKept,
           (pc' = pc /\ cpu' = cpu) \/ \E a \in Attempts : Moves(a)
    PROVE  ClaimInv'
<1>1. CASE pc' = pc /\ cpu' = cpu
  <2>1. HeldBySync'
    BY <1>1 DEF ClaimInv, HeldBySync
  <2>2. Numbered'
    BY <1>1 DEF ClaimInv, ClaimsKept, Numbered, Late, TInv, TypeOK, TaskWhole
  <2>3. RowsOpen'
    BY <1>1 DEF ClaimInv, ClaimsKept, RowsOpen, TInv, TypeOK, TaskWhole
  <2>4. StandsCurrent'
    BY <1>1 DEF ClaimInv, ClaimsKept, StandsCurrent, IsCurrent, Late, TInv, TypeOK, TaskWhole,
            CurrentPcs
  <2>5. FreshJoins'
    BY <1>1 DEF ClaimInv, ClaimsKept, FreshJoins, TInv, TypeOK, TaskWhole
  <2>. QED  BY <2>1, <2>2, <2>3, <2>4, <2>5 DEF ClaimInv
<1>2. ASSUME NEW a \in Attempts, Moves(a) PROVE ClaimInv'
  <2>1. \A b \in Attempts : b # a => pc[b] \notin HeldPcs /\ pc'[b] = pc[b]
    BY <1>2, LifecycleAssumption DEF ClaimInv, HeldBySync, Moves, Run
  <2>2. HeldBySync'
    BY <1>2, <2>1 DEF HeldBySync, Moves
  <2>3. Numbered'
    BY <1>2, <2>1 DEF ClaimInv, ClaimsKept, Numbered, Late, Moves, TInv, TypeOK, TaskWhole
  <2>4. RowsOpen'
    BY <1>2, <2>1 DEF ClaimInv, ClaimsKept, RowsOpen, Moves, Late,
            TInv, TypeOK, TaskWhole
  <2>5. StandsCurrent'
    <3>1. \A b \in Attempts : b # a => pc[b] \notin CurrentPcs
      BY <2>1 DEF HeldPcs, CurrentPcs
    <3>2. jn[a] \in Joins
      BY <1>2 DEF Moves, Late, TInv, TypeOK, TaskWhole
    <3>3. (\A b \in Attempts :
              /\ pc[b] \in CurrentPcs => IsCurrent(b)
              /\ pc[b] = "stopPrev" => cont[b]
              /\ pc[b] = "standDown" => sess[jn[b]].seq # seq[b]
              /\ pc[b] = "removeDisplay" => sess[jn[b]].seq = 0)'
      BY <1>2, <2>1, <3>1, <3>2 DEF ClaimInv, ClaimsKept, StandsCurrent, IsCurrent, Moves,
              TInv, TypeOK, TaskWhole
    <3>4. (\A j \in Joins : sess[j].seq # 0 =>
              \E b \in Attempts : /\ Late(b) /\ jn[b] = j
                                  /\ seq[b] = sess[j].seq /\ pc[b] # "done")'
      BY <1>2, <2>1 DEF ClaimInv, ClaimsKept, StandsCurrent, Late, Moves
    <3>. QED  BY <3>3, <3>4 DEF StandsCurrent
  <2>6. FreshJoins'
    BY <1>2, <2>1 DEF ClaimInv, ClaimsKept, FreshJoins, Moves, TInv, TypeOK, TaskWhole
  <2>. QED  BY <2>2, <2>3, <2>4, <2>5, <2>6 DEF ClaimInv
<1>. QED  BY <1>1, <1>2

\* What a step writes into the row of one join: all it reads back but labels.
RowIs(j, op, tok, n, l, lv, c) ==
    /\ sess'[j].open = op /\ sess'[j].token = tok /\ sess'[j].seq = n
    /\ sess'[j].live = l /\ sess'[j].leave = lv /\ sess'[j].cap = c
    /\ \A i \in Joins : i # j => sess'[i] = sess[i]

LEMMA OpenSessionRow ==
    ASSUME TInv, NEW a \in Attempts, OpenSession(a)
    PROVE  /\ jn[a] \in Joins
           /\ RowIs(jn[a], TRUE, DeviceOf[a], sess[jn[a]].seq,
                    sess[jn[a]].live, sess[jn[a]].leave, sess[jn[a]].cap)
<1>1. jn[a] \in Joins /\ sess[jn[a]] \in Entry
  BY DEF OpenSession, TInv, TypeOK, SessTyped, TaskTyped, TaskWhole
<1>. QED
  BY <1>1 DEF OpenSession, RowIs, TInv, TypeOK, SessTyped, Entry

LEMMA NextSeqRow ==
    ASSUME TInv, NEW a \in Attempts, NextSeq(a)
    PROVE  /\ jn[a] \in Joins
           /\ RowIs(jn[a], TRUE, sess[jn[a]].token, sess[jn[a]].seq + 1,
                    sess[jn[a]].live, sess[jn[a]].leave, sess[jn[a]].cap)
<1>1. jn[a] \in Joins /\ sess[jn[a]] \in Entry
  BY DEF NextSeq, TInv, TypeOK, SessTyped, TaskTyped, TaskWhole
<1>. QED
  BY <1>1 DEF NextSeq, RowIs, TInv, TypeOK, SessTyped, Entry

LEMMA StopPreviousRow ==
    ASSUME TInv, NEW a \in Attempts, StopPrevious(a)
    PROVE  /\ jn[a] \in Joins
           /\ RowIs(jn[a], sess[jn[a]].open, sess[jn[a]].token, sess[jn[a]].seq,
                    sess[jn[a]].live, sess[jn[a]].leave, None)
<1>1. jn[a] \in Joins /\ sess[jn[a]] \in Entry
  BY DEF StopPrevious, TInv, TypeOK, SessTyped, TaskTyped, TaskWhole
<1>. QED
  BY <1>1 DEF StopPrevious, RowIs, TInv, TypeOK, SessTyped, Entry

LEMMA ReadExistingRow ==
    ASSUME TInv, NEW a \in Attempts, ReadExisting(a)
    PROVE  /\ jn[a] \in Joins
           /\ RowIs(jn[a], TRUE, sess[jn[a]].token, sess[jn[a]].seq,
                    sess[jn[a]].live, sess[jn[a]].leave, sess[jn[a]].cap)
<1>1. jn[a] \in Joins /\ sess[jn[a]] \in Entry
  BY DEF ReadExisting, TInv, TypeOK, SessTyped, TaskTyped, TaskWhole
<1>. QED
  BY <1>1 DEF ReadExisting, RowIs, TInv, TypeOK, SessTyped, Entry

LEMMA RecordRow ==
    ASSUME TInv, NEW a \in Attempts, Record(a)
    PROVE  /\ jn[a] \in Joins
           /\ RowIs(jn[a], TRUE, sess[jn[a]].token, sess[jn[a]].seq,
                    got[a], sess[jn[a]].leave, sess[jn[a]].cap)
<1>1. jn[a] \in Joins /\ sess[jn[a]] \in Entry
  BY DEF Record, TInv, TypeOK, SessTyped, TaskTyped, TaskWhole
<1>. QED
  BY <1>1 DEF Record, RowIs, TInv, TypeOK, SessTyped, Entry

LEMMA WriteScaleRow ==
    ASSUME TInv, NEW a \in Attempts, WriteScale(a)
    PROVE  /\ jn[a] \in Joins
           /\ RowIs(jn[a], TRUE, sess[jn[a]].token, sess[jn[a]].seq,
                    snap[a], sess[jn[a]].leave, sess[jn[a]].cap)
<1>1. jn[a] \in Joins /\ sess[jn[a]] \in Entry
  BY DEF WriteScale, TInv, TypeOK, SessTyped, TaskTyped, TaskWhole
<1>. QED
  BY <1>1 DEF WriteScale, RowIs, TInv, TypeOK, SessTyped, Entry

LEMMA ArmSessionRow ==
    ASSUME TInv, NEW a \in Attempts, ArmSession(a)
    PROVE  /\ jn[a] \in Joins
           /\ RowIs(jn[a], TRUE, sess[jn[a]].token, sess[jn[a]].seq,
                    sess[jn[a]].live, a, sess[jn[a]].cap)
<1>1. jn[a] \in Joins /\ sess[jn[a]] \in Entry
  BY DEF ArmSession, TInv, TypeOK, SessTyped, TaskTyped, TaskWhole
<1>. QED
  BY <1>1 DEF ArmSession, RowIs, TInv, TypeOK, SessTyped, Entry

LEMMA AnswerRow ==
    ASSUME TInv, NEW a \in Attempts, Answer(a)
    PROVE  /\ jn[a] \in Joins
           /\ RowIs(jn[a], TRUE, sess[jn[a]].token, sess[jn[a]].seq,
                    sess[jn[a]].live, sess[jn[a]].leave, a)
<1>1. jn[a] \in Joins /\ sess[jn[a]] \in Entry
  BY DEF Answer, TInv, TypeOK, SessTyped, TaskTyped, TaskWhole
<1>. QED
  BY <1>1 DEF Answer, RowIs, TInv, TypeOK, SessTyped, Entry

LEMMA TakeDisplayRow ==
    ASSUME TInv, NEW a \in Attempts, TakeDisplay(a)
    PROVE  /\ jn[a] \in Joins
           /\ RowIs(jn[a], sess[jn[a]].open, sess[jn[a]].token, sess[jn[a]].seq,
                    None, sess[jn[a]].leave, sess[jn[a]].cap)
<1>1. jn[a] \in Joins /\ sess[jn[a]] \in Entry
  BY DEF TakeDisplay, TInv, TypeOK, SessTyped, TaskTyped, TaskWhole
<1>. QED
  BY <1>1 DEF TakeDisplay, RowIs, TInv, TypeOK, SessTyped, Entry

LEMMA StopOwnRow ==
    ASSUME TInv, NEW a \in Attempts, StopOwn(a)
    PROVE  /\ jn[a] \in Joins
           /\ RowIs(jn[a], sess[jn[a]].open, sess[jn[a]].token, sess[jn[a]].seq,
                    sess[jn[a]].live, sess[jn[a]].leave,
                         IF sess[jn[a]].cap # None /\ seq[sess[jn[a]].cap] = seq[a]
                      THEN None ELSE sess[jn[a]].cap)
<1>1. jn[a] \in Joins /\ sess[jn[a]] \in Entry
  BY DEF StopOwn, TInv, TypeOK, SessTyped, TaskTyped, TaskWhole
<1>. QED
  BY <1>1 DEF StopOwn, RowIs, TInv, TypeOK, SessTyped, Entry

LEMMA MarkConnectedRow ==
    ASSUME TInv, NEW a \in Attempts, MarkConnected(a)
    PROVE  /\ jn[a] \in Joins
           /\ RowIs(jn[a], sess[jn[a]].open, sess[jn[a]].token, sess[jn[a]].seq,
                    sess[jn[a]].live, sess[jn[a]].leave, sess[jn[a]].cap)
<1>1. jn[a] \in Joins /\ sess[jn[a]] \in Entry
  BY DEF MarkConnected, TInv, TypeOK, SessTyped, TaskTyped, TaskWhole, Underway
<1>. QED
  BY <1>1 DEF MarkConnected, RowIs, TInv, TypeOK, SessTyped, Entry

LEMMA RemoveSessionRow ==
    ASSUME TInv, NEW a \in Attempts, RemoveSession(a)
    PROVE  /\ jn[a] \in Joins
           /\ RowIs(jn[a], FALSE, None, 0,
                    None, None, None)
<1>1. jn[a] \in Joins /\ sess[jn[a]] \in Entry
  BY DEF RemoveSession, TInv, TypeOK, SessTyped, TaskTyped, TaskWhole
<1>. QED
  BY <1>1 DEF RemoveSession, RowIs, TInv, TypeOK, SessTyped, Entry, NoEntry

\* Every step of a task but the three that claim a join and the one that gives it up.
LEMMA TaskMoves ==
    ASSUME TInv, ClaimInv, ~Preempt, NEW a \in Attempts, Task(a), pc[a] # "open", pc[a] # "seq",
           pc[a] # "remove", ~Handshake(a)
    PROVE  ClaimsKept /\ Moves(a)
<1>. USE DEF Moves, Late, HeldPcs, CurrentPcs
<1>1. pc[a] # "idle" => jn[a] \in Joins
  BY DEF TInv, TypeOK, TaskWhole
<1>2. pc \in [Attempts -> PcLabels]
  BY DEF TInv, TypeOK, TaskTyped
<1>3. /\ pc[a] \in CurrentPcs => IsCurrent(a)
      /\ pc[a] = "standDown" => sess[jn[a]].seq # seq[a]
      /\ pc[a] = "removeDisplay" => sess[jn[a]].seq = 0
      /\ pc[a] # "idle" => seq[a] # 0
      /\ ~IsCurrent(a) /\ pc[a] # "idle" => sess[jn[a]].seq # seq[a]
  BY <1>1 DEF ClaimInv, StandsCurrent, Numbered, RowsOpen, IsCurrent
<1>4. CASE ReuseUntouched(a)
  BY <1>1, <1>2, <1>3, <1>4 DEF ReuseUntouched, ClaimsKept, Run, Goto, claimVars, Hold
<1>5. CASE ReuseChange(a)
  BY <1>1, <1>2, <1>3, <1>5 DEF ReuseChange, ClaimsKept, Run, Goto, claimVars, Yield
<1>6. CASE NeedDisplay(a)
  BY <1>1, <1>2, <1>3, <1>6 DEF NeedDisplay, ClaimsKept, Run, Goto, claimVars, Yield
<1>7. CASE CreateDisplay(a)
  BY <1>1, <1>2, <1>3, <1>7 DEF CreateDisplay, ClaimsKept, Run, Goto, claimVars, Yield
<1>8. CASE Attach(a)
  BY <1>1, <1>2, <1>3, <1>8 DEF Attach, ClaimsKept, Run, Goto, claimVars, Yield
<1>9. CASE AttachFailed(a)
  BY <1>1, <1>2, <1>3, <1>9 DEF AttachFailed, ClaimsKept, Run, Goto, claimVars, Yield
<1>10. CASE ModeApplied(a)
  BY <1>1, <1>2, <1>3, <1>10 DEF ModeApplied, ClaimsKept, Run, Goto, claimVars, Yield
<1>11. CASE ModeRefused(a)
  BY <1>1, <1>2, <1>3, <1>11 DEF ModeRefused, ClaimsKept, Run, Goto, claimVars, Yield
<1>12. CASE ReadBack(a)
  BY <1>1, <1>2, <1>3, <1>12 DEF ReadBack, ClaimsKept, Run, Goto, claimVars, Yield
<1>13. CASE CheckBeforeCapture(a)
  BY <1>1, <1>2, <1>3, <1>13 DEF CheckBeforeCapture, ClaimsKept, Run, Goto, claimVars, Yield
<1>14. CASE StartCapture(a)
  BY <1>1, <1>2, <1>3, <1>14 DEF StartCapture, ClaimsKept, Run, Goto, claimVars, Yield
<1>15. CASE ReadScale(a)
  BY <1>1, <1>2, <1>3, <1>15 DEF ReadScale, ClaimsKept, Run, Goto, claimVars, Yield, Hold
<1>16. CASE HalfFailed(a)
  BY <1>1, <1>2, <1>3, <1>16 DEF HalfFailed, ClaimsKept, Run, Goto, claimVars, Yield
<1>17. CASE BothReady(a)
  BY <1>1, <1>2, <1>3, <1>17 DEF BothReady, ClaimsKept, Run, Goto, claimVars, Yield
<1>18. CASE StandDown(a)
  BY <1>1, <1>2, <1>3, <1>18 DEF StandDown, ClaimsKept, Run, Goto, claimVars, Yield, GoOrEnd
<1>19. CASE Activated(a)
  BY <1>1, <1>2, <1>3, <1>19 DEF Activated, ClaimsKept, Run, Goto, claimVars, Yield, Hold
<1>20. CASE ActivateFailed(a)
  BY <1>1, <1>2, <1>3, <1>20 DEF ActivateFailed, ClaimsKept, Run, Goto, claimVars, Yield
<1>21. CASE Abandon(a)
  BY <1>1, <1>2, <1>3, <1>21 DEF Abandon, ClaimsKept, Run, Goto, claimVars, Yield, Hold, GoOrEnd
<1>22. CASE GraceOver(a)
  BY <1>1, <1>2, <1>3, <1>22 DEF GraceOver, ClaimsKept, Run, Goto, claimVars, Yield, Hold, GoOrEnd
<1>23. CASE RemoveDisplay(a)
  BY <1>1, <1>2, <1>3, <1>23 DEF RemoveDisplay, ClaimsKept, Run, Goto, claimVars, Yield, GoOrEnd
<1>24. CASE Listen(a)
  BY <1>1, <1>2, <1>3, <1>24 DEF Listen, ClaimsKept, Run, Goto, claimVars, Yield
<1>25. CASE Ended(a)
  BY <1>1, <1>2, <1>3, <1>25 DEF Ended, ClaimsKept, Run, Goto, claimVars, Yield
<1>26. CASE CloseTransport(a)
  BY <1>1, <1>2, <1>3, <1>26 DEF CloseTransport, ClaimsKept, Run, Goto, claimVars, Yield
<1>27. CASE StopPrevious(a)
  <2>1. ClaimsKept
    BY <1>27, StopPreviousRow DEF StopPrevious, ClaimsKept, RowIs, claimVars
  <2>2. Moves(a)
    BY <1>1, <1>2, <1>3, <1>27 DEF StopPrevious, Run, Goto, claimVars, Yield, Hold
  <2>. QED  BY <2>1, <2>2
<1>28. CASE ReadExisting(a)
  <2>1. ClaimsKept
    BY <1>28, ReadExistingRow DEF ReadExisting, ClaimsKept, RowIs, claimVars
  <2>2. Moves(a)
    BY <1>1, <1>2, <1>3, <1>28 DEF ReadExisting, Run, Goto, claimVars, Hold
  <2>. QED  BY <2>1, <2>2
<1>29. CASE Record(a)
  <2>1. ClaimsKept
    BY <1>29, RecordRow DEF Record, ClaimsKept, RowIs, claimVars
  <2>2. Moves(a)
    BY <1>1, <1>2, <1>3, <1>29 DEF Record, Run, Goto, claimVars, Hold
  <2>. QED  BY <2>1, <2>2
<1>30. CASE WriteScale(a)
  <2>1. ClaimsKept
    BY <1>30, WriteScaleRow DEF WriteScale, ClaimsKept, RowIs, claimVars
  <2>2. Moves(a)
    BY <1>1, <1>2, <1>3, <1>30 DEF WriteScale, Run, Goto, claimVars, Yield
  <2>. QED  BY <2>1, <2>2
<1>31. CASE ArmSession(a)
  <2>1. ClaimsKept
    BY <1>31, ArmSessionRow DEF ArmSession, ClaimsKept, RowIs, claimVars
  <2>2. Moves(a)
    BY <1>1, <1>2, <1>3, <1>31 DEF ArmSession, Run, Goto, claimVars, Hold
  <2>. QED  BY <2>1, <2>2
<1>32. CASE Answer(a)
  <2>1. ClaimsKept
    BY <1>32, AnswerRow DEF Answer, ClaimsKept, RowIs, claimVars
  <2>2. Moves(a)
    BY <1>1, <1>2, <1>3, <1>32 DEF Answer, Run, Goto, claimVars, Yield
  <2>. QED  BY <2>1, <2>2
<1>33. CASE TakeDisplay(a)
  <2>1. ClaimsKept
    BY <1>33, TakeDisplayRow DEF TakeDisplay, ClaimsKept, RowIs, claimVars
  <2>2. Moves(a)
    BY <1>1, <1>2, <1>3, <1>33 DEF TakeDisplay, Run, Goto, claimVars, Hold
  <2>. QED  BY <2>1, <2>2
<1>34. CASE StopOwn(a)
  <2>1. ClaimsKept
    BY <1>34, StopOwnRow DEF StopOwn, ClaimsKept, RowIs, claimVars
  <2>2. Moves(a)
    BY <1>1, <1>2, <1>3, <1>34 DEF StopOwn, Run, Goto, claimVars, Yield
  <2>. QED  BY <2>1, <2>2
<1>. QED
  BY <1>4, <1>5, <1>6, <1>7, <1>8, <1>9, <1>10, <1>11, <1>12, <1>13, <1>14, <1>15, <1>16, <1>17,
       <1>18, <1>19, <1>20, <1>21, <1>22, <1>23, <1>24, <1>25, <1>26, <1>27, <1>28, <1>29, <1>30,
       <1>31, <1>32, <1>33, <1>34,
     <1>1 DEF Task, Build, Unwind, OpenSession, NextSeq, RemoveSession

\* Neither the page, the host nor a display task comes between.
LEMMA OutsideKeepsClaims ==
    ASSUME TInv,
           \/ \E a \in Attempts : Handshake(a) \/ MarkConnected(a) \/ PeerClosed(a)
           \/ \E j \in Joins : Host(j)
           \/ ScaleApply \/ ScaleRecord \/ Restore
    PROVE  cpu = None /\ cpu' = None /\ pc' = pc /\ ClaimsKept
<1>1. CASE \E a \in Attempts : Handshake(a) \/ PeerClosed(a)
  BY <1>1 DEF Handshake, PeerClosed, claimVars, ClaimsKept
<1>2. CASE \E a \in Attempts : MarkConnected(a)
  BY <1>2, MarkConnectedRow DEF MarkConnected, claimVars, RowIs, ClaimsKept
<1>3. CASE \E j \in Joins : Leave(j) \/ ScaleRead(j)
  BY <1>3 DEF Leave, ScaleRead, claimVars, ClaimsKept
<1>4. CASE \E j \in Joins : Kick(j)
  BY <1>4 DEF Kick, claimVars, ClaimsKept, TInv, TypeOK, SessTyped, Entry
<1>5. CASE ScaleApply \/ Restore
  BY <1>5 DEF ScaleApply, Restore, claimVars, ClaimsKept
<1>6. CASE ScaleRecord
  BY <1>6 DEF ScaleRecord, claimVars, ClaimsKept, TInv, TypeOK, SessTyped, HostTyped, Entry
<1>. QED  BY <1>1, <1>2, <1>3, <1>4, <1>5, <1>6 DEF Host

\* An offer takes a join nobody works on, or one with a session that is its device's.
LEMMA OfferJoins ==
    ASSUME TInv, ClaimInv, NEW a \in Attempts, Offer(a), cont'[a]
    PROVE  sess[jn'[a]].seq # 0
<1>. PICK claim \in Claims(a) : \E c \in Continuations(a, claim) :
         \E j \in IF c = None THEN Joins \ minted ELSE {c} :
            jn' = [jn EXCEPT ![a] = j] /\ cont' = [cont EXCEPT ![a] = (c # None)]
  BY DEF Offer
<1>1. PICK c \in Continuations(a, claim) :
         \E j \in IF c = None THEN Joins \ minted ELSE {c} :
            jn' = [jn EXCEPT ![a] = j] /\ cont' = [cont EXCEPT ![a] = (c # None)]
  OBVIOUS
<1>2. jn'[a] = c /\ c # None
  BY <1>1 DEF TInv, TypeOK, TaskTyped
<1>3. c \in Joins /\ sess[c].token # None
  BY <1>2, ContinuesOwnDevice, LifecycleAssumption DEF TInv
<1>4. \A b \in Attempts : pc[b] # "seq"
  BY LifecycleAssumption DEF Offer, Run, ClaimInv, HeldBySync, HeldPcs
<1>. QED  BY <1>2, <1>3, <1>4 DEF ClaimInv, RowsOpen

LEMMA OfferTakes ==
    ASSUME TInv, NEW a \in Attempts, Offer(a)
    PROVE  /\ jn'[a] \in Joins /\ (~cont'[a] => jn'[a] \notin minted)
           /\ minted' = minted \cup {jn'[a]}
           /\ \A b \in Attempts : b # a => jn'[b] = jn[b] /\ cont'[b] = cont[b]
<1>. PICK claim \in Claims(a) : \E c \in Continuations(a, claim) :
         \E j \in IF c = None THEN Joins \ minted ELSE {c} :
            /\ jn' = [jn EXCEPT ![a] = j] /\ cont' = [cont EXCEPT ![a] = (c # None)]
            /\ minted' = minted \cup {j}
  BY DEF Offer
<1>1. PICK c \in Continuations(a, claim) :
         \E j \in IF c = None THEN Joins \ minted ELSE {c} :
            /\ jn' = [jn EXCEPT ![a] = j] /\ cont' = [cont EXCEPT ![a] = (c # None)]
            /\ minted' = minted \cup {j}
  OBVIOUS
<1>2. c # None => c \in Joins
  BY ContinuationsAreJoins DEF TInv
<1>. QED  BY <1>1, <1>2 DEF TInv, TypeOK, TaskTyped

LEMMA OfferClaims ==
    ASSUME TInv, ClaimInv, ~Preempt, NEW a \in Attempts, Offer(a)
    PROVE  ClaimInv'
<1>1. /\ pc[a] = "idle" /\ pc'[a] = "open" /\ \A b \in Attempts : b # a => pc'[b] = pc[b]
      /\ cpu' = a /\ cpu \in {None, a} /\ sess' = sess /\ seq' = seq
  BY DEF Offer, Goto, Hold, Run, TInv, TypeOK, TaskTyped
<1>2. /\ jn'[a] \in Joins /\ (~cont'[a] => jn'[a] \notin minted)
      /\ minted' = minted \cup {jn'[a]}
      /\ \A b \in Attempts : b # a => jn'[b] = jn[b] /\ cont'[b] = cont[b]
      /\ cont'[a] => sess[jn'[a]].seq # 0
  BY OfferTakes, OfferJoins
<1>3. \A b \in Attempts : pc[b] \notin HeldPcs
  BY <1>1, LifecycleAssumption DEF ClaimInv, HeldBySync, HeldPcs
<1>4. HeldBySync'
  BY <1>1, <1>3 DEF HeldBySync
<1>5. Numbered'
  BY <1>1, <1>2 DEF ClaimInv, Numbered, Late, TInv, TypeOK, TaskWhole
<1>6. RowsOpen'
  BY <1>1, <1>2, <1>3 DEF ClaimInv, RowsOpen, HeldPcs, TInv, TypeOK, TaskWhole
<1>7. StandsCurrent'
  BY <1>1, <1>2, <1>3 DEF ClaimInv, StandsCurrent, Late, IsCurrent, CurrentPcs, TInv, TypeOK,
         TaskWhole
<1>8. FreshJoins'
  BY <1>1, <1>2, <1>3 DEF ClaimInv, FreshJoins, HeldPcs, TInv, TypeOK, TaskWhole
<1>. QED  BY <1>4, <1>5, <1>6, <1>7, <1>8 DEF ClaimInv

LEMMA OpenSessionClaims ==
    ASSUME TInv, ClaimInv, ~Preempt, NEW a \in Attempts, OpenSession(a)
    PROVE  ClaimInv'
<1>1. /\ pc[a] = "open" /\ pc'[a] = "seq" /\ \A b \in Attempts : b # a => pc'[b] = pc[b]
      /\ cpu' = a /\ cpu \in {None, a}
      /\ jn' = jn /\ cont' = cont /\ seq' = seq /\ minted' = minted
  BY DEF OpenSession, Goto, Hold, Run, claimVars, TInv, TypeOK, TaskTyped
<1>2. /\ jn[a] \in Joins /\ DeviceOf[a] # None
      /\ sess'[jn[a]].open /\ sess'[jn[a]].token = DeviceOf[a]
      /\ sess'[jn[a]].seq = sess[jn[a]].seq
      /\ \A j \in Joins : j # jn[a] => sess'[j] = sess[j]
  BY OpenSessionRow, LifecycleAssumption DEF RowIs
<1>3. \A b \in Attempts : b # a => pc[b] \notin HeldPcs
  BY <1>1, LifecycleAssumption DEF ClaimInv, HeldBySync, HeldPcs
<1>4. HeldBySync'
  BY <1>1, <1>3 DEF HeldBySync
<1>5. Numbered'
  BY <1>1, <1>2 DEF ClaimInv, Numbered, Late, TInv, TypeOK, TaskWhole
<1>6. RowsOpen'
  BY <1>1, <1>2, <1>3 DEF ClaimInv, RowsOpen, HeldPcs, TInv, TypeOK, TaskWhole
<1>7. StandsCurrent'
  BY <1>1, <1>2, <1>3 DEF ClaimInv, StandsCurrent, RowsOpen, Late, IsCurrent, HeldPcs,
         CurrentPcs, TInv, TypeOK, TaskWhole
<1>8. FreshJoins'
  BY <1>1, <1>2, <1>3 DEF ClaimInv, FreshJoins, HeldPcs, TInv, TypeOK, TaskWhole
<1>. QED  BY <1>4, <1>5, <1>6, <1>7, <1>8 DEF ClaimInv

\* The number an attempt draws is above those of every older attempt of its join.
LEMMA NextSeqClaims ==
    ASSUME TInv, ClaimInv, ~Preempt, NEW a \in Attempts, NextSeq(a)
    PROVE  ClaimInv'
<1>1. /\ pc[a] = "seq" /\ pc'[a] = IF cont[a] THEN "stopPrev" ELSE "existing"
      /\ \A b \in Attempts : b # a => pc'[b] = pc[b] /\ seq'[b] = seq[b]
      /\ seq'[a] = sess[jn[a]].seq + 1
      /\ cpu' = a /\ cpu \in {None, a}
      /\ jn' = jn /\ cont' = cont /\ minted' = minted
  BY DEF NextSeq, Goto, Hold, Run, TInv, TypeOK, TaskTyped
<1>2. /\ jn[a] \in Joins /\ sess[jn[a]].seq \in Nat /\ seq \in [Attempts -> Nat]
      /\ sess'[jn[a]].open /\ sess'[jn[a]].token = sess[jn[a]].token
      /\ sess'[jn[a]].seq = sess[jn[a]].seq + 1
      /\ \A j \in Joins : j # jn[a] => sess'[j] = sess[j]
  BY NextSeqRow DEF RowIs, TInv, TypeOK, TaskTyped, SessTyped, Entry
<1>3. \A b \in Attempts : b # a => pc[b] \notin HeldPcs
  BY <1>1, LifecycleAssumption DEF ClaimInv, HeldBySync, HeldPcs
<1>4. \A b \in Attempts : b # a /\ jn[b] = jn[a] =>
          Late(b) /\ sess[jn[a]].seq # 0 /\ seq[b] <= sess[jn[a]].seq
  <2>. SUFFICES ASSUME NEW b \in Attempts, b # a, jn[b] = jn[a]
                PROVE  Late(b) /\ sess[jn[a]].seq # 0 /\ seq[b] <= sess[jn[a]].seq
    OBVIOUS
  <2>1. pc[b] # "idle"
    BY <1>2, LifecycleAssumption DEF ClaimInv, Numbered
  <2>2. Late(b)
    BY <1>3, <2>1 DEF Late, HeldPcs
  <2>3. sess[jn[a]].seq # 0
    BY <1>1 DEF ClaimInv, FreshJoins
  <2>. QED  BY <2>2, <2>3 DEF ClaimInv, Numbered
<1>5. HeldBySync'
  BY <1>1, <1>3 DEF HeldBySync, HeldPcs
<1>6. Numbered'
  <2>1. (\A b \in Attempts : pc[b] = "idle" => jn[b] = None)'
    BY <1>1 DEF ClaimInv, Numbered
  <2>2. (\A b \in Attempts : Late(b) =>
            seq[b] # 0 /\ (sess[jn[b]].seq # 0 => seq[b] <= sess[jn[b]].seq))'
    BY <1>1, <1>2, <1>4 DEF ClaimInv, Numbered, Late, TInv, TypeOK, TaskWhole
  <2>3. (\A b, c \in Attempts :
            Late(b) /\ Late(c) /\ jn[b] = jn[c] /\ seq[b] = seq[c] => b = c)'
    BY <1>1, <1>2, <1>4 DEF ClaimInv, Numbered, Late
  <2>. QED  BY <2>1, <2>2, <2>3 DEF Numbered
<1>7. RowsOpen'
  BY <1>1, <1>2, <1>3 DEF ClaimInv, RowsOpen, HeldPcs, TInv, TypeOK, TaskWhole
<1>8. StandsCurrent'
  BY <1>1, <1>2, <1>3, <1>4 DEF ClaimInv, StandsCurrent, Late, IsCurrent, HeldPcs, CurrentPcs,
         TInv, TypeOK, TaskWhole
<1>9. FreshJoins'
  BY <1>1, <1>2, <1>3, LifecycleAssumption DEF ClaimInv, FreshJoins, Numbered, HeldPcs, TInv,
         TypeOK, TaskWhole
<1>. QED  BY <1>5, <1>6, <1>7, <1>8, <1>9 DEF ClaimInv

LEMMA RemoveSessionClaims ==
    ASSUME TInv, ClaimInv, ~Preempt, NEW a \in Attempts, RemoveSession(a)
    PROVE  ClaimInv'
<1>1. /\ pc[a] = "remove" /\ pc'[a] \in {"done", "removeDisplay"}
      /\ \A b \in Attempts : b # a => pc'[b] = pc[b]
      /\ cpu' = None /\ cpu \in {None, a}
      /\ jn' = jn /\ cont' = cont /\ seq' = seq /\ minted' = minted
  BY DEF RemoveSession, GoOrEnd, Goto, Yield, Run, claimVars, TInv, TypeOK, TaskTyped
<1>2. /\ jn[a] \in Joins /\ sess'[jn[a]].token = None /\ sess'[jn[a]].seq = 0
      /\ \A j \in Joins : j # jn[a] => sess'[j] = sess[j]
  BY RemoveSessionRow DEF RowIs
<1>3. \A b \in Attempts : b # a => pc[b] \notin HeldPcs
  BY <1>1, LifecycleAssumption DEF ClaimInv, HeldBySync, HeldPcs
<1>4. HeldBySync'
  BY <1>1, <1>3 DEF HeldBySync, HeldPcs
<1>5. Numbered'
  BY <1>1, <1>2 DEF ClaimInv, Numbered, Late, TInv, TypeOK, TaskWhole
<1>6. RowsOpen'
  BY <1>1, <1>2, <1>3 DEF ClaimInv, RowsOpen, HeldPcs, TInv, TypeOK, TaskWhole
<1>7. StandsCurrent'
  BY <1>1, <1>2, <1>3 DEF ClaimInv, StandsCurrent, Numbered, Late, IsCurrent, HeldPcs,
         CurrentPcs, TInv, TypeOK, TaskWhole
<1>8. FreshJoins'
  BY <1>1, <1>2, <1>3 DEF ClaimInv, FreshJoins, HeldPcs, TInv, TypeOK, TaskWhole
<1>. QED  BY <1>4, <1>5, <1>6, <1>7, <1>8 DEF ClaimInv

LEMMA NextClaims ==
    ASSUME TInv, ClaimInv, ~Preempt, [Next]_vars
    PROVE  ClaimInv'
<1>1. ASSUME NEW a \in Attempts, Task(a), ~Handshake(a) PROVE ClaimInv'
  <2>1. CASE pc[a] \in {"open", "seq", "remove"}
    <3>1. OpenSession(a) \/ NextSeq(a) \/ RemoveSession(a)
      BY <1>1, <2>1 DEF Task, Build, Unwind, StopPrevious, ReadExisting, ReuseUntouched,
             ReuseChange, NeedDisplay, CreateDisplay, Attach, AttachFailed, ModeApplied,
             ModeRefused, ReadBack, Record, CheckBeforeCapture, StartCapture, ReadScale,
             WriteScale, HalfFailed, BothReady, StandDown, Activated, ActivateFailed,
             ArmSession, Answer, Abandon, GraceOver, TakeDisplay, RemoveDisplay, Listen, Ended,
             CloseTransport, StopOwn
    <3>. QED  BY <3>1, OpenSessionClaims, NextSeqClaims, RemoveSessionClaims
  <2>2. CASE pc[a] \notin {"open", "seq", "remove"}
    BY <1>1, <2>2, TaskMoves, ClaimsKeptInv
  <2>. QED  BY <2>1, <2>2
<1>2. CASE \/ \E a \in Attempts : Handshake(a) \/ MarkConnected(a) \/ PeerClosed(a)
           \/ \E j \in Joins : Host(j)
           \/ ScaleApply \/ ScaleRecord \/ Restore
  BY <1>2, OutsideKeepsClaims, ClaimsKeptInv
<1>3. CASE UNCHANGED vars
  <2>1. ClaimsKept /\ pc' = pc /\ cpu' = cpu
    BY <1>3 DEF vars, ClaimsKept
  <2>. QED  BY <2>1, ClaimsKeptInv
<1>4. CASE \E a \in Attempts : Offer(a)
  BY <1>4, OfferClaims
<1>. QED  BY <1>1, <1>2, <1>3, <1>4 DEF Next, Finished

LEMMA InitClaims == Init => ClaimInv
  BY LifecycleAssumption DEF Init, ClaimInv, HeldBySync, HeldPcs, Numbered, RowsOpen,
       StandsCurrent, CurrentPcs,
         FreshJoins, Late, NoEntry, IsCurrent

-----------------------------------------------------------------------------
(* A task works on one join: what it leaves alone of all the others.                       *)

WorksOn(a) ==
    /\ jn' = jn /\ minted' = minted /\ cont' = cont
    /\ \A b \in Attempts : b # a =>
          /\ pc'[b] = pc[b] /\ had'[b] = had[b] /\ got'[b] = got[b] /\ snap'[b] = snap[b]
          /\ taken'[b] = taken[b] /\ seq'[b] = seq[b] /\ (b \in answered' <=> b \in answered)
          /\ b \in running' => b \in running
          /\ b \in running /\ jn[b] # jn[a] => b \in running'
    /\ \A j \in Joins : j # jn[a] => sess'[j] = sess[j] /\ (j \in rows' <=> j \in rows)
    /\ scaler' = scaler
    /\ \A d \in attached : d \notin attached' => madeFor[d] = jn[a]

\* The capture a session has registered is one of its own attempts'.
CapsOwned == \A j \in Joins : sess[j].cap # None => jn[sess[j].cap] = j

\* A task on its way to remove a display has one to remove.
DoomedHeld == \A a \in Attempts : pc[a] = "removeDisplay" => Doomed(a) # None

LEMMA TaskWorksOn ==
    ASSUME TInv, OwnDisplays, CapsOwned, DoomedHeld, NEW a \in Attempts, Task(a)
    PROVE  WorksOn(a)
<1>1. /\ pc \in [Attempts -> PcLabels] /\ had \in [Attempts -> LiveDisplay \cup {None}]
      /\ got \in [Attempts -> LiveDisplay \cup {None}]
      /\ snap \in [Attempts -> LiveDisplay \cup {None}] /\ seq \in [Attempts -> Nat]
      /\ taken \in [Attempts -> LiveDisplay \cup {None}]
      /\ attached \subseteq Displays /\ rows \subseteq Joins
  BY DEF TInv, TypeOK, TaskTyped, HostTyped
<1>2. pc[a] # "idle" => jn[a] \in Joins
  BY DEF TInv, TypeOK, TaskWhole
<1>3. /\ got[a] # None => madeFor[got[a].id] = jn[a]
      /\ taken[a] # None => madeFor[taken[a].id] = jn[a]
  BY DEF OwnDisplays, OwnedBy
<1>4. jn[a] \in Joins /\ sess[jn[a]].cap # None => jn[sess[jn[a]].cap] = jn[a]
  BY DEF CapsOwned
<1>5. CASE ReuseUntouched(a)
  BY <1>1, <1>2, <1>5 DEF ReuseUntouched, WorksOn, Goto, claimVars, osVars
<1>6. CASE ReuseChange(a)
  BY <1>1, <1>2, <1>6 DEF ReuseChange, WorksOn, Goto, claimVars, osVars
<1>7. CASE NeedDisplay(a)
  BY <1>1, <1>2, <1>7 DEF NeedDisplay, WorksOn, Goto, claimVars, osVars, buildVars
<1>8. CASE CreateDisplay(a)
  BY <1>1, <1>2, <1>8 DEF CreateDisplay, WorksOn, Goto, claimVars, osVars
<1>9. CASE Attach(a)
  BY <1>1, <1>2, <1>9 DEF Attach, WorksOn, Goto, claimVars, osVars
<1>10. CASE AttachFailed(a)
  <2>1. got[a] # None
    BY <1>10 DEF AttachFailed, TInv, TypeOK, TaskWhole, GotPcs
  <2>. QED
    BY <1>1, <1>2, <1>3, <1>10, <2>1 DEF AttachFailed, WorksOn, Goto, claimVars
<1>11. CASE ModeApplied(a)
  BY <1>1, <1>2, <1>11 DEF ModeApplied, WorksOn, Goto, claimVars, osVars
<1>12. CASE ModeRefused(a)
  BY <1>1, <1>2, <1>12 DEF ModeRefused, WorksOn, Goto, claimVars, osVars
<1>13. CASE ReadBack(a)
  BY <1>1, <1>2, <1>13 DEF ReadBack, WorksOn, Goto, claimVars, osVars
<1>14. CASE CheckBeforeCapture(a)
  BY <1>1, <1>2, <1>14 DEF CheckBeforeCapture, WorksOn, Goto, claimVars, osVars, buildVars
<1>15. CASE StartCapture(a)
  BY <1>1, <1>2, <1>15 DEF StartCapture, WorksOn, Goto, claimVars, osVars, buildVars
<1>16. CASE ReadScale(a)
  BY <1>1, <1>2, <1>16 DEF ReadScale, WorksOn, Goto, claimVars, osVars
<1>17. CASE HalfFailed(a)
  BY <1>1, <1>2, <1>17 DEF HalfFailed, WorksOn, Goto, claimVars, osVars, buildVars
<1>18. CASE BothReady(a)
  BY <1>1, <1>2, <1>18 DEF BothReady, WorksOn, Goto, claimVars, osVars, buildVars
<1>19. CASE StandDown(a)
  BY <1>1, <1>2, <1>19 DEF StandDown, WorksOn, Goto, claimVars, osVars, GoOrEnd, locals
<1>20. CASE Activated(a)
  BY <1>1, <1>2, <1>20 DEF Activated, WorksOn, Goto, claimVars, osVars, buildVars
<1>21. CASE ActivateFailed(a)
  BY <1>1, <1>2, <1>21 DEF ActivateFailed, WorksOn, Goto, claimVars, osVars, buildVars
<1>22. CASE Abandon(a)
  BY <1>1, <1>2, <1>22 DEF Abandon, WorksOn, Goto, claimVars, osVars, GoOrEnd, locals
<1>23. CASE GraceOver(a)
  BY <1>1, <1>2, <1>23 DEF GraceOver, WorksOn, Goto, claimVars, osVars, GoOrEnd, locals
<1>24. CASE RemoveDisplay(a)
  <2>1. \A d \in attached : d \notin attached' => madeFor[d] = jn[a]
    <3>1. Doomed(a) # None => madeFor[Doomed(a).id] = jn[a]
      BY <1>3 DEF Doomed
    <3>2. Doomed(a) # None
      BY <1>24 DEF RemoveDisplay, DoomedHeld
    <3>. QED  BY <1>24, <3>1, <3>2 DEF RemoveDisplay
  <2>. QED
    BY <1>1, <1>2, <1>24, <2>1 DEF RemoveDisplay, WorksOn, Goto, GoOrEnd, locals, claimVars,
         LeaveDashboard
<1>25. CASE Listen(a)
  BY <1>1, <1>2, <1>25 DEF Listen, WorksOn, Goto, claimVars, osVars, buildVars
<1>26. CASE Ended(a)
  BY <1>1, <1>2, <1>26 DEF Ended, WorksOn, Goto, claimVars, osVars, buildVars
<1>27. CASE CloseTransport(a)
  BY <1>1, <1>2, <1>27 DEF CloseTransport, WorksOn, Goto, claimVars, osVars, buildVars
<1>28. CASE Handshake(a)
  BY <1>1, <1>2, <1>28 DEF Handshake, WorksOn, Goto, claimVars, osVars, buildVars
<1>29. CASE OpenSession(a)
  <2>1. \A j \in Joins : j # jn[a] => sess'[j] = sess[j]
    BY <1>29, OpenSessionRow DEF RowIs
  <2>. QED
    BY LifecycleAssumption, <1>1, <1>2, <1>4, <1>29, <2>1
       DEF OpenSession, WorksOn, Goto, claimVars, osVars, buildVars
<1>30. CASE NextSeq(a)
  <2>1. \A j \in Joins : j # jn[a] => sess'[j] = sess[j]
    BY <1>30, NextSeqRow DEF RowIs
  <2>. QED
    BY LifecycleAssumption, <1>1, <1>2, <1>4, <1>30, <2>1
       DEF NextSeq, WorksOn, Goto, claimVars, osVars, buildVars
<1>31. CASE StopPrevious(a)
  <2>1. \A j \in Joins : j # jn[a] => sess'[j] = sess[j]
    BY <1>31, StopPreviousRow DEF RowIs
  <2>. QED
    BY LifecycleAssumption, <1>1, <1>2, <1>4, <1>31, <2>1
       DEF StopPrevious, WorksOn, Goto, claimVars, osVars, buildVars
<1>32. CASE ReadExisting(a)
  <2>1. \A j \in Joins : j # jn[a] => sess'[j] = sess[j]
    BY <1>32, ReadExistingRow DEF RowIs
  <2>. QED
    BY LifecycleAssumption, <1>1, <1>2, <1>4, <1>32, <2>1
       DEF ReadExisting, WorksOn, Goto, claimVars, osVars
<1>33. CASE Record(a)
  <2>1. \A j \in Joins : j # jn[a] => sess'[j] = sess[j]
    BY <1>33, RecordRow DEF RowIs
  <2>. QED
    BY LifecycleAssumption, <1>1, <1>2, <1>4, <1>33, <2>1
       DEF Record, WorksOn, Goto, claimVars, osVars, buildVars
<1>34. CASE WriteScale(a)
  <2>1. \A j \in Joins : j # jn[a] => sess'[j] = sess[j]
    BY <1>34, WriteScaleRow DEF RowIs
  <2>. QED
    BY LifecycleAssumption, <1>1, <1>2, <1>4, <1>34, <2>1
       DEF WriteScale, WorksOn, Goto, claimVars, osVars
<1>35. CASE ArmSession(a)
  <2>1. \A j \in Joins : j # jn[a] => sess'[j] = sess[j]
    BY <1>35, ArmSessionRow DEF RowIs
  <2>. QED
    BY LifecycleAssumption, <1>1, <1>2, <1>4, <1>35, <2>1
       DEF ArmSession, WorksOn, Goto, claimVars, osVars, buildVars
<1>36. CASE Answer(a)
  <2>1. \A j \in Joins : j # jn[a] => sess'[j] = sess[j]
    BY <1>36, AnswerRow DEF RowIs
  <2>. QED
    BY LifecycleAssumption, <1>1, <1>2, <1>4, <1>36, <2>1
       DEF Answer, WorksOn, Goto, claimVars, osVars, buildVars
<1>37. CASE TakeDisplay(a)
  <2>1. \A j \in Joins : j # jn[a] => sess'[j] = sess[j]
    BY <1>37, TakeDisplayRow DEF RowIs
  <2>. QED
    BY LifecycleAssumption, <1>1, <1>2, <1>4, <1>37, <2>1
       DEF TakeDisplay, WorksOn, Goto, claimVars, osVars, buildVars
<1>38. CASE StopOwn(a)
  <2>1. \A j \in Joins : j # jn[a] => sess'[j] = sess[j]
    BY <1>38, StopOwnRow DEF RowIs
  <2>. QED
    BY LifecycleAssumption, <1>1, <1>2, <1>4, <1>38, <2>1
       DEF StopOwn, WorksOn, Goto, claimVars, osVars, buildVars
<1>39. CASE RemoveSession(a)
  <2>1. \A j \in Joins : j # jn[a] => sess'[j] = sess[j]
    BY <1>39, RemoveSessionRow DEF RowIs
  <2>. QED
    BY LifecycleAssumption, <1>1, <1>2, <1>4, <1>39, <2>1
       DEF RemoveSession, WorksOn, Goto, claimVars, osVars, GoOrEnd, locals, LeaveDashboard
<1>. QED
  BY <1>5, <1>6, <1>7, <1>8, <1>9, <1>10, <1>11, <1>12, <1>13, <1>14, <1>15, <1>16, <1>17, <1>18,
       <1>19, <1>20, <1>21, <1>22, <1>23, <1>24, <1>25, <1>26, <1>27, <1>28, <1>29, <1>30, <1>31,
       <1>32, <1>33, <1>34, <1>35, <1>36, <1>37, <1>38, <1>39 DEF Task, Build, Unwind

-----------------------------------------------------------------------------
(* The display of a join, as its row records it and its attempts know it.                  *)

\* Nobody but the offer that minted the join, if it is minted, has come near it.
Fresh(j) ==
    \/ j \notin minted
    \/ \E b \in Attempts : jn[b] = j /\ pc[b] \in {"open", "seq"} /\ ~cont[b]

FreshRow(j) == Fresh(j) => /\ sess[j].live = None /\ sess[j].cap = None
                           /\ j \notin rows /\ scaler.join # j

\* It has a session that is not about to go.
Alive(j) == sess[j].seq # 0 /\ \A b \in Attempts : jn[b] = j => pc[b] # "remove"

\* What an attempt of a join with a display knows of it: that display, if any.
KnowsDisplay(b, d) ==
    /\ had[b] # None => had[b].id = d
    /\ got[b] # None => got[b].id = d
    /\ pc[b] \notin {"lock", "attach"}
    /\ pc[b] = "display" => had[b] # None
    /\ pc[b] \in {"open", "seq", "stopPrev", "existing"} => cont[b]

\* A recorded display is up, and it is the only one the join's attempts know of.
ShownRow(j) ==
    Alive(j) /\ sess[j].live # None =>
        /\ sess[j].live.id \in attached
        /\ \A b \in Attempts : jn[b] = j => KnowsDisplay(b, sess[j].live.id)
        /\ scaler.join = j => scaler.live.id = sess[j].live.id

AlonePcs == {"existing", "display", "lock", "attach", "setMode", "readBack", "record",
             "join", "abandon", "forget"}

\* How far the first attempt of a join is that has recorded no display.
BuildsFirst(b) ==
    /\ pc[b] \in AlonePcs /\ had[b] = None /\ ~cont[b]
    /\ b \notin answered /\ b \notin running
    /\ pc[b] \in {"attach", "setMode", "readBack", "record"} => got[b].id \in attached

\* Until a display is recorded, one attempt has the join to itself.
AloneRow(j) ==
    Alive(j) /\ sess[j].live = None =>
        /\ j \notin rows /\ scaler.join # j
        /\ \A b, c \in Attempts : jn[b] = j /\ jn[c] = j => b = c
        /\ \A b \in Attempts : jn[b] = j => BuildsFirst(b)

\* What a task relies on its own variables for: a new one knows no display, the row a scale
\* is written into is the one it was read from, a display to be removed is at hand.
LocalsTrue(j) ==
    \A b \in Attempts : jn[b] = j =>
        /\ pc[b] \in {"open", "seq"} => had[b] = None /\ b \notin answered
        /\ pc[b] = "writeScale" => snap[b] = sess[j].live /\ snap[b] # None
        /\ pc[b] = "removeDisplay" => Doomed(b) # None

DisplayInv(j) == FreshRow(j) /\ ShownRow(j) /\ AloneRow(j) /\ LocalsTrue(j)

\* A task leaves the displays of the other joins as they are.
LEMMA OtherDisplays ==
    ASSUME TInv, OwnDisplays, NEW a \in Attempts, WorksOn(a), NEW j \in Joins, j # jn[a],
           DisplayInv(j)
    PROVE  DisplayInv(j)'
<1>1. /\ sess'[j] = sess[j] /\ minted' = minted /\ cont' = cont /\ jn' = jn /\ scaler' = scaler
      /\ j \in rows' <=> j \in rows
      /\ \A b \in Attempts : jn[b] = j =>
            /\ pc'[b] = pc[b] /\ had'[b] = had[b] /\ got'[b] = got[b] /\ snap'[b] = snap[b]
            /\ b \in answered' <=> b \in answered
            /\ b \in running' => b \in running
            /\ taken'[b] = taken[b]
      /\ \A d \in attached : madeFor[d] = j => d \in attached'
  BY DEF WorksOn, TInv, TypeOK, TaskTyped
<1>2. FreshRow(j)'
  BY <1>1 DEF DisplayInv, FreshRow, Fresh
<1>3. ShownRow(j)'
  BY <1>1 DEF DisplayInv, ShownRow, Alive, KnowsDisplay, OwnDisplays, OwnedBy
<1>4. AloneRow(j)'
  <2>1. \A b \in Attempts : got[b] # None /\ jn[b] = j => madeFor[got[b].id] = j
    BY DEF OwnDisplays, OwnedBy
  <2>2. \A b \in Attempts : pc[b] \in {"attach", "setMode", "readBack", "record"} => got[b] # None
    BY DEF TInv, TypeOK, TaskWhole, GotPcs
  <2>. QED
    BY <1>1, <2>1, <2>2 DEF DisplayInv, AloneRow, Alive, BuildsFirst
<1>5. LocalsTrue(j)'
  BY <1>1 DEF DisplayInv, LocalsTrue, Doomed
<1>. QED  BY <1>2, <1>3, <1>4, <1>5 DEF DisplayInv

\* Where the others of a join are while one of its attempts takes a step.
LEMMA OthersYield ==
    ASSUME TInv, ClaimInv, NEW a \in Attempts, Run(a), pc[a] # "idle"
    PROVE  /\ \A b \in Attempts : b # a => pc[b] \notin HeldPcs
           /\ jn[a] \in Joins
           /\ \A b \in Attempts : jn[b] \in Joins => pc[b] # "idle"
           /\ pc[a] \notin {"open", "seq"} => ~Fresh(jn[a])
<1>1. \A b \in Attempts : b # a => pc[b] \notin HeldPcs
  BY LifecycleAssumption DEF ClaimInv, HeldBySync, Run
<1>2. jn[a] \in Joins
  BY DEF TInv, TypeOK, TaskWhole
<1>3. \A b \in Attempts : jn[b] \in Joins => pc[b] # "idle"
  BY LifecycleAssumption DEF ClaimInv, Numbered
<1>4. pc[a] \notin {"open", "seq"} => ~Fresh(jn[a])
  BY <1>1, <1>2 DEF Fresh, HeldPcs, ClaimInv, FreshJoins
<1>. QED  BY <1>1, <1>2, <1>3, <1>4

LEMMA ReuseUntouchedDisplay ==
    ASSUME TInv, OwnDisplays, ClaimInv, ~Preempt, NEW a \in Attempts, ReuseUntouched(a), WorksOn(a),
           NEW j \in Joins, j = jn[a], DisplayInv(j)
    PROVE  DisplayInv(j)'
<1>1. /\ \A b \in Attempts : b # a => pc[b] \notin HeldPcs
      /\ pc[a] \notin {"open", "seq"} => ~Fresh(j)
      /\ pc[a] # "idle" /\ \A b \in Attempts : jn[b] = j => pc[b] # "idle"
  BY OthersYield DEF ReuseUntouched
<1>2. FreshRow(j)'
  BY <1>1 DEF ReuseUntouched, Goto, claimVars, osVars, FreshRow, Fresh, WorksOn, DisplayInv,
         TInv, TypeOK, TaskTyped
<1>3. ShownRow(j)'
  BY <1>1 DEF ReuseUntouched, Goto, claimVars, osVars, ShownRow, AloneRow, Alive, KnowsDisplay,
         BuildsFirst, WorksOn, DisplayInv, TInv, TypeOK, TaskTyped, TaskWhole, HeldPcs,
         AlonePcs, GotPcs
<1>4. AloneRow(j)'
  BY <1>1 DEF ReuseUntouched, Goto, claimVars, osVars, AloneRow, Alive, BuildsFirst, WorksOn,
         DisplayInv, TInv, TypeOK, TaskTyped, TaskWhole, Underway, EarlyPcs, HeldPcs, AlonePcs,
         GotPcs
<1>5. LocalsTrue(j)'
  BY <1>1 DEF ReuseUntouched, Goto, claimVars, osVars, LocalsTrue, Doomed, WorksOn, DisplayInv,
         TInv, TypeOK, TaskTyped, HeldPcs
<1>. QED  BY <1>2, <1>3, <1>4, <1>5 DEF DisplayInv

LEMMA ReuseChangeDisplay ==
    ASSUME TInv, OwnDisplays, ClaimInv, ~Preempt, NEW a \in Attempts, ReuseChange(a), WorksOn(a),
           NEW j \in Joins, j = jn[a], DisplayInv(j)
    PROVE  DisplayInv(j)'
<1>1. /\ \A b \in Attempts : b # a => pc[b] \notin HeldPcs
      /\ pc[a] \notin {"open", "seq"} => ~Fresh(j)
      /\ pc[a] # "idle" /\ \A b \in Attempts : jn[b] = j => pc[b] # "idle"
  BY OthersYield DEF ReuseChange
<1>2. FreshRow(j)'
  BY <1>1 DEF ReuseChange, Goto, claimVars, osVars, FreshRow, Fresh, WorksOn, DisplayInv, TInv,
         TypeOK, TaskTyped
<1>3. ShownRow(j)'
  BY <1>1 DEF ReuseChange, Goto, claimVars, osVars, ShownRow, AloneRow, Alive, KnowsDisplay,
         BuildsFirst, WorksOn, DisplayInv, TInv, TypeOK, TaskTyped, TaskWhole, HeldPcs,
         AlonePcs, GotPcs
<1>4. AloneRow(j)'
  BY <1>1 DEF ReuseChange, Goto, claimVars, osVars, AloneRow, Alive, BuildsFirst, WorksOn,
         DisplayInv, TInv, TypeOK, TaskTyped, TaskWhole, Underway, EarlyPcs, HeldPcs, AlonePcs,
         GotPcs
<1>5. LocalsTrue(j)'
  BY <1>1 DEF ReuseChange, Goto, claimVars, osVars, LocalsTrue, Doomed, WorksOn, DisplayInv,
         TInv, TypeOK, TaskTyped, HeldPcs
<1>. QED  BY <1>2, <1>3, <1>4, <1>5 DEF DisplayInv

LEMMA NeedDisplayDisplay ==
    ASSUME TInv, OwnDisplays, ClaimInv, ~Preempt, NEW a \in Attempts, NeedDisplay(a), WorksOn(a),
           NEW j \in Joins, j = jn[a], DisplayInv(j)
    PROVE  DisplayInv(j)'
<1>1. /\ \A b \in Attempts : b # a => pc[b] \notin HeldPcs
      /\ pc[a] \notin {"open", "seq"} => ~Fresh(j)
      /\ pc[a] # "idle" /\ \A b \in Attempts : jn[b] = j => pc[b] # "idle"
  BY OthersYield DEF NeedDisplay
<1>2. FreshRow(j)'
  BY <1>1 DEF NeedDisplay, Goto, claimVars, osVars, buildVars, FreshRow, Fresh, WorksOn,
         DisplayInv, TInv, TypeOK, TaskTyped
<1>3. ShownRow(j)'
  BY <1>1 DEF NeedDisplay, Goto, claimVars, osVars, buildVars, ShownRow, AloneRow, Alive,
         KnowsDisplay, BuildsFirst, WorksOn, DisplayInv, TInv, TypeOK, TaskTyped, TaskWhole,
         HeldPcs, AlonePcs, GotPcs
<1>4. AloneRow(j)'
  BY <1>1 DEF NeedDisplay, Goto, claimVars, osVars, buildVars, AloneRow, Alive, BuildsFirst,
         WorksOn, DisplayInv, TInv, TypeOK, TaskTyped, TaskWhole, Underway, EarlyPcs, HeldPcs,
         AlonePcs, GotPcs
<1>5. LocalsTrue(j)'
  BY <1>1 DEF NeedDisplay, Goto, claimVars, osVars, buildVars, LocalsTrue, Doomed, WorksOn,
         DisplayInv, TInv, TypeOK, TaskTyped, HeldPcs
<1>. QED  BY <1>2, <1>3, <1>4, <1>5 DEF DisplayInv

LEMMA CreateDisplayDisplay ==
    ASSUME TInv, OwnDisplays, ClaimInv, ~Preempt, NEW a \in Attempts, CreateDisplay(a), WorksOn(a),
           NEW j \in Joins, j = jn[a], DisplayInv(j)
    PROVE  DisplayInv(j)'
<1>1. /\ \A b \in Attempts : b # a => pc[b] \notin HeldPcs
      /\ pc[a] \notin {"open", "seq"} => ~Fresh(j)
      /\ pc[a] # "idle" /\ \A b \in Attempts : jn[b] = j => pc[b] # "idle"
  BY OthersYield DEF CreateDisplay
<1>2. FreshRow(j)'
  BY <1>1 DEF CreateDisplay, Goto, claimVars, osVars, FreshRow, Fresh, WorksOn, DisplayInv,
         TInv, TypeOK, TaskTyped
<1>3. ShownRow(j)'
  BY <1>1 DEF CreateDisplay, Goto, claimVars, osVars, ShownRow, AloneRow, Alive, KnowsDisplay,
         BuildsFirst, WorksOn, DisplayInv, TInv, TypeOK, TaskTyped, TaskWhole, HeldPcs,
         AlonePcs, GotPcs
<1>4. AloneRow(j)'
  BY <1>1 DEF CreateDisplay, Goto, claimVars, osVars, AloneRow, Alive, BuildsFirst, WorksOn,
         DisplayInv, TInv, TypeOK, TaskTyped, TaskWhole, Underway, EarlyPcs, HeldPcs, AlonePcs,
         GotPcs
<1>5. LocalsTrue(j)'
  BY <1>1 DEF CreateDisplay, Goto, claimVars, osVars, LocalsTrue, Doomed, WorksOn, DisplayInv,
         TInv, TypeOK, TaskTyped, HeldPcs
<1>. QED  BY <1>2, <1>3, <1>4, <1>5 DEF DisplayInv

LEMMA AttachDisplay ==
    ASSUME TInv, OwnDisplays, ClaimInv, ~Preempt, NEW a \in Attempts, Attach(a), WorksOn(a),
           NEW j \in Joins, j = jn[a], DisplayInv(j)
    PROVE  DisplayInv(j)'
<1>1. /\ \A b \in Attempts : b # a => pc[b] \notin HeldPcs
      /\ pc[a] \notin {"open", "seq"} => ~Fresh(j)
      /\ pc[a] # "idle" /\ \A b \in Attempts : jn[b] = j => pc[b] # "idle"
  BY OthersYield DEF Attach
<1>2. FreshRow(j)'
  BY <1>1 DEF Attach, Goto, claimVars, osVars, FreshRow, Fresh, WorksOn, DisplayInv, TInv,
         TypeOK, TaskTyped
<1>3. ShownRow(j)'
  BY <1>1 DEF Attach, Goto, claimVars, osVars, ShownRow, AloneRow, Alive, KnowsDisplay,
         BuildsFirst, WorksOn, DisplayInv, TInv, TypeOK, TaskTyped, TaskWhole, HeldPcs,
         AlonePcs, GotPcs
<1>4. AloneRow(j)'
  BY <1>1 DEF Attach, Goto, claimVars, osVars, AloneRow, Alive, BuildsFirst, WorksOn,
         DisplayInv, TInv, TypeOK, TaskTyped, TaskWhole, Underway, EarlyPcs, HeldPcs, AlonePcs,
         GotPcs
<1>5. LocalsTrue(j)'
  BY <1>1 DEF Attach, Goto, claimVars, osVars, LocalsTrue, Doomed, WorksOn, DisplayInv, TInv,
         TypeOK, TaskTyped, HeldPcs
<1>. QED  BY <1>2, <1>3, <1>4, <1>5 DEF DisplayInv

LEMMA AttachFailedDisplay ==
    ASSUME TInv, OwnDisplays, ClaimInv, ~Preempt, NEW a \in Attempts, AttachFailed(a), WorksOn(a),
           NEW j \in Joins, j = jn[a], DisplayInv(j)
    PROVE  DisplayInv(j)'
<1>1. /\ \A b \in Attempts : b # a => pc[b] \notin HeldPcs
      /\ pc[a] \notin {"open", "seq"} => ~Fresh(j)
      /\ pc[a] # "idle" /\ \A b \in Attempts : jn[b] = j => pc[b] # "idle"
  BY OthersYield DEF AttachFailed
<1>2. FreshRow(j)'
  BY <1>1 DEF AttachFailed, Goto, claimVars, osVars, FreshRow, Fresh, WorksOn, DisplayInv,
         TInv, TypeOK, TaskTyped
<1>3. ShownRow(j)'
  BY <1>1 DEF AttachFailed, Goto, claimVars, osVars, ShownRow, AloneRow, Alive, KnowsDisplay,
         BuildsFirst, WorksOn, DisplayInv, TInv, TypeOK, TaskTyped, TaskWhole, HeldPcs,
         AlonePcs, GotPcs
<1>4. AloneRow(j)'
  BY <1>1 DEF AttachFailed, Goto, claimVars, osVars, AloneRow, Alive, BuildsFirst, WorksOn,
         DisplayInv, TInv, TypeOK, TaskTyped, TaskWhole, Underway, EarlyPcs, HeldPcs, AlonePcs,
         GotPcs
<1>5. LocalsTrue(j)'
  BY <1>1 DEF AttachFailed, Goto, claimVars, osVars, LocalsTrue, Doomed, WorksOn, DisplayInv,
         TInv, TypeOK, TaskTyped, HeldPcs
<1>. QED  BY <1>2, <1>3, <1>4, <1>5 DEF DisplayInv

LEMMA ModeAppliedDisplay ==
    ASSUME TInv, OwnDisplays, ClaimInv, ~Preempt, NEW a \in Attempts, ModeApplied(a), WorksOn(a),
           NEW j \in Joins, j = jn[a], DisplayInv(j)
    PROVE  DisplayInv(j)'
<1>1. /\ \A b \in Attempts : b # a => pc[b] \notin HeldPcs
      /\ pc[a] \notin {"open", "seq"} => ~Fresh(j)
      /\ pc[a] # "idle" /\ \A b \in Attempts : jn[b] = j => pc[b] # "idle"
  BY OthersYield DEF ModeApplied
<1>2. FreshRow(j)'
  BY <1>1 DEF ModeApplied, Goto, claimVars, osVars, FreshRow, Fresh, WorksOn, DisplayInv, TInv,
         TypeOK, TaskTyped
<1>3. ShownRow(j)'
  BY <1>1 DEF ModeApplied, Goto, claimVars, osVars, ShownRow, AloneRow, Alive, KnowsDisplay,
         BuildsFirst, WorksOn, DisplayInv, TInv, TypeOK, TaskTyped, TaskWhole, HeldPcs,
         AlonePcs, GotPcs
<1>4. AloneRow(j)'
  BY <1>1 DEF ModeApplied, Goto, claimVars, osVars, AloneRow, Alive, BuildsFirst, WorksOn,
         DisplayInv, TInv, TypeOK, TaskTyped, TaskWhole, Underway, EarlyPcs, HeldPcs, AlonePcs,
         GotPcs
<1>5. LocalsTrue(j)'
  BY <1>1 DEF ModeApplied, Goto, claimVars, osVars, LocalsTrue, Doomed, WorksOn, DisplayInv,
         TInv, TypeOK, TaskTyped, HeldPcs
<1>. QED  BY <1>2, <1>3, <1>4, <1>5 DEF DisplayInv

LEMMA ModeRefusedDisplay ==
    ASSUME TInv, OwnDisplays, ClaimInv, ~Preempt, NEW a \in Attempts, ModeRefused(a), WorksOn(a),
           NEW j \in Joins, j = jn[a], DisplayInv(j)
    PROVE  DisplayInv(j)'
<1>1. /\ \A b \in Attempts : b # a => pc[b] \notin HeldPcs
      /\ pc[a] \notin {"open", "seq"} => ~Fresh(j)
      /\ pc[a] # "idle" /\ \A b \in Attempts : jn[b] = j => pc[b] # "idle"
  BY OthersYield DEF ModeRefused
<1>2. FreshRow(j)'
  BY <1>1 DEF ModeRefused, Goto, claimVars, osVars, FreshRow, Fresh, WorksOn, DisplayInv, TInv,
         TypeOK, TaskTyped
<1>3. ShownRow(j)'
  BY <1>1 DEF ModeRefused, Goto, claimVars, osVars, ShownRow, AloneRow, Alive, KnowsDisplay,
         BuildsFirst, WorksOn, DisplayInv, TInv, TypeOK, TaskTyped, TaskWhole, HeldPcs,
         AlonePcs, GotPcs
<1>4. AloneRow(j)'
  BY <1>1 DEF ModeRefused, Goto, claimVars, osVars, AloneRow, Alive, BuildsFirst, WorksOn,
         DisplayInv, TInv, TypeOK, TaskTyped, TaskWhole, Underway, EarlyPcs, HeldPcs, AlonePcs,
         GotPcs
<1>5. LocalsTrue(j)'
  BY <1>1 DEF ModeRefused, Goto, claimVars, osVars, LocalsTrue, Doomed, WorksOn, DisplayInv,
         TInv, TypeOK, TaskTyped, HeldPcs
<1>. QED  BY <1>2, <1>3, <1>4, <1>5 DEF DisplayInv

LEMMA ReadBackDisplay ==
    ASSUME TInv, OwnDisplays, ClaimInv, ~Preempt, NEW a \in Attempts, ReadBack(a), WorksOn(a),
           NEW j \in Joins, j = jn[a], DisplayInv(j)
    PROVE  DisplayInv(j)'
<1>1. /\ \A b \in Attempts : b # a => pc[b] \notin HeldPcs
      /\ pc[a] \notin {"open", "seq"} => ~Fresh(j)
      /\ pc[a] # "idle" /\ \A b \in Attempts : jn[b] = j => pc[b] # "idle"
  BY OthersYield DEF ReadBack
<1>2. FreshRow(j)'
  BY <1>1 DEF ReadBack, Goto, claimVars, osVars, FreshRow, Fresh, WorksOn, DisplayInv, TInv,
         TypeOK, TaskTyped
<1>3. ShownRow(j)'
  BY <1>1 DEF ReadBack, Goto, claimVars, osVars, ShownRow, AloneRow, Alive, KnowsDisplay,
         BuildsFirst, WorksOn, DisplayInv, TInv, TypeOK, TaskTyped, TaskWhole, HeldPcs,
         AlonePcs, GotPcs
<1>4. AloneRow(j)'
  BY <1>1 DEF ReadBack, Goto, claimVars, osVars, AloneRow, Alive, BuildsFirst, WorksOn,
         DisplayInv, TInv, TypeOK, TaskTyped, TaskWhole, Underway, EarlyPcs, HeldPcs, AlonePcs,
         GotPcs
<1>5. LocalsTrue(j)'
  BY <1>1 DEF ReadBack, Goto, claimVars, osVars, LocalsTrue, Doomed, WorksOn, DisplayInv, TInv,
         TypeOK, TaskTyped, HeldPcs
<1>. QED  BY <1>2, <1>3, <1>4, <1>5 DEF DisplayInv

LEMMA CheckBeforeCaptureDisplay ==
    ASSUME TInv, OwnDisplays, ClaimInv, ~Preempt, NEW a \in Attempts, CheckBeforeCapture(a),
         WorksOn(a),
           NEW j \in Joins, j = jn[a], DisplayInv(j)
    PROVE  DisplayInv(j)'
<1>1. /\ \A b \in Attempts : b # a => pc[b] \notin HeldPcs
      /\ pc[a] \notin {"open", "seq"} => ~Fresh(j)
      /\ pc[a] # "idle" /\ \A b \in Attempts : jn[b] = j => pc[b] # "idle"
  BY OthersYield DEF CheckBeforeCapture
<1>2. FreshRow(j)'
  BY <1>1 DEF CheckBeforeCapture, Goto, claimVars, osVars, buildVars, FreshRow, Fresh, WorksOn,
         DisplayInv, TInv, TypeOK, TaskTyped
<1>3. ShownRow(j)'
  BY <1>1 DEF CheckBeforeCapture, Goto, claimVars, osVars, buildVars, ShownRow, AloneRow,
         Alive, KnowsDisplay, BuildsFirst, WorksOn, DisplayInv, TInv, TypeOK, TaskTyped,
         TaskWhole, HeldPcs, AlonePcs, GotPcs
<1>4. AloneRow(j)'
  BY <1>1 DEF CheckBeforeCapture, Goto, claimVars, osVars, buildVars, AloneRow, Alive,
         BuildsFirst, WorksOn, DisplayInv, TInv, TypeOK, TaskTyped, TaskWhole, Underway,
         EarlyPcs, HeldPcs, AlonePcs, GotPcs
<1>5. LocalsTrue(j)'
  BY <1>1 DEF CheckBeforeCapture, Goto, claimVars, osVars, buildVars, LocalsTrue, Doomed,
         WorksOn, DisplayInv, TInv, TypeOK, TaskTyped, HeldPcs
<1>. QED  BY <1>2, <1>3, <1>4, <1>5 DEF DisplayInv

LEMMA StartCaptureDisplay ==
    ASSUME TInv, OwnDisplays, ClaimInv, ~Preempt, NEW a \in Attempts, StartCapture(a), WorksOn(a),
           NEW j \in Joins, j = jn[a], DisplayInv(j)
    PROVE  DisplayInv(j)'
<1>1. /\ \A b \in Attempts : b # a => pc[b] \notin HeldPcs
      /\ pc[a] \notin {"open", "seq"} => ~Fresh(j)
      /\ pc[a] # "idle" /\ \A b \in Attempts : jn[b] = j => pc[b] # "idle"
  BY OthersYield DEF StartCapture
<1>2. FreshRow(j)'
  BY <1>1 DEF StartCapture, Goto, claimVars, osVars, buildVars, FreshRow, Fresh, WorksOn,
         DisplayInv, TInv, TypeOK, TaskTyped
<1>3. ShownRow(j)'
  BY <1>1 DEF StartCapture, Goto, claimVars, osVars, buildVars, ShownRow, AloneRow, Alive,
         KnowsDisplay, BuildsFirst, WorksOn, DisplayInv, TInv, TypeOK, TaskTyped, TaskWhole,
         HeldPcs, AlonePcs, GotPcs
<1>4. AloneRow(j)'
  BY <1>1 DEF StartCapture, Goto, claimVars, osVars, buildVars, AloneRow, Alive, BuildsFirst,
         WorksOn, DisplayInv, TInv, TypeOK, TaskTyped, TaskWhole, Underway, EarlyPcs, HeldPcs,
         AlonePcs, GotPcs
<1>5. LocalsTrue(j)'
  BY <1>1 DEF StartCapture, Goto, claimVars, osVars, buildVars, LocalsTrue, Doomed, WorksOn,
         DisplayInv, TInv, TypeOK, TaskTyped, HeldPcs
<1>. QED  BY <1>2, <1>3, <1>4, <1>5 DEF DisplayInv

LEMMA ReadScaleDisplay ==
    ASSUME TInv, OwnDisplays, ClaimInv, ~Preempt, NEW a \in Attempts, ReadScale(a), WorksOn(a),
           NEW j \in Joins, j = jn[a], DisplayInv(j)
    PROVE  DisplayInv(j)'
<1>1. /\ \A b \in Attempts : b # a => pc[b] \notin HeldPcs
      /\ pc[a] \notin {"open", "seq"} => ~Fresh(j)
      /\ pc[a] # "idle" /\ \A b \in Attempts : jn[b] = j => pc[b] # "idle"
  BY OthersYield DEF ReadScale
<1>2. FreshRow(j)'
  BY <1>1 DEF ReadScale, Goto, claimVars, osVars, FreshRow, Fresh, WorksOn, DisplayInv, TInv,
         TypeOK, TaskTyped
<1>3. ShownRow(j)'
  BY <1>1 DEF ReadScale, Goto, claimVars, osVars, ShownRow, AloneRow, Alive, KnowsDisplay,
         BuildsFirst, WorksOn, DisplayInv, TInv, TypeOK, TaskTyped, TaskWhole, HeldPcs,
         AlonePcs, GotPcs
<1>4. AloneRow(j)'
  BY <1>1 DEF ReadScale, Goto, claimVars, osVars, AloneRow, Alive, BuildsFirst, WorksOn,
         DisplayInv, TInv, TypeOK, TaskTyped, TaskWhole, Underway, EarlyPcs, HeldPcs, AlonePcs,
         GotPcs
<1>5. LocalsTrue(j)'
  BY <1>1 DEF ReadScale, Goto, claimVars, osVars, LocalsTrue, Doomed, WorksOn, DisplayInv,
         TInv, TypeOK, TaskTyped, HeldPcs
<1>. QED  BY <1>2, <1>3, <1>4, <1>5 DEF DisplayInv

LEMMA HalfFailedDisplay ==
    ASSUME TInv, OwnDisplays, ClaimInv, ~Preempt, NEW a \in Attempts, HalfFailed(a), WorksOn(a),
           NEW j \in Joins, j = jn[a], DisplayInv(j)
    PROVE  DisplayInv(j)'
<1>1. /\ \A b \in Attempts : b # a => pc[b] \notin HeldPcs
      /\ pc[a] \notin {"open", "seq"} => ~Fresh(j)
      /\ pc[a] # "idle" /\ \A b \in Attempts : jn[b] = j => pc[b] # "idle"
  BY OthersYield DEF HalfFailed
<1>2. FreshRow(j)'
  BY <1>1 DEF HalfFailed, Goto, claimVars, osVars, buildVars, FreshRow, Fresh, WorksOn,
         DisplayInv, TInv, TypeOK, TaskTyped
<1>3. ShownRow(j)'
  BY <1>1 DEF HalfFailed, Goto, claimVars, osVars, buildVars, ShownRow, AloneRow, Alive,
         KnowsDisplay, BuildsFirst, WorksOn, DisplayInv, TInv, TypeOK, TaskTyped, TaskWhole,
         HeldPcs, AlonePcs, GotPcs
<1>4. AloneRow(j)'
  BY <1>1 DEF HalfFailed, Goto, claimVars, osVars, buildVars, AloneRow, Alive, BuildsFirst,
         WorksOn, DisplayInv, TInv, TypeOK, TaskTyped, TaskWhole, Underway, EarlyPcs, HeldPcs,
         AlonePcs, GotPcs
<1>5. LocalsTrue(j)'
  BY <1>1 DEF HalfFailed, Goto, claimVars, osVars, buildVars, LocalsTrue, Doomed, WorksOn,
         DisplayInv, TInv, TypeOK, TaskTyped, HeldPcs
<1>. QED  BY <1>2, <1>3, <1>4, <1>5 DEF DisplayInv

LEMMA BothReadyDisplay ==
    ASSUME TInv, OwnDisplays, ClaimInv, ~Preempt, NEW a \in Attempts, BothReady(a), WorksOn(a),
           NEW j \in Joins, j = jn[a], DisplayInv(j)
    PROVE  DisplayInv(j)'
<1>1. /\ \A b \in Attempts : b # a => pc[b] \notin HeldPcs
      /\ pc[a] \notin {"open", "seq"} => ~Fresh(j)
      /\ pc[a] # "idle" /\ \A b \in Attempts : jn[b] = j => pc[b] # "idle"
  BY OthersYield DEF BothReady
<1>2. FreshRow(j)'
  BY <1>1 DEF BothReady, Goto, claimVars, osVars, buildVars, FreshRow, Fresh, WorksOn,
         DisplayInv, TInv, TypeOK, TaskTyped
<1>3. ShownRow(j)'
  BY <1>1 DEF BothReady, Goto, claimVars, osVars, buildVars, ShownRow, AloneRow, Alive,
         KnowsDisplay, BuildsFirst, WorksOn, DisplayInv, TInv, TypeOK, TaskTyped, TaskWhole,
         HeldPcs, AlonePcs, GotPcs
<1>4. AloneRow(j)'
  BY <1>1 DEF BothReady, Goto, claimVars, osVars, buildVars, AloneRow, Alive, BuildsFirst,
         WorksOn, DisplayInv, TInv, TypeOK, TaskTyped, TaskWhole, Underway, EarlyPcs, HeldPcs,
         AlonePcs, GotPcs
<1>5. LocalsTrue(j)'
  BY <1>1 DEF BothReady, Goto, claimVars, osVars, buildVars, LocalsTrue, Doomed, WorksOn,
         DisplayInv, TInv, TypeOK, TaskTyped, HeldPcs
<1>. QED  BY <1>2, <1>3, <1>4, <1>5 DEF DisplayInv

LEMMA StandDownDisplay ==
    ASSUME TInv, OwnDisplays, ClaimInv, ~Preempt, NEW a \in Attempts, StandDown(a), WorksOn(a),
           NEW j \in Joins, j = jn[a], DisplayInv(j)
    PROVE  DisplayInv(j)'
<1>1. /\ \A b \in Attempts : b # a => pc[b] \notin HeldPcs
      /\ pc[a] \notin {"open", "seq"} => ~Fresh(j)
      /\ pc[a] # "idle" /\ \A b \in Attempts : jn[b] = j => pc[b] # "idle"
  BY OthersYield DEF StandDown
<1>2. FreshRow(j)'
  BY <1>1 DEF StandDown, Goto, claimVars, osVars, GoOrEnd, locals, FreshRow, Fresh, WorksOn,
         DisplayInv, TInv, TypeOK, TaskTyped
<1>3. ShownRow(j)'
  BY <1>1 DEF StandDown, Goto, claimVars, osVars, GoOrEnd, locals, ShownRow, AloneRow, Alive,
         KnowsDisplay, BuildsFirst, WorksOn, DisplayInv, TInv, TypeOK, TaskTyped, TaskWhole,
         HeldPcs, AlonePcs, GotPcs
<1>4. AloneRow(j)'
  BY <1>1 DEF StandDown, Goto, claimVars, osVars, GoOrEnd, locals, AloneRow, Alive,
         BuildsFirst, WorksOn, DisplayInv, TInv, TypeOK, TaskTyped, TaskWhole, Underway,
         EarlyPcs, HeldPcs, AlonePcs, GotPcs
<1>5. LocalsTrue(j)'
  BY <1>1 DEF StandDown, Goto, claimVars, osVars, GoOrEnd, locals, LocalsTrue, Doomed, WorksOn,
         DisplayInv, TInv, TypeOK, TaskTyped, HeldPcs
<1>. QED  BY <1>2, <1>3, <1>4, <1>5 DEF DisplayInv

LEMMA ActivatedDisplay ==
    ASSUME TInv, OwnDisplays, ClaimInv, ~Preempt, NEW a \in Attempts, Activated(a), WorksOn(a),
           NEW j \in Joins, j = jn[a], DisplayInv(j)
    PROVE  DisplayInv(j)'
<1>1. /\ \A b \in Attempts : b # a => pc[b] \notin HeldPcs
      /\ pc[a] \notin {"open", "seq"} => ~Fresh(j)
      /\ pc[a] # "idle" /\ \A b \in Attempts : jn[b] = j => pc[b] # "idle"
  BY OthersYield DEF Activated
<1>2. FreshRow(j)'
  BY <1>1 DEF Activated, Goto, claimVars, osVars, buildVars, FreshRow, Fresh, WorksOn,
         DisplayInv, TInv, TypeOK, TaskTyped
<1>3. ShownRow(j)'
  BY <1>1 DEF Activated, Goto, claimVars, osVars, buildVars, ShownRow, AloneRow, Alive,
         KnowsDisplay, BuildsFirst, WorksOn, DisplayInv, TInv, TypeOK, TaskTyped, TaskWhole,
         HeldPcs, AlonePcs, GotPcs
<1>4. AloneRow(j)'
  BY <1>1 DEF Activated, Goto, claimVars, osVars, buildVars, AloneRow, Alive, BuildsFirst,
         WorksOn, DisplayInv, TInv, TypeOK, TaskTyped, TaskWhole, Underway, EarlyPcs, HeldPcs,
         AlonePcs, GotPcs
<1>5. LocalsTrue(j)'
  BY <1>1 DEF Activated, Goto, claimVars, osVars, buildVars, LocalsTrue, Doomed, WorksOn,
         DisplayInv, TInv, TypeOK, TaskTyped, HeldPcs
<1>. QED  BY <1>2, <1>3, <1>4, <1>5 DEF DisplayInv

LEMMA ActivateFailedDisplay ==
    ASSUME TInv, OwnDisplays, ClaimInv, ~Preempt, NEW a \in Attempts, ActivateFailed(a), WorksOn(a),
           NEW j \in Joins, j = jn[a], DisplayInv(j)
    PROVE  DisplayInv(j)'
<1>1. /\ \A b \in Attempts : b # a => pc[b] \notin HeldPcs
      /\ pc[a] \notin {"open", "seq"} => ~Fresh(j)
      /\ pc[a] # "idle" /\ \A b \in Attempts : jn[b] = j => pc[b] # "idle"
  BY OthersYield DEF ActivateFailed
<1>2. FreshRow(j)'
  BY <1>1 DEF ActivateFailed, Goto, claimVars, osVars, buildVars, FreshRow, Fresh, WorksOn,
         DisplayInv, TInv, TypeOK, TaskTyped
<1>3. ShownRow(j)'
  BY <1>1 DEF ActivateFailed, Goto, claimVars, osVars, buildVars, ShownRow, AloneRow, Alive,
         KnowsDisplay, BuildsFirst, WorksOn, DisplayInv, TInv, TypeOK, TaskTyped, TaskWhole,
         HeldPcs, AlonePcs, GotPcs
<1>4. AloneRow(j)'
  BY <1>1 DEF ActivateFailed, Goto, claimVars, osVars, buildVars, AloneRow, Alive, BuildsFirst,
         WorksOn, DisplayInv, TInv, TypeOK, TaskTyped, TaskWhole, Underway, EarlyPcs, HeldPcs,
         AlonePcs, GotPcs
<1>5. LocalsTrue(j)'
  BY <1>1 DEF ActivateFailed, Goto, claimVars, osVars, buildVars, LocalsTrue, Doomed, WorksOn,
         DisplayInv, TInv, TypeOK, TaskTyped, HeldPcs
<1>. QED  BY <1>2, <1>3, <1>4, <1>5 DEF DisplayInv

LEMMA AbandonDisplay ==
    ASSUME TInv, OwnDisplays, ClaimInv, ~Preempt, NEW a \in Attempts, Abandon(a), WorksOn(a),
           NEW j \in Joins, j = jn[a], DisplayInv(j)
    PROVE  DisplayInv(j)'
<1>1. /\ \A b \in Attempts : b # a => pc[b] \notin HeldPcs
      /\ pc[a] \notin {"open", "seq"} => ~Fresh(j)
      /\ pc[a] # "idle" /\ \A b \in Attempts : jn[b] = j => pc[b] # "idle"
  BY OthersYield DEF Abandon
<1>2. Alive(j) /\ (\A b, c \in Attempts : jn[b] = j /\ jn[c] = j => b = c) => IsCurrent(a)
  BY DEF Alive, IsCurrent, ClaimInv, StandsCurrent, RowsOpen
<1>3. FreshRow(j)'
  BY <1>1, <1>2 DEF Abandon, Goto, claimVars, osVars, GoOrEnd, locals, FreshRow, Fresh,
         WorksOn, DisplayInv, TInv, TypeOK, TaskTyped
<1>4. ShownRow(j)'
  BY <1>1, <1>2 DEF Abandon, Goto, claimVars, osVars, GoOrEnd, locals, ShownRow, AloneRow,
         Alive, KnowsDisplay, BuildsFirst, WorksOn, DisplayInv, TInv, TypeOK, TaskTyped,
         TaskWhole, HeldPcs, AlonePcs, GotPcs
<1>5. AloneRow(j)'
  BY <1>1, <1>2 DEF Abandon, Goto, claimVars, osVars, GoOrEnd, locals, AloneRow, Alive,
         BuildsFirst, WorksOn, DisplayInv, TInv, TypeOK, TaskTyped, TaskWhole, Underway,
         EarlyPcs, HeldPcs, AlonePcs, GotPcs
<1>6. LocalsTrue(j)'
  BY <1>1, <1>2 DEF Abandon, Goto, claimVars, osVars, GoOrEnd, locals, LocalsTrue, Doomed,
         WorksOn, DisplayInv, TInv, TypeOK, TaskTyped, HeldPcs
<1>. QED  BY <1>3, <1>4, <1>5, <1>6 DEF DisplayInv

LEMMA GraceOverDisplay ==
    ASSUME TInv, OwnDisplays, ClaimInv, ~Preempt, NEW a \in Attempts, GraceOver(a), WorksOn(a),
           NEW j \in Joins, j = jn[a], DisplayInv(j)
    PROVE  DisplayInv(j)'
<1>1. /\ \A b \in Attempts : b # a => pc[b] \notin HeldPcs
      /\ pc[a] \notin {"open", "seq"} => ~Fresh(j)
      /\ pc[a] # "idle" /\ \A b \in Attempts : jn[b] = j => pc[b] # "idle"
  BY OthersYield DEF GraceOver
<1>2. FreshRow(j)'
  BY <1>1 DEF GraceOver, Goto, claimVars, osVars, GoOrEnd, locals, FreshRow, Fresh, WorksOn,
         DisplayInv, TInv, TypeOK, TaskTyped
<1>3. ShownRow(j)'
  BY <1>1 DEF GraceOver, Goto, claimVars, osVars, GoOrEnd, locals, ShownRow, AloneRow, Alive,
         KnowsDisplay, BuildsFirst, WorksOn, DisplayInv, TInv, TypeOK, TaskTyped, TaskWhole,
         HeldPcs, AlonePcs, GotPcs
<1>4. AloneRow(j)'
  BY <1>1 DEF GraceOver, Goto, claimVars, osVars, GoOrEnd, locals, AloneRow, Alive,
         BuildsFirst, WorksOn, DisplayInv, TInv, TypeOK, TaskTyped, TaskWhole, Underway,
         EarlyPcs, HeldPcs, AlonePcs, GotPcs
<1>5. LocalsTrue(j)'
  BY <1>1 DEF GraceOver, Goto, claimVars, osVars, GoOrEnd, locals, LocalsTrue, Doomed, WorksOn,
         DisplayInv, TInv, TypeOK, TaskTyped, HeldPcs
<1>. QED  BY <1>2, <1>3, <1>4, <1>5 DEF DisplayInv

LEMMA RemoveDisplayDisplay ==
    ASSUME TInv, OwnDisplays, ClaimInv, ~Preempt, NEW a \in Attempts, RemoveDisplay(a), WorksOn(a),
           NEW j \in Joins, j = jn[a], DisplayInv(j)
    PROVE  DisplayInv(j)'
<1>1. /\ \A b \in Attempts : b # a => pc[b] \notin HeldPcs
      /\ pc[a] \notin {"open", "seq"} => ~Fresh(j)
      /\ pc[a] # "idle" /\ \A b \in Attempts : jn[b] = j => pc[b] # "idle"
  BY OthersYield DEF RemoveDisplay
<1>2. sess'[j].seq = 0
  BY DEF RemoveDisplay, ClaimInv, StandsCurrent
<1>3. ShownRow(j)' /\ AloneRow(j)'
  BY <1>2 DEF ShownRow, AloneRow, Alive
<1>4. FreshRow(j)'
  BY <1>1, <1>2 DEF RemoveDisplay, Goto, claimVars, osVars, GoOrEnd, locals, LeaveDashboard,
         Doomed, FreshRow, Fresh, WorksOn, DisplayInv, TInv, TypeOK, TaskTyped
<1>5. LocalsTrue(j)'
  BY <1>1, <1>2 DEF RemoveDisplay, Goto, claimVars, osVars, GoOrEnd, locals, LeaveDashboard,
         Doomed, LocalsTrue, WorksOn, DisplayInv, TInv, TypeOK, TaskTyped, HeldPcs
<1>. QED  BY <1>3, <1>4, <1>5 DEF DisplayInv

LEMMA ListenDisplay ==
    ASSUME TInv, OwnDisplays, ClaimInv, ~Preempt, NEW a \in Attempts, Listen(a), WorksOn(a),
           NEW j \in Joins, j = jn[a], DisplayInv(j)
    PROVE  DisplayInv(j)'
<1>1. /\ \A b \in Attempts : b # a => pc[b] \notin HeldPcs
      /\ pc[a] \notin {"open", "seq"} => ~Fresh(j)
      /\ pc[a] # "idle" /\ \A b \in Attempts : jn[b] = j => pc[b] # "idle"
  BY OthersYield DEF Listen
<1>2. FreshRow(j)'
  BY <1>1 DEF Listen, Goto, claimVars, osVars, buildVars, FreshRow, Fresh, WorksOn, DisplayInv,
         TInv, TypeOK, TaskTyped
<1>3. ShownRow(j)'
  BY <1>1 DEF Listen, Goto, claimVars, osVars, buildVars, ShownRow, AloneRow, Alive,
         KnowsDisplay, BuildsFirst, WorksOn, DisplayInv, TInv, TypeOK, TaskTyped, TaskWhole,
         HeldPcs, AlonePcs, GotPcs
<1>4. AloneRow(j)'
  BY <1>1 DEF Listen, Goto, claimVars, osVars, buildVars, AloneRow, Alive, BuildsFirst,
         WorksOn, DisplayInv, TInv, TypeOK, TaskTyped, TaskWhole, Underway, EarlyPcs, HeldPcs,
         AlonePcs, GotPcs
<1>5. LocalsTrue(j)'
  BY <1>1 DEF Listen, Goto, claimVars, osVars, buildVars, LocalsTrue, Doomed, WorksOn,
         DisplayInv, TInv, TypeOK, TaskTyped, HeldPcs
<1>. QED  BY <1>2, <1>3, <1>4, <1>5 DEF DisplayInv

LEMMA EndedDisplay ==
    ASSUME TInv, OwnDisplays, ClaimInv, ~Preempt, NEW a \in Attempts, Ended(a), WorksOn(a),
           NEW j \in Joins, j = jn[a], DisplayInv(j)
    PROVE  DisplayInv(j)'
<1>1. /\ \A b \in Attempts : b # a => pc[b] \notin HeldPcs
      /\ pc[a] \notin {"open", "seq"} => ~Fresh(j)
      /\ pc[a] # "idle" /\ \A b \in Attempts : jn[b] = j => pc[b] # "idle"
  BY OthersYield DEF Ended
<1>2. FreshRow(j)'
  BY <1>1 DEF Ended, Goto, claimVars, osVars, buildVars, FreshRow, Fresh, WorksOn, DisplayInv,
         TInv, TypeOK, TaskTyped
<1>3. ShownRow(j)'
  BY <1>1 DEF Ended, Goto, claimVars, osVars, buildVars, ShownRow, AloneRow, Alive,
         KnowsDisplay, BuildsFirst, WorksOn, DisplayInv, TInv, TypeOK, TaskTyped, TaskWhole,
         HeldPcs, AlonePcs, GotPcs
<1>4. AloneRow(j)'
  BY <1>1 DEF Ended, Goto, claimVars, osVars, buildVars, AloneRow, Alive, BuildsFirst, WorksOn,
         DisplayInv, TInv, TypeOK, TaskTyped, TaskWhole, Underway, EarlyPcs, HeldPcs, AlonePcs,
         GotPcs
<1>5. LocalsTrue(j)'
  BY <1>1 DEF Ended, Goto, claimVars, osVars, buildVars, LocalsTrue, Doomed, WorksOn,
         DisplayInv, TInv, TypeOK, TaskTyped, HeldPcs
<1>. QED  BY <1>2, <1>3, <1>4, <1>5 DEF DisplayInv

LEMMA CloseTransportDisplay ==
    ASSUME TInv, OwnDisplays, ClaimInv, ~Preempt, NEW a \in Attempts, CloseTransport(a), WorksOn(a),
           NEW j \in Joins, j = jn[a], DisplayInv(j)
    PROVE  DisplayInv(j)'
<1>1. /\ \A b \in Attempts : b # a => pc[b] \notin HeldPcs
      /\ pc[a] \notin {"open", "seq"} => ~Fresh(j)
      /\ pc[a] # "idle" /\ \A b \in Attempts : jn[b] = j => pc[b] # "idle"
  BY OthersYield DEF CloseTransport
<1>2. FreshRow(j)'
  BY <1>1 DEF CloseTransport, Goto, claimVars, osVars, buildVars, FreshRow, Fresh, WorksOn,
         DisplayInv, TInv, TypeOK, TaskTyped
<1>3. ShownRow(j)'
  BY <1>1 DEF CloseTransport, Goto, claimVars, osVars, buildVars, ShownRow, AloneRow, Alive,
         KnowsDisplay, BuildsFirst, WorksOn, DisplayInv, TInv, TypeOK, TaskTyped, TaskWhole,
         HeldPcs, AlonePcs, GotPcs
<1>4. AloneRow(j)'
  BY <1>1 DEF CloseTransport, Goto, claimVars, osVars, buildVars, AloneRow, Alive, BuildsFirst,
         WorksOn, DisplayInv, TInv, TypeOK, TaskTyped, TaskWhole, Underway, EarlyPcs, HeldPcs,
         AlonePcs, GotPcs
<1>5. LocalsTrue(j)'
  BY <1>1 DEF CloseTransport, Goto, claimVars, osVars, buildVars, LocalsTrue, Doomed, WorksOn,
         DisplayInv, TInv, TypeOK, TaskTyped, HeldPcs
<1>. QED  BY <1>2, <1>3, <1>4, <1>5 DEF DisplayInv

LEMMA OpenSessionDisplay ==
    ASSUME TInv, OwnDisplays, ClaimInv, ~Preempt, NEW a \in Attempts, OpenSession(a), WorksOn(a),
           NEW j \in Joins, j = jn[a], DisplayInv(j)
    PROVE  DisplayInv(j)'
<1>1. /\ \A b \in Attempts : b # a => pc[b] \notin HeldPcs
      /\ pc[a] \notin {"open", "seq"} => ~Fresh(j)
      /\ pc[a] # "idle" /\ \A b \in Attempts : jn[b] = j => pc[b] # "idle"
  BY OthersYield DEF OpenSession
<1>2. /\ pc[a] = "open" /\ pc'[a] = "seq"
      /\ sess'[j].seq = sess[j].seq /\ sess'[j].live = sess[j].live
      /\ sess'[j].cap = sess[j].cap
      /\ rows' = rows /\ attached' = attached /\ answered' = answered /\ running' = running
      /\ had' = had /\ got' = got /\ snap' = snap /\ taken' = taken
  BY OpenSessionRow DEF OpenSession, RowIs, Goto, claimVars, osVars, buildVars, TInv, TypeOK,
         TaskTyped
<1>3. FreshRow(j)'
  BY <1>1, <1>2 DEF FreshRow, Fresh, WorksOn, DisplayInv, TInv, TypeOK, TaskTyped
<1>4. ShownRow(j)'
  BY <1>1, <1>2 DEF ShownRow, AloneRow, Alive, KnowsDisplay, BuildsFirst, LocalsTrue, WorksOn,
         DisplayInv, TInv, TypeOK, TaskTyped, TaskWhole, HeldPcs, AlonePcs, GotPcs
<1>5. AloneRow(j)'
  BY <1>1, <1>2 DEF AloneRow, Alive, BuildsFirst, LocalsTrue, WorksOn, DisplayInv, TInv,
         TypeOK, TaskTyped, TaskWhole, Underway, EarlyPcs, HeldPcs, AlonePcs, GotPcs
<1>6. LocalsTrue(j)'
  BY <1>1, <1>2 DEF LocalsTrue, Doomed, WorksOn, DisplayInv, TInv, TypeOK, TaskTyped, HeldPcs
<1>. QED  BY <1>3, <1>4, <1>5, <1>6 DEF DisplayInv

LEMMA NextSeqDisplay ==
    ASSUME TInv, OwnDisplays, ClaimInv, ~Preempt, NEW a \in Attempts, NextSeq(a), WorksOn(a),
           NEW j \in Joins, j = jn[a], DisplayInv(j)
    PROVE  DisplayInv(j)'
<1>1. /\ \A b \in Attempts : b # a => pc[b] \notin HeldPcs
      /\ pc[a] \notin {"open", "seq"} => ~Fresh(j)
      /\ pc[a] # "idle" /\ \A b \in Attempts : jn[b] = j => pc[b] # "idle"
  BY OthersYield DEF NextSeq
<1>2. /\ pc[a] = "seq" /\ pc'[a] = IF cont[a] THEN "stopPrev" ELSE "existing"
      /\ sess'[j].live = sess[j].live /\ sess'[j].cap = sess[j].cap
      /\ rows' = rows /\ attached' = attached /\ answered' = answered /\ running' = running
      /\ had' = had /\ got' = got /\ snap' = snap /\ taken' = taken
  BY NextSeqRow DEF NextSeq, RowIs, Goto, claimVars, osVars, buildVars, TInv, TypeOK, TaskTyped
<1>3. FreshRow(j)'
  BY <1>1, <1>2 DEF FreshRow, Fresh, WorksOn, DisplayInv, TInv, TypeOK, TaskTyped
<1>4. LocalsTrue(j)'
  BY <1>1, <1>2 DEF LocalsTrue, Doomed, WorksOn, DisplayInv, TInv, TypeOK, TaskTyped, HeldPcs
<1>5. CASE cont[a]
  <2>1. Alive(j) /\ \A b \in Attempts : jn[b] = j => pc'[b] # "remove" /\ pc[b] # "remove"
    BY <1>1, <1>2, <1>5 DEF Alive, WorksOn, HeldPcs, ClaimInv, FreshJoins
  <2>2. ShownRow(j)'
    BY <1>1, <1>2, <1>5, <2>1 DEF ShownRow, KnowsDisplay, WorksOn, DisplayInv
  <2>3. AloneRow(j)'
    <3>1. sess[j].live # None
      BY <1>2, <2>1 DEF AloneRow, BuildsFirst, DisplayInv, AlonePcs
    <3>. QED  BY <1>2, <3>1 DEF AloneRow
  <2>. QED  BY <1>3, <1>4, <2>2, <2>3 DEF DisplayInv
<1>6. CASE ~cont[a]
  <2>1. /\ sess[j].live = None /\ j \notin rows /\ scaler.join # j
        /\ \A b \in Attempts : jn[b] = j => b = a
    BY <1>2, <1>6 DEF DisplayInv, FreshRow, Fresh, ClaimInv, FreshJoins
  <2>2. had[a] = None /\ a \notin answered /\ a \notin running
    BY <1>2 DEF DisplayInv, LocalsTrue, TInv, Underway, EarlyPcs
  <2>. QED
    <3>1. sess'[j].live = None /\ scaler' = scaler /\ jn' = jn /\ cont' = cont
      BY <1>2, <2>1 DEF WorksOn
    <3>2. ShownRow(j)'
      BY <3>1 DEF ShownRow
    <3>3. AloneRow(j)'
      BY <1>2, <1>6, <2>1, <2>2, <3>1 DEF AloneRow, BuildsFirst, AlonePcs
    <3>. QED  BY <1>3, <1>4, <3>2, <3>3 DEF DisplayInv
<1>. QED  BY <1>5, <1>6

LEMMA StopPreviousDisplay ==
    ASSUME TInv, OwnDisplays, ClaimInv, ~Preempt, NEW a \in Attempts, StopPrevious(a), WorksOn(a),
           NEW j \in Joins, j = jn[a], DisplayInv(j)
    PROVE  DisplayInv(j)'
<1>1. /\ \A b \in Attempts : b # a => pc[b] \notin HeldPcs
      /\ pc[a] \notin {"open", "seq"} => ~Fresh(j)
      /\ pc[a] # "idle" /\ \A b \in Attempts : jn[b] = j => pc[b] # "idle"
  BY OthersYield DEF StopPrevious
<1>2. /\ pc[a] = "stopPrev" /\ pc'[a] = "existing"
      /\ sess'[j].seq = sess[j].seq /\ sess'[j].live = sess[j].live
      /\ rows' = rows /\ attached' = attached /\ answered' = answered /\ had' = had
      /\ got' = got /\ snap' = snap /\ taken' = taken
  BY StopPreviousRow DEF StopPrevious, RowIs, Goto, claimVars, osVars, buildVars, TInv, TypeOK,
         TaskTyped
<1>3. FreshRow(j)'
  BY <1>1, <1>2 DEF FreshRow, Fresh, WorksOn, DisplayInv, TInv, TypeOK, TaskTyped
<1>4. ShownRow(j)'
  BY <1>1, <1>2 DEF ShownRow, AloneRow, Alive, KnowsDisplay, BuildsFirst, LocalsTrue, WorksOn,
         DisplayInv, TInv, TypeOK, TaskTyped, TaskWhole, HeldPcs, AlonePcs, GotPcs
<1>5. AloneRow(j)'
  BY <1>1, <1>2 DEF AloneRow, Alive, BuildsFirst, LocalsTrue, WorksOn, DisplayInv, TInv,
         TypeOK, TaskTyped, TaskWhole, Underway, EarlyPcs, HeldPcs, AlonePcs, GotPcs
<1>6. LocalsTrue(j)'
  BY <1>1, <1>2 DEF LocalsTrue, Doomed, WorksOn, DisplayInv, TInv, TypeOK, TaskTyped, HeldPcs
<1>. QED  BY <1>3, <1>4, <1>5, <1>6 DEF DisplayInv

LEMMA ReadExistingDisplay ==
    ASSUME TInv, OwnDisplays, ClaimInv, ~Preempt, NEW a \in Attempts, ReadExisting(a), WorksOn(a),
           NEW j \in Joins, j = jn[a], DisplayInv(j)
    PROVE  DisplayInv(j)'
<1>1. /\ \A b \in Attempts : b # a => pc[b] \notin HeldPcs
      /\ pc[a] \notin {"open", "seq"} => ~Fresh(j)
      /\ pc[a] # "idle" /\ \A b \in Attempts : jn[b] = j => pc[b] # "idle"
  BY OthersYield DEF ReadExisting
<1>2. /\ pc[a] = "existing" /\ pc'[a] = "display"
      /\ sess'[j].seq = sess[j].seq /\ sess'[j].live = sess[j].live
      /\ sess'[j].cap = sess[j].cap
      /\ rows' = rows /\ attached' = attached /\ answered' = answered /\ running' = running
      /\ got' = got /\ snap' = snap /\ taken' = taken
      /\ had'[a] = IF cont[a] THEN sess[j].live ELSE None
  BY ReadExistingRow DEF ReadExisting, RowIs, Goto, claimVars, osVars, TInv, TypeOK, TaskTyped
<1>3. FreshRow(j)'
  BY <1>1, <1>2 DEF FreshRow, Fresh, WorksOn, DisplayInv, TInv, TypeOK, TaskTyped
<1>4. ShownRow(j)'
  BY <1>1, <1>2 DEF ShownRow, AloneRow, Alive, KnowsDisplay, BuildsFirst, LocalsTrue, WorksOn,
         DisplayInv, TInv, TypeOK, TaskTyped, TaskWhole, HeldPcs, AlonePcs, GotPcs
<1>5. AloneRow(j)'
  BY <1>1, <1>2 DEF AloneRow, Alive, BuildsFirst, LocalsTrue, WorksOn, DisplayInv, TInv,
         TypeOK, TaskTyped, TaskWhole, Underway, EarlyPcs, HeldPcs, AlonePcs, GotPcs
<1>6. LocalsTrue(j)'
  BY <1>1, <1>2 DEF LocalsTrue, Doomed, WorksOn, DisplayInv, TInv, TypeOK, TaskTyped, HeldPcs
<1>. QED  BY <1>3, <1>4, <1>5, <1>6 DEF DisplayInv

LEMMA RecordDisplay ==
    ASSUME TInv, OwnDisplays, ClaimInv, ~Preempt, NEW a \in Attempts, Record(a), WorksOn(a),
           NEW j \in Joins, j = jn[a], DisplayInv(j)
    PROVE  DisplayInv(j)'
<1>1. /\ \A b \in Attempts : b # a => pc[b] \notin HeldPcs
      /\ pc[a] \notin {"open", "seq"} => ~Fresh(j)
      /\ pc[a] # "idle" /\ \A b \in Attempts : jn[b] = j => pc[b] # "idle"
  BY OthersYield DEF Record
<1>2. /\ pc[a] = "record" /\ pc'[a] = "check"
      /\ sess'[j].seq = sess[j].seq /\ sess'[j].cap = sess[j].cap
      /\ rows' = rows /\ attached' = attached /\ answered' = answered /\ running' = running
      /\ had' = had /\ got' = got /\ snap' = snap /\ taken' = taken
      /\ sess'[j].live = got[a]
  BY RecordRow DEF Record, RowIs, Goto, claimVars, osVars, buildVars, TInv, TypeOK, TaskTyped
<1>3. FreshRow(j)'
  BY <1>1, <1>2 DEF FreshRow, Fresh, WorksOn, DisplayInv, TInv, TypeOK, TaskTyped
<1>4. ShownRow(j)'
  BY <1>1, <1>2 DEF ShownRow, AloneRow, Alive, KnowsDisplay, BuildsFirst, LocalsTrue, WorksOn,
         DisplayInv, TInv, TypeOK, TaskTyped, TaskWhole, HeldPcs, AlonePcs, GotPcs
<1>5. AloneRow(j)'
  <2>1. sess'[j].live # None
    BY <1>2 DEF TInv, TypeOK, TaskWhole, GotPcs
  <2>. QED  BY <2>1 DEF AloneRow
<1>6. LocalsTrue(j)'
  BY <1>1, <1>2 DEF LocalsTrue, Doomed, WorksOn, DisplayInv, TInv, TypeOK, TaskTyped, HeldPcs
<1>. QED  BY <1>3, <1>4, <1>5, <1>6 DEF DisplayInv

LEMMA WriteScaleDisplay ==
    ASSUME TInv, OwnDisplays, ClaimInv, ~Preempt, NEW a \in Attempts, WriteScale(a), WorksOn(a),
           NEW j \in Joins, j = jn[a], DisplayInv(j)
    PROVE  DisplayInv(j)'
<1>1. /\ \A b \in Attempts : b # a => pc[b] \notin HeldPcs
      /\ pc[a] \notin {"open", "seq"} => ~Fresh(j)
      /\ pc[a] # "idle" /\ \A b \in Attempts : jn[b] = j => pc[b] # "idle"
  BY OthersYield DEF WriteScale
<1>2. /\ pc[a] = "writeScale" /\ pc'[a] = "join"
      /\ sess'[j].seq = sess[j].seq /\ sess'[j].cap = sess[j].cap
      /\ rows' = rows /\ attached' = attached /\ answered' = answered /\ running' = running
      /\ had' = had /\ got' = got /\ taken' = taken
      /\ sess'[j].live = snap[a]
  BY WriteScaleRow DEF WriteScale, RowIs, Goto, claimVars, osVars, TInv, TypeOK, TaskTyped
<1>3. FreshRow(j)'
  BY <1>1, <1>2 DEF FreshRow, Fresh, WorksOn, DisplayInv, TInv, TypeOK, TaskTyped
<1>4. ShownRow(j)'
  BY <1>1, <1>2 DEF ShownRow, AloneRow, Alive, KnowsDisplay, BuildsFirst, LocalsTrue, WorksOn,
         DisplayInv, TInv, TypeOK, TaskTyped, TaskWhole, HeldPcs, AlonePcs, GotPcs
<1>5. AloneRow(j)'
  BY <1>1, <1>2 DEF AloneRow, Alive, BuildsFirst, LocalsTrue, WorksOn, DisplayInv, TInv,
         TypeOK, TaskTyped, TaskWhole, Underway, EarlyPcs, HeldPcs, AlonePcs, GotPcs
<1>6. LocalsTrue(j)'
  BY <1>1, <1>2 DEF LocalsTrue, Doomed, WorksOn, DisplayInv, TInv, TypeOK, TaskTyped, HeldPcs
<1>. QED  BY <1>3, <1>4, <1>5, <1>6 DEF DisplayInv

LEMMA ArmSessionDisplay ==
    ASSUME TInv, OwnDisplays, ClaimInv, ~Preempt, NEW a \in Attempts, ArmSession(a), WorksOn(a),
           NEW j \in Joins, j = jn[a], DisplayInv(j)
    PROVE  DisplayInv(j)'
<1>1. /\ \A b \in Attempts : b # a => pc[b] \notin HeldPcs
      /\ pc[a] \notin {"open", "seq"} => ~Fresh(j)
      /\ pc[a] # "idle" /\ \A b \in Attempts : jn[b] = j => pc[b] # "idle"
  BY OthersYield DEF ArmSession
<1>2. /\ pc[a] = "arm" /\ pc'[a] = "capture"
      /\ sess'[j].seq = sess[j].seq /\ sess'[j].live = sess[j].live
      /\ sess'[j].cap = sess[j].cap
      /\ attached' = attached /\ answered' = answered /\ running' = running /\ had' = had
      /\ got' = got /\ snap' = snap /\ taken' = taken
      /\ rows' = rows \cup {j}
  BY ArmSessionRow DEF ArmSession, RowIs, Goto, claimVars, osVars, buildVars, TInv, TypeOK,
         TaskTyped
<1>3. FreshRow(j)'
  BY <1>1, <1>2 DEF FreshRow, Fresh, WorksOn, DisplayInv, TInv, TypeOK, TaskTyped
<1>4. ShownRow(j)'
  BY <1>1, <1>2 DEF ShownRow, AloneRow, Alive, KnowsDisplay, BuildsFirst, LocalsTrue, WorksOn,
         DisplayInv, TInv, TypeOK, TaskTyped, TaskWhole, HeldPcs, AlonePcs, GotPcs
<1>5. AloneRow(j)'
  BY <1>1, <1>2 DEF AloneRow, Alive, BuildsFirst, LocalsTrue, WorksOn, DisplayInv, TInv,
         TypeOK, TaskTyped, TaskWhole, Underway, EarlyPcs, HeldPcs, AlonePcs, GotPcs
<1>6. LocalsTrue(j)'
  BY <1>1, <1>2 DEF LocalsTrue, Doomed, WorksOn, DisplayInv, TInv, TypeOK, TaskTyped, HeldPcs
<1>. QED  BY <1>3, <1>4, <1>5, <1>6 DEF DisplayInv

LEMMA AnswerDisplay ==
    ASSUME TInv, OwnDisplays, ClaimInv, ~Preempt, NEW a \in Attempts, Answer(a), WorksOn(a),
           NEW j \in Joins, j = jn[a], DisplayInv(j)
    PROVE  DisplayInv(j)'
<1>1. /\ \A b \in Attempts : b # a => pc[b] \notin HeldPcs
      /\ pc[a] \notin {"open", "seq"} => ~Fresh(j)
      /\ pc[a] # "idle" /\ \A b \in Attempts : jn[b] = j => pc[b] # "idle"
  BY OthersYield DEF Answer
<1>2. /\ pc[a] = "capture" /\ pc'[a] = "spawned"
      /\ sess'[j].seq = sess[j].seq /\ sess'[j].live = sess[j].live
      /\ rows' = rows /\ attached' = attached /\ running' = running /\ had' = had
      /\ got' = got /\ snap' = snap /\ taken' = taken
      /\ answered' = answered \cup {a}
  BY AnswerRow DEF Answer, RowIs, Goto, claimVars, osVars, buildVars, TInv, TypeOK, TaskTyped
<1>3. FreshRow(j)'
  BY <1>1, <1>2 DEF FreshRow, Fresh, WorksOn, DisplayInv, TInv, TypeOK, TaskTyped
<1>4. ShownRow(j)'
  BY <1>1, <1>2 DEF ShownRow, AloneRow, Alive, KnowsDisplay, BuildsFirst, LocalsTrue, WorksOn,
         DisplayInv, TInv, TypeOK, TaskTyped, TaskWhole, HeldPcs, AlonePcs, GotPcs
<1>5. AloneRow(j)'
  BY <1>1, <1>2 DEF AloneRow, Alive, BuildsFirst, LocalsTrue, WorksOn, DisplayInv, TInv,
         TypeOK, TaskTyped, TaskWhole, Underway, EarlyPcs, HeldPcs, AlonePcs, GotPcs
<1>6. LocalsTrue(j)'
  BY <1>1, <1>2 DEF LocalsTrue, Doomed, WorksOn, DisplayInv, TInv, TypeOK, TaskTyped, HeldPcs
<1>. QED  BY <1>3, <1>4, <1>5, <1>6 DEF DisplayInv

LEMMA TakeDisplayDisplay ==
    ASSUME TInv, OwnDisplays, ClaimInv, ~Preempt, NEW a \in Attempts, TakeDisplay(a), WorksOn(a),
           NEW j \in Joins, j = jn[a], DisplayInv(j)
    PROVE  DisplayInv(j)'
<1>1. /\ \A b \in Attempts : b # a => pc[b] \notin HeldPcs
      /\ pc[a] \notin {"open", "seq"} => ~Fresh(j)
      /\ pc[a] # "idle" /\ \A b \in Attempts : jn[b] = j => pc[b] # "idle"
  BY OthersYield DEF TakeDisplay
<1>2. /\ pc[a] = "forget" /\ pc'[a] = "remove"
      /\ sess'[j].seq = sess[j].seq /\ sess'[j].cap = sess[j].cap
      /\ rows' = rows /\ attached' = attached /\ answered' = answered /\ running' = running
      /\ had' = had /\ got' = got /\ snap' = snap
      /\ sess'[j].live = None
  BY TakeDisplayRow DEF TakeDisplay, RowIs, Goto, claimVars, osVars, buildVars, TInv, TypeOK,
         TaskTyped
<1>3. FreshRow(j)'
  BY <1>1, <1>2 DEF FreshRow, Fresh, WorksOn, DisplayInv, TInv, TypeOK, TaskTyped
<1>4. ShownRow(j)'
  BY <1>1, <1>2 DEF ShownRow, AloneRow, Alive, KnowsDisplay, BuildsFirst, LocalsTrue, WorksOn,
         DisplayInv, TInv, TypeOK, TaskTyped, TaskWhole, HeldPcs, AlonePcs, GotPcs
<1>5. AloneRow(j)'
  BY <1>1, <1>2 DEF AloneRow, Alive, BuildsFirst, LocalsTrue, WorksOn, DisplayInv, TInv,
         TypeOK, TaskTyped, TaskWhole, Underway, EarlyPcs, HeldPcs, AlonePcs, GotPcs
<1>6. LocalsTrue(j)'
  BY <1>1, <1>2 DEF LocalsTrue, Doomed, WorksOn, DisplayInv, TInv, TypeOK, TaskTyped, HeldPcs
<1>. QED  BY <1>3, <1>4, <1>5, <1>6 DEF DisplayInv

LEMMA StopOwnDisplay ==
    ASSUME TInv, OwnDisplays, ClaimInv, ~Preempt, NEW a \in Attempts, StopOwn(a), WorksOn(a),
           NEW j \in Joins, j = jn[a], DisplayInv(j)
    PROVE  DisplayInv(j)'
<1>1. /\ \A b \in Attempts : b # a => pc[b] \notin HeldPcs
      /\ pc[a] \notin {"open", "seq"} => ~Fresh(j)
      /\ pc[a] # "idle" /\ \A b \in Attempts : jn[b] = j => pc[b] # "idle"
  BY OthersYield DEF StopOwn
<1>2. /\ pc[a] = "stopOwn" /\ pc'[a] = "grace"
      /\ sess'[j].seq = sess[j].seq /\ sess'[j].live = sess[j].live
      /\ rows' = rows /\ attached' = attached /\ answered' = answered /\ had' = had
      /\ got' = got /\ snap' = snap /\ taken' = taken
  BY StopOwnRow DEF StopOwn, RowIs, Goto, claimVars, osVars, buildVars, TInv, TypeOK, TaskTyped
<1>3. FreshRow(j)'
  BY <1>1, <1>2 DEF FreshRow, Fresh, WorksOn, DisplayInv, TInv, TypeOK, TaskTyped
<1>4. ShownRow(j)'
  BY <1>1, <1>2 DEF ShownRow, AloneRow, Alive, KnowsDisplay, BuildsFirst, LocalsTrue, WorksOn,
         DisplayInv, TInv, TypeOK, TaskTyped, TaskWhole, HeldPcs, AlonePcs, GotPcs
<1>5. AloneRow(j)'
  BY <1>1, <1>2 DEF AloneRow, Alive, BuildsFirst, LocalsTrue, WorksOn, DisplayInv, TInv,
         TypeOK, TaskTyped, TaskWhole, Underway, EarlyPcs, HeldPcs, AlonePcs, GotPcs
<1>6. LocalsTrue(j)'
  BY <1>1, <1>2 DEF LocalsTrue, Doomed, WorksOn, DisplayInv, TInv, TypeOK, TaskTyped, HeldPcs
<1>. QED  BY <1>3, <1>4, <1>5, <1>6 DEF DisplayInv

LEMMA RemoveSessionDisplay ==
    ASSUME TInv, OwnDisplays, ClaimInv, ~Preempt, NEW a \in Attempts, RemoveSession(a), WorksOn(a),
           NEW j \in Joins, j = jn[a], DisplayInv(j)
    PROVE  DisplayInv(j)'
<1>1. /\ \A b \in Attempts : b # a => pc[b] \notin HeldPcs
      /\ ~Fresh(j) /\ pc[a] = "remove"
  BY OthersYield DEF RemoveSession
<1>2. /\ sess'[j].seq = 0 /\ pc'[a] \in {"done", "removeDisplay"} /\ answered' = answered
      /\ pc'[a] = "removeDisplay" => Doomed(a) # None /\ got' = got /\ taken' = taken
  BY RemoveSessionRow DEF RowIs, RemoveSession, Goto, GoOrEnd, locals, TInv, TypeOK, TaskTyped
<1>3. FreshRow(j)'
  BY <1>1, <1>2 DEF FreshRow, Fresh, WorksOn
<1>4. ShownRow(j)' /\ AloneRow(j)'
  BY <1>2 DEF ShownRow, AloneRow, Alive
<1>5. LocalsTrue(j)'
  BY <1>1, <1>2 DEF LocalsTrue, Doomed, WorksOn, DisplayInv, HeldPcs
<1>. QED  BY <1>3, <1>4, <1>5 DEF DisplayInv

\* What the steps no attempt takes have in common.
OutsideStays ==
    /\ cpu = None
    /\ minted' = minted /\ jn' = jn /\ cont' = cont /\ seq' = seq /\ pc' = pc
    /\ had' = had /\ got' = got /\ snap' = snap /\ taken' = taken
    /\ attached' = attached /\ running' = running /\ answered' = answered /\ rows' = rows
    /\ \A j \in Joins :
          /\ sess'[j].seq = sess[j].seq /\ sess'[j].cap = sess[j].cap
          /\ sess'[j].leave = sess[j].leave /\ (sess[j].open => sess'[j].open)
          /\ \/ sess'[j].live = sess[j].live
             \/ scaler.join = j /\ sess'[j].live = scaler.live /\ scaler.live # None
          /\ scaler'.join = j =>
                \/ scaler.join = j /\ scaler'.live = scaler.live
                \/ sess' = sess /\ sess[j].live # None /\ scaler'.live = sess[j].live

LEMMA OutsideStaysOut ==
    ASSUME TInv,
           \/ \E a \in Attempts : Handshake(a) \/ MarkConnected(a) \/ PeerClosed(a)
           \/ \E j \in Joins : Host(j)
           \/ ScaleApply \/ ScaleRecord \/ Restore
    PROVE  OutsideStays
<1>. USE LifecycleAssumption DEF OutsideStays, claimVars, buildVars, osVars
<1>1. CASE \E a \in Attempts : Handshake(a) \/ PeerClosed(a)
  BY <1>1 DEF Handshake, PeerClosed
<1>2. CASE \E a \in Attempts : MarkConnected(a)
  <2>1. \A j \in Joins : /\ sess'[j].seq = sess[j].seq /\ sess'[j].cap = sess[j].cap
                         /\ sess'[j].leave = sess[j].leave /\ sess'[j].open = sess[j].open
                         /\ sess'[j].live = sess[j].live
    BY <1>2, MarkConnectedRow DEF RowIs
  <2>2. /\ cpu = None
        /\ UNCHANGED <<claimVars, pc, buildVars, attached, taken, running, answered, scaler, rows>>
    BY <1>2 DEF MarkConnected
  <2>. QED  BY <2>1, <2>2
<1>3. CASE \E j \in Joins : Leave(j)
  BY <1>3 DEF Leave
<1>4. CASE \E j \in Joins : ScaleRead(j)
  BY <1>4 DEF ScaleRead
<1>5. CASE \E j \in Joins : Kick(j)
  <2>1. \A j \in Joins : /\ sess'[j].seq = sess[j].seq /\ sess'[j].cap = sess[j].cap
                         /\ sess'[j].leave = sess[j].leave /\ (sess[j].open => sess'[j].open)
                         /\ sess'[j].live = sess[j].live
    BY <1>5 DEF Kick, TInv, TypeOK, SessTyped, Entry
  <2>2. /\ cpu = None
        /\ UNCHANGED <<claimVars, pc, buildVars, attached, taken, running, answered, scaler, rows>>
    BY <1>5 DEF Kick
  <2>. QED  BY <2>1, <2>2
<1>6. CASE Restore
  BY <1>6 DEF Restore
<1>7. CASE ScaleApply
  <2>1. \A j \in Joins : scaler'.join = j => scaler.join = j /\ scaler'.live = scaler.live
    BY <1>7 DEF ScaleApply, TInv, TypeOK, HostTyped
  <2>2. /\ cpu = None
        /\ UNCHANGED <<sess, claimVars, pc, buildVars, attached, taken, running, answered, rows>>
    BY <1>7 DEF ScaleApply
  <2>. QED  BY <2>1, <2>2
<1>8. CASE ScaleRecord
  <2>1. scaler.join \in Joins /\ scaler.live # None
    BY <1>8 DEF ScaleRecord, TInv, TypeOK, HostTyped
  <2>2. \A j \in Joins : /\ sess'[j].seq = sess[j].seq /\ sess'[j].cap = sess[j].cap
                         /\ sess'[j].leave = sess[j].leave /\ (sess[j].open => sess'[j].open)
                         /\ sess'[j].live = IF j = scaler.join THEN scaler.live ELSE sess[j].live
    BY <1>8, <2>1 DEF ScaleRecord, TInv, TypeOK, SessTyped, Entry
  <2>3. /\ cpu = None /\ scaler'.join = None
        /\ UNCHANGED <<claimVars, pc, buildVars, attached, taken, running, answered, rows>>
    BY <1>8 DEF ScaleRecord
  <2>. QED  BY <2>1, <2>2, <2>3
<1>. QED  BY <1>1, <1>2, <1>3, <1>4, <1>5, <1>6, <1>7, <1>8 DEF Host

LEMMA OutsideDisplays ==
    ASSUME TInv, ClaimInv, NEW j \in Joins, DisplayInv(j), OutsideStays
    PROVE  DisplayInv(j)'
<1>1. \A b \in Attempts : pc[b] \notin HeldPcs
  BY LifecycleAssumption DEF ClaimInv, HeldBySync, OutsideStays
<1>2. FreshRow(j)'
  BY DEF DisplayInv, FreshRow, Fresh, OutsideStays
<1>3. ShownRow(j)'
  <2>. SUFFICES ASSUME Alive(j)', sess'[j].live # None
                PROVE  /\ sess'[j].live.id \in attached
                       /\ \A b \in Attempts : jn[b] = j => KnowsDisplay(b, sess'[j].live.id)
                       /\ scaler'.join = j => scaler'.live.id = sess'[j].live.id
    BY DEF ShownRow, KnowsDisplay, OutsideStays
  <2>1. Alive(j)
    BY DEF Alive, OutsideStays
  <2>2. sess[j].live # None
    BY <2>1 DEF DisplayInv, AloneRow, OutsideStays
  <2>3. /\ sess[j].live.id \in attached
        /\ \A b \in Attempts : jn[b] = j => KnowsDisplay(b, sess[j].live.id)
        /\ scaler.join = j => scaler.live.id = sess[j].live.id
    BY <2>1, <2>2 DEF DisplayInv, ShownRow
  <2>4. sess'[j].live.id = sess[j].live.id
    BY <2>3 DEF OutsideStays
  <2>. QED  BY <2>3, <2>4 DEF OutsideStays
<1>4. AloneRow(j)'
  BY DEF DisplayInv, AloneRow, Alive, BuildsFirst, OutsideStays
<1>5. LocalsTrue(j)'
  BY <1>1 DEF DisplayInv, LocalsTrue, Doomed, OutsideStays, HeldPcs
<1>. QED  BY <1>2, <1>3, <1>4, <1>5 DEF DisplayInv

\* An offer only continues a join that has a display or was answered before.
LEMMA OfferContinues ==
    ASSUME TInv, NEW a \in Attempts, Offer(a), cont'[a]
    PROVE  sess[jn'[a]].live # None \/ \E b \in answered : jn[b] = jn'[a]
<1>1. PICK claim \in Claims(a) : \E c \in Continuations(a, claim) :
         \E j \in IF c = None THEN Joins \ minted ELSE {c} :
            jn' = [jn EXCEPT ![a] = j] /\ cont' = [cont EXCEPT ![a] = (c # None)]
  BY DEF Offer
<1>2. PICK c \in Continuations(a, claim) :
         \E j \in IF c = None THEN Joins \ minted ELSE {c} :
            jn' = [jn EXCEPT ![a] = j] /\ cont' = [cont EXCEPT ![a] = (c # None)]
  BY <1>1
<1>3. jn'[a] = c /\ c # None
  BY <1>2 DEF TInv, TypeOK, TaskTyped
<1>4. CASE claim # None
  BY <1>3, <1>4 DEF Continuations, Claims
<1>5. CASE claim = None /\ PendingJoins(a) # {}
  BY <1>3, <1>5 DEF Continuations, PendingJoins
<1>6. CASE claim = None /\ PendingJoins(a) = {}
  BY <1>3, <1>6 DEF Continuations, RelayContinuations
<1>. QED  BY <1>4, <1>5, <1>6

LEMMA OfferDisplay ==
    ASSUME TInv, ClaimInv, ~Preempt, NEW a \in Attempts, Offer(a), \A j \in Joins : DisplayInv(j)
    PROVE  \A j \in Joins : DisplayInv(j)'
<1>. SUFFICES ASSUME NEW j \in Joins
              PROVE  DisplayInv(j)'
  OBVIOUS
<1>1. /\ pc[a] = "idle" /\ pc'[a] = "open" /\ \A b \in Attempts : b # a => pc'[b] = pc[b]
      /\ sess' = sess /\ had' = had /\ got' = got /\ snap' = snap /\ taken' = taken
      /\ rows' = rows /\ scaler' = scaler /\ attached' = attached /\ running' = running
      /\ answered' = answered
      /\ had[a] = None /\ got[a] = None /\ a \notin answered /\ jn[a] = None
  BY DEF Offer, Goto, osVars, TInv, TypeOK, TaskTyped, TaskWhole, Underway, ClaimInv, Numbered
<1>2. /\ jn'[a] \in Joins /\ (~cont'[a] => jn'[a] \notin minted)
      /\ minted' = minted \cup {jn'[a]}
      /\ \A b \in Attempts : b # a => jn'[b] = jn[b] /\ cont'[b] = cont[b]
      /\ cont'[a] => sess[jn'[a]].seq # 0
  BY OfferTakes, OfferJoins
<1>3. \A b \in Attempts : pc[b] \notin HeldPcs
  BY LifecycleAssumption DEF Offer, Run, ClaimInv, HeldBySync, HeldPcs
<1>4. DisplayInv(j) /\ jn[a] # j
  BY <1>1, LifecycleAssumption
<1>5. CASE jn'[a] # j
  <2>1. FreshRow(j)'
    BY <1>1, <1>2, <1>4, <1>5 DEF DisplayInv, FreshRow, Fresh
  <2>2. ShownRow(j)'
    BY <1>1, <1>2, <1>4, <1>5 DEF DisplayInv, ShownRow, Alive, KnowsDisplay
  <2>3. AloneRow(j)'
    BY <1>1, <1>2, <1>4, <1>5 DEF DisplayInv, AloneRow, Alive, BuildsFirst
  <2>4. LocalsTrue(j)'
    BY <1>1, <1>2, <1>4, <1>5 DEF DisplayInv, LocalsTrue, Doomed
  <2>. QED  BY <2>1, <2>2, <2>3, <2>4 DEF DisplayInv
<1>6. CASE jn'[a] = j
  <2>1. LocalsTrue(j)'
    BY <1>1, <1>2, <1>4, <1>6 DEF DisplayInv, LocalsTrue, Doomed
  <2>2. CASE cont'[a]
    <3>1. Alive(j)
      BY <1>2, <1>3, <1>6, <2>2 DEF Alive, HeldPcs
    <3>2. sess[j].live # None
      BY <1>4, <1>6, <2>2, <3>1, OfferContinues DEF DisplayInv, AloneRow, BuildsFirst, TInv,
             TypeOK, HostTyped
    <3>3. FreshRow(j)'
      BY <1>1, <1>2, <1>3, <1>6, <2>2 DEF FreshRow, Fresh, HeldPcs
    <3>4. ShownRow(j)'
      BY <1>1, <1>2, <1>4, <1>6, <2>2, <3>1, <3>2 DEF DisplayInv, ShownRow, KnowsDisplay
    <3>5. AloneRow(j)'
      BY <1>1, <3>2 DEF AloneRow
    <3>. QED  BY <2>1, <3>3, <3>4, <3>5 DEF DisplayInv
  <2>3. CASE ~cont'[a]
    <3>1. sess[j].live = None /\ sess[j].cap = None /\ j \notin rows /\ scaler.join # j
      BY <1>2, <1>4, <1>6, <2>3 DEF DisplayInv, FreshRow, Fresh
    <3>2. sess[j].seq = 0
      BY <1>2, <1>6, <2>3 DEF ClaimInv, FreshJoins
    <3>3. FreshRow(j)' /\ ShownRow(j)' /\ AloneRow(j)'
      BY <1>1, <3>1, <3>2 DEF FreshRow, ShownRow, AloneRow, Alive
    <3>. QED  BY <2>1, <3>3 DEF DisplayInv
  <2>. QED  BY <2>2, <2>3
<1>. QED  BY <1>5, <1>6

-----------------------------------------------------------------------------
(* Captures and those who serve.                                                           *)

\* The capture a session has registered is that of its current attempt, or of the one the
\* current attempt is about to stop.
CapTrue(j) ==
    sess[j].cap # None =>
        /\ sess[j].seq # 0 /\ sess[j].cap \in answered /\ jn[sess[j].cap] = j
        /\ \/ seq[sess[j].cap] = sess[j].seq
           \/ \E b \in Attempts : jn[b] = j /\ pc[b] = "stopPrev"

AnsweredPcs == ServePcs \cup {"forget", "remove", "removeDisplay", "done"}

HoldsCapture(b) == pc[b] \in {"readScale", "writeScale", "join", "standDown", "activate", "arm",
                              "capture"}

ServesTrue(b) ==
    /\ b \in answered => pc[b] \in AnsweredPcs
    /\ pc[b] \in {"activate", "arm", "capture"} => b \in running
    /\ pc[b] = "capture" => sess[jn[b]].leave = b /\ jn[b] \in rows
    /\ Serving(b) /\ IsCurrent(b) =>
          sess[jn[b]].cap = b /\ b \in running /\ sess[jn[b]].leave = b /\ jn[b] \in rows
    /\ b \in running =>
          \/ HoldsCapture(b)
          \/ sess[jn[b]].cap = b /\ pc[b] \in {"spawned", "wait", "close", "stopOwn"}

ServeInv(j) == CapTrue(j) /\ \A b \in Attempts : jn[b] = j => ServesTrue(b)

\* A task leaves the captures of the other joins as they are.
LEMMA OtherServes ==
    ASSUME TInv, NEW a \in Attempts, WorksOn(a), NEW j \in Joins, j # jn[a], ServeInv(j)
    PROVE  ServeInv(j)'
<1>1. /\ sess'[j] = sess[j] /\ jn' = jn /\ (j \in rows' <=> j \in rows)
      /\ \A b \in Attempts : jn[b] = j =>
            /\ pc'[b] = pc[b] /\ seq'[b] = seq[b]
            /\ b \in answered' <=> b \in answered
            /\ b \in running' <=> b \in running
  BY DEF WorksOn
<1>2. CapTrue(j)'
  BY <1>1 DEF ServeInv, CapTrue, TInv, TypeOK, SessTyped, Entry
<1>3. (\A b \in Attempts : jn[b] = j => ServesTrue(b))'
  BY <1>1 DEF ServeInv, ServesTrue, Serving, IsCurrent, HoldsCapture
<1>. QED  BY <1>2, <1>3 DEF ServeInv

LEMMA OutsideServes ==
    ASSUME TInv, ClaimInv, NEW j \in Joins, ServeInv(j), OutsideStays
    PROVE  ServeInv(j)'
<1>1. CapTrue(j)'
  BY DEF ServeInv, CapTrue, OutsideStays
<1>2. \A b \in Attempts : jn[b] = j /\ IsCurrent(b)' => IsCurrent(b) \/ sess[j].seq = 0
  BY DEF IsCurrent, OutsideStays, ClaimInv, RowsOpen
<1>3. \A b \in Attempts : jn[b] = j /\ Serving(b) => seq[b] # 0
  BY DEF ClaimInv, Numbered, Late, Serving
<1>4. (\A b \in Attempts : jn[b] = j => ServesTrue(b))'
  BY <1>2, <1>3 DEF ServeInv, ServesTrue, Serving, IsCurrent, HoldsCapture, OutsideStays
<1>. QED  BY <1>1, <1>4 DEF ServeInv

LEMMA OfferServes ==
    ASSUME TInv, ClaimInv, NEW a \in Attempts, Offer(a), NEW j \in Joins, ServeInv(j)
    PROVE  ServeInv(j)'
<1>1. /\ pc[a] = "idle" /\ pc'[a] = "open" /\ \A b \in Attempts : b # a => pc'[b] = pc[b]
      /\ sess' = sess /\ rows' = rows /\ running' = running /\ answered' = answered /\ seq' = seq
      /\ a \notin answered /\ a \notin running /\ jn[a] = None
  BY DEF Offer, Goto, TInv, TypeOK, TaskTyped, Underway, EarlyPcs, ClaimInv, Numbered
<1>2. \A b \in Attempts : b # a => jn'[b] = jn[b]
  BY OfferTakes
<1>3. CapTrue(j)'
  BY <1>1, <1>2 DEF ServeInv, CapTrue, TInv, TypeOK, HostTyped
<1>4. (\A b \in Attempts : jn[b] = j => ServesTrue(b))'
  BY <1>1, <1>2 DEF ServeInv, ServesTrue, Serving, IsCurrent, HoldsCapture
<1>. QED  BY <1>3, <1>4 DEF ServeInv

\* What the numbers of a join say to one of its attempts.
LEMMA NumbersOfJoin ==
    ASSUME TInv, ClaimInv, NEW a \in Attempts, pc[a] # "idle", NEW j \in Joins, j = jn[a],
           ServeInv(j)
    PROVE  /\ pc[a] \in CurrentPcs =>
                IsCurrent(a) /\ \A b \in Attempts : jn[b] = j /\ Late(b) /\ IsCurrent(b) => b = a
           /\ \A b \in Attempts : jn[b] = j /\ Late(b) =>
                /\ seq[b] # 0 /\ (Late(a) /\ seq[b] = seq[a] => b = a)
                /\ sess[j].seq # 0 => seq[b] <= sess[j].seq
           /\ sess[j].cap # None => sess[j].cap \in Attempts /\ Late(sess[j].cap)
           /\ sess[j].seq # 0 => sess[j].open
<1>1. \A b \in Attempts : jn[b] = j /\ Late(b) =>
          /\ seq[b] # 0 /\ (Late(a) /\ seq[b] = seq[a] => b = a)
          /\ sess[j].seq # 0 => seq[b] <= sess[j].seq
  BY DEF ClaimInv, Numbered
<1>2. pc[a] \in CurrentPcs => IsCurrent(a) /\ Late(a)
  BY DEF ClaimInv, StandsCurrent, CurrentPcs, Late
<1>3. \A b \in Attempts : jn[b] = j /\ IsCurrent(b) /\ IsCurrent(a) => seq[b] = seq[a]
  BY DEF IsCurrent
<1>4. sess[j].cap # None => sess[j].cap \in answered /\ jn[sess[j].cap] = j
  BY DEF ServeInv, CapTrue
<1>5. answered \subseteq Attempts
  BY DEF TInv, TypeOK, HostTyped
<1>6. sess[j].cap # None => pc[sess[j].cap] \in AnsweredPcs
  BY <1>4, <1>5 DEF ServeInv, ServesTrue
<1>7. sess[j].cap # None => sess[j].cap \in Attempts /\ Late(sess[j].cap)
  BY <1>4, <1>5, <1>6 DEF AnsweredPcs, ServePcs, Late
<1>8. sess[j].seq # 0 => sess[j].open
  BY DEF ClaimInv, RowsOpen
<1>. QED  BY <1>1, <1>2, <1>3, <1>7, <1>8

LEMMA ReuseUntouchedServes ==
    ASSUME TInv, ClaimInv, ~Preempt, NEW a \in Attempts, ReuseUntouched(a), WorksOn(a),
           NEW j \in Joins, j = jn[a], ServeInv(j)
    PROVE  ServeInv(j)'
<1>1. \A b \in Attempts : b # a => pc[b] \notin HeldPcs
  BY OthersYield DEF ReuseUntouched
<1>2. CapTrue(j)'
  BY <1>1 DEF ReuseUntouched, Goto, claimVars, CapTrue, WorksOn, ServeInv, TInv, TypeOK,
         TaskTyped, SessTyped, Entry, HeldPcs
<1>3. \A b \in Attempts : jn[b] = j /\ b # a => ServesTrue(b)'
  BY <1>1 DEF ReuseUntouched, Goto, claimVars, ServesTrue, Serving, IsCurrent, HoldsCapture,
         WorksOn, ServeInv, TInv, TypeOK, TaskTyped, HeldPcs
<1>4. ServesTrue(a)'
  BY <1>1 DEF ReuseUntouched, Goto, claimVars, ServesTrue, Serving, IsCurrent, HoldsCapture,
         AnsweredPcs, ServePcs, WorksOn, ServeInv, TInv, TypeOK, TaskTyped, Underway, EarlyPcs
<1>. QED  BY <1>2, <1>3, <1>4 DEF ServeInv, WorksOn

LEMMA ReuseChangeServes ==
    ASSUME TInv, ClaimInv, ~Preempt, NEW a \in Attempts, ReuseChange(a), WorksOn(a),
           NEW j \in Joins, j = jn[a], ServeInv(j)
    PROVE  ServeInv(j)'
<1>1. \A b \in Attempts : b # a => pc[b] \notin HeldPcs
  BY OthersYield DEF ReuseChange
<1>2. CapTrue(j)'
  BY <1>1 DEF ReuseChange, Goto, claimVars, CapTrue, WorksOn, ServeInv, TInv, TypeOK,
         TaskTyped, SessTyped, Entry, HeldPcs
<1>3. \A b \in Attempts : jn[b] = j /\ b # a => ServesTrue(b)'
  BY <1>1 DEF ReuseChange, Goto, claimVars, ServesTrue, Serving, IsCurrent, HoldsCapture,
         WorksOn, ServeInv, TInv, TypeOK, TaskTyped, HeldPcs
<1>4. ServesTrue(a)'
  BY <1>1 DEF ReuseChange, Goto, claimVars, ServesTrue, Serving, IsCurrent, HoldsCapture,
         AnsweredPcs, ServePcs, WorksOn, ServeInv, TInv, TypeOK, TaskTyped, Underway, EarlyPcs
<1>. QED  BY <1>2, <1>3, <1>4 DEF ServeInv, WorksOn

LEMMA NeedDisplayServes ==
    ASSUME TInv, ClaimInv, ~Preempt, NEW a \in Attempts, NeedDisplay(a), WorksOn(a),
           NEW j \in Joins, j = jn[a], ServeInv(j)
    PROVE  ServeInv(j)'
<1>1. \A b \in Attempts : b # a => pc[b] \notin HeldPcs
  BY OthersYield DEF NeedDisplay
<1>2. CapTrue(j)'
  BY <1>1 DEF NeedDisplay, Goto, claimVars, buildVars, CapTrue, WorksOn, ServeInv, TInv,
         TypeOK, TaskTyped, SessTyped, Entry, HeldPcs
<1>3. \A b \in Attempts : jn[b] = j /\ b # a => ServesTrue(b)'
  BY <1>1 DEF NeedDisplay, Goto, claimVars, buildVars, ServesTrue, Serving, IsCurrent,
         HoldsCapture, WorksOn, ServeInv, TInv, TypeOK, TaskTyped, HeldPcs
<1>4. ServesTrue(a)'
  BY <1>1 DEF NeedDisplay, Goto, claimVars, buildVars, ServesTrue, Serving, IsCurrent,
         HoldsCapture, AnsweredPcs, ServePcs, WorksOn, ServeInv, TInv, TypeOK, TaskTyped,
         Underway, EarlyPcs
<1>. QED  BY <1>2, <1>3, <1>4 DEF ServeInv, WorksOn

LEMMA CreateDisplayServes ==
    ASSUME TInv, ClaimInv, ~Preempt, NEW a \in Attempts, CreateDisplay(a), WorksOn(a),
           NEW j \in Joins, j = jn[a], ServeInv(j)
    PROVE  ServeInv(j)'
<1>1. \A b \in Attempts : b # a => pc[b] \notin HeldPcs
  BY OthersYield DEF CreateDisplay
<1>2. CapTrue(j)'
  BY <1>1 DEF CreateDisplay, Goto, claimVars, CapTrue, WorksOn, ServeInv, TInv, TypeOK,
         TaskTyped, SessTyped, Entry, HeldPcs
<1>3. \A b \in Attempts : jn[b] = j /\ b # a => ServesTrue(b)'
  BY <1>1 DEF CreateDisplay, Goto, claimVars, ServesTrue, Serving, IsCurrent, HoldsCapture,
         WorksOn, ServeInv, TInv, TypeOK, TaskTyped, HeldPcs
<1>4. ServesTrue(a)'
  BY <1>1 DEF CreateDisplay, Goto, claimVars, ServesTrue, Serving, IsCurrent, HoldsCapture,
         AnsweredPcs, ServePcs, WorksOn, ServeInv, TInv, TypeOK, TaskTyped, Underway, EarlyPcs
<1>. QED  BY <1>2, <1>3, <1>4 DEF ServeInv, WorksOn

LEMMA AttachServes ==
    ASSUME TInv, ClaimInv, ~Preempt, NEW a \in Attempts, Attach(a), WorksOn(a),
           NEW j \in Joins, j = jn[a], ServeInv(j)
    PROVE  ServeInv(j)'
<1>1. \A b \in Attempts : b # a => pc[b] \notin HeldPcs
  BY OthersYield DEF Attach
<1>2. CapTrue(j)'
  BY <1>1 DEF Attach, Goto, claimVars, CapTrue, WorksOn, ServeInv, TInv, TypeOK, TaskTyped,
         SessTyped, Entry, HeldPcs
<1>3. \A b \in Attempts : jn[b] = j /\ b # a => ServesTrue(b)'
  BY <1>1 DEF Attach, Goto, claimVars, ServesTrue, Serving, IsCurrent, HoldsCapture, WorksOn,
         ServeInv, TInv, TypeOK, TaskTyped, HeldPcs
<1>4. ServesTrue(a)'
  BY <1>1 DEF Attach, Goto, claimVars, ServesTrue, Serving, IsCurrent, HoldsCapture,
         AnsweredPcs, ServePcs, WorksOn, ServeInv, TInv, TypeOK, TaskTyped, Underway, EarlyPcs
<1>. QED  BY <1>2, <1>3, <1>4 DEF ServeInv, WorksOn

LEMMA AttachFailedServes ==
    ASSUME TInv, ClaimInv, ~Preempt, NEW a \in Attempts, AttachFailed(a), WorksOn(a),
           NEW j \in Joins, j = jn[a], ServeInv(j)
    PROVE  ServeInv(j)'
<1>1. \A b \in Attempts : b # a => pc[b] \notin HeldPcs
  BY OthersYield DEF AttachFailed
<1>2. CapTrue(j)'
  BY <1>1 DEF AttachFailed, Goto, claimVars, CapTrue, WorksOn, ServeInv, TInv, TypeOK,
         TaskTyped, SessTyped, Entry, HeldPcs
<1>3. \A b \in Attempts : jn[b] = j /\ b # a => ServesTrue(b)'
  BY <1>1 DEF AttachFailed, Goto, claimVars, ServesTrue, Serving, IsCurrent, HoldsCapture,
         WorksOn, ServeInv, TInv, TypeOK, TaskTyped, HeldPcs
<1>4. ServesTrue(a)'
  BY <1>1 DEF AttachFailed, Goto, claimVars, ServesTrue, Serving, IsCurrent, HoldsCapture,
         AnsweredPcs, ServePcs, WorksOn, ServeInv, TInv, TypeOK, TaskTyped, Underway, EarlyPcs
<1>. QED  BY <1>2, <1>3, <1>4 DEF ServeInv, WorksOn

LEMMA ModeAppliedServes ==
    ASSUME TInv, ClaimInv, ~Preempt, NEW a \in Attempts, ModeApplied(a), WorksOn(a),
           NEW j \in Joins, j = jn[a], ServeInv(j)
    PROVE  ServeInv(j)'
<1>1. \A b \in Attempts : b # a => pc[b] \notin HeldPcs
  BY OthersYield DEF ModeApplied
<1>2. CapTrue(j)'
  BY <1>1 DEF ModeApplied, Goto, claimVars, CapTrue, WorksOn, ServeInv, TInv, TypeOK,
         TaskTyped, SessTyped, Entry, HeldPcs
<1>3. \A b \in Attempts : jn[b] = j /\ b # a => ServesTrue(b)'
  BY <1>1 DEF ModeApplied, Goto, claimVars, ServesTrue, Serving, IsCurrent, HoldsCapture,
         WorksOn, ServeInv, TInv, TypeOK, TaskTyped, HeldPcs
<1>4. ServesTrue(a)'
  BY <1>1 DEF ModeApplied, Goto, claimVars, ServesTrue, Serving, IsCurrent, HoldsCapture,
         AnsweredPcs, ServePcs, WorksOn, ServeInv, TInv, TypeOK, TaskTyped, Underway, EarlyPcs
<1>. QED  BY <1>2, <1>3, <1>4 DEF ServeInv, WorksOn

LEMMA ModeRefusedServes ==
    ASSUME TInv, ClaimInv, ~Preempt, NEW a \in Attempts, ModeRefused(a), WorksOn(a),
           NEW j \in Joins, j = jn[a], ServeInv(j)
    PROVE  ServeInv(j)'
<1>1. \A b \in Attempts : b # a => pc[b] \notin HeldPcs
  BY OthersYield DEF ModeRefused
<1>2. CapTrue(j)'
  BY <1>1 DEF ModeRefused, Goto, claimVars, CapTrue, WorksOn, ServeInv, TInv, TypeOK,
         TaskTyped, SessTyped, Entry, HeldPcs
<1>3. \A b \in Attempts : jn[b] = j /\ b # a => ServesTrue(b)'
  BY <1>1 DEF ModeRefused, Goto, claimVars, ServesTrue, Serving, IsCurrent, HoldsCapture,
         WorksOn, ServeInv, TInv, TypeOK, TaskTyped, HeldPcs
<1>4. ServesTrue(a)'
  BY <1>1 DEF ModeRefused, Goto, claimVars, ServesTrue, Serving, IsCurrent, HoldsCapture,
         AnsweredPcs, ServePcs, WorksOn, ServeInv, TInv, TypeOK, TaskTyped, Underway, EarlyPcs
<1>. QED  BY <1>2, <1>3, <1>4 DEF ServeInv, WorksOn

LEMMA ReadBackServes ==
    ASSUME TInv, ClaimInv, ~Preempt, NEW a \in Attempts, ReadBack(a), WorksOn(a),
           NEW j \in Joins, j = jn[a], ServeInv(j)
    PROVE  ServeInv(j)'
<1>1. \A b \in Attempts : b # a => pc[b] \notin HeldPcs
  BY OthersYield DEF ReadBack
<1>2. CapTrue(j)'
  BY <1>1 DEF ReadBack, Goto, claimVars, CapTrue, WorksOn, ServeInv, TInv, TypeOK, TaskTyped,
         SessTyped, Entry, HeldPcs
<1>3. \A b \in Attempts : jn[b] = j /\ b # a => ServesTrue(b)'
  BY <1>1 DEF ReadBack, Goto, claimVars, ServesTrue, Serving, IsCurrent, HoldsCapture, WorksOn,
         ServeInv, TInv, TypeOK, TaskTyped, HeldPcs
<1>4. ServesTrue(a)'
  BY <1>1 DEF ReadBack, Goto, claimVars, ServesTrue, Serving, IsCurrent, HoldsCapture,
         AnsweredPcs, ServePcs, WorksOn, ServeInv, TInv, TypeOK, TaskTyped, Underway, EarlyPcs
<1>. QED  BY <1>2, <1>3, <1>4 DEF ServeInv, WorksOn

LEMMA CheckBeforeCaptureServes ==
    ASSUME TInv, ClaimInv, ~Preempt, NEW a \in Attempts, CheckBeforeCapture(a), WorksOn(a),
           NEW j \in Joins, j = jn[a], ServeInv(j)
    PROVE  ServeInv(j)'
<1>1. \A b \in Attempts : b # a => pc[b] \notin HeldPcs
  BY OthersYield DEF CheckBeforeCapture
<1>2. CapTrue(j)'
  BY <1>1 DEF CheckBeforeCapture, Goto, claimVars, buildVars, CapTrue, WorksOn, ServeInv, TInv,
         TypeOK, TaskTyped, SessTyped, Entry, HeldPcs
<1>3. \A b \in Attempts : jn[b] = j /\ b # a => ServesTrue(b)'
  BY <1>1 DEF CheckBeforeCapture, Goto, claimVars, buildVars, ServesTrue, Serving, IsCurrent,
         HoldsCapture, WorksOn, ServeInv, TInv, TypeOK, TaskTyped, HeldPcs
<1>4. ServesTrue(a)'
  BY <1>1 DEF CheckBeforeCapture, Goto, claimVars, buildVars, ServesTrue, Serving, IsCurrent,
         HoldsCapture, AnsweredPcs, ServePcs, WorksOn, ServeInv, TInv, TypeOK, TaskTyped,
         Underway, EarlyPcs
<1>. QED  BY <1>2, <1>3, <1>4 DEF ServeInv, WorksOn

LEMMA StartCaptureServes ==
    ASSUME TInv, ClaimInv, ~Preempt, NEW a \in Attempts, StartCapture(a), WorksOn(a),
           NEW j \in Joins, j = jn[a], ServeInv(j)
    PROVE  ServeInv(j)'
<1>1. \A b \in Attempts : b # a => pc[b] \notin HeldPcs
  BY OthersYield DEF StartCapture
<1>2. CapTrue(j)'
  BY <1>1 DEF StartCapture, Goto, claimVars, buildVars, CapTrue, WorksOn, ServeInv, TInv,
         TypeOK, TaskTyped, SessTyped, Entry, HeldPcs
<1>3. \A b \in Attempts : jn[b] = j /\ b # a => ServesTrue(b)'
  BY <1>1 DEF StartCapture, Goto, claimVars, buildVars, ServesTrue, Serving, IsCurrent,
         HoldsCapture, WorksOn, ServeInv, TInv, TypeOK, TaskTyped, HeldPcs
<1>4. ServesTrue(a)'
  BY <1>1 DEF StartCapture, Goto, claimVars, buildVars, ServesTrue, Serving, IsCurrent,
         HoldsCapture, AnsweredPcs, ServePcs, WorksOn, ServeInv, TInv, TypeOK, TaskTyped,
         Underway, EarlyPcs
<1>. QED  BY <1>2, <1>3, <1>4 DEF ServeInv, WorksOn

LEMMA ReadScaleServes ==
    ASSUME TInv, ClaimInv, ~Preempt, NEW a \in Attempts, ReadScale(a), WorksOn(a),
           NEW j \in Joins, j = jn[a], ServeInv(j)
    PROVE  ServeInv(j)'
<1>1. \A b \in Attempts : b # a => pc[b] \notin HeldPcs
  BY OthersYield DEF ReadScale
<1>2. CapTrue(j)'
  BY <1>1 DEF ReadScale, Goto, claimVars, CapTrue, WorksOn, ServeInv, TInv, TypeOK, TaskTyped,
         SessTyped, Entry, HeldPcs
<1>3. \A b \in Attempts : jn[b] = j /\ b # a => ServesTrue(b)'
  BY <1>1 DEF ReadScale, Goto, claimVars, ServesTrue, Serving, IsCurrent, HoldsCapture,
         WorksOn, ServeInv, TInv, TypeOK, TaskTyped, HeldPcs
<1>4. ServesTrue(a)'
  BY <1>1 DEF ReadScale, Goto, claimVars, ServesTrue, Serving, IsCurrent, HoldsCapture,
         AnsweredPcs, ServePcs, WorksOn, ServeInv, TInv, TypeOK, TaskTyped, Underway, EarlyPcs
<1>. QED  BY <1>2, <1>3, <1>4 DEF ServeInv, WorksOn

LEMMA HalfFailedServes ==
    ASSUME TInv, ClaimInv, ~Preempt, NEW a \in Attempts, HalfFailed(a), WorksOn(a),
           NEW j \in Joins, j = jn[a], ServeInv(j)
    PROVE  ServeInv(j)'
<1>1. \A b \in Attempts : b # a => pc[b] \notin HeldPcs
  BY OthersYield DEF HalfFailed
<1>2. CapTrue(j)'
  BY <1>1 DEF HalfFailed, Goto, claimVars, buildVars, CapTrue, WorksOn, ServeInv, TInv, TypeOK,
         TaskTyped, SessTyped, Entry, HeldPcs
<1>3. \A b \in Attempts : jn[b] = j /\ b # a => ServesTrue(b)'
  BY <1>1 DEF HalfFailed, Goto, claimVars, buildVars, ServesTrue, Serving, IsCurrent,
         HoldsCapture, WorksOn, ServeInv, TInv, TypeOK, TaskTyped, HeldPcs
<1>4. ServesTrue(a)'
  BY <1>1 DEF HalfFailed, Goto, claimVars, buildVars, ServesTrue, Serving, IsCurrent,
         HoldsCapture, AnsweredPcs, ServePcs, WorksOn, ServeInv, TInv, TypeOK, TaskTyped,
         Underway, EarlyPcs
<1>. QED  BY <1>2, <1>3, <1>4 DEF ServeInv, WorksOn

LEMMA BothReadyServes ==
    ASSUME TInv, ClaimInv, ~Preempt, NEW a \in Attempts, BothReady(a), WorksOn(a),
           NEW j \in Joins, j = jn[a], ServeInv(j)
    PROVE  ServeInv(j)'
<1>1. \A b \in Attempts : b # a => pc[b] \notin HeldPcs
  BY OthersYield DEF BothReady
<1>2. CapTrue(j)'
  BY <1>1 DEF BothReady, Goto, claimVars, buildVars, CapTrue, WorksOn, ServeInv, TInv, TypeOK,
         TaskTyped, SessTyped, Entry, HeldPcs
<1>3. \A b \in Attempts : jn[b] = j /\ b # a => ServesTrue(b)'
  BY <1>1 DEF BothReady, Goto, claimVars, buildVars, ServesTrue, Serving, IsCurrent,
         HoldsCapture, WorksOn, ServeInv, TInv, TypeOK, TaskTyped, HeldPcs
<1>4. ServesTrue(a)'
  BY <1>1 DEF BothReady, Goto, claimVars, buildVars, ServesTrue, Serving, IsCurrent,
         HoldsCapture, AnsweredPcs, ServePcs, WorksOn, ServeInv, TInv, TypeOK, TaskTyped,
         Underway, EarlyPcs
<1>. QED  BY <1>2, <1>3, <1>4 DEF ServeInv, WorksOn

LEMMA StandDownServes ==
    ASSUME TInv, ClaimInv, ~Preempt, NEW a \in Attempts, StandDown(a), WorksOn(a),
           NEW j \in Joins, j = jn[a], ServeInv(j)
    PROVE  ServeInv(j)'
<1>1. \A b \in Attempts : b # a => pc[b] \notin HeldPcs
  BY OthersYield DEF StandDown
<1>2. CapTrue(j)'
  BY <1>1 DEF StandDown, Goto, claimVars, GoOrEnd, locals, CapTrue, WorksOn, ServeInv, TInv,
         TypeOK, TaskTyped, SessTyped, Entry, HeldPcs
<1>3. \A b \in Attempts : jn[b] = j /\ b # a => ServesTrue(b)'
  BY <1>1 DEF StandDown, Goto, claimVars, GoOrEnd, locals, ServesTrue, Serving, IsCurrent,
         HoldsCapture, WorksOn, ServeInv, TInv, TypeOK, TaskTyped, HeldPcs
<1>4. ServesTrue(a)'
  BY <1>1 DEF StandDown, Goto, claimVars, GoOrEnd, locals, ServesTrue, Serving, IsCurrent,
         HoldsCapture, AnsweredPcs, ServePcs, WorksOn, ServeInv, TInv, TypeOK, TaskTyped,
         Underway, EarlyPcs
<1>. QED  BY <1>2, <1>3, <1>4 DEF ServeInv, WorksOn

LEMMA ActivatedServes ==
    ASSUME TInv, ClaimInv, ~Preempt, NEW a \in Attempts, Activated(a), WorksOn(a),
           NEW j \in Joins, j = jn[a], ServeInv(j)
    PROVE  ServeInv(j)'
<1>1. \A b \in Attempts : b # a => pc[b] \notin HeldPcs
  BY OthersYield DEF Activated
<1>2. CapTrue(j)'
  BY <1>1 DEF Activated, Goto, claimVars, buildVars, CapTrue, WorksOn, ServeInv, TInv, TypeOK,
         TaskTyped, SessTyped, Entry, HeldPcs
<1>3. \A b \in Attempts : jn[b] = j /\ b # a => ServesTrue(b)'
  BY <1>1 DEF Activated, Goto, claimVars, buildVars, ServesTrue, Serving, IsCurrent,
         HoldsCapture, WorksOn, ServeInv, TInv, TypeOK, TaskTyped, HeldPcs
<1>4. ServesTrue(a)'
  BY <1>1 DEF Activated, Goto, claimVars, buildVars, ServesTrue, Serving, IsCurrent,
         HoldsCapture, AnsweredPcs, ServePcs, WorksOn, ServeInv, TInv, TypeOK, TaskTyped,
         Underway, EarlyPcs
<1>. QED  BY <1>2, <1>3, <1>4 DEF ServeInv, WorksOn

LEMMA ActivateFailedServes ==
    ASSUME TInv, ClaimInv, ~Preempt, NEW a \in Attempts, ActivateFailed(a), WorksOn(a),
           NEW j \in Joins, j = jn[a], ServeInv(j)
    PROVE  ServeInv(j)'
<1>1. \A b \in Attempts : b # a => pc[b] \notin HeldPcs
  BY OthersYield DEF ActivateFailed
<1>2. CapTrue(j)'
  BY <1>1 DEF ActivateFailed, Goto, claimVars, buildVars, CapTrue, WorksOn, ServeInv, TInv,
         TypeOK, TaskTyped, SessTyped, Entry, HeldPcs
<1>3. \A b \in Attempts : jn[b] = j /\ b # a => ServesTrue(b)'
  BY <1>1 DEF ActivateFailed, Goto, claimVars, buildVars, ServesTrue, Serving, IsCurrent,
         HoldsCapture, WorksOn, ServeInv, TInv, TypeOK, TaskTyped, HeldPcs
<1>4. ServesTrue(a)'
  BY <1>1 DEF ActivateFailed, Goto, claimVars, buildVars, ServesTrue, Serving, IsCurrent,
         HoldsCapture, AnsweredPcs, ServePcs, WorksOn, ServeInv, TInv, TypeOK, TaskTyped,
         Underway, EarlyPcs
<1>. QED  BY <1>2, <1>3, <1>4 DEF ServeInv, WorksOn

LEMMA AbandonServes ==
    ASSUME TInv, ClaimInv, ~Preempt, NEW a \in Attempts, Abandon(a), WorksOn(a),
           NEW j \in Joins, j = jn[a], ServeInv(j)
    PROVE  ServeInv(j)'
<1>1. \A b \in Attempts : b # a => pc[b] \notin HeldPcs
  BY OthersYield DEF Abandon
<1>2. CapTrue(j)'
  BY <1>1 DEF Abandon, Goto, claimVars, GoOrEnd, locals, CapTrue, WorksOn, ServeInv, TInv,
         TypeOK, TaskTyped, SessTyped, Entry, HeldPcs
<1>3. \A b \in Attempts : jn[b] = j /\ b # a => ServesTrue(b)'
  BY <1>1 DEF Abandon, Goto, claimVars, GoOrEnd, locals, ServesTrue, Serving, IsCurrent,
         HoldsCapture, WorksOn, ServeInv, TInv, TypeOK, TaskTyped, HeldPcs
<1>4. ServesTrue(a)'
  BY <1>1 DEF Abandon, Goto, claimVars, GoOrEnd, locals, ServesTrue, Serving, IsCurrent,
         HoldsCapture, AnsweredPcs, ServePcs, WorksOn, ServeInv, TInv, TypeOK, TaskTyped,
         Underway, EarlyPcs
<1>. QED  BY <1>2, <1>3, <1>4 DEF ServeInv, WorksOn

LEMMA GraceOverServes ==
    ASSUME TInv, ClaimInv, ~Preempt, NEW a \in Attempts, GraceOver(a), WorksOn(a),
           NEW j \in Joins, j = jn[a], ServeInv(j)
    PROVE  ServeInv(j)'
<1>1. \A b \in Attempts : b # a => pc[b] \notin HeldPcs
  BY OthersYield DEF GraceOver
<1>2. CapTrue(j)'
  BY <1>1 DEF GraceOver, Goto, claimVars, GoOrEnd, locals, CapTrue, WorksOn, ServeInv, TInv,
         TypeOK, TaskTyped, SessTyped, Entry, HeldPcs
<1>3. \A b \in Attempts : jn[b] = j /\ b # a => ServesTrue(b)'
  BY <1>1 DEF GraceOver, Goto, claimVars, GoOrEnd, locals, ServesTrue, Serving, IsCurrent,
         HoldsCapture, WorksOn, ServeInv, TInv, TypeOK, TaskTyped, HeldPcs
<1>4. ServesTrue(a)'
  BY <1>1 DEF GraceOver, Goto, claimVars, GoOrEnd, locals, ServesTrue, Serving, IsCurrent,
         HoldsCapture, AnsweredPcs, ServePcs, WorksOn, ServeInv, TInv, TypeOK, TaskTyped,
         Underway, EarlyPcs
<1>. QED  BY <1>2, <1>3, <1>4 DEF ServeInv, WorksOn

LEMMA RemoveDisplayServes ==
    ASSUME TInv, ClaimInv, ~Preempt, NEW a \in Attempts, RemoveDisplay(a), WorksOn(a),
           NEW j \in Joins, j = jn[a], ServeInv(j)
    PROVE  ServeInv(j)'
<1>1. \A b \in Attempts : b # a => pc[b] \notin HeldPcs
  BY OthersYield DEF RemoveDisplay
<1>2. CapTrue(j)'
  BY <1>1 DEF RemoveDisplay, Goto, claimVars, GoOrEnd, locals, LeaveDashboard, CapTrue,
         WorksOn, ServeInv, TInv, TypeOK, TaskTyped, SessTyped, Entry, HeldPcs
<1>3. sess[j].seq = 0 /\ \A b \in Attempts : jn[b] = j /\ Serving(b) => ~IsCurrent(b)
  BY DEF RemoveDisplay, ClaimInv, StandsCurrent, Numbered, Late, Serving, IsCurrent
<1>4. \A b \in Attempts : jn[b] = j /\ b # a => ServesTrue(b)'
  BY <1>1, <1>3 DEF RemoveDisplay, Goto, claimVars, GoOrEnd, locals, LeaveDashboard,
         ServesTrue, Serving, IsCurrent, HoldsCapture, WorksOn, ServeInv, TInv, TypeOK,
         TaskTyped, HeldPcs
<1>5. ServesTrue(a)'
  BY <1>1, <1>3 DEF RemoveDisplay, Goto, claimVars, GoOrEnd, locals, LeaveDashboard,
         ServesTrue, Serving, IsCurrent, HoldsCapture, AnsweredPcs, ServePcs, WorksOn,
         ServeInv, TInv, TypeOK, TaskTyped, Underway, EarlyPcs
<1>. QED  BY <1>2, <1>4, <1>5 DEF ServeInv, WorksOn

LEMMA ListenServes ==
    ASSUME TInv, ClaimInv, ~Preempt, NEW a \in Attempts, Listen(a), WorksOn(a),
           NEW j \in Joins, j = jn[a], ServeInv(j)
    PROVE  ServeInv(j)'
<1>1. \A b \in Attempts : b # a => pc[b] \notin HeldPcs
  BY OthersYield DEF Listen
<1>2. CapTrue(j)'
  BY <1>1 DEF Listen, Goto, claimVars, buildVars, CapTrue, WorksOn, ServeInv, TInv, TypeOK,
         TaskTyped, SessTyped, Entry, HeldPcs
<1>3. \A b \in Attempts : jn[b] = j /\ b # a => ServesTrue(b)'
  BY <1>1 DEF Listen, Goto, claimVars, buildVars, ServesTrue, Serving, IsCurrent, HoldsCapture,
         WorksOn, ServeInv, TInv, TypeOK, TaskTyped, HeldPcs
<1>4. ServesTrue(a)'
  BY <1>1 DEF Listen, Goto, claimVars, buildVars, ServesTrue, Serving, IsCurrent, HoldsCapture,
         AnsweredPcs, ServePcs, WorksOn, ServeInv, TInv, TypeOK, TaskTyped, Underway, EarlyPcs
<1>. QED  BY <1>2, <1>3, <1>4 DEF ServeInv, WorksOn

LEMMA EndedServes ==
    ASSUME TInv, ClaimInv, ~Preempt, NEW a \in Attempts, Ended(a), WorksOn(a),
           NEW j \in Joins, j = jn[a], ServeInv(j)
    PROVE  ServeInv(j)'
<1>1. \A b \in Attempts : b # a => pc[b] \notin HeldPcs
  BY OthersYield DEF Ended
<1>2. CapTrue(j)'
  BY <1>1 DEF Ended, Goto, claimVars, buildVars, CapTrue, WorksOn, ServeInv, TInv, TypeOK,
         TaskTyped, SessTyped, Entry, HeldPcs
<1>3. \A b \in Attempts : jn[b] = j /\ b # a => ServesTrue(b)'
  BY <1>1 DEF Ended, Goto, claimVars, buildVars, ServesTrue, Serving, IsCurrent, HoldsCapture,
         WorksOn, ServeInv, TInv, TypeOK, TaskTyped, HeldPcs
<1>4. ServesTrue(a)'
  BY <1>1 DEF Ended, Goto, claimVars, buildVars, ServesTrue, Serving, IsCurrent, HoldsCapture,
         AnsweredPcs, ServePcs, WorksOn, ServeInv, TInv, TypeOK, TaskTyped, Underway, EarlyPcs
<1>. QED  BY <1>2, <1>3, <1>4 DEF ServeInv, WorksOn

LEMMA CloseTransportServes ==
    ASSUME TInv, ClaimInv, ~Preempt, NEW a \in Attempts, CloseTransport(a), WorksOn(a),
           NEW j \in Joins, j = jn[a], ServeInv(j)
    PROVE  ServeInv(j)'
<1>1. \A b \in Attempts : b # a => pc[b] \notin HeldPcs
  BY OthersYield DEF CloseTransport
<1>2. CapTrue(j)'
  BY <1>1 DEF CloseTransport, Goto, claimVars, buildVars, CapTrue, WorksOn, ServeInv, TInv,
         TypeOK, TaskTyped, SessTyped, Entry, HeldPcs
<1>3. \A b \in Attempts : jn[b] = j /\ b # a => ServesTrue(b)'
  BY <1>1 DEF CloseTransport, Goto, claimVars, buildVars, ServesTrue, Serving, IsCurrent,
         HoldsCapture, WorksOn, ServeInv, TInv, TypeOK, TaskTyped, HeldPcs
<1>4. ServesTrue(a)'
  BY <1>1 DEF CloseTransport, Goto, claimVars, buildVars, ServesTrue, Serving, IsCurrent,
         HoldsCapture, AnsweredPcs, ServePcs, WorksOn, ServeInv, TInv, TypeOK, TaskTyped,
         Underway, EarlyPcs
<1>. QED  BY <1>2, <1>3, <1>4 DEF ServeInv, WorksOn

LEMMA OpenSessionServes ==
    ASSUME TInv, ClaimInv, ~Preempt, NEW a \in Attempts, OpenSession(a), WorksOn(a),
           NEW j \in Joins, j = jn[a], ServeInv(j)
    PROVE  ServeInv(j)'
<1>1. \A b \in Attempts : b # a => pc[b] \notin HeldPcs
  BY OthersYield DEF OpenSession
<1>2. /\ pc[a] = "open" /\ pc'[a] = "seq"
      /\ sess'[j].seq = sess[j].seq /\ sess'[j].cap = sess[j].cap
      /\ sess'[j].leave = sess[j].leave
      /\ seq' = seq /\ rows' = rows /\ answered' = answered /\ running' = running
      /\ sess'[j].open
  BY OpenSessionRow DEF OpenSession, RowIs, Goto, claimVars, buildVars, TInv, TypeOK, TaskTyped
<1>3. /\ pc[a] \in CurrentPcs =>
            IsCurrent(a) /\ \A b \in Attempts : jn[b] = j /\ Late(b) /\ IsCurrent(b) => b = a
      /\ \A b \in Attempts : jn[b] = j /\ Late(b) =>
            /\ seq[b] # 0 /\ (Late(a) /\ seq[b] = seq[a] => b = a)
            /\ sess[j].seq # 0 => seq[b] <= sess[j].seq
      /\ sess[j].cap # None => sess[j].cap \in Attempts /\ Late(sess[j].cap)
      /\ sess[j].seq # 0 => sess[j].open
  BY NumbersOfJoin DEF OpenSession, Late
<1>4. CapTrue(j)'
  BY <1>1, <1>2, <1>3 DEF CapTrue, IsCurrent, WorksOn, ServeInv, HeldPcs, CurrentPcs, Late
<1>5. \A b \in Attempts : jn[b] = j /\ b # a => ServesTrue(b)'
  BY <1>1, <1>2, <1>3 DEF ServesTrue, Serving, IsCurrent, HoldsCapture, WorksOn, ServeInv,
         HeldPcs, CurrentPcs, Late
<1>6. ServesTrue(a)'
  BY <1>1, <1>2, <1>3 DEF ServesTrue, Serving, IsCurrent, HoldsCapture, AnsweredPcs, ServePcs,
         CurrentPcs, WorksOn, ServeInv, TInv, Underway, EarlyPcs
<1>. QED  BY <1>4, <1>5, <1>6 DEF ServeInv, WorksOn

LEMMA NextSeqServes ==
    ASSUME TInv, ClaimInv, ~Preempt, NEW a \in Attempts, NextSeq(a), WorksOn(a),
           NEW j \in Joins, j = jn[a], ServeInv(j)
    PROVE  ServeInv(j)'
<1>1. \A b \in Attempts : b # a => pc[b] \notin HeldPcs
  BY OthersYield DEF NextSeq
<1>2. /\ pc[a] = "seq" /\ pc'[a] = IF cont[a] THEN "stopPrev" ELSE "existing"
      /\ sess'[j].cap = sess[j].cap /\ sess'[j].leave = sess[j].leave
      /\ rows' = rows /\ answered' = answered /\ running' = running
      /\ sess'[j].seq = sess[j].seq + 1 /\ seq'[a] = sess[j].seq + 1
      /\ sess'[j].open
  BY NextSeqRow DEF NextSeq, RowIs, Goto, claimVars, buildVars, TInv, TypeOK, TaskTyped
<1>3. /\ pc[a] \in CurrentPcs =>
            IsCurrent(a) /\ \A b \in Attempts : jn[b] = j /\ Late(b) /\ IsCurrent(b) => b = a
      /\ \A b \in Attempts : jn[b] = j /\ Late(b) =>
            /\ seq[b] # 0 /\ (Late(a) /\ seq[b] = seq[a] => b = a)
            /\ sess[j].seq # 0 => seq[b] <= sess[j].seq
      /\ sess[j].cap # None => sess[j].cap \in Attempts /\ Late(sess[j].cap)
      /\ sess[j].seq # 0 => sess[j].open
  BY NumbersOfJoin DEF NextSeq, Late
<1>4. ~cont[a] => sess[j].seq = 0
  BY <1>2 DEF ClaimInv, FreshJoins
<1>5. CapTrue(j)'
  <2>. SUFFICES ASSUME sess[j].cap # None
                PROVE  /\ sess[j].cap \in answered /\ jn[sess[j].cap] = j
                       /\ pc'[a] = "stopPrev"
                       /\ sess[j].seq + 1 # 0
    BY <1>2 DEF CapTrue, WorksOn
  <2>1. sess[j].seq # 0 /\ sess[j].cap \in answered /\ jn[sess[j].cap] = j
    BY DEF ServeInv, CapTrue
  <2>. QED  BY <1>2, <1>4, <2>1 DEF TInv, TypeOK, SessTyped, Entry
<1>6. \A b \in Attempts : jn[b] = j /\ b # a => ServesTrue(b)'
  <2>. SUFFICES ASSUME NEW b \in Attempts, jn[b] = j, b # a
                PROVE  ServesTrue(b)'
    OBVIOUS
  <2>1. ServesTrue(b) /\ pc'[b] = pc[b] /\ jn' = jn /\ seq'[b] = seq[b]
    BY DEF ServeInv, WorksOn
  <2>2. Serving(b) => ~IsCurrent(b)'
    <3>1. Serving(b) => Late(b)
      BY DEF Serving, Late
    <3>2. sess[j].seq \in Nat /\ seq[b] \in Nat
      BY DEF TInv, TypeOK, SessTyped, TaskTyped, Entry
    <3>3. Late(b) => sess[j].seq # 0
      BY <1>2, <1>4 DEF ClaimInv, FreshJoins
    <3>. QED  BY <1>2, <1>3, <2>1, <3>1, <3>2, <3>3 DEF IsCurrent
  <2>. QED
    BY <1>2, <2>1, <2>2 DEF ServesTrue, Serving, HoldsCapture
<1>7. ServesTrue(a)'
  BY <1>2 DEF ServesTrue, Serving, HoldsCapture, AnsweredPcs, ServePcs, ServeInv, TInv, Underway,
         EarlyPcs
<1>. QED  BY <1>5, <1>6, <1>7 DEF ServeInv, WorksOn

LEMMA StopPreviousServes ==
    ASSUME TInv, ClaimInv, ~Preempt, NEW a \in Attempts, StopPrevious(a), WorksOn(a),
           NEW j \in Joins, j = jn[a], ServeInv(j)
    PROVE  ServeInv(j)'
<1>1. \A b \in Attempts : b # a => pc[b] \notin HeldPcs
  BY OthersYield DEF StopPrevious
<1>2. /\ pc[a] = "stopPrev" /\ pc'[a] = "existing"
      /\ sess'[j].seq = sess[j].seq /\ sess'[j].leave = sess[j].leave
      /\ sess'[j].open = sess[j].open
      /\ seq' = seq /\ rows' = rows /\ answered' = answered
      /\ sess'[j].cap = None /\ running' = running \ {sess[j].cap}
  BY StopPreviousRow DEF StopPrevious, RowIs, Goto, claimVars, buildVars, TInv, TypeOK,
         TaskTyped
<1>3. /\ pc[a] \in CurrentPcs =>
            IsCurrent(a) /\ \A b \in Attempts : jn[b] = j /\ Late(b) /\ IsCurrent(b) => b = a
      /\ \A b \in Attempts : jn[b] = j /\ Late(b) =>
            /\ seq[b] # 0 /\ (Late(a) /\ seq[b] = seq[a] => b = a)
            /\ sess[j].seq # 0 => seq[b] <= sess[j].seq
      /\ sess[j].cap # None => sess[j].cap \in Attempts /\ Late(sess[j].cap)
      /\ sess[j].seq # 0 => sess[j].open
  BY NumbersOfJoin DEF StopPrevious, Late
<1>4. CapTrue(j)'
  BY <1>1, <1>2, <1>3 DEF CapTrue, IsCurrent, WorksOn, ServeInv, HeldPcs, CurrentPcs, Late
<1>5. \A b \in Attempts : jn[b] = j /\ b # a => ServesTrue(b)'
  <2>. SUFFICES ASSUME NEW b \in Attempts, jn[b] = j, b # a
                PROVE  ServesTrue(b)'
    OBVIOUS
  <2>1. ServesTrue(b) /\ pc'[b] = pc[b] /\ jn' = jn /\ seq'[b] = seq[b]
    BY DEF ServeInv, WorksOn
  <2>2. Late(b) => ~IsCurrent(b) /\ seq[b] # sess[j].seq
    BY <1>2, <1>3 DEF IsCurrent, CurrentPcs, Late
  <2>3. b \in running' => b \in running /\ sess[j].cap # b
    BY <1>2
  <2>4. Serving(b) => Late(b)
    BY DEF Serving, Late
  <2>5. ~(Serving(b) /\ IsCurrent(b))'
    BY <1>2, <1>3, <2>1, <2>2, <2>4 DEF Serving, IsCurrent, CurrentPcs
  <2>6. pc[b] # "capture"
    BY <1>1 DEF HeldPcs
  <2>7. HoldsCapture(b) => b # sess[j].cap
    BY <2>1, LifecycleAssumption DEF ServeInv, CapTrue, ServesTrue, HoldsCapture, AnsweredPcs,
            ServePcs
  <2>. QED
    BY <1>2, <2>1, <2>3, <2>5, <2>6, <2>7 DEF ServesTrue, HoldsCapture
<1>6. ServesTrue(a)'
  BY <1>1, <1>2, <1>3 DEF ServesTrue, Serving, IsCurrent, HoldsCapture, AnsweredPcs, ServePcs,
         CurrentPcs, WorksOn, ServeInv, TInv, Underway, EarlyPcs
<1>. QED  BY <1>4, <1>5, <1>6 DEF ServeInv, WorksOn

LEMMA ReadExistingServes ==
    ASSUME TInv, ClaimInv, ~Preempt, NEW a \in Attempts, ReadExisting(a), WorksOn(a),
           NEW j \in Joins, j = jn[a], ServeInv(j)
    PROVE  ServeInv(j)'
<1>1. \A b \in Attempts : b # a => pc[b] \notin HeldPcs
  BY OthersYield DEF ReadExisting
<1>2. /\ pc[a] = "existing" /\ pc'[a] = "display"
      /\ sess'[j].seq = sess[j].seq /\ sess'[j].cap = sess[j].cap
      /\ sess'[j].leave = sess[j].leave
      /\ seq' = seq /\ rows' = rows /\ answered' = answered /\ running' = running
      /\ sess'[j].open
  BY ReadExistingRow DEF ReadExisting, RowIs, Goto, claimVars, TInv, TypeOK, TaskTyped
<1>3. /\ pc[a] \in CurrentPcs =>
            IsCurrent(a) /\ \A b \in Attempts : jn[b] = j /\ Late(b) /\ IsCurrent(b) => b = a
      /\ \A b \in Attempts : jn[b] = j /\ Late(b) =>
            /\ seq[b] # 0 /\ (Late(a) /\ seq[b] = seq[a] => b = a)
            /\ sess[j].seq # 0 => seq[b] <= sess[j].seq
      /\ sess[j].cap # None => sess[j].cap \in Attempts /\ Late(sess[j].cap)
      /\ sess[j].seq # 0 => sess[j].open
  BY NumbersOfJoin DEF ReadExisting, Late
<1>4. CapTrue(j)'
  BY <1>1, <1>2, <1>3 DEF CapTrue, IsCurrent, WorksOn, ServeInv, HeldPcs, CurrentPcs, Late
<1>5. \A b \in Attempts : jn[b] = j /\ b # a => ServesTrue(b)'
  BY <1>1, <1>2, <1>3 DEF ServesTrue, Serving, IsCurrent, HoldsCapture, WorksOn, ServeInv,
         HeldPcs, CurrentPcs, Late
<1>6. ServesTrue(a)'
  BY <1>1, <1>2, <1>3 DEF ServesTrue, Serving, IsCurrent, HoldsCapture, AnsweredPcs, ServePcs,
         CurrentPcs, WorksOn, ServeInv, TInv, Underway, EarlyPcs
<1>. QED  BY <1>4, <1>5, <1>6 DEF ServeInv, WorksOn

LEMMA RecordServes ==
    ASSUME TInv, ClaimInv, ~Preempt, NEW a \in Attempts, Record(a), WorksOn(a),
           NEW j \in Joins, j = jn[a], ServeInv(j)
    PROVE  ServeInv(j)'
<1>1. \A b \in Attempts : b # a => pc[b] \notin HeldPcs
  BY OthersYield DEF Record
<1>2. /\ pc[a] = "record" /\ pc'[a] = "check"
      /\ sess'[j].seq = sess[j].seq /\ sess'[j].cap = sess[j].cap
      /\ sess'[j].leave = sess[j].leave
      /\ seq' = seq /\ rows' = rows /\ answered' = answered /\ running' = running
      /\ sess'[j].open
  BY RecordRow DEF Record, RowIs, Goto, claimVars, buildVars, TInv, TypeOK, TaskTyped
<1>3. /\ pc[a] \in CurrentPcs =>
            IsCurrent(a) /\ \A b \in Attempts : jn[b] = j /\ Late(b) /\ IsCurrent(b) => b = a
      /\ \A b \in Attempts : jn[b] = j /\ Late(b) =>
            /\ seq[b] # 0 /\ (Late(a) /\ seq[b] = seq[a] => b = a)
            /\ sess[j].seq # 0 => seq[b] <= sess[j].seq
      /\ sess[j].cap # None => sess[j].cap \in Attempts /\ Late(sess[j].cap)
      /\ sess[j].seq # 0 => sess[j].open
  BY NumbersOfJoin DEF Record, Late
<1>4. CapTrue(j)'
  BY <1>1, <1>2, <1>3 DEF CapTrue, IsCurrent, WorksOn, ServeInv, HeldPcs, CurrentPcs, Late
<1>5. \A b \in Attempts : jn[b] = j /\ b # a => ServesTrue(b)'
  BY <1>1, <1>2, <1>3 DEF ServesTrue, Serving, IsCurrent, HoldsCapture, WorksOn, ServeInv,
         HeldPcs, CurrentPcs, Late
<1>6. ServesTrue(a)'
  BY <1>1, <1>2, <1>3 DEF ServesTrue, Serving, IsCurrent, HoldsCapture, AnsweredPcs, ServePcs,
         CurrentPcs, WorksOn, ServeInv, TInv, Underway, EarlyPcs
<1>. QED  BY <1>4, <1>5, <1>6 DEF ServeInv, WorksOn

LEMMA WriteScaleServes ==
    ASSUME TInv, ClaimInv, ~Preempt, NEW a \in Attempts, WriteScale(a), WorksOn(a),
           NEW j \in Joins, j = jn[a], ServeInv(j)
    PROVE  ServeInv(j)'
<1>1. \A b \in Attempts : b # a => pc[b] \notin HeldPcs
  BY OthersYield DEF WriteScale
<1>2. /\ pc[a] = "writeScale" /\ pc'[a] = "join"
      /\ sess'[j].seq = sess[j].seq /\ sess'[j].cap = sess[j].cap
      /\ sess'[j].leave = sess[j].leave
      /\ seq' = seq /\ rows' = rows /\ answered' = answered /\ running' = running
      /\ sess'[j].open
  BY WriteScaleRow DEF WriteScale, RowIs, Goto, claimVars, TInv, TypeOK, TaskTyped
<1>3. /\ pc[a] \in CurrentPcs =>
            IsCurrent(a) /\ \A b \in Attempts : jn[b] = j /\ Late(b) /\ IsCurrent(b) => b = a
      /\ \A b \in Attempts : jn[b] = j /\ Late(b) =>
            /\ seq[b] # 0 /\ (Late(a) /\ seq[b] = seq[a] => b = a)
            /\ sess[j].seq # 0 => seq[b] <= sess[j].seq
      /\ sess[j].cap # None => sess[j].cap \in Attempts /\ Late(sess[j].cap)
      /\ sess[j].seq # 0 => sess[j].open
  BY NumbersOfJoin DEF WriteScale, Late
<1>4. CapTrue(j)'
  BY <1>1, <1>2, <1>3 DEF CapTrue, IsCurrent, WorksOn, ServeInv, HeldPcs, CurrentPcs, Late
<1>5. \A b \in Attempts : jn[b] = j /\ b # a => ServesTrue(b)'
  BY <1>1, <1>2, <1>3 DEF ServesTrue, Serving, IsCurrent, HoldsCapture, WorksOn, ServeInv,
         HeldPcs, CurrentPcs, Late
<1>6. ServesTrue(a)'
  BY <1>1, <1>2, <1>3 DEF ServesTrue, Serving, IsCurrent, HoldsCapture, AnsweredPcs, ServePcs,
         CurrentPcs, WorksOn, ServeInv, TInv, Underway, EarlyPcs
<1>. QED  BY <1>4, <1>5, <1>6 DEF ServeInv, WorksOn

LEMMA ArmSessionServes ==
    ASSUME TInv, ClaimInv, ~Preempt, NEW a \in Attempts, ArmSession(a), WorksOn(a),
           NEW j \in Joins, j = jn[a], ServeInv(j)
    PROVE  ServeInv(j)'
<1>1. \A b \in Attempts : b # a => pc[b] \notin HeldPcs
  BY OthersYield DEF ArmSession
<1>2. /\ pc[a] = "arm" /\ pc'[a] = "capture"
      /\ sess'[j].seq = sess[j].seq /\ sess'[j].cap = sess[j].cap
      /\ seq' = seq /\ answered' = answered /\ running' = running
      /\ rows' = rows \cup {j} /\ sess'[j].leave = a /\ sess'[j].open
  BY ArmSessionRow DEF ArmSession, RowIs, Goto, claimVars, buildVars, TInv, TypeOK, TaskTyped
<1>3. /\ pc[a] \in CurrentPcs =>
            IsCurrent(a) /\ \A b \in Attempts : jn[b] = j /\ Late(b) /\ IsCurrent(b) => b = a
      /\ \A b \in Attempts : jn[b] = j /\ Late(b) =>
            /\ seq[b] # 0 /\ (Late(a) /\ seq[b] = seq[a] => b = a)
            /\ sess[j].seq # 0 => seq[b] <= sess[j].seq
      /\ sess[j].cap # None => sess[j].cap \in Attempts /\ Late(sess[j].cap)
      /\ sess[j].seq # 0 => sess[j].open
  BY NumbersOfJoin DEF ArmSession, Late
<1>4. CapTrue(j)'
  BY <1>1, <1>2, <1>3 DEF CapTrue, IsCurrent, WorksOn, ServeInv, HeldPcs, CurrentPcs, Late
<1>5. \A b \in Attempts : jn[b] = j /\ b # a => ServesTrue(b)'
  BY <1>1, <1>2, <1>3 DEF ServesTrue, Serving, IsCurrent, HoldsCapture, WorksOn, ServeInv,
         HeldPcs, CurrentPcs, Late
<1>6. ServesTrue(a)'
  BY <1>1, <1>2, <1>3 DEF ServesTrue, Serving, IsCurrent, HoldsCapture, AnsweredPcs, ServePcs,
         CurrentPcs, WorksOn, ServeInv, TInv, Underway, EarlyPcs
<1>. QED  BY <1>4, <1>5, <1>6 DEF ServeInv, WorksOn

LEMMA AnswerServes ==
    ASSUME TInv, ClaimInv, ~Preempt, NEW a \in Attempts, Answer(a), WorksOn(a),
           NEW j \in Joins, j = jn[a], ServeInv(j)
    PROVE  ServeInv(j)'
<1>1. \A b \in Attempts : b # a => pc[b] \notin HeldPcs
  BY OthersYield DEF Answer
<1>2. /\ pc[a] = "capture" /\ pc'[a] = "spawned"
      /\ sess'[j].seq = sess[j].seq /\ sess'[j].leave = sess[j].leave
      /\ seq' = seq /\ rows' = rows /\ running' = running
      /\ answered' = answered \cup {a} /\ sess'[j].cap = a /\ sess'[j].open
  BY AnswerRow DEF Answer, RowIs, Goto, claimVars, buildVars, TInv, TypeOK, TaskTyped
<1>3. /\ pc[a] \in CurrentPcs =>
            IsCurrent(a) /\ \A b \in Attempts : jn[b] = j /\ Late(b) /\ IsCurrent(b) => b = a
      /\ \A b \in Attempts : jn[b] = j /\ Late(b) =>
            /\ seq[b] # 0 /\ (Late(a) /\ seq[b] = seq[a] => b = a)
            /\ sess[j].seq # 0 => seq[b] <= sess[j].seq
      /\ sess[j].cap # None => sess[j].cap \in Attempts /\ Late(sess[j].cap)
      /\ sess[j].seq # 0 => sess[j].open
  BY NumbersOfJoin DEF Answer, Late
<1>4. CapTrue(j)'
  BY <1>1, <1>2, <1>3 DEF CapTrue, IsCurrent, WorksOn, ServeInv, HeldPcs, CurrentPcs, Late
<1>5. \A b \in Attempts : jn[b] = j /\ b # a => ServesTrue(b)'
  <2>. SUFFICES ASSUME NEW b \in Attempts, jn[b] = j, b # a
                PROVE  ServesTrue(b)'
    OBVIOUS
  <2>1. ServesTrue(b) /\ pc'[b] = pc[b] /\ jn' = jn /\ seq'[b] = seq[b]
    BY DEF ServeInv, WorksOn
  <2>2. Late(b) => ~IsCurrent(b) /\ seq[b] # sess[j].seq
    BY <1>2, <1>3 DEF IsCurrent, CurrentPcs, Late
  <2>3. sess[j].cap # b
    BY <1>1, <1>2, <1>3, <2>2, LifecycleAssumption DEF ServeInv, CapTrue, HeldPcs
  <2>4. Serving(b) => Late(b)
    BY DEF Serving, Late
  <2>5. ~(Serving(b) /\ IsCurrent(b))'
    BY <1>2, <1>3, <2>1, <2>2, <2>4 DEF Serving, IsCurrent, CurrentPcs
  <2>6. pc[b] # "capture"
    BY <1>1 DEF HeldPcs
  <2>. QED
    BY <1>2, <2>1, <2>3, <2>5, <2>6 DEF ServesTrue, HoldsCapture
<1>6. ServesTrue(a)'
  BY <1>1, <1>2, <1>3 DEF ServesTrue, Serving, IsCurrent, HoldsCapture, AnsweredPcs, ServePcs,
         CurrentPcs, WorksOn, ServeInv, TInv, Underway, EarlyPcs
<1>. QED  BY <1>4, <1>5, <1>6 DEF ServeInv, WorksOn

LEMMA TakeDisplayServes ==
    ASSUME TInv, ClaimInv, ~Preempt, NEW a \in Attempts, TakeDisplay(a), WorksOn(a),
           NEW j \in Joins, j = jn[a], ServeInv(j)
    PROVE  ServeInv(j)'
<1>1. \A b \in Attempts : b # a => pc[b] \notin HeldPcs
  BY OthersYield DEF TakeDisplay
<1>2. /\ pc[a] = "forget" /\ pc'[a] = "remove"
      /\ sess'[j].seq = sess[j].seq /\ sess'[j].cap = sess[j].cap
      /\ sess'[j].leave = sess[j].leave /\ sess'[j].open = sess[j].open
      /\ seq' = seq /\ rows' = rows /\ answered' = answered /\ running' = running
  BY TakeDisplayRow DEF TakeDisplay, RowIs, Goto, claimVars, buildVars, TInv, TypeOK, TaskTyped
<1>3. /\ pc[a] \in CurrentPcs =>
            IsCurrent(a) /\ \A b \in Attempts : jn[b] = j /\ Late(b) /\ IsCurrent(b) => b = a
      /\ \A b \in Attempts : jn[b] = j /\ Late(b) =>
            /\ seq[b] # 0 /\ (Late(a) /\ seq[b] = seq[a] => b = a)
            /\ sess[j].seq # 0 => seq[b] <= sess[j].seq
      /\ sess[j].cap # None => sess[j].cap \in Attempts /\ Late(sess[j].cap)
      /\ sess[j].seq # 0 => sess[j].open
  BY NumbersOfJoin DEF TakeDisplay, Late
<1>4. CapTrue(j)'
  BY <1>1, <1>2, <1>3 DEF CapTrue, IsCurrent, WorksOn, ServeInv, HeldPcs, CurrentPcs, Late
<1>5. \A b \in Attempts : jn[b] = j /\ b # a => ServesTrue(b)'
  BY <1>1, <1>2, <1>3 DEF ServesTrue, Serving, IsCurrent, HoldsCapture, WorksOn, ServeInv,
         HeldPcs, CurrentPcs, Late
<1>6. ServesTrue(a)'
  BY <1>1, <1>2, <1>3 DEF ServesTrue, Serving, IsCurrent, HoldsCapture, AnsweredPcs, ServePcs,
         CurrentPcs, WorksOn, ServeInv, TInv, Underway, EarlyPcs
<1>. QED  BY <1>4, <1>5, <1>6 DEF ServeInv, WorksOn

LEMMA StopOwnServes ==
    ASSUME TInv, ClaimInv, ~Preempt, NEW a \in Attempts, StopOwn(a), WorksOn(a),
           NEW j \in Joins, j = jn[a], ServeInv(j)
    PROVE  ServeInv(j)'
<1>1. \A b \in Attempts : b # a => pc[b] \notin HeldPcs
  BY OthersYield DEF StopOwn
<1>2. /\ pc[a] = "stopOwn" /\ pc'[a] = "grace"
      /\ sess'[j].seq = sess[j].seq /\ sess'[j].leave = sess[j].leave
      /\ sess'[j].open = sess[j].open
      /\ seq' = seq /\ rows' = rows /\ answered' = answered
      /\ sess'[j].cap = IF sess[j].cap # None /\ seq[sess[j].cap] = seq[a]
                       THEN None ELSE sess[j].cap
      /\ running' = IF sess[j].cap # None /\ seq[sess[j].cap] = seq[a]
                    THEN running \ {sess[j].cap} ELSE running
  <2>1. running' = IF sess[j].cap # None /\ seq[sess[j].cap] = seq[a]
                   THEN running \ {sess[j].cap} ELSE running
    BY DEF StopOwn
  <2>2. /\ pc[a] = "stopOwn" /\ pc'[a] = "grace"
        /\ seq' = seq /\ rows' = rows /\ answered' = answered
    BY DEF StopOwn, Goto, claimVars, TInv, TypeOK, TaskTyped
  <2>3. /\ sess'[j].seq = sess[j].seq /\ sess'[j].leave = sess[j].leave
        /\ sess'[j].open = sess[j].open
        /\ sess'[j].cap = IF sess[j].cap # None /\ seq[sess[j].cap] = seq[a]
                          THEN None ELSE sess[j].cap
    BY StopOwnRow DEF RowIs
  <2>. QED  BY <2>1, <2>2, <2>3
<1>3. /\ pc[a] \in CurrentPcs =>
            IsCurrent(a) /\ \A b \in Attempts : jn[b] = j /\ Late(b) /\ IsCurrent(b) => b = a
      /\ \A b \in Attempts : jn[b] = j /\ Late(b) =>
            /\ seq[b] # 0 /\ (Late(a) /\ seq[b] = seq[a] => b = a)
            /\ sess[j].seq # 0 => seq[b] <= sess[j].seq
      /\ sess[j].cap # None => sess[j].cap \in Attempts /\ Late(sess[j].cap)
      /\ sess[j].seq # 0 => sess[j].open
  BY NumbersOfJoin DEF StopOwn, Late
<1>4. CapTrue(j)'
  BY <1>1, <1>2, <1>3 DEF CapTrue, IsCurrent, WorksOn, ServeInv, HeldPcs, CurrentPcs, Late
<1>5. \A b \in Attempts : jn[b] = j /\ b # a => ServesTrue(b)'
  BY <1>1, <1>2, <1>3 DEF ServesTrue, Serving, IsCurrent, HoldsCapture, WorksOn, ServeInv,
         HeldPcs, CurrentPcs, Late
<1>6. ServesTrue(a)'
  BY LifecycleAssumption, <1>1, <1>2, <1>3 DEF ServesTrue, Serving, IsCurrent, HoldsCapture,
         AnsweredPcs, ServePcs, CurrentPcs, WorksOn, ServeInv, TInv, Underway, EarlyPcs
<1>. QED  BY <1>4, <1>5, <1>6 DEF ServeInv, WorksOn

LEMMA RemoveSessionServes ==
    ASSUME TInv, ClaimInv, ~Preempt, NEW a \in Attempts, RemoveSession(a), WorksOn(a),
           NEW j \in Joins, j = jn[a], ServeInv(j)
    PROVE  ServeInv(j)'
<1>1. \A b \in Attempts : b # a => pc[b] \notin HeldPcs
  BY OthersYield DEF RemoveSession
<1>2. /\ pc[a] = "remove" /\ pc'[a] \in {"done", "removeDisplay"}
      /\ seq' = seq /\ answered' = answered /\ running' = running
      /\ sess'[j].cap = None /\ sess'[j].seq = 0 /\ ~sess'[j].open
  BY RemoveSessionRow DEF RemoveSession, RowIs, Goto, claimVars, GoOrEnd, locals,
         LeaveDashboard, TInv, TypeOK, TaskTyped
<1>3. /\ pc[a] \in CurrentPcs =>
            IsCurrent(a) /\ \A b \in Attempts : jn[b] = j /\ Late(b) /\ IsCurrent(b) => b = a
      /\ \A b \in Attempts : jn[b] = j /\ Late(b) =>
            /\ seq[b] # 0 /\ (Late(a) /\ seq[b] = seq[a] => b = a)
            /\ sess[j].seq # 0 => seq[b] <= sess[j].seq
      /\ sess[j].cap # None => sess[j].cap \in Attempts /\ Late(sess[j].cap)
      /\ sess[j].seq # 0 => sess[j].open
  BY NumbersOfJoin DEF RemoveSession, Late
<1>4. CapTrue(j)'
  BY <1>1, <1>2, <1>3 DEF CapTrue, IsCurrent, WorksOn, ServeInv, HeldPcs, CurrentPcs, Late
<1>5. \A b \in Attempts : jn[b] = j /\ b # a => ServesTrue(b)'
  <2>. SUFFICES ASSUME NEW b \in Attempts, jn[b] = j, b # a
                PROVE  ServesTrue(b)'
    OBVIOUS
  <2>1. ServesTrue(b) /\ pc'[b] = pc[b] /\ jn' = jn /\ seq'[b] = seq[b]
    BY DEF ServeInv, WorksOn
  <2>2. Late(b) => ~IsCurrent(b) /\ seq[b] # sess[j].seq
    BY <1>2, <1>3 DEF IsCurrent, CurrentPcs, Late
  <2>3. sess[j].cap # b
    BY <1>1, <1>2, <1>3, <2>2, LifecycleAssumption DEF ServeInv, CapTrue, HeldPcs
  <2>4. Serving(b) => Late(b)
    BY DEF Serving, Late
  <2>5. ~(Serving(b) /\ IsCurrent(b))'
    BY <1>2, <1>3, <2>1, <2>2, <2>4 DEF Serving, IsCurrent, CurrentPcs
  <2>6. pc[b] # "capture"
    BY <1>1 DEF HeldPcs
  <2>. QED
    BY <1>2, <2>1, <2>3, <2>5, <2>6 DEF ServesTrue, HoldsCapture
<1>6. ServesTrue(a)'
  BY <1>1, <1>2, <1>3 DEF ServesTrue, Serving, IsCurrent, HoldsCapture, AnsweredPcs, ServePcs,
         CurrentPcs, WorksOn, ServeInv, TInv, Underway, EarlyPcs
<1>. QED  BY <1>4, <1>5, <1>6 DEF ServeInv, WorksOn

-----------------------------------------------------------------------------
(* Who takes a dashboard row down.                                                         *)

Reaps(a, j) ==
    /\ jn[a] = j
    /\ a \in answered \/ had[a] # None \/ pc[a] \in {"stopPrev", "existing", "capture"}
    /\ \/ IsCurrent(a) /\ pc[a] \notin {"idle", "open", "seq", "done"}
       \/ pc[a] \in {"remove", "removeDisplay"}

RowReaped(j) == j \in rows => \E a \in Attempts : Reaps(a, j)

\* A step that gives no session up leaves a row to its reaper, if that is another task.
LEMMA ReaperStays ==
    ASSUME TInv, NEW a \in Attempts, WorksOn(a), NEW j \in Joins, RowReaped(j),
           sess'[j].seq = sess[j].seq, sess[j].open => sess'[j].open,
           j \in rows' => j \in rows,
           Reaps(a, j) => Reaps(a, j)'
    PROVE  RowReaped(j)'
<1>1. \A b \in Attempts : b # a /\ Reaps(b, j) => Reaps(b, j)'
  BY DEF Reaps, IsCurrent, WorksOn
<1>. QED  BY <1>1 DEF RowReaped

LEMMA OtherReapers ==
    ASSUME TInv, NEW a \in Attempts, WorksOn(a), NEW j \in Joins, j # jn[a], RowReaped(j)
    PROVE  RowReaped(j)'
<1>1. ~Reaps(a, j)
  BY DEF Reaps
<1>. QED  BY <1>1, ReaperStays DEF WorksOn

LEMMA OutsideReapers ==
    ASSUME TInv, ClaimInv, OutsideStays, NEW j \in Joins, RowReaped(j)
    PROVE  RowReaped(j)'
<1>1. \A b \in Attempts : Reaps(b, j) => Reaps(b, j)'
  BY DEF Reaps, IsCurrent, OutsideStays
<1>. QED  BY <1>1 DEF RowReaped, OutsideStays

LEMMA OfferReapers ==
    ASSUME TInv, ClaimInv, NEW a \in Attempts, Offer(a), NEW j \in Joins, RowReaped(j)
    PROVE  RowReaped(j)'
<1>1. /\ pc[a] = "idle" /\ \A b \in Attempts : b # a => pc'[b] = pc[b]
      /\ sess' = sess /\ rows' = rows /\ answered' = answered /\ seq' = seq /\ had' = had
  BY DEF Offer, Goto, TInv, TypeOK, TaskTyped
<1>2. \A b \in Attempts : b # a => jn'[b] = jn[b]
  BY OfferTakes
<1>3. ~Reaps(a, j)
  BY <1>1 DEF Reaps
<1>4. \A b \in Attempts : Reaps(b, j) => Reaps(b, j)'
  BY <1>1, <1>2, <1>3 DEF Reaps, IsCurrent
<1>. QED  BY <1>1, <1>4 DEF RowReaped

LEMMA ReuseUntouchedReapers ==
    ASSUME TInv, ClaimInv, NEW a \in Attempts, ReuseUntouched(a), WorksOn(a),
           NEW j \in Joins, j = jn[a], RowReaped(j)
    PROVE  RowReaped(j)'
<1>1. sess' = sess /\ rows' = rows
  BY DEF ReuseUntouched
<1>2. Reaps(a, j) => Reaps(a, j)'
  BY <1>1 DEF ReuseUntouched, Goto, claimVars, Reaps, IsCurrent, TInv, TypeOK, TaskTyped
<1>. QED  BY <1>1, <1>2, ReaperStays

LEMMA ReuseChangeReapers ==
    ASSUME TInv, ClaimInv, NEW a \in Attempts, ReuseChange(a), WorksOn(a),
           NEW j \in Joins, j = jn[a], RowReaped(j)
    PROVE  RowReaped(j)'
<1>1. sess' = sess /\ rows' = rows
  BY DEF ReuseChange
<1>2. Reaps(a, j) => Reaps(a, j)'
  BY <1>1 DEF ReuseChange, Goto, claimVars, Reaps, IsCurrent, TInv, TypeOK, TaskTyped
<1>. QED  BY <1>1, <1>2, ReaperStays

LEMMA NeedDisplayReapers ==
    ASSUME TInv, ClaimInv, NEW a \in Attempts, NeedDisplay(a), WorksOn(a),
           NEW j \in Joins, j = jn[a], RowReaped(j)
    PROVE  RowReaped(j)'
<1>1. sess' = sess /\ rows' = rows
  BY DEF NeedDisplay
<1>2. Reaps(a, j) => Reaps(a, j)'
  BY <1>1 DEF NeedDisplay, Goto, claimVars, buildVars, Reaps, IsCurrent, TInv, TypeOK,
         TaskTyped
<1>. QED  BY <1>1, <1>2, ReaperStays

LEMMA CreateDisplayReapers ==
    ASSUME TInv, ClaimInv, NEW a \in Attempts, CreateDisplay(a), WorksOn(a),
           NEW j \in Joins, j = jn[a], RowReaped(j)
    PROVE  RowReaped(j)'
<1>1. sess' = sess /\ rows' = rows
  BY DEF CreateDisplay
<1>2. Reaps(a, j) => Reaps(a, j)'
  BY <1>1 DEF CreateDisplay, Goto, claimVars, Reaps, IsCurrent, TInv, TypeOK, TaskTyped
<1>. QED  BY <1>1, <1>2, ReaperStays

LEMMA AttachReapers ==
    ASSUME TInv, ClaimInv, NEW a \in Attempts, Attach(a), WorksOn(a),
           NEW j \in Joins, j = jn[a], RowReaped(j)
    PROVE  RowReaped(j)'
<1>1. sess' = sess /\ rows' = rows
  BY DEF Attach
<1>2. Reaps(a, j) => Reaps(a, j)'
  BY <1>1 DEF Attach, Goto, claimVars, Reaps, IsCurrent, TInv, TypeOK, TaskTyped
<1>. QED  BY <1>1, <1>2, ReaperStays

LEMMA AttachFailedReapers ==
    ASSUME TInv, ClaimInv, NEW a \in Attempts, AttachFailed(a), WorksOn(a),
           NEW j \in Joins, j = jn[a], RowReaped(j)
    PROVE  RowReaped(j)'
<1>1. sess' = sess /\ rows' = rows
  BY DEF AttachFailed
<1>2. Reaps(a, j) => Reaps(a, j)'
  BY <1>1 DEF AttachFailed, Goto, claimVars, Reaps, IsCurrent, TInv, TypeOK, TaskTyped
<1>. QED  BY <1>1, <1>2, ReaperStays

LEMMA ModeAppliedReapers ==
    ASSUME TInv, ClaimInv, NEW a \in Attempts, ModeApplied(a), WorksOn(a),
           NEW j \in Joins, j = jn[a], RowReaped(j)
    PROVE  RowReaped(j)'
<1>1. sess' = sess /\ rows' = rows
  BY DEF ModeApplied
<1>2. Reaps(a, j) => Reaps(a, j)'
  BY <1>1 DEF ModeApplied, Goto, claimVars, Reaps, IsCurrent, TInv, TypeOK, TaskTyped
<1>. QED  BY <1>1, <1>2, ReaperStays

LEMMA ModeRefusedReapers ==
    ASSUME TInv, ClaimInv, NEW a \in Attempts, ModeRefused(a), WorksOn(a),
           NEW j \in Joins, j = jn[a], RowReaped(j)
    PROVE  RowReaped(j)'
<1>1. sess' = sess /\ rows' = rows
  BY DEF ModeRefused
<1>2. Reaps(a, j) => Reaps(a, j)'
  BY <1>1 DEF ModeRefused, Goto, claimVars, Reaps, IsCurrent, TInv, TypeOK, TaskTyped
<1>. QED  BY <1>1, <1>2, ReaperStays

LEMMA ReadBackReapers ==
    ASSUME TInv, ClaimInv, NEW a \in Attempts, ReadBack(a), WorksOn(a),
           NEW j \in Joins, j = jn[a], RowReaped(j)
    PROVE  RowReaped(j)'
<1>1. sess' = sess /\ rows' = rows
  BY DEF ReadBack
<1>2. Reaps(a, j) => Reaps(a, j)'
  BY <1>1 DEF ReadBack, Goto, claimVars, Reaps, IsCurrent, TInv, TypeOK, TaskTyped
<1>. QED  BY <1>1, <1>2, ReaperStays

LEMMA CheckBeforeCaptureReapers ==
    ASSUME TInv, ClaimInv, NEW a \in Attempts, CheckBeforeCapture(a), WorksOn(a),
           NEW j \in Joins, j = jn[a], RowReaped(j)
    PROVE  RowReaped(j)'
<1>1. sess' = sess /\ rows' = rows
  BY DEF CheckBeforeCapture
<1>2. Reaps(a, j) => Reaps(a, j)'
  BY <1>1 DEF CheckBeforeCapture, Goto, claimVars, buildVars, Reaps, IsCurrent, TInv, TypeOK,
         TaskTyped
<1>. QED  BY <1>1, <1>2, ReaperStays

LEMMA StartCaptureReapers ==
    ASSUME TInv, ClaimInv, NEW a \in Attempts, StartCapture(a), WorksOn(a),
           NEW j \in Joins, j = jn[a], RowReaped(j)
    PROVE  RowReaped(j)'
<1>1. sess' = sess /\ rows' = rows
  BY DEF StartCapture
<1>2. Reaps(a, j) => Reaps(a, j)'
  BY <1>1 DEF StartCapture, Goto, claimVars, buildVars, Reaps, IsCurrent, TInv, TypeOK,
         TaskTyped
<1>. QED  BY <1>1, <1>2, ReaperStays

LEMMA ReadScaleReapers ==
    ASSUME TInv, ClaimInv, NEW a \in Attempts, ReadScale(a), WorksOn(a),
           NEW j \in Joins, j = jn[a], RowReaped(j)
    PROVE  RowReaped(j)'
<1>1. sess' = sess /\ rows' = rows
  BY DEF ReadScale
<1>2. Reaps(a, j) => Reaps(a, j)'
  BY <1>1 DEF ReadScale, Goto, claimVars, Reaps, IsCurrent, TInv, TypeOK, TaskTyped
<1>. QED  BY <1>1, <1>2, ReaperStays

LEMMA HalfFailedReapers ==
    ASSUME TInv, ClaimInv, NEW a \in Attempts, HalfFailed(a), WorksOn(a),
           NEW j \in Joins, j = jn[a], RowReaped(j)
    PROVE  RowReaped(j)'
<1>1. sess' = sess /\ rows' = rows
  BY DEF HalfFailed
<1>2. Reaps(a, j) => Reaps(a, j)'
  BY <1>1 DEF HalfFailed, Goto, claimVars, buildVars, Reaps, IsCurrent, TInv, TypeOK, TaskTyped
<1>. QED  BY <1>1, <1>2, ReaperStays

LEMMA BothReadyReapers ==
    ASSUME TInv, ClaimInv, NEW a \in Attempts, BothReady(a), WorksOn(a),
           NEW j \in Joins, j = jn[a], RowReaped(j)
    PROVE  RowReaped(j)'
<1>1. sess' = sess /\ rows' = rows
  BY DEF BothReady
<1>2. Reaps(a, j) => Reaps(a, j)'
  BY <1>1 DEF BothReady, Goto, claimVars, buildVars, Reaps, IsCurrent, TInv, TypeOK, TaskTyped
<1>. QED  BY <1>1, <1>2, ReaperStays

LEMMA StandDownReapers ==
    ASSUME TInv, ClaimInv, NEW a \in Attempts, StandDown(a), WorksOn(a),
           NEW j \in Joins, j = jn[a], RowReaped(j)
    PROVE  RowReaped(j)'
<1>1. sess' = sess /\ rows' = rows
  BY DEF StandDown
<1>2. ~IsCurrent(a)
  BY DEF StandDown, ClaimInv, StandsCurrent, IsCurrent
<1>3. Reaps(a, j) => Reaps(a, j)'
  BY <1>1, <1>2 DEF StandDown, Goto, claimVars, GoOrEnd, locals, Reaps, IsCurrent, TInv,
         TypeOK, TaskTyped
<1>. QED  BY <1>1, <1>3, ReaperStays

LEMMA ActivatedReapers ==
    ASSUME TInv, ClaimInv, NEW a \in Attempts, Activated(a), WorksOn(a),
           NEW j \in Joins, j = jn[a], RowReaped(j)
    PROVE  RowReaped(j)'
<1>1. sess' = sess /\ rows' = rows
  BY DEF Activated
<1>2. Reaps(a, j) => Reaps(a, j)'
  BY <1>1 DEF Activated, Goto, claimVars, buildVars, Reaps, IsCurrent, TInv, TypeOK, TaskTyped
<1>. QED  BY <1>1, <1>2, ReaperStays

LEMMA ActivateFailedReapers ==
    ASSUME TInv, ClaimInv, NEW a \in Attempts, ActivateFailed(a), WorksOn(a),
           NEW j \in Joins, j = jn[a], RowReaped(j)
    PROVE  RowReaped(j)'
<1>1. sess' = sess /\ rows' = rows
  BY DEF ActivateFailed
<1>2. Reaps(a, j) => Reaps(a, j)'
  BY <1>1 DEF ActivateFailed, Goto, claimVars, buildVars, Reaps, IsCurrent, TInv, TypeOK,
         TaskTyped
<1>. QED  BY <1>1, <1>2, ReaperStays

LEMMA AbandonReapers ==
    ASSUME TInv, ClaimInv, NEW a \in Attempts, Abandon(a), WorksOn(a),
           NEW j \in Joins, j = jn[a], RowReaped(j)
    PROVE  RowReaped(j)'
<1>1. sess' = sess /\ rows' = rows
  BY DEF Abandon
<1>2. Reaps(a, j) => Reaps(a, j)'
  BY <1>1 DEF Abandon, Goto, claimVars, GoOrEnd, locals, Reaps, IsCurrent, TInv, TypeOK,
         TaskTyped
<1>. QED  BY <1>1, <1>2, ReaperStays

LEMMA GraceOverReapers ==
    ASSUME TInv, ClaimInv, NEW a \in Attempts, GraceOver(a), WorksOn(a),
           NEW j \in Joins, j = jn[a], RowReaped(j)
    PROVE  RowReaped(j)'
<1>1. sess' = sess /\ rows' = rows
  BY DEF GraceOver
<1>2. Reaps(a, j) => Reaps(a, j)'
  BY <1>1 DEF GraceOver, Goto, claimVars, GoOrEnd, locals, Reaps, IsCurrent, TInv, TypeOK,
         TaskTyped
<1>. QED  BY <1>1, <1>2, ReaperStays

LEMMA ListenReapers ==
    ASSUME TInv, ClaimInv, NEW a \in Attempts, Listen(a), WorksOn(a),
           NEW j \in Joins, j = jn[a], RowReaped(j)
    PROVE  RowReaped(j)'
<1>1. sess' = sess /\ rows' = rows
  BY DEF Listen
<1>2. Reaps(a, j) => Reaps(a, j)'
  BY <1>1 DEF Listen, Goto, claimVars, buildVars, Reaps, IsCurrent, TInv, TypeOK, TaskTyped
<1>. QED  BY <1>1, <1>2, ReaperStays

LEMMA EndedReapers ==
    ASSUME TInv, ClaimInv, NEW a \in Attempts, Ended(a), WorksOn(a),
           NEW j \in Joins, j = jn[a], RowReaped(j)
    PROVE  RowReaped(j)'
<1>1. sess' = sess /\ rows' = rows
  BY DEF Ended
<1>2. Reaps(a, j) => Reaps(a, j)'
  BY <1>1 DEF Ended, Goto, claimVars, buildVars, Reaps, IsCurrent, TInv, TypeOK, TaskTyped
<1>. QED  BY <1>1, <1>2, ReaperStays

LEMMA CloseTransportReapers ==
    ASSUME TInv, ClaimInv, NEW a \in Attempts, CloseTransport(a), WorksOn(a),
           NEW j \in Joins, j = jn[a], RowReaped(j)
    PROVE  RowReaped(j)'
<1>1. sess' = sess /\ rows' = rows
  BY DEF CloseTransport
<1>2. Reaps(a, j) => Reaps(a, j)'
  BY <1>1 DEF CloseTransport, Goto, claimVars, buildVars, Reaps, IsCurrent, TInv, TypeOK,
         TaskTyped
<1>. QED  BY <1>1, <1>2, ReaperStays

LEMMA OpenSessionReapers ==
    ASSUME TInv, ClaimInv, NEW a \in Attempts, OpenSession(a), WorksOn(a),
           NEW j \in Joins, j = jn[a], RowReaped(j)
    PROVE  RowReaped(j)'
<1>1. sess'[j].seq = sess[j].seq /\ (sess[j].open => sess'[j].open)
  BY OpenSessionRow DEF RowIs
<1>2. /\ pc[a] = "open" /\ pc'[a] = "seq" /\ had' = had /\ seq' = seq /\ rows' = rows
      /\ answered' = answered
  BY DEF OpenSession, Goto, claimVars, buildVars, TInv, TypeOK, TaskTyped
<1>3. Reaps(a, j) => Reaps(a, j)'
  BY <1>1, <1>2 DEF Reaps, IsCurrent, WorksOn
<1>. QED  BY <1>1, <1>2, <1>3, ReaperStays

LEMMA StopPreviousReapers ==
    ASSUME TInv, ClaimInv, NEW a \in Attempts, StopPrevious(a), WorksOn(a),
           NEW j \in Joins, j = jn[a], RowReaped(j)
    PROVE  RowReaped(j)'
<1>1. sess'[j].seq = sess[j].seq /\ (sess[j].open => sess'[j].open)
  BY StopPreviousRow DEF RowIs
<1>2. /\ pc[a] = "stopPrev" /\ pc'[a] = "existing" /\ had' = had /\ seq' = seq /\ rows' = rows
      /\ answered' = answered
  BY DEF StopPrevious, Goto, claimVars, buildVars, TInv, TypeOK, TaskTyped
<1>3. Reaps(a, j) => Reaps(a, j)'
  BY <1>1, <1>2 DEF Reaps, IsCurrent, WorksOn
<1>. QED  BY <1>1, <1>2, <1>3, ReaperStays

LEMMA RecordReapers ==
    ASSUME TInv, ClaimInv, NEW a \in Attempts, Record(a), WorksOn(a),
           NEW j \in Joins, j = jn[a], RowReaped(j)
    PROVE  RowReaped(j)'
<1>1. sess'[j].seq = sess[j].seq /\ (sess[j].open => sess'[j].open)
  BY RecordRow DEF RowIs
<1>2. /\ pc[a] = "record" /\ pc'[a] = "check" /\ had' = had /\ seq' = seq /\ rows' = rows
      /\ answered' = answered
  BY DEF Record, Goto, claimVars, buildVars, TInv, TypeOK, TaskTyped
<1>3. Reaps(a, j) => Reaps(a, j)'
  BY <1>1, <1>2 DEF Reaps, IsCurrent, WorksOn
<1>. QED  BY <1>1, <1>2, <1>3, ReaperStays

LEMMA WriteScaleReapers ==
    ASSUME TInv, ClaimInv, NEW a \in Attempts, WriteScale(a), WorksOn(a),
           NEW j \in Joins, j = jn[a], RowReaped(j)
    PROVE  RowReaped(j)'
<1>1. sess'[j].seq = sess[j].seq /\ (sess[j].open => sess'[j].open)
  BY WriteScaleRow DEF RowIs
<1>2. /\ pc[a] = "writeScale" /\ pc'[a] = "join" /\ had' = had /\ seq' = seq /\ rows' = rows
      /\ answered' = answered
  BY DEF WriteScale, Goto, claimVars, TInv, TypeOK, TaskTyped
<1>3. Reaps(a, j) => Reaps(a, j)'
  BY <1>1, <1>2 DEF Reaps, IsCurrent, WorksOn
<1>. QED  BY <1>1, <1>2, <1>3, ReaperStays

LEMMA AnswerReapers ==
    ASSUME TInv, ClaimInv, NEW a \in Attempts, Answer(a), WorksOn(a),
           NEW j \in Joins, j = jn[a], RowReaped(j)
    PROVE  RowReaped(j)'
<1>1. sess'[j].seq = sess[j].seq /\ (sess[j].open => sess'[j].open)
  BY AnswerRow DEF RowIs
<1>2. /\ pc[a] = "capture" /\ pc'[a] = "spawned" /\ had' = had /\ seq' = seq /\ rows' = rows
      /\ answered' = answered \cup {a}
  BY DEF Answer, Goto, claimVars, buildVars, TInv, TypeOK, TaskTyped
<1>3. Reaps(a, j) => Reaps(a, j)'
  BY <1>1, <1>2 DEF Reaps, IsCurrent, WorksOn
<1>. QED  BY <1>1, <1>2, <1>3, ReaperStays

LEMMA TakeDisplayReapers ==
    ASSUME TInv, ClaimInv, NEW a \in Attempts, TakeDisplay(a), WorksOn(a),
           NEW j \in Joins, j = jn[a], RowReaped(j)
    PROVE  RowReaped(j)'
<1>1. sess'[j].seq = sess[j].seq /\ (sess[j].open => sess'[j].open)
  BY TakeDisplayRow DEF RowIs
<1>2. /\ pc[a] = "forget" /\ pc'[a] = "remove" /\ had' = had /\ seq' = seq /\ rows' = rows
      /\ answered' = answered
  BY DEF TakeDisplay, Goto, claimVars, buildVars, TInv, TypeOK, TaskTyped
<1>3. Reaps(a, j) => Reaps(a, j)'
  BY <1>1, <1>2 DEF Reaps, IsCurrent, WorksOn
<1>. QED  BY <1>1, <1>2, <1>3, ReaperStays

LEMMA StopOwnReapers ==
    ASSUME TInv, ClaimInv, NEW a \in Attempts, StopOwn(a), WorksOn(a),
           NEW j \in Joins, j = jn[a], RowReaped(j)
    PROVE  RowReaped(j)'
<1>1. sess'[j].seq = sess[j].seq /\ (sess[j].open => sess'[j].open)
  BY StopOwnRow DEF RowIs
<1>2. /\ pc[a] = "stopOwn" /\ pc'[a] = "grace" /\ had' = had /\ seq' = seq /\ rows' = rows
      /\ answered' = answered
  BY DEF StopOwn, Goto, claimVars, buildVars, TInv, TypeOK, TaskTyped
<1>3. Reaps(a, j) => Reaps(a, j)'
  BY <1>1, <1>2 DEF Reaps, IsCurrent, WorksOn
<1>. QED  BY <1>1, <1>2, <1>3, ReaperStays

\* The attempt that draws the number takes the row over with the join.
LEMMA NextSeqReapers ==
    ASSUME TInv, ClaimInv, NEW a \in Attempts, NextSeq(a), WorksOn(a),
           NEW j \in Joins, j = jn[a], DisplayInv(j), RowReaped(j)
    PROVE  RowReaped(j)'
<1>1. /\ pc[a] = "seq" /\ pc'[a] = IF cont[a] THEN "stopPrev" ELSE "existing"
      /\ seq'[a] = sess[j].seq + 1 /\ rows' = rows /\ jn' = jn
  BY DEF NextSeq, Goto, TInv, TypeOK, TaskTyped
<1>2. sess'[j].seq = sess[j].seq + 1 /\ sess'[j].open
  BY NextSeqRow DEF RowIs
<1>3. j \in rows => cont[a]
  BY <1>1 DEF DisplayInv, FreshRow, Fresh
<1>4. j \in rows => Reaps(a, j)'
  BY <1>1, <1>2, <1>3 DEF Reaps, IsCurrent
<1>. QED  BY <1>1, <1>4 DEF RowReaped

LEMMA ReadExistingReapers ==
    ASSUME TInv, ClaimInv, NEW a \in Attempts, ReadExisting(a), WorksOn(a),
           NEW j \in Joins, j = jn[a], DisplayInv(j), RowReaped(j)
    PROVE  RowReaped(j)'
<1>1. sess'[j].seq = sess[j].seq /\ sess'[j].open
  BY ReadExistingRow DEF RowIs
<1>2. /\ pc[a] = "existing" /\ pc'[a] = "display" /\ seq' = seq /\ rows' = rows
      /\ answered' = answered /\ had'[a] = IF cont[a] THEN sess[j].live ELSE None
  BY DEF ReadExisting, Goto, claimVars, TInv, TypeOK, TaskTyped
<1>3. j \in rows /\ IsCurrent(a) => had'[a] # None
  <2>. SUFFICES ASSUME j \in rows, IsCurrent(a)
                PROVE  cont[a] /\ sess[j].live # None
    BY <1>2
  <2>1. Alive(j)
    <3>1. \A b \in Attempts : b # a => pc[b] \notin HeldPcs
      BY <1>2, OthersYield DEF ReadExisting
    <3>2. seq[a] # 0
      BY <1>2 DEF ClaimInv, Numbered, Late
    <3>. QED  BY <1>2, <3>1, <3>2 DEF Alive, IsCurrent, HeldPcs
  <2>2. sess[j].live # None
    BY <2>1 DEF DisplayInv, AloneRow
  <2>. QED  BY <1>2, <2>1, <2>2 DEF DisplayInv, ShownRow, KnowsDisplay
<1>4. j \in rows /\ Reaps(a, j) => Reaps(a, j)'
  BY <1>1, <1>2, <1>3 DEF Reaps, IsCurrent, WorksOn
<1>5. \A b \in Attempts : b # a /\ Reaps(b, j) => Reaps(b, j)'
  BY <1>1 DEF Reaps, IsCurrent, WorksOn
<1>. QED  BY <1>2, <1>4, <1>5 DEF RowReaped

LEMMA ArmSessionReapers ==
    ASSUME TInv, ClaimInv, NEW a \in Attempts, ArmSession(a), WorksOn(a),
           NEW j \in Joins, j = jn[a], RowReaped(j)
    PROVE  RowReaped(j)'
<1>1. sess'[j].seq = sess[j].seq /\ sess'[j].open
  BY ArmSessionRow DEF RowIs
<1>2. pc[a] = "arm" /\ pc'[a] = "capture" /\ seq' = seq
  BY DEF ArmSession, Goto, claimVars, TInv, TypeOK, TaskTyped
<1>3. IsCurrent(a)
  BY <1>2 DEF ClaimInv, StandsCurrent, CurrentPcs
<1>4. Reaps(a, j)'
  BY <1>1, <1>2, <1>3 DEF Reaps, IsCurrent, WorksOn
<1>. QED  BY <1>4 DEF RowReaped

\* The session goes; the row does too, or waits for the display.
LEMMA RemoveSessionReapers ==
    ASSUME TInv, ClaimInv, NEW a \in Attempts, RemoveSession(a), WorksOn(a),
           NEW j \in Joins, j = jn[a], ServeInv(j), RowReaped(j)
    PROVE  RowReaped(j)'
<1>1. pc[a] = "remove" /\ IsCurrent(a) /\ answered' = answered
  BY DEF RemoveSession, ClaimInv, StandsCurrent, CurrentPcs
<1>2. \A b \in Attempts : b # a /\ Reaps(b, j) => Reaps(b, j)'
  <2>. SUFFICES ASSUME NEW b \in Attempts, b # a, Reaps(b, j)
                PROVE  Reaps(b, j)'
    OBVIOUS
  <2>1. ~(IsCurrent(b) /\ Late(b))
    <3>. SUFFICES ASSUME IsCurrent(b), Late(b)
                  PROVE  FALSE
      OBVIOUS
    <3>1. jn[b] = j
      BY DEF Reaps
    <3>. QED  BY <1>1, <3>1, NumbersOfJoin DEF CurrentPcs
  <2>2. pc[b] \in {"remove", "removeDisplay"}
    BY <2>1 DEF Reaps, Late
  <2>. QED  BY <2>2 DEF Reaps, WorksOn
<1>3. CASE Doomed(a) = None
  <2>1. rows' = IF a \in answered \/ had[a] # None THEN rows \ {j} ELSE rows
    BY <1>3 DEF RemoveSession, LeaveDashboard
  <2>2. j \in rows' => j \in rows /\ ~Reaps(a, j)
    BY <1>1, <2>1 DEF Reaps
  <2>. QED  BY <1>2, <2>2 DEF RowReaped
<1>4. CASE Doomed(a) # None
  <2>1. pc'[a] = "removeDisplay" /\ had' = had /\ rows' = rows
    BY <1>4 DEF RemoveSession, GoOrEnd, Goto, locals, TInv, TypeOK, TaskTyped
  <2>2. Reaps(a, j) => Reaps(a, j)'
    BY <1>1, <2>1 DEF Reaps, WorksOn
  <2>. QED  BY <1>2, <2>1, <2>2 DEF RowReaped
<1>. QED  BY <1>3, <1>4

LEMMA RemoveDisplayReapers ==
    ASSUME TInv, ClaimInv, NEW a \in Attempts, RemoveDisplay(a), WorksOn(a),
           NEW j \in Joins, j = jn[a], RowReaped(j)
    PROVE  RowReaped(j)'
<1>1. /\ rows' = IF a \in answered \/ had[a] # None THEN rows \ {j} ELSE rows
      /\ pc[a] = "removeDisplay" /\ sess' = sess
  BY DEF RemoveDisplay, LeaveDashboard
<1>2. j \in rows' => j \in rows /\ ~Reaps(a, j)
  BY <1>1 DEF Reaps
<1>3. \A b \in Attempts : b # a /\ Reaps(b, j) => Reaps(b, j)'
  BY <1>1 DEF Reaps, IsCurrent, WorksOn
<1>. QED  BY <1>2, <1>3 DEF RowReaped

-----------------------------------------------------------------------------
(* The session a page is served from is whole.                                             *)

WholeInv ==
    /\ TInv /\ OwnDisplays /\ ClaimInv
    /\ \A j \in Joins : DisplayInv(j) /\ ServeInv(j) /\ RowReaped(j)

LEMMA WholeWorksOn ==
    ASSUME WholeInv, NEW a \in Attempts, Task(a)
    PROVE  WorksOn(a)
<1>1. CapsOwned
  BY DEF CapsOwned, WholeInv, ServeInv, CapTrue
<1>2. DoomedHeld
  BY DEF DoomedHeld, WholeInv, DisplayInv, LocalsTrue, TInv, TypeOK, TaskWhole
<1>. QED  BY <1>1, <1>2, TaskWorksOn DEF WholeInv

LEMMA TaskKeepsWhole ==
    ASSUME WholeInv, ~Preempt, NEW a \in Attempts, Task(a), ~Handshake(a), NEW j \in Joins
    PROVE  DisplayInv(j)' /\ ServeInv(j)' /\ RowReaped(j)'
<1>1. WorksOn(a)
  BY WholeWorksOn
<1>2. TInv /\ OwnDisplays /\ ClaimInv /\ DisplayInv(j) /\ ServeInv(j) /\ RowReaped(j)
  BY DEF WholeInv
<1>3. CASE j # jn[a]
  BY <1>1, <1>2, <1>3, OtherDisplays, OtherServes, OtherReapers
<1>4. CASE j = jn[a]
  <2>1. DisplayInv(j)'
    BY <1>1, <1>2, <1>4,
     OpenSessionDisplay, NextSeqDisplay, StopPreviousDisplay, ReadExistingDisplay,
     ReuseUntouchedDisplay, ReuseChangeDisplay, NeedDisplayDisplay, CreateDisplayDisplay,
     AttachDisplay, AttachFailedDisplay, ModeAppliedDisplay, ModeRefusedDisplay,
     ReadBackDisplay, RecordDisplay, CheckBeforeCaptureDisplay, StartCaptureDisplay,
     ReadScaleDisplay, WriteScaleDisplay, HalfFailedDisplay, BothReadyDisplay,
     StandDownDisplay, ActivatedDisplay, ActivateFailedDisplay, ArmSessionDisplay,
     AnswerDisplay, AbandonDisplay, GraceOverDisplay, TakeDisplayDisplay,
     RemoveSessionDisplay, RemoveDisplayDisplay, ListenDisplay, EndedDisplay,
     CloseTransportDisplay, StopOwnDisplay
       DEF Task, Build, Unwind
  <2>2. ServeInv(j)'
    BY <1>1, <1>2, <1>4,
     OpenSessionServes, NextSeqServes, StopPreviousServes, ReadExistingServes,
     ReuseUntouchedServes, ReuseChangeServes, NeedDisplayServes, CreateDisplayServes,
     AttachServes, AttachFailedServes, ModeAppliedServes, ModeRefusedServes,
     ReadBackServes, RecordServes, CheckBeforeCaptureServes, StartCaptureServes,
     ReadScaleServes, WriteScaleServes, HalfFailedServes, BothReadyServes,
     StandDownServes, ActivatedServes, ActivateFailedServes, ArmSessionServes,
     AnswerServes, AbandonServes, GraceOverServes, TakeDisplayServes, RemoveSessionServes,
     RemoveDisplayServes, ListenServes, EndedServes, CloseTransportServes, StopOwnServes
       DEF Task, Build, Unwind
  <2>3. RowReaped(j)'
    BY <1>1, <1>2, <1>4,
     OpenSessionReapers, NextSeqReapers, StopPreviousReapers, ReadExistingReapers,
     ReuseUntouchedReapers, ReuseChangeReapers, NeedDisplayReapers, CreateDisplayReapers,
     AttachReapers, AttachFailedReapers, ModeAppliedReapers, ModeRefusedReapers,
     ReadBackReapers, RecordReapers, CheckBeforeCaptureReapers, StartCaptureReapers,
     ReadScaleReapers, WriteScaleReapers, HalfFailedReapers, BothReadyReapers,
     StandDownReapers, ActivatedReapers, ActivateFailedReapers, ArmSessionReapers,
     AnswerReapers, AbandonReapers, GraceOverReapers, TakeDisplayReapers,
     RemoveSessionReapers, RemoveDisplayReapers, ListenReapers, EndedReapers,
     CloseTransportReapers, StopOwnReapers
       DEF Task, Build, Unwind
  <2>. QED  BY <2>1, <2>2, <2>3
<1>. QED  BY <1>3, <1>4

LEMMA NextWhole ==
    ASSUME WholeInv, ~Preempt, [Next]_vars
    PROVE  WholeInv'
<1>1. TInv' /\ OwnDisplays' /\ ClaimInv'
  BY NextTyped, NextOwns, NextClaims DEF WholeInv, TInv
<1>2. ASSUME NEW j \in Joins PROVE DisplayInv(j)' /\ ServeInv(j)' /\ RowReaped(j)'
  <2>1. ASSUME NEW a \in Attempts, Task(a), ~Handshake(a)
        PROVE  DisplayInv(j)' /\ ServeInv(j)' /\ RowReaped(j)'
    BY <2>1, TaskKeepsWhole
  <2>2. CASE \E a \in Attempts : Offer(a)
    BY <2>2, OfferDisplay, OfferServes, OfferReapers DEF WholeInv
  <2>3. CASE \/ \E a \in Attempts : Handshake(a) \/ MarkConnected(a) \/ PeerClosed(a)
             \/ \E i \in Joins : Host(i)
             \/ ScaleApply \/ ScaleRecord \/ Restore
    <3>1. OutsideStays
      BY <2>3, OutsideStaysOut DEF WholeInv
    <3>. QED  BY <3>1, OutsideDisplays, OutsideServes, OutsideReapers DEF WholeInv
  <2>4. CASE UNCHANGED vars
    <3>1. DisplayInv(j)'
      BY <2>4 DEF WholeInv, DisplayInv, FreshRow, Fresh, ShownRow, Alive, KnowsDisplay, AloneRow,
             BuildsFirst, LocalsTrue, Doomed, vars
    <3>2. ServeInv(j)'
      BY <2>4 DEF WholeInv, ServeInv, CapTrue, ServesTrue, Serving, IsCurrent, HoldsCapture, vars
    <3>3. RowReaped(j)'
      BY <2>4 DEF WholeInv, RowReaped, Reaps, IsCurrent, vars
    <3>. QED  BY <3>1, <3>2, <3>3
  <2>. QED  BY <2>1, <2>2, <2>3, <2>4 DEF Next, Finished
<1>. QED  BY <1>1, <1>2 DEF WholeInv

LEMMA InitWhole == Init => WholeInv
<1>. SUFFICES ASSUME Init, NEW j \in Joins
              PROVE  DisplayInv(j) /\ ServeInv(j) /\ RowReaped(j)
  BY InitTyped, InitClaims DEF WholeInv, Init, OwnDisplays, OwnedBy, NoEntry
<1>1. /\ sess[j].live = None /\ sess[j].cap = None /\ sess[j].seq = 0
      /\ j \notin rows /\ scaler.join # j
      /\ \A b \in Attempts : jn[b] # j
  BY LifecycleAssumption DEF Init, NoEntry
<1>2. DisplayInv(j)
  BY <1>1 DEF DisplayInv, FreshRow, ShownRow, AloneRow, Alive, LocalsTrue
<1>3. ServeInv(j)
  BY <1>1 DEF ServeInv, CapTrue
<1>. QED  BY <1>1, <1>2, <1>3 DEF RowReaped

LEMMA AlwaysWhole ==
    ASSUME ~Preempt
    PROVE  Spec => []WholeInv
<1>1. WholeInv /\ [Next]_vars => WholeInv'
  BY NextWhole
<1>. QED  BY InitWhole, <1>1, PTL DEF Spec

\* What a page that is being served needs of its session is there, whoever else asks for
\* the same join, renegotiates, leaves, is kicked or fails meanwhile.
THEOREM ServedWhole ==
    ASSUME ~Preempt
    PROVE  Spec => []CurrentSessionWhole
<1>1. WholeInv => CurrentSessionWhole
  <2>. SUFFICES ASSUME WholeInv, NEW a \in Attempts, Serving(a), IsCurrent(a)
                PROVE  /\ sess[jn[a]].live # None
                       /\ sess[jn[a]].live.id = got[a].id
                       /\ got[a].id \in attached
                       /\ sess[jn[a]].cap = a /\ a \in running
                       /\ sess[jn[a]].leave = a
                       /\ jn[a] \in rows
    BY DEF CurrentSessionWhole
  <2>. DEFINE j == jn[a]
  <2>1. j \in Joins /\ got[a] # None
    BY DEF WholeInv, TInv, TypeOK, TaskWhole, Serving, GotPcs, ServePcs
  <2>2. DisplayInv(j) /\ ServeInv(j) /\ TInv /\ ClaimInv
    BY <2>1 DEF WholeInv
  <2>3. sess[j].cap = a /\ a \in running /\ sess[j].leave = a /\ j \in rows
    BY <2>2 DEF ServeInv, ServesTrue
  <2>4. Alive(j)
    <3>1. pc[a] # "idle" /\ Late(a)
      BY DEF Serving, Late
    <3>2. seq[a] # 0
      BY <2>2, <3>1 DEF ClaimInv, Numbered
    <3>3. ASSUME NEW b \in Attempts, jn[b] = j, pc[b] = "remove" PROVE FALSE
      <4>1. pc[b] \in CurrentPcs /\ pc[b] # "idle"
        BY <3>3 DEF CurrentPcs
      <4>2. a = b
        BY <2>1, <2>2, <3>1, <3>3, <4>1, NumbersOfJoin
      <4>. QED  BY <3>3, <4>2 DEF Serving
    <3>. QED  BY <3>2, <3>3 DEF Alive, IsCurrent
  <2>5. sess[j].live # None
    BY <2>2, <2>3, <2>4 DEF DisplayInv, AloneRow
  <2>6. sess[j].live.id = got[a].id /\ got[a].id \in attached
    BY <2>1, <2>2, <2>4, <2>5 DEF DisplayInv, ShownRow, KnowsDisplay
  <2>. QED  BY <2>3, <2>5, <2>6
<1>. QED  BY <1>1, AlwaysWhole, PTL

\* Every capture and encoder that run have somebody who will stop them.
THEOREM CapturesStopped ==
    ASSUME ~Preempt
    PROVE  Spec => []CaptureHasStopper
<1>1. WholeInv => CaptureHasStopper
  <2>. SUFFICES ASSUME WholeInv, NEW a \in running
                PROVE  \/ HoldsCapture(a)
                       \/ sess[jn[a]].cap = a /\ pc[a] \in {"spawned", "wait", "close", "stopOwn"}
    BY DEF CaptureHasStopper, HoldsCapture
  <2>1. a \in Attempts /\ pc[a] # "idle"
    BY DEF WholeInv, TInv, TypeOK, HostTyped, Underway, EarlyPcs
  <2>2. jn[a] \in Joins
    BY <2>1 DEF WholeInv, TInv, TypeOK, TaskWhole
  <2>. QED  BY <2>1, <2>2 DEF WholeInv, ServeInv, ServesTrue
<1>. QED  BY <1>1, AlwaysWhole, PTL

\* Every row on the dashboard has a task that will take it down.
THEOREM RowsReaped ==
    ASSUME ~Preempt
    PROVE  Spec => []RowHasReaper
<1>1. WholeInv => RowHasReaper
  <2>1. WholeInv => rows \subseteq Joins
    BY DEF WholeInv, TInv, TypeOK, HostTyped
  <2>. QED  BY <2>1 DEF WholeInv, RowReaped, Reaps, RowHasReaper
<1>. QED  BY <1>1, AlwaysWhole, PTL

-----------------------------------------------------------------------------
(* Nothing is removed from under a current attempt.                                        *)

LEMMA AttachedStays ==
    ASSUME TInv, NEW a \in Attempts, Task(a), ~AttachFailed(a), ~RemoveDisplay(a)
    PROVE  attached \subseteq attached'
  BY DEF Task, Build, Unwind, OpenSession, NextSeq, StopPrevious, ReadExisting, ReuseUntouched,
         ReuseChange, NeedDisplay, CreateDisplay, Attach, ModeApplied, ModeRefused, ReadBack,
         Record, CheckBeforeCapture, StartCapture, ReadScale, WriteScale, Handshake, HalfFailed,
         BothReady, StandDown, Activated, ActivateFailed, ArmSession, Answer, Abandon, GraceOver,
         TakeDisplay, RemoveSession, Listen, Ended, CloseTransport, StopOwn, osVars

\* A current attempt that builds or serves has a number, and a join.
LEMMA UsingLate ==
    ASSUME TInv, ClaimInv, NEW b \in Using
    PROVE  /\ b \in Attempts /\ Late(b) /\ seq[b] # 0 /\ jn[b] \in Joins
           /\ IsCurrent(b) /\ pc[b] \notin {"idle", "attach", "remove"}
<1>1. /\ b \in Attempts /\ IsCurrent(b) /\ Late(b) /\ pc[b] \notin {"idle", "attach", "remove"}
  BY DEF Using, BuildPcs, ServePcs, Late
<1>. QED  BY <1>1 DEF ClaimInv, Numbered, TInv, TypeOK, TaskWhole

LEMMA SessionsStayOpen ==
    ASSUME WholeInv, ~Preempt, NEW a \in Attempts, Task(a), ~Handshake(a), NEW b \in Using
    PROVE  sess'[jn[b]].open
<1>1. /\ b \in Attempts /\ Late(b) /\ jn[b] \in Joins /\ sess[jn[b]].open /\ IsCurrent(b)
      /\ pc[b] # "remove"
  BY UsingLate DEF WholeInv, IsCurrent
<1>2. CASE RemoveSession(a)
  <2>1. pc[a] \in CurrentPcs /\ pc[a] = "remove" /\ pc[a] # "idle"
    BY <1>2 DEF RemoveSession, CurrentPcs
  <2>2. jn[a] \in Joins /\ \A i \in Joins : i # jn[a] => sess'[i] = sess[i]
    BY <1>2, RemoveSessionRow DEF RowIs, WholeInv
  <2>3. jn[b] # jn[a]
    BY <1>1, <2>1, <2>2, NumbersOfJoin DEF WholeInv
  <2>. QED  BY <1>1, <2>2, <2>3
<1>3. CASE OpenSession(a)
  BY <1>1, <1>3, OpenSessionRow DEF RowIs, WholeInv
<1>4. CASE NextSeq(a)
  BY <1>1, <1>4, NextSeqRow DEF RowIs, WholeInv
<1>5. CASE pc[a] \notin {"open", "seq", "remove"}
  BY <1>1, <1>5, TaskMoves DEF ClaimsKept, WholeInv
<1>6. pc[a] \in {"open", "seq", "remove"} => OpenSession(a) \/ NextSeq(a) \/ RemoveSession(a)
  BY DEF Task, Build, Unwind, StopPrevious, ReadExisting, ReuseUntouched, ReuseChange,
         NeedDisplay, CreateDisplay, Attach, AttachFailed, ModeApplied, ModeRefused, ReadBack,
         Record, CheckBeforeCapture, StartCapture, ReadScale, WriteScale, HalfFailed, BothReady,
         StandDown, Activated, ActivateFailed, ArmSession, Answer, Abandon, GraceOver,
         TakeDisplay, RemoveDisplay, Listen, Ended, CloseTransport, StopOwn
<1>. QED  BY <1>2, <1>3, <1>4, <1>5, <1>6

LEMMA UsedDisplaysStay ==
    ASSUME WholeInv, ~Preempt, NEW a \in Attempts, Task(a)
    PROVE  attached \cap UsedNow \subseteq attached'
<1>. SUFFICES ASSUME NEW d \in attached, d \in UsedNow, d \notin attached'
              PROVE  FALSE
  OBVIOUS
<1>1. PICK b \in Using : \/ had[b] # None /\ had[b].id = d
                         \/ got[b] # None /\ got[b].id = d
  BY DEF UsedNow
<1>2. /\ b \in Attempts /\ Late(b) /\ seq[b] # 0 /\ jn[b] \in Joins /\ IsCurrent(b)
      /\ pc[b] # "attach"
  BY UsingLate DEF WholeInv
<1>3. madeFor[d] = jn[b]
  BY <1>1, <1>2 DEF WholeInv, OwnDisplays, OwnedBy
<1>4. jn[b] = jn[a]
  BY <1>3, WholeWorksOn DEF WorksOn
<1>5. CASE AttachFailed(a)
  <2>1. pc[a] = "attach" /\ Run(a)
    BY <1>5 DEF AttachFailed
  <2>2. Alive(jn[a])
    <3>1. \A c \in Attempts : c # a => pc[c] \notin HeldPcs
      BY <2>1, OthersYield DEF WholeInv
    <3>. QED  BY <1>2, <1>4, <2>1, <3>1 DEF Alive, IsCurrent, HeldPcs
  <2>3. CASE sess[jn[a]].live = None
    BY <1>2, <1>4, <2>1, <2>2, <2>3 DEF WholeInv, DisplayInv, AloneRow
  <2>4. CASE sess[jn[a]].live # None
    BY <1>2, <1>4, <2>1, <2>2, <2>4 DEF WholeInv, DisplayInv, ShownRow, KnowsDisplay
  <2>. QED  BY <2>3, <2>4
<1>6. CASE RemoveDisplay(a)
  BY <1>2, <1>4, <1>6 DEF RemoveDisplay, WholeInv, ClaimInv, StandsCurrent, IsCurrent
<1>7. CASE ~AttachFailed(a) /\ ~RemoveDisplay(a)
  BY <1>7, AttachedStays DEF WholeInv
<1>. QED  BY <1>5, <1>6, <1>7

\* No step, whoever takes it, removes a session or a display from under an attempt that is
\* current: a teardown or a failed attempt that was superseded leaves both alone.
THEOREM UsedKept ==
    ASSUME ~Preempt
    PROVE  Spec => KeepUsed
<1>. DEFINE Kept == /\ \A a \in Using : sess'[jn[a]].open
                    /\ attached \cap UsedNow \subseteq attached'
<1>1. WholeInv /\ [Next]_vars => [Kept]_vars
  <2>. SUFFICES ASSUME WholeInv, Next
                PROVE  Kept \/ UNCHANGED vars
    OBVIOUS
  <2>1. ASSUME NEW a \in Attempts, Task(a), ~Handshake(a) PROVE Kept
    BY <2>1, SessionsStayOpen, UsedDisplaysStay
  <2>2. CASE \E a \in Attempts : Offer(a)
    <3>1. sess' = sess /\ attached' = attached
      BY <2>2 DEF Offer, osVars
    <3>. QED  BY <3>1 DEF Using, IsCurrent
  <2>3. CASE \/ \E a \in Attempts : Handshake(a) \/ MarkConnected(a) \/ PeerClosed(a)
             \/ \E i \in Joins : Host(i)
             \/ ScaleApply \/ ScaleRecord \/ Restore
    <3>1. OutsideStays
      BY <2>3, OutsideStaysOut DEF WholeInv
    <3>2. \A b \in Using : jn[b] \in Joins /\ sess[jn[b]].open
      BY UsingLate DEF WholeInv, IsCurrent
    <3>. QED  BY <3>1, <3>2 DEF OutsideStays
  <2>. HIDE DEF Kept
  <2>. QED  BY <2>1, <2>2, <2>3 DEF Next, Finished
<1>. QED  BY <1>1, AlwaysWhole, PTL DEF Spec, KeepUsed

-----------------------------------------------------------------------------
(* What is left when all have ended.                                                       *)

\* Where an attempt that has its number has yet to record a display.
ToRecordPcs == {"stopPrev", "existing", "display", "lock", "attach", "setMode", "readBack",
                "record"}

\* Where it has one in hand.
InHandPcs == {"attach", "setMode", "readBack", "record"}

\* An offer that continues a join has a later number than the first, and only such an
\* offer finds a display.
ContinuesLater(j) ==
    \A b \in Attempts : jn[b] = j =>
        /\ Late(b) => (cont[b] <=> seq[b] # 1)
        /\ had[b] # None => cont[b]

\* A task that removes a session has cleared its record, and the teardown task of an
\* answered attempt still knows what it streamed.
RemovesCleared(j) ==
    \A b \in Attempts : jn[b] = j =>
        /\ pc[b] = "remove" => sess[j].live = None
        /\ pc[b] \in {"forget", "remove"} /\ b \in answered => got[b] # None

\* Beside a record, or without a session, only an offer that continued is still to record.
LateContinues(j) ==
    \A b \in Attempts : jn[b] = j =>
        /\ Alive(j) /\ sess[j].live # None /\ pc[b] \in {"setMode", "readBack", "record"} => cont[b]
        /\ ~Alive(j) /\ pc[b] \in ToRecordPcs => cont[b]

\* Without a session, it is not the only one that continued.
LateIsSecond(j) ==
    sess[j].seq = 0 =>
        \A b \in Attempts : jn[b] = j /\ pc[b] \in ToRecordPcs =>
            \E r \in Attempts : r # b /\ jn[r] = j /\ cont[r]

Awaits(b, j, d) == jn[b] = j /\ pc[b] \in InHandPcs /\ got[b].id = d

Removes(b, j, d) ==
    /\ jn[b] = j /\ pc[b] \in {"remove", "removeDisplay"}
    /\ Doomed(b) # None /\ Doomed(b).id = d

\* An attached display is in the hands of an attempt that will record it or of a task that
\* will remove it, or it is recorded; or its join was renegotiated twice.
Accounted(j, d) ==
    \/ \E b \in Attempts : Awaits(b, j, d) \/ Removes(b, j, d)
    \/ Alive(j) /\ sess[j].live # None /\ sess[j].live.id = d
    \/ sess[j].seq = 0 /\ sess[j].live # None /\ RenegotiatedTwice(j)

AllAccounted(j) == \A d \in attached : madeFor[d] = j => Accounted(j, d)

CustodyInv(j) ==
    /\ ContinuesLater(j) /\ RemovesCleared(j) /\ LateContinues(j) /\ LateIsSecond(j)
    /\ AllAccounted(j)

\* A task leaves the custody of the other joins as it is.
LEMMA OtherCustody ==
    ASSUME TInv, OwnDisplays, NEW a \in Attempts, WorksOn(a), NEW j \in Joins, j # jn[a],
           madeFor' = madeFor \/ \E d \in Displays : madeFor' = [madeFor EXCEPT ![d] = jn[a]],
           \A d \in attached' : d \in attached \/ madeFor'[d] = jn[a],
           CustodyInv(j)
    PROVE  CustodyInv(j)'
<1>1. /\ sess'[j] = sess[j] /\ cont' = cont /\ jn' = jn
      /\ \A b \in Attempts : jn[b] = j =>
            /\ pc'[b] = pc[b] /\ had'[b] = had[b] /\ got'[b] = got[b] /\ seq'[b] = seq[b]
            /\ b \in answered' <=> b \in answered
            /\ taken'[b] = taken[b]
  BY DEF WorksOn
<1>2. ContinuesLater(j)'
  BY <1>1 DEF CustodyInv, ContinuesLater, Late
<1>3. RemovesCleared(j)'
  BY <1>1 DEF CustodyInv, RemovesCleared
<1>4. Alive(j)' <=> Alive(j)
  BY <1>1 DEF Alive
<1>5. LateContinues(j)'
  BY <1>1, <1>4 DEF CustodyInv, LateContinues
<1>6. LateIsSecond(j)'
  BY <1>1 DEF CustodyInv, LateIsSecond
<1>7. AllAccounted(j)'
  <2>. SUFFICES ASSUME NEW d \in attached', madeFor'[d] = j
                PROVE  Accounted(j, d)'
    BY DEF AllAccounted
  <2>1. d \in attached
    OBVIOUS
  <2>2. madeFor[d] = j
    BY <2>1 DEF TInv, TypeOK, HostTyped
  <2>3. Accounted(j, d)
    BY <2>1, <2>2 DEF CustodyInv, AllAccounted
  <2>4. \A b \in Attempts : /\ Awaits(b, j, d) => Awaits(b, j, d)'
                            /\ Removes(b, j, d) => Removes(b, j, d)'
    BY <1>1 DEF Awaits, Removes, Doomed
  <2>5. RenegotiatedTwice(j) => RenegotiatedTwice(j)'
    BY <1>1 DEF RenegotiatedTwice
  <2>. QED  BY <1>1, <1>4, <2>3, <2>4, <2>5 DEF Accounted
<1>. QED  BY <1>2, <1>3, <1>5, <1>6, <1>7 DEF CustodyInv

\* A step of a task that gives up neither a display in hand nor a session, and records none.
Plain(a) ==
    /\ Late(a) /\ pc[a] \notin {"remove", "removeDisplay"}
    /\ pc'[a] \notin {"idle", "open", "seq", "remove", "removeDisplay"}
    /\ seq' = seq /\ attached' = attached /\ madeFor' = madeFor
    /\ sess'[jn[a]].seq = sess[jn[a]].seq /\ sess'[jn[a]].live = sess[jn[a]].live
    /\ had'[a] # None => cont[a]
    /\ pc'[a] \in ToRecordPcs => pc[a] \in ToRecordPcs
    /\ pc[a] \in InHandPcs => pc'[a] \in InHandPcs /\ got'[a].id = got[a].id
    /\ pc'[a] \in {"setMode", "readBack", "record"} => pc[a] \in InHandPcs \/ cont[a]
    /\ pc'[a] = "forget" /\ a \in answered' => got'[a] # None

LEMMA PlainCustody ==
    ASSUME TInv, NEW a \in Attempts, WorksOn(a), Plain(a),
           NEW j \in Joins, j = jn[a], DisplayInv(j), CustodyInv(j)
    PROVE  CustodyInv(j)'
<1>1. /\ cont' = cont /\ jn' = jn /\ seq' = seq
      /\ \A b \in Attempts : b # a =>
            /\ pc'[b] = pc[b] /\ had'[b] = had[b] /\ got'[b] = got[b]
            /\ b \in answered' <=> b \in answered
            /\ taken'[b] = taken[b]
      /\ sess'[j].seq = sess[j].seq /\ sess'[j].live = sess[j].live
  BY DEF WorksOn, Plain
<1>2. ContinuesLater(j)'
  BY <1>1 DEF CustodyInv, ContinuesLater, Late, Plain
<1>3. RemovesCleared(j)'
  BY <1>1 DEF CustodyInv, RemovesCleared, Plain
<1>4. Alive(j)' <=> Alive(j)
  BY <1>1 DEF Alive, Plain
<1>5. LateContinues(j)'
  <2>. SUFFICES ASSUME NEW b \in Attempts, jn[b] = j
                PROVE  /\ Alive(j) /\ sess[j].live # None
                              /\ pc'[b] \in {"setMode", "readBack", "record"} => cont[b]
                       /\ ~Alive(j) /\ pc'[b] \in ToRecordPcs => cont[b]
    BY <1>1, <1>4 DEF LateContinues
  <2>1. CASE b # a
    BY <1>1, <2>1 DEF CustodyInv, LateContinues
  <2>2. CASE b = a
    <3>1. ASSUME Alive(j), sess[j].live # None, pc'[a] \in {"setMode", "readBack", "record"}
          PROVE  cont[a]
      <4>1. pc[a] # "attach"
        BY <3>1 DEF DisplayInv, ShownRow, KnowsDisplay
      <4>. QED  BY <3>1, <4>1 DEF CustodyInv, LateContinues, Plain, InHandPcs
    <3>2. ASSUME ~Alive(j), pc'[a] \in ToRecordPcs PROVE cont[a]
      BY <3>2 DEF CustodyInv, LateContinues, Plain
    <3>. QED  BY <2>2, <3>1, <3>2
  <2>. QED  BY <2>1, <2>2
<1>6. LateIsSecond(j)'
  BY <1>1 DEF CustodyInv, LateIsSecond, Plain
<1>7. AllAccounted(j)'
  <2>. SUFFICES ASSUME NEW d \in attached, madeFor[d] = j
                PROVE  Accounted(j, d)'
    BY DEF AllAccounted, Plain
  <2>1. Accounted(j, d)
    BY DEF CustodyInv, AllAccounted
  <2>2. \A b \in Attempts : b # a => /\ Awaits(b, j, d) => Awaits(b, j, d)'
                                     /\ Removes(b, j, d) => Removes(b, j, d)'
    BY <1>1 DEF Awaits, Removes, Doomed
  <2>3. Awaits(a, j, d) => Awaits(a, j, d)'
    BY <1>1 DEF Awaits, Plain
  <2>4. ~Removes(a, j, d)
    BY DEF Removes, Plain
  <2>5. RenegotiatedTwice(j) => RenegotiatedTwice(j)'
    BY <1>1 DEF RenegotiatedTwice
  <2>. QED  BY <1>1, <1>4, <2>1, <2>2, <2>3, <2>4, <2>5 DEF Accounted
<1>. QED  BY <1>2, <1>3, <1>5, <1>6, <1>7 DEF CustodyInv

\* Only CreateDisplay makes a display, for the join it works on.
LEMMA TaskCreates ==
    ASSUME TInv, NEW a \in Attempts, Task(a)
    PROVE  /\ madeFor' = madeFor \/ \E d \in Displays : madeFor' = [madeFor EXCEPT ![d] = jn[a]]
           /\ \A d \in attached' : d \in attached \/ madeFor'[d] = jn[a]
<1>1. CASE CreateDisplay(a)
  BY <1>1 DEF CreateDisplay, TInv, TypeOK, HostTyped
<1>2. CASE ~CreateDisplay(a)
  BY <1>2 DEF Task, Build, Unwind, OpenSession, NextSeq, StopPrevious, ReadExisting, ReuseUntouched,
         ReuseChange, NeedDisplay, Attach, AttachFailed, ModeApplied, ModeRefused, ReadBack,
         Record, CheckBeforeCapture, StartCapture, ReadScale, WriteScale, Handshake, HalfFailed,
         BothReady, StandDown, Activated, ActivateFailed, ArmSession, Answer, Abandon, GraceOver,
         TakeDisplay, RemoveSession, RemoveDisplay, Listen, Ended, CloseTransport, StopOwn, osVars
<1>. QED  BY <1>1, <1>2

\* Most steps are plain.
LEMMA TaskPlain ==
    ASSUME TInv, ClaimInv, NEW a \in Attempts, jn[a] \in Joins, DisplayInv(jn[a]),
           ServeInv(jn[a]), CustodyInv(jn[a]), Task(a), ~Handshake(a),
           ~OpenSession(a), ~NextSeq(a), ~CreateDisplay(a), ~AttachFailed(a), ~Record(a),
           ~TakeDisplay(a), ~RemoveSession(a), ~RemoveDisplay(a)
    PROVE  Plain(a)
<1>1. /\ pc \in [Attempts -> PcLabels] /\ had \in [Attempts -> LiveDisplay \cup {None}]
      /\ got \in [Attempts -> LiveDisplay \cup {None}]
      /\ \A d \in Displays : mode[d] \in Modes \cup {None}
  BY DEF TInv, TypeOK, TaskTyped, HostTyped
<1>2. /\ had[a] # None => cont[a]
      /\ Late(a) /\ pc[a] \in {"stopPrev", "existing"} => (had[a] = None \/ cont[a])
      /\ pc[a] \in GotPcs => got[a] # None
      /\ a \in answered => pc[a] \in AnsweredPcs
  BY DEF CustodyInv, ContinuesLater, TInv, TypeOK, TaskWhole, ServeInv, ServesTrue
<1>3. CASE StopPrevious(a)
  <2>1. sess'[jn[a]].seq = sess[jn[a]].seq /\ sess'[jn[a]].live = sess[jn[a]].live
    BY <1>3, StopPreviousRow DEF RowIs
  <2>. QED
    BY <1>1, <1>2, <1>3, <2>1
       DEF StopPrevious, Plain, Late, Goto, claimVars, buildVars, osVars, ToRecordPcs, InHandPcs
<1>4. CASE ReadExisting(a)
  <2>1. sess'[jn[a]].seq = sess[jn[a]].seq /\ sess'[jn[a]].live = sess[jn[a]].live
    BY <1>4, ReadExistingRow DEF RowIs
  <2>. QED
    BY <1>1, <1>2, <1>4, <2>1
       DEF ReadExisting, Plain, Late, Goto, claimVars, buildVars, osVars, ToRecordPcs, InHandPcs
<1>5. CASE ReuseUntouched(a)
  BY <1>1, <1>2, <1>5
     DEF ReuseUntouched, Plain, Late, Goto, claimVars, buildVars, osVars, ToRecordPcs, InHandPcs
<1>6. CASE ReuseChange(a)
  BY <1>1, <1>2, <1>6
     DEF ReuseChange, Plain, Late, Goto, claimVars, buildVars, osVars, ToRecordPcs, InHandPcs
<1>7. CASE NeedDisplay(a)
  BY <1>1, <1>2, <1>7
     DEF NeedDisplay, Plain, Late, Goto, claimVars, buildVars, osVars, ToRecordPcs, InHandPcs
<1>8. CASE Attach(a)
  BY <1>1, <1>2, <1>8
     DEF Attach, Plain, Late, Goto, claimVars, buildVars, osVars, ToRecordPcs, InHandPcs, GotPcs, LiveDisplay
<1>9. CASE ModeApplied(a)
  BY <1>1, <1>2, <1>9
     DEF ModeApplied, Plain, Late, Goto, claimVars, buildVars, osVars, ToRecordPcs, InHandPcs, GotPcs, LiveDisplay
<1>10. CASE ModeRefused(a)
  BY <1>1, <1>2, <1>10
     DEF ModeRefused, Plain, Late, Goto, claimVars, buildVars, osVars, ToRecordPcs, InHandPcs, GotPcs, LiveDisplay
<1>11. CASE ReadBack(a)
  BY <1>1, <1>2, <1>11
     DEF ReadBack, Plain, Late, Goto, claimVars, buildVars, osVars, ToRecordPcs, InHandPcs, GotPcs, LiveDisplay
<1>12. CASE CheckBeforeCapture(a)
  BY <1>1, <1>2, <1>12
     DEF CheckBeforeCapture, Plain, Late, Goto, claimVars, buildVars, osVars, ToRecordPcs, InHandPcs
<1>13. CASE StartCapture(a)
  BY <1>1, <1>2, <1>13
     DEF StartCapture, Plain, Late, Goto, claimVars, buildVars, osVars, ToRecordPcs, InHandPcs
<1>14. CASE ReadScale(a)
  BY <1>1, <1>2, <1>14
     DEF ReadScale, Plain, Late, Goto, claimVars, buildVars, osVars, ToRecordPcs, InHandPcs
<1>15. CASE WriteScale(a)
  <2>1. sess'[jn[a]].seq = sess[jn[a]].seq /\ sess'[jn[a]].live = sess[jn[a]].live
    <3>1. snap[a] = sess[jn[a]].live
      BY <1>15 DEF DisplayInv, LocalsTrue, WriteScale
    <3>. QED  BY <1>15, <3>1, WriteScaleRow DEF RowIs
  <2>. QED
    BY <1>1, <1>2, <1>15, <2>1
       DEF WriteScale, Plain, Late, Goto, claimVars, buildVars, osVars, ToRecordPcs, InHandPcs, DisplayInv, LocalsTrue
<1>16. CASE HalfFailed(a)
  BY <1>1, <1>2, <1>16
     DEF HalfFailed, Plain, Late, Goto, claimVars, buildVars, osVars, ToRecordPcs, InHandPcs
<1>17. CASE BothReady(a)
  BY <1>1, <1>2, <1>17
     DEF BothReady, Plain, Late, Goto, claimVars, buildVars, osVars, ToRecordPcs, InHandPcs
<1>18. CASE StandDown(a)
  BY <1>1, <1>2, <1>18
     DEF StandDown, Plain, Late, Goto, claimVars, buildVars, osVars, ToRecordPcs, InHandPcs, GoOrEnd, locals
<1>19. CASE Activated(a)
  BY <1>1, <1>2, <1>19
     DEF Activated, Plain, Late, Goto, claimVars, buildVars, osVars, ToRecordPcs, InHandPcs
<1>20. CASE ActivateFailed(a)
  BY <1>1, <1>2, <1>20
     DEF ActivateFailed, Plain, Late, Goto, claimVars, buildVars, osVars, ToRecordPcs, InHandPcs
<1>21. CASE ArmSession(a)
  <2>1. sess'[jn[a]].seq = sess[jn[a]].seq /\ sess'[jn[a]].live = sess[jn[a]].live
    BY <1>21, ArmSessionRow DEF RowIs
  <2>. QED
    BY <1>1, <1>2, <1>21, <2>1
       DEF ArmSession, Plain, Late, Goto, claimVars, buildVars, osVars, ToRecordPcs, InHandPcs
<1>22. CASE Answer(a)
  <2>1. sess'[jn[a]].seq = sess[jn[a]].seq /\ sess'[jn[a]].live = sess[jn[a]].live
    BY <1>22, AnswerRow DEF RowIs
  <2>. QED
    BY <1>1, <1>2, <1>22, <2>1
       DEF Answer, Plain, Late, Goto, claimVars, buildVars, osVars, ToRecordPcs, InHandPcs
<1>23. CASE Abandon(a)
  <2>1. /\ pc'[a] \in {"forget", "failGrace", "done"} /\ (pc'[a] = "forget" => got' = got)
        /\ had' = had \/ had' = [had EXCEPT ![a] = None]
    BY <1>1, <1>23 DEF Abandon, Goto, GoOrEnd, locals
  <2>. QED
    BY <1>1, <1>2, <1>23, <2>1
       DEF Abandon, Plain, Late, claimVars, osVars, ToRecordPcs, InHandPcs, GotPcs, AnsweredPcs,
           ServePcs
<1>24. CASE GraceOver(a)
  <2>1. /\ pc'[a] \in {"forget", "failGrace", "done"} /\ (pc'[a] = "forget" => got' = got)
        /\ had' = had \/ had' = [had EXCEPT ![a] = None]
    BY <1>1, <1>24 DEF GraceOver, Goto, GoOrEnd, locals
  <2>. QED
    BY <1>1, <1>2, <1>24, <2>1
       DEF GraceOver, Plain, Late, claimVars, osVars, ToRecordPcs, InHandPcs, GotPcs, AnsweredPcs,
           ServePcs
<1>25. CASE Listen(a)
  BY <1>1, <1>2, <1>25
     DEF Listen, Plain, Late, Goto, claimVars, buildVars, osVars, ToRecordPcs, InHandPcs
<1>26. CASE Ended(a)
  BY <1>1, <1>2, <1>26
     DEF Ended, Plain, Late, Goto, claimVars, buildVars, osVars, ToRecordPcs, InHandPcs
<1>27. CASE CloseTransport(a)
  BY <1>1, <1>2, <1>27
     DEF CloseTransport, Plain, Late, Goto, claimVars, buildVars, osVars, ToRecordPcs, InHandPcs
<1>28. CASE StopOwn(a)
  <2>1. sess'[jn[a]].seq = sess[jn[a]].seq /\ sess'[jn[a]].live = sess[jn[a]].live
    BY <1>28, StopOwnRow DEF RowIs
  <2>. QED
    BY <1>1, <1>2, <1>28, <2>1
       DEF StopOwn, Plain, Late, Goto, claimVars, buildVars, osVars, ToRecordPcs, InHandPcs
<1>. QED
  BY <1>3, <1>4, <1>5, <1>6, <1>7, <1>8, <1>9, <1>10, <1>11, <1>12, <1>13, <1>14, <1>15, <1>16, <1>17, <1>18, <1>19, <1>20, <1>21, <1>22, <1>23, <1>24, <1>25, <1>26, <1>27, <1>28 DEF Task, Build, Unwind

\* What the other attempts hold, a task leaves them.
LEMMA OthersHold ==
    ASSUME NEW a \in Attempts, WorksOn(a), NEW b \in Attempts, b # a, NEW j, NEW d
    PROVE  /\ Awaits(b, j, d) => Awaits(b, j, d)'
           /\ Removes(b, j, d) => Removes(b, j, d)'
  BY DEF WorksOn, Awaits, Removes, Doomed

LEMMA TwiceStays ==
    ASSUME NEW j, jn' = jn, cont' = cont, RenegotiatedTwice(j)
    PROVE  RenegotiatedTwice(j)'
  BY DEF RenegotiatedTwice

LEMMA OpenSessionCustody ==
    ASSUME TInv, ClaimInv, NEW a \in Attempts, OpenSession(a), WorksOn(a),
           NEW j \in Joins, j = jn[a], DisplayInv(j), CustodyInv(j)
    PROVE  CustodyInv(j)'
<1>1. sess'[j].seq = sess[j].seq /\ sess'[j].live = sess[j].live
  BY OpenSessionRow DEF RowIs
<1>2. /\ pc[a] = "open" /\ pc'[a] = "seq" /\ had' = had /\ got' = got /\ seq' = seq
      /\ answered' = answered /\ attached' = attached /\ madeFor' = madeFor
      /\ jn' = jn /\ cont' = cont /\ \A b \in Attempts : b # a => pc'[b] = pc[b]
  BY DEF OpenSession, Goto, claimVars, buildVars, osVars, TInv, TypeOK, TaskTyped
<1>3. ContinuesLater(j)'
  BY <1>2 DEF CustodyInv, ContinuesLater, Late
<1>4. RemovesCleared(j)'
  BY <1>1, <1>2 DEF CustodyInv, RemovesCleared
<1>5. Alive(j)' <=> Alive(j)
  BY <1>1, <1>2 DEF Alive
<1>6. LateContinues(j)'
  BY <1>1, <1>2, <1>5 DEF CustodyInv, LateContinues, ToRecordPcs
<1>7. LateIsSecond(j)'
  BY <1>1, <1>2 DEF CustodyInv, LateIsSecond, ToRecordPcs
<1>8. AllAccounted(j)'
  <2>. SUFFICES ASSUME NEW d \in attached, madeFor[d] = j
                PROVE  Accounted(j, d)'
    BY <1>2 DEF AllAccounted
  <2>1. Accounted(j, d)
    BY DEF CustodyInv, AllAccounted
  <2>2. ~Awaits(a, j, d) /\ ~Removes(a, j, d)
    BY <1>2 DEF Awaits, Removes, InHandPcs
  <2>. QED  BY <1>1, <1>2, <1>5, <2>1, <2>2, OthersHold, TwiceStays DEF Accounted
<1>. QED  BY <1>3, <1>4, <1>6, <1>7, <1>8 DEF CustodyInv

\* The first offer of a join finds nothing made for it.
LEMMA NextSeqCustody ==
    ASSUME TInv, ClaimInv, NEW a \in Attempts, NextSeq(a), WorksOn(a),
           NEW j \in Joins, j = jn[a], DisplayInv(j), CustodyInv(j)
    PROVE  CustodyInv(j)'
<1>1. sess'[j].seq = sess[j].seq + 1 /\ sess'[j].live = sess[j].live /\ sess[j].seq \in Nat
  BY NextSeqRow DEF RowIs, TInv, TypeOK, SessTyped, Entry
<1>2. /\ pc[a] = "seq" /\ pc'[a] = (IF cont[a] THEN "stopPrev" ELSE "existing")
      /\ had' = had /\ got' = got /\ seq'[a] = sess[j].seq + 1
      /\ answered' = answered /\ attached' = attached /\ madeFor' = madeFor
      /\ jn' = jn /\ cont' = cont
      /\ \A b \in Attempts : b # a => pc'[b] = pc[b] /\ seq'[b] = seq[b]
  BY DEF NextSeq, Goto, buildVars, osVars, TInv, TypeOK, TaskTyped
<1>3. \A b \in Attempts : b # a => pc[b] \notin HeldPcs
  BY <1>2, OthersYield DEF NextSeq
<1>4. IF cont[a] THEN sess[j].seq # 0
      ELSE sess[j].seq = 0 /\ \A b \in Attempts : jn[b] = j => b = a
  BY <1>2 DEF ClaimInv, FreshJoins
<1>5. ContinuesLater(j)'
  <2>1. cont[a] <=> seq'[a] # 1
    BY <1>1, <1>2, <1>4
  <2>. QED  BY <1>2, <2>1 DEF CustodyInv, ContinuesLater, Late
<1>6. RemovesCleared(j)'
  BY <1>1, <1>2 DEF CustodyInv, RemovesCleared
<1>7. Alive(j)'
  BY <1>1, <1>2, <1>3 DEF Alive, HeldPcs
<1>8. cont[a] => Alive(j)
  BY <1>2, <1>3, <1>4 DEF Alive, HeldPcs
<1>9. LateContinues(j)'
  BY <1>1, <1>2, <1>4, <1>7, <1>8 DEF CustodyInv, LateContinues
<1>10. LateIsSecond(j)'
  BY <1>1 DEF LateIsSecond
<1>11. AllAccounted(j)'
  <2>. SUFFICES ASSUME NEW d \in attached, madeFor[d] = j
                PROVE  Accounted(j, d)'
    BY <1>2 DEF AllAccounted
  <2>1. Accounted(j, d)
    BY DEF CustodyInv, AllAccounted
  <2>2. ~Awaits(a, j, d) /\ ~Removes(a, j, d)
    BY <1>2 DEF Awaits, Removes, InHandPcs
  <2>3. CASE cont[a]
    BY <1>1, <1>4, <1>7, <2>1, <2>2, <2>3, OthersHold DEF Accounted
  <2>4. CASE ~cont[a]
    <3>1. sess[j].live = None
      BY <1>2, <2>4 DEF DisplayInv, FreshRow, Fresh
    <3>2. \A b \in Attempts : ~Awaits(b, j, d) /\ ~Removes(b, j, d)
      BY <1>4, <2>2, <2>4 DEF Awaits, Removes
    <3>. QED  BY <2>1, <3>1, <3>2 DEF Accounted
  <2>. QED  BY <2>3, <2>4
<1>. QED  BY <1>5, <1>6, <1>9, <1>10, <1>11 DEF CustodyInv

LEMMA CreateDisplayCustody ==
    ASSUME TInv, ClaimInv, NEW a \in Attempts, CreateDisplay(a), WorksOn(a),
           NEW j \in Joins, j = jn[a], DisplayInv(j), CustodyInv(j)
    PROVE  CustodyInv(j)'
<1>1. /\ pc[a] = "lock" /\ pc'[a] \in {"attach", "join"} /\ had' = had /\ seq' = seq
      /\ sess' = sess /\ answered' = answered /\ jn' = jn /\ cont' = cont
      /\ \A b \in Attempts : b # a => pc'[b] = pc[b] /\ got'[b] = got[b]
  BY DEF CreateDisplay, Goto, claimVars, TInv, TypeOK, TaskTyped
<1>2. ContinuesLater(j)'
  BY <1>1 DEF CustodyInv, ContinuesLater, Late
<1>3. RemovesCleared(j)'
  BY <1>1 DEF CustodyInv, RemovesCleared
<1>4. Alive(j)' <=> Alive(j)
  BY <1>1 DEF Alive
<1>5. LateContinues(j)'
  BY <1>1, <1>4 DEF CustodyInv, LateContinues, ToRecordPcs
<1>6. LateIsSecond(j)'
  BY <1>1 DEF CustodyInv, LateIsSecond, ToRecordPcs
<1>7. \A d \in attached' : madeFor'[d] = j =>
          (d \in attached /\ madeFor[d] = j) \/ Awaits(a, j, d)'
  <2>1. CASE attached' = attached /\ madeFor' = madeFor
    BY <2>1
  <2>2. ASSUME NEW e \in Displays, NEW m \in Modes, attached' = attached \cup {e},
               madeFor' = [madeFor EXCEPT ![e] = j], pc'[a] = "attach",
               got' = [got EXCEPT ![a] = [id |-> e, mode |-> m]]
        PROVE  \A d \in attached' : madeFor'[d] = j =>
                   (d \in attached /\ madeFor[d] = j) \/ Awaits(a, j, d)'
    <3>1. got'[a].id = e
      BY <2>2 DEF TInv, TypeOK, TaskTyped
    <3>2. Awaits(a, j, e)'
      BY <1>1, <2>2, <3>1 DEF Awaits, InHandPcs
    <3>3. \A d \in attached' : d # e => d \in attached /\ madeFor'[d] = madeFor[d]
      BY <2>2 DEF TInv, TypeOK, HostTyped
    <3>. QED  BY <3>2, <3>3
  <2>. QED  BY <2>1, <2>2 DEF CreateDisplay, Goto, TInv, TypeOK, TaskTyped
<1>8. AllAccounted(j)'
  <2>. SUFFICES ASSUME NEW d \in attached, madeFor[d] = j
                PROVE  Accounted(j, d)'
    BY <1>7 DEF AllAccounted, Accounted
  <2>1. Accounted(j, d)
    BY DEF CustodyInv, AllAccounted
  <2>2. ~Awaits(a, j, d) /\ ~Removes(a, j, d)
    BY <1>1 DEF Awaits, Removes, InHandPcs
  <2>. QED  BY <1>1, <1>4, <2>1, <2>2, OthersHold, TwiceStays DEF Accounted
<1>. QED  BY <1>2, <1>3, <1>5, <1>6, <1>8 DEF CustodyInv

LEMMA AttachFailedCustody ==
    ASSUME TInv, ClaimInv, NEW a \in Attempts, AttachFailed(a), WorksOn(a),
           NEW j \in Joins, j = jn[a], DisplayInv(j), CustodyInv(j)
    PROVE  CustodyInv(j)'
<1>1. /\ pc[a] = "attach" /\ pc'[a] = "join" /\ had' = had /\ seq' = seq
      /\ sess' = sess /\ answered' = answered /\ jn' = jn /\ cont' = cont
      /\ attached' = attached \ {got[a].id} /\ madeFor' = madeFor
      /\ \A b \in Attempts : b # a => pc'[b] = pc[b] /\ got'[b] = got[b]
  BY DEF AttachFailed, Goto, claimVars, TInv, TypeOK, TaskTyped
<1>2. ContinuesLater(j)'
  BY <1>1 DEF CustodyInv, ContinuesLater, Late
<1>3. RemovesCleared(j)'
  BY <1>1 DEF CustodyInv, RemovesCleared
<1>4. Alive(j)' <=> Alive(j)
  BY <1>1 DEF Alive
<1>5. LateContinues(j)'
  BY <1>1, <1>4 DEF CustodyInv, LateContinues, ToRecordPcs
<1>6. LateIsSecond(j)'
  BY <1>1 DEF CustodyInv, LateIsSecond, ToRecordPcs
<1>7. AllAccounted(j)'
  <2>. SUFFICES ASSUME NEW d \in attached, d # got[a].id, madeFor[d] = j
                PROVE  Accounted(j, d)'
    BY <1>1 DEF AllAccounted
  <2>1. Accounted(j, d)
    BY DEF CustodyInv, AllAccounted
  <2>2. ~Awaits(a, j, d) /\ ~Removes(a, j, d)
    BY <1>1 DEF Awaits, Removes
  <2>. QED  BY <1>1, <1>4, <2>1, <2>2, OthersHold, TwiceStays DEF Accounted
<1>. QED  BY <1>2, <1>3, <1>5, <1>6, <1>7 DEF CustodyInv

\* A record reaches a session that is there, or one that two continuing offers lost.
LEMMA RecordCustody ==
    ASSUME TInv, ClaimInv, NEW a \in Attempts, Record(a), WorksOn(a),
           NEW j \in Joins, j = jn[a], DisplayInv(j), CustodyInv(j)
    PROVE  CustodyInv(j)'
<1>1. sess'[j].seq = sess[j].seq /\ sess'[j].live = got[a] /\ got[a] # None
  BY RecordRow DEF RowIs, Record, TInv, TypeOK, TaskWhole, GotPcs
<1>2. /\ pc[a] = "record" /\ pc'[a] = "check" /\ had' = had /\ got' = got /\ seq' = seq
      /\ answered' = answered /\ attached' = attached /\ madeFor' = madeFor
      /\ jn' = jn /\ cont' = cont /\ \A b \in Attempts : b # a => pc'[b] = pc[b]
  BY DEF Record, Goto, claimVars, buildVars, osVars, TInv, TypeOK, TaskTyped
<1>3. \A b \in Attempts : b # a => pc[b] \notin HeldPcs
  BY <1>2, OthersYield DEF Record
<1>4. ContinuesLater(j)'
  BY <1>2 DEF CustodyInv, ContinuesLater, Late
<1>5. RemovesCleared(j)'
  BY <1>2, <1>3 DEF RemovesCleared, HeldPcs
<1>6. Alive(j)' <=> Alive(j)
  BY <1>1, <1>2 DEF Alive
<1>7. LateContinues(j)'
  <2>1. Alive(j) /\ sess[j].live = None => \A b \in Attempts : jn[b] = j => b = a
    BY DEF DisplayInv, AloneRow
  <2>. QED  BY <1>2, <1>6, <2>1 DEF CustodyInv, LateContinues, ToRecordPcs
<1>8. LateIsSecond(j)'
  BY <1>1, <1>2 DEF CustodyInv, LateIsSecond, ToRecordPcs
<1>9. AllAccounted(j)'
  <2>. SUFFICES ASSUME NEW d \in attached, madeFor[d] = j
                PROVE  Accounted(j, d)'
    BY <1>2 DEF AllAccounted
  <2>1. Accounted(j, d)
    BY DEF CustodyInv, AllAccounted
  <2>2. ~Removes(a, j, d)
    BY <1>2 DEF Removes
  <2>3. ~Alive(j) => sess[j].seq = 0
    BY <1>2, <1>3 DEF Alive, HeldPcs
  <2>4. sess[j].seq = 0 => RenegotiatedTwice(j)
    <3>. SUFFICES ASSUME sess[j].seq = 0 PROVE RenegotiatedTwice(j)
      OBVIOUS
    <3>1. cont[a] /\ \E r \in Attempts : r # a /\ jn[r] = j /\ cont[r]
      BY <1>2 DEF CustodyInv, LateContinues, LateIsSecond, Alive, ToRecordPcs
    <3>. QED  BY <3>1 DEF RenegotiatedTwice
  <2>5. CASE Awaits(a, j, d)
    BY <1>1, <1>2, <1>6, <2>3, <2>4, <2>5, TwiceStays DEF Accounted, Awaits
  <2>6. CASE Alive(j) /\ sess[j].live # None /\ sess[j].live.id = d
    <3>1. got[a].id = d
      BY <1>1, <2>6 DEF DisplayInv, ShownRow, KnowsDisplay
    <3>. QED  BY <1>1, <1>6, <2>6, <3>1 DEF Accounted
  <2>. QED
    BY <1>1, <1>2, <2>1, <2>2, <2>5, <2>6, OthersHold, TwiceStays DEF Accounted
<1>. QED  BY <1>4, <1>5, <1>7, <1>8, <1>9 DEF CustodyInv

\* Who takes the record out of the row has the display in hand from then on.
LEMMA TakeDisplayCustody ==
    ASSUME TInv, ClaimInv, NEW a \in Attempts, TakeDisplay(a), WorksOn(a),
           NEW j \in Joins, j = jn[a], DisplayInv(j), CustodyInv(j)
    PROVE  CustodyInv(j)'
<1>1. sess'[j].seq = sess[j].seq /\ sess'[j].live = None
  BY TakeDisplayRow DEF RowIs
<1>2. /\ pc[a] = "forget" /\ pc'[a] = "remove" /\ had' = had /\ got' = got /\ seq' = seq
      /\ answered' = answered /\ attached' = attached /\ madeFor' = madeFor
      /\ jn' = jn /\ cont' = cont /\ \A b \in Attempts : b # a => pc'[b] = pc[b]
      /\ taken'[a] = sess[j].live
  BY DEF TakeDisplay, Goto, claimVars, buildVars, osVars, TInv, TypeOK, TaskTyped
<1>3. \A b \in Attempts : b # a => pc[b] \notin HeldPcs
  BY <1>2, OthersYield DEF TakeDisplay
<1>4. sess[j].seq # 0
  BY <1>2 DEF ClaimInv, StandsCurrent, Numbered, CurrentPcs, Late, IsCurrent
<1>5. Alive(j) /\ ~Alive(j)'
  BY <1>2, <1>3, <1>4 DEF Alive, HeldPcs
<1>6. ContinuesLater(j)'
  BY <1>2 DEF CustodyInv, ContinuesLater, Late
<1>7. RemovesCleared(j)'
  BY <1>1, <1>2 DEF CustodyInv, RemovesCleared
<1>8. LateContinues(j)'
  <2>. SUFFICES ASSUME NEW b \in Attempts, jn[b] = j, b # a, pc[b] \in ToRecordPcs
                PROVE  cont[b]
    BY <1>2, <1>5 DEF LateContinues, ToRecordPcs
  <2>1. sess[j].live # None
    BY <1>5 DEF DisplayInv, AloneRow
  <2>2. KnowsDisplay(b, sess[j].live.id)
    BY <1>5, <2>1 DEF DisplayInv, ShownRow
  <2>. QED
    BY <1>5, <2>1, <2>2 DEF KnowsDisplay, CustodyInv, ContinuesLater, LateContinues, ToRecordPcs
<1>9. LateIsSecond(j)'
  BY <1>1, <1>4 DEF LateIsSecond
<1>10. AllAccounted(j)'
  <2>. SUFFICES ASSUME NEW d \in attached, madeFor[d] = j
                PROVE  Accounted(j, d)'
    BY <1>2 DEF AllAccounted
  <2>1. Accounted(j, d)
    BY DEF CustodyInv, AllAccounted
  <2>2. ~Awaits(a, j, d) /\ ~Removes(a, j, d)
    BY <1>2 DEF Awaits, Removes, InHandPcs
  <2>3. CASE sess[j].live # None /\ sess[j].live.id = d
    <3>1. a \in answered => got[a] # None /\ got[a].id = d
      BY <1>2, <1>5, <2>3 DEF CustodyInv, RemovesCleared, DisplayInv, ShownRow, KnowsDisplay
    <3>2. Removes(a, j, d)'
      BY <1>2, <2>3, <3>1 DEF Removes, Doomed
    <3>. QED  BY <3>2 DEF Accounted
  <2>4. CASE \E b \in Attempts : Awaits(b, j, d) \/ Removes(b, j, d)
    BY <2>2, <2>4, OthersHold DEF Accounted
  <2>. QED  BY <1>4, <2>1, <2>3, <2>4 DEF Accounted
<1>. QED  BY <1>6, <1>7, <1>8, <1>9, <1>10 DEF CustodyInv

LEMMA RemoveSessionCustody ==
    ASSUME TInv, ClaimInv, NEW a \in Attempts, RemoveSession(a), WorksOn(a),
           NEW j \in Joins, j = jn[a], DisplayInv(j), ServeInv(j), CustodyInv(j)
    PROVE  CustodyInv(j)'
<1>1. sess'[j].seq = 0 /\ sess'[j].live = None
  BY RemoveSessionRow DEF RowIs
<1>2. /\ pc[a] = "remove" /\ pc'[a] \in {"done", "removeDisplay"} /\ seq' = seq
      /\ answered' = answered /\ attached' = attached /\ madeFor' = madeFor
      /\ jn' = jn /\ cont' = cont /\ \A b \in Attempts : b # a => pc'[b] = pc[b]
      /\ had'[a] # None => had[a] # None
      /\ \A b \in Attempts : b # a => had'[b] = had[b] /\ got'[b] = got[b]
      /\ Doomed(a) # None => pc'[a] = "removeDisplay" /\ got' = got /\ taken' = taken
  BY DEF RemoveSession, Goto, GoOrEnd, locals, claimVars, osVars, TInv, TypeOK, TaskTyped
<1>3. \A b \in Attempts : b # a => pc[b] \notin HeldPcs
  BY <1>2, OthersYield DEF RemoveSession
<1>4. /\ Late(a) /\ IsCurrent(a) /\ sess[j].seq = seq[a] /\ seq[a] # 0
      /\ \A b \in Attempts : jn[b] = j /\ Late(b) => seq[b] # 0 /\ seq[b] <= seq[a]
  BY <1>2, NumbersOfJoin DEF CurrentPcs, Late, IsCurrent
<1>5. ~Alive(j) /\ ~Alive(j)'
  BY <1>1, <1>2 DEF Alive
<1>6. ContinuesLater(j)'
  BY <1>2 DEF CustodyInv, ContinuesLater, Late
<1>7. RemovesCleared(j)'
  BY <1>1, <1>2, <1>3 DEF CustodyInv, RemovesCleared, HeldPcs
<1>8. LateContinues(j)'
  BY <1>2, <1>5 DEF CustodyInv, LateContinues, ToRecordPcs
<1>9. LateIsSecond(j)'
  <2>. SUFFICES ASSUME NEW b \in Attempts, jn[b] = j, b # a, pc[b] \in ToRecordPcs
                PROVE  cont[a]
    BY <1>2 DEF LateIsSecond, ToRecordPcs
  <2>1. Late(b) /\ cont[b]
    BY <1>5 DEF CustodyInv, LateContinues, ToRecordPcs, Late
  <2>2. seq[b] # 1
    BY <2>1 DEF CustodyInv, ContinuesLater
  <2>3. {seq[a], seq[b]} \subseteq Nat
    BY DEF TInv, TypeOK, TaskTyped
  <2>4. seq[a] # 1
    BY <1>4, <2>1, <2>2, <2>3
  <2>. QED  BY <1>4, <2>4 DEF CustodyInv, ContinuesLater
<1>10. AllAccounted(j)'
  <2>. SUFFICES ASSUME NEW d \in attached, madeFor[d] = j
                PROVE  Accounted(j, d)'
    BY <1>2 DEF AllAccounted
  <2>1. PICK b \in Attempts : Awaits(b, j, d) \/ Removes(b, j, d)
    BY <1>4, <1>5 DEF CustodyInv, AllAccounted, Accounted
  <2>2. CASE b # a
    BY <2>1, <2>2, OthersHold DEF Accounted
  <2>3. CASE b = a
    <3>1. Removes(a, j, d)
      BY <1>2, <2>1, <2>3 DEF Awaits, InHandPcs
    <3>2. Removes(a, j, d)'
      BY <1>2, <3>1 DEF Removes, Doomed
    <3>. QED  BY <3>2 DEF Accounted
  <2>. QED  BY <2>2, <2>3
<1>. QED  BY <1>6, <1>7, <1>8, <1>9, <1>10 DEF CustodyInv

LEMMA RemoveDisplayCustody ==
    ASSUME TInv, ClaimInv, NEW a \in Attempts, RemoveDisplay(a), WorksOn(a),
           NEW j \in Joins, j = jn[a], DisplayInv(j), CustodyInv(j)
    PROVE  CustodyInv(j)'
<1>1. /\ pc[a] = "removeDisplay" /\ pc'[a] = "done" /\ seq' = seq /\ sess' = sess
      /\ answered' = answered /\ attached' = attached \ {Doomed(a).id} /\ madeFor' = madeFor
      /\ jn' = jn /\ cont' = cont /\ \A b \in Attempts : b # a => pc'[b] = pc[b]
      /\ had'[a] # None => had[a] # None
      /\ \A b \in Attempts : b # a => had'[b] = had[b] /\ got'[b] = got[b]
  BY DEF RemoveDisplay, Goto, GoOrEnd, locals, claimVars, TInv, TypeOK, TaskTyped
<1>2. Alive(j)' <=> Alive(j)
  BY <1>1 DEF Alive
<1>3. ContinuesLater(j)'
  BY <1>1 DEF CustodyInv, ContinuesLater, Late
<1>4. RemovesCleared(j)'
  BY <1>1 DEF CustodyInv, RemovesCleared
<1>5. LateContinues(j)'
  BY <1>1, <1>2 DEF CustodyInv, LateContinues, ToRecordPcs
<1>6. LateIsSecond(j)'
  BY <1>1 DEF CustodyInv, LateIsSecond, ToRecordPcs
<1>7. AllAccounted(j)'
  <2>. SUFFICES ASSUME NEW d \in attached, d # Doomed(a).id, madeFor[d] = j
                PROVE  Accounted(j, d)'
    BY <1>1 DEF AllAccounted
  <2>1. Accounted(j, d)
    BY DEF CustodyInv, AllAccounted
  <2>2. ~Awaits(a, j, d) /\ ~Removes(a, j, d)
    BY <1>1 DEF Awaits, Removes, InHandPcs
  <2>. QED  BY <1>1, <1>2, <2>1, <2>2, OthersHold, TwiceStays DEF Accounted
<1>. QED  BY <1>3, <1>4, <1>5, <1>6, <1>7 DEF CustodyInv

\* A new offer has nothing in hand.
LEMMA OfferCustody ==
    ASSUME TInv, ClaimInv, NEW a \in Attempts, Offer(a), NEW j \in Joins, CustodyInv(j)
    PROVE  CustodyInv(j)'
<1>1. /\ pc[a] = "idle" /\ pc'[a] = "open" /\ \A b \in Attempts : b # a => pc'[b] = pc[b]
      /\ sess' = sess /\ had' = had /\ got' = got /\ taken' = taken /\ seq' = seq
      /\ attached' = attached /\ madeFor' = madeFor /\ answered' = answered
      /\ had[a] = None /\ jn[a] # j
  BY LifecycleAssumption
     DEF Offer, Goto, osVars, TInv, TypeOK, TaskTyped, TaskWhole, ClaimInv, Numbered
<1>2. \A b \in Attempts : b # a => jn'[b] = jn[b] /\ cont'[b] = cont[b]
  BY OfferTakes
<1>3. ContinuesLater(j)'
  BY <1>1, <1>2 DEF CustodyInv, ContinuesLater, Late
<1>4. RemovesCleared(j)'
  BY <1>1, <1>2 DEF CustodyInv, RemovesCleared
<1>5. Alive(j)' <=> Alive(j)
  BY <1>1, <1>2 DEF Alive
<1>6. LateContinues(j)'
  BY <1>1, <1>2, <1>5 DEF CustodyInv, LateContinues, ToRecordPcs
<1>7. LateIsSecond(j)'
  BY <1>1, <1>2 DEF CustodyInv, LateIsSecond, ToRecordPcs
<1>8. AllAccounted(j)'
  <2>. SUFFICES ASSUME NEW d \in attached, madeFor[d] = j
                PROVE  Accounted(j, d)'
    BY <1>1 DEF AllAccounted
  <2>1. Accounted(j, d)
    BY DEF CustodyInv, AllAccounted
  <2>2. \A b \in Attempts : /\ Awaits(b, j, d) => Awaits(b, j, d)'
                            /\ Removes(b, j, d) => Removes(b, j, d)'
    BY <1>1, <1>2 DEF Awaits, Removes, Doomed
  <2>3. RenegotiatedTwice(j) => RenegotiatedTwice(j)'
    BY <1>1, <1>2 DEF RenegotiatedTwice
  <2>. QED  BY <1>1, <1>5, <2>1, <2>2, <2>3 DEF Accounted
<1>. QED  BY <1>3, <1>4, <1>6, <1>7, <1>8 DEF CustodyInv

LEMMA OutsideMakes ==
    ASSUME \/ \E a \in Attempts : Handshake(a) \/ MarkConnected(a) \/ PeerClosed(a)
           \/ \E j \in Joins : Host(j)
           \/ ScaleApply \/ ScaleRecord \/ Restore
    PROVE  madeFor' = madeFor
  BY DEF Handshake, MarkConnected, PeerClosed, Host, Leave, Kick, ScaleRead, ScaleApply,
         ScaleRecord, Restore, osVars

LEMMA OutsideCustody ==
    ASSUME TInv, ClaimInv, NEW j \in Joins, DisplayInv(j), CustodyInv(j), OutsideStays,
           madeFor' = madeFor
    PROVE  CustodyInv(j)'
<1>1. \A b \in Attempts : pc[b] \notin HeldPcs
  BY LifecycleAssumption DEF ClaimInv, HeldBySync, OutsideStays
<1>2. /\ jn' = jn /\ cont' = cont /\ seq' = seq /\ pc' = pc /\ had' = had /\ got' = got
      /\ taken' = taken /\ attached' = attached /\ answered' = answered
      /\ sess'[j].seq = sess[j].seq
      /\ \/ sess'[j].live = sess[j].live
         \/ scaler.join = j /\ sess'[j].live = scaler.live /\ scaler.live # None
  BY DEF OutsideStays
<1>3. Alive(j)' <=> Alive(j)
  BY <1>2 DEF Alive
<1>4. Alive(j) => (sess'[j].live = None <=> sess[j].live = None)
  BY <1>2 DEF DisplayInv, AloneRow
<1>5. Alive(j) /\ sess[j].live # None => sess'[j].live.id = sess[j].live.id
  BY <1>2 DEF DisplayInv, ShownRow
<1>6. ContinuesLater(j)'
  BY <1>2 DEF CustodyInv, ContinuesLater, Late
<1>7. RemovesCleared(j)'
  BY <1>1, <1>2 DEF CustodyInv, RemovesCleared, HeldPcs
<1>8. LateContinues(j)'
  BY <1>2, <1>3, <1>4 DEF CustodyInv, LateContinues
<1>9. LateIsSecond(j)'
  BY <1>2 DEF CustodyInv, LateIsSecond
<1>10. AllAccounted(j)'
  <2>. SUFFICES ASSUME NEW d \in attached, madeFor[d] = j
                PROVE  Accounted(j, d)'
    BY <1>2 DEF AllAccounted
  <2>1. Accounted(j, d)
    BY DEF CustodyInv, AllAccounted
  <2>2. \A b \in Attempts : /\ Awaits(b, j, d) => Awaits(b, j, d)'
                            /\ Removes(b, j, d) => Removes(b, j, d)'
    BY <1>2 DEF Awaits, Removes, Doomed
  <2>. QED  BY <1>2, <1>3, <1>4, <1>5, <2>1, <2>2, TwiceStays DEF Accounted
<1>. QED  BY <1>6, <1>7, <1>8, <1>9, <1>10 DEF CustodyInv

\* Every display that is attached was made for a join.
MadeKnown == \A d \in attached : madeFor[d] \in Joins

\* The display an offer found is still what the session records when it decides on it.
FoundTrue ==
    \A b \in Attempts : pc[b] = "display" /\ had[b] # None => had[b] = sess[jn[b]].live

EndInv == WholeInv /\ MadeKnown /\ FoundTrue /\ \A j \in Joins : CustodyInv(j)

LEMMA TaskRuns ==
    ASSUME TInv, NEW a \in Attempts, Task(a), ~Handshake(a)
    PROVE  /\ Run(a) /\ pc[a] # "idle"
           /\ pc'[a] = "display" => ReadExisting(a)
           /\ pc'[a] = "attach" => CreateDisplay(a)
           /\ pc'[a] = "record" => ReuseUntouched(a) \/ Attach(a) \/ ModeApplied(a) \/ ReadBack(a)
           /\ pc[a] = "record" => Record(a)
<1>1. pc \in [Attempts -> PcLabels]
  BY DEF TInv, TypeOK, TaskTyped
<1>2. Run(a) /\ pc[a] # "idle"
  BY DEF Task, Build, Unwind, OpenSession, NextSeq, StopPrevious, ReadExisting, ReuseUntouched, ReuseChange,
         NeedDisplay, CreateDisplay, Attach, AttachFailed, ModeApplied, ModeRefused, ReadBack,
         Record, CheckBeforeCapture, StartCapture, ReadScale, WriteScale, HalfFailed, BothReady,
         StandDown, Activated, ActivateFailed, ArmSession, Answer, Abandon, GraceOver,
         TakeDisplay, RemoveSession, RemoveDisplay, Listen, Ended, CloseTransport, StopOwn
<1>3. pc'[a] = "display" => ReadExisting(a)
  BY <1>1 DEF Task, Build, Unwind, Goto, GoOrEnd, OpenSession, NextSeq, StopPrevious, ReadExisting, ReuseUntouched, ReuseChange,
         NeedDisplay, CreateDisplay, Attach, AttachFailed, ModeApplied, ModeRefused, ReadBack,
         Record, CheckBeforeCapture, StartCapture, ReadScale, WriteScale, HalfFailed, BothReady,
         StandDown, Activated, ActivateFailed, ArmSession, Answer, Abandon, GraceOver,
         TakeDisplay, RemoveSession, RemoveDisplay, Listen, Ended, CloseTransport, StopOwn
<1>4. pc'[a] = "attach" => CreateDisplay(a)
  BY <1>1 DEF Task, Build, Unwind, Goto, GoOrEnd, OpenSession, NextSeq, StopPrevious, ReadExisting, ReuseUntouched, ReuseChange,
         NeedDisplay, CreateDisplay, Attach, AttachFailed, ModeApplied, ModeRefused, ReadBack,
         Record, CheckBeforeCapture, StartCapture, ReadScale, WriteScale, HalfFailed, BothReady,
         StandDown, Activated, ActivateFailed, ArmSession, Answer, Abandon, GraceOver,
         TakeDisplay, RemoveSession, RemoveDisplay, Listen, Ended, CloseTransport, StopOwn
<1>5. pc'[a] = "record" => ReuseUntouched(a) \/ Attach(a) \/ ModeApplied(a) \/ ReadBack(a)
  BY <1>1 DEF Task, Build, Unwind, Goto, GoOrEnd, OpenSession, NextSeq, StopPrevious, ReadExisting, ReuseUntouched, ReuseChange,
         NeedDisplay, CreateDisplay, Attach, AttachFailed, ModeApplied, ModeRefused, ReadBack,
         Record, CheckBeforeCapture, StartCapture, ReadScale, WriteScale, HalfFailed, BothReady,
         StandDown, Activated, ActivateFailed, ArmSession, Answer, Abandon, GraceOver,
         TakeDisplay, RemoveSession, RemoveDisplay, Listen, Ended, CloseTransport, StopOwn
<1>6. pc[a] = "record" => Record(a)
  BY DEF Task, Build, Unwind, OpenSession, NextSeq, StopPrevious, ReadExisting, ReuseUntouched, ReuseChange,
         NeedDisplay, CreateDisplay, Attach, AttachFailed, ModeApplied, ModeRefused, ReadBack,
         Record, CheckBeforeCapture, StartCapture, ReadScale, WriteScale, HalfFailed, BothReady,
         StandDown, Activated, ActivateFailed, ArmSession, Answer, Abandon, GraceOver,
         TakeDisplay, RemoveSession, RemoveDisplay, Listen, Ended, CloseTransport, StopOwn
<1>. QED  BY <1>2, <1>3, <1>4, <1>5, <1>6

LEMMA TaskKeepsEnd ==
    ASSUME EndInv, ~Preempt, NEW a \in Attempts, Task(a), ~Handshake(a)
    PROVE  MadeKnown' /\ FoundTrue' /\ \A j \in Joins : CustodyInv(j)'
<1>1. WorksOn(a) /\ TInv /\ OwnDisplays /\ ClaimInv
  BY WholeWorksOn DEF EndInv, WholeInv
<1>2. /\ Run(a) /\ pc[a] # "idle" /\ (pc'[a] = "display" => ReadExisting(a))
      /\ \A b \in Attempts : b # a => pc[b] \notin HeldPcs
      /\ jn[a] \in Joins
  BY <1>1, TaskRuns, OthersYield
<1>3. MadeKnown'
  <2>1. \A d \in attached' : d \in Displays /\ (madeFor'[d] = madeFor[d] \/ madeFor'[d] = jn[a])
    BY <1>1, TaskCreates, NextTyped DEF TInv, TypeOK, HostTyped, Next, WorksOn
  <2>2. \A d \in attached' : d \in attached \/ madeFor'[d] = jn[a]
    BY <1>1, TaskCreates
  <2>. QED  BY <1>2, <2>1, <2>2 DEF EndInv, MadeKnown
<1>4. FoundTrue'
  <2>1. ASSUME NEW b \in Attempts, pc'[b] = "display" PROVE b = a /\ ReadExisting(a)
    BY <1>1, <1>2, <2>1 DEF WorksOn, HeldPcs
  <2>2. ReadExisting(a) /\ had'[a] # None => had'[a] = sess'[jn'[a]].live
    <3>. SUFFICES ASSUME ReadExisting(a), had'[a] # None PROVE had'[a] = sess[jn[a]].live
      BY <1>1, <1>2, ReadExistingRow DEF RowIs, WorksOn
    <3>. QED  BY <1>1 DEF ReadExisting, TInv, TypeOK, TaskTyped
  <2>. QED  BY <2>1, <2>2 DEF FoundTrue
<1>5. ASSUME NEW j \in Joins PROVE CustodyInv(j)'
  <2>1. CustodyInv(j) /\ DisplayInv(j) /\ ServeInv(j)
    BY DEF EndInv, WholeInv
  <2>2. CASE j # jn[a]
    BY <1>1, <2>1, <2>2, TaskCreates, OtherCustody
  <2>3. CASE j = jn[a]
    <3>1. CASE OpenSession(a)
      BY <1>1, <2>1, <2>3, <3>1, OpenSessionCustody
    <3>2. CASE NextSeq(a)
      BY <1>1, <2>1, <2>3, <3>2, NextSeqCustody
    <3>3. CASE CreateDisplay(a)
      BY <1>1, <2>1, <2>3, <3>3, CreateDisplayCustody
    <3>4. CASE AttachFailed(a)
      BY <1>1, <2>1, <2>3, <3>4, AttachFailedCustody
    <3>5. CASE Record(a)
      BY <1>1, <2>1, <2>3, <3>5, RecordCustody
    <3>6. CASE TakeDisplay(a)
      BY <1>1, <2>1, <2>3, <3>6, TakeDisplayCustody
    <3>7. CASE RemoveSession(a)
      BY <1>1, <2>1, <2>3, <3>7, RemoveSessionCustody
    <3>8. CASE RemoveDisplay(a)
      BY <1>1, <2>1, <2>3, <3>8, RemoveDisplayCustody
    <3>9. CASE ~(\/ OpenSession(a) \/ NextSeq(a) \/ CreateDisplay(a) \/ AttachFailed(a)
                 \/ Record(a) \/ TakeDisplay(a) \/ RemoveSession(a) \/ RemoveDisplay(a))
      <4>1. Plain(a)
        BY <1>1, <1>2, <2>1, <2>3, <3>9, TaskPlain
      <4>. QED  BY <1>1, <2>1, <2>3, <4>1, PlainCustody
    <3>. QED  BY <3>1, <3>2, <3>3, <3>4, <3>5, <3>6, <3>7, <3>8, <3>9
  <2>. QED  BY <2>2, <2>3
<1>. QED  BY <1>3, <1>4, <1>5

LEMMA NextEnd ==
    ASSUME EndInv, ~Preempt, [Next]_vars
    PROVE  EndInv'
<1>1. WholeInv'
  BY NextWhole DEF EndInv
<1>2. MadeKnown' /\ FoundTrue' /\ \A j \in Joins : CustodyInv(j)'
  <2>1. ASSUME NEW a \in Attempts, Task(a), ~Handshake(a)
        PROVE  MadeKnown' /\ FoundTrue' /\ \A j \in Joins : CustodyInv(j)'
    BY <2>1, TaskKeepsEnd
  <2>2. ASSUME NEW a \in Attempts, Offer(a)
        PROVE  MadeKnown' /\ FoundTrue' /\ \A j \in Joins : CustodyInv(j)'
    <3>1. \A j \in Joins : CustodyInv(j)'
      BY <2>2, OfferCustody DEF EndInv, WholeInv
    <3>2. MadeKnown'
      BY <2>2 DEF Offer, osVars, EndInv, MadeKnown
    <3>3. \A b \in Attempts : pc[b] # "display"
      BY <2>2, LifecycleAssumption DEF Offer, Run, EndInv, WholeInv, ClaimInv, HeldBySync, HeldPcs
    <3>4. FoundTrue'
      BY <2>2, <3>3 DEF Offer, Goto, FoundTrue, EndInv, WholeInv, TInv, TypeOK, TaskTyped
    <3>. QED  BY <3>1, <3>2, <3>4
  <2>3. CASE \/ \E a \in Attempts : Handshake(a) \/ MarkConnected(a) \/ PeerClosed(a)
             \/ \E i \in Joins : Host(i)
             \/ ScaleApply \/ ScaleRecord \/ Restore
    <3>1. OutsideStays /\ madeFor' = madeFor
      BY <2>3, OutsideStaysOut, OutsideMakes DEF EndInv, WholeInv
    <3>2. \A j \in Joins : CustodyInv(j)'
      BY <3>1, OutsideCustody DEF EndInv, WholeInv
    <3>3. \A b \in Attempts : pc[b] # "display"
      BY <3>1, LifecycleAssumption DEF OutsideStays, EndInv, WholeInv, ClaimInv, HeldBySync, HeldPcs
    <3>. QED  BY <3>1, <3>2, <3>3 DEF OutsideStays, EndInv, MadeKnown, FoundTrue
  <2>4. CASE UNCHANGED vars
    <3>1. \A j \in Joins : CustodyInv(j)'
      BY <2>4 DEF EndInv, CustodyInv, ContinuesLater, RemovesCleared, LateContinues, LateIsSecond,
             AllAccounted, Accounted, Awaits, Removes, Doomed, RenegotiatedTwice, Alive, Late, vars
    <3>. QED  BY <2>4, <3>1 DEF EndInv, MadeKnown, FoundTrue, vars
  <2>. QED  BY <2>1, <2>2, <2>3, <2>4 DEF Next, Finished
<1>. QED  BY <1>1, <1>2 DEF EndInv

LEMMA InitEnd == Init => EndInv
<1>. SUFFICES ASSUME Init PROVE EndInv
  OBVIOUS
<1>1. WholeInv /\ MadeKnown /\ FoundTrue
  BY InitWhole DEF Init, MadeKnown, FoundTrue
<1>2. /\ attached = {} /\ \A j \in Joins : \A b \in Attempts : jn[b] # j
  BY LifecycleAssumption DEF Init
<1>3. \A j \in Joins : CustodyInv(j)
  BY <1>2 DEF CustodyInv, ContinuesLater, RemovesCleared, LateContinues, LateIsSecond, AllAccounted
<1>. QED  BY <1>1, <1>3 DEF EndInv

LEMMA AlwaysEnd ==
    ASSUME ~Preempt
    PROVE  Spec => []EndInv
<1>1. EndInv /\ [Next]_vars => EndInv'
  BY NextEnd
<1>. QED  BY InitEnd, <1>1, PTL DEF Spec

\* When the last task has ended no device has a session any more, and a display is only
\* left of a join that was renegotiated twice, in whose row the host can still find one.
THEOREM EndsCleanly ==
    ASSUME ~Preempt
    PROVE  Spec => []EndsClean
<1>1. EndInv => EndsClean
  <2>. SUFFICES ASSUME EndInv, AllEnded
                PROVE  /\ \A j \in Joins : sess[j].token = None
                       /\ \A d \in attached : /\ sess[madeFor[d]].live # None
                                              /\ RenegotiatedTwice(madeFor[d])
    BY DEF EndsClean
  <2>1. \A j \in Joins : sess[j].seq = 0
    BY DEF EndInv, WholeInv, ClaimInv, StandsCurrent, AllEnded, Late
  <2>2. \A j \in Joins : sess[j].token = None
    BY <2>1 DEF EndInv, WholeInv, ClaimInv, RowsOpen, AllEnded
  <2>3. ASSUME NEW d \in attached
        PROVE  sess[madeFor[d]].live # None /\ RenegotiatedTwice(madeFor[d])
    <3>1. PICK j \in Joins : madeFor[d] = j
      BY DEF EndInv, MadeKnown
    <3>2. Accounted(j, d)
      BY <3>1 DEF EndInv, CustodyInv, AllAccounted
    <3>3. \A b \in Attempts : ~Awaits(b, j, d) /\ ~Removes(b, j, d)
      BY DEF AllEnded, Awaits, Removes, InHandPcs
    <3>. QED  BY <2>1, <3>1, <3>2, <3>3 DEF Accounted, Alive
  <2>. QED  BY <2>2, <2>3
<1>. QED  BY <1>1, AlwaysEnd, PTL

\* A session that is somebody's never records a display that is gone.
THEOREM RecordsUp ==
    ASSUME ~Preempt
    PROVE  Spec => []RecordedIsUp
<1>1. EndInv => RecordedIsUp
  <2>. SUFFICES ASSUME EndInv, NEW j \in Joins, sess[j].token # None, sess[j].live # None
                PROVE  sess[j].live.id \in attached
    BY DEF RecordedIsUp
  <2>1. sess[j].seq # 0
    <3>. SUFFICES ASSUME sess[j].seq = 0 PROVE FALSE
      OBVIOUS
    <3>1. PICK a \in Attempts : jn[a] = j /\ pc[a] = "seq"
      BY DEF EndInv, WholeInv, ClaimInv, RowsOpen
    <3>2. ~cont[a]
      BY <3>1 DEF EndInv, WholeInv, ClaimInv, FreshJoins
    <3>. QED  BY <3>1, <3>2 DEF EndInv, WholeInv, DisplayInv, FreshRow, Fresh
  <2>2. Alive(j)
    BY <2>1 DEF Alive, EndInv, CustodyInv, RemovesCleared
  <2>. QED  BY <2>2 DEF EndInv, WholeInv, DisplayInv, ShownRow
<1>. QED  BY <1>1, AlwaysEnd, PTL

-----------------------------------------------------------------------------
(* A true record stays true.                                                               *)

\* A display of the join that is up was up, and is at the mode it was.
ModesStay(j) ==
    \A d \in Displays : madeFor[d] = j /\ d \in attached' => d \in attached /\ mode'[d] = mode[d]

LEMMA TaskModes ==
    ASSUME TInv, OwnDisplays, NEW a \in Attempts, Task(a), NEW j \in Joins,
           ~ModeApplied(a) \/ j # jn[a]
    PROVE  ModesStay(j)
<1>1. CASE CreateDisplay(a)
  BY <1>1, LifecycleAssumption DEF CreateDisplay, ModesStay, TInv, TypeOK, HostTyped
<1>2. CASE ModeApplied(a)
  <2>1. got[a] # None /\ got[a].id \in Displays /\ madeFor[got[a].id] = jn[a]
    BY <1>2 DEF ModeApplied, OwnDisplays, OwnedBy, TInv, TypeOK, HostTyped, TaskWhole, GotPcs
  <2>. QED  BY <1>2, <2>1 DEF ModeApplied, ModesStay, TInv, TypeOK, HostTyped
<1>3. CASE ~CreateDisplay(a) /\ ~ModeApplied(a)
  <2>1. attached' \subseteq attached /\ mode' = mode
    BY <1>3 DEF Task, Build, Unwind, osVars, OpenSession, NextSeq, StopPrevious, ReadExisting, ReuseUntouched, ReuseChange,
         NeedDisplay, CreateDisplay, Attach, AttachFailed, ModeApplied, ModeRefused, ReadBack,
         Record, CheckBeforeCapture, StartCapture, ReadScale, WriteScale, Handshake, HalfFailed,
         BothReady, StandDown, Activated, ActivateFailed, ArmSession, Answer, Abandon, GraceOver,
         TakeDisplay, RemoveSession, RemoveDisplay, Listen, Ended, CloseTransport, StopOwn
  <2>. QED  BY <2>1 DEF ModesStay
<1>. QED  BY <1>1, <1>2, <1>3

\* What an attempt knows of its display, or a session records of its own, stays true.
LEMMA TruthStays ==
    ASSUME TInv, NEW j \in Joins, ModesStay(j), NEW l \in LiveDisplay, OwnedBy(l, j), TrueMode(l)
    PROVE  TrueMode(l)'
<1>1. l.id \in Displays /\ l # None
  BY LifecycleAssumption DEF LiveDisplay
<1>. QED  BY <1>1 DEF ModesStay, OwnedBy, TrueMode

LEMMA QuietRecord ==
    ASSUME TInv, OwnDisplays, NEW j \in Joins, jn' = jn, ModesStay(j),
           sess'[j].live \in {sess[j].live, None},
           \A b \in Attempts : jn[b] = j =>
              /\ pc'[b] \in {"attach", "record"} => pc'[b] = pc[b] /\ got'[b] = got[b]
              /\ pc[b] = "record" => pc'[b] = "record",
           RecordTrue(j)
    PROVE  RecordTrue(j)'
<1>1. /\ \A b \in Attempts : jn[b] = j /\ pc[b] \in {"attach", "record"} =>
             got[b] \in LiveDisplay /\ OwnedBy(got[b], j)
      /\ sess[j].live # None => sess[j].live \in LiveDisplay /\ OwnedBy(sess[j].live, j)
  BY DEF TInv, TypeOK, TaskTyped, TaskWhole, GotPcs, SessTyped, Entry, OwnDisplays
<1>2. ASSUME NEW a \in Attempts, jn'[a] = j, pc'[a] \in {"attach", "record"}
      PROVE  TrueMode(got[a])' /\ got'[a] = got[a]
  BY <1>1, <1>2, TruthStays DEF RecordTrue
<1>3. ASSUME Recording(j)' = {}, sess'[j].live # None
      PROVE  TrueMode(sess[j].live)'
  <2>1. Recording(j) = {}
    BY <1>3 DEF Recording
  <2>. QED  BY <1>1, <1>3, <2>1, TruthStays DEF RecordTrue
<1>. QED  BY <1>2, <1>3 DEF RecordTrue, TrueMode

AtDisplayPcs == {"display", "setMode", "readBack", "record"}

\* Only the current attempt of the join is at its display.
AtDisplayCurrent(j) ==
    \A a \in Attempts : jn[a] = j /\ pc[a] \in AtDisplayPcs => IsCurrent(a)

\* It is the only one there, then, and what it changes nobody else waits to record.
LEMMA AloneAtDisplay ==
    ASSUME WholeInv, NEW a \in Attempts, Run(a), pc[a] \in AtDisplayPcs, NEW j \in Joins, j = jn[a],
           AtDisplayCurrent(j)
    PROVE  /\ \A b \in Attempts : jn[b] = j /\ pc[b] = "record" => b = a
           /\ pc[a] = "setMode" => \A b \in Attempts : jn[b] = j => pc[b] # "attach"
<1>1. Late(a) /\ IsCurrent(a) /\ seq[a] # 0 /\ sess[j].seq = seq[a]
  BY DEF AtDisplayCurrent, AtDisplayPcs, Late, IsCurrent, WholeInv, ClaimInv, Numbered
<1>2. \A b \in Attempts : b # a => pc[b] \notin HeldPcs
  BY OthersYield DEF WholeInv, AtDisplayPcs
<1>3. Alive(j)
  BY <1>1, <1>2 DEF Alive, HeldPcs, AtDisplayPcs
<1>4. ASSUME NEW b \in Attempts, jn[b] = j, pc[b] = "record" PROVE b = a
  <2>1. Late(b) /\ seq[b] = seq[a]
    BY <1>1, <1>4 DEF AtDisplayCurrent, AtDisplayPcs, Late, IsCurrent
  <2>. QED  BY <1>1, <1>4, <2>1 DEF WholeInv, ClaimInv, Numbered
<1>5. ASSUME pc[a] = "setMode", NEW b \in Attempts, jn[b] = j PROVE pc[b] # "attach"
  <2>1. CASE sess[j].live # None
    BY <1>3, <1>5, <2>1 DEF WholeInv, DisplayInv, ShownRow, KnowsDisplay
  <2>2. CASE sess[j].live = None
    BY <1>3, <1>5, <2>2 DEF WholeInv, DisplayInv, AloneRow
  <2>. QED  BY <2>1, <2>2
<1>. QED  BY <1>4, <1>5

\* An attempt that is about to record knows the truth, and the record is not due to change else.
LEMMA ReuseUntouchedTrue ==
    ASSUME EndInv, NEW a \in Attempts, ReuseUntouched(a), WorksOn(a),
           NEW j \in Joins, j = jn[a], AtDisplayCurrent(j), RecordTrue(j)
    PROVE  RecordTrue(j)'
<1>1. /\ pc[a] = "display" /\ had[a] # None /\ Run(a) /\ pc'[a] = "record" /\ got'[a] = had[a]
      /\ sess' = sess /\ attached' = attached /\ mode' = mode /\ jn' = jn
      /\ \A b \in Attempts : b # a => pc'[b] = pc[b] /\ got'[b] = got[b]
  BY DEF ReuseUntouched, Goto, osVars, claimVars, EndInv, WholeInv, TInv, TypeOK, TaskTyped
<1>2. \A b \in Attempts : jn[b] = j /\ pc[b] = "record" => b = a
  BY <1>1, AloneAtDisplay DEF EndInv, AtDisplayPcs
<1>3. Recording(j) = {}
  BY <1>1, <1>2 DEF Recording
<1>4. had[a] = sess[j].live
  BY <1>1 DEF EndInv, FoundTrue
<1>5. TrueMode(sess[j].live)
  BY <1>1, <1>3, <1>4 DEF RecordTrue
<1>6. a \in Recording(j)'
  BY <1>1 DEF Recording
<1>. QED  BY <1>1, <1>4, <1>5, <1>6 DEF RecordTrue, TrueMode

LEMMA AttachTrue ==
    ASSUME TInv, NEW a \in Attempts, Attach(a), NEW j \in Joins, j = jn[a], RecordTrue(j)
    PROVE  RecordTrue(j)'
<1>1. /\ pc[a] = "attach" /\ pc'[a] # "attach" /\ got' = got
      /\ sess' = sess /\ attached' = attached /\ mode' = mode /\ jn' = jn
      /\ \A b \in Attempts : b # a => pc'[b] = pc[b]
  BY DEF Attach, Goto, claimVars, TInv, TypeOK, TaskTyped
<1>2. \A b \in Attempts : jn[b] = j /\ pc'[b] \in {"attach", "record"} => TrueMode(got[b])
  BY <1>1 DEF RecordTrue
<1>3. Recording(j)' = {} => Recording(j) = {}
  BY <1>1 DEF Recording
<1>. QED  BY <1>1, <1>2, <1>3 DEF RecordTrue, TrueMode

LEMMA CreateDisplayTrue ==
    ASSUME EndInv, NEW a \in Attempts, CreateDisplay(a), NEW j \in Joins, j = jn[a], RecordTrue(j)
    PROVE  RecordTrue(j)'
<1>1. /\ pc[a] = "lock" /\ pc'[a] \in {"attach", "join"} /\ sess' = sess /\ jn' = jn
      /\ \A b \in Attempts : b # a => pc'[b] = pc[b] /\ got'[b] = got[b]
      /\ pc'[a] = "attach" => got'[a].id \in attached' /\ got'[a].mode = mode'[got'[a].id]
  BY DEF CreateDisplay, Goto, claimVars, EndInv, WholeInv, TInv, TypeOK, TaskTyped, HostTyped
<1>2. ModesStay(j)
  BY TaskModes DEF EndInv, WholeInv, Task, Build, CreateDisplay, ModeApplied
<1>3. /\ \A b \in Attempts : jn[b] = j /\ pc[b] \in {"attach", "record"} =>
             got[b] \in LiveDisplay /\ OwnedBy(got[b], j)
      /\ sess[j].live # None => sess[j].live \in LiveDisplay /\ OwnedBy(sess[j].live, j)
  BY DEF EndInv, WholeInv, TInv, TypeOK, TaskTyped, TaskWhole, GotPcs, SessTyped, Entry, OwnDisplays
<1>4. ASSUME NEW b \in Attempts, jn'[b] = j, pc'[b] \in {"attach", "record"}
      PROVE  TrueMode(got[b])'
  <2>1. CASE b = a
    BY <1>1, <1>4, <2>1 DEF TrueMode
  <2>2. CASE b # a
    <3>1. TrueMode(got[b]) /\ got[b] \in LiveDisplay /\ OwnedBy(got[b], j) /\ got'[b] = got[b]
      BY <1>1, <1>3, <1>4, <2>2 DEF RecordTrue
    <3>. QED
      BY <1>2, <3>1, LifecycleAssumption DEF TrueMode, ModesStay, OwnedBy, LiveDisplay
  <2>. QED  BY <2>1, <2>2
<1>5. ASSUME Recording(j)' = {}, sess'[j].live # None
      PROVE  TrueMode(sess[j].live)'
  <2>1. Recording(j) = {}
    BY <1>1, <1>5 DEF Recording
  <2>2. TrueMode(sess[j].live) /\ sess[j].live \in LiveDisplay /\ OwnedBy(sess[j].live, j)
    BY <1>1, <1>3, <1>5, <2>1 DEF RecordTrue
  <2>. QED
    BY <1>1, <1>2, <2>2, LifecycleAssumption DEF TrueMode, ModesStay, OwnedBy, LiveDisplay
<1>. QED  BY <1>4, <1>5 DEF RecordTrue

LEMMA ModeAppliedTrue ==
    ASSUME EndInv, NEW a \in Attempts, ModeApplied(a),
           NEW j \in Joins, j = jn[a], AtDisplayCurrent(j), RecordTrue(j)
    PROVE  RecordTrue(j)'
<1>1. /\ pc[a] = "setMode" /\ pc'[a] = "record" /\ Run(a) /\ jn' = jn
      /\ \A b \in Attempts : b # a => pc'[b] = pc[b]
      /\ got'[a].mode = want[a] /\ mode'[got'[a].id] = want[a]
  BY DEF ModeApplied, Goto, claimVars, EndInv, WholeInv, TInv, TypeOK, TaskTyped, TaskWhole,
         GotPcs, HostTyped, LiveDisplay
<1>2. \A b \in Attempts : jn[b] = j /\ pc[b] \in {"attach", "record"} => b = a
  BY <1>1, AloneAtDisplay DEF EndInv, AtDisplayPcs
<1>3. a \in Recording(j)'
  BY <1>1 DEF Recording
<1>. QED  BY <1>1, <1>2, <1>3 DEF RecordTrue, TrueMode

LEMMA ReadBackTrue ==
    ASSUME EndInv, NEW a \in Attempts, ReadBack(a), NEW j \in Joins, j = jn[a], RecordTrue(j)
    PROVE  RecordTrue(j)'
<1>1. /\ pc[a] = "readBack" /\ pc'[a] = "record" /\ jn' = jn /\ sess' = sess
      /\ attached' = attached /\ mode' = mode
      /\ \A b \in Attempts : b # a => pc'[b] = pc[b] /\ got'[b] = got[b]
      /\ got'[a].id = got[a].id
      /\ got[a].id \in attached => got'[a].mode = mode[got[a].id]
  BY DEF ReadBack, Goto, claimVars, osVars, EndInv, WholeInv, TInv, TypeOK, TaskTyped, TaskWhole,
         GotPcs, LiveDisplay
<1>2. a \in Recording(j)'
  BY <1>1 DEF Recording
<1>. QED  BY <1>1, <1>2 DEF RecordTrue, TrueMode

LEMMA RecordTrueStays ==
    ASSUME TInv, NEW a \in Attempts, Record(a), NEW j \in Joins, j = jn[a], RecordTrue(j)
    PROVE  RecordTrue(j)'
<1>1. /\ pc[a] = "record" /\ pc'[a] = "check" /\ jn' = jn /\ got' = got
      /\ attached' = attached /\ mode' = mode
      /\ \A b \in Attempts : b # a => pc'[b] = pc[b]
      /\ sess'[j].live = got[a]
  BY RecordRow DEF RowIs, Record, Goto, claimVars, buildVars, osVars, TInv, TypeOK, TaskTyped
<1>2. TrueMode(got[a])
  BY <1>1 DEF RecordTrue
<1>3. \A b \in Attempts : jn[b] = j /\ pc'[b] \in {"attach", "record"} => TrueMode(got[b])
  BY <1>1 DEF RecordTrue
<1>. QED  BY <1>1, <1>2, <1>3 DEF RecordTrue, TrueMode

\* Every other step of a task leaves what is recorded, and what is to be, as it is.
LEMMA QuietTask ==
    ASSUME EndInv, NEW a \in Attempts, Task(a), ~Handshake(a), NEW j \in Joins, j = jn[a],
           ~ReuseUntouched(a), ~CreateDisplay(a), ~Attach(a), ~ModeApplied(a), ~ReadBack(a),
           ~Record(a), RecordTrue(j)
    PROVE  RecordTrue(j)'
<1>1. TInv /\ OwnDisplays /\ ClaimInv /\ DisplayInv(j) /\ ServeInv(j) /\ CustodyInv(j) /\ WorksOn(a)
  BY WholeWorksOn DEF EndInv, WholeInv
<1>2. /\ ModesStay(j) /\ jn' = jn
      /\ pc'[a] \notin {"attach", "record"} /\ pc[a] # "record"
  BY <1>1, TaskModes, TaskRuns DEF WorksOn
<1>3. sess'[j].live \in {sess[j].live, None}
  <2>1. CASE OpenSession(a)
    BY <1>1, <2>1, OpenSessionRow DEF RowIs
  <2>2. CASE NextSeq(a)
    BY <1>1, <2>2, NextSeqRow DEF RowIs
  <2>3. CASE TakeDisplay(a)
    BY <1>1, <2>3, TakeDisplayRow DEF RowIs
  <2>4. CASE RemoveSession(a)
    BY <1>1, <2>4, RemoveSessionRow DEF RowIs
  <2>5. CASE AttachFailed(a) \/ RemoveDisplay(a)
    BY <2>5 DEF AttachFailed, RemoveDisplay
  <2>6. CASE ~(OpenSession(a) \/ NextSeq(a) \/ TakeDisplay(a) \/ RemoveSession(a)
               \/ AttachFailed(a) \/ RemoveDisplay(a))
    BY <1>1, <2>6, TaskPlain DEF Plain
  <2>. QED  BY <2>1, <2>2, <2>3, <2>4, <2>5, <2>6
<1>4. \A b \in Attempts : jn[b] = j =>
          /\ pc'[b] \in {"attach", "record"} => pc'[b] = pc[b] /\ got'[b] = got[b]
          /\ pc[b] = "record" => pc'[b] = "record"
  BY <1>1, <1>2 DEF WorksOn
<1>. QED  BY <1>1, <1>2, <1>3, <1>4, QuietRecord

LEMMA TaskRecord ==
    ASSUME EndInv, NEW a \in Attempts, Task(a), ~Handshake(a), NEW j \in Joins,
           AtDisplayCurrent(j), RecordTrue(j)
    PROVE  RecordTrue(j)'
<1>1. TInv /\ OwnDisplays /\ WorksOn(a)
  BY WholeWorksOn DEF EndInv, WholeInv
<1>2. CASE j # jn[a]
  <2>1. ModesStay(j) /\ jn' = jn /\ sess'[j] = sess[j]
    BY <1>1, <1>2, TaskModes DEF WorksOn
  <2>2. \A b \in Attempts : jn[b] = j => pc'[b] = pc[b] /\ got'[b] = got[b]
    BY <1>1, <1>2 DEF WorksOn
  <2>. QED  BY <1>1, <2>1, <2>2, QuietRecord
<1>3. CASE j = jn[a]
  <2>1. CASE ReuseUntouched(a)
    BY <1>1, <1>3, <2>1, ReuseUntouchedTrue
  <2>2. CASE CreateDisplay(a)
    BY <1>3, <2>2, CreateDisplayTrue
  <2>3. CASE Attach(a)
    BY <1>1, <1>3, <2>3, AttachTrue
  <2>4. CASE ModeApplied(a)
    BY <1>3, <2>4, ModeAppliedTrue
  <2>5. CASE ReadBack(a)
    BY <1>3, <2>5, ReadBackTrue
  <2>6. CASE Record(a)
    BY <1>1, <1>3, <2>6, RecordTrueStays
  <2>. QED  BY <1>3, <2>1, <2>2, <2>3, <2>4, <2>5, <2>6, QuietTask
<1>. QED  BY <1>2, <1>3

LEMMA OutsideRecord ==
    ASSUME TInv,
           \/ \E a \in Attempts : Handshake(a) \/ MarkConnected(a) \/ PeerClosed(a)
           \/ \E j \in Joins : Host(j)
           \/ ScaleApply \/ ScaleRecord \/ Restore,
           restore = {}, scaler.step # "row", NEW j \in Joins, RecordTrue(j)
    PROVE  RecordTrue(j)'
<1>1. /\ jn' = jn /\ pc' = pc /\ got' = got /\ attached' = attached
  BY OutsideStaysOut DEF OutsideStays
<1>2. mode' = mode
  BY DEF Handshake, MarkConnected, PeerClosed, Host, Leave, Kick, ScaleRead, ScaleApply,
         ScaleRecord, Restore, osVars
<1>3. sess'[j].live = sess[j].live
  <2>1. CASE \E a \in Attempts : MarkConnected(a)
    BY <2>1, MarkConnectedRow DEF RowIs
  <2>2. CASE \E i \in Joins : Kick(i)
    BY <2>2 DEF Kick, TInv, TypeOK, SessTyped, Entry
  <2>. QED
    BY <2>1, <2>2 DEF Handshake, PeerClosed, Host, Leave, ScaleRead, ScaleApply, ScaleRecord, Restore
<1>4. Recording(j)' = Recording(j)
  BY <1>1 DEF Recording
<1>. QED  BY <1>1, <1>2, <1>3, <1>4 DEF RecordTrue, TrueMode

LEMMA OfferRecord ==
    ASSUME TInv, ClaimInv, NEW a \in Attempts, Offer(a), NEW j \in Joins, RecordTrue(j)
    PROVE  RecordTrue(j)'
<1>1. /\ pc[a] = "idle" /\ pc'[a] = "open" /\ \A b \in Attempts : b # a => pc'[b] = pc[b]
      /\ sess' = sess /\ got' = got /\ attached' = attached /\ mode' = mode
  BY DEF Offer, Goto, osVars, TInv, TypeOK, TaskTyped
<1>2. \A b \in Attempts : b # a => jn'[b] = jn[b]
  BY OfferTakes
<1>3. Recording(j)' = Recording(j)
  BY <1>1, <1>2 DEF Recording
<1>. QED  BY <1>1, <1>2, <1>3 DEF RecordTrue, TrueMode

\* What a session records, or somebody who knows it is about to record, is the mode its
\* display is at, and no step makes it wrong but those of a superseded attempt that is
\* still at the display, of a topology reset or of a live scale change.
THEOREM RecordKept ==
    ASSUME ~Preempt
    PROVE  Spec => RecordStaysTrue
<1>. DEFINE Kept == \A j \in Joins :
                       /\ RecordTrue(j)
                       /\ \A a \in Attempts :
                             jn[a] = j /\ pc[a] \in {"display", "setMode", "readBack", "record"}
                                => IsCurrent(a)
                       /\ restore = {} /\ scaler.step # "row"
                       => RecordTrue(j)'
<1>1. EndInv /\ [Next]_vars => [Kept]_vars
  <2>. SUFFICES ASSUME EndInv, Next, ~UNCHANGED vars, NEW j \in Joins, RecordTrue(j),
                       AtDisplayCurrent(j), restore = {}, scaler.step # "row"
                PROVE  RecordTrue(j)'
    BY DEF AtDisplayCurrent, AtDisplayPcs
  <2>1. ASSUME NEW a \in Attempts, Task(a), ~Handshake(a) PROVE RecordTrue(j)'
    BY <2>1, TaskRecord
  <2>2. CASE \E a \in Attempts : Offer(a)
    BY <2>2, OfferRecord DEF EndInv, WholeInv
  <2>3. CASE \/ \E a \in Attempts : Handshake(a) \/ MarkConnected(a) \/ PeerClosed(a)
             \/ \E i \in Joins : Host(i)
             \/ ScaleApply \/ ScaleRecord \/ Restore
    BY <2>3, OutsideRecord DEF EndInv, WholeInv
  <2>. QED  BY <2>1, <2>2, <2>3 DEF Next, Finished
<1>. QED  BY <1>1, AlwaysEnd, PTL DEF Spec, RecordStaysTrue

=============================================================================
