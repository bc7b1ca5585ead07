-------------------------- MODULE TransportProofs --------------------------
(***************************************************************************)
(* Proofs about Transport, for any number of offers and of disconnects.    *)
(*                                                                         *)
(* That only a replaced transport is closed for its successor rests on an  *)
(* order nothing in the registry keeps: two offers may register in either  *)
(* order.  What keeps it is the check before the activation.  An attempt   *)
(* that passes it holds the newest number drawn so far, so whatever it     *)
(* found in the registry is older (OldIsOlder); one that registered late   *)
(* is turned away there and never connects.                                *)
(***************************************************************************)
EXTENDS Transport, FiniteSetTheorems, TLAPS

\* Sequence numbers: drawn by whoever has offered, none beyond the latest.
Drawn == \A a \in Attempts : /\ seq[a] <= latest
                             /\ seq[a] = 0 <=> at[a] = "idle"

\* No two offers draw the same.
Distinct == \A a, b \in Attempts : a # b /\ at[a] # "idle" => seq[a] # seq[b]

\* What a connection is to close is another offer's, and was built.
OldIsOther ==
  \A a \in Attempts : old[a] # None => old[a] # a /\ at[old[a]] # "idle"

\* So was what is about to be closed.
ClosersBuilt == \A b \in closers : at[b] # "idle"

\* Past the check, what a connection is to close belongs to an older offer.
OldIsOlder ==
  \A a \in Attempts : at[a] \in {"activating", "armed", "serving"} /\ old[a] # None
                      => seq[old[a]] < seq[a]

\* The inductive invariant.
Inv == /\ TypeOK /\ Drawn /\ Distinct /\ OldIsOther /\ OldIsOlder
       /\ ClosersBuilt /\ RegistryTrue /\ OnlyReplacedClosed /\ LiveCounts

OpenNow == {a \in Attempts : at[a] \in Open}

-----------------------------------------------------------------------------
LEMMA InitInv == Init => Inv
<1>. SUFFICES ASSUME Init PROVE Inv
  OBVIOUS
<1>1. TypeOK
  BY DEF Init, TypeOK
<1>2. Drawn /\ Distinct /\ OldIsOther /\ OldIsOlder /\ ClosersBuilt
  BY DEF Init, Drawn, Distinct, OldIsOther, OldIsOlder, ClosersBuilt
<1>4. RegistryTrue /\ OnlyReplacedClosed
  BY DEF Init, RegistryTrue, OnlyReplacedClosed
<1>3. LiveCounts
  <2>1. OpenNow = {}
    BY DEF Init, OpenNow, Open, Registered
  <2>. QED BY <2>1, FS_EmptySet DEF Init, LiveCounts, OpenNow
<1>. QED BY <1>1, <1>2, <1>3, <1>4 DEF Inv

-----------------------------------------------------------------------------
(* LIVE_SESSIONS.                                                          *)

LEMMA OpenFinite == IsFiniteSet(OpenNow)
BY AttemptsAssumption, FS_Subset DEF OpenNow

\* A step that opens or closes no transport leaves the count right.
LEMMA LiveSame ==
  ASSUME Inv, live' = live, OpenNow' = OpenNow
  PROVE  LiveCounts' /\ live' \in Nat
BY DEF Inv, TypeOK, LiveCounts, OpenNow

LEMMA LiveStep ==
  ASSUME Inv, Next
  PROVE  LiveCounts' /\ live' \in Nat
<1>0. CASE Forget
  BY <1>0, LiveSame DEF Forget, OpenNow
<1>. SUFFICES ASSUME NEW a \in Attempts,
                     Host(a) \/ Peer(a) \/ GraceEnds(a) \/ CloseReplaced(a)
              PROVE  LiveCounts' /\ live' \in Nat
  BY <1>0 DEF Next
<1>t. at \in [Attempts -> {"idle", "offered", "gone"} \cup Open] /\ live \in Nat
  BY DEF Inv, TypeOK
<1>c. live = Cardinality(OpenNow) /\ IsFiniteSet(OpenNow)
  BY OpenFinite DEF Inv, LiveCounts, OpenNow
<1>2. CASE NewConnection(a)
  <2>1. OpenNow' = OpenNow \cup {a} /\ a \notin OpenNow
    BY <1>2, <1>t DEF NewConnection, Go, OpenNow, Open, Registered
  <2>2. Cardinality(OpenNow') = Cardinality(OpenNow) + 1
    BY <2>1, <1>c, FS_AddElement
  <2>. QED BY <2>2, <1>2, <1>c, <1>t DEF NewConnection, LiveCounts, OpenNow
<1>3. CASE NegotiationFails(a) \/ Close(a)
  <2>1. OpenNow' = OpenNow \ {a} /\ a \in OpenNow
    BY <1>3, <1>t DEF NegotiationFails, Close, Go, OpenNow, Open, Registered
  <2>2. Cardinality(OpenNow') = Cardinality(OpenNow) - 1
    BY <2>1, <1>c, FS_RemoveElement
  <2>3. live' = live - 1
    BY <1>3 DEF NegotiationFails, Close
  <2>4. Cardinality(OpenNow') \in Nat
    BY <2>1, <1>c, FS_RemoveElement, FS_CardinalityType
  <2>. QED BY <2>2, <2>3, <2>4, <1>c DEF LiveCounts, OpenNow
<1>4. CASE Offer(a) \/ Refused(a)
  <2>1. OpenNow' = OpenNow /\ live' = live
    BY <1>4, <1>t DEF Offer, Refused, Go, OpenNow, Open, Registered
  <2>. QED BY <2>1, LiveSame
<1>5. CASE Register(a) \/ Abandon(a) \/ Activate(a) \/ Arm(a) \/ StandDown(a)
           \/ Answer(a) \/ Ended(a)
  <2>1. OpenNow' = OpenNow /\ live' = live
    BY <1>5, <1>t DEF Register, Abandon, Activate, Arm, StandDown, Answer, Ended, GiveUp,
                      Go, OpenNow, Open, Registered
  <2>. QED BY <2>1, LiveSame
<1>6. CASE Connect(a) \/ Disconnect(a) \/ Fail(a) \/ Leave(a) \/ GraceEnds(a)
           \/ CloseReplaced(a)
  <2>1. at' = at /\ live' = live
    BY <1>6 DEF Connect, Disconnect, Fail, Leave, GraceEnds, CloseReplaced, Enter, task
  <2>. QED BY <2>1, LiveSame DEF OpenNow
<1>. QED BY <1>2, <1>3, <1>4, <1>5, <1>6 DEF Host, Peer

-----------------------------------------------------------------------------
(* The steps, but for the count.                                           *)

\* All of the invariant but LiveCounts and the types.
Rest == /\ Drawn /\ Distinct /\ OldIsOther /\ OldIsOlder
        /\ ClosersBuilt /\ RegistryTrue /\ OnlyReplacedClosed

\* A new offer is numbered above every other, and nobody knows it yet.
LEMMA OfferStep ==
  ASSUME Inv, NEW a \in Attempts, Offer(a)
  PROVE  Rest'
<1>. USE DEF Offer, Go, pcs, registry, signals, watch, Inv
<1>t. /\ latest \in Nat /\ seq \in [Attempts -> Nat]
      /\ at \in [Attempts -> {"idle", "offered", "gone"} \cup Open]
      /\ old \in [Attempts -> Attempts \cup {None}] /\ closers \subseteq Attempts
      /\ reg \in Attempts \cup {None} /\ last \in Attempts \cup {None}
  BY DEF TypeOK
<1>1. Drawn' /\ Distinct'
  BY <1>t DEF Drawn, Distinct
<1>2. OldIsOther' /\ ClosersBuilt'
  BY <1>t DEF OldIsOther, ClosersBuilt
<1>3. OldIsOlder'
  BY <1>t DEF OldIsOther, OldIsOlder
<1>4. RegistryTrue'
  BY <1>t, AttemptsAssumption DEF RegistryTrue, Registered
<1>5. OnlyReplacedClosed'
  BY <1>t DEF OnlyReplacedClosed, ClosersBuilt
<1>. QED BY <1>1, <1>2, <1>3, <1>4, <1>5 DEF Rest

\* The registry names the newcomer, which remembers the one that was there.
LEMMA RegisterStep ==
  ASSUME Inv, NEW a \in Attempts, Register(a)
  PROVE  Rest'
<1>. USE DEF Register, Go, pcs, signals, watch, Inv
<1>t. /\ latest \in Nat /\ seq \in [Attempts -> Nat]
      /\ at \in [Attempts -> {"idle", "offered", "gone"} \cup Open]
      /\ old \in [Attempts -> Attempts \cup {None}] /\ closers \subseteq Attempts
      /\ reg \in Attempts \cup {None} /\ last \in Attempts \cup {None}
  BY DEF TypeOK
<1>1. Drawn' /\ Distinct'
  BY <1>t DEF Drawn, Distinct
<1>2. OldIsOther' /\ ClosersBuilt'
  BY <1>t DEF OldIsOther, ClosersBuilt, RegistryTrue, Registered
<1>3. OldIsOlder'
  BY <1>t DEF OldIsOlder
<1>4. RegistryTrue'
  BY <1>t, AttemptsAssumption DEF RegistryTrue, Registered
<1>5. OnlyReplacedClosed'
  BY <1>t DEF OnlyReplacedClosed
<1>. QED BY <1>1, <1>2, <1>3, <1>4, <1>5 DEF Rest

\* The check: whoever passes it holds the newest number of all.
LEMMA ActivateStep ==
  ASSUME Inv, NEW a \in Attempts, Activate(a)
  PROVE  Rest'
<1>. USE DEF Activate, StillCurrent, Go, pcs, registry, signals, watch, Inv
<1>t. /\ latest \in Nat /\ seq \in [Attempts -> Nat]
      /\ at \in [Attempts -> {"idle", "offered", "gone"} \cup Open]
      /\ old \in [Attempts -> Attempts \cup {None}] /\ closers \subseteq Attempts
      /\ reg \in Attempts \cup {None} /\ last \in Attempts \cup {None}
  BY DEF TypeOK
<1>1. Drawn' /\ Distinct'
  BY <1>t DEF Drawn, Distinct
<1>2. OldIsOther' /\ ClosersBuilt'
  BY <1>t DEF OldIsOther, ClosersBuilt
<1>3. OldIsOlder'
  <2>1. old[a] # None => seq[old[a]] < seq[a]
    BY <1>t DEF OldIsOther, Drawn, Distinct
  <2>. QED BY <2>1, <1>t DEF OldIsOlder
<1>4. RegistryTrue'
  BY <1>t, AttemptsAssumption DEF RegistryTrue, Registered
<1>5. OnlyReplacedClosed'
  BY <1>t DEF OnlyReplacedClosed
<1>. QED BY <1>1, <1>2, <1>3, <1>4, <1>5 DEF Rest

\* Taking back an entry that is somebody else's takes nothing.
LEMMA GiveUpStep ==
  ASSUME Inv, NEW a \in Attempts, Abandon(a) \/ StandDown(a) \/ Ended(a)
  PROVE  Rest'
<1>. USE DEF Abandon, StandDown, Ended, GiveUp, Unregister, Go, pcs, signals, watch, Inv
<1>t. /\ latest \in Nat /\ seq \in [Attempts -> Nat]
      /\ at \in [Attempts -> {"idle", "offered", "gone"} \cup Open]
      /\ old \in [Attempts -> Attempts \cup {None}] /\ closers \subseteq Attempts
      /\ reg \in Attempts \cup {None} /\ last \in Attempts \cup {None}
  BY DEF TypeOK
<1>1. Drawn' /\ Distinct'
  BY <1>t DEF Drawn, Distinct
<1>2. OldIsOther' /\ ClosersBuilt'
  BY <1>t DEF OldIsOther, ClosersBuilt
<1>3. OldIsOlder'
  BY <1>t DEF OldIsOlder
<1>4. RegistryTrue'
  BY <1>t, AttemptsAssumption DEF RegistryTrue, Registered
<1>5. OnlyReplacedClosed'
  BY <1>t DEF OnlyReplacedClosed
<1>. QED BY <1>1, <1>2, <1>3, <1>4, <1>5 DEF Rest

\* The other steps of an attempt move it on, in or out of the registry's reach.
LEMMA MoveStep ==
  ASSUME Inv, NEW a \in Attempts,
         \/ Refused(a) \/ NewConnection(a) \/ NegotiationFails(a)
         \/ Arm(a) \/ Answer(a) \/ Close(a)
  PROVE  Rest'
<1>. USE DEF Refused, NewConnection, NegotiationFails, Arm, Answer, Close, Go,
             pcs, registry, signals, watch, Inv
<1>t. /\ latest \in Nat /\ seq \in [Attempts -> Nat]
      /\ at \in [Attempts -> {"idle", "offered", "gone"} \cup Open]
      /\ old \in [Attempts -> Attempts \cup {None}] /\ closers \subseteq Attempts
      /\ reg \in Attempts \cup {None} /\ last \in Attempts \cup {None}
  BY DEF TypeOK
<1>0. /\ UNCHANGED <<seq, latest, old, reg, last, closers>>
      /\ \E to \in {"gone", "negotiating", "armed", "serving"} :
            /\ at' = [at EXCEPT ![a] = to] /\ at[a] # "idle"
            /\ to \in Registered <=> at[a] \in Registered
            /\ to \in {"armed", "serving"} => at[a] \in {"activating", "armed"}
  BY DEF Registered
<1>1. Drawn' /\ Distinct'
  BY <1>0, <1>t DEF Drawn, Distinct
<1>2. OldIsOther' /\ ClosersBuilt'
  BY <1>0, <1>t DEF OldIsOther, ClosersBuilt
<1>3. OldIsOlder'
  BY <1>0, <1>t DEF OldIsOlder
<1>4. RegistryTrue'
  BY <1>0, <1>t DEF RegistryTrue
<1>5. OnlyReplacedClosed'
  BY <1>0, <1>t DEF OnlyReplacedClosed
<1>. QED BY <1>1, <1>2, <1>3, <1>4, <1>5 DEF Rest

\* A connection comes up: what it is to close was drawn before it.
LEMMA ConnectStep ==
  ASSUME Inv, NEW a \in Attempts, Connect(a)
  PROVE  Rest'
<1>. USE DEF Connect, Enter, task, registry, Inv
<1>t. /\ latest \in Nat /\ seq \in [Attempts -> Nat]
      /\ old \in [Attempts -> Attempts \cup {None}] /\ closers \subseteq Attempts
  BY DEF TypeOK
<1>1. Drawn' /\ Distinct' /\ RegistryTrue'
  BY DEF Drawn, Distinct, RegistryTrue
<1>2. OldIsOther' /\ ClosersBuilt'
  BY <1>t DEF OldIsOther, ClosersBuilt
<1>3. OldIsOlder'
  BY <1>t DEF OldIsOlder
<1>4. OnlyReplacedClosed'
  <2>1. old[a] # None => seq[old[a]] < seq[a] /\ seq[a] <= latest
    BY DEF OldIsOlder, Drawn
  <2>. QED BY <2>1, <1>t DEF OnlyReplacedClosed
<1>. QED BY <1>1, <1>2, <1>3, <1>4 DEF Rest

\* Whatever else happens to a connection adds nothing to be closed.
LEMMA ConnectionStep ==
  ASSUME Inv, NEW a \in Attempts,
         \/ Disconnect(a) \/ Fail(a) \/ Leave(a) \/ GraceEnds(a) \/ CloseReplaced(a)
  PROVE  Rest'
<1>1. UNCHANGED <<at, seq, latest, reg, last, old>> /\ closers' \subseteq closers
  BY DEF Disconnect, Fail, Leave, GraceEnds, CloseReplaced, Enter, task, registry
<1>. QED
  BY <1>1 DEF Inv, Rest, Drawn, Distinct, OldIsOther, OldIsOlder, ClosersBuilt,
              RegistryTrue, OnlyReplacedClosed

\* The row goes: the numbers drawn stay below the latest.
LEMMA ForgetStep == ASSUME Inv, Forget PROVE Rest'
<1>1. /\ UNCHANGED <<at, seq, old, reg, last, closers>> /\ latest' = latest + 1
      /\ latest \in Nat /\ seq \in [Attempts -> Nat] /\ closers \subseteq Attempts
  BY DEF Forget, registry, Inv, TypeOK
<1>2. Drawn' /\ OnlyReplacedClosed'
  BY <1>1 DEF Inv, Drawn, OnlyReplacedClosed
<1>. QED
  BY <1>1, <1>2 DEF Inv, Rest, Distinct, OldIsOther, OldIsOlder, ClosersBuilt, RegistryTrue

LEMMA RestStep == ASSUME Inv, Next PROVE Rest'
BY OfferStep, RegisterStep, ActivateStep, GiveUpStep, MoveStep, ConnectStep, ConnectionStep,
   ForgetStep
DEF Next, Host, Peer

-----------------------------------------------------------------------------
LEMMA TypeStep == ASSUME Inv, Next, live' \in Nat PROVE TypeOK'
<1>0. CASE Forget
  <2>1. latest' \in Nat BY <1>0 DEF Forget, Inv, TypeOK
  <2>. QED
    BY <1>0, <2>1 DEF Forget, Inv, TypeOK, pcs, registry, signals, watch
<1>. SUFFICES ASSUME NEW a \in Attempts,
                     Host(a) \/ Peer(a) \/ GraceEnds(a) \/ CloseReplaced(a)
              PROVE  TypeOK'
  BY <1>0 DEF Next
<1>. USE DEF Inv, TypeOK, Go, pcs, registry, signals, watch, task
<1>2. CASE Offer(a) \/ Refused(a) \/ NewConnection(a) \/ NegotiationFails(a)
  BY <1>2 DEF Offer, Refused, NewConnection, NegotiationFails, Open
<1>3. CASE Register(a) \/ Activate(a) \/ Arm(a) \/ Answer(a)
  <2>1. CASE Register(a) BY <2>1 DEF Register, Open, Registered
  <2>2. CASE Activate(a) BY <2>2 DEF Activate, Open, Registered
  <2>3. CASE Arm(a) BY <2>3 DEF Arm, Open, Registered
  <2>4. CASE Answer(a) BY <2>4 DEF Answer, Open, Registered
  <2>. QED BY <1>3, <2>1, <2>2, <2>3, <2>4
<1>4. CASE Abandon(a) \/ StandDown(a) \/ Ended(a) \/ Close(a)
  BY <1>4 DEF Abandon, StandDown, Ended, GiveUp, Unregister, Close, Open
<1>e. ASSUME NEW s \in {"connected", "disconnected", "failed", "closed"}, Enter(a, s)
      PROVE  /\ conn' \in [Attempts -> {"new", "connected", "disconnected", "failed", "closed"}]
             /\ sent' \in [Attempts -> BOOLEAN]
             /\ UNCHANGED <<at, seq, latest, handler, reg, last, left, live>>
  BY <1>e DEF Enter
<1>5. CASE Connect(a)
  <2>1. Enter(a, "connected") BY <1>5 DEF Connect
  <2>2. version[a] \in Nat /\ version[a] + 1 \in Nat OBVIOUS
  <2>3. version' \in [Attempts -> Nat] BY <1>5, <2>2 DEF Connect
  <2>4. closers' \subseteq Attempts BY <1>5 DEF Connect
  <2>5. up' \in [Attempts -> BOOLEAN] BY <1>5 DEF Connect
  <2>6. old' \in [Attempts -> Attempts \cup {None}] BY <1>5 DEF Connect
  <2>. QED BY <1>5, <1>e, <2>1, <2>3, <2>4, <2>5, <2>6 DEF Connect
<1>8. CASE Disconnect(a)
  <2>1. Enter(a, "disconnected") BY <1>8 DEF Disconnect
  <2>2. version[a] + 1 \in Nat /\ graces[a] + 1 \in Nat OBVIOUS
  <2>3. version' \in [Attempts -> Nat] BY <1>8, <2>2 DEF Disconnect
  <2>4. graces' \in [Attempts -> Nat] BY <1>8, <2>2 DEF Disconnect
  <2>. QED BY <1>8, <1>e, <2>1, <2>3, <2>4 DEF Disconnect
<1>9. CASE Fail(a)
  BY <1>9, <1>e DEF Fail
<1>6. CASE Leave(a)
  BY <1>6 DEF Leave
<1>10. CASE GraceEnds(a)
  <2>1. graces[a] - 1 \in Nat BY <1>10 DEF GraceEnds
  <2>2. graces' \in [Attempts -> Nat] BY <1>10, <2>1 DEF GraceEnds
  <2>3. sent' \in [Attempts -> BOOLEAN] BY <1>10 DEF GraceEnds
  <2>. QED BY <1>10, <2>2, <2>3 DEF GraceEnds
<1>7. CASE CloseReplaced(a)
  <2>1. closers' \subseteq Attempts BY <1>7 DEF CloseReplaced
  <2>2. CASE Enter(a, "closed")
    BY <1>7, <1>e, <2>1, <2>2 DEF CloseReplaced
  <2>3. CASE ~Enter(a, "closed")
    BY <1>7, <2>1, <2>3 DEF CloseReplaced
  <2>. QED BY <2>2, <2>3
<1>. QED BY <1>2, <1>3, <1>4, <1>5, <1>6, <1>7, <1>8, <1>9, <1>10 DEF Host, Peer

LEMMA Stutter == ASSUME Inv, UNCHANGED vars PROVE Inv'
BY DEF vars, task, pcs, registry, signals, watch, Inv, TypeOK, Drawn, Distinct,
       OldIsOther, OldIsOlder, ClosersBuilt, RegistryTrue, OnlyReplacedClosed, LiveCounts

\* The invariant holds throughout.
THEOREM Invariance == Spec => []Inv
<1>1. Inv /\ [Next]_vars => Inv'
  BY LiveStep, RestStep, TypeStep, Stutter DEF Inv, Rest
<1>. QED BY InitInv, <1>1, PTL DEF Spec

\* Types are kept (webrtc_session.rs:759-870).
THEOREM TypeCorrect == Spec => []TypeOK
<1>1. Inv => TypeOK
  BY DEF Inv
<1>. QED BY <1>1, Invariance, PTL

\* However many offers of a join register, in whatever order, and however their
\* teardowns fall between, the registry names the last one for as long as that one
\* has not been taken back (webrtc_session.rs:2985-3026).
THEOREM RegistryIsTrue == Spec => []RegistryTrue
<1>1. Inv => RegistryTrue
  BY DEF Inv
<1>. QED BY <1>1, Invariance, PTL

\* No connection coming up ever closes the transport of the current attempt
\* (webrtc_session.rs:1657-1672).
THEOREM CurrentIsSpared == Spec => []OnlyReplacedClosed
<1>1. Inv => OnlyReplacedClosed
  BY DEF Inv
<1>. QED BY <1>1, Invariance, PTL

\* LIVE_SESSIONS is the number of transports not given back
\* (webrtc_session.rs:830, 881-892, 942, 1066).
THEOREM LiveIsExact == Spec => []LiveCounts
<1>1. Inv => LiveCounts
  BY DEF Inv
<1>. QED BY <1>1, Invariance, PTL

=============================================================================
