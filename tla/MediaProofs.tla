---------------------------- MODULE MediaProofs -----------------------------
(***************************************************************************)
(* Proofs about the sound and the transports of MCMedia.                   *)
(*                                                                         *)
(* The hub, for every set of forwarders, every bound and every             *)
(* interleaving.  The inductive invariant Inv says who may be inside a     *)
(* device call, what each stage of such a call knows of the hub, and what  *)
(* the reference count counts.                                             *)
(*                                                                         *)
(* The transports of one join are those of TransportProofs, whose module   *)
(* is instantiated at the end: the steps of their part of MCMedia are      *)
(* Transport's, and every other part leaves them alone.                    *)
(***************************************************************************)
EXTENDS MCMedia, FiniteSetTheorems, TLAPS

\* The stages in which a thread works on the device with the mutex released.
Inside == {"opening", "opened", "refused", "closing", "closed"}

\* busy is set exactly while one thread is inside.
BusyMeansInside ==
  /\ busy <=> \E f \in Forwarders : stage[f] \in Inside
  /\ \A f, g \in Forwarders : stage[f] \in Inside /\ stage[g] \in Inside => f = g

\* What a thread inside knows: nothing is published, and the captures that run
\* are those it has in hand.
InsideKnows ==
  \A f \in Forwarders : stage[f] \in Inside =>
    /\ running = None
    /\ capturing = IF stage[f] \in {"opened", "closing"} THEN {held[f]} ELSE {}
    /\ stage[f] = "opened" => held[f] # None

\* With nobody inside, what runs is what is published.
IdleKnows == ~busy => capturing = {running} \ {None}

\* A subscription is to the published capture and its owner is in its loop.
SubscribedKnows ==
  \A f \in Forwarders : sub[f] # None => sub[f] = running /\ stage[f] = "loop"

\* Opening is part of subscribe.
CallKnows ==
  \A f \in Forwarders : stage[f] \in {"opening", "opened", "refused"} => call[f] = "subscribe"

Inv == /\ TypeOK
       /\ BusyMeansInside
       /\ InsideKnows
       /\ IdleKnows
       /\ SubscribedKnows
       /\ CallKnows
       /\ CountIsExact

-----------------------------------------------------------------------------
(* Facts about the sets Inv speaks of.                                     *)

\* There are finitely many listeners, so that they can be counted.
LEMMA ListenersFinite == IsFiniteSet(Listeners) /\ Cardinality(Listeners) \in Nat
<1>1. Listeners \subseteq Forwarders
  BY DEF Listeners
<1>2. IsFiniteSet(Listeners)
  BY <1>1, ForwardersAssumption, FS_Subset
<1> QED
  BY <1>2, FS_CardinalityType

\* The listeners after a step that leaves every forwarder but f as it was, up to
\* the wake-up of parked threads.
LEMMA ListenersOfOthers ==
  ASSUME NEW f \in Forwarders,
         \A g \in Forwarders \ {f} : /\ sub'[g] = sub[g]
                                     /\ call'[g] = call[g]
                                     /\ \/ stage'[g] = stage[g]
                                        \/ stage[g] = "parked" /\ stage'[g] = "entry"
  PROVE  Listeners' \ {f} = Listeners \ {f}
  BY DEF Listeners

\* A thread that joins is counted once.
LEMMA OneMore ==
  ASSUME NEW f \in Forwarders, f \notin Listeners, f \in Listeners',
         Listeners' \ {f} = Listeners \ {f},
         refcount = Cardinality(Listeners), refcount' = refcount + 1
  PROVE  refcount' = Cardinality(Listeners')
<1>1. Listeners' = Listeners \cup {f}
  OBVIOUS
<1> QED
  BY <1>1, ListenersFinite, FS_AddElement

\* A thread that leaves was counted once.
LEMMA OneLess ==
  ASSUME NEW f \in Forwarders, f \in Listeners, f \notin Listeners',
         Listeners' \ {f} = Listeners \ {f},
         refcount = Cardinality(Listeners)
  PROVE  /\ refcount > 0
         /\ refcount - 1 = Cardinality(Listeners')
<1>1. Listeners' = Listeners \ {f}
  OBVIOUS
<1>2. Cardinality(Listeners \ {f}) = Cardinality(Listeners) - 1
  BY ListenersFinite, FS_RemoveElement
<1>3. Cardinality(Listeners) # 0
  BY ListenersFinite, FS_EmptySet
<1> QED
  BY <1>1, <1>2, <1>3, ListenersFinite

\* The type invariant holds initially.
LEMMA InitType == Init => TypeOK
<1> SUFFICES ASSUME Init PROVE TypeOK
  OBVIOUS
<1> USE DEF Init, None
<1>1. running \in Nat /\ refcount \in Nat /\ busy \in BOOLEAN
  OBVIOUS
<1>2. capturing \subseteq Nat /\ opened \in Nat
  OBVIOUS
<1>3. stage \in [Forwarders -> Stages] /\ call \in [Forwarders -> Calls]
  BY DEF Stages, Calls
<1>4. held \in [Forwarders -> Nat] /\ sub \in [Forwarders -> Nat]
  OBVIOUS
<1>5. want \in [Forwarders -> BOOLEAN] /\ alive \in [Forwarders -> BOOLEAN]
  OBVIOUS
<1>6. toggles \in Nat /\ refusals \in Nat /\ spurious \in Nat
  OBVIOUS
<1> QED
  BY <1>1, <1>2, <1>3, <1>4, <1>5, <1>6 DEF TypeOK, HubTyped, TaskTyped, WorldTyped

\* Inv holds initially.
LEMMA InitInv == Init => Inv
<1> SUFFICES ASSUME Init PROVE Inv
  OBVIOUS
<1>1. TypeOK
  BY InitType
<1>2. Listeners = {}
  BY DEF Init, Listeners, None
<1>3. CountIsExact
  BY <1>2, FS_EmptySet DEF Init, CountIsExact, None
<1> QED
  BY <1>1, <1>3 DEF Init, Inv, BusyMeansInside, Inside, InsideKnows, IdleKnows,
     SubscribedKnows, CallKnows, None

-----------------------------------------------------------------------------
(* Every step preserves Inv: one lemma per action.                         *)

\* Toggle preserves Inv.
LEMMA ToggleStep ==
  ASSUME Inv, NEW f \in Forwarders, Toggle(f)
  PROVE  Inv'
<1> USE DEF None, hub, device, task, world, counts
<1>1. HubTyped'
  BY DEF Toggle, Inv, TypeOK, HubTyped, TaskTyped
<1>2. TaskTyped'
  BY <1>1 DEF Toggle, Inv, TypeOK, HubTyped, TaskTyped, Stages, Calls
<1>3. WorldTyped'
  BY BoundsAssumption DEF Toggle, Inv, TypeOK, WorldTyped
<1>4. BusyMeansInside'
  BY DEF Toggle, Inv, TypeOK, HubTyped, TaskTyped, BusyMeansInside, Inside
<1>5. InsideKnows'
  BY DEF Toggle, Inv, TypeOK, HubTyped, TaskTyped, BusyMeansInside, InsideKnows, Inside
<1>6. IdleKnows'
  BY DEF Toggle, Inv, TypeOK, HubTyped, TaskTyped, BusyMeansInside, InsideKnows, IdleKnows, Inside
<1>7. SubscribedKnows'
  BY DEF Toggle, Inv, TypeOK, TaskTyped, BusyMeansInside, InsideKnows, SubscribedKnows, Inside
<1>8. CallKnows'
  BY DEF Toggle, Inv, TypeOK, TaskTyped, CallKnows
<1>9. CountIsExact'
  <2>1. Listeners' = Listeners
    BY DEF Toggle, Inv, TypeOK, TaskTyped, Listeners, SubscribedKnows, CallKnows
  <2> QED
    BY <2>1 DEF Toggle, Inv, CountIsExact
<1> QED
  BY <1>1, <1>2, <1>3, <1>4, <1>5, <1>6, <1>7, <1>8, <1>9 DEF Inv, TypeOK

\* Die preserves Inv.
LEMMA DieStep ==
  ASSUME Inv, NEW f \in Forwarders, Die(f)
  PROVE  Inv'
<1> USE DEF None, hub, device, task, world, counts
<1>1. HubTyped'
  BY DEF Die, Inv, TypeOK, HubTyped, TaskTyped
<1>2. TaskTyped'
  BY <1>1 DEF Die, Inv, TypeOK, HubTyped, TaskTyped, Stages, Calls
<1>3. WorldTyped'
  BY BoundsAssumption DEF Die, Inv, TypeOK, WorldTyped
<1>4. BusyMeansInside'
  BY DEF Die, Inv, TypeOK, HubTyped, TaskTyped, BusyMeansInside, Inside
<1>5. InsideKnows'
  BY DEF Die, Inv, TypeOK, HubTyped, TaskTyped, BusyMeansInside, InsideKnows, Inside
<1>6. IdleKnows'
  BY DEF Die, Inv, TypeOK, HubTyped, TaskTyped, BusyMeansInside, InsideKnows, IdleKnows, Inside
<1>7. SubscribedKnows'
  BY DEF Die, Inv, TypeOK, TaskTyped, BusyMeansInside, InsideKnows, SubscribedKnows, Inside
<1>8. CallKnows'
  BY DEF Die, Inv, TypeOK, TaskTyped, CallKnows
<1>9. CountIsExact'
  <2>1. Listeners' = Listeners
    BY DEF Die, Inv, TypeOK, TaskTyped, Listeners, SubscribedKnows, CallKnows
  <2> QED
    BY <2>1 DEF Die, Inv, CountIsExact
<1> QED
  BY <1>1, <1>2, <1>3, <1>4, <1>5, <1>6, <1>7, <1>8, <1>9 DEF Inv, TypeOK

\* WakeSpuriously preserves Inv.
LEMMA WakeSpuriouslyStep ==
  ASSUME Inv, NEW f \in Forwarders, WakeSpuriously(f)
  PROVE  Inv'
<1> USE DEF None, hub, device, task, world, counts
<1>1. HubTyped'
  BY DEF WakeSpuriously, Inv, TypeOK, HubTyped, TaskTyped
<1>2. TaskTyped'
  BY <1>1 DEF WakeSpuriously, Inv, TypeOK, HubTyped, TaskTyped, Stages, Calls
<1>3. WorldTyped'
  BY BoundsAssumption DEF WakeSpuriously, Inv, TypeOK, WorldTyped
<1>4. BusyMeansInside'
  BY DEF WakeSpuriously, Inv, TypeOK, HubTyped, TaskTyped, BusyMeansInside, Inside
<1>5. InsideKnows'
  BY DEF WakeSpuriously, Inv, TypeOK, HubTyped, TaskTyped, BusyMeansInside, InsideKnows, Inside
<1>6. IdleKnows'
  BY DEF WakeSpuriously, Inv, TypeOK, HubTyped, TaskTyped, BusyMeansInside, InsideKnows, IdleKnows, Inside
<1>7. SubscribedKnows'
  BY DEF WakeSpuriously, Inv, TypeOK, TaskTyped, BusyMeansInside, InsideKnows, SubscribedKnows, Inside
<1>8. CallKnows'
  BY DEF WakeSpuriously, Inv, TypeOK, TaskTyped, CallKnows
<1>9. CountIsExact'
  <2>1. Listeners' = Listeners
    BY DEF WakeSpuriously, Inv, TypeOK, TaskTyped, Listeners, SubscribedKnows, CallKnows
  <2> QED
    BY <2>1 DEF WakeSpuriously, Inv, CountIsExact
<1> QED
  BY <1>1, <1>2, <1>3, <1>4, <1>5, <1>6, <1>7, <1>8, <1>9 DEF Inv, TypeOK

\* DeviceOpens preserves Inv.
LEMMA DeviceOpensStep ==
  ASSUME Inv, NEW f \in Forwarders, DeviceOpens(f)
  PROVE  Inv'
<1> USE DEF None, hub, device, task, world, counts
<1>1. HubTyped'
  BY DEF DeviceOpens, Inv, TypeOK, HubTyped, TaskTyped
<1>2. TaskTyped'
  BY <1>1 DEF DeviceOpens, Inv, TypeOK, HubTyped, TaskTyped, Stages, Calls
<1>3. WorldTyped'
  BY BoundsAssumption DEF DeviceOpens, Inv, TypeOK, WorldTyped
<1>4. BusyMeansInside'
  BY DEF DeviceOpens, Inv, TypeOK, HubTyped, TaskTyped, BusyMeansInside, Inside
<1>5. InsideKnows'
  <2>1. \A g \in Forwarders : g # f => stage'[g] = stage[g] /\ stage[g] \notin Inside
    BY DEF DeviceOpens, Inv, TypeOK, TaskTyped, BusyMeansInside, Inside
  <2>2. running' = None /\ capturing' = {opened + 1}
    BY DEF DeviceOpens, Inv, InsideKnows, Inside
  <2>3. stage'[f] = "opened" /\ held'[f] = opened + 1 /\ opened + 1 # None
    BY DEF DeviceOpens, Inv, TypeOK, HubTyped, TaskTyped
  <2> QED
    BY <2>1, <2>2, <2>3 DEF InsideKnows
<1>6. IdleKnows'
  BY DEF DeviceOpens, Inv, TypeOK, HubTyped, TaskTyped, BusyMeansInside, InsideKnows, IdleKnows, Inside
<1>7. SubscribedKnows'
  BY DEF DeviceOpens, Inv, TypeOK, TaskTyped, BusyMeansInside, InsideKnows, SubscribedKnows, Inside
<1>8. CallKnows'
  BY DEF DeviceOpens, Inv, TypeOK, TaskTyped, CallKnows
<1>9. CountIsExact'
  <2>1. Listeners' = Listeners
    BY DEF DeviceOpens, Inv, TypeOK, TaskTyped, Listeners, SubscribedKnows, CallKnows
  <2> QED
    BY <2>1 DEF DeviceOpens, Inv, CountIsExact
<1> QED
  BY <1>1, <1>2, <1>3, <1>4, <1>5, <1>6, <1>7, <1>8, <1>9 DEF Inv, TypeOK

\* DeviceRefuses preserves Inv.
LEMMA DeviceRefusesStep ==
  ASSUME Inv, NEW f \in Forwarders, DeviceRefuses(f)
  PROVE  Inv'
<1> USE DEF None, hub, device, task, world, counts
<1>1. HubTyped'
  BY DEF DeviceRefuses, Inv, TypeOK, HubTyped, TaskTyped
<1>2. TaskTyped'
  BY <1>1 DEF DeviceRefuses, Inv, TypeOK, HubTyped, TaskTyped, Stages, Calls
<1>3. WorldTyped'
  BY BoundsAssumption DEF DeviceRefuses, Inv, TypeOK, WorldTyped
<1>4. BusyMeansInside'
  BY DEF DeviceRefuses, Inv, TypeOK, HubTyped, TaskTyped, BusyMeansInside, Inside
<1>5. InsideKnows'
  BY DEF DeviceRefuses, Inv, TypeOK, HubTyped, TaskTyped, BusyMeansInside, InsideKnows, Inside
<1>6. IdleKnows'
  BY DEF DeviceRefuses, Inv, TypeOK, HubTyped, TaskTyped, BusyMeansInside, InsideKnows, IdleKnows, Inside
<1>7. SubscribedKnows'
  BY DEF DeviceRefuses, Inv, TypeOK, TaskTyped, BusyMeansInside, InsideKnows, SubscribedKnows, Inside
<1>8. CallKnows'
  BY DEF DeviceRefuses, Inv, TypeOK, TaskTyped, CallKnows
<1>9. CountIsExact'
  <2>1. Listeners' = Listeners
    BY DEF DeviceRefuses, Inv, TypeOK, TaskTyped, Listeners, SubscribedKnows, CallKnows
  <2> QED
    BY <2>1 DEF DeviceRefuses, Inv, CountIsExact
<1> QED
  BY <1>1, <1>2, <1>3, <1>4, <1>5, <1>6, <1>7, <1>8, <1>9 DEF Inv, TypeOK

\* DeviceCloses preserves Inv.
LEMMA DeviceClosesStep ==
  ASSUME Inv, NEW f \in Forwarders, DeviceCloses(f)
  PROVE  Inv'
<1> USE DEF None, hub, device, task, world, counts
<1>1. HubTyped'
  BY DEF DeviceCloses, Inv, TypeOK, HubTyped, TaskTyped
<1>2. TaskTyped'
  BY <1>1 DEF DeviceCloses, Inv, TypeOK, HubTyped, TaskTyped, Stages, Calls
<1>3. WorldTyped'
  BY BoundsAssumption DEF DeviceCloses, Inv, TypeOK, WorldTyped
<1>4. BusyMeansInside'
  BY DEF DeviceCloses, Inv, TypeOK, HubTyped, TaskTyped, BusyMeansInside, Inside
<1>5. InsideKnows'
  BY DEF DeviceCloses, Inv, TypeOK, HubTyped, TaskTyped, BusyMeansInside, InsideKnows, Inside
<1>6. IdleKnows'
  BY DEF DeviceCloses, Inv, TypeOK, HubTyped, TaskTyped, BusyMeansInside, InsideKnows, IdleKnows, Inside
<1>7. SubscribedKnows'
  BY DEF DeviceCloses, Inv, TypeOK, TaskTyped, BusyMeansInside, InsideKnows, SubscribedKnows, Inside
<1>8. CallKnows'
  BY DEF DeviceCloses, Inv, TypeOK, TaskTyped, CallKnows
<1>9. CountIsExact'
  <2>1. Listeners' = Listeners
    BY DEF DeviceCloses, Inv, TypeOK, TaskTyped, Listeners, SubscribedKnows, CallKnows
  <2> QED
    BY <2>1 DEF DeviceCloses, Inv, CountIsExact
<1> QED
  BY <1>1, <1>2, <1>3, <1>4, <1>5, <1>6, <1>7, <1>8, <1>9 DEF Inv, TypeOK

\* TurnOn preserves Inv.
LEMMA TurnOnStep ==
  ASSUME Inv, NEW f \in Forwarders, TurnOn(f)
  PROVE  Inv'
<1> USE DEF None, hub, device, task, world, counts
<1>1. HubTyped'
  BY DEF TurnOn, Enter, Inv, TypeOK, HubTyped, TaskTyped
<1>2. TaskTyped'
  BY <1>1 DEF TurnOn, Enter, Inv, TypeOK, HubTyped, TaskTyped, Stages, Calls
<1>3. WorldTyped'
  BY BoundsAssumption DEF TurnOn, Enter, Inv, TypeOK, WorldTyped
<1>4. BusyMeansInside'
  BY DEF TurnOn, Enter, Inv, TypeOK, HubTyped, TaskTyped, BusyMeansInside, Inside
<1>5. InsideKnows'
  BY DEF TurnOn, Enter, Inv, TypeOK, HubTyped, TaskTyped, BusyMeansInside, InsideKnows, Inside
<1>6. IdleKnows'
  BY DEF TurnOn, Enter, Inv, TypeOK, HubTyped, TaskTyped, BusyMeansInside, InsideKnows, IdleKnows, Inside
<1>7. SubscribedKnows'
  BY DEF TurnOn, Enter, Inv, TypeOK, TaskTyped, BusyMeansInside, InsideKnows, SubscribedKnows, Inside
<1>8. CallKnows'
  BY DEF TurnOn, Enter, Inv, TypeOK, TaskTyped, CallKnows
<1>9. CountIsExact'
  <2>1. Listeners' = Listeners
    BY DEF TurnOn, Enter, Inv, TypeOK, TaskTyped, Listeners, SubscribedKnows, CallKnows
  <2> QED
    BY <2>1 DEF TurnOn, Enter, Inv, CountIsExact
<1> QED
  BY <1>1, <1>2, <1>3, <1>4, <1>5, <1>6, <1>7, <1>8, <1>9 DEF Inv, TypeOK

\* TurnOff preserves Inv.
LEMMA TurnOffStep ==
  ASSUME Inv, NEW f \in Forwarders, TurnOff(f)
  PROVE  Inv'
<1> USE DEF None, hub, device, task, world, counts
<1>1. HubTyped'
  BY DEF TurnOff, Enter, Inv, TypeOK, HubTyped, TaskTyped
<1>2. TaskTyped'
  BY <1>1 DEF TurnOff, Enter, Inv, TypeOK, HubTyped, TaskTyped, Stages, Calls
<1>3. WorldTyped'
  BY BoundsAssumption DEF TurnOff, Enter, Inv, TypeOK, WorldTyped
<1>4. BusyMeansInside'
  BY DEF TurnOff, Enter, Inv, TypeOK, HubTyped, TaskTyped, BusyMeansInside, Inside
<1>5. InsideKnows'
  BY DEF TurnOff, Enter, Inv, TypeOK, HubTyped, TaskTyped, BusyMeansInside, InsideKnows, Inside
<1>6. IdleKnows'
  BY DEF TurnOff, Enter, Inv, TypeOK, HubTyped, TaskTyped, BusyMeansInside, InsideKnows, IdleKnows, Inside
<1>7. SubscribedKnows'
  BY DEF TurnOff, Enter, Inv, TypeOK, TaskTyped, BusyMeansInside, InsideKnows, SubscribedKnows, Inside
<1>8. CallKnows'
  BY DEF TurnOff, Enter, Inv, TypeOK, TaskTyped, CallKnows
<1>9. CountIsExact'
  <2>1. Listeners' = Listeners
    BY DEF TurnOff, Enter, Inv, TypeOK, TaskTyped, Listeners, SubscribedKnows, CallKnows
  <2> QED
    BY <2>1 DEF TurnOff, Enter, Inv, CountIsExact
<1> QED
  BY <1>1, <1>2, <1>3, <1>4, <1>5, <1>6, <1>7, <1>8, <1>9 DEF Inv, TypeOK

\* Finish preserves Inv.
LEMMA FinishStep ==
  ASSUME Inv, NEW f \in Forwarders, Finish(f)
  PROVE  Inv'
<1> USE DEF None, hub, device, task, world, counts
<1>1. HubTyped'
  BY DEF Finish, Enter, Inv, TypeOK, HubTyped, TaskTyped
<1>2. TaskTyped'
  BY <1>1 DEF Finish, Enter, Inv, TypeOK, HubTyped, TaskTyped, Stages, Calls
<1>3. WorldTyped'
  BY BoundsAssumption DEF Finish, Enter, Inv, TypeOK, WorldTyped
<1>4. BusyMeansInside'
  BY DEF Finish, Enter, Inv, TypeOK, HubTyped, TaskTyped, BusyMeansInside, Inside
<1>5. InsideKnows'
  BY DEF Finish, Enter, Inv, TypeOK, HubTyped, TaskTyped, BusyMeansInside, InsideKnows, Inside
<1>6. IdleKnows'
  BY DEF Finish, Enter, Inv, TypeOK, HubTyped, TaskTyped, BusyMeansInside, InsideKnows, IdleKnows, Inside
<1>7. SubscribedKnows'
  BY DEF Finish, Enter, Inv, TypeOK, TaskTyped, BusyMeansInside, InsideKnows, SubscribedKnows, Inside
<1>8. CallKnows'
  BY DEF Finish, Enter, Inv, TypeOK, TaskTyped, CallKnows
<1>9. CountIsExact'
  <2>1. Listeners' = Listeners
    BY DEF Finish, Enter, Inv, TypeOK, TaskTyped, Listeners, SubscribedKnows, CallKnows
  <2> QED
    BY <2>1 DEF Finish, Enter, Inv, CountIsExact
<1> QED
  BY <1>1, <1>2, <1>3, <1>4, <1>5, <1>6, <1>7, <1>8, <1>9 DEF Inv, TypeOK

\* End preserves Inv.
LEMMA EndStep ==
  ASSUME Inv, NEW f \in Forwarders, End(f)
  PROVE  Inv'
<1> USE DEF None, hub, device, task, world, counts
<1>1. HubTyped'
  BY DEF End, Inv, TypeOK, HubTyped, TaskTyped
<1>2. TaskTyped'
  BY <1>1 DEF End, Inv, TypeOK, HubTyped, TaskTyped, Stages, Calls
<1>3. WorldTyped'
  BY BoundsAssumption DEF End, Inv, TypeOK, WorldTyped
<1>4. BusyMeansInside'
  BY DEF End, Inv, TypeOK, HubTyped, TaskTyped, BusyMeansInside, Inside
<1>5. InsideKnows'
  BY DEF End, Inv, TypeOK, HubTyped, TaskTyped, BusyMeansInside, InsideKnows, Inside
<1>6. IdleKnows'
  BY DEF End, Inv, TypeOK, HubTyped, TaskTyped, BusyMeansInside, InsideKnows, IdleKnows, Inside
<1>7. SubscribedKnows'
  BY DEF End, Inv, TypeOK, TaskTyped, BusyMeansInside, InsideKnows, SubscribedKnows, Inside
<1>8. CallKnows'
  BY DEF End, Inv, TypeOK, TaskTyped, CallKnows
<1>9. CountIsExact'
  <2>1. Listeners' = Listeners
    BY DEF End, Inv, TypeOK, TaskTyped, Listeners, SubscribedKnows, CallKnows
  <2> QED
    BY <2>1 DEF End, Inv, CountIsExact
<1> QED
  BY <1>1, <1>2, <1>3, <1>4, <1>5, <1>6, <1>7, <1>8, <1>9 DEF Inv, TypeOK

\* Park preserves Inv.
LEMMA ParkStep ==
  ASSUME Inv, NEW f \in Forwarders, Park(f)
  PROVE  Inv'
<1> USE DEF None, hub, device, task, world, counts
<1>1. HubTyped'
  BY DEF Park, Inv, TypeOK, HubTyped, TaskTyped
<1>2. TaskTyped'
  BY <1>1 DEF Park, Inv, TypeOK, HubTyped, TaskTyped, Stages, Calls
<1>3. WorldTyped'
  BY BoundsAssumption DEF Park, Inv, TypeOK, WorldTyped
<1>4. BusyMeansInside'
  BY DEF Park, Inv, TypeOK, HubTyped, TaskTyped, BusyMeansInside, Inside
<1>5. InsideKnows'
  BY DEF Park, Inv, TypeOK, HubTyped, TaskTyped, BusyMeansInside, InsideKnows, Inside
<1>6. IdleKnows'
  BY DEF Park, Inv, TypeOK, HubTyped, TaskTyped, BusyMeansInside, InsideKnows, IdleKnows, Inside
<1>7. SubscribedKnows'
  BY DEF Park, Inv, TypeOK, TaskTyped, BusyMeansInside, InsideKnows, SubscribedKnows, Inside
<1>8. CallKnows'
  BY DEF Park, Inv, TypeOK, TaskTyped, CallKnows
<1>9. CountIsExact'
  <2>1. Listeners' = Listeners
    BY DEF Park, Inv, TypeOK, TaskTyped, Listeners, SubscribedKnows, CallKnows
  <2> QED
    BY <2>1 DEF Park, Inv, CountIsExact
<1> QED
  BY <1>1, <1>2, <1>3, <1>4, <1>5, <1>6, <1>7, <1>8, <1>9 DEF Inv, TypeOK

\* Subscribe preserves Inv.
LEMMA SubscribeStep ==
  ASSUME Inv, NEW f \in Forwarders, Subscribe(f)
  PROVE  Inv'
<1> USE DEF None, hub, device, task, world, counts
<1>1. HubTyped'
  BY DEF Subscribe, Idle, Inv, TypeOK, HubTyped, TaskTyped
<1>2. TaskTyped'
  BY <1>1 DEF Subscribe, Idle, Inv, TypeOK, HubTyped, TaskTyped, Stages, Calls
<1>3. WorldTyped'
  BY BoundsAssumption DEF Subscribe, Idle, Inv, TypeOK, WorldTyped
<1>4. BusyMeansInside'
  BY DEF Subscribe, Idle, Inv, TypeOK, HubTyped, TaskTyped, BusyMeansInside, Inside
<1>5. InsideKnows'
  BY DEF Subscribe, Idle, Inv, TypeOK, HubTyped, TaskTyped, BusyMeansInside, InsideKnows, Inside
<1>6. IdleKnows'
  BY DEF Subscribe, Idle, Inv, TypeOK, HubTyped, TaskTyped, BusyMeansInside, InsideKnows, IdleKnows, Inside
<1>7. SubscribedKnows'
  BY DEF Subscribe, Idle, Inv, TypeOK, TaskTyped, BusyMeansInside, InsideKnows, SubscribedKnows, Inside
<1>8. CallKnows'
  BY DEF Subscribe, Idle, Inv, TypeOK, TaskTyped, CallKnows
<1>9. CountIsExact'
  <2>1. f \notin Listeners /\ f \in Listeners'
    BY DEF Subscribe, Idle, Inv, TypeOK, HubTyped, TaskTyped, Listeners, SubscribedKnows, CallKnows, InsideKnows, Inside
  <2>2. Listeners' \ {f} = Listeners \ {f}
    BY ListenersOfOthers DEF Subscribe, Idle, Inv, TypeOK, TaskTyped
  <2>3. refcount' = Cardinality(Listeners')
    BY <2>1, <2>2, OneMore DEF Subscribe, Idle, Inv, CountIsExact
  <2>4. running' # None /\ refcount' > 0
    BY DEF Subscribe, Idle, Inv, TypeOK, HubTyped, InsideKnows, Inside
  <2> QED
    BY <2>3, <2>4 DEF CountIsExact
<1> QED
  BY <1>1, <1>2, <1>3, <1>4, <1>5, <1>6, <1>7, <1>8, <1>9 DEF Inv, TypeOK

\* BeginOpen preserves Inv.
LEMMA BeginOpenStep ==
  ASSUME Inv, NEW f \in Forwarders, BeginOpen(f)
  PROVE  Inv'
<1> USE DEF None, hub, device, task, world, counts
<1>1. HubTyped'
  BY DEF BeginOpen, Idle, Inv, TypeOK, HubTyped, TaskTyped
<1>2. TaskTyped'
  BY <1>1 DEF BeginOpen, Idle, Inv, TypeOK, HubTyped, TaskTyped, Stages, Calls
<1>3. WorldTyped'
  BY BoundsAssumption DEF BeginOpen, Idle, Inv, TypeOK, WorldTyped
<1>4. BusyMeansInside'
  BY DEF BeginOpen, Idle, Inv, TypeOK, HubTyped, TaskTyped, BusyMeansInside, Inside
<1>5. InsideKnows'
  <2>1. \A g \in Forwarders : g # f => stage'[g] = stage[g] /\ stage[g] \notin Inside
    BY DEF BeginOpen, Idle, Inv, TypeOK, TaskTyped, BusyMeansInside
  <2>2. running' = None /\ capturing' = {} /\ stage'[f] = "opening"
    BY DEF BeginOpen, Idle, Inv, TypeOK, TaskTyped, IdleKnows
  <2> QED
    BY <2>1, <2>2 DEF InsideKnows
<1>6. IdleKnows'
  BY DEF BeginOpen, Idle, Inv, TypeOK, HubTyped, TaskTyped, BusyMeansInside, InsideKnows, IdleKnows, Inside
<1>7. SubscribedKnows'
  BY DEF BeginOpen, Idle, Inv, TypeOK, TaskTyped, BusyMeansInside, InsideKnows, SubscribedKnows, Inside
<1>8. CallKnows'
  BY DEF BeginOpen, Idle, Inv, TypeOK, TaskTyped, CallKnows
<1>9. CountIsExact'
  <2>1. Listeners' = Listeners
    BY DEF BeginOpen, Idle, Inv, TypeOK, TaskTyped, Listeners, SubscribedKnows, CallKnows
  <2> QED
    BY <2>1 DEF BeginOpen, Idle, Inv, CountIsExact
<1> QED
  BY <1>1, <1>2, <1>3, <1>4, <1>5, <1>6, <1>7, <1>8, <1>9 DEF Inv, TypeOK

\* Publish preserves Inv.
LEMMA PublishStep ==
  ASSUME Inv, NEW f \in Forwarders, Publish(f)
  PROVE  Inv'
<1> USE DEF None, hub, device, task, world, counts
<1>1. HubTyped'
  <2>1. running' \in Nat /\ capturing' \subseteq Nat
    BY DEF Publish, Inv, TypeOK, HubTyped, TaskTyped
  <2>2. refcount' \in Nat /\ busy' = FALSE /\ opened' \in Nat
    BY DEF Publish, Inv, TypeOK, HubTyped
  <2> QED
    BY <2>1, <2>2 DEF HubTyped
<1>2. TaskTyped'
  BY <1>1 DEF Publish, WakeAll, Inv, TypeOK, HubTyped, TaskTyped, Stages, Calls
<1>3. WorldTyped'
  BY BoundsAssumption DEF Publish, WakeAll, Inv, TypeOK, WorldTyped
<1>4. BusyMeansInside'
  BY DEF Publish, WakeAll, Inv, TypeOK, HubTyped, TaskTyped, BusyMeansInside, Inside
<1>5. InsideKnows'
  BY DEF Publish, WakeAll, Inv, TypeOK, HubTyped, TaskTyped, BusyMeansInside, InsideKnows, Inside
<1>6. IdleKnows'
  BY DEF Publish, WakeAll, Inv, TypeOK, HubTyped, TaskTyped, BusyMeansInside, InsideKnows, IdleKnows, Inside
<1>7. SubscribedKnows'
  BY DEF Publish, WakeAll, Inv, TypeOK, TaskTyped, BusyMeansInside, InsideKnows, SubscribedKnows, Inside
<1>8. CallKnows'
  BY DEF Publish, WakeAll, Inv, TypeOK, TaskTyped, CallKnows
<1>9. CountIsExact'
  <2>1. f \notin Listeners /\ f \in Listeners'
    BY DEF Publish, WakeAll, Inv, TypeOK, HubTyped, TaskTyped, Listeners, SubscribedKnows, CallKnows, InsideKnows, Inside
  <2>2. Listeners' \ {f} = Listeners \ {f}
    BY ListenersOfOthers DEF Publish, WakeAll, Inv, TypeOK, TaskTyped
  <2>3. refcount' = Cardinality(Listeners')
    BY <2>1, <2>2, OneMore DEF Publish, WakeAll, Inv, CountIsExact
  <2>4. running' # None /\ refcount' > 0
    BY DEF Publish, WakeAll, Inv, TypeOK, HubTyped, InsideKnows, Inside
  <2> QED
    BY <2>3, <2>4 DEF CountIsExact
<1> QED
  BY <1>1, <1>2, <1>3, <1>4, <1>5, <1>6, <1>7, <1>8, <1>9 DEF Inv, TypeOK

\* GiveUp preserves Inv.
LEMMA GiveUpStep ==
  ASSUME Inv, NEW f \in Forwarders, GiveUp(f)
  PROVE  Inv'
<1> USE DEF None, hub, device, task, world, counts
<1>1. HubTyped'
  BY DEF GiveUp, WakeAll, Inv, TypeOK, HubTyped, TaskTyped
<1>2. TaskTyped'
  BY <1>1 DEF GiveUp, WakeAll, Inv, TypeOK, HubTyped, TaskTyped, Stages, Calls
<1>3. WorldTyped'
  BY BoundsAssumption DEF GiveUp, WakeAll, Inv, TypeOK, WorldTyped
<1>4. BusyMeansInside'
  BY DEF GiveUp, WakeAll, Inv, TypeOK, HubTyped, TaskTyped, BusyMeansInside, Inside
<1>5. InsideKnows'
  BY DEF GiveUp, WakeAll, Inv, TypeOK, HubTyped, TaskTyped, BusyMeansInside, InsideKnows, Inside
<1>6. IdleKnows'
  BY DEF GiveUp, WakeAll, Inv, TypeOK, HubTyped, TaskTyped, BusyMeansInside, InsideKnows, IdleKnows, Inside
<1>7. SubscribedKnows'
  BY DEF GiveUp, WakeAll, Inv, TypeOK, TaskTyped, BusyMeansInside, InsideKnows, SubscribedKnows, Inside
<1>8. CallKnows'
  BY DEF GiveUp, WakeAll, Inv, TypeOK, TaskTyped, CallKnows
<1>9. CountIsExact'
  <2>1. Listeners' = Listeners
    BY DEF GiveUp, WakeAll, Inv, TypeOK, TaskTyped, Listeners, SubscribedKnows, CallKnows
  <2> QED
    BY <2>1 DEF GiveUp, WakeAll, Inv, CountIsExact
<1> QED
  BY <1>1, <1>2, <1>3, <1>4, <1>5, <1>6, <1>7, <1>8, <1>9 DEF Inv, TypeOK

\* Release preserves Inv.
LEMMA ReleaseStep ==
  ASSUME Inv, NEW f \in Forwarders, Release(f)
  PROVE  Inv'
<1> USE DEF None, hub, device, task, world, counts
<1>1. HubTyped'
  BY DEF Release, WakeAll, Returned, Inv, TypeOK, HubTyped, TaskTyped
<1>2. TaskTyped'
  BY <1>1 DEF Release, WakeAll, Returned, Inv, TypeOK, HubTyped, TaskTyped, Stages, Calls
<1>3. WorldTyped'
  BY BoundsAssumption DEF Release, WakeAll, Returned, Inv, TypeOK, WorldTyped
<1>4. BusyMeansInside'
  BY DEF Release, WakeAll, Returned, Inv, TypeOK, HubTyped, TaskTyped, BusyMeansInside, Inside
<1>5. InsideKnows'
  BY DEF Release, WakeAll, Returned, Inv, TypeOK, HubTyped, TaskTyped, BusyMeansInside, InsideKnows, Inside
<1>6. IdleKnows'
  BY DEF Release, WakeAll, Returned, Inv, TypeOK, HubTyped, TaskTyped, BusyMeansInside, InsideKnows, IdleKnows, Inside
<1>7. SubscribedKnows'
  BY DEF Release, WakeAll, Returned, Inv, TypeOK, TaskTyped, BusyMeansInside, InsideKnows, SubscribedKnows, Inside
<1>8. CallKnows'
  BY DEF Release, WakeAll, Returned, Inv, TypeOK, TaskTyped, CallKnows
<1>9. CountIsExact'
  <2>1. Listeners' = Listeners
    BY DEF Release, WakeAll, Returned, Inv, TypeOK, TaskTyped, Listeners, SubscribedKnows, CallKnows
  <2> QED
    BY <2>1 DEF Release, WakeAll, Returned, Inv, CountIsExact
<1> QED
  BY <1>1, <1>2, <1>3, <1>4, <1>5, <1>6, <1>7, <1>8, <1>9 DEF Inv, TypeOK

\* The one step with two outcomes: whether f was the last listener.
LEMMA UnsubscribeStep ==
  ASSUME Inv, NEW f \in Forwarders, Unsubscribe(f)
  PROVE  Inv'
<1> USE DEF None, hub, device, task, world, counts
<1> DEFINE lastOne == refcount = 1
<1>1. stage[f] = "entry" /\ ~busy /\ call[f] # "subscribe" /\ f \in Listeners
  BY DEF Unsubscribe, Idle, Listeners, Inv, TypeOK, TaskTyped
<1>2. UNCHANGED <<device, call, sub, world, counts>>
  BY DEF Unsubscribe
<1>3. stage' = [stage EXCEPT ![f] = stage'[f]] /\ stage'[f] \in {"loop", "gone", "closing"}
  BY DEF Unsubscribe, Returned, Inv, TypeOK, TaskTyped
<1>4. sub[f] = None
  BY <1>1 DEF Inv, SubscribedKnows
<1>5. f \notin Listeners'
  BY <1>2, <1>3, <1>4 DEF Listeners
<1>6. Listeners' \ {f} = Listeners \ {f}
  BY <1>2, <1>3, ListenersOfOthers DEF Inv, TypeOK, TaskTyped
<1>7. refcount > 0 /\ refcount - 1 = Cardinality(Listeners')
  BY <1>1, <1>5, <1>6, OneLess DEF Inv, CountIsExact
<1>8. running # None
  BY <1>7 DEF Inv, CountIsExact
<1>9. refcount \in Nat /\ running \in Nat
  BY DEF Inv, TypeOK, HubTyped
<1>10. refcount' = refcount - 1
  BY <1>7, <1>9 DEF Unsubscribe
<1>11. CASE lastOne
  <2>1. running' = None /\ busy' = TRUE /\ held' = [held EXCEPT ![f] = running]
        /\ stage' = [stage EXCEPT ![f] = "closing"]
    BY <1>7, <1>8, <1>9, <1>11 DEF Unsubscribe
  <2>2. capturing = {running}
    BY <1>1, <1>8 DEF Inv, IdleKnows
  <2>3. \A g \in Forwarders : stage[g] \notin Inside
    BY <1>1 DEF Inv, BusyMeansInside
  <2>4. \A g \in Forwarders : g # f => stage'[g] = stage[g] /\ held'[g] = held[g]
    BY <2>1 DEF Inv, TypeOK, TaskTyped
  <2>5. stage'[f] = "closing" /\ held'[f] = running
    BY <2>1 DEF Inv, TypeOK, TaskTyped
  <2>6. TypeOK'
    <3>1. HubTyped'
      BY <1>2, <1>7, <1>9, <1>10, <2>1 DEF Inv, TypeOK, HubTyped
    <3>2. TaskTyped'
      BY <1>2, <1>9, <2>1 DEF Inv, TypeOK, TaskTyped, Stages
    <3>3. WorldTyped'
      BY <1>2 DEF Inv, TypeOK, WorldTyped
    <3> QED
      BY <3>1, <3>2, <3>3 DEF TypeOK
  <2>7. BusyMeansInside'
    BY <2>1, <2>3, <2>4, <2>5 DEF BusyMeansInside, Inside
  <2>8. InsideKnows'
    BY <1>2, <2>1, <2>2, <2>3, <2>4, <2>5 DEF InsideKnows, Inside
  <2>9. IdleKnows'
    BY <2>1 DEF IdleKnows
  <2>10. SubscribedKnows'
    <3>1. \A g \in Forwarders : sub[g] = None
      <4>1. Listeners' = {}
        BY <1>7, <1>11, ListenersFinite, FS_EmptySet, FS_CardinalityType, FS_Subset, ForwardersAssumption DEF Listeners
      <4> QED
        BY <4>1, <1>2 DEF Listeners
    <3> QED
      BY <3>1, <1>2 DEF SubscribedKnows
  <2>11. CallKnows'
    BY <1>2, <2>4, <2>5 DEF Inv, CallKnows
  <2>12. CountIsExact'
    BY <1>7, <1>10, <1>11, <2>1 DEF CountIsExact
  <2> QED
    BY <2>6, <2>7, <2>8, <2>9, <2>10, <2>11, <2>12 DEF Inv
<1>12. CASE ~lastOne
  <2>1. UNCHANGED <<running, busy, held>>
    BY <1>7, <1>9, <1>12 DEF Unsubscribe
  <2>2. stage' = [stage EXCEPT ![f] = Returned(f)]
    BY <1>7, <1>9, <1>12 DEF Unsubscribe
  <2>3. \A g \in Forwarders : g # f => stage'[g] = stage[g]
    BY <2>2 DEF Inv, TypeOK, TaskTyped
  <2>4. stage'[f] \in {"loop", "gone"}
    BY <2>2 DEF Inv, TypeOK, TaskTyped, Returned
  <2>6. TypeOK'
    <3>1. HubTyped'
      BY <1>2, <1>7, <1>9, <1>10, <2>1 DEF Inv, TypeOK, HubTyped
    <3>2. TaskTyped'
      BY <1>2, <2>1, <2>2 DEF Inv, TypeOK, TaskTyped, Stages, Returned
    <3>3. WorldTyped'
      BY <1>2 DEF Inv, TypeOK, WorldTyped
    <3> QED
      BY <3>1, <3>2, <3>3 DEF TypeOK
  <2>7. BusyMeansInside'
    BY <1>1, <2>1, <2>3, <2>4 DEF Inv, BusyMeansInside, Inside
  <2>8. InsideKnows'
    BY <1>2, <2>1, <2>3, <2>4 DEF Inv, InsideKnows, Inside
  <2>9. IdleKnows'
    BY <1>2, <2>1 DEF Inv, IdleKnows
  <2>10. SubscribedKnows'
    BY <1>2, <1>4, <2>1, <2>3 DEF Inv, SubscribedKnows
  <2>11. CallKnows'
    BY <1>2, <2>3, <2>4 DEF Inv, CallKnows
  <2>12. CountIsExact'
    BY <1>7, <1>8, <1>9, <1>10, <1>12, <2>1 DEF CountIsExact
  <2> QED
    BY <2>6, <2>7, <2>8, <2>9, <2>10, <2>11, <2>12 DEF Inv
<1> QED
  BY <1>11, <1>12

\* Every step of every forwarder preserves Inv.
LEMMA NextInv == Inv /\ [Next]_vars => Inv'
<1> SUFFICES ASSUME Inv, [Next]_vars PROVE Inv'
  OBVIOUS
<1>1. CASE UNCHANGED vars
  <2>1. TypeOK'
    BY <1>1 DEF vars, hub, device, task, world, counts, Inv, TypeOK, HubTyped, TaskTyped, WorldTyped
  <2>2. BusyMeansInside' /\ InsideKnows' /\ IdleKnows' /\ SubscribedKnows' /\ CallKnows'
    BY <1>1 DEF vars, hub, device, task, Inv, BusyMeansInside, InsideKnows, IdleKnows,
       SubscribedKnows, CallKnows
  <2>3. CountIsExact'
    BY <1>1 DEF vars, hub, task, Inv, CountIsExact, Listeners
  <2> QED
    BY <2>1, <2>2, <2>3 DEF Inv
<1>2. ASSUME NEW f \in Forwarders, World(f) PROVE Inv'
  BY <1>2, ToggleStep, DieStep, WakeSpuriouslyStep DEF World
<1>3. ASSUME NEW f \in Forwarders, Device(f) PROVE Inv'
  BY <1>3, DeviceOpensStep, DeviceRefusesStep, DeviceClosesStep DEF Device
<1>4. ASSUME NEW f \in Forwarders, Task(f) PROVE Inv'
  BY <1>4, TurnOnStep, TurnOffStep, FinishStep, EndStep, ParkStep, SubscribeStep, BeginOpenStep,
     PublishStep, GiveUpStep, UnsubscribeStep, ReleaseStep DEF Task
<1> QED
  BY <1>1, <1>2, <1>3, <1>4 DEF Next

LEMMA AlwaysInv == Spec => []Inv
  BY InitInv, NextInv, PTL DEF Spec

\* In every state of every behaviour the variables have their types.
THEOREM HubTypes == Spec => []TypeOK
  BY AlwaysInv, PTL DEF Inv

\* A subscription is to the published capture, and that capture runs
\* (webrtc_session.rs:2043-2045 is never reached).
THEOREM SubscriptionsFed == Spec => []AlwaysFed
<1>1. Inv => AlwaysFed
  <2> SUFFICES ASSUME Inv, NEW f \in Forwarders, sub[f] # None
               PROVE  sub[f] = running /\ running \in capturing
    BY DEF AlwaysFed
  <2>1. sub[f] = running
    BY DEF Inv, SubscribedKnows
  <2>2. ~busy
    BY <2>1 DEF Inv, BusyMeansInside, InsideKnows
  <2> QED
    BY <2>1, <2>2 DEF Inv, IdleKnows
<1> QED
  BY <1>1, AlwaysInv, PTL

\* The reference count counts the subscriptions, and a capture is published
\* exactly while it is not zero.
THEOREM CountsSubscriptions == Spec => []CountIsExact
  BY AlwaysInv, PTL DEF Inv

\* No capture is lost between two critical sections.
THEOREM NoCaptureLeaks == Spec => []NothingLeaks
<1>1. Inv => NothingLeaks
  BY DEF Inv, IdleKnows, NothingLeaks
<1> QED
  BY <1>1, AlwaysInv, PTL

\* The host has at most one capture open or being opened.
THEOREM AtMostOneDevice == Spec => []OneDevice
<1>1. Inv => OneDevice
  <2> SUFFICES ASSUME Inv PROVE OneDevice
    OBVIOUS
  <2> DEFINE Opening == {f \in Forwarders : stage[f] = "opening"}
  <2>1. CASE busy
    <3>1. PICK f \in Forwarders : stage[f] \in Inside /\ \A g \in Forwarders : stage[g] \in Inside => g = f
      BY <2>1 DEF Inv, BusyMeansInside
    <3>2. CASE stage[f] = "opening"
      <4>1. Opening = {f} /\ capturing = {}
        BY <3>1, <3>2 DEF Inv, InsideKnows, Inside
      <4>2. Cardinality(Opening) = 1 /\ Cardinality(capturing) = 0
        BY <4>1, FS_EmptySet, FS_Singleton
      <4> QED
        BY <4>2 DEF OneDevice
    <3>3. CASE stage[f] # "opening"
      <4>1. Opening = {} /\ (capturing = {} \/ capturing = {held[f]})
        BY <3>1, <3>3 DEF Inv, InsideKnows, Inside
      <4>2. Cardinality(Opening) = 0 /\ Cardinality(capturing) \in {0, 1}
        BY <4>1, FS_EmptySet, FS_Singleton
      <4> QED
        BY <4>2 DEF OneDevice
    <3> QED
      BY <3>2, <3>3
  <2>2. CASE ~busy
    <3>1. Opening = {}
      BY <2>2 DEF Inv, BusyMeansInside, Inside
    <3>2. capturing = {} \/ capturing = {running}
      BY <2>2 DEF Inv, IdleKnows
    <3>3. Cardinality(Opening) = 0 /\ Cardinality(capturing) \in {0, 1}
      BY <3>1, <3>2, FS_EmptySet, FS_Singleton
    <3> QED
      BY <3>3 DEF OneDevice
  <2> QED
    BY <2>1, <2>2
<1> QED
  BY <1>1, AlwaysInv, PTL

-----------------------------------------------------------------------------
(* The hub implements AudioPromise.                                        *)

\* Nobody inside and nothing published: the device is off.
LEMMA IdleIsOff ==
  ASSUME Inv, ~busy, running = None
  PROVE  DeviceState = "off"
  BY DEF Inv, BusyMeansInside, Inside, DeviceState

\* A thread inside decides what the device is doing.
LEMMA InsideDecides ==
  ASSUME Inv, NEW f \in Forwarders, stage[f] \in Inside
  PROVE  DeviceState = IF stage[f] \in {"opening", "opened", "refused"} THEN "opening"
                                                                    ELSE "closing"
<1>1. running = None /\ \A g \in Forwarders : stage[g] \in Inside => g = f
  BY DEF Inv, BusyMeansInside, InsideKnows
<1> QED
  BY <1>1 DEF Inside, DeviceState

\* The steps that change neither who listens nor what the device is doing.
LEMMA Silent ==
  ASSUME Inv, NEW f \in Forwarders,
         \/ World(f) \/ Device(f) \/ Park(f)
         \/ TurnOn(f) \/ TurnOff(f) \/ Finish(f) \/ End(f)
  PROVE  Listeners' = Listeners /\ DeviceState' = DeviceState
<1> USE DEF None, hub, device, task, world, counts
<1>1. CASE Toggle(f) \/ Die(f)
  BY <1>1 DEF Toggle, Die, Listeners, DeviceState
<1>2. CASE WakeSpuriously(f)
  BY <1>2 DEF WakeSpuriously, Inv, TypeOK, TaskTyped, Listeners, DeviceState
<1>3. CASE DeviceOpens(f)
  BY <1>3 DEF DeviceOpens, Inv, TypeOK, TaskTyped, Listeners, DeviceState
<1>4. CASE DeviceRefuses(f)
  BY <1>4 DEF DeviceRefuses, Inv, TypeOK, TaskTyped, Listeners, DeviceState
<1>5. CASE DeviceCloses(f)
  BY <1>5 DEF DeviceCloses, Inv, TypeOK, TaskTyped, Listeners, DeviceState
<1>6. CASE TurnOn(f)
  BY <1>6 DEF TurnOn, Enter, Inv, TypeOK, TaskTyped, Listeners, DeviceState
<1>7. CASE TurnOff(f) \/ Finish(f)
  BY <1>7 DEF TurnOff, Finish, Enter, Inv, TypeOK, TaskTyped, Listeners, DeviceState
<1>8. CASE End(f) \/ Park(f)
  BY <1>8 DEF End, Park, Inv, TypeOK, TaskTyped, Listeners, DeviceState
<1> QED
  BY <1>1, <1>2, <1>3, <1>4, <1>5, <1>6, <1>7, <1>8 DEF World, Device

\* subscribe of a capture that runs.
LEMMA SubscribeJoins ==
  ASSUME Inv, Inv', NEW f \in Forwarders, Subscribe(f)
  PROVE  Promise!Join(f)
<1> USE DEF None, device, task, world, counts
<1>1. DeviceState = "on" /\ DeviceState' = "on"
  BY DEF Subscribe, DeviceState
<1>2. f \notin Listeners /\ f \in Listeners'
  BY DEF Subscribe, Idle, Inv, TypeOK, TaskTyped, Listeners, SubscribedKnows
<1>3. Listeners' \ {f} = Listeners \ {f}
  BY ListenersOfOthers DEF Subscribe, Inv, TypeOK, TaskTyped
<1>4. Listeners' = Listeners \cup {f}
  BY <1>2, <1>3
<1> QED
  BY <1>1, <1>2, <1>4 DEF Promise!Join

\* subscribe, after the device has opened.
LEMMA PublishJoins ==
  ASSUME Inv, Inv', NEW f \in Forwarders, Publish(f)
  PROVE  Promise!Join(f)
<1> USE DEF None, device, task, world, counts
<1>1. DeviceState = "opening"
  BY InsideDecides DEF Publish, Inside
<1>2. running = None /\ held[f] # None
  BY DEF Publish, Inv, InsideKnows, Inside
<1>3. DeviceState' = "on"
  BY <1>2 DEF Publish, DeviceState
<1>4. f \notin Listeners /\ f \in Listeners'
  BY <1>2 DEF Publish, Inv, TypeOK, TaskTyped, Listeners, SubscribedKnows
<1>5. Listeners' \ {f} = Listeners \ {f}
  BY ListenersOfOthers DEF Publish, WakeAll, Inv, TypeOK, TaskTyped
<1>6. Listeners' = Listeners \cup {f}
  BY <1>4, <1>5
<1> QED
  BY <1>1, <1>3, <1>4, <1>6 DEF Promise!Join

\* unsubscribe, up to the decision whether to stop the capture.
LEMMA UnsubscribeLeaves ==
  ASSUME Inv, Inv', NEW f \in Forwarders, Unsubscribe(f)
  PROVE  Promise!Leave(f)
<1> USE DEF None, hub, device, task, world, counts
<1>1. stage[f] = "entry" /\ call[f] # "subscribe" /\ f \in Listeners
  BY DEF Unsubscribe, Idle, Listeners, Inv, TypeOK, TaskTyped
<1>2. stage' = [stage EXCEPT ![f] = stage'[f]] /\ stage'[f] \in {"loop", "gone", "closing"}
  BY DEF Unsubscribe, Returned, Inv, TypeOK, TaskTyped
<1>3. f \notin Listeners'
  BY <1>1, <1>2 DEF Unsubscribe, Listeners, Inv, SubscribedKnows
<1>4. Listeners' \ {f} = Listeners \ {f}
  BY <1>2, ListenersOfOthers DEF Unsubscribe, Inv, TypeOK, TaskTyped
<1>5. Listeners' = Listeners \ {f}
  BY <1>3, <1>4
<1>6. refcount > 0 /\ refcount \in Nat /\ running # None
  BY <1>1, <1>3, <1>4, OneLess DEF Inv, CountIsExact, TypeOK, HubTyped
<1>7. DeviceState = "on"
  BY <1>6 DEF DeviceState
<1>8. refcount - 1 = Cardinality(Listeners')
  BY <1>1, <1>3, <1>4, OneLess DEF Inv, CountIsExact
<1>9. CASE refcount = 1
  <2>1. Listeners' = {}
    <3>1. IsFiniteSet(Listeners')
      BY <1>5, ListenersFinite, FS_Subset
    <3> QED
      BY <3>1, <1>8, <1>9, FS_EmptySet
  <2>2. stage' = [stage EXCEPT ![f] = "closing"]
    BY <1>6, <1>9 DEF Unsubscribe
  <2>3. stage'[f] = "closing"
    BY <2>2 DEF Inv, TypeOK, TaskTyped
  <2>4. DeviceState' = "closing"
    <3>1. running' = None
      BY <1>6, <1>9 DEF Unsubscribe
    <3>2. \A g \in Forwarders : stage'[g] \in Inside => g = f
      BY <2>3 DEF Inv, BusyMeansInside, Inside
    <3> QED
      BY <2>3, <3>1, <3>2 DEF DeviceState, Inside
  <2>5. Listeners = {f}
    BY <1>1, <1>5, <2>1
  <2> QED
    BY <1>1, <1>5, <1>7, <2>4, <2>5 DEF Promise!Leave
<1>10. CASE refcount # 1
  <2>1. Listeners # {f}
    BY <1>10, FS_Singleton DEF Inv, CountIsExact
  <2>2. running' = running
    BY <1>6, <1>10 DEF Unsubscribe
  <2>3. DeviceState' = "on"
    BY <1>6, <2>2 DEF DeviceState
  <2> QED
    BY <1>1, <1>5, <1>7, <2>1, <2>3 DEF Promise!Leave
<1> QED
  BY <1>9, <1>10

\* The steps that start and end the device calls.
LEMMA DeviceSteps ==
  ASSUME Inv, Inv', NEW f \in Forwarders, BeginOpen(f) \/ GiveUp(f) \/ Release(f)
  PROVE  Promise!Open \/ Promise!Refuse \/ Promise!Close
<1> USE DEF None, hub, device, task, world, counts
<1>1. CASE BeginOpen(f)
  <2>1. DeviceState = "off"
    BY <1>1, IdleIsOff DEF BeginOpen, Idle
  <2>2. stage'[f] = "opening" /\ running' = None
    BY <1>1 DEF BeginOpen, Inv, TypeOK, TaskTyped
  <2>3. DeviceState' = "opening"
    BY <2>2 DEF DeviceState
  <2>4. Listeners' = Listeners
    BY <1>1 DEF BeginOpen, Idle, Inv, TypeOK, TaskTyped, Listeners
  <2> QED
    BY <2>1, <2>3, <2>4 DEF Promise!Open
<1>2. CASE GiveUp(f)
  <2>1. DeviceState = "opening" /\ running = None
    BY <1>2, InsideDecides DEF GiveUp, Inside, Inv, InsideKnows
  <2>2. ~busy' /\ running' = None
    BY <1>2, <2>1 DEF GiveUp
  <2>3. \A g \in Forwarders : stage'[g] \notin Inside
    BY <2>2 DEF Inv, BusyMeansInside
  <2>4. DeviceState' = "off"
    BY <2>2, <2>3 DEF DeviceState, Inside
  <2>5. Listeners' = Listeners
    BY <1>2 DEF GiveUp, WakeAll, Inv, TypeOK, TaskTyped, Listeners
  <2> QED
    BY <2>1, <2>4, <2>5 DEF Promise!Refuse
<1>3. CASE Release(f)
  <2>1. DeviceState = "closing" /\ running = None
    BY <1>3, InsideDecides DEF Release, Inside, Inv, InsideKnows
  <2>2. ~busy' /\ running' = None
    BY <1>3, <2>1 DEF Release
  <2>3. \A g \in Forwarders : stage'[g] \notin Inside
    BY <2>2 DEF Inv, BusyMeansInside
  <2>4. DeviceState' = "off"
    BY <2>2, <2>3 DEF DeviceState, Inside
  <2>5. Listeners' = Listeners
    BY <1>3 DEF Release, WakeAll, Returned, Inv, TypeOK, TaskTyped, Listeners
  <2> QED
    BY <2>1, <2>4, <2>5 DEF Promise!Close
<1> QED
  BY <1>1, <1>2, <1>3

\* Every step of the hub and its forwarders is a step of the promise or silent.
LEMMA StepKeepsPromise == Inv /\ Inv' /\ [Next]_vars => [Promise!Next]_(Promise!vars)
<1> SUFFICES ASSUME Inv, Inv', [Next]_vars PROVE [Promise!Next]_(Promise!vars)
  OBVIOUS
<1>1. CASE UNCHANGED vars
  BY <1>1 DEF vars, hub, task, Promise!vars, Listeners, DeviceState
<1>2. ASSUME NEW f \in Forwarders,
             \/ World(f) \/ Device(f) \/ Park(f)
             \/ TurnOn(f) \/ TurnOff(f) \/ Finish(f) \/ End(f)
      PROVE  UNCHANGED Promise!vars
  BY <1>2, Silent DEF Promise!vars
<1>3. ASSUME NEW f \in Forwarders, Subscribe(f) \/ Publish(f) \/ Unsubscribe(f)
      PROVE  Promise!Next
  BY <1>3, SubscribeJoins, PublishJoins, UnsubscribeLeaves DEF Promise!Next
<1>4. ASSUME NEW f \in Forwarders, BeginOpen(f) \/ GiveUp(f) \/ Release(f)
      PROVE  Promise!Next
  BY <1>4, DeviceSteps DEF Promise!Next
<1> QED
  BY <1>1, <1>2, <1>3, <1>4 DEF Next, Task

\* The hub, its mutex, its busy flag and its condition variable implement the
\* promise: one device, opened for the first listener and closed after the last.
THEOREM HubKeepsPromise == Spec => KeepsPromise
<1>1. Init => Promise!Init
  BY DEF Init, Promise!Init, Listeners, DeviceState, None
<1> QED
  BY <1>1, AlwaysInv, StepKeepsPromise, PTL DEF Spec, KeepsPromise, Promise!Spec

-----------------------------------------------------------------------------
(* The hub among the other parts.                                          *)

\* The steps of the transports and of the other tasks are stutters of the hub.
LEMMA MediaIsHub == MediaSpec => Spec
<1>1. MediaInit => Init
  BY DEF MediaInit
<1>2. [MediaNext]_all => [Next]_vars
  BY DEF MediaNext, HubNext, TasksNext, JoinNext, all
<1>. QED BY <1>1, <1>2, PTL DEF MediaSpec, Spec

\* So the promise holds of MCMedia as it does of the hub (mod.rs:192-336).
THEOREM MediaKeepsPromise == MediaSpec => KeepsPromise
BY MediaIsHub, HubKeepsPromise, PTL

-----------------------------------------------------------------------------
(* The transports: the steps of their part are those of Transport.         *)

Peers == INSTANCE TransportProofs

\* Transport's actions are the same seen through either module.
LEMMA HostIsHost == \A a \in Attempts : Join!Host(a) => Peers!Host(a)
BY DEF Join!Host, Join!Refused, Join!NewConnection, Join!NegotiationFails,
         Join!Register, Join!Abandon, Join!Activate, Join!Arm, Join!StandDown,
         Join!Answer, Join!Ended, Join!Close, Join!Go, Join!StillCurrent,
         Join!Unregister, Join!GiveUp, Join!task, Join!pcs, Join!registry,
         Join!signals, Join!watch, Peers!Host, Peers!Refused, Peers!NewConnection,
         Peers!NegotiationFails, Peers!Register, Peers!Abandon, Peers!Activate,
         Peers!Arm, Peers!StandDown, Peers!Answer, Peers!Ended, Peers!Close,
         Peers!Go, Peers!StillCurrent, Peers!Unregister, Peers!GiveUp, Peers!task,
         Peers!pcs, Peers!registry, Peers!signals, Peers!watch

LEMMA PeerIsPeer == \A a \in Attempts : Join!Peer(a) => Peers!Peer(a)
BY DEF Join!Peer, Join!Offer, Join!Connect, Join!Disconnect, Join!Fail,
         Join!Leave, Join!Go, Join!StillCurrent, Join!Final, Join!Enter,
         Join!Registered, Join!task, Join!pcs, Join!registry, Join!signals,
         Join!watch, Peers!Peer, Peers!Offer, Peers!Connect, Peers!Disconnect,
         Peers!Fail, Peers!Leave, Peers!Go, Peers!StillCurrent, Peers!Final,
         Peers!Enter, Peers!Registered, Peers!task, Peers!pcs, Peers!registry,
         Peers!signals, Peers!watch

LEMMA NextIsNext == Join!Next => Peers!Next
<1>1. \A a \in Attempts : /\ Join!GraceEnds(a) => Peers!GraceEnds(a)
                          /\ Join!CloseReplaced(a) => Peers!CloseReplaced(a)
  BY DEF Join!GraceEnds, Join!CloseReplaced, Join!SeenAtStart, Join!Final,
         Join!Enter, Join!task, Join!pcs, Join!registry, Join!signals, Join!watch,
         Peers!GraceEnds, Peers!CloseReplaced, Peers!SeenAtStart, Peers!Final,
         Peers!Enter, Peers!task, Peers!pcs, Peers!registry, Peers!signals,
         Peers!watch
<1>2. Join!Forget => Peers!Forget
  BY DEF Join!Forget, Join!task, Join!pcs, Join!registry, Join!signals, Join!watch,
         Peers!Forget, Peers!task, Peers!pcs, Peers!registry, Peers!signals,
         Peers!watch
<1>. QED BY HostIsHost, PeerIsPeer, <1>1, <1>2 DEF Join!Next, Peers!Next

LEMMA JoinIsTransport == MediaSpec => Peers!Spec
<1>1. Join!Init => Peers!Init
  BY DEF Join!Init, Peers!Init
<1>3. [MediaNext]_all => [Peers!Next]_(Peers!vars)
  BY NextIsNext
     DEF MediaNext, HubNext, TasksNext, JoinNext, all, ofJoin, Peers!vars, Peers!task, Peers!pcs,
         Peers!registry, Peers!signals, Peers!watch
<1>4. MediaInit => Peers!Init
  BY <1>1 DEF MediaInit
<1>. QED BY <1>3, <1>4, PTL DEF MediaSpec, Peers!Spec

LEMMA FiniteOffers == Peers!IsFiniteSet(Attempts) /\ None \notin Attempts
BY MediaAssumption DEF IsFiniteSet, Peers!IsFiniteSet

\* In whatever order the offers of a join register and are torn down, the registry names
\* the last to register for as long as that one has not been taken back
\* (webrtc_session.rs:2985-3026).
THEOREM JoinRegistryTrue == MediaSpec => []RegistryTrue
<1>1. Peers!Spec => []Peers!RegistryTrue
  BY FiniteOffers, Peers!RegistryIsTrue
<1>2. Peers!RegistryTrue => RegistryTrue
  BY DEF RegistryTrue, Join!RegistryTrue, Peers!RegistryTrue, Join!Registered, Peers!Registered
<1>. QED BY <1>1, <1>2, JoinIsTransport, PTL

\* And no connection that comes up closes the transport of the current attempt
\* (webrtc_session.rs:1657-1672, server.rs:2316-2326 and 2360-2365).
THEOREM JoinSparesCurrent == MediaSpec => []OnlyReplacedClosed
<1>1. Peers!Spec => []Peers!OnlyReplacedClosed
  BY FiniteOffers, Peers!CurrentIsSpared
<1>2. Peers!OnlyReplacedClosed => OnlyReplacedClosed
  BY DEF OnlyReplacedClosed, Join!OnlyReplacedClosed, Peers!OnlyReplacedClosed
<1>. QED BY <1>1, <1>2, JoinIsTransport, PTL

=============================================================================
