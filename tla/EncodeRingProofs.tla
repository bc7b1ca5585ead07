-------------------------- MODULE EncodeRingProofs --------------------------
(***************************************************************************)
(* The slots of EncodeRing and the bitrate asked of it, for any number of  *)
(* slots, bitrates and faults: no slot is ever in two places or in none,   *)
(* its keyed mutex is where its next user expects it, and the last bitrate *)
(* asked for is not lost.                                                  *)
(***************************************************************************)
EXTENDS EncodeRing, FiniteSetTheorems, TLAPS

-----------------------------------------------------------------------------
(* Types.  A tick, and what follows it, is about a slot that is held, a    *)
(* target is taken only if there is one, and a message only when begun.    *)

TickHolds == at = "tick" => held # None

TakenIsOne == at = "applying" => pending # 0

Begun == written => staging # None

TInv == TypeOK /\ TickHolds /\ TakenIsOne /\ Begun

\* The parts of TInv, by what moves them.
PoolTyped   == /\ free \in Seq(Slots) /\ ready \in Seq(Messages) /\ poisoned \subseteq Slots
               /\ mutex \in [Slots -> {"writer", "encoder", "capturing", "encoding"}]
StageTyped  == /\ engine \in {"nvenc", "amf"} /\ staging \in Messages \cup {None}
               /\ written \in BOOLEAN /\ first \in BOOLEAN /\ stop \in BOOLEAN
               /\ idr \in BOOLEAN /\ Begun
ThreadTyped == /\ at \in {"top", "select", "tick", "claim", "rate", "applying", "submit",
                          "encoding", "ended"}
               /\ msg \in Messages \cup {None} /\ held \in Slots \cup {None}
               /\ own \in BOOLEAN /\ forced \in BOOLEAN
               /\ at \in {"claim", "rate", "applying", "submit", "encoding"} => Input \in Slots
               /\ at \in {"top", "select", "tick", "claim", "ended"} => msg = None
               /\ TickHolds
RateTyped   == /\ target \in Targets \cup {0} /\ pending \in Targets \cup {0}
               /\ current \in Targets /\ newest \in Targets
               /\ TakenIsOne
PastTyped   == asked \in {"none", "owed", "trying", "lost"} /\ faults \in Nat

AllParts == PoolTyped /\ StageTyped /\ ThreadTyped /\ RateTyped /\ PastTyped

LEMMA Parts == (TInv <=> AllParts) /\ (TInv' <=> AllParts')
  BY DEF AllParts, TInv, TypeOK, PoolTyped, StageTyped, ThreadTyped, RateTyped, PastTyped

\* What a message is made of, and that None is neither a message nor a slot.
LEMMA MessageFields ==
  /\ \A m \in Messages : m.slot \in Slots /\ m.force_idr \in BOOLEAN /\ m # None
  /\ \A s \in Slots, b \in BOOLEAN : Message(s, b) \in Messages
  /\ \A s \in Slots : s # None
  /\ \A s \in Slots, b \in BOOLEAN : Message(s, b).slot = s
  BY RingAssumption DEF Messages, Message

\* SetToSeq lists a finite set.
LEMMA SlotsListed ==
  /\ SetToSeq(Slots) \in Seq(Slots) /\ IsInjective(SetToSeq(Slots))
  /\ \A s \in Slots : \E i \in DOMAIN SetToSeq(Slots) : SetToSeq(Slots)[i] = s
  <1>. DEFINE n == Cardinality(Slots)
  <1>1. n \in Nat /\ ExistsBijection(1..n, Slots)
    BY RingAssumption, FS_CardinalityType
  <1>2. \E f \in [1..n -> Slots] : IsInjective(f)
    BY <1>1 DEF ExistsBijection, Bijection, Injection
  <1>3. SetToSeq(Slots) \in [1..n -> Slots] /\ IsInjective(SetToSeq(Slots))
    BY <1>2 DEF SetToSeq
  <1>4. SetToSeq(Slots) \in Injection(1..n, Slots)
    BY <1>3 DEF Injection
  <1>5. IsFiniteSet(1..n) /\ Cardinality(1..n) = n
    BY <1>1, FS_Interval
  <1>6. SetToSeq(Slots) \in Surjection(1..n, Slots)
    BY <1>4, <1>5, RingAssumption, FS_Injection
  <1>7. \A s \in Slots : \E i \in 1..n : SetToSeq(Slots)[i] = s
    BY <1>6 DEF Surjection
  <1>8. DOMAIN SetToSeq(Slots) = 1..n
    BY <1>3
  <1>9. SetToSeq(Slots) \in Seq(Slots)
    BY <1>1, <1>3
  <1>. QED
    BY <1>3, <1>7, <1>8, <1>9

\* What a list is without its first entries, and with one more.
LEMMA Shorter ==
  ASSUME NEW T, NEW q \in Seq(T), NEW n \in 1..Len(q)
  PROVE  /\ q[n] \in T /\ SubSeq(q, n + 1, Len(q)) \in Seq(T)
         /\ Len(SubSeq(q, n + 1, Len(q))) = Len(q) - n
         /\ \A i \in 1..(Len(q) - n) : SubSeq(q, n + 1, Len(q))[i] = q[n + i]
  OBVIOUS

LEMMA Longer ==
  ASSUME NEW T, NEW q \in Seq(T), NEW e \in T
  PROVE  /\ Append(q, e) \in Seq(T) /\ Len(Append(q, e)) = Len(q) + 1
         /\ \A i \in 1..Len(q) : Append(q, e)[i] = q[i]
         /\ Append(q, e)[Len(q) + 1] = e
  OBVIOUS

\* The capture callback takes the first slot that is not quarantined, and has its mutex or
\* quarantines it too.
LEMMA Taken ==
  ASSUME AllParts, TakeFreeSlot
  PROVE  \E n \in 1..Len(free) :
           /\ free[n] \in Slots \ poisoned /\ \A i \in 1..(n - 1) : free[i] \in poisoned
           /\ free' = SubSeq(free, n + 1, Len(free)) /\ free' \in Seq(Slots)
           /\ \/ /\ Acquire(free[n], "writer", "capturing")
                 /\ staging' = Message(free[n], FALSE) /\ poisoned' = poisoned
              \/ /\ AcquireFails(free[n], "writer")
                 /\ staging' = staging /\ poisoned' = poisoned \cup {free[n]}
  <1>1. free \in Seq(Slots)
    BY DEF AllParts, PoolTyped
  <1>2. PICK n \in 1..Len(free) :
           /\ free[n] \notin poisoned /\ \A i \in 1..(n - 1) : free[i] \in poisoned
           /\ free' = SubSeq(free, n + 1, Len(free))
           /\ \/ /\ Acquire(free[n], "writer", "capturing")
                 /\ staging' = Message(free[n], FALSE) /\ poisoned' = poisoned
              \/ /\ AcquireFails(free[n], "writer")
                 /\ staging' = staging /\ poisoned' = poisoned \cup {free[n]}
    BY DEF TakeFreeSlot
  <1>. QED
    BY <1>1, <1>2, Shorter

\* The message that was written keeps its slot.
LEMMA WrittenMessage ==
  ASSUME AllParts, Written
  PROVE  /\ staging \in Messages /\ staging' \in Messages
         /\ staging' # None /\ staging'.slot = staging.slot
  <1>1. staging \in Messages /\ (first \/ idr) \in BOOLEAN
    BY DEF Written, AllParts, StageTyped
  <1>2. staging' = [staging EXCEPT !.force_idr = first \/ idr]
    BY DEF Written
  <1>3. staging' \in Messages /\ staging'.slot = staging.slot
    BY <1>1, <1>2 DEF Messages
  <1>. QED
    BY <1>1, <1>3, MessageFields

LEMMA InitTyped == Init => TInv
  <1>. SUFFICES ASSUME Init PROVE TInv
    OBVIOUS
  <1>1. PoolTyped
    BY SlotsListed DEF Init, PoolTyped
  <1>2. StageTyped /\ ThreadTyped /\ PastTyped
    BY DEF Init, StageTyped, ThreadTyped, PastTyped, TickHolds, Begun
  <1>3. RateTyped
    BY RingAssumption DEF Init, RateTyped, TakenIsOne
  <1>. QED
    BY <1>1, <1>2, <1>3, Parts DEF AllParts

\* The pool: what the lists and the mutexes hold.
LEMMA PoolStep == ASSUME AllParts, [Next]_vars PROVE PoolTyped'
  <1>1. CASE TakeFreeSlot
    <2>1. PICK n \in 1..Len(free) :
            /\ free[n] \in Slots \ poisoned /\ free' \in Seq(Slots)
            /\ \/ /\ Acquire(free[n], "writer", "capturing")
                  /\ staging' = Message(free[n], FALSE) /\ poisoned' = poisoned
               \/ /\ AcquireFails(free[n], "writer")
                  /\ staging' = staging /\ poisoned' = poisoned \cup {free[n]}
      BY <1>1, Taken
    <2>2. UNCHANGED <<engine, ready, written, first, stop, idr, asked>>
      BY <1>1 DEF TakeFreeSlot
    <2>. QED
      BY <2>1, <2>2, MessageFields DEF Acquire, AcquireFails, Fault, AllParts, PoolTyped
  <1>2. CASE Written
    BY <1>2, MessageFields DEF Written, Release, AllParts, PoolTyped, StageTyped, ThreadTyped,
      capture, encoder
  <1>3. CASE WrittenNotReleased
    BY <1>3, MessageFields DEF WrittenNotReleased, ReleaseFails, AllParts, PoolTyped,
      StageTyped, ThreadTyped, capture, encoder
  <1>4. CASE SendReady
    <2>1. staging \in Messages /\ free \in Seq(Slots) /\ ready \in Seq(Messages)
      BY <1>4 DEF SendReady, AllParts, PoolTyped, StageTyped
    <2>2. Append(free, staging.slot) \in Seq(Slots) /\ Append(ready, staging) \in Seq(Messages)
      BY <2>1, MessageFields, Longer
    <2>. QED
      BY <1>4, <2>2 DEF SendReady, AllParts, PoolTyped
  <1>5. CASE TakeFrame
    BY <1>5, MessageFields DEF TakeFrame, AllParts, PoolTyped, StageTyped, ThreadTyped, capture,
      encoder
  <1>6. CASE TickEmits
    BY <1>6, MessageFields DEF TickEmits, AllParts, PoolTyped, StageTyped, ThreadTyped, capture,
      encoder, TickHolds
  <1>7. CASE Submit
    BY <1>7, MessageFields DEF Submit, Acquire, AllParts, PoolTyped, StageTyped, ThreadTyped,
      capture, encoder
  <1>8. CASE RepeatFails
    BY <1>8, MessageFields DEF RepeatFails, AcquireFails, AllParts, PoolTyped, StageTyped,
      ThreadTyped, capture, encoder
  <1>9. CASE SlotPoisoned
    BY <1>9, MessageFields DEF SlotPoisoned, AcquireFails, AllParts, PoolTyped, StageTyped,
      ThreadTyped, capture, encoder
  <1>10. CASE Encoded
    <2>1. free' \in Seq(Slots)
      <3>1. held # None => Append(free, held) \in Seq(Slots)
        BY Longer DEF AllParts, PoolTyped, ThreadTyped
      <3>. QED
        BY <1>10, <3>1 DEF Encoded, AllParts, PoolTyped
    <2>2. mutex' \in [Slots -> {"writer", "encoder", "capturing", "encoding"}]
      BY <1>10 DEF Encoded, Release, ReleaseFails, AllParts, PoolTyped
    <2>. QED
      BY <1>10, <2>1, <2>2 DEF Encoded, AllParts, PoolTyped
  <1>11. CASE RequestIdr \/ SetTarget \/ Stop \/ Look \/ Tick \/ TickQuiet \/ Claim \/
    TakeTarget \/ ApplyTarget \/ UNCHANGED vars
    <2>1. UNCHANGED <<free, ready, poisoned, mutex>>
      BY <1>11 DEF RequestIdr, SetTarget, Stop, Look, Tick, TickQuiet, Claim, TakeTarget,
        ApplyTarget, vars, capture, encoder, rate
    <2>. QED
      BY <2>1 DEF AllParts, PoolTyped, Input, TickHolds, Begun
  <1>. QED
    BY <1>1, <1>2, <1>3, <1>4, <1>5, <1>6, <1>7, <1>8, <1>9, <1>10, <1>11 DEF Next, Stage,
      EncodeThread

\* The capture callback.
LEMMA StageStep == ASSUME AllParts, [Next]_vars PROVE StageTyped'
  <1>1. CASE RequestIdr
    BY <1>1, MessageFields DEF RequestIdr, AllParts, StageTyped, Begun, capture, encoder
  <1>2. CASE TakeFreeSlot
    <2>1. PICK n \in 1..Len(free) :
            /\ free[n] \in Slots \ poisoned /\ free' \in Seq(Slots)
            /\ \/ /\ Acquire(free[n], "writer", "capturing")
                  /\ staging' = Message(free[n], FALSE) /\ poisoned' = poisoned
               \/ /\ AcquireFails(free[n], "writer")
                  /\ staging' = staging /\ poisoned' = poisoned \cup {free[n]}
      BY <1>2, Taken
    <2>2. UNCHANGED <<engine, ready, written, first, stop, idr, asked>>
      BY <1>2 DEF TakeFreeSlot
    <2>. QED
      BY <2>1, <2>2, MessageFields DEF Acquire, AcquireFails, Fault, AllParts, StageTyped, Begun
  <1>3. CASE Written
    BY <1>3, WrittenMessage DEF Written, AllParts, StageTyped, Begun, capture, encoder
  <1>4. CASE WrittenNotReleased
    BY <1>4, MessageFields DEF WrittenNotReleased, AllParts, StageTyped, Begun, capture, encoder
  <1>5. CASE SendReady
    BY <1>5, MessageFields DEF SendReady, AllParts, StageTyped, Begun, capture, encoder
  <1>6. CASE Stop
    BY <1>6, MessageFields DEF Stop, AllParts, StageTyped, Begun, capture, encoder
  <1>7. CASE Claim
    BY <1>7, MessageFields DEF Claim, AllParts, StageTyped, Begun, capture, encoder
  <1>8. CASE Submit
    BY <1>8, MessageFields DEF Submit, AllParts, StageTyped, Begun, capture, encoder
  <1>9. CASE SetTarget \/ Look \/ TakeFrame \/ Tick \/ TickQuiet \/ TickEmits \/ TakeTarget \/
    ApplyTarget \/ RepeatFails \/ SlotPoisoned \/ Encoded \/ UNCHANGED vars
    <2>1. UNCHANGED <<engine, staging, written, first, stop, idr>>
      BY <1>9 DEF SetTarget, Look, TakeFrame, Tick, TickQuiet, TickEmits, TakeTarget,
        ApplyTarget, RepeatFails, SlotPoisoned, Encoded, vars, capture, encoder, rate
    <2>. QED
      BY <2>1 DEF AllParts, StageTyped, Input, TickHolds, Begun
  <1>. QED
    BY <1>1, <1>2, <1>3, <1>4, <1>5, <1>6, <1>7, <1>8, <1>9 DEF Next, Stage, EncodeThread

\* The encode thread.
LEMMA ThreadStep == ASSUME AllParts, [Next]_vars PROVE ThreadTyped'
  <1>1. CASE Look
    BY <1>1, MessageFields DEF Look, AllParts, TickHolds, Input, PoolTyped, StageTyped,
      ThreadTyped, capture, encoder
  <1>2. CASE TakeFrame
    BY <1>2, MessageFields DEF TakeFrame, AllParts, TickHolds, Input, PoolTyped, StageTyped,
      ThreadTyped, capture, encoder
  <1>3. CASE Tick
    BY <1>3, MessageFields DEF Tick, AllParts, TickHolds, Input, PoolTyped, StageTyped,
      ThreadTyped, capture, encoder
  <1>4. CASE TickQuiet
    BY <1>4, MessageFields DEF TickQuiet, AllParts, TickHolds, Input, PoolTyped, StageTyped,
      ThreadTyped, capture, encoder
  <1>5. CASE TickEmits
    BY <1>5, MessageFields DEF TickEmits, AllParts, TickHolds, Input, PoolTyped, StageTyped,
      ThreadTyped, capture, encoder
  <1>6. CASE Claim
    BY <1>6, MessageFields DEF Claim, AllParts, TickHolds, Input, PoolTyped, StageTyped,
      ThreadTyped, capture, encoder
  <1>7. CASE TakeTarget
    BY <1>7, MessageFields DEF TakeTarget, AllParts, TickHolds, Input, PoolTyped, StageTyped,
      ThreadTyped, capture, encoder
  <1>8. CASE ApplyTarget
    BY <1>8, MessageFields DEF ApplyTarget, AllParts, TickHolds, Input, PoolTyped, StageTyped,
      ThreadTyped, capture, encoder
  <1>9. CASE Submit
    BY <1>9, MessageFields DEF Submit, AllParts, TickHolds, Input, PoolTyped, StageTyped,
      ThreadTyped, capture, encoder
  <1>10. CASE RepeatFails
    BY <1>10, MessageFields DEF RepeatFails, AllParts, TickHolds, Input, PoolTyped, StageTyped,
      ThreadTyped, capture, encoder
  <1>11. CASE SlotPoisoned
    BY <1>11, MessageFields DEF SlotPoisoned, AllParts, TickHolds, Input, PoolTyped, StageTyped,
      ThreadTyped, capture, encoder
  <1>12. CASE Encoded
    BY <1>12, MessageFields DEF Encoded, AllParts, TickHolds, Input, PoolTyped, StageTyped,
      ThreadTyped, capture, encoder
  <1>13. CASE RequestIdr \/ SetTarget \/ TakeFreeSlot \/ Written \/ WrittenNotReleased \/
    SendReady \/ Stop \/ UNCHANGED vars
    <2>1. UNCHANGED <<at, msg, held, own, forced>>
      BY <1>13 DEF RequestIdr, SetTarget, TakeFreeSlot, Written, WrittenNotReleased, SendReady,
        Stop, vars, capture, encoder, rate
    <2>. QED
      BY <2>1 DEF AllParts, ThreadTyped, Input, TickHolds, Begun
  <1>. QED
    BY <1>1, <1>2, <1>3, <1>4, <1>5, <1>6, <1>7, <1>8, <1>9, <1>10, <1>11, <1>12, <1>13 DEF
      Next, Stage, EncodeThread

\* The bitrate.
LEMMA RateStep == ASSUME AllParts, [Next]_vars PROVE RateTyped'
  <1>1. CASE SetTarget
    BY <1>1, MessageFields DEF SetTarget, rate, AllParts, RateTyped, TakenIsOne
  <1>2. CASE TakeTarget
    BY <1>2, MessageFields DEF TakeTarget, AllParts, RateTyped, TakenIsOne
  <1>3. CASE ApplyTarget
    BY <1>3, MessageFields DEF ApplyTarget, Restore, AllParts, RateTyped, TakenIsOne
  <1>4. CASE RequestIdr \/ TakeFreeSlot \/ Written \/ WrittenNotReleased \/ SendReady \/ Stop \/
    Look \/ TakeFrame \/ Tick \/ TickQuiet \/ TickEmits \/ Claim \/ Submit \/ RepeatFails \/
    SlotPoisoned \/ Encoded \/ UNCHANGED vars
    <2>1. /\ UNCHANGED <<target, pending, current, newest>>
          /\ at' = "applying" <=> at = "applying"
      BY <1>4 DEF RequestIdr, TakeFreeSlot, Written, WrittenNotReleased, SendReady, Stop, Look,
        TakeFrame, Tick, TickQuiet, TickEmits, Claim, Submit, RepeatFails, SlotPoisoned,
        Encoded, vars, capture, encoder, rate
    <2>. QED
      BY <2>1 DEF AllParts, RateTyped, TakenIsOne, Begun
  <1>. QED
    BY <1>1, <1>2, <1>3, <1>4 DEF Next, Stage, EncodeThread

\* The histories.
LEMMA PastStep == ASSUME AllParts, [Next]_vars PROVE PastTyped'
  <1>1. CASE RequestIdr
    BY <1>1, MessageFields DEF RequestIdr, AllParts, PastTyped
  <1>2. CASE TakeFreeSlot
    <2>1. asked' = asked /\ (faults' = faults \/ faults' = faults + 1)
      BY <1>2, Taken DEF Acquire, AcquireFails, Fault, TakeFreeSlot
    <2>. QED
      BY <2>1 DEF AllParts, PastTyped
  <1>3. CASE Written
    BY <1>3, MessageFields DEF Written, Release, AllParts, PastTyped
  <1>4. CASE WrittenNotReleased
    BY <1>4, MessageFields DEF WrittenNotReleased, ReleaseFails, Fault, AllParts, PastTyped
  <1>5. CASE TakeFrame
    BY <1>5, MessageFields DEF TakeFrame, Dropped, AllParts, PastTyped
  <1>6. CASE TickEmits
    BY <1>6, MessageFields DEF TickEmits, Fault, AllParts, PastTyped
  <1>7. CASE Submit
    BY <1>7, MessageFields DEF Submit, Acquire, AllParts, PastTyped
  <1>8. CASE RepeatFails
    BY <1>8, MessageFields DEF RepeatFails, AcquireFails, Fault, AllParts, PastTyped
  <1>9. CASE SlotPoisoned
    BY <1>9, MessageFields DEF SlotPoisoned, AcquireFails, Fault, Dropped, AllParts, PastTyped
  <1>10. CASE Encoded
    BY <1>10, MessageFields DEF Encoded, Release, ReleaseFails, Fault, Dropped, AllParts,
      PastTyped
  <1>11. CASE SetTarget \/ SendReady \/ Stop \/ Look \/ Tick \/ TickQuiet \/ Claim \/ TakeTarget
    \/ ApplyTarget \/ UNCHANGED vars
    <2>1. UNCHANGED <<asked, faults>>
      BY <1>11 DEF SetTarget, SendReady, Stop, Look, Tick, TickQuiet, Claim, TakeTarget,
        ApplyTarget, vars, capture, encoder, rate
    <2>. QED
      BY <2>1 DEF AllParts, PastTyped, Input, TickHolds, Begun
  <1>. QED
    BY <1>1, <1>2, <1>3, <1>4, <1>5, <1>6, <1>7, <1>8, <1>9, <1>10, <1>11 DEF Next, Stage,
      EncodeThread

LEMMA TypesStep == TInv /\ [Next]_vars => TInv'
  BY PoolStep, StageStep, ThreadStep, RateStep, PastStep, Parts DEF AllParts

\* Every reachable state is well typed, for any number of slots, bitrates and faults; and
\* the loop of the encode thread never ticks without a slot to repeat.
THEOREM TypeCorrect == Spec => []TypeOK
  <1>1. TInv /\ [Next]_vars => TInv'
    BY TypesStep
  <1>2. TInv => TypeOK
    BY DEF TInv
  <1>. QED
    BY InitTyped, <1>1, <1>2, PTL DEF Spec

-----------------------------------------------------------------------------
(* The bitrate: the last one asked for is what the thread will find next.  *)

\* A target that is stored is newer than the one taken from there, which is newer than
\* the encoder's.
NewestFirst ==
  /\ newest = IF target # 0 THEN target ELSE IF pending # 0 THEN pending ELSE current
  /\ at # "applying" => pending = 0

LEMMA NewestStep == ASSUME TInv, NewestFirst, [Next]_vars PROVE NewestFirst'
  <1>. USE Parts, RingAssumption DEF AllParts, NewestFirst, RateTyped, TakenIsOne
  <1>1. CASE SetTarget
    BY <1>1 DEF SetTarget
  <1>2. CASE TakeTarget
    BY <1>2 DEF TakeTarget
  <1>3. CASE ApplyTarget
    BY <1>3 DEF ApplyTarget, Restore
  <1>4. CASE RequestIdr \/ TakeFreeSlot \/ Written \/ WrittenNotReleased \/ SendReady \/ Stop \/
    Look \/ TakeFrame \/ Tick \/ TickQuiet \/ TickEmits \/ Claim \/ Submit \/ RepeatFails \/
    SlotPoisoned \/ Encoded \/ UNCHANGED vars
    <2>1. /\ UNCHANGED <<target, pending, current, newest>>
          /\ at' = "applying" <=> at = "applying"
      BY <1>4 DEF RequestIdr, TakeFreeSlot, Written, WrittenNotReleased, SendReady, Stop, Look,
        TakeFrame, Tick, TickQuiet, TickEmits, Claim, Submit, RepeatFails, SlotPoisoned,
        Encoded, vars, capture, encoder, rate
    <2>. QED
      BY <2>1
  <1>. QED
    BY <1>1, <1>2, <1>3, <1>4 DEF Next, Stage, EncodeThread

\* Neither a refusal by the encoder nor a newer target at any moment of the thread's work
\* loses the last bitrate asked for (NewestKept).
THEOREM NewestIsKept == Spec => []NewestKept
  <1>1. Init => NewestFirst
    BY DEF Init, NewestFirst
  <1>2. TInv /\ [Next]_vars => TInv'
    BY TypesStep
  <1>3. TInv /\ NewestFirst /\ [Next]_vars => NewestFirst'
    BY NewestStep
  <1>4. NewestFirst => NewestKept
    BY DEF NewestFirst, NewestKept
  <1>. QED
    BY InitTyped, <1>1, <1>2, <1>3, <1>4, PTL DEF Spec

-----------------------------------------------------------------------------
(* The slots: each is in one place, and its keyed mutex fits the place.    *)

SlotsOf(q) == [i \in 1..Len(q) |-> q[i].slot]
Listed(q, s) == \E i \in 1..Len(q) : q[i] = s
Distinct(q) == \A i, j \in 1..Len(q) : q[i] = q[j] => i = j

Staged(s) == staging # None /\ staging.slot = s
Worked(s) == msg # None /\ msg.slot = s

ExactlyOne(a, b, c, d, e, f) ==
  /\ a \/ b \/ c \/ d \/ e \/ f
  /\ ~(a /\ b) /\ ~(a /\ c) /\ ~(a /\ d) /\ ~(a /\ e) /\ ~(a /\ f)
  /\ ~(b /\ c) /\ ~(b /\ d) /\ ~(b /\ e) /\ ~(b /\ f)
  /\ ~(c /\ d) /\ ~(c /\ e) /\ ~(c /\ f)
  /\ ~(d /\ e) /\ ~(d /\ f) /\ ~(e /\ f)

Somewhere(s) ==
  ExactlyOne(Listed(free, s), Listed(SlotsOf(ready), s), s \in poisoned,
             Staged(s), Worked(s), held = s)

Fitting(s) ==
  mutex[s] \in IF Staged(s) THEN IF written THEN {"encoder"} ELSE {"capturing"}
               ELSE IF Listed(SlotsOf(ready), s) THEN {"encoder"}
               ELSE IF Worked(s) THEN IF at = "encoding" THEN {"encoding"} ELSE {"encoder"}
               ELSE {"writer", "encoding"}

Custody ==
  /\ Distinct(free) /\ Distinct(SlotsOf(ready))
  /\ \A s \in Slots : Somewhere(s)

Keys == engine = "nvenc" /\ at # "ended" => \A s \in Slots \ poisoned : Fitting(s)

\* Which slots a list has without its head, and with one more.
LEMMA WithoutHead ==
  ASSUME NEW T, NEW q \in Seq(T), q # <<>>, Distinct(q)
  PROVE  /\ Distinct(Tail(q)) /\ Listed(q, Head(q))
         /\ \A s : Listed(Tail(q), s) <=> Listed(q, s) /\ s # Head(q)
  <1>1. /\ Tail(q) \in Seq(T) /\ Len(q) \in Nat \ {0} /\ Len(Tail(q)) = Len(q) - 1 /\ Head(q) = q[1]
        /\ \A i \in 1..(Len(q) - 1) : Tail(q)[i] = q[i + 1]
    OBVIOUS
  <1>2. Distinct(Tail(q)) /\ Listed(q, Head(q))
    BY <1>1 DEF Distinct, Listed
  <1>3. ASSUME NEW s, Listed(Tail(q), s) PROVE Listed(q, s) /\ s # Head(q)
    BY <1>1, <1>3 DEF Distinct, Listed
  <1>4. ASSUME NEW s, Listed(q, s), s # Head(q) PROVE Listed(Tail(q), s)
    <2>1. PICK i \in 1..Len(q) : q[i] = s
      BY <1>4 DEF Listed
    <2>2. i - 1 \in 1..(Len(q) - 1) /\ Tail(q)[i - 1] = s
      BY <1>1, <1>4, <2>1
    <2>. QED
      BY <1>1, <2>2 DEF Listed
  <1>. QED
    BY <1>2, <1>3, <1>4

LEMMA WithOneMore ==
  ASSUME NEW T, NEW q \in Seq(T), NEW e \in T
  PROVE  /\ Distinct(q) /\ ~Listed(q, e) => Distinct(Append(q, e))
         /\ \A s : Listed(Append(q, e), s) <=> Listed(q, s) \/ s = e
  <1>1. Len(q) \in Nat
    OBVIOUS
  <1>. QED
    BY <1>1, Longer DEF Distinct, Listed

\* The slots of the messages in the ready channel.
LEMMA SlotsOfList ==
  ASSUME NEW q \in Seq(Messages)
  PROVE  /\ SlotsOf(q) \in Seq(Slots)
         /\ \A s : (\E m \in ToSet(q) : m.slot = s) <=> Listed(SlotsOf(q), s)
         /\ q # <<>> => /\ SlotsOf(q) # <<>> /\ Head(SlotsOf(q)) = Head(q).slot
                        /\ SlotsOf(Tail(q)) = Tail(SlotsOf(q))
         /\ \A m \in Messages : SlotsOf(Append(q, m)) = Append(SlotsOf(q), m.slot)
  <1>1. /\ Len(q) \in Nat /\ DOMAIN q = 1..Len(q)
        /\ \A i \in 1..Len(q) : q[i] \in Messages /\ q[i].slot \in Slots
    BY MessageFields
  <1>2. SlotsOf(q) \in Seq(Slots) /\ Len(SlotsOf(q)) = Len(q)
    BY <1>1 DEF SlotsOf
  <1>3. \A s : (\E m \in ToSet(q) : m.slot = s) <=> Listed(SlotsOf(q), s)
    BY <1>1, <1>2 DEF SlotsOf, Listed, ToSet
  <1>4. ASSUME q # <<>>
        PROVE  /\ SlotsOf(q) # <<>> /\ Head(SlotsOf(q)) = Head(q).slot
               /\ SlotsOf(Tail(q)) = Tail(SlotsOf(q))
    <2>1. /\ Tail(q) \in Seq(Messages) /\ Len(Tail(q)) = Len(q) - 1 /\ Len(q) # 0 /\ Head(q) = q[1]
          /\ \A i \in 1..(Len(q) - 1) : Tail(q)[i] = q[i + 1]
      BY <1>4
    <2>2. SlotsOf(q) # <<>> /\ Head(SlotsOf(q)) = Head(q).slot
      BY <1>1, <1>2, <2>1 DEF SlotsOf
    <2>3. Tail(SlotsOf(q)) = [i \in 1..(Len(q) - 1) |-> q[i + 1].slot]
      BY <1>1, <1>2, <2>2 DEF SlotsOf
    <2>4. SlotsOf(Tail(q)) = [i \in 1..(Len(q) - 1) |-> q[i + 1].slot]
      BY <1>1, <2>1 DEF SlotsOf
    <2>. QED
      BY <2>2, <2>3, <2>4
  <1>5. ASSUME NEW m \in Messages PROVE SlotsOf(Append(q, m)) = Append(SlotsOf(q), m.slot)
    <2>1. m.slot \in Slots
      BY MessageFields
    <2>2. Append(SlotsOf(q), m.slot) = [i \in 1..(Len(q) + 1) |-> IF i = Len(q) + 1 THEN m.slot
                                                                  ELSE q[i].slot]
      BY <1>1, <1>2, <2>1 DEF SlotsOf
    <2>3. SlotsOf(Append(q, m)) = [i \in 1..(Len(q) + 1) |-> IF i = Len(q) + 1 THEN m.slot
                                                             ELSE q[i].slot]
      BY <1>1, Longer DEF SlotsOf
    <2>. QED
      BY <2>2, <2>3
  <1>. QED
    BY <1>2, <1>3, <1>4, <1>5

LEMMA InitCustody == Init => Custody /\ Keys
  <1>. SUFFICES ASSUME Init PROVE Custody /\ Keys
    OBVIOUS
  <1>1. /\ free \in Seq(Slots) /\ Distinct(free) /\ \A s \in Slots : Listed(free, s)
        /\ ~\E s \in Slots : Listed(SlotsOf(ready), s)
        /\ Distinct(SlotsOf(ready))
    <2>1. Len(ready) = 0 /\ SlotsOf(ready) = <<>>
      BY DEF Init, SlotsOf
    <2>2. DOMAIN SetToSeq(Slots) = 1..Len(SetToSeq(Slots))
      BY SlotsListed
    <2>. QED
      BY <2>1, <2>2, SlotsListed DEF Init, Distinct, Listed, IsInjective
  <1>2. \A s \in Slots : Somewhere(s)
    BY <1>1, MessageFields DEF Init, Somewhere, ExactlyOne, Staged, Worked
  <1>3. Keys
    BY <1>1 DEF Init, Keys, Fitting, Staged, Worked
  <1>. QED
    BY <1>1, <1>2, <1>3 DEF Custody

\* What is free is not quarantined, so the first of the list is taken.
LEMMA FirstTaken ==
  ASSUME AllParts, Custody, TakeFreeSlot
  PROVE  /\ free # <<>> /\ free' = Tail(free) /\ Head(free) \in Slots
         /\ \/ /\ Acquire(Head(free), "writer", "capturing")
               /\ staging' = Message(Head(free), FALSE) /\ poisoned' = poisoned
            \/ /\ AcquireFails(Head(free), "writer")
               /\ staging' = staging /\ poisoned' = poisoned \cup {Head(free)}
  <1>1. free \in Seq(Slots)
    BY DEF AllParts, PoolTyped
  <1>2. PICK n \in 1..Len(free) :
           /\ free[n] \in Slots \ poisoned /\ \A i \in 1..(n - 1) : free[i] \in poisoned
           /\ free' = SubSeq(free, n + 1, Len(free)) /\ free' \in Seq(Slots)
           /\ \/ /\ Acquire(free[n], "writer", "capturing")
                 /\ staging' = Message(free[n], FALSE) /\ poisoned' = poisoned
              \/ /\ AcquireFails(free[n], "writer")
                 /\ staging' = staging /\ poisoned' = poisoned \cup {free[n]}
    BY Taken
  <1>3. 1 \in 1..Len(free) /\ free[1] \in Slots /\ Listed(free, free[1])
    BY <1>1, <1>2 DEF Listed
  <1>4. free[1] \notin poisoned
    BY <1>3 DEF Custody, Somewhere, ExactlyOne
  <1>5. n = 1
    BY <1>1, <1>2, <1>4
  <1>6. free # <<>> /\ Head(free) = free[1] /\ Tail(free) = SubSeq(free, 1 + 1, Len(free))
    BY <1>1, <1>3
  <1>7. free' = Tail(free)
    BY <1>2, <1>5, <1>6
  <1>. QED
    BY <1>2, <1>3, <1>5, <1>6, <1>7 DEF Acquire, AcquireFails

\* Where the slots are after each step that moves one.
LEMMA SomewhereStep ==
  ASSUME AllParts, Custody, [Next]_vars
  PROVE  Custody'
  <1>. DEFINE R == SlotsOf(ready)
  <1>1. /\ free \in Seq(Slots) /\ ready \in Seq(Messages) /\ R \in Seq(Slots)
        /\ Distinct(free) /\ Distinct(R) /\ poisoned \subseteq Slots
        /\ staging \in Messages \cup {None} /\ msg \in Messages \cup {None}
        /\ held \in Slots \cup {None}
    BY SlotsOfList DEF AllParts, PoolTyped, StageTyped, ThreadTyped, Custody
  <1>2. \A s \in Slots : Somewhere(s)
    BY DEF Custody
  <1>3. ASSUME free' = free, ready' = ready, poisoned' = poisoned, held' = held,
               \A s \in Slots : (Staged(s)' <=> Staged(s)) /\ (Worked(s)' <=> Worked(s))
        PROVE  Custody'
    BY <1>1, <1>2, <1>3 DEF Custody, Somewhere, ExactlyOne
  <1>4. CASE TakeFreeSlot
    <2>1. /\ Distinct(free') /\ Listed(free, Head(free)) /\ Head(free) \in Slots
          /\ \A s : Listed(free', s) <=> Listed(free, s) /\ s # Head(free)
          /\ \/ staging' = Message(Head(free), FALSE) /\ poisoned' = poisoned
             \/ staging' = staging /\ poisoned' = poisoned \cup {Head(free)}
      BY <1>1, <1>4, FirstTaken, WithoutHead
    <2>2. staging = None /\ ready' = ready /\ msg' = msg /\ held' = held
      BY <1>4 DEF TakeFreeSlot, encoder
    <2>3. ASSUME NEW s \in Slots PROVE Somewhere(s)'
      <3>1. CASE staging' = Message(Head(free), FALSE) /\ poisoned' = poisoned
        <4>1. Staged(s)' <=> s = Head(free)
          BY <2>1, <3>1, MessageFields DEF Staged
        <4>2. ~Staged(s) /\ (Worked(s)' <=> Worked(s))
          BY <2>2 DEF Staged, Worked
        <4>. QED
          BY <1>2, <2>1, <2>2, <3>1, <4>1, <4>2 DEF Somewhere, ExactlyOne
      <3>2. CASE staging' = staging /\ poisoned' = poisoned \cup {Head(free)}
        <4>1. (Staged(s)' <=> Staged(s)) /\ (Worked(s)' <=> Worked(s))
          BY <2>2, <3>2 DEF Staged, Worked
        <4>. QED
          BY <1>2, <2>1, <2>2, <3>2, <4>1 DEF Somewhere, ExactlyOne
      <3>. QED
        BY <2>1, <3>1, <3>2
    <2>. QED
      BY <1>1, <2>1, <2>2, <2>3 DEF Custody
  <1>5. CASE Written
    <2>1. /\ free' = free /\ ready' = ready /\ poisoned' = poisoned /\ held' = held /\ msg' = msg
          /\ staging # None /\ staging' # None /\ staging'.slot = staging.slot
      BY <1>5, WrittenMessage DEF Written, encoder
    <2>. QED
      BY <1>3, <2>1 DEF Staged, Worked
  <1>6. CASE WrittenNotReleased
    <2>1. /\ free' = free /\ ready' = ready /\ held' = held /\ msg' = msg /\ staging' = None
          /\ staging # None /\ staging.slot \in Slots /\ poisoned' = poisoned \cup {staging.slot}
      BY <1>1, <1>6, MessageFields DEF WrittenNotReleased, encoder
    <2>2. ASSUME NEW s \in Slots PROVE Somewhere(s)'
      BY <1>2, <2>1 DEF Somewhere, ExactlyOne, Staged, Worked
    <2>. QED
      BY <1>1, <2>1, <2>2 DEF Custody
  <1>7. CASE SendReady
    <2>1. /\ staging # None /\ staging \in Messages /\ staging.slot \in Slots /\ staging' = None
          /\ held' = held /\ msg' = msg /\ poisoned' = poisoned
      BY <1>1, <1>7, MessageFields DEF SendReady, encoder
    <2>2. ~Listed(free, staging.slot) /\ ~Listed(R, staging.slot)
      BY <1>2, <2>1 DEF Somewhere, ExactlyOne, Staged
    <2>3. CASE at = "ended"
      <3>1. free' = Append(free, staging.slot) /\ ready' = ready
        BY <1>7, <2>3 DEF SendReady
      <3>2. Distinct(free') /\ \A s : Listed(free', s) <=> Listed(free, s) \/ s = staging.slot
        BY <1>1, <2>1, <2>2, <3>1, WithOneMore
      <3>3. ASSUME NEW s \in Slots PROVE Somewhere(s)'
        BY <1>2, <2>1, <3>1, <3>2 DEF Somewhere, ExactlyOne, Staged, Worked
      <3>. QED
        BY <1>1, <3>1, <3>2, <3>3 DEF Custody
    <2>4. CASE at # "ended"
      <3>1. ready' = Append(ready, staging) /\ free' = free
        BY <1>7, <2>4 DEF SendReady
      <3>2. SlotsOf(ready') = Append(R, staging.slot)
        BY <1>1, <2>1, <3>1, SlotsOfList
      <3>3. /\ Distinct(SlotsOf(ready'))
            /\ \A s : Listed(SlotsOf(ready'), s) <=> Listed(R, s) \/ s = staging.slot
        BY <1>1, <2>1, <2>2, <3>2, WithOneMore
      <3>4. ASSUME NEW s \in Slots PROVE Somewhere(s)'
        BY <1>2, <2>1, <3>1, <3>3 DEF Somewhere, ExactlyOne, Staged, Worked
      <3>. QED
        BY <1>1, <3>1, <3>3, <3>4 DEF Custody
    <2>. QED
      BY <2>3, <2>4
  <1>8. CASE TakeFrame
    <2>1. /\ ready # <<>> /\ ready' = Tail(ready) /\ Head(ready) \in Messages
          /\ free' = free /\ held' = held /\ staging' = staging /\ poisoned' = poisoned
      BY <1>1, <1>8 DEF TakeFrame, capture
    <2>2. R # <<>> /\ Head(R) = Head(ready).slot /\ SlotsOf(ready') = Tail(R)
      BY <1>1, <2>1, SlotsOfList
    <2>3. /\ Distinct(SlotsOf(ready')) /\ Listed(R, Head(ready).slot)
          /\ \A s : Listed(SlotsOf(ready'), s) <=> Listed(R, s) /\ s # Head(ready).slot
      BY <1>1, <2>2, WithoutHead
    <2>4. Head(ready).slot \notin poisoned
      BY <1>2, <2>1, <2>3, MessageFields DEF Somewhere, ExactlyOne
    <2>5. msg' = Head(ready) /\ msg' # None /\ msg = None
      BY <1>8, <2>1, <2>4, MessageFields DEF TakeFrame, AllParts, ThreadTyped
    <2>6. ASSUME NEW s \in Slots PROVE Somewhere(s)'
      BY <1>2, <2>1, <2>3, <2>5 DEF Somewhere, ExactlyOne, Staged, Worked
    <2>. QED
      BY <1>1, <2>1, <2>3, <2>6 DEF Custody
  <1>9. CASE Tick
    <2>1. held \notin poisoned
      BY <1>1, <1>2 DEF Somewhere, ExactlyOne
    <2>2. /\ free' = free /\ ready' = ready /\ poisoned' = poisoned /\ held' = held /\ msg' = msg
          /\ staging' = staging
      BY <1>9, <2>1 DEF Tick, capture
    <2>. QED
      BY <1>3, <2>2 DEF Staged, Worked
  <1>10. CASE SlotPoisoned
    <2>1. /\ free' = free /\ ready' = ready /\ held' = held /\ msg' = None /\ staging' = staging
          /\ msg # None /\ msg.slot \in Slots /\ poisoned' = poisoned \cup {msg.slot}
      BY <1>1, <1>10, MessageFields DEF SlotPoisoned, capture
    <2>2. ASSUME NEW s \in Slots PROVE Somewhere(s)'
      BY <1>2, <2>1 DEF Somewhere, ExactlyOne, Staged, Worked
    <2>. QED
      BY <1>1, <2>1, <2>2 DEF Custody
  <1>11. CASE Encoded
    <2>1. /\ ready' = ready /\ poisoned' = poisoned /\ staging' = staging /\ msg' = None
          /\ IF msg = None THEN UNCHANGED <<free, held>>
             ELSE /\ held' = msg.slot
                  /\ free' = IF held = None THEN free ELSE Append(free, held)
      BY <1>11 DEF Encoded, capture
    <2>2. CASE msg = None
      BY <1>3, <2>1, <2>2 DEF Staged, Worked
    <2>3. CASE msg # None
      <3>1. msg.slot \in Slots /\ held' = msg.slot
        BY <1>1, <2>1, <2>3, MessageFields
      <3>2. /\ Distinct(free')
            /\ \A s \in Slots : Listed(free', s) <=> Listed(free, s) \/ s = held
        <4>1. CASE held = None
          BY <1>1, <2>1, <2>3, <4>1, MessageFields
        <4>2. CASE held # None
          <5>1. held \in Slots /\ ~Listed(free, held) /\ free' = Append(free, held)
            BY <1>1, <1>2, <2>1, <2>3, <4>2 DEF Somewhere, ExactlyOne
          <5>. QED
            BY <1>1, <5>1, WithOneMore
        <4>. QED
          BY <4>1, <4>2
      <3>3. ASSUME NEW s \in Slots PROVE Somewhere(s)'
        BY <1>2, <2>1, <2>3, <3>1, <3>2 DEF Somewhere, ExactlyOne, Staged, Worked
      <3>. QED
        BY <1>1, <2>1, <3>2, <3>3 DEF Custody
    <2>. QED
      BY <2>2, <2>3
  <1>12. CASE \/ RequestIdr \/ SetTarget \/ Stop \/ Look \/ TickQuiet \/ TickEmits \/ Claim
              \/ TakeTarget \/ ApplyTarget \/ Submit \/ RepeatFails \/ UNCHANGED vars
    <2>1. UNCHANGED <<free, ready, poisoned, held, staging, msg>>
      BY <1>12 DEF RequestIdr, SetTarget, Stop, Look, TickQuiet, TickEmits, Claim, TakeTarget,
        ApplyTarget, Submit, RepeatFails, vars, capture, encoder, rate
    <2>. QED
      BY <1>3, <2>1 DEF Staged, Worked
  <1>. QED
    BY <1>4, <1>5, <1>6, <1>7, <1>8, <1>9, <1>10, <1>11, <1>12 DEF Next, Stage, EncodeThread

\* The keyed mutex of each slot after each step that moves the slot or the mutex.
LEMMA KeysStep ==
  ASSUME AllParts, Custody, Keys, [Next]_vars
  PROVE  Keys'
  <1>. DEFINE R == SlotsOf(ready)
  <1>. SUFFICES ASSUME engine' = "nvenc", at' # "ended", NEW s \in Slots \ poisoned'
                PROVE  Fitting(s)'
    BY DEF Keys
  <1>1. /\ free \in Seq(Slots) /\ ready \in Seq(Messages) /\ R \in Seq(Slots)
        /\ Distinct(free) /\ Distinct(R) /\ poisoned \subseteq Slots
        /\ staging \in Messages \cup {None} /\ msg \in Messages \cup {None}
        /\ held \in Slots \cup {None}
        /\ mutex \in [Slots -> {"writer", "encoder", "capturing", "encoding"}]
        /\ written => staging # None
    BY SlotsOfList DEF Begun, AllParts, PoolTyped, StageTyped, ThreadTyped, Custody
  <1>2. engine' = engine /\ poisoned \subseteq poisoned' /\ (at = "ended" => at' = "ended")
    <2>1. CASE TakeFreeSlot
      BY <2>1 DEF TakeFreeSlot
    <2>2. CASE ~TakeFreeSlot
      BY <2>2 DEF AllParts, ThreadTyped, Next, Stage, EncodeThread, RequestIdr, SetTarget, Stop,
        Written, WrittenNotReleased, SendReady, Look, TakeFrame, Tick, TickQuiet, TickEmits,
        Claim, TakeTarget, ApplyTarget, Submit, RepeatFails, SlotPoisoned, Encoded, vars
    <2>. QED
      BY <2>1, <2>2
  <1>3. /\ s \in Slots /\ engine = "nvenc" /\ at # "ended" /\ s \notin poisoned
        /\ Fitting(s) /\ Somewhere(s)
    BY <1>2 DEF Keys, Custody
  <1>4. ASSUME mutex' = mutex, ready' = ready, msg' = msg, staging' = staging, written' = written,
               at' = "encoding" <=> at = "encoding"
        PROVE  Fitting(s)'
    BY <1>3, <1>4 DEF Fitting, Staged, Worked
  <1>5. CASE TakeFreeSlot
    <2>1. /\ UNCHANGED <<ready, written, at, msg>> /\ staging = None
          /\ Head(free) \in Slots /\ Listed(free, Head(free)) /\ Somewhere(Head(free))
          /\ \/ Acquire(Head(free), "writer", "capturing") /\ staging' = Message(Head(free), FALSE)
             \/ AcquireFails(Head(free), "writer") /\ staging' = staging
      BY <1>1, <1>5, FirstTaken, WithoutHead DEF TakeFreeSlot, capture, encoder, Custody
    <2>2. CASE AcquireFails(Head(free), "writer") /\ staging' = staging
      BY <1>4, <2>1, <2>2 DEF AcquireFails
    <2>3. CASE Acquire(Head(free), "writer", "capturing") /\ staging' = Message(Head(free), FALSE)
      <3>1. mutex' = [mutex EXCEPT ![Head(free)] = "capturing"] /\ (Staged(s)' <=> s = Head(free))
        BY <1>3, <2>1, <2>3, MessageFields DEF Acquire, Staged
      <3>2. ~written
        BY <1>1, <1>5 DEF TakeFreeSlot
      <3>3. CASE s = Head(free)
        BY <1>1, <2>1, <3>1, <3>2, <3>3 DEF Fitting
      <3>4. CASE s # Head(free)
        BY <1>1, <1>3, <2>1, <3>1, <3>4 DEF Fitting, Staged, Worked
      <3>. QED
        BY <3>3, <3>4
    <2>. QED
      BY <2>1, <2>2, <2>3
  <1>6. CASE Written
    <2>1. /\ mutex' = [mutex EXCEPT ![staging.slot] = "encoder"] /\ written' /\ ~written
          /\ UNCHANGED <<ready, at, msg>>
      BY <1>3, <1>6 DEF Written, Release, encoder
    <2>2. staging # None /\ staging.slot \in Slots /\ (Staged(s)' <=> s = staging.slot)
      BY <1>6, WrittenMessage, MessageFields DEF Written, Staged
    <2>. QED
      BY <1>1, <1>3, <2>1, <2>2 DEF Fitting, Staged, Worked
  <1>7. CASE WrittenNotReleased
    <2>1. /\ UNCHANGED <<mutex, ready, at, msg>> /\ staging' = None /\ s # staging.slot
      BY <1>7 DEF WrittenNotReleased, ReleaseFails, encoder
    <2>. QED
      BY <1>3, <2>1 DEF Fitting, Staged, Worked
  <1>8. CASE SendReady
    <2>1. /\ UNCHANGED <<mutex, at, msg>> /\ staging # None /\ written /\ staging' = None
          /\ staging \in Messages /\ staging.slot \in Slots /\ ready' = Append(ready, staging)
      BY <1>1, <1>3, <1>8, MessageFields DEF SendReady, encoder
    <2>2. SlotsOf(ready') = Append(R, staging.slot)
      BY <1>1, <2>1, SlotsOfList
    <2>3. Listed(SlotsOf(ready'), s) <=> Listed(R, s) \/ s = staging.slot
      BY <1>1, <2>1, <2>2, WithOneMore
    <2>. QED
      BY <1>3, <2>1, <2>3 DEF Fitting, Staged, Worked
  <1>9. CASE TakeFrame
    <2>1. /\ ready # <<>> /\ ready' = Tail(ready) /\ Head(ready) \in Messages
          /\ UNCHANGED <<mutex, staging, written, poisoned>>
      BY <1>1, <1>9 DEF TakeFrame, capture
    <2>2. R # <<>> /\ Head(R) = Head(ready).slot /\ SlotsOf(ready') = Tail(R)
      BY <1>1, <2>1, SlotsOfList
    <2>3. /\ Listed(R, Head(ready).slot)
          /\ Listed(SlotsOf(ready'), s) <=> Listed(R, s) /\ s # Head(ready).slot
      BY <1>1, <2>2, WithoutHead
    <2>4. Head(ready).slot \notin poisoned
      BY <2>1, <2>3, MessageFields DEF Custody, Somewhere, ExactlyOne
    <2>5. msg' = Head(ready) /\ msg' # None /\ msg = None /\ at' = "rate"
      BY <1>9, <2>1, <2>4, MessageFields DEF TakeFrame, AllParts, ThreadTyped
    <2>6. Worked(s)' <=> s = Head(ready).slot
      BY <2>5 DEF Worked
    <2>. QED
      BY <1>3, <2>1, <2>3, <2>5, <2>6 DEF Fitting, Staged, Worked, Somewhere, ExactlyOne
  <1>10. CASE TickEmits
    <2>1. /\ UNCHANGED <<ready, staging, written>> /\ msg = None /\ msg' = None /\ held \in Slots
          /\ mutex' = mutex \/ mutex' = [mutex EXCEPT ![held] = "encoding"]
      BY <1>1, <1>10, MessageFields DEF TickEmits, capture, encoder, AllParts, ThreadTyped,
        TickHolds
    <2>2. s = held => ~Staged(s) /\ ~Listed(R, s)
      BY <1>3 DEF Somewhere, ExactlyOne
    <2>. QED
      BY <1>1, <1>3, <2>1, <2>2 DEF Fitting, Staged, Worked
  <1>11. CASE Submit
    <2>1. /\ UNCHANGED <<ready, staging, written, msg>> /\ at' = "encoding" /\ Input \in Slots
          /\ mutex' = [mutex EXCEPT ![Input] = "encoding"]
          /\ Input = IF msg = None THEN held ELSE msg.slot
      BY <1>3, <1>11 DEF Submit, Acquire, capture, AllParts, ThreadTyped, Input
    <2>2. s = Input => ~Staged(s) /\ ~Listed(R, s)
      BY <1>3, <2>1 DEF Somewhere, ExactlyOne, Worked
    <2>. QED
      BY <1>1, <1>3, <2>1, <2>2 DEF Fitting, Staged, Worked
  <1>12. CASE SlotPoisoned
    <2>1. /\ UNCHANGED <<mutex, ready, staging, written>> /\ msg' = None /\ s # msg.slot
      BY <1>12 DEF SlotPoisoned, AcquireFails, capture
    <2>. QED
      BY <1>3, <2>1 DEF Fitting, Staged, Worked
  <1>13. CASE Encoded
    <2>1. /\ UNCHANGED <<ready, staging, written>> /\ msg' = None /\ at = "encoding"
          /\ Input \in Slots /\ Input = IF msg = None THEN held ELSE msg.slot
          /\ mutex' = mutex \/ mutex' = [mutex EXCEPT ![Input] = "writer"]
      BY <1>3, <1>13 DEF Encoded, Release, ReleaseFails, capture, AllParts, ThreadTyped, Input
    <2>2. s = Input => ~Staged(s) /\ ~Listed(R, s)
      BY <1>3, <2>1 DEF Somewhere, ExactlyOne, Worked
    <2>. QED
      BY <1>1, <1>3, <2>1, <2>2 DEF Fitting, Staged, Worked
  <1>14. CASE \/ RequestIdr \/ SetTarget \/ Stop \/ Look \/ Tick \/ TickQuiet \/ Claim
              \/ TakeTarget \/ ApplyTarget \/ RepeatFails \/ UNCHANGED vars
    <2>1. /\ UNCHANGED <<mutex, ready, msg, staging, written>>
          /\ at' = "encoding" <=> at = "encoding"
      BY <1>14 DEF RequestIdr, SetTarget, Stop, Look, Tick, TickQuiet, Claim, TakeTarget,
        ApplyTarget, RepeatFails, AcquireFails, vars, capture, encoder, rate
    <2>. QED
      BY <1>4, <2>1
  <1>. QED
    BY <1>5, <1>6, <1>7, <1>8, <1>9, <1>10, <1>11, <1>12, <1>13, <1>14 DEF Next, Stage, EncodeThread

\* The invariant says what SlotCustody does.
LEMMA CustodyTold == AllParts /\ Custody /\ Keys => SlotCustody
  <1>. SUFFICES ASSUME AllParts, Custody, Keys PROVE SlotCustody
    OBVIOUS
  <1>. DEFINE A == ToSet(free)
              B == {m.slot : m \in ToSet(ready)}
              C == {m.slot : m \in {staging} \ {None}}
              D == {m.slot : m \in {msg} \ {None}}
              E == {held} \ {None}
  <1>1. /\ free \in Seq(Slots) /\ ready \in Seq(Messages) /\ SlotsOf(ready) \in Seq(Slots)
        /\ staging \in Messages \cup {None} /\ msg \in Messages \cup {None}
        /\ held \in Slots \cup {None} /\ poisoned \subseteq Slots
        /\ \A s : (\E m \in ToSet(ready) : m.slot = s) <=> Listed(SlotsOf(ready), s)
    BY SlotsOfList DEF AllParts, PoolTyped, StageTyped, ThreadTyped
  <1>2. IsInjective(free) /\ \A s : s \in A <=> Listed(free, s)
    BY <1>1 DEF Custody, Distinct, Listed, IsInjective, ToSet
  <1>3. \A i, j \in DOMAIN ready : ready[i].slot = ready[j].slot => i = j
    <2>1. DOMAIN ready = 1..Len(ready) /\ Len(SlotsOf(ready)) = Len(ready)
      BY <1>1 DEF SlotsOf
    <2>. QED
      BY <2>1 DEF Custody, Distinct, SlotsOf
  <1>4. /\ A \subseteq Slots /\ B \subseteq Slots
        /\ C \subseteq Slots /\ D \subseteq Slots /\ E \subseteq Slots
    BY <1>1, MessageFields DEF ToSet
  <1>5. \A s : /\ s \in B <=> Listed(SlotsOf(ready), s)
               /\ s \in C <=> Staged(s)
               /\ s \in D <=> Worked(s)
    BY <1>1 DEF Staged, Worked
  <1>6. \A s \in Slots : s \in E <=> held = s
    BY MessageFields
  <1>7. \A s \in Slots : ExactlyOne(s \in A, s \in B, s \in poisoned, s \in C, s \in D, s \in E)
    BY <1>2, <1>5, <1>6 DEF Custody, Somewhere, ExactlyOne
  <1>8. Places = <<A, B, poisoned, C, D, E>>
    BY DEF Places
  <1>9. /\ \A i, j \in DOMAIN Places : i # j => Places[i] \cap Places[j] = {}
        /\ Slots = UNION Range(Places)
    <2>. HIDE DEF A, B, C, D, E
    <2>1. /\ A \cap B = {} /\ A \cap poisoned = {} /\ A \cap C = {} /\ A \cap D = {}
          /\ A \cap E = {}
          /\ B \cap poisoned = {} /\ B \cap C = {} /\ B \cap D = {} /\ B \cap E = {}
          /\ poisoned \cap C = {} /\ poisoned \cap D = {} /\ poisoned \cap E = {}
          /\ C \cap D = {} /\ C \cap E = {} /\ D \cap E = {}
      BY <1>1, <1>4, <1>7 DEF ExactlyOne
    <2>2. Slots = A \cup B \cup poisoned \cup C \cup D \cup E
      BY <1>1, <1>4, <1>7 DEF ExactlyOne
    <2>3. /\ DOMAIN Places = 1..6
          /\ Places[1] = A /\ Places[2] = B /\ Places[3] = poisoned
          /\ Places[4] = C /\ Places[5] = D /\ Places[6] = E
      BY <1>8
    <2>4. \A i, j \in DOMAIN Places : i # j => Places[i] \cap Places[j] = {}
      BY <2>1, <2>3
    <2>5. Range(Places) = {A, B, poisoned, C, D, E}
      BY <2>3 DEF Range
    <2>. QED
      BY <2>2, <2>4, <2>5
  <1>10. OnePlace
    BY <1>2, <1>3, <1>9 DEF OnePlace, Places
  <1>11. KeysAgree
    BY <1>1 DEF Keys, KeysAgree, Fitting, Staged, Worked
  <1>. QED
    BY <1>10, <1>11 DEF SlotCustody

\* No slot is ever in two places or in none, and its keyed mutex is where the thread that
\* uses it next expects it, whatever the order in which the capture callback and the encode
\* thread take, fill, quarantine and return slots (SlotCustody).
THEOREM SlotsKept == Spec => []SlotCustody
  <1>1. TInv /\ [Next]_vars => TInv'
    BY TypesStep
  <1>2. TInv /\ Custody /\ Keys /\ [Next]_vars => Custody' /\ Keys'
    BY SomewhereStep, KeysStep, Parts
  <1>3. TInv /\ Custody /\ Keys => SlotCustody
    BY CustodyTold, Parts
  <1>. QED
    BY InitTyped, InitCustody, <1>1, <1>2, <1>3, PTL DEF Spec

=============================================================================
