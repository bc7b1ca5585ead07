----------------------------- MODULE EncodeRing -----------------------------
(***************************************************************************)
(* The ring of input textures between the capture callback and the encode  *)
(* thread of a Windows session, and the two requests the transport leaves  *)
(* for that thread: a keyframe and a bitrate                               *)
(* (src-tauri/src/windows_utils/streamer/pipeline.rs: Pipeline,            *)
(* AsyncEncodeRing, ring_encode_thread, ring_keepalive; the slot calls of  *)
(* nvidia/encoder.rs and amd/encoder.rs).                                  *)
(*                                                                         *)
(* A step is one access to what the threads share: a channel, an atomic,   *)
(* or a slot's keyed mutex.  What is drawn and encoded is left out, and so *)
(* is time: a keepalive may be due at any tick.  An acquire or a release   *)
(* of a keyed mutex may fail whatever its state (a hung GPU), at most      *)
(* MaxFaults times.  The wake channel only shortens the wait for a tick    *)
(* and is left out.  Loss repair is in a module of its own.                *)
(***************************************************************************)
EXTENDS Naturals, Sequences, SequencesExt, FiniteSets

CONSTANTS
  Slots,      \* the textures of the ring
  None,
  Targets,    \* bitrates the congestion controller asks for
  Initial,    \* the bitrate the encoder opens with
  MaxFaults   \* bound: acquires and releases that fail for no reason

ASSUME RingAssumption ==
  /\ None \notin Slots \cup [slot : Slots, force_idr : BOOLEAN]
  /\ Initial \in Targets /\ 0 \notin Targets
  /\ IsFiniteSet(Slots)
  /\ MaxFaults \in Nat

VARIABLES
  engine,     \* RingEncoder: "nvenc" has keyed mutexes, "amf" has none
  free,       \* the free_slots channel
  ready,      \* the ready channel: messages with their slot and force_idr
  poisoned,   \* PoisonedSlots
  mutex,      \* per slot: released at KEY_WRITER or KEY_ENCODER, or who has it
  staging,    \* the message stage() prepares: None, or a slot being written
  written,    \* ... and its slot is written and released
  first,      \* frame_index = 0
  stop,       \* AsyncEncodeRing.stop
  at,         \* where the encode thread stands
  msg,        \* the message it works on; None when it repeats the held slot
  held,       \* held_slot
  own,        \* the encoder's idr_requested
  forced,     \* the picture being encoded is an IDR
  idr,        \* idr_request
  target,     \* target_bitrate; 0 means no change is asked for
  pending,    \* the target taken from it
  current,    \* the bitrate the encoder runs at
  newest,     \* history: the last target asked for
  asked,      \* history: "none", a keyframe is "owed", the encoder is "trying",
              \* or a fault has "lost" it
  faults      \* what the bound counts

capture  == <<staging, written, first, stop>>
encoder  == <<msg, held, own, forced>>
rate     == <<target, pending, current, newest>>
vars     == <<engine, free, ready, poisoned, mutex, capture, at, encoder,
              idr, rate, asked, faults>>

Message(s, force) == [slot |-> s, force_idr |-> force]
Messages == [slot : Slots, force_idr : BOOLEAN]

\* The slot the encode thread is about to encode.
Input == IF msg = None THEN held ELSE msg.slot

TypeOK ==
  /\ engine \in {"nvenc", "amf"}
  /\ free \in Seq(Slots) /\ ready \in Seq(Messages)
  /\ poisoned \subseteq Slots
  /\ mutex \in [Slots -> {"writer", "encoder", "capturing", "encoding"}]
  /\ staging \in Messages \cup {None} /\ written \in BOOLEAN
  /\ first \in BOOLEAN /\ stop \in BOOLEAN
  /\ at \in {"top", "select", "tick", "claim", "rate", "applying", "submit", "encoding", "ended"}
  /\ msg \in Messages \cup {None} /\ held \in Slots \cup {None}
  /\ own \in BOOLEAN /\ forced \in BOOLEAN /\ idr \in BOOLEAN
  /\ target \in Targets \cup {0} /\ pending \in Targets \cup {0}
  /\ current \in Targets /\ newest \in Targets
  /\ asked \in {"none", "owed", "trying", "lost"}
  /\ faults \in Nat
  /\ at \in {"claim", "rate", "applying", "submit", "encoding"} => Input \in Slots
  /\ at \in {"top", "select", "tick", "claim", "ended"} => msg = None

Init ==
  /\ engine \in {"nvenc", "amf"}
  /\ free = SetToSeq(Slots)
  /\ ready = <<>> /\ poisoned = {}
  /\ mutex = [s \in Slots |-> "writer"]
  /\ staging = None /\ written = FALSE /\ first = TRUE /\ stop = FALSE
  /\ at = "top" /\ msg = None /\ held = None /\ own = FALSE /\ forced = FALSE
  /\ idr = FALSE
  /\ target = 0 /\ pending = 0 /\ current = Initial /\ newest = Initial
  /\ asked = "none" /\ faults = 0

-----------------------------------------------------------------------------
(* Keyed mutexes.  One that nobody released stays with its last owner.     *)

Fault == faults < MaxFaults /\ faults' = faults + 1

\* AcquireSync(key) by who.
Acquire(s, key, who) ==
  /\ IF engine = "amf" THEN UNCHANGED mutex
     ELSE mutex[s] = key /\ mutex' = [mutex EXCEPT ![s] = who]
  /\ UNCHANGED faults

\* AcquireSync(key) runs into its timeout.
AcquireFails(s, key) ==
  /\ engine = "nvenc"
  /\ IF mutex[s] = key THEN Fault ELSE UNCHANGED faults
  /\ UNCHANGED mutex

Release(s, key) ==
  /\ mutex' = IF engine = "amf" THEN mutex ELSE [mutex EXCEPT ![s] = key]
  /\ UNCHANGED faults

ReleaseFails ==
  /\ engine = "nvenc"
  /\ Fault
  /\ UNCHANGED mutex

-----------------------------------------------------------------------------
(* The transport.                                                          *)

\* Pipeline::request_idr
RequestIdr ==
  /\ idr' = TRUE /\ asked' = "owed"
  /\ UNCHANGED <<engine, free, ready, poisoned, mutex, capture, at, encoder, rate, faults>>

\* Pipeline::set_target_bitrate
SetTarget ==
  /\ \E bps \in Targets : target' = bps /\ newest' = bps
  /\ UNCHANGED <<engine, free, ready, poisoned, mutex, capture, at, encoder, pending, current,
                 idr, asked, faults>>

-----------------------------------------------------------------------------
(* The capture callback: AsyncEncodeRing::stage.  A frame that finds no    *)
(* free slot is dropped and changes nothing.                               *)

\* A frame arrives and takes a slot; the quarantined ones are passed over.
TakeFreeSlot ==
  /\ staging = None /\ ~stop
  /\ \E n \in 1..Len(free) :
       /\ \A i \in 1..(n - 1) : free[i] \in poisoned
       /\ free[n] \notin poisoned
       /\ free' = SubSeq(free, n + 1, Len(free))
       /\ \/ /\ Acquire(free[n], "writer", "capturing")
             /\ staging' = Message(free[n], FALSE)
             /\ UNCHANGED poisoned
          \/ /\ AcquireFails(free[n], "writer")
             /\ poisoned' = poisoned \cup {free[n]}
             /\ UNCHANGED staging
  /\ UNCHANGED <<engine, ready, written, first, stop, at, encoder, idr, rate, asked>>

\* The frame is on the slot, the slot is released to the encoder, and the
\* pending keyframe request is claimed for it.
Written ==
  /\ staging # None /\ ~written
  /\ Release(staging.slot, "encoder")
  /\ staging' = [staging EXCEPT !.force_idr = first \/ idr]
  /\ idr' = (idr /\ first)
  /\ written' = TRUE /\ first' = FALSE
  /\ UNCHANGED <<engine, free, ready, poisoned, stop, at, encoder, rate, asked>>

WrittenNotReleased ==
  /\ staging # None /\ ~written
  /\ ReleaseFails
  /\ poisoned' = poisoned \cup {staging.slot}
  /\ staging' = None
  /\ UNCHANGED <<engine, free, ready, written, first, stop, at, encoder, idr, rate, asked>>

\* The message goes to the encode thread; once that is gone, its slot goes back
\* and the keyframe it claimed is nobody's.
SendReady ==
  /\ staging # None /\ written
  /\ IF at = "ended" THEN free' = Append(free, staging.slot) /\ UNCHANGED ready
                     ELSE ready' = Append(ready, staging) /\ UNCHANGED free
  /\ staging' = None /\ written' = FALSE
  /\ UNCHANGED <<engine, poisoned, mutex, first, stop, at, encoder, idr, rate, asked, faults>>

\* AsyncEncodeRing::stop, when the capture is over.
Stop ==
  /\ staging = None /\ ~stop
  /\ stop' = TRUE
  /\ UNCHANGED <<engine, free, ready, poisoned, mutex, staging, written, first, at, encoder,
                 idr, rate, asked, faults>>

-----------------------------------------------------------------------------
(* The encode thread: ring_encode_thread.                                  *)

\* Something still carries the keyframe request to the encoder.
Carried ==
  \/ idr \/ own
  \/ staging # None /\ staging.force_idr
  \/ msg # None /\ msg.force_idr
  \/ \E i \in DOMAIN ready : ready[i].force_idr

\* What becomes of a request when a carrier of it is lost.
Dropped == IF Carried' THEN "owed" ELSE "lost"

\* The loop looks at the stop flag once a turn.
Look ==
  /\ at = "top"
  /\ at' = IF stop THEN "ended" ELSE "select"
  /\ UNCHANGED <<engine, free, ready, poisoned, mutex, capture, encoder, idr, rate, asked, faults>>

\* RingEvent::Frame
TakeFrame ==
  /\ at = "select" /\ ready # <<>>
  /\ ready' = Tail(ready)
  /\ IF Head(ready).slot \in poisoned
       THEN at' = "top" /\ UNCHANGED msg
       ELSE at' = "rate" /\ msg' = Head(ready)
  /\ UNCHANGED <<engine, free, poisoned, mutex, capture, held, own, forced, idr, rate, faults>>
  /\ asked' = IF asked = "owed" THEN Dropped ELSE asked

\* RingEvent::Wake, which a frame that is ready does not keep from being chosen, or
\* Idle.
Tick ==
  /\ at = "select"
  /\ IF held = None \/ held \in poisoned
       THEN at' = "top" /\ held' = None
       ELSE at' = "tick" /\ UNCHANGED held
  /\ UNCHANGED <<engine, free, ready, poisoned, mutex, capture, msg, own, forced, idr, rate, asked, faults>>

\* Mutant: the request is claimed before the tick knows whether it will emit.
TickQuietSwaps ==
  /\ at = "tick"
  /\ idr' = FALSE
  /\ at' = "top"
  /\ UNCHANGED <<engine, free, ready, poisoned, mutex, capture, encoder, rate, asked, faults>>

\* No request, no pointer movement, and the keepalive is not due.
TickQuiet ==
  /\ at = "tick" /\ ~idr
  /\ at' = "top"
  /\ UNCHANGED <<engine, free, ready, poisoned, mutex, capture, encoder, idr, rate, asked, faults>>

\* A request, a keepalive that is due, or a pointer redrawn on the held slot,
\* whose mutex recompose() takes and gives back, or fails to.
TickEmits ==
  /\ at = "tick"
  /\ \/ UNCHANGED <<mutex, faults>>
     \/ /\ engine = "nvenc" /\ mutex[held] = "writer"
        /\ Fault
        /\ mutex' = [mutex EXCEPT ![held] = "encoding"]
  /\ at' = "claim"
  /\ UNCHANGED <<engine, free, ready, poisoned, capture, encoder, idr, rate, asked>>

\* The request, read by the tick, is now claimed, unless stage() was faster.
Claim ==
  /\ at = "claim"
  /\ own' = (own \/ idr)
  /\ idr' = FALSE
  /\ at' = "rate"
  /\ UNCHANGED <<engine, free, ready, poisoned, mutex, capture, msg, held, forced, rate, asked, faults>>

\* apply_pending_bitrate_atomic: a target is taken.
TakeTarget ==
  /\ at = "rate"
  /\ target' = 0
  /\ IF target \in {0, current}
       THEN at' = "submit" /\ UNCHANGED pending
       ELSE at' = "applying" /\ pending' = target
  /\ UNCHANGED <<engine, free, ready, poisoned, mutex, capture, encoder, idr,
                 current, newest, asked, faults>>

\* Mutant: the failed target is stored back over whatever came meanwhile.
RestoreBlindly == target' = pending

\* restore_pending_bitrate
Restore == target' = IF target = 0 THEN pending ELSE target

\* The encoder takes the target, or refuses it for now.
ApplyTarget ==
  /\ at = "applying"
  /\ \/ current' = pending /\ UNCHANGED target
     \/ Restore /\ UNCHANGED current
  /\ pending' = 0
  /\ at' = "submit"
  /\ UNCHANGED <<engine, free, ready, poisoned, mutex, capture, encoder, idr, newest, asked, faults>>

\* Where the mutex of the picture to encode should be.
Key == IF msg = None THEN "writer" ELSE "encoder"

\* encode_input_slot / encode_repeat_slot: the slot is acquired and every pending
\* request is taken for this picture (take_idr_request).
Submit ==
  /\ at = "submit"
  /\ Acquire(Input, Key, "encoding")
  /\ forced' = (own \/ idr \/ (msg # None /\ msg.force_idr))
  /\ own' = FALSE /\ idr' = FALSE
  /\ at' = "encoding"
  /\ UNCHANGED <<engine, free, ready, poisoned, capture, msg, held, rate>>
  /\ asked' = IF asked = "owed" /\ forced' THEN "trying" ELSE asked

\* A keepalive that cannot have the held slot gives up; the encoder remembers the
\* keyframe it owes.
RepeatFails ==
  /\ at = "submit" /\ msg = None
  /\ AcquireFails(held, "writer")
  /\ at' = "top"
  /\ UNCHANGED <<engine, free, ready, poisoned, capture, encoder, idr, rate, asked>>

\* Mutant: a poisoned slot is recycled like any other.
SlotPoisonedRecycled ==
  /\ at = "submit" /\ msg # None
  /\ AcquireFails(msg.slot, "encoder")
  /\ poisoned' = poisoned \cup {msg.slot}
  /\ held' = msg.slot
  /\ free' = IF held = None THEN free ELSE Append(free, held)
  /\ msg' = None
  /\ at' = "top"
  /\ UNCHANGED <<engine, ready, capture, own, forced, idr, rate>>
  /\ asked' = IF asked = "owed" THEN Dropped ELSE asked

\* SlotEncodeError::Poisoned: the slot is quarantined, and with no other to
\* repeat the thread ends.
SlotPoisoned ==
  /\ at = "submit" /\ msg # None
  /\ AcquireFails(msg.slot, "encoder")
  /\ poisoned' = poisoned \cup {msg.slot}
  /\ msg' = None
  /\ at' = IF held = None \/ held \in poisoned' THEN "ended" ELSE "top"
  /\ UNCHANGED <<engine, free, ready, capture, held, own, forced, idr, rate>>
  /\ asked' = IF asked = "owed" THEN Dropped ELSE asked

\* The encoder returns with an access unit, with nothing (AMF dropped the frame),
\* or with an error; the slot is released, which may fail unnoticed; and a new
\* picture's slot becomes the held one, the previous going back to the pool
\* (release_and_hold).
Encoded ==
  /\ at = "encoding"
  /\ Release(Input, "writer") \/ ReleaseFails
  /\ IF msg = None THEN UNCHANGED <<free, held>>
     ELSE /\ held' = msg.slot
          /\ free' = IF held = None THEN free ELSE Append(free, held)
  /\ msg' = None /\ forced' = FALSE
  /\ at' = "top"
  /\ UNCHANGED <<engine, ready, poisoned, capture, own, idr, rate>>
  /\ IF asked = "trying" THEN asked' \in {"none", Dropped} ELSE UNCHANGED asked

-----------------------------------------------------------------------------
Stage == TakeFreeSlot \/ Written \/ WrittenNotReleased \/ SendReady

EncodeThread ==
  \/ Look \/ TakeFrame \/ Tick \/ TickQuiet \/ TickEmits \/ Claim \/ TakeTarget \/ ApplyTarget
  \/ Submit \/ RepeatFails \/ SlotPoisoned \/ Encoded

Next == RequestIdr \/ SetTarget \/ Stage \/ Stop \/ EncodeThread

Spec == Init /\ [][Next]_vars

\* The encode thread runs, and its waits end; select! picks at random among the
\* channels that are ready, so pokes do not keep it from a frame for ever; and a
\* keepalive falls due in time.  The capture callback finishes a frame it has
\* begun.  Nobody owes it a frame, a request or a stop.
Fairness ==
  /\ WF_vars(EncodeThread) /\ SF_vars(TakeFrame) /\ SF_vars(TickEmits)
  /\ WF_vars(Written \/ WrittenNotReleased \/ SendReady)

FairSpec == Spec /\ Fairness

-----------------------------------------------------------------------------
(* What the ring guarantees.                                               *)

\* Each slot is in exactly one place: free, being written, ready, being encoded,
\* held, or quarantined (pipeline.rs:2002-2025, 2298-2307, 2604-2614).
Places == <<ToSet(free), {m.slot : m \in ToSet(ready)}, poisoned,
            {m.slot : m \in {staging} \ {None}}, {m.slot : m \in {msg} \ {None}},
            {held} \ {None}>>

OnePlace ==
  /\ IsInjective(free)
  /\ \A i, j \in DOMAIN ready : ready[i].slot = ready[j].slot => i = j
  /\ \A i, j \in DOMAIN Places : i # j => Places[i] \cap Places[j] = {}
  /\ Slots = UNION Range(Places)

\* While the encode thread runs, the keyed mutex of a slot is where its next user
\* expects it, or was never released by the encoder: the capture callback waits for no picture in the
\* encoder (pipeline.rs:2276-2279), and no slot is written while it is read.
KeysAgree ==
  engine = "nvenc" /\ at # "ended" =>
    \A s \in Slots \ poisoned :
      mutex[s] \in IF staging # None /\ staging.slot = s
                     THEN IF written THEN {"encoder"} ELSE {"capturing"}
                   ELSE IF \E m \in ToSet(ready) : m.slot = s THEN {"encoder"}
                   ELSE IF msg # None /\ msg.slot = s
                     THEN IF at = "encoding" THEN {"encoding"} ELSE {"encoder"}
                   ELSE {"writer", "encoding"}

SlotCustody == OnePlace /\ KeysAgree

\* The last bitrate asked for is the encoder's, or waits where the encode thread
\* will find it: neither a refusal nor a newer target at the wrong moment loses
\* it (pipeline.rs:139-147, 2795-2818).
NewestKept == newest \in {current, target, pending}

\* The held slot was not released after it was last encoded or drawn on.
HeldStuck == at = "top" /\ held # None /\ mutex[held] = "encoding"

\* Once there is a picture to repeat, a keyframe asked for is tried, moving desktop
\* or not, unless a poisoned slot takes it along, the held slot can no longer be
\* acquired, or the thread is gone (pipeline.rs:2487-2494, 2663-2670).
KeyframeTried ==
  asked = "owed" /\ held # None
    ~> asked # "owed" \/ at = "ended" \/ HeldStuck

=============================================================================
