----------------------------- MODULE LossRepair -----------------------------
(***************************************************************************)
(* Recovery from loss without a keyframe: the RTP writer records every     *)
(* packet it sends (congestion.rs: SendHistory), the RTCP reader turns the *)
(* client's transport-wide reports into receipts for whole frames          *)
(* (congestion.rs: interpret) and leaves them in RepairState (repair.rs),  *)
(* and the encode thread marks and uses long-term references by them       *)
(* (windows_utils/streamer/pipeline.rs:2708-2732).                         *)
(*                                                                         *)
(* A step is one lock region or one atomic access.  Packets keep their     *)
(* order and arrive or not; a report covers everything since the last one  *)
(* and may be lost, or overtaken by a later one.  A frame is the encoder's *)
(* frame index; the capture instant that stands for it on the transport's  *)
(* side is the same thing here, as long as the map between them holds it.  *)
(***************************************************************************)
EXTENDS Integers, Sequences, SequencesExt, FiniteSetsExt

CONSTANTS
  None,
  SlotCount,      \* the encoder's long-term reference slots
  Parts,          \* packets of a frame
  Wrap,           \* sequence numbers wrap: 2^16, at least twice the history
  HistoryCap,     \* SEND_HISTORY
  TallyCap,       \* FRAME_TALLIES
  LostCap,        \* INVALIDATE_CAPACITY
  BroadcastCap,   \* BROADCAST_CAPACITY
  MaxFrames,      \* bound: frames encoded
  MaxReports      \* bound: reports under way at a time

VARIABLES
  \* the encode thread
  step,       \* where it stands: "idle", "invalidated", "decided", "marked"
  action,     \* the RepairAction it took
  next,       \* next_frame_index
  nextSlot,   \* next_ltr_slot
  used,       \* history: the references the last picture was confined to
  \* RepairState
  mapped,     \* the frames the map knows
  lost,       \* frames to invalidate
  slots,      \* what each long-term slot holds
  acked,      \* acked_slots
  ackedIndex, \* acked_index
  ltrSlots,   \* ltr_slots
  repairWanted, markWanted,
  \* the RTP writer
  queue,      \* frames broadcast to it
  writing,    \* the frame it is sending and the packets it has recorded of it
  history,    \* SendHistory.ring
  tallies,    \* SendHistory.frames
  \* the RTCP reader
  receipts,   \* what the last report decided: [ack, lost]
  copied,     \* acknowledge's clone of the slots, with the index it compares to
  \* the client and the network
  sent,       \* history: every packet, in order: its frame, and whether it arrived
  reports,    \* reports under way
  reported    \* how many packets the client has reported on

coder   == <<step, action, next, nextSlot, used>>
repair  == <<mapped, lost, slots, acked, ackedIndex, ltrSlots, repairWanted, markWanted>>
writer  == <<queue, writing, history, tallies>>
reader  == <<receipts, copied>>
network == <<sent, reports, reported>>
vars    == <<coder, repair, writer, reader, network>>

Slots  == 0..(SlotCount - 1)
Frames == 1..MaxFrames
NoAction  == [mark |-> FALSE, use |-> {}]
NoReceipt == [ack |-> None, lost |-> {}]

TypeOK ==
  /\ step \in {"idle", "invalidated", "decided", "marked"}
  /\ action \in [mark : BOOLEAN, use : SUBSET Slots]
  /\ next \in 1..(MaxFrames + 1) /\ nextSlot \in Slots
  /\ used \subseteq Slots
  /\ mapped \subseteq Frames /\ ackedIndex \in {0} \cup Frames
  /\ lost \in Seq(Frames) /\ Len(lost) <= LostCap
  /\ slots \in [Slots -> Frames \cup {None}]
  /\ acked \subseteq Slots /\ ltrSlots \in {0, SlotCount}
  /\ repairWanted \in BOOLEAN /\ markWanted \in BOOLEAN
  /\ queue \in Seq(Frames) /\ Len(queue) <= BroadcastCap
  /\ writing = None \/ writing \in [frame : Frames, part : 0..Parts]
  /\ history \in Seq([seq : 0..(Wrap - 1), frame : Frames]) /\ Len(history) <= HistoryCap
  /\ \A i \in DOMAIN tallies : /\ tallies[i].frame \in Frames
                               /\ tallies[i].sent \in 1..Parts
                               /\ tallies[i].received + tallies[i].lost <= tallies[i].sent
  /\ Len(tallies) <= TallyCap
  /\ receipts.ack \in Frames \cup {None} /\ receipts.lost \subseteq Frames
  /\ copied = None \/ copied \in [slots : [Slots -> Frames \cup {None}], index : Frames]
  /\ sent \in Seq([frame : Frames, arrived : BOOLEAN])
  /\ reported \in 0..Len(sent)

Init ==
  /\ step = "idle" /\ action = NoAction /\ next = 1 /\ nextSlot = 0 /\ used = {}
  /\ mapped = {} /\ lost = <<>> /\ slots = [s \in Slots |-> None]
  /\ acked = {} /\ ackedIndex = 0 /\ ltrSlots = SlotCount
  /\ repairWanted = FALSE /\ markWanted = TRUE   \* set_ltr_slots
  /\ queue = <<>> /\ writing = None /\ history = <<>> /\ tallies = <<>>
  /\ receipts = NoReceipt /\ copied = None
  /\ sent = <<>> /\ reports = {} /\ reported = 0

-----------------------------------------------------------------------------
\* Onto a queue that drops its oldest entry when it is full.
Push(q, x, cap) == Append(IF Len(q) = cap THEN Tail(q) ELSE q, x)

CanRepair == ltrSlots > 0 /\ acked # {}

(* The encode thread.                                                      *)

\* A captured frame: what was lost is dropped from the reference set, or the
\* engine cannot do that and repairs end for this session.
TakeLost ==
  /\ step = "idle" /\ next <= MaxFrames
  /\ lost' = <<>>
  /\ \/ UNCHANGED <<slots, ltrSlots, markWanted>>
     \/ lost # <<>> /\ ltrSlots' = 0 /\ slots' = [s \in Slots |-> None] /\ UNCHANGED markWanted
  /\ step' = "invalidated"
  /\ UNCHANGED <<action, next, nextSlot, used, mapped, acked, ackedIndex, repairWanted,
                 writer, reader, network>>

TakeAction ==
  /\ step = "invalidated"
  /\ action' = [mark |-> markWanted, use |-> IF repairWanted THEN acked ELSE {}]
  /\ markWanted' = FALSE /\ repairWanted' = FALSE
  /\ step' = "decided"
  /\ UNCHANGED <<next, nextSlot, used, mapped, lost, slots, acked, ackedIndex, ltrSlots,
                 writer, reader, network>>

\* mark_ltr and note_marked: the encoder has slots even when the transport has
\* been told that there are none.
Mark ==
  /\ step = "decided"
  /\ step' = "marked"
  /\ IF action.mark
       THEN /\ nextSlot' = (nextSlot + 1) % SlotCount
            /\ slots' = IF ltrSlots = 0 THEN slots ELSE [slots EXCEPT ![nextSlot] = next]
            /\ acked' = acked \ {nextSlot}
       ELSE UNCHANGED <<nextSlot, slots, acked>>
  /\ UNCHANGED <<action, next, used, mapped, lost, ackedIndex, ltrSlots, repairWanted, markWanted,
                 writer, reader, network>>

\* The picture is encoded, noted and broadcast, or the encode fails.  A keyframe
\* predicts from nothing.
Encode ==
  /\ step = "marked"
  /\ step' = "idle" /\ action' = NoAction
  /\ \/ /\ used' = action.use \/ used' = {}
        /\ mapped' = mapped \cup {next}
        /\ queue' = Push(queue, next, BroadcastCap)
        /\ next' = next + 1
     \/ used' = {} /\ UNCHANGED <<mapped, queue, next>>
  /\ UNCHANGED <<nextSlot, lost, slots, acked, ackedIndex, ltrSlots, repairWanted, markWanted,
                 writing, history, tallies, reader, network>>

\* A keepalive (ring_keepalive) takes an index too, and is never noted.
Repeat ==
  /\ step = "idle" /\ 1 < next /\ next <= MaxFrames
  /\ queue' = Push(queue, next, BroadcastCap)
  /\ next' = next + 1
  /\ used' = {}
  /\ UNCHANGED <<step, action, nextSlot, repair, writing, history, tallies, reader, network>>

-----------------------------------------------------------------------------
(* The RTP writer.                                                         *)

\* request_repair, by the writer when its broadcast lagged, or by the state
\* callback; otherwise a keyframe is asked for.
RequestRepair ==
  /\ CanRepair
  /\ repairWanted' = TRUE
  /\ UNCHANGED <<coder, mapped, lost, slots, acked, ackedIndex, ltrSlots, markWanted,
                 writer, reader, network>>

TakeFrame ==
  /\ writing = None /\ queue # <<>>
  /\ writing' = [frame |-> Head(queue), part |-> 0]
  /\ queue' = Tail(queue)
  /\ UNCHANGED <<coder, repair, history, tallies, reader, network>>

\* The tally of the frame that is being sent, or a new one.
Tally(f) ==
  IF tallies # <<>> /\ Last(tallies).frame = f
    THEN [tallies EXCEPT ![Len(tallies)].sent = @ + 1]
    ELSE Push(tallies, [frame |-> f, sent |-> 1, received |-> 0, lost |-> 0], TallyCap)

\* SendHistory::record, and the packet goes out.
Record ==
  /\ writing # None
  /\ history' = Push(history, [seq |-> Len(sent) % Wrap, frame |-> writing.frame], HistoryCap)
  /\ tallies' = Tally(writing.frame)
  /\ writing' = IF writing.part + 1 = Parts THEN None ELSE [writing EXCEPT !.part = @ + 1]
  /\ \E arrives \in BOOLEAN : sent' = Append(sent, [frame |-> writing.frame, arrived |-> arrives])
  /\ UNCHANGED <<coder, repair, queue, reader, reports, reported>>

-----------------------------------------------------------------------------
(* The client and the network.                                             *)

\* A report on every packet up to the newest that arrived.
Report ==
  /\ Cardinality(reports) < MaxReports
  /\ \E n \in (reported + 1)..Len(sent) :
       /\ sent[n].arrived
       /\ \A i \in (n + 1)..Len(sent) : ~sent[i].arrived
       /\ reports' = reports \cup {[base |-> reported + 1, top |-> n]}
       /\ reported' = n
  /\ UNCHANGED <<coder, repair, writer, reader, sent>>

\* A report is lost.
ReportLost ==
  /\ \E r \in reports : reports' = reports \ {r}
  /\ UNCHANGED <<coder, repair, writer, reader, sent, reported>>

-----------------------------------------------------------------------------
(* The RTCP reader: interpret.                                             *)

\* lookup: the packet that carries a sequence number, if it is remembered.
Lookup(n) == {i \in DOMAIN history : history[i].seq = (n - 1) % Wrap}

\* Packets of frame f the report covers that did, or did not, arrive.
Verdicts(r, f, arrived) ==
  Cardinality({n \in r.base..r.top : /\ sent[n].arrived = arrived
                                     /\ \E i \in Lookup(n) : history[i].frame = f})

Noted(r) ==
  [i \in DOMAIN tallies |->
     [tallies[i] EXCEPT !.received = @ + Verdicts(r, tallies[i].frame, TRUE),
                        !.lost = @ + Verdicts(r, tallies[i].frame, FALSE)]]

\* Mutant: a frame is decided as soon as one packet of it is.
DecidedEarly(t) == t.received + t.lost >= 1

Decided(t) == t.received + t.lost >= t.sent

Intact(t) == t.lost = 0 /\ t.received >= t.sent

\* take_decided_frames: from the front, up to the first that is undecided.
Prefix(ts) == SubSeq(ts, 1, Min({Len(ts) + 1} \cup {i \in DOMAIN ts : ~Decided(ts[i])}) - 1)

\* retire_through
Retired(r) ==
  LET ahead(p) == (p.seq - (r.top - 1)) % Wrap
      kept == {i \in DOMAIN history : ahead(history[i]) \in 1..(Wrap \div 2 - 1)}
  IN IF kept = {} THEN <<>> ELSE SubSeq(history, Min(kept), Len(history))

Interpret ==
  /\ receipts = NoReceipt /\ copied = None
  /\ \E r \in reports :
       /\ Len(sent) < r.base + Wrap   \* it is not late by a whole turn of the numbers
       /\ reports' = reports \ {r}
       /\ LET decided == Prefix(Noted(r))
              whole   == {decided[i].frame : i \in {j \in DOMAIN decided : Intact(decided[j])}}
              broken  == {decided[i].frame : i \in {j \in DOMAIN decided : ~Intact(decided[j])}}
          IN /\ tallies' = SubSeq(Noted(r), Len(decided) + 1, Len(tallies))
             /\ receipts' = [ack |-> IF whole = {} THEN None ELSE Max(whole), lost |-> broken]
       /\ history' = Retired(r)
  /\ UNCHANGED <<coder, repair, queue, writing, copied, sent, reported>>

\* acknowledge: the newest index moves forward and the slots are copied, then the
\* bits are set.
Acknowledge ==
  /\ receipts.ack # None
  /\ receipts' = [receipts EXCEPT !.ack = None]
  /\ IF receipts.ack \in mapped /\ receipts.ack > ackedIndex
       THEN /\ ackedIndex' = receipts.ack
            /\ copied' = [slots |-> slots, index |-> receipts.ack]
       ELSE UNCHANGED <<ackedIndex, copied>>
  /\ UNCHANGED <<coder, mapped, lost, slots, acked, ltrSlots, repairWanted, markWanted,
                 writer, network>>

SetBits ==
  /\ copied # None
  /\ LET bits == {s \in Slots : copied.slots[s] # None /\ copied.slots[s] <= copied.index}
     IN /\ acked' = acked \cup bits
        /\ markWanted' = (markWanted \/ bits # {})
  /\ copied' = None
  /\ UNCHANGED <<coder, mapped, lost, slots, ackedIndex, ltrSlots, repairWanted,
                 writer, receipts, network>>

\* Frames are sent in the order of their numbers, and so the list of those that were lost
\* is the set of them, the oldest first.
NoteLost ==
  /\ receipts.ack = None /\ copied = None /\ receipts.lost # {}
  /\ LET f == Min(receipts.lost)
         room == IF Len(lost) = LostCap THEN Tail(lost) ELSE lost
     IN lost' = IF f \notin mapped THEN lost
                ELSE IF f \in ToSet(room) THEN room ELSE Append(room, f)
  /\ receipts' = [receipts EXCEPT !.lost = @ \ {Min(@)}]
  /\ UNCHANGED <<coder, mapped, slots, acked, ackedIndex, ltrSlots, repairWanted, markWanted,
                 writer, copied, network>>

-----------------------------------------------------------------------------
Coder  == TakeLost \/ TakeAction \/ Mark \/ Encode \/ Repeat
Writer == RequestRepair \/ TakeFrame \/ Record
Client == Report \/ ReportLost
ReaderStep == Interpret \/ Acknowledge \/ SetBits \/ NoteLost

Next == Coder \/ Writer \/ Client \/ ReaderStep

Spec == Init /\ [][Next]_vars

-----------------------------------------------------------------------------
(* What the receipts are worth.                                            *)

Broken(f) == \E n \in DOMAIN sent : sent[n].frame = f /\ ~sent[n].arrived

\* A frame is only reported lost when one of its packets was: wrapped numbers,
\* retired packets and reports that overtake each other give no wrong verdict
\* (congestion.rs:132-200, 283-352).
LostIsTrue == \A f \in ToSet(lost) \cup receipts.lost : Broken(f)

\* A repair frame predicts from no picture the client is known to miss a packet of
\* (repair.rs:108-113: "Asking for a repair against a reference the client never
\* received produces a picture it cannot decode"; violated).
RepairHeld ==
  [][\A s \in used' \ used : slots[s] # None => ~Broken(slots[s])]_vars

=============================================================================
