------------------------------ MODULE InputPath ------------------------------
(***************************************************************************)
(* The remote input of one session, from the page to the desktop           *)
(* (streamer/static/input.js, streamer/webrtc_session.rs: on_message,      *)
(* SessionHandle::close; streamer/input/mod.rs; streamer/input/windows.rs).*)
(* Moves go over a channel that loses and reorders, everything else over   *)
(* one that does neither; the injector's thread takes from the two queues  *)
(* behind them, and from the one that tells it to leave, in any order.     *)
(*                                                                         *)
(* One mouse button stands for the button word, a frame for its number     *)
(* among those sent.  The page is one that has had a PONG: before that its *)
(* frames carry no number, and none is behind.  Pen and touch, wheel,      *)
(* text, clipboard and files are left out, and so is the wire format.      *)
(***************************************************************************)
EXTENDS Integers, FiniteSets, Sequences

CONSTANTS
  Keys,
  None,
  SeqSpace,   \* values of a sequence number, more than twice the frames
  FirstSeqs,  \* values of the page's counter when the session starts
  FastCap,    \* FAST_CAP
  MaxFrames,  \* bound: frames on the fast channel
  MaxActs     \* bound: presses, releases, keys, losses of focus or connection, toggles

VARIABLES
  first,      \* fastSeq when the session starts
  sent,       \* frames sent on the fast channel
  acts,
  tab,        \* the page: the button, the keys, both gates
  pending,    \* the word of what waits for flushMoves, of each kind
  onFast, onReliable,      \* the data channels
  link,       \* the connection; stop: the injector's stop channel
  stop,
  control,    \* LiveInput.control
  relief,     \* a frame whose try_send found the queue full
  fast, reliable,          \* the injector's queues
  inj,        \* the injector: whether it runs, its marks, and what it holds
  cursor      \* the number of the frame that moved the cursor last

wire   == <<onFast, onReliable>>
queues == <<relief, fast, reliable>>
user   == <<first, sent, acts, tab, pending>>
vars   == <<user, wire, link, stop, control, queues, inj, cursor>>

Words == {"up", "down"}

Init ==
  /\ first \in FirstSeqs /\ sent = 0 /\ acts = 0
  /\ tab = [button |-> "up", keys |-> {}, mouseGate |-> TRUE, absGate |-> TRUE]
  /\ pending = [delta |-> None, stroke |-> None, move |-> None]
  /\ onFast = {} /\ onReliable = <<>>
  /\ link = "open" /\ stop = FALSE /\ control = TRUE
  /\ relief = None /\ fast = <<>> /\ reliable = <<>>
  /\ inj = [runs |-> TRUE, highest |-> None, last |-> "up", buttons |-> "up", keys |-> {}]
  /\ cursor = 0

-----------------------------------------------------------------------------
(* The page.                                                               *)

Acts == link = "open" /\ acts < MaxActs /\ acts' = acts + 1

\* Frames of one task: kinds and words, in their order.
SendFast(frames) ==
  /\ sent + Len(frames) <= MaxFrames
  /\ sent' = sent + Len(frames)
  /\ onFast' = onFast \cup
       {[kind |-> frames[k].kind, word |-> frames[k].word, n |-> sent + k,
         seq |-> (first + sent + k) % SeqSpace] : k \in 1..Len(frames)}

Frame(kind, word) == [kind |-> kind, word |-> word]
SendReliable(kind, key) == onReliable' = Append(onReliable, [kind |-> kind, key |-> key])

\* onPointerMove under pointer lock: one delta at once, the next with the flush.
Delta ==
  /\ link = "open"
  /\ IF tab.mouseGate /\ pending.delta = None
     THEN SendFast(<<Frame("delta", tab.button)>>) /\ tab' = [tab EXCEPT !.mouseGate = FALSE] /\ UNCHANGED pending
     ELSE pending' = [pending EXCEPT !.delta = tab.button] /\ UNCHANGED <<sent, tab, onFast>>
  /\ UNCHANGED <<first, acts, onReliable, link, stop, control, queues, inj, cursor>>

\* queueSingleMove: one sample, and no stroke of this pointer.
Move ==
  /\ link = "open" /\ pending.stroke = None
  /\ IF tab.absGate /\ pending.move = None
     THEN SendFast(<<Frame("move", tab.button)>>) /\ tab' = [tab EXCEPT !.absGate = FALSE] /\ UNCHANGED pending
     ELSE pending' = [pending EXCEPT !.move = tab.button] /\ UNCHANGED <<sent, tab, onFast>>
  /\ UNCHANGED <<first, acts, onReliable, link, stop, control, queues, inj, cursor>>

\* pushStroke: coalesced samples, in one batch; the emptied stroke stays until the flush.
Stroke ==
  /\ link = "open"
  /\ IF tab.absGate
     THEN /\ SendFast(<<Frame("move", tab.button)>>)
          /\ tab' = [tab EXCEPT !.absGate = FALSE]
          /\ pending' = [pending EXCEPT !.stroke = "empty", !.move = None]
     ELSE pending' = [pending EXCEPT !.stroke = tab.button, !.move = None] /\ UNCHANGED <<sent, tab, onFast>>
  /\ UNCHANGED <<first, acts, onReliable, link, stop, control, queues, inj, cursor>>

Waiting(kind) == IF pending[kind] \in Words
                 THEN <<Frame(IF kind = "delta" THEN "delta" ELSE "move", pending[kind])>> ELSE <<>>

\* flushMoves
Flush ==
  /\ link = "open" /\ ~(tab.mouseGate /\ tab.absGate)
  /\ SendFast(Waiting("delta") \o Waiting("stroke") \o Waiting("move"))
  /\ tab' = [tab EXCEPT !.mouseGate = TRUE, !.absGate = TRUE]
  /\ pending' = [delta |-> None, stroke |-> None, move |-> None]
  /\ UNCHANGED <<first, acts, onReliable, link, stop, control, queues, inj, cursor>>

\* onPointerDown: a single move that waits is dropped; a stroke and a delta are not.
Press ==
  /\ Acts /\ tab.button = "up"
  /\ tab' = [tab EXCEPT !.button = "down"]
  /\ pending' = [pending EXCEPT !.move = None]
  /\ SendReliable("down", None)
  /\ UNCHANGED <<first, sent, onFast, link, stop, control, queues, inj, cursor>>

\* endPointer: a stroke is sent first.
Release ==
  /\ Acts /\ tab.button = "down"
  /\ tab' = [tab EXCEPT !.button = "up"]
  /\ SendFast(Waiting("stroke"))
  /\ pending' = [pending EXCEPT !.stroke = None, !.move = None]
  /\ SendReliable("up", None)
  /\ UNCHANGED <<first, link, stop, control, queues, inj, cursor>>

\* onKeyDown and onKeyUp.
Key(k) ==
  /\ Acts
  /\ IF k \in tab.keys
     THEN tab' = [tab EXCEPT !.keys = @ \ {k}] /\ SendReliable("keyup", k)
     ELSE tab' = [tab EXCEPT !.keys = @ \cup {k}] /\ SendReliable("keydown", k)
  /\ UNCHANGED <<first, sent, pending, onFast, link, stop, control, queues, inj, cursor>>

\* The window loses the focus: FOCUS_STATE, and clearHeld.  It sees no key go up.
Blur ==
  /\ Acts
  /\ SendReliable("focus", None)
  /\ tab' = [tab EXCEPT !.keys = {}, !.mouseGate = TRUE, !.absGate = TRUE]
  /\ pending' = [delta |-> None, stroke |-> None, move |-> None]
  /\ UNCHANGED <<first, sent, onFast, link, stop, control, queues, inj, cursor>>

PageStep == Delta \/ Move \/ Stroke \/ Flush \/ Press \/ Release \/ Blur \/ \E k \in Keys : Key(k)

-----------------------------------------------------------------------------
(* The connection and its handlers.                                        *)

\* The command that turns remote control off, or on again.
SetControl ==
  /\ Acts
  /\ control' = ~control
  /\ UNCHANGED <<first, sent, tab, pending, wire, link, stop, queues, inj, cursor>>

\* on_message and route: a fast event goes on the bounded queue if there is room.  One
\* that is lost is never routed.
RouteFast(f) ==
  /\ relief = None
  /\ onFast' = onFast \ {f}
  /\ IF ~control THEN UNCHANGED <<relief, fast>>
     ELSE IF Len(fast) < FastCap THEN fast' = Append(fast, f) /\ UNCHANGED relief
     ELSE relief' = f /\ UNCHANGED fast
  /\ UNCHANGED <<user, onReliable, link, stop, control, reliable, inj, cursor>>

\* The queue was full: its head makes room, whatever the injector has taken meanwhile.
Relieve ==
  /\ relief # None
  /\ relief' = None
  /\ fast' = Append(IF fast = <<>> THEN <<>> ELSE Tail(fast), relief)
  /\ UNCHANGED <<user, wire, link, stop, control, reliable, inj, cursor>>

Queue(kind, key) == reliable' = Append(reliable, [kind |-> kind, key |-> key])

RouteReliable ==
  /\ onReliable # <<>>
  /\ onReliable' = Tail(onReliable)
  /\ IF control THEN Queue(Head(onReliable).kind, Head(onReliable).key) ELSE UNCHANGED reliable
  /\ UNCHANGED <<user, onFast, link, stop, control, relief, fast, inj, cursor>>

\* The state callback releases what is held, control or not, when the connection is lost;
\* it may come back.
Disconnected ==
  /\ Acts
  /\ Queue("focus", None)
  /\ UNCHANGED <<first, sent, tab, pending, wire, link, stop, control, relief, fast, inj, cursor>>

\* SessionHandle::close, up to the end of pc.close(): nothing more arrives.
Close ==
  /\ link = "open"
  /\ link' = "closing" /\ onFast' = {} /\ onReliable' = <<>>
  /\ UNCHANGED <<user, stop, control, queues, inj, cursor>>

\* The callback for Closed, which close() does not wait for.
ClosedSeen ==
  /\ link = "closing"
  /\ link' = "closed"
  /\ Queue("focus", None)
  /\ UNCHANGED <<user, wire, stop, control, relief, fast, inj, cursor>>

\* Mutant: the handle lets go of its sender; the handlers keep theirs.
DropSender == UNCHANGED stop

\* InjectorTx::shutdown
Shutdown == stop' = TRUE

CloseGoesOn ==
  /\ link # "open" /\ ~stop
  /\ Shutdown
  /\ UNCHANGED <<user, wire, link, control, queues, inj, cursor>>

-----------------------------------------------------------------------------
(* The injector.                                                           *)

\* release_all
ReleaseAll(i) == [i EXCEPT !.buttons = "up", !.keys = {}]

\* Injector::dispatch
Dispatch(i, e) ==
  CASE e.kind = "keydown" -> [i EXCEPT !.keys = @ \cup {e.key}]
    [] e.kind = "keyup"   -> [i EXCEPT !.keys = @ \ {e.key}]
    [] e.kind = "focus"   -> ReleaseAll(i)
    [] OTHER              -> [i EXCEPT !.buttons = e.kind]

TakeReliable ==
  /\ inj.runs /\ reliable # <<>>
  /\ reliable' = Tail(reliable)
  /\ inj' = Dispatch(inj, Head(reliable))
  /\ UNCHANGED <<user, wire, link, stop, control, relief, fast, cursor>>

\* Mutant: the numbers are compared as they are.
IsLarger(seq, last) == seq > last

\* seq_is_newer: the difference as a signed number.
IsNewer(seq, last) == LET d == (seq - last) % SeqSpace IN d > 0 /\ 2 * d < SeqSpace

Behind(f) == inj.highest # None /\ ~IsNewer(f.seq, inj.highest)

\* A frame older than 50 ms: the cursor has been elsewhere since.
TooOld ==
  /\ inj.runs /\ fast # <<>>
  /\ fast' = Tail(fast)
  /\ UNCHANGED <<user, wire, link, stop, control, relief, reliable, inj, cursor>>

\* A move that is behind is dropped; a delta is motion that nothing repeats, and keeps all
\* but its word.  Only a newer number advances the mark.
TakeFast ==
  /\ inj.runs /\ fast # <<>>
  /\ fast' = Tail(fast)
  /\ LET f    == Head(fast)
         late == Behind(f)
         word == IF late THEN inj.last ELSE f.word
         mark == IF late THEN inj.highest ELSE f.seq
     IN IF f.kind = "move"
        THEN IF late THEN UNCHANGED <<inj, cursor>>
             ELSE /\ inj' = [inj EXCEPT !.highest = mark, !.buttons = word]
                  /\ cursor' = f.n
        ELSE inj' = [inj EXCEPT !.highest = mark, !.last = word, !.buttons = word] /\ UNCHANGED cursor
  /\ UNCHANGED <<user, wire, link, stop, control, relief, reliable>>

\* The stop channel is taken, whatever the others hold.
Leave ==
  /\ inj.runs /\ stop
  /\ inj' = [ReleaseAll(inj) EXCEPT !.runs = FALSE]
  /\ UNCHANGED <<user, wire, link, stop, control, queues, cursor>>

InjectorStep == TakeReliable \/ TooOld \/ TakeFast \/ Leave

-----------------------------------------------------------------------------
Next ==
  \/ PageStep
  \/ SetControl \/ Disconnected \/ Close \/ ClosedSeen \/ CloseGoesOn
  \/ \E f \in onFast : RouteFast(f)
  \/ Relieve \/ RouteReliable
  \/ InjectorStep

\* The closing task goes on, and so do the handler of a queue that was full and the
\* injector's thread, whichever of what is ready select! picks.
Fairness == WF_vars(CloseGoesOn) /\ WF_vars(Relieve) /\ WF_vars(InjectorStep)

Spec == Init /\ [][Next]_vars /\ Fairness

-----------------------------------------------------------------------------
(* What a hand at the page may count on.                                   *)

TypeOK ==
  /\ first \in FirstSeqs /\ sent \in 0..MaxFrames /\ acts \in 0..MaxActs
  /\ tab.button \in Words /\ tab.keys \subseteq Keys
  /\ pending \in [{"delta", "stroke", "move"} -> Words \cup {"empty", None}]
  /\ link \in {"open", "closing", "closed"}
  /\ Len(fast) <= FastCap
  /\ inj.highest \in 0..(SeqSpace - 1) \cup {None} /\ inj.last \in Words /\ inj.buttons \in Words
  /\ inj.keys \subseteq Keys /\ cursor \in 0..sent

\* Numbered moves put the cursor where the pointer went, and never back, however the
\* network and the two queues have shuffled them and wherever the page's counter wraps
\* (input/mod.rs:531-548, protocol.rs:119-127).
CursorForward == [][cursor' >= cursor]_cursor

\* When a session ends its injector leaves, though the handlers of the connection still
\* hold senders, and nothing that came before or after is held down on the host
\* (input/mod.rs:417-426, webrtc_session.rs:802-830).
EndsReleased ==
  link # "open" ~> ~inj.runs /\ inj.buttons = "up" /\ inj.keys = {}

\* A delta that is behind moves the pointer and presses or releases nothing
\* (input/mod.rs:404-406, 500-503).  It may: its word is replaced by the last delta's, and
\* what a press, or a move that was not a delta, has injected since is not in that.
LateDeltaKeepsButtons ==
  [][fast # <<>> /\ fast' = Tail(fast) /\ Head(fast).kind = "delta" /\ Behind(Head(fast))
     => inj'.buttons = inj.buttons]_vars

=============================================================================
