----------------------------- MODULE ClientPage -----------------------------
(***************************************************************************)
(* The join page in a browser, from Connect to the picture and back: its   *)
(* start() with its retries and its ladder of video tiers, the poll of     *)
(* /reconfig, and the deadlines that keep it from waiting for ever         *)
(* (src-tauri/src/streamer/static/index.html), against a host that opens   *)
(* and removes session rows, counts edits in their epochs and kicks        *)
(* (streamer/session.rs; streamer/server.rs: process_reconfig).            *)
(*                                                                         *)
(* The page has one thread: a step runs from one await to the next.  A     *)
(* start() that a later one or a teardown has overtaken ends at its next   *)
(* await without a trace, so only the newest is kept; an answer to the     *)
(* poll is never stale, so every poll under way is.  Deadlines may pass    *)
(* whenever they are armed.  Left out: the hold of the stage for ICE       *)
(* candidates (frames come after ICE has connected, which ends it), the    *)
(* audio sink, and the silence that tells a lost link from a lost poll.    *)
(***************************************************************************)
EXTENDS Naturals

CONSTANTS
  None,
  Engines,      \* the browsers there are, out of "both", "script" and "none"
  MaxEdits,     \* bound: settings the host's user changes
  MaxEvents,    \* bound: presses of Connect, rotations, kicks and answers whose body is
                \* lost after their head has arrived, altogether
  MaxRows,      \* bound: rows the host opens
  MaxPolls      \* bound: polls under way at a time

VARIABLES
  engine,         \* the browser has "both" transforms, only the "script" one, or "none"
  stage,          \* "form", "joining" (neither), "live" (isLive), "rebuilding" (and
                  \* reconfiguring, with its deadline)
  step,           \* where the newest start(), or the connection it made, stands
  fallback,       \* usingFallback
  legacy,         \* forceLegacyTransform
  trickleOff,
  answerRetried,
  poll,           \* reconfigPoll is armed
  polls,          \* requests of /reconfig under way
  seen,           \* reconfigEpoch and kickEpoch, with the row they were read from
  join,           \* currentJoinId: the row it names; 0 when empty
  row,            \* host: the row of this page's session; 0 when there is none
  rows,           \* host: rows opened so far
  epoch, kick,    \* host: the row's reconfig_epoch and kick_epoch
  bye,            \* host: a bye is on its way
  fresh,          \* host: no setting has changed since those of the newest POST were read
  thrown,         \* history: the host has ended the page's session, and nobody has
                  \* pressed Connect since
  events          \* what MaxEvents bounds

flags == <<engine, fallback, legacy, trickleOff, answerRetried>>
polling == <<poll, polls, seen>>
host  == <<row, rows, epoch, kick, bye, fresh>>
vars  == <<flags, stage, step, polling, join, host, thrown, events>>

Steps == {"none", "preparing", "posted", "taken", "body", "checking",
          "connected", "showing", "dead"}
Reading == [epoch : 0..MaxEdits, kick : 0..MaxEvents, row : 0..MaxRows]
Poll    == [base : BOOLEAN, join : 0..MaxRows, reply : Reading \cup {None}]
Pending(i) == polls[i] # None

TypeOK ==
  /\ engine \in Engines
  /\ stage \in {"form", "joining", "live", "rebuilding"} /\ step \in Steps
  /\ {fallback, legacy, trickleOff, answerRetried, poll, bye, fresh, thrown} \subseteq BOOLEAN
  /\ polls \in [1..MaxPolls -> Poll \cup {None}]
  /\ seen \in Reading \cup {None}
  /\ join \in 0..rows /\ row \in 0..rows /\ rows \in 0..MaxRows
  /\ epoch \in 0..MaxEdits /\ kick \in 0..MaxEvents
  /\ legacy => engine = "both"

Init ==
  /\ engine \in Engines
  /\ stage = "form" /\ step = "none"
  /\ fallback = FALSE /\ legacy = FALSE /\ trickleOff = FALSE /\ answerRetried = FALSE
  /\ poll = FALSE /\ polls = [i \in 1..MaxPolls |-> None] /\ seen = None
  /\ join = 0 /\ row = 0 /\ rows = 0 /\ epoch = 0 /\ kick = 0 /\ bye = FALSE
  /\ fresh = TRUE /\ thrown = FALSE
  /\ events = 0

Counted == events < MaxEvents /\ events' = events + 1

\* The video path of the newest start(): its flags do not change under it.
Tier == IF engine = "none" \/ fallback THEN "video" ELSE IF legacy THEN "legacy" ELSE "script"

-----------------------------------------------------------------------------
(* What the page's handlers are made of.                                   *)

\* start(): teardownSession, and a new connection.
Start == step' = "preparing" /\ poll' = FALSE

\* restorePreJoinPage: the page as it was before Connect, the join kept or not.
Restore(keep) ==
  /\ stage' = "form" /\ step' = "none" /\ poll' = FALSE
  /\ fallback' = FALSE
  /\ join' = IF keep THEN join ELSE 0

\* A start() again in the stage there is.
Again ==
  /\ Start
  /\ UNCHANGED <<stage, join>>

FallBackToVideo == fallback' = TRUE /\ Again /\ UNCHANGED legacy

RetryWithLegacy ==
  IF legacy \/ engine # "both" THEN FallBackToVideo
  ELSE legacy' = TRUE /\ Again /\ UNCHANGED fallback

\* reconfigure()
Rebuild ==
  /\ stage' = "rebuilding" /\ fallback' = FALSE
  /\ Start
  /\ UNCHANGED join

\* Mutant: the probe is armed whatever the stage.
ArmProbeAnywhere == poll' = TRUE

\* armProbe()
ArmProbe == poll' = (poll \/ stage = "live")

\* A free place for a request of /reconfig.
Request(i, base) ==
  /\ ~Pending(i)
  /\ polls' = [polls EXCEPT ![i] = [base |-> base, join |-> join, reply |-> None]]

\* onStreamLive, with startReconfigPoll: the first takes its baseline.
StreamLive ==
  /\ step' = "showing" /\ stage' = "live"
  /\ IF poll THEN UNCHANGED <<poll, polls>>
     ELSE IF seen = None THEN UNCHANGED poll /\ \E i \in 1..MaxPolls : Request(i, TRUE)
     ELSE poll' = TRUE /\ UNCHANGED polls

-----------------------------------------------------------------------------
(* The user and the device.                                                *)

Submit ==
  /\ stage = "form" /\ Counted
  /\ stage' = "joining"
  /\ fallback' = FALSE /\ answerRetried' = FALSE
  /\ seen' = None
  /\ Start
  /\ thrown' = FALSE
  /\ UNCHANGED <<engine, legacy, trickleOff, polls, join, host>>

\* pagehide
Leave ==
  /\ stage # "form"
  /\ Restore(FALSE)
  /\ UNCHANGED <<engine, legacy, trickleOff, answerRetried, polls, seen, host, thrown, events>>

\* relayGeomChange; while the page is rebuilding a rotation goes unnoticed.
Rotate ==
  /\ stage = "live" /\ Counted
  /\ Rebuild
  /\ UNCHANGED <<engine, legacy, trickleOff, answerRetried, polls, seen, host, thrown>>

-----------------------------------------------------------------------------
(* start().                                                                *)

\* Configurations are fetched, the worker is made, the offer goes out.
Post ==
  /\ step = "preparing"
  /\ step' = "posted"
  /\ UNCHANGED <<flags, stage, polling, join, host, thrown, events>>

\* The transform throws, or createEncodedStreams.
NoTransform ==
  /\ step = "preparing" /\ Tier # "video"
  /\ IF Tier = "script" THEN RetryWithLegacy ELSE FallBackToVideo
  /\ UNCHANGED <<engine, trickleOff, answerRetried, polls, seen, host, thrown, events>>

\* Mutant: the retry is not remembered.
HostFailedAgain ==
  /\ Again
  /\ UNCHANGED <<fallback, answerRetried>>

\* setupFailureAction for what is the host's fault: one retry.
HostFailed ==
  IF answerRetried THEN Restore(TRUE) /\ UNCHANGED answerRetried
  ELSE answerRetried' = TRUE /\ Again /\ UNCHANGED fallback

\* The host answers 5xx, not at all, or not in time; or the network fails.
PostFails ==
  /\ step \in {"posted", "taken"}
  /\ HostFailed
  /\ UNCHANGED <<engine, legacy, trickleOff, polls, seen, host, thrown, events>>

\* Wrong session or OTP.
Refused ==
  /\ step = "posted"
  /\ Restore(TRUE)
  /\ UNCHANGED <<engine, legacy, trickleOff, answerRetried, polls, seen, host, thrown, events>>

\* Any other failure of the set-up, before or after the answer.
SetupFails ==
  /\ step \in {"preparing", "posted", "body"}
  /\ IF Tier = "video" THEN Restore(TRUE) /\ UNCHANGED legacy ELSE FallBackToVideo
  /\ UNCHANGED <<engine, trickleOff, answerRetried, polls, seen, host, thrown, events>>

\* The head of the answer names the session.
Answered ==
  /\ step = "taken"
  /\ step' = "body"
  /\ answerRetried' = FALSE
  /\ join' = row
  /\ UNCHANGED <<engine, fallback, legacy, trickleOff, stage, polling, host, thrown, events>>

BodyLost ==
  /\ step = "body" /\ Counted
  /\ HostFailed
  /\ UNCHANGED <<engine, legacy, trickleOff, polls, seen, host, thrown>>

Described ==
  /\ step = "body"
  /\ step' = "checking"
  /\ UNCHANGED <<flags, stage, polling, join, host, thrown, events>>

\* trickleFailed: no resource, a refused PATCH, no acknowledgement.
TrickleFails ==
  /\ ~trickleOff /\ step \in {"body", "checking", "connected", "showing", "dead"}
  /\ trickleOff' = TRUE
  /\ IF step \in {"body", "checking"} THEN Again ELSE UNCHANGED <<stage, step, poll, join>>
  /\ UNCHANGED <<engine, fallback, legacy, answerRetried, polls, seen, host, thrown, events>>

\* oniceconnectionstatechange: on the <video> path this is the picture.
IceConnected ==
  /\ step = "checking" /\ join = row
  /\ IF Tier = "video" THEN StreamLive
     ELSE step' = "connected" /\ UNCHANGED <<stage, poll, polls>>
  /\ UNCHANGED <<flags, seen, join, host, thrown, events>>

\* The worker has painted.
Painted ==
  /\ step = "connected"
  /\ StreamLive
  /\ UNCHANGED <<flags, seen, join, host, thrown, events>>

\* linkLost, from either state handler or the link's evaluation.
LinkLost ==
  /\ step \in {"checking", "connected", "showing", "dead"}
  /\ Restore(TRUE)
  /\ UNCHANGED <<engine, legacy, trickleOff, answerRetried, polls, seen, host, thrown, events>>

\* The connection fails over a pair that works; nobody acts on that in a rebuild.
DtlsFails ==
  /\ step = "connected"
  /\ IF stage = "rebuilding" THEN step' = "dead" /\ UNCHANGED <<stage, fallback, poll, join>>
                             ELSE Restore(TRUE)
  /\ UNCHANGED <<engine, legacy, trickleOff, answerRetried, polls, seen, host, thrown, events>>

\* The watchdogs of the first frame: one rung down, or two when the transform had
\* started.
NoFrame ==
  /\ step \in {"connected", "dead"} /\ Tier # "video"
  /\ RetryWithLegacy \/ FallBackToVideo
  /\ UNCHANGED <<engine, trickleOff, answerRetried, polls, seen, host, thrown, events>>

\* The worker, the decoder or the renderer fails.
DecoderFails ==
  /\ step # "none" /\ Tier # "video"
  /\ FallBackToVideo
  /\ UNCHANGED <<engine, trickleOff, answerRetried, polls, seen, host, thrown, events>>

\* reconfigWatchdog
Deadline ==
  /\ stage = "rebuilding"
  /\ Restore(TRUE)
  /\ UNCHANGED <<engine, legacy, trickleOff, answerRetried, polls, seen, host, thrown, events>>

-----------------------------------------------------------------------------
(* The poll of /reconfig.                                                  *)

ProbeTick ==
  /\ poll
  /\ poll' = FALSE
  /\ IF stage = "live" THEN \E i \in 1..MaxPolls : Request(i, FALSE) ELSE UNCHANGED polls
  /\ UNCHANGED <<flags, stage, step, seen, join, host, thrown, events>>

\* process_reconfig: a join without a row reads as nothing.
HostReplies(i) ==
  /\ Pending(i) /\ polls[i].reply = None
  /\ polls' = [polls EXCEPT ![i].reply =
       IF polls[i].join = row /\ row # 0 THEN [epoch |-> epoch, kick |-> kick, row |-> row]
                                         ELSE [epoch |-> 0, kick |-> 0, row |-> 0]]
  /\ UNCHANGED <<flags, stage, step, poll, seen, join, host, thrown, events>>

Arrives(i) ==
  /\ Pending(i) /\ polls[i].reply # None
  /\ polls' = [polls EXCEPT ![i] = None]
  /\ seen' = polls[i].reply
  /\ UNCHANGED <<engine, legacy, trickleOff, answerRetried, host, thrown, events>>

Quietly == ArmProbe /\ UNCHANGED <<stage, step, fallback, join>>

\* The baseline is taken as it comes.
BaselineArrives(i) == Arrives(i) /\ polls[i].base /\ Quietly

\* applyReconfig compares an answer with what it knows.
Kicked(i) == seen # None /\ polls[i].reply.kick # seen.kick
Edited(i) == seen # None /\ polls[i].reply.kick = seen.kick /\ polls[i].reply.epoch # seen.epoch

\* applyReconfig: the host has ended the session.
KickArrives(i) ==
  /\ Arrives(i) /\ ~polls[i].base /\ stage = "live"
  /\ Kicked(i)
  /\ Restore(FALSE)

\* applyReconfig: a setting has changed.
EditArrives(i) ==
  /\ Arrives(i) /\ ~polls[i].base /\ stage = "live"
  /\ Edited(i)
  /\ Rebuild

NothingArrives(i) ==
  /\ Arrives(i) /\ ~polls[i].base /\ stage = "live"
  /\ ~Kicked(i) /\ ~Edited(i)
  /\ Quietly

\* A probe that finds the page no longer live changes nothing.
PollIgnored(i) ==
  /\ Pending(i) /\ ~polls[i].base /\ stage # "live"
  /\ polls' = [polls EXCEPT ![i] = None]
  /\ UNCHANGED <<flags, stage, step, poll, seen, join, host, thrown, events>>

\* Mutant: a lost probe is not followed by another.
PollLostForGood(i) ==
  /\ Pending(i) /\ (polls[i].base \/ stage = "live")
  /\ polls' = [polls EXCEPT ![i] = None]
  /\ UNCHANGED <<flags, stage, step, poll, seen, join, host, thrown, events>>

\* It is lost: the link may be given up for it, or the next probe is armed.
PollLost(i) ==
  /\ Pending(i) /\ (polls[i].base \/ stage = "live")
  /\ polls' = [polls EXCEPT ![i] = None]
  /\ Quietly
  /\ UNCHANGED <<engine, legacy, trickleOff, answerRetried, seen, host, thrown, events>>

-----------------------------------------------------------------------------
(* The host.                                                               *)

\* A POST is taken up: it continues its join, or the attempt whose answer was lost,
\* or opens a row; and the settings are read.
HostTakes ==
  /\ step = "posted"
  /\ step' = "taken" /\ fresh' = TRUE
  /\ IF row # 0 /\ (join = row \/ (join = 0 /\ ~thrown)) THEN UNCHANGED <<row, rows, epoch, kick>>
     ELSE /\ rows < MaxRows
          /\ rows' = rows + 1 /\ row' = rows + 1 /\ epoch' = 0 /\ kick' = 0
  /\ UNCHANGED <<flags, stage, polling, join, bye, thrown, events>>

\* bump_reconfig_epoch, with the change of a setting; without a row it is a stutter.
Edit ==
  /\ row # 0 /\ epoch < MaxEdits
  /\ epoch' = epoch + 1 /\ fresh' = FALSE
  /\ UNCHANGED <<flags, stage, step, polling, join, row, rows, kick, bye, thrown, events>>

\* kick_join
Kick ==
  /\ row # 0 /\ row = join /\ ~thrown /\ Counted
  /\ kick' = kick + 1
  /\ bye' = TRUE /\ thrown' = TRUE
  /\ UNCHANGED <<flags, stage, step, polling, join, row, rows, epoch, fresh>>

\* The bye reaches the page over its control channel, or it does not.
Bye ==
  /\ bye /\ step \in {"connected", "showing"} /\ join = row
  /\ bye' = FALSE
  /\ Restore(FALSE)
  /\ UNCHANGED <<engine, legacy, trickleOff, answerRetried, polls, seen, row, rows, epoch, kick,
                 fresh, thrown, events>>

ByeLost ==
  /\ bye /\ bye' = FALSE
  /\ UNCHANGED <<flags, stage, step, polling, join, row, rows, epoch, kick, fresh,
                 thrown, events>>

\* The row goes: it was ended or left, or its connection is down beyond the grace.
RowGone ==
  /\ row # 0
  /\ thrown \/ join # row \/ step \in {"none", "preparing", "posted", "checking", "dead"}
  /\ join = 0 => step # "taken"
  /\ row' = 0
  /\ UNCHANGED <<flags, stage, step, polling, join, rows, epoch, kick, bye, fresh,
                 thrown, events>>

-----------------------------------------------------------------------------
User  == Submit \/ Leave \/ Rotate
Setup == Post \/ NoTransform \/ PostFails \/ Refused \/ SetupFails \/ Answered \/ BodyLost
         \/ Described \/ TrickleFails
Link  == IceConnected \/ Painted \/ LinkLost \/ DtlsFails \/ NoFrame \/ DecoderFails \/ Deadline
Polls == \/ ProbeTick
         \/ \E i \in 1..MaxPolls : \/ HostReplies(i) \/ BaselineArrives(i) \/ KickArrives(i)
                                   \/ EditArrives(i) \/ NothingArrives(i)
                                   \/ PollIgnored(i) \/ PollLost(i)
Host  == HostTakes \/ Edit \/ Kick \/ Bye \/ ByeLost \/ RowGone

Next == User \/ Setup \/ Link \/ Polls \/ Host

Spec == Init /\ [][Next]_vars

\* Fetches end, one way or the other; the agent decides on a pair; armed deadlines
\* pass.  A poll that is lost again and again while the picture goes on would keep the
\* page ignorant for ever: the network lets one through in the end.
Fairness ==
  /\ WF_vars(Post \/ SetupFails) /\ WF_vars(PostFails \/ Answered) /\ WF_vars(Described)
  /\ WF_vars(step = "checking" /\ (IceConnected \/ LinkLost)) /\ WF_vars(Painted \/ NoFrame) /\ WF_vars(Deadline)
  /\ WF_vars(ProbeTick)
  /\ \A i \in 1..MaxPolls :
       LET arrives == BaselineArrives(i) \/ KickArrives(i) \/ EditArrives(i) \/ NothingArrives(i)
       IN SF_vars(HostReplies(i)) /\ SF_vars(arrives) /\ WF_vars(PollIgnored(i) \/ PollLost(i) \/ arrives)

FairSpec == Spec /\ Fairness

-----------------------------------------------------------------------------
(* What the page promises.                                                 *)

\* Back at the form nothing of the session is left: no start(), no connection, no
\* timer that could begin a poll again (index.html:1769-1775).
FormQuiet == stage = "form" => step = "none" /\ ~poll

\* A join under way comes to a picture or back to the form, whatever fails and
\* however often (index.html:726-729, 2245-2250).
NeverStuck == stage # "form" ~> stage = "form" \/ (stage = "live" /\ step = "showing")

\* The page knows an epoch of the row it is in that is no longer the row's.
Behind == stage = "live" /\ seen # None /\ seen.row = row /\ join = row /\ row # 0 /\ seen.epoch # epoch

\* A setting changed under a live page that has its baseline is built into its session,
\* unless the page goes back to the form or loses its row (index.html:656-716).
EditSeen == Behind ~> fresh \/ stage = "form" \/ row # join

=============================================================================
