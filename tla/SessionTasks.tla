---------------------------- MODULE SessionTasks ----------------------------
(***************************************************************************)
(* The tasks that live beside one peer connection and follow its state:    *)
(* the reader of its RTCP, the bitrate driver, and the two forwarders that *)
(* feed its sound, one through the data channel and one through the spare  *)
(* track (streamer/webrtc_session.rs: spawn_bitrate_driver,                *)
(* forward_datachannel, forward_track, the RTCP task of activate_whep;     *)
(* streamer/congestion.rs: SharedFeedback; streamer/bitrate.rs).           *)
(*                                                                         *)
(* A step runs to the next await; the two atomic counters the reader and   *)
(* the driver share are touched one at a time.  A rate is a level: how far *)
(* an arm of the estimator moves it is left open, only which way.  The     *)
(* smoothing and the deadband between estimate and encoder, the receiver's *)
(* own estimate (REMB), the time between two polls or two looks at the     *)
(* client's path, and the packets themselves are left out.  The client has *)
(* the data channel and, in standby, the track.                            *)
(***************************************************************************)
EXTENDS Integers

CONSTANTS
  Top,          \* levels of the bitrate: min_bps is 1, max_bps is Top
  MaxHeard,     \* bound: reports, of all kinds together
  MaxBlips,     \* bound: how often the path is lost
  MaxSwitches,   \* bound: how often audio is switched
  MaxRefused   \* bound: how often the hub has no device to give

VARIABLES
  conn,       \* the connection's state
  blips,      \* what its bound counts
  reader,     \* the RTCP task: "read", or "half" of record_report is done
  losing,     \* ... with this many packets lost still to add
  reported, lost,   \* SharedFeedback
  lags,       \* SharedFeedback.lag_events
  delay,      \* the state of the delay detector; "none" without a sample
  rr,         \* what getStats holds of the last receiver report
  driver,     \* the driver: "sleep", "stats", "loss", "update" or "ended"
  lastRR,     \* last_receiver_report
  fresh,      \* report_fresh of this turn
  taken,      \* what take_loss has read: [reported, lost]
  over,       \* RttCongestionMonitor.over
  rate,       \* estimate_bps
  heard,      \* history: receiver reports, transport reports and lag events
  moved,      \* history: turns in which something else than the delay moved the rate
  gone,       \* history: packets reported lost
  acted,      \* history: packets lost the driver has taken into account
  forwarder,  \* where each forwarder is
  fed,        \* it has a subscription
  known,      \* stepped_down, or ~standby: it knows what the client plays
  enabled,    \* audio_enabled_now
  path,       \* audio_path in the client's latest stats frame
  switched, refused

link     == <<conn, blips>>
feedback == <<reader, losing, reported, lost, lags, delay, rr, heard, gone>>
drive    == <<driver, lastRR, fresh, taken, over, rate, moved, acted>>
sound    == <<forwarder, fed, known, enabled, path, switched, refused>>
vars     == <<link, feedback, drive, sound>>

Feeders == {"channel", "track"}
Levels     == 1..Top
Nothing    == [reported |-> 0, lost |-> 0]
NoReport   == [n |-> 0, loss |-> FALSE, late |-> FALSE]   \* number; the loss, the round trip

Init ==
  /\ conn = "connecting" /\ blips = 0
  /\ reader = "read" /\ losing = 0 /\ reported = 0 /\ lost = 0 /\ lags = 0
  /\ delay = "none" /\ rr = NoReport
  /\ heard = 0 /\ gone = 0
  /\ driver = "sleep" /\ lastRR = [NoReport EXCEPT !.n = -1] /\ fresh = FALSE
  /\ taken = Nothing /\ over = 0 /\ rate = Top /\ moved = 0 /\ acted = 0
  /\ forwarder = [channel |-> "unopened", track |-> "loop"] /\ fed = [f \in Feeders |-> FALSE]
  /\ known = [f \in Feeders |-> FALSE]
  /\ enabled \in BOOLEAN /\ path = "fast" /\ switched = 0 /\ refused = 0

-----------------------------------------------------------------------------
(* The connection, the client and the user.                                *)

Connect ==
  /\ conn \in {"connecting", "disconnected"} /\ conn' = "connected"
  /\ UNCHANGED <<blips, feedback, drive, sound>>

Disconnect ==
  /\ conn = "connected" /\ blips < MaxBlips
  /\ conn' = "disconnected" /\ blips' = blips + 1
  /\ UNCHANGED <<feedback, drive, sound>>

\* ICE gives up, or the session is torn down.
End ==
  /\ conn \in {"connecting", "connected", "disconnected"}
  /\ conn' \in {"failed", "closed"}
  /\ UNCHANGED <<blips, feedback, drive, sound>>

\* A stats frame says that the client plays the track; it never goes back.
StepDown ==
  /\ conn = "connected" /\ path = "fast" /\ path' = "track"
  /\ UNCHANGED <<link, feedback, drive, forwarder, fed, known, enabled, switched, refused>>

Toggle ==
  /\ switched < MaxSwitches /\ switched' = switched + 1
  /\ enabled' = ~enabled
  /\ UNCHANGED <<link, feedback, drive, forwarder, fed, known, path, refused>>

-----------------------------------------------------------------------------
(* The RTCP reader and the writer.                                         *)

Hear == conn = "connected" /\ heard < MaxHeard /\ heard' = heard + 1

\* A transport-wide report of two packets, one of them lost or none: record_report
\* adds what it covers.
ReportBegins ==
  /\ Hear
  /\ reader = "read" /\ reader' = "half"
  /\ losing' \in {0, 1} /\ gone' = gone + losing'
  /\ reported' = reported + 2
  /\ UNCHANGED <<link, lost, lags, delay, rr, drive, sound>>

\* ... adds what was lost, and the delays go to the detector.
ReportEnds ==
  /\ reader = "half" /\ reader' = "read"
  /\ lost' = lost + losing /\ losing' = 0
  /\ delay' \in {"normal", "overuse", "underuse", delay}
  /\ UNCHANGED <<link, reported, lags, rr, heard, gone, drive, sound>>

\* A receiver report with other numbers than the last reaches the statistics.
ReceiverReport ==
  /\ Hear
  /\ rr' \in [n : {heard'}, loss : BOOLEAN, late : BOOLEAN]
  /\ UNCHANGED <<link, reader, losing, reported, lost, lags, delay, gone, drive, sound>>

\* The writer fell behind the broadcast: note_lag.
Lag ==
  /\ Hear
  /\ lags' = lags + 1
  /\ UNCHANGED <<link, reader, losing, reported, lost, delay, rr, gone, drive, sound>>

-----------------------------------------------------------------------------
(* The bitrate driver.                                                     *)

Dead == conn \in {"disconnected", "failed", "closed"}

\* A tick: the connection is looked at once, and its statistics are awaited.
Poll ==
  /\ driver = "sleep"
  /\ driver' = IF Dead THEN "ended" ELSE "stats"
  /\ UNCHANGED <<link, feedback, lastRR, fresh, taken, over, rate, moved, acted, sound>>

\* Mutant: the report just read is not remembered.
Forgotten == lastRR

Remembered == rr

\* A turn without outbound media ends here.  Otherwise the report is compared with the
\* one of the last turn, and take_loss empties its first counter.
Stats ==
  /\ driver = "stats"
  /\ \/ driver' = "sleep" /\ UNCHANGED <<reported, lastRR, fresh, taken>>
     \/ /\ driver' = "loss"
        /\ fresh' = (rr # lastRR) /\ lastRR' = Remembered
        /\ taken' = [reported |-> reported, lost |-> 0] /\ reported' = 0
  /\ UNCHANGED <<link, reader, losing, lost, lags, delay, rr, heard, gone, over, rate, moved,
                 acted, sound>>

\* Mutant: the second counter is only read.
KeepLost == UNCHANGED lost

EmptyLost == lost' = 0

\* ... and its second; a loss without a report to its name is dropped.
TakeLost ==
  /\ driver = "loss" /\ driver' = "update"
  /\ EmptyLost
  /\ taken' = [taken EXCEPT !.lost = lost]
  /\ acted' = acted + (IF taken.reported = 0 THEN 0 ELSE lost)
  /\ UNCHANGED <<link, reader, losing, reported, lags, delay, rr, heard, gone, lastRR, fresh,
                 over, rate, moved, sound>>

\* estimate_from_loss: a transport report if there is one, else a receiver report
\* that is news, else the estimate as it was.
LossArm ==
  IF taken.reported > 0 THEN IF taken.lost > 0 THEN 1..rate ELSE rate..Top
  ELSE IF ~fresh THEN {rate}
  ELSE IF rr.loss THEN 1..rate ELSE rate..Top

\* The round trip counts where the delay detector has no sample, and only when it moved.
RttCounts == delay = "none" /\ fresh
NowOver   == IF ~RttCounts THEN over ELSE IF rr.late THEN over + 1 ELSE 0
RttArm(r) == IF RttCounts /\ NowOver >= 2 THEN 1..r ELSE {r}

\* A lag cuts what is sent; it is taken with one access.
LagArm(r) == IF lags > 0 THEN 1..r ELSE {r}

\* The delay may only lower the estimate.
DelayArm(r) == IF delay = "none" THEN {r} ELSE 1..r

Update ==
  /\ driver = "update" /\ driver' = "sleep"
  /\ \E a \in LossArm : \E b \in RttArm(a) : \E c \in LagArm(b) :
       /\ moved' = moved + (IF c = rate THEN 0 ELSE 1)
       /\ rate' \in DelayArm(c)
  /\ over' = NowOver /\ lags' = 0
  /\ taken' = Nothing /\ fresh' = FALSE
  /\ UNCHANGED <<link, reader, losing, reported, lost, delay, rr, heard, gone, lastRR, acted,
                 sound>>

-----------------------------------------------------------------------------
(* The forwarders.                                                         *)

\* on_open of the data channel starts its forwarder.
Opened ==
  /\ conn = "connected" /\ forwarder["channel"] = "unopened"
  /\ forwarder' = [forwarder EXCEPT !["channel"] = "loop"]
  /\ UNCHANGED <<link, feedback, drive, fed, known, enabled, path, switched, refused>>

\* The channel stops when the client plays the track, which is when the track starts.
Plays(f, k) == enabled /\ (IF f = "channel" THEN ~k ELSE k)

\* Mutant: the channel's forwarder does not look at what the client plays.
LooksOnTrackOnly(f) == f = "track" /\ path = "track"

\* client_playing_track
Looks(f) == path = "track"

\* The top of a turn: a connection that is down ends the task, and a subscription is
\* given back by a task that ends or has nothing to forward.
Turn(f) ==
  LET k == known[f] \/ Looks(f) IN
  /\ forwarder[f] = "loop"
  /\ known' = [known EXCEPT ![f] = IF Dead THEN @ ELSE k]
  /\ forwarder' = [forwarder EXCEPT ![f] =
       IF Dead THEN "ended" ELSE IF Plays(f, k) /\ ~fed[f] THEN "asking" ELSE "waiting"]
  /\ fed' = [fed EXCEPT ![f] = @ /\ ~Dead /\ Plays(f, k)]
  /\ UNCHANGED <<link, feedback, drive, enabled, path, switched, refused>>

\* subscribe_blocking
Answered(f) ==
  /\ forwarder[f] = "asking"
  /\ forwarder' = [forwarder EXCEPT ![f] = "waiting"]
  /\ \/ fed' = [fed EXCEPT ![f] = TRUE] /\ UNCHANGED refused
     \/ refused < MaxRefused /\ refused' = refused + 1 /\ UNCHANGED fed
  /\ UNCHANGED <<link, feedback, drive, known, enabled, path, switched>>

\* A packet has been sent, or the wait for one is over; on a connection that has come
\* down a send may fail, which ends the task.
Waited(f) ==
  /\ forwarder[f] = "waiting"
  /\ \/ forwarder' = [forwarder EXCEPT ![f] = "loop"] /\ UNCHANGED fed
     \/ /\ Dead /\ fed[f]
        /\ forwarder' = [forwarder EXCEPT ![f] = "ended"]
        /\ fed' = [fed EXCEPT ![f] = FALSE]
  /\ UNCHANGED <<link, feedback, drive, known, enabled, path, switched, refused>>

-----------------------------------------------------------------------------
Forward(f) == Turn(f) \/ Answered(f) \/ Waited(f)
Link       == Connect \/ Disconnect \/ End
Feedback   == ReportBegins \/ ReportEnds \/ ReceiverReport \/ Lag
Drive      == Poll \/ Stats \/ TakeLost \/ Update
Sound      == StepDown \/ Toggle \/ Opened \/ \E f \in Feeders : Forward(f)

Next == Link \/ Feedback \/ Drive \/ Sound

Spec == Init /\ [][Next]_vars

\* A forwarder's waits are bounded and the hub answers; the connection, the client and
\* the user owe nothing.
Fairness == \A f \in Feeders : WF_vars(Forward(f))

FairSpec == Spec /\ Fairness

-----------------------------------------------------------------------------
TypeOK ==
  /\ conn \in {"connecting", "connected", "disconnected", "failed", "closed"}
  /\ reader \in {"read", "half"} /\ losing \in Nat /\ reported \in Nat /\ lost \in Nat
  /\ lags \in Nat /\ delay \in {"none", "normal", "overuse", "underuse"}
  /\ driver \in {"sleep", "stats", "loss", "update", "ended"}
  /\ rate \in Levels
  /\ forwarder \in [Feeders -> {"unopened", "loop", "asking", "waiting", "ended"}]
  /\ \A f \in Feeders : fed[f] => forwarder[f] \in {"loop", "waiting"}

\* Whatever the driver hears moves the rate in one turn at most, the delay apart, and a
\* lost packet is taken into account once at most, however turns and reports interleave
\* (webrtc_session.rs:2199-2206, 2318-2320).  The first turn may move on no report at all.
ActsOnce ==
  /\ moved <= heard + 1
  /\ acted + lost + losing <= gone

\* A client that has stepped down to the spare track is fed through it, and through it
\* alone (webrtc_session.rs:1881-1885, 1955-1957).
StepDownHeard ==
  path = "track" ~>
    \/ Dead \/ \E f \in Feeders : forwarder[f] = "ended"
    \/ ~fed["channel"] /\ (fed["track"] \/ ~enabled)

\* A connection that is up, for the first time or again, has its tasks: "peer connection
\* recovered before grace period expired - keeping session" (webrtc_session.rs:1760).
KeptWhole ==
  conn = "connected" => driver # "ended" /\ \A f \in Feeders : forwarder[f] # "ended"

=============================================================================
