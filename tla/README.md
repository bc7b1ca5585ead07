# A verification project for ScreenExtend

ScreenExtend turns a browser into an extra monitor: the host creates a virtual display for
every page that joins, captures and encodes it, and streams it over WebRTC (WHEP). This
directory holds TLA+ modules of the host's control logic, the TLC runs that check them and
the TLAPS proofs about them. Source paths below are relative to `src/src-tauri/src/`.

## 1. The system

| component | state it keeps | operations | talks to |
|---|---|---|---|
| session map and join lifecycle (`streamer/session.rs`, `streamer/server.rs`) | `SharedSessions`: join id -> device token, sequence number, live display, leave signal, capture stopper, epochs, labels; the correlation lock | `start_session`, its teardown task, `abandon_failed_attempt`, leave, kick, live scale, topology restore | driver, pipeline, transport, dashboard, all through awaits |
| join gate (`OtpLimiter`, `process_whep`) | failures per device, global window and pause, trusted/banned devices | check, count, lock out, reset | session map |
| WebRTC transport (`streamer/webrtc_session.rs`) | the peer connection's state, the closed signal, the disconnect grace, the trickle registry | prepare, activate, abandon, close, state callback, trickle PATCH/DELETE | session map (closed signal), keyframe gate, input, audio |
| keyframe requests (`streamer/keyframe.rs`) | last admitted request and window (atomics), PLI back-off | allow, observe RTT, evidence | called by RTCP reader, RTP writer, state callback |
| loss repair (`streamer/repair.rs`) | LTR slots and which of them the client holds | acknowledge, note lost, mark, take action | RTCP reader on one side, encode thread on the other |
| congestion, pacer (`congestion.rs`, `pacer.rs`, `bitrate.rs`) | send history, per-frame tallies, AIMD rate, token bucket | record, interpret a report, update, schedule | RTP writer, RTCP reader |
| audio hub (`streamer/audio/mod.rs`) | one OS capture, its reference count, `busy` | subscribe, unsubscribe | forwarders of every session |
| macOS audio ring (`macos_utils/audio/ring.rs`) | head, tail, seqlock anchor | push, pop, anchor | real-time IOProc, encoder worker |
| input (`streamer/input/`) | bounded fast queue, reliable queue, button state | route, inject, release, stop | data channels, OS |
| cloud relay (`streamer/cloud.rs`) | connection, session id, back-off | register, dispatch, client gone, rotate | session map, relay |
| driver client (`windows_utils/driver_ipc/`, `virtual_display.rs`) | the monitors of this host, an event-fed copy of the driver's list, a registry file and a lock file shared by all hosts | read, merge, notify and confirm a list; reclaim what dead hosts left | virtual display driver, other hosts |
| settings commands (`windows_utils/mod.rs`, `macos_utils/mod.rs`) | device overrides, reconfig and kick epochs | classify an edit, bump, apply live | session map, client's poll |
| session tasks (`webrtc_session.rs`) | the subscription of each audio forwarder, what it knows of the client's path; the bitrate driver's last report | poll the connection and its statistics, feed, step down, end | transport, audio hub, controller |
| encode ring (`windows_utils/streamer/pipeline.rs`) | pools of texture slots, their keyed mutexes, held slot, keyframe and bitrate requests | stage, encode, repeat, quarantine | capture callback, encoder, transport |
| client page (`streamer/static/`) | join id, attempt id, reconfig epoch seen, timers | join, retry, reconfigure, leave | host over HTTP and WebRTC |
| single instance (`single_instance.rs`) | lock file, control file | acquire, take over, serve commands | a second process |
| capture backends and codecs, hosted network, networking, AirPlay, telemetry, logs, CLI, dashboard | OS handles and counters | OS calls | everything |

**What is hard.** The transport runtime has several worker threads (`streamer/mod.rs`) and
every handler is a chain of awaits with short mutex regions between them, so two requests of
one page, its teardown tasks, the host's commands and the OS interleave at each of them. An
operation holds no lock across its awaits; what protects a session is a *sequence number*
drawn once and compared again at chosen points. Everything depends on those points being
enough. Displays outlive the requests that made them, requests are retried when an answer is
lost, and each of two concurrent halves of a join can fail after the other has built its share.

**What makes each component correct.**

- *Lifecycle*: the session a page watches is whole (display, capture, stopper, leave signal,
  dashboard row); nothing that was started is left with nobody to end it; two joins never
  share a display; a session never changes device; the recorded mode is the real one; every
  request ends.
- *Gate*: a lockout has been earned by its device's own wrong codes, a pause by somebody's,
  however checks and their outcomes interleave.
- *Transport*: a connection that has ended takes its session down; an entry of the registry is
  true; only a replaced transport is closed for its successor; every transport is counted out
  once.
- *Session tasks*: no report acts twice on the bitrate; a client that changes its way of
  listening is fed in exactly one of them; a connection that is kept keeps its tasks.
- *Keyframes*: admissions are a window apart whoever asks, and the first is never refused.
- *Repair*: a frame is reported lost only if it was; a repair frame predicts only from a picture
  the client holds.
- *Encode ring*: a texture is in one place and its mutex where its next user waits; the newest
  bitrate is not lost; a keyframe asked for on a still desktop is tried.
- *Audio hub*: at most one OS capture; it runs exactly while somebody subscribes; a
  subscription is always to a capture that runs; nobody waits for ever.
- *Audio ring*: what was accepted comes out once and in order; a time stamp is that of the block
  it is paired with.
- *Input*: moves put the cursor forward, never back; late motion presses nothing; nothing is
  held down when a session has ended.
- *Relay*: what the page shows, what a join must present and what the relay holds are one id;
  one client runs; a public host comes back.
- *Driver client*: a live host's monitors stay attached, a dead one's can be reclaimed, nobody
  touches a stranger's.
- *Page*: back at the form nothing of the session is left; it never hangs; an edit it can see is
  built into its session.

## 2. Modules

Each module's header says what a step is and what is left out; a table gives the code behind
its state, another its properties. A property marked (T) is stated by a theorem of section 5
and by no run; the `TypeOK` of a module that has no theorem about it holds when it is added
to the module's run.

### SessionLifecycle

One `Attempt` is one `POST /whep` with the teardown task it spawns. `pc[a]` is its place in
`start_session` (`server.rs` 1553-2529), in `abandon_failed_attempt` (2565-2629) or in the
teardown task (2442-2526); the other per-attempt variables are the handler's locals.

| model | code |
|---|---|
| `sess` | `SharedSessions`; a missing key reads as `NoEntry`, so `entry().or_default()` only sets `open` |
| `jn`, `cont`, `seq` | `join_id`, `continuing.is_some()`, `session_seq` |
| `want`, `had`, `got`, `outcome` | `desired`, `existing`, the display and geometry landed on, `mode_applied` |
| `tr`, `ended` | the peer connection; `closed_rx` or the leave signal has woken the teardown task |
| `running`, `answered`, `rows` | captures that run; attempts whose answer was returned; joins the dashboard shows |
| `attached`, `madeFor`, `mode` | what the OS and the driver hold |
| `corr` | `DISPLAY_CORRELATION_LOCK` |
| `restore`, `scaler` | the task of `restore_displays`; one `apply_scale_live` in progress |
| `cpu` | the task inside a synchronous section (see granularity) |

An action is one lock region with the synchronous code around it, or one await of an OS call:
`Offer`, `OpenSession`, `NextSeq`, `StopPrevious`, `ReadExisting` up to the fork;
`ReuseUntouched`/`ReuseChange`/`NeedDisplay`, `CreateDisplay`, `Attach`/`AttachFailed`,
`ModeApplied`/`ModeRefused`, `ReadBack`, `Record`, `CheckBeforeCapture`, `StartCapture`,
`ReadScale`/`WriteScale` in the display half; `Handshake` in the other; `HalfFailed`,
`BothReady`, `StandDown`, `Activated`/`ActivateFailed`, `ArmSession`, `Answer` after the join;
`Abandon`, `GraceOver`, `TakeDisplay`, `RemoveSession`, `RemoveDisplay` in the unwinding;
`Listen`, `Ended`, `CloseTransport`, `StopOwn`, `GraceOver`, ... in the teardown task. The
host and the pages act through `PeerClosed`, `Leave`, `Kick`, `ScaleRead/Apply/Record`,
`Restore` and `MarkConnected`.

*Granularity.* With `Preempt = FALSE` a task keeps the processor from one await to the next:
these are the interleavings even a single worker produces, and a counterexample found there
needs no luck with threads. With `Preempt = TRUE` another worker may run between any two lock
regions; the mutex itself is never split.

*Abstractions.* A geometry (width, height, refresh, orientation) is one value of `Modes`; the
DPI scale is left out of the row, because no property tells two scales apart, but every read
and write of a row that carries one is kept, and an edit of the scale alone may take the branch
that changes the mode (`ReuseChange`, with `MayScale`). A display the driver creates is known by
its identity; that the host finds it by the device names before and after the create, which is
what the correlation lock is for, is not modelled, so `NoSharedDisplay` does not rest on that lock. A refused mode on a fresh display keeps the
requested refresh rate in the code's record and is read back whole here. Time is not counted:
a grace or a settle ends at any later moment, so the `left` flag, which only shortens the
grace, is omitted. The stop of the previous capture is one step: the stopper is taken, and the
capture has stopped when the attempt goes on. Calls with no await between them that touch
disjoint fields are merged (`open_session_via`/`set_session_attempt`/`set_session_labels`;
`report_join`/`arm_leave`/`set_control_sender`; `send_bye`/`bump_kick_epoch`/`signal_leave`).
The token of a request is given (`DeviceOf`): whom the gate accepts is the gate's question.
`Kick` of a row the host sees but the map has lost is possible only between two lock regions.
A page offers with no id or with one the host has answered with (`Claims`): its own, one
copied with a duplicated tab, or one known to another device.

*Properties.*

| property | says |
|---|---|
| `TypeOK` (T) | types, and: past its display half an attempt has a display, ended it has none |
| `NoSharedDisplay` | two joins never record one display |
| `SessionKeepsDevice` | no step changes the device of an open session |
| `CurrentSessionWhole` | the session served by the current attempt has its display up and recorded, its own capture running and registered, its own leave signal armed and a dashboard row |
| `CaptureHasStopper` | each running capture is in the hands of the attempt that built it, or registered while the task that takes it out has yet to run |
| `RowHasReaper` | each dashboard row has a task that will take it down |
| `KeepUsed` | a step never removes a session, or a display, from under a current attempt that builds or serves |
| `EndsClean` | when every task has ended no device has a session, and each display that is left belongs to a join that two attempts renegotiated, whose row still records one |
| `RecordedIsUp` | a device's session never records a display that is gone |
| `RecordStaysTrue` | a record of a display's mode that is true stays true, unless a superseded attempt is still at the display, a reset has modes to write back or a live scale change its row |
| `NoOrphanDisplay` | when every task has ended no display is left (`orphan` violates it) |
| `EveryAttemptEnds` | every request and its teardown come to an end |

`JoinAttempts` declares what this module and `Transport` share: the offers.
`MCSessionLifecycle` gives `DeviceOf`, `PageOf` and `RelayOf` their shapes (one device and page; new pages through
one relay; one stranger) and the symmetry sets. Attempts are symmetric only where these
functions are constant; joins and displays are ids the host hands out, and always are.

### AudioPromise, AudioHub

`AudioPromise` is what the rest of the host may rely on: a set of subscribers, one capture
that is open at most once, and that is open whenever somebody is subscribed. `AudioHub` is
`AudioHub` of `streamer/audio/mod.rs` with the subscription logic of its two callers, the
`forward_datachannel` and `forward_track` tasks of `webrtc_session.rs`. It implements the
promise (`KeepsPromise`, an INSTANCE with a refinement mapping; opening and closing the device
are the visible steps, everything under the mutex alone is a stutter or the subscription).

| model | code |
|---|---|
| `running`, `refcount`, `busy` | `HubInner` |
| `capturing`, `opened` | the captures the OS has open; how many it ever opened, which names the next |
| `stage[f]`, `call[f]` | where forwarder `f` stands: in its loop, about to take the mutex or parked in `lock_idle`, between the two critical sections of a device call; and which call it is |
| `held[f]` | the capture that call has in a local, opened or taken to be stopped |
| `sub[f]` | its subscription: the capture whose channel it reads |
| `want[f]`, `alive[f]` | `audio_enabled_now`, `pc_alive` |

`Subscribe`, `BeginOpen`, `Publish`/`GiveUp`, `Unsubscribe`, `Release` are the critical
sections, one action each, with the `notify_all` inside; `DeviceOpens`, `DeviceRefuses`,
`DeviceCloses` happen between them, outside the mutex. `Park` is `Condvar::wait`, which may
also wake for no reason (`WakeSpuriously`). A forwarder whose transport dies is not aborted:
it looks at `pc_alive` after the hub has answered, and returns what it was given. A panic
between setting and clearing `busy` is not modelled.

| property | says |
|---|---|
| `TypeOK` (T) | types; the count is never negative |
| `OneDevice` (T) | at most one capture is open or being opened |
| `AlwaysFed` (T) | a subscription is to the published capture, and it runs |
| `CountIsExact` (T) | the count is the number of subscriptions, held or on their way to their owner; a capture is published exactly while it is positive |
| `NothingLeaks` (T) | between device calls no capture runs but the published one |
| `KeepsPromise` | the hub implements `AudioPromise` |
| `CallsReturn` | every call to the hub returns |
| `EndsSilent` | once every transport is dead the device is closed, and stays so |

### KeyframeGate

`KeyframeGate` is `streamer/keyframe.rs`: the lock-free gate, called by the RTCP reader, the
RTP writer, the control channel and the connection-state callback, and the `PliBackoff` that
the RTCP reader keeps in front of it. `allow` is modelled one atomic access at a time
(`LoadInterval`, `LoadLast`, then `Suppress`, `Admit` or `Retry`); `compare_exchange_weak` may
fail for no reason. A caller reads the clock before it enters (`Ask`), so it may arrive with a
reading older than the last request. `ObserveRtt` moves the window at any time between the
floor and the cap of the session's locality. `PliHeld` and `PliPasses` are
`allow_with_cap`, atomic because one task owns it; a PLI that passes goes on to the gate.
Time is a counter of ticks and the code's constants are parameters.

| property | says |
|---|---|
| `TypeOK` (T) | types; interval, its copies and the back-off window within their clamps |
| `Spaced` | two admitted requests are at least the floor apart, whoever asks and however the loads interleave |
| `SuppressedForCause` (T) | a request is only turned away for one admitted less than the cap before it; the first never |
| `HeldForCause` | the two limiters in a row hold a PLI for less than one gate window plus one back-off window after a keyframe was asked for |

### Transport

`Transport` is the other half of a join: the peer connections its offers build, in
`streamer/webrtc_session.rs`, and the calls `server.rs` makes to them. A transport is named by
its attempt. What the display half does appears only as the freedom to fail or to take any
time; the two modules share the sequence numbers and the check on them.

| model | code |
|---|---|
| `at[a]` | where the attempt stands: offered, negotiating (`prepare_whep`), prepared (`PendingWhep`), activating, armed (the callback is installed), serving (the teardown task waits), closing, gone |
| `seq`, `latest` | `session_seq` of the attempt and of the row |
| `conn[a]`, `handler[a]` | `RTCPeerConnectionState`; `on_peer_connection_state_change` is in place |
| `old[a]`, `closers` | `superseded`; the tasks spawned to close it |
| `reg` | the entry of this join in `TRICKLE_SESSIONS` |
| `live` | `LIVE_SESSIONS` |
| `sent[a]`, `left[a]` | `closed_tx` used; the leave signal given |
| `version[a]`, `graces[a]` | the version of the `grace_cancel` watch channel; grace tasks that wait |

`Offer`, `Refused`, `NewConnection`, `NegotiationFails`, `Register` lead to a prepared
transport or out; `Activate`, `Arm`, `Answer` to a served one, `Abandon` and `StandDown` out;
`Connect`, `Disconnect` and `Fail` are the connection's changes of state with what the callback
does at each (`Enter`), nothing before it is installed; `GraceEnds` and `CloseReplaced` are the
tasks it spawns; `Leave`, `Ended`, `Close` the end of a session, `Forget` that of the join's
row. The registry functions are one lock region each. A `Weak` upgrades until its transport is
gone. A grace task that wakes compares the version of the channel with the one its receiver has
seen, as `watch::Receiver::changed` does. Left out: candidates and their budget, media, input,
and how long ICE takes. `activate_whep` has no path that fails. Numbers are never used twice
here; a row that is removed and opened again counts from 1, and that case is
`SessionLifecycle`'s.

| property | says |
|---|---|
| `TypeOK` (T) | types; `live` is never negative |
| `RegistryTrue` | the registry names the connection that registered last for as long as that one is not taken back, and never one that is |
| `OnlyReplacedClosed` | the transport closed for a successor is never the current attempt's |
| `LiveCounts` (T) | the count is the number of transports not given back, on every way out |
| `EndIsSeen` | a connection that was up and has ended takes its session down |
| `ReplacedGoes` | once a renegotiation is connected, the transport it replaced goes |

### SessionTasks

The tasks that live beside one peer connection and follow its state: the RTCP reader, the
bitrate driver (`spawn_bitrate_driver`), and the two forwarders of its sound, one over the data
channel and one over the spare track.

| model | code |
|---|---|
| `conn` | `RTCPeerConnectionState`, which every task polls for itself |
| `reported`, `lost`, `lags`, `delay` | `SharedFeedback`; the counters are read and emptied one at a time (`Stats`, `TakeLost`) |
| `rr`, `lastRR`, `fresh` | the receiver report in `getStats`, the driver's memory of it |
| `driver`, `over`, `rate` | where its turn stands; `RttCongestionMonitor.over`; `estimate_bps` as a level |
| `forwarder[f]`, `fed[f]`, `known[f]` | where a forwarder is, whether it is subscribed, `stepped_down` / `~standby` |
| `path`, `enabled` | `audio_path` of the client's stats frame; `audio_enabled_now` |

An arm of the estimator says which way a rate may go, not how far: `LossArm`, `RttArm`, `LagArm`,
`DelayArm` are the branches of the code's update with their order.

| property | says |
|---|---|
| `ActsOnce` | what the driver hears moves the rate in one turn at most (the delay apart, which is a state, not an event), and a lost packet counts once at most |
| `StepDownHeard` | a client that has gone over to the track is fed through it, and through it alone |
| `KeptWhole` | a connection that is up has its tasks (violated, section 4) |

### EncodeRing

The ring of input textures of a Windows session: the capture callback stages frames, the encode
thread encodes them and repeats the held one, the transport leaves it a keyframe and a bitrate
to find.

| model | code |
|---|---|
| `free`, `ready` | the two channels of the ring, in order |
| `poisoned`, `held` | `PoisonedSlots`, `held_slot` |
| `mutex[s]` | the slot's keyed mutex: released at `KEY_WRITER`, at `KEY_ENCODER`, or taken and by whom |
| `staging`, `written`, `first` | the frame `stage()` works on; `frame_index = 0` |
| `idr`, `own` | `idr_request`; the encoder's own `idr_requested` |
| `target`, `pending`, `current` | `target_bitrate`, the value taken from it, the encoder's |
| `asked`, `newest` | history: what has become of the last keyframe request; the last bitrate asked for |

A step is one access to a channel, an atomic or a mutex. An acquire or release may fail in any
state (a hung GPU), at most `MaxFaults` times; with AMF there are no mutexes to fail.

| property | says |
|---|---|
| `SlotCustody` | a slot is in exactly one place (free, written, ready, encoded, held, quarantined), and its mutex is where its next user waits for it |
| `NewestKept` | the last bitrate asked for is the encoder's or waits where the encode thread will find it |
| `KeyframeTried` | with a picture to repeat, a keyframe that is asked for is tried, unless a fault takes it along, the thread is gone, or the held slot is wedged |

### LossRepair

Recovery without a keyframe: `SendHistory` and `interpret` of `congestion.rs`, `RepairState` of
`repair.rs`, and the encode thread's use of it (`pipeline.rs` 2708-2732).

| model | code |
|---|---|
| `history`, `tallies` | `SendHistory.ring` and `.frames`, oldest first, with their capacities |
| `mapped`, `slots`, `acked`, `ackedIndex`, `lost`, `repairWanted`, `markWanted`, `ltrSlots` | `RepairState` |
| `step`, `action`, `next`, `nextSlot` | the encode thread between reading the state and noting what it marked |
| `queue`, `writing` | the broadcast to the RTP writer; the frame it is sending, packet by packet |
| `receipts`, `copied` | what a report decided and the reader has yet to pass on (the lost frames as a set, passed on oldest first, which is the order they were sent in); `acknowledge`'s copy of the slots |
| `sent`, `reports`, `reported` | what is on the network and which of it arrived |

Sequence numbers wrap at `Wrap`; a report covers everything since the last one, and may be lost
or overtaken.

| property | says |
|---|---|
| `LostIsTrue` | a frame is reported lost only if one of its packets was, across wrap, retirement and overtaking reports |
| `RepairHeld` | a repair predicts from no picture the client is known to miss (violated, section 4) |

### AudioRing

`macos_utils/audio/ring.rs`: a lock-free ring of one producer and one consumer, with a time
stamp under a sequence lock. A step is one load or store. `buf`, `head`, `tail`, `seq`, `pos`,
`ns` are the fields of `Shared`; `prod` and `cons` hold each side's place and locals.

| property | says |
|---|---|
| `InOrder` | the consumer gets the samples that were accepted, each once, in order |
| `AnchorTrue` | a stamp is never paired with another block's place |

### InputPath

The remote input of one session from the page's events (`static/input.js`) over an unreliable
and a reliable channel to the injector (`streamer/input/`).

| model | code |
|---|---|
| `tab`, `pending` | `buttons`, held keys, the two gates; the delta, stroke and move that wait for `flushMoves` |
| `onFast`, `onReliable` | the data channels: a set, from which a frame may be taken in any order or never; a queue |
| `fast`, `reliable`, `relief` | the injector's queues; a sender between a failed `try_send` and the pop that makes room |
| `inj` | `highest_seq`, `last_buttons`, what is held on the host |
| `link`, `stop`, `control` | `SessionHandle::close` in its parts, the stop channel, `LiveInput.control` |

One button stands for the button word. Frames carry numbers modulo `SeqSpace`, as `u16` does.

| property | says |
|---|---|
| `CursorForward` | numbered moves never put the cursor back, whatever was lost, shuffled or wrapped |
| `EndsReleased` | when a session ends the injector leaves and nothing stays pressed |
| `LateDeltaKeepsButtons` | late motion presses and releases nothing (violated, section 4) |

### JoinGate

`OtpLimiter` (`session.rs`) one lock region at a time, and `process_whep` from the token to the
outcome of the code. `attempts` and `overall` are its two maps, `request` the requests under
way, each between two locks; `wrong`, `guesses`, `locks` and `pauses` are history.

| property | says |
|---|---|
| `LockoutsEarned` | every lockout has cost its device `MaxAttempts` wrong codes of its own, every pause `GlobalMax` of anybody's, each counted once |

### RelaySession

The id and code of a running host, and everyone who writes them: the desktop page, whose calls
the main thread takes in order; `session new` on the control thread; and the relay clients,
which rotate to a new id when the relay holds theirs.

| model | code |
|---|---|
| `auth` | `SessionAuth`: two mutexes, written one after the other |
| `shown`, `public`, `click` | the page's state, and a click whose settings are being saved, or cannot be, when the switch goes back (`App.tsx`, `settings.tsx`) |
| `calls`, `events` | invocations on their way to the main thread; `SessionIdChange` on its way to the page |
| `job[t]` | where each thread is in `set_session_credentials`, `register_cloud_session`, ... |
| `client[c]`, `cloud`, `status` | each `CloudClient` and its link; `AppState.cloud`, `.cloud_status` |
| `holder` | the relay: who holds an id; it finds out later that a connection is dead |
| `crossed` | history: a registration met a rotation, a stale id or another registration |

| property | says |
|---|---|
| `MirrorAgrees` | at rest the page shows what a join must present, and the code `session new` printed |
| `ShownIsRegistered` | and, unless registrations crossed, the client holds that id and says so |
| `OneClient` | outside a registration the client that is kept is the only one that runs |
| `EndsAsAsked` | a public host ends up registered, a private one without a client, however connections end |

### SharedDriver

Several hosts over one virtual display driver with one monitor list (`virtual_display.rs`,
`mod shared`): a commit reads the list, merges, notifies and confirms it, under `commit.lock`,
and records whose each monitor is in a registry file. A host may die at any step.

The registry is a plain file: `write_registry` empties it and fills it (`Truncate`, `Save`), a
failure of either is only logged and the commit succeeds (`SaveFails`), and `read_registry` takes
a file it cannot read, or that was cut off, for an empty one (`Readings`). The confirmation is
given up after 10 s (`GiveUp`). Monitors in no registry (`Foreign`) are there from the start: an
unisolated host, which changes its own list without the lock, does not act here. `Compact` is the
least list that attaches and keeps what must stay; the code takes ids away one at a time, which
comes to the same from a list that attaches.

| model | code |
|---|---|
| `driver`, `pipe`, `replies` | the driver's list, the commands and answers on their way |
| `registry`, `lock` | `owners.json`, `commit.lock` |
| `pc`, `owned`, `cache` | each host: where its commit is, `Inner.owned`, the event-fed copy it falls back to |
| `keep`, `new`, `plan` | the commit under way |
| `cutOff` | history: hosts that died between notify and the end of a commit |
| `astray` | history: monitors the registry lost track of: entries that an emptied file, a failed write or a failed reading dropped and that were not written again |
| `misfiled` | history: live monitors that a failed write left in the registry as released or another host's |

| property | says |
|---|---|
| `HostsKeepTheirs` | while the driver answers in time, and no write has misfiled a monitor, a live host's monitors stay attached, whatever becomes of the registry |
| `Reclaimable` | and what a host leaves is in the registry, unless it died inside its commit or the monitor is astray |
| `ForeignStays` | a monitor in no registry is touched by nobody, late answers and lost registries or not |

### ClientPage

The page's one thread, from await to await (`static/index.html`): `start()` with its retries and
its ladder of video tiers, the `/reconfig` poll, the deadlines; and the host's row, epochs and
kicks as the page sees them.

| model | code |
|---|---|
| `stage`, `step` | form, joining, live, rebuilding; where the newest `start()` is |
| `engine`, `fallback`, `legacy`, `trickleOff`, `answerRetried` | what the browser can do; the flags of the ladder and the retries |
| `poll`, `polls`, `seen` | the armed probe, the requests under way, `reconfigEpoch` and `kickEpoch` |
| `join`, `row`, `epoch`, `kick`, `bye` | `currentJoinId`; the host's row and counters; a bye on its way |
| `fresh` | history: the settings of the newest POST are still those of the host |

| property | says |
|---|---|
| `FormQuiet` | back at the form no `start()`, connection or timer of the session is left |
| `NeverStuck` | a join ends in a picture or at the form |
| `EditSeen` | an edit under a live page that has its baseline is built into its session |

### MC modules

`MCMedia` checks `AudioHub`, `SessionTasks` and `Transport`, `MCServices` `RelaySession` and
`InputPath`, and `MCComponents` `KeyframeGate`, `LossRepair`, `AudioRing`, `SharedDriver`,
`JoinGate` and the bitrate half of `SessionTasks`. Each EXTENDS one component and INSTANCEs the
others; a variable `part` says which a behaviour is about, and the rest keep their initial
state, so that the state space is the sum of the parts and not their product: these components
do not share state. `MCEncodeRing`, `MCClientPage`, `MCInputPath`, `MCLossRepair` only name
instances.

## 3. Runs

| run | instance | checks |
|---|---|---|
| `renegotiation` | 3 attempts, 1 join, 2 displays, 2 modes | `CurrentSessionWhole`, `CaptureHasStopper`, `RowHasReaper`, `EndsClean`, `RecordedIsUp`, `KeepUsed`, `RecordStaysTrue` |
| `two_devices` | 2 attempts, 2 joins, 2 devices behind one relay client, 2 displays, 2 modes, all commands, `Preempt` | `NoSharedDisplay`, `SessionKeepsDevice` |
| `two_offers` | 2 attempts, 1 join, 2 displays, 2 modes, no scale change, no reset; `FairSpec` | `EveryAttemptEnds` |
| `media` | 3 forwarders with one toggle, refusal and spurious wake-up; the forwarders of one connection with 2 blips, 2 switches, 1 refusal; 2 offers of one join | `KeepsPromise`, `CallsReturn`, `EndsSilent`; `StepDownHeard`; `RegistryTrue`, `OnlyReplacedClosed`, `EndIsSeen`, `ReplacedGoes` |
| `encode_ring` | 3 slots, 2 bitrates, 2 faults; `FairSpec` | `SlotCustody`, `NewestKept`, `KeyframeTried` |
| `client_page` | 2 kinds of browser, 1 edit, 2 events, 2 rows, 1 poll at a time; `FairSpec` | `FormQuiet`, `NeverStuck`, `EditSeen` |
| `services` | relay: 2 turns; input: 1 button, 1 key, 2 frames across the wrap of 8 numbers, 2 acts, fast queue of 1 | `MirrorAgrees`, `ShownIsRegistered`, `OneClient`, `EndsAsAsked`; `CursorForward`, `EndsReleased` |
| `components` | gate: reader and another task, 6 ticks, window 2..3, back-off 1..2; repair: 3 frames of 2 packets, 2 slots, wrap 4; ring: 2 samples, wrap 4, 3 blocks; driver: 3 hosts, 3 ids, 5 commits and late answers, 1 of them late; codes: 2 devices, 2 requests, 4 wrong codes; bitrate: 2 levels, 2 reports | `Spaced`, `HeldForCause`; `LostIsTrue`; `InOrder`, `AnchorTrue`; `HostsKeepTheirs`, `Reclaimable`, `ForeignStays`; `LockoutsEarned`; `ActsOnce` |
| `orphan`, `late_delta`, `unheld_repair`, `blip` | the smallest instance that shows it | one violated property each (section 4) |

*Why the bounds are enough: the lifecycle.* The hazards are about an older attempt, the one that
supersedes it, and the teardown of a third, so three attempts on one join is the case where
every pair of {older, newer, tearing down} exists at once. Two joins suffice for what one join
can do to another, and two displays for an attempt that creates one while an old one lives:
a join creates a display only when its row has none. Two modes tell "changed" from
"unchanged". Displays run out only after each has been created once; the driver may also refuse
at any time, so running out adds no behaviour of its own. Two attempts are too few for
anything about what is left behind: "no display without a session", "no session with a dead
display" and "each record true" all hold of two and fail of three, because what loses a display
or a mode is an attempt that two others overtake. The properties of `renegotiation` say what
does hold of any number, and `two_offers` keeps two for liveness only, where three are beyond
TLC's time.

*Hub, gate, transports.* In the hub the interesting cases are a forwarder in a device call, one
that waits for it and one that comes when it is over, so three forwarders. `MaxToggles`,
`MaxRefusals` and `MaxSpurious` only bound how often each thing happens. In the gate a race needs
two callers, and a call that loses is overtaken at most once by each request the other makes.
Six ticks are more than a gate window and a back-off window together, and the longest silence
(`Quiet`) fits in them. Of transports, two suffice for the liveness properties: a connection
remembers at most one other, and what ends a connection is its own callback. With a third offer
the safety properties hold too. `MaxBlips` bounds how often a path is lost and found, and two
make a second grace task run beside the first. The proofs remove these bounds for safety.

*Encode ring.* Three slots are one that is written, one that is encoded and one that is held: the
fewest with which nothing waits for nothing. Two faults quarantine two of them. The proofs remove
both bounds for safety.

*Loss repair.* A history and tallies of two with frames of two packets make both queues drop
their oldest entry while it is still needed, and six packets go round the four numbers once and
a half. *Audio ring.* Capacity 2 and wrap 4 keep `Wrap` above `Cap`, as 2^64 is; three blocks of
up to three samples overrun it and wrap it twice. Capacity 4 with wrap 8, and four blocks, were
also checked on their own. *Input.* Two frames can be swapped, dropped, or wait for each other in
a queue of one, whose relief therefore fires; the first number is 6 of 8, so they wrap. Three
frames with a queue of two and one act were also checked on their own. *Join gate.* With a limit
of two a device can be locked twice in four wrong codes; larger mixes of time, limit and codes (up to 3.4
million states) were checked on their own. *Session tasks.* Two reports make the second arrive in
each gap the driver has, and two levels tell "moved" from "not". *Relay.* Two turns are a click
and a `session new`, or one of them and a lost connection; safety was also checked with three
(4.8 million states). *Shared driver.* Three hosts are one that commits, one whose monitors must
stay, and one that has died; three ids are the fewest with a middle. Five commits and late answers together put a write that
fails, a death in a write, and a reading that fails before a commit that acts on what is left in
the registry: without the exception for `misfiled`, TLC finds `HostsKeepTheirs` violated within
them. *Page.* One edit and two events put an
edit, a rotation, a kick or a lost body anywhere in a join and in a rebuild.

Runs whose system comes to rest (sessions end, offers run out, bounds are reached) say
`CHECK_DEADLOCK FALSE`.

*Which runs leave something out, and why.* `renegotiation` and `two_offers` hold without
preemption between lock regions, which breaks `CurrentSessionWhole`, `CaptureHasStopper`,
`RowHasReaper` and `KeepUsed` in a way section 4 describes, and, for their size, without changes
of the scale and topology resets, which the theorems do admit and `two_devices` has
(`renegotiation` was also checked on its own with edits of the scale alone, 3.5 million states).
`EndsClean` excepts a join renegotiated twice, and `RecordStaysTrue` the three writers it names. `HostsKeepTheirs` and
`Reclaimable` say nothing once an answer of the driver was late; the first nothing once a write
has misfiled a monitor, the second nothing of a host cut off in its commit or of a monitor that
is astray; `ShownIsRegistered` and
`EndsAsAsked` except `crossed`; `KeyframeTried` excepts a request that a fault took along. Each
exception is a behaviour of the code that section 4 names.

*Fairness.* `SessionLifecycle`: weak fairness of each task's next step, of the handshake, of the
spawned host tasks, and of `PeerClosed`: tokio polls every woken task and fires every timer;
the async mutex is handed on first come first served; and a page that goes away closes its
connection or loses it to the ICE timeout. No fairness is asked of offers, kicks or leaves.
`AudioHub`: each forwarder's own next step and the device calls: its threads are the blocking
pool's, and an open or a close returns. A parked thread is only woken by a notification; none is
asked to wake by itself. Without a bound on toggles a forwarder could lose the hub to others for
ever (the mutex is not fair), which is why `CallsReturn` is about finitely many toggles.
`Transport`: each attempt's next step on the host and the closing tasks; the page and the network
owe nothing, so `EndIsSeen` and `ReplacedGoes` start from what has already happened to a
connection. `SessionTasks`: each forwarder's waits are bounded and the hub answers. `EncodeRing`:
the encode thread runs and its waits end; strong fairness of `TakeFrame`, because `select!` picks
at random among the channels that are ready, and of `TickEmits`, because a keepalive falls due in
time. `ClientPage`: fetches end one way or the other, armed deadlines pass, the agent decides on a
pair; strong fairness of a poll's way there and back, for a link that loses every poll for ever
while the picture goes on would keep any page ignorant. The first join's fetches of `/ice-config`
and `/net-config` have no deadline in the code; that they end is the browser's promise.
`RelaySession`: the page handles its events, both threads and every client go on, and the relay
finds dead connections dead. `InputPath`: the closing task, the handler of a full queue, and the
injector's thread go on. `KeyframeGate`, `LossRepair`, `AudioRing`, `SharedDriver`, `JoinGate`: safety only.

## 4. What the runs found

1. **`orphan`** (`server.rs:1613`). An attempt waiting for the previous capture to stop can
   find, when it goes on, that a newer attempt has taken the join over, failed, and removed the
   session. It then creates a display, records it in a row nobody owns, sees it is superseded
   and stands down. Nobody removes that display, against "nothing is left holding a display
   with no session to reap it" (`server.rs:2550`).
2. **`unheld_repair`** (`repair.rs:161`). A slot counts as held when any frame at or after the
   one in it is acknowledged, whether or not its own was; and a frame is acknowledged when a
   report covers the packets recorded so far, though its writer is still sending
   (`congestion.rs:156`). A repair then predicts from a picture the client does not have, against
   "Asking for a repair against a reference the client never received produces a picture it cannot decode"
   (`repair.rs:109`).
3. **`late_delta`** (`input/mod.rs:544`). A late delta is given the button word of the newest
   delta, which a press, a release or a move has made stale: it presses or releases a button,
   against "the motion is kept, the spurious press or release is not" (`input/mod.rs:500`).
4. **`blip`** (`webrtc_session.rs:2217`, 1916-1923). The bitrate driver and the two audio
   forwarders end at the first look at a connection that is `Disconnected`; nothing starts them
   again. The state callback waits 8 s for that state to pass, and then says "peer connection
   recovered before grace period expired — keeping session" (line 1760). What is kept has no
   sound and a bitrate that follows nothing.

Met while modelling, and in the models, without a run of their own:

- *Lifecycle.* `apply_scale_live` awaits between reading a row and putting it back, so a removed
  session can return with a dead display, in a row without a device (`server.rs:2818`). A mode is
  recorded before the attempt asks whether it is still current: with three attempts and three
  modes on one join TLC shows an attempt that waited for its mode to settle, was superseded
  meanwhile, and then puts its own mode into the row over the one the newest attempt has set and
  recorded. The next edit compares against a mode no display is at (`server.rs:2196`, against
  1900), and `RecordStaysTrue` excepts just this. The snapshot of a topology reset may be older
  than a mode change too (2157). With preemption, one stopper can replace another
  between the last superseded check and `set_active_capture` (`server.rs:2430`).
- *Transport.* An older offer that registers last and is then abandoned takes the served
  session's registry entry with it (`webrtc_session.rs:3002`). A grace task may end at once,
  because its clone of the watch channel has not seen the version sent just before it was
  spawned (1747); ICE's `Failed` is then what ends the session.
- *Encode ring.* A keyframe request claimed for a slot that is then quarantined, or for an encode
  that fails, is lost. A held slot wedged at its mutex is never quarantined: keepalives fail for ever.
- *Loss repair.* A lost report leaves the front tally undecided, and later frames wait behind it
  until `FRAME_TALLIES` overflows. (Repairs are off by default: `SE_NVENC_LTR`.)
- *Page.* The first epoch polled is the baseline, so an edit between the host's reading of the
  settings and that poll goes unseen (`index.html:617`). A rotation during a rebuild is dropped
  (811). `answerRetried` is reset at the head of an answer, so a body lost each time retries
  without end (2697; `MaxEvents` bounds it here). A kicked page whose bye is lost, and whose row is gone, reads epoch 0 and
  kick 0, and may rejoin on its device token.
- *Session tasks.* A loss that falls between the reads of the two counters is dropped. A delay
  state is acted on again at each poll until a new sample.
- *Shared driver.* After an answer that came late a commit merges into the event-fed copy, which
  lacks this host's own changes, and can detach another host's monitors. The confirmation
  compares ids only. A host that dies between notify and `write_registry` leaves a monitor in no
  registry, which nobody reclaims. Neither is the registry safe: `write_registry` empties the file
  before it fills it, logs a failure and lets the commit succeed, and `read_registry` takes what it
  cannot read for an empty registry (`virtual_display.rs:1114-1127`). A host that dies inside the
  write, a write that fails after emptying, or a reading that fails before the next commit loses
  every other host's entries; until those hosts commit again, what they leave when they go cannot
  be reclaimed, against 1066-1070. And when a create takes a place still down as
  released and its write fails, the live monitor stays down as released: h1 creates monitor 0 and
  dies; h2, up already, creates into the released 0 and cannot write; h3 starts and reclaims what
  the registry says is a dead host's, which detaches h2's live monitor. `astray` and `misfiled`
  name these cases, and the properties hold outside them.
- *Relay.* Registrations that cross a rotation, a stale id or each other can leave the client
  under another id than the page shows; `session new` looks for a client and registers later, and
  can publish a host just switched off. After a clean close the status stays "registered" until
  the next attempt.
- *Input.* Presses and releases carry no number, so a move sent before a release and taken after
  it is behind no other move, and restates the word from before.
  `onPointerDown` drops the pending single move and neither stroke nor delta, so a flush restates
  the word before the press. With control switched off, key-ups and focus losses are gated too, and what is held stays
  held until control returns or the session ends. The relief of a full queue may pop a second
  head.
- *Audio ring.* The anchor is published before the write, so a block dropped on overrun leaves
  its stamp to the next one's samples.

## 5. Proofs

`SessionLifecycleProofs` proves, for any finite set of `Attempts` and any `Joins`, `Displays`,
`Modes` and assignment of devices, pages and relays, from `LifecycleAssumption` and
`AttemptsAssumption` only (`None` is not an attempt, join, display, row, device or page; the
switches are Booleans):

- `TypeCorrect`: `Spec => []TypeOK`. `TypeOK` alone is not inductive: a task could not show it
  still holds a display when its step belongs to a late control point. `TInv` adds `Underway`:
  a capture that runs belongs to an attempt past its display half that has landed on a display,
  and an answered attempt is not idle. One lemma per action.
- `DisplaysNotShared`: `Spec => []NoSharedDisplay`. A display reaches a row by many ways (fresh,
  reused, snapshot of a scale change, landed scale), so the invariant must bound them all:
  `OwnedBy`/`OwnDisplays` say that every row, local variable and snapshot of join `j` names a
  display the driver made for `j` (`madeFor`), which is set once.
- `DeviceKept`: `Spec => SessionKeepsDevice`, an action property. The only step that writes a
  token into an open session is `OpenSession` of an attempt whose join is already bound to its
  device; `JoinsHaveOneDevice` carries "whoever works on a join works for its device" from the
  moment `Offer` resolved it.
- `ServedWhole`, `CapturesStopped`, `RowsReaped` (`CurrentSessionWhole`, `CaptureHasStopper`,
  `RowHasReaper`) and the action property `UsedKept` (`KeepUsed`), for every choice of `MayNudge`
  and `MayScale`, and `ASSUME ~Preempt`: with preemption between two lock regions TLC finds each
  of the four violated (section 4), so nothing more is true of the code.

The four rest on one invariant, `WholeInv`. `ClaimInv` orders the attempts of a join: numbers are
distinct, the current one is the newest, and a task past a check of it that has not been at
an await since is still current (this is where `~Preempt` is used). `DisplayInv` says where the
display of a join's row comes from and that, while its newest attempt does not take the session
away, it is attached, and is the one the attempts that know one know. `ServeInv` ties each
capture to the one place that can stop it, and `RowReaped` each dashboard row to the attempt that
will take it down. An attempt works on its own join only (`WorksOn`), so a step is looked at for
the join it is about, and every other join is kept by a lemma of its own. `KeepUsed` follows
because a step that detaches a display holds it from a row given up, or has just made it.

`EndsCleanly`, `RecordsUp` and `RecordKept` (`EndsClean`, `RecordedIsUp`, `RecordStaysTrue`) need the
past of a display as well, under the same assumption. `EndInv` adds to `WholeInv` the custody
of every display that is attached (`Accounted`): an attempt that has landed on it has yet to record it,
a teardown or an abandoned attempt has it in its hands to remove it, or a living session records
it, or its join has lost its session, was renegotiated twice and still records a display. The last
case is the one `orphan` shows (more attempts can lose more displays, and the row names one of
them). What bounds it is how an attempt gets there: without a session only an attempt that continued the
join is still on its way to a record (`LateContinues`), and it is not the only one that did
(`LateIsSecond`), since the session it continued was ended by another that had continued it too. A
row is cleared before its session is removed (`RemovesCleared`). `RecordedIsUp` follows because a
row with a device and a record has a living session, whose display is up (`ShownRow`).
For `RecordStaysTrue`, an attempt at the display that is current is alone there
(`AloneAtDisplay`), so its mode change, its read-back and its record each leave the truth in the
next hand; every other step leaves modes and records alone, or removes them together.

`MediaProofs` is about the modules `MCMedia` composes, under the specification the run checks.
It proves, for any set of forwarders, five safety properties of the hub and that it
implements `AudioPromise`: `HubKeepsPromise` for the hub alone, and `MediaKeepsPromise` as the run
checks it, since a step of another part leaves the hub's variables alone. In the same way the
theorems of `TransportProofs`, instantiated, become `JoinRegistryTrue` and `JoinSparesCurrent`; the
assumption on `Attempts` they need is `MediaAssumption`. The inductive invariant adds to
them what makes a released mutex safe: while `busy` is set exactly one forwarder is inside the
device call and every other is outside or waiting (`BusyMeansInside`); what that forwarder
read before it let go still holds (`InsideKnows`); while it is clear the published capture is
the only one (`IdleKnows`); a subscription is to it (`SubscribedKnows`). The count needs
cardinalities of the set of subscribers, one lemma per way the set changes.

`ComponentsProofs` is about the modules `MCComponents` composes, one invariant each, kept by every
step of the others.

*Keyframe gate*: for any number of callers, any clamp and any back-off, `TypeOK`,
`Spaced`, `SuppressedForCause` and `HeldForCause`. The invariant says what a caller knows between
its loads: its copy of the interval is in the clamp, its copy of the last request is no later than
the last request, its clock reading no later than the clock. Then a caller whose compare-exchange
succeeds is a window later than the request it replaces, because what it saw is what is there
(`OpenIsLater`). `HeldForCause` needs the two limiters tied together: once the gate has dealt
with the PLI the back-off admitted last, somebody's request lies less than a gate window
before it (`AdmitMet`).

*Bitrate driver* (`RateActsOnce`), for any number of reports and bitrates. `ActsOnce` compares
counters at rest; the invariant `BitrateInv` says what pays for the next move: a report heard and
not yet acted on, a sample not yet drained (`moved + News <= heard + 1`), and a loss is in one of
the reader's counter, the driver's, or what was acted on (`acted + missing + losing <= gone`).

*Audio ring* (`SoundInOrder`, `SoundAnchorTrue`): the theorems of `AudioRingProofs`, instantiated;
`ComponentsAssumption` makes the wrap a larger multiple of the size, which is what they assume.

*Join gate* (`LockoutsPaid`), for any devices, finite requests and limits. Between a check and its
outcome a request is in no critical section, so the wrong codes must be counted wherever they
are: `CodesInv` says that a device's wrong codes pay for its lockouts, for the failures on its
entry while none is running, and for each request that is still to record one (`Due`); and the
same of everybody's codes, the pauses and the requests still to tell the global limiter
(`Unnoted`). `guesses` is a history variable, the sum of `wrong`: with it the second inequality
needs no sum over the devices.

*Display driver client* (`ForeignKept`, `HostsKeep`, `LeftIsReclaimable`), for any hosts and any
number of monitor ids, with deaths at every step. `DriverTyped(F)` says that no host ever claims,
plans to detach or registers one of the monitors `F`: it is inductive for every `F` that nobody
of the hosts has attached, and `ForeignStays` takes the strangers' monitors for `F`, however late
the answers are. While none has been late, `InTime` adds that outside a commit each host is
`Settled`. A live one's monitors are in the driver's list, and the registry has them under it or
under nobody, until a write has misfiled one (`Keeps`): an entry that is lost makes a monitor look
like a stranger's, and strangers' monitors are kept. And any one's monitors in the list, a dead
one's too, are in the registry under it or as released, unless it was cut off, and but for the
monitors that are astray (`Knows`). The list and registry of a commit under way leave every host
settled, whether its reading of the file failed or not and whether its write comes about or not
(`SoundPlan`); and a host's commands and answers are where its place in the commit says (`Asked`).

*Loss repair* (`LossesAreTrue`), for any frames, parts, slots, capacities and reports. A frame is
reported lost on the strength of a number in a report, found again in the history, that stands for
a packet of the frame. The invariant `RepairInv` says that the history is the last of the packets
sent, each under its number (`Remembered`); that a report covers packets that were sent
(`Covered`); and that a tally with a loss, and a frame noted as lost, has a packet that did not
arrive (`LossesNoted`, `LostGone`). Numbers wrap: a number in a report finds the right packet
because both lie less than a turn apart (`SameNumber`, from `2 * HistoryCap <= Wrap` and a report
that is not late by a whole turn), which is the hypothesis 2^16 and `SEND_HISTORY` meet.

`TransportProofs` proves, for any finite number of offers and of disconnects, `TypeOK`,
`RegistryTrue`, `OnlyReplacedClosed` and `LiveCounts`. `OnlyReplacedClosed` needs an order that
the registry does not keep, since an older offer may register after a newer one and then
remembers it. What keeps it is the check before the activation: an attempt that passes it holds
the newest number drawn, so what it found in the registry is older (`OldIsOlder`, from `Distinct`
and `Drawn`), and one that registered late never gets to connect. `RegistryTrue` uses that an
entry is only taken back by the connection it names; `LiveCounts` needs the cardinality of the
open transports, one case per way that set changes.

`ServicesProofs` is about the modules `MCServices` composes.

`OneClientRuns`, for any number of turns: a registration starts its client
before it stops the one it replaces, and two threads may do so at once, so `OneClient` is not
inductive: the invariant says that every client that runs is the kept one or is on its way to be
kept by a thread that is in its swap, that no two threads bring the same, and that the number of a
new one is nobody else's.

`MirrorHolds` and `RegistrationHolds` (`MirrorAgrees`, `ShownIsRegistered`) speak of the host at
rest; what holds on the way there is that the id and code that are `Coming`, by the thread or
client that writes last, are what the rest of the writers will leave behind them (`MirrorInv`:
`Mirrored`, `CodeTold`, and `NamesFresh`, that an id still to be drawn is nobody's), and, unless
something crossed, that the newest client is alone in rotating, asks for what is coming, and is
what the status reports (`Uncrossed`).

`CursorGoesForward` (`CursorForward`), for any size of the numbers, and any number of frames less
than half of it (`ServicesAssumption`: the code compares 16 bits, and relies on the two numbers being
less than half of the space apart, `input/protocol.rs:122-124`; a frame that lags further does take
the cursor back, in the model as in the code. The numbers still wrap, since they may start
anywhere). Every frame under way, in either queue or on its
way through the relief, carries the number that stands for its place among those sent
(`AllNumbered`); the mark stands for a frame that was sent, and the cursor is no further
(`Marked`). `OlderIsNotNewer` is the arithmetic: of two frames less than half of the numbers
apart, the wrapped comparison calls newer only the one that is.

`EncodeRingProofs` proves, for any finite number of slots and any faults, `TypeOK`, `SlotCustody`
and `NewestKept`. The invariant adds where the thread stands (`TInv`), that a stored target is
newer than the one taken and that newer than the encoder's (`NewestFirst`), and for each slot its
one place with the mutex that fits the place, as long as the thread has not ended (`Custody`,
`Keys`). What is free is never quarantined, so the scan of `TakeFreeSlot` takes the first.

`ClientPageProofs` proves `FormQuiet` for any number of edits, events, rows and polls. It is
inductive as it stands; the work is in the number of ways back to the form and of answers that
come after it, one lemma per group of actions.

`AudioRingProofs` proves `InOrder` and `AnchorTrue` of the ring for every capacity, every wrap
that is a larger multiple of it (`Sizes`, which two powers of two meet) and any number of blocks.
`Samples` ties the wrapped counters to the ones that do not wrap (`Wrapped`), gives each side its
own part of the ring (`Room`), and says that every sample accepted and not taken is in its place
(`Kept`), which a write cannot disturb because indices less than `Cap` apart have different
remainders (`ModApart`). `Anchored` says that an odd sequence number means a block is being
stamped, and that a reader whose number still stands has read what stands.

The assumptions on constants are those the modules name, and TLC evaluates them in the runs:
types and positive limits, `None` outside the sets it stands beside (`ListsAssumption`: a list
of monitors is never taken for a request without one), the wraps of the ring, of the input
numbers and of the packet numbers.

Model-checked only:

- Liveness (`EveryAttemptEnds`, `CallsReturn`, `EndsSilent`, `StepDownHeard`, `EndIsSeen`,
  `ReplacedGoes`, `KeyframeTried`, `NeverStuck`, `EditSeen`, `EndsAsAsked`, `EndsReleased`): the
  prover treats neither fairness nor `ENABLED`.

Every safety invariant and action property of a passing run is a theorem.

## 6. What could come next

1. `Transport` as a refinement of the lifecycle's `tr`/`ended`, and an abstract `DisplayCustody` (a
   display belongs to one join from create to remove) that the lifecycle implements.
2. The parts of liveness that are safety: that a task which waits for the hub, the lock or a
   queue has somebody who will wake it, as invariants with theorems.
3. `DisplayCorrelation`: the name diff before and after a create, with and without the lock.
4. The trickle budget, pen and touch input, the requests the relay tunnels.

## 7. Not modelled

Codecs, GPU and capture calls, SDP/TLS/RTP byte formats, WASAPI/CoreAudio, AirPlay, firewall
and adapter handling, telemetry, CLI parsing and the dashboard's views: I/O and formats with
no shared state of their own. The pacer is a leaky bucket one task fills and drains. The synchronous
encode pipeline and that of macOS have one thread and no ring. `PROJECT.json` gives each
component's status and what is left out of the partly modelled ones.

*Single instance.* A lock file and a control file shared by two processes; it was read and not
modelled, because each process makes one pass through a handful of file calls. Met while reading:
`run_stop` removes the control file after it found no host running, and may remove the one a new
host has just written (`cli.rs:4161`); a status probe holds the lock for a moment
(`cli.rs:1270`); the desktop host never removes its control file, and the fresh token in each
makes a stale one harmless.

## Running

    tlc -workers 2 -config renegotiation.cfg MCSessionLifecycle
    tlapm SessionLifecycleProofs.tla

and likewise for the other runs, each with the module `PROJECT.json` names for it.
