------------------------------ MODULE AudioHub ------------------------------
(***************************************************************************)
(* The host-wide audio capture and the forwarder tasks that share it:      *)
(* AudioHub (src-tauri/src/streamer/audio/mod.rs:192-336) with the loop of *)
(* forward_datachannel and forward_track                                   *)
(* (src-tauri/src/streamer/webrtc_session.rs:1925-2190), its only callers. *)
(*                                                                         *)
(* One step is one critical section under `inner`, or the work a thread    *)
(* does between two of them with the mutex released: opening the device,   *)
(* closing it, waiting on the condition variable.  A capture is named by   *)
(* the number of devices opened before it, so that a subscription knows    *)
(* which capture feeds it.                                                 *)
(*                                                                         *)
(* Abstracted: the packets, the lag and backpressure handling (they change *)
(* no state of the hub), the 200 ms sleep between two turns of a loop, and *)
(* a panic inside a device call.                                           *)
(***************************************************************************)
EXTENDS Integers, FiniteSets

CONSTANTS Forwarders,   \* the forwarder tasks of all sessions
          MaxToggles,   \* bound: how often the users change their minds
          MaxRefusals,  \* bound: how often the device refuses to open
          MaxSpurious   \* bound: spurious wake-ups of the condition variable

None == 0

ASSUME ForwardersAssumption == IsFiniteSet(Forwarders)
ASSUME BoundsAssumption == /\ MaxToggles \in Nat
                           /\ MaxRefusals \in Nat
                           /\ MaxSpurious \in Nat

VARIABLES
  running,   \* HubInner.running: the capture published to subscribers, or None
  refcount,  \* HubInner.refcount
  busy,      \* HubInner.busy
  capturing, \* the OS captures that are open
  opened,    \* how many were ever opened: it names the next one
  stage,     \* where each forwarder's thread is
  call,      \* the hub call it is in, or was last in
  held,      \* the capture that call has in a local: opened, or taken to stop
  sub,       \* the capture its subscription listens to, or None
  want,      \* audio_enabled_now() of its session
  alive,     \* its peer connection
  toggles, refusals, spurious   \* what the bounds count

hub    == <<running, refcount, busy>>
device == <<capturing, opened>>
task   == <<stage, call, held, sub>>
world  == <<want, alive>>
counts == <<toggles, refusals, spurious>>
vars   == <<hub, device, task, world, counts>>

\* "loop": at the top of the forwarder's loop.  "entry": in lock_idle, about to
\* take the mutex.  "parked": in Condvar::wait.  "opening", "opened", "refused":
\* between the two critical sections of subscribe.  "closing", "closed": between
\* the two of unsubscribe.
Stages == {"loop", "entry", "parked", "opening", "opened", "refused",
           "closing", "closed", "gone"}

\* "unsubscribe": the user turned audio off.  "leave": the loop has ended.
Calls == {"subscribe", "unsubscribe", "leave"}

HubTyped == /\ running \in Nat /\ refcount \in Nat /\ busy \in BOOLEAN
            /\ capturing \subseteq Nat /\ opened \in Nat

TaskTyped == /\ stage \in [Forwarders -> Stages] /\ call \in [Forwarders -> Calls]
             /\ held \in [Forwarders -> Nat] /\ sub \in [Forwarders -> Nat]

WorldTyped == /\ want \in [Forwarders -> BOOLEAN] /\ alive \in [Forwarders -> BOOLEAN]
              /\ toggles \in Nat /\ refusals \in Nat /\ spurious \in Nat

TypeOK == HubTyped /\ TaskTyped /\ WorldTyped

Init ==
  /\ running = None /\ refcount = 0 /\ busy = FALSE
  /\ capturing = {} /\ opened = 0
  /\ stage = [f \in Forwarders |-> "loop"]
  /\ call = [f \in Forwarders |-> "leave"]
  /\ held = [f \in Forwarders |-> None] /\ sub = [f \in Forwarders |-> None]
  /\ want \in [Forwarders -> BOOLEAN]
  /\ alive = [f \in Forwarders |-> TRUE]
  /\ toggles = 0 /\ refusals = 0 /\ spurious = 0

-----------------------------------------------------------------------------
(* The world: users, peer connections, the operating system.               *)

\* The device's audio setting is flipped in the desktop UI.
Toggle(f) ==
  /\ stage[f] # "gone"
  /\ toggles < MaxToggles
  /\ toggles' = toggles + 1
  /\ want' = [want EXCEPT ![f] = ~@]
  /\ UNCHANGED <<hub, device, task, alive, refusals, spurious>>

\* The peer connection or the data channel dies, or a send on it fails.
Die(f) ==
  /\ alive[f]
  /\ alive' = [alive EXCEPT ![f] = FALSE]
  /\ UNCHANGED <<hub, device, task, want, counts>>

\* start_audio_capture returns Ok: a capture runs, unknown to the hub as yet.
DeviceOpens(f) ==
  /\ stage[f] = "opening"
  /\ opened' = opened + 1
  /\ capturing' = capturing \cup {opened + 1}
  /\ stage' = [stage EXCEPT ![f] = "opened"]
  /\ held' = [held EXCEPT ![f] = opened + 1]
  /\ UNCHANGED <<hub, call, sub, world, counts>>

\* start_audio_capture returns Err.
DeviceRefuses(f) ==
  /\ stage[f] = "opening"
  /\ refusals < MaxRefusals
  /\ refusals' = refusals + 1
  /\ stage' = [stage EXCEPT ![f] = "refused"]
  /\ UNCHANGED <<hub, device, call, held, sub, world, toggles, spurious>>

-----------------------------------------------------------------------------
(* The hub.                                                                *)

\* Condvar::notify_all: every parked thread goes back for the mutex.
WakeAll(st) ==
  [g \in Forwarders |-> IF st[g] = "parked" THEN "entry" ELSE st[g]]

\* lock_idle finds the hub busy and waits: the mutex is released in the wait.
Park(f) ==
  /\ stage[f] = "entry"
  /\ busy
  /\ stage' = [stage EXCEPT ![f] = "parked"]
  /\ UNCHANGED <<hub, device, call, held, sub, world, counts>>

\* Condvar::wait may return by itself; the loop in lock_idle looks again.
WakeSpuriously(f) ==
  /\ stage[f] = "parked"
  /\ spurious < MaxSpurious
  /\ spurious' = spurious + 1
  /\ stage' = [stage EXCEPT ![f] = "entry"]
  /\ UNCHANGED <<hub, device, call, held, sub, world, toggles, refusals>>

\* lock_idle returns: f holds the mutex and the hub is not busy.
Idle(f) == stage[f] = "entry" /\ ~busy

\* subscribe, the capture runs already: take a receiver and count it.
Subscribe(f) ==
  /\ Idle(f)
  /\ call[f] = "subscribe"
  /\ running # None
  /\ refcount' = refcount + 1
  /\ sub' = [sub EXCEPT ![f] = running]
  /\ stage' = [stage EXCEPT ![f] = "loop"]
  /\ UNCHANGED <<running, busy, device, call, held, world, counts>>

\* subscribe, no capture: mark the hub busy, release the mutex, open the device.
BeginOpen(f) ==
  /\ Idle(f)
  /\ call[f] = "subscribe"
  /\ running = None
  /\ busy' = TRUE
  /\ stage' = [stage EXCEPT ![f] = "opening"]
  /\ UNCHANGED <<running, refcount, device, call, held, sub, world, counts>>

\* subscribe, back from the device: clear busy, notify, publish the capture or
\* stop it if one was published meanwhile, then subscribe.
Publish(f) ==
  /\ stage[f] = "opened"
  /\ busy' = FALSE
  /\ running' = IF running = None THEN held[f] ELSE running
  /\ capturing' = IF running = None THEN capturing ELSE capturing \ {held[f]}
  /\ refcount' = refcount + 1
  /\ sub' = [sub EXCEPT ![f] = running']
  /\ stage' = [WakeAll(stage) EXCEPT ![f] = "loop"]
  /\ UNCHANGED <<opened, call, held, world, counts>>

\* subscribe, the device refused: clear busy, notify, return the error.
GiveUp(f) ==
  /\ stage[f] = "refused"
  /\ busy' = FALSE
  /\ stage' = [WakeAll(stage) EXCEPT ![f] = "loop"]
  /\ UNCHANGED <<running, refcount, device, call, held, sub, world, counts>>

\* Where a forwarder goes when its unsubscribe returns.
Returned(f) == IF call[f] = "leave" THEN "gone" ELSE "loop"

\* Mutant: the capture is stopped outside the mutex and nothing says so.
UnsubscribeUnmarked(f) ==
  LET last == refcount = 1
  IN
  /\ Idle(f)
  /\ call[f] \in {"unsubscribe", "leave"}
  /\ refcount' = refcount - 1
  /\ running' = IF last THEN None ELSE running
  /\ held' = IF last THEN [held EXCEPT ![f] = running] ELSE held
  /\ stage' = [stage EXCEPT ![f] = IF last THEN "closing" ELSE Returned(f)]
  /\ UNCHANGED <<busy, device, call, sub, world, counts>>

\* unsubscribe: the count goes down; the one that takes it to zero takes the
\* capture too and goes to stop it with the mutex released.
Unsubscribe(f) ==
  LET left == refcount - 1
  IN
  /\ Idle(f)
  /\ call[f] \in {"unsubscribe", "leave"}
  /\ refcount' = IF refcount = 0 THEN 0 ELSE left
  /\ IF refcount = 0 \/ left # 0 \/ running = None
     THEN /\ stage' = [stage EXCEPT ![f] = Returned(f)]
          /\ UNCHANGED <<running, busy, held>>
     ELSE /\ running' = None
          /\ busy' = TRUE
          /\ held' = [held EXCEPT ![f] = running]
          /\ stage' = [stage EXCEPT ![f] = "closing"]
  /\ UNCHANGED <<device, call, sub, world, counts>>

\* stop() has joined the capture thread: that capture is over.
DeviceCloses(f) ==
  /\ stage[f] = "closing"
  /\ capturing' = capturing \ {held[f]}
  /\ stage' = [stage EXCEPT ![f] = "closed"]
  /\ UNCHANGED <<hub, opened, call, held, sub, world, counts>>

\* Mutant: the hub is idle again and nobody is told.
ReleaseQuietly(f) ==
  /\ stage[f] = "closed"
  /\ busy' = FALSE
  /\ stage' = [stage EXCEPT ![f] = Returned(f)]
  /\ UNCHANGED <<running, refcount, device, call, held, sub, world, counts>>

\* unsubscribe, back from the device: clear busy, notify, return.
Release(f) ==
  /\ stage[f] = "closed"
  /\ busy' = FALSE
  /\ stage' = [WakeAll(stage) EXCEPT ![f] = Returned(f)]
  /\ UNCHANGED <<running, refcount, device, call, held, sub, world, counts>>

-----------------------------------------------------------------------------
(* The forwarder's loop.                                                   *)

\* The top of the loop when something is to be done: the transport is looked at
\* first, then the wish is compared with the subscription.  The receiver is
\* dropped before unsubscribe is called.
Enter(f, c) ==
  /\ stage[f] = "loop"
  /\ stage' = [stage EXCEPT ![f] = "entry"]
  /\ call' = [call EXCEPT ![f] = c]
  /\ sub' = [sub EXCEPT ![f] = None]
  /\ UNCHANGED <<hub, device, held, world, counts>>

TurnOn(f)  == alive[f] /\ want[f] /\ sub[f] = None /\ Enter(f, "subscribe")
TurnOff(f) == alive[f] /\ ~want[f] /\ sub[f] # None /\ Enter(f, "unsubscribe")
Finish(f)  == ~alive[f] /\ sub[f] # None /\ Enter(f, "leave")

\* Mutant: a loop that ends drops its subscription and gives nothing back.
EndHolding(f) ==
  /\ stage[f] = "loop"
  /\ ~alive[f]
  /\ stage' = [stage EXCEPT ![f] = "gone"]
  /\ sub' = [sub EXCEPT ![f] = None]
  /\ UNCHANGED <<hub, device, call, held, world, counts>>

\* The loop ends with no subscription to give back.
End(f) ==
  /\ stage[f] = "loop"
  /\ ~alive[f]
  /\ sub[f] = None
  /\ stage' = [stage EXCEPT ![f] = "gone"]
  /\ UNCHANGED <<hub, device, call, held, sub, world, counts>>

-----------------------------------------------------------------------------
Task(f) == \/ TurnOn(f) \/ TurnOff(f) \/ Finish(f) \/ End(f)
           \/ Park(f) \/ Subscribe(f) \/ BeginOpen(f) \/ Publish(f) \/ GiveUp(f)
           \/ Unsubscribe(f) \/ Release(f)

Device(f) == DeviceOpens(f) \/ DeviceRefuses(f) \/ DeviceCloses(f)

World(f) == Toggle(f) \/ Die(f) \/ WakeSpuriously(f)

Next == \E f \in Forwarders : Task(f) \/ Device(f) \/ World(f)

Spec == Init /\ [][Next]_vars

\* A thread that can take its next step does, and a device call returns.  The
\* users, the peers and the condition variable owe nothing.
Fairness == \A f \in Forwarders : WF_vars(Task(f)) /\ WF_vars(Device(f))

FairSpec == Spec /\ Fairness

-----------------------------------------------------------------------------
(* What the hub guarantees.                                                *)

\* The forwarders whose subscription is counted: those that hold one and those
\* whose call to give it back has not yet taken the mutex.
Listeners ==
  {f \in Forwarders : \/ sub[f] # None
                      \/ stage[f] \in {"entry", "parked"} /\ call[f] # "subscribe"}

\* However the toggles of several sessions interleave with device opens and
\* closes that run outside the mutex, the host has at most one capture open or
\* being opened (mod.rs:207-219, and the race of lines 279-283).
OneDevice ==
  Cardinality(capturing) + Cardinality({f \in Forwarders : stage[f] = "opening"}) <= 1

\* A subscription is always fed: its channel is that of the capture the hub has
\* published and the device of that capture is open.  So a forwarder never sees
\* its channel closed, the arm that forgets a subscription without giving the
\* count back (webrtc_session.rs:2043-2045).
AlwaysFed == \A f \in Forwarders : sub[f] # None => sub[f] = running /\ running \in capturing

\* The reference count is the number of subscriptions that exist, whatever
\* sessions died or were refused on the way, and a capture is published exactly
\* while it is not zero (mod.rs:304, 311-324).
CountIsExact == /\ refcount = Cardinality(Listeners)
                /\ running # None <=> refcount > 0

\* While no thread is in a device call no capture runs but the published one:
\* none was lost between two critical sections (mod.rs:268-291, 319-334).
NothingLeaks == ~busy => capturing = {running} \ {None}

\* What the device is doing, as far as the hub's users can tell.
DeviceState ==
  IF running # None THEN "on"
  ELSE IF \E f \in Forwarders : stage[f] \in {"opening", "opened", "refused"} THEN "opening"
  ELSE IF \E f \in Forwarders : stage[f] \in {"closing", "closed"} THEN "closing"
  ELSE "off"

\* What the hub implements (AudioPromise).
Promise == INSTANCE AudioPromise WITH listeners <- Listeners, device <- DeviceState

\* The hub implements its promise: one device, opened for the first listener,
\* closed after the last, and joined only while it is on.
KeepsPromise == Promise!Spec

\* A call to the hub returns: no wake-up is lost between the busy flag and the
\* condition variable, and nobody waits for ever behind a device that opens,
\* refuses or closes (mod.rs:249-255, 268-270, 331-333).
CallsReturn ==
  \A f \in Forwarders :
    stage[f] \in {"entry", "parked"} ~> stage[f] \in {"loop", "gone"}

\* When every session's transport is dead the host stops recording: every
\* forwarder gives back what it holds, at whatever point of the loop or of a
\* call its transport died, and the last one closes the device.
EndsSilent ==
  (\A f \in Forwarders : ~alive[f]) ~> (capturing = {} /\ refcount = 0 /\ ~busy)

=============================================================================
