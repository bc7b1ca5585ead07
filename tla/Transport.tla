----------------------------- MODULE Transport -----------------------------
(***************************************************************************)
(* The WebRTC transports of one join: the peer connection each offer       *)
(* builds, the trickle registry that makes the newest of them addressable, *)
(* the state callback that ends a session or spares it, and the closing of *)
(* the transport a renegotiation replaces                                  *)
(* (src-tauri/src/streamer/webrtc_session.rs: prepare_whep, activate_whep, *)
(* SessionHandle, register_trickle; the calls to them in server.rs).       *)
(*                                                                         *)
(* A transport is named by the attempt that built it.  What the display    *)
(* half of a join does is SessionLifecycle's; here it may fail, or take    *)
(* any time.  The runtime has several workers: a lock region, or a call    *)
(* without an await, is one step.                                          *)
(***************************************************************************)
EXTENDS Integers, FiniteSets, JoinAttempts

CONSTANT MaxBlips   \* bound: how often one connection is disconnected

VARIABLES
  at,       \* where the attempt and, after its answer, its teardown task is
  seq,      \* the sequence number it drew, 0 for none
  latest,   \* the one the session holds
  conn,     \* the state of its peer connection
  handler,  \* its state callback is installed
  old,      \* `superseded`: the transport it will close once it is connected
  reg,      \* the connection TRICKLE_SESSIONS names for this join
  live,     \* LIVE_SESSIONS
  sent,     \* closed_tx has been used
  left,     \* its leave signal has been given
  closers,  \* transports that a task is about to close for their successor
  version,  \* of the grace_cancel watch channel
  graces,   \* grace tasks that wait
  up,       \* history: the connection has been up
  last      \* history: the connection registered last

task     == <<at, seq, latest>>
pcs      == <<conn, handler, up>>
registry == <<reg, last>>
signals  == <<sent, left>>
watch    == <<version, graces>>
vars     == <<task, pcs, registry, signals, watch, old, live, closers>>

\* An attempt that has registered its connection and not yet taken it back.
Registered == {"prepared", "activating", "armed", "serving"}

\* An attempt that has a peer connection.
Open == {"negotiating", "closing"} \cup Registered

TypeOK ==
  /\ at \in [Attempts -> {"idle", "offered", "gone"} \cup Open]
  /\ seq \in [Attempts -> Nat] /\ latest \in Nat
  /\ conn \in [Attempts -> {"new", "connected", "disconnected", "failed", "closed"}]
  /\ handler \in [Attempts -> BOOLEAN] /\ up \in [Attempts -> BOOLEAN]
  /\ old \in [Attempts -> Attempts \cup {None}]
  /\ reg \in Attempts \cup {None} /\ last \in Attempts \cup {None}
  /\ live \in Nat
  /\ sent \in [Attempts -> BOOLEAN] /\ left \in [Attempts -> BOOLEAN]
  /\ closers \subseteq Attempts
  /\ version \in [Attempts -> Nat] /\ graces \in [Attempts -> Nat]

Init ==
  /\ at = [a \in Attempts |-> "idle"]
  /\ seq = [a \in Attempts |-> 0] /\ latest = 0
  /\ conn = [a \in Attempts |-> "new"]
  /\ handler = [a \in Attempts |-> FALSE] /\ up = [a \in Attempts |-> FALSE]
  /\ old = [a \in Attempts |-> None]
  /\ reg = None /\ last = None
  /\ live = 0
  /\ sent = [a \in Attempts |-> FALSE] /\ left = [a \in Attempts |-> FALSE]
  /\ closers = {}
  /\ version = [a \in Attempts |-> 0] /\ graces = [a \in Attempts |-> 0]

Go(a, from, to) == at[a] = from /\ at' = [at EXCEPT ![a] = to]

\* Mutant: any session under this join will do.
SessionExists(a) == latest # 0

\* is_current_session
StillCurrent(a) == seq[a] = latest

-----------------------------------------------------------------------------
(* The handshake half of a join.                                           *)

\* A POST draws its sequence number; what it awaits before the handshake, the
\* stop of the previous capture for one, may take any time.
Offer(a) ==
  /\ Go(a, "idle", "offered")
  /\ latest' = latest + 1
  /\ seq' = [seq EXCEPT ![a] = latest + 1]
  /\ UNCHANGED <<pcs, registry, signals, watch, old, live, closers>>

\* An attempt that fails before its handshake has no transport.
Refused(a) ==
  /\ Go(a, "offered", "gone")
  /\ UNCHANGED <<seq, latest, pcs, registry, signals, watch, old, live, closers>>

NewConnection(a) ==
  /\ Go(a, "offered", "negotiating")
  /\ live' = live + 1
  /\ UNCHANGED <<seq, latest, pcs, registry, signals, watch, old, closers>>

\* The negotiation fails: the connection is closed before anybody could name it.
NegotiationFails(a) ==
  /\ Go(a, "negotiating", "gone")
  /\ conn' = [conn EXCEPT ![a] = "closed"]
  /\ live' = live - 1
  /\ UNCHANGED <<seq, latest, handler, up, registry, signals, watch, old, closers>>

\* The answer exists: register_trickle puts the connection in the registry and
\* hands back the one that was there.
Register(a) ==
  /\ Go(a, "negotiating", "prepared")
  /\ reg' = a /\ last' = a
  /\ old' = [old EXCEPT ![a] = reg]
  /\ UNCHANGED <<seq, latest, pcs, signals, watch, live, closers>>

\* Mutant: forget the join's entry by its id alone.
UnregisterId(a) == reg' = None

\* unregister_trickle: forget the join's entry, if it still names this connection.
Unregister(a) == reg' = IF reg = a THEN None ELSE reg

\* PendingWhep::abandon and SessionHandle::close take the entry back first.
GiveUp(a) ==
  /\ Unregister(a)
  /\ UNCHANGED <<seq, latest, pcs, last, signals, watch, old, live, closers>>

\* The display half has failed, or the attempt has been superseded meanwhile.
Abandon(a) == Go(a, "prepared", "closing") /\ GiveUp(a)

Activate(a) ==
  /\ StillCurrent(a)
  /\ Go(a, "prepared", "activating")
  /\ UNCHANGED <<seq, latest, pcs, registry, signals, watch, old, live, closers>>

\* activate_whep installs the state callback last; a change of state before it
\* has passed unseen.
Arm(a) ==
  /\ Go(a, "activating", "armed")
  /\ handler' = [handler EXCEPT ![a] = TRUE]
  /\ UNCHANGED <<seq, latest, conn, up, registry, signals, watch, old, live, closers>>

\* Superseded during the activation: it stands down.
StandDown(a) == ~StillCurrent(a) /\ Go(a, "armed", "closing") /\ GiveUp(a)

\* The teardown task is spawned and the answer goes out.
Answer(a) ==
  /\ StillCurrent(a)
  /\ Go(a, "armed", "serving")
  /\ UNCHANGED <<seq, latest, pcs, registry, signals, watch, old, live, closers>>

-----------------------------------------------------------------------------
(* The peer connection and its callback.                                   *)

\* The states that end a session at once.
Final == {"failed", "closed"}

\* Mutants: the callback overlooks one of the final states.
EnterIgnoringFailed(a, s) ==
  /\ conn' = [conn EXCEPT ![a] = s]
  /\ sent' = IF handler[a] /\ s = "closed" THEN [sent EXCEPT ![a] = TRUE] ELSE sent
  /\ UNCHANGED <<task, handler, registry, left, live>>

EnterIgnoringClosed(a, s) ==
  /\ conn' = [conn EXCEPT ![a] = s]
  /\ sent' = IF handler[a] /\ s = "failed" THEN [sent EXCEPT ![a] = TRUE] ELSE sent
  /\ UNCHANGED <<task, handler, registry, left, live>>

\* The connection of `a` enters state `s`: what the callback does, if it is there.
Enter(a, s) ==
  /\ conn' = [conn EXCEPT ![a] = s]
  /\ sent' = IF handler[a] /\ s \in Final THEN [sent EXCEPT ![a] = TRUE] ELSE sent
  /\ UNCHANGED <<task, handler, registry, left, live>>

\* The page's answer has arrived and ICE and DTLS come up, or come back.  The
\* callback cancels the grace and takes `superseded`, once, to close it.
Connect(a) ==
  /\ at[a] = "serving" /\ conn[a] \in {"new", "disconnected"}
  /\ Enter(a, "connected")
  /\ up' = [up EXCEPT ![a] = TRUE]
  /\ version' = [version EXCEPT ![a] = @ + 1]
  /\ old' = [old EXCEPT ![a] = None]
  /\ closers' = closers \cup ({old[a]} \ {None})
  /\ UNCHANGED graces

\* The path is lost for the moment: a grace task is spawned, with a copy of a
\* receiver that has seen nothing yet, and the watch channel is set to FALSE.
Disconnect(a) ==
  /\ conn[a] = "connected"
  /\ version[a] < 2 * MaxBlips
  /\ Enter(a, "disconnected")
  /\ version' = [version EXCEPT ![a] = @ + 1]
  /\ graces' = [graces EXCEPT ![a] = @ + 1]
  /\ UNCHANGED <<up, old, closers>>

\* ICE gives up: on a path that was lost, or on one that never came up, which
\* may be as early as the host's own side of the negotiation.
Fail(a) ==
  /\ at[a] \in Registered /\ conn[a] \in {"new", "disconnected"}
  /\ Enter(a, "failed")
  /\ UNCHANGED <<watch, up, old, closers>>

\* The version of the watch channel a grace task starts from: the one the
\* callback's own receiver has seen, and nobody ever reads through that one.
SeenAtStart(a) == 0

\* A grace task wakes.  A version it has not seen counts as the cancellation, or
\* as one that failed to say so, and the task ends; else its 8 s are over.
GraceEnds(a) ==
  /\ graces[a] > 0
  /\ graces' = [graces EXCEPT ![a] = @ - 1]
  /\ sent' = IF version[a] = SeenAtStart(a) THEN [sent EXCEPT ![a] = TRUE] ELSE sent
  /\ UNCHANGED <<task, pcs, registry, left, version, old, live, closers>>

\* The task a successor's callback spawned closes this transport.  The Weak it
\* holds no longer upgrades once the transport has been let go.
CloseReplaced(a) ==
  /\ a \in closers
  /\ closers' = closers \ {a}
  /\ IF at[a] # "gone" /\ conn[a] # "closed" THEN Enter(a, "closed")
     ELSE UNCHANGED <<task, conn, handler, registry, signals, live>>
  /\ UNCHANGED <<watch, up, old>>

-----------------------------------------------------------------------------
(* The end of a session.                                                   *)

\* The page leaves, or the host kicks it: the signal of the current session.
Leave(a) ==
  /\ at[a] = "serving" /\ StillCurrent(a) /\ ~left[a]
  /\ left' = [left EXCEPT ![a] = TRUE]
  /\ UNCHANGED <<task, pcs, registry, sent, watch, old, live, closers>>

\* The teardown task wakes and begins to close its transport.
Ended(a) == (sent[a] \/ left[a]) /\ Go(a, "serving", "closing") /\ GiveUp(a)

\* The connection is closed and let go, the injector joined or given up on.
Close(a) ==
  /\ Go(a, "closing", "gone")
  /\ conn' = [conn EXCEPT ![a] = "closed"]
  /\ sent' = IF handler[a] /\ conn[a] # "closed" THEN [sent EXCEPT ![a] = TRUE] ELSE sent
  /\ live' = live - 1
  /\ UNCHANGED <<seq, latest, handler, up, registry, left, watch, old, closers>>

\* The newest attempt has ended and the join's row is removed: nobody is current.
\* A row that is opened again would count from 1; here no number is used twice.
Forget ==
  /\ latest # 0 /\ \E a \in Attempts : seq[a] = latest
  /\ \A a \in Attempts : seq[a] = latest => at[a] = "gone"
  /\ latest' = latest + 1
  /\ UNCHANGED <<at, seq, pcs, registry, signals, watch, old, live, closers>>

-----------------------------------------------------------------------------
\* What the host does on its own.
Host(a) == \/ Refused(a) \/ NewConnection(a) \/ NegotiationFails(a) \/ Register(a)
           \/ Abandon(a) \/ Activate(a) \/ Arm(a) \/ StandDown(a) \/ Answer(a)
           \/ Ended(a) \/ Close(a)

\* What the page and the network do.
Peer(a) == Offer(a) \/ Connect(a) \/ Disconnect(a) \/ Fail(a) \/ Leave(a)

Next == \/ Forget
        \/ \E a \in Attempts : Host(a) \/ Peer(a) \/ GraceEnds(a) \/ CloseReplaced(a)

Spec == Init /\ [][Next]_vars

\* Tasks of the host run on; the page and the network owe nothing.
Fairness == \A a \in Attempts : WF_vars(Host(a)) /\ WF_vars(CloseReplaced(a))

FairSpec == Spec /\ Fairness

-----------------------------------------------------------------------------
(* What the transports guarantee.                                          *)

\* The registry names the connection that registered last for as long as that
\* one has not been taken back, whatever older ones are torn down meanwhile, and
\* never one that has been (webrtc_session.rs:2985-3026).
RegistryTrue ==
  /\ reg # None => reg = last /\ at[reg] \in Registered
  /\ last # None /\ at[last] \in Registered => reg = last

\* The transport closed for a successor is never the one of the current attempt,
\* in whatever order two attempts have registered (webrtc_session.rs:1657-1672,
\* server.rs:2316-2326 and 2360-2365).
OnlyReplacedClosed == \A b \in closers : seq[b] < latest

\* LIVE_SESSIONS counts the transports not yet given back, on every way out
\* (webrtc_session.rs:830, 881-892, 942, 1066).
LiveCounts == live = Cardinality({a \in Attempts : at[a] \in Open})

\* A connection that was up and has ended takes its session down: nothing is
\* served to nobody (webrtc_session.rs:1738-1744, server.rs:2442-2474).
EndIsSeen ==
  \A a \in Attempts : up[a] /\ conn[a] \in Final ~> at[a] = "gone"

\* Once a renegotiation is connected, the transport it replaced goes
\* (webrtc_session.rs:1657-1672): by way of the closing task, the callback of the
\* old connection and the old session's teardown task.
ReplacedGoes == \A b \in Attempts : b \in closers ~> at[b] = "gone"

=============================================================================
