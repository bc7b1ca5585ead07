-------------------------- MODULE SessionLifecycle --------------------------
(***************************************************************************)
(* The life of a join on the host: the shared session map                  *)
(* (streamer/session.rs), the POST /whep handler start_session with its    *)
(* two concurrent halves, the task it leaves behind to tear the session    *)
(* down, the unwinding of a failed attempt, and the host commands that     *)
(* reach a live session (kick, leave, a live scale change), all in         *)
(* streamer/server.rs.                                                     *)
(*                                                                         *)
(* One attempt is one POST /whep and the teardown task it spawns.  Every   *)
(* access to the session map takes its mutex once, so a lock region is one *)
(* atomic step.  What separates two lock regions is either an await or     *)
(* nothing but synchronous code; "cpu" tells the two apart.  With          *)
(* Preempt = FALSE a task keeps the processor from one await to the next   *)
(* (the interleavings of one executor thread); with Preempt = TRUE another *)
(* worker thread may run between any two lock regions, which is what the   *)
(* multi-threaded runtime allows.                                          *)
(***************************************************************************)
EXTENDS Naturals, FiniteSets, JoinAttempts

CONSTANTS
    Joins,      \* the join ids the host can mint
    Displays,   \* the display ids the driver can hand out
    Modes,      \* geometries: width, height, refresh and orientation as one value
    DeviceOf,   \* the device token an attempt authenticates as
    PageOf,     \* the page load (attemptId) an attempt came from
    RelayOf,    \* the relay client an attempt came through, or None
    Preempt,    \* may another worker run between two adjacent lock regions
    MayNudge,   \* may an attach reset the topology and re-apply other displays
    MayScale    \* may a scale change: a live display's by the host, or alone in an edit

LiveDisplay == [id : Displays, mode : Modes]

ASSUME LifecycleAssumption ==
    /\ None \notin Attempts \cup Joins \cup Displays \cup LiveDisplay
    /\ None \notin {DeviceOf[a] : a \in Attempts} \cup {PageOf[a] : a \in Attempts}
    /\ {Preempt, MayNudge, MayScale} \subseteq BOOLEAN

Devices == {DeviceOf[a] : a \in Attempts}
Pages   == {PageOf[a] : a \in Attempts}
Relays  == {RelayOf[a] : a \in Attempts}

VARIABLES
    sess,      \* SharedSessions: what each join id maps to
    minted,    \* join ids handed out so far
    pc,        \* where each attempt, then its teardown task, is
    jn,        \* the join an attempt works on
    cont,      \* did it continue a join that was open
    seq,       \* the sequence number it drew
    want,      \* the geometry its offer asks for
    had,       \* the display it found in the session, or None
    got,       \* the display it has landed on, or None
    outcome,   \* what its mode change did: "kept", "applied" or "refused"
    snap,      \* a session row read in one lock region and written in the next
    tr,        \* its peer connection
    ended,     \* has closed_tx fired, or the leave signal woken the teardown task
    taken,     \* the display taken out of the session to be removed
    running,   \* attempts whose capture and encoder run
    answered,  \* attempts whose answer went back to the page
    attached,  \* displays the OS has attached
    madeFor,   \* the join each display was created for
    mode,      \* the mode each display is really at
    corr,      \* who holds DISPLAY_CORRELATION_LOCK
    restore,   \* mode writes the topology reset still has to make
    scaler,    \* the live scale change in progress
    rows,      \* the joins the dashboard shows
    cpu        \* the task inside a synchronous section

claimVars == <<minted, jn, cont, seq>>
buildVars == <<want, had, got, outcome, snap>>
locals    == <<want, had, got, outcome, snap, taken>>
linkVars  == <<tr, ended>>
osVars    == <<attached, madeFor, mode, corr, restore>>
vars == <<sess, minted, pc, jn, cont, seq, want, had, got, outcome, snap, tr, ended,
          taken, running, answered, attached, madeFor, mode, corr, restore,
          scaler, rows, cpu>>

-----------------------------------------------------------------------------
(* The session map.  A missing key reads as defaults, so entry().or_default() *)
(* only has to set "open".                                                    *)

NoEntry == [open |-> FALSE, token |-> None, page |-> None, relay |-> None,
            connected |-> FALSE, seq |-> 0, live |-> None, leave |-> None, cap |-> None]

Entry == [open : BOOLEAN, token : Devices \cup {None}, page : Pages \cup {None},
          relay : Relays \cup {None}, connected : BOOLEAN, seq : Nat,
          live : LiveDisplay \cup {None}, leave : Attempts \cup {None},
          cap : Attempts \cup {None}]

IsCurrent(a) == sess[jn[a]].open /\ sess[jn[a]].seq = seq[a]

Run(a)   == cpu \in {None, a}
Yield    == cpu' = None
Hold(a)  == cpu' = IF Preempt THEN None ELSE a
Goto(a, l) == pc' = [pc EXCEPT ![a] = l]

\* Go on to l; the locals of a task that has ended are gone.
GoOrEnd(a, l) ==
    /\ Goto(a, l)
    /\ IF l = "done"
       THEN /\ want' = [want EXCEPT ![a] = None] /\ had' = [had EXCEPT ![a] = None]
            /\ got' = [got EXCEPT ![a] = None] /\ snap' = [snap EXCEPT ![a] = None]
            /\ outcome' = [outcome EXCEPT ![a] = "kept"]
            /\ taken' = [taken EXCEPT ![a] = None]
       ELSE UNCHANGED locals

BuildPcs == {"setMode", "readBack", "lock", "attach", "record", "check",
             "start", "readScale", "writeScale", "display"}
ServePcs == {"spawned", "wait", "close", "stopOwn", "grace"}
EndPcs   == {"abandon", "failGrace", "forget", "remove", "removeDisplay"}
PcLabels == {"idle", "open", "seq", "stopPrev", "existing"} \cup BuildPcs
            \cup {"join", "standDown", "activate", "arm", "capture"}
            \cup ServePcs \cup EndPcs \cup {"done"}

Init ==
    /\ sess = [j \in Joins |-> NoEntry]
    /\ minted = {} /\ running = {} /\ answered = {} /\ attached = {} /\ restore = {}
    /\ rows = {}
    /\ pc = [a \in Attempts |-> "idle"]
    /\ jn = [a \in Attempts |-> None]
    /\ cont = [a \in Attempts |-> FALSE]
    /\ seq = [a \in Attempts |-> 0]
    /\ want = [a \in Attempts |-> None]
    /\ had = [a \in Attempts |-> None]
    /\ got = [a \in Attempts |-> None]
    /\ outcome = [a \in Attempts |-> "kept"]
    /\ snap = [a \in Attempts |-> None]
    /\ tr = [a \in Attempts |-> "none"]
    /\ ended = [a \in Attempts |-> FALSE]
    /\ taken = [a \in Attempts |-> None]
    /\ madeFor = [d \in Displays |-> None]
    /\ mode = [d \in Displays |-> None]
    /\ corr = None
    /\ scaler = [step |-> "idle", join |-> None, live |-> None]
    /\ cpu = None

-----------------------------------------------------------------------------
(* Which session an offer continues.                                       *)

\* Mutant: any session that is open can be continued.
AnyOpenJoin(a, claim) == claim # None /\ sess[claim].open

\* continuing_join: the page names a session its own device token owns.
ContinuingJoin(a, claim) == claim # None /\ sess[claim].token = DeviceOf[a]

\* pending_join_for_attempt: joins this page load opened and never saw answered.
PendingJoins(a) ==
    {j \in Joins : /\ sess[j].page = PageOf[a]
                   /\ ~sess[j].connected
                   /\ sess[j].live # None
                   /\ sess[j].token = DeviceOf[a]}

\* live_join_for_relay_client: a streaming join, else one with a display, else any.
RelayJoins(r) ==
    LET mine == {j \in Joins : sess[j].open /\ sess[j].relay = r}
        streaming == {j \in mine : sess[j].cap # None}
        shown == {j \in mine : sess[j].live # None}
    IN  IF streaming # {} THEN streaming ELSE IF shown # {} THEN shown ELSE mine

\* relayed_continuation: that join, if it has a display and is this device's.
RelayContinuations(a) ==
    IF RelayOf[a] = None \/ RelayJoins(RelayOf[a]) = {} THEN {None}
    ELSE {IF sess[j].live # None /\ sess[j].token = DeviceOf[a] THEN j ELSE None :
              j \in RelayJoins(RelayOf[a])}

\* The or_else chain of start_session: the joins an offer may continue, None for a new one.
Continuations(a, claim) ==
    IF claim # None THEN {IF ContinuingJoin(a, claim) THEN claim ELSE None}
    ELSE IF PendingJoins(a) # {} THEN PendingJoins(a)
    ELSE RelayContinuations(a)

\* A page offers on no id or on one the host has answered with: its own, the one it copied
\* when its tab was duplicated, or one that leaked to another device.
Claims(a) == {None} \cup {jn[b] : b \in answered}

-----------------------------------------------------------------------------
(* start_session, up to the fork of its two halves.                        *)

\* Resolve the join: continue one, or mint an id nobody has.
Offer(a) ==
    /\ Run(a) /\ pc[a] = "idle"
    /\ \E claim \in Claims(a) : \E c \in Continuations(a, claim) :
         \E j \in IF c = None THEN Joins \ minted ELSE {c} :
            /\ jn' = [jn EXCEPT ![a] = j]
            /\ cont' = [cont EXCEPT ![a] = (c # None)]
            /\ minted' = minted \cup {j}
    /\ \E m \in Modes : want' = [want EXCEPT ![a] = m]
    /\ Goto(a, "open") /\ Hold(a)
    /\ UNCHANGED <<sess, seq, had, got, outcome, snap, linkVars, osVars, taken, running,
                   answered, scaler, rows>>

\* open_session_via, set_session_attempt and set_session_labels.
OpenSession(a) ==
    /\ Run(a) /\ pc[a] = "open"
    /\ sess' = [sess EXCEPT ![jn[a]] =
                   [@ EXCEPT !.open = TRUE, !.token = DeviceOf[a], !.page = PageOf[a],
                             !.relay = IF RelayOf[a] = None THEN sess[jn[a]].relay
                                                            ELSE RelayOf[a]]]
    /\ Goto(a, "seq") /\ Hold(a)
    /\ UNCHANGED <<claimVars, buildVars, linkVars, osVars, taken, running, answered,
                   scaler, rows>>

\* Mutant: a continuing offer keeps the number of the session it continues.
KeepSeq(a) ==
    /\ Run(a) /\ pc[a] = "seq"
    /\ sess' = [sess EXCEPT ![jn[a]] =
                   [@ EXCEPT !.open = TRUE, !.seq = IF cont[a] THEN @ ELSE @ + 1]]
    /\ seq' = [seq EXCEPT ![a] = sess'[jn[a]].seq]
    /\ Goto(a, IF cont[a] THEN "stopPrev" ELSE "existing") /\ Hold(a)
    /\ UNCHANGED <<minted, jn, cont, buildVars, linkVars, osVars, taken, running,
                   answered, scaler, rows>>

\* next_session_seq: from here on, every older attempt of the join is superseded.
NextSeq(a) ==
    /\ Run(a) /\ pc[a] = "seq"
    /\ sess' = [sess EXCEPT ![jn[a]] = [@ EXCEPT !.open = TRUE, !.seq = sess[jn[a]].seq + 1]]
    /\ seq' = [seq EXCEPT ![a] = sess[jn[a]].seq + 1]
    /\ Goto(a, IF cont[a] THEN "stopPrev" ELSE "existing") /\ Hold(a)
    /\ UNCHANGED <<minted, jn, cont, buildVars, linkVars, osVars, taken, running,
                   answered, scaler, rows>>

\* A continuing offer stops the capture it finds registered, and waits for it.
StopPrevious(a) ==
    /\ Run(a) /\ pc[a] = "stopPrev"
    /\ sess' = [sess EXCEPT ![jn[a]].cap = None]
    /\ running' = running \ {sess[jn[a]].cap}
    /\ IF sess[jn[a]].cap = None THEN Hold(a) ELSE Yield
    /\ Goto(a, "existing")
    /\ UNCHANGED <<claimVars, buildVars, linkVars, osVars, taken, answered, scaler, rows>>

\* Mutant: the display is that of any open session, as if the host had only one.
ReadAnyOpen(a) ==
    /\ Run(a) /\ pc[a] = "existing"
    /\ sess' = [sess EXCEPT ![jn[a]].open = TRUE]
    /\ \E j \in {j \in Joins : sess[j].open} :
          had' = [had EXCEPT ![a] = sess[j].live]
    /\ tr' = [tr EXCEPT ![a] = "gathering"]
    /\ Goto(a, "display") /\ Hold(a)
    /\ UNCHANGED <<claimVars, want, got, outcome, snap, ended, osVars, taken, running,
                   answered, scaler, rows>>

\* set_live_input, then get_live_display: the display this attempt will reuse.  The
\* handshake starts with the display half.
ReadExisting(a) ==
    /\ Run(a) /\ pc[a] = "existing"
    /\ sess' = [sess EXCEPT ![jn[a]].open = TRUE]
    /\ had' = [had EXCEPT ![a] = IF cont[a] THEN sess[jn[a]].live ELSE None]
    /\ tr' = [tr EXCEPT ![a] = "gathering"]
    /\ Goto(a, "display") /\ Hold(a)
    /\ UNCHANGED <<claimVars, want, got, outcome, snap, ended, osVars, taken, running,
                   answered, scaler, rows>>

-----------------------------------------------------------------------------
(* The display half.                                                       *)

\* The session has a display and the offer changes nothing about it.
ReuseUntouched(a) ==
    /\ Run(a) /\ pc[a] = "display" /\ had[a] # None
    /\ had[a].mode = want[a]
    /\ got' = [got EXCEPT ![a] = had[a]]
    /\ Goto(a, "record") /\ Hold(a)
    /\ UNCHANGED <<sess, claimVars, want, had, outcome, snap, linkVars, osVars, taken, running,
                   answered, scaler, rows>>

\* It changes the mode, or the scale alone: an attempt already superseded stands down instead.
ReuseChange(a) ==
    /\ Run(a) /\ pc[a] = "display" /\ had[a] # None
    /\ had[a].mode # want[a] \/ MayScale
    /\ IF IsCurrent(a)
       THEN got' = [got EXCEPT ![a] = had[a]] /\ Goto(a, "setMode")
       ELSE UNCHANGED got /\ Goto(a, "join")
    /\ Yield
    /\ UNCHANGED <<sess, claimVars, want, had, outcome, snap, linkVars, osVars, taken, running,
                   answered, scaler, rows>>

\* No display yet: queue for the correlation lock.
NeedDisplay(a) ==
    /\ Run(a) /\ pc[a] = "display" /\ had[a] = None
    /\ Goto(a, "lock") /\ Yield
    /\ UNCHANGED <<sess, claimVars, buildVars, linkVars, osVars, taken, running, answered,
                   scaler, rows>>

\* Under the lock, the driver creates a display at some mode, or refuses.
CreateDisplay(a) ==
    /\ Run(a) /\ pc[a] = "lock" /\ corr = None
    /\ \/ \E d \in {d \in Displays : madeFor[d] = None}, m \in Modes :
            /\ attached' = attached \cup {d}
            /\ madeFor' = [madeFor EXCEPT ![d] = jn[a]]
            /\ mode' = [mode EXCEPT ![d] = m]
            /\ got' = [got EXCEPT ![a] = [id |-> d, mode |-> m]]
            /\ corr' = a
            /\ Goto(a, "attach")
       \/ /\ Goto(a, "join")
          /\ UNCHANGED <<attached, madeFor, mode, got, corr>>
    /\ Yield
    /\ UNCHANGED <<sess, claimVars, want, had, outcome, snap, linkVars, restore, taken, running,
                   answered, scaler, rows>>

\* The new display is up and sized.  If attaching it took a topology reset, every other
\* session's display, as recorded now, is to be re-applied.
RestoreOthers(a) ==
    restore' \in {restore} \cup
        IF MayNudge /\ had[a] = None
        THEN {restore \cup ({sess[j].live : j \in Joins \ {jn[a]}} \ {None})}
        ELSE {}

\* The new monitor shows up under an identity of its own.  A display created at the wanted
\* mode needs no mode set.
Attach(a) ==
    /\ Run(a) /\ pc[a] = "attach"
    /\ corr' = None
    /\ outcome' = [outcome EXCEPT ![a] = "applied"]
    /\ IF got[a].mode = want[a] THEN RestoreOthers(a) /\ Goto(a, "record")
                               ELSE UNCHANGED restore /\ Goto(a, "setMode")
    /\ Yield
    /\ UNCHANGED <<sess, claimVars, want, had, got, snap, linkVars, attached, madeFor, mode,
                   taken, running, answered, scaler, rows>>

\* It never attached, or came up as a monitor that was there before: remove_display_now,
\* still under the lock.
AttachFailed(a) ==
    /\ Run(a) /\ pc[a] = "attach"
    /\ corr' = None
    /\ attached' = attached \ {got[a].id}
    /\ got' = [got EXCEPT ![a] = None]
    /\ Goto(a, "join") /\ Yield
    /\ UNCHANGED <<sess, claimVars, want, had, outcome, snap, linkVars, madeFor, mode, restore,
                   taken, running, answered, scaler, rows>>

\* set_display_mode_owned took: the display is at the wanted mode, and settles.
ModeApplied(a) ==
    /\ Run(a) /\ pc[a] = "setMode" /\ got[a].id \in attached
    /\ mode' = [mode EXCEPT ![got[a].id] = want[a]]
    /\ got' = [got EXCEPT ![a].mode = want[a]]
    /\ outcome' = [outcome EXCEPT ![a] = "applied"]
    /\ RestoreOthers(a)
    /\ Goto(a, "record") /\ Yield
    /\ UNCHANGED <<sess, claimVars, want, had, snap, linkVars, attached, madeFor, corr,
                   taken, running, answered, scaler, rows>>

\* It was refused.
ModeRefused(a) ==
    /\ Run(a) /\ pc[a] = "setMode"
    /\ outcome' = [outcome EXCEPT ![a] = "refused"]
    /\ RestoreOthers(a)
    /\ Goto(a, "readBack") /\ Yield
    /\ UNCHANGED <<sess, claimVars, want, had, got, snap, linkVars, attached, madeFor, mode,
                   corr, taken, running, answered, scaler, rows>>

\* Mutant: the geometry that was asked for is recorded, though it was refused.
RecordDesired(a) ==
    /\ Run(a) /\ pc[a] = "readBack"
    /\ got' = [got EXCEPT ![a].mode = want[a]]
    /\ Goto(a, "record") /\ Yield
    /\ UNCHANGED <<sess, claimVars, want, had, outcome, snap, linkVars, osVars, taken,
                   running, answered, scaler, rows>>

\* Mutant: the mode is set again until the display takes it.
RetryMode(a) ==
    /\ Run(a) /\ pc[a] = "readBack"
    /\ Goto(a, "setMode") /\ Yield
    /\ UNCHANGED <<sess, claimVars, buildVars, linkVars, osVars, taken, running, answered,
                   scaler, rows>>

\* read_back_dimensions: what the display is at instead; unreadable, what was known of it.
ReadBack(a) ==
    /\ Run(a) /\ pc[a] = "readBack"
    /\ got' = [got EXCEPT ![a].mode =
                  IF got[a].id \in attached THEN mode[got[a].id]
                  ELSE IF had[a] # None THEN had[a].mode ELSE want[a]]
    /\ Goto(a, "record") /\ Yield
    /\ UNCHANGED <<sess, claimVars, want, had, outcome, snap, linkVars, osVars, taken, running,
                   answered, scaler, rows>>

\* set_host_ip and set_live_display: the session learns its display.
Record(a) ==
    /\ Run(a) /\ pc[a] = "record"
    /\ sess' = [sess EXCEPT ![jn[a]] = [@ EXCEPT !.open = TRUE, !.live = got[a]]]
    /\ Goto(a, "check") /\ Hold(a)
    /\ UNCHANGED <<claimVars, buildVars, linkVars, osVars, taken, running, answered,
                   scaler, rows>>

\* Superseded while the display was built: no capture.
CheckBeforeCapture(a) ==
    /\ Run(a) /\ pc[a] = "check"
    /\ Goto(a, IF IsCurrent(a) THEN "start" ELSE "join") /\ Yield
    /\ UNCHANGED <<sess, claimVars, buildVars, linkVars, osVars, taken, running, answered,
                   scaler, rows>>

\* Is a DPI write due beside the capture start (deferred_scale)?
ScaleDue(a) == had[a] = None \/ outcome[a] = "applied"

\* start_on_monitor, which needs the display to be there and can fail in any case.
StartCapture(a) ==
    /\ Run(a) /\ pc[a] = "start"
    /\ running' \in {running} \cup
          IF got[a].id \in attached THEN {running \cup {a}} ELSE {}
    /\ Goto(a, IF ScaleDue(a) THEN "readScale" ELSE "join") /\ Yield
    /\ UNCHANGED <<sess, claimVars, buildVars, linkVars, osVars, taken, answered, scaler,
                   rows>>

\* The scale that landed goes into the session row: read it ...
ReadScale(a) ==
    /\ Run(a) /\ pc[a] = "readScale"
    /\ snap' = [snap EXCEPT ![a] = sess[jn[a]].live]
    /\ IF sess[jn[a]].live = None THEN Goto(a, "join") /\ Yield
                                  ELSE Goto(a, "writeScale") /\ Hold(a)
    /\ UNCHANGED <<sess, claimVars, want, had, got, outcome, linkVars, osVars, taken, running,
                   answered, scaler, rows>>

\* ... and write it back.
WriteScale(a) ==
    /\ Run(a) /\ pc[a] = "writeScale"
    /\ sess' = [sess EXCEPT ![jn[a]] = [@ EXCEPT !.open = TRUE, !.live = snap[a]]]
    /\ snap' = [snap EXCEPT ![a] = None]
    /\ Goto(a, "join") /\ Yield
    /\ UNCHANGED <<claimVars, want, had, got, outcome, linkVars, osVars, taken, running,
                   answered, scaler, rows>>

-----------------------------------------------------------------------------
(* The handshake half, and the join of the two.                            *)

\* prepare_whep answers, or closes what it opened and fails.
Handshake(a) ==
    /\ cpu = None /\ tr[a] = "gathering"
    /\ \E r \in {"open", "failed"} : tr' = [tr EXCEPT ![a] = r]
    /\ UNCHANGED <<sess, claimVars, pc, buildVars, ended, osVars, taken, running,
                   answered, scaler, rows, cpu>>

\* One half failed: the other is unwound (discard_capture, PendingWhep::abandon).
HalfFailed(a) ==
    /\ Run(a) /\ pc[a] = "join"
    /\ tr[a] = "failed" \/ (tr[a] = "open" /\ a \notin running)
    /\ running' = running \ {a}
    /\ tr' = [tr EXCEPT ![a] = "closed"]
    /\ Goto(a, "abandon") /\ Yield
    /\ UNCHANGED <<sess, claimVars, buildVars, ended, osVars, taken, answered,
                   scaler, rows>>

\* Both succeeded: activate the transport, unless a newer offer has arrived.
BothReady(a) ==
    /\ Run(a) /\ pc[a] = "join"
    /\ tr[a] = "open" /\ a \in running
    /\ Goto(a, IF IsCurrent(a) THEN "activate" ELSE "standDown") /\ Yield
    /\ UNCHANGED <<sess, claimVars, buildVars, linkVars, osVars, taken, running, answered,
                   scaler, rows>>

\* Superseded: the capture and the transport go, the session is left alone.
StandDown(a) ==
    /\ Run(a) /\ pc[a] = "standDown"
    /\ running' = running \ {a}
    /\ tr' = [tr EXCEPT ![a] = "closed"]
    /\ GoOrEnd(a, "done") /\ Yield
    /\ UNCHANGED <<sess, claimVars, ended, osVars, answered,
                   scaler, rows>>

\* Mutant: nobody looks for a newer offer after activate_whep.
ActivatedUnchecked(a) ==
    /\ Run(a) /\ pc[a] = "activate"
    /\ Goto(a, "arm") /\ Hold(a)
    /\ UNCHANGED <<sess, claimVars, buildVars, linkVars, osVars, taken, running, answered,
                   scaler, rows>>

\* activate_whep succeeded; a newer offer may have landed meanwhile.
Activated(a) ==
    /\ Run(a) /\ pc[a] = "activate"
    /\ IF IsCurrent(a) THEN Goto(a, "arm") /\ Hold(a) ELSE Goto(a, "standDown") /\ Yield
    /\ UNCHANGED <<sess, claimVars, buildVars, linkVars, osVars, taken, running, answered,
                   scaler, rows>>

ActivateFailed(a) ==
    /\ Run(a) /\ pc[a] = "activate"
    /\ running' = running \ {a}
    /\ tr' = [tr EXCEPT ![a] = "closed"]
    /\ Goto(a, "abandon") /\ Yield
    /\ UNCHANGED <<sess, claimVars, buildVars, ended, osVars, taken, answered,
                   scaler, rows>>

\* report_join or report_modify, arm_leave and set_control_sender.
ArmSession(a) ==
    /\ Run(a) /\ pc[a] = "arm"
    /\ rows' = rows \cup {jn[a]}
    /\ sess' = [sess EXCEPT ![jn[a]] = [@ EXCEPT !.open = TRUE, !.leave = a]]
    /\ Goto(a, "capture") /\ Hold(a)
    /\ UNCHANGED <<claimVars, buildVars, linkVars, osVars, taken, running, answered,
                   scaler>>

\* set_active_capture, the teardown task, the answer.
Answer(a) ==
    /\ Run(a) /\ pc[a] = "capture"
    /\ sess' = [sess EXCEPT ![jn[a]] = [@ EXCEPT !.open = TRUE, !.cap = a]]
    /\ answered' = answered \cup {a}
    /\ Goto(a, "spawned") /\ Yield
    /\ UNCHANGED <<claimVars, buildVars, linkVars, osVars, taken, running, scaler, rows>>

\* The watcher: the first byte that reached the client ends attemptId takeovers.
MarkConnected(a) ==
    /\ cpu = None /\ a \in answered /\ tr[a] = "open" /\ IsCurrent(a)
    /\ ~sess[jn[a]].connected
    /\ sess' = [sess EXCEPT ![jn[a]].connected = TRUE]
    /\ UNCHANGED <<claimVars, pc, buildVars, linkVars, osVars, taken, running, answered,
                   scaler, rows, cpu>>

-----------------------------------------------------------------------------
(* abandon_failed_attempt, and the end of a session.                       *)

\* Mutant: a failed attempt cleans up whether or not a newer one owns the join.
AbandonUnchecked(a) ==
    /\ Run(a) /\ pc[a] = "abandon"
    /\ IF had[a] = None THEN GoOrEnd(a, "forget") /\ Hold(a)
                        ELSE GoOrEnd(a, "failGrace") /\ Yield
    /\ UNCHANGED <<sess, claimVars, linkVars, osVars, running, answered, scaler, rows>>

\* Mutant: a failed attempt removes the session outright, display and all.
AbandonOutright(a) ==
    /\ Run(a) /\ pc[a] = "abandon"
    /\ GoOrEnd(a, IF IsCurrent(a) THEN "remove" ELSE "done") /\ Yield
    /\ UNCHANGED <<sess, claimVars, linkVars, osVars, running, answered, scaler, rows>>

\* Not ours any more: leave it alone.  A fresh join goes at once; a renegotiation keeps
\* its session for the page to offer again.
Abandon(a) ==
    /\ Run(a) /\ pc[a] = "abandon"
    /\ IF ~IsCurrent(a) THEN GoOrEnd(a, "done") /\ Yield
       ELSE IF had[a] = None THEN GoOrEnd(a, "forget") /\ Hold(a)
       ELSE GoOrEnd(a, "failGrace") /\ Yield
    /\ UNCHANGED <<sess, claimVars, linkVars, osVars, running, answered,
                   scaler, rows>>

\* Mutant: nobody looks for a newer attempt after the grace.
GraceOverUnchecked(a) ==
    /\ Run(a) /\ pc[a] \in {"failGrace", "grace"}
    /\ GoOrEnd(a, "forget") /\ Hold(a)
    /\ UNCHANGED <<sess, claimVars, linkVars, osVars, running, answered, scaler, rows>>

\* Mutant: the teardown task removes the display with its session still in the map.
GraceOverDisplayOnly(a) ==
    /\ Run(a) /\ pc[a] \in {"failGrace", "grace"}
    /\ IF IsCurrent(a)
         THEN GoOrEnd(a, IF a \in answered THEN "removeDisplay" ELSE "forget") /\ Hold(a)
         ELSE GoOrEnd(a, "done") /\ Yield
    /\ UNCHANGED <<sess, claimVars, linkVars, osVars, running, answered, scaler, rows>>

\* The task wakes up: the grace of a failed renegotiation, or of a closed session, is over.
\* A superseded one keeps the session and the display.
GraceOver(a) ==
    /\ Run(a) /\ pc[a] \in {"failGrace", "grace"}
    /\ IF IsCurrent(a) THEN GoOrEnd(a, "forget") /\ Hold(a)
                       ELSE GoOrEnd(a, "done") /\ Yield
    /\ UNCHANGED <<sess, claimVars, linkVars, osVars, running, answered,
                   scaler, rows>>

\* take_live_display and forget_display.
TakeDisplay(a) ==
    /\ Run(a) /\ pc[a] = "forget"
    /\ taken' = [taken EXCEPT ![a] = sess[jn[a]].live]
    /\ sess' = [sess EXCEPT ![jn[a]].live = None]
    /\ Goto(a, "remove") /\ Hold(a)
    /\ UNCHANGED <<claimVars, buildVars, linkVars, osVars, running, answered, scaler, rows>>

\* The display a task removes: a teardown task the one it streamed, whatever the session
\* holds by then; a failed attempt the one it took out of the session.
Doomed(a) == IF a \in answered THEN got[a] ELSE taken[a]

\* A fresh join that failed was never on the dashboard.
LeaveDashboard(a) ==
    rows' = IF a \in answered \/ had[a] # None THEN rows \ {jn[a]} ELSE rows

\* remove_session.
RemoveSession(a) ==
    /\ Run(a) /\ pc[a] = "remove"
    /\ sess' = [sess EXCEPT ![jn[a]] = NoEntry]
    /\ IF Doomed(a) = None THEN GoOrEnd(a, "done") /\ LeaveDashboard(a)
                           ELSE GoOrEnd(a, "removeDisplay") /\ UNCHANGED rows
    /\ Yield
    /\ UNCHANGED <<claimVars, linkVars, osVars, running, answered, scaler>>

\* remove_display_async: under the correlation lock, then report_remove.
RemoveDisplay(a) ==
    /\ Run(a) /\ pc[a] = "removeDisplay" /\ corr = None
    /\ attached' = attached \ {Doomed(a).id}
    /\ LeaveDashboard(a)
    /\ GoOrEnd(a, "done") /\ Yield
    /\ UNCHANGED <<sess, claimVars, linkVars, madeFor, mode, corr, restore,
                   running, answered, scaler>>

-----------------------------------------------------------------------------
(* The teardown task of an answered attempt.                               *)

\* It starts listening to its leave signal.
Listen(a) ==
    /\ Run(a) /\ pc[a] = "spawned"
    /\ Goto(a, "wait") /\ Yield
    /\ UNCHANGED <<sess, claimVars, buildVars, linkVars, osVars, taken, running, answered,
                   scaler, rows>>

\* The peer connection closed, or the leave signal woke it: give up the control channel
\* and close the transport (clear_control_sender, SessionHandle::close).
Ended(a) ==
    /\ Run(a) /\ pc[a] = "wait"
    /\ ended[a]
    /\ Goto(a, "close") /\ Yield
    /\ UNCHANGED <<sess, claimVars, buildVars, linkVars, osVars, taken, running, answered,
                   scaler, rows>>

CloseTransport(a) ==
    /\ Run(a) /\ pc[a] = "close"
    /\ tr' = [tr EXCEPT ![a] = "closed"]
    /\ Goto(a, "stopOwn") /\ Yield
    /\ UNCHANGED <<sess, claimVars, buildVars, ended, osVars, taken, running,
                   answered, scaler, rows>>

\* take_active_capture_if: only a capture registered under its own sequence number.
StopOwn(a) ==
    /\ Run(a) /\ pc[a] = "stopOwn"
    /\ LET cap == sess[jn[a]].cap
           mine == cap # None /\ seq[cap] = seq[a]
       IN  /\ sess' = [sess EXCEPT ![jn[a]].cap = IF mine THEN None ELSE @]
           /\ running' = IF mine THEN running \ {cap} ELSE running
    /\ Goto(a, "grace") /\ Yield
    /\ UNCHANGED <<claimVars, buildVars, linkVars, osVars, taken, answered, scaler, rows>>

-----------------------------------------------------------------------------
(* The page, the host's commands and the spawned display tasks.            *)

\* The peer connection of an answered session fails or is closed by its page.
PeerClosed(a) ==
    /\ cpu = None /\ pc[a] \in {"spawned", "wait"} /\ ~ended[a]
    /\ ended' = [ended EXCEPT ![a] = TRUE]
    /\ UNCHANGED <<sess, claimVars, pc, buildVars, tr, osVars, taken, running,
                   answered, scaler, rows, cpu>>

\* The task a leave signal reaches: the one whose signal is armed, if it listens already.
Wake(j) == ended' = IF sess[j].leave = None THEN ended
                    ELSE [ended EXCEPT ![sess[j].leave] = @ \/ pc[sess[j].leave] = "wait"]

\* POST /leave, DELETE /whep, the relay's client_gone: signal_leave.
Leave(j) ==
    /\ cpu = None /\ Wake(j)
    /\ UNCHANGED <<sess, claimVars, pc, buildVars, tr, osVars, taken, running,
                   answered, scaler, rows, cpu>>

\* disconnect_session, kick_device: kick_join moves the kick epoch of a session it has
\* just seen, opening it anew if it is gone by then, and signals the leave.
Kick(j) ==
    /\ cpu = None
    /\ \/ sess[j].token # None \/ sess[j].live # None
       \/ Preempt /\ j \in rows
    /\ sess' = [sess EXCEPT ![j].open = TRUE]
    /\ Wake(j)
    /\ UNCHANGED <<claimVars, pc, buildVars, tr, osVars, taken, running, answered,
                   scaler, rows, cpu>>

\* apply_scale_live: read the display ...
ScaleRead(j) ==
    /\ MayScale /\ cpu = None /\ scaler.step = "idle" /\ sess[j].live # None
    /\ scaler' = [step |-> "dpi", join |-> j, live |-> sess[j].live]
    /\ UNCHANGED <<sess, claimVars, pc, buildVars, linkVars, osVars, taken, running,
                   answered, rows, cpu>>

\* ... write its DPI, which takes long and fails on a display that is gone ...
ScaleApply ==
    /\ cpu = None /\ scaler.step = "dpi"
    /\ scaler' \in {[scaler EXCEPT !.step = "idle", !.join = None, !.live = None]} \cup
          IF scaler.live.id \in attached THEN {[scaler EXCEPT !.step = "row"]} ELSE {}
    /\ UNCHANGED <<sess, claimVars, pc, buildVars, linkVars, osVars, taken, running,
                   answered, rows, cpu>>

\* ... and put the row back with the scale it took.
ScaleRecord ==
    /\ cpu = None /\ scaler.step = "row"
    /\ sess' = [sess EXCEPT ![scaler.join] = [@ EXCEPT !.open = TRUE, !.live = scaler.live]]
    /\ scaler' = [step |-> "idle", join |-> None, live |-> None]
    /\ UNCHANGED <<claimVars, pc, buildVars, linkVars, osVars, taken, running, answered,
                   rows, cpu>>

\* restore_displays: the mode a session had recorded is written again.
Restore ==
    /\ cpu = None
    /\ \E r \in restore :
         /\ restore' = restore \ {r}
         /\ mode' \in {mode} \cup
               IF r.id \in attached THEN {[mode EXCEPT ![r.id] = r.mode]} ELSE {}
    /\ UNCHANGED <<sess, claimVars, pc, buildVars, linkVars, attached, madeFor, corr, taken,
                   running, answered, scaler, rows, cpu>>

-----------------------------------------------------------------------------

Build(a) ==
    \/ OpenSession(a) \/ NextSeq(a) \/ StopPrevious(a) \/ ReadExisting(a)
    \/ ReuseUntouched(a) \/ ReuseChange(a) \/ NeedDisplay(a) \/ CreateDisplay(a)
    \/ Attach(a) \/ AttachFailed(a) \/ ModeApplied(a) \/ ModeRefused(a) \/ ReadBack(a)
    \/ Record(a) \/ CheckBeforeCapture(a) \/ StartCapture(a) \/ ReadScale(a)
    \/ WriteScale(a) \/ Handshake(a) \/ HalfFailed(a) \/ BothReady(a) \/ StandDown(a)
    \/ Activated(a) \/ ActivateFailed(a) \/ ArmSession(a) \/ Answer(a)

Unwind(a) ==
    \/ Abandon(a) \/ GraceOver(a) \/ TakeDisplay(a) \/ RemoveSession(a)
    \/ RemoveDisplay(a) \/ Listen(a) \/ Ended(a) \/ CloseTransport(a) \/ StopOwn(a)

Task(a) == Build(a) \/ Unwind(a)

Host(j) == Leave(j) \/ Kick(j) \/ ScaleRead(j)

\* Every task has ended.
AllEnded == \A a \in Attempts : pc[a] \in {"idle", "done"}

Finished ==
    /\ AllEnded
    /\ UNCHANGED vars

Next ==
    \/ \E a \in Attempts : Offer(a) \/ Task(a) \/ MarkConnected(a) \/ PeerClosed(a)
    \/ \E j \in Joins : Host(j)
    \/ ScaleApply \/ ScaleRecord \/ Restore
    \/ Finished

Spec == Init /\ [][Next]_vars

-----------------------------------------------------------------------------
(* Properties.                                                             *)

\* Where an attempt holds a display.
GotPcs == {"attach", "setMode", "readBack", "record", "check", "start", "readScale",
           "writeScale", "activate", "arm", "capture"} \cup ServePcs

SessTyped == sess \in [Joins -> Entry]

TaskTyped ==
    /\ pc \in [Attempts -> PcLabels]
    /\ jn \in [Attempts -> Joins \cup {None}]
    /\ cont \in [Attempts -> BOOLEAN]
    /\ seq \in [Attempts -> Nat]
    /\ want \in [Attempts -> Modes \cup {None}]
    /\ had \in [Attempts -> LiveDisplay \cup {None}]
    /\ got \in [Attempts -> LiveDisplay \cup {None}]
    /\ outcome \in [Attempts -> {"kept", "applied", "refused"}]
    /\ snap \in [Attempts -> LiveDisplay \cup {None}]
    /\ tr \in [Attempts -> {"none", "gathering", "open", "failed", "closed"}]
    /\ ended \in [Attempts -> BOOLEAN]
    /\ taken \in [Attempts -> LiveDisplay \cup {None}]

HostTyped ==
    /\ minted \subseteq Joins /\ rows \subseteq Joins
    /\ running \subseteq Attempts /\ answered \subseteq Attempts
    /\ attached \subseteq Displays
    /\ madeFor \in [Displays -> Joins \cup {None}]
    /\ mode \in [Displays -> Modes \cup {None}]
    /\ \A d \in attached : mode[d] \in Modes
    /\ corr \in Attempts \cup {None} /\ cpu \in Attempts \cup {None}
    /\ restore \subseteq LiveDisplay
    /\ scaler \in [step : {"idle", "dpi", "row"}, join : Joins \cup {None},
                   live : LiveDisplay \cup {None}]
    /\ scaler.step # "idle" => scaler.join \in Joins /\ scaler.live # None

\* An attempt under way has a join, one past its display half a display, and one that has
\* ended has let go of its displays.
TaskWhole(a) ==
    /\ pc[a] # "idle" => jn[a] \in Joins
    /\ pc[a] \in {"idle", "done"} =>
           had[a] = None /\ got[a] = None /\ snap[a] = None /\ taken[a] = None
    /\ pc[a] \notin {"idle", "done"} => want[a] \in Modes
    /\ pc[a] \in GotPcs => got[a] # None

\* Every variable holds what the code's types allow.
TypeOK == SessTyped /\ TaskTyped /\ HostTyped /\ \A a \in Attempts : TaskWhole(a)

\* Two joins are two entries with two displays, and neither can reach the other's
\* (DeviceSessionState).
NoSharedDisplay ==
    \A i, j \in Joins :
        /\ i # j
        /\ sess[i].live # None
        /\ sess[j].live # None
        => sess[i].live.id # sess[j].live.id

\* A session stays the device's that opened it, whatever id a page presents and whichever
\* relay client it comes through (continuing_join, relayed_continuation).
SessionKeepsDevice ==
    [][\A j \in Joins :
          sess[j].token # None /\ sess'[j].open => sess'[j].token = sess[j].token]_vars

\* An attempt that is serving its page.
Serving(a) == pc[a] \in {"spawned", "wait"}

\* The session a page is being served from is whole: the display is up and recorded, its
\* own capture runs and is the one registered, its teardown task is the one a leave
\* reaches, and the dashboard shows it.
CurrentSessionWhole ==
    \A a \in Attempts :
        Serving(a) /\ IsCurrent(a) =>
            /\ sess[jn[a]].live # None
            /\ sess[jn[a]].live.id = got[a].id
            /\ got[a].id \in attached
            /\ sess[jn[a]].cap = a /\ a \in running
            /\ sess[jn[a]].leave = a
            /\ jn[a] \in rows

\* No capture and encoder run that nobody will stop: the attempt that built it still
\* holds it, or it is registered and the task that takes it out has yet to.
CaptureHasStopper ==
    \A a \in running :
        \/ pc[a] \in {"readScale", "writeScale", "join", "standDown", "activate", "arm",
                      "capture"}
        \/ sess[jn[a]].cap = a /\ pc[a] \in {"spawned", "wait", "close", "stopOwn"}

\* A dashboard row has somebody who will take it down.
RowHasReaper ==
    \A j \in rows : \E a \in Attempts :
        /\ jn[a] = j
        /\ a \in answered \/ had[a] # None \/ pc[a] \in {"stopPrev", "existing", "capture"}
        /\ \/ IsCurrent(a) /\ pc[a] \notin {"idle", "open", "seq", "done"}
           \/ pc[a] \in {"remove", "removeDisplay"}

\* The current attempts that build or serve.
Using == {a \in Attempts :
            /\ pc[a] \in (BuildPcs \ {"attach"}) \cup ServePcs
                            \cup {"join", "activate", "arm", "capture"}
            /\ IsCurrent(a)}

\* The displays they reuse or have landed on.
UsedNow == {d \in attached : \E a \in Using : \/ had[a] # None /\ had[a].id = d
                                              \/ got[a] # None /\ got[a].id = d}

\* No step, whoever takes it, removes a session or a display from under a current
\* attempt: a teardown or a failed attempt that was superseded leaves both alone.
KeepUsed == [][/\ \A a \in Using : sess'[jn[a]].open
               /\ attached \cap UsedNow \subseteq attached']_vars

\* A join that more than one offer has continued.
RenegotiatedTwice(j) ==
    \E a, b \in Attempts : a # b /\ cont[a] /\ cont[b] /\ jn[a] = j /\ jn[b] = j

\* When the last task has ended no device has a session any more, and a display can only
\* be left of a join that was renegotiated twice, in whose row the host can still find one
\* (abandon_failed_attempt, the teardown task).
EndsClean ==
    AllEnded =>
        /\ \A j \in Joins : sess[j].token = None
        /\ \A d \in attached : sess[madeFor[d]].live # None /\ RenegotiatedTwice(madeFor[d])

\* What abandon_failed_attempt promises of that moment: no display is left without a
\* session to reap it.
NoOrphanDisplay == AllEnded => attached = {}

\* A session that is somebody's never records a display that is gone: whoever removes the
\* display has the record out of the row first, and no late writer brings it back.
RecordedIsUp ==
    \A j \in Joins : sess[j].token # None /\ sess[j].live # None => sess[j].live.id \in attached

\* A display is at the mode that is known of it.
TrueMode(l) == l.id \in attached => l.mode = mode[l.id]

Recording(j) == {a \in Attempts : jn[a] = j /\ pc[a] = "record"}

\* The record of a join is true, or is about to be written by somebody who knows the truth:
\* "the session has to record the truth" (display_and_pipeline).
RecordTrue(j) ==
    /\ \A a \in Attempts : jn[a] = j /\ pc[a] \in {"attach", "record"} => TrueMode(got[a])
    /\ Recording(j) = {} /\ sess[j].live # None => TrueMode(sess[j].live)

\* The record goes wrong only while an attempt that was superseded is still at the display
\* (no still_current before set_live_display), a topology reset has modes to write back, or
\* a live scale change its row.
RecordStaysTrue ==
    [][\A j \in Joins :
          /\ RecordTrue(j)
          /\ \A a \in Attempts :
                jn[a] = j /\ pc[a] \in {"display", "setMode", "readBack", "record"} => IsCurrent(a)
          /\ restore = {} /\ scaler.step # "row"
          => RecordTrue(j)']_vars

-----------------------------------------------------------------------------
(* Fairness: the runtime runs every task that can run, timers fire, the correlation lock   *)
(* is handed on, and every page closes or loses its connection in the end.                 *)

Fairness ==
    /\ \A a \in Attempts : WF_vars(Task(a)) /\ WF_vars(Handshake(a)) /\ WF_vars(PeerClosed(a))
    /\ WF_vars(ScaleApply) /\ WF_vars(ScaleRecord) /\ WF_vars(Restore)

FairSpec == Spec /\ Fairness

\* Every request comes to its end, and everything it started with it.
EveryAttemptEnds == \A a \in Attempts : (pc[a] = "open") ~> (pc[a] = "done")

=============================================================================
