---------------------------- MODULE RelaySession ----------------------------
(***************************************************************************)
(* The session id and code of a running desktop host, which four parties   *)
(* write: the desktop page (src/App.tsx, src/pages/settings.tsx), whose    *)
(* calls the main thread runs in their order (windows_utils/mod.rs);       *)
(* `ScreenExtend session new`, run by the control thread (cli.rs:          *)
(* apply_session_credentials); and the relay clients, each a thread        *)
(* (streamer/cloud.rs), that take a new id when the relay holds the old.   *)
(*                                                                         *)
(* A code is named by the id it was minted with.  What the relay tunnels   *)
(* to the host, the back-off between two attempts and a thread that cannot *)
(* be started are left out; the relay is as cloud.rs uses it.              *)
(***************************************************************************)
EXTENDS Integers, FiniteSets, Sequences

CONSTANTS
  None,
  MaxTurns    \* bound: altogether, clicks that register or unregister, runs of `session
              \* new`, and connections that fail, end or are refused for another reason

ASSUME RelayConstants == MaxTurns \in Nat /\ None \notin Nat

VARIABLES
  auth,       \* SessionAuth: what a join has to present
  shown,      \* the page's sessionId and otp
  public,     \* the page's publicSessionsEnabled
  click,      \* a click that waits for the settings to be saved
  calls,      \* the page's calls, which the main thread has yet to take
  events,     \* SessionIdChange events, which the page has yet to handle
  job,        \* what the main thread and the control thread are at, and the last
              \* that the control thread was at
  client,     \* the relay clients
  cloud,      \* AppState.cloud: the client that is kept
  status,     \* AppState.cloud_status
  holder,     \* the relay: who holds each id
  minted, turns,
  crossed     \* history: the last registration met a rotation, a stale id or another one

vars == <<auth, shown, public, click, calls, events, job, client, cloud, status, holder,
          minted, turns, crossed>>
page    == <<shown, public, click>>
counts  == <<minted, turns>>

Threads == {"main", "control"}
Clients == 1..(1 + MaxTurns)
Ids     == 0..(2 * MaxTurns + 1)
Ghost   == 0     \* the relay has not noticed that a connection is gone
Idle    == [at |-> "idle", id |-> 0, otp |-> 0, new |-> None]
Up      == {c \in Clients : client[c].link # "none" /\ client[c].link # "stopped"}

Init ==
  /\ auth = [id |-> 0, otp |-> 0] /\ shown = auth
  /\ public \in BOOLEAN /\ click = None
  /\ calls = IF public THEN <<[call |-> "register", id |-> 0, otp |-> 0]>> ELSE <<>>
  /\ events = <<>>
  /\ job = [t \in Threads |-> Idle]
  /\ client = [c \in Clients |-> [link |-> "none", id |-> 0]]
  /\ cloud = None /\ status = "disabled"
  /\ holder = [i \in Ids |-> None]
  /\ minted = 0 /\ turns = 0 /\ crossed = FALSE

-----------------------------------------------------------------------------
(* The page.                                                               *)

Call(what, id, otp) == calls' = Append(calls, [call |-> what, id |-> id, otp |-> otp])

\* togglePublicSessions and the settings editor: the id is the one of the render that was
\* clicked, whatever the page shows when the settings are saved.
Click ==
  /\ click = None /\ turns < MaxTurns
  /\ public' \in BOOLEAN
  /\ click' = [call |-> IF public' THEN "register" ELSE "unregister", id |-> shown.id, was |-> public]
  /\ turns' = turns + 1
  /\ UNCHANGED <<auth, shown, calls, events, job, client, cloud, status, holder, minted, crossed>>

Saved ==
  /\ click # None
  /\ Call(click.call, click.id, 0)
  /\ click' = None
  /\ UNCHANGED <<auth, shown, public, events, job, client, cloud, status, holder, counts, crossed>>

\* The settings of a switch cannot be saved: it goes back, and nothing is called.
Unsaved ==
  /\ click # None /\ click.was # public
  /\ public' = click.was
  /\ click' = None
  /\ UNCHANGED <<auth, shown, calls, events, job, client, cloud, status, holder, counts, crossed>>

\* The listener of SessionIdChange, and the effect that mirrors both values to the host.
Follow ==
  /\ events # <<>>
  /\ LET e == Head(events)
     IN shown' = [id |-> e.id, otp |-> IF e.otp = None THEN shown.otp ELSE e.otp]
  /\ events' = Tail(events)
  /\ IF shown' # shown THEN Call("set", shown'.id, shown'.otp) ELSE UNCHANGED calls
  /\ UNCHANGED <<auth, public, click, job, client, cloud, status, holder, counts, crossed>>

-----------------------------------------------------------------------------
(* The main thread and the control thread.                                 *)

At(t, where) == job' = [job EXCEPT ![t].at = where]

\* The main thread takes the next call of the page.
Take ==
  /\ job["main"].at = "idle" /\ calls # <<>>
  /\ LET c == Head(calls)
     IN job' = [job EXCEPT !["main"] = [at |-> c.call, id |-> c.id, otp |-> c.otp, new |-> None]]
  /\ calls' = Tail(calls)
  /\ UNCHANGED <<auth, page, events, client, cloud, status, holder, counts, crossed>>

\* apply_session_credentials, with an id and a code that `session new` has minted.
SessionNew ==
  /\ job["control"].at = "idle" /\ turns < MaxTurns
  /\ minted' = minted + 1 /\ turns' = turns + 1
  /\ job' = [job EXCEPT !["control"] = [at |-> "set", id |-> minted', otp |-> minted', new |-> None]]
  /\ UNCHANGED <<auth, page, calls, events, client, cloud, status, holder, crossed>>

\* set_session_credentials: two mutexes, one after the other.
SetId(t) ==
  /\ job[t].at = "set"
  /\ auth' = [auth EXCEPT !.id = job[t].id]
  /\ At(t, "otp")
  /\ UNCHANGED <<page, calls, events, client, cloud, status, holder, counts, crossed>>

SetOtp(t) ==
  /\ job[t].at = "otp"
  /\ auth' = [auth EXCEPT !.otp = job[t].otp]
  /\ IF t = "main" THEN job' = [job EXCEPT ![t] = Idle] ELSE At(t, "check")
  /\ UNCHANGED <<page, calls, events, client, cloud, status, holder, counts, crossed>>

Registering(t) == job[t].at \in {"register", "swap"}

\* Only a host that holds a relay client is registered again.
Check ==
  /\ job["control"].at = "check"
  /\ At("control", IF cloud # None THEN "register" ELSE "tell")
  /\ crossed' = (crossed \/ Registering("main"))
  /\ UNCHANGED <<auth, page, calls, events, client, cloud, status, holder, counts>>

\* The id the page is about to show.
Coming == IF job["control"].at # "idle" THEN job["control"].id
          ELSE IF events # <<>> THEN events[Len(events)].id ELSE shown.id

\* register_cloud_session up to CloudClient::spawn.
Spawn(t) ==
  /\ job[t].at = "register"
  /\ status' = "connecting"
  /\ \E c \in Clients :
       /\ client[c].link = "none" /\ \A d \in Clients : d < c => client[d].link # "none"
       /\ client' = [client EXCEPT ![c] = [link |-> "resting", id |-> job[t].id]]
       /\ job' = [job EXCEPT ![t].at = "swap", ![t].new = c]
  /\ crossed' = \/ job[t].id # Coming \/ \E c \in Clients : client[c].link = "rotating"
                \/ t = "control" /\ cloud = None
                \/ \E u \in Threads \ {t} : job[u].at = "swap"
  /\ UNCHANGED <<auth, page, calls, events, cloud, holder, counts>>

\* The relay finds out later that a connection has gone.
Dropped(c) == [i \in Ids |-> IF holder[i] = c THEN Ghost ELSE holder[i]]

\* Mutant: the client that is replaced goes on.
Forget(c) == UNCHANGED <<client, holder>>

\* CloudClient::stop: the thread is joined, and has no place to stop at while it rotates.
StopClient(c) ==
  /\ client[c].link # "rotating"
  /\ client' = [client EXCEPT ![c].link = "stopped"]
  /\ holder' = Dropped(c)

StopKept == IF cloud = None THEN UNCHANGED <<client, holder>> ELSE StopClient(cloud)

\* The rest of register_cloud_session.
Swap(t) ==
  /\ job[t].at = "swap"
  /\ StopKept
  /\ cloud' = job[t].new
  /\ job' = [job EXCEPT ![t] = IF t = "main" THEN Idle ELSE [@ EXCEPT !.at = "tell", !.new = None]]
  /\ UNCHANGED <<auth, page, calls, events, status, counts, crossed>>

\* unregister_cloud_session.
Unregister ==
  /\ job["main"].at = "unregister"
  /\ StopKept
  /\ cloud' = None /\ status' = "disabled"
  /\ job' = [job EXCEPT !["main"] = Idle]
  /\ crossed' = (crossed \/ Registering("control"))
  /\ UNCHANGED <<auth, page, calls, events, counts>>

\* Mutant: the page is told the new id and keeps its code.
TellIdOnly(new) == Append(events, [id |-> new.id, otp |-> None])

\* The page has to follow.
TellNew(new) == Append(events, [id |-> new.id, otp |-> new.otp])

Tell ==
  /\ job["control"].at = "tell"
  /\ events' = TellNew(job["control"])
  /\ At("control", "idle")
  /\ UNCHANGED <<auth, page, calls, client, cloud, status, holder, counts, crossed>>

-----------------------------------------------------------------------------
(* A relay client, and the relay.                                          *)

Link(c, link) == client' = [client EXCEPT ![c].link = link]

\* What an older client reports while its successor is at work.
Late(c) == \E t \in Threads : job[t].at = "swap" /\ job[t].new # c

Report(c, what) == status' = what /\ crossed' = (crossed \/ Late(c))

\* The top of run_loop, at first and after each pause.
Contact(c) ==
  /\ client[c].link = "resting"
  /\ Link(c, "dialling") /\ Report(c, "connecting")
  /\ UNCHANGED <<auth, page, calls, events, job, cloud, holder, counts>>

\* connect_and_serve: connected, and the id is asked for.
Connect(c) ==
  /\ client[c].link = "dialling"
  /\ Link(c, "asked")
  /\ UNCHANGED <<auth, page, calls, events, job, cloud, status, holder, counts, crossed>>

RelayAnswers(c) ==
  /\ client[c].link = "asked"
  /\ LET id == client[c].id
     IN IF holder[id] = None
        THEN Link(c, "granted") /\ holder' = [holder EXCEPT ![id] = c]
        ELSE Link(c, "taken") /\ UNCHANGED holder
  /\ UNCHANGED <<auth, page, calls, events, job, cloud, status, counts, crossed>>

\* The dead connection is found dead.
RelayForgets(i) ==
  /\ holder[i] = Ghost
  /\ holder' = [holder EXCEPT ![i] = None]
  /\ UNCHANGED <<auth, page, calls, events, job, client, cloud, status, counts, crossed>>

Registered(c) ==
  /\ client[c].link = "granted"
  /\ Link(c, "held") /\ Report(c, "registered")
  /\ UNCHANGED <<auth, page, calls, events, job, cloud, holder, counts>>

\* The id is taken: the client goes on under another, which joins must present too ...
Rotate(c) ==
  /\ client[c].link = "taken"
  /\ minted' = minted + 1
  /\ client' = [client EXCEPT ![c] = [link |-> "rotating", id |-> minted']]
  /\ auth' = [auth EXCEPT !.id = minted']
  /\ status' = "error"
  /\ crossed' = (crossed \/ \E t \in Threads : Registering(t) \/ job[t].at = "tell")
  /\ UNCHANGED <<page, calls, events, job, cloud, holder, turns>>

\* Mutant: the page is not told.
Untold(c) == events

\* session_rotated: only the id has changed.
Told(c) == Append(events, [id |-> client[c].id, otp |-> None])

\* ... and the page must show.
RotateTell(c) ==
  /\ client[c].link = "rotating"
  /\ events' = Told(c)
  /\ Link(c, "resting")
  /\ UNCHANGED <<auth, page, calls, job, cloud, status, holder, counts, crossed>>

\* A connection that is not made, fails, is shut down, falls silent or is refused for
\* another reason.
Fails(c) ==
  /\ client[c].link \in {"dialling", "asked", "granted", "taken", "held"} /\ turns < MaxTurns
  /\ turns' = turns + 1
  /\ Link(c, "resting") /\ Report(c, "offline")
  /\ holder' = Dropped(c)
  /\ UNCHANGED <<auth, page, calls, events, job, cloud, minted>>

\* Mutant: run_loop is over when the relay closes.
EndedByRelay(c) == Link(c, "ended")

\* connect_and_serve returned Ok: the client comes again, after a pause.
ClosedByRelay(c) == Link(c, "resting")

Closes(c) ==
  /\ client[c].link \in {"asked", "granted", "taken", "held"} /\ turns < MaxTurns
  /\ turns' = turns + 1
  /\ ClosedByRelay(c)
  /\ holder' = [i \in Ids |-> IF holder[i] = c THEN None ELSE holder[i]]
  /\ UNCHANGED <<auth, page, calls, events, job, cloud, status, minted, crossed>>

-----------------------------------------------------------------------------
ThreadStep(t) == SetId(t) \/ SetOtp(t) \/ Spawn(t) \/ Swap(t)

MainStep    == Take \/ ThreadStep("main") \/ Unregister
ControlStep == ThreadStep("control") \/ Check \/ Tell

\* What a client does when nothing goes wrong.
ClientStep(c) ==
  Contact(c) \/ Connect(c) \/ RelayAnswers(c) \/ Registered(c) \/ Rotate(c) \/ RotateTell(c)

Next ==
  \/ Click \/ Saved \/ Unsaved \/ Follow
  \/ MainStep \/ ControlStep \/ SessionNew
  \/ \E c \in Clients : ClientStep(c) \/ Fails(c) \/ Closes(c)
  \/ \E i \in Ids : RelayForgets(i)

\* The page handles its events, both threads go on, and so do the clients' tasks; the
\* relay answers, and finds a dead connection dead.
Fairness ==
  /\ WF_vars(Saved \/ Unsaved) /\ WF_vars(Follow) /\ WF_vars(MainStep) /\ WF_vars(ControlStep)
  /\ \A c \in Clients : WF_vars(ClientStep(c))
  /\ \A i \in Ids : WF_vars(RelayForgets(i))

Spec == Init /\ [][Next]_vars /\ Fairness

-----------------------------------------------------------------------------
(* One session, one id.                                                    *)

TypeOK ==
  /\ {auth, shown} \subseteq [id : Ids, otp : Ids] /\ public \in BOOLEAN /\ crossed \in BOOLEAN
  /\ \A t \in Threads :
       /\ job[t].at \in {"idle", "set", "otp", "check", "register", "swap", "unregister", "tell"}
       /\ job[t].new \in Clients \cup {None} /\ (job[t].new # None) = (job[t].at = "swap")
  /\ \A c \in Clients :
       /\ client[c].id \in Ids
       /\ client[c].link \in {"none", "resting", "dialling", "asked", "granted", "taken", "rotating",
                              "held", "stopped"}
  /\ \A i \in Ids :
       /\ holder[i] \in Clients \cup {None, Ghost}
       /\ holder[i] \in Clients => client[holder[i]].id = i /\ client[holder[i]].link \in {"granted", "held"}

\* Nothing under way that concerns the credentials.
AtRest ==
  /\ click = None /\ calls = <<>> /\ events = <<>>
  /\ \A t \in Threads : job[t].at = "idle"
  /\ \A c \in Clients : client[c].link # "rotating"

\* What the page shows is what a join has to present, and the code is the last that
\* `session new` has printed, in whatever order the writes crossed (cli.rs:1328-1332).
MirrorAgrees == AtRest => auth = shown /\ auth.otp = job["control"].otp

\* And when nothing crossed the last registration, the client the host holds asks for that
\* id, and is reported as registered when it is (cli.rs:1329-1331, cloud.rs:338-342).
ShownIsRegistered ==
  AtRest /\ ~crossed /\ cloud # None =>
    client[cloud].id = shown.id /\ (client[cloud].link = "held" => status = "registered")

\* Outside a registration the only client that runs is the one the host keeps: each one it
\* replaced or gave up has ended, whoever replaced it (windows_utils/mod.rs:1205-1208).
OneClient == (\A t \in Threads : job[t].at # "swap") => Up = {cloud} \ {None}

\* A host that has public sessions on ends up registered, however its connections ended and
\* whatever the relay still held (cloud.rs:321-353); one that has them off ends up without
\* a client, unless `session new` registered while they were switched off (cli.rs:1343-1355).
EndsAsAsked ==
  <>[]IF public THEN cloud # None /\ client[cloud].link = "held" ELSE cloud = None \/ crossed

=============================================================================
