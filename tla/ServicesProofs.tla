--------------------------- MODULE ServicesProofs ---------------------------
(***************************************************************************)
(* Proofs about the relay session and the remote input of MCServices.      *)
(*                                                                         *)
(* Three results about the relay session, for any number of clicks, runs   *)
(* of `session new`, taken ids and failures.  At most one relay client     *)
(* runs outside a registration (OneClient): the invariant says where each  *)
(* client that runs is held.  The page ends up showing what a join has to  *)
(* present (MirrorAgrees): the invariant follows each id and code on its   *)
(* way to the page and back.  And the client that is kept asks for that id *)
(* (ShownIsRegistered): the invariant says what the newest registration    *)
(* asks for, and who may report, while nothing crosses it.                 *)
(*                                                                         *)
(* One about the input: the cursor follows the newest move (CursorForward),*)
(* for any loss and reordering and wherever the page's counter wraps.      *)
(***************************************************************************)
EXTENDS MCServices, TLAPS

Places  == {"idle", "set", "otp", "check", "register", "swap", "unregister", "tell"}
Links   == {"none", "resting", "dialling", "asked", "granted", "taken", "rotating", "held", "stopped"}
Ways    == {"set", "register", "unregister"}
Orders  == [call : Ways, id : Nat, otp : Nat]
Notices == [id : Nat, otp : Nat \cup {None}]
Jobs    == [at : Places, id : Nat, otp : Nat, new : Clients \cup {None}]
Relayed == [link : Links, id : Nat]

\* The types that the invariant rests on.
PageTypes ==
  /\ minted \in Nat /\ shown \in [id : Nat, otp : Nat]
  /\ click # None => click.call \in Ways /\ click.id \in Nat
  /\ calls \in Seq(Orders) /\ events \in Seq(Notices)

HostTypes ==
  /\ job \in [Threads -> Jobs] /\ client \in [Clients -> Relayed]
  /\ cloud \in Clients \cup {None}

Runs(c)     == client[c].link # "none" /\ client[c].link # "stopped"
Brings(t,c) == job[t].at = "swap" /\ job[t].new = c

\* A client that runs is kept, or on its way to be.
Accounted == \A c \in Clients : Runs(c) => c = cloud \/ \E t \in Threads : Brings(t, c)

KeptRuns == cloud # None => Runs(cloud)

\* A client on its way runs, and is nobody else's.
NewIsNew ==
  \A t \in Threads : job[t].at = "swap" =>
    /\ job[t].new \in Clients /\ Runs(job[t].new) /\ job[t].new # cloud
    /\ \A u \in Threads \ {t} : ~Brings(u, job[t].new)

Custody == Accounted /\ KeptRuns /\ NewIsNew
IInv    == PageTypes /\ HostTypes /\ Custody

LEMMA NoneIsNoClient == None \notin Clients /\ Clients \subseteq Nat
  BY RelayConstants DEF Clients

\* The initial state has no client.
LEMMA InitHolds == Init => IInv
  <1> SUFFICES ASSUME Init PROVE IInv
    OBVIOUS
  <1>1. PageTypes
    <2>1. minted \in Nat /\ shown \in [id : Nat, otp : Nat] /\ click = None /\ events = <<>>
      BY DEF Init
    <2>2. calls = <<>> \/ calls = <<[call |-> "register", id |-> 0, otp |-> 0]>>
      BY DEF Init
    <2>3. [call |-> "register", id |-> 0, otp |-> 0] \in Orders
      BY DEF Orders, Ways
    <2>4. <<>> \in Seq(Orders) /\ \A o \in Orders : <<o>> \in Seq(Orders)
      OBVIOUS
    <2>5. calls \in Seq(Orders)
      BY <2>2, <2>3, <2>4
    <2> QED
      BY <2>1, <2>5 DEF PageTypes
  <1>2. HostTypes
    BY DEF Init, HostTypes, Jobs, Relayed, Idle, Places, Links
  <1>3. \A c \in Clients : ~Runs(c)
    BY DEF Init, Runs
  <1>4. \A t \in Threads : job[t].at = "idle"
    BY DEF Init, Idle
  <1>5. cloud = None
    BY DEF Init
  <1> QED
    BY <1>1, <1>2, <1>3, <1>4, <1>5, NoneIsNoClient DEF IInv, Custody, Accounted, KeptRuns, NewIsNew

-----------------------------------------------------------------------------
(* Custody, by what a step does to the clients and to the jobs.            *)

\* A step that takes no thread to or from its swap, and leaves the clients alone.
LEMMA JobKeeps ==
  ASSUME HostTypes, Custody, UNCHANGED <<client, cloud>>,
         \A t \in Threads : job'[t].at = "swap" <=> job[t].at = "swap",
         \A t \in Threads : job[t].at = "swap" => job'[t].new = job[t].new
  PROVE  Custody'
  BY DEF HostTypes, Custody, Accounted, KeptRuns, NewIsNew, Runs, Brings

\* A step of a client that runs on.
LEMMA LinkKeeps ==
  ASSUME HostTypes, Custody, UNCHANGED <<job, cloud>>, NEW c \in Clients,
         Runs(c), Runs(c)', \A d \in Clients \ {c} : client'[d] = client[d]
  PROVE  Custody'
  <1>1. \A d \in Clients : Runs(d)' = Runs(d)
    BY DEF Runs
  <1>2. Accounted'
    BY <1>1 DEF Custody, Accounted, Brings
  <1>3. KeptRuns'
    BY <1>1 DEF Custody, KeptRuns, HostTypes
  <1>4. NewIsNew'
    BY <1>1 DEF Custody, NewIsNew, Brings
  <1> QED
    BY <1>2, <1>3, <1>4 DEF Custody

\* A thread starts a client that has not run yet.
LEMMA SpawnKeeps ==
  ASSUME IInv, NEW t \in Threads, Spawn(t)
  PROVE  HostTypes' /\ Custody'
  <1>1. PICK c \in Clients :
          /\ client[c].link = "none"
          /\ client' = [client EXCEPT ![c] = [link |-> "resting", id |-> job[t].id]]
          /\ job' = [job EXCEPT ![t].at = "swap", ![t].new = c]
    BY DEF Spawn
  <1>2. job[t].at = "register" /\ cloud' = cloud
    BY DEF Spawn
  <1>3. HostTypes'
    BY <1>1, <1>2 DEF IInv, HostTypes, Jobs, Relayed, Places, Links
  <1>4. job'[t].at = "swap" /\ job'[t].new = c /\ \A u \in Threads \ {t} : job'[u] = job[u]
    BY <1>1 DEF IInv, HostTypes, Jobs
  <1>5. /\ ~Runs(c) /\ Runs(c)'
        /\ \A d \in Clients \ {c} : client'[d] = client[d] /\ (Runs(d)' = Runs(d))
    BY <1>1 DEF IInv, HostTypes, Relayed, Runs
  <1>6. c # cloud /\ \A u \in Threads : ~Brings(u, c)
    BY <1>5, NoneIsNoClient DEF IInv, Custody, KeptRuns, NewIsNew, Brings
  <1>7. Accounted'
    <2> SUFFICES ASSUME NEW d \in Clients, Runs(d)'
                 PROVE  d = cloud \/ \E u \in Threads : Brings(u, d)'
      BY <1>2 DEF Accounted
    <2>1. CASE d = c
      BY <2>1, <1>4 DEF Brings
    <2>2. CASE d # c
      <3>1. d = cloud \/ \E u \in Threads : Brings(u, d)
        BY <2>2, <1>5 DEF IInv, Custody, Accounted
      <3> QED
        BY <3>1, <1>2, <1>4 DEF Brings
    <2> QED
      BY <2>1, <2>2
  <1>8. KeptRuns'
    BY <1>2, <1>5, <1>6 DEF IInv, Custody, KeptRuns, HostTypes
  <1>9. NewIsNew'
    <2> SUFFICES ASSUME NEW u \in Threads, job'[u].at = "swap"
                 PROVE  /\ job'[u].new \in Clients /\ Runs(job[u].new)' /\ job'[u].new # cloud
                        /\ \A v \in Threads \ {u} : ~Brings(v, job[u].new)'
      BY <1>2 DEF NewIsNew
    <2>1. CASE u = t
      BY <2>1, <1>4, <1>5, <1>6 DEF Brings, Runs
    <2>2. CASE u # t
      <3>1. job'[u] = job[u] /\ job[u].at = "swap"
        BY <2>2, <1>4
      <3>2. /\ job[u].new \in Clients /\ Runs(job[u].new) /\ job[u].new # cloud
            /\ \A v \in Threads \ {u} : ~Brings(v, job[u].new)
        BY <3>1 DEF IInv, Custody, NewIsNew
      <3>3. job[u].new # c
        BY <3>1, <1>6 DEF Brings
      <3> QED
        BY <3>1, <3>2, <3>3, <1>4, <1>5 DEF Brings, Runs
    <2> QED
      BY <2>1, <2>2
  <1> QED
    BY <1>3, <1>7, <1>8, <1>9 DEF Custody

\* The rest of a registration, and the end of public sessions: the client that was kept
\* ends, and the thread brings another or none.
LEMMA StopKeeps ==
  ASSUME IInv, NEW t \in Threads, StopKept,
         job' \in [Threads -> Jobs], job'[t].at # "swap",
         \A u \in Threads \ {t} : job'[u] = job[u],
         \/ job[t].at = "swap" /\ cloud' = job[t].new
         \/ job[t].at # "swap" /\ cloud' = None
  PROVE  HostTypes' /\ Custody'
  <1>1. cloud' \in Clients \cup {None}
    BY DEF IInv, Custody, NewIsNew
  <1>2. /\ client' \in [Clients -> Relayed]
        /\ \A d \in Clients \ {cloud} : client'[d] = client[d]
        /\ \A d \in Clients : d = cloud => ~Runs(d)'
    <2>1. CASE cloud = None
      BY <2>1, NoneIsNoClient DEF StopKept, IInv, HostTypes
    <2>2. CASE cloud # None
      <3>1. client' = [client EXCEPT ![cloud].link = "stopped"] /\ cloud \in Clients
        BY <2>2 DEF StopKept, StopClient, IInv, HostTypes
      <3>2. /\ client' \in [Clients -> Relayed] /\ client'[cloud].link = "stopped"
            /\ \A d \in Clients \ {cloud} : client'[d] = client[d]
        BY <3>1 DEF IInv, HostTypes, Relayed, Links
      <3> QED
        BY <3>2 DEF Runs
    <2> QED
      BY <2>1, <2>2
  <1>3. HostTypes'
    BY <1>1, <1>2 DEF HostTypes
  <1>4. \A d \in Clients : d # cloud => (Runs(d)' <=> Runs(d))
    BY <1>2 DEF Runs
  <1>5. Accounted'
    <2> SUFFICES ASSUME NEW d \in Clients, Runs(d)'
                 PROVE  d = cloud' \/ \E u \in Threads : Brings(u, d)'
      BY DEF Accounted
    <2>1. d # cloud /\ Runs(d)
      BY <1>2, <1>4, NoneIsNoClient
    <2>2. PICK u \in Threads : Brings(u, d)
      BY <2>1 DEF IInv, Custody, Accounted
    <2>3. CASE u = t
      BY <2>2, <2>3 DEF Brings
    <2>4. CASE u # t
      BY <2>2, <2>4 DEF Brings
    <2> QED
      BY <2>3, <2>4
  <1>6. KeptRuns'
    <2> SUFFICES ASSUME cloud' # None
                 PROVE  client'[cloud'].link # "none" /\ client'[cloud'].link # "stopped"
      BY DEF KeptRuns, Runs
    <2>1. job[t].at = "swap" /\ cloud' = job[t].new
      OBVIOUS
    <2>2. cloud' \in Clients /\ Runs(cloud') /\ cloud' # cloud
      BY <2>1 DEF IInv, Custody, NewIsNew
    <2> QED
      BY <2>2, <1>2 DEF Runs
  <1>7. NewIsNew'
    <2> SUFFICES ASSUME NEW u \in Threads, job'[u].at = "swap"
                 PROVE  /\ job'[u].new \in Clients /\ Runs(job[u].new)' /\ job'[u].new # cloud'
                        /\ \A v \in Threads \ {u} : ~Brings(v, job[u].new)'
      BY DEF NewIsNew
    <2>1. u # t /\ job'[u] = job[u] /\ job[u].at = "swap"
      OBVIOUS
    <2>2. /\ job[u].new \in Clients /\ Runs(job[u].new) /\ job[u].new # cloud
          /\ \A v \in Threads \ {u} : ~Brings(v, job[u].new)
      BY <2>1 DEF IInv, Custody, NewIsNew
    <2>3. Runs(job[u].new)'
      BY <2>1, <2>2, <1>2 DEF Runs
    <2>4. job[u].new # cloud'
      BY <2>1, <2>2, NoneIsNoClient DEF Brings
    <2> QED
      BY <2>1, <2>2, <2>3, <2>4 DEF Brings
  <1> QED
    BY <1>3, <1>5, <1>6, <1>7 DEF Custody

-----------------------------------------------------------------------------
(* The invariant is kept, action by action.                                *)

USE DEF page, counts

\* The page's own steps touch neither a job nor a client.
LEMMA PageSteps == IInv /\ (Click \/ Saved \/ Unsaved \/ Follow) => IInv'
  <1> SUFFICES ASSUME IInv, Click \/ Saved \/ Unsaved \/ Follow PROVE IInv'
    OBVIOUS
  <1>1. UNCHANGED <<job, client, cloud, minted>>
    BY DEF Click, Saved, Unsaved, Follow
  <1>2. HostTypes' /\ Custody'
    BY <1>1, JobKeeps DEF IInv, HostTypes
  <1>3. PageTypes'
    <2>1. CASE Click
      BY <2>1 DEF Click, IInv, PageTypes, Ways
    <2>2. CASE Saved
      <3>1. [call |-> click.call, id |-> click.id, otp |-> 0] \in Orders
        BY <2>2 DEF Saved, IInv, PageTypes, Orders
      <3> QED
        BY <2>2, <3>1 DEF Saved, Call, IInv, PageTypes
    <2>3. CASE Unsaved
      BY <2>3 DEF Unsaved, IInv, PageTypes
    <2>4. CASE Follow
      <3>1. Head(events) \in Notices /\ events' \in Seq(Notices)
        BY <2>4 DEF Follow, IInv, PageTypes
      <3>2. shown' \in [id : Nat, otp : Nat]
        BY <2>4, <3>1 DEF Follow, IInv, PageTypes, Notices
      <3>3. [call |-> "set", id |-> shown'.id, otp |-> shown'.otp] \in Orders
        BY <3>2 DEF Orders, Ways
      <3>4. \/ calls' = Append(calls, [call |-> "set", id |-> shown'.id, otp |-> shown'.otp])
            \/ calls' = calls
        BY <2>4 DEF Follow, Call
      <3>5. calls' \in Seq(Orders)
        <4>1. calls \in Seq(Orders)
          BY DEF IInv, PageTypes
        <4> QED
          BY <3>3, <3>4, <4>1
      <3> QED
        BY <2>4, <3>1, <3>2, <3>5 DEF Follow, IInv, PageTypes
    <2> QED
      BY <2>1, <2>2, <2>3, <2>4
  <1> QED
    BY <1>2, <1>3 DEF IInv

\* The jobs of the two threads that reach no swap.
LEMMA JobSteps ==
  IInv /\ (Take \/ SessionNew \/ Check \/ Tell \/ \E t \in Threads : SetId(t) \/ SetOtp(t)) => IInv'
  <1> SUFFICES ASSUME IInv, Take \/ SessionNew \/ Check \/ Tell \/ \E t \in Threads : SetId(t) \/ SetOtp(t)
               PROVE  IInv'
    OBVIOUS
  <1>1. CASE Take
    <2>1. Head(calls) \in Orders /\ calls' \in Seq(Orders)
      BY <1>1 DEF Take, IInv, PageTypes
    <2>2. /\ job' \in [Threads -> Jobs] /\ job'["main"].at # "swap" /\ job["main"].at # "swap"
          /\ \A t \in Threads \ {"main"} : job'[t] = job[t]
      BY <1>1, <2>1 DEF Take, IInv, HostTypes, Jobs, Orders, Ways, Places, Threads
    <2>3. UNCHANGED <<client, cloud, minted, shown, click, events>>
      BY <1>1 DEF Take
    <2>4. Custody'
      BY <2>2, <2>3, JobKeeps DEF IInv
    <2> QED
      BY <2>1, <2>2, <2>3, <2>4 DEF IInv, HostTypes, PageTypes
  <1>2. CASE SessionNew
    <2>1. minted' \in Nat
      BY <1>2 DEF SessionNew, IInv, PageTypes
    <2>2. /\ job' \in [Threads -> Jobs] /\ job'["control"].at # "swap" /\ job["control"].at # "swap"
          /\ \A t \in Threads \ {"control"} : job'[t] = job[t]
      BY <1>2, <2>1 DEF SessionNew, IInv, HostTypes, Jobs, Places, Threads
    <2>3. UNCHANGED <<client, cloud, calls, shown, click, events>>
      BY <1>2 DEF SessionNew
    <2>4. Custody'
      BY <2>2, <2>3, JobKeeps DEF IInv
    <2> QED
      BY <2>1, <2>2, <2>3, <2>4 DEF IInv, HostTypes, PageTypes
  <1>3. CASE Check
    <2>1. /\ job' \in [Threads -> Jobs] /\ job'["control"].at # "swap" /\ job["control"].at # "swap"
          /\ \A t \in Threads \ {"control"} : job'[t] = job[t]
      BY <1>3 DEF Check, At, IInv, HostTypes, Jobs, Places, Threads
    <2>2. UNCHANGED <<client, cloud, minted, calls, shown, click, events>>
      BY <1>3 DEF Check
    <2>3. Custody'
      BY <2>1, <2>2, JobKeeps DEF IInv
    <2> QED
      BY <2>1, <2>2, <2>3 DEF IInv, HostTypes, PageTypes
  <1>4. CASE Tell
    <2>1. /\ job' \in [Threads -> Jobs] /\ job'["control"].at # "swap" /\ job["control"].at # "swap"
          /\ \A t \in Threads \ {"control"} : job'[t] = job[t]
      BY <1>4 DEF Tell, At, IInv, HostTypes, Jobs, Places, Threads
    <2>2. UNCHANGED <<client, cloud, minted, calls, shown, click>>
      BY <1>4 DEF Tell
    <2>3. [id |-> job["control"].id, otp |-> job["control"].otp] \in Notices
      BY DEF IInv, HostTypes, Jobs, Notices, Threads
    <2>4. events' \in Seq(Notices)
      BY <1>4, <2>3 DEF Tell, TellNew, IInv, PageTypes
    <2>5. Custody'
      BY <2>1, <2>2, JobKeeps DEF IInv
    <2> QED
      BY <2>1, <2>2, <2>4, <2>5 DEF IInv, HostTypes, PageTypes
  <1>5. ASSUME NEW t \in Threads, SetId(t) \/ SetOtp(t) PROVE IInv'
    <2>1. /\ job' \in [Threads -> Jobs] /\ job'[t].at # "swap" /\ job[t].at # "swap"
          /\ \A u \in Threads \ {t} : job'[u] = job[u]
      BY <1>5 DEF SetId, SetOtp, At, Idle, IInv, HostTypes, Jobs, Places
    <2>2. UNCHANGED <<client, cloud, minted, calls, shown, click, events>>
      BY <1>5 DEF SetId, SetOtp
    <2>3. Custody'
      BY <2>1, <2>2, JobKeeps DEF IInv
    <2> QED
      BY <2>1, <2>2, <2>3 DEF IInv, HostTypes, PageTypes
  <1> QED
    BY <1>1, <1>2, <1>3, <1>4, <1>5

\* Registrations, and their end.
LEMMA CloudSteps ==
  IInv /\ (Unregister \/ \E t \in Threads : Spawn(t) \/ Swap(t)) => IInv'
  <1> SUFFICES ASSUME IInv, Unregister \/ \E t \in Threads : Spawn(t) \/ Swap(t)
               PROVE  IInv'
    OBVIOUS
  <1>1. PageTypes'
    BY DEF Unregister, Spawn, Swap, IInv, PageTypes
  <1>2. CASE Unregister
    <2>1. /\ job' \in [Threads -> Jobs] /\ job'["main"].at # "swap" /\ job["main"].at # "swap"
          /\ \A t \in Threads \ {"main"} : job'[t] = job[t]
      BY <1>2 DEF Unregister, Idle, IInv, HostTypes, Jobs, Places, Threads
    <2>2. StopKept /\ cloud' = None /\ "main" \in Threads
      BY <1>2 DEF Unregister, Threads
    <2>3. HostTypes' /\ Custody'
      BY <2>1, <2>2, StopKeeps
    <2> QED
      BY <1>1, <2>3 DEF IInv
  <1>3. ASSUME NEW t \in Threads, Spawn(t) PROVE IInv'
    BY <1>1, <1>3, SpawnKeeps DEF IInv
  <1>4. ASSUME NEW t \in Threads, Swap(t) PROVE IInv'
    <2> DEFINE rest == IF t = "main" THEN Idle ELSE [job[t] EXCEPT !.at = "tell", !.new = None]
    <2>a. rest \in Jobs /\ rest.at # "swap"
      <3>1. Idle \in Jobs /\ Idle.at # "swap"
        BY DEF Idle, Jobs, Places
      <3>2. job[t] \in Jobs
        BY DEF IInv, HostTypes
      <3>3. /\ [job[t] EXCEPT !.at = "tell", !.new = None] \in Jobs
            /\ [job[t] EXCEPT !.at = "tell", !.new = None].at # "swap"
        BY <3>2 DEF Jobs, Places
      <3> QED
        BY <3>1, <3>3
    <2>b. job' = [job EXCEPT ![t] = rest] /\ job[t].at = "swap"
      BY <1>4 DEF Swap
    <2> HIDE DEF rest
    <2>1. /\ job' \in [Threads -> Jobs] /\ job'[t].at # "swap" /\ job[t].at = "swap"
          /\ \A u \in Threads \ {t} : job'[u] = job[u]
      BY <2>a, <2>b DEF IInv, HostTypes
    <2>2. StopKept /\ cloud' = job[t].new
      BY <1>4 DEF Swap
    <2>3. HostTypes' /\ Custody'
      BY <2>1, <2>2, StopKeeps
    <2> QED
      BY <1>1, <2>3 DEF IInv
  <1> QED
    BY <1>2, <1>3, <1>4

\* A client's step leaves it running, whatever becomes of its connection.
LEMMA ClientSteps ==
  ASSUME IInv, NEW c \in Clients, ClientStep(c) \/ Fails(c) \/ Closes(c)
  PROVE  IInv'
  <1>1. UNCHANGED <<job, cloud, calls, shown, click>>
    BY DEF ClientStep, Contact, Connect, RelayAnswers, Registered, Rotate, RotateTell, Fails, Closes
  <1>2. minted' \in Nat
    BY DEF ClientStep, Contact, Connect, RelayAnswers, Registered, Rotate, RotateTell, Fails, Closes,
           IInv, PageTypes
  <1>3. client[c].link \in Links \ {"none", "stopped"}
    BY DEF ClientStep, Contact, Connect, RelayAnswers, Registered, Rotate, RotateTell, Fails, Closes,
           Links
  <1>4. \/ \E to \in Links \ {"none", "stopped"} : client' = [client EXCEPT ![c].link = to]
        \/ client' = [client EXCEPT ![c] = [link |-> "rotating", id |-> minted']]
    BY DEF ClientStep, Contact, Connect, RelayAnswers, Registered, Rotate, RotateTell, Fails, Closes,
           ClosedByRelay, Link, Links
  <1>5. /\ client' \in [Clients -> Relayed]
        /\ client'[c].link \in Links \ {"none", "stopped"}
        /\ \A d \in Clients \ {c} : client'[d] = client[d]
    BY <1>2, <1>4 DEF IInv, HostTypes, Relayed, Links
  <1>6. Runs(c) /\ client'[c].link # "none" /\ client'[c].link # "stopped"
    BY <1>3, <1>5 DEF Runs
  <1>7. Custody'
    BY <1>1, <1>5, <1>6, LinkKeeps DEF IInv, Runs
  <1>8. events' \in Seq(Notices)
    <2>1. CASE RotateTell(c)
      <3>1. [id |-> client[c].id, otp |-> None] \in Notices
        BY DEF IInv, HostTypes, Relayed, Notices
      <3> QED
        BY <2>1, <3>1 DEF RotateTell, Told, IInv, PageTypes
    <2>2. CASE ~RotateTell(c)
      BY <2>2 DEF ClientStep, Contact, Connect, RelayAnswers, Registered, Rotate, Fails, Closes,
                  IInv, PageTypes
    <2> QED
      BY <2>1, <2>2
  <1> QED
    BY <1>1, <1>2, <1>5, <1>7, <1>8 DEF IInv, HostTypes, PageTypes

\* What neither a thread nor a client does.
LEMMA IdleSteps == IInv /\ (UNCHANGED vars \/ \E i \in Ids : RelayForgets(i)) => IInv'
  <1> SUFFICES ASSUME IInv, UNCHANGED vars \/ \E i \in Ids : RelayForgets(i) PROVE IInv'
    OBVIOUS
  <1>1. UNCHANGED <<job, client, cloud, minted, calls, shown, click, events>>
    BY DEF vars, RelayForgets
  <1>2. Custody'
    BY <1>1, JobKeeps DEF IInv
  <1> QED
    BY <1>1, <1>2 DEF IInv, HostTypes, PageTypes

LEMMA StepHolds == IInv /\ [Next]_vars => IInv'
  <1> SUFFICES ASSUME IInv, [Next]_vars PROVE IInv'
    OBVIOUS
  <1>1. CASE Click \/ Saved \/ Unsaved \/ Follow
    BY <1>1, PageSteps
  <1>2. CASE Take \/ SessionNew \/ Check \/ Tell \/ \E t \in Threads : SetId(t) \/ SetOtp(t)
    BY <1>2, JobSteps
  <1>3. CASE Unregister \/ \E t \in Threads : Spawn(t) \/ Swap(t)
    BY <1>3, CloudSteps
  <1>4. CASE \E c \in Clients : ClientStep(c) \/ Fails(c) \/ Closes(c)
    BY <1>4, ClientSteps
  <1>5. CASE UNCHANGED vars \/ \E i \in Ids : RelayForgets(i)
    BY <1>5, IdleSteps
  <1> QED
    BY <1>1, <1>2, <1>3, <1>4, <1>5 DEF Next, MainStep, ControlStep, ThreadStep, Threads

-----------------------------------------------------------------------------
\* Every registration takes the place of the one before it, also when two threads register
\* at once (register_cloud_session and unregister_cloud_session, windows_utils/mod.rs).
THEOREM OneClientRuns == Spec => []OneClient
  <1>1. IInv => OneClient
    <2> SUFFICES ASSUME IInv, \A t \in Threads : job[t].at # "swap" PROVE Up = {cloud} \ {None}
      BY DEF OneClient
    <2>1. \A c \in Clients : Runs(c) => c = cloud
      BY DEF IInv, Custody, Accounted, Brings
    <2>2. cloud # None => cloud \in Clients /\ Runs(cloud)
      BY DEF IInv, HostTypes, Custody, KeptRuns
    <2> QED
      BY <2>1, <2>2, NoneIsNoClient DEF Up, Runs
  <1> QED
    BY <1>1, InitHolds, StepHolds, PTL DEF Spec

-----------------------------------------------------------------------------
(* The page's copy of the credentials, and the registration that asks for  *)
(* them.  Every id comes to the page once, in an event, and the page sends *)
(* each on in a call: the last event is the last call, and the last call   *)
(* the last write.                                                         *)

Swaps(t)    == job[t].at = "swap"
Latest(c)   == (\E t \in Threads : Brings(t, c)) \/ (c = cloud /\ \A t \in Threads : ~Swaps(t))
Rotates(c)  == client[c].link = "rotating"
Minting     == job["control"].at # "idle"

\* An event that the page has yet to handle, or is about to be sent.
Owed == events # <<>> \/ Minting \/ \E c \in Clients : Rotates(c)

SameAsShown(o) == o.id = shown.id /\ o.otp = shown.otp

\* The k-th call mirrors what is shown, and none after it mirrors anything.
LastSet(k) ==
  /\ calls[k].call = "set" /\ SameAsShown(calls[k])
  /\ \A l \in 1..Len(calls) : l > k => calls[l].call # "set"

NoSet == \A l \in 1..Len(calls) : calls[l].call # "set"

\* The host has what is shown, or the main thread is writing it.
HostFollows ==
  \/ job["main"].at = "set" /\ SameAsShown(job["main"])
  \/ job["main"].at = "otp" /\ job["main"].otp = shown.otp /\ auth.id = shown.id
  \/ job["main"].at \notin {"set", "otp"} /\ auth = shown

\* When the page has been told everything, its last call to mirror says what it shows.
Mirrored == ~Owed => (\E k \in 1..Len(calls) : LastSet(k)) \/ (NoSet /\ HostFollows)

\* Every id on its way to the page is one that it has not seen, so that it mirrors each.
Unseen(i) == i # shown.id /\ i <= minted /\ \A k \in 1..Len(events) : events[k].id # i

EventsFresh ==
  \A k \in 1..Len(events) :
    /\ events[k].id # shown.id /\ events[k].id <= minted
    /\ \A l \in 1..Len(events) : l # k => events[l].id # events[k].id

ControlFresh == Minting => Unseen(job["control"].id)

RotatedFresh ==
  \A c \in Clients : Rotates(c) =>
    /\ Unseen(client[c].id)
    /\ Minting => client[c].id # job["control"].id
    /\ \A d \in Clients : Rotates(d) /\ d # c => client[d].id # client[c].id

NamesFresh == shown.id <= minted /\ EventsFresh /\ ControlFresh /\ RotatedFresh

\* When no command runs, the last code on its way to the page is the one it printed.
CodeTold ==
  ~Minting => \E k \in 0..Len(events) :
    /\ IF k = 0 THEN shown.otp = job["control"].otp ELSE events[k].otp = job["control"].otp
    /\ \A l \in 1..Len(events) : l > k => events[l].otp = None

\* While nothing crosses the newest registration no other is under way, and only its client
\* rotates, once it is kept and before a command registers another.
NewestAlone ==
  /\ \A t, u \in Threads : Swaps(t) /\ Swaps(u) => t = u
  /\ \A c \in Clients : Rotates(c) =>
       c = cloud /\ job["control"].at # "tell" /\ \A t \in Threads : ~Swaps(t)

\* The newest client asks for the id that the page is about to show.
AsksComing ==
  job["control"].at \in {"idle", "swap", "tell"} /\ (\A c \in Clients : ~Rotates(c)) =>
    \A c \in Clients : Latest(c) => client[c].id = Coming

\* What is reported is what the newest client said.
ReportsTrue == \A c \in Clients : Latest(c) /\ client[c].link = "held" => status = "registered"

Uncrossed == ~crossed => NewestAlone /\ AsksComing /\ ReportsTrue

CredTypes == auth \in [id : Nat, otp : Nat] /\ (click # None => click.call # "set")

MirrorInv == CredTypes /\ Mirrored /\ NamesFresh /\ CodeTold

\* A client that is stopped was not rotating, and the others go on.
LEMMA StopSpares ==
  ASSUME HostTypes, StopKept
  PROVE  \A d \in Clients :
           /\ (client'[d].link = "rotating") <=> (client[d].link = "rotating")
           /\ client'[d].id = client[d].id
           /\ d # cloud => client'[d] = client[d]
           /\ d = cloud => client[d].link # "rotating" /\ client'[d].link = "stopped"
  <1>1. CASE cloud = None
    BY <1>1, NoneIsNoClient DEF StopKept
  <1>2. CASE cloud # None
    BY <1>2 DEF StopKept, StopClient, HostTypes, Relayed
  <1> QED
    BY <1>1, <1>2

\* What becomes of a connection that is not about to rotate.
LEMMA LinkMoves ==
  ASSUME HostTypes, NEW c \in Clients,
         Contact(c) \/ Connect(c) \/ RelayAnswers(c) \/ Registered(c) \/ Fails(c) \/ Closes(c)
  PROVE  /\ Runs(c) /\ client[c].link # "rotating"
         /\ client'[c].link # "rotating" /\ client'[c].id = client[c].id
         /\ \A d \in Clients \ {c} : client'[d] = client[d]
  <1>1. client[c].link \in {"resting", "dialling", "asked", "granted", "taken", "held"}
    BY DEF Contact, Connect, RelayAnswers, Registered, Fails, Closes
  <1>2. \E to \in Links \ {"rotating"} : client' = [client EXCEPT ![c].link = to]
    BY DEF Contact, Connect, RelayAnswers, Registered, Fails, Closes, ClosedByRelay, Link, Links
  <1> QED
    BY <1>1, <1>2 DEF Runs, HostTypes, Relayed

-----------------------------------------------------------------------------
(* The mirror, by what a step does to the credentials.                     *)

\* What the relay and its clients do, and the ends of a registration, write no credential.
LEMMA MirrorStays ==
  ASSUME MirrorInv, UNCHANGED <<auth, shown, calls, events, minted>>,
         click' # None => click'.call # "set",
         \A c \in Clients : Rotates(c)' <=> Rotates(c),
         \A c \in Clients : Rotates(c) => client'[c].id = client[c].id,
         job'["control"].at = "idle" <=> job["control"].at = "idle",
         job'["control"].id = job["control"].id, job'["control"].otp = job["control"].otp,
         \/ job'["main"] = job["main"]
         \/ job["main"].at \notin {"set", "otp"} /\ job'["main"].at \notin {"set", "otp"}
  PROVE  MirrorInv'
  <1>1. (Minting' <=> Minting) /\ (Owed' <=> Owed)
    BY DEF Minting, Owed
  <1>2. CredTypes'
    BY DEF MirrorInv, CredTypes
  <1>3. Mirrored'
    <2> SUFFICES ASSUME ~Owed'
                 PROVE  (\E k \in 1..Len(calls) : LastSet(k)') \/ (NoSet' /\ HostFollows')
      BY DEF Mirrored
    <2>1. (\E k \in 1..Len(calls) : LastSet(k)) \/ (NoSet /\ HostFollows)
      BY <1>1 DEF MirrorInv, Mirrored
    <2> QED
      BY <2>1 DEF LastSet, NoSet, HostFollows, SameAsShown
  <1>4. NamesFresh'
    <2>1. EventsFresh'
      BY DEF MirrorInv, NamesFresh, EventsFresh
    <2>2. ControlFresh'
      BY <1>1 DEF MirrorInv, NamesFresh, ControlFresh, Unseen
    <2>3. RotatedFresh'
      BY <1>1 DEF MirrorInv, NamesFresh, RotatedFresh, Unseen
    <2> QED
      BY <2>1, <2>2, <2>3 DEF MirrorInv, NamesFresh
  <1>5. CodeTold'
    BY <1>1 DEF MirrorInv, CodeTold
  <1> QED
    BY <1>2, <1>3, <1>4, <1>5 DEF MirrorInv

\* A call that mirrors nothing.
LEMMA SavedMirror ==
  ASSUME IInv, MirrorInv, Saved
  PROVE  MirrorInv'
  <1> DEFINE c == [call |-> click.call, id |-> click.id, otp |-> 0]
  <1>1. calls' = Append(calls, c) /\ c \in Orders /\ c.call # "set" /\ click' = None
    BY DEF Saved, Call, IInv, PageTypes, Orders, MirrorInv, CredTypes
  <1>2. UNCHANGED <<auth, shown, events, job, client, minted>>
    BY DEF Saved
  <1>3. /\ Len(calls') = Len(calls) + 1 /\ calls'[Len(calls) + 1] = c
        /\ \A k \in 1..Len(calls) : calls'[k] = calls[k]
    BY <1>1 DEF IInv, PageTypes
  <1>4. Owed' <=> Owed
    BY <1>2 DEF Owed, Minting, Rotates
  <1>5. Mirrored'
    <2> SUFFICES ASSUME ~Owed'
                 PROVE  (\E k \in 1..Len(calls') : LastSet(k)') \/ (NoSet' /\ HostFollows')
      BY DEF Mirrored
    <2>0. Len(calls) \in Nat
      BY DEF IInv, PageTypes
    <2>1. CASE \E k \in 1..Len(calls) : LastSet(k)
      <3>1. PICK k \in 1..Len(calls) : LastSet(k)
        BY <2>1
      <3>2. k \in 1..Len(calls') /\ calls'[k] = calls[k]
        BY <2>0, <1>3
      <3>3. ASSUME NEW l \in 1..Len(calls'), l > k PROVE calls'[l].call # "set"
        BY <3>3, <3>1, <1>1, <1>3, <2>0 DEF LastSet
      <3> QED
        BY <3>1, <3>2, <3>3, <1>2 DEF LastSet, SameAsShown
    <2>2. CASE NoSet /\ HostFollows
      <3>1. ASSUME NEW l \in 1..Len(calls') PROVE calls'[l].call # "set"
        BY <2>2, <1>1, <1>3, <2>0 DEF NoSet
      <3> QED
        BY <3>1, <2>2, <1>2 DEF NoSet, HostFollows, SameAsShown
    <2> QED
      BY <2>1, <2>2, <1>4 DEF MirrorInv, Mirrored
  <1>6. NamesFresh' /\ CodeTold' /\ CredTypes'
    BY <1>1, <1>2 DEF MirrorInv, NamesFresh, EventsFresh, ControlFresh, RotatedFresh, Unseen, Minting,
                      Rotates, CodeTold, CredTypes
  <1> QED
    BY <1>5, <1>6 DEF MirrorInv

\* The page shows what an event says, and mirrors it in a call after all others.
LEMMA FollowMirror ==
  ASSUME IInv, MirrorInv, Follow
  PROVE  MirrorInv'
  <1> DEFINE e == events[1]
  <1> DEFINE o == [call |-> "set", id |-> shown'.id, otp |-> shown'.otp]
  <1>1. /\ Len(events) \in Nat \ {0} /\ e \in Notices
        /\ Len(events') = Len(events) - 1
        /\ \A k \in 1..Len(events') : events'[k] = events[k + 1]
        /\ shown' = [id |-> e.id, otp |-> IF e.otp = None THEN shown.otp ELSE e.otp]
    BY DEF Follow, IInv, PageTypes
  <1>2. UNCHANGED <<auth, job, client, minted, click>>
    BY DEF Follow
  <1>3. e.id # shown.id /\ e.id <= minted
    BY <1>1 DEF MirrorInv, NamesFresh, EventsFresh
  <1>4. /\ shown'.id = e.id /\ shown'.id # shown.id /\ shown' \in [id : Nat, otp : Nat]
        /\ shown'.otp = IF e.otp = None THEN shown.otp ELSE e.otp
    BY <1>1, <1>3 DEF Notices, IInv, PageTypes
  <1>5. calls' = Append(calls, o) /\ o \in Orders
    BY <1>4 DEF Follow, Call, Orders, Ways
  <1>6. Mirrored'
    <2>1. Len(calls') = Len(calls) + 1 /\ calls'[Len(calls) + 1] = o /\ Len(calls) \in Nat
      BY <1>5 DEF IInv, PageTypes
    <2>2. o.call = "set" /\ o.id = shown'.id /\ o.otp = shown'.otp
      OBVIOUS
    <2>3. PICK n \in 1..Len(calls') : n = Len(calls) + 1 /\ \A l \in 1..Len(calls') : ~(l > n)
      BY <2>1
    <2> HIDE DEF o
    <2>4. calls'[n].call = "set" /\ calls'[n].id = shown'.id /\ calls'[n].otp = shown'.otp
      BY <2>1, <2>2, <2>3
    <2>5. LastSet(n)'
      BY <2>3, <2>4 DEF LastSet, SameAsShown
    <2> QED
      BY <2>3, <2>5 DEF Mirrored
  <1>7. NamesFresh'
    <2>1. EventsFresh'
      <3> SUFFICES ASSUME NEW k \in 1..Len(events')
                   PROVE  /\ events'[k].id # shown'.id /\ events'[k].id <= minted'
                          /\ \A l \in 1..Len(events') : l # k => events'[l].id # events'[k].id
        BY DEF EventsFresh
      <3>1. k + 1 \in 1..Len(events) /\ k + 1 # 1 /\ 1 \in 1..Len(events)
        BY <1>1
      <3>2. events[k + 1].id # e.id /\ events[k + 1].id <= minted
        BY <3>1 DEF MirrorInv, NamesFresh, EventsFresh
      <3>3. ASSUME NEW l \in 1..Len(events'), l # k PROVE events'[l].id # events'[k].id
        <4>1. l + 1 \in 1..Len(events) /\ l + 1 # k + 1
          BY <3>3, <1>1
        <4>2. events[l + 1].id # events[k + 1].id
          BY <3>1, <4>1 DEF MirrorInv, NamesFresh, EventsFresh
        <4> QED
          BY <4>2, <1>1, <3>3
      <3> QED
        BY <3>2, <3>3, <1>1, <1>2, <1>4
    <2>2. ASSUME NEW i, Unseen(i) PROVE Unseen(i)'
      <3>1. i # e.id /\ i <= minted
        BY <2>2, <1>1 DEF Unseen
      <3>2. ASSUME NEW k \in 1..Len(events') PROVE events'[k].id # i
        <4>1. k + 1 \in 1..Len(events)
          BY <1>1
        <4> QED
          BY <4>1, <1>1, <2>2 DEF Unseen
      <3> QED
        BY <3>1, <3>2, <1>2, <1>4 DEF Unseen
    <2>3. ControlFresh'
      BY <2>2, <1>2 DEF MirrorInv, NamesFresh, ControlFresh, Minting
    <2>4. RotatedFresh'
      BY <2>2, <1>2 DEF MirrorInv, NamesFresh, RotatedFresh, Minting, Rotates
    <2> QED
      BY <2>1, <2>3, <2>4, <1>2, <1>3, <1>4 DEF NamesFresh
  <1>8. CodeTold'
    <2> SUFFICES ASSUME ~Minting'
                 PROVE  \E k \in 0..Len(events') :
                          /\ IF k = 0 THEN shown'.otp = job'["control"].otp
                                      ELSE events'[k].otp = job'["control"].otp
                          /\ \A l \in 1..Len(events') : l > k => events'[l].otp = None
      BY DEF CodeTold
    <2>1. PICK k \in 0..Len(events) :
            /\ IF k = 0 THEN shown.otp = job["control"].otp ELSE events[k].otp = job["control"].otp
            /\ \A l \in 1..Len(events) : l > k => events[l].otp = None
      BY <1>2 DEF MirrorInv, CodeTold, Minting
    <2>2. ASSUME NEW l \in 1..Len(events'), l + 1 > k PROVE events'[l].otp = None
      <3>1. l + 1 \in 1..Len(events)
        BY <1>1
      <3> QED
        BY <3>1, <2>1, <2>2, <1>1
    <2>3. CASE k = 0
      <3>1. e.otp = None
        BY <2>1, <2>3, <1>1
      <3>2. shown'.otp = job'["control"].otp
        BY <2>1, <2>3, <3>1, <1>2, <1>4
      <3>3. 0 \in 0..Len(events') /\ \A l \in 1..Len(events') : l > 0 => l + 1 > k
        BY <1>1, <2>3
      <3> QED
        BY <2>2, <3>2, <3>3
    <2>4. CASE k = 1
      <3>1. e.otp = job["control"].otp /\ job["control"].otp \in Nat
        BY <2>1, <2>4 DEF IInv, HostTypes, Jobs, Threads
      <3>2. shown'.otp = job'["control"].otp
        BY <3>1, <1>2, <1>4, RelayConstants
      <3>3. 0 \in 0..Len(events') /\ \A l \in 1..Len(events') : l > 0 => l + 1 > k
        BY <1>1, <2>4
      <3> QED
        BY <2>2, <3>2, <3>3
    <2>5. CASE k > 1
      <3>1. k - 1 \in 0..Len(events') /\ k - 1 # 0 /\ k - 1 \in 1..Len(events')
        BY <1>1, <2>5
      <3>2. events'[k - 1].otp = job'["control"].otp
        BY <3>1, <2>1, <2>5, <1>1, <1>2
      <3>3. \A l \in 1..Len(events') : l > k - 1 => l + 1 > k
        BY <2>5, <1>1
      <3> QED
        BY <2>2, <3>1, <3>2, <3>3
    <2> QED
      BY <2>3, <2>4, <2>5
  <1>9. CredTypes'
    BY <1>2 DEF MirrorInv, CredTypes
  <1> QED
    BY <1>6, <1>7, <1>8, <1>9 DEF MirrorInv

\* The main thread takes a call, which was the last to mirror or is not.
LEMMA TakeMirror ==
  ASSUME IInv, MirrorInv, Take
  PROVE  MirrorInv'
  <1> DEFINE c == calls[1]
  <1>a. calls \in Seq(Orders) /\ calls # <<>> /\ calls' = Tail(calls) /\ Head(calls) = c
    BY DEF Take, IInv, PageTypes
  <1>b. /\ Len(calls) \in Nat \ {0} /\ c \in Orders
        /\ Len(calls') = Len(calls) - 1
        /\ \A k \in 1..Len(calls') : calls'[k] = calls[k + 1]
    BY <1>a
  <1>c. /\ job["main"].at = "idle"
        /\ job' = [job EXCEPT !["main"] = [at |-> c.call, id |-> c.id, otp |-> c.otp, new |-> None]]
    BY <1>a DEF Take
  <1>1. /\ Len(calls) \in Nat \ {0} /\ c \in Orders
        /\ Len(calls') = Len(calls) - 1
        /\ \A k \in 1..Len(calls') : calls'[k] = calls[k + 1]
        /\ job["main"].at = "idle"
        /\ job' = [job EXCEPT !["main"] = [at |-> c.call, id |-> c.id, otp |-> c.otp, new |-> None]]
    BY <1>b, <1>c
  <1>2. UNCHANGED <<auth, shown, events, client, minted, click>>
    BY DEF Take
  <1>3. /\ job'["main"] = [at |-> c.call, id |-> c.id, otp |-> c.otp, new |-> None]
        /\ job'["control"] = job["control"]
    BY <1>1 DEF IInv, HostTypes, Threads
  <1>4. Mirrored'
    <2> SUFFICES ASSUME ~Owed'
                 PROVE  (\E k \in 1..Len(calls') : LastSet(k)') \/ (NoSet' /\ HostFollows')
      BY DEF Mirrored
    <2>1. (\E k \in 1..Len(calls) : LastSet(k)) \/ (NoSet /\ HostFollows)
      BY <1>2, <1>3 DEF MirrorInv, Mirrored, Owed, Minting, Rotates
    <2>2. CASE LastSet(1)
      <3>1. NoSet'
        BY <2>2, <1>1 DEF LastSet, NoSet
      <3>2. HostFollows'
        BY <2>2, <1>2, <1>3 DEF LastSet, HostFollows, SameAsShown
      <3> QED
        BY <3>1, <3>2
    <2>3. ASSUME NEW k \in 1..Len(calls), LastSet(k), k # 1
          PROVE  \E m \in 1..Len(calls') : LastSet(m)'
      <3>1. k - 1 \in 1..Len(calls') /\ calls'[k - 1] = calls[k]
        BY <2>3, <1>1
      <3>2. ASSUME NEW l \in 1..Len(calls'), l > k - 1 PROVE calls'[l].call # "set"
        <4>1. l + 1 \in 1..Len(calls) /\ l + 1 > k
          BY <3>2, <1>1
        <4> QED
          BY <4>1, <2>3, <1>1 DEF LastSet
      <3>3. LastSet(k - 1)'
        BY <3>1, <3>2, <2>3, <1>2 DEF LastSet, SameAsShown
      <3> QED
        BY <3>1, <3>3
    <2>4. CASE NoSet /\ HostFollows
      <3>1. NoSet'
        BY <2>4, <1>1 DEF NoSet
      <3>2. c.call # "set" /\ c.call # "otp" /\ auth = shown
        BY <2>4, <1>1 DEF NoSet, HostFollows, Orders, Ways
      <3>3. HostFollows'
        BY <3>2, <1>2, <1>3 DEF HostFollows
      <3> QED
        BY <3>1, <3>3
    <2> QED
      BY <2>1, <2>2, <2>3, <2>4
  <1>5. NamesFresh' /\ CodeTold' /\ CredTypes'
    BY <1>2, <1>3 DEF MirrorInv, NamesFresh, EventsFresh, ControlFresh, RotatedFresh, Unseen, Minting,
                      Rotates, CodeTold, CredTypes
  <1> QED
    BY <1>4, <1>5 DEF MirrorInv

\* A new id is one that nobody has seen.
LEMMA NewIsUnseen ==
  ASSUME IInv, MirrorInv
  PROVE  /\ minted \in Nat
         /\ \A k \in 1..Len(events) : events[k].id \in Nat /\ events[k].id < minted + 1
         /\ shown.id < minted + 1
         /\ Minting => job["control"].id < minted + 1
         /\ \A c \in Clients : Rotates(c) => client[c].id < minted + 1
  <1>1. minted \in Nat /\ shown.id \in Nat /\ job["control"].id \in Nat
    BY DEF IInv, PageTypes, HostTypes, Jobs, Threads
  <1>2. ASSUME NEW k \in 1..Len(events) PROVE events[k].id \in Nat
    <2>1. events[k] \in Notices
      BY DEF IInv, PageTypes
    <2> QED
      BY <2>1 DEF Notices
  <1>3. \A c \in Clients : client[c].id \in Nat
    BY DEF IInv, HostTypes, Relayed
  <1> QED
    BY <1>1, <1>2, <1>3 DEF MirrorInv, NamesFresh, EventsFresh, ControlFresh, RotatedFresh, Unseen

\* `session new` mints an id and a code, which the page has yet to be told.
LEMMA SessionNewMirror ==
  ASSUME IInv, MirrorInv, SessionNew
  PROVE  MirrorInv'
  <1>1. /\ minted' = minted + 1 /\ job["control"].at = "idle"
        /\ job'["control"].at = "set" /\ job'["control"].id = minted + 1
        /\ job'["main"] = job["main"]
    BY DEF SessionNew, IInv, HostTypes, Threads
  <1>2. UNCHANGED <<auth, shown, calls, events, client, click>>
    BY DEF SessionNew
  <1>3. Minting' /\ Owed' /\ ~Minting
    BY <1>1 DEF Minting, Owed
  <1>4. ASSUME NEW i \in Nat, i <= minted PROVE i <= minted'
    BY <1>1, <1>4, NewIsUnseen
  <1>5. shown.id \in Nat /\ \A c \in Clients : client[c].id \in Nat
    BY DEF IInv, PageTypes, HostTypes, Relayed
  <1>6. EventsFresh'
    BY <1>2, <1>4, NewIsUnseen DEF MirrorInv, NamesFresh, EventsFresh
  <1>7. ControlFresh'
    <2>1. \A i : i = minted + 1 => Unseen(i)'
      BY <1>1, <1>2, NewIsUnseen DEF Unseen
    <2> QED
      BY <2>1, <1>1 DEF ControlFresh, Unseen
  <1>8. RotatedFresh'
    <2> SUFFICES ASSUME NEW c \in Clients, Rotates(c)'
                 PROVE  /\ Unseen(client[c].id)' /\ client'[c].id # job'["control"].id
                        /\ \A d \in Clients : Rotates(d)' /\ d # c => client'[d].id # client'[c].id
      BY DEF RotatedFresh
    <2>1. /\ Unseen(client[c].id) /\ client[c].id < minted + 1
          /\ \A d \in Clients : Rotates(d) /\ d # c => client[d].id # client[c].id
      BY <1>2, NewIsUnseen DEF MirrorInv, NamesFresh, RotatedFresh, Rotates
    <2> QED
      BY <2>1, <1>1, <1>2, <1>4, <1>5 DEF Unseen, Rotates
  <1>9. NamesFresh'
    BY <1>2, <1>4, <1>5, <1>6, <1>7, <1>8 DEF MirrorInv, NamesFresh
  <1> QED
    BY <1>2, <1>3, <1>9 DEF MirrorInv, Mirrored, CodeTold, CredTypes

\* A thread writes one of the two credentials.
LEMMA SetMirror ==
  ASSUME IInv, MirrorInv, NEW t \in Threads, SetId(t) \/ SetOtp(t)
  PROVE  MirrorInv'
  <1>1. UNCHANGED <<shown, calls, events, client, minted, click>>
    BY DEF SetId, SetOtp
  <1>2. /\ \A u \in Threads \ {t} : job'[u] = job[u]
        /\ SetId(t) => job'[t] = [job[t] EXCEPT !.at = "otp"]
        /\ SetOtp(t) /\ t = "control" => job'[t] = [job[t] EXCEPT !.at = "check"]
        /\ SetOtp(t) /\ t = "main" => job'[t] = Idle
    BY DEF SetId, SetOtp, At, IInv, HostTypes, Threads
  <1>3. auth \in [id : Nat, otp : Nat] /\ job[t] \in Jobs
    BY DEF MirrorInv, CredTypes, IInv, HostTypes
  <1>4. /\ (Minting' <=> Minting)
        /\ job'["control"].id = job["control"].id /\ job'["control"].otp = job["control"].otp
    <2>1. CASE t = "main"
      BY <2>1, <1>2 DEF Minting, Threads
    <2>2. CASE t = "control"
      <3>1. Minting /\ Minting'
        BY <2>2, <1>2, <1>3 DEF Minting, SetId, SetOtp, Jobs
      <3> QED
        BY <3>1, <2>2, <1>2, <1>3 DEF Jobs
    <2> QED
      BY <2>1, <2>2 DEF Threads
  <1>5. CredTypes'
    <2>1. auth' \in [id : Nat, otp : Nat]
      BY <1>3 DEF SetId, SetOtp, Jobs
    <2> QED
      BY <2>1, <1>1 DEF MirrorInv, CredTypes
  <1>6. Mirrored'
    <2> SUFFICES ASSUME ~Owed'
                 PROVE  (\E k \in 1..Len(calls') : LastSet(k)') \/ (NoSet' /\ HostFollows')
      BY DEF Mirrored
    <2>1. ~Owed /\ ~Minting
      BY <1>1, <1>4 DEF Owed, Rotates
    <2>2. t = "main"
      BY <2>1 DEF Minting, SetId, SetOtp, Threads
    <2>3. (\E k \in 1..Len(calls) : LastSet(k)) \/ (NoSet /\ HostFollows)
      BY <2>1 DEF MirrorInv, Mirrored
    <2>4. ASSUME HostFollows PROVE HostFollows'
      <3>1. CASE SetId(t)
        <4>1. SameAsShown(job["main"]) /\ auth' = [auth EXCEPT !.id = job["main"].id]
          BY <2>2, <2>4, <3>1 DEF HostFollows, SetId
        <4>2. /\ job'["main"].at = "otp" /\ job'["main"].otp = job["main"].otp
              /\ auth'.id = job["main"].id
          BY <2>2, <3>1, <4>1, <1>2, <1>3 DEF Jobs
        <4> QED
          BY <4>1, <4>2, <1>1 DEF HostFollows, SameAsShown
      <3>2. CASE SetOtp(t)
        <4>1. /\ job["main"].otp = shown.otp /\ auth.id = shown.id
              /\ auth' = [auth EXCEPT !.otp = job["main"].otp]
          BY <2>2, <2>4, <3>2 DEF HostFollows, SetOtp
        <4>2. auth'.id = shown.id /\ auth'.otp = shown.otp /\ auth' \in [id : Nat, otp : Nat]
          BY <4>1, <1>3, <1>5 DEF CredTypes
        <4>3. auth' = shown
          BY <4>2 DEF IInv, PageTypes
        <4>4. job'["main"].at = "idle"
          BY <2>2, <3>2, <1>2 DEF Idle
        <4> QED
          BY <4>3, <4>4, <1>1 DEF HostFollows
      <3> QED
        BY <3>1, <3>2
    <2> QED
      BY <2>3, <2>4, <1>1 DEF LastSet, NoSet, SameAsShown
  <1>7. NamesFresh' /\ CodeTold'
    BY <1>1, <1>4 DEF MirrorInv, NamesFresh, EventsFresh, ControlFresh, RotatedFresh, Unseen, Rotates,
                      CodeTold
  <1> QED
    BY <1>5, <1>6, <1>7 DEF MirrorInv

\* An event with an id that was on its way.
LEMMA EventMirror ==
  ASSUME IInv, MirrorInv, NEW e \in Notices, events' = Append(events, e), Unseen(e.id),
         UNCHANGED <<shown, minted>>
  PROVE  /\ Owed' /\ EventsFresh' /\ shown'.id <= minted'
         /\ Len(events') = Len(events) + 1 /\ events'[Len(events) + 1] = e /\ Len(events) \in Nat
         /\ \A k \in 1..Len(events) : events'[k] = events[k]
         /\ \A i : Unseen(i) /\ i # e.id => Unseen(i)'
  <1>1. /\ Len(events') = Len(events) + 1 /\ events'[Len(events) + 1] = e /\ Len(events) \in Nat
        /\ \A k \in 1..Len(events) : events'[k] = events[k]
    BY DEF IInv, PageTypes
  <1>2. \A k \in 1..Len(events') : k \in 1..Len(events) \/ k = Len(events) + 1
    BY <1>1
  <1>3. events' # <<>>
    BY <1>1
  <1>4. EventsFresh'
    <2> SUFFICES ASSUME NEW k \in 1..Len(events')
                 PROVE  /\ events'[k].id # shown'.id /\ events'[k].id <= minted'
                        /\ \A l \in 1..Len(events') : l # k => events'[l].id # events'[k].id
      BY DEF EventsFresh
    <2>1. CASE k = Len(events) + 1
      BY <2>1, <1>1, <1>2 DEF Unseen
    <2>2. CASE k \in 1..Len(events)
      BY <2>2, <1>1, <1>2 DEF Unseen, MirrorInv, NamesFresh, EventsFresh
    <2> QED
      BY <2>1, <2>2, <1>2
  <1>5. \A i : Unseen(i) /\ i # e.id => Unseen(i)'
    BY <1>1, <1>2 DEF Unseen
  <1> QED
    BY <1>1, <1>3, <1>4, <1>5 DEF Owed, MirrorInv, NamesFresh

\* The page is told the id and the code of `session new`.
LEMMA TellMirror ==
  ASSUME IInv, MirrorInv, Tell
  PROVE  MirrorInv'
  <1> DEFINE e == [id |-> job["control"].id, otp |-> job["control"].otp]
  <1>1. e \in Notices /\ events' = Append(events, e)
    BY DEF Tell, TellNew, IInv, HostTypes, Jobs, Threads, Notices
  <1>2. /\ job["control"].at = "tell" /\ job'["control"].at = "idle"
        /\ job'["control"].otp = job["control"].otp
    BY DEF Tell, At, IInv, HostTypes, Jobs, Threads
  <1>3. UNCHANGED <<auth, shown, calls, client, minted, click>>
    BY DEF Tell
  <1>4. Unseen(e.id) /\ Minting /\ ~Minting'
    BY <1>2 DEF MirrorInv, NamesFresh, ControlFresh, Minting
  <1>5. /\ Owed' /\ EventsFresh' /\ shown'.id <= minted'
        /\ Len(events') = Len(events) + 1 /\ events'[Len(events) + 1] = e /\ Len(events) \in Nat
        /\ \A i : Unseen(i) /\ i # e.id => Unseen(i)'
    BY <1>1, <1>3, <1>4, EventMirror
  <1>6. RotatedFresh'
    BY <1>3, <1>4, <1>5 DEF MirrorInv, NamesFresh, RotatedFresh, Rotates
  <1>7. CodeTold'
    <2>1. Len(events) + 1 \in 0..Len(events') /\ Len(events) + 1 # 0
      BY <1>5
    <2>2. \A l \in 1..Len(events') : ~(l > Len(events) + 1)
      BY <1>5
    <2>3. events'[Len(events) + 1].otp = job'["control"].otp
      BY <1>2, <1>5
    <2> QED
      BY <2>1, <2>2, <2>3 DEF CodeTold
  <1>8. NamesFresh'
    BY <1>4, <1>5, <1>6 DEF NamesFresh, ControlFresh
  <1> QED
    BY <1>3, <1>5, <1>7, <1>8 DEF MirrorInv, Mirrored, CredTypes

\* A client takes a new id, with which joins are let in at once, and the page will be told.
LEMMA RotateMirror ==
  ASSUME IInv, MirrorInv, NEW c \in Clients, Rotate(c)
  PROVE  MirrorInv'
  <1>1. /\ minted' = minted + 1 /\ client[c].link = "taken"
        /\ client'[c] = [link |-> "rotating", id |-> minted + 1]
        /\ \A d \in Clients \ {c} : client'[d] = client[d]
        /\ auth' = [auth EXCEPT !.id = minted + 1]
    BY DEF Rotate, IInv, HostTypes
  <1>2. UNCHANGED <<shown, calls, events, job, click>>
    BY DEF Rotate
  <1>3. Rotates(c)' /\ Owed' /\ \A d \in Clients \ {c} : Rotates(d)' <=> Rotates(d)
    BY <1>1 DEF Rotates, Owed
  <1>4. ASSUME NEW i \in Nat, i <= minted PROVE i <= minted'
    BY <1>1, <1>4, NewIsUnseen
  <1>5. /\ shown.id \in Nat /\ job["control"].id \in Nat
        /\ \A d \in Clients : client[d].id \in Nat
    BY DEF IInv, PageTypes, HostTypes, Relayed, Jobs, Threads
  <1>6. EventsFresh'
    BY <1>2, <1>4, NewIsUnseen DEF MirrorInv, NamesFresh, EventsFresh
  <1>7. ASSUME NEW i \in Nat, Unseen(i) PROVE Unseen(i)'
    BY <1>2, <1>4, <1>7 DEF Unseen
  <1>8. \A i : i = minted + 1 => Unseen(i)'
    BY <1>1, <1>2, NewIsUnseen DEF Unseen
  <1>9. ControlFresh'
    BY <1>2, <1>5, <1>7 DEF MirrorInv, NamesFresh, ControlFresh, Minting
  <1>10. RotatedFresh'
    <2> SUFFICES ASSUME NEW d \in Clients, Rotates(d)'
                 PROVE  /\ Unseen(client[d].id)'
                        /\ Minting' => client'[d].id # job'["control"].id
                        /\ \A f \in Clients : Rotates(f)' /\ f # d => client'[f].id # client'[d].id
      BY DEF RotatedFresh
    <2>1. CASE d = c
      <3>1. client'[d].id = minted + 1
        BY <2>1, <1>1
      <3>2. ASSUME NEW f \in Clients, Rotates(f)', f # d PROVE client'[f].id # client'[d].id
        <4>1. Rotates(f) /\ client'[f] = client[f]
          BY <3>2, <2>1, <1>1, <1>3
        <4> QED
          BY <4>1, <3>1, <1>5, NewIsUnseen
      <3> QED
        BY <3>1, <3>2, <1>2, <1>5, <1>8, NewIsUnseen DEF Minting, Unseen
    <2>2. CASE d # c
      <3>1. Rotates(d) /\ client'[d] = client[d]
        BY <2>2, <1>1, <1>3
      <3>2. /\ Unseen(client[d].id) /\ client[d].id < minted + 1
            /\ Minting => client[d].id # job["control"].id
            /\ \A f \in Clients : Rotates(f) /\ f # d => client[f].id # client[d].id
        BY <3>1, NewIsUnseen DEF MirrorInv, NamesFresh, RotatedFresh
      <3>3. ASSUME NEW f \in Clients, Rotates(f)', f # d PROVE client'[f].id # client'[d].id
        <4>1. CASE f = c
          BY <4>1, <3>1, <3>2, <1>1, <1>5, NewIsUnseen
        <4>2. CASE f # c
          BY <4>2, <3>3, <3>1, <3>2, <1>1, <1>3
        <4> QED
          BY <4>1, <4>2
      <3>4. Unseen(client[d].id)'
        BY <3>1, <3>2, <1>2, <1>4, <1>5 DEF Unseen
      <3> QED
        BY <3>1, <3>2, <3>3, <3>4, <1>2 DEF Minting
    <2> QED
      BY <2>1, <2>2
  <1>11. CredTypes' /\ CodeTold' /\ Mirrored'
    <2>1. auth' \in [id : Nat, otp : Nat]
      BY <1>1, NewIsUnseen DEF MirrorInv, CredTypes
    <2> QED
      BY <2>1, <1>2, <1>3 DEF MirrorInv, CredTypes, CodeTold, Minting, Mirrored
  <1>12. shown'.id <= minted'
    BY <1>2, <1>4, <1>5 DEF MirrorInv, NamesFresh
  <1> QED
    BY <1>6, <1>9, <1>10, <1>11, <1>12 DEF MirrorInv, NamesFresh

\* The page is told that id.
LEMMA RotateTellMirror ==
  ASSUME IInv, MirrorInv, NEW c \in Clients, RotateTell(c)
  PROVE  MirrorInv'
  <1> DEFINE e == [id |-> client[c].id, otp |-> None]
  <1>1. e \in Notices /\ events' = Append(events, e)
    BY DEF RotateTell, Told, IInv, HostTypes, Relayed, Notices
  <1>2. /\ client[c].link = "rotating" /\ client'[c].link = "resting"
        /\ \A d \in Clients \ {c} : client'[d] = client[d]
    BY DEF RotateTell, Link, IInv, HostTypes, Relayed
  <1>3. UNCHANGED <<auth, shown, calls, job, minted, click>>
    BY DEF RotateTell
  <1>4. Unseen(e.id) /\ (Minting => e.id # job["control"].id)
    BY <1>2 DEF MirrorInv, NamesFresh, RotatedFresh, Rotates
  <1>5. /\ Owed' /\ EventsFresh' /\ shown'.id <= minted'
        /\ Len(events') = Len(events) + 1 /\ events'[Len(events) + 1] = e /\ Len(events) \in Nat
        /\ \A k \in 1..Len(events) : events'[k] = events[k]
        /\ \A i : Unseen(i) /\ i # e.id => Unseen(i)'
    BY <1>1, <1>3, <1>4, EventMirror
  <1>6. ControlFresh'
    BY <1>3, <1>4, <1>5 DEF MirrorInv, NamesFresh, ControlFresh, Minting
  <1>7. RotatedFresh'
    BY <1>2, <1>3, <1>5 DEF MirrorInv, NamesFresh, RotatedFresh, Rotates, Minting
  <1>8. CodeTold'
    <2> SUFFICES ASSUME ~Minting'
                 PROVE  \E k \in 0..Len(events') :
                          /\ IF k = 0 THEN shown'.otp = job'["control"].otp
                                      ELSE events'[k].otp = job'["control"].otp
                          /\ \A l \in 1..Len(events') : l > k => events'[l].otp = None
      BY DEF CodeTold
    <2>1. PICK k \in 0..Len(events) :
            /\ IF k = 0 THEN shown.otp = job["control"].otp ELSE events[k].otp = job["control"].otp
            /\ \A l \in 1..Len(events) : l > k => events[l].otp = None
      BY <1>3 DEF MirrorInv, CodeTold, Minting
    <2>2. ASSUME NEW l \in 1..Len(events'), l > k PROVE events'[l].otp = None
      <3>1. l \in 1..Len(events) \/ l = Len(events) + 1
        BY <1>5
      <3> QED
        BY <3>1, <2>1, <2>2, <1>5
    <2>3. k \in 0..Len(events') /\ (k # 0 => events'[k] = events[k])
      BY <1>5
    <2> QED
      BY <2>1, <2>2, <2>3, <1>3
  <1> QED
    BY <1>3, <1>5, <1>6, <1>7, <1>8 DEF MirrorInv, NamesFresh, Mirrored, CredTypes

\* Every step keeps the mirror.
LEMMA MirrorStep == IInv /\ MirrorInv /\ [Next]_vars => MirrorInv'
  <1> SUFFICES ASSUME IInv, MirrorInv, [Next]_vars PROVE MirrorInv'
    OBVIOUS
  <1>1. CASE Click \/ Unsaved
    BY <1>1, MirrorStays DEF Click, Unsaved, MirrorInv, Rotates
  <1>2. CASE Saved
    BY <1>2, SavedMirror
  <1>3. CASE Follow
    BY <1>3, FollowMirror
  <1>4. CASE Take
    BY <1>4, TakeMirror
  <1>5. CASE SessionNew
    BY <1>5, SessionNewMirror
  <1>6. CASE \E t \in Threads : SetId(t) \/ SetOtp(t)
    BY <1>6, SetMirror
  <1>7. CASE Tell
    BY <1>7, TellMirror
  <1>8. CASE Check
    <2>1. /\ UNCHANGED <<auth, shown, calls, events, minted, click, client>>
          /\ job["control"].at = "check"
          /\ job'["control"].at \in {"register", "tell"} /\ job'["main"] = job["main"]
          /\ job'["control"].id = job["control"].id /\ job'["control"].otp = job["control"].otp
      BY <1>8 DEF Check, At, IInv, HostTypes, Jobs, Threads
    <2> QED
      BY <2>1, MirrorStays DEF MirrorInv, CredTypes, Rotates
  <1>9. ASSUME NEW t \in Threads, Spawn(t) PROVE MirrorInv'
    <2>1. PICK c \in Clients :
            /\ client[c].link = "none"
            /\ client' = [client EXCEPT ![c] = [link |-> "resting", id |-> job[t].id]]
            /\ job' = [job EXCEPT ![t].at = "swap", ![t].new = c]
      BY <1>9 DEF Spawn
    <2>2. UNCHANGED <<auth, shown, calls, events, minted, click>> /\ job[t].at = "register"
      BY <1>9 DEF Spawn
    <2>3. /\ job'[t].at = "swap" /\ job'[t].id = job[t].id /\ job'[t].otp = job[t].otp
          /\ \A u \in Threads \ {t} : job'[u] = job[u]
      BY <2>1 DEF IInv, HostTypes, Jobs
    <2>4. client'[c].link = "resting" /\ \A d \in Clients \ {c} : client'[d] = client[d]
      BY <2>1 DEF IInv, HostTypes
    <2>5. \A d \in Clients : (Rotates(d)' <=> Rotates(d)) /\ (Rotates(d) => client'[d].id = client[d].id)
      BY <2>1, <2>4 DEF Rotates
    <2>6. CASE t = "main"
      BY <2>2, <2>3, <2>5, <2>6, MirrorStays DEF Threads, MirrorInv, CredTypes
    <2>7. CASE t = "control"
      BY <2>2, <2>3, <2>5, <2>7, MirrorStays DEF Threads, MirrorInv, CredTypes
    <2> QED
      BY <2>6, <2>7 DEF Threads
  <1>10. ASSUME NEW t \in Threads, Swap(t) PROVE MirrorInv'
    <2>1. UNCHANGED <<auth, shown, calls, events, minted, click>> /\ job[t].at = "swap" /\ StopKept
      BY <1>10 DEF Swap
    <2>2. /\ \A u \in Threads \ {t} : job'[u] = job[u]
          /\ t = "main" => job'[t] = Idle
          /\ t = "control" => job'[t] = [job[t] EXCEPT !.at = "tell", !.new = None]
      BY <1>10 DEF Swap, IInv, HostTypes, Threads
    <2>3. \A d \in Clients : (Rotates(d)' <=> Rotates(d)) /\ (Rotates(d) => client'[d].id = client[d].id)
      BY <2>1, StopSpares DEF IInv, Rotates
    <2>4. CASE t = "main"
      BY <2>1, <2>2, <2>3, <2>4, MirrorStays DEF Threads, MirrorInv, CredTypes, Idle
    <2>5. CASE t = "control"
      <3>1. /\ job'[t].at = "tell" /\ job'[t].id = job[t].id /\ job'[t].otp = job[t].otp
        BY <2>2, <2>5 DEF IInv, HostTypes, Jobs
      <3> QED
        BY <2>1, <2>2, <2>3, <2>5, <3>1, MirrorStays DEF Threads, MirrorInv, CredTypes
    <2> QED
      BY <2>4, <2>5 DEF Threads
  <1>11. CASE Unregister
    <2>1. /\ UNCHANGED <<auth, shown, calls, events, minted, click>> /\ StopKept
          /\ job["main"].at = "unregister" /\ job'["main"].at = "idle"
          /\ job'["control"] = job["control"]
      BY <1>11 DEF Unregister, Idle, IInv, HostTypes, Threads
    <2>2. \A d \in Clients : (Rotates(d)' <=> Rotates(d)) /\ (Rotates(d) => client'[d].id = client[d].id)
      BY <2>1, StopSpares DEF IInv, Rotates
    <2> QED
      BY <2>1, <2>2, MirrorStays DEF MirrorInv, CredTypes
  <1>12. ASSUME NEW c \in Clients, Rotate(c) PROVE MirrorInv'
    BY <1>12, RotateMirror
  <1>13. ASSUME NEW c \in Clients, RotateTell(c) PROVE MirrorInv'
    BY <1>13, RotateTellMirror
  <1>14. ASSUME NEW c \in Clients,
                Contact(c) \/ Connect(c) \/ RelayAnswers(c) \/ Registered(c) \/ Fails(c) \/ Closes(c)
         PROVE  MirrorInv'
    <2>1. UNCHANGED <<auth, shown, calls, events, minted, click, job>>
      BY <1>14 DEF Contact, Connect, RelayAnswers, Registered, Fails, Closes
    <2>2. \A d \in Clients : (Rotates(d)' <=> Rotates(d)) /\ (Rotates(d) => client'[d].id = client[d].id)
      BY <1>14, LinkMoves DEF Rotates, IInv
    <2> QED
      BY <2>1, <2>2, MirrorStays DEF MirrorInv, CredTypes
  <1>15. CASE UNCHANGED vars \/ \E i \in Ids : RelayForgets(i)
    <2>1. UNCHANGED <<auth, shown, calls, events, minted, click, job, client>>
      BY <1>15 DEF vars, RelayForgets
    <2> QED
      BY <2>1, MirrorStays DEF MirrorInv, CredTypes, Rotates
  <1> QED
    BY <1>1, <1>2, <1>3, <1>4, <1>5, <1>6, <1>7, <1>8, <1>9, <1>10, <1>11, <1>12, <1>13, <1>14, <1>15
       DEF Next, MainStep, ControlStep, ThreadStep, ClientStep, Threads

\* At first the page and the host agree, and nothing is under way.
LEMMA InitMirror == Init => MirrorInv
  <1> SUFFICES ASSUME Init PROVE MirrorInv
    OBVIOUS
  <1>1. /\ auth = [id |-> 0, otp |-> 0] /\ shown = auth /\ click = None /\ events = <<>> /\ minted = 0
        /\ job = [t \in Threads |-> Idle] /\ client = [c \in Clients |-> [link |-> "none", id |-> 0]]
    BY DEF Init
  <1>2. job["main"] = Idle /\ job["control"] = Idle
    BY <1>1 DEF Threads
  <1>3. ~Minting /\ \A c \in Clients : ~Rotates(c)
    BY <1>1, <1>2 DEF Minting, Idle, Rotates
  <1>4. NoSet
    BY DEF Init, NoSet
  <1>5. HostFollows
    BY <1>1, <1>2 DEF HostFollows, Idle
  <1>6. NamesFresh
    BY <1>1, <1>3 DEF NamesFresh, EventsFresh, ControlFresh, RotatedFresh
  <1>7. CodeTold
    BY <1>1, <1>2 DEF CodeTold, Idle
  <1> QED
    BY <1>1, <1>4, <1>5, <1>6, <1>7 DEF MirrorInv, CredTypes, Mirrored

-----------------------------------------------------------------------------
(* The registration that nothing crossed, by what a step does to the       *)
(* clients, to the jobs and to the id that is coming.                      *)

\* A step that moves neither a client nor a registration, and brings no other id while the
\* clients are to ask for it.
LEMMA CrossStays ==
  ASSUME Uncrossed, UNCHANGED <<client, cloud, status, crossed>>,
         \A t \in Threads : Swaps(t)' <=> Swaps(t),
         \A t \in Threads : Swaps(t) => job'[t].new = job[t].new,
         job'["control"].at = "tell" => job["control"].at = "tell",
         job'["control"].at \in {"idle", "swap", "tell"} =>
           job["control"].at \in {"idle", "swap", "tell"} /\ Coming' = Coming
  PROVE  Uncrossed'
  <1> SUFFICES ASSUME ~crossed' PROVE NewestAlone' /\ AsksComing' /\ ReportsTrue'
    BY DEF Uncrossed
  <1>1. NewestAlone /\ AsksComing /\ ReportsTrue
    BY DEF Uncrossed
  <1>2. \A c \in Clients : (Latest(c)' <=> Latest(c)) /\ (Rotates(c)' <=> Rotates(c))
    BY DEF Latest, Brings, Swaps, Rotates
  <1>3. NewestAlone'
    BY <1>1, <1>2 DEF NewestAlone
  <1>4. AsksComing'
    BY <1>1, <1>2 DEF AsksComing
  <1>5. ReportsTrue'
    BY <1>1, <1>2 DEF ReportsTrue
  <1> QED
    BY <1>3, <1>4, <1>5

\* A connection moves: only the newest client reports, and it is held when it says so.
LEMMA LinkCross ==
  ASSUME IInv, Uncrossed, NEW c \in Clients,
         Contact(c) \/ Connect(c) \/ RelayAnswers(c) \/ Registered(c) \/ Fails(c) \/ Closes(c)
  PROVE  Uncrossed'
  <1> SUFFICES ASSUME ~crossed' PROVE NewestAlone' /\ AsksComing' /\ ReportsTrue'
    BY DEF Uncrossed
  <1>1. UNCHANGED <<job, cloud, events, shown>>
    BY DEF Contact, Connect, RelayAnswers, Registered, Fails, Closes
  <1>2. ~crossed /\ (status' = status \/ ~Late(c))
    <2>1. \/ crossed' = crossed /\ status' = status
          \/ crossed' = (crossed \/ Late(c))
      BY Zenon DEF Contact, Connect, RelayAnswers, Registered, Fails, Closes, Report
    <2>3. CASE crossed' = crossed /\ status' = status
      BY <2>3, Zenon
    <2>4. CASE crossed' = (crossed \/ Late(c))
      <3>1. ~(crossed \/ Late(c))
        BY <2>4, Zenon
      <3> QED
        BY <3>1, Zenon
    <2> QED
      BY <2>1, <2>3, <2>4, Zenon
  <1>3. NewestAlone /\ AsksComing /\ ReportsTrue
    BY <1>2 DEF Uncrossed
  <1>4. /\ Runs(c) /\ client[c].link # "rotating"
        /\ client'[c].link # "rotating" /\ client'[c].id = client[c].id
        /\ \A d \in Clients \ {c} : client'[d] = client[d]
    BY LinkMoves DEF IInv
  <1>5. \A d \in Clients : /\ Latest(d)' <=> Latest(d)
                           /\ Rotates(d)' <=> Rotates(d)
                           /\ client'[d].id = client[d].id
    BY <1>1, <1>4 DEF Latest, Brings, Swaps, Rotates
  <1>6. Coming' = Coming
    BY <1>1 DEF Coming
  <1>7. NewestAlone'
    BY <1>1, <1>3, <1>5 DEF NewestAlone, Swaps
  <1>8. AsksComing'
    BY <1>1, <1>3, <1>5, <1>6 DEF AsksComing
  <1>9. client'[c].link = "held" => status' = "registered"
    BY DEF Contact, Connect, RelayAnswers, Registered, Fails, Closes, ClosedByRelay, Report, Link, IInv,
           HostTypes, Relayed
  <1>10. ASSUME NEW d \in Clients, d # c, Latest(d) PROVE status' = status
    <2>1. CASE \E t \in Threads : Brings(t, d)
      BY <2>1, <1>2, <1>10 DEF Late, Brings
    <2>2. CASE d = cloud /\ \A t \in Threads : ~Swaps(t)
      <3>1. c = cloud
        BY <2>2, <1>4 DEF IInv, Custody, Accounted, Brings, Swaps
      <3> QED
        BY <3>1, <2>2, <1>10
    <2> QED
      BY <2>1, <2>2, <1>10 DEF Latest
  <1>11. ReportsTrue'
    BY <1>3, <1>4, <1>5, <1>9, <1>10 DEF ReportsTrue
  <1> QED
    BY <1>7, <1>8, <1>11

\* Only the client that is kept rotates while nothing is crossed, and the page will be told
\* of the id that it then asks for.
LEMMA RotateCross ==
  ASSUME IInv, Uncrossed, NEW c \in Clients, Rotate(c) \/ RotateTell(c)
  PROVE  Uncrossed'
  <1> SUFFICES ASSUME ~crossed' PROVE NewestAlone' /\ AsksComing' /\ ReportsTrue'
    BY DEF Uncrossed
  <1>1. UNCHANGED <<job, cloud>> /\ ~crossed
    <2>1. UNCHANGED <<job, cloud>>
      BY DEF Rotate, RotateTell
    <2>2. ~crossed
      BY Zenon DEF Rotate, RotateTell
    <2> QED
      BY <2>1, <2>2
  <1>2. NewestAlone /\ AsksComing /\ ReportsTrue
    BY <1>1 DEF Uncrossed
  <1>3. Runs(c)
    BY DEF Rotate, RotateTell, Runs
  <1>4. c = cloud /\ job["control"].at # "tell" /\ \A t \in Threads : ~Swaps(t)
    <2>1. CASE Rotate(c)
      <3>1. job["control"].at # "tell" /\ \A t \in Threads : ~Swaps(t)
        BY <2>1 DEF Rotate, Registering, Swaps, Threads
      <3> QED
        BY <3>1, <1>3 DEF IInv, Custody, Accounted, Brings, Swaps
    <2>2. CASE RotateTell(c)
      <3>1. Rotates(c)
        BY <2>2 DEF RotateTell, Rotates
      <3> QED
        BY <3>1, <1>2 DEF NewestAlone
    <2> QED
      BY <2>1, <2>2
  <1>5. \A d \in Clients : Latest(d)' => d = c
    BY <1>1, <1>4 DEF Latest, Brings, Swaps
  <1>6. \A d \in Clients \ {c} : client'[d] = client[d]
    BY DEF Rotate, RotateTell, Link, IInv, HostTypes
  <1>7. NewestAlone'
    BY <1>1, <1>2, <1>4, <1>6 DEF NewestAlone, Rotates, Swaps
  <1>8. client'[c].link # "held"
    BY DEF Rotate, RotateTell, Link, IInv, HostTypes, Relayed
  <1>9. ReportsTrue'
    BY <1>5, <1>8 DEF ReportsTrue
  <1>10. AsksComing'
    <2>1. CASE Rotate(c)
      <3>1. Rotates(c)'
        BY <2>1 DEF Rotate, Rotates, IInv, HostTypes
      <3> QED
        BY <3>1 DEF AsksComing
    <2>2. CASE RotateTell(c)
      <3> SUFFICES ASSUME job'["control"].at \in {"idle", "swap", "tell"}
                   PROVE  client'[c].id = Coming'
        BY <1>5 DEF AsksComing
      <3>1. job'["control"].at = "idle"
        BY <1>1, <1>4 DEF Swaps, Threads
      <3>2. client'[c].id = client[c].id /\ client[c].id \in Nat
        BY <2>2 DEF RotateTell, Link, IInv, HostTypes, Relayed
      <3>3. [id |-> client[c].id, otp |-> None] \in Notices
        BY <3>2 DEF Notices
      <3>4. events' = Append(events, [id |-> client[c].id, otp |-> None])
        BY <2>2 DEF RotateTell, Told
      <3>5. events' # <<>> /\ events'[Len(events')].id = client[c].id
        BY <3>3, <3>4 DEF IInv, PageTypes
      <3> QED
        BY <3>1, <3>2, <3>5 DEF Coming
    <2> QED
      BY <2>1, <2>2
  <1> QED
    BY <1>7, <1>9, <1>10

\* A registration starts: its client is the newest, and asks for the id that is coming.
LEMMA SpawnCross ==
  ASSUME IInv, NEW t \in Threads, Spawn(t)
  PROVE  Uncrossed'
  <1> SUFFICES ASSUME ~crossed' PROVE NewestAlone' /\ AsksComing' /\ ReportsTrue'
    BY DEF Uncrossed
  <1>1. PICK c \in Clients :
          /\ client[c].link = "none"
          /\ client' = [client EXCEPT ![c] = [link |-> "resting", id |-> job[t].id]]
          /\ job' = [job EXCEPT ![t].at = "swap", ![t].new = c]
    BY DEF Spawn
  <1>2. /\ job[t].at = "register" /\ UNCHANGED <<cloud, events, shown>>
        /\ job[t].id = Coming /\ \A d \in Clients : client[d].link # "rotating"
        /\ \A u \in Threads \ {t} : job[u].at # "swap"
    BY DEF Spawn
  <1>3. /\ job'[t].at = "swap" /\ job'[t].new = c /\ job'[t].id = job[t].id
        /\ \A u \in Threads \ {t} : job'[u] = job[u]
    BY <1>1 DEF IInv, HostTypes, Jobs
  <1>4. /\ client'[c].link = "resting" /\ client'[c].id = job[t].id
        /\ \A d \in Clients \ {c} : client'[d] = client[d]
    BY <1>1 DEF IInv, HostTypes
  <1>5. (\A u \in Threads : Swaps(u)' <=> u = t) /\ \A d \in Clients : ~Rotates(d)'
    BY <1>2, <1>3, <1>4 DEF Swaps, Rotates
  <1>6. \A d \in Clients : Latest(d)' => d = c
    BY <1>3, <1>5 DEF Latest, Brings, Swaps
  <1>7. Coming' = Coming
    BY <1>2, <1>3 DEF Coming, Threads
  <1>8. NewestAlone'
    BY <1>5 DEF NewestAlone
  <1>9. AsksComing'
    BY <1>2, <1>4, <1>6, <1>7 DEF AsksComing
  <1>10. ReportsTrue'
    BY <1>4, <1>6 DEF ReportsTrue
  <1> QED
    BY <1>8, <1>9, <1>10

\* A registration ends: the newest client is the one that is kept.
LEMMA SwapCross ==
  ASSUME IInv, Uncrossed, NEW t \in Threads, Swap(t)
  PROVE  Uncrossed'
  <1> SUFFICES ASSUME ~crossed' PROVE NewestAlone' /\ AsksComing' /\ ReportsTrue'
    BY DEF Uncrossed
  <1>1. /\ Swaps(t) /\ StopKept /\ cloud' = job[t].new
        /\ UNCHANGED <<events, shown, status, crossed>>
    BY DEF Swap, Swaps
  <1>2. NewestAlone /\ AsksComing /\ ReportsTrue
    BY <1>1 DEF Uncrossed
  <1>3. /\ \A u \in Threads \ {t} : job'[u] = job[u]
        /\ t = "main" => job'[t] = Idle
        /\ t = "control" => job'[t] = [job[t] EXCEPT !.at = "tell", !.new = None]
    BY DEF Swap, IInv, HostTypes, Threads
  <1>4. /\ t = "control" => job'[t].at = "tell" /\ job'[t].id = job[t].id
        /\ t = "main" => job'[t].at = "idle"
    <2>1. job[t] \in Jobs
      BY DEF IInv, HostTypes
    <2>2. /\ [job[t] EXCEPT !.at = "tell", !.new = None].at = "tell"
          /\ [job[t] EXCEPT !.at = "tell", !.new = None].id = job[t].id
          /\ Idle.at = "idle"
      BY <2>1 DEF Jobs, Idle
    <2> QED
      BY <1>3, <2>2
  <1>5. \A u \in Threads : ~Swaps(u)'
    BY <1>1, <1>2, <1>3, <1>4 DEF NewestAlone, Swaps, Threads
  <1>6. \A d \in Clients : ~Rotates(d) /\ ~Rotates(d)'
    BY <1>1, <1>2, StopSpares DEF NewestAlone, Rotates, IInv
  <1>7. ASSUME NEW d \in Clients, Latest(d)'
        PROVE  Latest(d) /\ client'[d] = client[d]
    <2>1. d = job[t].new
      BY <1>1, <1>5, <1>7 DEF Latest, Brings, Swaps
    <2>2. Latest(d)
      BY <2>1, <1>1 DEF Latest, Brings, Swaps
    <2>3. d # cloud
      BY <2>1, <1>1 DEF IInv, Custody, NewIsNew, Swaps
    <2> QED
      BY <2>2, <2>3, <1>1, StopSpares DEF IInv
  <1>8. Coming' = Coming /\ (job["control"].at \in {"idle", "swap", "tell"}
                               <=> job'["control"].at \in {"idle", "swap", "tell"})
    <2>1. CASE t = "main"
      BY <2>1, <1>1, <1>3 DEF Coming, Threads
    <2>2. CASE t = "control"
      BY <2>2, <1>1, <1>4 DEF Coming, Swaps
    <2> QED
      BY <2>1, <2>2 DEF Threads
  <1>9. NewestAlone'
    BY <1>5, <1>6 DEF NewestAlone
  <1>10. AsksComing'
    BY <1>2, <1>6, <1>7, <1>8 DEF AsksComing
  <1>11. ReportsTrue'
    BY <1>1, <1>2, <1>7 DEF ReportsTrue
  <1> QED
    BY <1>9, <1>10, <1>11

\* The control thread finds no client to replace, and the end of public sessions leaves none.
LEMMA NoneCross ==
  ASSUME IInv, Uncrossed, Check \/ Unregister
  PROVE  Uncrossed'
  <1> SUFFICES ASSUME ~crossed' PROVE NewestAlone' /\ AsksComing' /\ ReportsTrue'
    BY DEF Uncrossed
  <1>1. CASE Check
    <2>1. /\ job["control"].at = "check" /\ ~crossed /\ UNCHANGED <<client, cloud, status>>
          /\ ~Registering("main")
          /\ job' = [job EXCEPT !["control"].at = IF cloud # None THEN "register" ELSE "tell"]
      BY <1>1 DEF Check, At
    <2>2. /\ job'["control"].at = IF cloud # None THEN "register" ELSE "tell"
          /\ job'["main"] = job["main"]
      BY <2>1 DEF IInv, HostTypes, Jobs, Threads
    <2>3. \A t \in Threads : ~Swaps(t) /\ ~Swaps(t)'
      BY <2>1, <2>2 DEF Swaps, Registering, Threads
    <2>4. NewestAlone /\ ReportsTrue
      BY <2>1 DEF Uncrossed
    <2>5. \A d \in Clients : Latest(d)' => d = cloud /\ Latest(d)
      BY <2>1, <2>3 DEF Latest, Brings, Swaps
    <2>6. NewestAlone'
      BY <2>1, <2>2, <2>3, <2>4, NoneIsNoClient DEF NewestAlone, Rotates
    <2>7. AsksComing'
      BY <2>2, <2>5, NoneIsNoClient DEF AsksComing
    <2>8. ReportsTrue'
      BY <2>1, <2>4, <2>5 DEF ReportsTrue
    <2> QED
      BY <2>6, <2>7, <2>8
  <1>2. CASE Unregister
    <2>1. /\ job["main"].at = "unregister" /\ ~crossed /\ cloud' = None /\ StopKept
          /\ ~Registering("control") /\ job' = [job EXCEPT !["main"] = Idle]
      BY <1>2 DEF Unregister
    <2>2. job'["main"].at = "idle" /\ job'["control"] = job["control"]
      BY <2>1 DEF IInv, HostTypes, Threads, Idle
    <2>3. \A t \in Threads : ~Swaps(t)'
      BY <2>1, <2>2 DEF Swaps, Registering, Threads
    <2>4. NewestAlone
      BY <2>1 DEF Uncrossed
    <2>5. \A d \in Clients : ~Rotates(d)'
      BY <2>1, <2>4, StopSpares DEF NewestAlone, Rotates, IInv
    <2>6. \A d \in Clients : ~Latest(d)'
      BY <2>1, <2>3, NoneIsNoClient DEF Latest, Brings, Swaps
    <2> QED
      BY <2>3, <2>5, <2>6 DEF NewestAlone, AsksComing, ReportsTrue
  <1> QED
    BY <1>1, <1>2

\* Every step keeps it.
LEMMA CrossStep == IInv /\ Uncrossed /\ [Next]_vars => Uncrossed'
  <1> SUFFICES ASSUME IInv, Uncrossed, [Next]_vars PROVE Uncrossed'
    OBVIOUS
  <1>1. CASE Click \/ Saved \/ Unsaved \/ UNCHANGED vars \/ \E i \in Ids : RelayForgets(i)
    <2>1. UNCHANGED <<job, client, cloud, status, crossed, shown, events>>
      BY <1>1 DEF Click, Saved, Unsaved, RelayForgets, vars
    <2>2. Coming' = Coming
      BY <2>1 DEF Coming
    <2> QED
      BY <2>1, <2>2, CrossStays DEF Swaps
  <1>2. CASE Follow
    <2>1. UNCHANGED <<job, client, cloud, status, crossed>>
      BY <1>2 DEF Follow
    <2>2. Coming' = Coming
      <3>1. events \in Seq(Notices) /\ events # <<>> /\ events' = Tail(events)
        BY <1>2 DEF Follow, IInv, PageTypes
      <3>2. shown'.id = Head(events).id
        BY <1>2 DEF Follow
      <3>3. /\ events' # <<>> => events'[Len(events')] = events[Len(events)]
            /\ events' = <<>> => Head(events) = events[Len(events)]
        <4>1. /\ Len(events) \in Nat /\ Len(events') = Len(events) - 1 /\ Head(events) = events[1]
              /\ events' \in Seq(Notices)
              /\ \A k \in 1..Len(events') : events'[k] = events[k + 1]
          BY <3>1
        <4>2. events' # <<>> => Len(events') \in 1..Len(events') /\ Len(events') + 1 = Len(events)
          BY <4>1
        <4>3. events' = <<>> => Len(events') = 0
          BY <4>1
        <4> QED
          BY <4>1, <4>2, <4>3
      <3> QED
        BY <2>1, <3>1, <3>2, <3>3 DEF Coming
    <2> QED
      BY <2>1, <2>2, CrossStays DEF Swaps
  <1>3. CASE Take
    <2>1. UNCHANGED <<client, cloud, status, crossed, shown, events>> /\ job["main"].at = "idle"
      BY <1>3 DEF Take
    <2>2. Head(calls) \in Orders
      BY <1>3 DEF Take, IInv, PageTypes
    <2>3. job'["main"].at \in Ways /\ job'["control"] = job["control"]
      BY <1>3, <2>2 DEF Take, Orders, IInv, HostTypes, Threads
    <2>4. Coming' = Coming /\ \A t \in Threads : (Swaps(t)' <=> Swaps(t)) /\ (Swaps(t) => job'[t] = job[t])
      BY <2>1, <2>3 DEF Coming, Swaps, Ways, Threads
    <2> QED
      BY <2>1, <2>3, <2>4, CrossStays
  <1>4. CASE SessionNew
    <2>1. UNCHANGED <<client, cloud, status, crossed>> /\ job["control"].at = "idle"
      BY <1>4 DEF SessionNew
    <2>2. job'["control"].at = "set" /\ job'["main"] = job["main"]
      BY <1>4 DEF SessionNew, IInv, HostTypes, Threads
    <2>3. \A t \in Threads : (Swaps(t)' <=> Swaps(t)) /\ (Swaps(t) => job'[t] = job[t])
      BY <2>1, <2>2 DEF Swaps, Threads
    <2> QED
      BY <2>1, <2>2, <2>3, CrossStays
  <1>5. ASSUME NEW t \in Threads, SetId(t) \/ SetOtp(t) PROVE Uncrossed'
    <2>1. /\ UNCHANGED <<client, cloud, status, crossed, shown, events>>
          /\ job[t].at \in {"set", "otp"}
      BY <1>5 DEF SetId, SetOtp
    <2>2. /\ \A u \in Threads \ {t} : job'[u] = job[u]
          /\ t = "control" => job'[t].at \in {"otp", "check"}
          /\ t = "main" => job'[t].at \in {"otp", "idle"}
      BY <1>5 DEF SetId, SetOtp, At, IInv, HostTypes, Jobs, Threads, Idle
    <2>3. \A u \in Threads : (Swaps(u)' <=> Swaps(u)) /\ (Swaps(u) => job'[u] = job[u])
      BY <2>1, <2>2 DEF Swaps, Threads
    <2>4. CASE t = "main"
      <3>1. job'["control"] = job["control"] /\ Coming' = Coming
        BY <2>1, <2>2, <2>4 DEF Coming, Threads
      <3> QED
        BY <2>1, <2>3, <3>1, CrossStays
    <2>5. CASE t = "control"
      BY <2>1, <2>2, <2>3, <2>5, CrossStays
    <2> QED
      BY <2>4, <2>5 DEF Threads
  <1>6. CASE Tell
    <2>1. /\ UNCHANGED <<client, cloud, status, crossed, shown>> /\ job["control"].at = "tell"
          /\ events' = Append(events, [id |-> job["control"].id, otp |-> job["control"].otp])
      BY <1>6 DEF Tell, TellNew
    <2>2. job'["control"].at = "idle" /\ job'["main"] = job["main"]
      BY <1>6 DEF Tell, At, IInv, HostTypes, Jobs, Threads
    <2>3. [id |-> job["control"].id, otp |-> job["control"].otp] \in Notices
      BY DEF IInv, HostTypes, Jobs, Threads, Notices
    <2>4. events' # <<>> /\ events'[Len(events')].id = job["control"].id
      BY <2>1, <2>3 DEF IInv, PageTypes
    <2>5. Coming' = Coming
      BY <2>1, <2>2, <2>4 DEF Coming
    <2>6. \A t \in Threads : (Swaps(t)' <=> Swaps(t)) /\ (Swaps(t) => job'[t] = job[t])
      BY <2>1, <2>2 DEF Swaps, Threads
    <2> QED
      BY <2>1, <2>2, <2>5, <2>6, CrossStays
  <1>7. CASE Check \/ Unregister
    BY <1>7, NoneCross
  <1>8. ASSUME NEW t \in Threads, Spawn(t) PROVE Uncrossed'
    BY <1>8, SpawnCross
  <1>9. ASSUME NEW t \in Threads, Swap(t) PROVE Uncrossed'
    BY <1>9, SwapCross
  <1>10. ASSUME NEW c \in Clients, Rotate(c) \/ RotateTell(c) PROVE Uncrossed'
    BY <1>10, RotateCross
  <1>11. ASSUME NEW c \in Clients,
                Contact(c) \/ Connect(c) \/ RelayAnswers(c) \/ Registered(c) \/ Fails(c) \/ Closes(c)
         PROVE  Uncrossed'
    BY <1>11, LinkCross
  <1> QED
    BY <1>1, <1>2, <1>3, <1>4, <1>5, <1>6, <1>7, <1>8, <1>9, <1>10, <1>11
       DEF Next, MainStep, ControlStep, ThreadStep, ClientStep, Threads

\* Nothing is kept at first.
LEMMA InitCross == Init => Uncrossed
  <1> SUFFICES ASSUME Init PROVE NewestAlone /\ AsksComing /\ ReportsTrue
    BY DEF Uncrossed
  <1>1. /\ cloud = None /\ (\A t \in Threads : ~Swaps(t)) /\ \A c \in Clients : ~Rotates(c)
    BY DEF Init, Swaps, Rotates, Idle
  <1>2. \A c \in Clients : ~Latest(c)
    BY <1>1, NoneIsNoClient DEF Latest, Brings, Swaps
  <1> QED
    BY <1>1, <1>2 DEF NewestAlone, AsksComing, ReportsTrue

-----------------------------------------------------------------------------
\* Whatever the page, the commands and the relay clients did, and in whatever order their
\* writes of the credentials crossed: when nothing is under way the page shows what a join
\* has to present, and the code is the last that `session new` has printed (cli.rs:1328-1332).
THEOREM MirrorHolds == Spec => []MirrorAgrees
  <1>1. MirrorInv => MirrorAgrees
    <2> SUFFICES ASSUME MirrorInv, AtRest PROVE auth = shown /\ auth.otp = job["control"].otp
      BY DEF MirrorAgrees
    <2>1. /\ calls = <<>> /\ events = <<>> /\ job["main"].at = "idle" /\ job["control"].at = "idle"
          /\ \A c \in Clients : client[c].link # "rotating"
      BY DEF AtRest, Threads
    <2>2. ~Owed /\ ~Minting
      BY <2>1 DEF Owed, Minting, Rotates
    <2>3. HostFollows
      BY <2>1, <2>2 DEF MirrorInv, Mirrored
    <2>4. auth = shown
      BY <2>1, <2>3 DEF HostFollows
    <2>5. shown.otp = job["control"].otp
      BY <2>1, <2>2 DEF MirrorInv, CodeTold
    <2> QED
      BY <2>4, <2>5
  <1>2. IInv /\ MirrorInv /\ [Next]_vars => (IInv /\ MirrorInv)'
    BY StepHolds, MirrorStep
  <1> QED
    BY <1>1, <1>2, InitHolds, InitMirror, PTL DEF Spec

\* And the client that is kept asks the relay for that id, and is reported as registered
\* when it holds it, unless a rotation, a stale id or a second registration crossed the last
\* one (cli.rs:1329-1331, cloud.rs:338-342).
THEOREM RegistrationHolds == Spec => []ShownIsRegistered
  <1>1. IInv /\ Uncrossed => ShownIsRegistered
    <2> SUFFICES ASSUME IInv, Uncrossed, AtRest, ~crossed, cloud # None
                 PROVE  /\ client[cloud].id = shown.id
                        /\ client[cloud].link = "held" => status = "registered"
      BY DEF ShownIsRegistered
    <2>1. /\ events = <<>> /\ job["control"].at = "idle"
          /\ (\A t \in Threads : ~Swaps(t)) /\ \A c \in Clients : ~Rotates(c)
      BY DEF AtRest, Threads, Swaps, Rotates
    <2>2. cloud \in Clients /\ Latest(cloud)
      BY <2>1 DEF IInv, HostTypes, Latest
    <2>3. Coming = shown.id
      BY <2>1 DEF Coming
    <2> QED
      BY <2>1, <2>2, <2>3 DEF Uncrossed, AsksComing, ReportsTrue
  <1>2. IInv /\ Uncrossed /\ [Next]_vars => (IInv /\ Uncrossed)'
    BY StepHolds, CrossStep
  <1> QED
    BY <1>1, <1>2, InitHolds, InitCross, PTL DEF Spec

-----------------------------------------------------------------------------
(* The input.  Every move carries its place among those sent, and the      *)
(* injector's mark is the number of one that is not before the cursor's.   *)

Moves == [kind : {"delta", "move"}, word : Input!Words, n : Nat, seq : Nat]

\* What the page holds.
Tabs == [button : Input!Words, keys : SUBSET Keys, mouseGate : BOOLEAN, absGate : BOOLEAN]

\* A frame that has been sent, with the number the page's counter had then.
Numbered(f) == f \in Moves /\ f.n \in 1..sent /\ f.seq = (first + f.n) % SeqSpace

AllNumbered ==
  /\ fast \in Seq(Moves)
  /\ \A f \in onFast : Numbered(f)
  /\ relief # None => Numbered(relief)
  /\ \A i \in 1..Len(fast) : Numbered(fast[i])

\* The cursor is no further than the frame the mark stands for.
Marked ==
  IF inj.highest = None THEN cursor = 0
  ELSE \E m \in 1..sent : inj.highest = (first + m) % SeqSpace /\ cursor <= m

InputTypes ==
  /\ first \in Nat /\ sent \in 0..MaxFrames /\ cursor \in Nat
  /\ tab \in Tabs
  /\ "highest" \in DOMAIN inj

InputInv == InputTypes /\ AllNumbered /\ Marked

\* What another turn adds, or takes away.
LEMMA Turns == ASSUME NEW s \in Nat \ {0}, NEW k \in Int
               PROVE  /\ k >= 2 => s * k >= 2 * s
                      /\ k <= -1 => s * k <= -s
BY SMT

\* How a number splits into turns and the rest.
LEMMA Turn == ASSUME NEW a \in Nat, NEW s \in Nat \ {0}
              PROVE  a % s \in 0..(s - 1) /\ a \div s \in Int /\ a = s * (a \div s) + (a % s)
BY SMT

\* A remainder within a turn of its modulus.
LEMMA Signed == ASSUME NEW s \in Nat \ {0}, NEW d \in (-(s - 1))..(s - 1)
                PROVE  d % s = IF d >= 0 THEN d ELSE d + s
BY SMT

\* Less than half the numbers apart, a move that was sent before another is not newer.
LEMMA OlderIsNotNewer ==
  ASSUME NEW x \in Nat, NEW n \in Nat, NEW m \in Nat, n <= m, SeqSpace \in Nat \ {0},
         2 * (m - n) < SeqSpace
  PROVE  ~Input!IsNewer((x + n) % SeqSpace, (x + m) % SeqSpace)
<1> DEFINE s == SeqSpace
           a == (x + n) % s
           b == (x + m) % s
           q == (x + n) \div s
           p == (x + m) \div s
<1>1. a \in 0..(s - 1) /\ b \in 0..(s - 1) /\ q \in Int /\ p \in Int /\ s \in Nat \ {0}
  BY Turn
<1>2. x + n = s * q + a /\ x + m = s * p + b
  BY Turn
<1> HIDE DEF a, b, p, q, s
<1>3. s * (p - q) = s * p - s * q /\ p - q \in Int /\ s * p \in Int /\ s * q \in Int
  BY <1>1
<1>4. s * (p - q) = (m - n) + (a - b)
  <2> DEFINE g == s * p
             h == s * q
  <2>1. g \in Int /\ h \in Int /\ x + n = h + a /\ x + m = g + b
    BY <1>2, <1>3
  <2> HIDE DEF g, h
  <2>2. g - h = (m - n) + (a - b)
    BY <2>1, <1>1
  <2> QED
    BY <2>2, <1>3 DEF g, h
<1>5. 2 * (m - n) < s
  BY DEF s
<1>6. p - q = 0 \/ p - q = 1
  BY <1>1, <1>3, <1>4, <1>5, Turns
<1>7. a - b \in (-(s - 1))..(s - 1)
  BY <1>1
<1>8. (a - b) % s = IF a - b >= 0 THEN a - b ELSE (a - b) + s
  BY <1>1, <1>7, Signed
<1>9. a - b = -(m - n) \/ a - b = s - (m - n)
  BY <1>1, <1>4, <1>6
<1>10. ~((a - b) % s > 0 /\ 2 * ((a - b) % s) < s)
  BY <1>1, <1>5, <1>7, <1>8, <1>9
<1> QED
  BY <1>10 DEF Input!IsNewer, a, b, s

LEMMA InputInit == ServicesInit => InputInv
  BY ServicesAssumption
     DEF ServicesInit, Input!Init, Input!Words, InputInv, InputTypes, AllNumbered, Marked, Moves, Tabs

\* What is known of a frame stays known.
LEMMA StayNumbered ==
  ASSUME InputTypes, first' = first, sent' \in Nat, sent' >= sent, NEW f, Numbered(f)
  PROVE  Numbered(f)'
  BY DEF InputTypes, Numbered

LEMMA MarkStays ==
  ASSUME InputTypes, Marked, first' = first, sent' \in Nat, sent' >= sent,
         inj'.highest = inj.highest, cursor' = cursor
  PROVE  Marked'
  BY DEF InputTypes, Marked

\* The page sends what it sends with the next numbers.
LEMMA Sends ==
  ASSUME InputInv, NEW fs, Len(fs) \in Nat,
         \A k \in 1..Len(fs) : fs[k].kind \in {"delta", "move"} /\ fs[k].word \in Input!Words,
         Input!SendFast(fs), UNCHANGED <<first, relief, fast, inj, cursor>>,
         tab' \in Tabs
  PROVE  InputInv'
<1>1. sent' = sent + Len(fs) /\ sent' \in 0..MaxFrames
  BY ServicesAssumption DEF Input!SendFast, InputInv, InputTypes
<1>2. InputTypes'
  BY <1>1 DEF InputInv, InputTypes
<1>3. Marked'
  BY <1>1, MarkStays DEF InputInv, InputTypes
<1>4. ASSUME NEW f \in onFast' PROVE Numbered(f)'
  <2>1. CASE f \in onFast
    BY <2>1, <1>1, StayNumbered DEF InputInv, InputTypes, AllNumbered
  <2>2. CASE f \notin onFast
    <3>1. PICK k \in 1..Len(fs) : f = [kind |-> fs[k].kind, word |-> fs[k].word, n |-> sent + k,
                                      seq |-> (first + sent + k) % SeqSpace]
      BY <2>2 DEF Input!SendFast
    <3>2. sent + k \in 1..sent' /\ sent + k \in Nat /\ first + sent + k = first + (sent + k)
          /\ first + (sent + k) \in Nat
      BY <1>1 DEF InputInv, InputTypes
    <3>3. (first + (sent + k)) % SeqSpace \in Nat
      <4>1. SeqSpace \in Nat \ {0}
        BY ServicesAssumption
      <4>2. (first + (sent + k)) % SeqSpace \in 0..(SeqSpace - 1)
        BY <3>2, <4>1, Turn
      <4> QED
        BY <4>1, <4>2
    <3> QED
      BY <3>1, <3>2, <3>3 DEF Numbered, Moves
  <2> QED
    BY <2>1, <2>2
<1>5. AllNumbered'
  BY <1>1, <1>4, StayNumbered DEF InputInv, InputTypes, AllNumbered
<1> QED
  BY <1>2, <1>3, <1>5 DEF InputInv

\* Some of what is on its way goes, or goes on.
LEMMA Carries ==
  ASSUME InputInv, UNCHANGED <<first, sent, cursor>>, inj'.highest = inj.highest,
         "highest" \in DOMAIN inj',
         tab' \in Tabs,
         onFast' \subseteq onFast,
         relief' = relief \/ relief' = None \/ relief' \in onFast,
         fast' \in Seq(Moves),
         \A i \in 1..Len(fast') : Numbered(fast'[i])
  PROVE  InputInv'
<1>1. InputTypes'
  BY DEF InputInv, InputTypes
<1>2. Marked'
  BY MarkStays DEF InputInv, InputTypes
<1>3. \A f : Numbered(f) => Numbered(f)'
  BY DEF Numbered
<1>4. AllNumbered'
  BY <1>3 DEF InputInv, AllNumbered
<1> QED
  BY <1>1, <1>2, <1>4 DEF InputInv

\* A move that is taken is not behind: it is newer than the mark, and so than the cursor.
LEMMA TakenIsNewer ==
  ASSUME InputInv, fast # <<>>, ~Input!Behind(Head(fast))
  PROVE  /\ Numbered(Head(fast)) /\ Head(fast).n > cursor
         /\ Head(fast).seq # None
<1> DEFINE f == Head(fast)
<1>1. Numbered(f)
  BY DEF InputInv, AllNumbered
<1>2. f.n \in 1..sent /\ f.n \in Nat /\ f.seq = (first + f.n) % SeqSpace /\ f.seq \in Nat
  BY <1>1 DEF Numbered, Moves
<1>3. f.seq # None
  BY <1>2, RelayConstants
<1>4. CASE inj.highest = None
  BY <1>1, <1>2, <1>3, <1>4 DEF InputInv, Marked
<1>5. CASE inj.highest # None
  <2>1. PICK m \in 1..sent : inj.highest = (first + m) % SeqSpace /\ cursor <= m
    BY <1>5 DEF InputInv, Marked
  <2>2. Input!IsNewer((first + f.n) % SeqSpace, (first + m) % SeqSpace)
    BY <1>2, <1>5, <2>1 DEF Input!Behind
  <2>3. first \in Nat /\ m \in Nat /\ sent \in Nat /\ sent <= MaxFrames /\ cursor \in Nat
        /\ SeqSpace \in Nat \ {0} /\ 2 * MaxFrames < SeqSpace /\ MaxFrames \in Nat
    BY <2>1, ServicesAssumption DEF InputInv, InputTypes
  <2> DEFINE n == f.n
  <2>4. n \in Nat /\ 1 <= n /\ m <= sent
    BY <1>2, <2>1, <2>3
  <2> HIDE DEF n
  <2>5. 2 * (m - n) < SeqSpace
    BY <2>3, <2>4
  <2>6. ~(n <= m)
    BY <2>2, <2>3, <2>4, <2>5, OlderIsNotNewer DEF n
  <2>7. n > cursor
    BY <2>1, <2>3, <2>4, <2>6
  <2> QED
    BY <1>1, <1>3, <2>7 DEF n
<1> QED
  BY <1>4, <1>5

LEMMA TailNumbered ==
  ASSUME InputInv, fast # <<>>
  PROVE  Tail(fast) \in Seq(Moves) /\ \A i \in 1..Len(Tail(fast)) : Numbered(Tail(fast)[i])
  BY DEF InputInv, AllNumbered

\* A frame at the end of what waits, or of what is left of it.
LEMMA JoinNumbered ==
  ASSUME NEW q \in Seq(Moves), \A i \in 1..Len(q) : Numbered(q[i]), NEW f, Numbered(f)
  PROVE  Append(q, f) \in Seq(Moves) /\ \A i \in 1..Len(Append(q, f)) : Numbered(Append(q, f)[i])
  BY DEF Numbered

LEMMA ReleaseKeepsMark ==
  ASSUME NEW i, "highest" \in DOMAIN i
  PROVE  Input!ReleaseAll(i).highest = i.highest /\ "highest" \in DOMAIN Input!ReleaseAll(i)
  BY DEF Input!ReleaseAll

LEMMA DispatchKeepsMark ==
  ASSUME NEW i, "highest" \in DOMAIN i, NEW e
  PROVE  Input!Dispatch(i, e).highest = i.highest /\ "highest" \in DOMAIN Input!Dispatch(i, e)
  BY ReleaseKeepsMark DEF Input!Dispatch

LEMMA TakeFastStep ==
  ASSUME InputInv, Input!TakeFast
  PROVE  InputInv' /\ cursor' >= cursor
<1> DEFINE f == Head(fast)
<1>1. /\ fast # <<>> /\ fast' = Tail(fast)
      /\ UNCHANGED <<first, sent, tab, onFast, relief>>
  BY DEF Input!TakeFast, Input!user, Input!wire
<1>2. \A g : Numbered(g) => Numbered(g)'
  BY <1>1 DEF Numbered
<1>3. AllNumbered'
  BY <1>1, <1>2, TailNumbered DEF InputInv, AllNumbered
<1>4. cursor \in Nat /\ sent \in Nat /\ "highest" \in DOMAIN inj
  BY ServicesAssumption DEF InputInv, InputTypes
<1>5. Numbered(f) /\ f.n \in Nat /\ f.n \in 1..sent /\ f.seq = (first + f.n) % SeqSpace
  BY <1>1 DEF InputInv, AllNumbered, Numbered, Moves
<1>6. CASE f.kind = "move" /\ ~Input!Behind(f)
  <2>1. inj' = [inj EXCEPT !.highest = f.seq, !.buttons = f.word] /\ cursor' = f.n
    BY <1>6 DEF Input!TakeFast
  <2>2. inj'.highest = f.seq /\ "highest" \in DOMAIN inj'
    BY <2>1, <1>4
  <2>3. f.seq # None /\ f.n > cursor
    BY <1>1, <1>6, TakenIsNewer
  <2>4. Marked'
    BY <1>1, <1>5, <2>1, <2>2, <2>3 DEF Marked
  <2>5. InputTypes'
    BY <1>1, <1>5, <2>1, <2>2 DEF InputInv, InputTypes
  <2> QED
    BY <1>3, <1>4, <1>5, <2>1, <2>3, <2>4, <2>5 DEF InputInv
<1>7. CASE f.kind # "move" /\ ~Input!Behind(f)
  <2>1. inj' = [inj EXCEPT !.highest = f.seq, !.last = f.word, !.buttons = f.word] /\ cursor' = cursor
    BY <1>7 DEF Input!TakeFast
  <2>2. inj'.highest = f.seq /\ "highest" \in DOMAIN inj'
    BY <2>1, <1>4
  <2>3. f.seq # None /\ f.n > cursor
    BY <1>1, <1>7, TakenIsNewer
  <2>4. Marked'
    BY <1>1, <1>4, <1>5, <2>1, <2>2, <2>3 DEF Marked
  <2>5. InputTypes'
    BY <1>1, <2>1, <2>2 DEF InputInv, InputTypes
  <2> QED
    BY <1>3, <1>4, <2>1, <2>4, <2>5 DEF InputInv
<1>8. CASE Input!Behind(f)
  <2>1. cursor' = cursor /\ (inj' = inj \/ inj' = [inj EXCEPT !.highest = inj.highest, !.last = inj.last,
                                                             !.buttons = inj.last])
    BY <1>8 DEF Input!TakeFast
  <2>2. inj'.highest = inj.highest /\ "highest" \in DOMAIN inj'
    BY <2>1, <1>4
  <2>3. Marked'
    BY <1>1, <1>4, <2>1, <2>2, MarkStays DEF InputInv
  <2>4. InputTypes'
    BY <1>1, <2>1, <2>2 DEF InputInv, InputTypes
  <2> QED
    BY <1>3, <1>4, <2>1, <2>3, <2>4 DEF InputInv
<1> QED
  BY <1>6, <1>7, <1>8

\* What the injector takes besides changes no mark.
LEMMA InjectorSteps ==
  ASSUME InputInv, Input!TakeReliable \/ Input!TooOld \/ Input!Leave
  PROVE  InputInv' /\ cursor' = cursor
<1>1. UNCHANGED <<first, sent, cursor, tab, onFast, relief>>
  BY DEF Input!TakeReliable, Input!TooOld, Input!Leave, Input!user, Input!wire, Input!queues
<1>2. "highest" \in DOMAIN inj
  BY DEF InputInv, InputTypes
<1>3. inj'.highest = inj.highest /\ "highest" \in DOMAIN inj'
  <2>1. CASE Input!TakeReliable
    BY <1>2, <2>1, DispatchKeepsMark DEF Input!TakeReliable
  <2>2. CASE Input!TooOld
    BY <1>2, <2>2 DEF Input!TooOld
  <2>3. CASE Input!Leave
    <3>1. inj' = [Input!ReleaseAll(inj) EXCEPT !.runs = FALSE]
      BY <2>3 DEF Input!Leave
    <3> QED
      BY <1>2, <3>1, ReleaseKeepsMark
  <2> QED
    BY <2>1, <2>2, <2>3
<1>4. fast' = fast \/ (fast # <<>> /\ fast' = Tail(fast))
  BY DEF Input!TakeReliable, Input!TooOld, Input!Leave, Input!queues
<1>5. fast' \in Seq(Moves) /\ \A i \in 1..Len(fast') : Numbered(fast'[i])
  BY <1>4, TailNumbered DEF InputInv, AllNumbered
<1>6. tab' \in Tabs
  BY <1>1 DEF InputInv, InputTypes
<1> QED
  BY <1>1, <1>3, <1>5, <1>6, Carries

-----------------------------------------------------------------------------
(* The page and the connection.                                            *)

\* What waits for the flush is at most one frame.
LEMMA WaitingIsMove ==
  ASSUME NEW kind
  PROVE  LET w == Input!Waiting(kind)
         IN  w \in Seq([kind : {"delta", "move"}, word : Input!Words])
<1>1. CASE pending[kind] \in Input!Words
  <2> DEFINE f == Input!Frame(IF kind = "delta" THEN "delta" ELSE "move", pending[kind])
  <2>1. f \in [kind : {"delta", "move"}, word : Input!Words]
    BY <1>1 DEF Input!Frame
  <2>2. Input!Waiting(kind) = <<f>>
    BY <1>1 DEF Input!Waiting
  <2> HIDE DEF f
  <2> QED
    BY <2>1, <2>2
<1>2. CASE pending[kind] \notin Input!Words
  BY <1>2 DEF Input!Waiting
<1> QED
  BY <1>1, <1>2

\* What the page does not send.
LEMMA PageIsQuiet ==
  ASSUME InputInv, UNCHANGED <<first, sent, onFast, relief, fast, inj, cursor>>, tab' \in Tabs
  PROVE  InputInv'
<1>1. fast' \in Seq(Moves) /\ \A i \in 1..Len(fast') : Numbered(fast'[i])
  BY DEF InputInv, AllNumbered
<1>2. "highest" \in DOMAIN inj'
  BY DEF InputInv, InputTypes
<1> QED
  BY <1>1, <1>2, Carries

LEMMA PageSends ==
  ASSUME InputInv, NEW fs \in Seq([kind : {"delta", "move"}, word : Input!Words]),
         Input!SendFast(fs), UNCHANGED <<first, relief, fast, inj, cursor>>, tab' \in Tabs
  PROVE  InputInv'
<1>1. Len(fs) \in Nat
  OBVIOUS
<1>2. \A k \in 1..Len(fs) : fs[k].kind \in {"delta", "move"} /\ fs[k].word \in Input!Words
  <2> DEFINE K == [kind : {"delta", "move"}, word : Input!Words]
  <2>1. fs \in Seq(K)
    OBVIOUS
  <2> HIDE DEF K
  <2>2. \A k \in 1..Len(fs) : fs[k] \in K
    BY <2>1
  <2> QED
    BY <2>2 DEF K
<1> QED
  BY <1>1, <1>2, Sends

LEMMA TabSteps ==
  ASSUME InputInv, Input!PageStep
  PROVE  InputInv' /\ cursor' = cursor
<1>1. UNCHANGED <<first, relief, fast, inj, cursor>>
  <2>1. CASE Input!Delta \/ Input!Move \/ Input!Stroke \/ Input!Flush
    BY <2>1 DEF Input!Delta, Input!Move, Input!Stroke, Input!Flush, Input!queues
  <2>2. CASE Input!Press \/ Input!Release \/ Input!Blur
    BY <2>2 DEF Input!Press, Input!Release, Input!Blur, Input!queues
  <2>3. CASE \E k \in Keys : Input!Key(k)
    BY <2>3 DEF Input!Key, Input!queues
  <2> QED
    BY <2>1, <2>2, <2>3 DEF Input!PageStep
<1>2. tab \in Tabs /\ tab.button \in Input!Words
  BY DEF InputInv, InputTypes, Tabs
<1>3. tab' \in Tabs
  <2>1. CASE Input!Delta \/ Input!Move \/ Input!Stroke \/ Input!Flush
    <3>1. \/ tab' = tab
          \/ tab' = [tab EXCEPT !.mouseGate = FALSE]
          \/ tab' = [tab EXCEPT !.absGate = FALSE]
          \/ tab' = [tab EXCEPT !.mouseGate = TRUE, !.absGate = TRUE]
      BY <2>1 DEF Input!Delta, Input!Move, Input!Stroke, Input!Flush
    <3> QED
      BY <1>2, <3>1 DEF Tabs
  <2>2. CASE Input!Press \/ Input!Release \/ Input!Blur
    <3>1. \/ tab' = [tab EXCEPT !.button = "down"]
          \/ tab' = [tab EXCEPT !.button = "up"]
          \/ tab' = [tab EXCEPT !.keys = {}, !.mouseGate = TRUE, !.absGate = TRUE]
      BY <2>2 DEF Input!Press, Input!Release, Input!Blur
    <3> QED
      BY <1>2, <3>1 DEF Tabs, Input!Words
  <2>3. ASSUME NEW k \in Keys, Input!Key(k) PROVE tab' \in Tabs
    <3>1. \/ tab' = [tab EXCEPT !.keys = @ \ {k}]
          \/ tab' = [tab EXCEPT !.keys = @ \cup {k}]
      BY <2>3 DEF Input!Key
    <3> QED
      BY <1>2, <3>1 DEF Tabs
  <2> QED
    BY <2>1, <2>2, <2>3 DEF Input!PageStep
<1>4. \/ UNCHANGED <<sent, onFast>>
      \/ Input!SendFast(<<Input!Frame("delta", tab.button)>>)
      \/ Input!SendFast(<<Input!Frame("move", tab.button)>>)
      \/ Input!SendFast(Input!Waiting("delta") \o Input!Waiting("stroke") \o Input!Waiting("move"))
      \/ Input!SendFast(Input!Waiting("stroke"))
  BY DEF Input!PageStep, Input!Delta, Input!Move, Input!Stroke, Input!Flush, Input!Press, Input!Release,
         Input!Blur, Input!Key
<1> DEFINE K == [kind : {"delta", "move"}, word : Input!Words]
           S == Seq(K)
<1>5. /\ <<Input!Frame("delta", tab.button)>> \in S /\ <<Input!Frame("move", tab.button)>> \in S
      /\ Input!Waiting("stroke") \in S
      /\ Input!Waiting("delta") \o Input!Waiting("stroke") \o Input!Waiting("move") \in S
  <2>1. Input!Frame("delta", tab.button) \in K /\ Input!Frame("move", tab.button) \in K
    BY <1>2 DEF Input!Frame
  <2>2. Input!Waiting("delta") \in S /\ Input!Waiting("stroke") \in S /\ Input!Waiting("move") \in S
    BY WaitingIsMove
  <2> HIDE DEF K
  <2> QED
    BY <2>1, <2>2
<1> HIDE DEF S
<1>6. InputInv'
  <2>1. CASE UNCHANGED <<sent, onFast>>
    BY <1>1, <1>3, <2>1, PageIsQuiet
  <2>2. ASSUME NEW fs \in S, Input!SendFast(fs) PROVE InputInv'
    BY <1>1, <1>3, <2>2, PageSends DEF S, K
  <2> QED
    BY <1>4, <1>5, <2>1, <2>2
<1> QED
  BY <1>1, <1>6

LEMMA RouteFastStep ==
  ASSUME InputInv, NEW f \in onFast, Input!RouteFast(f)
  PROVE  InputInv' /\ cursor' = cursor
<1>1. UNCHANGED <<first, sent, tab, inj, cursor>> /\ onFast' \subseteq onFast
  BY DEF Input!RouteFast, Input!user
<1>2. relief' = relief \/ relief' \in onFast
  BY DEF Input!RouteFast
<1>3. fast' = fast \/ fast' = Append(fast, f)
  BY DEF Input!RouteFast
<1>4. fast \in Seq(Moves) /\ (\A i \in 1..Len(fast) : Numbered(fast[i])) /\ Numbered(f)
  BY DEF InputInv, AllNumbered
<1>5. fast' \in Seq(Moves) /\ \A i \in 1..Len(fast') : Numbered(fast'[i])
  BY <1>3, <1>4, JoinNumbered
<1> QED
  BY <1>1, <1>2, <1>5, Carries DEF InputInv, InputTypes

LEMMA RelieveStep ==
  ASSUME InputInv, Input!Relieve
  PROVE  InputInv' /\ cursor' = cursor
<1> DEFINE rest == IF fast = <<>> THEN <<>> ELSE Tail(fast)
<1>1. UNCHANGED <<first, sent, tab, inj, cursor, onFast>> /\ relief # None /\ relief' = None
      /\ fast' = Append(rest, relief)
  BY DEF Input!Relieve, Input!user, Input!wire
<1>2. rest \in Seq(Moves) /\ (\A i \in 1..Len(rest) : Numbered(rest[i])) /\ Numbered(relief)
  BY <1>1, TailNumbered DEF InputInv, AllNumbered
<1> HIDE DEF rest
<1>3. fast' \in Seq(Moves) /\ \A i \in 1..Len(fast') : Numbered(fast'[i])
  BY <1>1, <1>2, JoinNumbered
<1> QED
  BY <1>1, <1>3, Carries DEF InputInv, InputTypes

\* What the handlers and the closing task do besides touches no move that waits.
LEMMA LinkSteps ==
  ASSUME InputInv, \/ Input!SetControl \/ Input!Disconnected \/ Input!Close \/ Input!ClosedSeen
                   \/ Input!CloseGoesOn \/ Input!RouteReliable
  PROVE  InputInv' /\ cursor' = cursor
<1>1. /\ UNCHANGED <<first, sent, tab, inj, cursor, relief, fast>>
      /\ onFast' = onFast \/ onFast' = {}
  BY DEF Input!SetControl, Input!Disconnected, Input!Close, Input!ClosedSeen, Input!CloseGoesOn,
         Input!RouteReliable, Input!user, Input!wire, Input!queues
<1>2. fast' \in Seq(Moves) /\ \A i \in 1..Len(fast') : Numbered(fast'[i])
  BY <1>1 DEF InputInv, AllNumbered
<1> QED
  BY <1>1, <1>2, Carries DEF InputInv, InputTypes

LEMMA InputStep ==
  ASSUME InputInv, [ServicesNext]_<<part, vars, ofInput>>
  PROVE  InputInv' /\ (cursor' = cursor \/ cursor' >= cursor)
<1>1. CASE UNCHANGED ofInput
  <2>1. UNCHANGED <<first, sent, tab, onFast, relief, fast, inj, cursor>>
    BY <1>1 DEF ofInput
  <2> QED
    BY <2>1, PageIsQuiet DEF InputInv, InputTypes, Tabs
<1>2. CASE Input!Next
  BY <1>2, TabSteps, LinkSteps, RouteFastStep, RelieveStep, InjectorSteps, TakeFastStep
     DEF Input!Next, Input!InjectorStep
<1> QED
  BY <1>1, <1>2 DEF ServicesNext, RelayNext, InputNext

\* The cursor never goes back to where the pointer was before, however the moves of a
\* session are lost, shuffled and dropped, and wherever the page's counter wraps
\* (input/mod.rs:531-548, protocol.rs:119-127).
THEOREM CursorGoesForward == ServicesSpec => CursorForward
<1>1. InputInv /\ [ServicesNext]_<<part, vars, ofInput>> => InputInv' /\ [cursor' >= cursor]_cursor
  BY InputStep
<1> QED
  BY <1>1, InputInit, PTL DEF ServicesSpec, CursorForward, Input!CursorForward
=============
