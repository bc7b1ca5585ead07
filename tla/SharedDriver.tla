---------------------------- MODULE SharedDriver ----------------------------
(***************************************************************************)
(* Several hosts on one machine, each with displays of its own, over one   *)
(* virtual display driver that keeps one monitor list for all of them      *)
(* (windows_utils/virtual_display.rs: mod shared; windows_utils/driver_ipc *)
(* /client.rs: request_state).  Every change is a read of the live list, a *)
(* merge, a notify and a confirmation, under a file lock; a registry file  *)
(* beside it says whose each monitor is.  A host may die at any step.      *)
(*                                                                         *)
(* The registry is written in place: the file is emptied, then filled.     *)
(* Either may fail, and that is only logged; a file that cannot be read,   *)
(* or was cut off, counts as an empty registry.                            *)
(*                                                                         *)
(* A monitor stands for the host that put it there.  The driver takes the  *)
(* commands of one pipe in their order; what a host had written when it    *)
(* died is taken then, or never.  A pid is not used again.  The monitors   *)
(* that are in no registry are there from the start: an unisolated host    *)
(* beside these ones, which takes no lock, has no actions.                 *)
(***************************************************************************)
EXTENDS Integers, FiniteSets, Sequences

CONSTANTS
  Hosts,      \* host processes; a host that is started again is another one
  Foreign,    \* who put the monitors there that are in no registry
  Released,   \* the registry's pid 0
  None,
  MaxId,      \* bound: ids of monitors
  MaxJobs,    \* bound: commits and late answers
  MaxLate     \* bound: answers of the driver that take longer than 5 s

VARIABLES
  driver,     \* the driver's list: who put each monitor there
  registry,   \* owners.json
  lock,       \* who holds commit.lock
  pc,         \* of each host
  owned,      \* Inner.owned
  cache,      \* DriverClient's event-fed copy of the list
  keep, new,  \* the commit under way: monitors kept, and whether one is added
  plan,       \* the commit under way: the list, the registry and the monitors to be
  pipe,       \* commands the driver has yet to take: a list, or None for a request
  replies,    \* answers on their way
  jobs,       \* commits so far
  late,       \* answers that have taken too long
  cutOff,     \* history: hosts that died between their notify and the end of the commit
  astray,     \* history: monitors the registry has lost track of
  misfiled    \* history: live monitors that a lost write left down as somebody else's

vars == <<driver, registry, lock, pc, owned, cache, keep, new, plan, pipe, replies, jobs, late,
          cutOff, astray, misfiled>>
job  == <<keep, new, plan>>

Ids   == 0..MaxId
Lists == [Ids -> Hosts \cup {Foreign, None}]
IdsOf(list) == {i \in Ids : list[i] # None}
Up(h) == pc[h] \notin {"off", "dead"}

\* What a free place, an unread plan and an unused registry entry look like.
Nothing == [i \in Ids |-> None]

\* attachable
Attachable(ids) == \E lo \in 0..1, hi \in -1..MaxId : ids = lo..hi

Init ==
  /\ driver \in {list \in [Ids -> {Foreign, None}] : Attachable(IdsOf(list)) /\ list[MaxId] = None}
  /\ registry = Nothing /\ lock = None
  /\ pc = [h \in Hosts |-> "off"] /\ owned = [h \in Hosts |-> {}]
  /\ cache = [h \in Hosts |-> Nothing]
  /\ keep = [h \in Hosts |-> {}] /\ new = [h \in Hosts |-> FALSE]
  /\ plan = [h \in Hosts |-> None]
  /\ pipe = [h \in Hosts |-> <<>>] /\ replies = [h \in Hosts |-> <<>>]
  /\ jobs = 0 /\ late = 0 /\ cutOff = {} /\ astray = {} /\ misfiled = {}

Least(S)    == CHOOSE x \in S : \A y \in S : x <= y
Greatest(S) == CHOOSE x \in S : \A y \in S : x >= y

\* allocate
Allocate(ids, released) ==
  IF released # {} THEN Least(released)
  ELSE IF ids = {} \/ Least(ids) = 1 THEN 0
  ELSE Greatest(ids) + 1

\* compact: the least list that attaches and has all that is not released.  The code takes
\* ids away one at a time, which comes to the same from a list that attaches.
Compact(ids, released) ==
  LET fits == {rest \in SUBSET ids : Attachable(rest) /\ ids \ released \subseteq rest}
  IN IF fits = {} THEN ids ELSE CHOOSE rest \in fits : \A other \in fits : rest \subseteq other

-----------------------------------------------------------------------------
(* A commit.                                                               *)

Send(h, commands) == pipe' = [pipe EXCEPT ![h] = @ \o commands]

\* lock()
TakeLock(h) == lock = None /\ lock' = h

Request(h, kept, one) ==
  /\ jobs + late < MaxJobs /\ jobs' = jobs + 1
  /\ TakeLock(h)
  /\ pc' = [pc EXCEPT ![h] = "read"]
  /\ keep' = [keep EXCEPT ![h] = kept] /\ new' = [new EXCEPT ![h] = one]
  /\ Send(h, <<None>>)
  /\ UNCHANGED <<driver, registry, plan, replies, late, cutOff, astray, misfiled>>

\* new_shared_reported: the client is connected, and what dead hosts left is reclaimed.
Start(h) ==
  /\ pc[h] = "off"
  /\ Request(h, {}, FALSE)
  /\ cache' = [cache EXCEPT ![h] = driver]
  /\ UNCHANGED owned

\* create_display, remove_display and remove_all_displays.
Create(h) == pc[h] = "idle" /\ Request(h, owned[h], TRUE) /\ UNCHANGED <<owned, cache>>

Remove(h) ==
  /\ pc[h] = "idle"
  /\ \E i \in owned[h] : Request(h, owned[h] \ {i}, FALSE)
  /\ UNCHANGED <<owned, cache>>

RemoveAll(h) == pc[h] = "idle" /\ Request(h, {}, FALSE) /\ UNCHANGED <<owned, cache>>

\* Mutant: a monitor in no registry is taken for a dead host's.
FoundReleased(h, live, file) ==
  [i \in Ids |-> IF live[i] = None THEN None
                 ELSE IF file[i] \in Hosts /\ Up(file[i]) THEN file[i] ELSE Released]

\* Mutant: nobody asks whether the owner lives.
FoundOthers(h, live, file) ==
  [i \in Ids |-> IF live[i] = None THEN None
                 ELSE IF file[i] \in Hosts \ {h} THEN Released
                 ELSE file[i]]

\* Mutant: a dead owner's entry is dropped with it.
FoundPruned(h, live, file) ==
  [i \in Ids |-> IF live[i] = None \/ (file[i] \in Hosts \ {h} /\ ~Up(file[i])) THEN None
                 ELSE file[i]]

\* read_registry: what is in the file, or nothing.
Readings == {registry, Nothing}

\* The registry as the commit finds it: only what is live, and no dead owner.
Found(h, live, file) ==
  [i \in Ids |-> IF live[i] = None THEN None
                 ELSE IF file[i] \in Hosts \ {h} /\ ~Up(file[i]) THEN Released
                 ELSE file[i]]

\* The same with this host's departed monitors released.
Marked(h, live, file) ==
  LET found == Found(h, live, file)
  IN [i \in Ids |-> IF i \in owned[h] \ keep[h] THEN Released ELSE found[i]]

ReleasedIn(reg) == {i \in Ids : reg[i] = Released}

\* The id the commit gives to its new monitor, if it has one.
Fresh(h, live, file) ==
  IF new[h] THEN {Allocate(IdsOf(live), ReleasedIn(Marked(h, live, file)))} ELSE {}

\* What leaves the registry with the commit.
Gone(free, stay) == free \ stay

\* shared::commit up to the list that will be sent; `unread` is what it has not read.
PlanOf(h, live, file) ==
  LET reg  == Marked(h, live, file)
      ours == keep[h] \cup Fresh(h, live, file)
      free == ReleasedIn(reg) \ ours
      list == [i \in Ids |-> IF i \in ours THEN h ELSE live[i]]
      stay == Compact(IdsOf(list), free)
  IN [list |-> [i \in Ids |-> IF i \in stay THEN list[i] ELSE None],
      reg  |-> [i \in Ids |-> IF i \in ours THEN h
                              ELSE IF i \in Gone(free, stay) THEN None ELSE reg[i]],
      ours |-> ours,
      unread |-> {i \in Ids : file[i] # registry[i]}]

\* The list is merged, and sent if it is another one, with the request that is to
\* confirm it.
Merge(h, live, file) ==
  /\ Fresh(h, live, file) \subseteq Ids
  /\ LET p == PlanOf(h, live, file)
     IN /\ plan' = [plan EXCEPT ![h] = p]
        /\ IF p.list # live
           THEN pc' = [pc EXCEPT ![h] = "confirm"] /\ Send(h, <<p.list, None>>)
           ELSE pc' = [pc EXCEPT ![h] = "save"] /\ UNCHANGED pipe

ReadReply(h) ==
  /\ pc[h] = "read" /\ replies[h] # <<>>
  /\ replies' = [replies EXCEPT ![h] = Tail(@)]
  /\ \E file \in Readings : Merge(h, Head(replies[h]), file)
  /\ UNCHANGED <<driver, registry, lock, owned, cache, keep, new, jobs,
                 late, cutOff, astray, misfiled>>

\* No answer in time: the event-fed copy has to do.
ReadLate(h) ==
  /\ pc[h] = "read" /\ late < MaxLate
  /\ late' = late + 1
  /\ \E file \in Readings : Merge(h, cache[h], file)
  /\ UNCHANGED <<driver, registry, lock, owned, cache, keep, new, replies, jobs,
                 cutOff, astray, misfiled>>

\* The list cannot be sent: the commit is given up, and nothing is written.
NotifyFails(h) ==
  /\ pc[h] = "read" /\ replies[h] # <<>>
  /\ \E file \in Readings : PlanOf(h, Head(replies[h]), file).list # Head(replies[h])
  /\ replies' = [replies EXCEPT ![h] = Tail(@)]
  /\ pc' = [pc EXCEPT ![h] = "idle"] /\ lock' = None
  /\ keep' = [keep EXCEPT ![h] = {}] /\ new' = [new EXCEPT ![h] = FALSE]
  /\ UNCHANGED <<driver, registry, owned, cache, plan, pipe, jobs, late, cutOff, astray, misfiled>>

Confirm(h) ==
  /\ pc[h] = "confirm" /\ replies[h] # <<>>
  /\ replies' = [replies EXCEPT ![h] = Tail(@)]
  /\ pc' = [pc EXCEPT ![h] = IF IdsOf(Head(replies[h])) = IdsOf(plan[h].list) THEN "save" ELSE "pause"]
  /\ UNCHANGED <<driver, registry, lock, owned, cache, job, pipe, jobs,
                 late, cutOff, astray, misfiled>>

\* It is asked again after 50 ms.
AskAgain(h) ==
  /\ pc[h] = "pause"
  /\ pc' = [pc EXCEPT ![h] = "confirm"] /\ Send(h, <<None>>)
  /\ UNCHANGED <<driver, registry, lock, owned, cache, job, replies, jobs,
                 late, cutOff, astray, misfiled>>

ConfirmLate(h) ==
  /\ pc[h] = "confirm" /\ late < MaxLate
  /\ late' = late + 1
  /\ \E next \in {"pause", "save"} : pc' = [pc EXCEPT ![h] = next]
  /\ UNCHANGED <<driver, registry, lock, owned, cache, job, pipe, replies, jobs,
                 cutOff, astray, misfiled>>

\* Or it has been asked for 10 s, and is asked no more.
GiveUp(h) ==
  /\ pc[h] = "pause"
  /\ pc' = [pc EXCEPT ![h] = "save"]
  /\ UNCHANGED <<driver, registry, lock, owned, cache, job, pipe, replies, jobs,
                 late, cutOff, astray, misfiled>>

\* The commit is over: the lock is dropped and the monitors are the host's.
Ends(h) ==
  /\ owned' = [owned EXCEPT ![h] = plan[h].ours]
  /\ plan' = [plan EXCEPT ![h] = None]
  /\ keep' = [keep EXCEPT ![h] = {}] /\ new' = [new EXCEPT ![h] = FALSE]
  /\ pc' = [pc EXCEPT ![h] = "idle"] /\ lock' = None
  /\ UNCHANGED <<driver, cache, pipe, replies, jobs, late, cutOff>>

\* write_registry empties the file first.
Truncate(h) ==
  /\ pc[h] = "save"
  /\ registry' = Nothing
  /\ pc' = [pc EXCEPT ![h] = "write"]
  /\ UNCHANGED <<driver, lock, owned, cache, job, pipe, replies, jobs,
                 late, cutOff, astray, misfiled>>

\* And fills it.  What the commit had not read is lost, but for what it knows itself.
Save(h) ==
  /\ pc[h] = "write"
  /\ registry' = plan[h].reg
  /\ astray' = (astray \cup plan[h].unread) \ (owned[h] \cup plan[h].ours)
  /\ Ends(h) /\ UNCHANGED misfiled

\* The file cannot be opened, and stays what it was, or cannot be filled, and stays empty.
\* The commit has succeeded all the same.
SaveFails(h) ==
  /\ pc[h] \in {"save", "write"}
  /\ astray' = IF pc[h] = "write" THEN Ids ELSE astray \cup {i \in plan[h].ours : registry[i] # h}
  /\ misfiled' = misfiled \cup {i \in plan[h].ours : registry[i] \notin {h, None}}
  /\ Ends(h) /\ UNCHANGED registry

-----------------------------------------------------------------------------
(* The driver, and the end of a host.                                      *)

\* A changed list is told to every client but the one that changed it.
Changed(h, list) == cache' = [g \in Hosts |-> IF g # h /\ Up(g) THEN list ELSE cache[g]]

DriverTakes(h) ==
  /\ pipe[h] # <<>>
  /\ pipe' = [pipe EXCEPT ![h] = Tail(@)]
  /\ IF Head(pipe[h]) = None
     THEN replies' = [replies EXCEPT ![h] = Append(@, driver)] /\ UNCHANGED <<driver, cache>>
     ELSE driver' = Head(pipe[h]) /\ Changed(h, driver') /\ UNCHANGED replies
  /\ UNCHANGED <<registry, lock, pc, owned, job, jobs, late, cutOff, astray, misfiled>>

\* A reply nobody waits for is dropped.
ReplyDropped(h) ==
  /\ pc[h] \in {"idle", "pause", "save", "write"} /\ replies[h] # <<>>
  /\ replies' = [replies EXCEPT ![h] = Tail(@)]
  /\ UNCHANGED <<driver, registry, lock, pc, owned, cache, job, pipe, jobs,
                 late, cutOff, astray, misfiled>>

Die(h) ==
  /\ Up(h)
  /\ pc' = [pc EXCEPT ![h] = "dead"]
  /\ lock' = IF lock = h THEN None ELSE lock
  /\ cutOff' = IF pc[h] \in {"confirm", "pause", "save", "write"} THEN cutOff \cup {h} ELSE cutOff
  /\ astray' = IF pc[h] = "write" THEN Ids ELSE astray
  /\ LET sent == {pipe[h][k] : k \in 1..Len(pipe[h])} \ {None}
     IN \E list \in sent \cup {driver} :
          driver' = list /\ IF list = driver THEN cache' = [cache EXCEPT ![h] = Nothing]
                            ELSE cache' = [g \in Hosts |-> IF g = h THEN Nothing ELSE IF Up(g) THEN list ELSE cache[g]]
  /\ owned' = [owned EXCEPT ![h] = {}]
  /\ plan' = [plan EXCEPT ![h] = None]
  /\ keep' = [keep EXCEPT ![h] = {}] /\ new' = [new EXCEPT ![h] = FALSE]
  /\ pipe' = [pipe EXCEPT ![h] = <<>>] /\ replies' = [replies EXCEPT ![h] = <<>>]
  /\ UNCHANGED <<registry, jobs, late, misfiled>>

Next ==
  \E h \in Hosts :
    \/ Start(h) \/ Create(h) \/ Remove(h) \/ RemoveAll(h)
    \/ ReadReply(h) \/ ReadLate(h) \/ NotifyFails(h)
    \/ Confirm(h) \/ AskAgain(h) \/ ConfirmLate(h) \/ GiveUp(h)
    \/ Truncate(h) \/ Save(h) \/ SaveFails(h)
    \/ DriverTakes(h) \/ ReplyDropped(h) \/ Die(h)

Spec == Init /\ [][Next]_vars

-----------------------------------------------------------------------------
(* What the hosts owe each other.                                          *)

TypeOK ==
  /\ driver \in Lists /\ registry \in [Ids -> Hosts \cup {Released, None}]
  /\ lock \in Hosts \cup {None} /\ late \in 0..MaxLate
  /\ cutOff \subseteq Hosts /\ astray \subseteq Ids /\ misfiled \subseteq Ids
  /\ \A h \in Hosts :
       /\ pc[h] \in {"off", "idle", "read", "confirm", "pause", "save", "write", "dead"}
       /\ owned[h] \subseteq Ids /\ keep[h] \subseteq owned[h] /\ cache[h] \in Lists
       /\ pc[h] \in {"read", "confirm", "pause", "save", "write"} => lock = h

\* While the driver answers in time, every monitor of a live host stays attached, in a
\* list the driver attaches: none is lost to another's commit, to a death at any step, to a
\* registry that was emptied or cannot be read, or to the reclaim of what the dead have left
\* (virtual_display.rs:1050-1070).  It takes a write that never was, of a monitor put in a
\* place that is still down as released or another's, to lose one (1121-1127).
HostsKeepTheirs ==
  late = 0 /\ misfiled = {} =>
    \A h \in Hosts : pc[h] \in {"idle", "read"} =>
      \A i \in owned[h] : driver[i] = h /\ Attachable(IdsOf(driver))

\* What nobody may count on being in the registry: all of it while it is being written.
Doubtful == IF \E h \in Hosts : pc[h] = "write" THEN Ids ELSE astray

\* And a monitor whose host has gone can be reclaimed: the registry has it, whatever commits
\* and deaths there were, unless the host died between its notify and the end of its commit,
\* or the registry lost track of the monitor and its host has not entered it again since
\* (virtual_display.rs:1066-1070).
Reclaimable ==
  late = 0 =>
    \A i \in Ids \ Doubtful :
      driver[i] \in Hosts /\ pc[driver[i]] \in {"idle", "read", "dead"} /\ driver[i] \notin cutOff
      => registry[i] \in {driver[i], Released}

\* A monitor nobody registered is touched by nobody, late answers and lost registries or not
\* (virtual_display.rs:1070).
ForeignStays == [][\A i \in Ids : driver[i] = Foreign => driver'[i] = Foreign]_vars

=============================================================================
