------------------------------ MODULE MCMedia -------------------------------
(***************************************************************************)
(* The transports of a join and the sound that goes over them: the hub the *)
(* forwarders of all sessions share, the two forwarders of one connection, *)
(* and the connections two offers of one join build, each on its own.      *)
(* `part` says which one a behaviour is about, and the others keep their   *)
(* initial state.                                                          *)
(***************************************************************************)
EXTENDS AudioHub

CONSTANTS Attempts, MaxBlips, Top, MaxHeard, MaxSwitches, MaxRefused

\* A join has finitely many offers.
ASSUME MediaAssumption == IsFiniteSet(Attempts) /\ None \notin Attempts

VARIABLES part,
  peer, blips, reader, losing, reported, lost, lags, delay, rr, driver, lastRR, fresh, taken,
  over, rate, heard, moved, gone, acted, forwarder, fed, known, enabled, path, switched, refused,
  at, seq, latest, conn, handler, old, reg, live, sent, left, closers, version, graces, up, last

Tasks == INSTANCE SessionTasks WITH conn <- peer
Join  == INSTANCE Transport

ofTasks == <<peer, blips, reader, losing, reported, lost, lags, delay, rr, driver, lastRR, fresh,
             taken, over, rate, heard, moved, gone, acted, forwarder, fed, known, enabled, path,
             switched, refused>>
ofJoin  == <<at, seq, latest, conn, handler, old, reg, live, sent, left, closers, version,
             graces, up, last>>
all     == <<part, vars, ofTasks, ofJoin>>

MediaInit ==
  /\ part \in {"hub", "tasks", "join"}
  /\ Init /\ (part # "hub" => \A f \in Forwarders : ~want[f])
  /\ Tasks!Init /\ (part # "tasks" => enabled)
  /\ Join!Init

\* A forwarder of the tasks' part.
Feeds(f)  == part = "tasks" /\ Tasks!Forward(f) /\ UNCHANGED <<part, vars, ofJoin>>

HubNext   == part = "hub" /\ Next /\ UNCHANGED <<part, ofTasks, ofJoin>>
TasksNext == part = "tasks" /\ (Tasks!Link \/ Tasks!Sound) /\ UNCHANGED <<part, vars, ofJoin>>
JoinNext  == part = "join" /\ Join!Next /\ UNCHANGED <<part, vars, ofTasks>>

MediaNext == HubNext \/ TasksNext \/ JoinNext

\* What is fair of the hub and the transports is idle in the other parts.
MediaSpec ==
  /\ MediaInit /\ [][MediaNext]_all
  /\ Fairness /\ Join!Fairness
  /\ \A f \in Tasks!Feeders : WF_all(Feeds(f))

\* SessionTasks
StepDownHeard == Tasks!StepDownHeard

\* Transport
RegistryTrue       == Join!RegistryTrue
OnlyReplacedClosed == Join!OnlyReplacedClosed
EndIsSeen          == Join!EndIsSeen
ReplacedGoes       == Join!ReplacedGoes

=============================================================================
