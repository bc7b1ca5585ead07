---------------------------- MODULE MCComponents ----------------------------
(***************************************************************************)
(* Components whose promises are safety, each on its own: `part` says      *)
(* which one a behaviour is about, and the others keep their initial       *)
(* state.                                                                  *)
(***************************************************************************)
EXTENDS KeyframeGate, FiniteSets

CONSTANTS rtcp, task,
  SlotCount, Parts, Wrap, HistoryCap, TallyCap, LostCap, BroadcastCap, MaxFrames, MaxReports,
  RingCap, Block, MaxBlocks,
  Hosts, Foreign, Released, MaxId, MaxJobs, MaxLate,
  Devices, Requests, MaxAttempts, GlobalMax, Lockout, Window, Pause, MaxTicks, MaxWrong,
  Top, MaxHeard, MaxBlips, MaxSwitches, MaxRefused

\* The ring's counters wrap at a multiple of its size.  A limit is a number of codes, and
\* requests are finitely many.  Nobody's monitors are not a host's.
ASSUME ComponentsAssumption ==
  /\ RingCap \in Nat \ {0} /\ Block \in Nat /\ Wrap \in Nat /\ \E m \in 2..Wrap : Wrap = m * RingCap
  /\ {MaxAttempts, GlobalMax} \subseteq Nat \ {0} /\ {Lockout, Window, Pause} \subseteq Nat
  /\ IsFiniteSet(Requests) /\ None \notin Devices
  /\ MaxId \in Nat /\ Cardinality({None, Foreign, Released}) = 3
  /\ {None, Foreign, Released} \cap Hosts = {}

VARIABLES part,
  step, action, next, nextSlot, used, mapped, lost, slots, acked, ackedIndex, ltrSlots,
  repairWanted, markWanted, queue, writing, history, tallies, receipts, copied, sent, reports,
  reported,
  buf, head, tail, seq, pos, ns, prod, cons, accepted, taken, out, blocks, dated,
  driver, registry, lock, pc, owned, cache, keep, new, plan, pipe, replies, jobs, late, cutOff,
  astray, misfiled,
  clock, attempts, overall, request, wrong, guesses, locks, pauses,
  conn, blips, reader, losing, covered, missing, lags, delay, rr, bwe, lastRR, fresh, drained,
  over, rate, heard, moved, gone, acted, forwarder, fed, known, enabled, path, switched, refused

Repair == INSTANCE LossRepair
Sound  == INSTANCE AudioRing WITH Cap <- RingCap
Driver == INSTANCE SharedDriver
Codes  == INSTANCE JoinGate WITH now <- clock, MaxTime <- MaxTicks
Tasks  == INSTANCE SessionTasks WITH
            reported <- covered, lost <- missing, driver <- bwe, taken <- drained

\* The numbers of the packets that are remembered are all different.
ASSUME RepairAssumption ==
  /\ {HistoryCap, TallyCap, LostCap, BroadcastCap} \subseteq Nat \ {0}
  /\ Wrap \in Nat /\ 2 * HistoryCap <= Wrap

\* A monitor list is never taken for the request that has no list.
ASSUME ListsAssumption == None \notin Driver!Lists

ofRepair == <<step, action, next, nextSlot, used, mapped, lost, slots, acked, ackedIndex,
              ltrSlots, repairWanted, markWanted, queue, writing, history, tallies, receipts,
              copied, sent, reports, reported>>
ofSound  == <<buf, head, tail, seq, pos, ns, prod, cons, accepted, taken, out, blocks, dated>>
ofDriver == <<driver, registry, lock, pc, owned, cache, keep, new, plan, pipe, replies, jobs,
              late, cutOff, astray, misfiled>>
ofCodes  == <<clock, attempts, overall, request, wrong, guesses, locks, pauses>>
ofTasks  == <<conn, blips, reader, losing, covered, missing, lags, delay, rr, bwe, lastRR, fresh,
              drained, over, rate, heard, moved, gone, acted, forwarder, fed, known, enabled,
              path, switched, refused>>
all      == <<part, vars, ofRepair, ofSound, ofDriver, ofCodes, ofTasks>>

ComponentsInit ==
  /\ part \in {"keyframes", "repair", "sound", "driver", "codes", "bitrate"}
  /\ Driver!Init /\ (part # "driver" => driver = [i \in Driver!Ids |-> None])
  /\ Init /\ Repair!Init /\ Sound!Init /\ Codes!Init /\ Tasks!Init /\ enabled

KeyframesNext == part = "keyframes" /\ Next /\ UNCHANGED <<part, ofRepair, ofSound, ofDriver, ofCodes, ofTasks>>
RepairNext    == part = "repair" /\ Repair!Next /\ UNCHANGED <<part, vars, ofSound, ofDriver, ofCodes, ofTasks>>
SoundNext     == part = "sound" /\ Sound!Next /\ UNCHANGED <<part, vars, ofRepair, ofDriver, ofCodes, ofTasks>>
DriverNext    == part = "driver" /\ Driver!Next /\ UNCHANGED <<part, vars, ofRepair, ofSound, ofCodes, ofTasks>>
CodesNext     == part = "codes" /\ Codes!Next /\ UNCHANGED <<part, vars, ofRepair, ofSound, ofDriver, ofTasks>>

\* The bitrate driver beside the RTCP reader; the sound of SessionTasks is MCMedia's.
BitrateNext ==
  /\ part = "bitrate"
  /\ Tasks!Link \/ Tasks!Feedback \/ Tasks!Drive
  /\ UNCHANGED <<part, vars, ofRepair, ofSound, ofDriver, ofCodes>>

ComponentsNext ==
  KeyframesNext \/ RepairNext \/ SoundNext \/ DriverNext \/ CodesNext \/ BitrateNext

ComponentsSpec == ComponentsInit /\ [][ComponentsNext]_all

\* LossRepair
LostIsTrue == Repair!LostIsTrue

\* AudioRing
InOrder    == Sound!InOrder
AnchorTrue == Sound!AnchorTrue

\* SharedDriver
HostsKeepTheirs == Driver!HostsKeepTheirs
Reclaimable     == Driver!Reclaimable
ForeignStays    == Driver!ForeignStays

\* JoinGate
LockoutsEarned == Codes!LockoutsEarned

\* SessionTasks
ActsOnce == Tasks!ActsOnce

=============================================================================
