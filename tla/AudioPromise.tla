---------------------------- MODULE AudioPromise ----------------------------
(***************************************************************************)
(* What the host-wide audio capture promises the sessions that share it:   *)
(* the OS device is opened for the first listener and closed after the     *)
(* last one, it is one device however many listen, and nobody is a         *)
(* listener of a device that is not on.  AudioHub implements this with a   *)
(* mutex, a busy flag, a condition variable and a reference count          *)
(* (src-tauri/src/streamer/audio/mod.rs:192-336).                          *)
(***************************************************************************)
EXTENDS FiniteSets

CONSTANT Forwarders     \* the forwarder tasks that may want audio

VARIABLES listeners,    \* the forwarders counted as listening
          device        \* what the OS capture device is doing

vars == <<listeners, device>>

Device == {"off", "opening", "on", "closing"}

TypeOK == /\ listeners \subseteq Forwarders
          /\ device \in Device

Init == listeners = {} /\ device = "off"

Open == /\ device = "off"
        /\ device' = "opening"
        /\ UNCHANGED listeners

\* The device refused to open: nobody was promised anything.
Refuse == /\ device = "opening"
          /\ device' = "off"
          /\ UNCHANGED listeners

\* The opener is the first listener; the others join a device that is on.
Join(f) == /\ device \in {"opening", "on"}
           /\ f \notin listeners
           /\ listeners' = listeners \cup {f}
           /\ device' = "on"

Leave(f) == /\ device = "on"
            /\ f \in listeners
            /\ listeners' = listeners \ {f}
            /\ device' = IF listeners = {f} THEN "closing" ELSE "on"

Close == /\ device = "closing"
         /\ device' = "off"
         /\ UNCHANGED listeners

Next == \/ Open \/ Refuse \/ Close
        \/ \E f \in Forwarders : Join(f) \/ Leave(f)

Spec == Init /\ [][Next]_vars

=============================================================================
