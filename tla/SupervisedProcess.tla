--------------------------- MODULE SupervisedProcess ---------------------------
(***************************************************************************)
(* What a WayvncSupervisor promises the Service that owns it, whatever     *)
(* threads and timeouts it uses inside: one process, brought back while it *)
(* is wanted (unless it cannot be launched any more), and gone for good    *)
(* once stop() has returned.                                               *)
(***************************************************************************)
VARIABLES
    phase,          \* "new", "wanted", "stopping", "stopped"
    running         \* is there a wayvnc process of this supervisor?

vars == <<phase, running>>

Init == phase = "new" /\ running = FALSE

\* start() launches the process, or its Popen raises and none exists.
Start ==
    /\ phase = "new"
    /\ phase' = "wanted"
    /\ running' \in BOOLEAN

\* The process exits, by itself or because stop() made it.
Exit ==
    /\ running
    /\ running' = FALSE
    /\ UNCHANGED phase

\* A wanted process that died is launched again.
Respawn ==
    /\ phase = "wanted" /\ ~running
    /\ running' = TRUE
    /\ UNCHANGED phase

\* stop() is called: from here on nothing is launched any more.
StopCalled ==
    /\ phase = "wanted"
    /\ phase' \in {"stopping", "stopped"}
    /\ phase' = "stopped" => ~running
    /\ UNCHANGED running

\* stop() returns: the process is gone.
StopReturns ==
    /\ phase = "stopping" /\ ~running
    /\ phase' = "stopped"
    /\ UNCHANGED running

Next == Start \/ Exit \/ Respawn \/ StopCalled \/ StopReturns

Safety == Init /\ [][Next]_vars

\* A wanted process comes back, and stop() returns.
Restored == (phase = "wanted" /\ ~running) ~> (running \/ phase # "wanted")
Stops == (phase = "stopping") ~> (phase = "stopped")

Spec == Safety /\ Restored /\ Stops
================================================================================
