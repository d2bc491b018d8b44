---------------------------- MODULE MCDisplayService ----------------------------
(***************************************************************************)
(* Instances of DisplayService for TLC: which faults a run may meet.       *)
(***************************************************************************)
EXTENDS DisplayService

\* The failures start(), stop() and recovery are written for.
HandledFaults == {"lan", "hyprctl", "eval", "reapply", "cert", "spawn", "port",
                  "crash", "reboot"}

\* Everything at once, except a reboot.
OneUptime == AllFaults \ {"reboot"}
================================================================================
