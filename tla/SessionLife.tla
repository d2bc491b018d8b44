------------------------------- MODULE SessionLife -------------------------------
(***************************************************************************)
(* What the Service promises the clients of its sessions, whichever of     *)
(* them ask for what at the same time and whatever fails: sessions follow  *)
(* one another, each with a number (a token, a wayvnc, a QR code) that no  *)
(* other ever had, none replaces another without an end in between, and a  *)
(* setup page is served for the session that runs or for none.             *)
(***************************************************************************)
EXTENDS Naturals

VARIABLES
    last,           \* the last number given out
    session,        \* the running session, 0 for none
    served          \* the session whose setup server stands, 0 for none

vars == <<last, session, served>>

Init == last = 0 /\ session = 0 /\ served = 0

\* start() succeeds.
Open ==
    /\ session = 0
    /\ last' = last + 1 /\ session' = last' /\ served' = last'

\* start() fails, or is cut short, and its number is lost.
Fail ==
    /\ session = 0
    /\ last' = last + 1
    /\ UNCHANGED <<session, served>>

\* stop() closes the setup server before it ends the session.
CloseServer ==
    /\ session # 0 /\ served' = 0
    /\ UNCHANGED <<last, session>>

\* The session ends: stop(), or the end of the process.
End ==
    /\ session # 0
    /\ session' = 0 /\ served' = 0
    /\ UNCHANGED last

Next == Open \/ Fail \/ CloseServer \/ End

Safety == Init /\ [][Next]_vars
================================================================================
