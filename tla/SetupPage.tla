-------------------------------- MODULE SetupPage --------------------------------
(***************************************************************************)
(* setup_server.py, the page it serves (setup_page/index.html) and the two *)
(* Service methods a report reaches: tablets load the page of a session,   *)
(* report their screen over a connection that may outlive that session's   *)
(* server, and wait for the Service's lock while its other operations      *)
(* start and stop sessions.  A session's number stands for its token.      *)
(***************************************************************************)
EXTENDS Naturals

CONSTANTS
    Tablets,        \* browsers, each with one connection and one page
    MaxSessions     \* bound: sessions started

ASSUME SetupAssumption == MaxSessions \in Nat

VARIABLES
    \* the Service
    service,        \* its operation: "idle", or what it is about to do
    again,          \* does that operation start a session after stopping one?
    mode,           \* display_mode
    session,        \* the running session, 0 for none
    listening,      \* the session whose setup server accepts connections, or 0
    started,        \* sessions started so far
    size,           \* the last report applied: which page sent it, which session got it
    \* each tablet
    server,         \* the session whose server its connection leads to, 0: none
    thread,         \* the handler thread of that connection
    page,           \* the session whose page it shows
    shown           \* the status line of that page

serviceVars == <<service, again, mode, session, listening, started>>
tabletVars == <<server, thread, page, shown>>
vars == <<service, again, mode, session, listening, started, size, server, thread, page, shown>>

Init ==
    /\ service = "idle" /\ again = FALSE /\ mode \in {"extend", "mirror"}
    /\ session = 0 /\ listening = 0 /\ started = 0
    /\ size = [from |-> 0, to |-> 0]
    /\ server = [t \in Tablets |-> 0] /\ thread = [t \in Tablets |-> "reading"]
    /\ page = [t \in Tablets |-> 0] /\ shown = [t \in Tablets |-> "nothing"]

\* The RLock: an operation holds it to its end, a report while it resizes.
LockFree == service = "idle" /\ \A t \in Tablets : thread[t] # "resizing"

--------------------------------------------------------------------------------
(* Operations of other clients. *)

Begins(step) == LockFree /\ service' = step

StartSession ==
    /\ session = 0 /\ started < MaxSessions
    /\ Begins("serve")
    /\ UNCHANGED <<again, mode, session, listening, started, size, tabletVars>>

StopSession ==
    /\ session # 0
    /\ Begins("shutdown") /\ again' = FALSE
    /\ UNCHANGED <<mode, session, listening, started, size, tabletVars>>

\* A new password or user name, and a new mode, take the session down and up.
Restart ==
    /\ session # 0 /\ started < MaxSessions
    /\ Begins("shutdown") /\ again' = TRUE
    /\ mode' \in {"extend", "mirror"}
    /\ UNCHANGED <<session, listening, started, size, tabletVars>>

\* Nothing runs; or it does and the new mode cannot be saved (OSError), which ends
\* the operation before the restart: display_mode is then not that of the session.
SetMode ==
    /\ LockFree
    /\ mode' \in {"extend", "mirror"}
    /\ UNCHANGED <<service, again, session, listening, started, size, tabletVars>>

\* Mutant: the listening socket stays open.
CloseServerKeepsListening ==
    /\ service = "shutdown" /\ service' = "reset"
    /\ UNCHANGED <<again, mode, session, listening, started, size, tabletVars>>

\* SetupServer.stop() ends serve_forever and closes the listening socket; the
\* connections' threads are daemons, neither joined nor ended.
CloseServer ==
    /\ service = "shutdown" /\ service' = "reset"
    /\ listening' = 0
    /\ UNCHANGED <<again, mode, session, started, size, tabletVars>>

ResetSession ==
    /\ service = "reset" /\ service' = IF again THEN "serve" ELSE "idle"
    /\ session' = 0
    /\ UNCHANGED <<again, mode, listening, started, size, tabletVars>>

\* Mutant: the token is generated once, and kept by the Service.
OpenServerSameToken ==
    /\ service = "serve" /\ service' = "commit"
    /\ started' = 1 /\ listening' = started'
    /\ UNCHANGED <<again, mode, session, size, tabletVars>>

\* SetupServer.start() listens before start() has set the fields of the session.
OpenServer ==
    /\ service = "serve" /\ service' = "commit"
    /\ started' = started + 1 /\ listening' = started'
    /\ UNCHANGED <<again, mode, session, size, tabletVars>>

\* Mutant: a taken port is tried again with the lock held.
OpenServerRetries ==
    /\ service = "serve" /\ service' = "shutdown" /\ again' = TRUE
    /\ UNCHANGED <<mode, session, listening, started, size, tabletVars>>

\* The port was taken: no session.
OpenServerFails ==
    /\ service = "serve" /\ service' = "idle"
    /\ UNCHANGED <<again, mode, session, listening, started, size, tabletVars>>

CommitSession ==
    /\ service = "commit" /\ service' = "idle"
    /\ session' = listening
    /\ UNCHANGED <<again, mode, listening, started, size, tabletVars>>

Operate == CloseServer \/ ResetSession \/ OpenServer \/ OpenServerFails \/ CommitSession

--------------------------------------------------------------------------------
(* The tablet's side. *)

Connect(t) ==
    /\ server[t] = 0 /\ listening # 0
    /\ server' = [server EXCEPT ![t] = listening]
    /\ UNCHANGED <<serviceVars, size, thread, page, shown>>

\* GET /setup: the page embeds the token of the server that has the connection.
LoadPage(t) ==
    /\ server[t] # 0 /\ thread[t] = "reading" /\ shown[t] # "loading"
    /\ page' = [page EXCEPT ![t] = server[t]]
    /\ shown' = [shown EXCEPT ![t] = "loading"]
    /\ UNCHANGED <<serviceVars, size, server, thread>>

\* Mutant: the page does not catch what fetch() throws.
NoConnectionUncaught(t) ==
    /\ shown[t] = "loading" /\ server[t] = 0 /\ listening = 0
    /\ UNCHANGED vars

\* The report finds no server to connect to, or its connection breaks.
NoConnection(t) ==
    /\ shown[t] = "loading" /\ server[t] = 0 /\ listening = 0
    /\ shown' = [shown EXCEPT ![t] = "failed"]
    /\ UNCHANGED <<serviceVars, size, server, thread, page>>

Break(t) ==
    /\ server[t] # 0 /\ thread[t] = "reading"
    /\ server' = [server EXCEPT ![t] = 0]
    /\ UNCHANGED <<serviceVars, size, thread, page, shown>>

\* The response to a report; a connection that broke meanwhile ends.
Answer(t, verdict) ==
    /\ thread' = [thread EXCEPT ![t] = "reading"]
    /\ \/ shown' = [shown EXCEPT ![t] = verdict] /\ UNCHANGED server
       \/ shown' = [shown EXCEPT ![t] = "failed"] /\ server' = [server EXCEPT ![t] = 0]
    /\ UNCHANGED page

--------------------------------------------------------------------------------
(* The thread of the tablet's connection: do_POST and the report's handler. *)

Posted(t) == shown[t] = "loading" /\ server[t] # 0 /\ thread[t] = "reading"

\* 400 or 403: a value out of range, or the token of another session.
RefuseReport(t) ==
    /\ Posted(t)
    /\ Answer(t, "failed")
    /\ UNCHANGED <<serviceVars, size>>

\* Mutant: any report is let through.
AdmitAnyReport(t) ==
    /\ Posted(t)
    /\ thread' = [thread EXCEPT ![t] = "admitted"]
    /\ UNCHANGED <<serviceVars, size, server, page, shown>>

\* The token is the one of the server that has the connection.
AdmitReport(t) ==
    /\ Posted(t) /\ page[t] = server[t]
    /\ thread' = [thread EXCEPT ![t] = "admitted"]
    /\ UNCHANGED <<serviceVars, size, server, page, shown>>

\* While mirroring, or for more pixels than any display has: answered as if done.
IgnoreReport(t) ==
    /\ thread[t] = "admitted"
    /\ Answer(t, "resized")
    /\ UNCHANGED <<serviceVars, size>>

\* display_mode is read without the lock; set_resolution then waits for it.
QueueReport(t) ==
    /\ thread[t] = "admitted" /\ mode = "extend"
    /\ thread' = [thread EXCEPT ![t] = "waiting"]
    /\ UNCHANGED <<serviceVars, size, server, page, shown>>

\* ServiceError: not running, or mirroring by now.  do_POST logs it.
RejectReport(t) ==
    /\ thread[t] = "waiting" /\ LockFree /\ (session = 0 \/ mode = "mirror")
    /\ Answer(t, "resized")
    /\ UNCHANGED <<serviceVars, size>>

\* Mutant: the mode is not read again under the lock.
BeginResizeUnchecked(t) ==
    /\ thread[t] = "waiting" /\ LockFree /\ session # 0
    /\ thread' = [thread EXCEPT ![t] = "resizing"]
    /\ UNCHANGED <<serviceVars, size, server, page, shown>>

BeginResize(t) ==
    /\ thread[t] = "waiting" /\ LockFree /\ session # 0 /\ mode = "extend"
    /\ thread' = [thread EXCEPT ![t] = "resizing"]
    /\ UNCHANGED <<serviceVars, size, server, page, shown>>

\* hyprctl applied the size, or failed, which do_POST only logs.
EndResize(t) ==
    /\ thread[t] = "resizing"
    /\ Answer(t, "resized")
    /\ size' \in {size, [from |-> page[t], to |-> session]}
    /\ UNCHANGED serviceVars

Handle(t) ==
    \/ RefuseReport(t) \/ AdmitReport(t) \/ IgnoreReport(t) \/ QueueReport(t)
    \/ RejectReport(t) \/ BeginResize(t) \/ EndResize(t)

Next ==
    \/ StartSession \/ StopSession \/ Restart \/ SetMode \/ Operate
    \/ \E t \in Tablets : Connect(t) \/ LoadPage(t) \/ NoConnection(t) \/ Break(t) \/ Handle(t)

Spec == Init /\ [][Next]_vars

\* Threads run, one that waits for a lock others keep taking gets it sometime,
\* and a browser with a page to report for goes on trying.
Fairness ==
    /\ WF_vars(Operate)
    /\ \A t \in Tablets :
           SF_vars(Handle(t)) /\ SF_vars(shown[t] = "loading" /\ (Connect(t) \/ NoConnection(t)))

FairSpec == Spec /\ Fairness

--------------------------------------------------------------------------------
(* Properties. *)

TypeOK ==
    /\ service \in {"idle", "shutdown", "reset", "serve", "commit"} /\ again \in BOOLEAN
    /\ mode \in {"extend", "mirror"} /\ started \in 0..MaxSessions
    /\ session \in {0, started} /\ listening \in {0, started}
    /\ service = "idle" => listening = session
    /\ size \in [from: 0..started, to: 0..started]
    /\ server \in [Tablets -> 0..started] /\ page \in [Tablets -> 0..started]
    /\ thread \in [Tablets -> {"reading", "admitted", "waiting", "resizing"}]
    /\ shown \in [Tablets -> {"nothing", "loading", "resized", "failed"}]
    /\ \A t, u \in Tablets : thread[t] = "resizing" /\ thread[u] = "resizing" => t = u
    /\ \A t \in Tablets : thread[t] # "reading" => shown[t] = "loading"

\* However long a report waited after the mode was read without the lock, it only
\* resizes while a session runs and display_mode is "extend" (service.py:354,
\* 419-423).  After a mode that could not be saved the session may mirror all the
\* same (SetMode): PlacesOnlyOwn of DisplayService speaks of what is then resized.
ResizesOnlyExtended == [][size' # size => session # 0 /\ mode = "extend"]_vars

\* Whoever resizes a session holds the token of a setup page that was really served,
\* the one of the server its connection leads to, from this session or an earlier
\* one: the token check (setup_server.py:78-82) still stands when the report's turn
\* comes, however many sessions, servers and other reports passed since.
ReportsCarryToken ==
    [][size' # size =>
          \E t \in Tablets :
              /\ thread[t] = "resizing" /\ size'.from = server[t]
              /\ 0 < size'.from /\ size'.from <= size'.to /\ size'.to = session]_vars

\* The reduced Service keeps what the whole one promises: sessions follow one
\* another, each with a setup server of its own (service.py:278-313, 372-395).
Life == INSTANCE SessionLife WITH
    last <- IF service = "commit" THEN started - 1 ELSE started,
    session <- session,
    served <- IF service = "commit" THEN 0 ELSE listening

SessionsInTurn == Life!Safety

\* A stop or restart ends although reports wait for the lock it holds
\* (setup_server.py:116, 181-188).
OperationsEnd == service # "idle" ~> service = "idle"

\* A page that loaded ends up telling the tablet's user something, whatever
\* becomes of its session and its connection (index.html:271-279).
PageConcludes == \A t \in Tablets : shown[t] = "loading" ~> shown[t] # "loading"

\* "binds this report to the session whose setup page/QR code was actually
\* loaded" (index.html); "only someone with the *current* session's link can
\* produce a request the server accepts" (security.py:44-45).
OnlyCurrentReports == size.from = size.to
================================================================================
