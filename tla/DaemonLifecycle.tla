---------------------------- MODULE DaemonLifecycle ----------------------------
(***************************************************************************)
(* main.py, the listening side of ipc_server.py and protocol.py, and the   *)
(* systemd unit: daemon processes that recover, take over the Unix socket, *)
(* answer clients, and end by SIGTERM or a kill, while the handler threads *)
(* of open connections go on.  A display session (DisplayService) is one   *)
(* number here: what a start creates and a stop or a recovery removes.     *)
(***************************************************************************)
EXTENDS Naturals

CONSTANTS
    Daemons,        \* processes: the systemd unit's, others started by hand
    Unit,           \* the one systemd starts again after a failure
    Conns,          \* client connections
    Nobody, Stale,  \* what else the socket path may stand for
    MaxSessions,    \* bound: display sessions
    MaxEnds         \* bound: signals and kills

ASSUME LifecycleAssumption ==
    /\ Unit \in Daemons
    /\ Nobody \notin Daemons \union Conns /\ Stale \notin Daemons /\ Nobody # Stale
    /\ MaxSessions \in Nat /\ MaxEnds \in Nat

VARIABLES
    main,           \* control point of each daemon's main thread
    path,           \* whose socket the path names, Nobody (no file), or Stale
    conn,           \* each connection: the daemon, and what its thread is doing
    lock,           \* the connection whose thread holds a daemon's Service lock
    session,        \* the session each Service runs, 0 for none
    recorded,       \* the session session.json names, 0 for none
    exist,          \* sessions whose output or wayvnc exist
    cut,            \* sessions whose start ended before session.json named them
    overlap,        \* was a daemon ever launched while another one was up?
    sessions, ends

displayVars == <<session, recorded, exist, cut, sessions>>
history == <<overlap, ends>>
vars == <<main, path, conn, lock, session, recorded, exist, cut, overlap, sessions, ends>>

Points == {"off", "failed", "recover", "probe", "unlink", "bind", "listen", "started",
           "serving", "stopping", "closing", "unlinking", "exiting"}

\* The request lines a handler tells apart: what json.loads or dispatch()
\* rejects without the lock, and the methods by what they do to a session.
\* "resize" is any method with an exception that dispatch() does not name.
Rejected == {"garbage", "not_a_request", "bad_version", "unknown_method"}
Requests == Rejected \union {"status", "resize", "start", "stop"}

\* A connection on which nothing has been started.
Link(d, step, r) == [to |-> d, step |-> step, request |-> r, made |-> 0]
Closed == Link(Nobody, "closed", "status")
Opened(d) == Link(d, "open", "status")

\* serve_forever() accepts connections.
Accepting(d) == main[d] \in {"started", "serving", "stopping", "closing"}

\* A connect to the path succeeds.
SomebodyListens == path \in Daemons /\ Accepting(path)

Init ==
    /\ main = [d \in Daemons |-> "off"] /\ path \in {Nobody, Stale}
    /\ conn = [c \in Conns |-> Closed] /\ lock = [d \in Daemons |-> Nobody]
    /\ session = [d \in Daemons |-> 0] /\ recorded = 0
    /\ exist = {} /\ cut = {} /\ overlap = FALSE /\ sessions = 0 /\ ends = 0

Goes(d, from, to) == main[d] = from /\ main' = [main EXCEPT ![d] = to]

\* The process ends: its sockets close, its threads and memory are gone, its
\* files stay, and with them the output of a session.
ProcessEnds(d, to) ==
    /\ main' = [main EXCEPT ![d] = to]
    /\ path' = IF path = d THEN Stale ELSE path
    /\ conn' = [c \in Conns |-> IF conn[c].to = d THEN Closed ELSE conn[c]]
    /\ lock' = [lock EXCEPT ![d] = Nobody] /\ session' = [session EXCEPT ![d] = 0]
    /\ cut' = cut \union ({conn[c].made : c \in {b \in Conns : conn[b].to = d}} \ {0})
    /\ UNCHANGED <<recorded, exist, overlap, sessions>>

--------------------------------------------------------------------------------
(* The main thread, run(): recovery, the socket, and the way out. *)

Launch(d) ==
    /\ main[d] \in {"off", "failed"}
    /\ main' = [main EXCEPT ![d] = "recover"]
    /\ overlap' = (overlap \/ \E e \in Daemons : main[e] \notin {"off", "failed"})
    /\ UNCHANGED <<path, conn, lock, displayVars, ends>>

\* Mutant: session.json is deleted and the output left.
RecoverForgets(d) ==
    /\ Goes(d, "recover", "probe")
    /\ recorded' = 0
    /\ UNCHANGED <<path, conn, lock, session, exist, cut, sessions, history>>

\* recover_from_previous_run (the recovery steps of DisplayService).
Recover(d) ==
    /\ Goes(d, "recover", "probe")
    /\ exist' = exist \ {recorded} /\ recorded' = 0
    /\ UNCHANGED <<path, conn, lock, session, cut, sessions, history>>

\* _bind: a path nobody listens on may be removed.
ProbeFree(d) ==
    /\ ~SomebodyListens
    /\ Goes(d, "probe", IF path = Nobody THEN "bind" ELSE "unlink")
    /\ UNCHANGED <<path, conn, lock, displayVars, history>>

\* "IPC socket already in use".
ProbeInUse(d) ==
    /\ main[d] = "probe" /\ SomebodyListens
    /\ ProcessEnds(d, "failed") /\ UNCHANGED ends

\* Mutant: the stale file is left where it is.
RemoveStaleLeaves(d) ==
    /\ Goes(d, "unlink", "bind")
    /\ UNCHANGED <<path, conn, lock, displayVars, history>>

\* os.remove(path), whatever the path names by now.
RemoveStale(d) ==
    /\ path # Nobody
    /\ Goes(d, "unlink", "bind")
    /\ path' = Nobody
    /\ UNCHANGED <<conn, lock, displayVars, history>>

\* A bind to a free path creates it; listen() follows.
Bind(d) ==
    /\ path = Nobody
    /\ Goes(d, "bind", "listen")
    /\ path' = d
    /\ UNCHANGED <<conn, lock, displayVars, history>>

\* FileNotFoundError from the remove, or OSError from the bind, ends run().
TakeoverFails(d) ==
    /\ \/ main[d] = "unlink" /\ path = Nobody
       \/ main[d] = "bind" /\ path # Nobody
    /\ ProcessEnds(d, "failed") /\ UNCHANGED ends

\* serve_forever's thread starts, then the signal handlers are installed.
Serve(d) ==
    /\ Goes(d, "listen", "started") \/ Goes(d, "started", "serving")
    /\ UNCHANGED <<path, conn, lock, displayVars, history>>

\* What svc.stop() does once it has the lock (StopSteps of DisplayService).  Without a
\* session it returns at once, or, after a start that failed, it still deletes
\* session.json, which may by then be another daemon's.
StopSession(d) ==
    /\ session' = [session EXCEPT ![d] = 0]
    /\ exist' = exist \ {session[d]}
    /\ recorded' \in IF session[d] = 0 THEN {recorded, 0} ELSE {0}
    /\ UNCHANGED <<cut, sessions>>

\* Mutant: the path is removed before the listener is closed.
StopServiceUnlinks(d) ==
    /\ lock[d] = Nobody
    /\ Goes(d, "stopping", "closing")
    /\ StopSession(d) /\ path' = Nobody
    /\ UNCHANGED <<conn, lock, history>>

StopService(d) ==
    /\ lock[d] = Nobody
    /\ Goes(d, "stopping", "closing")
    /\ StopSession(d)
    /\ UNCHANGED <<path, conn, lock, history>>

\* server.shutdown() and server_close(): the connections' threads go on.
CloseListener(d) ==
    /\ Goes(d, "closing", "unlinking")
    /\ path' = IF path = d THEN Stale ELSE path
    /\ UNCHANGED <<conn, lock, displayVars, history>>

RemovePath(d) ==
    /\ Goes(d, "unlinking", "exiting")
    /\ path' = Nobody
    /\ UNCHANGED <<conn, lock, displayVars, history>>

Exit(d) == main[d] = "exiting" /\ ProcessEnds(d, "off") /\ UNCHANGED ends

MainSteps(d) ==
    \/ Recover(d) \/ ProbeFree(d) \/ ProbeInUse(d) \/ RemoveStale(d) \/ Bind(d)
    \/ TakeoverFails(d) \/ Serve(d) \/ CloseListener(d) \/ RemovePath(d) \/ Exit(d)

--------------------------------------------------------------------------------
(* Connections: the client's side, and the handler thread with dispatch(). *)

Connect(c) ==
    /\ conn[c] = Closed /\ SomebodyListens
    /\ conn' = [conn EXCEPT ![c] = Opened(path)]
    /\ UNCHANGED <<main, path, lock, displayVars, history>>

Ask(c) ==
    /\ conn[c].step = "open"
    /\ \E r \in Requests : conn' = [conn EXCEPT ![c] = Link(conn[c].to, "asked", r)]
    /\ UNCHANGED <<main, path, lock, displayVars, history>>

HangUp(c) ==
    /\ conn[c].step = "open"
    /\ conn' = [conn EXCEPT ![c] = Closed]
    /\ UNCHANGED <<main, path, lock, displayVars, history>>

\* The response is written and the next line read, or the connection ends: the
\* client is gone, or the handler raised what dispatch() does not catch.
Reply(c) ==
    \E next \in {Closed, Opened(conn[c].to)} : conn' = [conn EXCEPT ![c] = next]

Asked(c, requests) == conn[c].step = "asked" /\ conn[c].request \in requests
TakesLock(c, requests) == Asked(c, requests) /\ lock[conn[c].to] = Nobody

\* A line that is no JSON is skipped, a bad request is answered with an error.
Reject(c) ==
    /\ Asked(c, Rejected)
    /\ Reply(c)
    /\ UNCHANGED <<main, path, lock, displayVars, history>>

\* The lock is taken and released; nothing is started or stopped.
Look(c) ==
    /\ TakesLock(c, {"status", "resize"})
    /\ Reply(c)
    /\ UNCHANGED <<main, path, lock, displayVars, history>>

AnswerStop(c) ==
    /\ TakesLock(c, {"stop"})
    /\ Reply(c)
    /\ StopSession(conn[c].to)
    /\ UNCHANGED <<main, path, lock, history>>

StartAgain(c) ==
    /\ TakesLock(c, {"start"}) /\ session[conn[c].to] # 0
    /\ Reply(c)
    /\ UNCHANGED <<main, path, lock, displayVars, history>>

\* Mutant: start() does not take the lock.
BeginStartUnlocked(c) ==
    /\ TakesLock(c, {"start"}) /\ session[conn[c].to] = 0
    /\ conn' = [conn EXCEPT ![c].step = "starting"]
    /\ UNCHANGED <<main, path, lock, displayVars, history>>

\* start() proper: nothing asks whether the daemon is on its way out.
BeginStart(c) ==
    /\ TakesLock(c, {"start"}) /\ session[conn[c].to] = 0
    /\ lock' = [lock EXCEPT ![conn[c].to] = c]
    /\ conn' = [conn EXCEPT ![c].step = "starting"]
    /\ UNCHANGED <<main, path, displayVars, history>>

CreateDisplay(c) ==
    /\ conn[c].step = "starting" /\ conn[c].made = 0 /\ sessions < MaxSessions
    /\ sessions' = sessions + 1 /\ exist' = exist \union {sessions'}
    /\ conn' = [conn EXCEPT ![c].made = sessions']
    /\ UNCHANGED <<main, path, lock, session, recorded, cut, history>>

Unlock(c) == lock' = [lock EXCEPT ![conn[c].to] = Nobody]

\* Mutant: the lock is not released when start() fails.
StartFailsLocked(c) ==
    /\ conn[c].step = "starting"
    /\ Reply(c)
    /\ exist' = exist \ {conn[c].made}
    /\ UNCHANGED <<main, path, lock, session, recorded, cut, sessions, history>>

StartFails(c) ==
    /\ conn[c].step = "starting"
    /\ Reply(c) /\ Unlock(c)
    /\ exist' = exist \ {conn[c].made}
    /\ UNCHANGED <<main, path, session, recorded, cut, sessions, history>>

RecordDisplay(c) ==
    /\ conn[c].step = "starting" /\ conn[c].made # 0
    /\ Reply(c) /\ Unlock(c)
    /\ session' = [session EXCEPT ![conn[c].to] = conn[c].made]
    /\ recorded' = conn[c].made
    /\ UNCHANGED <<main, path, exist, cut, sessions, history>>

Answers(c) == Reject(c) \/ Look(c) \/ AnswerStop(c) \/ StartAgain(c) \/ BeginStart(c)
Starts(c) == CreateDisplay(c) \/ StartFails(c) \/ RecordDisplay(c)

--------------------------------------------------------------------------------
(* Signals and kills. *)

\* SIGTERM with the handlers installed sets stop_event.
Terminate(d) ==
    /\ ends < MaxEnds /\ ends' = ends + 1
    /\ Goes(d, "serving", "stopping")
    /\ UNCHANGED <<path, conn, lock, displayVars, overlap>>

\* SIGTERM before that, which systemd takes for a clean end, or a kill.
Kill(d, to) ==
    /\ ends < MaxEnds /\ ends' = ends + 1
    /\ main[d] \notin {"off", "failed"}
    /\ to = "off" => main[d] \in {"recover", "probe", "unlink", "bind", "listen", "started"}
    /\ ProcessEnds(d, to)

Next ==
    \/ \E d \in Daemons :
           Launch(d) \/ MainSteps(d) \/ StopService(d) \/ Terminate(d)
           \/ Kill(d, "off") \/ Kill(d, "failed")
    \/ \E c \in Conns : Connect(c) \/ Ask(c) \/ HangUp(c) \/ Answers(c) \/ Starts(c)

Spec == Init /\ [][Next]_vars

\* Threads run, whoever waits for a lock that others keep taking gets it
\* sometime, and systemd starts a failed unit again (Restart=on-failure).  A start
\* also broadcasts with the lock held, without a timeout (ipc_server.py:116-127):
\* subscribers are assumed to read or to go away (see StatusFeed).
Fairness ==
    /\ \A d \in Daemons : WF_vars(MainSteps(d)) /\ SF_vars(StopService(d))
    /\ \A c \in Conns : SF_vars(Answers(c)) /\ WF_vars(Starts(c))
    /\ WF_vars(main[Unit] = "failed" /\ Launch(Unit))

FairSpec == Spec /\ Fairness

--------------------------------------------------------------------------------
(* Properties. *)

TypeOK ==
    /\ main \in [Daemons -> Points] /\ path \in Daemons \union {Nobody, Stale}
    /\ conn \in [Conns -> [to: Daemons \union {Nobody},
                           step: {"closed", "open", "asked", "starting"},
                           request: Requests, made: 0..sessions]]
    /\ \A d \in Daemons, c \in Conns :
           lock[d] = c <=> conn[c].step = "starting" /\ conn[c].to = d
    /\ lock \in [Daemons -> Conns \union {Nobody}]
    /\ session \in [Daemons -> 0..sessions] /\ recorded \in 0..sessions
    /\ exist \subseteq 1..sessions /\ cut \subseteq 1..sessions
    /\ overlap \in BOOLEAN
    /\ sessions \in 0..MaxSessions /\ ends \in 0..MaxEnds

\* A daemon that serves finds nothing of its predecessors: what a start request
\* leaves behind after svc.stop() (main.py:41), or a kill, is removed before the
\* socket opens, unless it was cut before session.json named it.
ServesClean ==
    \A d \in Daemons : ~overlap /\ Accepting(d) /\ lock[d] = Nobody
                           => exist \ cut = {session[d]} \ {0}

\* A daemon that accepts connections is the one the path leads to, whatever its
\* predecessors left there and wherever they were killed: probe, remove, bind and
\* listen are separate calls, and so are close and remove (ipc_server.py:84-106).
\* Daemons up at once may take the path from each other.
FoundAtPath == \A d \in Daemons : ~overlap /\ Accepting(d) => path = d

\* A session a daemon believes to run is there: recovery is for "state left behind
\* by an unclean daemon exit" (service.py:126-129).
SessionKept == \A d \in Daemons : session[d] # 0 => session[d] \in exist

\* A unit that failed is back and found at the socket path, whatever the dead
\* process left there, unless it is ended on purpose (ipc_server.py:94-106).
ListensAgain ==
    main[Unit] = "failed"
        ~> (main[Unit] = "serving" /\ path = Unit) \/ main[Unit] = "off" \/ overlap

\* Every request is answered or its connection closed, also while the daemon
\* shuts down or dies, and a shutdown ends although requests keep coming.
RequestsEnd ==
    /\ \A c \in Conns : conn[c].step \in {"asked", "starting"}
                            ~> conn[c].step \in {"open", "closed"}
    /\ \A d \in Daemons : main[d] = "stopping" ~> main[d] \in {"off", "failed"}
================================================================================
