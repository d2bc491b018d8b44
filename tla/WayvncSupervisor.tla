---------------------------- MODULE WayvncSupervisor ----------------------------
(***************************************************************************)
(* daemon/tabletdisplayd/wayvnc.py: one WayvncSupervisor object, from its  *)
(* construction in Service.start() to the return of its stop().  Three     *)
(* parties run concurrently: the Service thread that calls start() and     *)
(* stop() (the caller, holding the Service's RLock), the watcher thread,   *)
(* and the operating system's wayvnc processes.  Every `with self._lock`   *)
(* block is one action; what happens between two blocks is interleaved.    *)
(***************************************************************************)
EXTENDS Naturals, Sequences, FiniteSets

CONSTANTS
    MaxSpawns,      \* bound: wayvnc processes launched in one behaviour
    SpawnMayFail    \* may Popen raise OSError (ENOENT, EAGAIN, ENOMEM)?

ASSUME MaxSpawnsAssumption == MaxSpawns \in Nat \ {0}
ASSUME SpawnMayFailAssumption == SpawnMayFail \in BOOLEAN

VARIABLES
    want,           \* _want_running
    proc,           \* _proc: the number of a launched process, or NoProc
    respawns,       \* _respawn_count
    live,           \* the wayvnc processes of this supervisor that exist
    spawned,        \* how many were ever launched: they are 1..spawned
    watcher,        \* control point of _watch_loop
    watched,        \* its local `proc`
    delay,          \* its local `delay`
    caller,         \* control point of the thread calling start() and stop()
    victim,         \* stop()'s local `proc`
    svcLock         \* who holds the Service's RLock

procVars == <<live, spawned>>
watchVars == <<watcher, watched, delay>>
callVars == <<caller, victim>>
vars == <<want, proc, respawns, live, spawned, watcher, watched, delay,
          caller, victim, svcLock>>

NoProc == 0
Pids == 1..MaxSpawns

\* RESPAWN_BACKOFF_SECONDS and the delay the n-th respawn in a row waits.
RespawnBackoff == <<1, 2, 5, 10>>
\* Mutant: the table of delays starts over at its end.
BackoffIndexWraps(n) == n % 4
BackoffIndex(n) == IF n < 3 THEN n ELSE 3
DelayFor(n) == RespawnBackoff[BackoffIndex(n) + 1]

WatcherPoints == {"none", "top", "waiting", "sleeping", "notifying", "status", "done", "died"}
CallerPoints == {"new", "starting", "started", "terminate", "term", "kill", "join", "returned"}
Holders == {"free", "caller", "watcher", "other"}

Init ==
    /\ want = FALSE /\ proc = NoProc /\ respawns = 0
    /\ live = {} /\ spawned = 0
    /\ watcher = "none" /\ watched = NoProc /\ delay = 0
    /\ caller = "new" /\ victim = NoProc
    /\ svcLock = "free"

\* _spawn_locked when Popen succeeds.
Spawn ==
    /\ spawned < MaxSpawns
    /\ spawned' = spawned + 1
    /\ live' = live \union {spawned'}
    /\ proc' = spawned'

--------------------------------------------------------------------------------
(* The caller.  Service.start() and Service.stop() hold the RLock throughout. *)

\* start(): the process is launched and then the watcher thread.
Start ==
    /\ caller = "new" /\ svcLock = "free"
    /\ svcLock' = "caller" /\ caller' = "starting"
    /\ want' = TRUE /\ respawns' = 0
    /\ Spawn
    /\ watcher' = "top"
    /\ UNCHANGED <<watched, delay, victim>>

\* start() whose Popen raises: _want_running stays set, no thread is created,
\* and the Service's except clause is on its way to stop().
StartFails ==
    /\ SpawnMayFail
    /\ caller = "new" /\ svcLock = "free"
    /\ svcLock' = "caller" /\ caller' = "starting"
    /\ want' = TRUE /\ respawns' = 0
    /\ UNCHANGED <<proc, procVars, watchVars, victim>>

\* Service.start() succeeds and releases its lock.
StartReturns ==
    /\ caller = "starting" /\ watcher # "none"
    /\ caller' = "started" /\ svcLock' = "free"
    /\ UNCHANGED <<want, proc, respawns, procVars, watchVars, victim>>

\* Mutant: _want_running stays set.
StopCallKeepsWanting ==
    /\ caller = "starting" \/ (caller = "started" /\ svcLock = "free")
    /\ proc' = NoProc /\ victim' = proc
    /\ \/ proc # NoProc /\ caller' = "terminate" /\ svcLock' = "caller"
       \/ proc = NoProc /\ caller' = "returned" /\ svcLock' = "other"
    /\ UNCHANGED <<want, respawns, procVars, watchVars>>

\* stop()'s locked block, reached from Service.stop() or, with the lock still
\* held, from the except clause of Service.start().  With no process to
\* terminate it returns at once and joins nobody.
StopCall ==
    /\ \/ caller = "starting"
       \/ caller = "started" /\ svcLock = "free"
    /\ want' = FALSE /\ proc' = NoProc /\ victim' = proc
    /\ \/ proc # NoProc /\ caller' = "terminate" /\ svcLock' = "caller"
       \/ proc = NoProc /\ caller' = "returned" /\ svcLock' = "other"
    /\ UNCHANGED <<respawns, procVars, watchVars>>

\* proc.terminate(); a process that already exited is left alone.
Terminate ==
    /\ caller = "terminate"
    /\ caller' = "term"
    /\ UNCHANGED <<want, proc, respawns, procVars, watchVars, victim, svcLock>>

\* Mutant: proc.wait() without a timeout.
TerminateNeverTimesOut == FALSE /\ UNCHANGED vars

\* proc.wait(timeout=5) times out and proc.kill() is sent.
TerminateTimesOut ==
    /\ caller = "term" /\ victim \in live
    /\ caller' = "kill"
    /\ UNCHANGED <<want, proc, respawns, procVars, watchVars, victim, svcLock>>

\* Either wait returns: the process has exited.
VictimGone ==
    /\ caller \in {"term", "kill"} /\ victim \notin live
    /\ caller' = "join"
    /\ UNCHANGED <<want, proc, respawns, procVars, watchVars, victim, svcLock>>

\* thread.join(timeout=5) returns because the watcher ended, or because five
\* seconds passed: a watcher in on_death() waits for the lock this thread holds.
\* The Service goes on under its lock: to svcLock, one of its other operations.
JoinReturns ==
    /\ caller = "join" /\ watcher \in {"done", "died"}
    /\ caller' = "returned" /\ svcLock' = "other"
    /\ UNCHANGED <<want, proc, respawns, procVars, watchVars, victim>>

JoinTimesOut ==
    /\ caller = "join" /\ watcher \notin {"done", "died"}
    /\ caller' = "returned" /\ svcLock' = "other"
    /\ UNCHANGED <<want, proc, respawns, procVars, watchVars, victim>>

--------------------------------------------------------------------------------
(* The watcher thread. *)

\* The block at the top of the loop.
WatchTop ==
    /\ watcher = "top"
    /\ watched' = proc
    /\ watcher' = IF proc = NoProc \/ ~want THEN "done" ELSE "waiting"
    /\ UNCHANGED <<want, proc, respawns, procVars, delay, callVars, svcLock>>

\* proc.wait() has returned and stop() got in first: the thread ends.
WatchStopped ==
    /\ watcher = "waiting" /\ watched \notin live
    /\ ~want \/ proc # watched
    /\ watcher' = "done"
    /\ UNCHANGED <<want, proc, respawns, procVars, watched, delay, callVars, svcLock>>

\* Mutant: a death counts twice.
NoticeDeathCountsTwice(longLived) ==
    /\ watcher = "waiting" /\ watched \notin live
    /\ want /\ proc = watched
    /\ proc' = NoProc
    /\ delay' = DelayFor(respawns)
    /\ respawns' = IF longLived THEN 2 ELSE respawns + 2
    /\ watcher' = "sleeping"
    /\ UNCHANGED <<want, procVars, watched, callVars, svcLock>>

\* Mutant: the process is not waited for.
NoticeDeathWithoutWaiting(longLived) ==
    /\ watcher = "waiting"
    /\ want /\ proc = watched
    /\ proc' = NoProc
    /\ delay' = DelayFor(respawns)
    /\ respawns' = IF longLived THEN 1 ELSE respawns + 1
    /\ watcher' = "sleeping"
    /\ UNCHANGED <<want, procVars, watched, callVars, svcLock>>

\* proc.wait() has returned although the process is still wanted.
NoticeDeath(longLived) ==
    /\ watcher = "waiting" /\ watched \notin live
    /\ want /\ proc = watched
    /\ proc' = NoProc
    /\ LET count == IF longLived THEN 0 ELSE respawns IN
           /\ delay' = DelayFor(count)
           /\ respawns' = count + 1
    /\ watcher' = "sleeping"
    /\ UNCHANGED <<want, procVars, watched, callVars, svcLock>>

\* Uptime above RESPAWN_RESET_AFTER_SECONDS starts the backoff over.
WatchNoticesDeath == \E longLived \in BOOLEAN : NoticeDeath(longLived)

\* The sleep is over and stop() was called meanwhile.
WatchGivesUp ==
    /\ watcher = "sleeping" /\ ~want
    /\ watcher' = "done"
    /\ UNCHANGED <<want, proc, respawns, procVars, watched, delay, callVars, svcLock>>

\* Mutant: _want_running is not read again after the sleep.
WatchRespawnsUnchecked ==
    /\ watcher = "sleeping"
    /\ Spawn
    /\ watcher' = "notifying"
    /\ UNCHANGED <<want, respawns, watched, delay, callVars, svcLock>>

\* The sleep is over: launch the process again.
WatchRespawns ==
    /\ watcher = "sleeping" /\ want
    /\ Spawn
    /\ watcher' = "notifying"
    /\ UNCHANGED <<want, respawns, watched, delay, callVars, svcLock>>

\* Popen raises in the watcher thread: nothing catches it, the thread is gone.
RespawnFails ==
    /\ SpawnMayFail
    /\ watcher = "sleeping" /\ want
    /\ watcher' = "died"
    /\ UNCHANGED <<want, proc, respawns, procVars, watched, delay, callVars, svcLock>>

\* on_death() is Service._notify: it reads the status under the Service's lock.
NotifyTakesLock ==
    /\ watcher = "notifying" /\ svcLock = "free"
    /\ watcher' = "status" /\ svcLock' = "watcher"
    /\ UNCHANGED <<want, proc, respawns, procVars, watched, delay, callVars>>

\* The status is read and broadcast.  A write to a subscriber has no timeout
\* (ipc_server.py:116-127): StatusFeed models what it may wait for.
NotifyReturns ==
    /\ watcher = "status"
    /\ watcher' = "top" /\ svcLock' = "free"
    /\ UNCHANGED <<want, proc, respawns, procVars, watched, delay, callVars>>

--------------------------------------------------------------------------------
(* The operating system and the daemon's other threads. *)

\* wayvnc exits on its own (DPMS, screen lock, a crash).  Unexpected deaths stop
\* when only one launch is left, so that the bound never blocks a respawn.
Dies ==
    \E p \in live :
        /\ p = proc /\ spawned < MaxSpawns
        /\ live' = live \ {p}
        /\ UNCHANGED <<want, proc, respawns, spawned, watchVars, callVars, svcLock>>

\* wayvnc exits because of SIGTERM or SIGKILL, or just before either arrives.
VictimExits ==
    /\ caller \in {"terminate", "term", "kill"} /\ victim \in live
    /\ live' = live \ {victim}
    /\ UNCHANGED <<want, proc, respawns, spawned, watchVars, callVars, svcLock>>

\* An IPC or HTTP handler thread is inside a Service method.
OtherTakesLock ==
    /\ svcLock = "free"
    /\ svcLock' = "other"
    /\ UNCHANGED <<want, proc, respawns, procVars, watchVars, callVars>>

OtherReleases ==
    /\ svcLock = "other"
    /\ svcLock' = "free"
    /\ UNCHANGED <<want, proc, respawns, procVars, watchVars, callVars>>

Watch == WatchTop \/ WatchStopped \/ WatchNoticesDeath \/ WatchGivesUp
         \/ WatchRespawns \/ RespawnFails \/ NotifyReturns

Calls == StartReturns \/ Terminate \/ VictimGone \/ JoinReturns \/ JoinTimesOut

Next ==
    \/ Start \/ StartFails \/ StopCall \/ TerminateTimesOut \/ Calls
    \/ Watch \/ NotifyTakesLock
    \/ Dies \/ VictimExits \/ OtherTakesLock \/ OtherReleases

Spec == Init /\ [][Next]_vars

\* A thread that can run does, a signalled process exits (SIGKILL cannot be
\* refused), a start() whose Popen failed goes on to stop().  The watcher gets
\* the Service's lock even though others keep taking it: strong fairness.  All of
\* this assumes that subscribers read what is broadcast to them, or go away.
\* Nothing makes wayvnc die, and nothing makes a client ask for a stop.
Fairness ==
    /\ WF_vars(Watch)
    /\ SF_vars(NotifyTakesLock)
    /\ WF_vars(Calls)
    /\ WF_vars(StopCall /\ caller = "starting" /\ watcher = "none")
    /\ WF_vars(TerminateTimesOut)
    /\ WF_vars(VictimExits /\ caller = "kill")
    /\ WF_vars(OtherReleases)

FairSpec == Spec /\ Fairness

--------------------------------------------------------------------------------
(* Properties. *)

\* Types, with the numbering of processes: nothing names a process that was
\* never launched, and the watcher never counts more deaths than launches.
TypeOK ==
    /\ want \in BOOLEAN
    /\ spawned \in 0..MaxSpawns
    /\ live \subseteq 1..spawned
    /\ proc \in 0..spawned /\ watched \in 0..spawned /\ victim \in 0..spawned
    /\ respawns \in 0..spawned
    /\ delay \in {0, 1, 2, 5, 10}
    /\ watcher \in WatcherPoints
    /\ caller \in CallerPoints
    /\ svcLock \in Holders

\* When stop() has returned no wayvnc of this supervisor exists, whatever the
\* watcher was doing when stop() was called (stop, wayvnc.py:63-79, against the
\* recheck of _want_running after the sleep, wayvnc.py:124-127).  tests/run.sh
\* keeps a pkill in case one outlives stop().
NoSurvivor == caller = "returned" => live = {}

\* Two wayvncs of one supervisor never exist together: they would fight over
\* the port and the control socket.
OneProcess == \A p, q \in live : p = q

\* Waits between respawns only grow while deaths keep coming, and start over
\* only with the first death after a long-lived process (wayvnc.py:112-116).
BackoffOnlyGrows == [][delay' < delay => respawns' = 1]_vars

\* After stop() was called the watcher thread ends, also when stop() gave up
\* waiting for it or never joined it.  (A Popen that failed has ended it already.)
WatcherEnds == (watcher # "none" /\ caller = "returned") ~> (watcher \in {"done", "died"})

\* "an unexpected wayvnc exit while the daemon still wants the session running
\* [is] a transient fault: it respawns" (wayvnc.py:5-8).
RespawnedAfterDeath == (want /\ live = {}) ~> (~want \/ live # {})

\* Seen from the Service, the three threads and their timeouts are one process
\* that is up while wanted and gone after stop().
Promise == INSTANCE SupervisedProcess WITH
    phase <- CASE caller = "new" -> "new"
               [] caller \in {"starting", "started"} -> "wanted"
               [] caller \in {"terminate", "term", "kill", "join"} -> "stopping"
               [] OTHER -> "stopped",
    running <- live # {}

KeepsPromiseSafely == Promise!Safety

\* stop() returns, whatever its waits and joins run into, and a wanted process
\* comes back unless Popen failed under the watcher (RespawnedAfterDeath).
KeepsPromise ==
    /\ Promise!Stops
    /\ (want /\ live = {}) ~> (~want \/ live # {} \/ watcher = "died")
================================================================================
