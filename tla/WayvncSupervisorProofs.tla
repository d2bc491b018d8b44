------------------------- MODULE WayvncSupervisorProofs -------------------------
(***************************************************************************)
(* For every MaxSpawns, and whether Popen may fail or not: a supervisor    *)
(* has at most one wayvnc, none once stop() has returned, its backoff only *)
(* grows, and every step of it is a step of SupervisedProcess.             *)
(***************************************************************************)
EXTENDS WayvncSupervisor, TLAPS

\* Where the caller stands, without its exact control point.
BeforeStop == caller \in {"starting", "started"}
Stopping == caller \in {"terminate", "term", "kill", "join", "returned"}

\* Nothing exists before start().
NothingYet ==
    caller = "new" => /\ ~want /\ proc = NoProc /\ victim = NoProc
                      /\ live = {} /\ watcher = "none" /\ respawns = 0 /\ delay = 0

\* _want_running is set between start() and stop(), and only then is _proc.
WantedBeforeStop == (want <=> BeforeStop) /\ (proc # NoProc => want)

\* A process is known to the supervisor or to the stop() that terminates it.
Accounted ==
    /\ victim # NoProc => Stopping
    /\ IF proc # NoProc THEN live \subseteq {proc} ELSE live \subseteq {victim}
    /\ caller \in {"join", "returned"} => live = {}

\* The watcher waits for a process, and while it sleeps _proc is None.
SleepsAlone ==
    /\ watcher = "waiting" => watched # NoProc
    /\ watcher = "sleeping" => proc = NoProc

\* The delay is the one of the last death, and each death had a launch.
DelayOfCount ==
    /\ delay = IF respawns = 0 THEN 0 ELSE DelayFor(respawns - 1)
    /\ proc # NoProc => respawns < spawned

IInv == /\ TypeOK
        /\ NothingYet
        /\ WantedBeforeStop
        /\ Accounted
        /\ SleepsAlone
        /\ DelayOfCount

USE DEF NoProc, procVars, watchVars, callVars

--------------------------------------------------------------------------------
\* The table of delays: each delay is an entry of RESPAWN_BACKOFF_SECONDS.
LEMMA DelayForType == \A n \in Nat : DelayFor(n) \in {1, 2, 5, 10}
<1> SUFFICES ASSUME NEW n \in Nat PROVE DelayFor(n) \in {1, 2, 5, 10}
    OBVIOUS
<1>1. CASE n = 0 BY <1>1 DEF DelayFor, BackoffIndex, RespawnBackoff
<1>2. CASE n = 1 BY <1>2 DEF DelayFor, BackoffIndex, RespawnBackoff
<1>3. CASE n = 2 BY <1>3 DEF DelayFor, BackoffIndex, RespawnBackoff
<1>4. CASE n >= 3 BY <1>4 DEF DelayFor, BackoffIndex, RespawnBackoff
<1> QED BY <1>1, <1>2, <1>3, <1>4

\* One more death in a row never waits less.
LEMMA DelayForGrows == \A n \in Nat \ {0} : DelayFor(n - 1) <= DelayFor(n)
<1> SUFFICES ASSUME NEW n \in Nat \ {0} PROVE DelayFor(n - 1) <= DelayFor(n)
    OBVIOUS
<1>1. CASE n = 1 BY <1>1 DEF DelayFor, BackoffIndex, RespawnBackoff
<1>2. CASE n = 2 BY <1>2 DEF DelayFor, BackoffIndex, RespawnBackoff
<1>3. CASE n = 3 BY <1>3 DEF DelayFor, BackoffIndex, RespawnBackoff
<1>4. CASE n > 3 BY <1>4 DEF DelayFor, BackoffIndex, RespawnBackoff
<1> QED BY <1>1, <1>2, <1>3, <1>4

--------------------------------------------------------------------------------
LEMMA InitInv == Init => IInv
<1> SUFFICES ASSUME Init PROVE IInv
    OBVIOUS
<1> USE DEF Init
<1>1. TypeOK
  <2>1. want \in BOOLEAN /\ live \subseteq 1..spawned
      OBVIOUS
  <2>2. /\ spawned \in 0..MaxSpawns /\ respawns \in 0..spawned
        /\ proc \in 0..spawned /\ watched \in 0..spawned /\ victim \in 0..spawned
      BY MaxSpawnsAssumption
  <2> QED BY <2>1, <2>2 DEF TypeOK, WatcherPoints, CallerPoints, Holders
<1>2. NothingYet /\ SleepsAlone
    BY DEF NothingYet, SleepsAlone
<1>3. WantedBeforeStop
    BY DEF WantedBeforeStop, BeforeStop
<1>4. Accounted /\ DelayOfCount
    BY DEF Accounted, DelayOfCount, Stopping
<1> QED BY <1>1, <1>2, <1>3, <1>4 DEF IInv

\* The steps of the thread in start() and stop() keep the invariant.
LEMMA CallerInv ==
    ASSUME IInv, Start \/ StartFails \/ StopCall \/ TerminateTimesOut \/ Calls
    PROVE  IInv'
<1> USE MaxSpawnsAssumption DEF IInv, TypeOK, NothingYet, WantedBeforeStop, Accounted,
        SleepsAlone, DelayOfCount, BeforeStop, Stopping,
        WatcherPoints, CallerPoints, Holders
<1>1. CASE Start BY <1>1 DEF Start, Spawn
<1>2. CASE StartFails BY <1>2 DEF StartFails
<1>3. CASE StopCall
  <2>1. CASE proc = NoProc
    <3>1. live = {} /\ victim = NoProc
        BY <1>3, <2>1 DEF StopCall
    <3> QED BY <1>3, <2>1, <3>1 DEF StopCall
  <2>2. CASE proc # NoProc BY <1>3, <2>2 DEF StopCall
  <2> QED BY <2>1, <2>2
<1>4. CASE TerminateTimesOut BY <1>4 DEF TerminateTimesOut
<1>5. CASE StartReturns BY <1>5 DEF StartReturns
<1>6. CASE Terminate BY <1>6 DEF Terminate
<1>7. CASE VictimGone BY <1>7 DEF VictimGone
<1>8. CASE JoinReturns BY <1>8 DEF JoinReturns
<1>9. CASE JoinTimesOut BY <1>9 DEF JoinTimesOut
<1> QED BY <1>1, <1>2, <1>3, <1>4, <1>5, <1>6, <1>7, <1>8, <1>9 DEF Calls

\* A death noticed while wayvnc is wanted: the one action that counts and waits.
LEMMA NoticeDeathInv == ASSUME IInv, WatchNoticesDeath PROVE IInv'
<1>1. PICK longLived \in BOOLEAN : NoticeDeath(longLived)
    BY DEF WatchNoticesDeath
<1> DEFINE count == IF longLived THEN 0 ELSE respawns
<1>2. count \in Nat /\ count <= respawns /\ respawns < spawned /\ spawned \in Nat
  <2>1. spawned \in Nat /\ respawns \in Nat
      BY MaxSpawnsAssumption DEF IInv, TypeOK
  <2>2. respawns < spawned
      BY <1>1 DEF IInv, NoticeDeath, DelayOfCount, SleepsAlone
  <2> QED BY <2>1, <2>2
<1>3. delay' = DelayFor(count) /\ respawns' = count + 1 /\ proc' = NoProc
      /\ watcher' = "sleeping"
    BY <1>1 DEF NoticeDeath
<1>4. DelayFor(count) \in {1, 2, 5, 10}
    BY <1>2, DelayForType
<1>5. TypeOK'
    BY <1>1, <1>2, <1>3, <1>4, MaxSpawnsAssumption
       DEF IInv, TypeOK, NoticeDeath, WatcherPoints
<1>6. DelayOfCount'
  <2>1. respawns' # 0 /\ respawns' - 1 = count
      BY <1>2, <1>3
  <2> QED BY <2>1, <1>3 DEF DelayOfCount
<1>7. NothingYet' /\ WantedBeforeStop' /\ Accounted' /\ SleepsAlone'
    BY <1>1, <1>3 DEF IInv, NothingYet, WantedBeforeStop, Accounted, SleepsAlone,
       BeforeStop, Stopping, NoticeDeath
<1> QED BY <1>5, <1>6, <1>7 DEF IInv

\* The other steps of the watcher keep the invariant.
LEMMA WatcherInv == ASSUME IInv, Watch \/ NotifyTakesLock PROVE IInv'
<1> USE MaxSpawnsAssumption DEF IInv, TypeOK, NothingYet, WantedBeforeStop, Accounted,
        SleepsAlone, DelayOfCount, BeforeStop, Stopping,
        WatcherPoints, CallerPoints, Holders
<1>1. CASE WatchTop BY <1>1 DEF WatchTop
<1>2. CASE WatchStopped BY <1>2 DEF WatchStopped
<1>3. CASE WatchNoticesDeath BY <1>3, NoticeDeathInv
<1>4. CASE WatchGivesUp BY <1>4 DEF WatchGivesUp
<1>5. CASE WatchRespawns BY <1>5 DEF WatchRespawns, Spawn
<1>6. CASE RespawnFails BY <1>6 DEF RespawnFails
<1>7. CASE NotifyReturns BY <1>7 DEF NotifyReturns
<1>8. CASE NotifyTakesLock BY <1>8 DEF NotifyTakesLock
<1> QED BY <1>1, <1>2, <1>3, <1>4, <1>5, <1>6, <1>7, <1>8 DEF Watch

\* So do the operating system and the other threads.
LEMMA SystemInv ==
    ASSUME IInv, Dies \/ VictimExits \/ OtherTakesLock \/ OtherReleases
    PROVE  IInv'
<1> USE DEF IInv, TypeOK, NothingYet, WantedBeforeStop, Accounted,
        SleepsAlone, DelayOfCount, BeforeStop, Stopping, Holders
<1>1. CASE Dies BY <1>1 DEF Dies
<1>2. CASE VictimExits BY <1>2 DEF VictimExits
<1>3. CASE OtherTakesLock BY <1>3 DEF OtherTakesLock
<1>4. CASE OtherReleases BY <1>4 DEF OtherReleases
<1> QED BY <1>1, <1>2, <1>3, <1>4

\* A step that changes nothing keeps the invariant.
LEMMA StutterInv == ASSUME IInv, UNCHANGED vars PROVE IInv'
  BY DEF IInv, TypeOK, NothingYet, WantedBeforeStop, Accounted, SleepsAlone,
     DelayOfCount, BeforeStop, Stopping, vars

THEOREM InvariantHolds == Spec => []IInv
<1>1. ASSUME IInv, [Next]_vars PROVE IInv'
    BY <1>1, CallerInv, WatcherInv, SystemInv, StutterInv DEF Next
<1> QED BY <1>1, InitInv, PTL DEF Spec

\* Every variable keeps its type (and every process number was launched).
THEOREM TypeCorrect == Spec => []TypeOK
<1>1. IInv => TypeOK BY DEF IInv
<1> QED BY <1>1, InvariantHolds, PTL

\* No wayvnc of this supervisor exists once stop() has returned (wayvnc.py:63-79).
THEOREM StopLeavesNothing == Spec => []NoSurvivor
<1>1. IInv => NoSurvivor BY DEF IInv, Accounted, NoSurvivor
<1> QED BY <1>1, InvariantHolds, PTL

\* A supervisor never has two wayvncs (wayvnc.py:105-127).
THEOREM NeverTwo == Spec => []OneProcess
<1>1. IInv => OneProcess
  <2> SUFFICES ASSUME IInv, NEW p \in live, NEW q \in live PROVE p = q
      BY DEF OneProcess
  <2> QED BY DEF IInv, Accounted
<1> QED BY <1>1, InvariantHolds, PTL

\* The wait before a respawn shrinks only after a long-lived process (wayvnc.py:112-116).
THEOREM BackoffGrows == Spec => BackoffOnlyGrows
<1>1. ASSUME IInv, [Next]_vars PROVE delay' < delay => respawns' = 1
  <2>1. CASE WatchNoticesDeath
    <3>1. PICK longLived \in BOOLEAN : NoticeDeath(longLived)
        BY <2>1 DEF WatchNoticesDeath
    <3>2. CASE longLived \/ respawns = 0
        BY <1>1, <3>1, <3>2 DEF NoticeDeath
    <3>3. CASE ~longLived /\ respawns # 0
      <4>1. delay' = DelayFor(respawns) /\ delay = DelayFor(respawns - 1)
          BY <1>1, <3>1, <3>3 DEF NoticeDeath, IInv, DelayOfCount
      <4>2. respawns \in Nat \ {0}
          BY <1>1, <3>3, MaxSpawnsAssumption DEF IInv, TypeOK
      <4>3. delay <= delay'
          BY <4>1, <4>2, DelayForGrows
      <4>4. delay \in {0, 1, 2, 5, 10} /\ delay' \in {1, 2, 5, 10}
          BY <1>1, <4>1, <4>2, DelayForType DEF IInv, TypeOK
      <4> QED BY <4>3, <4>4
    <3> QED BY <3>2, <3>3
  <2>2. CASE ~WatchNoticesDeath
    <3>1. delay' = delay
        BY <1>1, <2>2 DEF Next, vars, Start, StartFails, StopCall, TerminateTimesOut, Calls,
           StartReturns, Terminate, VictimGone, JoinReturns, JoinTimesOut, Watch, WatchTop,
           WatchStopped, WatchGivesUp, WatchRespawns, RespawnFails, NotifyReturns,
           NotifyTakesLock, Dies, VictimExits, OtherTakesLock, OtherReleases
    <3> QED BY <1>1, <3>1 DEF IInv, TypeOK
  <2> QED BY <2>1, <2>2
<1>2. ASSUME IInv, [Next]_vars PROVE [delay' < delay => respawns' = 1]_vars
    BY <1>1, <1>2
<1> QED BY <1>2, InvariantHolds, PTL DEF Spec, BackoffOnlyGrows

--------------------------------------------------------------------------------
\* The refinement: what a step of the supervisor looks like from the Service.
LEMMA InitRefines == Init => Promise!Init
  BY DEF Init, Promise!Init

\* The steps of start() and stop().
LEMMA CallerRefines ==
    ASSUME IInv, Start \/ StartFails \/ StopCall \/ TerminateTimesOut \/ Calls
    PROVE  [Promise!Next]_(Promise!vars)
<1> USE DEF Promise!Next, Promise!vars
<1>1. CASE Start
  <2>1. live' # {} /\ caller' = "starting" /\ caller = "new"
      BY <1>1 DEF Start, Spawn
  <2> QED BY <2>1 DEF Promise!Start
<1>2. CASE StartFails
  <2>1. caller' = "starting" /\ caller = "new"
      BY <1>2 DEF StartFails
  <2> QED BY <2>1 DEF Promise!Start
<1>3. CASE StopCall
  <2>1. live' = live /\ caller \in {"starting", "started"}
      BY <1>3 DEF StopCall
  <2>2. CASE proc # NoProc
    <3>1. caller' = "terminate"
        BY <1>3, <2>2 DEF StopCall
    <3> QED BY <2>1, <3>1 DEF Promise!StopCalled
  <2>3. CASE proc = NoProc
    <3>1. caller' = "returned"
        BY <1>3, <2>3 DEF StopCall
    <3>2. victim = NoProc /\ live \subseteq {NoProc}
        BY <2>1, <2>3 DEF IInv, Accounted, Stopping
    <3>3. live = {}
        BY <3>2, MaxSpawnsAssumption DEF IInv, TypeOK
    <3> QED BY <2>1, <3>1, <3>3 DEF Promise!StopCalled
  <2> QED BY <2>2, <2>3
<1>4. CASE TerminateTimesOut BY <1>4 DEF TerminateTimesOut
<1>5. CASE StartReturns BY <1>5 DEF StartReturns
<1>6. CASE Terminate BY <1>6 DEF Terminate
<1>7. CASE VictimGone BY <1>7 DEF VictimGone
<1>8. CASE JoinReturns
  <2>1. live = {} /\ live' = live /\ caller = "join" /\ caller' = "returned"
      BY <1>8 DEF JoinReturns, IInv, Accounted
  <2> QED BY <2>1 DEF Promise!StopReturns
<1>9. CASE JoinTimesOut
  <2>1. live = {} /\ live' = live /\ caller = "join" /\ caller' = "returned"
      BY <1>9 DEF JoinTimesOut, IInv, Accounted
  <2> QED BY <2>1 DEF Promise!StopReturns
<1> QED BY <1>1, <1>2, <1>3, <1>4, <1>5, <1>6, <1>7, <1>8, <1>9 DEF Calls

\* Of the watcher's steps only a respawn can be seen from outside.
LEMMA WatcherRefines ==
    ASSUME IInv, Watch \/ NotifyTakesLock
    PROVE  [Promise!Next]_(Promise!vars)
<1> USE DEF Promise!Next, Promise!vars
<1>1. CASE WatchRespawns
  <2>1. live' # {} /\ caller' = caller /\ want /\ proc = NoProc
      BY <1>1 DEF WatchRespawns, Spawn, IInv, SleepsAlone
  <2>2. caller \in {"starting", "started"} /\ victim = NoProc
      BY <2>1 DEF IInv, WantedBeforeStop, BeforeStop, Accounted, Stopping
  <2>3. live = {}
      BY <2>1, <2>2, MaxSpawnsAssumption DEF IInv, TypeOK, Accounted
  <2> QED BY <2>1, <2>2, <2>3 DEF Promise!Respawn
<1>2. CASE WatchNoticesDeath BY <1>2 DEF WatchNoticesDeath, NoticeDeath
<1>3. CASE ~WatchRespawns /\ ~WatchNoticesDeath
    BY <1>3 DEF Watch, WatchTop, WatchStopped, WatchGivesUp, RespawnFails,
       NotifyReturns, NotifyTakesLock
<1> QED BY <1>1, <1>2, <1>3

\* A process that exits leaves none; the lock is invisible.
LEMMA SystemRefines ==
    ASSUME IInv, Dies \/ VictimExits \/ OtherTakesLock \/ OtherReleases
    PROVE  [Promise!Next]_(Promise!vars)
<1> USE DEF Promise!Next, Promise!vars
<1>1. CASE Dies
  <2>1. live # {} /\ live' = {} /\ caller' = caller
      BY <1>1 DEF Dies, IInv, Accounted
  <2> QED BY <2>1 DEF Promise!Exit
<1>2. CASE VictimExits
  <2>1. live # {} /\ live' = {} /\ caller' = caller
      BY <1>2 DEF VictimExits, IInv, Accounted, WantedBeforeStop, BeforeStop, Stopping
  <2> QED BY <2>1 DEF Promise!Exit
<1>3. CASE OtherTakesLock \/ OtherReleases BY <1>3 DEF OtherTakesLock, OtherReleases
<1> QED BY <1>1, <1>2, <1>3

\* WayvncSupervisor implements SupervisedProcess: in particular nothing is ever
\* launched after stop() was called.
THEOREM Refinement == Spec => KeepsPromiseSafely
<1>1. ASSUME IInv, [Next]_vars PROVE [Promise!Next]_(Promise!vars)
  <2>1. CASE UNCHANGED vars BY <2>1 DEF vars, Promise!vars
  <2> QED BY <1>1, <2>1, CallerRefines, WatcherRefines, SystemRefines DEF Next
<1> QED BY <1>1, InitRefines, InvariantHolds, PTL
        DEF Spec, KeepsPromiseSafely, Promise!Safety
================================================================================
