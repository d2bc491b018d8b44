---------------------------- MODULE SessionLifeProofs ----------------------------
(***************************************************************************)
(* DisplayService implements SessionLife, for every set of outputs,        *)
(* preferences and requests, all bounds, and whichever calls fail: two     *)
(* sessions never meet, and no number is used twice.                       *)
(***************************************************************************)
EXTENDS DisplayServiceProofs

\* No setup server stands without a session, nor one of another session.
PageOfSession ==
    /\ sessions \in Nat
    /\ setup \in {0, sessions}
    /\ state # "running" => setup = 0

\* start() finds no session, and serves the one it has just numbered.
NextInTurn ==
    /\ Starting => state # "running"
    /\ pc = "serve" => supervisor = sessions /\ sessions # 0

LifeInv == Continues /\ PageOfSession /\ NextInTurn

\* What every step does to a session: it leaves it and its number as they are,
\* numbers the next one, opens it, loses its number, closes its setup server, or
\* ends it.
Serving == pc = "serve"
Live == state = "running"
Untouched == sessions' = sessions /\ Serving' = Serving /\ Live' = Live /\ setup' = setup
Numbered == /\ ~Live /\ ~Live' /\ ~Serving /\ Serving'
            /\ sessions' = sessions + 1 /\ setup' = setup
Opened == /\ ~Live /\ Live' /\ Serving /\ ~Serving'
          /\ sessions' = sessions /\ setup' = sessions
Lost == ~Live /\ ~Live' /\ Serving /\ ~Serving' /\ sessions' = sessions /\ setup' = 0
Closed == /\ ~Serving /\ ~Serving' /\ Live' = Live
          /\ sessions' = sessions /\ setup' = 0
Ended == ~Serving /\ ~Serving' /\ ~Live' /\ sessions' = sessions /\ setup' = 0

Turn == Untouched \/ Numbered \/ Opened \/ Lost \/ Closed \/ Ended

USE DEF serviceVars, localVars, fileVars, procVars, hyprVars, Continues, Saving

LEMMA InitLife == Init => LifeInv /\ Life!Init
BY DEF Init, LifeInv, PageOfSession, NextInTurn, Life!Init

\* The steps of start().
LEMMA StartStepsLife == LifeInv /\ StartSteps => LifeInv' /\ Turn
<1> SUFFICES ASSUME LifeInv, StartSteps PROVE LifeInv' /\ Turn
    OBVIOUS
<1> USE DEF OnlyControl, OnlyLocals, GoTo, Release, DropLocals, LifeInv, PageOfSession,
            NextInTurn, Starting, Turn, Serving, Live
<1>1. CASE ProbeNetwork
    BY <1>1 DEF ProbeNetwork, Untouched
<1>2. CASE PickFocused \/ NothingFocused \/ ReadSource
    BY <1>2 DEF PickFocused, NothingFocused, ReadSource, Untouched
<1>3. CASE ListBefore \/ CreateOutput \/ CreateTimesOut
    BY <1>3 DEF ListBefore, CreateOutput, CreateTimesOut, Untouched
<1>4. CASE NameOutput \/ AmbiguousOutput \/ SetInitialMode \/ InitialModeFails
    BY <1>4 DEF NameOutput, AmbiguousOutput, SetInitialMode, InitialModeFails, Untouched
<1>5. CASE KeepPassword \/ GeneratePassword \/ WriteConfig
    BY <1>5 DEF KeepPassword, GeneratePassword, WriteConfig, Untouched
<1>6. CASE SpawnWayvnc
    BY <1>6 DEF SpawnWayvnc, Numbered
<1>7. CASE Commit
    BY <1>7 DEF Commit, Opened
<1>8. CASE OpenSession \/ RecordSession \/ RecordFails
    BY <1>8 DEF OpenSession, RecordSession, RecordFails, Untouched
<1>9. CASE QrFails
    BY <1>9 DEF QrFails, Lost
<1>10. CASE CallFails
    BY <1>10 DEF CallFails, FailsAt, Untouched, Lost
<1>11. ASSUME NEW removed \in BOOLEAN, CleanUpStart(removed) PROVE LifeInv' /\ Turn
    BY <1>11 DEF CleanUpStart, Untouched
<1> QED BY <1>1, <1>2, <1>3, <1>4, <1>5, <1>6, <1>7, <1>8, <1>9, <1>10, <1>11 DEF StartSteps

\* The steps of stop(), and the restart that may follow.
LEMMA StopStepsLife == LifeInv /\ StopSteps => LifeInv' /\ Turn
<1> SUFFICES ASSUME LifeInv, StopSteps PROVE LifeInv' /\ Turn
    OBVIOUS
<1> USE DEF GoTo, Release, DropLocals, LifeInv, PageOfSession, NextInTurn, Starting, Turn,
            Serving, Live
<1>1. CASE StopServers
    BY <1>1 DEF StopServers, Closed
<1>2. ASSUME NEW removed \in BOOLEAN, RemoveOwned(removed) PROVE LifeInv' /\ Turn
    BY <1>2 DEF RemoveOwned, Untouched
<1>3. CASE ClearSession
    BY <1>3 DEF ClearSession, ForgetFields, Ended
<1>4. CASE ClearFails
    BY <1>4 DEF ClearFails, ForgetFields, ProcessEnds, DropLocals, Untouched, Ended
<1> QED BY <1>1, <1>2, <1>3, <1>4 DEF StopSteps

\* Saving, applying and recovering leave sessions alone, whether they fail or not.
LEMMA OtherStepsLife == LifeInv /\ (SavingSteps \/ RecoverySteps) => LifeInv' /\ Turn
<1> SUFFICES ASSUME LifeInv, SavingSteps \/ RecoverySteps PROVE LifeInv' /\ Turn
    OBVIOUS
<1> USE DEF GoTo, OnlyControl, OnlyLocals, Release, DropLocals, LifeInv, PageOfSession,
            NextInTurn, Starting, Turn, Serving, Live, Untouched
<1>1. CASE OpenSettings \/ Saved \/ SaveFails
    BY <1>1 DEF OpenSettings, Saved, SaveFails
<1>2. CASE ApplyPosition \/ ApplyFails
    BY <1>2 DEF ApplyPosition, ApplyFails
<1>3. CASE Boot \/ ReadSession
    BY <1>3 DEF Boot, Load, ReadSession
<1>4. CASE KillOrphan \/ ForgetSession
    BY <1>4 DEF KillOrphan, ForgetSession
<1>6. CASE ForgetFails
    BY <1>6 DEF ForgetFails, ForgetFields, ProcessEnds, Ended
<1>5. ASSUME NEW removed \in BOOLEAN, RemoveStale(removed) PROVE LifeInv' /\ Turn
    BY <1>5 DEF RemoveStale
<1> QED BY <1>1, <1>2, <1>3, <1>4, <1>5, <1>6 DEF SavingSteps, RecoverySteps

\* A request only begins an operation, and a resize is no new session.
LEMMA RequestsLife == LifeInv /\ Requests => LifeInv' /\ Turn
<1> SUFFICES ASSUME LifeInv, Requests PROVE LifeInv' /\ Turn
    OBVIOUS
<1> USE DEF GoTo, OnlyControl, OnlyLocals, DropLocals, LifeInv, PageOfSession, NextInTurn,
            Starting, Turn, Serving, Live, Untouched
<1>1. ASSUME NEW m, Start(m) PROVE LifeInv' /\ Turn
    BY <1>1 DEF Start
<1>2. CASE Stop
    BY <1>2 DEF Stop
<1>3. CASE Launch
    BY <1>3 DEF Launch, Load
<1>4. ASSUME NEW p, SaveAndRestart(p) PROVE LifeInv' /\ Turn
    BY <1>4 DEF SaveAndRestart, Save
<1>5. ASSUME NEW p, SetPosition(p) PROVE LifeInv' /\ Turn
    BY <1>5 DEF SetPosition, Save
<1>6. ASSUME NEW m, NEW s, Resize(m, s) \/ ResizeFails(m, s) PROVE LifeInv' /\ Turn
    BY <1>6 DEF Resize, ResizeFails, Extending
<1>7. ASSUME NEW m, NEW s, AcceptReport(m, s) PROVE LifeInv' /\ Turn
    BY <1>7 DEF AcceptReport
<1>8. ASSUME NEW r, IgnoreReport(r) PROVE LifeInv' /\ Turn
    BY <1>8 DEF IgnoreReport
<1> QED
    BY <1>1, <1>2, <1>3, <1>4, <1>5, <1>6, <1>7, <1>8
    DEF Requests, SetDisplayMode, SetPassword, SetUsername, SetResolution, ApplyReport

\* Every step keeps the invariant, and takes sessions one step on in their turn.
LEMMA NextLife == LifeInv /\ [Next]_vars => LifeInv' /\ Turn
<1> SUFFICES ASSUME LifeInv, [Next]_vars PROVE LifeInv' /\ Turn
    OBVIOUS
<1> USE DEF LifeInv, PageOfSession, NextInTurn, Starting, Turn, Serving, Live
<1>1. CASE HotPlugs
    BY <1>1 DEF HotPlugs, Untouched
<1>2. CASE Exit \/ Crash \/ Reboot
    BY <1>2 DEF Exit, Crash, Reboot, ProcessEnds, DropLocals, ForgetFields, Lost, Ended
<1>3. CASE UNCHANGED vars
    BY <1>3 DEF vars, Untouched
<1> QED
    BY <1>1, <1>2, <1>3, StartStepsLife, StopStepsLife, OtherStepsLife, RequestsLife
    DEF Next, Steps

\* Such a step is one of SessionLife, or none of its variables changes.
LEMMA TurnSimulates == LifeInv /\ LifeInv' /\ Turn => [Life!Next]_(Life!vars)
<1> SUFFICES ASSUME LifeInv, LifeInv', Turn PROVE [Life!Next]_(Life!vars)
    OBVIOUS
<1> USE DEF LifeInv, PageOfSession, NextInTurn, Starting, Serving, Live, Life!vars, Life!Next
<1>1. CASE Untouched
    BY <1>1 DEF Untouched
<1>2. CASE Numbered
    BY <1>2 DEF Numbered
<1>3. CASE Opened
    BY <1>3 DEF Opened, Life!Open
<1>4. CASE Lost
    BY <1>4 DEF Lost, Life!Fail
<1>5. CASE Closed
    BY <1>5 DEF Closed, Life!CloseServer
<1>6. CASE Ended
    BY <1>6 DEF Ended, Life!End
<1> QED BY <1>1, <1>2, <1>3, <1>4, <1>5, <1>6 DEF Turn

\* The Service keeps its promise: whatever requests, kills and failing calls come in
\* whatever order, sessions follow one another under numbers used once.
THEOREM ServiceKeepsTurn == Spec => SessionsInTurn
<1>1. Init => LifeInv /\ Life!Init
    BY InitLife
<1>2. LifeInv /\ [Next]_vars => LifeInv' /\ [Life!Next]_(Life!vars)
    BY NextLife, TurnSimulates
<1> QED BY <1>1, <1>2, PTL DEF Spec, SessionsInTurn, Life!Safety
================================================================================
