-------------------------- MODULE ServiceFaultsProofs --------------------------
(***************************************************************************)
(* What holds of the Service whatever fails, for every set of outputs,     *)
(* preferences and requests and all bounds: a session that runs is served  *)
(* as if nothing else had been left behind; and which failures, of all,    *)
(* can leave something behind.                                             *)
(***************************************************************************)
EXTENDS SessionLifeProofs, SessionInventoryProofs

USE DEF serviceVars, localVars, fileVars, procVars, hyprVars, Continues, Saving

--------------------------------------------------------------------------------
(* A session that runs is served. *)

\* What holds whatever fails: types, ownership, sessions in their turn.
Base == Typed /\ OwnInv /\ LifeInv

LEMMA InitBase == Init => Base
BY InitTyped, InitOwn, InitLife DEF Base

LEMMA NextBase == Base /\ [Next]_vars => Base'
BY NextTyped, NextOwn, NextLife DEF Base

\* The one wayvnc numbered s captures o with the credentials of the file.
TheOne(s, o) ==
    /\ [sid |-> s, out |-> o, conf |-> conf] \in vncs
    /\ \A v \in vncs : v.sid = s => v = [sid |-> s, out |-> o, conf |-> conf]

\* A session nobody has begun to stop.
Standing == state = "running" /\ wayvnc # 0

\* start() knows the output it builds on.
Building == pc \in {"mode", "config", "cert", "spawn", "serve"} \/ (Saving /\ goto = "cert")

\* The daemon is not up, or has not yet recovered.
NotUp == pc \in {"off", "down", "recover", "killing", "unplug", "forget"}

ServedInv ==
    /\ pc = "serve" => TheOne(supervisor, made)
    /\ pc \in {"record", "recording"} => supervisor # 0
    /\ pc \in {"removing", "clearing"} => wayvnc = 0
    /\ Standing => TheOne(wayvnc, output_name) /\ setup = wayvnc
    /\ state = "running" /\ wayvnc = 0
          => setup = 0 /\ (pc \in {"removing", "clearing"} \/ "unlink" \in Faults)
    /\ Building /\ made_owned => made \in monitors
    /\ Standing /\ owns_output => output_name \in monitors

\* session.json is there for a session that runs, or for recovery to read.
FileInv ==
    /\ state = "running" => sessionFile \in {NoSession, TornSession, SessionOf(output_name, owns_output)}
    /\ pc \in {"record", "recording"} => state = "running"
    /\ pc = "recording" => sessionFile.found
    /\ sessionFile.found => state = "running" \/ NotUp
    /\ ~sessionFile.found => sessionFile = NoSession

LEMMA InitServed == Init => ServedInv /\ FileInv
BY DEF Init, ServedInv, FileInv, Standing, Building, NotUp, NoSession

\* start() up to wayvnc: nothing of a session changes, and there is none.
LEMMA BuildKeeps ==
    ASSUME Base, ServedInv, FileInv,
           \/ ProbeNetwork \/ PickFocused \/ NothingFocused \/ ReadSource \/ ListBefore
           \/ CreateOutput \/ CreateTimesOut \/ NameOutput \/ AmbiguousOutput
           \/ SetInitialMode \/ InitialModeFails
           \/ KeepPassword \/ GeneratePassword \/ WriteConfig \/ CallFails
    PROVE  ServedInv' /\ FileInv'
<1> USE DEF OnlyControl, OnlyLocals, GoTo
<1>1. /\ Starting /\ UNCHANGED <<state, sessionFile>>
      /\ pc' \notin {"serve", "record", "recording", "removing", "clearing"}
      /\ ~NotUp
    BY DEF ProbeNetwork, PickFocused, NothingFocused, ReadSource, ListBefore, CreateOutput,
           CreateTimesOut, NameOutput, AmbiguousOutput, SetInitialMode, InitialModeFails,
           KeepPassword, GeneratePassword, WriteConfig, CallFails, FailsAt, Starting, NotUp
<1>2. state # "running" /\ state' # "running"
    BY <1>1 DEF Base, LifeInv, NextInTurn
<1>3. Building' /\ made_owned' => made' \in monitors'
    <2>1. CASE ProbeNetwork \/ PickFocused \/ NothingFocused \/ ListBefore \/ CreateOutput
               \/ CreateTimesOut \/ InitialModeFails
        BY <2>1
           DEF ProbeNetwork, PickFocused, NothingFocused, ListBefore, CreateOutput,
               CreateTimesOut, InitialModeFails, Building
    <2>2. CASE ReadSource \/ NameOutput \/ AmbiguousOutput
        BY <2>2 DEF ReadSource, NameOutput, AmbiguousOutput, Building
    <2>3. CASE SetInitialMode \/ KeepPassword \/ GeneratePassword \/ WriteConfig
        <3>1. Building /\ UNCHANGED <<made, made_owned, monitors>>
            BY <2>3
               DEF SetInitialMode, SetMonitorMode, KeepPassword, GeneratePassword, WriteConfig,
                   Building
        <3> QED BY <3>1 DEF ServedInv
    <2>4. CASE CallFails
        BY <2>4 DEF CallFails, FailsAt, Building
    <2> QED BY <2>1, <2>2, <2>3, <2>4
<1> QED BY <1>1, <1>2, <1>3 DEF ServedInv, FileInv, Standing, NotUp

\* The number of the new wayvnc is nobody else's.
LEMMA SpawnServes ==
    ASSUME Base, ServedInv, FileInv, SpawnWayvnc
    PROVE  ServedInv' /\ FileInv'
<1> USE DEF SpawnWayvnc, GoTo
<1>1. state # "running" /\ state' # "running" /\ pc = "spawn" /\ pc' = "serve"
    BY DEF Base, LifeInv, NextInTurn, Starting
<1>2. \A v \in vncs : v.sid # sessions + 1
    BY DEF Base, Typed, StoredTypes, ServiceTypes
<1>3. TheOne(supervisor, made)'
    BY <1>2 DEF TheOne
<1>4. made_owned' => made' \in monitors'
    BY <1>1 DEF ServedInv, Building
<1> QED BY <1>1, <1>3, <1>4 DEF ServedInv, FileInv, Standing, NotUp

\* The session is the one start() has built; writing its file changes no more.
LEMMA CommitServes ==
    ASSUME Base, ServedInv, FileInv, Commit \/ OpenSession \/ RecordSession \/ RecordFails
    PROVE  ServedInv' /\ FileInv'
<1> USE DEF OnlyLocals, GoTo, Release, DropLocals, ServedInv, FileInv, Standing, Building, NotUp,
            TheOne
<1>1. CASE Commit
    <2>1. supervisor # 0 /\ ~sessionFile.found
        BY <1>1 DEF Commit, Base, LifeInv, NextInTurn, Starting
    <2> QED BY <1>1, <2>1 DEF Commit
<1>2. CASE OpenSession
    BY <1>2 DEF OpenSession, TornSession
<1>3. CASE RecordSession
    BY <1>3 DEF RecordSession, SessionOf
<1>4. CASE RecordFails
    BY <1>4 DEF RecordFails
<1> QED BY <1>1, <1>2, <1>3, <1>4

\* A start that fails leaves no session and no file.
LEMMA FailKeeps ==
    ASSUME Base, ServedInv, FileInv,
           QrFails \/ \E removed \in BOOLEAN : CleanUpStart(removed)
    PROVE  ServedInv' /\ FileInv'
<1> USE DEF OnlyLocals, Release, DropLocals
<1>1. state # "running" /\ ~sessionFile.found /\ pc' = "idle"
    BY DEF QrFails, CleanUpStart, Base, LifeInv, NextInTurn, Starting, FileInv, NotUp
<1>2. state' # "running" /\ sessionFile' = sessionFile
    BY <1>1 DEF QrFails, CleanUpStart
<1> QED BY <1>1, <1>2 DEF ServedInv, FileInv, Standing, Building, NotUp

LEMMA StartStepsServe ==
    ASSUME Base, ServedInv, FileInv, StartSteps
    PROVE  ServedInv' /\ FileInv'
BY BuildKeeps, SpawnServes, CommitServes, FailKeeps DEF StartSteps

\* A process that ends leaves its file to the next one.
LEMMA EndServes ==
    ASSUME FileInv, NEW how \in {"down", "off"}, ProcessEnds(how), sessionFile' = sessionFile
    PROVE  ServedInv' /\ FileInv'
BY DEF ProcessEnds, ForgetFields, ServedInv, FileInv, Standing, Building, NotUp

\* A session is stopped for good, its output and its file with it; or its file stays,
\* and with it a session without servers.
LEMMA StopStepsServe ==
    ASSUME Base, ServedInv, FileInv, StopSteps
    PROVE  ServedInv' /\ FileInv'
<1> USE DEF GoTo, ServedInv, FileInv, Standing, Building, NotUp
<1>1. CASE StopServers
    BY <1>1 DEF StopServers
<1>2. ASSUME NEW removed \in BOOLEAN, RemoveOwned(removed) PROVE ServedInv' /\ FileInv'
    <2>1. ~Standing
        BY <1>2 DEF RemoveOwned
    <2> QED BY <1>2, <2>1 DEF RemoveOwned
<1>3. CASE ClearSession
    BY <1>3 DEF ClearSession, ForgetFields, Release, DropLocals, NoSession
<1>4. CASE ClearFails
    <2>1. ~Standing
        BY <1>4 DEF ClearFails
    <2>2. CASE Release
        BY <1>4, <2>1, <2>2 DEF ClearFails, Release, DropLocals, ProcessEnds
    <2>3. CASE ProcessEnds("down")
        BY <1>4, <2>3, EndServes DEF ClearFails
    <2> QED BY <1>4, <2>2, <2>3 DEF ClearFails
<1> QED BY <1>1, <1>2, <1>3, <1>4 DEF StopSteps

\* A step that leaves a session, its processes and its output alone, and brings no
\* operation to where it would need more of them.
Elsewhere ==
    /\ UNCHANGED <<state, output_name, owns_output, wayvnc, setup, sessionFile, conf, vncs>>
    /\ pc' = "serve" => pc = "serve" /\ UNCHANGED <<supervisor, made>>
    /\ Building' /\ made_owned' => Building /\ made_owned /\ made' = made
    /\ pc \in {"removing", "clearing"} => pc' \in {"removing", "clearing"}
    /\ pc' \in {"removing", "clearing"} => pc \in {"removing", "clearing"}
    /\ pc' \in {"record", "recording"} => pc' = pc /\ supervisor' = supervisor
    /\ \A o \in created \intersect monitors : o \in monitors'

LEMMA ElsewhereServes ==
    ASSUME Base, ServedInv, FileInv, Elsewhere,
           ~NotUp \/ NotUp' \/ ~sessionFile.found
    PROVE  ServedInv' /\ FileInv'
<1> USE DEF Elsewhere, ServedInv, FileInv, Standing
<1>1. /\ (pc = "serve" => TheOne(supervisor, made))'
      /\ (Standing => TheOne(wayvnc, output_name) /\ setup = wayvnc)'
    BY DEF TheOne
<1>2. (Building /\ made_owned => made \in monitors)'
    <2>1. Building /\ made_owned => made \in created
        <3>1. Building => ~Recovering
            BY DEF Building, Recovering
        <3> QED BY <3>1 DEF Base, OwnInv, Ownership
    <2> QED BY <2>1
<1>3. (Standing /\ owns_output => output_name \in monitors)'
    BY DEF Base, OwnInv, Ownership
<1>4. FileInv'
    BY DEF NotUp
<1> QED BY <1>1, <1>2, <1>3, <1>4

\* Preferences are saved and applied around the session.
LEMMA SavingStepsServe ==
    ASSUME Base, ServedInv, FileInv, SavingSteps
    PROVE  ServedInv' /\ FileInv'
<1> USE DEF OnlyLocals, Release, DropLocals
<1>1. Elsewhere
    <2>1. CASE OpenSettings \/ Saved
        BY <2>1 DEF OpenSettings, Saved, GoTo, Elsewhere, Standing, Building, Base, OwnInv
    <2>2. CASE SaveFails
        BY <2>2 DEF SaveFails, Elsewhere, Standing, Building
    <2>3. CASE ApplyPosition \/ ApplyFails
        BY <2>3
           DEF ApplyPosition, ApplyFails, SetMonitorMode, Elsewhere, Standing, Building
    <2> QED BY <2>1, <2>2, <2>3 DEF SavingSteps
<1>2. ~NotUp
    BY DEF SavingSteps, OpenSettings, GoTo, Saved, SaveFails, ApplyPosition, ApplyFails, NotUp
<1> QED BY <1>1, <1>2, ElsewhereServes

\* Recovery has no session, and ends without a file.
LEMMA RecoveryStepsServe ==
    ASSUME Base, ServedInv, FileInv, RecoverySteps \/ Launch
    PROVE  ServedInv' /\ FileInv'
<1> USE DEF GoTo, OnlyLocals, Release, DropLocals
<1>1. NotUp /\ pc' \notin {"serve", "record", "recording", "removing", "clearing"} /\ ~Building'
    BY DEF RecoverySteps, Boot, Launch, Load, ReadSession, KillOrphan, RemoveStale, ForgetSession,
           ForgetFails, ProcessEnds, Building, NotUp
<1>2. state # "running" /\ state' # "running"
    BY <1>1 DEF RecoverySteps, Boot, Launch, Load, ReadSession, KillOrphan, RemoveStale,
           ForgetSession, ForgetFails, ProcessEnds, ForgetFields, Base, LifeInv, NextInTurn,
           Starting, NotUp
<1>3. /\ sessionFile'.found => NotUp'
      /\ ~sessionFile'.found => sessionFile' = NoSession
    <2> USE DEF FileInv
    <2>1. CASE ForgetSession
        BY <2>1 DEF ForgetSession, NoSession
    <2>2. CASE Boot \/ Launch \/ ReadSession
        BY <2>2 DEF Boot, Launch, Load, ReadSession, NotUp
    <2>3. CASE KillOrphan \/ \E removed \in BOOLEAN : RemoveStale(removed)
        BY <2>3 DEF KillOrphan, RemoveStale, NotUp
    <2>4. CASE ForgetFails
        BY <2>4 DEF ForgetFails, ProcessEnds, NotUp
    <2> QED BY <2>1, <2>2, <2>3, <2>4 DEF RecoverySteps
<1> QED BY <1>1, <1>2, <1>3 DEF ServedInv, FileInv, Standing

\* Requests begin operations; a resize changes no session.
LEMMA RequestsServe ==
    ASSUME Base, ServedInv, FileInv, Requests
    PROVE  ServedInv' /\ FileInv'
<1> USE DEF GoTo, OnlyControl, OnlyLocals, Elsewhere, Standing, Building, NotUp
<1>1. ASSUME NEW m, Start(m) PROVE ServedInv' /\ FileInv'
    BY <1>1, ElsewhereServes DEF Start
<1>2. CASE Stop
    BY <1>2, ElsewhereServes DEF Stop
<1>3. ASSUME NEW p, SaveAndRestart(p) PROVE ServedInv' /\ FileInv'
    BY <1>3, ElsewhereServes DEF SaveAndRestart, Save
<1>4. ASSUME NEW p, SetPosition(p) PROVE ServedInv' /\ FileInv'
    BY <1>4, ElsewhereServes DEF SetPosition, Save
<1>5. ASSUME NEW m, NEW s, Resize(m, s) \/ ResizeFails(m, s) PROVE ServedInv' /\ FileInv'
    BY <1>5, ElsewhereServes DEF Resize, ResizeFails, SetMonitorMode
<1>6. ASSUME NEW m, NEW s, AcceptReport(m, s) PROVE ServedInv' /\ FileInv'
    BY <1>6, ElsewhereServes DEF AcceptReport
<1>7. ASSUME NEW r, IgnoreReport(r) PROVE ServedInv' /\ FileInv'
    BY <1>7, ElsewhereServes DEF IgnoreReport
<1> QED
    BY <1>1, <1>2, <1>3, <1>4, <1>5, <1>6, <1>7, RecoveryStepsServe
    DEF Requests, SetDisplayMode, SetPassword, SetUsername, SetResolution, ApplyReport

\* Nobody but the daemon removes a headless output.
LEMMA HotPlugsServe ==
    ASSUME Base, ServedInv, FileInv, HotPlugs
    PROVE  ServedInv' /\ FileInv'
<1>1. \A o \in created \intersect monitors : o \in monitors'
    <2>1. \A o \in created : o \notin Physical
        BY HeadlessApart DEF Base, OwnInv, Numbering
    <2> QED BY <2>1 DEF HotPlugs, Plug, Unplug, ForeignCreate, NewHeadless
<1>2. Elsewhere /\ pc' = pc
    BY <1>1 DEF HotPlugs, Elsewhere, Standing, Building
<1> QED BY <1>2, ElsewhereServes DEF NotUp

LEMMA NextServes ==
    ASSUME Base, ServedInv, FileInv, [Next]_vars
    PROVE  ServedInv' /\ FileInv'
<1>1. CASE Exit \/ Crash \/ Reboot
    BY <1>1, EndServes DEF Exit, Crash, Reboot
<1>2. CASE UNCHANGED vars
    <2>1. Elsewhere /\ pc' = pc
        BY <1>2 DEF vars, Elsewhere, Standing, Building
    <2> QED BY <2>1, ElsewhereServes DEF NotUp
<1> QED
    BY <1>1, <1>2, StartStepsServe, StopStepsServe, SavingStepsServe, RecoveryStepsServe,
       RequestsServe, HotPlugsServe
    DEF Next, Steps

\* The numbers the daemon was given are below the next.
CreatedInPast == \A h \in created : h < nextHeadless

LEMMA NextCreated ==
    ASSUME Base, CreatedInPast, [Next]_vars
    PROVE  CreatedInPast'
<1> USE DEF OnlyControl, OnlyLocals, CreatedInPast
<1>1. /\ nextHeadless \in Nat /\ \A h \in created : h \in Nat
    BY DEF Base, OwnInv, Numbering, Headless
<1>2. CASE UNCHANGED <<created, nextHeadless>>
    BY <1>2
<1>3. CASE StartSteps
    <2>1. CASE CreateOutput \/ CreateTimesOut
        BY <1>1, <2>1 DEF CreateOutput, CreateTimesOut, CreateHeadless, NewHeadless
    <2>2. CASE SetInitialMode \/ InitialModeFails
        BY <1>2, <2>2 DEF SetInitialMode, InitialModeFails, SetMonitorMode
    <2>3. CASE CallFails
        BY <1>2, <2>3 DEF CallFails, FailsAt
    <2>4. ASSUME NEW removed \in BOOLEAN, CleanUpStart(removed) PROVE CreatedInPast'
        BY <1>2, <2>4 DEF CleanUpStart, RemoveOutput
    <2>5. CASE \/ ProbeNetwork \/ PickFocused \/ NothingFocused \/ ReadSource \/ ListBefore
               \/ NameOutput \/ AmbiguousOutput \/ KeepPassword \/ GeneratePassword
        BY <1>2, <2>5
        DEF ProbeNetwork, PickFocused, NothingFocused, ReadSource, ListBefore, NameOutput,
            AmbiguousOutput, KeepPassword, GeneratePassword
    <2>6. CASE \/ WriteConfig \/ SpawnWayvnc \/ Commit \/ OpenSession \/ RecordSession
               \/ RecordFails \/ QrFails
        BY <1>2, <2>6
        DEF WriteConfig, SpawnWayvnc, Commit, OpenSession, RecordSession, RecordFails, QrFails
    <2> QED BY <1>3, <2>1, <2>2, <2>3, <2>4, <2>5, <2>6 DEF StartSteps
<1>4. CASE StopSteps
    BY <1>2, <1>4 DEF StopSteps, StopServers, RemoveOwned, RemoveOutput, ClearSession, ClearFails
<1>5. CASE SavingSteps
    BY <1>2, <1>5
    DEF SavingSteps, OpenSettings, Saved, SaveFails, ApplyPosition, ApplyFails, SetMonitorMode
<1>6. CASE RecoverySteps
    BY <1>2, <1>6
    DEF RecoverySteps, Boot, Load, ReadSession, KillOrphan, RemoveStale, RemoveOutput,
        ForgetSession, ForgetFails
<1>7. CASE Requests
    <2>1. ASSUME NEW p, NEW next, Save(p, next) PROVE CreatedInPast'
        BY <1>2, <2>1 DEF Save
    <2>2. ASSUME NEW m, NEW s, Resize(m, s) \/ ResizeFails(m, s) PROVE CreatedInPast'
        BY <1>2, <2>2 DEF Resize, ResizeFails, SetMonitorMode
    <2>3. ASSUME NEW m, NEW s, AcceptReport(m, s) PROVE CreatedInPast'
        BY <1>2, <2>3 DEF AcceptReport
    <2>4. ASSUME NEW r, IgnoreReport(r) PROVE CreatedInPast'
        BY <1>2, <2>4 DEF IgnoreReport
    <2>5. CASE Stop \/ Launch \/ \E m \in Modes : Start(m)
        BY <1>2, <2>5 DEF Stop, Launch, Load, Start
    <2> QED
        BY <1>7, <2>1, <2>2, <2>3, <2>4, <2>5
        DEF Requests, SaveAndRestart, SetDisplayMode, SetPassword, SetUsername, SetPosition,
            SetResolution, ApplyReport
<1>8. CASE HotPlugs
    BY <1>1, <1>2, <1>8 DEF HotPlugs, Plug, Unplug, ForeignCreate, NewHeadless
<1>9. CASE Exit \/ Crash
    BY <1>2, <1>9 DEF Exit, Crash
<1>10. CASE Reboot
    BY <1>10 DEF Reboot, NewCompositor
<1>11. CASE UNCHANGED vars
    BY <1>2, <1>11 DEF vars
<1> QED BY <1>3, <1>4, <1>5, <1>6, <1>7, <1>8, <1>9, <1>10, <1>11 DEF Next, Steps

\* A number Hyprland has not given out yet is nobody's.
InPast(o) == o \in Headless => o < nextHeadless

\* start() knows its source, or what it builds on.
HasMade == pc = "mirror" \/ Building

\* A wayvnc left behind shows an output of the past, or a real monitor: never the
\* one that start() creates, nor then the one a session owns.
AloneInv ==
    /\ \A v \in vncs : InPast(v.out)
    /\ HasMade => InPast(made)
    /\ pc = "create" => Own \subseteq before
    /\ pc = "diff" => \A v \in vncs : v.out \notin Own \ before
    /\ Building /\ made_owned => \A v \in vncs : v.out = made => pc = "serve" /\ v.sid = supervisor
    /\ Standing /\ owns_output => \A v \in vncs : v.out = output_name => v.sid = wayvnc

\* A step that shows nothing new, of a start or session that it leaves as it is or ends.
Alone ==
    /\ vncs' \subseteq vncs /\ nextHeadless' = nextHeadless
    /\ HasMade' => HasMade /\ made' = made
    /\ pc' \in {"create", "diff"} => pc' = pc /\ before' = before /\ Own' = Own
    /\ pc = "serve" /\ Building' => pc' = pc /\ supervisor' = supervisor
    /\ Building' /\ made_owned' => Building /\ made_owned
    /\ Standing' /\ owns_output'
          => Standing /\ owns_output /\ output_name' = output_name /\ wayvnc' = wayvnc

LEMMA AloneKept ==
    ASSUME AloneInv, Alone
    PROVE  AloneInv'
<1> USE DEF AloneInv, Alone, InPast
<1>1. (\A v \in vncs : InPast(v.out))' /\ (HasMade => InPast(made))'
    OBVIOUS
<1>2. (pc = "create" => Own \subseteq before)'
    OBVIOUS
<1>3. (pc = "diff" => \A v \in vncs : v.out \notin Own \ before)'
    OBVIOUS
<1>4. (Building /\ made_owned
         => \A v \in vncs : v.out = made => pc = "serve" /\ v.sid = supervisor)'
    BY DEF HasMade
<1>5. (Standing /\ owns_output => \A v \in vncs : v.out = output_name => v.sid = wayvnc)'
    OBVIOUS
<1> QED BY <1>1, <1>2, <1>3, <1>4, <1>5

\* start() before it has an output: a focused monitor is one of the past.
LEMMA ProbeAlone ==
    ASSUME Base, AloneInv,
           ProbeNetwork \/ PickFocused \/ NothingFocused \/ ReadSource \/ ListBefore
    PROVE  AloneInv'
<1> USE DEF OnlyControl, OnlyLocals, GoTo
<1>1. /\ state # "running" /\ state' = state /\ ~made_owned /\ ~made_owned'
      /\ UNCHANGED <<vncs, nextHeadless, monitors, created>> /\ Own' = Own
    BY OwnUnchanged DEF ProbeNetwork, PickFocused, NothingFocused, ReadSource, ListBefore, Base,
       LifeInv, NextInTurn, Starting, OwnInv, Ownership, Named, Recovering, Typed, LocalTypes
<1>2. (HasMade => InPast(made))'
    <2>1. CASE PickFocused
        BY <1>1, <2>1 DEF PickFocused, Base, OwnInv, Numbering, InPast, Headless
    <2>2. CASE ReadSource
        BY <1>1, <2>2 DEF ReadSource, AloneInv, HasMade, InPast
    <2>3. CASE ProbeNetwork \/ NothingFocused \/ ListBefore
        BY <2>3 DEF ProbeNetwork, NothingFocused, ListBefore, HasMade, Building
    <2> QED BY <2>1, <2>2, <2>3
<1>3. pc' = "create" => Own' \subseteq before'
    BY <1>1 DEF ProbeNetwork, PickFocused, NothingFocused, ReadSource, ListBefore, Own
<1>4. pc' # "diff"
    BY DEF ProbeNetwork, PickFocused, NothingFocused, ReadSource, ListBefore
<1> QED BY <1>1, <1>2, <1>3, <1>4 DEF AloneInv, InPast, Standing

\* The output created is new to everybody.
LEMMA CreateAlone ==
    ASSUME Base, AloneInv, CreateOutput \/ CreateTimesOut \/ NameOutput \/ AmbiguousOutput
    PROVE  AloneInv'
<1> USE DEF OnlyControl, OnlyLocals, GoTo
<1>1. state # "running" /\ state' = state /\ vncs' = vncs
    BY DEF CreateOutput, CreateTimesOut, NameOutput, AmbiguousOutput, Base, LifeInv, NextInTurn,
       Starting
<1>2. nextHeadless \in Nat BY DEF Base, OwnInv, Numbering
<1>3. CASE CreateOutput \/ CreateTimesOut
    <2>1. /\ Own' = Own \union {nextHeadless} /\ nextHeadless \in Headless
          /\ Own \subseteq before /\ before' = before /\ nextHeadless' = nextHeadless + 1
        BY <1>3, OwnCreated
        DEF CreateOutput, CreateTimesOut, CreateHeadless, NewHeadless, Base, AloneInv
    <2>2. \A v \in vncs : InPast(v.out) /\ InPast(v.out)' /\ v.out \notin Own' \ before'
        <3> SUFFICES ASSUME NEW v \in vncs
            PROVE  InPast(v.out) /\ InPast(v.out)' /\ v.out \notin Own' \ before'
            OBVIOUS
        <3>1. InPast(v.out) BY DEF AloneInv
        <3>2. InPast(v.out)' BY <1>2, <2>1, <3>1 DEF InPast, Headless
        <3>3. v.out # nextHeadless BY <1>2, <2>1, <3>1 DEF InPast
        <3> QED BY <2>1, <3>1, <3>2, <3>3
    <2>3. pc' \in {"diff", "fail"} BY <1>3 DEF CreateOutput, CreateTimesOut
    <2> QED BY <1>1, <2>2, <2>3 DEF AloneInv, InPast, HasMade, Building, Standing
<1>4. CASE NameOutput
    <2>1. made' \in Own \ before /\ made' \in monitors
        BY <1>4 DEF NameOutput, Base, OwnInv, FreshOutput, Own
    <2>2. \A v \in vncs : v.out # made'
        BY <1>4, <2>1 DEF NameOutput, AloneInv
    <2>3. InPast(made')
        BY <2>1 DEF Base, OwnInv, Numbering, InPast, Headless
    <2> QED BY <1>1, <1>4, <2>2, <2>3 DEF NameOutput, AloneInv, InPast, Standing
<1>5. CASE AmbiguousOutput
    BY <1>1, <1>5, AloneKept DEF AmbiguousOutput, Alone, HasMade, Building, Standing
<1> QED BY <1>3, <1>4, <1>5

\* The session's wayvnc is the only one on the output it owns.
LEMMA SpawnAlone ==
    ASSUME Base, AloneInv, SpawnWayvnc \/ Commit
    PROVE  AloneInv'
<1> USE DEF GoTo, InPast
<1>1. CASE SpawnWayvnc
    <2>1. state # "running" /\ state' # "running"
        BY <1>1 DEF SpawnWayvnc, Base, LifeInv, NextInTurn, Starting
    <2>2. InPast(made) BY <1>1 DEF SpawnWayvnc, AloneInv, HasMade, Building
    <2>3. made_owned => \A v \in vncs : v.out # made
        BY <1>1 DEF SpawnWayvnc, AloneInv, Building
    <2> QED BY <1>1, <2>1, <2>2, <2>3 DEF SpawnWayvnc, AloneInv, HasMade, Building, Standing
<1>2. CASE Commit
    BY <1>2 DEF Commit, AloneInv, HasMade, Building, Standing
<1> QED BY <1>1, <1>2

LEMMA NextAlone ==
    ASSUME Base, CreatedInPast, AloneInv, ServedInv, [Next]_vars
    PROVE  AloneInv'
<1> USE DEF OnlyControl, OnlyLocals, GoTo, Release, DropLocals, HasMade, Building, Standing
<1>1. CASE StartSteps
    <2>1. CASE SetInitialMode \/ InitialModeFails
        BY <2>1, AloneKept DEF SetInitialMode, InitialModeFails, SetMonitorMode, Alone
    <2>2. CASE KeepPassword \/ GeneratePassword \/ WriteConfig
        BY <2>2, AloneKept DEF KeepPassword, GeneratePassword, WriteConfig, Alone
    <2>3. CASE OpenSession \/ RecordSession \/ RecordFails \/ QrFails
        BY <2>3, AloneKept DEF OpenSession, RecordSession, RecordFails, QrFails, Alone
    <2>4. CASE CallFails
        BY <2>4, AloneKept DEF CallFails, FailsAt, Alone
    <2>5. ASSUME NEW removed \in BOOLEAN, CleanUpStart(removed) PROVE AloneInv'
        BY <2>5, AloneKept DEF CleanUpStart, RemoveOutput, Alone
    <2> QED
        BY <1>1, <2>1, <2>2, <2>3, <2>4, <2>5, ProbeAlone, CreateAlone, SpawnAlone DEF StartSteps
<1>2. CASE StopSteps
    <2>1. CASE StopServers
        BY <2>1, AloneKept DEF StopServers, Alone
    <2>2. ASSUME NEW removed \in BOOLEAN, RemoveOwned(removed) PROVE AloneInv'
        BY <2>2, AloneKept DEF RemoveOwned, RemoveOutput, Alone
    <2>3. CASE ClearSession \/ ClearFails
        BY <2>3, AloneKept DEF ClearSession, ClearFails, ForgetFields, ProcessEnds, Alone
    <2> QED BY <1>2, <2>1, <2>2, <2>3 DEF StopSteps
<1>3. CASE SavingSteps
    BY <1>3, AloneKept
    DEF SavingSteps, OpenSettings, Saved, SaveFails, ApplyPosition, ApplyFails, SetMonitorMode, Alone,
        Base, OwnInv
<1>4. CASE RecoverySteps \/ Launch
    <2>1. CASE KillOrphan \/ ForgetSession \/ \E removed \in BOOLEAN : RemoveStale(removed)
        BY <2>1, AloneKept DEF KillOrphan, ForgetSession, RemoveStale, RemoveOutput, Alone
    <2>2. CASE Boot \/ Launch \/ ReadSession \/ ForgetFails
        BY <2>2, AloneKept
        DEF Boot, Launch, Load, ReadSession, ForgetFails, ProcessEnds, ForgetFields, Alone
    <2> QED BY <1>4, <2>1, <2>2 DEF RecoverySteps
<1>5. CASE Requests
    <2>1. ASSUME NEW p, NEW next \in {"idle", "stopping", "apply"}, Save(p, next) PROVE AloneInv'
        BY <2>1, AloneKept DEF Save, Alone
    <2>2. ASSUME NEW m, NEW s, Resize(m, s) \/ ResizeFails(m, s) PROVE AloneInv'
        BY <2>2, AloneKept DEF Resize, ResizeFails, SetMonitorMode, Alone
    <2>3. ASSUME NEW m, NEW s, AcceptReport(m, s) PROVE AloneInv'
        BY <2>3, OwnUnchanged, AloneKept DEF AcceptReport, Alone
    <2>4. ASSUME NEW r, IgnoreReport(r) PROVE AloneInv'
        BY <2>4, OwnUnchanged, AloneKept DEF IgnoreReport, Alone
    <2>5. CASE Stop \/ \E m \in Modes : Start(m)
        BY <2>5, AloneKept DEF Stop, Start, Alone
    <2> QED
        BY <1>4, <1>5, <2>1, <2>2, <2>3, <2>4, <2>5
        DEF Requests, SaveAndRestart, SetDisplayMode, SetPassword, SetUsername, SetPosition,
            SetResolution, ApplyReport
<1>6. CASE HotPlugs
    <2>1. /\ Own' = Own /\ nextHeadless \in Nat
          /\ nextHeadless' \in {nextHeadless, nextHeadless + 1}
        <3>1. nextHeadless \notin created /\ nextHeadless \in Nat
            BY DEF CreatedInPast, Base, OwnInv, Numbering
        <3> QED
            BY <1>6, <3>1, OwnPlugged
            DEF HotPlugs, Plug, Unplug, ForeignCreate, NewHeadless, Own, Base
    <2>2. \A o : InPast(o) => InPast(o)'
        BY <2>1 DEF InPast, Headless
    <2> QED BY <1>6, <2>1, <2>2 DEF HotPlugs, AloneInv
<1>7. CASE Exit \/ Crash
    BY <1>7, AloneKept DEF Exit, Crash, ProcessEnds, ForgetFields, Alone
<1>8. CASE Reboot
    BY <1>8 DEF Reboot, ProcessEnds, ForgetFields, AloneInv
<1>9. CASE UNCHANGED vars
    BY <1>9, OwnUnchanged, AloneKept DEF vars, Alone
<1> QED BY <1>1, <1>2, <1>3, <1>4, <1>5, <1>6, <1>7, <1>8, <1>9 DEF Next, Steps

\* All of it together, for whatever follows from it.
Serves == Base /\ ServedInv /\ FileInv /\ CreatedInPast /\ AloneInv

LEMMA AlwaysServes == Spec => []Serves
<1>1. Init => Serves
    <2>1. Init => CreatedInPast /\ AloneInv
        BY DEF Init, HyprInit, CreatedInPast, AloneInv, HasMade, Building, Standing
    <2> QED BY <2>1, InitBase, InitServed DEF Serves
<1>2. Serves /\ [Next]_vars => Serves'
    BY NextBase, NextServes, NextCreated, NextAlone DEF Serves
<1> QED BY <1>1, <1>2, PTL DEF Spec

\* Whatever failed, whatever is left of it and wherever the daemon was killed, a session
\* that runs has its own wayvnc, setup page and output, alone on an output it owns, and
\* a session.json that names nothing else.
THEOREM SessionsServed == Spec => []RunningServed
<1>1. ASSUME Serves PROVE RunningServed
    <2> SUFFICES ASSUME pc = "idle", state = "running", ~HalfStopped
        PROVE  /\ {v \in vncs : v.sid = wayvnc}
                    = {[sid |-> wayvnc, out |-> output_name, conf |-> conf]}
               /\ setup = wayvnc
               /\ owns_output =>
                     /\ output_name \in created \intersect monitors
                     /\ \A v \in vncs : v.out = output_name => v.sid = wayvnc
               /\ sessionFile \in {NoSession, TornSession, SessionOf(output_name, owns_output)}
        BY DEF RunningServed
    <2>0. Standing
        BY <1>1 DEF Serves, ServedInv, Standing, HalfStopped
    <2>1. TheOne(wayvnc, output_name) /\ setup = wayvnc
        BY <1>1, <2>0 DEF Serves, ServedInv
    <2>2. owns_output => output_name \in created \intersect monitors
        BY <1>1, <2>0 DEF Serves, ServedInv, Base, OwnInv, Ownership
    <2>3. owns_output => \A v \in vncs : v.out = output_name => v.sid = wayvnc
        BY <1>1, <2>0 DEF Serves, AloneInv
    <2>4. sessionFile \in {NoSession, TornSession, SessionOf(output_name, owns_output)}
        BY <1>1 DEF Serves, FileInv
    <2> QED BY <2>1, <2>2, <2>3, <2>4 DEF TheOne
<1> QED BY <1>1, AlwaysServes, PTL

--------------------------------------------------------------------------------
(* What is left when no session runs: of each thing, only the failures that *)
(* can leave it.                                                            *)

\* A session.json is left behind by nothing: whatever fails, in a daemon that is up the
\* file is there only while a session runs, or still counts as running.
THEOREM NoFileLeft == Spec => [](pc = "idle" /\ state # "running" => ~sessionFile.found)
<1>1. Serves => (pc = "idle" /\ state # "running" => ~sessionFile.found)
    BY DEF Serves, FileInv, NotUp
<1> QED BY <1>1, AlwaysServes, PTL

\* What can leave a wayvnc running: a QR code that fails, a wayvnc that does not answer
\* its control socket, a session.json that cannot be created, an end before it is.
LosesWayvnc == {"qr", "ctl", "disk", "cut_start"}

\* Every wayvnc is the session's, the start's in progress, or one that the session.json
\* will make recovery stop; and kill_orphan need stop only one.
Held == \A v \in vncs :
    \/ Standing /\ v.sid = wayvnc
    \/ pc \in {"serve", "fail"} /\ v.sid = supervisor
    \/ pc \in {"off", "down", "recover", "killing"} /\ sessionFile.found

\* A session has its file.
Filed == state = "running" /\ pc # "record" => sessionFile.found

HeldInv == OneAtMost /\ Held /\ Filed

LEMMA StartStepsHold ==
    ASSUME Serves, HeldInv, "qr" \notin Faults, "disk" \notin Faults, StartSteps
    PROVE  HeldInv'
<1> USE DEF OnlyControl, OnlyLocals, GoTo, Release, DropLocals, HeldInv, Held, Filed, OneAtMost
<1>1. Starting => state # "running" /\ ~Standing
    BY DEF Serves, Base, LifeInv, NextInTurn, Standing
<1>2. ASSUME Starting, pc \notin {"serve", "fail", "off", "down", "recover", "killing"}
      PROVE  vncs = {}
    BY <1>1, <1>2
<1>3. CASE \/ ProbeNetwork \/ PickFocused \/ NothingFocused \/ ReadSource \/ ListBefore
           \/ CreateOutput \/ CreateTimesOut \/ NameOutput \/ AmbiguousOutput
           \/ SetInitialMode \/ InitialModeFails
           \/ KeepPassword \/ GeneratePassword \/ WriteConfig
    <2>1. /\ Starting /\ pc \notin {"serve", "fail", "off", "down", "recover", "killing"}
          /\ vncs' = vncs /\ state' = state
        BY <1>3
           DEF ProbeNetwork, PickFocused, NothingFocused, ReadSource, ListBefore, CreateOutput,
               CreateTimesOut, NameOutput, AmbiguousOutput, SetInitialMode, InitialModeFails,
               KeepPassword, GeneratePassword, WriteConfig, Starting
    <2> QED BY <1>1, <1>2, <2>1
<1>4. CASE SpawnWayvnc
    <2>1. vncs = {} /\ state # "running" BY <1>1, <1>2, <1>4 DEF SpawnWayvnc, Starting
    <2> QED BY <1>4, <2>1 DEF SpawnWayvnc
<1>5. CASE CallFails
    <2>1. state # "running" /\ state' # "running"
        BY <1>1, <1>5 DEF CallFails, FailsAt, Starting
    <2>2. CASE pc = "serve"
        BY <1>1, <1>5, <2>1, <2>2 DEF CallFails, FailsAt, Starting
    <2>3. CASE pc # "serve"
        <3>1. Starting /\ pc \notin {"serve", "fail", "off", "down", "recover", "killing"}
              /\ vncs' = vncs
            BY <1>5, <2>3 DEF CallFails, FailsAt, Starting
        <3> QED BY <1>2, <2>1, <3>1
    <2> QED BY <2>2, <2>3
<1>6. CASE Commit
    <2>1. supervisor # 0
        BY <1>6 DEF Commit, Serves, Base, LifeInv, NextInTurn, Starting
    <2> QED BY <1>1, <1>6, <2>1 DEF Commit, Standing, Starting
<1>7. CASE OpenSession \/ RecordSession
    BY <1>7 DEF OpenSession, RecordSession, Standing, TornSession, SessionOf
<1>8. ASSUME NEW removed \in BOOLEAN, CleanUpStart(removed) PROVE HeldInv'
    <2>1. vncs' = {} /\ state' # "running" BY <1>1, <1>8 DEF CleanUpStart, Starting
    <2> QED BY <2>1
<1>9. ~QrFails /\ ~RecordFails
    BY DEF QrFails, RecordFails
<1> QED BY <1>3, <1>4, <1>5, <1>6, <1>7, <1>8, <1>9 DEF StartSteps

LEMMA StopStepsHold ==
    ASSUME Serves, HeldInv, StopSteps
    PROVE  HeldInv'
<1> USE DEF GoTo, HeldInv, Held, Filed, OneAtMost
<1>1. vncs' = {}
    <2>1. pc \in {"removing", "clearing"} => vncs = {}
        BY DEF Serves, ServedInv, Standing
    <2> QED
        BY <2>1 DEF StopSteps, StopServers, RemoveOwned, ClearSession, ClearFails, Standing
<1>2. Filed'
    <2>1. CASE StopServers \/ \E removed \in BOOLEAN : RemoveOwned(removed)
        BY <2>1 DEF StopServers, RemoveOwned
    <2>2. CASE ClearSession
        BY <2>2 DEF ClearSession, ForgetFields
    <2>3. CASE ClearFails
        BY <2>3 DEF ClearFails
    <2> QED BY <2>1, <2>2, <2>3 DEF StopSteps
<1> QED BY <1>1, <1>2

LEMMA OtherStepsHold ==
    ASSUME Serves, HeldInv, "ctl" \notin Faults, SavingSteps \/ RecoverySteps \/ Launch
    PROVE  HeldInv'
<1> USE DEF GoTo, OnlyLocals, Release, DropLocals, HeldInv, Held, Filed, OneAtMost, Standing
<1>1. CASE OpenSettings \/ Saved \/ SaveFails
    BY <1>1 DEF OpenSettings, Saved, SaveFails, Serves, Base, OwnInv
<1>2. CASE ApplyPosition \/ ApplyFails
    BY <1>2 DEF ApplyPosition, ApplyFails
<1>3. ASSUME NotUp PROVE state # "running"
    BY <1>3 DEF NotUp, Serves, Base, LifeInv, NextInTurn, Starting
<1>4. CASE Boot \/ Launch \/ ReadSession
    BY <1>3, <1>4 DEF Boot, Launch, Load, ReadSession, NotUp
<1>5. CASE KillOrphan
    BY <1>3, <1>5 DEF KillOrphan, NotUp
<1>6. CASE ForgetSession \/ \E removed \in BOOLEAN : RemoveStale(removed)
    BY <1>3, <1>6 DEF ForgetSession, RemoveStale, NotUp
<1>7. CASE ForgetFails
    BY <1>3, <1>7 DEF ForgetFails, ProcessEnds, ForgetFields, NotUp
<1> QED BY <1>1, <1>2, <1>4, <1>5, <1>6, <1>7 DEF SavingSteps, RecoverySteps

LEMMA RequestsHold ==
    ASSUME Serves, HeldInv, "ctl" \notin Faults, Requests
    PROVE  HeldInv'
<1> USE DEF GoTo, OnlyControl, OnlyLocals, HeldInv, Held, Filed, OneAtMost, Standing
<1>1. ASSUME NEW m, Start(m) PROVE HeldInv'
    BY <1>1 DEF Start
<1>2. CASE Stop
    BY <1>2 DEF Stop
<1>3. ASSUME NEW p, SaveAndRestart(p) PROVE HeldInv'
    BY <1>3 DEF SaveAndRestart, Save
<1>4. ASSUME NEW p, SetPosition(p) PROVE HeldInv'
    BY <1>4 DEF SetPosition, Save
<1>5. ASSUME NEW m, NEW s, Resize(m, s) \/ ResizeFails(m, s) PROVE HeldInv'
    BY <1>5 DEF Resize, ResizeFails
<1>6. ASSUME NEW m, NEW s, AcceptReport(m, s) PROVE HeldInv'
    BY <1>6 DEF AcceptReport
<1>7. ASSUME NEW r, IgnoreReport(r) PROVE HeldInv'
    BY <1>7 DEF IgnoreReport
<1> QED
    BY <1>1, <1>2, <1>3, <1>4, <1>5, <1>6, <1>7, OtherStepsHold
    DEF Requests, SetDisplayMode, SetPassword, SetUsername, SetResolution, ApplyReport

\* A daemon that ends once session.json is opened leaves the file with the wayvnc.
LEMMA SurroundingsHold ==
    ASSUME Serves, HeldInv, "cut_start" \notin Faults,
           HotPlugs \/ Exit \/ Crash \/ Reboot \/ UNCHANGED vars
    PROVE  HeldInv'
<1> USE DEF HeldInv, Held, Filed, OneAtMost
<1>1. CASE Exit \/ Crash
    <2>1. /\ pc \notin {"off", "down"} /\ ~Unrecorded /\ pc' \in {"off", "down"}
          /\ state' # "running" /\ sessionFile' = sessionFile /\ vncs' \subseteq vncs
        BY <1>1 DEF Exit, Crash, MayEnd, ProcessEnds, ForgetFields
    <2>2. ASSUME NEW v \in vncs PROVE sessionFile.found
        <3>1. pc # "record"
            BY <2>1 DEF Serves, ServedInv, Unrecorded
        <3>2. ~(pc \in {"serve", "fail"} /\ v.sid = supervisor)
            BY <2>1 DEF Unrecorded, Serves, Base, Typed, StoredTypes
        <3> QED BY <3>1, <3>2 DEF Standing
    <2> QED BY <2>1, <2>2
<1>2. CASE Reboot
    BY <1>2 DEF Reboot, ProcessEnds, ForgetFields
<1>3. CASE HotPlugs \/ UNCHANGED vars
    BY <1>3 DEF HotPlugs, vars, Standing
<1> QED BY <1>1, <1>2, <1>3

LEMMA AlwaysHeld ==
    ASSUME Faults \intersect LosesWayvnc = {}
    PROVE  Spec => []HeldInv
<1>1. "qr" \notin Faults /\ "ctl" \notin Faults /\ "disk" \notin Faults /\ "cut_start" \notin Faults
    BY DEF LosesWayvnc
<1>2. Init => HeldInv
    BY DEF Init, HeldInv, Held, Filed, OneAtMost
<1>3. ASSUME Serves, HeldInv, [Next]_vars PROVE HeldInv'
    BY <1>1, <1>3, StartStepsHold, StopStepsHold, OtherStepsHold, RequestsHold,
       SurroundingsHold
    DEF Next, Steps
<1> QED BY <1>2, <1>3, AlwaysServes, PTL DEF Spec

\* Unless one of those four happens, whatever else fails no wayvnc outlives its session:
\* not a failed start, not a stop that cannot remove the output or the file, not a
\* daemon killed in any of it.
THEOREM NoWayvncLeft ==
    ASSUME Faults \intersect LosesWayvnc = {}
    PROVE  Spec => [](pc = "idle" /\ state # "running" => vncs = {})
<1>1. HeldInv => (pc = "idle" /\ state # "running" => vncs = {})
    BY DEF HeldInv, Held, Standing
<1> QED BY <1>1, AlwaysHeld, PTL

\* What can leave an output: a removal or a monitor list that fails, a creation that times
\* out, a monitor plugged while one is created, a session.json or a QR code that cannot
\* be written, an end before the session is recorded.
LosesOutput == {"remove", "list", "late", "hotplug", "disk", "qr", "cut_start"}

\* start() answers for the output it made, named or still to name.
WithOutput == pc \in {"mode", "serve", "fail"} \/ Making

OutputOfSession ==
    /\ state = "running" /\ pc # "clearing" => Own \subseteq Its(output_name, owns_output)
    /\ state = "running" /\ pc \notin {"record", "recording"}
          => sessionFile = SessionOf(output_name, owns_output)
    /\ pc \in {"record", "recording"} => made_owned = owns_output

OutputOfStart ==
    /\ pc = "create" => monitors \subseteq before
    /\ pc = "diff" => monitors \ before = Own /\ \E o \in Headless : Own = {o}
    /\ WithOutput => Own \subseteq Its(made, made_owned)

OutputOfFile ==
    /\ pc \in {"off", "down", "recover"}
          => Own \subseteq Its(sessionFile.out, sessionFile.found /\ sessionFile.owns)
    /\ pc \in {"killing", "unplug"} => Own \subseteq Its(made, made_owned)
    /\ pc \in {"killing", "unplug", "forget"}
          => sessionFile.found /\ made = sessionFile.out /\ made_owned = sessionFile.owns

\* No session, start or file answers for an output here.
Unanswered ==
    \/ /\ state # "running"
       /\ \/ pc \in {"idle", "probe", "focus", "mirror", "list", "create", "stopping",
                      "removing", "forget", "apply"}
          \/ Saving /\ goto # "cert"
    \/ pc = "clearing"

OutputInv == /\ OutputOfSession /\ OutputOfStart /\ OutputOfFile
             /\ Unanswered => Own = {}

\* Up to the creation there is no output.
LEMMA ProbeAnswers ==
    ASSUME Serves, OutputInv,
           ProbeNetwork \/ PickFocused \/ NothingFocused \/ ReadSource \/ ListBefore
    PROVE  OutputInv'
<1> USE DEF OnlyControl, OnlyLocals, GoTo
<1>1. /\ pc \in {"probe", "focus", "mirror", "list"} /\ UNCHANGED <<state, monitors, created>>
      /\ pc' \in {"focus", "mirror", "list", "create", "config", "fail"}
      /\ pc' = "create" => before' = monitors
    BY DEF ProbeNetwork, PickFocused, NothingFocused, ReadSource, ListBefore
<1>2. state # "running"
    BY <1>1 DEF Serves, Base, LifeInv, NextInTurn, Starting
<1>3. Own' = {}
    BY <1>1, <1>2, OwnUnchanged DEF OutputInv, Unanswered
<1> QED
    BY <1>1, <1>2, <1>3
    DEF OutputInv, OutputOfSession, OutputOfStart, OutputOfFile, Unanswered, WithOutput

\* The output created is the one create_headless_output finds and names.
LEMMA CreateAnswers ==
    ASSUME Serves, OutputInv, CreateOutput \/ NameOutput \/ AmbiguousOutput
    PROVE  OutputInv'
<1> USE DEF OnlyControl, OnlyLocals, GoTo
<1>1. state # "running" /\ state' # "running"
    BY DEF CreateOutput, NameOutput, AmbiguousOutput, Serves, Base, LifeInv, NextInTurn, Starting
<1>2. CASE CreateOutput
    <2>1. Own = {} /\ monitors \subseteq before /\ OwnInv
        BY <1>1, <1>2
        DEF CreateOutput, OutputInv, OutputOfStart, Unanswered, Serves, Base
    <2>2. Own' = {nextHeadless} /\ nextHeadless \in Headless
        BY <1>2, <2>1, OwnCreated DEF CreateOutput
    <2>3. nextHeadless \notin before
        <3>1. nextHeadless \in Nat BY <2>1 DEF OwnInv, Numbering
        <3> QED BY <1>2, <2>1, <3>1 DEF CreateOutput, OwnInv, FreshOutput
    <2>4. monitors' \ before' = {nextHeadless}
        BY <1>2, <2>1, <2>3 DEF CreateOutput, CreateHeadless, NewHeadless
    <2>5. pc' = "diff" BY <1>2 DEF CreateOutput
    <2> QED
        BY <1>1, <2>2, <2>4, <2>5
        DEF OutputInv, OutputOfSession, OutputOfStart, OutputOfFile, Unanswered, WithOutput, Making
<1>3. CASE NameOutput
    <2>1. Own' = {made'} /\ made_owned' = TRUE /\ pc' = "mode"
        BY <1>3, OwnUnchanged DEF NameOutput, OutputInv, OutputOfStart
    <2> QED
        BY <1>1, <2>1
        DEF OutputInv, OutputOfSession, OutputOfStart, OutputOfFile, Unanswered, Its
<1>4. ~AmbiguousOutput
    BY DEF AmbiguousOutput, OutputInv, OutputOfStart, Own
<1> QED BY <1>2, <1>3, <1>4

\* The output stays the start's own until the session has it.
LEMMA BuildAnswers ==
    ASSUME Serves, OutputInv,
           \/ SetInitialMode \/ InitialModeFails
           \/ KeepPassword \/ GeneratePassword \/ WriteConfig \/ SpawnWayvnc
    PROVE  OutputInv'
<1> USE DEF OnlyControl, OnlyLocals, GoTo
<1>1. /\ WithOutput /\ WithOutput' /\ UNCHANGED <<state, monitors, created, made, made_owned>>
      /\ pc \in {"mode", "config", "cert", "spawn"}
      /\ pc' \in {"config", "cert", "spawn", "serve", "saving", "fail"} /\ (pc' = "saving" => goto' = "cert")
    BY DEF SetInitialMode, InitialModeFails, SetMonitorMode, KeepPassword, GeneratePassword, WriteConfig,
           SpawnWayvnc, WithOutput, Making
<1>2. state # "running"
    BY <1>1 DEF Serves, Base, LifeInv, NextInTurn, Starting
<1>3. Own' = Own
    BY <1>1, OwnUnchanged
<1> QED
    BY <1>1, <1>2, <1>3
    DEF OutputInv, OutputOfSession, OutputOfStart, OutputOfFile, Unanswered

LEMMA CommitAnswers ==
    ASSUME Serves, OutputInv, Commit \/ OpenSession \/ RecordSession
    PROVE  OutputInv'
<1> USE DEF Release, DropLocals, OutputInv, OutputOfSession, OutputOfStart, OutputOfFile,
            Unanswered
<1>1. Own' = Own
    BY OwnUnchanged DEF Commit, OpenSession, RecordSession
<1>2. CASE Commit
    BY <1>1, <1>2 DEF Commit, GoTo, WithOutput, Making
<1>3. CASE OpenSession
    BY <1>1, <1>3 DEF OpenSession, GoTo, WithOutput, Making
<1>4. CASE RecordSession
    <2>1. state = "running" /\ state' = "running"
        BY <1>4 DEF RecordSession, Serves, FileInv
    <2> QED BY <1>1, <1>4, <2>1 DEF RecordSession, WithOutput, Making
<1> QED BY <1>2, <1>3, <1>4

\* A failure leads to the clean-up, and the clean-up removes the output.
LEMMA FailAnswers ==
    ASSUME Serves, OutputInv, "list" \notin Faults, CallFails \/ CleanUpStart(TRUE)
    PROVE  OutputInv'
<1> USE DEF GoTo
<1>1. state # "running" /\ state' # "running"
    BY DEF CallFails, FailsAt, OnlyControl, OnlyLocals, CleanUpStart, Serves, Base, LifeInv,
           NextInTurn, Starting
<1>2. CASE CallFails
    <2>1. /\ pc \in {"probe", "focus", "mirror", "list", "create", "cert", "spawn", "serve"}
          /\ pc' = "fail" /\ UNCHANGED <<monitors, created, made, made_owned>>
        BY <1>2 DEF CallFails, FailsAt, OnlyControl, OnlyLocals
    <2>2. Own' = Own
        BY <2>1, OwnUnchanged
    <2>3. Own \subseteq Its(made, made_owned)
        BY <1>1, <2>1 DEF OutputInv, OutputOfStart, Unanswered, WithOutput, Making
    <2>4. Own' \subseteq Its(made', made_owned')
        BY <2>1, <2>2, <2>3
    <2> QED
        BY <1>1, <2>1, <2>4
        DEF OutputInv, OutputOfSession, OutputOfStart, OutputOfFile, Unanswered
<1>3. CASE CleanUpStart(TRUE)
    <2>1. pc = "fail" /\ pc' = "idle"
        BY <1>3 DEF CleanUpStart, Release
    <2>2. Own \subseteq Its(made, made_owned)
        BY <2>1 DEF OutputInv, OutputOfStart, WithOutput
    <2>3. Own' = {}
        <3>1. CASE made_owned
            BY <1>3, <2>2, <3>1, OwnRemoved DEF CleanUpStart, Its
        <3>2. CASE ~made_owned
            BY <1>3, <2>2, <3>2, OwnUnchanged DEF CleanUpStart, Its
        <3> QED BY <3>1, <3>2
    <2> QED
        BY <1>1, <2>1, <2>3
        DEF OutputInv, OutputOfSession, OutputOfStart, OutputOfFile, Unanswered, WithOutput, Making
<1> QED BY <1>2, <1>3

LEMMA StartStepsAnswer ==
    ASSUME Serves, OutputInv, Faults \intersect LosesOutput = {}, StartSteps
    PROVE  OutputInv'
<1>1. /\ "list" \notin Faults /\ "late" \notin Faults /\ "disk" \notin Faults
      /\ "qr" \notin Faults /\ "remove" \notin Faults
    BY DEF LosesOutput
<1> QED
    BY <1>1, ProbeAnswers, CreateAnswers, BuildAnswers, CommitAnswers, FailAnswers
    DEF StartSteps, CreateTimesOut, RecordFails, QrFails

LEMMA StopStepsAnswer ==
    ASSUME OutputInv, "remove" \notin Faults, StopSteps
    PROVE  OutputInv'
<1> USE DEF GoTo, OutputInv, OutputOfSession, OutputOfStart, OutputOfFile, Unanswered, WithOutput,
            Making
<1>1. CASE StopServers
    <2>1. Own' = Own BY <1>1, OwnUnchanged DEF StopServers
    <2> QED BY <1>1, <2>1 DEF StopServers
<1>2. CASE RemoveOwned(TRUE)
    <2>1. Own' = {}
        <3>1. Own \subseteq Its(output_name, owns_output)
            BY <1>2 DEF RemoveOwned
        <3>2. CASE owns_output
            BY <1>2, <3>1, <3>2, OwnRemoved DEF RemoveOwned, Its
        <3>3. CASE ~owns_output
            BY <1>2, <3>1, <3>3, OwnUnchanged DEF RemoveOwned, Its
        <3> QED BY <3>2, <3>3
    <2> QED BY <1>2, <2>1 DEF RemoveOwned
<1>3. CASE ClearSession
    <2>1. Own' = {} BY <1>3, OwnUnchanged DEF ClearSession
    <2> QED BY <1>3, <2>1 DEF ClearSession, ForgetFields, Release, DropLocals
<1>4. CASE ClearFails
    <2>1. Own' = {} BY <1>4, OwnUnchanged DEF ClearFails
    <2> QED
        BY <1>4, <2>1 DEF ClearFails, ProcessEnds, ForgetFields, Release, DropLocals, SessionOf, Its
<1> QED BY <1>1, <1>2, <1>3, <1>4 DEF StopSteps

LEMMA SavingStepsAnswer ==
    ASSUME Serves, OutputInv, SavingSteps
    PROVE  OutputInv'
<1> USE DEF OnlyLocals, Release, DropLocals, OutputInv, OutputOfSession, OutputOfStart,
            OutputOfFile, Unanswered, WithOutput, Making
<1>1. Own' = Own
    BY OwnUnchanged
       DEF SavingSteps, OpenSettings, GoTo, Saved, SaveFails, ApplyPosition, ApplyFails,
           SetMonitorMode
<1>2. CASE OpenSettings \/ Saved
    BY <1>1, <1>2 DEF OpenSettings, GoTo, Saved, Serves, Base, OwnInv
<1>3. CASE SaveFails
    BY <1>1, <1>3 DEF SaveFails
<1>4. CASE ApplyPosition \/ ApplyFails
    BY <1>1, <1>4 DEF ApplyPosition, ApplyFails
<1> QED BY <1>2, <1>3, <1>4 DEF SavingSteps

\* Recovery removes what session.json names, if it still exists.
LEMMA RecoveryStepsAnswer ==
    ASSUME Serves, OutputInv, "remove" \notin Faults, RecoverySteps \/ Launch
    PROVE  OutputInv'
<1> USE DEF GoTo, OnlyLocals, Release, DropLocals
<1>1. /\ NotUp /\ state' \in {state, "stopped"}
      /\ pc' \in {"down", "recover", "killing", "unplug", "forget", "idle"}
    BY DEF RecoverySteps, Boot, Launch, Load, ReadSession, KillOrphan, RemoveStale, ForgetSession,
           ForgetFails, ProcessEnds, ForgetFields, NotUp
<1>2. state # "running" /\ state' # "running"
    BY <1>1 DEF NotUp, Serves, Base, LifeInv, NextInTurn, Starting
<1>3. (OutputOfSession /\ OutputOfStart)'
    BY <1>1, <1>2 DEF OutputOfSession, OutputOfStart, WithOutput, Making
<1>4. CASE Boot \/ Launch \/ ReadSession
    <2>1. Own' = Own /\ sessionFile' = sessionFile
        BY <1>4, OwnUnchanged DEF Boot, Launch, Load, ReadSession
    <2> QED
        BY <1>2, <1>3, <1>4, <2>1
        DEF Boot, Launch, Load, ReadSession, OutputInv, OutputOfFile, Unanswered, Its
<1>5. CASE KillOrphan
    <2>1. Own' = Own BY <1>5, OwnUnchanged DEF KillOrphan
    <2> QED BY <1>2, <1>3, <1>5, <2>1 DEF KillOrphan, OutputInv, OutputOfFile, Unanswered
<1>6. CASE RemoveStale(TRUE)
    <2>1. Own \subseteq Its(made, made_owned)
        BY <1>6 DEF RemoveStale, OutputInv, OutputOfFile
    <2>2. Own' = {}
        <3>1. CASE made_owned /\ made \in monitors
            BY <1>6, <2>1, <3>1, OwnRemoved DEF RemoveStale, Its
        <3>2. CASE ~(made_owned /\ made \in monitors)
            <4>1. Own = {} BY <2>1, <3>2 DEF Its, Own
            <4> QED BY <1>6, <3>2, <4>1, OwnUnchanged DEF RemoveStale
        <3> QED BY <3>1, <3>2
    <2> QED BY <1>2, <1>3, <1>6, <2>2 DEF RemoveStale, OutputInv, OutputOfFile, Unanswered
<1>7. CASE ForgetSession
    <2>1. Own' = {}
        BY <1>2, <1>7, OwnUnchanged DEF ForgetSession, OutputInv, Unanswered
    <2> QED BY <1>2, <1>3, <1>7, <2>1 DEF ForgetSession, OutputInv, OutputOfFile, Unanswered
<1>8. CASE ForgetFails
    <2>1. Own' = {}
        BY <1>2, <1>8, OwnUnchanged DEF ForgetFails, OutputInv, Unanswered
    <2> QED
        BY <1>2, <1>3, <1>8, <2>1
        DEF ForgetFails, ProcessEnds, OutputInv, OutputOfFile, Unanswered, Its
<1> QED BY <1>4, <1>5, <1>6, <1>7, <1>8 DEF RecoverySteps

LEMMA RequestsAnswer ==
    ASSUME Serves, OutputInv, "remove" \notin Faults, Requests
    PROVE  OutputInv'
<1> USE DEF GoTo, OnlyControl, OnlyLocals, OutputInv, OutputOfSession, OutputOfStart,
            OutputOfFile, Unanswered, WithOutput, Making
<1>1. ASSUME UNCHANGED <<monitors, created>> PROVE Own' = Own
    BY <1>1, OwnUnchanged
<1>2. ASSUME NEW m, Start(m) PROVE OutputInv'
    BY <1>1, <1>2 DEF Start
<1>3. CASE Stop
    BY <1>1, <1>3 DEF Stop
<1>4. CASE Launch
    BY <1>4, RecoveryStepsAnswer
<1>5. ASSUME NEW p, SaveAndRestart(p) PROVE OutputInv'
    BY <1>1, <1>5 DEF SaveAndRestart, Save
<1>6. ASSUME NEW p, SetPosition(p) PROVE OutputInv'
    BY <1>1, <1>6 DEF SetPosition, Save
<1>7. ASSUME NEW m, NEW s, Resize(m, s) \/ ResizeFails(m, s) PROVE OutputInv'
    BY <1>1, <1>7 DEF Resize, ResizeFails, SetMonitorMode
<1>8. ASSUME NEW m, NEW s, AcceptReport(m, s) PROVE OutputInv'
    BY <1>1, <1>8 DEF AcceptReport
<1>9. ASSUME NEW r, IgnoreReport(r) PROVE OutputInv'
    BY <1>1, <1>9 DEF IgnoreReport
<1> QED
    BY <1>2, <1>3, <1>4, <1>5, <1>6, <1>7, <1>8, <1>9
    DEF Requests, SetDisplayMode, SetPassword, SetUsername, SetResolution, ApplyReport

\* Other programs' outputs are not the daemon's, and real monitors are no outputs of it.
LEMMA HotPlugsAnswer ==
    ASSUME Serves, OutputInv, "hotplug" \notin Faults, HotPlugs
    PROVE  OutputInv'
<1>1. Own' = Own
    <2>1. ASSUME ForeignCreate PROVE Own' = Own
        <3>1. nextHeadless \notin created
            BY DEF CreatedInPast, Serves, Base, OwnInv, Numbering
        <3> QED BY <2>1, <3>1 DEF ForeignCreate, NewHeadless, Own
    <2> QED BY <2>1, OwnPlugged DEF HotPlugs, Serves, Base
<1>2. pc \in {"create", "diff"} => monitors' \subseteq monitors
    BY DEF HotPlugs, Unplug
<1>3. pc = "diff" => monitors' \ before = Own
    <2> SUFFICES ASSUME pc = "diff" PROVE monitors' \ before = Own
        OBVIOUS
    <2>1. monitors \ before = Own
        BY DEF OutputInv, OutputOfStart
    <2>2. Own \subseteq monitors'
        BY <1>1 DEF Own
    <2> QED BY <1>2, <2>1, <2>2
<1>4. UNCHANGED <<state, output_name, owns_output, sessionFile, pc, goto, made, made_owned, before>>
    BY DEF HotPlugs
<1> QED
    BY <1>1, <1>2, <1>3, <1>4
    DEF OutputInv, OutputOfSession, OutputOfStart, OutputOfFile, Unanswered, WithOutput, Making

\* An end once the session is recorded leaves the file with the output; a reboot
\* leaves no output.
LEMMA EndsAnswer ==
    ASSUME Serves, OutputInv, "cut_start" \notin Faults, Exit \/ Crash \/ Reboot
    PROVE  OutputInv'
<1>1. /\ pc' \in {"off", "down"} /\ state' # "running" /\ sessionFile' = sessionFile
    BY DEF Exit, Crash, Reboot, ProcessEnds, ForgetFields
<1>2. CASE Reboot
    <2>1. Own' = {} BY <1>2 DEF Reboot, NewCompositor, Own
    <2> QED
        BY <1>1, <2>1
        DEF OutputInv, OutputOfSession, OutputOfStart, OutputOfFile, Unanswered, WithOutput, Making
<1>3. CASE Exit \/ Crash
    <2>1. Own' = Own /\ ~Unrecorded
        BY <1>3, OwnUnchanged DEF Exit, Crash, MayEnd
    <2>2. Own \subseteq Its(sessionFile.out, sessionFile.found /\ sessionFile.owns)
        <3>1. CASE pc \in {"off", "down", "recover", "killing", "unplug"}
            BY <3>1 DEF OutputInv, OutputOfFile, Its
        <3>2. CASE state = "running" /\ pc # "clearing"
            <4>1. pc \notin {"record", "recording"}
                BY <2>1 DEF Serves, ServedInv, Unrecorded
            <4> QED BY <3>2, <4>1 DEF OutputInv, OutputOfSession, SessionOf, Its
        <3>3. CASE WithOutput
            BY <2>1, <3>3 DEF OutputInv, OutputOfStart, WithOutput, Making, Unrecorded, Its
        <3>4. CASE Unanswered
            BY <3>4 DEF OutputInv
        <3>5. pc # "diff" /\ (pc \in {"record", "recording"} => state = "running")
            BY <2>1 DEF Unrecorded, Serves, FileInv
        <3> QED
            BY <3>1, <3>2, <3>3, <3>4, <3>5
            DEF Serves, Base, Typed, ControlTypes, Unanswered, WithOutput, Making
    <2> QED
        BY <1>1, <2>1, <2>2
        DEF OutputInv, OutputOfSession, OutputOfStart, OutputOfFile, Unanswered, WithOutput, Making
<1> QED BY <1>2, <1>3

LEMMA AlwaysAnswered ==
    ASSUME Faults \intersect LosesOutput = {}
    PROVE  Spec => []OutputInv
<1>1. "remove" \notin Faults /\ "hotplug" \notin Faults /\ "cut_start" \notin Faults
    BY DEF LosesOutput
<1>2. Init => OutputInv
    <2> SUFFICES ASSUME Init PROVE OutputInv
        OBVIOUS
    <2>1. Own = {} BY DEF Init, HyprInit, Own
    <2> QED
        BY <2>1
        DEF Init, HyprInit, OutputInv, OutputOfSession, OutputOfStart, OutputOfFile,
            Unanswered, WithOutput, Making
<1>3. ASSUME Serves, OutputInv, [Next]_vars PROVE OutputInv'
    <2>1. CASE UNCHANGED vars
        <3>1. Own' = Own BY <2>1, OwnUnchanged DEF vars
        <3> QED
            BY <1>3, <2>1, <3>1
            DEF vars, OutputInv, OutputOfSession, OutputOfStart, OutputOfFile, Unanswered,
                WithOutput, Making
    <2> QED
        BY <1>1, <1>3, <2>1, StartStepsAnswer, StopStepsAnswer, SavingStepsAnswer,
           RecoveryStepsAnswer, RequestsAnswer, HotPlugsAnswer, EndsAnswer
        DEF Next, Steps
<1> QED BY <1>2, <1>3, AlwaysServes, PTL DEF Spec

\* Unless one of those seven happens, whatever else fails no output outlives its session:
\* not a settings.json that cannot be written, not a wayvnc that does not answer, not
\* another program creating outputs of its own.
THEOREM NoOutputLeft ==
    ASSUME Faults \intersect LosesOutput = {}
    PROVE  Spec => []NoStrayOutput
<1>1. OutputInv => NoStrayOutput
    BY DEF OutputInv, Unanswered, NoStrayOutput, Own
<1> QED BY <1>1, AlwaysAnswered, PTL

\* These eight failures are all that can leave anything at all: NothingLeftOver assumes far
\* more, that nothing fails but what the code handles.
THEOREM NothingLeftUnless ==
    ASSUME Faults \intersect (LosesWayvnc \union LosesOutput) = {}
    PROVE  Spec => []NoOrphan
<1>1. Faults \intersect LosesWayvnc = {} /\ Faults \intersect LosesOutput = {}
    OBVIOUS
<1>2. NoStrayOutput /\ (pc = "idle" /\ state # "running" => vncs = {})
        /\ (pc = "idle" /\ state # "running" => ~sessionFile.found) => NoOrphan
    BY DEF NoOrphan, NoStrayOutput
<1>3. Spec => []NoStrayOutput
    BY <1>1, NoOutputLeft
<1>4. Spec => [](pc = "idle" /\ state # "running" => vncs = {})
    BY <1>1, NoWayvncLeft
<1> QED BY <1>2, <1>3, <1>4, NoFileLeft, PTL

--------------------------------------------------------------------------------
(* Credentials. *)

\* wayvnc's configuration file is up to date from the moment start() writes it until a
\* change of credentials begins to take the session down.
CredentialsInv ==
    \/ pc \in {"spawn", "serve", "record", "recording"}
    \/ Standing /\ Settled
    => conf = CurrentConf

LEMMA StartStepsCredentials ==
    ASSUME Serves, CredentialsInv, StartSteps
    PROVE  CredentialsInv'
<1> USE DEF OnlyControl, OnlyLocals, GoTo, Release, DropLocals, Settled, Standing
<1>1. Starting => state # "running"
    BY DEF Serves, Base, LifeInv, NextInTurn
<1>2. ASSUME Starting, state' = state, pc' \notin {"spawn", "serve", "record", "recording"}
      PROVE  CredentialsInv'
    BY <1>1, <1>2 DEF CredentialsInv
<1>3. CASE \/ ProbeNetwork \/ PickFocused \/ NothingFocused \/ ReadSource \/ ListBefore
           \/ CreateOutput \/ CreateTimesOut \/ NameOutput \/ AmbiguousOutput
           \/ SetInitialMode \/ InitialModeFails
           \/ KeepPassword \/ GeneratePassword \/ CallFails \/ QrFails
    <2>1. Starting /\ state' = state /\ pc' \notin {"spawn", "serve", "record", "recording"}
        BY <1>3
        DEF ProbeNetwork, PickFocused, NothingFocused, ReadSource, ListBefore, CreateOutput,
            CreateTimesOut, NameOutput, AmbiguousOutput, SetInitialMode, InitialModeFails,
            KeepPassword, GeneratePassword, CallFails, FailsAt, QrFails, Starting
    <2> QED BY <1>2, <2>1
<1>4. CASE WriteConfig
    BY <1>4 DEF WriteConfig, CredentialsInv, CurrentConf
<1>5. CASE SpawnWayvnc \/ Commit \/ OpenSession \/ RecordSession \/ RecordFails
    BY <1>5
    DEF SpawnWayvnc, Commit, OpenSession, RecordSession, RecordFails, CredentialsInv, CurrentConf
<1>6. ASSUME NEW removed \in BOOLEAN, CleanUpStart(removed) PROVE CredentialsInv'
    BY <1>6 DEF CleanUpStart, CredentialsInv
<1> QED BY <1>3, <1>4, <1>5, <1>6 DEF StartSteps

LEMMA OtherStepsCredentials ==
    ASSUME Serves, CredentialsInv, "save" \notin Faults,
           StopSteps \/ SavingSteps \/ RecoverySteps \/ Launch
    PROVE  CredentialsInv'
<1> USE DEF OnlyLocals, GoTo, Release, DropLocals
<1>1. CASE StopSteps
    <2>1. pc \in {"removing", "clearing"} => wayvnc = 0
        BY DEF Serves, ServedInv
    <2>2. pc' \notin {"spawn", "serve", "record", "recording"} /\ ~Standing'
        BY <1>1, <2>1
        DEF StopSteps, StopServers, RemoveOwned, ClearSession, ClearFails, ForgetFields,
            ProcessEnds, Standing
    <2> QED BY <2>2 DEF CredentialsInv
<1>2. CASE OpenSettings \/ Saved
    BY <1>2 DEF OpenSettings, Saved, CredentialsInv, Settled, Standing, CurrentConf, Serves, Base,
                OwnInv
<1>3. CASE ApplyPosition \/ ApplyFails
    BY <1>3 DEF ApplyPosition, ApplyFails, CredentialsInv, Settled, Standing, CurrentConf
<1>4. CASE RecoverySteps \/ Launch
    <2>1. /\ NotUp /\ state' \in {state, "stopped"}
          /\ pc' \notin {"spawn", "serve", "record", "recording"}
        BY <1>4 DEF RecoverySteps, Boot, Launch, Load, ReadSession, KillOrphan, RemoveStale,
                    ForgetSession, ForgetFails, ProcessEnds, ForgetFields, NotUp
    <2> QED BY <2>1 DEF CredentialsInv, Standing, NotUp, Serves, Base, LifeInv, NextInTurn, Starting
<1>5. ~SaveFails
    BY DEF SaveFails
<1> QED BY <1>1, <1>2, <1>3, <1>4, <1>5 DEF SavingSteps

LEMMA RequestsCredentials ==
    ASSUME Serves, CredentialsInv, "save" \notin Faults, Requests
    PROVE  CredentialsInv'
<1> USE DEF GoTo, OnlyControl, OnlyLocals, CredentialsInv, Settled, Standing, CurrentConf
<1>1. ASSUME NEW m, Start(m) PROVE CredentialsInv'
    BY <1>1 DEF Start
<1>2. CASE Stop
    BY <1>2 DEF Stop
<1>3. CASE Launch
    BY <1>3, OtherStepsCredentials
<1>4. ASSUME NEW p, SaveAndRestart(p) PROVE CredentialsInv'
    BY <1>4 DEF SaveAndRestart, Save
<1>5. ASSUME NEW p, SetPosition(p) PROVE CredentialsInv'
    <2>1. prefs'.user = prefs.user /\ prefs'.pass = prefs.pass
        BY <1>5 DEF SetPosition, Save, Serves, Base, Typed, ServiceTypes, Prefs
    <2> QED BY <1>5, <2>1 DEF SetPosition, Save
<1>6. ASSUME NEW m, NEW s, Resize(m, s) \/ ResizeFails(m, s) PROVE CredentialsInv'
    BY <1>6 DEF Resize, ResizeFails
<1>7. ASSUME NEW m, NEW s, AcceptReport(m, s) PROVE CredentialsInv'
    BY <1>7 DEF AcceptReport
<1>8. ASSUME NEW r, IgnoreReport(r) PROVE CredentialsInv'
    BY <1>8 DEF IgnoreReport
<1> QED
    BY <1>1, <1>2, <1>3, <1>4, <1>5, <1>6, <1>7, <1>8
    DEF Requests, SetDisplayMode, SetPassword, SetUsername, SetResolution, ApplyReport

LEMMA AlwaysCredentials ==
    ASSUME "save" \notin Faults
    PROVE  Spec => []CredentialsInv
<1>1. Init => CredentialsInv
    BY DEF Init, CredentialsInv, Standing
<1>2. ASSUME Serves, CredentialsInv, [Next]_vars PROVE CredentialsInv'
    <2>1. CASE HotPlugs \/ UNCHANGED vars
        BY <1>2, <2>1 DEF HotPlugs, vars, CredentialsInv, Settled, Standing, CurrentConf
    <2>2. CASE Exit \/ Crash \/ Reboot
        BY <2>2 DEF Exit, Crash, Reboot, ProcessEnds, ForgetFields, CredentialsInv, Standing
    <2> QED
        BY <1>2, <2>1, <2>2, StartStepsCredentials, OtherStepsCredentials, RequestsCredentials
        DEF Next, Steps
<1> QED BY <1>1, <1>2, AlwaysServes, PTL DEF Spec

\* As long as settings.json can be written, whatever else fails: the wayvnc that serves a
\* session takes the credentials the daemon reports, and no others, once a change of
\* them has come to its end.
THEOREM CredentialsCurrent ==
    ASSUME "save" \notin Faults
    PROVE  Spec => [](pc = "idle" /\ state = "running"
                        => \A v \in vncs : v.sid = wayvnc
                             => v.conf = [user |-> prefs.user, pass |-> prefs.pass])
<1>1. Serves /\ CredentialsInv
        => (pc = "idle" /\ state = "running"
              => \A v \in vncs : v.sid = wayvnc
                   => v.conf = [user |-> prefs.user, pass |-> prefs.pass])
    <2> SUFFICES ASSUME Serves, CredentialsInv, pc = "idle", state = "running",
                        NEW v \in vncs, v.sid = wayvnc
        PROVE  v.conf = [user |-> prefs.user, pass |-> prefs.pass]
        OBVIOUS
    <2>1. Standing
        BY DEF Standing, Serves, Base, Typed, StoredTypes
    <2> QED BY <2>1 DEF Serves, ServedInv, TheOne, CredentialsInv, Settled, CurrentConf
<1> QED BY <1>1, AlwaysServes, AlwaysCredentials, PTL

--------------------------------------------------------------------------------
(* Modes, and the whole of a session. *)

\* An output of the daemon's own belongs to the mode that extends.
ModeInv ==
    /\ pc \in {"list", "create", "diff", "mode"} => prefs.mode = "extend"
    /\ WithOutput /\ made_owned => prefs.mode = "extend"
    /\ state = "running" /\ (pc \in {"record", "recording"} \/ Settled) /\ owns_output
          => prefs.mode = "extend"

LEMMA StartStepsMode ==
    ASSUME Serves, ModeInv, StartSteps
    PROVE  ModeInv'
<1> USE DEF OnlyControl, OnlyLocals, GoTo, Release, DropLocals, ModeInv, WithOutput, Making,
            Settled
<1>1. Starting => state # "running"
    BY DEF Serves, Base, LifeInv, NextInTurn
<1>2. prefs \in Prefs
    BY DEF Serves, Base, Typed, ServiceTypes
<1>3. made_owned => Named \/ Recovering
    BY DEF Serves, Base, OwnInv, Ownership
<1>4. CASE ProbeNetwork
    BY <1>1, <1>2, <1>4 DEF ProbeNetwork, Prefs, Starting
<1>5. CASE PickFocused \/ NothingFocused \/ ReadSource
    <2>1. ~made_owned
        BY <1>3, <1>5 DEF PickFocused, NothingFocused, ReadSource, Named, Recovering
    <2> QED BY <1>1, <1>5, <2>1 DEF PickFocused, NothingFocused, ReadSource, Starting
<1>6. CASE \/ ListBefore \/ CreateOutput \/ CreateTimesOut \/ NameOutput \/ AmbiguousOutput
           \/ SetInitialMode \/ InitialModeFails
    BY <1>1, <1>6
    DEF ListBefore, CreateOutput, CreateTimesOut, NameOutput, AmbiguousOutput, SetInitialMode,
        InitialModeFails, Starting
<1>7. CASE KeepPassword \/ WriteConfig \/ SpawnWayvnc
    BY <1>1, <1>7 DEF KeepPassword, WriteConfig, SpawnWayvnc, Starting
<1>8. CASE GeneratePassword
    <2>1. prefs'.mode = prefs.mode
        BY <1>2, <1>8 DEF GeneratePassword, Prefs
    <2> QED BY <1>1, <1>8, <2>1 DEF GeneratePassword, Starting
<1>9. CASE Commit \/ OpenSession \/ RecordSession \/ RecordFails
    BY <1>9 DEF Commit, OpenSession, RecordSession, RecordFails
<1>10. CASE QrFails
    BY <1>1, <1>10 DEF QrFails, Starting
<1>11. CASE CallFails
    <2>1. state' = state /\ prefs' = prefs /\ made_owned' = made_owned /\ pc' = "fail"
        BY <1>11 DEF CallFails, FailsAt
    <2>2. Starting /\ (made_owned => WithOutput)
        <3>1. Starting
            BY <1>11 DEF CallFails, FailsAt, Starting
        <3>2. pc \in {"probe", "focus", "mirror", "list", "create", "diff"} => ~made_owned
            BY <1>3 DEF Named, Recovering
        <3> QED BY <1>11, <3>1, <3>2 DEF CallFails, FailsAt
    <2> QED BY <1>1, <2>1, <2>2
<1>12. ASSUME NEW removed \in BOOLEAN, CleanUpStart(removed) PROVE ModeInv'
    BY <1>12 DEF CleanUpStart
<1> QED
    BY <1>4, <1>5, <1>6, <1>7, <1>8, <1>9, <1>10, <1>11, <1>12 DEF StartSteps

LEMMA OtherStepsMode ==
    ASSUME Serves, ModeInv, Faults \intersect {"save", "unlink"} = {},
           StopSteps \/ SavingSteps \/ RecoverySteps \/ Launch
    PROVE  ModeInv'
<1> USE DEF OnlyLocals, GoTo, Release, DropLocals, ModeInv, WithOutput, Making, Settled
<1>1. CASE StopServers \/ \E removed \in BOOLEAN : RemoveOwned(removed)
    BY <1>1 DEF StopServers, RemoveOwned
<1>2. CASE ClearSession
    BY <1>2 DEF ClearSession, ForgetFields
<1>3. CASE OpenSettings \/ Saved
    BY <1>3 DEF OpenSettings, Saved, Serves, Base, OwnInv
<1>4. CASE ApplyPosition \/ ApplyFails
    BY <1>4 DEF ApplyPosition, ApplyFails
<1>5. CASE RecoverySteps \/ Launch
    <2>1. /\ NotUp /\ state' \in {state, "stopped"}
          /\ pc' \in {"down", "recover", "killing", "unplug", "forget", "idle"}
        BY <1>5 DEF RecoverySteps, Boot, Launch, Load, ReadSession, KillOrphan, RemoveStale,
                    ForgetSession, ForgetFails, ProcessEnds, ForgetFields, NotUp
    <2> QED BY <2>1 DEF NotUp, Serves, Base, LifeInv, NextInTurn, Starting
<1>6. ~SaveFails /\ ~ClearFails
    BY DEF SaveFails, ClearFails
<1> QED BY <1>1, <1>2, <1>3, <1>4, <1>5, <1>6 DEF StopSteps, SavingSteps

LEMMA RequestsMode ==
    ASSUME Serves, ModeInv, Faults \intersect {"save", "unlink"} = {}, Requests
    PROVE  ModeInv'
<1> USE DEF GoTo, OnlyControl, OnlyLocals, ModeInv, WithOutput, Making, Settled
<1>1. ASSUME NEW m, Start(m) PROVE ModeInv'
    BY <1>1 DEF Start
<1>2. CASE Stop
    BY <1>2 DEF Stop
<1>3. CASE Launch
    BY <1>3, OtherStepsMode
<1>4. ASSUME NEW p, SaveAndRestart(p) PROVE ModeInv'
    BY <1>4 DEF SaveAndRestart, Save
<1>5. ASSUME NEW p, SetPosition(p) PROVE ModeInv'
    <2>1. prefs'.mode = prefs.mode
        BY <1>5 DEF SetPosition, Save, Serves, Base, Typed, ServiceTypes, Prefs
    <2> QED BY <1>5, <2>1 DEF SetPosition, Save
<1>6. ASSUME NEW m, NEW s, Resize(m, s) \/ ResizeFails(m, s) PROVE ModeInv'
    BY <1>6 DEF Resize, ResizeFails
<1>7. ASSUME NEW m, NEW s, AcceptReport(m, s) PROVE ModeInv'
    BY <1>7 DEF AcceptReport
<1>8. ASSUME NEW r, IgnoreReport(r) PROVE ModeInv'
    BY <1>8 DEF IgnoreReport
<1> QED
    BY <1>1, <1>2, <1>3, <1>4, <1>5, <1>6, <1>7, <1>8
    DEF Requests, SetDisplayMode, SetPassword, SetUsername, SetResolution, ApplyReport

LEMMA AlwaysInMode ==
    ASSUME Faults \intersect {"save", "unlink"} = {}
    PROVE  Spec => [](ModeInv /\ SessionInv)
<1>1. Init => ModeInv /\ SessionInv
    BY InitSession DEF Init, ModeInv, WithOutput, Making, Settled
<1>2. ASSUME Serves, ModeInv, [Next]_vars PROVE ModeInv'
    <2>1. CASE HotPlugs \/ UNCHANGED vars
        BY <1>2, <2>1 DEF HotPlugs, vars, ModeInv, WithOutput, Making, Settled
    <2>2. CASE Exit \/ Crash \/ Reboot
        BY <2>2
        DEF Exit, Crash, Reboot, ProcessEnds, DropLocals, ForgetFields, ModeInv, WithOutput,
            Making
    <2> QED
        BY <1>2, <2>1, <2>2, StartStepsMode, OtherStepsMode, RequestsMode DEF Next, Steps
<1>3. ASSUME Serves, SessionInv, [Next]_vars PROVE SessionInv'
    BY <1>3, NextSession DEF Serves, Base
<1> QED BY <1>1, <1>2, <1>3, AlwaysServes, PTL DEF Spec

\* Without the eight failures, and with a settings.json that can be written and a
\* session.json that can be deleted, a session that runs is intact, whatever else fails:
\* SessionsIntact assumes that nothing fails but what the code handles.
THEOREM SessionsIntactUnless ==
    ASSUME Faults \intersect (LosesWayvnc \union LosesOutput \union {"save", "unlink"}) = {}
    PROVE  Spec => []RunningIntact
<1>1. /\ Faults \intersect LosesWayvnc = {} /\ Faults \intersect LosesOutput = {}
      /\ Faults \intersect {"save", "unlink"} = {}
    OBVIOUS
<1>2. ASSUME Serves, HeldInv, OutputInv, CredentialsInv, ModeInv, SessionInv
      PROVE  RunningIntact
    <2> SUFFICES ASSUME pc = "idle", state = "running"
        PROVE  /\ vncs = {[sid |-> wayvnc, out |-> output_name, conf |-> CurrentConf]}
               /\ setup = wayvnc
               /\ sessionFile = SessionOf(output_name, owns_output)
               /\ owns_output <=> prefs.mode = "extend"
               /\ Own = IF owns_output THEN {output_name} ELSE {}
        BY DEF RunningIntact, CurrentConf, Own
    <2>1. TheOne(wayvnc, output_name) /\ setup = wayvnc /\ conf = CurrentConf
        <3>1. Standing BY <1>1, <1>2 DEF Standing, Serves, ServedInv
        <3> QED BY <1>2, <3>1 DEF Serves, ServedInv, CredentialsInv, Settled
    <2>2. \A v \in vncs : v.sid = wayvnc
        BY <1>2 DEF HeldInv, Held
    <2>3. vncs = {[sid |-> wayvnc, out |-> output_name, conf |-> CurrentConf]}
        BY <2>1, <2>2 DEF TheOne
    <2>4. sessionFile = SessionOf(output_name, owns_output)
        BY <1>2 DEF OutputInv, OutputOfSession
    <2>5. owns_output <=> prefs.mode = "extend"
        BY <1>2 DEF ModeInv, Settled, SessionInv, OwnsToPlace, Extending
    <2>6. Own = IF owns_output THEN {output_name} ELSE {}
        <3>1. Own \subseteq Its(output_name, owns_output)
            BY <1>2 DEF OutputInv, OutputOfSession
        <3>2. owns_output => output_name \in Own
            BY <1>1, <1>2 DEF Standing, Serves, ServedInv, Base, OwnInv, Ownership, Own
        <3> QED BY <3>1, <3>2 DEF Its
    <2> QED BY <2>1, <2>3, <2>4, <2>5, <2>6
<1>3. Spec => []HeldInv
    BY <1>1, AlwaysHeld
<1>4. Spec => []OutputInv
    BY <1>1, AlwaysAnswered
<1>5. Spec => []CredentialsInv
    BY <1>1, AlwaysCredentials
<1>6. Spec => [](ModeInv /\ SessionInv)
    BY <1>1, AlwaysInMode
<1> QED BY <1>2, <1>3, <1>4, <1>5, <1>6, AlwaysServes, PTL
================================================================================
