-------------------------- MODULE DisplayServiceProofs --------------------------
(***************************************************************************)
(* For every set of outputs, preferences and requests and all bounds: the  *)
(* Service's variables keep their types; it removes only headless outputs it *)
(* created, unless a reboot meets other programs' outputs; and it places only *)
(* those, unless a write of settings.json or an unlink fails.              *)
(***************************************************************************)
EXTENDS DisplayService, TLAPS

Recovering == pc \in {"killing", "unplug", "forget"}

\* The points of start() between naming an output and the operation's end.
Named ==
    \/ pc \in {"mode", "config", "cert", "spawn", "serve", "record", "recording",
               "fail"}
    \/ (Saving /\ goto = "cert")

\* An output of a session, maybe of an earlier compositor.  Headless numbers
\* start over at a reboot, so other programs' outputs may then have its name.
Owned(o) ==
    \/ o \in created
    \/ "foreign" \notin Faults /\ o \in Headless
    \/ {"foreign", "reboot"} \subseteq Faults

\* Numbers are given out once, and without other programs only to this daemon.
Numbering ==
    /\ nextHeadless \in Nat \ {0} /\ created \subseteq Headless
    /\ \A h \in monitors \intersect Nat : h < nextHeadless
    /\ "foreign" \notin Faults => monitors \subseteq Physical \union created

\* The output that create_headless_output looks for is in its difference.
FreshOutput ==
    /\ pc = "create" => \A h \in before \intersect Nat : h < nextHeadless
    /\ pc = "diff" => (created \intersect monitors) \ before # {}

\* What owns_output, its local in start(), and session.json stand for.
Ownership ==
    /\ owns_output => output_name \in created
    /\ made_owned => IF Recovering THEN Owned(made) ELSE Named /\ made \in created
    /\ sessionFile.owns => Owned(sessionFile.out)

\* Where an operation goes once the preferences are written.
Continues == goto \in {"idle", "cert", "stopping", "apply"}

OwnInv == Continues /\ Numbering /\ FreshOutput /\ Ownership

\* No session runs at the points of start() before its fields are assigned, and
\* of recovery.
Starting ==
    \/ pc \in {"off", "down", "recover", "killing", "unplug", "forget", "probe", "focus",
               "mirror", "list", "create", "diff", "mode", "config", "cert", "spawn", "serve", "fail"}
    \/ (Saving /\ goto = "cert")

\* start() owns its output exactly when the mode says so.
MadeForMode ==
    /\ pc = "mode" => made_owned
    /\ pc \in {"focus", "mirror"} => prefs.mode # "extend"
    /\ /\ prefs.mode = "extend"
       /\ pc \in {"config", "cert", "spawn", "serve"} \/ (Saving /\ goto = "cert")
       => made_owned

\* A session that extends owns its output whenever its placement may change.
OwnsToPlace ==
    /\ /\ Extending
       /\ pc \in {"idle", "record", "recording"} \/ (Saving /\ goto = "idle")
       => owns_output
    /\ pc = "apply" \/ (Saving /\ goto = "apply") => owns_output

\* What start(), the mode and the state say about each other.
SessionInv ==
    /\ prefs \in Prefs /\ settings \in Prefs \union {TornSettings}
    /\ Starting => state # "running"
    /\ MadeForMode
    /\ OwnsToPlace

\* What is placed is an output of the daemon.
PlacedInv == DOMAIN placed = Outputs /\ PlacesOnlyOwn

\* The type invariant in parts.
ServiceTypes ==
    /\ state \in {"stopped", "running", "error"} /\ prefs \in Prefs
    /\ output_name \in Outputs \union {NoOutput} /\ owns_output \in BOOLEAN
    /\ mode \in AllModes \union {None} /\ scale \in AllScales \union {None}
    /\ sessions \in 0..MaxSessions /\ wayvnc \in 0..sessions /\ setup \in 0..sessions

ControlTypes ==
    /\ pc \in {"off", "down", "recover", "killing", "unplug", "forget", "idle", "probe", "focus",
               "mirror", "list", "create", "diff", "mode", "config", "cert", "spawn", "serve",
               "record", "recording", "fail", "stopping", "removing", "clearing",
               "saving", "writing", "apply"}
    /\ Continues /\ after \in {"return", "restart"}

LocalTypes ==
    /\ arg \in AllModes /\ supervisor \in 0..sessions
    /\ made \in Outputs \union {NoOutput} /\ made_owned \in BOOLEAN
    /\ before \subseteq Outputs

StoredTypes ==
    /\ settings \in Prefs \union {TornSettings}
    /\ sessionFile \in [found: BOOLEAN, out: Outputs \union {NoOutput}, owns: BOOLEAN]
    /\ conf \in [user: Usernames, pass: Passwords \union {NoPassword}]
    /\ vncs \subseteq [sid: 1..sessions, out: Outputs,
                       conf: [user: Usernames, pass: Passwords]]
    /\ reports \subseteq [mode: ReportedModes, scale: Scales]
    /\ ends \in 0..MaxEnds

HyprTypes ==
    /\ monitors \subseteq Outputs /\ created \subseteq Headless
    /\ nextHeadless \in 1..(MaxOutputs + 1)
    /\ placed \in [Outputs -> {Unplaced} \union (AllModes \X AllScales \X Positions)]

\* What start() builds a session from, and what a session has.
Sources ==
    /\ \/ pc \in {"mirror", "mode", "config", "cert", "spawn", "serve"}
       \/ (Saving /\ goto = "cert")
       => made \in Outputs
    /\ pc = "cert" \/ (Saving /\ goto = "cert") => prefs.pass \in Passwords
    /\ pc = "spawn" => conf.pass \in Passwords
    /\ state = "running" => mode \in AllModes /\ scale \in AllScales
    /\ pc = "apply" \/ (Saving /\ goto = "apply") => state = "running"

Typed == /\ ServiceTypes /\ ControlTypes /\ LocalTypes
         /\ StoredTypes /\ HyprTypes /\ Sources

USE DEF serviceVars, localVars, fileVars, procVars, hyprVars, Recovering, Named, Continues, Saving

--------------------------------------------------------------------------------
(* Ownership: most steps create nothing and record nothing new. *)

Quiet ==
    /\ Continues => Continues'
    /\ UNCHANGED <<nextHeadless, created>> /\ monitors' \subseteq monitors
    /\ owns_output' => owns_output /\ output_name' = output_name
    /\ made_owned' => made_owned /\ made' = made /\ Recovering' = Recovering
                      /\ (Named => Named')
    /\ sessionFile'.owns => sessionFile.owns /\ sessionFile'.out = sessionFile.out
    /\ pc' \in {"create", "diff"} => pc' = pc /\ before' = before /\ monitors' = monitors

\* No physical monitor is a headless number.
LEMMA HeadlessApart == \A o \in Physical : o \notin Headless
<1> SUFFICES ASSUME NEW o \in Physical, o \in Headless PROVE FALSE
    OBVIOUS
<1>1. o \in Nat BY OutputsAssumption DEF Headless
<1>2. o \in Physical \intersect Nat BY <1>1
<1> QED BY <1>2, OutputsAssumption

\* A step that creates, names and records nothing keeps what is owned.
LEMMA QuietKeepsOwnership == OwnInv /\ Quiet => OwnInv'
<1> SUFFICES ASSUME OwnInv, Quiet PROVE OwnInv'
    OBVIOUS
<1> USE DEF OwnInv, Quiet
<1>1. Numbering'
    BY DEF Numbering, Headless
<1>2. FreshOutput'
    BY DEF FreshOutput
<1>3. Ownership'
    BY DEF Ownership, Owned, Headless
<1> QED BY <1>1, <1>2, <1>3

\* Nothing exists at the start.
LEMMA InitOwn == Init => OwnInv
<1> SUFFICES ASSUME Init PROVE OwnInv
    OBVIOUS
<1>1. Numbering BY OutputsAssumption DEF Init, HyprInit, Numbering, Headless
<1>2. FreshOutput BY DEF Init, FreshOutput
<1>3. Ownership BY DEF Init, Ownership, NoSession
<1> QED BY <1>1, <1>2, <1>3 DEF Init, OwnInv

\* The steps of start(): the output it names and records is one it created.
LEMMA StartStepsOwn == OwnInv /\ StartSteps => OwnInv'
<1> SUFFICES ASSUME OwnInv, StartSteps PROVE OwnInv'
    OBVIOUS
<1> USE DEF OnlyControl, OnlyLocals, GoTo, Release, DropLocals
<1>1. CASE ProbeNetwork
    <2>1. Quiet BY <1>1 DEF ProbeNetwork, Quiet
    <2> QED BY <2>1, QuietKeepsOwnership
<1>2. CASE PickFocused \/ NothingFocused \/ ReadSource
    <2>1. Quiet BY <1>2 DEF PickFocused, NothingFocused, ReadSource, Quiet, OwnInv, Ownership
    <2> QED BY <2>1, QuietKeepsOwnership
<1>3. CASE ListBefore
    <2>1. Continues' /\ Numbering' /\ Ownership'
        BY <1>3 DEF ListBefore, OwnInv, Numbering, Ownership, Owned
    <2>2. FreshOutput'
        BY <1>3 DEF ListBefore, OwnInv, Numbering, FreshOutput
    <2> QED BY <2>1, <2>2 DEF OwnInv
<1>4. CASE CreateOutput
    <2>1. /\ nextHeadless \in Headless /\ nextHeadless \notin before
          /\ monitors' = monitors \union {nextHeadless}
          /\ created' = created \union {nextHeadless}
          /\ nextHeadless' = nextHeadless + 1
          /\ pc = "create" /\ pc' = "diff"
          /\ UNCHANGED <<owns_output, output_name, made_owned, made, before, goto, sessionFile>>
        BY <1>4 DEF CreateOutput, CreateHeadless, NewHeadless, OwnInv, FreshOutput, Headless
    <2>2. Numbering'
        BY <2>1 DEF OwnInv, Numbering, Headless
    <2>3. FreshOutput'
        BY <2>1 DEF FreshOutput
    <2>4. Ownership'
        BY <2>1 DEF OwnInv, Ownership, Owned
    <2> QED BY <2>1, <2>2, <2>3, <2>4 DEF OwnInv
<1>13. CASE CreateTimesOut
    <2>1. Numbering'
        BY <1>13 DEF CreateTimesOut, CreateHeadless, NewHeadless, OwnInv, Numbering, Headless
    <2>2. Continues' /\ FreshOutput' /\ Ownership'
        BY <1>13 DEF CreateTimesOut, CreateHeadless, NewHeadless, OwnInv, FreshOutput, Ownership,
                     Owned
    <2> QED BY <2>1, <2>2 DEF OwnInv
<1>5. CASE NameOutput
    <2>1. made' \in created
        BY <1>5 DEF NameOutput, OwnInv, FreshOutput
    <2>2. Continues' /\ Numbering' /\ FreshOutput'
        BY <1>5 DEF NameOutput, OwnInv, Numbering, FreshOutput
    <2>3. Ownership'
        BY <1>5, <2>1 DEF NameOutput, OwnInv, Ownership, Owned
    <2> QED BY <2>2, <2>3 DEF OwnInv
<1>6. CASE AmbiguousOutput \/ SetInitialMode \/ InitialModeFails
    <2>1. Quiet
        BY <1>6 DEF AmbiguousOutput, SetInitialMode, InitialModeFails, SetMonitorMode, Quiet
    <2> QED BY <2>1, QuietKeepsOwnership
<1>7. CASE KeepPassword \/ GeneratePassword \/ WriteConfig \/ SpawnWayvnc
    <2>1. Quiet BY <1>7 DEF KeepPassword, GeneratePassword, WriteConfig, SpawnWayvnc, Quiet
    <2> QED BY <2>1, QuietKeepsOwnership
<1>8. CASE Commit
    <2>1. Continues' /\ Numbering' /\ FreshOutput'
        BY <1>8 DEF Commit, OwnInv, Numbering, FreshOutput
    <2>2. Ownership'
        BY <1>8 DEF Commit, OwnInv, Ownership, Owned
    <2> QED BY <2>1, <2>2 DEF OwnInv
<1>14. CASE OpenSession
    <2>1. Quiet BY <1>14 DEF OpenSession, TornSession, Quiet
    <2> QED BY <2>1, QuietKeepsOwnership
<1>9. CASE RecordSession
    <2>1. Continues' /\ Numbering' /\ FreshOutput'
        BY <1>9 DEF RecordSession, OwnInv, Numbering, FreshOutput
    <2>2. Ownership'
        BY <1>9 DEF RecordSession, OwnInv, Ownership, Owned, SessionOf
    <2> QED BY <2>1, <2>2 DEF OwnInv
<1>10. CASE RecordFails \/ QrFails
    <2>1. Quiet BY <1>10 DEF RecordFails, QrFails, Quiet
    <2> QED BY <2>1, QuietKeepsOwnership
<1>11. CASE CallFails
    <2>1. Quiet BY <1>11 DEF CallFails, FailsAt, Quiet
    <2> QED BY <2>1, QuietKeepsOwnership
<1>12. ASSUME NEW removed \in BOOLEAN, CleanUpStart(removed) PROVE OwnInv'
    <2>1. Quiet BY <1>12 DEF CleanUpStart, RemoveOutput, Quiet
    <2> QED BY <2>1, QuietKeepsOwnership
<1> QED BY <1>1, <1>2, <1>3, <1>4, <1>5, <1>6, <1>7, <1>8, <1>9, <1>10, <1>11, <1>12,
           <1>13, <1>14
        DEF StartSteps

\* The steps of stop(): an owned output stays owned until the fields are reset.
LEMMA StopStepsOwn == OwnInv /\ StopSteps => OwnInv'
<1> SUFFICES ASSUME OwnInv, StopSteps PROVE Quiet
    BY QuietKeepsOwnership
<1> USE DEF GoTo, DropLocals, Quiet
<1>1. CASE StopServers BY <1>1 DEF StopServers
<1>2. ASSUME NEW removed \in BOOLEAN, RemoveOwned(removed) PROVE Quiet
    BY <1>2 DEF RemoveOwned, RemoveOutput
<1>3. CASE ClearSession
    BY <1>3 DEF ClearSession, ForgetFields, NoSession, Release, OwnInv, Ownership
<1>4. CASE ClearFails
    BY <1>4 DEF ClearFails, ForgetFields, Release, ProcessEnds, OwnInv, Ownership
<1> QED BY <1>1, <1>2, <1>3, <1>4 DEF StopSteps

\* Writing the preferences.
LEMMA SavingStepsOwn == OwnInv /\ SavingSteps => OwnInv'
<1> SUFFICES ASSUME OwnInv, SavingSteps PROVE Quiet
    BY QuietKeepsOwnership
<1> USE DEF Release, DropLocals, OnlyLocals, Quiet, OwnInv, Ownership
<1>1. CASE OpenSettings \/ Saved BY <1>1 DEF OpenSettings, Saved, GoTo
<1>2. CASE SaveFails BY <1>2 DEF SaveFails
<1>3. CASE ApplyPosition BY <1>3 DEF ApplyPosition, SetMonitorMode
<1>4. CASE ApplyFails BY <1>4 DEF ApplyFails
<1> QED BY <1>1, <1>2, <1>3, <1>4 DEF SavingSteps

\* Recovery removes the output session.json names.
LEMMA RecoveryStepsOwn == OwnInv /\ RecoverySteps => OwnInv'
<1> SUFFICES ASSUME OwnInv, RecoverySteps PROVE OwnInv'
    OBVIOUS
<1> USE DEF GoTo, OnlyControl, OnlyLocals, Release, DropLocals
<1>1. CASE Boot
    <2>1. Quiet BY <1>1 DEF Boot, Load, Quiet
    <2> QED BY <2>1, QuietKeepsOwnership
<1>2. CASE ReadSession
    <2>1. Continues' /\ Numbering' /\ FreshOutput'
        BY <1>2 DEF ReadSession, OwnInv, Numbering, FreshOutput
    <2>2. Ownership'
        BY <1>2 DEF ReadSession, OwnInv, Ownership, Owned
    <2> QED BY <2>1, <2>2 DEF OwnInv
<1>3. CASE KillOrphan
    <2>1. Quiet BY <1>3 DEF KillOrphan, Quiet
    <2> QED BY <2>1, QuietKeepsOwnership
<1>4. ASSUME NEW removed \in BOOLEAN, RemoveStale(removed) PROVE OwnInv'
    <2>1. Quiet BY <1>4 DEF RemoveStale, RemoveOutput, Quiet
    <2> QED BY <2>1, QuietKeepsOwnership
<1>5. CASE ForgetSession
    <2>1. Quiet BY <1>5 DEF ForgetSession, NoSession, Quiet
    <2> QED BY <2>1, QuietKeepsOwnership
<1>6. CASE ForgetFails
    <2>1. Continues' /\ Numbering' /\ FreshOutput' /\ Ownership'
        BY <1>6 DEF ForgetFails, ProcessEnds, ForgetFields, OwnInv, Numbering, FreshOutput,
                    Ownership, Owned
    <2> QED BY <2>1 DEF OwnInv
<1> QED BY <1>1, <1>2, <1>3, <1>4, <1>5, <1>6 DEF RecoverySteps

\* Requests begin an operation, or resize: they create and record nothing.
LEMMA RequestsOwn == OwnInv /\ Requests => OwnInv'
<1> SUFFICES ASSUME OwnInv, Requests PROVE Quiet
    BY QuietKeepsOwnership
<1> USE DEF Quiet, OwnInv, Ownership, GoTo, OnlyControl, OnlyLocals
<1>1. ASSUME NEW m, Start(m) PROVE Quiet
    BY <1>1 DEF Start
<1>2. CASE Stop
    BY <1>2 DEF Stop
<1>3. CASE Launch
    BY <1>3 DEF Launch, Load
<1>4. ASSUME NEW p, NEW next \in {"idle", "stopping", "apply"}, Save(p, next) PROVE Quiet
    BY <1>4 DEF Save
<1>5. ASSUME NEW p, SaveAndRestart(p) PROVE Quiet
    BY <1>4, <1>5 DEF SaveAndRestart
<1>6. ASSUME NEW p, SetPosition(p) PROVE Quiet
    BY <1>4, <1>6 DEF SetPosition
<1>7. ASSUME NEW m, NEW s, Resize(m, s) \/ ResizeFails(m, s) PROVE Quiet
    BY <1>7 DEF Resize, ResizeFails, SetMonitorMode
<1>8. ASSUME NEW m, NEW s, AcceptReport(m, s) PROVE Quiet
    BY <1>8 DEF AcceptReport
<1>9. ASSUME NEW r, IgnoreReport(r) PROVE Quiet
    BY <1>9 DEF IgnoreReport
<1> QED
    BY <1>1, <1>2, <1>3, <1>5, <1>6, <1>7, <1>8, <1>9
    DEF Requests, SetDisplayMode, SetPassword, SetUsername, SetResolution, ApplyReport

\* What happens to the compositor and to the process.
LEMMA SurroundingsOwn == OwnInv /\ (HotPlugs \/ Exit \/ Crash \/ Reboot) => OwnInv'
<1> SUFFICES ASSUME OwnInv, HotPlugs \/ Exit \/ Crash \/ Reboot PROVE OwnInv'
    OBVIOUS
<1>1. CASE Exit \/ Crash
    <2>1. Quiet BY <1>1 DEF Exit, Crash, ProcessEnds, DropLocals, ForgetFields, Quiet
    <2> QED BY <2>1, QuietKeepsOwnership
<1>2. CASE Reboot
    <2>1. /\ monitors' = Physical /\ nextHeadless' = 1 /\ created' = {}
          /\ pc' = "down" /\ ~owns_output' /\ ~made_owned' /\ UNCHANGED sessionFile
          /\ goto' = "idle" /\ "reboot" \in Faults
        BY <1>2 DEF Reboot, NewCompositor, ProcessEnds, DropLocals, ForgetFields
    <2>2. Numbering'
        BY <2>1, OutputsAssumption DEF Numbering, Headless
    <2>3. Continues' /\ FreshOutput' /\ Ownership'
        BY <2>1 DEF FreshOutput, OwnInv, Ownership, Owned, Numbering
    <2> QED BY <2>2, <2>3 DEF OwnInv
<1>3. CASE HotPlugs
    <2>1. UNCHANGED <<created, pc, owns_output, output_name, made_owned, made, goto, before,
                      sessionFile>>
        BY <1>3 DEF HotPlugs, Plug, Unplug, ForeignCreate
    <2>2. Ownership'
        BY <2>1 DEF OwnInv, Ownership, Owned
    <2>3. ASSUME NEW o \in Physical, Unplug(o) PROVE Numbering' /\ FreshOutput'
        <3>1. o \notin created
            BY HeadlessApart DEF OwnInv, Numbering
        <3>2. Numbering'
            BY <2>1, <2>3 DEF Unplug, OwnInv, Numbering
        <3>3. FreshOutput'
            BY <2>1, <2>3, <3>1 DEF Unplug, OwnInv, FreshOutput
        <3> QED BY <3>2, <3>3
    <2>4. ASSUME NEW o \in Physical, Plug(o) PROVE Numbering' /\ FreshOutput'
        BY <2>1, <2>4, OutputsAssumption
        DEF Plug, OwnInv, Numbering, FreshOutput, Headless
    <2>5. ASSUME "foreign" \in Faults, ForeignCreate PROVE Numbering' /\ FreshOutput'
        <3>1. Numbering'
            BY <2>1, <2>5 DEF ForeignCreate, NewHeadless, OwnInv, Numbering, Headless
        <3>2. FreshOutput'
            BY <2>1, <2>5 DEF ForeignCreate, NewHeadless, OwnInv, Numbering, FreshOutput, Headless
        <3> QED BY <3>1, <3>2
    <2>6. Numbering' /\ FreshOutput'
        BY <1>3, <2>3, <2>4, <2>5 DEF HotPlugs
    <2> QED BY <2>1, <2>2, <2>6 DEF OwnInv
<1> QED BY <1>1, <1>2, <1>3

\* Every step keeps what is owned.
LEMMA NextOwn == OwnInv /\ [Next]_vars => OwnInv'
<1> SUFFICES ASSUME OwnInv, [Next]_vars PROVE OwnInv'
    OBVIOUS
<1>1. CASE UNCHANGED vars
    <2>1. Quiet BY <1>1 DEF vars, Quiet
    <2> QED BY <2>1, QuietKeepsOwnership
<1> QED
    BY <1>1, StartStepsOwn, StopStepsOwn, SavingStepsOwn, RecoveryStepsOwn, RequestsOwn,
       SurroundingsOwn
    DEF Next, Steps

\* What is owned holds in every state.
LEMMA AlwaysOwn == Spec => []OwnInv
BY InitOwn, NextOwn, PTL DEF Spec

\* Three steps remove an output: the clean-up of a failed start, of a session,
\* and of a previous daemon's session.
LEMMA RemovalSteps ==
    ASSUME Requests \/ Steps \/ Exit \/ Crash
    PROVE  \/ monitors \subseteq monitors'
           \/ \E removed \in BOOLEAN :
                 CleanUpStart(removed) \/ RemoveOwned(removed) \/ RemoveStale(removed)
<1> USE DEF OnlyControl, OnlyLocals
<1>1. CASE Requests
    <2>1. ASSUME NEW p, NEW next, Save(p, next) PROVE monitors \subseteq monitors'
        BY <2>1 DEF Save
    <2>2. ASSUME NEW p, SaveAndRestart(p) PROVE monitors \subseteq monitors'
        BY <2>1, <2>2 DEF SaveAndRestart
    <2>3. ASSUME NEW p, SetPosition(p) PROVE monitors \subseteq monitors'
        BY <2>1, <2>3 DEF SetPosition
    <2>4. ASSUME NEW m, NEW s, Resize(m, s) \/ ResizeFails(m, s)
          PROVE  monitors \subseteq monitors'
        BY <2>4 DEF Resize, ResizeFails, SetMonitorMode
    <2>5. ASSUME NEW m, Start(m) PROVE monitors \subseteq monitors'
        BY <2>5 DEF Start
    <2>6. ASSUME NEW m, NEW s, AcceptReport(m, s) PROVE monitors \subseteq monitors'
        BY <2>6 DEF AcceptReport
    <2>7. ASSUME NEW r, IgnoreReport(r) PROVE monitors \subseteq monitors'
        BY <2>7 DEF IgnoreReport
    <2>8. CASE Stop \/ Launch
        BY <2>8 DEF Stop, Launch, Load
    <2> QED
        BY <1>1, <2>2, <2>3, <2>4, <2>5, <2>6, <2>7, <2>8
        DEF Requests, SetDisplayMode, SetPassword, SetUsername, SetResolution, ApplyReport
<1>2. CASE StartSteps
    <2>1. CASE ProbeNetwork \/ PickFocused \/ NothingFocused \/ ReadSource \/ ListBefore
        BY <2>1 DEF ProbeNetwork, PickFocused, NothingFocused, ReadSource, ListBefore
    <2>2. CASE CreateOutput \/ CreateTimesOut
        BY <2>2 DEF CreateOutput, CreateTimesOut, CreateHeadless, NewHeadless
    <2>3. CASE NameOutput \/ AmbiguousOutput \/ SetInitialMode \/ InitialModeFails
        BY <2>3 DEF NameOutput, AmbiguousOutput, SetInitialMode, InitialModeFails, SetMonitorMode
    <2>4. CASE KeepPassword \/ GeneratePassword \/ WriteConfig \/ SpawnWayvnc
        BY <2>4 DEF KeepPassword, GeneratePassword, WriteConfig, SpawnWayvnc
    <2>5. CASE Commit \/ OpenSession \/ RecordSession \/ RecordFails \/ QrFails
        BY <2>5 DEF Commit, OpenSession, RecordSession, RecordFails, QrFails
    <2>6. CASE CallFails
        BY <2>6 DEF CallFails, FailsAt
    <2> QED BY <1>2, <2>1, <2>2, <2>3, <2>4, <2>5, <2>6 DEF StartSteps
<1>3. CASE StopSteps
    <2>1. CASE StopServers \/ ClearSession \/ ClearFails
        BY <2>1 DEF StopServers, ClearSession, ClearFails
    <2> QED BY <1>3, <2>1 DEF StopSteps
<1>4. CASE SavingSteps
    BY <1>4 DEF SavingSteps, OpenSettings, Saved, SaveFails, ApplyPosition, ApplyFails,
                SetMonitorMode
<1>5. CASE RecoverySteps
    <2>1. CASE Boot \/ ReadSession \/ KillOrphan \/ ForgetSession \/ ForgetFails
        BY <2>1 DEF Boot, Load, ReadSession, KillOrphan, ForgetSession, ForgetFails
    <2> QED BY <1>5, <2>1 DEF RecoverySteps
<1>6. CASE Exit \/ Crash
    BY <1>6 DEF Exit, Crash
<1> QED BY <1>1, <1>2, <1>3, <1>4, <1>5, <1>6 DEF Steps

\* Unless a reboot meets other programs' outputs, the daemon removes only
\* headless outputs it created, whatever fails and wherever it is killed
\* (service.py:137-146).
THEOREM OwnRemovals ==
    ASSUME ~({"foreign", "reboot"} \subseteq Faults)
    PROVE  Spec => RemovesOnlyOwn
<1>1. ASSUME OwnInv, Requests \/ Steps \/ Exit \/ Crash
      PROVE  monitors \ monitors' \subseteq created
    <2>1. CASE \E removed \in BOOLEAN : CleanUpStart(removed)
        BY <1>1, <2>1 DEF CleanUpStart, RemoveOutput, OwnInv, Ownership
    <2>2. CASE \E removed \in BOOLEAN : RemoveOwned(removed)
        BY <1>1, <2>2 DEF RemoveOwned, RemoveOutput, OwnInv, Ownership
    <2>3. CASE \E removed \in BOOLEAN : RemoveStale(removed)
        <3>1. made_owned => Owned(made)
            BY <1>1, <2>3 DEF RemoveStale, GoTo, OwnInv, Ownership
        <3>2. Owned(made) /\ made \in monitors => made \in created
            BY <1>1, HeadlessApart DEF Owned, OwnInv, Numbering
        <3> QED BY <2>3, <3>1, <3>2 DEF RemoveStale, RemoveOutput
    <2> QED BY <1>1, <2>1, <2>2, <2>3, RemovalSteps
<1>2. OwnInv /\ [Next]_vars => [monitors \ monitors' \subseteq created \/ HotPlugs \/ Reboot]_vars
    BY <1>1 DEF Next
<1> QED BY <1>2, AlwaysOwn, PTL DEF Spec, RemovesOnlyOwn

--------------------------------------------------------------------------------
(* Placement: the mode says whose the output is, as long as a switch of it goes *)
(* through.                                                                *)

\* No session runs and nothing is placed at the start.
LEMMA InitSession == Init => SessionInv /\ PlacedInv
<1> SUFFICES ASSUME Init PROVE SessionInv /\ PlacedInv
    OBVIOUS
<1>1. DefaultPrefs \in Prefs
    BY PreferencesAssumption DEF DefaultPrefs, Prefs
<1>2. SessionInv
    BY <1>1 DEF Init, SessionInv, MadeForMode, OwnsToPlace, Extending, Starting
<1>3. PlacedInv
    BY DEF Init, HyprInit, PlacedInv, PlacesOnlyOwn
<1> QED BY <1>2, <1>3

\* The steps of start(): the output is owned exactly when the mode extends.
LEMMA StartStepsSession == OwnInv /\ SessionInv /\ StartSteps => SessionInv'
<1> SUFFICES ASSUME OwnInv, SessionInv, StartSteps PROVE SessionInv'
    OBVIOUS
<1> USE DEF OnlyControl, OnlyLocals, GoTo, Release, DropLocals, SessionInv, Starting,
            MadeForMode, OwnsToPlace, Extending
<1>1. CASE ProbeNetwork
    BY <1>1 DEF ProbeNetwork
<1>2. CASE PickFocused \/ NothingFocused \/ ReadSource
    BY <1>2 DEF PickFocused, NothingFocused, ReadSource
<1>3. CASE ListBefore \/ CreateOutput \/ CreateTimesOut
    BY <1>3 DEF ListBefore, CreateOutput, CreateTimesOut
<1>4. CASE NameOutput \/ AmbiguousOutput \/ SetInitialMode \/ InitialModeFails
    BY <1>4 DEF NameOutput, AmbiguousOutput, SetInitialMode, InitialModeFails
<1>5. CASE KeepPassword \/ WriteConfig \/ SpawnWayvnc
    BY <1>5 DEF KeepPassword, WriteConfig, SpawnWayvnc
<1>6. CASE GeneratePassword
    <2>1. prefs' \in Prefs /\ prefs'.mode = prefs.mode
        BY <1>6 DEF GeneratePassword, Prefs
    <2> QED BY <1>6, <2>1 DEF GeneratePassword
<1>7. CASE Commit
    BY <1>7 DEF Commit
<1>8. CASE OpenSession \/ RecordSession \/ RecordFails \/ QrFails
    BY <1>8 DEF OpenSession, RecordSession, RecordFails, QrFails
<1>9. CASE CallFails
    BY <1>9 DEF CallFails, FailsAt
<1>10. ASSUME NEW removed \in BOOLEAN, CleanUpStart(removed) PROVE SessionInv'
    BY <1>10 DEF CleanUpStart
<1> QED BY <1>1, <1>2, <1>3, <1>4, <1>5, <1>6, <1>7, <1>8, <1>9, <1>10 DEF StartSteps

\* The steps of stop(), and the restart that may follow.  A failing unlink in a
\* switch of the mode leaves a session of the old one.
LEMMA StopStepsSession ==
    ASSUME "unlink" \notin Faults, SessionInv, StopSteps
    PROVE  SessionInv'
<1> USE DEF GoTo, Release, DropLocals, SessionInv, Starting, MadeForMode, OwnsToPlace, Extending
<1>1. CASE StopServers
    BY <1>1 DEF StopServers
<1>2. ASSUME NEW removed \in BOOLEAN, RemoveOwned(removed) PROVE SessionInv'
    BY <1>2 DEF RemoveOwned
<1>3. CASE ClearSession
    BY <1>3 DEF ClearSession, ForgetFields
<1> QED BY <1>1, <1>2, <1>3 DEF StopSteps, ClearFails

\* A failing write is what takes the mode and the session apart.
LEMMA SavingStepsSession ==
    ASSUME "save" \notin Faults, OwnInv, SessionInv, SavingSteps
    PROVE  SessionInv'
<1> USE DEF OnlyLocals, Release, DropLocals, SessionInv, Starting, MadeForMode, OwnsToPlace,
            Extending
<1>1. CASE OpenSettings \/ Saved
    BY <1>1 DEF OpenSettings, Saved, GoTo, OwnInv
<1>2. CASE ApplyPosition \/ ApplyFails
    BY <1>2 DEF ApplyPosition, ApplyFails
<1> QED BY <1>1, <1>2 DEF SavingSteps, SaveFails

\* No session runs during recovery.
LEMMA RecoveryStepsSession == SessionInv /\ RecoverySteps => SessionInv'
<1> SUFFICES ASSUME SessionInv, RecoverySteps PROVE SessionInv'
    OBVIOUS
<1> USE DEF GoTo, OnlyControl, OnlyLocals, Release, DropLocals, SessionInv, Starting,
            MadeForMode, OwnsToPlace, Extending
<1>4. DefaultPrefs \in Prefs
    BY PreferencesAssumption DEF DefaultPrefs, Prefs
<1>1. CASE Boot \/ ReadSession
    BY <1>1, <1>4 DEF Boot, Load, ReadSession
<1>2. CASE KillOrphan \/ ForgetSession \/ ForgetFails
    BY <1>2, <1>4 DEF KillOrphan, ForgetSession, ForgetFails, ProcessEnds, ForgetFields
<1>3. ASSUME NEW removed \in BOOLEAN, RemoveStale(removed) PROVE SessionInv'
    BY <1>3 DEF RemoveStale
<1> QED BY <1>1, <1>2, <1>3 DEF RecoverySteps

\* A preference that changes the mode takes the session down before idle.
LEMMA RequestsSession == SessionInv /\ Requests => SessionInv'
<1> SUFFICES ASSUME SessionInv, Requests PROVE SessionInv'
    OBVIOUS
<1> USE DEF GoTo, OnlyControl, OnlyLocals, DropLocals, SessionInv, Starting, MadeForMode,
            OwnsToPlace, Extending
<1>1. DefaultPrefs \in Prefs
    BY PreferencesAssumption DEF DefaultPrefs, Prefs
<1>2. ASSUME NEW m, Start(m) PROVE SessionInv'
    BY <1>2 DEF Start
<1>3. CASE Stop
    BY <1>3 DEF Stop
<1>4. CASE Launch
    BY <1>1, <1>4 DEF Launch, Load
<1>5. ASSUME NEW p \in Prefs, SaveAndRestart(p) PROVE SessionInv'
    BY <1>1, <1>5 DEF SaveAndRestart, Save
<1>6. ASSUME NEW p \in Positions, SetPosition(p) PROVE SessionInv'
    <2>1. prefs' \in Prefs /\ prefs'.mode = prefs.mode
        BY <1>6 DEF SetPosition, Save, Prefs
    <2> QED BY <1>1, <1>6, <2>1 DEF SetPosition, Save
<1>7. ASSUME NEW m, NEW s, Resize(m, s) \/ ResizeFails(m, s) PROVE SessionInv'
    BY <1>7 DEF Resize, ResizeFails
<1>8. ASSUME NEW m, NEW s, AcceptReport(m, s) PROVE SessionInv'
    BY <1>8 DEF AcceptReport
<1>9. ASSUME NEW r, IgnoreReport(r) PROVE SessionInv'
    BY <1>9 DEF IgnoreReport
<1>10. /\ \A m \in {"extend", "mirror"} : [prefs EXCEPT !.mode = m] \in Prefs
       /\ \A p \in Passwords : [prefs EXCEPT !.pass = p] \in Prefs
       /\ \A u \in Usernames : [prefs EXCEPT !.user = u] \in Prefs
    BY DEF Prefs
<1>11. CASE \/ \E m \in {"extend", "mirror"} : SetDisplayMode(m)
            \/ \E p \in Passwords : SetPassword(p)
            \/ \E u \in Usernames : SetUsername(u)
    BY <1>5, <1>10, <1>11 DEF SetDisplayMode, SetPassword, SetUsername
<1> QED
    BY <1>2, <1>3, <1>4, <1>6, <1>7, <1>8, <1>9, <1>11
    DEF Requests, SetResolution, ApplyReport

\* Every step keeps the mode and the session together while writes succeed.
LEMMA NextSession ==
    ASSUME Faults \intersect {"save", "unlink"} = {}, OwnInv, SessionInv, [Next]_vars
    PROVE  SessionInv'
<1> USE DEF SessionInv, Starting, MadeForMode, OwnsToPlace, Extending
<1>1. CASE HotPlugs
    BY <1>1 DEF HotPlugs
<1>2. CASE Exit \/ Crash \/ Reboot
    <2>1. DefaultPrefs \in Prefs
        BY PreferencesAssumption DEF DefaultPrefs, Prefs
    <2> QED BY <1>2, <2>1 DEF Exit, Crash, Reboot, ProcessEnds, DropLocals, ForgetFields
<1>3. CASE UNCHANGED vars
    BY <1>3 DEF vars
<1> QED
    BY <1>1, <1>2, <1>3, StartStepsSession, StopStepsSession, SavingStepsSession,
       RecoveryStepsSession, RequestsSession
    DEF Next, Steps

\* A step that places no output, or one that is the daemon's own.
PlacesOwn ==
    /\ created \subseteq created'
    /\ DOMAIN placed' = DOMAIN placed
    /\ \A o \in Outputs : placed'[o] \in {placed[o], Unplaced} \/ o \in created

\* Such a step keeps what is placed the daemon's own.
LEMMA PlacesOwnKeeps == PlacedInv /\ PlacesOwn => PlacedInv'
BY DEF PlacedInv, PlacesOnlyOwn, PlacesOwn

\* hl.monitor of an output the daemon owns, and the removal of any output.
LEMMA SettingModePlacesOwn ==
    ASSUME DOMAIN placed = Outputs, NEW o, NEW m, NEW s, NEW p,
           (o \in created /\ SetMonitorMode(o, m, s, p)) \/ RemoveOutput(o)
    PROVE  PlacesOwn
BY DEF SetMonitorMode, RemoveOutput, PlacesOwn

\* start() places the output it has just created, and nothing else.
LEMMA StartStepsPlace ==
    ASSUME OwnInv, SessionInv, PlacedInv, StartSteps
    PROVE  PlacesOwn
<1> USE DEF OnlyControl, OnlyLocals, GoTo, PlacedInv
<1>1. CASE UNCHANGED <<placed, created>>
    BY <1>1 DEF PlacesOwn
<1>2. CASE CreateOutput \/ CreateTimesOut
    BY <1>2 DEF CreateOutput, CreateTimesOut, CreateHeadless, NewHeadless, PlacesOwn
<1>3. CASE SetInitialMode \/ InitialModeFails
    <2>1. made \in created
        BY <1>3 DEF SetInitialMode, InitialModeFails, SessionInv, MadeForMode, OwnInv, Ownership
    <2> QED BY <1>1, <1>3, <2>1, SettingModePlacesOwn DEF SetInitialMode, InitialModeFails
<1>4. ASSUME NEW removed \in BOOLEAN, CleanUpStart(removed) PROVE PlacesOwn
    BY <1>1, <1>4, SettingModePlacesOwn DEF CleanUpStart
<1>5. CASE ProbeNetwork \/ PickFocused \/ NothingFocused \/ ReadSource \/ ListBefore
    BY <1>1, <1>5 DEF ProbeNetwork, PickFocused, NothingFocused, ReadSource, ListBefore
<1>6. CASE NameOutput \/ AmbiguousOutput \/ KeepPassword \/ GeneratePassword
    BY <1>1, <1>6 DEF NameOutput, AmbiguousOutput, KeepPassword, GeneratePassword
<1>7. CASE WriteConfig \/ SpawnWayvnc \/ Commit \/ OpenSession \/ RecordSession
    BY <1>1, <1>7 DEF WriteConfig, SpawnWayvnc, Commit, OpenSession, RecordSession
<1>8. CASE RecordFails \/ QrFails \/ CallFails
    BY <1>1, <1>8 DEF RecordFails, QrFails, CallFails, FailsAt
<1> QED BY <1>2, <1>3, <1>4, <1>5, <1>6, <1>7, <1>8 DEF StartSteps

\* set_position places an owned output; stop() and recovery only remove.
LEMMA OtherStepsPlace ==
    ASSUME OwnInv, SessionInv, PlacedInv, StopSteps \/ SavingSteps \/ RecoverySteps
    PROVE  PlacesOwn
<1> USE DEF OnlyControl, OnlyLocals, PlacedInv
<1>1. CASE UNCHANGED <<placed, created>>
    BY <1>1 DEF PlacesOwn
<1>2. CASE StopSteps
    <2>1. CASE StopServers \/ ClearSession \/ ClearFails
        BY <1>1, <2>1 DEF StopServers, ClearSession, ClearFails
    <2>2. ASSUME NEW removed \in BOOLEAN, RemoveOwned(removed) PROVE PlacesOwn
        BY <1>1, <2>2, SettingModePlacesOwn DEF RemoveOwned
    <2> QED BY <1>2, <2>1, <2>2 DEF StopSteps
<1>3. CASE SavingSteps
    <2>1. CASE OpenSettings \/ Saved \/ SaveFails \/ ApplyFails
        BY <1>1, <2>1 DEF OpenSettings, Saved, SaveFails, ApplyFails
    <2>2. CASE ApplyPosition
        <3>1. output_name \in created
            BY <2>2 DEF ApplyPosition, SessionInv, OwnsToPlace, OwnInv, Ownership
        <3> QED BY <2>2, <3>1, SettingModePlacesOwn DEF ApplyPosition
    <2> QED BY <1>3, <2>1, <2>2 DEF SavingSteps
<1>4. CASE RecoverySteps
    <2>1. CASE Boot \/ ReadSession \/ KillOrphan \/ ForgetSession \/ ForgetFails
        BY <1>1, <2>1 DEF Boot, Load, ReadSession, KillOrphan, ForgetSession, ForgetFails
    <2>2. ASSUME NEW removed \in BOOLEAN, RemoveStale(removed) PROVE PlacesOwn
        BY <1>1, <2>2, SettingModePlacesOwn DEF RemoveStale
    <2> QED BY <1>4, <2>1, <2>2 DEF RecoverySteps
<1> QED BY <1>2, <1>3, <1>4

\* set_resolution and a report place an owned output.
LEMMA RequestsPlace ==
    ASSUME OwnInv, SessionInv, PlacedInv, Requests
    PROVE  PlacesOwn
<1> USE DEF OnlyControl, OnlyLocals, PlacedInv
<1>1. CASE UNCHANGED <<placed, created>>
    BY <1>1 DEF PlacesOwn
<1>2. ASSUME NEW p, NEW next, Save(p, next) PROVE PlacesOwn
    BY <1>1, <1>2 DEF Save
<1>3. ASSUME NEW p, SaveAndRestart(p) PROVE PlacesOwn
    BY <1>2, <1>3 DEF SaveAndRestart
<1>4. ASSUME NEW p, SetPosition(p) PROVE PlacesOwn
    BY <1>2, <1>4 DEF SetPosition
<1>5. ASSUME NEW m, NEW s, Resize(m, s) \/ ResizeFails(m, s) PROVE PlacesOwn
    <2>1. output_name \in created
        BY <1>5 DEF Resize, ResizeFails, SessionInv, OwnsToPlace, OwnInv, Ownership
    <2> QED BY <1>1, <1>5, <2>1, SettingModePlacesOwn DEF Resize, ResizeFails
<1>6. ASSUME NEW m, Start(m) PROVE PlacesOwn
    BY <1>1, <1>6 DEF Start
<1>7. ASSUME NEW m, NEW s, AcceptReport(m, s) PROVE PlacesOwn
    BY <1>1, <1>7 DEF AcceptReport
<1>8. ASSUME NEW r, IgnoreReport(r) PROVE PlacesOwn
    BY <1>1, <1>8 DEF IgnoreReport
<1>9. CASE Stop \/ Launch
    BY <1>1, <1>9 DEF Stop, Launch, Load
<1> QED
    BY <1>3, <1>4, <1>5, <1>6, <1>7, <1>8, <1>9
    DEF Requests, SetDisplayMode, SetPassword, SetUsername, SetResolution, ApplyReport

\* Every step keeps what is placed the daemon's own.
LEMMA NextPlaced ==
    ASSUME OwnInv, SessionInv, PlacedInv, [Next]_vars
    PROVE  PlacedInv'
<1>1. CASE UNCHANGED <<placed, created>>
    BY <1>1 DEF PlacedInv, PlacesOnlyOwn
<1>2. CASE HotPlugs
    BY <1>1, <1>2 DEF HotPlugs, Plug, Unplug, ForeignCreate, NewHeadless
<1>3. CASE Reboot
    BY <1>3 DEF Reboot, NewCompositor, PlacedInv, PlacesOnlyOwn
<1>4. CASE Exit \/ Crash
    BY <1>1, <1>4 DEF Exit, Crash
<1>5. CASE UNCHANGED vars
    BY <1>1, <1>5 DEF vars
<1> QED
    BY <1>2, <1>3, <1>4, <1>5, StartStepsPlace, OtherStepsPlace, RequestsPlace, PlacesOwnKeeps
    DEF Next, Steps

\* As long as settings.json can be written and session.json deleted, the daemon
\* repositions and resizes only headless outputs it created, never a real monitor
\* (service.py:440-444).
THEOREM OwnPlacements ==
    ASSUME Faults \intersect {"save", "unlink"} = {}
    PROVE  Spec => []PlacesOnlyOwn
<1> DEFINE Inv == OwnInv /\ SessionInv /\ PlacedInv
<1>1. Init => Inv
    BY InitOwn, InitSession
<1>2. Inv /\ [Next]_vars => Inv'
    BY NextOwn, NextSession, NextPlaced
<1>3. Inv => PlacesOnlyOwn
    BY DEF PlacedInv
<1> QED BY <1>1, <1>2, <1>3, PTL DEF Spec

--------------------------------------------------------------------------------
(* Types. *)

\* The values the code starts from are of the right kind.
LEMMA DefaultsTyped ==
    /\ DefaultPrefs \in Prefs
    /\ DefaultMode \in AllModes /\ Native \in AllModes /\ One \in AllScales /\ Native \in AllScales
BY PreferencesAssumption DEF DefaultPrefs, Prefs, AllModes, AllScales

\* The initial values have their types.
LEMMA InitTyped == Init => Typed
<1> SUFFICES ASSUME Init PROVE Typed
    OBVIOUS
<1> USE DefaultsTyped, OutputsAssumption, BoundsAssumption, PreferencesAssumption DEF Init
<1>1. owns_output \in BOOLEAN /\ made_owned \in BOOLEAN
    OBVIOUS
<1>2. ServiceTypes /\ ControlTypes /\ LocalTypes
    BY <1>1 DEF ServiceTypes, ControlTypes, LocalTypes
<1>3. StoredTypes /\ Sources
    BY DEF StoredTypes, Sources, NoSession
<1>4. HyprTypes
    BY DEF HyprInit, HyprTypes, Outputs, Headless
<1> QED BY <1>1, <1>2, <1>3, <1>4 DEF Typed

\* hl.monitor with values of the right kind.
LEMMA SetMonitorModeTyped ==
    ASSUME HyprTypes, NEW o, NEW m \in AllModes, NEW s \in AllScales, NEW p \in Positions,
           SetMonitorMode(o, m, s, p)
    PROVE  HyprTypes'
BY DEF SetMonitorMode, HyprTypes

\* The steps of start() keep the types.
LEMMA StartStepsTyped == Typed /\ StartSteps => Typed'
<1> SUFFICES ASSUME Typed, StartSteps PROVE Typed'
    OBVIOUS
<1> USE DefaultsTyped, OutputsAssumption, BoundsAssumption
    DEF OnlyControl, OnlyLocals, GoTo, Release, DropLocals, Typed, ServiceTypes,
            ControlTypes, LocalTypes, StoredTypes, HyprTypes, Sources
<1>1. CASE ProbeNetwork
    BY <1>1 DEF ProbeNetwork
<1>2. CASE PickFocused
    BY <1>2 DEF PickFocused
<1>3. CASE NothingFocused \/ ReadSource
    BY <1>3 DEF NothingFocused, ReadSource
<1>4. CASE ListBefore
    BY <1>4 DEF ListBefore
<1>5. CASE CreateOutput
    BY <1>5 DEF CreateOutput, CreateHeadless, NewHeadless, Headless, Outputs
<1>20. CASE CreateTimesOut
    BY <1>20 DEF CreateTimesOut, CreateHeadless, NewHeadless, Headless, Outputs
<1>6. CASE NameOutput
    BY <1>6 DEF NameOutput
<1>7. CASE AmbiguousOutput
    BY <1>7 DEF AmbiguousOutput
<1>8. CASE SetInitialMode
    BY <1>8 DEF SetInitialMode, SetMonitorMode, Prefs
<1>18. CASE InitialModeFails
    BY <1>18 DEF InitialModeFails, SetMonitorMode, Prefs
<1>9. CASE KeepPassword
    BY <1>9 DEF KeepPassword, Prefs
<1>10. CASE GeneratePassword
    BY <1>10 DEF GeneratePassword, Prefs
<1>11. CASE WriteConfig
    BY <1>11 DEF WriteConfig, Prefs
<1>12. CASE SpawnWayvnc
    BY <1>12 DEF SpawnWayvnc
<1>13. CASE Commit
    BY <1>13 DEF Commit
<1>19. CASE OpenSession
    BY <1>19 DEF OpenSession, TornSession
<1>14. CASE RecordSession
    <2>1. owns_output' \in BOOLEAN /\ made_owned' \in BOOLEAN
        BY <1>14 DEF RecordSession, SessionOf
    <2> QED BY <1>14, <2>1 DEF RecordSession, SessionOf
<1>15. CASE RecordFails \/ QrFails
    <2>1. owns_output' \in BOOLEAN /\ made_owned' \in BOOLEAN
        BY <1>15 DEF RecordFails, QrFails
    <2> QED BY <1>15, <2>1 DEF RecordFails, QrFails
<1>16. CASE CallFails
    BY <1>16 DEF CallFails, FailsAt
<1>17. ASSUME NEW removed \in BOOLEAN, CleanUpStart(removed) PROVE Typed'
    <2>1. owns_output' \in BOOLEAN /\ made_owned' \in BOOLEAN
        BY <1>17 DEF CleanUpStart, RemoveOutput
    <2> QED BY <1>17, <2>1 DEF CleanUpStart, RemoveOutput
<1> QED BY <1>1, <1>2, <1>3, <1>4, <1>5, <1>6, <1>7, <1>8, <1>9, <1>10, <1>11, <1>12, <1>13,
           <1>14, <1>15, <1>16, <1>17, <1>18, <1>19,
           <1>20 DEF StartSteps

\* The steps of stop(), of saving and of recovery keep the types.
LEMMA OtherStepsTyped == Typed /\ (StopSteps \/ SavingSteps \/ RecoverySteps) => Typed'
<1> SUFFICES ASSUME Typed, StopSteps \/ SavingSteps \/ RecoverySteps PROVE Typed'
    OBVIOUS
<1> USE DefaultsTyped, OutputsAssumption, BoundsAssumption
    DEF OnlyControl, OnlyLocals, GoTo, Release, DropLocals, Typed, ServiceTypes,
            ControlTypes, LocalTypes, StoredTypes, HyprTypes, Sources
<1>1. CASE StopServers
    BY <1>1 DEF StopServers
<1>2. ASSUME NEW removed \in BOOLEAN, RemoveOwned(removed) PROVE Typed'
    BY <1>2 DEF RemoveOwned, RemoveOutput
<1>3. CASE ClearSession
    <2>1. owns_output' \in BOOLEAN /\ made_owned' \in BOOLEAN
        BY <1>3 DEF ClearSession, ForgetFields, NoSession
    <2> QED BY <1>3, <2>1 DEF ClearSession, ForgetFields, NoSession
<1>13. CASE ClearFails \/ ForgetFails
    <2>1. owns_output' \in BOOLEAN /\ made_owned' \in BOOLEAN
        BY <1>13 DEF ClearFails, ForgetFails, ForgetFields, ProcessEnds
    <2> QED BY <1>13, <2>1 DEF ClearFails, ForgetFails, ForgetFields, ProcessEnds
<1>4. CASE OpenSettings \/ Saved
    <2>1. owns_output' \in BOOLEAN /\ made_owned' \in BOOLEAN
        BY <1>4 DEF OpenSettings, Saved
    <2> QED BY <1>4, <2>1 DEF OpenSettings, Saved
<1>5. CASE SaveFails
    <2>1. owns_output' \in BOOLEAN /\ made_owned' \in BOOLEAN
        BY <1>5 DEF SaveFails
    <2> QED BY <1>5, <2>1 DEF SaveFails
<1>6. CASE ApplyPosition
    <2>1. owns_output' \in BOOLEAN /\ made_owned' \in BOOLEAN
        BY <1>6 DEF ApplyPosition, SetMonitorMode, Prefs
    <2>2. /\ mode' \in AllModes /\ scale' \in AllScales /\ prefs.position \in Positions
          /\ SetMonitorMode(output_name, mode', scale', prefs.position)
        BY <1>6 DEF ApplyPosition, Prefs
    <2>3. HyprTypes'
        BY <2>2, SetMonitorModeTyped
    <2> QED BY <1>6, <2>1, <2>3 DEF ApplyPosition, SetMonitorMode
<1>7. CASE ApplyFails
    <2>1. owns_output' \in BOOLEAN /\ made_owned' \in BOOLEAN
        BY <1>7 DEF ApplyFails
    <2> QED BY <1>7, <2>1 DEF ApplyFails
<1>8. CASE Boot
    BY <1>8 DEF Boot, Load
<1>9. CASE ReadSession
    <2>1. owns_output' \in BOOLEAN /\ made_owned' \in BOOLEAN
        BY <1>9 DEF ReadSession
    <2> QED BY <1>9, <2>1 DEF ReadSession
<1>10. CASE KillOrphan
    BY <1>10 DEF KillOrphan
<1>11. ASSUME NEW removed \in BOOLEAN, RemoveStale(removed) PROVE Typed'
    BY <1>11 DEF RemoveStale, RemoveOutput
<1>12. CASE ForgetSession
    <2>1. owns_output' \in BOOLEAN /\ made_owned' \in BOOLEAN
        BY <1>12 DEF ForgetSession, NoSession
    <2> QED BY <1>12, <2>1 DEF ForgetSession, NoSession
<1> QED BY <1>1, <1>2, <1>3, <1>4, <1>5, <1>6, <1>7, <1>8, <1>9, <1>10, <1>11, <1>12, <1>13
        DEF StopSteps, SavingSteps, RecoverySteps

\* Requests keep the types.
LEMMA RequestsTyped == Typed /\ Requests => Typed'
<1> SUFFICES ASSUME Typed, Requests PROVE Typed'
    OBVIOUS
<1> USE DefaultsTyped, OutputsAssumption, BoundsAssumption
    DEF OnlyControl, OnlyLocals, GoTo, DropLocals, Typed, ServiceTypes,
            ControlTypes, LocalTypes, StoredTypes, HyprTypes, Sources
<1>1. ASSUME NEW m \in Modes, Start(m) PROVE Typed'
    BY <1>1 DEF Start, AllModes
<1>2. CASE Stop
    BY <1>2 DEF Stop
<1>3. CASE Launch
    BY <1>3 DEF Launch, Load
<1>4. ASSUME NEW p \in Prefs, SaveAndRestart(p) PROVE Typed'
    BY <1>4 DEF SaveAndRestart, Save
<1>5. ASSUME NEW p \in Positions, SetPosition(p) PROVE Typed'
    <2>1. [prefs EXCEPT !.position = p] \in Prefs
        BY DEF Prefs
    <2> QED BY <1>5, <2>1 DEF SetPosition, Save, Extending
<1>13. ASSUME NEW m \in AllModes, NEW s \in AllScales, ResizeFails(m, s),
              reports' \subseteq reports
      PROVE  Typed'
    <2>1. owns_output' \in BOOLEAN /\ made_owned' \in BOOLEAN
        BY <1>13 DEF ResizeFails
    <2>2. HyprTypes'
        BY <1>13, SetMonitorModeTyped DEF ResizeFails, Prefs
    <2> QED BY <1>13, <2>1, <2>2 DEF ResizeFails, SetMonitorMode
<1>6. ASSUME NEW m \in AllModes, NEW s \in AllScales, Resize(m, s), reports' \subseteq reports
      PROVE  Typed'
    <2>1. owns_output' \in BOOLEAN /\ made_owned' \in BOOLEAN
        BY <1>6 DEF Resize, SetMonitorMode, Prefs
    <2>2. /\ mode' \in AllModes /\ scale' \in AllScales /\ prefs.position \in Positions
          /\ SetMonitorMode(output_name, mode', scale', prefs.position)
        BY <1>6 DEF Resize, Prefs
    <2>3. HyprTypes'
        BY <2>2, SetMonitorModeTyped
    <2> QED BY <1>6, <2>1, <2>3 DEF Resize, SetMonitorMode
<1>7. ASSUME NEW m \in ReportedModes, NEW s \in Scales, AcceptReport(m, s) PROVE Typed'
    BY <1>7 DEF AcceptReport
<1>8. ASSUME NEW r, IgnoreReport(r) PROVE Typed'
    BY <1>8 DEF IgnoreReport
<1>9. /\ \A m \in {"extend", "mirror"} : [prefs EXCEPT !.mode = m] \in Prefs
      /\ \A p \in Passwords : [prefs EXCEPT !.pass = p] \in Prefs
      /\ \A u \in Usernames : [prefs EXCEPT !.user = u] \in Prefs
    BY DEF Prefs
<1>10. CASE \/ \E m \in {"extend", "mirror"} : SetDisplayMode(m)
            \/ \E p \in Passwords : SetPassword(p)
            \/ \E u \in Usernames : SetUsername(u)
    BY <1>4, <1>9, <1>10 DEF SetDisplayMode, SetPassword, SetUsername
<1>11. ASSUME NEW m \in Modes, NEW s \in Scales \union {scale}, SetResolution(m, s) PROVE Typed'
    <2>1. m \in AllModes /\ s \in AllScales
        BY <1>11 DEF SetResolution, Resize, ResizeFails, Extending, AllModes, AllScales
    <2> QED BY <1>6, <1>13, <1>11, <2>1 DEF SetResolution
<1>12. ASSUME NEW r \in reports, ApplyReport(r) PROVE Typed'
    <2>1. r.mode \in AllModes /\ r.scale \in AllScales
        BY DEF AllModes, AllScales
    <2> QED BY <1>6, <1>13, <1>12, <2>1 DEF ApplyReport
<1> QED BY <1>1, <1>2, <1>3, <1>5, <1>7, <1>8, <1>10, <1>11, <1>12 DEF Requests

\* Every step keeps the types.
LEMMA NextTyped == Typed /\ [Next]_vars => Typed'
<1> SUFFICES ASSUME Typed, [Next]_vars PROVE Typed'
    OBVIOUS
<1> USE DefaultsTyped, OutputsAssumption, BoundsAssumption
    DEF Typed, ServiceTypes, ControlTypes, LocalTypes, StoredTypes, HyprTypes, Sources
<1>1. CASE HotPlugs
    <2>1. owns_output' \in BOOLEAN /\ made_owned' \in BOOLEAN
        BY <1>1 DEF HotPlugs
    <2>2. ASSUME NEW o \in Physical, Plug(o) \/ Unplug(o) PROVE HyprTypes'
        BY <2>2 DEF Plug, Unplug, Outputs
    <2>3. CASE ForeignCreate
        BY <1>1, <2>1, <2>3 DEF HotPlugs, ForeignCreate, NewHeadless, Headless, Outputs
    <2> QED BY <1>1, <2>1, <2>2, <2>3 DEF HotPlugs
<1>2. CASE Exit \/ Crash
    <2>1. owns_output' \in BOOLEAN /\ made_owned' \in BOOLEAN
        BY <1>2 DEF Exit, Crash, ProcessEnds, DropLocals, ForgetFields
    <2> QED BY <1>2, <2>1 DEF Exit, Crash, MayEnd, ProcessEnds, DropLocals, ForgetFields
<1>3. CASE Reboot
    <2>1. owns_output' \in BOOLEAN /\ made_owned' \in BOOLEAN
        BY <1>3 DEF Reboot, NewCompositor, ProcessEnds, DropLocals, ForgetFields, Outputs, Headless
    <2> QED BY <1>3, <2>1
            DEF Reboot, NewCompositor, ProcessEnds, DropLocals, ForgetFields, Outputs, Headless
<1>4. CASE UNCHANGED vars
    BY <1>4 DEF vars
<1> QED BY <1>1, <1>2, <1>3, <1>4, StartStepsTyped, OtherStepsTyped, RequestsTyped DEF Next, Steps

\* The variables keep their types, for every instance.
THEOREM ServiceTypeCorrect == Spec => []TypeOK
<1>1. Typed => TypeOK
    BY DEF Typed, TypeOK, ServiceTypes, ControlTypes, LocalTypes, StoredTypes, HyprTypes
<1> QED BY <1>1, InitTyped, NextTyped, PTL DEF Spec

================================================================================
