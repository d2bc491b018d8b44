------------------------- MODULE SessionInventoryProofs -------------------------
(***************************************************************************)
(* What exists at each point of the Service's operations: outputs, wayvnc  *)
(* processes, session.json.  From it, for every set of outputs,            *)
(* preferences and requests and all bounds: under the failures the code    *)
(* handles, kills and reboots, nothing is left when no session runs, and a *)
(* running session is intact; preferences are durable and the placement is *)
(* applied whatever else fails.                                            *)
(***************************************************************************)
EXTENDS DisplayServiceProofs

\* The failures start(), stop() and recovery are written for.
Handled == {"lan", "hyprctl", "eval", "reapply", "cert", "spawn", "port", "crash", "reboot"}

\* The daemon's headless outputs that exist.
Own == created \intersect monitors

\* The output a session, or a start, has of its own.
Its(o, owned) == IF owned THEN {o} ELSE {}

\* kill_orphan stops one wayvnc.
OneAtMost == \A v, w \in vncs : v = w

CurrentConf == [user |-> prefs.user, pass |-> prefs.pass]

Nothing == vncs = {} /\ Own = {} /\ ~sessionFile.found /\ owns_output = FALSE

\* A session as start() has just built it, but for the file.
Built == /\ vncs = {[sid |-> wayvnc, out |-> output_name, conf |-> CurrentConf]}
         /\ setup = wayvnc
         /\ owns_output <=> prefs.mode = "extend"
         /\ Own = Its(output_name, owns_output)

\* What session.json says of a Service's session while there is one.
Recorded ==
    IF state = "running" THEN sessionFile = SessionOf(output_name, owns_output)
                         ELSE ~sessionFile.found

\* Where no operation has touched the session yet, or none will any more.
Settled == pc \in {"idle", "apply"} \/ (Saving /\ goto \in {"idle", "apply"})
Leaving == pc = "stopping" \/ (Saving /\ goto = "stopping")
Making == pc \in {"config", "cert", "spawn"} \/ (Saving /\ goto = "cert")

InService ==
    /\ Settled => IF state = "running" THEN Built /\ Recorded ELSE Nothing
    /\ pc \in {"record", "recording"} => Built /\ state = "running" /\ supervisor = wayvnc /\ supervisor # 0

InStop ==
    /\ Leaving => /\ Recorded /\ Own = Its(output_name, owns_output)
                  /\ OneAtMost /\ \A v \in vncs : v.sid = wayvnc
                  /\ state # "running" => Nothing
    /\ pc = "removing" => /\ Recorded /\ Own = Its(output_name, owns_output) /\ vncs = {}
                          /\ state # "running" => owns_output = FALSE
    /\ pc = "clearing" => /\ Recorded /\ Own = {} /\ vncs = {}

InStart ==
    /\ pc \in {"probe", "focus", "mirror", "list", "create"} => Nothing
    /\ pc \in {"list", "create", "diff", "mode"} => prefs.mode = "extend"
    /\ pc = "create" => monitors \subseteq before
    /\ pc = "diff" => monitors \ before = Own /\ \E o \in Headless : Own = {o}
    /\ pc \in {"mode", "serve", "fail"} \/ Making
          => /\ Own = Its(made, made_owned)
             /\ made_owned => prefs.mode = "extend"
    /\ pc \in {"diff", "mode"} \/ Making => vncs = {}
    /\ pc = "spawn" => conf = CurrentConf
    /\ pc = "serve" => /\ supervisor # 0
                       /\ vncs = {[sid |-> supervisor, out |-> made, conf |-> CurrentConf]}
    /\ pc = "fail" => \A v \in vncs : v.sid = supervisor /\ supervisor # 0
    /\ pc \in {"diff", "mode", "serve", "fail"} \/ Making
          => ~sessionFile.found /\ owns_output = FALSE
    /\ supervisor # 0 => pc \in {"serve", "record", "recording", "fail"}

InRecovery ==
    /\ pc \in {"off", "down", "recover"} =>
          /\ IF sessionFile.found THEN OneAtMost ELSE vncs = {}
          /\ Own \subseteq Its(sessionFile.out, sessionFile.found /\ sessionFile.owns)
    /\ pc = "killing" => OneAtMost /\ Own \subseteq Its(made, made_owned)
    /\ pc = "unplug" => vncs = {} /\ Own \subseteq Its(made, made_owned)
    /\ pc = "forget" => vncs = {} /\ Own = {}
    /\ pc \in {"killing", "unplug", "forget"}
          => sessionFile.found /\ made = sessionFile.out /\ made_owned = sessionFile.owns
    /\ pc \in {"off", "down", "recover", "killing", "unplug", "forget"} => owns_output = FALSE

Inventory == InService /\ InStop /\ InStart /\ InRecovery

\* Everything the steps need to know.
Inv == Typed /\ OwnInv /\ SessionInv /\ Inventory

USE DEF serviceVars, localVars, fileVars, procVars, hyprVars, Saving

--------------------------------------------------------------------------------
(* Outputs. *)

\* The daemon's own outputs are no real monitors.
LEMMA OwnIsHeadless ==
    ASSUME OwnInv
    PROVE  Own \subseteq Headless /\ Own \intersect Physical = {}
BY HeadlessApart DEF Own, OwnInv, Numbering

\* Own outputs change only with the monitor list or the history of creations.
LEMMA OwnUnchanged ==
    ASSUME UNCHANGED <<monitors, created>>
    PROVE  Own' = Own
BY DEF Own

\* Removing an output takes it from the own ones.
LEMMA OwnRemoved ==
    ASSUME NEW o, RemoveOutput(o)
    PROVE  Own' = Own \ {o}
BY DEF Own, RemoveOutput

\* A created output is new among the own ones.
LEMMA OwnCreated ==
    ASSUME OwnInv, CreateHeadless
    PROVE  Own' = Own \union {nextHeadless} /\ nextHeadless \in Headless
BY DEF Own, CreateHeadless, NewHeadless, OwnInv, Numbering, Headless

\* Plugging and unplugging concerns real monitors only.
LEMMA OwnPlugged ==
    ASSUME OwnInv, NEW o \in Physical, Plug(o) \/ Unplug(o)
    PROVE  Own' = Own
<1>1. o \notin created BY HeadlessApart DEF OwnInv, Numbering
<1>2. QED BY <1>1 DEF Own, Plug, Unplug

--------------------------------------------------------------------------------
(* start(). *)

\* Up to the creation of an output nothing exists.
LEMMA ProbeKeeps ==
    ASSUME Inv, ProbeNetwork \/ PickFocused \/ NothingFocused \/ ReadSource \/ ListBefore
    PROVE  Inventory'
<1> USE DEF OnlyControl, OnlyLocals, GoTo
<1>1. /\ Own' = Own /\ CurrentConf' = CurrentConf
      /\ UNCHANGED <<monitors, created, prefs, state, vncs, sessionFile, supervisor, made_owned,
                     owns_output, goto, wayvnc, setup, output_name>>
  BY OwnUnchanged
     DEF ProbeNetwork, PickFocused, NothingFocused, ReadSource, ListBefore, CurrentConf
<1>2. /\ pc \in {"probe", "focus", "mirror", "list"}
      /\ pc' \in {"focus", "mirror", "list", "create", "config", "fail"}
      /\ pc' \in {"list", "create"} => prefs.mode = "extend"
      /\ pc' = "create" => before' = monitors
  BY DEF ProbeNetwork, PickFocused, NothingFocused, ReadSource, ListBefore,
         Inv, Inventory, InStart, SessionInv, Prefs
<1>3. Nothing /\ Nothing' /\ made_owned = FALSE
  BY <1>1, <1>2 DEF Nothing, Inv, Inventory, InStart, OwnInv, Ownership, Named, Recovering, Typed, LocalTypes
<1>4. supervisor = 0 BY <1>2 DEF Inv, Inventory, InStart
<1>5. InService' /\ InStop' /\ InRecovery'
  BY <1>2 DEF InService, InStop, InRecovery, Settled, Leaving
<1>6. InStart'
  BY <1>1, <1>2, <1>3, <1>4 DEF InStart, Making, Nothing, Its
<1>7. QED BY <1>5, <1>6 DEF Inventory

\* The output created is the difference of the two monitor lists, whatever real
\* monitor is unplugged between them, and start() knows its name.
LEMMA CreateKeeps ==
    ASSUME Inv, "list" \notin Faults,
           CreateOutput \/ NameOutput \/ AmbiguousOutput \/ SetInitialMode \/ InitialModeFails
    PROVE  Inventory'
<1> USE DEF OnlyControl, OnlyLocals, GoTo
<1>1. CASE CreateOutput
  <2> USE <1>1 DEF CreateOutput
  <2>1. Own' = Own \union {nextHeadless} /\ nextHeadless \in Headless
    BY OwnCreated DEF Inv
  <2>2. Own = {} /\ Nothing /\ monitors \subseteq before /\ prefs.mode = "extend" /\ supervisor = 0
    BY DEF Inv, Inventory, InStart, Nothing
  <2>3. nextHeadless \notin before
    BY <2>1 DEF Inv, OwnInv, FreshOutput, Headless
  <2>4. monitors' \ before' = Own'
    BY <2>1, <2>2, <2>3 DEF CreateHeadless, NewHeadless
  <2>5. InService' /\ InStop' /\ InRecovery'
    BY DEF InService, InStop, InRecovery, Settled, Leaving
  <2>6. InStart'
    BY <2>1, <2>2, <2>4 DEF InStart, Making, Nothing
  <2>7. QED BY <2>5, <2>6 DEF Inventory
<1>2. CASE NameOutput
  <2> USE <1>2 DEF NameOutput
  <2>1. Own' = Own BY OwnUnchanged
  <2>2. /\ monitors \ before = Own /\ vncs = {} /\ ~sessionFile.found /\ owns_output = FALSE
        /\ prefs.mode = "extend" /\ supervisor = 0
    BY DEF Inv, Inventory, InStart
  <2>3. Own = {made'} /\ made_owned' = TRUE
    BY <2>2
  <2>4. InService' /\ InStop' /\ InRecovery'
    BY DEF InService, InStop, InRecovery, Settled, Leaving
  <2>5. InStart'
    BY <2>1, <2>2, <2>3 DEF InStart, Making, Its
  <2>6. QED BY <2>4, <2>5 DEF Inventory
<1>3. CASE AmbiguousOutput
  <2>1. pc = "diff" BY <1>3 DEF AmbiguousOutput
  <2>2. PICK o \in Headless : Own = {o} /\ monitors \ before = {o} BY <2>1 DEF Inv, Inventory, InStart
  <2>3. o \in monitors BY <2>2 DEF Own
  <2>4. QED BY <1>3, <2>2, <2>3 DEF AmbiguousOutput
<1>4. CASE SetInitialMode
  <2> USE <1>4 DEF SetInitialMode, SetMonitorMode
  <2>1. Own' = Own BY OwnUnchanged
  <2>2. InService' /\ InStop' /\ InRecovery'
    BY DEF InService, InStop, InRecovery, Settled, Leaving
  <2>3. InStart'
    BY <2>1 DEF Inv, Inventory, InStart, Making
  <2>4. QED BY <2>2, <2>3 DEF Inventory
<1>5. CASE InitialModeFails
  <2> USE <1>5 DEF InitialModeFails, SetMonitorMode
  <2>1. Own' = Own BY OwnUnchanged
  <2>2. InService' /\ InStop' /\ InRecovery'
    BY DEF InService, InStop, InRecovery, Settled, Leaving
  <2>3. InStart'
    BY <2>1 DEF Inv, Inventory, InStart, Making
  <2>4. QED BY <2>2, <2>3 DEF Inventory
<1>6. QED BY <1>1, <1>2, <1>3, <1>4, <1>5

\* Passwords, certificate and configuration: the output stays the one start() made,
\* and the file holds the current credentials when wayvnc reads it.
LEMMA ConfigKeeps ==
    ASSUME Inv, KeepPassword \/ GeneratePassword \/ WriteConfig
    PROVE  Inventory'
<1> USE DEF OnlyControl, OnlyLocals, GoTo
<1>1. /\ Own' = Own /\ prefs'.mode = prefs.mode
      /\ UNCHANGED <<state, vncs, sessionFile, supervisor, made, made_owned, owns_output>>
  BY OwnUnchanged DEF KeepPassword, GeneratePassword, WriteConfig, Inv, Typed, ServiceTypes, Prefs
<1>2. /\ Making /\ pc' \in {"cert", "spawn", "saving"} /\ (pc' = "saving" => goto' = "cert")
      /\ pc' = "spawn" => conf' = CurrentConf'
  BY DEF KeepPassword, GeneratePassword, WriteConfig, Making, CurrentConf
<1>3. /\ Own = Its(made, made_owned) /\ (made_owned => prefs.mode = "extend")
      /\ vncs = {} /\ ~sessionFile.found /\ owns_output = FALSE /\ supervisor = 0
  BY <1>2 DEF Inv, Inventory, InStart, Making
<1>4. InService' /\ InStop' /\ InRecovery'
  BY <1>2 DEF InService, InStop, InRecovery, Settled, Leaving
<1>5. Its(made, made_owned)' = Its(made, made_owned) BY <1>1 DEF Its
<1>6. InStart'
  BY <1>1, <1>2, <1>3, <1>5 DEF InStart, Making
<1>7. QED BY <1>4, <1>6 DEF Inventory

\* The one wayvnc there is captures the output start() made.
LEMMA SpawnKeeps ==
    ASSUME Inv, SpawnWayvnc
    PROVE  Inventory'
<1> USE DEF GoTo, SpawnWayvnc
<1>1. Own' = Own /\ CurrentConf' = CurrentConf BY OwnUnchanged DEF CurrentConf
<1>2. /\ Own = Its(made, made_owned) /\ (made_owned => prefs.mode = "extend")
      /\ vncs = {} /\ ~sessionFile.found /\ owns_output = FALSE /\ conf = CurrentConf
  BY DEF Inv, Inventory, InStart, Making
<1>3. sessions \in Nat /\ supervisor' = sessions + 1 /\ supervisor' # 0
  BY BoundsAssumption DEF Inv, Typed, ServiceTypes
<1>4. vncs' = {[sid |-> supervisor', out |-> made', conf |-> CurrentConf']}
  BY <1>1, <1>2
<1>5. InService' /\ InStop' /\ InRecovery'
  BY DEF InService, InStop, InRecovery, Settled, Leaving
<1>6. Its(made, made_owned)' = Its(made, made_owned) BY DEF Its
<1>7. InStart' BY <1>1, <1>2, <1>3, <1>4, <1>6 DEF InStart, Making
<1>8. QED BY <1>5, <1>7 DEF Inventory

\* The fields describe what start() has made.
LEMMA CommitKeeps ==
    ASSUME Inv, Commit
    PROVE  Inventory'
<1> USE DEF GoTo, Commit
<1>1. Own' = Own /\ CurrentConf' = CurrentConf BY OwnUnchanged DEF CurrentConf
<1>2. /\ Own = Its(made, made_owned) /\ (made_owned <=> prefs.mode = "extend")
      /\ supervisor # 0
      /\ vncs = {[sid |-> supervisor, out |-> made, conf |-> CurrentConf]}
  BY DEF Inv, Inventory, InStart, SessionInv, MadeForMode
<1>3. Its(output_name, owns_output)' = Its(made, made_owned) BY DEF Its
<1>4. Built' BY <1>1, <1>2, <1>3 DEF Built
<1>5. InService' BY <1>2, <1>4 DEF InService, Settled
<1>6. InStop' /\ InRecovery' /\ InStart'
  BY DEF InStart, InStop, InRecovery, Leaving, Making
<1>7. QED BY <1>5, <1>6 DEF Inventory

\* The file describes the session.
LEMMA RecordKeeps ==
    ASSUME Inv, OpenSession \/ RecordSession
    PROVE  Inventory'
<1> USE DEF GoTo, OpenSession, RecordSession, Release, DropLocals
<1>1. Own' = Own /\ CurrentConf' = CurrentConf BY OwnUnchanged DEF CurrentConf
<1>2. Built /\ state = "running" /\ supervisor = wayvnc /\ supervisor # 0
  BY DEF Inv, Inventory, InService
<1>3. Its(output_name, owns_output)' = Its(output_name, owns_output) BY DEF Its
<1>4. Built' BY <1>1, <1>2, <1>3 DEF Built
<1>5. InService' BY <1>2, <1>4 DEF InService, Settled, Recorded
<1>6. InStop' /\ InRecovery' /\ InStart'
  BY DEF InStart, InStop, InRecovery, Leaving, Making
<1>7. QED BY <1>5, <1>6 DEF Inventory

\* Every failure start() catches leaves at most the supervisor's wayvnc and the
\* output that the except clause knows of.
LEMMA FailsKeeps ==
    ASSUME Inv, Faults \subseteq Handled, CallFails
    PROVE  Inventory'
<1> USE DEF OnlyControl, OnlyLocals, GoTo
<1>1. /\ Own' = Own /\ UNCHANGED <<state, prefs, vncs, sessionFile, supervisor, made, made_owned, owns_output>>
      /\ pc \in {"probe", "focus", "mirror", "list", "create", "cert", "spawn", "serve"}
      /\ pc' = "fail"
  BY OwnUnchanged DEF CallFails, FailsAt, Handled
<1>2. /\ Own = Its(made, made_owned) /\ (made_owned => prefs.mode = "extend")
      /\ ~sessionFile.found /\ owns_output = FALSE
      /\ \A v \in vncs : v.sid = supervisor /\ supervisor # 0
      /\ supervisor # 0 => pc = "serve"
  <2>1. CASE pc \in {"probe", "focus", "mirror", "list", "create"}
    <3>1. made_owned = FALSE
      BY <2>1 DEF Inv, OwnInv, Ownership, Named, Recovering, Typed, LocalTypes
    <3>2. QED BY <2>1, <3>1 DEF Inv, Inventory, InStart, Nothing, Its
  <2>2. CASE pc \in {"cert", "spawn", "serve"}
    BY <2>2 DEF Inv, Inventory, InStart, Making
  <2>3. QED BY <1>1, <2>1, <2>2
<1>3. InService' /\ InStop' /\ InRecovery'
  BY <1>1 DEF InService, InStop, InRecovery, Settled, Leaving
<1>4. Its(made, made_owned)' = Its(made, made_owned) BY <1>1 DEF Its
<1>5. InStart' BY <1>1, <1>2, <1>4 DEF InStart, Making
<1>6. QED BY <1>3, <1>5 DEF Inventory

\* The except clause leaves nothing.
LEMMA CleanUpKeeps ==
    ASSUME Inv, CleanUpStart(TRUE)
    PROVE  Inventory'
<1> USE DEF CleanUpStart, Release, DropLocals
<1>1. /\ Own = Its(made, made_owned) /\ ~sessionFile.found
      /\ \A v \in vncs : v.sid = supervisor
  BY DEF Inv, Inventory, InStart
<1>2. vncs' = {} BY <1>1
<1>3. Own' = {}
  <2>1. CASE made_owned BY <2>1, <1>1, OwnRemoved DEF Its
  <2>2. CASE ~made_owned BY <2>2, <1>1, OwnUnchanged DEF Its
  <2>3. QED BY <2>1, <2>2
<1>4. Nothing' BY <1>1, <1>2, <1>3 DEF Nothing
<1>5. InService' BY <1>4 DEF InService, Settled
<1>6. InStop' /\ InRecovery' /\ InStart'
  BY DEF InStart, InStop, InRecovery, Leaving, Making
<1>7. QED BY <1>5, <1>6 DEF Inventory

\* The steps of start().
LEMMA StartStepsInventory ==
    ASSUME Inv, Faults \subseteq Handled, StartSteps
    PROVE  Inventory'
<1>1. Faults \intersect {"late", "list", "remove", "disk", "qr"} = {}
  BY DEF Handled
<1>2. QED
  BY <1>1, ProbeKeeps, CreateKeeps, ConfigKeeps, SpawnKeeps, CommitKeeps, RecordKeeps, FailsKeeps,
     CleanUpKeeps
  DEF StartSteps, CreateTimesOut, RecordFails, QrFails

--------------------------------------------------------------------------------
(* stop(), and the end of the process. *)

\* stop() ends the session's wayvnc, and the failed start's error has none.
LEMMA StopServersKeeps ==
    ASSUME Inv, StopServers
    PROVE  Inventory'
<1> USE DEF GoTo, StopServers
<1>1. Own' = Own BY OwnUnchanged
<1>2. /\ Recorded /\ Own = Its(output_name, owns_output)
      /\ \A v \in vncs : v.sid = wayvnc
      /\ state # "running" => owns_output = FALSE
      /\ supervisor = 0
  BY DEF Inv, Inventory, InStop, InStart, Leaving, Nothing
<1>3. vncs' = {} BY <1>2
<1>4. Recorded' /\ Its(output_name, owns_output)' = Its(output_name, owns_output)
  BY <1>2 DEF Recorded, Its
<1>5. InService' /\ InRecovery' /\ InStart'
  BY <1>2 DEF InService, InStart, InRecovery, Settled, Making
<1>6. InStop' BY <1>1, <1>2, <1>3, <1>4 DEF InStop, Leaving
<1>7. QED BY <1>5, <1>6 DEF Inventory

\* stop() removes the session's output if it is its own.
LEMMA RemoveOwnedKeeps ==
    ASSUME Inv, RemoveOwned(TRUE)
    PROVE  Inventory'
<1> USE DEF GoTo, RemoveOwned
<1>1. /\ Recorded /\ Own = Its(output_name, owns_output) /\ vncs = {} /\ supervisor = 0
  BY DEF Inv, Inventory, InStop, InStart
<1>2. Own' = {}
  <2>1. CASE owns_output BY <2>1, <1>1, OwnRemoved DEF Its
  <2>2. CASE ~owns_output BY <2>2, <1>1, OwnUnchanged DEF Its
  <2>3. QED BY <2>1, <2>2
<1>3. Recorded' BY <1>1 DEF Recorded
<1>4. InService' /\ InRecovery' /\ InStart'
  BY <1>1 DEF InService, InStart, InRecovery, Settled, Making
<1>5. InStop' BY <1>1, <1>2, <1>3 DEF InStop, Leaving
<1>6. QED BY <1>4, <1>5 DEF Inventory

\* A process that ends leaves to recovery what the file names, and no more.
LEMMA EndKeeps ==
    ASSUME NEW how \in {"down", "off"}, ProcessEnds(how), vncs' \subseteq vncs, Own' \subseteq Own, sessionFile' = sessionFile,
           IF sessionFile.found THEN OneAtMost ELSE vncs = {},
           Own \subseteq Its(sessionFile.out, sessionFile.found /\ sessionFile.owns)
    PROVE  Inventory'
<1> USE DEF ProcessEnds, DropLocals, ForgetFields
<1>1. IF sessionFile'.found THEN OneAtMost' ELSE vncs' = {}
  BY DEF OneAtMost
<1>2. Own' \subseteq Its(sessionFile.out, sessionFile.found /\ sessionFile.owns)'
  BY DEF Its
<1>3. InRecovery' BY <1>1, <1>2 DEF InRecovery
<1>4. InService' /\ InStop' /\ InStart'
  BY DEF InService, InStart, InStop, Settled, Leaving, Making
<1>5. QED BY <1>3, <1>4 DEF Inventory

\* ... which is nothing if no session ran.
LEMMA EndOfNothing ==
    ASSUME NEW how \in {"down", "off"}, ProcessEnds(how), vncs' = {}, Own' = {}
    PROVE  Inventory'
<1> USE DEF ProcessEnds, DropLocals, ForgetFields
<1>1. OneAtMost' BY DEF OneAtMost
<1>2. InRecovery' BY <1>1 DEF InRecovery
<1>3. InService' /\ InStop' /\ InStart'
  BY DEF InService, InStart, InStop, Settled, Leaving, Making
<1>4. QED BY <1>2, <1>3 DEF Inventory

\* Once the file is gone nothing is left.
LEMMA ClearKeeps ==
    ASSUME Inv, ClearSession
    PROVE  Inventory'
<1> USE DEF ClearSession, ForgetFields, Release, DropLocals
<1>1. Own' = Own BY OwnUnchanged
<1>2. vncs' = {} /\ Own' = {} /\ supervisor = 0
  BY <1>1 DEF Inv, Inventory, InStop, InStart
<1>3. Nothing' /\ state' = "stopped" /\ pc' \in {"idle", "probe"}
  BY <1>2 DEF Nothing, NoSession, Inv, Typed, ControlTypes
<1>4. supervisor' = 0 BY <1>2
<1>5. InService' BY <1>3 DEF InService, Settled
<1>6. InStop' /\ InRecovery' /\ InStart'
  BY <1>3, <1>4 DEF InStart, InStop, InRecovery, Leaving, Making
<1>7. QED BY <1>5, <1>6 DEF Inventory

\* The steps of stop().
LEMMA StopStepsInventory ==
    ASSUME Inv, Faults \subseteq Handled, StopSteps
    PROVE  Inventory'
<1>1. "remove" \notin Faults /\ "unlink" \notin Faults BY DEF Handled
<1>2. QED BY <1>1, StopServersKeeps, RemoveOwnedKeeps, ClearKeeps DEF StopSteps, ClearFails

--------------------------------------------------------------------------------
(* Preferences and resolution: the session stays, or is about to be left. *)

\* A step that leaves a settled session settled.
LEMMA SettledKeeps ==
    ASSUME Inv, Settled, Settled', supervisor' = 0 \/ supervisor' = supervisor,
           UNCHANGED <<state, vncs, sessionFile, setup, wayvnc, output_name, owns_output,
                       monitors, created>>,
           (CurrentConf' = CurrentConf /\ prefs'.mode = prefs.mode) \/ state # "running"
    PROVE  Inventory'
<1>1. Own' = Own /\ supervisor = 0
  BY OwnUnchanged DEF Inv, Inventory, InStart, Settled
<1>2. InService'
  <2>1. CASE state = "running"
    <3>1. Built /\ Recorded BY <2>1 DEF Inv, Inventory, InService
    <3>2. Recorded' /\ Its(output_name, owns_output)' = Its(output_name, owns_output)
      BY <3>1 DEF Recorded, Its
    <3>3. Built' BY <1>1, <2>1, <3>1, <3>2 DEF Built
    <3>4. pc' \notin {"record", "recording"} BY DEF Settled
    <3>5. QED BY <2>1, <3>2, <3>3, <3>4 DEF InService
  <2>2. CASE state # "running"
    <3>1. Nothing BY <2>2 DEF Inv, Inventory, InService
    <3>2. Nothing' BY <1>1, <3>1 DEF Nothing
    <3>3. pc' \notin {"record", "recording"} BY DEF Settled
    <3>4. QED BY <2>2, <3>2, <3>3 DEF InService
  <2>3. QED BY <2>1, <2>2
<1>3. InStop' /\ InRecovery' /\ InStart'
  BY <1>1 DEF InStart, InStop, InRecovery, Leaving, Making, Settled
<1>4. QED BY <1>2, <1>3 DEF Inventory

\* A step from a settled session into stop().
LEMMA LeavingKeeps ==
    ASSUME Inv, Settled, Leaving', supervisor' = supervisor,
           UNCHANGED <<state, vncs, sessionFile, setup, wayvnc, output_name, owns_output,
                       monitors, created>>
    PROVE  Inventory'
<1>1. Own' = Own /\ supervisor = 0
  BY OwnUnchanged DEF Inv, Inventory, InStart, Settled
<1>2. /\ Recorded /\ Own = Its(output_name, owns_output)
      /\ OneAtMost /\ \A v \in vncs : v.sid = wayvnc
      /\ state # "running" => Nothing
  BY DEF Inv, Inventory, InService, Built, Recorded, Nothing, Its, OneAtMost
<1>3. /\ Recorded' /\ Its(output_name, owns_output)' = Its(output_name, owns_output)
      /\ (Nothing => Nothing') /\ OneAtMost'
  BY <1>1, <1>2 DEF Recorded, Its, Nothing, OneAtMost
<1>4. InStop' BY <1>1, <1>2, <1>3 DEF InStop, Leaving
<1>5. InService' /\ InRecovery' /\ InStart'
  BY <1>1 DEF InStart, InService, InRecovery, Leaving, Making, Settled
<1>6. QED BY <1>4, <1>5 DEF Inventory

\* The file is opened, and the operation stays where it is.
LEMMA OpenSettingsKeeps ==
    ASSUME Inv, OpenSettings
    PROVE  Inventory'
<1> USE DEF OpenSettings, GoTo
<1>1. /\ Own' = Own /\ CurrentConf' = CurrentConf /\ OneAtMost' = OneAtMost
      /\ Its(output_name, owns_output)' = Its(output_name, owns_output)
      /\ Its(made, made_owned)' = Its(made, made_owned)
  BY OwnUnchanged DEF CurrentConf, Its, OneAtMost
<1>2. /\ (Settled <=> Settled') /\ (Leaving <=> Leaving') /\ (Making <=> Making')
      /\ (Recorded <=> Recorded') /\ (Nothing <=> Nothing')
  BY <1>1 DEF Settled, Leaving, Making, Recorded, Nothing
<1>3. Built <=> Built' BY <1>1 DEF Built
<1>4. InService' BY <1>2, <1>3 DEF Inv, Inventory, InService
<1>5. InStop' BY <1>1, <1>2 DEF Inv, Inventory, InStop
<1>6. InStart' BY <1>1, <1>2 DEF Inv, Inventory, InStart
<1>7. InRecovery' BY DEF InRecovery
<1>8. QED BY <1>4, <1>5, <1>6, <1>7 DEF Inventory

\* A write that completes goes on where its operation left off.
LEMMA SavedKeeps ==
    ASSUME Inv, Saved
    PROVE  Inventory'
<1> USE DEF Saved
<1>1. CurrentConf' = CurrentConf BY DEF CurrentConf
<1>2. goto \in {"idle", "cert", "stopping", "apply"} BY DEF Inv, OwnInv, Continues
<1>3. CASE goto = "idle"
  BY <1>1, <1>3, SettledKeeps DEF Release, DropLocals, Settled
<1>4. CASE goto = "apply"
  BY <1>1, <1>4, SettledKeeps DEF Settled
<1>5. CASE goto = "stopping"
  <2> USE <1>5
  <2>1. Own' = Own /\ supervisor = 0 /\ supervisor' = supervisor /\ pc' = "stopping"
    BY OwnUnchanged DEF Inv, Inventory, InStart
  <2>2. /\ Recorded /\ Own = Its(output_name, owns_output)
        /\ OneAtMost /\ \A v \in vncs : v.sid = wayvnc
        /\ state # "running" => Nothing
    BY DEF Inv, Inventory, InStop, Leaving
  <2>3. /\ Recorded' /\ Its(output_name, owns_output)' = Its(output_name, owns_output)
        /\ (Nothing => Nothing') /\ OneAtMost'
    BY <2>1, <2>2 DEF Recorded, Its, Nothing, OneAtMost
  <2>4. InStop' BY <2>1, <2>2, <2>3 DEF InStop, Leaving
  <2>5. InService' /\ InRecovery' /\ InStart'
    BY <2>1 DEF InStart, InService, InRecovery, Leaving, Making, Settled
  <2>6. QED BY <2>4, <2>5 DEF Inventory
<1>6. CASE goto = "cert"
  <2> USE <1>6
  <2>1. /\ Own' = Own /\ supervisor' = supervisor /\ pc' = "cert"
        /\ Its(made, made_owned)' = Its(made, made_owned)
    BY OwnUnchanged DEF Its
  <2>2. /\ Own = Its(made, made_owned) /\ (made_owned => prefs.mode = "extend")
        /\ vncs = {} /\ ~sessionFile.found /\ owns_output = FALSE /\ supervisor = 0
    BY DEF Inv, Inventory, InStart, Making
  <2>3. InStart' BY <2>1, <2>2 DEF InStart, Making
  <2>4. InService' /\ InStop' /\ InRecovery'
    BY <2>1 DEF InService, InStop, InRecovery, Settled, Leaving
  <2>5. QED BY <2>3, <2>4 DEF Inventory
<1>7. QED BY <1>2, <1>3, <1>4, <1>5, <1>6

\* The steps of saving and of applying a position.
LEMMA SavingStepsInventory ==
    ASSUME Inv, Faults \subseteq Handled, SavingSteps
    PROVE  Inventory'
<1>1. "save" \notin Faults BY DEF Handled
<1>2. CASE ApplyPosition
  BY <1>2, SettledKeeps
  DEF ApplyPosition, SetMonitorMode, Release, DropLocals, Settled, CurrentConf
<1>3. CASE ApplyFails
  BY <1>3, SettledKeeps DEF ApplyFails, OnlyLocals, Release, DropLocals, Settled, CurrentConf
<1>4. QED BY <1>1, <1>2, <1>3, OpenSettingsKeeps, SavedKeeps DEF SavingSteps, SaveFails

\* A preference that restarts a running session leaves it to stop().
LEMMA SaveKeeps ==
    ASSUME Inv, NEW q \in Prefs, SaveAndRestart(q)
    PROVE  Inventory'
<1> USE DEF SaveAndRestart, Save
<1>1. CASE state = "running" BY <1>1, LeavingKeeps DEF Leaving, Settled
<1>2. CASE state # "running" BY <1>2, SettledKeeps DEF Settled
<1>3. QED BY <1>1, <1>2

\* A position concerns neither the session's credentials nor its mode.
LEMMA PositionKeeps ==
    ASSUME Inv, NEW q \in Positions, SetPosition(q)
    PROVE  Inventory'
<1> USE DEF SetPosition, Save
<1>1. CurrentConf' = CurrentConf /\ prefs'.mode = prefs.mode
  BY DEF CurrentConf, Inv, Typed, ServiceTypes, Prefs
<1>2. QED BY <1>1, SettledKeeps DEF Settled

\* A resolution concerns the placement only.
LEMMA ResizeKeeps ==
    ASSUME Inv, NEW m, NEW s, Resize(m, s) \/ ResizeFails(m, s)
    PROVE  Inventory'
BY SettledKeeps DEF Resize, ResizeFails, SetMonitorMode, Settled, CurrentConf

--------------------------------------------------------------------------------
(* Recovery, requests and what happens around the daemon. *)

\* A daemon that starts finds what the last one left.
LEMMA LoadKeeps ==
    ASSUME Inv, Boot \/ Launch
    PROVE  Inventory'
<1> USE DEF Boot, Launch, Load
<1>1. Own' = Own BY OwnUnchanged
<1>2. supervisor = 0 BY DEF Inv, Inventory, InStart
<1>3. InRecovery' BY <1>1 DEF Inv, Inventory, InRecovery, OneAtMost, Its
<1>4. InService' /\ InStop' /\ InStart'
  BY <1>2 DEF InService, InStop, InStart, Settled, Leaving, Making
<1>5. QED BY <1>3, <1>4 DEF Inventory

\* Recovery stops the one wayvnc and removes the one output the file may name.
LEMMA RecoveryStepsInventory ==
    ASSUME Inv, Faults \subseteq Handled, RecoverySteps
    PROVE  Inventory'
<1> USE DEF GoTo, OnlyLocals
<1>1. CASE Boot BY <1>1, LoadKeeps
<1>2. CASE ReadSession
  <2> USE <1>2 DEF ReadSession
  <2>1. Own' = Own /\ supervisor = 0 /\ state # "running"
    BY OwnUnchanged DEF Inv, Inventory, InStart, SessionInv, Starting
  <2>2. /\ IF sessionFile.found THEN OneAtMost ELSE vncs = {}
        /\ Own \subseteq Its(sessionFile.out, sessionFile.found /\ sessionFile.owns)
        /\ owns_output = FALSE
    BY DEF Inv, Inventory, InRecovery
  <2>3. CASE sessionFile.found
    <3>1. pc' = "killing" /\ supervisor' = 0 /\ OneAtMost' BY <2>1, <2>2, <2>3 DEF OneAtMost
    <3>2. Own' \subseteq Its(made, made_owned)' BY <2>1, <2>2, <2>3 DEF Its
    <3>3. InRecovery' BY <2>2, <2>3, <3>1, <3>2 DEF InRecovery
    <3>4. InService' /\ InStop' /\ InStart'
      BY <3>1 DEF InService, InStop, InStart, Settled, Leaving, Making
    <3>5. QED BY <3>3, <3>4 DEF Inventory
  <2>4. CASE ~sessionFile.found
    <3>2. Nothing' BY <2>1, <2>2, <2>4 DEF Nothing, Its
    <3>3. pc' = "idle" /\ supervisor' = 0 /\ state' # "running"
      BY <2>1, <2>4 DEF Release, DropLocals
    <3>4. InService' BY <3>2, <3>3 DEF InService, Settled
    <3>5. InRecovery' /\ InStop' /\ InStart'
      BY <3>3 DEF InRecovery, InStop, InStart, Settled, Leaving, Making
    <3>6. QED BY <3>4, <3>5 DEF Inventory
  <2>5. QED BY <2>3, <2>4
<1>3. CASE KillOrphan
  <2> USE <1>3 DEF KillOrphan
  <2>1. Own' = Own /\ supervisor' = 0
    BY OwnUnchanged DEF Inv, Inventory, InStart
  <2>2. "ctl" \notin Faults BY DEF Handled
  <2>3. /\ OneAtMost /\ Own \subseteq Its(made, made_owned) /\ owns_output = FALSE
        /\ sessionFile.found /\ made = sessionFile.out /\ made_owned = sessionFile.owns
    BY DEF Inv, Inventory, InRecovery
  <2>4. vncs' = {} BY <2>2, <2>3 DEF OneAtMost
  <2>5. Its(made, made_owned)' = Its(made, made_owned) BY DEF Its
  <2>6. InRecovery' BY <2>1, <2>3, <2>4, <2>5 DEF InRecovery
  <2>7. InService' /\ InStop' /\ InStart'
    BY <2>1 DEF InService, InStop, InStart, Settled, Leaving, Making
  <2>8. QED BY <2>6, <2>7 DEF Inventory
<1>4. CASE RemoveStale(TRUE)
  <2> USE <1>4 DEF RemoveStale
  <2>1. /\ vncs = {} /\ Own \subseteq Its(made, made_owned) /\ owns_output = FALSE /\ supervisor = 0
        /\ sessionFile.found /\ made = sessionFile.out /\ made_owned = sessionFile.owns
    BY DEF Inv, Inventory, InRecovery, InStart
  <2>2. Own' = {}
    <3>1. CASE made_owned /\ made \in monitors BY <3>1, <2>1, OwnRemoved DEF Its
    <3>2. CASE ~(made_owned /\ made \in monitors) BY <3>2, <2>1, OwnUnchanged DEF Its, Own
    <3>3. QED BY <3>1, <3>2
  <2>3. InRecovery' BY <2>1, <2>2 DEF InRecovery
  <2>4. InService' /\ InStop' /\ InStart'
    BY <2>1 DEF InService, InStop, InStart, Settled, Leaving, Making
  <2>5. QED BY <2>3, <2>4 DEF Inventory
<1>5. CASE ForgetSession
  <2> USE <1>5 DEF ForgetSession, Release, DropLocals
  <2>1. Own' = Own /\ state # "running" BY OwnUnchanged DEF Inv, SessionInv, Starting
  <2>2. Nothing' BY <2>1 DEF Inv, Inventory, InRecovery, Nothing, NoSession
  <2>3. InService' BY <2>1, <2>2 DEF InService, Settled
  <2>4. InRecovery' /\ InStop' /\ InStart'
    BY DEF InRecovery, InStop, InStart, Leaving, Making
  <2>5. QED BY <2>3, <2>4 DEF Inventory
<1>6. "remove" \notin Faults /\ "unlink" \notin Faults BY DEF Handled
<1>7. QED BY <1>1, <1>2, <1>3, <1>4, <1>5, <1>6 DEF RecoverySteps, ForgetFails

\* A step that concerns none of what the inventory lists.
LEMMA ElsewhereKeeps ==
    ASSUME Inv, Own' = Own, pc \in {"create", "diff"} => monitors' \ before' = monitors \ before,
           pc' = pc, UNCHANGED <<prefs, serviceVars, localVars, fileVars, vncs>>
    PROVE  Inventory'
<1>1. /\ CurrentConf' = CurrentConf /\ Its(output_name, owns_output)' = Its(output_name, owns_output)
      /\ Its(made, made_owned)' = Its(made, made_owned)
      /\ Its(sessionFile.out, sessionFile.found /\ sessionFile.owns)'
            = Its(sessionFile.out, sessionFile.found /\ sessionFile.owns)
      /\ OneAtMost' = OneAtMost
  BY DEF CurrentConf, Its, OneAtMost
<1>2. /\ (Settled <=> Settled') /\ (Leaving <=> Leaving') /\ (Making <=> Making')
      /\ (Recorded <=> Recorded') /\ (Nothing <=> Nothing')
  BY DEF Settled, Leaving, Making, Recorded, Nothing
<1>3. Built <=> Built' BY <1>1 DEF Built
<1>4. InService' BY <1>1, <1>2, <1>3 DEF Inv, Inventory, InService
<1>5. InStop' BY <1>1, <1>2 DEF Inv, Inventory, InStop
<1>6. InStart' BY <1>1, <1>2 DEF Inv, Inventory, InStart
<1>7. InRecovery' BY <1>1 DEF Inv, Inventory, InRecovery
<1>8. QED BY <1>4, <1>5, <1>6, <1>7 DEF Inventory

\* Real monitors come and go without anybody mistaking them for a created one.
LEMMA HotPlugsKeep ==
    ASSUME Inv, Faults \subseteq Handled, HotPlugs
    PROVE  Inventory'
<1> USE DEF HotPlugs
<1>1. "foreign" \notin Faults /\ "hotplug" \notin Faults BY DEF Handled
<1>2. PICK o \in Physical : Plug(o) \/ Unplug(o) BY <1>1
<1>3. Own' = Own BY <1>2, OwnPlugged DEF Inv
<1>4. ASSUME pc \in {"create", "diff"} PROVE monitors' \ before' = monitors \ before
  <2>1. Unplug(o) BY <1>1, <1>2, <1>4 DEF Plug, Unplug
  <2>2. o \notin monitors \ before
    BY <1>4, OwnIsHeadless DEF Inv, Inventory, InStart
  <2>3. QED BY <2>1, <2>2 DEF Unplug
<1>5. QED BY <1>3, <1>4, ElsewhereKeeps

\* The requests.
LEMMA RequestsInventory ==
    ASSUME Inv, Requests
    PROVE  Inventory'
<1> USE DEF GoTo, OnlyControl, OnlyLocals
<1>1. ASSUME NEW m, Start(m) PROVE Inventory'
  <2> USE <1>1 DEF Start
  <2>1. Own' = Own /\ supervisor = 0 /\ supervisor' = 0
    BY OwnUnchanged DEF Inv, Inventory, InStart
  <2>2. Nothing' BY <2>1 DEF Inv, Inventory, InService, Settled, Nothing
  <2>3. InStart' BY <2>1, <2>2 DEF InStart, Making
  <2>4. InService' /\ InStop' /\ InRecovery'
    BY DEF InService, InStop, InRecovery, Settled, Leaving
  <2>5. QED BY <2>3, <2>4 DEF Inventory
<1>2. CASE Stop BY <1>2, LeavingKeeps DEF Stop, Leaving, Settled
<1>3. ASSUME NEW m, NEW s, AcceptReport(m, s) PROVE Inventory'
  BY <1>3, OwnUnchanged, ElsewhereKeeps DEF AcceptReport
<1>4. ASSUME NEW r, IgnoreReport(r) PROVE Inventory'
  BY <1>4, OwnUnchanged, ElsewhereKeeps DEF IgnoreReport
<1>5. /\ \A m \in {"extend", "mirror"} : [prefs EXCEPT !.mode = m] \in Prefs
      /\ \A p \in Passwords : [prefs EXCEPT !.pass = p] \in Prefs
      /\ \A u \in Usernames : [prefs EXCEPT !.user = u] \in Prefs
  BY DEF Prefs, Inv, Typed, ServiceTypes
<1>6. CASE \/ \E m \in {"extend", "mirror"} : SetDisplayMode(m)
           \/ \E p \in Passwords : SetPassword(p)
           \/ \E u \in Usernames : SetUsername(u)
  BY <1>5, <1>6, SaveKeeps DEF SetDisplayMode, SetPassword, SetUsername
<1>7. QED
  BY <1>1, <1>2, <1>3, <1>4, <1>6, LoadKeeps, PositionKeeps, ResizeKeeps
  DEF Requests, SetResolution, ApplyReport

\* Where SIGTERM or a handled kill may strike, the file names what exists.
LEMMA CrashKeeps ==
    ASSUME Inv, Faults \subseteq Handled, Exit \/ Crash
    PROVE  Inventory'
<1> USE DEF Exit, Crash
<1>1. ~Unrecorded /\ pc \notin {"off", "down"} BY DEF Handled, MayEnd
<1>2. Own' = Own BY OwnUnchanged
<1>3. /\ IF sessionFile.found THEN OneAtMost ELSE vncs = {}
      /\ Own \subseteq Its(sessionFile.out, sessionFile.found /\ sessionFile.owns)
  <2>1. CASE Settled
    BY <2>1 DEF Inv, Inventory, InService, Built, Recorded, Nothing, SessionOf, OneAtMost, Its
  <2>2. CASE Leaving
    BY <2>2 DEF Inv, Inventory, InStop, Recorded, Nothing, SessionOf, Its
  <2>3. CASE pc \in {"removing", "clearing"}
    BY <2>3 DEF Inv, Inventory, InStop, Recorded, SessionOf, Its, OneAtMost
  <2>4. CASE pc \in {"recover", "killing", "unplug", "forget"}
    BY <2>4 DEF Inv, Inventory, InRecovery, Its, OneAtMost
  <2>5. CASE pc \in {"probe", "focus", "mirror", "list", "create"}
    BY <2>5 DEF Inv, Inventory, InStart, Nothing, Its
  <2>6. CASE pc \in {"mode", "fail", "serve", "diff", "record", "recording"} \/ Making
    BY <1>1, <2>6 DEF Unrecorded, Inv, Inventory, InStart, InService, Making, Its
  <2>7. QED
    BY <1>1, <2>1, <2>2, <2>3, <2>4, <2>5, <2>6
    DEF Inv, Typed, ControlTypes, Settled, Leaving, Making, Continues
<1>4. QED BY <1>2, <1>3, EndKeeps

\* A reboot leaves nothing but the files.
LEMMA RebootKeeps ==
    ASSUME Reboot
    PROVE  Inventory'
<1>1. Own' = {} BY DEF Reboot, NewCompositor, Own
<1>2. QED BY <1>1, EndOfNothing DEF Reboot

\* Nothing exists at the start.
LEMMA InitInventory == Init => Inventory
<1> SUFFICES ASSUME Init PROVE Inventory
    OBVIOUS
<1> USE DEF Init, HyprInit
<1>1. Own = {} BY DEF Own
<1>2. InRecovery BY <1>1 DEF InRecovery, NoSession
<1>3. InService /\ InStop /\ InStart
  BY DEF InService, InStop, InStart, Settled, Leaving, Making
<1>4. QED BY <1>2, <1>3 DEF Inventory

\* A stuttering step.
LEMMA StutterKeepsInventory ==
    ASSUME Inv, UNCHANGED vars
    PROVE  Inventory'
BY OwnUnchanged, ElsewhereKeeps DEF vars

\* Every step keeps the inventory under the handled failures.
LEMMA NextInventory ==
    ASSUME Inv, Faults \subseteq Handled, [Next]_vars
    PROVE  Inventory'
BY StartStepsInventory, StopStepsInventory, SavingStepsInventory, RecoveryStepsInventory,
   RequestsInventory, HotPlugsKeep, CrashKeeps, RebootKeeps, StutterKeepsInventory
DEF Next, Steps

\* The inductive invariant holds in every reachable state.
LEMMA AlwaysInv ==
    ASSUME Faults \subseteq Handled
    PROVE  Spec => []Inv
<1>1. Init => Inv BY InitTyped, InitOwn, InitSession, InitInventory DEF Inv
<1>2. Inv /\ [Next]_vars => Inv'
  <2>1. Faults \intersect {"save", "unlink"} = {} BY DEF Handled
  <2>2. QED BY <2>1, NextTyped, NextOwn, NextSession, NextInventory DEF Inv
<1>3. QED BY <1>1, <1>2, PTL DEF Spec

--------------------------------------------------------------------------------
(* The theorems. *)

\* Under the failures start(), stop() and recovery are written for, with kills
\* and reboots, nothing is left of a session when none runs: no output, no
\* wayvnc, no session.json.
THEOREM NothingLeftOver ==
    ASSUME Faults \subseteq Handled
    PROVE  Spec => []NoOrphan
<1>1. Inv => NoOrphan BY DEF Inv, Inventory, InService, Settled, Nothing, Own, NoOrphan
<1>2. QED BY <1>1, AlwaysInv, PTL

\* Under the same failures a running session is the one thing that exists, with
\* the current credentials, its own setup page and its session.json.
THEOREM SessionsIntact ==
    ASSUME Faults \subseteq Handled
    PROVE  Spec => []RunningIntact
<1>1. Inv => RunningIntact
  BY DEF Inv, Inventory, InService, Settled, Built, Recorded, Own, Its, CurrentConf, RunningIntact
<1>2. QED BY <1>1, AlwaysInv, PTL

--------------------------------------------------------------------------------
(* Preferences and placement, whatever else fails. *)

\* settings.json is behind the Service only while it is being written, and
\* before the Service has read it; it is torn only while it is being written.
UpToDate ==
    /\ settings # TornSettings /\ pc \notin {"off", "down", "saving"} => settings = prefs
    /\ settings = TornSettings => pc = "writing"

\* As long as settings.json can be written and no write is cut short, what a
\* client sees is what the next daemon loads.
THEOREM DurableSettings ==
    ASSUME Faults \intersect {"save", "cut_save"} = {}
    PROVE  Spec => []SettingsDurable
<1> DEFINE I == Typed /\ UpToDate
<1> USE DEF UpToDate, GoTo, OnlyControl, OnlyLocals, Release, DropLocals
<1>1. \A q \in Prefs : q # TornSettings
  BY DEF Prefs, TornSettings, DefaultPrefs
<1>2. Init => UpToDate BY <1>1, DefaultsTyped DEF Init
<1>3. ASSUME I, [Next]_vars PROVE UpToDate'
  <2>1. CASE StartSteps
    BY <1>3, <2>1
    DEF StartSteps, ProbeNetwork, PickFocused, NothingFocused, ReadSource, ListBefore, CreateOutput,
        CreateTimesOut, NameOutput, AmbiguousOutput, SetInitialMode, InitialModeFails, KeepPassword,
        GeneratePassword, WriteConfig, SpawnWayvnc, Commit, OpenSession, RecordSession,
        RecordFails, QrFails, CallFails, FailsAt, CleanUpStart
  <2>2. CASE StopSteps
    BY <1>3, <2>2 DEF StopSteps, StopServers, RemoveOwned, ClearSession, ClearFails, ProcessEnds
  <2>3. CASE SavingSteps
    <3>1. prefs # TornSettings BY <1>1, <1>3 DEF Typed, ServiceTypes
    <3>2. QED
      BY <1>3, <2>3, <3>1 DEF SavingSteps, OpenSettings, Saved, SaveFails, ApplyPosition, ApplyFails
  <2>4. CASE RecoverySteps \/ Launch
    BY <1>3, <2>4 DEF RecoverySteps, Boot, Launch, Load, ReadSession, KillOrphan, RemoveStale,
                      ForgetSession, ForgetFails, ProcessEnds
  <2>5. CASE Requests
    BY <1>3, <2>4, <2>5
    DEF Requests, Start, Stop, SetDisplayMode, SetPassword, SetUsername, SaveAndRestart, Save,
        SetPosition, SetResolution, ApplyReport, Resize, ResizeFails, AcceptReport, IgnoreReport
  <2>6. CASE Exit \/ Crash \/ Reboot
    BY <1>3, <2>6 DEF Exit, Crash, Reboot, MayEnd, ProcessEnds
  <2>7. CASE HotPlugs \/ UNCHANGED vars
    BY <1>3, <2>7 DEF HotPlugs, vars
  <2>8. QED BY <1>3, <2>1, <2>2, <2>3, <2>4, <2>5, <2>6, <2>7 DEF Next, Steps
<1>4. UpToDate => SettingsDurable BY DEF SettingsDurable
<1>5. I /\ [Next]_vars => I' BY <1>3, NextTyped
<1>6. Init => I BY <1>2, InitTyped
<1> HIDE DEF I, UpToDate
<1>7. I => SettingsDurable BY <1>4 DEF I
<1>8. QED BY <1>5, <1>6, <1>7, PTL DEF Spec

\* Where a placement is what the status reports: from the output's first
\* configuration on, and until an operation that fails in the middle is over.
Placed ==
    /\ Starting => state # "running"
    /\ MadeForMode
    /\ made_owned /\ (pc \in {"config", "cert", "spawn", "serve"} \/ (Saving /\ goto = "cert"))
          => placed[made] = <<arg, One, prefs.position>>
    /\ pc \in {"record", "recording"} => Applied
    /\ Saving /\ goto = "idle" => ~Extending
    /\ state = "running" => output_name \in Outputs

\* An operation that ends with a session displayed as reported, or one of the
\* failures that may part the two.
EndsApplied ==
    pc' = "idle" /\ ~Applied' =>
        \/ pc = "idle" /\ ~Applied
        \/ ApplyFails \/ SaveFails \/ ClearFails
        \/ \E m \in AllModes, s \in AllScales : ResizeFails(m, s)

\* What the proof knows of a state, and owes to a step.
PlacedBefore == Typed /\ OwnInv /\ Placed
PlacedAfter == Placed' /\ EndsApplied

\* A step that leaves the session, its placement and the start's alone.
LEMMA PlacedKept ==
    ASSUME PlacedBefore,
           UNCHANGED <<placed, mode, scale, output_name, state, made, arg, goto, made_owned, prefs, pc>>
    PROVE  PlacedAfter
<1>1. Applied' = Applied BY DEF Applied, Extending
<1>2. QED
  BY <1>1 DEF PlacedBefore, PlacedAfter, EndsApplied, Placed, MadeForMode, Starting, Extending

\* No session runs before a step of start() or recovery, nor after it, and it
\* leaves start() with a placed output.
LEMMA PlacedWithout ==
    ASSUME PlacedBefore, state' # "running", MadeForMode',
           made_owned' /\ (pc' \in {"config", "cert", "spawn", "serve"} \/ (Saving' /\ goto' = "cert"))
              => placed'[made'] = <<arg', One, prefs'.position>>
    PROVE  PlacedAfter
<1>1. pc' = "idle" => Applied' BY DEF Applied, Extending
<1>2. pc' \in {"record", "recording"} => Applied' BY DEF Applied, Extending
<1>3. ~Extending' BY DEF Extending
<1>4. QED BY <1>1, <1>2, <1>3 DEF PlacedAfter, EndsApplied, Placed

\* start() configures the output it has made before anything is reported of it.
LEMMA StartStepsPlaced ==
    ASSUME PlacedBefore, StartSteps
    PROVE  PlacedAfter
<1> USE DEF GoTo, OnlyControl, OnlyLocals
<1>1. Starting => state # "running" BY DEF PlacedBefore, Placed
<1>2. CASE \/ ProbeNetwork \/ PickFocused \/ NothingFocused \/ ReadSource \/ ListBefore
           \/ CreateOutput \/ CreateTimesOut \/ NameOutput \/ AmbiguousOutput \/ CallFails
  <2> USE DEF ProbeNetwork, PickFocused, NothingFocused, ReadSource, ListBefore, CreateOutput,
         CreateTimesOut, NameOutput, AmbiguousOutput, CallFails, FailsAt
  <2>1. state' # "running" BY <1>1, <1>2 DEF Starting
  <2>2. MadeForMode' BY <1>2 DEF MadeForMode, PlacedBefore, Placed, Typed, ServiceTypes, Prefs
  <2>3. ~(pc' \in {"config", "cert", "spawn", "serve"} \/ Saving') \/ ~made_owned'
    <3>1. CASE ReadSource
      BY <3>1 DEF PlacedBefore, Typed, LocalTypes, OwnInv, Ownership, Named, Recovering
    <3>2. CASE ~ReadSource BY <1>2, <3>2
    <3>3. QED BY <3>1, <3>2
  <2>4. QED BY <2>1, <2>2, <2>3, PlacedWithout
<1>3. CASE SetInitialMode \/ InitialModeFails
  <2> USE DEF SetInitialMode, InitialModeFails, SetMonitorMode
  <2>1. state' # "running" BY <1>1, <1>3 DEF Starting
  <2>2. made \in Outputs /\ DOMAIN placed = Outputs
    BY <1>3 DEF PlacedBefore, Typed, Sources, HyprTypes
  <2>3. MadeForMode' BY <1>3 DEF MadeForMode, PlacedBefore, Placed
  <2>4. QED BY <1>3, <2>1, <2>2, <2>3, PlacedWithout
<1>4. CASE KeepPassword \/ GeneratePassword \/ WriteConfig \/ SpawnWayvnc
  <2> USE DEF KeepPassword, GeneratePassword, WriteConfig, SpawnWayvnc
  <2>1. state' # "running" BY <1>1, <1>4 DEF Starting
  <2>2. prefs'.mode = prefs.mode /\ prefs'.position = prefs.position
    BY <1>4 DEF PlacedBefore, Typed, ServiceTypes, Prefs
  <2>3. MadeForMode' BY <1>4, <2>2 DEF MadeForMode, PlacedBefore, Placed
  <2>4. QED BY <1>4, <2>1, <2>2, <2>3, PlacedWithout DEF PlacedBefore, Placed
<1>5. CASE Commit
  <2> USE <1>5 DEF Commit
  <2>1. (prefs.mode = "extend" => made_owned) /\ made \in Outputs
    BY DEF PlacedBefore, Placed, MadeForMode, Typed, Sources
  <2>2. Applied'
    BY <2>1 DEF PlacedBefore, Placed, Applied, Extending
  <2>3. QED BY <2>1, <2>2 DEF PlacedAfter, EndsApplied, Placed, MadeForMode, Starting
<1>6. CASE OpenSession \/ RecordSession \/ RecordFails
  <2> USE DEF OpenSession, RecordSession, RecordFails, Release, DropLocals
  <2>1. Applied /\ Applied' BY <1>6 DEF PlacedBefore, Placed, Applied, Extending
  <2>2. QED
    BY <1>6, <2>1 DEF PlacedBefore, PlacedAfter, EndsApplied, Placed, MadeForMode, Starting
<1>7. CASE QrFails \/ \E removed \in BOOLEAN : CleanUpStart(removed)
  <2> USE DEF QrFails, CleanUpStart, Release, DropLocals
  <2>1. state' # "running" BY <1>1, <1>7 DEF Starting
  <2>2. MadeForMode' BY <1>7 DEF MadeForMode
  <2>3. QED BY <1>7, <2>1, <2>2, PlacedWithout
<1>8. QED BY <1>2, <1>3, <1>4, <1>5, <1>6, <1>7 DEF StartSteps

\* stop() ends with no session, or with one that could not be forgotten.
LEMMA StopStepsPlaced ==
    ASSUME PlacedBefore, StopSteps
    PROVE  PlacedAfter
<1> USE DEF GoTo, PlacedBefore, PlacedAfter, EndsApplied, Placed, MadeForMode, Starting,
            Extending
<1>1. CASE StopServers \/ \E removed \in BOOLEAN : RemoveOwned(removed)
  BY <1>1 DEF StopServers, RemoveOwned
<1>2. CASE ClearSession
  BY <1>2 DEF ClearSession, ForgetFields, Release, DropLocals, Applied, Typed, ControlTypes
<1>3. CASE ClearFails
  BY <1>3 DEF ClearFails, ProcessEnds, ForgetFields, Release, DropLocals
<1>4. QED BY <1>1, <1>2, <1>3 DEF StopSteps

\* A position is applied before the operation ends, unless nothing extends.
LEMMA SavingStepsPlaced ==
    ASSUME PlacedBefore, SavingSteps
    PROVE  PlacedAfter
<1> USE DEF GoTo, PlacedBefore, Placed, MadeForMode, Starting, Extending, Release, DropLocals
<1>1. CASE OpenSettings
  BY <1>1 DEF OpenSettings, PlacedAfter, EndsApplied
<1>2. CASE Saved
  <2>1. CASE goto = "idle"
    BY <1>2, <2>1 DEF Saved, PlacedAfter, EndsApplied, Applied
  <2>2. CASE goto # "idle"
    BY <1>2, <2>2 DEF Saved, PlacedAfter, EndsApplied, OwnInv, Continues
  <2>3. QED BY <2>1, <2>2
<1>3. CASE SaveFails
  BY <1>3 DEF SaveFails, PlacedAfter, EndsApplied
<1>4. CASE ApplyPosition
  <2>1. output_name \in Outputs BY <1>4 DEF ApplyPosition, Typed, Sources
  <2>2. placed'[output_name] = <<mode, scale, prefs.position>>
    BY <1>4, <2>1 DEF ApplyPosition, SetMonitorMode, Typed, HyprTypes
  <2>3. Applied' BY <1>4, <2>2 DEF ApplyPosition, Applied
  <2>4. QED BY <1>4, <2>3 DEF ApplyPosition, PlacedAfter, EndsApplied
<1>5. CASE ApplyFails
  BY <1>5 DEF ApplyFails, OnlyLocals, PlacedAfter, EndsApplied
<1>6. QED BY <1>1, <1>2, <1>3, <1>4, <1>5 DEF SavingSteps

\* Recovery finds no session running and starts none.
LEMMA RecoveryStepsPlaced ==
    ASSUME PlacedBefore, RecoverySteps \/ Launch
    PROVE  PlacedAfter
<1> USE DEF RecoverySteps, Boot, Launch, Load, ReadSession, KillOrphan, RemoveStale, ForgetSession,
       ForgetFails, ProcessEnds, ForgetFields, GoTo, OnlyLocals, Release, DropLocals
<1>1. Starting /\ state # "running" BY DEF PlacedBefore, Placed, Starting
<1>2. state' # "running" BY <1>1
<1>3. pc' \in {"down", "recover", "killing", "unplug", "forget", "idle"} OBVIOUS
<1>4. MadeForMode' BY <1>3 DEF MadeForMode
<1>5. QED BY <1>2, <1>3, <1>4, PlacedWithout

\* A request that changes the placement tells the compositor first.
LEMMA RequestsPlaced ==
    ASSUME PlacedBefore, Requests
    PROVE  PlacedAfter
<1> USE DEF GoTo, OnlyControl, OnlyLocals, PlacedAfter, EndsApplied, Placed, MadeForMode, Starting,
            Extending
<1>1. ASSUME NEW m, Start(m) PROVE PlacedAfter BY <1>1 DEF Start, PlacedBefore
<1>2. CASE Stop BY <1>2 DEF Stop, PlacedBefore
<1>3. ASSUME NEW q, SaveAndRestart(q) PROVE PlacedAfter
  BY <1>3 DEF SaveAndRestart, Save, PlacedBefore
<1>4. ASSUME NEW q \in Positions, SetPosition(q) PROVE PlacedAfter
  <2>1. prefs'.mode = prefs.mode
    BY <1>4 DEF SetPosition, Save, PlacedBefore, Typed, ServiceTypes, Prefs
  <2>2. QED BY <1>4, <2>1 DEF SetPosition, Save, PlacedBefore
<1>5. ASSUME NEW m, NEW s, Resize(m, s) PROVE PlacedAfter
  <2>1. output_name \in Outputs BY <1>5 DEF Resize, PlacedBefore
  <2>2. placed'[output_name] = <<m, s, prefs.position>>
    BY <1>5, <2>1 DEF Resize, SetMonitorMode, PlacedBefore, Typed, HyprTypes
  <2>3. Applied' BY <1>5, <2>2 DEF Resize, Applied
  <2>4. QED BY <1>5, <2>3 DEF Resize, PlacedBefore
<1>6. ASSUME NEW m \in AllModes, NEW s \in AllScales, ResizeFails(m, s) PROVE PlacedAfter
  BY <1>6 DEF ResizeFails, PlacedBefore
<1>7. ASSUME NEW m \in Modes, NEW s \in Scales \union {scale}, SetResolution(m, s)
      PROVE  PlacedAfter
  <2>1. m \in AllModes /\ s \in AllScales
    BY <1>7 DEF SetResolution, Resize, ResizeFails, PlacedBefore, Typed, Sources, AllModes, AllScales
  <2>2. QED BY <1>5, <1>6, <1>7, <2>1 DEF SetResolution
<1>8. ASSUME NEW r \in reports, ApplyReport(r) PROVE PlacedAfter
  <2>1. r.mode \in AllModes /\ r.scale \in AllScales
    BY DEF PlacedBefore, Typed, StoredTypes, AllModes, AllScales
  <2>2. QED BY <1>5, <1>6, <1>8, <2>1 DEF ApplyReport
<1>9. ASSUME NEW m, NEW s, AcceptReport(m, s) PROVE PlacedAfter
  BY <1>9, PlacedKept DEF AcceptReport
<1>10. ASSUME NEW r, IgnoreReport(r) PROVE PlacedAfter
  BY <1>10, PlacedKept DEF IgnoreReport
<1>11. QED
  BY <1>1, <1>2, <1>3, <1>4, <1>7, <1>8, <1>9, <1>10, RecoveryStepsPlaced
  DEF Requests, SetDisplayMode, SetPassword, SetUsername

\* Whatever fails: only the failures DisplayApplied names part the status from
\* what the compositor was told, and the next operation that succeeds mends it.
THEOREM PlacementApplied == Spec => DisplayApplied
<1>1. Init => PlacedBefore
  <2>1. Init => Placed
    BY DEF Init, Placed, Starting, MadeForMode, Extending
  <2>2. QED BY <2>1, InitTyped, InitOwn DEF PlacedBefore
<1>2. ASSUME PlacedBefore, [Next]_vars PROVE PlacedAfter
  <2>1. CASE HotPlugs \/ UNCHANGED vars
    BY <1>2, <2>1, PlacedKept DEF HotPlugs, Plug, Unplug, ForeignCreate, NewHeadless, vars
  <2>2. CASE Exit \/ Crash \/ Reboot
    <3>1. state' # "running" /\ pc' \in {"down", "off"} /\ ~made_owned'
      BY <2>2 DEF Exit, Crash, Reboot, ProcessEnds, DropLocals, ForgetFields
    <3>2. MadeForMode' BY <3>1 DEF MadeForMode
    <3>3. QED BY <1>2, <3>1, <3>2, PlacedWithout
  <2>3. QED
    BY <1>2, <2>1, <2>2, StartStepsPlaced, StopStepsPlaced, SavingStepsPlaced, RecoveryStepsPlaced,
       RequestsPlaced
    DEF Next, Steps
<1>3. PlacedBefore /\ [Next]_vars => PlacedBefore' /\ [EndsApplied]_vars
  BY <1>2, NextTyped, NextOwn DEF PlacedBefore, PlacedAfter
<1>4. QED BY <1>1, <1>3, PTL DEF Spec, DisplayApplied, EndsApplied
================================================================================
