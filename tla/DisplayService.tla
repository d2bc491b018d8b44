----------------------------- MODULE DisplayService -----------------------------
(***************************************************************************)
(* daemon/tabletdisplayd/service.py: the Service object, its two files,    *)
(* and the life of the daemon process around it (main.py).  Every public   *)
(* operation runs under one RLock, so at most one is in progress; pc is    *)
(* the control point of the thread holding the lock, "idle" when nobody    *)
(* does.  Each call that leaves the process (hyprctl, Popen, a file write, *)
(* a bind) is a step of its own: the daemon may be killed, a monitor       *)
(* plugged, or a setup page's report accepted between any two of them.     *)
(***************************************************************************)
EXTENDS Hyprland, FiniteSets

CONSTANTS
    Modes,          \* WxH@refresh a client asks for
    ReportedModes,  \* physical pixel counts tablets report
    Scales,         \* devicePixelRatios and requested scales
    Positions, DefaultPosition,
    Usernames, DefaultUsername,
    Passwords, NoPassword,
    Faults,         \* which calls may fail, and whether the daemon may be killed
    MaxSessions,    \* bound: wayvnc sessions launched
    MaxEnds,        \* bound: ends of the daemon
    MaxReports      \* bound: reports waiting for the lock

AllFaults == {"lan", "hyprctl", "late", "list", "hotplug", "eval", "reapply", "cert",
              "spawn", "port", "qr", "remove", "ctl", "disk", "save", "unlink",
              "crash", "cut_start", "cut_save", "reboot", "foreign"}

ASSUME PreferencesAssumption ==
    /\ DefaultPosition \in Positions
    /\ DefaultUsername \in Usernames
    /\ NoPassword \notin Passwords
ASSUME BoundsAssumption ==
    MaxSessions \in Nat /\ MaxEnds \in Nat /\ MaxReports \in Nat
ASSUME FaultsAssumption == Faults \subseteq AllFaults

VARIABLES
    \* the Service object
    state,          \* "stopped", "running", "error"
    prefs,          \* display_mode, position, vnc_username, vnc_password
    output_name, owns_output,
    mode, scale,    \* width, height, refresh; scale
    wayvnc,         \* the session _wayvnc supervises, 0 for None
    setup,          \* the session _setup_server serves, 0 for None
    \* the operation in progress: its control point and locals
    pc, goto, after, arg, made, made_owned, supervisor, before,
    \* files: what the next daemon will read from them
    settings,       \* settings.json: what was saved, or torn
    sessionFile,    \* session.json
    conf,           \* wayvnc-secure.conf
    \* processes and requests
    vncs,           \* wayvnc processes: session, captured output, credentials
    sessions,       \* how many sessions were launched; also names setup tokens
    reports,        \* reports past the token check, waiting for the lock
    ends

serviceVars == <<state, output_name, owns_output, mode, scale, wayvnc, setup>>
localVars == <<goto, after, arg, made, made_owned, supervisor, before>>
fileVars == <<settings, sessionFile, conf>>
procVars == <<vncs, sessions>>
vars == <<state, prefs, output_name, owns_output, mode, scale, wayvnc, setup,
          pc, goto, after, arg, made, made_owned, supervisor, before,
          settings, sessionFile, conf, vncs, sessions, reports, ends,
          monitors, nextHeadless, placed, created>>

None == "none"
DefaultMode == "default"        \* 1920x1080@60
Native == "native"              \* the mode and scale of a mirrored monitor
One == "1.0"

AllModes == Modes \union ReportedModes \union {DefaultMode, Native}
AllScales == Scales \union {One, Native}
Prefs == [mode: {"extend", "mirror"}, position: Positions,
          user: Usernames, pass: Passwords \union {NoPassword}]

\* A missing settings.json reads as {}: every default.  So does an unparsable
\* one, which is what opening it for writing leaves until the write completes.
DefaultPrefs == [mode |-> "extend", position |-> DefaultPosition,
                 user |-> DefaultUsername, pass |-> NoPassword]
TornSettings == [DefaultPrefs EXCEPT !.mode = "torn"]

\* session.json: absent, unparsable (no output to clean up), or a record.
NoSession == [found |-> FALSE, out |-> NoOutput, owns |-> FALSE]
TornSession == [found |-> TRUE, out |-> NoOutput, owns |-> FALSE]
SessionOf(o, owns) == [found |-> TRUE, out |-> o, owns |-> owns]

Extending == state = "running" /\ prefs.mode = "extend"

\* _save_settings, before and after it has opened the file.
Saving == pc \in {"saving", "writing"}

\* start() has made something that session.json does not mention yet.
Unrecorded ==
    \/ pc = "diff"
    \/ /\ \/ Saving
          \/ pc \in {"mode", "config", "cert", "spawn", "serve", "record", "recording", "fail"}
       /\ made_owned \/ supervisor # 0

--------------------------------------------------------------------------------
(* A fresh Service, and the end of an operation. *)

Init ==
    /\ HyprInit
    /\ state = "stopped" /\ output_name = NoOutput /\ owns_output = FALSE
    /\ mode = None /\ scale = None /\ wayvnc = 0 /\ setup = 0
    /\ goto = "idle" /\ after = "return" /\ arg = DefaultMode
    /\ made = NoOutput /\ made_owned = FALSE /\ supervisor = 0 /\ before = {}
    /\ pc = "down" /\ prefs = DefaultPrefs
    /\ settings = DefaultPrefs /\ sessionFile = NoSession
    /\ conf = [user |-> DefaultUsername, pass |-> NoPassword]
    /\ vncs = {} /\ sessions = 0 /\ reports = {} /\ ends = 0

\* The operation's locals go out of scope.
DropLocals ==
    /\ goto' = "idle" /\ after' = "return" /\ arg' = DefaultMode
    /\ made' = NoOutput /\ made_owned' = FALSE /\ supervisor' = 0 /\ before' = {}

\* The lock is released.
Release == pc' = "idle" /\ DropLocals

\* The fields of a session are reset.
ForgetFields ==
    /\ state' = "stopped" /\ output_name' = NoOutput /\ owns_output' = FALSE
    /\ mode' = None /\ scale' = None /\ wayvnc' = 0 /\ setup' = 0

\* The process is gone, and with it everything in memory: "down" if systemd
\* starts it again (Restart=on-failure, a login), "off" if somebody else has to.
ProcessEnds(how) ==
    /\ pc' = how /\ DropLocals /\ ForgetFields
    /\ prefs' = DefaultPrefs /\ reports' = {}

\* A step that moves control and nothing else, or control and locals.
OnlyLocals == UNCHANGED <<prefs, serviceVars, fileVars, procVars, reports, ends, hyprVars>>
OnlyControl == OnlyLocals /\ UNCHANGED localVars

GoTo(from, to) == pc = from /\ pc' = to

\* A call fails with an exception start() catches.
FailsAt(from, fault) ==
    /\ fault \in Faults
    /\ GoTo(from, "fail")
    /\ OnlyControl

--------------------------------------------------------------------------------
(* start(): from the network probes to session.json. *)

\* Room under the bounds for one more start.
MayLaunch == sessions < MaxSessions /\ nextHeadless \in Headless

\* Mutant: a running session is not checked for.
StartAgain(m) ==
    /\ pc = "idle" /\ MayLaunch
    /\ pc' = "probe" /\ arg' = m
    /\ UNCHANGED <<goto, after, made, made_owned, supervisor, before>>
    /\ OnlyLocals

Start(m) ==
    /\ pc = "idle" /\ state # "running" /\ MayLaunch
    /\ pc' = "probe" /\ arg' = m
    /\ UNCHANGED <<goto, after, made, made_owned, supervisor, before>>
    /\ OnlyLocals

\* lan_ip() and both free_tcp_port() calls.
ProbeNetwork ==
    /\ GoTo("probe", IF prefs.mode = "mirror" THEN "focus" ELSE "list")
    /\ OnlyControl

\* Mirror mode: the focused monitor is the source; nothing is created.
PickFocused ==
    /\ GoTo("focus", "mirror")
    /\ made' \in monitors
    /\ UNCHANGED <<goto, after, arg, made_owned, supervisor, before>>
    /\ OnlyLocals

NothingFocused ==
    /\ monitors = {}
    /\ GoTo("focus", "fail")
    /\ OnlyControl

\* The second monitors() call: the source may be gone by now.
ReadSource ==
    /\ GoTo("mirror", IF made \in monitors THEN "config" ELSE "fail")
    /\ arg' = Native
    /\ UNCHANGED <<goto, after, made, made_owned, supervisor, before>>
    /\ OnlyLocals

\* create_headless_output: list, create, list again and take the difference.
ListBefore ==
    /\ GoTo("list", "create")
    /\ before' = monitors
    /\ UNCHANGED <<goto, after, arg, made, made_owned, supervisor>>
    /\ OnlyLocals

CreateOutput ==
    /\ GoTo("create", "diff")
    /\ CreateHeadless
    /\ UNCHANGED <<prefs, serviceVars, localVars, fileVars, procVars, reports, ends>>

\* hyprctl times out, but Hyprland creates the output all the same.
CreateTimesOut ==
    /\ "late" \in Faults
    /\ GoTo("create", "fail")
    /\ CreateHeadless
    /\ UNCHANGED <<prefs, serviceVars, localVars, fileVars, procVars, reports, ends>>

\* Mutant: some headless output that is listed is taken for the new one.
NameAnyOutput ==
    /\ GoTo("diff", "mode")
    /\ made' \in monitors \intersect Headless
    /\ made_owned' = TRUE
    /\ UNCHANGED <<goto, after, arg, supervisor, before>>
    /\ OnlyLocals

NameOutput ==
    /\ GoTo("diff", "mode")
    /\ \E o \in monitors : monitors \ before = {o} /\ made' = o
    /\ made_owned' = TRUE
    /\ UNCHANGED <<goto, after, arg, supervisor, before>>
    /\ OnlyLocals

\* Not exactly one new output: an error, and the output's name is never learnt.
AmbiguousOutput ==
    /\ GoTo("diff", "fail")
    /\ \A o \in monitors : monitors \ before # {o}
    /\ OnlyControl

\* Mutant: the saved position is not passed on.
SetInitialModeUnplaced ==
    /\ GoTo("mode", "config")
    /\ SetMonitorMode(made, arg, One, DefaultPosition)
    /\ UNCHANGED <<prefs, serviceVars, localVars, fileVars, procVars, reports, ends>>

SetInitialMode ==
    /\ GoTo("mode", "config")
    /\ SetMonitorMode(made, arg, One, prefs.position)
    /\ UNCHANGED <<prefs, serviceVars, localVars, fileVars, procVars, reports, ends>>

\* hyprctl fails, or times out after Hyprland has taken the mode.
InitialModeFails ==
    /\ "eval" \in Faults
    /\ GoTo("mode", "fail")
    /\ \/ UNCHANGED hyprVars
       \/ SetMonitorMode(made, arg, One, prefs.position)
    /\ UNCHANGED <<prefs, serviceVars, localVars, fileVars, procVars, reports, ends>>

\* Mutant: nobody checks that there is a password.
KeepPasswordUnchecked ==
    /\ GoTo("config", "cert")
    /\ OnlyControl

\* _prepare_wayvnc_config: a password is generated and saved on first use.
KeepPassword ==
    /\ prefs.pass # NoPassword
    /\ GoTo("config", "cert")
    /\ OnlyControl

\* Mutant: the generated password is not saved.
GeneratePasswordUnsaved ==
    /\ prefs.pass = NoPassword
    /\ GoTo("config", "cert")
    /\ \E p \in Passwords : prefs' = [prefs EXCEPT !.pass = p]
    /\ UNCHANGED <<localVars, serviceVars, fileVars, procVars, reports, ends, hyprVars>>

GeneratePassword ==
    /\ prefs.pass = NoPassword
    /\ GoTo("config", "saving") /\ goto' = "cert"
    /\ \E p \in Passwords : prefs' = [prefs EXCEPT !.pass = p]
    /\ UNCHANGED <<after, arg, made, made_owned, supervisor, before>>
    /\ UNCHANGED <<serviceVars, fileVars, procVars, reports, ends, hyprVars>>

\* ensure_cert and write_wayvnc_config.
WriteConfig ==
    /\ GoTo("cert", "spawn")
    /\ conf' = [user |-> prefs.user, pass |-> prefs.pass]
    /\ UNCHANGED <<prefs, serviceVars, localVars, settings, sessionFile, procVars,
                   reports, ends, hyprVars>>

\* WayvncSupervisor.start(): wayvnc reads its credentials from the file.
SpawnWayvnc ==
    /\ GoTo("spawn", "serve")
    /\ sessions < MaxSessions
    /\ sessions' = sessions + 1 /\ supervisor' = sessions'
    /\ vncs' = vncs \union {[sid |-> sessions', out |-> made, conf |-> conf]}
    /\ UNCHANGED <<goto, after, arg, made, made_owned, before>>
    /\ UNCHANGED <<prefs, serviceVars, fileVars, reports, ends, hyprVars>>

\* SetupServer.start() succeeds and every field of the session is assigned.
Commit ==
    /\ GoTo("serve", "record")
    /\ state' = "running" /\ output_name' = made /\ owns_output' = made_owned
    /\ mode' = arg /\ scale' = IF made_owned THEN One ELSE Native
    /\ wayvnc' = supervisor /\ setup' = supervisor
    /\ UNCHANGED <<prefs, localVars, fileVars, procVars, reports, ends, hyprVars>>

\* _write_session_file: the file is there, and empty, before it is written.
OpenSession ==
    /\ GoTo("record", "recording")
    /\ sessionFile' = TornSession
    /\ UNCHANGED <<prefs, serviceVars, localVars, settings, conf, procVars, reports, ends,
                   hyprVars>>

RecordSession ==
    /\ pc = "recording" /\ Release
    /\ sessionFile' = SessionOf(output_name, owns_output)
    /\ UNCHANGED <<prefs, serviceVars, settings, conf, procVars, reports, ends, hyprVars>>

\* It raises OSError, outside the try and with no file or an empty one: the
\* session stays.
RecordFails ==
    /\ "disk" \in Faults
    /\ pc \in {"record", "recording"} /\ Release
    /\ OnlyLocals

\* generate_png raises QrEncodeError, which the except clause does not name.
QrFails ==
    /\ "qr" \in Faults
    /\ pc = "serve" /\ Release
    /\ OnlyLocals

\* The failures the except clause does name.
CallFails ==
    \/ FailsAt("probe", "lan")
    \/ \E at \in {"focus", "mirror", "list", "create"} : FailsAt(at, "hyprctl")
    \/ FailsAt("diff", "list")
    \/ FailsAt("cert", "cert")
    \/ FailsAt("spawn", "spawn")
    \/ FailsAt("serve", "port")

\* Mutant: only the supervisor is stopped.
CleanUpStartKeepsOutput(removed) ==
    /\ pc = "fail" /\ Release
    /\ vncs' = {v \in vncs : v.sid # supervisor}
    /\ state' = "error" /\ output_name' = NoOutput /\ owns_output' = FALSE /\ wayvnc' = 0
    /\ UNCHANGED <<prefs, mode, scale, setup, fileVars, sessions, reports, ends, hyprVars>>

\* The except clause: stop the supervisor, remove the output, report the error.
\* A failing remove_output is swallowed.
CleanUpStart(removed) ==
    /\ pc = "fail" /\ Release
    /\ vncs' = {v \in vncs : v.sid # supervisor}
    /\ IF made_owned /\ removed THEN RemoveOutput(made) ELSE UNCHANGED hyprVars
    /\ state' = "error" /\ output_name' = NoOutput /\ owns_output' = FALSE /\ wayvnc' = 0
    /\ UNCHANGED <<prefs, mode, scale, setup, fileVars, sessions, reports, ends>>

StartSteps ==
    \/ ProbeNetwork \/ PickFocused \/ NothingFocused \/ ReadSource
    \/ ListBefore \/ CreateOutput \/ CreateTimesOut \/ NameOutput \/ AmbiguousOutput
    \/ SetInitialMode \/ InitialModeFails
    \/ KeepPassword \/ GeneratePassword \/ WriteConfig \/ SpawnWayvnc
    \/ Commit \/ OpenSession \/ RecordSession \/ RecordFails \/ QrFails \/ CallFails
    \/ CleanUpStart(TRUE)
    \/ "remove" \in Faults /\ CleanUpStart(FALSE)

--------------------------------------------------------------------------------
(* stop(), on its own or as the first half of a restart. *)

Stop ==
    /\ pc = "idle" /\ state # "stopped"
    /\ pc' = "stopping"
    /\ OnlyControl

\* SetupServer.stop(), then WayvncSupervisor.stop(): NoSurvivor of its module.
StopServers ==
    /\ GoTo("stopping", "removing")
    /\ setup' = 0 /\ wayvnc' = 0
    /\ vncs' = {v \in vncs : v.sid # wayvnc}
    /\ UNCHANGED <<state, output_name, owns_output, mode, scale>>
    /\ UNCHANGED <<prefs, localVars, fileVars, sessions, reports, ends, hyprVars>>

\* Mutant: the captured output is removed whoever owns it.
RemoveOwnedAlways(removed) ==
    /\ GoTo("removing", "clearing")
    /\ IF removed THEN RemoveOutput(output_name) ELSE UNCHANGED hyprVars
    /\ UNCHANGED <<prefs, serviceVars, localVars, fileVars, procVars, reports, ends>>

\* remove_output of an owned output; its failure is logged and forgotten.
RemoveOwned(removed) ==
    /\ GoTo("removing", "clearing")
    /\ IF owns_output /\ removed THEN RemoveOutput(output_name) ELSE UNCHANGED hyprVars
    /\ UNCHANGED <<prefs, serviceVars, localVars, fileVars, procVars, reports, ends>>

\* session.json is deleted, every field reset; a restart goes on to start()
\* with the prior width, height and refresh.
ClearSession ==
    /\ pc = "clearing"
    /\ sessionFile' = NoSession
    /\ ForgetFields
    /\ \/ after = "return" /\ Release
       \/ after = "restart" /\ pc' = "probe" /\ UNCHANGED localVars
    /\ UNCHANGED <<prefs, settings, conf, procVars, reports, ends, hyprVars>>

\* unlink raises an OSError nobody catches: a session without servers still
\* counts as running.  When it was main.run() that stopped it, the daemon fails.
ClearFails ==
    /\ "unlink" \in Faults /\ sessionFile.found
    /\ pc = "clearing"
    /\ \/ Release /\ UNCHANGED <<prefs, serviceVars, reports>>
       \/ after = "return" /\ ProcessEnds("down")
    /\ UNCHANGED <<fileVars, procVars, ends, hyprVars>>

StopSteps ==
    \/ StopServers \/ RemoveOwned(TRUE) \/ ClearSession \/ ClearFails
    \/ "remove" \in Faults /\ RemoveOwned(FALSE)

--------------------------------------------------------------------------------
(* Preferences and resolution. *)

\* A preference changes, and _save_settings is called.
Save(newPrefs, next) ==
    /\ pc = "idle" /\ pc' = "saving"
    /\ prefs' = newPrefs
    /\ goto' = next
    /\ UNCHANGED <<made, made_owned, supervisor, before>>
    /\ UNCHANGED <<serviceVars, fileVars, procVars, reports, ends, hyprVars>>

\* A preference that takes a running session down and up again with the
\* geometry it had: set_display_mode, set_password, set_username.
SaveAndRestart(newPrefs) ==
    /\ IF state = "running"
       THEN MayLaunch /\ Save(newPrefs, "stopping") /\ after' = "restart" /\ arg' = mode
       ELSE Save(newPrefs, "idle") /\ UNCHANGED <<after, arg>>

SetDisplayMode(m) == SaveAndRestart([prefs EXCEPT !.mode = m])
\* Mutant: the new password waits for the next session.
SetPasswordForNextTime(p) == Save([prefs EXCEPT !.pass = p], "idle") /\ UNCHANGED <<after, arg>>
SetPassword(p) == SaveAndRestart([prefs EXCEPT !.pass = p])
SetUsername(u) == SaveAndRestart([prefs EXCEPT !.user = u])

\* Mutant: the position is applied while mirroring too.
SetPositionAlwaysApplied(p) ==
    /\ Save([prefs EXCEPT !.position = p], IF state = "running" THEN "apply" ELSE "idle")
    /\ UNCHANGED <<after, arg>>

\* set_position: saved in either mode, applied only to an extended output.
SetPosition(p) ==
    /\ Save([prefs EXCEPT !.position = p], IF Extending THEN "apply" ELSE "idle")
    /\ UNCHANGED <<after, arg>>

\* The file is emptied before it is written.
OpenSettings ==
    /\ GoTo("saving", "writing")
    /\ settings' = TornSettings
    /\ UNCHANGED <<prefs, serviceVars, localVars, sessionFile, conf, procVars, reports, ends,
                   hyprVars>>

\* The write completes and the operation goes on.
Saved ==
    /\ pc = "writing"
    /\ settings' = prefs
    /\ IF goto = "idle" THEN Release ELSE pc' = goto /\ UNCHANGED localVars
    /\ UNCHANGED <<prefs, serviceVars, sessionFile, conf, procVars, reports, ends, hyprVars>>

\* An OSError before the file is opened, while it is written, or when chmod
\* follows the write: start() cleans up, any other operation ends with it.
SaveFails ==
    /\ "save" \in Faults
    /\ Saving
    /\ \/ settings' = settings
       \/ pc = "writing" /\ settings' = prefs
    /\ IF goto = "cert" THEN pc' = "fail" /\ UNCHANGED localVars ELSE Release
    /\ UNCHANGED <<prefs, serviceVars, sessionFile, conf, procVars, reports, ends, hyprVars>>

ApplyPosition ==
    /\ pc = "apply" /\ Release
    /\ SetMonitorMode(output_name, mode, scale, prefs.position)
    /\ UNCHANGED <<prefs, serviceVars, fileVars, procVars, reports, ends>>

\* hyprctl fails: the position is saved and not applied.  (Timing out after
\* Hyprland has taken it, it leaves the state that ApplyPosition leaves.)
ApplyFails ==
    /\ "reapply" \in Faults
    /\ pc = "apply" /\ Release
    /\ OnlyLocals

\* set_resolution.
Resize(m, s) ==
    /\ pc = "idle" /\ Extending
    /\ SetMonitorMode(output_name, m, s, prefs.position)
    /\ mode' = m /\ scale' = s
    /\ UNCHANGED <<state, output_name, owns_output, wayvnc, setup>>
    /\ UNCHANGED <<prefs, pc, localVars, fileVars, procVars, ends>>

\* hyprctl fails, perhaps by timing out after Hyprland has taken the mode: the
\* Service keeps the geometry it had.
ResizeFails(m, s) ==
    /\ "reapply" \in Faults
    /\ pc = "idle" /\ Extending
    /\ \/ UNCHANGED hyprVars
       \/ SetMonitorMode(output_name, m, s, prefs.position)
    /\ UNCHANGED <<prefs, serviceVars, pc, localVars, fileVars, procVars, ends>>

\* A client's set_resolution may leave the scale out.
SetResolution(m, s) == (Resize(m, s) \/ ResizeFails(m, s)) /\ UNCHANGED reports

SavingSteps == OpenSettings \/ Saved \/ SaveFails \/ ApplyPosition \/ ApplyFails

--------------------------------------------------------------------------------
(* Reports of the setup page (do_POST and _handle_client_report). *)

\* do_POST lets a report pass without the lock.  The server that does may be an
\* earlier session's, on a connection that outlived it (SetupPage), so nothing
\* is said of the current session; none was ever served before the first one.
AcceptReport(m, s) ==
    /\ pc \notin {"down", "off"} /\ sessions # 0 /\ Cardinality(reports) < MaxReports
    /\ reports' = reports \union {[mode |-> m, scale |-> s]}
    /\ UNCHANGED <<prefs, serviceVars, pc, localVars, fileVars, procVars, ends, hyprVars>>

\* The handler gets the lock while a session is extending.
ApplyReport(r) ==
    /\ Resize(r.mode, r.scale) \/ ResizeFails(r.mode, r.scale)
    /\ reports' = reports \ {r}

\* Mirroring (read without the lock), or not running.
IgnoreReport(r) ==
    /\ \/ prefs.mode = "mirror"
       \/ pc = "idle" /\ ~Extending
    /\ reports' = reports \ {r}
    /\ UNCHANGED <<prefs, serviceVars, pc, localVars, fileVars, procVars, ends, hyprVars>>

--------------------------------------------------------------------------------
(* The daemon process: boot, recovery, SIGTERM, kill, reboot. *)

\* Service.__init__ loads the preferences.
Load ==
    /\ pc' = "recover"
    /\ prefs' = IF settings = TornSettings THEN DefaultPrefs ELSE settings
    /\ UNCHANGED <<serviceVars, localVars, fileVars, procVars, reports, ends, hyprVars>>

\* systemd starts the daemon again, or somebody does.
Boot == pc = "down" /\ Load
Launch == pc = "off" /\ Load

\* recover_from_previous_run: nothing to do without a session file.
ReadSession ==
    /\ pc = "recover"
    /\ IF sessionFile.found
       THEN /\ pc' = "killing" /\ made' = sessionFile.out /\ made_owned' = sessionFile.owns
            /\ UNCHANGED <<goto, after, arg, supervisor, before>>
       ELSE Release
    /\ OnlyLocals

\* Mutant: only the wayvnc of an owned output is stopped.
KillOrphanIfOwned ==
    /\ GoTo("killing", "unplug")
    /\ \/ vncs' = IF made_owned THEN {} ELSE vncs
       \/ "ctl" \in Faults /\ vncs' = vncs
    /\ UNCHANGED <<prefs, serviceVars, localVars, fileVars, sessions, reports, ends, hyprVars>>

\* kill_orphan: whoever answers on the one control socket exits.
KillOrphan ==
    /\ GoTo("killing", "unplug")
    /\ \/ vncs = {} /\ vncs' = {}
       \/ \E v \in vncs : vncs' = vncs \ {v}
       \/ "ctl" \in Faults /\ vncs' = vncs
    /\ UNCHANGED <<prefs, serviceVars, localVars, fileVars, sessions, reports, ends, hyprVars>>

RemoveStale(removed) ==
    /\ GoTo("unplug", "forget")
    /\ IF made_owned /\ made \in monitors /\ removed
       THEN RemoveOutput(made) ELSE UNCHANGED hyprVars
    /\ UNCHANGED <<prefs, serviceVars, localVars, fileVars, procVars, reports, ends>>

\* Mutant: the file is kept until a clean-up finds nothing.
ForgetSessionRetries ==
    /\ GoTo("forget", "recover")
    /\ OnlyControl

ForgetSession ==
    /\ pc = "forget" /\ Release
    /\ sessionFile' = NoSession
    /\ UNCHANGED <<prefs, serviceVars, settings, conf, procVars, reports, ends, hyprVars>>

\* unlink raises in main.run(), and the daemon fails.
ForgetFails ==
    /\ "unlink" \in Faults
    /\ pc = "forget" /\ ProcessEnds("down")
    /\ UNCHANGED <<fileVars, procVars, ends, hyprVars>>

RecoverySteps ==
    \/ Boot \/ ReadSession \/ KillOrphan \/ RemoveStale(TRUE) \/ ForgetSession \/ ForgetFails
    \/ "remove" \in Faults /\ RemoveStale(FALSE)

\* The daemon's end meets nothing that would be lost, or that is one of Faults.
MayEnd ==
    /\ pc \notin {"down", "off"}
    /\ ends < MaxEnds /\ ends' = ends + 1
    /\ Unrecorded => "cut_start" \in Faults
    /\ pc = "writing" => "cut_save" \in Faults

\* SIGTERM.  main.run() calls stop(), which is Stop, and returns.  Until it has,
\* handler threads go on serving (main.py:41-43, DaemonLifecycle): the end may
\* find any operation under way that came after that stop(), or recovery, which
\* runs before there is a handler of the signal.
Exit ==
    /\ MayEnd
    /\ ProcessEnds("off")
    /\ vncs' \in SUBSET vncs
    /\ UNCHANGED <<fileVars, sessions, hyprVars>>

\* kill -9, OOM: wayvnc may outlive the daemon, outputs and files do.
Crash ==
    /\ "crash" \in Faults /\ MayEnd
    /\ ProcessEnds("down")
    /\ vncs' \in SUBSET vncs
    /\ UNCHANGED <<fileVars, sessions, hyprVars>>

\* The machine restarts: only the files are left.
Reboot ==
    /\ "reboot" \in Faults /\ ends < MaxEnds
    /\ ends' = ends + 1
    /\ pc = "writing" => "cut_save" \in Faults
    /\ ProcessEnds("down") /\ NewCompositor
    /\ vncs' = {}
    /\ UNCHANGED <<fileVars, sessions>>

--------------------------------------------------------------------------------

Requests ==
    \/ \E m \in Modes : Start(m)
    \/ Stop \/ Launch
    \/ \E m \in {"extend", "mirror"} : SetDisplayMode(m)
    \/ \E p \in Passwords : SetPassword(p)
    \/ \E u \in Usernames : SetUsername(u)
    \/ \E p \in Positions : SetPosition(p)
    \/ \E m \in Modes, s \in Scales \union {scale} : SetResolution(m, s)
    \/ \E m \in ReportedModes, s \in Scales : AcceptReport(m, s)
    \/ \E r \in reports : ApplyReport(r) \/ IgnoreReport(r)

\* What the user and other programs do to the compositor.  A monitor may appear
\* between the two monitor lists of create_headless_output.
HotPlugs ==
    /\ \/ \E o \in Physical : Unplug(o)
       \/ /\ pc \notin {"create", "diff"} \/ "hotplug" \in Faults
          /\ \/ \E o \in Physical : Plug(o)
             \/ "foreign" \in Faults /\ ForeignCreate
    /\ UNCHANGED <<prefs, serviceVars, pc, localVars, fileVars, procVars, reports, ends>>

Steps == StartSteps \/ StopSteps \/ SavingSteps \/ RecoverySteps

Next == Requests \/ Steps \/ HotPlugs \/ Exit \/ Crash \/ Reboot

Spec == Init /\ [][Next]_vars

\* The thread holding the lock goes on.  Its subprocesses and joins have
\* timeouts; its broadcast has none (ipc_server.py:122-125), so this assumes that
\* subscribers read or go away.  systemd starts a daemon that failed or was
\* killed, not one that ended on SIGTERM: Launch, requests, kills and plugs need
\* not happen.
FairSpec == Spec /\ WF_vars(Steps)

--------------------------------------------------------------------------------
(* Properties. *)

TypeOK ==
    /\ state \in {"stopped", "running", "error"}
    /\ prefs \in Prefs /\ settings \in Prefs \union {TornSettings}
    /\ output_name \in Outputs \union {NoOutput} /\ owns_output \in BOOLEAN
    /\ mode \in AllModes \union {None} /\ scale \in AllScales \union {None}
    /\ sessions \in 0..MaxSessions /\ ends \in 0..MaxEnds
    /\ wayvnc \in 0..sessions /\ setup \in 0..sessions /\ supervisor \in 0..sessions
    /\ pc \in {"off", "down", "recover", "killing", "unplug", "forget", "idle", "probe", "focus",
               "mirror", "list", "create", "diff", "mode", "config", "cert", "spawn", "serve",
               "record", "recording", "fail", "stopping", "removing", "clearing",
               "saving", "writing", "apply"}
    /\ goto \in {"idle", "cert", "stopping", "apply"}
    /\ after \in {"return", "restart"}
    /\ arg \in AllModes
    /\ made \in Outputs \union {NoOutput} /\ made_owned \in BOOLEAN
    /\ before \subseteq Outputs
    /\ sessionFile \in [found: BOOLEAN, out: Outputs \union {NoOutput}, owns: BOOLEAN]
    /\ conf \in [user: Usernames, pass: Passwords \union {NoPassword}]
    /\ vncs \subseteq [sid: 1..sessions, out: Outputs,
                       conf: [user: Usernames, pass: Passwords]]
    /\ reports \subseteq [mode: ReportedModes, scale: Scales]
    /\ monitors \subseteq Outputs /\ created \subseteq Headless
    /\ nextHeadless \in 1..(MaxOutputs + 1)
    /\ placed \in [Outputs -> {Unplaced} \union (AllModes \X AllScales \X Positions)]

\* Whatever fails and wherever the daemon is killed, the only outputs it ever
\* removes are headless outputs it created (service.py:51-55, 137-146).
RemovesOnlyOwn == [][monitors \ monitors' \subseteq created \/ HotPlugs \/ Reboot]_vars

\* It repositions or resizes only those, never a mirrored monitor: "applying this
\* would reposition a real monitor" (service.py:440-444).
PlacesOnlyOwn == \A o \in Outputs : placed[o] # Unplaced => o \in created

\* When no session runs, nothing of one is left: no output, no wayvnc, no
\* session.json, after every failed start, stop, kill and recovery.
NoOrphan ==
    pc = "idle" /\ state # "running"
        => created \intersect monitors = {} /\ vncs = {} /\ ~sessionFile.found

\* A running session is the one thing that exists: one wayvnc, on the session's
\* output, with the current credentials (service.py:517-521), the setup page of
\* the same session, and a session.json that names the output.
RunningIntact ==
    pc = "idle" /\ state = "running"
        => /\ vncs = {[sid |-> wayvnc, out |-> output_name,
                       conf |-> [user |-> prefs.user, pass |-> prefs.pass]]}
           /\ setup = wayvnc
           /\ sessionFile = SessionOf(output_name, owns_output)
           /\ owns_output <=> prefs.mode = "extend"
           /\ created \intersect monitors = IF owns_output THEN {output_name} ELSE {}

\* A stop() that could not delete session.json: the servers are gone.
HalfStopped == "unlink" \in Faults /\ wayvnc = 0 /\ setup = 0

\* Whatever failed before (a remove_output at service.py:386, kill_orphan on the
\* one control socket at wayvnc.py:133-145, a write of session.json), and whatever
\* is left of it, a session that runs has its own wayvnc on its own output with
\* the credentials of the file it read, its setup page, an owned output that no
\* earlier wayvnc shows, and a session.json that sends the next daemon to nobody
\* else's output.
RunningServed ==
    pc = "idle" /\ state = "running" /\ ~HalfStopped
        => /\ {v \in vncs : v.sid = wayvnc}
                 = {[sid |-> wayvnc, out |-> output_name, conf |-> conf]}
           /\ setup = wayvnc
           /\ owns_output =>
                 /\ output_name \in created \intersect monitors
                 /\ \A v \in vncs : v.out = output_name => v.sid = wayvnc
           /\ sessionFile \in {NoSession, TornSession, SessionOf(output_name, owns_output)}

Applied == Extending => placed[output_name] = <<mode, scale, prefs.position>>

\* What the status reports is what the compositor was last told, until hyprctl
\* (which may time out when Hyprland has already done as told, hypr.py:41-42) or a
\* write fails in the middle of an operation, and again after the next one that
\* succeeds (service.py:426-428, 438-447).
DisplayApplied ==
    [][pc' = "idle" /\ ~Applied' =>
          \/ pc = "idle" /\ ~Applied
          \/ ApplyFails \/ SaveFails \/ ClearFails
          \/ \E m \in AllModes, s \in AllScales : ResizeFails(m, s)]_vars

\* The preferences a client sees are the ones on disk, and a daemon that starts
\* finds them whole, wherever the one before was killed except in the write
\* itself (service.py:68-71, 97-106).
SettingsDurable ==
    /\ pc = "idle" => settings = prefs
    /\ pc \in {"down", "off", "recover"} => settings # TornSettings

\* Whatever fails, and wherever the daemon is killed, sessions follow one another
\* and no number (a wayvnc, a setup token) comes back: start() is a no-op while a
\* session runs, a token is "regenerated on every start()" (service.py:216-220,
\* security.py:42-43).
Life == INSTANCE SessionLife WITH
    last <- IF pc = "serve" THEN sessions - 1 ELSE sessions,
    session <- IF state = "running" THEN sessions ELSE 0,
    served <- setup

SessionsInTurn == Life!Safety

\* Every operation, and every recovery, comes to an end.
OperationsEnd == pc \notin {"idle", "off"} ~> pc \in {"idle", "off"}

\* A daemon that comes back after being killed in a session leaves nothing of it,
\* unless it is told to end first.
KillHeals ==
    pc \in {"down", "recover"} /\ vncs # {}
        ~> (vncs = {} /\ created \intersect monitors = {}) \/ pc = "off"

\* "The headless output created before the failing eval call must have been
\* cleaned back up, not left dangling" (tests/test_service.py:155-156), and
\* recovery tears down "whatever stale headless output our previous run created"
\* (service.py:134-135).
NoStrayOutput == pc = "idle" /\ state # "running" => created \intersect monitors = {}

\* hypr.py:100-104: at a tablet's physical pixel count a scale of 1 renders
\* every UI element illegibly small.
ReportedModeIsScaled ==
    pc = "idle" /\ Extending /\ mode \in ReportedModes => scale # One
================================================================================
