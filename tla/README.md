# tablet-display: specifications, model checking and proofs

The repository turns a tablet into a second (or mirrored) screen of a Hyprland
desktop.  A daemon, `kdm-tablet-displayd` (Python, `daemon/tabletdisplayd/`),
creates a headless output, runs `wayvnc` on it, serves a setup page with a QR
code, and is driven over a Unix socket by a Quickshell bar widget (QML).  This
directory models the daemon's concurrent and failure-prone core in TLA+, checks
it with TLC and proves its main invariants with TLAPS.

## Inventory

| component | state it keeps | operations | interacts with |
|---|---|---|---|
| wayvnc supervisor (`wayvnc.py`) | `_want_running`, `_proc`, `_respawn_count`, a watcher thread | `start`, `stop`, respawn with backoff, `kill_orphan` | the Service (calls it with the RLock held; `on_death` calls back for the same lock), the wayvnc process |
| session service (`service.py`) | state, output, geometry, preferences; `settings.json`, `session.json` | start, stop, mode, password, username, position, resolution, report, recovery | everything: hyprctl, supervisor, setup server, files; serialised by one RLock |
| hyprctl wrapper (`hypr.py`) | none; the compositor's monitor list and headless counter | list, create (by difference), remove, configure | called by the service |
| setup page server (`setup_server.py`) | page, QR image, token of one session | GET page and QR, POST report | one thread per kept-alive connection, not ended by `stop()`; a report waits for the Service's lock |
| setup page (`index.html`) | the token of the session that served it | one report, one status line | the setup server |
| credentials (`security.py`) | certificate, `wayvnc-secure.conf` | generate, validate, write | called by start |
| probes (`netinfo.py`), QR (`qrcode_gen.py`) | none | LAN address, free ports, PNG | called by start; may fail |
| process (`main.py`, systemd unit) | the socket path it took over | recover, probe and take the path, serve, SIGTERM | restarted by systemd after a failure; shares socket path, `session.json` and control socket with any other daemon |
| IPC server (`ipc_server.py`, `protocol.py`) | list of subscribers | bind, dispatch, subscribe, broadcast, stop | one thread per client; broadcasts from whatever thread changed the state |
| bar widget (`BarWidget.qml`) | last status, QR, socket, timers | requests, status handling, reconnection | IPC client |
| command line client | none | one request | IPC server |
| panel, scripts | none of interest | layout, installation, firewall rule | not modelled |

What is hard here: the watcher thread against `stop()`; a callback that needs
the lock its caller's joiner holds; a start of a dozen external calls any of
which may fail; a daemon killed between any two of them, with outputs and
processes outliving it and two small files to recover from; requests that pass a
check and then wait, while the session they were checked against is replaced;
handler threads that outlive the listener they came from, and go on serving while
the process shuts down; two daemons probing for, removing and binding one path;
output names that are reused after a reboot; monitors plugged and unplugged at
any time.

What makes each component correct:

* supervisor: one process, back while wanted, nothing left after `stop()`;
* service: nothing left when no session runs, exactly one intact session when
  one does, with the current credentials and placement; only its own outputs
  are ever removed or configured; preferences survive; every operation ends;
* setup server: a report acts on the session whose page produced it, and only
  while it extends; the page comes to a conclusion; a stop never waits for a report;
* process: a daemon that serves finds nothing of its predecessors, is found at the
  socket path after a failure, and ends when told to;
* IPC and widget: subscribers end up with the current status and the current
  session's QR code; the connection comes back.

## Modules

* `SupervisedProcess` - what a supervisor promises: `phase` (new, wanted,
  stopping, stopped) and whether its process is running.  Nothing is launched
  after `stop()` was called and nothing runs after it returned.
* `WayvncSupervisor` - the supervisor's caller, watcher thread and processes.
  Each `with self._lock` block of `wayvnc.py` is one action; the sleeps, waits
  and joins between the blocks are interleaved, timeouts included.
  `caller` is the control point of the thread in `start()`/`stop()`, `watcher`
  that of `_watch_loop`, `svcLock` the holder of the Service's RLock.  `Promise`
  instantiates `SupervisedProcess` with a refinement mapping.
* `WayvncSupervisorProofs` - theorems about it.
* `Hyprland` - the compositor as hyprctl shows it (external): `monitors`,
  `nextHeadless`, `placed` (the last mode, scale and position of each output),
  and the history variable `created` (outputs this daemon created).
* `DisplayService` - extends `Hyprland` with the Service, its files, the wayvnc
  processes and the daemon's life.  One operation holds the RLock at a time, and
  `pc` is its control point: every call that leaves the process is a step.
  `made`, `made_owned`, `supervisor`, `before`, `arg` are locals of `start()`
  (and of recovery); `goto` is where an operation goes after saving, `after`
  what follows a stop (return, restart).  A start goes
  `probe -> (focus -> mirror | list -> create -> diff -> mode) -> config ->
  cert -> spawn -> serve -> record -> recording -> idle`, a stop
  `stopping -> removing -> clearing`, a change of preferences `saving -> writing`
  and on, recovery `recover -> killing -> unplug -> forget -> idle`.  A daemon that
  failed is `down`, and systemd starts it (`Boot`); one that ended on SIGTERM is
  `off` until somebody does (`Launch`).  Each file is written in two steps: opening
  it leaves it empty (`TornSettings`, `TornSession`), then it is filled; before the
  first of them a failure leaves what was there, a missing session.json included.
  `main.run()` calls `stop()` and returns: that is a `Stop` and, whatever requests
  came in between, an `Exit`.  A supervisor is
  one record in `vncs`: `WayvncSupervisor` shows that this is all the Service
  sees of it.
* `StatusFeed` - the IPC server and the bar widget on one connection.  The daemon
  side is three threads that write on it (`outbox` holds what each is writing,
  `writing` the holder of `wfile_lock`): the connection's handler (`handler`), an
  operation broadcasting with the Service's lock held (`lock`, `todo`), and a
  watcher's `on_death`, which broadcasts without it.  A message travels as two
  halves, so that a write can block half way on a full `Buffer`.  The widget's side is
  `shown`, `qr`, `qrFor` (`status`, `qrDataUri`, `_qrRequestedForOutput`) and its
  `socket`; the poll and the reconnection timers are actions.  Daemon and connection
  may end at any time (`DaemonEnds`, `ConnectionEnds`).  The Service is reduced to
  state, output name and session.
* `DaemonLifecycle` - `main.py`, the listening side of `ipc_server.py` and the
  systemd unit, for any number of daemon processes on one runtime directory.
  `main` is the control point of `run()`: `recover -> probe -> (unlink ->) bind ->
  listen -> started -> serving -> stopping -> closing -> unlinking -> exiting`.
  `path` says whose socket the path names; a probe's connect succeeds only on a
  daemon whose listener accepts.  `conn` is each connection's thread in
  `dispatch()`, with the request kinds its error paths tell apart, and `lock` the
  holder of each Service's RLock.  `DisplayService` is reduced to numbered
  sessions: `exist` (something of it is there), `recorded` (in `session.json`),
  `session` (what a Service believes to run), `cut` (a start the process did not
  survive to record).
* `SetupPage` - a session's setup server, the tablets' connections to it and the
  pages they show.  `listening` is the session whose server accepts, `server[t]`
  the one that accepted tablet `t`'s connection, `page[t]` the one whose token its
  page holds; `thread[t]` goes `reading -> admitted -> waiting -> resizing` through
  `do_POST`, `_handle_client_report` and `set_resolution`, and `shown[t]` is the
  page's status line.
* `SessionLife` - what the Service promises its clients about sessions: `session`
  (the running one), `served` (the one whose setup server stands), `last` (the
  number given out last).  Sessions follow one another, each under a number used
  once, which stands for its wayvnc, token and QR code; none replaces another
  without an end.  `DisplayService`, and the reduced Service of `SetupPage`, each
  instantiate it as `Life`.  In `DisplayService` a number is
  given out when wayvnc is launched and counts from the moment the setup server is
  up, hence the mapping of `last`.
* `DisplayServiceProofs`, `StatusFeedProofs`, `DaemonLifecycleProofs`,
  `SetupPageProofs` - theorems about the modules they are named for.
  `SessionInventoryProofs` (handled failures), `SessionLifeProofs` (the refinement)
  and `ServiceFaultsProofs` (any failures) continue the ones about `DisplayService`.
* `MCDisplayService` - the sets of faults the runs use.

`Faults` names what may go wrong in a run.  Calls that fail: `lan`, `hyprctl`, `list`
(the second monitor list), `eval` (the first mode of an output), `reapply` (a later
mode or position), `cert`, `spawn`, `port`, `qr`, `remove`, `ctl` (the control socket),
`disk` (session.json), `save` (settings.json), `unlink` (deleting session.json).  A
hyprctl that times out may have been obeyed (`hypr.py:41-42`): `late` is an `output
create` of that kind, and `eval` and `reapply` include both outcomes.  An exit or a
kill may strike whenever nothing is half done; `cut_start` lets it strike while
something exists that session.json does not mention, `cut_save` inside the write of
settings.json.  Around the daemon: `crash` (a kill, as against SIGTERM), `reboot`,
`foreign` (another program creates headless outputs) and `hotplug` (a monitor appears
between the two lists of `create_headless_output`).
Definitions marked `Mutant:` are deliberate bugs used to show that each
property can fail; no specification uses them.

## Runs

| run | shows | bounds |
|---|---|---|
| `supervisor` | no wayvnc outlives `stop()`, never two, the backoff only grows between resets, every step refines `SupervisedProcess`; `stop()` returns, a wanted process comes back unless Popen failed, the watcher ends | 7 launches, each of which may fail: six deaths in a row pass the end of the four-entry backoff table |
| `supervisor_gives_up` | *violated*: after an OSError in the respawn wayvnc never returns | 3 launches |
| `service_any_fault` | with every fault except reboot at once: the daemon removes only what it created, a running session has its own wayvnc, setup page, output and file whatever earlier failures left, and its sessions are steps of `SessionLife` | 2 sessions, 3 outputs, 1 end, no reports |
| `service_handled_faults` | with the failures the code handles, exits, kills and reboots: nothing is left over, a session is intact, its placement applied unless hyprctl failed over it, preferences durable, only its own outputs are configured; operations and recoveries end; a killed session is cleaned up | 3 sessions, 3 outputs, 2 ends, 1 waiting report, 2 positions, 2 passwords |
| `service_qr_fails`, `service_rescaled` | *violated*: see Findings | the smallest that show it |
| `status_feed` | every line on the connection is one message, whichever threads write and block; no thread waits for one that waits for it; operations end although they broadcast under the lock to a client whose buffer may be full; despite overtaken and missed events, broken connections and a daemon restart the widget of a daemon that stays up ends up connected and current | 2 starts, 1 respawn, 2 losses (ends of the daemon or of a connection alone), 2 half messages of buffer, a restart requested by the widget and starts by other clients |
| `feed_qr` | *violated*: see Findings | 1 start, 1 loss |
| `daemon_lifecycle` | a daemon that serves finds nothing of its predecessors unless the start was cut short, and is the one the path leads to; a failed unit listens at the path again; requests and shutdowns end, with requests still arriving | the unit and a daemon started by hand, 1 connection (reused), 2 sessions, 2 signals or kills |
| `second_daemon` | *violated*: see Findings | the same two daemons, 1 session, no kills |
| `setup_page` | however long a report waits, it resizes only an extending session, with the token of a page that was served; stops and restarts end although reports wait for their lock; every page comes to a conclusion; the Service tablets report to refines `SessionLife` | 2 tablets, 3 sessions |
| `setup_stale_report` | *violated*: see Findings | 1 tablet, 2 sessions |

Three sessions are a first session, a restart and a start after it; three outputs
let the number differ from the number of sessions; two ends let a daemon that was
killed be ended again in the recovery, and come back a third time.  With all faults at
once one end suffices, since sessions before and after it meet what it left.  One user
name and one
plain mode suffice because no guard compares them; two positions and two
passwords tell a current from an old value.

In `StatusFeed` two starts give a session, its end and its successor; two losses let
the connection break while it is being repaired, or the daemon end after its
connection did; and the timers add a request only while none is queued (`MaxPolls`),
since more polls carry the same answer.  Bounds are small because liveness is checked
on every interleaving; the three invariants are proved for all values of them.

In `DaemonLifecycle` two daemons are what a race for the path needs; two sessions
let a session start in the window between `svc.stop()` and the exit of a daemon
that ran one; two ends let the unit be killed, come back and be ended again.
One connection suffices for a wait on the Service's lock, since `svc.stop()`
competes with it; `TypeOK` and `ServesClean` are checked on every interleaving of
it with both main threads.  In `SetupPage` a third session follows a restart, and
the second tablet holds the lock while the first waits.

`CHECK_DEADLOCK FALSE`: a supervisor's life ends with `stop()`; the service may
have used up its bounds.  `StatusFeed`, `DaemonLifecycle` and `SetupPage` are checked for
deadlock: timers tick, and a client can always come.

### Findings

Each is a violated run; `PROJECT.json` quotes the text the code disagrees with.

1. A respawn whose Popen raises ends supervision silently (`wayvnc.py:127`).
2. A failing `qrencode` is not in `start()`'s except clause (`service.py:282`):
   output and wayvnc stay, `stop()` does nothing.
3. A restart for a new password, username or mode drops the tablet's scale
   (`service.py:527`).
4. A second daemon recovers, and so removes, the first one's running session
   before it finds the socket in use (`main.py:25`).
5. A connection that ends between `get_qr` and its answer leaves the panel at
   "Loading QR code" for the rest of the session (`BarWidget.qml:105`): the widget marks
   the code as requested before it has it and keeps the mark over the disconnection.
6. A report admitted for one session, or sent over a connection kept alive from
   it, resizes the next one (`setup_server.py:99`): the token is compared with
   that of the server object that accepted the connection, never under the lock.

The models also contain these, for which the project keeps no run of its own:

* `set_display_mode` whose settings write fails, or whose stop cannot delete
  session.json, leaves a mirroring session marked as extending; the next resize
  reconfigures the real monitor (`service.py:468`, `389`; `PlacesOnlyOwn` with the
  fault `save` or `unlink`, the cases theorem `OwnPlacements` excludes);
* a daemon that ends inside the write of settings.json loses every preference, the
  password included: the file is emptied first (`service.py:100`), and what does not
  parse reads as no preferences (`service.py:94`), although they are to "survive
  stop/start" (`service.py:70`; `SettingsDurable` with the fault `cut_save`);
* a session.json that cannot be created leaves a running session no recovery knows of
  (`service.py:312`; `RunningIntact` with the fault `disk`);
* a stop that cannot delete session.json leaves a session that counts as running and
  has neither wayvnc nor setup page (`service.py:389`: `ClearFails`, `HalfStopped`);
* an `output create` that times out after it was obeyed leaves an output nobody removes
  (`hypr.py:41`; `NoStrayOutput` with the fault `late`);
* a daemon that finds the path refusing connections removes it even if another
  daemon has bound it meanwhile, and the remover's own bind may fail
  (`ipc_server.py:103`: `RemoveStale`, `TakeoverFails`); likewise a daemon that
  ends removes whatever the path names (`ipc_server.py:90`: `RemovePath`);
* a daemon that ends before `_write_session_file` leaves an output and a wayvnc no
  recovery finds (`service.py:312`; `NoStrayOutput` with the fault `cut_start`);
* after a reboot recovery may remove another program's headless output of the
  recorded name (`service.py:168`; `RemovesOnlyOwn` with the faults `reboot` and
  `foreign` together, the case theorem `OwnRemovals` excludes);
* a change between the status a subscribe returns and `add_subscriber` is not
  pushed, the next poll repairs it (`ipc_server.py:41`: `AnswerSubscribe`,
  `AddSubscriber`);
* mirror sessions of one monitor share the output name that marks the QR code as
  requested (`BarWidget.qml:105`; `QrCurrent` with `DisplayModes = {"mirror"}`, two
  starts and no loss at all).

## Fairness

One assumption is common to all modules.  Every subprocess call, wait and join of the
daemon has a timeout; a broadcast has none (`ipc_server.py:122-125`).  An operation
broadcasts with the Service's lock held, so a subscriber that neither reads nor goes
away would hold up everything.  `StatusFeed` models the broadcast, assumes that the
widget's event loop runs and reads, and shows (`NobodyStuck`) that there is nothing else
a writer could wait for in vain; the fairness of the other modules rests on the same
assumption about every subscriber.

`WayvncSupervisor`: weak fairness of each thread's own steps (of the watcher's broadcast
under the assumption above), of a process exiting after SIGKILL, and of the release of
the Service's lock by other threads; strong fairness of the watcher getting that lock,
since others may take it again and again but Python wakes every waiter sometime.  Deaths
and `stop()` calls need not happen.
`DisplayService`: weak fairness of the steps of whoever holds the lock and of systemd's
restart of a daemon that failed or was killed (`Restart=on-failure`).  A daemon that
ended on SIGTERM need not come back; no request, fault, kill or plug is assumed.
`StatusFeed`: strong fairness of each thread that waits for a lock others keep taking and
of the timer (its tick does not depend on `MaxPolls`), weak fairness of the lock holder,
of the widget's event loop and of the restart of a daemon that failed; clicks, other
clients, respawns, broken connections and launches by hand are not assumed.  What the
widget shows while the daemon is down is not claimed.
`DaemonLifecycle`: weak fairness of each main thread and of a start that holds the
lock, strong fairness of `svc.stop()` and of answers that
wait for a lock other requests take again and again, and the restart of a failed
unit; launches by hand, requests, signals and kills are not assumed.  `SetupPage`:
weak fairness of the operation that holds the lock, strong fairness of handler
threads that wait for it and of a browser that has a page to report for; loading a
page, connecting and operations are not assumed.

## Proofs

`WayvncSupervisorProofs` proves, for every `MaxSpawns` and either value of
`SpawnMayFail`: the type invariant, `NoSurvivor`, `OneProcess`,
`BackoffOnlyGrows`, and that `Spec` implements `SupervisedProcess!Safety`.
None of these is inductive by itself.  The invariant `IInv` adds that
`_want_running` is set exactly between `start()` and `stop()`, that `_proc` is
set only then, that every live process is `_proc` or the one `stop()` is
terminating (`Accounted`), that `_proc` is None while the watcher sleeps, and
that the delay is that of the last counted death.  `NoSurvivor` needs the third:
a respawn after the sleep happens only if still wanted, so no stop has begun.

`DisplayServiceProofs` proves the type invariant (`ServiceTypeCorrect`: `Typed` adds
what `start()` has at hand at each of its points) and two properties of the Service for all sets of
outputs, preferences and requests and for all bounds:

* `OwnRemovals`: unless both `reboot` and `foreign` are among the faults, every
  step satisfies `RemovesOnlyOwn`, whatever else fails and wherever the daemon
  is killed;
* `OwnPlacements`: unless `save` or `unlink` is among the faults, `PlacesOnlyOwn`
  always holds.

Both hypotheses are needed: without them TLC finds the executions under
Findings.  The first rests on `OwnInv`: numbers of listed headless outputs are
below the next one, so that the difference taken by `create_headless_output`
contains the created output (`FreshOutput`), and what `owns_output`, the local
of `start()` and `session.json` name was created by the daemon (`Ownership`) -
in this compositor session or, for the file, in an earlier one, which is where
the first hypothesis enters (`Owned`).  Most steps are covered by one lemma
about steps that create and record nothing (`Quiet`).  The second adds
`SessionInv`: no session runs while one is being started, the started output is
owned exactly when the mode extends, and a session that extends owns its
output wherever its placement may change.  It is not a property of `idle` alone:
`set_display_mode` makes it false while saving and true again by the restart,
and a write or an unlink that fails ends the operation in between.

`SessionInventoryProofs` proves what the Service's operations are for, with the
failures as hypotheses on the constant `Faults`:

* `NothingLeftOver` and `SessionsIntact`: with the failures start(), stop() and
  recovery are written for (`Handled`), kills and reboots, `NoOrphan` and
  `RunningIntact` always hold;
* `DurableSettings`: without the faults `save` and `cut_save`, `SettingsDurable` always
  holds: between operations the settings are on disk, and no daemon starts from an
  emptied file;
* `PlacementApplied`: under any faults, `DisplayApplied` always holds: only a hyprctl
  or a write that fails leaves status and compositor apart, and the next operation that
  succeeds, or session that starts, brings them together.

The first two rest on `Inventory`, which says for each control point what exists:
between operations either an intact, recorded session or nothing (`InService`);
in a stop, what the file names (`InStop`); in a start, the output the locals name
and the supervisor's wayvnc (`InStart`); in recovery, at most what the file names
(`InRecovery`).  `NoOrphan` alone is not inductive: recovery can only clean up
after an end because every point at which a handled one may strike has a file
that names what exists (`CrashKeeps`), and a failed start only because its except
clause knows the output and the supervisor (`FailsKeeps`).  Hypotheses are needed:
TLC violates `SettingsDurable` with either fault `DurableSettings` excludes, and the next
paragraphs say which faults violate the others.

`ServiceFaultsProofs` turns the question round: not what holds when only handled
failures happen, but what each failure can spoil.

With every fault allowed at once:

* `SessionsServed`: a running session has exactly one wayvnc of its number, on its
  output and with the configuration it was started with, its own setup page, the
  output it owns and no earlier wayvnc shows, and a session.json that names that output
  or none (`RunningServed`): what swallowed failures left is never taken for the
  session's.  Left out is a session whose stop could not delete the file (`HalfStopped`);
* `NoFileLeft`: session.json is there between operations only while a session runs.

With some faults excluded, the others allowed:

| theorem | nothing is left of | unless one of these happens |
|---|---|---|
| `NoWayvncLeft` | wayvnc | `qr`, `ctl`, `disk`, `cut_start` |
| `NoOutputLeft` (`NoStrayOutput`) | headless outputs | `remove`, `list`, `late`, `hotplug`, `disk`, `qr`, `cut_start` |
| `NothingLeftUnless` (`NoOrphan`) | anything | any of those eight |
| `CredentialsCurrent` | outdated credentials in a session | `save` |
| `SessionsIntactUnless` (`RunningIntact`) | anything beside a session, which is intact | the eight, `save` or `unlink` |

The lists are exact: with any one of the listed faults alone TLC violates the property
of that row, with all the others together it does not.
`NothingLeftUnless` and `SessionsIntactUnless` have the conclusions of
`NothingLeftOver` and `SessionsIntact` from weaker hypotheses; `foreign` is allowed
in them, and so is `save` in the first.  Each theorem has an
invariant of its own over the common base (types, `OwnInv`, `LifeInv`):
`ServedInv` follows the one output and wayvnc through a start and a stop, `FileInv`
says when session.json exists, `HeldInv` that every wayvnc is the session's, the
start's in progress or one recovery will stop, and that there is at most one, since
`kill_orphan` stops only one.  `OutputInv` says who answers for each output of the
daemon's: the session that runs, the locals of `start()` (by difference, until the
output is named: `CreatedInPast`), or the file that recovery reads; at every other
control point there is none (`Unanswered`).  `CredentialsInv` holds from the moment
`start()` has written wayvnc's configuration until a change of credentials has been
saved; `ModeInv` ties owning an output to the mode.

`StatusFeedProofs` proves types (`FeedTypeCorrect`, with the buffer's limit) and
`WholeLines` (`LinesStayWhole`) for every buffer and all bounds.  The invariant adds
that the holder of `wfile_lock` has written the first half of the message in its
outbox and nothing can replace that message (`Writing`), and what the handler's
control point says of requests, lock and connection (`Control`); three lemmas say
what a first half, a second half and a read do to a sequence of whole messages.
`FeedDeadlockFree` proves `NobodyStuck`: a circle of waits would have to pass through
a handler that holds the Service's lock and `wfile_lock`, a holder of `wfile_lock`
with nothing to write, or a full socket without a line to read, and none of these
can be.  So the one thing a broadcast may wait for in vain is a widget that does not
read, until its connection ends.

`ServiceKeepsTurn` and `SetupKeepsTurn` prove that `DisplayService`, under any faults,
and the reduced Service of `SetupPage` implement `SessionLife!Safety`
(`SessionsInTurn`).  For the first, `LifeInv` says that no
session runs while one is being started, that a setup server stands only for the
session with the last number, and that the one about to be served has just been
numbered; `Turn` lists the six things a step can do to a session, each of which is a
step of `SessionLife` or a stutter.  For `SetupPage` the fact needed is that the server
an operation is about to commit is the last one started.

`DaemonLifecycleProofs` proves types and `ServesClean` for any number of daemons and
connections.  The invariant adds that connections lead only to daemons that got to
serving, and that what a start has made is at hand only while it holds the lock
(`Links`); and that, while daemons never overlapped, at most one is up and what
exists, apart from what cut-off starts left, is its Service's session, what its start
has made, or what session.json names for the next daemon (`Clean`).  Two more theorems
say what only a second daemon can break: without an overlap a daemon that accepts is
the one the path names (`ServesAtPath`), and the session a Service believes to run is
there (`SessionKeptAlone`), so that the finding of `second_daemon` needs two.
`SetupPageProofs` proves types and `ResizesOnlyExtended` for any number of tablets
and sessions: a report that resizes holds the lock under which it found the session
and its mode (`Resizing`), and every step that changes either needs that lock.  The mode
is `display_mode`, which a failed write may have left different from the session's
(`SetMode`, and the first item under Findings without a run).
`ReportsHaveToken` proves `ReportsCarryToken`: from the check to the resize the
report's token stays that of the server that has its connection, and no connection
leads to a server that was never up; how old that server is, the finding of
`setup_stale_report` shows, nothing bounds.

The assumptions of these modules are the ASSUMEs on their constants: physical
monitors are not headless numbers, defaults are valid values, bounds are natural
numbers.  TLC evaluates them in every run.

Only model-checked: liveness (`KeepsPromise`, `WatcherEnds`, the `OperationsEnd`
of three modules, `KillHeals`, `EventuallyCurrent`, `ListensAgain`,
`RequestsEnd`, `PageConcludes`), which is out of TLAPS's reach.  Every safety
property of a passing run is also a theorem.  Conversely `NoFileLeft`, `NoWayvncLeft`
and `CredentialsCurrent` are theorems only: a run's set of faults would have to be
each theorem's own.

## Not modelled

The panel's layout, the setup page's device detection and the installation scripts
have no state the daemon shares; the firewall helpers run once, by hand, against
`ufw`; the command line client is a connection with one request
(`DaemonLifecycle`), its arguments and output are left out.  The arithmetic of a
report (pixels times devicePixelRatio, bounded before hyprctl sees it) is a
membership in `ReportedModes`: no other code depends on the numbers.  Left out of
modelled components: addresses, ports, certificate contents, character rules of
passwords, refresh rates, log and error texts.

## Plan

Done: `SupervisedProcess`, `WayvncSupervisor`; `Hyprland`, `DisplayService`;
`StatusFeed`; `DaemonLifecycle`; `SetupPage`; `SessionLife` and the refinements to it;
the theorems above.  Left:

1. `DaemonLifecycle` numbers the sessions of several daemons with one counter, so that
   `SessionLife` holds of one daemon at a time only; a promise that speaks of all
   daemons on a runtime directory would cover it too.
2. The rule-removal loop of `lib-firewall.sh` and the arithmetic of reports, as pure
   modules, should either come to depend on more than one call.
3. Several subscribers at once in `StatusFeed`: a broadcast that stops at one of them
   keeps the others waiting.
4. Theorems about the composition: `DaemonLifecycle`'s numbered sessions as a
   refinement of what `DisplayService` does to outputs, wayvnc and session.json.
