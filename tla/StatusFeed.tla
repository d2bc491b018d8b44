------------------------------- MODULE StatusFeed -------------------------------
(***************************************************************************)
(* How the bar widget learns the Service's state: ipc_server.py on one     *)
(* side, BarWidget.qml on the other, one Unix socket between them.  The    *)
(* handler thread of the widget's connection answers its requests in       *)
(* order; the thread of an operation and the watcher of a wayvnc push      *)
(* status events on the same stream.  The Service is reduced to what the   *)
(* widget compares: its state, output name and session (DisplayService     *)
(* has the rest).                                                          *)
(***************************************************************************)
EXTENDS Naturals, Sequences

CONSTANTS
    DisplayModes,   \* which of "extend", "mirror" sessions start in
    Clicks,         \* operations the widget's user asks for
    ClientOps,      \* operations other clients ask for
    MaxStarts,      \* bound: start() calls that get past "already running"
    MaxRespawns,    \* bound: notifications of a watcher thread
    MaxLosses,      \* bound: ends of the daemon, or of a connection alone
    MaxPolls,       \* bound: requests queued when the user or a timer adds one
    Buffer          \* half messages the socket holds before a write blocks

Operations == {"start", "stop", "restart", "adjust"}

ASSUME FeedAssumption ==
    /\ DisplayModes \subseteq {"extend", "mirror"} /\ DisplayModes # {}
    /\ Clicks \subseteq Operations /\ ClientOps \subseteq Operations
    /\ \A bound \in {MaxStarts, MaxRespawns, MaxLosses} : bound \in Nat
    /\ MaxPolls \in Nat \ {0} /\ Buffer \in Nat \ {0, 1}

VARIABLES
    \* the daemon
    daemon,         \* "up" (it listens), "failed", or "off" after a SIGTERM
    service,        \* what status() returns
    lock,           \* who runs an operation: "free", "client", "handler"
    todo,           \* what that operation still does
    watcher,        \* "quiet", or "owes": on_death is about to take the lock
    handler,        \* the connection's thread: "read", "adding", "operating", "replying"
    subscribed,     \* the connection is in _subscribers
    outbox,         \* the message each thread is writing to the connection
    writing,        \* the holder of wfile_lock
    starts, respawns, losses,
    \* the connection
    requests,       \* widget -> daemon; the head is being handled
    wire,           \* daemon -> widget: halves of messages
    \* the widget
    socket,         \* "up", "down", or "absent" until reconnectTimer fires
    shown,          \* root.status
    qr, qrFor       \* the session of qrDataUri, _qrRequestedForOutput

daemonVars == <<daemon, service, lock, todo, watcher>>
countVars == <<starts, respawns, losses>>
sendVars == <<handler, subscribed, outbox, writing>>
widgetVars == <<socket, shown, qr, qrFor>>
vars == <<daemon, service, lock, todo, watcher, handler, subscribed, outbox, writing,
          starts, respawns, losses, requests, wire, socket, shown, qr, qrFor>>

\* Output names: 0 for none, 1 the mirrored monitor, k + 1 the headless output
\* of session k.
Running(k, mode) ==
    [state |-> "running", out |-> IF mode = "mirror" THEN 1 ELSE k + 1, session |-> k]
Idle(s) == [state |-> s, out |-> 0, session |-> 0]
Offline == Idle("stopped")      \* also the widget's offlineStatus

Services == [state: {"stopped", "running", "error"}, out: 0..(MaxStarts + 1),
             session: 0..MaxStarts]
Message(kind, s) == [kind |-> kind, body |-> s]
Messages == [kind: {"status", "qr", "error"}, body: Services]
Nothing == Message("none", Offline)
Writers == {"handler", "operation", "watcher"}

Connect ==
    \/ daemon = "up" /\ socket' = "up" /\ requests' \in {<<"subscribe">>, <<>>}
    \/ daemon # "up" /\ socket' = "down" /\ requests' = <<>>

Init ==
    /\ daemon \in {"up", "failed", "off"}
    /\ service = Offline /\ lock = "free" /\ todo = <<>> /\ watcher = "quiet"
    /\ handler = "read" /\ subscribed = FALSE /\ writing = "nobody"
    /\ outbox = [w \in Writers |-> Nothing]
    /\ starts = 0 /\ respawns = 0 /\ losses = 0
    /\ wire = <<>> /\ shown = Offline /\ qr = 0 /\ qrFor = 0
    /\ socket = "absent" /\ requests = <<>>

--------------------------------------------------------------------------------
(* Operations of the Service: the lock is held to the end of the broadcast. *)

Plan(op) ==
    CASE op = "start"   -> IF service.state = "running" THEN <<>> ELSE <<"up">>
      [] op = "stop"    -> IF service.state = "stopped" THEN <<>> ELSE <<"down">>
      [] op = "restart" -> IF service.state = "running" THEN <<"down", "up">> ELSE <<"same">>
      [] op = "adjust"  -> <<"same">>

TakeLock(op, holder) ==
    /\ daemon = "up" /\ lock = "free"
    /\ op \in {"start", "restart"} => starts < MaxStarts
    /\ lock' = holder /\ todo' = Plan(op)

\* The command line client, or a request the widget sent before its connection
\* broke.
ClientOperates(op) ==
    /\ TakeLock(op, "client")
    /\ UNCHANGED <<daemon, service, watcher, sendVars, countVars, requests, wire, widgetVars>>

\* One state change of the operation and the status its _notify() takes.
ChangeTo(s) ==
    /\ service' = s
    /\ outbox' = [outbox EXCEPT !["operation"] = Message("status", s)]

Perform ==
    /\ todo # <<>> /\ outbox["operation"] = Nothing
    /\ todo' = Tail(todo)
    /\ \/ /\ Head(todo) = "up" /\ starts' = starts + 1
          /\ \/ \E m \in DisplayModes : ChangeTo(Running(starts + 1, m))
             \/ ChangeTo(Idle("error"))
       \/ Head(todo) = "down" /\ ChangeTo(Offline) /\ UNCHANGED starts
       \/ Head(todo) = "same" /\ ChangeTo(service) /\ UNCHANGED starts
    /\ UNCHANGED <<daemon, lock, watcher, handler, subscribed, writing, respawns, losses,
                   requests, wire, widgetVars>>

\* start() and stop() return the status; a restart that ends in an error raises.
ResultOf(op) ==
    IF op = "restart" /\ service.state = "error"
    THEN Message("error", Offline) ELSE Message("status", service)

Reply(m) ==
    /\ handler' = "replying" /\ requests' = Tail(requests)
    /\ outbox' = [outbox EXCEPT !["handler"] = m]

Finish ==
    /\ lock # "free" /\ todo = <<>> /\ outbox["operation"] = Nothing
    /\ lock' = "free"
    /\ IF lock = "handler" THEN Reply(ResultOf(Head(requests)))
                           ELSE UNCHANGED <<handler, requests, outbox>>
    /\ UNCHANGED <<daemon, service, todo, watcher, subscribed, writing, countVars, wire, widgetVars>>

\* A wayvnc died and was launched again; on_death calls _notify without the lock.
Respawn ==
    /\ service.state = "running" /\ watcher = "quiet" /\ respawns < MaxRespawns
    /\ watcher' = "owes" /\ respawns' = respawns + 1
    /\ UNCHANGED <<daemon, service, lock, todo, sendVars, starts, losses,
                   requests, wire, widgetVars>>

WatcherNotifies ==
    /\ watcher = "owes" /\ lock = "free" /\ outbox["watcher"] = Nothing
    /\ watcher' = "quiet"
    /\ outbox' = [outbox EXCEPT !["watcher"] = Message("status", service)]
    /\ UNCHANGED <<daemon, service, lock, todo, handler, subscribed, writing, countVars,
                   requests, wire, widgetVars>>

--------------------------------------------------------------------------------
(* The connection's handler thread. *)

Handles(request) == handler = "read" /\ requests # <<>> /\ Head(requests) = request

AnswerStatus ==
    /\ Handles("status") /\ lock = "free"
    /\ Reply(Message("status", service))
    /\ UNCHANGED <<daemonVars, subscribed, writing, countVars, wire, widgetVars>>

\* dispatch() takes the status, add_subscriber comes after it: a change between
\* the two is neither in the response nor pushed.
AnswerSubscribe ==
    /\ Handles("subscribe") /\ lock = "free"
    /\ handler' = "adding"
    /\ outbox' = [outbox EXCEPT !["handler"] = Message("status", service)]
    /\ UNCHANGED <<daemonVars, subscribed, writing, countVars, requests, wire, widgetVars>>

AddSubscriber ==
    /\ handler = "adding" /\ handler' = "replying"
    /\ subscribed' = TRUE /\ requests' = Tail(requests)
    /\ UNCHANGED <<daemonVars, outbox, writing, countVars, wire, widgetVars>>

AnswerQr ==
    /\ Handles("get_qr") /\ lock = "free"
    /\ Reply(Message(IF service.state = "running" THEN "qr" ELSE "error", service))
    /\ UNCHANGED <<daemonVars, subscribed, writing, countVars, wire, widgetVars>>

HandlerOperates(op) ==
    /\ Handles(op) /\ TakeLock(op, "handler")
    /\ handler' = "operating"
    /\ UNCHANGED <<daemon, service, watcher, subscribed, outbox, writing, countVars,
                   requests, wire, widgetVars>>

\* A request the Service refuses (here: a start beyond MaxStarts).
HandlerRefuses ==
    /\ (Handles("start") \/ Handles("restart")) /\ lock = "free" /\ starts = MaxStarts
    /\ Reply(Message("error", Offline))
    /\ UNCHANGED <<daemonVars, subscribed, writing, countVars, wire, widgetVars>>

--------------------------------------------------------------------------------
(* Writing on the socket: under wfile_lock, blocking while the buffer is full. *)

HasMessage(w) == outbox[w] # Nothing /\ (w = "handler" => handler = "replying")

\* Mutant: a full buffer does not block the writer.
PutAnyway(w, half) ==
    wire' = Append(wire, [half |-> half, msg |-> outbox[w]])

Put(w, half) ==
    /\ Len(wire) < Buffer
    /\ wire' = Append(wire, [half |-> half, msg |-> outbox[w]])

\* Mutant: no lock around the write.
BeginWriteUnlocked(w) ==
    /\ HasMessage(w) /\ writing # w
    /\ w = "handler" \/ subscribed
    /\ Put(w, 1) /\ writing' = w
    /\ UNCHANGED <<daemonVars, handler, subscribed, outbox, countVars, requests, widgetVars>>

\* An event goes to the connections that are in _subscribers by now.
BeginWrite(w) ==
    /\ HasMessage(w) /\ writing = "nobody"
    /\ w = "handler" \/ subscribed
    /\ Put(w, 1) /\ writing' = w
    /\ UNCHANGED <<daemonVars, handler, subscribed, outbox, countVars, requests, widgetVars>>

Written(w) ==
    /\ outbox' = [outbox EXCEPT ![w] = Nothing]
    /\ handler' = IF w = "handler" THEN "read" ELSE handler

EndWrite(w) ==
    /\ writing = w /\ outbox[w] # Nothing
    /\ Put(w, 2) /\ Written(w) /\ writing' = "nobody"
    /\ UNCHANGED <<daemonVars, subscribed, countVars, requests, widgetVars>>

\* Mutant: the event waits for a subscriber.
NobodyListensYet(w) ==
    /\ w # "handler" /\ HasMessage(w) /\ ~subscribed
    /\ UNCHANGED vars

\* Nobody subscribed: the loop over _subscribers does nothing.
NobodyListens(w) ==
    /\ w # "handler" /\ HasMessage(w) /\ ~subscribed
    /\ Written(w)
    /\ UNCHANGED <<daemonVars, subscribed, writing, countVars, requests, wire, widgetVars>>

--------------------------------------------------------------------------------
(* The widget receives. *)

\* _applyStatus: a running session with another output name needs another QR
\* code; no session, none.
ApplyStatus(s) ==
    /\ shown' = s
    /\ \/ /\ s.state = "running" /\ s.out # qrFor
          /\ qrFor' = s.out /\ requests' = Append(requests, "get_qr") /\ UNCHANGED qr
       \/ /\ s.state # "running"
          /\ qrFor' = 0 /\ qr' = 0 /\ UNCHANGED requests
       \/ /\ s.state = "running" /\ s.out = qrFor
          /\ UNCHANGED <<qr, qrFor, requests>>

\* SplitParser cuts at the newline that ends a second half; a line that is not
\* one whole message does not parse and is dropped, an error is ignored.
FirstEnd(i) == wire[i].half = 2 /\ \A j \in 1..(i - 1) : wire[j].half = 1

Receive ==
    \E end \in DOMAIN wire :
        LET msg == wire[end].msg
            whole == end = 2 /\ wire[1].msg = msg
        IN  /\ socket = "up" /\ FirstEnd(end)
            /\ wire' = SubSeq(wire, end + 1, Len(wire))
            /\ \/ whole /\ msg.kind = "status" /\ ApplyStatus(msg.body)
               \/ whole /\ msg.kind = "qr" /\ qr' = msg.body.session
                  /\ UNCHANGED <<shown, qrFor, requests>>
               \/ (~whole \/ msg.kind = "error") /\ UNCHANGED <<shown, qr, qrFor, requests>>
            /\ UNCHANGED <<daemonVars, sendVars, countVars, socket>>

Click(op) ==
    /\ socket = "up" /\ Len(requests) < MaxPolls
    /\ requests' = Append(requests, op)
    /\ UNCHANGED <<daemonVars, sendVars, countVars, wire, widgetVars>>

--------------------------------------------------------------------------------
(* The connection: the 3 s watchdog, reconnectTimer, the daemon's life. *)

\* The watchdog's tick on a live connection.
Poll ==
    /\ socket = "up" /\ Len(requests) < MaxPolls
    /\ requests' = Append(requests, "status")
    /\ UNCHANGED <<daemonVars, sendVars, countVars, wire, widgetVars>>

\* Mutant: a write that fails keeps wfile_lock.
ConnectionClosesWhileWriting ==
    /\ requests' = <<>> /\ wire' = <<>>
    /\ handler' = "read" /\ subscribed' = FALSE /\ writing' = writing
    /\ outbox' = [w \in Writers |->
                    IF w \in {"handler", writing} THEN Nothing ELSE outbox[w]]

\* What closing the connection does to the daemon: the handler's finally clause
\* unsubscribes, writes fail, an operation it runs goes on.
ConnectionCloses ==
    /\ requests' = <<>> /\ wire' = <<>>
    /\ handler' = "read" /\ subscribed' = FALSE /\ writing' = "nobody"
    /\ outbox' = [w \in Writers |->
                    IF w \in {"handler", writing} THEN Nothing ELSE outbox[w]]

\* Mutant: reconnection is left to the Socket's own signals.
DropSocketOnSignal ==
    /\ socket = "down"
    /\ UNCHANGED vars

\* The tick finds no connection: _reconnect destroys the Socket.
DropSocket ==
    /\ socket = "down" /\ socket' = "absent"
    /\ UNCHANGED <<daemonVars, sendVars, countVars, requests, wire, shown, qr, qrFor>>

\* The connection ends, at any time: the tick finds the last message too old, as
\* when an operation keeps the handler waiting, and destroys the Socket, which
\* may or may not report it; or the handler ends on an exception, and the Socket
\* reports that.
ConnectionEnds ==
    /\ socket = "up" /\ losses < MaxLosses
    /\ losses' = losses + 1
    /\ \/ socket' = "absent" /\ shown' \in {shown, Offline}
       \/ socket' = "down" /\ shown' = Offline
    /\ ConnectionCloses
    /\ lock' = IF lock = "handler" THEN "client" ELSE lock
    /\ UNCHANGED <<daemon, service, todo, watcher, starts, respawns, qr, qrFor>>

\* reconnectTimer: a new Socket, which connects if the daemon listens.  Its
\* subscribe is not sent if it connects before the Loader publishes it, for
\* _send looks at backendSocket.
Reconnect ==
    /\ socket = "absent"
    /\ Connect
    /\ UNCHANGED <<daemonVars, sendVars, countVars, wire, shown, qr, qrFor>>

\* The daemon is killed, or stops on SIGTERM.
DaemonEnds ==
    /\ daemon = "up" /\ losses < MaxLosses
    /\ daemon' \in {"failed", "off"} /\ losses' = losses + 1
    /\ service' = Offline /\ lock' = "free" /\ todo' = <<>> /\ watcher' = "quiet"
    /\ requests' = <<>> /\ wire' = <<>>
    /\ handler' = "read" /\ subscribed' = FALSE /\ writing' = "nobody"
    /\ outbox' = [w \in Writers |-> Nothing]
    /\ IF socket = "up" THEN socket' = "down" /\ shown' = Offline
                        ELSE UNCHANGED <<socket, shown>>
    /\ UNCHANGED <<starts, respawns, qr, qrFor>>

\* Recovery and a new Service: by systemd after a failure, by hand otherwise.
DaemonListens(from) ==
    /\ daemon = from /\ daemon' = "up"
    /\ UNCHANGED <<service, lock, todo, watcher, sendVars, countVars, requests, wire, widgetVars>>

--------------------------------------------------------------------------------

HandlerSteps ==
    \/ AnswerStatus \/ AnswerSubscribe \/ AddSubscriber \/ AnswerQr \/ HandlerRefuses
    \/ \E op \in Clicks : HandlerOperates(op)

Writes(w) == BeginWrite(w) \/ EndWrite(w) \/ NobodyListens(w)
OperationSteps == Perform \/ Finish
Watchdog == Poll \/ DropSocket \/ Reconnect

Next ==
    \/ HandlerSteps \/ OperationSteps \/ Receive \/ Watchdog \/ ConnectionEnds
    \/ \E w \in Writers : Writes(w)
    \/ \E op \in ClientOps \union Clicks : ClientOperates(op)
    \/ \E op \in Clicks : Click(op)
    \/ Respawn \/ WatcherNotifies
    \/ DaemonEnds \/ DaemonListens("failed") \/ DaemonListens("off")

Spec == Init /\ [][Next]_vars

\* Threads waiting for a lock others take again and again get it sometime
\* (strong fairness), and the timer ticks however often MaxPolls keeps it from
\* polling; the widget's event loop runs and reads, and systemd starts a daemon
\* that failed (Restart=on-failure), not one that ended on SIGTERM.  Clicks, other
\* clients, respawns, broken connections and deaths need not happen.
FairSpec ==
    /\ Spec
    /\ SF_vars(HandlerSteps) /\ SF_vars(WatcherNotifies)
    /\ \A w \in Writers : SF_vars(Writes(w))
    /\ WF_vars(OperationSteps) /\ WF_vars(Receive)
    /\ SF_vars(Watchdog) /\ WF_vars(DaemonListens("failed"))

--------------------------------------------------------------------------------
(* Properties. *)

TypeOK ==
    /\ daemon \in {"up", "failed", "off"} /\ service \in Services
    /\ lock \in {"free", "client", "handler"}
    /\ todo \in {<<>>, <<"up">>, <<"down">>, <<"down", "up">>, <<"same">>}
    /\ watcher \in {"quiet", "owes"}
    /\ handler \in {"read", "adding", "operating", "replying"}
    /\ subscribed \in BOOLEAN
    /\ outbox \in [Writers -> Messages \union {Nothing}]
    /\ writing \in Writers \union {"nobody"}
    /\ starts \in 0..MaxStarts /\ respawns \in 0..MaxRespawns
    /\ losses \in 0..MaxLosses
    /\ requests \in Seq(Operations \union {"subscribe", "status", "get_qr"})
    /\ wire \in Seq([half: {1, 2}, msg: Messages]) /\ Len(wire) <= Buffer
    /\ socket \in {"up", "down", "absent"}
    /\ shown \in Services /\ qr \in 0..MaxStarts /\ qrFor \in 0..(MaxStarts + 1)

\* Three threads write on one stream, each write may block half way, and still
\* every line the widget reads is one message: the framing the tests rely on
\* (test_ipc_server.py, SocketWireTestCase).
WholeLines ==
    \A i \in DOMAIN wire :
        /\ wire[i].half = IF i = 1 \/ wire[i - 1].half = 2 THEN 1 ELSE 2
        /\ wire[i].half = 2 => wire[i].msg = wire[i - 1].msg

\* No thread waits for one that waits for it (ipc_server.py:61-62, 122-126).  An
\* operation pushes its status under the Service's lock, which handlers wait for,
\* and waits for wfile_lock, which a handler may hold, and for the widget.  But
\* the handler whose operation it is holds no wfile_lock, whoever holds that has
\* the rest of a message to write, and a full socket a line the widget can read.
NobodyStuck ==
    /\ Len(wire) = Buffer => socket = "up" /\ \E end \in DOMAIN wire : FirstEnd(end)
    /\ writing # "nobody" => HasMessage(writing)
    /\ handler = "replying" => HasMessage("handler")
    /\ lock = "handler" <=> handler = "operating"
    /\ handler = "operating" => requests # <<>> /\ writing # "handler"

\* Whatever was overtaken, missed or lost, and however often the connection
\* broke, the widget of a daemon that stays up ends up connected and showing the
\* Service's state: the poll repairs what the events leave wrong (BarWidget.qml,
\* watchdog timer).
EventuallyCurrent == <>[](daemon = "up" => socket = "up" /\ shown = service)

\* An operation ends although it broadcasts under the Service's lock to a client
\* whose buffer may be full, and although the operation's own handler shares the
\* connection's write lock.
OperationsEnd == lock # "free" ~> lock = "free"

\* "a panel showing a QR code" (README.md:10): as long as it is connected to a
\* daemon with a session, the panel ends up with the QR code of that session.
QrCurrent == <>[](socket = "up" /\ service.state = "running" => qr = service.session)
================================================================================
