---------------------------- MODULE SetupPageProofs ----------------------------
(***************************************************************************)
(* Theorems about SetupPage, for any number of tablets and of sessions.    *)
(***************************************************************************)
EXTENDS SetupPage, TLAPS

\* What an operation has at hand: a session comes up only when none is left, and
\* only within the bound.
Phases ==
    /\ service = "shutdown" => listening = session
    /\ service = "reset" => listening = 0
    /\ service = "serve" => session = 0 /\ listening = 0
    /\ service = "commit" => session = 0 /\ listening = started /\ started # 0
    /\ service = "serve" => started < MaxSessions
    /\ service \in {"shutdown", "reset"} /\ again => started < MaxSessions

\* A report that resizes holds the lock it found session and mode under.
Resizing == \A t \in Tablets :
    thread[t] = "resizing" => service = "idle" /\ session # 0 /\ mode = "extend"

\* Only a connection's thread handles a report.
Connected == \A t \in Tablets : thread[t] # "reading" => server[t] # 0

IInv == TypeOK /\ Phases /\ Resizing /\ Connected

USE SetupAssumption

LEMMA InitIInv == Init => IInv
<1> SUFFICES ASSUME Init PROVE IInv OBVIOUS
<1>1. \A t \in Tablets : server[t] = 0 /\ page[t] = 0 /\ thread[t] = "reading" /\ shown[t] = "nothing"
  BY DEF Init
<1>2. TypeOK
  <2>1. again \in BOOLEAN BY DEF Init
  <2>2. size \in [from: 0..started, to: 0..started] BY DEF Init
  <2>3. QED BY <1>1, <2>1, <2>2 DEF Init, TypeOK
<1>3. Phases /\ Resizing /\ Connected BY <1>1 DEF Init, Phases, Resizing, Connected
<1>4. QED BY <1>2, <1>3 DEF IInv

\* A step of the Service leaves the tablets alone, and resizes nothing.
LEMMA ServiceSteps ==
    ASSUME IInv, StartSession \/ StopSession \/ Restart \/ SetMode \/ Operate
    PROVE  IInv'
<1> USE DEF IInv, TypeOK, Phases, Resizing, Connected, tabletVars
<1>1. CASE StartSession BY <1>1 DEF StartSession, Begins, LockFree
<1>2. CASE StopSession BY <1>2 DEF StopSession, Begins, LockFree
<1>3. CASE Restart BY <1>3 DEF Restart, Begins, LockFree
<1>4. CASE SetMode BY <1>4 DEF SetMode, LockFree
<1>5. CASE CloseServer BY <1>5 DEF CloseServer
<1>6. CASE ResetSession BY <1>6 DEF ResetSession
<1>7. CASE OpenServer BY <1>7 DEF OpenServer
<1>8. CASE OpenServerFails BY <1>8 DEF OpenServerFails
<1>9. CASE CommitSession BY <1>9 DEF CommitSession
<1>10. QED BY <1>1, <1>2, <1>3, <1>4, <1>5, <1>6, <1>7, <1>8, <1>9 DEF Operate

\* The tablet's own steps leave its connection's thread alone.
LEMMA TabletSteps ==
    ASSUME IInv, NEW t \in Tablets, Connect(t) \/ LoadPage(t) \/ NoConnection(t) \/ Break(t)
    PROVE  IInv'
<1> USE DEF IInv, TypeOK, Phases, Resizing, Connected, serviceVars
<1>1. CASE Connect(t) BY <1>1 DEF Connect
<1>2. CASE LoadPage(t) BY <1>2 DEF LoadPage
<1>3. CASE NoConnection(t) BY <1>3 DEF NoConnection
<1>4. CASE Break(t) BY <1>4 DEF Break
<1>5. QED BY <1>1, <1>2, <1>3, <1>4

\* A response only ends what the thread was doing.
LEMMA Answered ==
    ASSUME IInv, NEW t \in Tablets, NEW verdict \in {"resized", "failed"},
           Answer(t, verdict), UNCHANGED serviceVars,
           size' \in [from: 0..started, to: 0..started]
    PROVE  IInv'
BY DEF IInv, TypeOK, Phases, Resizing, Connected, serviceVars, Answer

\* A step of the thread that answers nothing yet.
LEMMA ThreadGoesOn ==
    ASSUME IInv, NEW t \in Tablets, NEW point \in {"admitted", "waiting", "resizing"},
           shown[t] = "loading", server[t] # 0,
           thread' = [thread EXCEPT ![t] = point],
           point = "resizing" => LockFree /\ session # 0 /\ mode = "extend",
           UNCHANGED <<serviceVars, size, server, page, shown>>
    PROVE  IInv'
BY DEF IInv, TypeOK, Phases, Resizing, Connected, serviceVars, LockFree

LEMMA ThreadSteps ==
    ASSUME IInv, NEW t \in Tablets, Handle(t)
    PROVE  IInv'
<1>1. /\ size \in [from: 0..started, to: 0..started]
      /\ [from |-> page[t], to |-> session] \in [from: 0..started, to: 0..started]
      /\ thread[t] # "reading" => shown[t] = "loading" /\ server[t] # 0
  BY DEF IInv, TypeOK, Connected
<1>2. CASE RefuseReport(t) BY <1>1, <1>2, Answered DEF RefuseReport
<1>3. CASE AdmitReport(t) BY <1>3, ThreadGoesOn DEF AdmitReport, Posted
<1>4. CASE IgnoreReport(t) BY <1>1, <1>4, Answered DEF IgnoreReport
<1>5. CASE QueueReport(t) BY <1>1, <1>5, ThreadGoesOn DEF QueueReport
<1>6. CASE RejectReport(t) BY <1>1, <1>6, Answered DEF RejectReport
<1>7. CASE BeginResize(t) BY <1>1, <1>7, ThreadGoesOn DEF BeginResize
<1>8. CASE EndResize(t) BY <1>1, <1>8, Answered DEF EndResize
<1>9. QED BY <1>2, <1>3, <1>4, <1>5, <1>6, <1>7, <1>8 DEF Handle

LEMMA NextIInv == IInv /\ [Next]_vars => IInv'
<1>1. CASE UNCHANGED vars BY <1>1 DEF vars, IInv, TypeOK, Phases, Resizing, Connected
<1>2. QED BY <1>1, ServiceSteps, TabletSteps, ThreadSteps DEF Next

LEMMA InductiveIInv == Spec => []IInv
BY InitIInv, NextIInv, PTL DEF Spec

\* The Service, its reports and the tablets keep their types; no two reports ever
\* hold the lock, and between operations the setup server is that of the session.
THEOREM SetupTypeCorrect == Spec => []TypeOK
<1>1. IInv => TypeOK BY DEF IInv
<1>2. QED BY <1>1, InductiveIInv, PTL

\* A size is applied only by a report that holds the lock, to a session that
\* extends, whatever happened while it waited (service.py:419-427).
LEMMA ResizeStep == IInv /\ [Next]_vars => [size' # size => session # 0 /\ mode = "extend"]_vars
<1> SUFFICES ASSUME IInv, Next, size' # size PROVE session # 0 /\ mode = "extend"
  BY DEF vars
<1>1. PICK t \in Tablets : EndResize(t)
  BY DEF Next, StartSession, StopSession, Restart, SetMode, Operate, CloseServer, ResetSession,
         OpenServer, OpenServerFails, CommitSession, Connect, LoadPage, NoConnection, Break,
         Handle, RefuseReport, AdmitReport, IgnoreReport, QueueReport, RejectReport, BeginResize
<1>2. QED BY <1>1 DEF EndResize, IInv, Resizing

\* However long a report waits, it resizes only a session that runs and extends.
THEOREM ReportsRespectMode == Spec => ResizesOnlyExtended
BY InductiveIInv, ResizeStep, PTL DEF Spec, ResizesOnlyExtended

--------------------------------------------------------------------------------
(* Tokens. *)

\* A report that was let through carries the token of its connection's server, until
\* it is answered: neither the page nor the connection changes before.
Admitted == \A t \in Tablets : thread[t] # "reading" => page[t] = server[t]

LEMMA NextAdmitted ==
    ASSUME IInv, Admitted, [Next]_vars
    PROVE  Admitted'
<1> USE DEF IInv, TypeOK, Admitted, serviceVars, tabletVars
<1>1. CASE StartSession \/ StopSession \/ Restart \/ SetMode \/ Operate
    BY <1>1
    DEF StartSession, StopSession, Restart, SetMode, Operate, CloseServer, ResetSession,
        OpenServer, OpenServerFails, CommitSession
<1>2. ASSUME NEW t \in Tablets, Connect(t) \/ LoadPage(t) \/ NoConnection(t) \/ Break(t)
      PROVE  Admitted'
    BY <1>2 DEF Connect, LoadPage, NoConnection, Break, Connected
<1>3. ASSUME NEW t \in Tablets, Handle(t) PROVE Admitted'
    <2>1. ASSUME NEW verdict, Answer(t, verdict) PROVE Admitted'
        BY <2>1 DEF Answer
    <2>2. CASE AdmitReport(t) \/ QueueReport(t) \/ BeginResize(t)
        BY <2>2 DEF AdmitReport, QueueReport, BeginResize
    <2> QED
        BY <1>3, <2>1, <2>2 DEF Handle, RefuseReport, IgnoreReport, RejectReport, EndResize
<1>4. CASE UNCHANGED vars
    BY <1>4 DEF vars
<1> QED BY <1>1, <1>2, <1>3, <1>4 DEF Next

\* The session that runs has the last number, so the token is its own or older.
LEMMA ResizeHoldsToken ==
    ASSUME IInv, Admitted, NEW t \in Tablets, EndResize(t), size' # size
    PROVE  /\ thread[t] = "resizing" /\ size'.from = server[t]
           /\ 0 < size'.from /\ size'.from <= size'.to /\ size'.to = session
<1>1. thread[t] = "resizing" /\ size' = [from |-> page[t], to |-> session]
    BY DEF EndResize
<1>2. page[t] = server[t] /\ server[t] # 0 /\ server[t] \in 0..started /\ session = started
    BY <1>1 DEF Admitted, IInv, Connected, Resizing, TypeOK
<1>3. started \in Nat
    BY DEF IInv, TypeOK
<1> QED BY <1>1, <1>2, <1>3

\* However long a report waited and whatever came up meanwhile, the size it applies came
\* with the token of the server that accepted its connection.
THEOREM ReportsHaveToken == Spec => ReportsCarryToken
<1> DEFINE Carried ==
        size' # size =>
          \E t \in Tablets :
              /\ thread[t] = "resizing" /\ size'.from = server[t]
              /\ 0 < size'.from /\ size'.from <= size'.to /\ size'.to = session
<1>1. Init => Admitted
    BY DEF Init, Admitted
<1>2. ASSUME IInv, Admitted, Next, size' # size PROVE Carried
    <2>1. PICK t \in Tablets : EndResize(t)
        BY <1>2
        DEF Next, StartSession, StopSession, Restart, SetMode, Operate, CloseServer,
            ResetSession, OpenServer, OpenServerFails, CommitSession, Connect, LoadPage,
            NoConnection, Break, Handle, RefuseReport, AdmitReport, IgnoreReport, QueueReport,
            RejectReport, BeginResize
    <2> QED BY <1>2, <2>1, ResizeHoldsToken
<1>3. IInv /\ Admitted /\ [Next]_vars => Admitted' /\ [Carried]_vars
    BY <1>2, NextAdmitted
<1> QED BY <1>1, <1>3, InductiveIInv, PTL DEF Spec, ReportsCarryToken

--------------------------------------------------------------------------------
(* The reduced Service implements SessionLife. *)

\* The tablets' steps leave the Service's variables alone.
LEMMA TabletsOnlyWatch ==
    ASSUME NEW t \in Tablets,
           Connect(t) \/ LoadPage(t) \/ NoConnection(t) \/ Break(t) \/ Handle(t)
    PROVE  UNCHANGED serviceVars
BY DEF Connect, LoadPage, NoConnection, Break, Handle, RefuseReport, AdmitReport, IgnoreReport,
       QueueReport, RejectReport, BeginResize, EndResize

\* A step of the Service is one of SessionLife, or changes none of its variables.
LEMMA StepInTurn == IInv /\ [Next]_vars => [Life!Next]_(Life!vars)
<1> SUFFICES ASSUME IInv, [Next]_vars PROVE [Life!Next]_(Life!vars)
    OBVIOUS
<1> USE DEF IInv, TypeOK, Phases, Life!vars
<1>1. CASE StartSession \/ StopSession \/ Restart \/ SetMode
    BY <1>1 DEF StartSession, StopSession, Restart, SetMode, Begins, LockFree
<1>2. CASE CloseServer
    BY <1>2 DEF CloseServer, Life!Next, Life!CloseServer
<1>3. CASE ResetSession
    BY <1>3 DEF ResetSession, Life!Next, Life!End
<1>4. CASE OpenServer
    <2>1. started' - 1 = started
        BY <1>4 DEF OpenServer
    <2> QED BY <1>4, <2>1 DEF OpenServer
<1>5. CASE OpenServerFails
    BY <1>5 DEF OpenServerFails
<1>6. CASE CommitSession
    BY <1>6 DEF CommitSession, Life!Next, Life!Open
<1>7. CASE UNCHANGED serviceVars
    BY <1>7 DEF serviceVars
<1> QED
    BY <1>1, <1>2, <1>3, <1>4, <1>5, <1>6, <1>7, TabletsOnlyWatch DEF Next, Operate, vars, serviceVars

\* The Service the tablets see keeps the turn of its sessions and their numbers.
THEOREM SetupKeepsTurn == Spec => SessionsInTurn
<1>1. Init => Life!Init
    BY DEF Init, Life!Init
<1> QED BY <1>1, InductiveIInv, StepInTurn, PTL DEF Spec, SessionsInTurn, Life!Safety
================================================================================
