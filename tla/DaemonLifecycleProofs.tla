------------------------- MODULE DaemonLifecycleProofs -------------------------
(***************************************************************************)
(* Theorems about DaemonLifecycle, for any number of daemons, connections, *)
(* sessions, signals and kills.                                            *)
(***************************************************************************)
EXTENDS DaemonLifecycle, TLAPS

Down == {"off", "failed"}
Served == {"started", "serving", "stopping", "closing", "unlinking", "exiting"}

\* Connections lead to daemons that got as far as serving, and what a start has
\* made is at hand only while it holds the lock.
Links ==
    /\ \A d \in Daemons : main[d] \notin Served => session[d] = 0 /\ lock[d] = Nobody
    /\ \A c \in Conns :
           /\ conn[c].to = Nobody => conn[c] = Closed
           /\ conn[c].to # Nobody => conn[c].step # "closed" /\ main[conn[c].to] \in Served
           /\ conn[c].made # 0 => conn[c].step = "starting"
           /\ conn[c].step = "starting" => session[conn[c].to] = 0

\* While daemons never overlapped at most one is up, and what exists is what its
\* Service runs, what its start has made, or what session.json names for the next.
Clean == ~overlap =>
    /\ \A d, e \in Daemons : main[d] \notin Down /\ main[e] \notin Down => d = e
    /\ \A d \in Daemons :
           /\ main[d] \in Served /\ lock[d] = Nobody
                  => exist \ cut = {session[d]} \ {0} /\ recorded = session[d]
           /\ main[d] \in Served /\ lock[d] # Nobody
                  => exist \ cut = {conn[lock[d]].made} \ {0} /\ recorded = 0
           /\ main[d] \in {"probe", "unlink", "bind", "listen"}
                  => exist \subseteq cut /\ recorded = 0
    /\ (\A d \in Daemons : main[d] \in Down \union {"recover"})
           => exist \ cut \subseteq {recorded}

IInv == TypeOK /\ Links /\ Clean

USE LifecycleAssumption

Records(n) == [to: Daemons \union {Nobody}, step: {"closed", "open", "asked", "starting"},
               request: Requests, made: 0..n]

LEMMA ClosedRecord ==
    /\ \A n \in Nat : Closed \in Records(n)
    /\ Closed.to = Nobody /\ Closed.step = "closed" /\ Closed.made = 0
BY DEF Closed, Link, Records, Requests

LEMMA InitIInv == Init => IInv
<1> SUFFICES ASSUME Init PROVE IInv OBVIOUS
<1>1. \A c \in Conns : conn[c] = Closed BY DEF Init
<1>2. conn \in [Conns -> Records(sessions)] BY ClosedRecord DEF Init
<1>3. TypeOK
  <2>1. \A d \in Daemons, c \in Conns :
            lock[d] = c <=> conn[c].step = "starting" /\ conn[c].to = d
    BY <1>1, ClosedRecord DEF Init
  <2>2. main \in [Daemons -> Points] BY DEF Init, Points
  <2>3. lock \in [Daemons -> Conns \union {Nobody}] /\ session \in [Daemons -> 0..sessions]
    BY DEF Init
  <2>4. overlap \in BOOLEAN BY DEF Init
  <2>5. QED BY <1>2, <2>1, <2>2, <2>3, <2>4 DEF Init, TypeOK, Records
<1>4. Links BY <1>1, ClosedRecord DEF Init, Links, Served
<1>5. Clean BY DEF Init, Clean, Served, Down
<1>6. QED BY <1>3, <1>4, <1>5 DEF IInv

LEMMA ProcessEndsIInv ==
    ASSUME IInv, NEW d \in Daemons, NEW to \in Down, main[d] \notin Down,
           ProcessEnds(d, to), ends' \in 0..MaxEnds
    PROVE  IInv'
<1> DEFINE left == {conn[c].made : c \in {b \in Conns : conn[b].to = d}} \ {0}
<1>1. conn \in [Conns -> Records(sessions)] /\ sessions \in Nat
  BY DEF IInv, TypeOK, Records
<1>2. conn' \in [Conns -> Records(sessions)] /\ sessions' = sessions
  BY <1>1, ClosedRecord DEF ProcessEnds
<1>3. \A c \in Conns : conn'[c] = IF conn[c].to = d THEN Closed ELSE conn[c]
  BY DEF ProcessEnds
<1>4. left \subseteq 1..sessions BY <1>1 DEF Records
<1>5. TypeOK'
  <2>1. \A e \in Daemons, c \in Conns :
            lock'[e] = c <=> conn'[c].step = "starting" /\ conn'[c].to = e
    BY <1>3, ClosedRecord DEF IInv, TypeOK, ProcessEnds
  <2>2. main' \in [Daemons -> Points] BY DEF IInv, TypeOK, ProcessEnds, Points, Down
  <2>3. lock' \in [Daemons -> Conns \union {Nobody}] /\ session' \in [Daemons -> 0..sessions]
    BY <1>1 DEF IInv, TypeOK, ProcessEnds
  <2>4. cut' \subseteq 1..sessions BY <1>4 DEF IInv, TypeOK, ProcessEnds
  <2>5. QED BY <1>2, <2>1, <2>2, <2>3, <2>4 DEF IInv, TypeOK, ProcessEnds, Records
<1>6. Links' BY <1>3, ClosedRecord DEF IInv, TypeOK, Links, ProcessEnds, Down, Served
<1>7. Clean'
  <2> SUFFICES ASSUME ~overlap PROVE exist \ (cut \union left) \subseteq {recorded}
                                     /\ \A e \in Daemons : main'[e] \in Down
    BY DEF IInv, TypeOK, Clean, ProcessEnds, Down, Served
  <2>1. \A e \in Daemons : main'[e] \in Down BY DEF IInv, TypeOK, Clean, ProcessEnds
  <2>2. CASE main[d] = "recover" BY <2>1, <2>2 DEF IInv, TypeOK, Clean, ProcessEnds, Down
  <2>3. CASE main[d] \in {"probe", "unlink", "bind", "listen"} BY <2>1, <2>3 DEF IInv, Clean
  <2>4. CASE main[d] \in Served /\ lock[d] = Nobody BY <2>1, <2>4 DEF IInv, Clean
  <2>5. CASE main[d] \in Served /\ lock[d] # Nobody
    <3>1. lock[d] \in Conns /\ conn[lock[d]].to = d BY <2>5 DEF IInv, TypeOK
    <3>2. exist \ cut = {conn[lock[d]].made} \ {0} BY <2>5 DEF IInv, Clean
    <3>3. QED BY <2>1, <3>1, <3>2
  <2>6. QED BY <2>2, <2>3, <2>4, <2>5 DEF IInv, TypeOK, Points, Down, Served
<1>8. QED BY <1>5, <1>6, <1>7 DEF IInv

\* A main thread that goes from one point to another, with nothing made, found or
\* removed: only which of the phases above it is in may matter.
Phase(point) ==
    CASE point \in Down -> "down"
      [] point = "recover" -> "recover"
      [] point \in {"probe", "unlink", "bind", "listen"} -> "taking over"
      [] OTHER -> "serving"

LEMMA QuietMove ==
    ASSUME IInv, NEW d \in Daemons, NEW to \in Points, Goes(d, main[d], to),
           Phase(to) = Phase(main[d]) \/ (main[d] = "listen" /\ to = "started"),
           path' \in Daemons \union {Nobody, Stale}, ends' \in 0..MaxEnds,
           UNCHANGED <<conn, lock, displayVars, overlap>>
    PROVE  IInv'
<1> USE DEF displayVars
<1>1. main' = [main EXCEPT ![d] = to] /\ main[d] \in Points BY DEF Goes, IInv, TypeOK
<1>2. TypeOK' BY <1>1 DEF IInv, TypeOK
<1>3. /\ main[d] \in Down <=> to \in Down
      /\ main[d] = "recover" <=> to = "recover"
      /\ main[d] \in Served => to \in Served
      /\ to \in {"probe", "unlink", "bind", "listen"}
             => main[d] \in {"probe", "unlink", "bind", "listen"}
      /\ main[d] \in Served \/ main[d] = "listen" \/ to \notin Served
  BY <1>1 DEF Phase, Points, Down, Served
<1>4. Links' BY <1>1, <1>3 DEF IInv, TypeOK, Links
<1>5. Clean'
  <2> SUFFICES ASSUME ~overlap PROVE Clean' BY DEF Clean
  <2>1. \A e \in Daemons : main'[e] \in Down <=> main[e] \in Down
    BY <1>1, <1>3 DEF IInv, TypeOK
  <2>2. \A e \in Daemons : main'[e] = "recover" <=> main[e] = "recover"
    BY <1>1, <1>3 DEF IInv, TypeOK
  <2>3. to \in Served /\ main[d] \notin Served
            => session[d] = 0 /\ lock[d] = Nobody /\ exist \subseteq cut /\ recorded = 0
    BY <1>3 DEF IInv, Links, Clean
  <2>4. \A e \in Daemons : main'[e] \in Served => main[e] \in Served
            \/ (session[e] = 0 /\ lock[e] = Nobody /\ exist \subseteq cut /\ recorded = 0)
    BY <1>1, <2>3 DEF IInv, TypeOK
  <2>5. \A e \in Daemons : main'[e] \in {"probe", "unlink", "bind", "listen"}
            => main[e] \in {"probe", "unlink", "bind", "listen"}
    BY <1>1, <1>3 DEF IInv, TypeOK
  <2>6. (\A d1, e \in Daemons : main'[d1] \notin Down /\ main'[e] \notin Down => d1 = e)
        /\ ((\A e \in Daemons : main'[e] \in Down \union {"recover"})
               => exist' \ cut' \subseteq {recorded'})
    BY <2>1, <2>2 DEF IInv, Clean
  <2>7. QED BY <2>4, <2>5, <2>6 DEF IInv, Clean
<1>6. QED BY <1>2, <1>4, <1>5 DEF IInv

LEMMA LaunchIInv == ASSUME IInv, NEW d \in Daemons, Launch(d) PROVE IInv'
<1> USE DEF displayVars
<1>1. main' = [main EXCEPT ![d] = "recover"] /\ main[d] \in Down BY DEF Launch, Down
<1>2. TypeOK' BY <1>1 DEF IInv, TypeOK, Launch, Points
<1>3. Links' BY <1>1 DEF IInv, TypeOK, Links, Launch, Served, Down
<1>4. Clean'
  <2> SUFFICES ASSUME ~overlap' PROVE Clean' BY DEF Clean
  <2>1. ~overlap /\ \A e \in Daemons : main[e] \in Down BY DEF Launch, Down
  <2>2. \A e \in Daemons : main'[e] = IF e = d THEN "recover" ELSE main[e]
    BY <1>1 DEF IInv, TypeOK
  <2>3. exist \ cut \subseteq {recorded} BY <2>1 DEF IInv, Clean
  <2>4. QED BY <2>1, <2>2, <2>3 DEF Clean, Launch, Down, Served
<1>5. QED BY <1>2, <1>3, <1>4 DEF IInv

LEMMA RecoverIInv == ASSUME IInv, NEW d \in Daemons, Recover(d) PROVE IInv'
<1> USE DEF history
<1>1. main' = [main EXCEPT ![d] = "probe"] /\ main[d] = "recover" BY DEF Recover, Goes
<1>2. TypeOK' BY <1>1 DEF IInv, TypeOK, Recover, Points
<1>3. Links' BY <1>1 DEF IInv, TypeOK, Links, Recover, Served
<1>4. Clean'
  <2> SUFFICES ASSUME ~overlap PROVE Clean' BY DEF Clean, Recover
  <2>1. \A e \in Daemons : e # d => main[e] \in Down
    BY <1>1 DEF IInv, Clean, Down
  <2>2. \A e \in Daemons : main'[e] = IF e = d THEN "probe" ELSE main[e]
    BY <1>1 DEF IInv, TypeOK
  <2>3. exist' \subseteq cut' BY <1>1, <2>1 DEF IInv, Clean, Recover
  <2>4. QED BY <2>1, <2>2, <2>3 DEF Clean, Recover, Down, Served
<1>5. QED BY <1>2, <1>3, <1>4 DEF IInv

\* What a response leaves of a connection that was asked.
Freed(c) ==
    /\ conn' \in [Conns -> Records(sessions)]
    /\ \A b \in Conns : b # c => conn'[b] = conn[b]
    /\ conn'[c].made = 0
    /\ conn'[c] = Closed \/ (conn'[c].step = "open" /\ conn'[c].to = conn[c].to)

LEMMA ReplyFrees ==
    ASSUME IInv, NEW c \in Conns, conn[c].step # "closed", Reply(c)
    PROVE  Freed(c)
<1>1. conn \in [Conns -> Records(sessions)] /\ sessions \in Nat
  BY DEF IInv, TypeOK, Records
<1> DEFINE opened == Opened(conn[c].to)
<1>2. opened \in Records(sessions) /\ opened.to = conn[c].to /\ opened.step = "open" /\ opened.made = 0
  BY <1>1 DEF Opened, Link, Records, Requests
<1>3. PICK next \in {Closed, opened} : conn' = [conn EXCEPT ![c] = next] BY DEF Reply
<1> HIDE DEF opened
<1>4. next \in Records(sessions) /\ next.made = 0 BY <1>1, <1>2, ClosedRecord
<1>5. conn'[c] = next /\ \A b \in Conns : b # c => conn'[b] = conn[b] BY <1>1, <1>3
<1>6. conn' \in [Conns -> Records(sessions)] BY <1>1, <1>3, <1>4
<1>7. QED BY <1>2, <1>4, <1>5, <1>6 DEF Freed

\* A connection that comes, goes, asks or is answered, with nothing started or stopped.
LEMMA LinkIInv ==
    ASSUME IInv, NEW c \in Conns, conn[c].step # "starting",
           conn' \in [Conns -> Records(sessions)],
           \A b \in Conns : b # c => conn'[b] = conn[b],
           conn'[c].made = 0, conn'[c].step # "starting",
           conn'[c].to = Nobody => conn'[c] = Closed,
           conn'[c].to # Nobody => conn'[c].step # "closed" /\ main[conn'[c].to] \in Served,
           UNCHANGED <<main, path, lock, displayVars, history>>
    PROVE  IInv'
<1> USE DEF displayVars, history
<1>1. TypeOK'
  <2>1. \A d \in Daemons, b \in Conns :
            lock'[d] = b <=> conn'[b].step = "starting" /\ conn'[b].to = d
    BY DEF IInv, TypeOK
  <2>2. QED BY <2>1 DEF IInv, TypeOK, Records
<1>2. Links' BY DEF IInv, TypeOK, Links
<1>3. Clean'
  <2>1. \A d \in Daemons : lock[d] # Nobody => conn'[lock[d]] = conn[lock[d]]
    BY DEF IInv, TypeOK
  <2>2. QED BY <2>1 DEF IInv, Clean
<1>4. QED BY <1>1, <1>2, <1>3 DEF IInv

LEMMA AnswerIInv ==
    ASSUME IInv, NEW c \in Conns, conn[c].step = "asked", Reply(c),
           UNCHANGED <<main, path, lock, displayVars, history>>
    PROVE  IInv'
<1>1. Freed(c) BY ReplyFrees
<1>2. conn[c].to # Nobody /\ main[conn[c].to] \in Served
  BY ClosedRecord DEF IInv, Links
<1>3. /\ conn'[c].step # "starting" /\ (conn'[c].to = Nobody => conn'[c] = Closed)
      /\ conn'[c].to # Nobody => conn'[c].step # "closed" /\ main[conn'[c].to] \in Served
  BY <1>1, <1>2, ClosedRecord DEF Freed
<1>4. QED BY <1>1, <1>3, LinkIInv DEF Freed

\* A stop, by the main thread or for a request, takes the session away.
LEMMA StopIInv ==
    ASSUME IInv, NEW d \in Daemons, lock[d] = Nobody, main[d] \in Served, StopSession(d),
           NEW to \in Served \cap Points, main' = [main EXCEPT ![d] = to],
           UNCHANGED <<path, lock, overlap, ends>>,
           \/ UNCHANGED conn
           \/ \E c \in Conns : conn[c].step = "asked" /\ Freed(c)
    PROVE  IInv'
<1>1. /\ session' = [session EXCEPT ![d] = 0] /\ exist' = exist \ {session[d]}
      /\ recorded' \in {recorded, 0} /\ (session[d] # 0 => recorded' = 0)
      /\ cut' = cut /\ sessions' = sessions
  BY DEF StopSession
<1>2. /\ conn' \in [Conns -> Records(sessions)]
      /\ \A b \in Conns : conn'[b] = conn[b] \/ (conn'[b].made = 0 /\ conn[b].step = "asked"
             /\ (conn'[b] = Closed \/ (conn'[b].step = "open" /\ conn'[b].to = conn[b].to)))
  BY DEF IInv, TypeOK, Freed, Records
<1>3. TypeOK'
  <2>1. \A e \in Daemons, b \in Conns :
            lock'[e] = b <=> conn'[b].step = "starting" /\ conn'[b].to = e
    BY <1>2, ClosedRecord DEF IInv, TypeOK
  <2>2. session' \in [Daemons -> 0..sessions'] /\ recorded' \in 0..sessions'
    BY <1>1 DEF IInv, TypeOK
  <2>3. QED BY <1>1, <1>2, <2>1, <2>2 DEF IInv, TypeOK, Records
<1>4. Links' BY <1>1, <1>2, ClosedRecord DEF IInv, TypeOK, Links
<1>5. Clean'
  <2> SUFFICES ASSUME ~overlap PROVE Clean' BY DEF Clean
  <2>1. exist \ cut = {session[d]} \ {0} /\ recorded = session[d] BY DEF IInv, Clean
  <2>2. exist' \subseteq cut' /\ recorded' = 0 BY <1>1, <2>1
  <2>3. \A e \in Daemons : main'[e] = IF e = d THEN to ELSE main[e] BY DEF IInv, TypeOK
  <2>4. \A e \in Daemons : e # d => main[e] \in Down BY DEF IInv, Clean, Down, Served
  <2>5. session'[d] = 0 BY <1>1 DEF IInv, TypeOK
  <2>6. QED BY <1>1, <2>2, <2>3, <2>4, <2>5 DEF Clean, Down, Served
<1>6. QED BY <1>3, <1>4, <1>5 DEF IInv

LEMMA ClientSteps ==
    ASSUME IInv, NEW c \in Conns, Connect(c) \/ Ask(c) \/ HangUp(c)
    PROVE  IInv'
<1>1. conn \in [Conns -> Records(sessions)] /\ sessions \in Nat
  BY DEF IInv, TypeOK, Records
<1>2. CASE Connect(c)
  <2>1. path \in Daemons /\ main[path] \in Served
    BY <1>2 DEF Connect, SomebodyListens, Accepting, Served
  <2>2. Opened(path) \in Records(sessions) /\ Opened(path).to = path
        /\ Opened(path).step = "open" /\ Opened(path).made = 0
    BY <1>1, <2>1 DEF Opened, Link, Records, Requests
  <2>3. conn' = [conn EXCEPT ![c] = Opened(path)] BY <1>2 DEF Connect
  <2>4. conn[c].step # "starting" BY <1>2, ClosedRecord DEF Connect
  <2>5. QED BY <1>1, <1>2, <2>1, <2>2, <2>3, <2>4, LinkIInv DEF Connect
<1>3. CASE Ask(c)
  <2>1. PICK r \in Requests : conn' = [conn EXCEPT ![c] = Link(conn[c].to, "asked", r)]
    BY <1>3 DEF Ask
  <2>2. conn[c].step = "open" BY <1>3 DEF Ask
  <2>3. conn[c].to \in Daemons /\ main[conn[c].to] \in Served
    BY <1>1, <2>2, ClosedRecord DEF IInv, Links, Records
  <2> DEFINE asked == Link(conn[c].to, "asked", r)
  <2>4. asked \in Records(sessions) /\ asked.to = conn[c].to /\ asked.step = "asked" /\ asked.made = 0
    BY <1>1, <2>3 DEF Link, Records
  <2> HIDE DEF asked
  <2>5. conn' = [conn EXCEPT ![c] = asked] BY <2>1 DEF asked
  <2>6. QED BY <1>1, <1>3, <2>2, <2>3, <2>4, <2>5, LinkIInv DEF Ask
<1>4. CASE HangUp(c)
  <2>1. conn' = [conn EXCEPT ![c] = Closed] /\ conn[c].step = "open" BY <1>4 DEF HangUp
  <2>2. QED BY <1>1, <1>4, <2>1, ClosedRecord, LinkIInv DEF HangUp
<1>5. QED BY <1>2, <1>3, <1>4

LEMMA AnswerSteps ==
    ASSUME IInv, NEW c \in Conns, Reject(c) \/ Look(c) \/ StartAgain(c) \/ AnswerStop(c)
    PROVE  IInv'
<1>1. conn[c].step = "asked" /\ Reply(c)
  BY DEF Reject, Look, StartAgain, AnswerStop, TakesLock, Asked
<1>2. CASE Reject(c) \/ Look(c) \/ StartAgain(c)
  BY <1>1, <1>2, AnswerIInv DEF Reject, Look, StartAgain
<1>3. CASE AnswerStop(c)
  <2> DEFINE d == conn[c].to
  <2>1. d \in Daemons /\ main[d] \in Served
    BY <1>1, ClosedRecord DEF IInv, TypeOK, Links
  <2>2. main[d] \in Points /\ main' = [main EXCEPT ![d] = main[d]]
    BY <1>3, <2>1 DEF AnswerStop, IInv, TypeOK
  <2>3. Freed(c) BY <1>1, ReplyFrees
  <2>4. QED BY <1>1, <1>3, <2>1, <2>2, <2>3, StopIInv DEF AnswerStop, TakesLock, history
<1>4. QED BY <1>2, <1>3

\* The thread of a start: it holds the lock, and what it made is not running yet.
LEMMA Starting ==
    ASSUME IInv, NEW c \in Conns, conn[c].step = "starting"
    PROVE  /\ conn[c].to \in Daemons /\ main[conn[c].to] \in Served
           /\ lock[conn[c].to] = c /\ session[conn[c].to] = 0
           /\ conn[c].made \in 0..sessions
BY ClosedRecord DEF IInv, TypeOK, Links

LEMMA BeginStartIInv == ASSUME IInv, NEW c \in Conns, BeginStart(c) PROVE IInv'
<1> USE DEF displayVars, history
<1> DEFINE d == conn[c].to
<1>1. /\ conn[c].step = "asked" /\ lock[d] = Nobody /\ session[d] = 0
      /\ lock' = [lock EXCEPT ![d] = c] /\ conn' = [conn EXCEPT ![c].step = "starting"]
      /\ UNCHANGED <<main, path, displayVars, history>>
  BY DEF BeginStart, TakesLock, Asked
<1>2. d \in Daemons /\ main[d] \in Served /\ conn[c].made = 0
  BY <1>1, ClosedRecord DEF IInv, TypeOK, Links
<1> HIDE DEF d
<1>3. /\ conn' \in [Conns -> Records(sessions)]
      /\ conn'[c].to = d /\ conn'[c].step = "starting" /\ conn'[c].made = 0
      /\ \A b \in Conns : b # c => conn'[b] = conn[b]
  BY <1>1, <1>2 DEF IInv, TypeOK, Records, d
<1>4. TypeOK'
  <2>1. \A e \in Daemons, b \in Conns :
            lock'[e] = b <=> conn'[b].step = "starting" /\ conn'[b].to = e
    BY <1>1, <1>2, <1>3 DEF IInv, TypeOK
  <2>2. QED BY <1>1, <1>3, <2>1 DEF IInv, TypeOK, Records
<1>5. Links' BY <1>1, <1>2, <1>3 DEF IInv, TypeOK, Links
<1>6. Clean'
  <2>1. \A e \in Daemons : lock[e] # Nobody => conn'[lock[e]] = conn[lock[e]]
    BY <1>1, <1>3 DEF IInv, TypeOK
  <2>2. \A e \in Daemons : lock'[e] = IF e = d THEN c ELSE lock[e]
    BY <1>1 DEF IInv, TypeOK
  <2>3. ~overlap => exist \ cut = {} /\ recorded = 0
    BY <1>1, <1>2 DEF IInv, Clean
  <2>4. QED BY <1>1, <1>2, <1>3, <2>1, <2>2, <2>3 DEF IInv, Clean
<1>7. QED BY <1>4, <1>5, <1>6 DEF IInv

LEMMA CreateDisplayIInv == ASSUME IInv, NEW c \in Conns, CreateDisplay(c) PROVE IInv'
<1> USE DEF history
<1> DEFINE d == conn[c].to
<1>1. /\ conn[c].step = "starting" /\ conn[c].made = 0
      /\ sessions < MaxSessions /\ sessions' = sessions + 1
      /\ exist' = exist \union {sessions + 1}
      /\ conn' = [conn EXCEPT ![c].made = sessions + 1]
      /\ UNCHANGED <<main, path, lock, session, recorded, cut, history>>
  BY DEF CreateDisplay
<1>2. d \in Daemons /\ main[d] \in Served /\ lock[d] = c /\ session[d] = 0 BY <1>1, Starting
<1> HIDE DEF d
<1>3. /\ conn' \in [Conns -> Records(sessions')]
      /\ conn'[c].to = d /\ conn'[c].step = "starting" /\ conn'[c].made = sessions + 1
      /\ \A b \in Conns : b # c => conn'[b] = conn[b]
  BY <1>1 DEF IInv, TypeOK, Records, d
<1>4. TypeOK'
  <2>1. \A e \in Daemons, b \in Conns :
            lock'[e] = b <=> conn'[b].step = "starting" /\ conn'[b].to = e
    BY <1>1, <1>3 DEF IInv, TypeOK, d
  <2>2. QED BY <1>1, <1>3, <2>1 DEF IInv, TypeOK, Records
<1>5. Links'
  <2>1. d # Nobody /\ conn'[c] # Closed BY <1>2, <1>3, ClosedRecord
  <2>2. QED BY <1>1, <1>2, <1>3, <2>1 DEF IInv, Links
<1>6. Clean'
  <2> SUFFICES ASSUME ~overlap PROVE Clean' BY <1>1 DEF Clean
  <2>1. \A e \in Daemons : e # d => main[e] \in Down BY <1>2 DEF IInv, Clean, Down, Served
  <2>2. exist \ cut = {} /\ recorded = 0 BY <1>1, <1>2 DEF IInv, TypeOK, Clean
  <2>3. exist' \ cut' = {sessions + 1} BY <1>1, <2>2 DEF IInv, TypeOK
  <2>4. {conn'[lock'[d]].made} \ {0} = {sessions + 1} BY <1>1, <1>2, <1>3 DEF IInv, TypeOK
  <2>5. lock'[d] # Nobody BY <1>1, <1>2
  <2>6. QED BY <1>1, <1>2, <2>1, <2>2, <2>3, <2>4, <2>5 DEF Clean, Down, Served
<1>7. QED BY <1>4, <1>5, <1>6 DEF IInv

\* The end of a start, with its session running or with nothing left of it.
LEMMA StartEnds ==
    ASSUME IInv, NEW c \in Conns, StartFails(c) \/ RecordDisplay(c)
    PROVE  IInv'
<1> USE DEF history
<1> DEFINE d == conn[c].to
           made == conn[c].made
<1>1. conn[c].step = "starting" /\ Reply(c) /\ Unlock(c)
      /\ UNCHANGED <<main, path, cut, sessions, history>>
  BY DEF StartFails, RecordDisplay
<1>2. d \in Daemons /\ main[d] \in Served /\ lock[d] = c /\ session[d] = 0 /\ made \in 0..sessions
  BY <1>1, Starting
<1>3. Freed(c) BY <1>1, ReplyFrees
<1>4. lock' = [lock EXCEPT ![d] = Nobody] BY <1>1 DEF Unlock
<1> HIDE DEF d, made
<1>5. /\ session' \in [Daemons -> 0..sessions] /\ recorded' \in 0..sessions
      /\ exist' \subseteq exist /\ \A e \in Daemons : e # d => session'[e] = session[e]
  BY <1>2 DEF StartFails, RecordDisplay, IInv, TypeOK, d, made
<1>6. TypeOK'
  <2>1. \A e \in Daemons, b \in Conns :
            lock'[e] = b <=> conn'[b].step = "starting" /\ conn'[b].to = e
    BY <1>1, <1>2, <1>3, <1>4, ClosedRecord DEF IInv, TypeOK, Freed, d
  <2>2. lock' \in [Daemons -> Conns \union {Nobody}] BY <1>4 DEF IInv, TypeOK
  <2>3. QED BY <1>1, <1>3, <1>5, <2>1, <2>2 DEF IInv, TypeOK, Freed, Records
<1>7. Links'
  <2>1. \A b \in Conns : conn'[b].step = "starting" => conn'[b].to # d
    BY <1>1, <1>2, <1>3, ClosedRecord DEF IInv, TypeOK, Freed
  <2>2. \A e \in Daemons : lock'[e] = IF e = d THEN Nobody ELSE lock[e]
    BY <1>4 DEF IInv, TypeOK
  <2>3. \A b \in Conns : /\ conn'[b].to = Nobody => conn'[b] = Closed
                         /\ conn'[b].to # Nobody => conn'[b].step # "closed" /\ main[conn'[b].to] \in Served
                         /\ conn'[b].made # 0 => conn'[b].step = "starting"
    BY <1>2, <1>3, ClosedRecord DEF IInv, Links, Freed, d
  <2>4. \A b \in Conns : conn'[b].step = "starting" => session'[conn'[b].to] = 0
    BY <1>1, <1>3, <1>5, <2>1, ClosedRecord DEF IInv, TypeOK, Links, Freed
  <2>5. QED BY <1>1, <1>2, <1>5, <2>2, <2>3, <2>4 DEF IInv, Links
<1>8. Clean'
  <2> SUFFICES ASSUME ~overlap PROVE Clean' BY <1>1 DEF Clean
  <2>1. \A e \in Daemons : e # d => main[e] \in Down BY <1>2 DEF IInv, Clean, Down, Served
  <2>2. exist \ cut = {made} \ {0} /\ recorded = 0 BY <1>2 DEF IInv, TypeOK, Clean, made
  <2>3. lock'[d] = Nobody BY <1>2, <1>4 DEF IInv, TypeOK
  <2>4. exist' \ cut' = {session'[d]} \ {0} /\ recorded' = session'[d]
    <3>1. CASE StartFails(c) BY <1>1, <1>2, <2>2, <3>1 DEF StartFails, made
    <3>2. CASE RecordDisplay(c)
      BY <1>1, <1>2, <2>2, <3>2 DEF RecordDisplay, IInv, TypeOK, made, d
    <3>3. QED BY <3>1, <3>2
  <2>5. QED BY <1>1, <1>2, <2>1, <2>3, <2>4 DEF Clean, Down, Served
<1>9. QED BY <1>6, <1>7, <1>8 DEF IInv

LEMMA MainThreadSteps ==
    ASSUME IInv, NEW d \in Daemons,
           MainSteps(d) \/ StopService(d) \/ Terminate(d) \/ Kill(d, "off") \/ Kill(d, "failed")
    PROVE  IInv'
<1> USE DEF history, Phase, Down, Goes, Points
<1>0. ends \in 0..MaxEnds /\ path \in Daemons \union {Nobody, Stale} /\ main[d] \in Points
  BY DEF IInv, TypeOK
<1>1. CASE Recover(d) BY <1>1, RecoverIInv
<1>2. CASE ProbeFree(d) BY <1>0, <1>2, QuietMove DEF ProbeFree
<1>3. CASE ProbeInUse(d) BY <1>0, <1>3, ProcessEndsIInv DEF ProbeInUse
<1>4. CASE RemoveStale(d) BY <1>0, <1>4, QuietMove DEF RemoveStale
<1>5. CASE Bind(d) BY <1>0, <1>5, QuietMove DEF Bind
<1>6. CASE TakeoverFails(d) BY <1>0, <1>6, ProcessEndsIInv DEF TakeoverFails
<1>7. CASE Serve(d) BY <1>0, <1>7, QuietMove DEF Serve
<1>8. CASE CloseListener(d) BY <1>0, <1>8, QuietMove DEF CloseListener
<1>9. CASE RemovePath(d) BY <1>0, <1>9, QuietMove DEF RemovePath
<1>10. CASE Exit(d) BY <1>0, <1>10, ProcessEndsIInv DEF Exit
<1>11. CASE StopService(d) BY <1>0, <1>11, StopIInv DEF StopService, Served
<1>12. CASE Terminate(d)
  <2>1. ends' \in 0..MaxEnds BY <1>0, <1>12 DEF Terminate
  <2>2. QED BY <1>0, <1>12, <2>1, QuietMove DEF Terminate
<1>13. CASE Kill(d, "off") \/ Kill(d, "failed")
  <2>1. ends' \in 0..MaxEnds /\ main[d] \notin Down BY <1>0, <1>13 DEF Kill
  <2>2. QED BY <1>13, <2>1, ProcessEndsIInv DEF Kill
<1>14. QED
  BY <1>1, <1>2, <1>3, <1>4, <1>5, <1>6, <1>7, <1>8, <1>9, <1>10, <1>11, <1>12, <1>13 DEF MainSteps

LEMMA NextIInv == IInv /\ [Next]_vars => IInv'
<1> SUFFICES ASSUME IInv, [Next]_vars PROVE IInv' OBVIOUS
<1>1. CASE UNCHANGED vars
  BY <1>1 DEF vars, IInv, TypeOK, Links, Clean
<1>2. CASE \E d \in Daemons : Launch(d) BY <1>2, LaunchIInv
<1>3. CASE \E d \in Daemons : MainSteps(d) \/ StopService(d) \/ Terminate(d)
                               \/ Kill(d, "off") \/ Kill(d, "failed")
  BY <1>3, MainThreadSteps
<1>4. CASE \E c \in Conns : Connect(c) \/ Ask(c) \/ HangUp(c) BY <1>4, ClientSteps
<1>5. CASE \E c \in Conns : Answers(c) BY <1>5, AnswerSteps, BeginStartIInv DEF Answers
<1>6. CASE \E c \in Conns : Starts(c) BY <1>6, CreateDisplayIInv, StartEnds DEF Starts
<1>7. QED BY <1>1, <1>2, <1>3, <1>4, <1>5, <1>6 DEF Next

LEMMA InductiveIInv == Spec => []IInv
BY InitIInv, NextIInv, PTL DEF Spec

\* The daemons', connections' and files' variables keep their types, and a Service's
\* lock is held by exactly the connection whose thread is starting a session.
THEOREM LifecycleTypeCorrect == Spec => []TypeOK
<1>1. IInv => TypeOK BY DEF IInv
<1>2. QED BY <1>1, InductiveIInv, PTL

\* As long as daemons follow one another, one that serves finds nothing of its
\* predecessors but starts they did not survive to record (main.py:25, 41).
THEOREM DaemonsServeClean == Spec => []ServesClean
<1>1. IInv => ServesClean BY DEF IInv, Clean, ServesClean, Accepting, Served
<1>2. QED BY <1>1, InductiveIInv, PTL

\* What recovery wiped in the run of two daemons cannot be wiped in a succession of them:
\* a session that a Service believes to run is there (service.py:126-129).
THEOREM SessionKeptAlone == Spec => [](~overlap => SessionKept)
<1>1. ASSUME IInv, ~overlap PROVE SessionKept
  <2> SUFFICES ASSUME NEW d \in Daemons, session[d] # 0 PROVE session[d] \in exist
    BY DEF SessionKept
  <2>1. main[d] \in Served BY <1>1 DEF IInv, Links
  <2>2. lock[d] = Nobody BY <1>1 DEF IInv, TypeOK, Links
  <2>3. exist \ cut = {session[d]} \ {0} BY <1>1, <2>1, <2>2 DEF IInv, Clean
  <2>4. QED BY <2>3
<1>2. QED BY <1>1, InductiveIInv, PTL

--------------------------------------------------------------------------------
(* The socket's path. *)

\* From its bind to its close a daemon holds the path, unless daemons overlapped.
Holding == {"listen", "started", "serving", "stopping", "closing"}

Located == ~overlap => \A d \in Daemons : main[d] \in Holding => path = d

\* Only daemons that are up change the path, and at most one is.
LEMMA NextLocated ==
    ASSUME IInv, Located, [Next]_vars
    PROVE  Located'
<1> SUFFICES ASSUME ~overlap' PROVE \A e \in Daemons : main'[e] \in Holding => path' = e
  BY DEF Located
<1> USE DEF Located, Holding
<1>1. CASE UNCHANGED <<main, path, overlap>>
  BY <1>1
<1>2. CASE \E d \in Daemons : Launch(d)
  BY <1>2 DEF Launch, IInv, TypeOK
<1>3. ASSUME NEW d \in Daemons, UNCHANGED overlap, main[d] \notin Down,
             main' = [main EXCEPT ![d] = main'[d]],
             main'[d] \in Holding => path' = d
      PROVE  \A e \in Daemons : main'[e] \in Holding => path' = e
  <2>1. \A e \in Daemons : e # d => main[e] \in Down
    BY <1>3 DEF IInv, Clean
  <2>2. \A e \in Daemons : e # d => main'[e] = main[e]
    BY <1>3 DEF IInv, TypeOK
  <2>3. QED BY <1>3, <2>1, <2>2 DEF Down
<1>4. ASSUME NEW d \in Daemons, NEW to \in Down, main[d] \notin Down, ProcessEnds(d, to)
      PROVE  \A e \in Daemons : main'[e] \in Holding => path' = e
  <2>1. main' = [main EXCEPT ![d] = main'[d]] /\ main'[d] = to /\ UNCHANGED overlap
    BY <1>4 DEF ProcessEnds, IInv, TypeOK
  <2>2. QED BY <1>3, <1>4, <2>1 DEF Down
<1>5. ASSUME NEW d \in Daemons,
             MainSteps(d) \/ StopService(d) \/ Terminate(d) \/ Kill(d, "off") \/ Kill(d, "failed")
      PROVE  \A e \in Daemons : main'[e] \in Holding => path' = e
  <2>1. ASSUME NEW from \in Points \ Down, NEW to \in Points, Goes(d, from, to),
               UNCHANGED overlap, to \in Holding => path' = d
        PROVE  \A e \in Daemons : main'[e] \in Holding => path' = e
    <3>1. main'[d] = to /\ main' = [main EXCEPT ![d] = main'[d]] /\ main[d] \notin Down
      BY <2>1 DEF Goes, IInv, TypeOK
    <3>2. QED BY <1>3, <2>1, <3>1
  <2> USE DEF Points, Down
  <2>2. CASE Recover(d) BY <2>1, <2>2 DEF Recover, history
  <2>3. CASE ProbeFree(d) BY <2>1, <2>3 DEF ProbeFree, history
  <2>4. CASE RemoveStale(d) BY <2>1, <2>4 DEF RemoveStale, history
  <2>5. CASE Bind(d) BY <2>1, <2>5 DEF Bind, history
  <2>6. CASE Serve(d)
    <3>1. main[d] \in Holding /\ path' = path /\ overlap' = overlap
      BY <2>6 DEF Serve, Goes, history
    <3>2. path' = d BY <3>1
    <3>3. QED BY <2>1, <2>6, <3>1, <3>2 DEF Serve
  <2>7. CASE StopService(d)
    <3>1. main[d] \in Holding /\ path' = path /\ overlap' = overlap
      BY <2>7 DEF StopService, Goes, history
    <3>2. path' = d BY <3>1
    <3>3. QED BY <2>1, <2>7, <3>1, <3>2 DEF StopService
  <2>8. CASE Terminate(d)
    <3>1. main[d] \in Holding /\ path' = path /\ overlap' = overlap
      BY <2>8 DEF Terminate, Goes
    <3>2. path' = d BY <3>1
    <3>3. QED BY <2>1, <2>8, <3>1, <3>2 DEF Terminate
  <2>9. CASE CloseListener(d) \/ RemovePath(d)
    BY <2>1, <2>9 DEF CloseListener, RemovePath, history
  <2>10. CASE ProbeInUse(d) \/ TakeoverFails(d) \/ Exit(d)
    BY <1>4, <2>10 DEF ProbeInUse, TakeoverFails, Exit
  <2>11. CASE Kill(d, "off") \/ Kill(d, "failed")
    BY <1>4, <2>11 DEF Kill
  <2>12. QED
    BY <1>5, <2>2, <2>3, <2>4, <2>5, <2>6, <2>7, <2>8, <2>9, <2>10, <2>11 DEF MainSteps
<1>6. CASE \E c \in Conns : Connect(c) \/ Ask(c) \/ HangUp(c) \/ Answers(c) \/ Starts(c)
  BY <1>1, <1>6
  DEF Connect, Ask, HangUp, Answers, Reject, Look, AnswerStop, StartAgain, BeginStart, Starts,
      CreateDisplay, StartFails, RecordDisplay, history
<1>7. QED BY <1>1, <1>2, <1>5, <1>6 DEF Next, vars

\* As long as daemons follow one another, clients reach the one that serves at the path,
\* whatever a killed one left there.
THEOREM ServesAtPath == Spec => []FoundAtPath
<1>1. Init => Located
  BY DEF Init, Located, Holding
<1>2. Located => FoundAtPath
  BY DEF Located, FoundAtPath, Accepting, Holding
<1>3. QED BY <1>1, <1>2, NextLocated, InductiveIInv, PTL DEF Spec
================================================================================
