---------------------------- MODULE StatusFeedProofs ----------------------------
(***************************************************************************)
(* Theorems about StatusFeed, for every buffer size, every choice of the   *)
(* operations that are asked for, and all bounds.                          *)
(***************************************************************************)
EXTENDS StatusFeed, SequenceTheorems, TLAPS

--------------------------------------------------------------------------------
(* Lines: what a write or a read does to a stream of whole messages. *)

Lines(w) ==
    \A i \in DOMAIN w :
        /\ w[i].half = IF i = 1 \/ w[i - 1].half = 2 THEN 1 ELSE 2
        /\ w[i].half = 2 => w[i].msg = w[i - 1].msg

\* No message has been begun and not ended.
Complete(w) == Len(w) = 0 \/ w[Len(w)].half = 2

\* A message is begun after a complete one.
LEMMA FirstHalf ==
    ASSUME NEW H, NEW w \in Seq(H), NEW h \in H, Lines(w), Complete(w), h.half = 1
    PROVE  /\ Append(w, h) \in Seq(H) /\ Len(Append(w, h)) = Len(w) + 1
           /\ Lines(Append(w, h)) /\ ~Complete(Append(w, h))
           /\ Append(w, h)[Len(Append(w, h))] = h
<1> DEFINE v == Append(w, h)
<1>1. /\ v \in Seq(H) /\ Len(v) = Len(w) + 1 /\ Len(w) \in Nat
      /\ DOMAIN v = 1..Len(v) /\ DOMAIN w = 1..Len(w)
      /\ v[Len(v)] = h /\ \A i \in 1..Len(w) : v[i] = w[i]
  OBVIOUS
<1> HIDE DEF v
<1>2. ASSUME NEW i \in 1..Len(v)
      PROVE  /\ v[i].half = IF i = 1 \/ v[i - 1].half = 2 THEN 1 ELSE 2
             /\ v[i].half = 2 => v[i].msg = v[i - 1].msg
  <2>1. CASE i = Len(v)
     <3>1. i = Len(w) + 1 BY <1>1, <2>1
     <3>2. i = 1 \/ v[i - 1].half = 2
        <4>1. CASE Len(w) = 0 BY <3>1, <4>1
        <4>2. CASE Len(w) # 0
            <5>1. Len(w) \in 1..Len(w) /\ i - 1 = Len(w) BY <1>1, <4>2, <3>1
            <5>2. v[i-1] = w[Len(w)] BY <1>1, <5>1
            <5>3. QED BY <5>2, <4>2 DEF Complete
        <4>3. QED BY <4>1, <4>2
     <3>3. v[i].half = 1 BY <1>1, <2>1
     <3>4. QED BY <3>2, <3>3
  <2>2. CASE i \in 1..Len(w)
     <3>1. v[i] = w[i] BY <1>1, <2>2
     <3>2. i # 1 => i - 1 \in 1..Len(w) BY <1>1, <2>2
     <3>3. i # 1 => v[i-1] = w[i-1] BY <3>2, <1>1
     <3>4. i \in DOMAIN w BY <2>2, <1>1
     <3>5. /\ w[i].half = IF i = 1 \/ w[i - 1].half = 2 THEN 1 ELSE 2
           /\ w[i].half = 2 => w[i].msg = w[i - 1].msg
       BY <3>4 DEF Lines
     <3>6. CASE i = 1 BY <3>5, <3>6, <3>1
     <3>7. CASE i # 1 BY <3>5, <3>7, <3>1, <3>3
     <3>8. QED BY <3>6, <3>7
  <2>3. QED BY <1>1, <2>1, <2>2
<1>3. Lines(v) BY <1>1, <1>2 DEF Lines
<1>4. ~Complete(v) BY <1>1 DEF Complete
<1>5. QED BY <1>1, <1>3, <1>4 DEF v

\* The holder of the write lock ends what it began.
LEMMA SecondHalf ==
    ASSUME NEW H, NEW w \in Seq(H), NEW h \in H, Lines(w), ~Complete(w), h.half = 2,
           w[Len(w)].msg = h.msg
    PROVE  /\ Append(w, h) \in Seq(H) /\ Len(Append(w, h)) = Len(w) + 1
           /\ Lines(Append(w, h)) /\ Complete(Append(w, h))
<1> DEFINE v == Append(w, h)
<1>1. /\ v \in Seq(H) /\ Len(v) = Len(w) + 1 /\ Len(w) \in Nat
      /\ DOMAIN v = 1..Len(v) /\ DOMAIN w = 1..Len(w)
      /\ v[Len(v)] = h /\ \A i \in 1..Len(w) : v[i] = w[i]
  OBVIOUS
<1> HIDE DEF v
<1>2. Len(w) # 0 /\ w[Len(w)].half # 2 BY DEF Complete
<1>3. ASSUME NEW i \in 1..Len(v)
      PROVE  /\ v[i].half = IF i = 1 \/ v[i - 1].half = 2 THEN 1 ELSE 2
             /\ v[i].half = 2 => v[i].msg = v[i - 1].msg
  <2>1. CASE i = Len(v)
     <3>1. i # 1 /\ i - 1 = Len(w) /\ Len(w) \in 1..Len(w) BY <1>1, <1>2, <2>1
     <3>2. v[i - 1] = w[Len(w)] BY <1>1, <3>1
     <3>3. v[i] = h BY <1>1, <2>1
     <3>4. QED BY <1>2, <3>1, <3>2, <3>3
  <2>2. CASE i \in 1..Len(w)
     <3>1. v[i] = w[i] BY <1>1, <2>2
     <3>2. i # 1 => i - 1 \in 1..Len(w) BY <1>1, <2>2
     <3>3. i # 1 => v[i - 1] = w[i - 1] BY <3>2, <1>1
     <3>5. /\ w[i].half = IF i = 1 \/ w[i - 1].half = 2 THEN 1 ELSE 2
           /\ w[i].half = 2 => w[i].msg = w[i - 1].msg
       BY <2>2, <1>1 DEF Lines
     <3>6. CASE i = 1 
       <4>1. w[i].half = 1 BY <3>5, <3>6
       <4>2. QED BY <3>6, <4>1, <3>1
     <3>7. CASE i # 1 BY <3>5, <3>7, <3>1, <3>3
     <3>8. QED BY <3>6, <3>7
  <2>3. QED BY <1>1, <2>1, <2>2
<1>4. Lines(v) BY <1>1, <1>3 DEF Lines
<1>5. Complete(v) BY <1>1 DEF Complete
<1>6. QED BY <1>1, <1>4, <1>5 DEF v

\* A reader takes exactly the first message, and the rest are messages again.
LEMMA LineTaken ==
    ASSUME NEW H, NEW w \in Seq(H), Lines(w), NEW end \in DOMAIN w,
           w[end].half = 2, \A j \in 1..(end - 1) : w[j].half = 1
    PROVE  /\ end = 2 /\ Len(w) >= 2 /\ w[1].msg = w[2].msg /\ w[2] \in H
           /\ SubSeq(w, 3, Len(w)) \in Seq(H) /\ Len(SubSeq(w, 3, Len(w))) <= Len(w)
           /\ Lines(SubSeq(w, 3, Len(w)))
           /\ Complete(SubSeq(w, 3, Len(w))) <=> Complete(w)
           /\ ~Complete(w) => SubSeq(w, 3, Len(w))[Len(SubSeq(w, 3, Len(w)))] = w[Len(w)]
<1> DEFINE v == SubSeq(w, 3, Len(w))
<1>1. Len(w) \in Nat /\ DOMAIN w = 1..Len(w) /\ \A i \in 1..Len(w) : w[i] \in H
  BY ElementOfSeq, LenProperties
<1>2. \A i \in 1..Len(w) : /\ w[i].half = IF i = 1 \/ w[i - 1].half = 2 THEN 1 ELSE 2
                           /\ w[i].half = 2 => w[i].msg = w[i - 1].msg
  BY <1>1 DEF Lines
<1>3. end \in 1..Len(w) /\ 1 \in 1..Len(w) BY <1>1
<1>4. w[1].half = 1 BY <1>2, <1>3
<1>5. end # 1 BY <1>4
<1>6. 2 \in 1..Len(w) /\ 2 - 1 = 1 BY <1>3, <1>5
<1>7. w[2].half = 2 /\ w[2].msg = w[1].msg 
  <2>1. w[2].half = IF w[1].half = 2 THEN 1 ELSE 2 BY <1>2, <1>6
  <2>2. w[2].half = 2 BY <2>1, <1>4
  <2>3. QED BY <2>2, <1>2, <1>6
<1>8. end = 2 
  <2>1. end > 2 => 2 \in 1..(end - 1) BY <1>3
  <2>2. end > 2 => w[2].half = 1 BY <2>1
  <2>3. QED BY <2>2, <1>7, <1>3, <1>5
<1>9. /\ v \in Seq(H) /\ Len(v) = Len(w) - 2 /\ Len(v) \in Nat
      /\ DOMAIN v = 1..Len(v)
      /\ \A i \in 1..Len(v) : v[i] = w[i + 2]
  <2>1. \A i \in 3..Len(w) : w[i] \in H BY <1>1
  <2>2. /\ v \in Seq(H)
        /\ Len(v) = IF 3 <= Len(w) THEN Len(w) - 3 + 1 ELSE 0
        /\ \A i \in 1..(Len(w) - 3 + 1) : v[i] = w[3 + i - 1]
    BY <1>1, <2>1, SubSeqProperties
  <2>3. Len(v) = Len(w) - 2 /\ Len(v) \in Nat BY <2>2, <1>1, <1>6
  <2>4. \A i \in 1..Len(v) : i \in 1..(Len(w) - 3 + 1) /\ 3 + i - 1 = i + 2 BY <2>3, <1>1
  <2>5. DOMAIN v = 1..Len(v) BY <2>2, LenProperties
  <2>6. QED BY <2>2, <2>3, <2>4, <2>5
<1> HIDE DEF v
<1>10. ASSUME NEW i \in 1..Len(v)
       PROVE  /\ v[i].half = IF i = 1 \/ v[i - 1].half = 2 THEN 1 ELSE 2
              /\ v[i].half = 2 => v[i].msg = v[i - 1].msg
  <2>1. i + 2 \in 1..Len(w) /\ i + 2 # 1 /\ (i + 2) - 1 = i + 1 BY <1>1, <1>9
  <2>2. /\ w[i + 2].half = IF w[i + 1].half = 2 THEN 1 ELSE 2
        /\ w[i + 2].half = 2 => w[i + 2].msg = w[i + 1].msg
    BY <1>2, <2>1
  <2>3. v[i] = w[i + 2] BY <1>9
  <2>4. CASE i = 1
    <3>1. v[i].half = 1 BY <2>2, <2>3, <2>4, <1>7
    <3>2. QED BY <3>1, <2>4
  <2>5. CASE i # 1
    <3>1. i - 1 \in 1..Len(v) /\ (i - 1) + 2 = i + 1 BY <1>9, <2>5
    <3>2. v[i - 1] = w[i + 1] BY <1>9, <3>1
    <3>3. QED BY <2>2, <2>3, <2>5, <3>2
  <2>6. QED BY <2>4, <2>5
<1>11. Lines(v) BY <1>9, <1>10 DEF Lines
<1>12. Complete(v) <=> Complete(w) 
  <2>1. CASE Len(v) = 0 
    <3>1. Len(w) - 2 = 0 BY <1>9, <2>1
    <3>2. Len(w) = 2 BY <3>1, <1>1
    <3>3. QED BY <3>2, <2>1, <1>7 DEF Complete
  <2>2. CASE Len(v) # 0
    <3>1. Len(v) \in 1..Len(v) /\ Len(v) + 2 = Len(w) /\ Len(w) # 0 BY <1>1, <1>9, <2>2
    <3>2. v[Len(v)] = w[Len(w)] BY <3>1, <1>9
    <3>3. QED BY <3>1, <3>2, <2>2 DEF Complete
  <2>3. QED BY <2>1, <2>2
<1>13. ~Complete(w) => v[Len(v)] = w[Len(w)]
  <2> SUFFICES ASSUME ~Complete(w) PROVE v[Len(v)] = w[Len(w)] OBVIOUS
  <2>1. Len(v) # 0 BY <1>12 DEF Complete
  <2>2. Len(v) \in 1..Len(v) /\ Len(v) + 2 = Len(w) BY <1>1, <1>9, <2>1
  <2>3. QED BY <2>2, <1>9
<1>14. Len(w) >= 2 /\ Len(v) <= Len(w) /\ w[2] \in H BY <1>1, <1>6, <1>9
<1>15. QED BY <1>7, <1>8, <1>9, <1>11, <1>12, <1>13, <1>14 DEF v

--------------------------------------------------------------------------------
(* The inductive invariant. *)

Halves == [half: {1, 2}, msg: Messages]
Asked == Operations \union {"subscribe", "status", "get_qr"}
ToDos == {<<>>, <<"up">>, <<"down">>, <<"down", "up">>, <<"same">>}

\* What the handler's control point says: a request is at hand, the lock is its
\* own, there is no thread without a connection, and an operation that will
\* start a session is within the bound.
Control ==
    /\ handler \in {"adding", "operating"} => requests # <<>>
    /\ lock = "handler" => handler = "operating"
    /\ socket # "up" => handler = "read" /\ requests = <<>>
    /\ todo \in {<<"up">>, <<"down", "up">>} => starts < MaxStarts

\* The holder of wfile_lock has written the first half of its message and will
\* write the second one: nothing but a closing connection takes either away.
Writing ==
    /\ writing = "nobody" => Complete(wire)
    /\ writing # "nobody" => /\ ~Complete(wire)
                             /\ outbox[writing] # Nothing
                             /\ wire[Len(wire)].msg = outbox[writing]
    /\ writing = "handler" => handler = "replying"
    /\ writing \in {"operation", "watcher"} => subscribed

IInv == TypeOK /\ Control /\ Lines(wire) /\ Writing

USE FeedAssumption

--------------------------------------------------------------------------------
(* Data. *)

\* The statuses the Service can be in.
LEMMA ServicesAre ==
    /\ Offline \in Services /\ Idle("error") \in Services
    /\ \A k \in 1..MaxStarts, m \in DisplayModes : Running(k, m) \in Services
BY DEF Offline, Idle, Running, Services

\* What is made of a status is a message.
LEMMA MessagesAre ==
    \A s \in Services, k \in {"status", "qr", "error"} :
        Message(k, s) \in Messages /\ Message(k, s) # Nothing
BY DEF Message, Messages, Nothing

\* The halves of a message.
LEMMA Sendable ==
    ASSUME NEW m \in Messages \union {Nothing}, m # Nothing
    PROVE  m \in Messages /\ \A n \in {1, 2} : /\ [half |-> n, msg |-> m] \in Halves
                                               /\ [half |-> n, msg |-> m].half = n
                                               /\ [half |-> n, msg |-> m].msg = m
BY DEF Halves

\* What is left of a plan after its first step.
LEMMA ToDoSteps ==
    ASSUME NEW t \in ToDos, t # <<>>
    PROVE  /\ Tail(t) \in ToDos
           /\ Head(t) = "up" => t = <<"up">>
           /\ Tail(t) \in {<<"up">>, <<"down", "up">>} => t = <<"down", "up">> /\ Head(t) = "down"
<1>1. CASE t = <<"up">> 
  <2>1. Tail(t) = <<>> BY <1>1
  <2>2. <<>> # <<"up">> /\ <<>> # <<"down", "up">> OBVIOUS
  <2>3. QED BY <1>1, <2>1, <2>2 DEF ToDos
<1>2. CASE t = <<"down">>
  <2>1. Tail(t) = <<>> /\ Head(t) = "down" BY <1>2
  <2>2. <<>> # <<"up">> /\ <<>> # <<"down", "up">> OBVIOUS
  <2>3. QED BY <1>2, <2>1, <2>2 DEF ToDos
<1>3. CASE t = <<"down", "up">>
  <2>1. Tail(t) = <<"up">> /\ Head(t) = "down" BY <1>3
  <2>3. QED BY <1>3, <2>1 DEF ToDos
<1>4. CASE t = <<"same">>
  <2>1. Tail(t) = <<>> /\ Head(t) = "same" BY <1>4
  <2>2. <<>> # <<"up">> /\ <<>> # <<"down", "up">> OBVIOUS
  <2>3. QED BY <1>4, <2>1, <2>2 DEF ToDos
<1>5. QED BY <1>1, <1>2, <1>3, <1>4 DEF ToDos

\* What an operation is going to do, and that a start is within the bound.
LEMMA PlanIs ==
    ASSUME NEW op \in Operations
    PROVE  /\ Plan(op) \in ToDos
           /\ Plan(op) \in {<<"up">>, <<"down", "up">>} => op \in {"start", "restart"}
<1>1. /\ <<>> # <<"up">> /\ <<>> # <<"down", "up">> /\ <<"same">> # <<"up">>
      /\ <<"down">> # <<"up">> /\ <<"down">> # <<"down", "up">> /\ <<"same">> # <<"down", "up">>
  OBVIOUS
<1>2. QED BY <1>1 DEF Plan, ToDos, Operations

\* Requests are taken from the head and put at the end.
LEMMA RequestSteps ==
    ASSUME NEW r \in Seq(Asked)
    PROVE  /\ r # <<>> => Head(r) \in Asked /\ Tail(r) \in Seq(Asked)
           /\ \A q \in Asked : Append(r, q) \in Seq(Asked) /\ Append(r, q) # <<>>
<1>1. r # <<>> => Head(r) \in Asked /\ Tail(r) \in Seq(Asked)
  BY HeadTailProperties
<1>2. ASSUME NEW q \in Asked PROVE Append(r, q) \in Seq(Asked) /\ Append(r, q) # <<>>
  BY AppendProperties
<1>3. QED BY <1>1, <1>2

--------------------------------------------------------------------------------
(* The invariant holds at first and every step preserves it. *)

\* A step that leaves the stream alone, and the message of the write lock's
\* holder with it, keeps the invariant's stream parts.
LEMMA StreamKept ==
    ASSUME IInv, UNCHANGED <<wire, writing>>,
           writing # "nobody" => outbox'[writing] = outbox[writing],
           writing = "handler" => handler' = handler,
           writing \in {"operation", "watcher"} => subscribed' = subscribed
    PROVE  Lines(wire)' /\ Writing'
<1>1. Lines(wire)' BY DEF IInv, Lines
<1>2. Writing' BY DEF IInv, Writing, Complete
<1>3. QED BY <1>1, <1>2

\* A connection that closes takes the half-written message with it.
LEMMA StreamClosed ==
    ASSUME wire' = <<>>, writing' = "nobody"
    PROVE  Lines(wire)' /\ Writing' /\ wire' \in Seq(Halves) /\ Len(wire') = 0
BY DEF Lines, Writing, Complete

\* At first there is no connection.
LEMMA InitIInv == Init => IInv
<1> SUFFICES ASSUME Init PROVE IInv OBVIOUS
<1>1. TypeOK
  <2>1. /\ wire \in Seq(Halves) /\ Len(wire) = 0 /\ requests \in Seq(Asked)
        /\ outbox \in [Writers -> Messages \union {Nothing}]
        /\ service \in Services /\ shown \in Services
    BY ServicesAre DEF Init
  <2>2. MaxStarts \in Nat /\ MaxRespawns \in Nat /\ MaxLosses \in Nat
        /\ Buffer \in Nat
    BY DEF FeedAssumption
  <2>3. /\ 0 \in 0..MaxStarts /\ 0 \in 0..MaxRespawns /\ 0 \in 0..MaxLosses
        /\ 0 <= Buffer /\ 0 \in 0..(MaxStarts + 1)
    BY <2>2
  <2>4. QED BY <2>1, <2>3 DEF Init, TypeOK, Halves, Asked
<1>2. Control BY DEF Init, Control
<1>3. Lines(wire) BY DEF Init, Lines
<1>4. Writing BY DEF Init, Writing, Complete
<1>5. QED BY <1>1, <1>2, <1>3, <1>4 DEF IInv

\* Another client's operation takes the lock and leaves the connection alone.
LEMMA ClientOperatesKeeps ==
    ASSUME IInv, NEW op \in ClientOps \union Clicks, ClientOperates(op)
    PROVE  IInv'
<1> USE DEF ClientOperates, sendVars, countVars, widgetVars, TakeLock
<1>1. op \in Operations OBVIOUS
<1>2. TypeOK' BY <1>1, PlanIs DEF IInv, TypeOK, ToDos
<1>3. Control' BY <1>1, PlanIs DEF IInv, TypeOK, Control
<1>4. Lines(wire)' /\ Writing' BY StreamKept
<1>5. QED BY <1>2, <1>3, <1>4 DEF IInv

\* The widget's operation: its request stays at hand, its handler writes nothing.
LEMMA HandlerOperatesKeeps ==
    ASSUME IInv, NEW op \in Clicks, HandlerOperates(op)
    PROVE  IInv'
<1> USE DEF HandlerOperates, sendVars, countVars, widgetVars, TakeLock
<1>1. op \in Operations OBVIOUS
<1>2. handler = "read" /\ requests # <<>> BY DEF Handles
<1>3. TypeOK' BY <1>1, PlanIs DEF IInv, TypeOK, ToDos
<1>4. Control' BY <1>1, <1>2, PlanIs DEF IInv, TypeOK, Control
<1>5. writing # "handler" BY <1>2 DEF IInv, Writing
<1>6. Lines(wire)' /\ Writing' BY <1>5, StreamKept
<1>7. QED BY <1>3, <1>4, <1>6 DEF IInv

\* A state change puts a status in the operation's outbox, which is empty.
LEMMA PerformKeeps ==
    ASSUME IInv, Perform
    PROVE  IInv'
<1> USE DEF Perform, sendVars, countVars, widgetVars
<1>1. todo \in ToDos BY DEF IInv, TypeOK, ToDos
<1>2. /\ todo' \in ToDos
      /\ Head(todo) = "up" => starts < MaxStarts
      /\ todo' \in {<<"up">>, <<"down", "up">>} => starts < MaxStarts /\ starts' = starts
  BY <1>1, ToDoSteps DEF IInv, Control
<1>3. starts' \in 0..MaxStarts BY <1>2 DEF IInv, TypeOK
<1>4. \E t \in Services : ChangeTo(t)
  <2>1. service \in Services BY DEF IInv, TypeOK
  <2>2. Head(todo) = "up" => starts + 1 \in 1..MaxStarts BY <1>2 DEF IInv, TypeOK
  <2>3. QED BY <2>1, <2>2, ServicesAre
<1>5. PICK t \in Services : ChangeTo(t) BY <1>4
<1>6. TypeOK'
  <2>1. service' \in Services BY <1>5 DEF ChangeTo
  <2>2. outbox' \in [Writers -> Messages \union {Nothing}]
    BY <1>5, MessagesAre DEF ChangeTo, IInv, TypeOK, Writers
  <2>3. QED BY <1>2, <1>3, <2>1, <2>2 DEF IInv, TypeOK, ToDos
<1>7. Control' BY <1>2 DEF IInv, Control
<1>8. writing # "operation" BY DEF IInv, Writing
<1>9. writing # "nobody" => outbox'[writing] = outbox[writing]
  BY <1>5, <1>8 DEF ChangeTo, IInv, TypeOK
<1>10. Lines(wire)' /\ Writing' BY <1>9, StreamKept
<1>11. QED BY <1>6, <1>7, <1>10 DEF IInv

\* The handler answers: it holds no half-written message before it does.
LEMMA ReplyKeeps ==
    ASSUME IInv, handler # "replying", requests # <<>>, NEW m \in Messages, m # Nothing, Reply(m),
           lock' = "free" \/ (lock' = lock /\ lock # "handler"),
           socket = "up",
           UNCHANGED <<daemon, service, todo, watcher, subscribed, writing, countVars, wire, widgetVars>>
    PROVE  IInv'
<1> USE DEF Reply, countVars, widgetVars
<1>1. TypeOK'
  <2>1. requests' \in Seq(Asked) BY RequestSteps DEF IInv, TypeOK, Asked
  <2>2. outbox' \in [Writers -> Messages \union {Nothing}] BY DEF IInv, TypeOK, Writers
  <2>3. QED BY <2>1, <2>2 DEF IInv, TypeOK, Asked
<1>2. Control' BY DEF IInv, Control
<1>3. writing # "handler" BY DEF IInv, Writing
<1>4. writing # "nobody" => outbox'[writing] = outbox[writing]
  BY <1>3 DEF IInv, TypeOK
<1>5. Lines(wire)' /\ Writing' BY <1>3, <1>4, StreamKept
<1>6. QED BY <1>1, <1>2, <1>5 DEF IInv

\* An operation ends with an answer if the widget asked for it.
LEMMA FinishKeeps ==
    ASSUME IInv, Finish
    PROVE  IInv'
<1> USE DEF Finish
<1>1. CASE lock = "handler"
  <2>1. handler = "operating" /\ requests # <<>> /\ socket = "up"
    BY <1>1 DEF IInv, Control
  <2>2. PICK m : m = ResultOf(Head(requests)) OBVIOUS
  <2>3. m \in Messages /\ m # Nothing
    BY <2>2, MessagesAre, ServicesAre DEF ResultOf, IInv, TypeOK
  <2>4. Reply(m) BY <1>1, <2>2
  <2>5. QED BY <2>1, <2>3, <2>4, ReplyKeeps
<1>2. CASE lock # "handler"
  <2> USE DEF countVars, widgetVars
  <2>1. TypeOK' BY <1>2 DEF IInv, TypeOK
  <2>2. Control' BY <1>2 DEF IInv, Control
  <2>3. Lines(wire)' /\ Writing' BY <1>2, StreamKept
  <2>4. QED BY <2>1, <2>2, <2>3 DEF IInv
<1>3. QED BY <1>1, <1>2

\* The watcher's broadcast waits for its previous one.
LEMMA WatcherKeeps ==
    ASSUME IInv, Respawn \/ WatcherNotifies
    PROVE  IInv'
<1> USE DEF countVars, widgetVars, sendVars
<1>1. CASE Respawn
  <2>1. TypeOK' BY <1>1 DEF Respawn, IInv, TypeOK
  <2>2. Control' BY <1>1 DEF Respawn, IInv, Control
  <2>3. Lines(wire)' /\ Writing' BY <1>1, StreamKept DEF Respawn
  <2>4. QED BY <2>1, <2>2, <2>3 DEF IInv
<1>2. CASE WatcherNotifies
  <2> USE <1>2 DEF WatcherNotifies
  <2>1. outbox' \in [Writers -> Messages \union {Nothing}]
    BY MessagesAre DEF IInv, TypeOK, Writers
  <2>2. TypeOK' BY <2>1 DEF IInv, TypeOK
  <2>3. Control' BY DEF IInv, Control
  <2>4. writing # "watcher" BY DEF IInv, Writing
  <2>5. writing # "nobody" => outbox'[writing] = outbox[writing]
    BY <2>4 DEF IInv, TypeOK
  <2>6. Lines(wire)' /\ Writing' BY <2>5, StreamKept
  <2>7. QED BY <2>2, <2>3, <2>6 DEF IInv
<1>3. QED BY <1>1, <1>2

\* Requests answered at once.
LEMMA AnswerKeeps ==
    ASSUME IInv, AnswerStatus \/ AnswerQr \/ HandlerRefuses
    PROVE  IInv'
<1> USE DEF daemonVars
<1>1. handler = "read" /\ requests # <<>> /\ lock = "free" /\ socket = "up"
  BY DEF AnswerStatus, AnswerQr, HandlerRefuses, Handles, IInv, Control
<1>2. service \in Services BY DEF IInv, TypeOK
<1>3. CASE AnswerStatus
  BY <1>1, <1>2, <1>3, MessagesAre, ReplyKeeps DEF AnswerStatus
<1>4. CASE AnswerQr
  <2>1. PICK k \in {"qr", "error"} : Reply(Message(k, service)) BY <1>4 DEF AnswerQr
  <2>2. Message(k, service) \in Messages /\ Message(k, service) # Nothing BY <1>2, MessagesAre
  <2>3. QED BY <1>1, <1>4, <2>1, <2>2, ReplyKeeps DEF AnswerQr
<1>5. CASE HandlerRefuses
  BY <1>1, <1>5, MessagesAre, ServicesAre, ReplyKeeps DEF HandlerRefuses
<1>6. QED BY <1>3, <1>4, <1>5

\* A subscription: the status is taken before the connection is added.
LEMMA SubscribeKeeps ==
    ASSUME IInv, AnswerSubscribe \/ AddSubscriber
    PROVE  IInv'
<1> USE DEF daemonVars, countVars, widgetVars
<1>1. CASE AnswerSubscribe
  <2> USE <1>1 DEF AnswerSubscribe
  <2>1. handler = "read" /\ requests # <<>> BY DEF Handles
  <2>2. outbox' \in [Writers -> Messages \union {Nothing}]
    BY MessagesAre DEF IInv, TypeOK, Writers
  <2>3. TypeOK' BY <2>2 DEF IInv, TypeOK
  <2>4. Control' BY <2>1 DEF IInv, Control
  <2>5. writing # "handler" BY <2>1 DEF IInv, Writing
  <2>6. writing # "nobody" => outbox'[writing] = outbox[writing]
    BY <2>5 DEF IInv, TypeOK
  <2>7. Lines(wire)' /\ Writing' BY <2>5, <2>6, StreamKept
  <2>8. QED BY <2>3, <2>4, <2>7 DEF IInv
<1>2. CASE AddSubscriber
  <2> USE <1>2 DEF AddSubscriber
  <2>1. requests' \in Seq(Asked) BY RequestSteps DEF IInv, TypeOK, Control, Asked
  <2>2. TypeOK' BY <2>1 DEF IInv, TypeOK, Asked
  <2>3. Control' BY DEF IInv, Control
  <2>4. writing # "handler" BY DEF IInv, Writing
  <2>5. Lines(wire)' /\ Writing'
    <3>1. Lines(wire)' BY DEF IInv, Lines
    <3>2. Writing' BY <2>4 DEF IInv, Writing, Complete
    <3>3. QED BY <3>1, <3>2
  <2>6. QED BY <2>2, <2>3, <2>5 DEF IInv
<1>3. QED BY <1>1, <1>2

\* A write puts one half on the wire: the first under a free write lock, the
\* second by the lock's holder.
LEMMA WriteKeeps ==
    ASSUME IInv, NEW w \in Writers, Writes(w)
    PROVE  IInv'
<1> USE DEF daemonVars, countVars, widgetVars
<1>1. /\ wire \in Seq(Halves) /\ Lines(wire) /\ Len(wire) <= Buffer /\ Len(wire) \in Nat
      /\ outbox[w] \in Messages \union {Nothing}
      /\ Buffer \in Nat
  BY DEF IInv, TypeOK, Halves, FeedAssumption
<1>2. CASE BeginWrite(w)
  <2> USE <1>2 DEF BeginWrite
  <2> DEFINE h == [half |-> 1, msg |-> outbox[w]]
  <2>1. h \in Halves /\ h.half = 1 /\ h.msg = outbox[w] BY <1>1, Sendable DEF HasMessage
  <2>2. Complete(wire) BY DEF IInv, Writing
  <2>3. wire' = Append(wire, h) /\ Len(wire) < Buffer BY DEF Put
  <2> HIDE DEF h
  <2>4. /\ wire' \in Seq(Halves) /\ Len(wire') = Len(wire) + 1
        /\ Lines(wire') /\ ~Complete(wire') /\ wire'[Len(wire')] = h
    BY <1>1, <2>1, <2>2, <2>3, FirstHalf
  <2>5. Len(wire') <= Buffer BY <1>1, <2>3, <2>4
  <2>6. TypeOK' BY <2>4, <2>5 DEF IInv, TypeOK, Halves
  <2>7. Control' BY DEF IInv, Control
  <2>8. Writing'
    <3>1. writing' = w /\ w # "nobody" /\ outbox'[w] = outbox[w] /\ outbox'[w] # Nothing
      BY DEF HasMessage, Writers
    <3>2. ~Complete(wire)' /\ wire'[Len(wire')].msg = outbox'[w] BY <2>1, <2>4, <3>1 DEF Complete
    <3>3. w = "handler" => handler' = "replying" BY DEF HasMessage
    <3>4. w # "handler" => subscribed' OBVIOUS
    <3>5. QED BY <3>1, <3>2, <3>3, <3>4 DEF Writing
  <2>9. QED BY <2>4, <2>6, <2>7, <2>8 DEF IInv, Lines
<1>3. CASE EndWrite(w)
  <2> USE <1>3 DEF EndWrite
  <2> DEFINE h == [half |-> 2, msg |-> outbox[w]]
  <2>1. h \in Halves /\ h.half = 2 /\ h.msg = outbox[w] BY <1>1, Sendable
  <2>2. ~Complete(wire) /\ wire[Len(wire)].msg = outbox[w] /\ (w = "handler" => handler = "replying")
    BY DEF IInv, Writing, Writers
  <2>3. wire' = Append(wire, h) /\ Len(wire) < Buffer BY DEF Put
  <2> HIDE DEF h
  <2>4. /\ wire' \in Seq(Halves) /\ Len(wire') = Len(wire) + 1
        /\ Lines(wire') /\ Complete(wire')
    BY <1>1, <2>1, <2>2, <2>3, SecondHalf
  <2>5. Len(wire') <= Buffer BY <1>1, <2>3, <2>4
  <2>6. /\ outbox' \in [Writers -> Messages \union {Nothing}]
        /\ handler' \in {"read", "adding", "operating", "replying"}
    BY DEF Written, IInv, TypeOK
  <2>7. TypeOK' BY <2>4, <2>5, <2>6 DEF IInv, TypeOK, Halves
  <2>8. Control' BY <2>2 DEF Written, IInv, Control
  <2>9. Writing' BY <2>4 DEF Writing, Complete
  <2>10. QED BY <2>4, <2>7, <2>8, <2>9 DEF IInv, Lines
<1>4. CASE NobodyListens(w)
  <2> USE <1>4 DEF NobodyListens
  <2>1. handler' = handler /\ outbox' \in [Writers -> Messages \union {Nothing}]
    BY DEF Written, IInv, TypeOK
  <2>2. TypeOK' BY <2>1 DEF IInv, TypeOK
  <2>3. Control' BY <2>1 DEF IInv, Control
  <2>4. writing # w BY DEF IInv, Writing, Writers
  <2>5. writing # "nobody" => outbox'[writing] = outbox[writing]
    BY <2>4 DEF Written, IInv, TypeOK
  <2>6. Lines(wire)' /\ Writing' BY <2>1, <2>5, StreamKept
  <2>7. QED BY <2>2, <2>3, <2>6 DEF IInv
<1>5. QED BY <1>2, <1>3, <1>4 DEF Writes

\* ApplyStatus only queues a request and remembers whose QR code it asked for.
LEMMA ApplyStatusIs ==
    ASSUME TypeOK, NEW t \in Services, ApplyStatus(t)
    PROVE  /\ shown' \in Services /\ qr' \in 0..MaxStarts /\ qrFor' \in 0..(MaxStarts + 1)
           /\ requests' \in Seq(Asked) /\ (requests # <<>> => requests' # <<>>)
<1>1. MaxStarts \in Nat /\ 0 \in 0..MaxStarts /\ 0 \in 0..(MaxStarts + 1)
  BY DEF FeedAssumption
<1>2. t.out \in 0..(MaxStarts + 1) BY DEF Services
<1>3. requests \in Seq(Asked) /\ "get_qr" \in Asked BY DEF TypeOK, Asked
<1>4. Append(requests, "get_qr") \in Seq(Asked) /\ Append(requests, "get_qr") # <<>>
  BY <1>3, RequestSteps
<1>5. QED BY <1>1, <1>2, <1>3, <1>4 DEF ApplyStatus, TypeOK

\* The widget takes the first line and leaves the rest of the stream as it was.
LEMMA ReceiveKeeps ==
    ASSUME IInv, Receive
    PROVE  IInv'
<1> USE DEF daemonVars, sendVars, countVars
<1>1. PICK end \in DOMAIN wire :
        /\ socket = "up" /\ FirstEnd(end)
        /\ wire' = SubSeq(wire, end + 1, Len(wire))
        /\ \/ wire[end].msg.kind = "status" /\ ApplyStatus(wire[end].msg.body)
           \/ wire[end].msg.kind = "qr" /\ qr' = wire[end].msg.body.session
              /\ UNCHANGED <<shown, qrFor, requests>>
           \/ UNCHANGED <<shown, qr, qrFor, requests>>
        /\ UNCHANGED <<daemonVars, sendVars, countVars, socket>>
  BY DEF Receive
<1>2. wire \in Seq(Halves) /\ Lines(wire) /\ Len(wire) <= Buffer /\ Len(wire) \in Nat /\ Buffer \in Nat
  BY DEF IInv, TypeOK, Halves, FeedAssumption
<1>3. wire[end].half = 2 /\ \A j \in 1..(end - 1) : wire[j].half = 1 BY <1>1 DEF FirstEnd
<1>4. /\ end = 2 /\ wire[2] \in Halves
      /\ SubSeq(wire, 3, Len(wire)) \in Seq(Halves) /\ Len(SubSeq(wire, 3, Len(wire))) <= Len(wire)
      /\ Lines(SubSeq(wire, 3, Len(wire)))
      /\ Complete(SubSeq(wire, 3, Len(wire))) <=> Complete(wire)
      /\ ~Complete(wire) =>
            SubSeq(wire, 3, Len(wire))[Len(SubSeq(wire, 3, Len(wire)))] = wire[Len(wire)]
  BY <1>2, <1>3, LineTaken
<1>5. wire' = SubSeq(wire, 3, Len(wire)) BY <1>1, <1>4
<1>6. /\ wire' \in Seq(Halves) /\ Lines(wire') /\ Len(wire') <= Len(wire)
      /\ Complete(wire') <=> Complete(wire)
      /\ ~Complete(wire) => wire'[Len(wire')] = wire[Len(wire)]
  BY <1>4, <1>5
<1>7. wire[end].msg.body \in Services /\ wire[end].msg.body.session \in 0..MaxStarts
  BY <1>4 DEF Halves, Messages, Services
<1>8. /\ shown' \in Services /\ qr' \in 0..MaxStarts /\ qrFor' \in 0..(MaxStarts + 1)
      /\ requests' \in Seq(Asked) /\ (requests # <<>> => requests' # <<>>)
  <2>1. CASE ApplyStatus(wire[end].msg.body) BY <2>1, <1>7, ApplyStatusIs DEF IInv
  <2>2. CASE qr' = wire[end].msg.body.session /\ UNCHANGED <<shown, qrFor, requests>>
    BY <2>2, <1>7 DEF IInv, TypeOK, Asked
  <2>3. CASE UNCHANGED <<shown, qr, qrFor, requests>> BY <2>3 DEF IInv, TypeOK, Asked
  <2>4. QED BY <1>1, <2>1, <2>2, <2>3
<1>9. Len(wire') <= Buffer
  <2>1. Len(wire') \in Nat BY <1>6
  <2>2. QED BY <1>2, <1>6, <2>1
<1>10. TypeOK' BY <1>1, <1>6, <1>8, <1>9 DEF IInv, TypeOK, Halves, Asked
<1>11. Control' BY <1>1, <1>8 DEF IInv, Control
<1>12. Writing'
  <2>1. Complete(wire)' <=> Complete(wire) BY <1>6 DEF Complete
  <2>2. ~Complete(wire) => wire'[Len(wire')].msg = wire[Len(wire)].msg BY <1>6
  <2>3. QED BY <1>1, <2>1, <2>2 DEF IInv, Writing
<1>13. QED BY <1>6, <1>10, <1>11, <1>12 DEF IInv, Lines

\* The user and the timer queue requests.
LEMMA QueueKeeps ==
    ASSUME IInv, Poll \/ \E op \in Clicks : Click(op)
    PROVE  IInv'
<1> USE DEF daemonVars, sendVars, countVars, widgetVars
<1>1. PICK q \in Asked : /\ socket = "up" /\ requests' = Append(requests, q)
                         /\ UNCHANGED <<daemonVars, sendVars, countVars, wire, widgetVars>>
  BY DEF Poll, Click, Asked, FeedAssumption
<1>2. requests' \in Seq(Asked) /\ requests' # <<>>
  BY <1>1, RequestSteps DEF IInv, TypeOK, Asked
<1>3. TypeOK' BY <1>1, <1>2 DEF IInv, TypeOK, Asked
<1>4. Control' BY <1>1, <1>2 DEF IInv, Control
<1>5. Lines(wire)' /\ Writing' BY <1>1, StreamKept
<1>6. QED BY <1>3, <1>4, <1>5 DEF IInv

\* Without a connection there is nothing to queue, write or handle.
LEMMA ConnectionKeeps ==
    ASSUME IInv, DropSocket \/ Reconnect \/ \E from \in {"failed", "off"} : DaemonListens(from)
    PROVE  IInv'
<1> USE DEF daemonVars, sendVars, countVars, widgetVars
<1>1. requests' \in Seq(Asked)
  <2>1. requests \in Seq(Asked) BY DEF IInv, TypeOK, Asked
  <2>2. <<>> \in Seq(Asked) /\ <<"subscribe">> \in Seq(Asked)
    <3>1. "subscribe" \in Asked BY DEF Asked
    <3>2. QED BY <3>1
  <2>3. requests' \in {requests, <<>>, <<"subscribe">>}
    BY DEF DropSocket, Reconnect, DaemonListens, Connect
  <2>4. QED BY <2>1, <2>2, <2>3
<1>2. TypeOK'
  <2>1. /\ daemon' \in {"up", "failed", "off"} /\ socket' \in {"up", "down", "absent"}
        /\ UNCHANGED <<service, lock, todo, watcher, handler, subscribed, outbox, writing,
                       starts, respawns, losses, wire, shown, qr, qrFor>>
    BY DEF DropSocket, Reconnect, DaemonListens, Connect, IInv, TypeOK
  <2>2. QED BY <1>1, <2>1 DEF IInv, TypeOK, Asked
<1>3. Control' BY DEF DropSocket, Reconnect, DaemonListens, Connect, IInv, Control
<1>4. Lines(wire)' /\ Writing' BY StreamKept DEF DropSocket, Reconnect, DaemonListens
<1>5. QED BY <1>2, <1>3, <1>4 DEF IInv

\* A connection that ends: the operation of its handler goes on as anybody's.
LEMMA EndedKeeps ==
    ASSUME IInv, ConnectionEnds
    PROVE  IInv'
<1> USE DEF ConnectionEnds, ConnectionCloses
<1>1. Lines(wire)' /\ Writing' /\ wire' \in Seq(Halves) /\ Len(wire') = 0 BY StreamClosed
<1>2. outbox' \in [Writers -> Messages \union {Nothing}] BY DEF IInv, TypeOK
<1>3. requests' \in Seq(Asked) /\ shown' \in Services
  BY ServicesAre DEF IInv, TypeOK
<1>4. 0 <= Buffer /\ losses' \in 0..MaxLosses
  <2>1. losses \in 0..MaxLosses /\ losses < MaxLosses /\ losses' = losses + 1 BY DEF IInv, TypeOK
  <2>2. MaxLosses \in Nat /\ Buffer \in Nat BY DEF FeedAssumption
  <2>3. QED BY <2>1, <2>2
<1>5. TypeOK' BY <1>1, <1>2, <1>3, <1>4 DEF IInv, TypeOK, Halves, Asked
<1>6. Control' BY DEF IInv, Control
<1>7. QED BY <1>1, <1>5, <1>6 DEF IInv

\* The daemon's end takes the connection with it.
LEMMA DaemonEndsKeeps ==
    ASSUME IInv, DaemonEnds
    PROVE  IInv'
<1> USE DEF DaemonEnds
<1>1. Lines(wire)' /\ Writing' /\ wire' \in Seq(Halves) /\ Len(wire') = 0 BY StreamClosed
<1>2. outbox' \in [Writers -> Messages \union {Nothing}] OBVIOUS
<1>3. requests' \in Seq(Asked) /\ shown' \in Services /\ service' \in Services
  BY ServicesAre DEF IInv, TypeOK
<1>4. 0 <= Buffer /\ losses' \in 0..MaxLosses
  <2>1. losses \in 0..MaxLosses /\ losses < MaxLosses /\ losses' = losses + 1 BY DEF IInv, TypeOK
  <2>2. MaxLosses \in Nat /\ Buffer \in Nat BY DEF FeedAssumption
  <2>3. QED BY <2>1, <2>2
<1>5. socket' \in {"up", "down", "absent"} BY DEF IInv, TypeOK
<1>6. TypeOK' BY <1>1, <1>2, <1>3, <1>4, <1>5 DEF IInv, TypeOK, Halves, Asked
<1>7. Control'
  <2>1. <<>> # <<"up">> /\ <<>> # <<"down", "up">> OBVIOUS
  <2>2. QED BY <2>1 DEF Control
<1>8. QED BY <1>1, <1>6, <1>7 DEF IInv

\* A stuttering step.
LEMMA StutterKeeps ==
    ASSUME IInv, UNCHANGED vars
    PROVE  IInv'
<1> USE DEF vars
<1>1. TypeOK' BY DEF IInv, TypeOK
<1>2. Control' BY DEF IInv, Control
<1>3. Lines(wire)' /\ Writing' BY StreamKept
<1>4. QED BY <1>1, <1>2, <1>3 DEF IInv

\* Every step preserves the invariant.
LEMMA NextIInv == IInv /\ [Next]_vars => IInv'
<1> SUFFICES ASSUME IInv, [Next]_vars PROVE IInv' OBVIOUS
<1>1. CASE HandlerSteps
  BY <1>1, AnswerKeeps, SubscribeKeeps, HandlerOperatesKeeps DEF HandlerSteps
<1>2. CASE OperationSteps BY <1>2, PerformKeeps, FinishKeeps DEF OperationSteps
<1>3. CASE Receive BY <1>3, ReceiveKeeps
<1>4. CASE Watchdog BY <1>4, QueueKeeps, ConnectionKeeps DEF Watchdog
<1>5. CASE ConnectionEnds BY <1>5, EndedKeeps
<1>6. CASE \E w \in Writers : Writes(w) BY <1>6, WriteKeeps
<1>7. CASE \E op \in ClientOps \union Clicks : ClientOperates(op) BY <1>7, ClientOperatesKeeps
<1>8. CASE \E op \in Clicks : Click(op) BY <1>8, QueueKeeps
<1>9. CASE Respawn \/ WatcherNotifies BY <1>9, WatcherKeeps
<1>10. CASE DaemonEnds BY <1>10, DaemonEndsKeeps
<1>11. CASE DaemonListens("failed") \/ DaemonListens("off") BY <1>11, ConnectionKeeps
<1>12. CASE UNCHANGED vars BY <1>12, StutterKeeps
<1>13. QED
  BY <1>1, <1>2, <1>3, <1>4, <1>5, <1>6, <1>7, <1>8, <1>9, <1>10, <1>11, <1>12 DEF Next

\* The inductive invariant holds in every reachable state.
LEMMA FeedInductive == Spec => []IInv
BY InitIInv, NextIInv, PTL DEF Spec

--------------------------------------------------------------------------------
(* The theorems. *)

\* Types, and the wire never holds more than the socket's buffer, for every
\* buffer and every bound.
THEOREM FeedTypeCorrect == Spec => []TypeOK
<1>1. IInv => TypeOK BY DEF IInv
<1>2. QED BY <1>1, FeedInductive, PTL

\* Handler, operation and watcher write on one stream, connections close half
\* way through a message, and still what the widget reads are whole messages:
\* the lock of IPCServer's connections frames the stream, whatever the size of
\* the socket's buffer and however many operations, respawns and ends there are.
THEOREM LinesStayWhole == Spec => []WholeLines
<1>1. IInv => WholeLines BY DEF IInv, Lines, WholeLines
<1>2. QED BY <1>1, FeedInductive, PTL

--------------------------------------------------------------------------------
(* Nobody waits for ever for a thread that waits for it. *)

\* The handler's control point agrees with the Service's lock and its message,
\* and only a connection that stands has subscribed or is written on.
Threads ==
    /\ handler = "operating" => lock = "handler"
    /\ handler \in {"adding", "replying"} => outbox["handler"] # Nothing
    /\ subscribed \/ Len(wire) # 0 => socket = "up"

\* A step that moves neither the handler, the lock nor the connection.
LEMMA ThreadsAlone ==
    ASSUME Threads, outbox'["handler"] = outbox["handler"],
           UNCHANGED <<handler, lock, subscribed, socket>>,
           UNCHANGED wire \/ socket = "up"
    PROVE  Threads'
BY DEF Threads

\* The steps of the operation that holds the lock, and of the watcher.
LEMMA OperationThreads ==
    ASSUME IInv, Threads, OperationSteps \/ Respawn \/ WatcherNotifies
    PROVE  Threads'
<1> USE DEF sendVars, countVars, widgetVars
<1>1. CASE Perform
  <2>1. outbox'["handler"] = outbox["handler"]
    BY <1>1 DEF Perform, ChangeTo, IInv, TypeOK, Writers
  <2>2. QED BY <1>1, <2>1, ThreadsAlone DEF Perform
<1>2. CASE Finish /\ lock = "handler"
  <2>1. PICK m : m = ResultOf(Head(requests)) /\ Reply(m) BY <1>2 DEF Finish
  <2>2. m # Nothing
    BY <2>1, MessagesAre, ServicesAre DEF ResultOf, IInv, TypeOK
  <2>3. QED BY <1>2, <2>1, <2>2 DEF Finish, Reply, Threads, IInv, TypeOK, Writers
<1>3. CASE Finish /\ lock # "handler"
  BY <1>3 DEF Finish, Threads
<1>4. CASE Respawn
  BY <1>4, ThreadsAlone DEF Respawn
<1>5. CASE WatcherNotifies
  <2>1. outbox'["handler"] = outbox["handler"]
    BY <1>5 DEF WatcherNotifies, IInv, TypeOK, Writers
  <2>2. QED BY <1>5, <2>1, ThreadsAlone DEF WatcherNotifies
<1>6. QED BY <1>1, <1>2, <1>3, <1>4, <1>5 DEF OperationSteps

\* The handler answers only with a message, and begins an operation only with
\* the lock.
LEMMA HandlerThreads ==
    ASSUME IInv, Threads, HandlerSteps
    PROVE  Threads'
<1> USE DEF daemonVars, sendVars, countVars, widgetVars
<1>1. service \in Services BY DEF IInv, TypeOK
<1>2. ASSUME NEW m \in Messages, m # Nothing, Reply(m), 
             UNCHANGED <<subscribed, wire, socket>>, lock' = lock
      PROVE  Threads'
  BY <1>2 DEF Reply, Threads, IInv, TypeOK, Writers
<1>3. CASE AnswerStatus
  BY <1>1, <1>2, <1>3, MessagesAre DEF AnswerStatus
<1>4. CASE AnswerQr
  <2>1. PICK k \in {"qr", "error"} : Reply(Message(k, service)) BY <1>4 DEF AnswerQr
  <2>2. Message(k, service) \in Messages /\ Message(k, service) # Nothing BY <1>1, MessagesAre
  <2>3. QED BY <1>2, <1>4, <2>1, <2>2 DEF AnswerQr
<1>5. CASE HandlerRefuses
  BY <1>2, <1>5, MessagesAre, ServicesAre DEF HandlerRefuses
<1>6. CASE AnswerSubscribe
  <2>1. Message("status", service) # Nothing BY <1>1, MessagesAre
  <2>2. QED BY <1>6, <2>1 DEF AnswerSubscribe, Threads, IInv, TypeOK, Writers
<1>7. CASE AddSubscriber
  BY <1>7 DEF AddSubscriber, Threads, IInv, Control
<1>8. ASSUME NEW op \in Clicks, HandlerOperates(op) PROVE Threads'
  BY <1>8 DEF HandlerOperates, TakeLock, Threads
<1>9. QED BY <1>3, <1>4, <1>5, <1>6, <1>7, <1>8 DEF HandlerSteps

\* A thread that has written its message is rid of it.
LEMMA WriteThreads ==
    ASSUME IInv, Threads, NEW w \in Writers, Writes(w)
    PROVE  Threads'
<1> USE DEF daemonVars, countVars, widgetVars
<1>1. HasMessage(w) /\ (w = "handler" \/ subscribed) => socket = "up"
  BY DEF HasMessage, Threads, IInv, Control
<1>2. CASE BeginWrite(w) BY <1>1, <1>2, ThreadsAlone DEF BeginWrite
<1>3. CASE EndWrite(w) /\ w = "handler"
  BY <1>3 DEF EndWrite, Written, Threads, IInv, Control, Writing
<1>4. CASE EndWrite(w) /\ w # "handler"
  <2>1. outbox'["handler"] = outbox["handler"]
    BY <1>4 DEF EndWrite, Written, IInv, TypeOK, Writers
  <2>2. socket = "up" BY <1>4 DEF EndWrite, IInv, Writing, Threads, Writers
  <2>3. QED BY <1>4, <2>1, <2>2, ThreadsAlone DEF EndWrite, Written
<1>5. CASE NobodyListens(w)
  <2>1. outbox'["handler"] = outbox["handler"]
    BY <1>5 DEF NobodyListens, Written, IInv, TypeOK, Writers
  <2>2. QED BY <1>5, <2>1, ThreadsAlone DEF NobodyListens, Written
<1>6. QED BY <1>2, <1>3, <1>4, <1>5 DEF Writes

\* A connection's end frees its handler and its subscription; the operation it
\* ran goes on as anybody's.
LEMMA ConnectionThreads ==
    ASSUME IInv, Threads, DropSocket \/ Reconnect \/ ConnectionEnds \/ DaemonEnds
    PROVE  Threads'
<1> USE DEF daemonVars, sendVars, countVars
<1>1. CASE DropSocket \/ Reconnect
  BY <1>1 DEF DropSocket, Reconnect, Connect, Threads
<1>2. CASE ConnectionEnds \/ DaemonEnds
  BY <1>2 DEF ConnectionEnds, DaemonEnds, ConnectionCloses, Threads
<1>3. QED BY <1>1, <1>2

LEMMA NextThreads == IInv /\ Threads /\ [Next]_vars => Threads'
<1> SUFFICES ASSUME IInv, Threads, [Next]_vars PROVE Threads' OBVIOUS
<1> USE DEF daemonVars, sendVars, countVars, widgetVars
<1>1. CASE \E op \in ClientOps \union Clicks : ClientOperates(op)
  BY <1>1 DEF ClientOperates, TakeLock, Threads
<1>2. CASE Receive \/ Poll \/ \E op \in Clicks : Click(op)
  BY <1>2, ThreadsAlone DEF Receive, Poll, Click
<1>3. CASE DaemonListens("failed") \/ DaemonListens("off") \/ UNCHANGED vars
  BY <1>3, ThreadsAlone DEF DaemonListens, vars
<1>4. QED
  BY <1>1, <1>2, <1>3, OperationThreads, HandlerThreads, WriteThreads, ConnectionThreads
  DEF Next, Watchdog

\* A stream of whole messages that fills a buffer for two halves has a line end,
\* and its first one is the one a reader cuts at.
LEMMA FullBufferHasLine ==
    ASSUME wire \in Seq(Halves), Lines(wire), Len(wire) = Buffer
    PROVE  2 \in DOMAIN wire /\ FirstEnd(2)
<1>1. /\ Len(wire) >= 2 /\ DOMAIN wire = 1..Len(wire) /\ 1 \in 1..Len(wire) /\ 2 \in 1..Len(wire)
  BY LenProperties DEF FeedAssumption
<1>2. wire[1].half = 1 BY <1>1 DEF Lines
<1>3. wire[2].half = 2 
  <2>1. wire[2].half = IF wire[2 - 1].half = 2 THEN 1 ELSE 2 BY <1>1 DEF Lines
  <2>2. QED BY <1>2, <2>1
<1>4. \A j \in 1..(2 - 1) : j = 1 OBVIOUS
<1>5. QED BY <1>1, <1>2, <1>3, <1>4 DEF FirstEnd

\* Whoever holds the Service's lock or a connection's write lock can take its next
\* step, or waits for one who can and who does not wait for it: for every size of
\* the socket's buffer, and every mix of operations, respawns, broken connections and
\* deaths.
THEOREM FeedDeadlockFree == Spec => []NobodyStuck
<1>1. Init => Threads BY DEF Init, Threads
<1>2. ASSUME IInv, Threads PROVE NobodyStuck
  <2> USE <1>2 DEF IInv
  <2>1. Len(wire) = Buffer => socket = "up" /\ \E end \in DOMAIN wire : FirstEnd(end)
    <3> SUFFICES ASSUME Len(wire) = Buffer
                 PROVE  socket = "up" /\ \E end \in DOMAIN wire : FirstEnd(end)
      OBVIOUS
    <3>1. \E end \in DOMAIN wire : FirstEnd(end)
      BY FullBufferHasLine DEF TypeOK, Halves
    <3>2. Len(wire) # 0 BY DEF FeedAssumption
    <3>3. QED BY <3>1, <3>2 DEF Threads
  <2>2. writing # "nobody" => HasMessage(writing)
    BY DEF Writing, HasMessage
  <2>3. handler = "replying" => HasMessage("handler")
    BY DEF Threads, HasMessage
  <2>4. QED BY <2>1, <2>2, <2>3 DEF NobodyStuck, Threads, Control, Writing
<1>3. QED BY <1>1, <1>2, FeedInductive, NextThreads, PTL DEF Spec
================================================================================
