---------------------------- MODULE EventFeedProofs ----------------------------
(***************************************************************************)
(* EventFeed keeps its types, and dashboards show the truth, for every     *)
(* number of devices, approvals and dashboards and every queue size.       *)
(***************************************************************************)
EXTENDS EventFeed, TLAPS

\* The values a device has; a socket that is off has nothing queued.
DeviceValues == \A d \in Devices : table[d] \in {"online", "offline"}
OffIsEmpty   == \A b \in Dashboards : conn[b] = "off" => queue[b] = <<>>

\* What is to be told was written, and the latest of it is the truth; a denial
\* under way is of an approval that was asked for.
NotesAreTrue ==
  \A t \in untold : t.nr <= writes[t.of] /\ (t.nr = writes[t.of] => t.says = Truth(t.of))
ToldIsWritten == \A x \in Subjects : told[x] <= writes[x]
DenialsWereAsked == \A x \in ahead : writes[x] > 0

Core == NotesAreTrue /\ ToldIsWritten /\ DenialsWereAsked

Inv == TypeOK /\ DeviceValues /\ OffIsEmpty /\ Core /\ ShowsTheTruth

Notes == [of : Devices \cup Approvals, nr : 1..MaxWrites, says : Values]

-----------------------------------------------------------------------------
(* Types *)

LEMMA EmitTyped ==
  ASSUME TypeOK, NEW e \in Event, NEW late \in BOOLEAN, Emit(e, late)
  PROVE  /\ queue' \in [Dashboards -> Seq(Event)]
         /\ \A b \in Dashboards : Len(queue'[b]) <= QueueSize
         /\ blind' \in [Dashboards -> SUBSET Subjects]
<1>1. \A b \in Dashboards : /\ queue[b] \in Seq(Event) /\ Len(queue[b]) \in Nat
                            /\ Append(queue[b], e) \in Seq(Event)
                            /\ Len(Append(queue[b], e)) = Len(queue[b]) + 1
  BY DEF TypeOK
<1>2. queue' \in [Dashboards -> Seq(Event)]
  BY <1>1 DEF TypeOK, Emit
<1>3. \A b \in Dashboards : Len(queue'[b]) <= QueueSize
  BY <1>1, EventFeedAssumption DEF TypeOK, Emit, Heard, Full
<1>4. e.of \in Subjects
  BY DEF Event
<1>5. blind' \in [Dashboards -> SUBSET Subjects]
  BY <1>4 DEF TypeOK, Emit
<1> QED
  BY <1>2, <1>3, <1>5

LEMMA ChangeTyped ==
  ASSUME TypeOK, NEW x \in Subjects, NEW v \in Values, Change(x, v)
  PROVE  /\ table' \in [Subjects -> Values] /\ writes' \in [Subjects -> 0..MaxWrites]
         /\ table' = [table EXCEPT ![x] = v] /\ table'[x] = v
         /\ writes'[x] = writes[x] + 1 /\ writes'[x] \in 1..MaxWrites
         /\ \A y \in Subjects : y # x => table'[y] = table[y] /\ writes'[y] = writes[y]
         /\ x \in Devices \cup Approvals => Note(x, v) \in Notes
<1>1. writes[x] \in 0..MaxWrites /\ writes[x] < MaxWrites
  BY DEF TypeOK, Change
<1>2. writes[x] + 1 \in 0..MaxWrites /\ writes[x] + 1 \in 1..MaxWrites
  BY <1>1, EventFeedAssumption
<1> QED
  BY <1>2 DEF TypeOK, Change, Note, Notes

LEMMA TypeInit == Init => TypeOK
<1> SUFFICES ASSUME Init PROVE TypeOK
  OBVIOUS
<1>1. \A x \in Subjects : First(x) \in Values
  BY EventFeedAssumption DEF First, Subjects, Values
<1>2. \A b \in Dashboards : queue[b] = <<>> /\ Len(queue[b]) <= QueueSize
  BY EventFeedAssumption DEF Init
<1> QED
  BY <1>1, <1>2, EventFeedAssumption DEF Init, TypeOK

LEMMA TypeStep == TypeOK /\ [Next]_vars => TypeOK'
<1> SUFFICES ASSUME TypeOK, [Next]_vars PROVE TypeOK'
  OBVIOUS
<1> USE EventFeedAssumption
<1>1. ASSUME NEW x \in Subjects, NEW v \in Values, Write(x, v) PROVE TypeOK'
  <2>1. x \in Devices \cup Approvals
    BY <1>1 DEF Write, May
  <2> QED
    BY <1>1, <2>1, ChangeTyped DEF Write, TypeOK, Notes, collector, feed, sockets
<1>2. ASSUME NEW t \in untold, Tell(t) PROVE TypeOK'
  <2>1. t \in Notes /\ [of |-> t.of, says |-> t.says] \in Event /\ Overtaken(t) \in BOOLEAN
    BY DEF TypeOK, Notes, Event, Subjects, Overtaken
  <2>2. told' \in [Subjects -> 0..MaxWrites]
    <3> DEFINE n == IF Overtaken(t) THEN told[t.of] ELSE t.nr
    <3>1. told[t.of] \in 0..MaxWrites /\ t.nr \in 0..MaxWrites
      BY <2>1 DEF TypeOK, Notes, Subjects
    <3>2. n \in 0..MaxWrites
      BY <3>1
    <3>3. told' = [told EXCEPT ![t.of] = n]
      BY <1>2 DEF Tell
    <3> HIDE DEF n
    <3> QED
      BY <3>2, <3>3 DEF TypeOK
  <2>3. /\ queue' \in [Dashboards -> Seq(Event)]
        /\ \A b \in Dashboards : Len(queue'[b]) <= QueueSize
        /\ blind' \in [Dashboards -> SUBSET Subjects]
    BY <1>2, <2>1, EmitTyped DEF Tell
  <2> QED
    BY <1>2, <2>2, <2>3 DEF Tell, TypeOK, collector, sockets
<1>14. ASSUME NEW t \in untold, Cut(t) PROVE TypeOK'
  <2>1. t.of \in Devices /\ t.of \in Subjects /\ "offline" \in Values
    BY <1>14 DEF Cut, Subjects, Values
  <2>2. CASE t.nr < writes[t.of]
    BY <1>14, <2>2 DEF Cut, TypeOK, collector, feed, sockets
  <2>3. CASE ~(t.nr < writes[t.of])
    <3>1. Change(t.of, "offline") /\ untold' = (untold \ {t}) \cup {Note(t.of, "offline")}
      BY <1>14, <2>3 DEF Cut
    <3> QED
      BY <1>14, <2>1, <3>1, ChangeTyped DEF Cut, TypeOK, Notes, collector, feed, sockets
  <2> QED
    BY <2>2, <2>3
<1>15. ASSUME NEW x \in Subjects, Reopen(x) PROVE TypeOK'
  <2>1. "listed" \in Values /\ Change(x, "listed")
    BY <1>15 DEF Reopen, Values
  <2>2. told' \in [Subjects -> 0..MaxWrites]
    BY <1>15, <2>1, ChangeTyped DEF Reopen, TypeOK
  <2>3. blind' \in [Dashboards -> SUBSET Subjects]
    BY <1>15 DEF Reopen, TypeOK
  <2> QED
    BY <1>15, <2>1, <2>2, <2>3, ChangeTyped DEF Reopen, TypeOK, collector, sockets
<1>3. CASE Turn
  <2> DEFINE v == IF table[Hermes] = "quiet" THEN "busy" ELSE "quiet"
  <2>1. Hermes \in Subjects /\ v \in Values /\ Change(Hermes, v)
    BY <1>3 DEF Turn, Subjects, Values
  <2>2. table'[Hermes] = v
    BY <2>1, ChangeTyped
  <2> HIDE DEF v
  <2>3. [of |-> Hermes, says |-> table'[Hermes]] \in Event
    BY <2>1, <2>2 DEF Event
  <2>4. /\ queue' \in [Dashboards -> Seq(Event)]
        /\ \A b \in Dashboards : Len(queue'[b]) <= QueueSize
        /\ blind' \in [Dashboards -> SUBSET Subjects]
    BY <1>3, <2>3, EmitTyped DEF Turn
  <2>5. told' \in [Subjects -> 0..MaxWrites]
    BY <1>3, <2>1, ChangeTyped DEF Turn, TypeOK
  <2> QED
    BY <1>3, <2>1, <2>4, <2>5, ChangeTyped DEF Turn, TypeOK, collector, sockets
<1>4. CASE Poll
  BY <1>4 DEF Poll, TypeOK, core, feed, sockets
<1>12. ASSUME NEW x \in Subjects, Deny(x) PROVE TypeOK'
  <2>1. [of |-> x, says |-> "gone"] \in Event
    BY DEF Event, Values
  <2>2. /\ ahead' \subseteq Approvals /\ writes' \in [Subjects -> 0..MaxWrites]
        /\ told' \in [Subjects -> 0..MaxWrites]
    <3>1. writes' = [writes EXCEPT ![x] = writes[x] + 1] /\ writes[x] + 1 \in 0..MaxWrites
      BY <1>12 DEF Deny, TypeOK
    <3>2. told' = [told EXCEPT ![x] = writes[x] + 1]
      BY <1>12, <3>1 DEF Deny, TypeOK
    <3> QED
      BY <1>12, <3>1, <3>2 DEF Deny, TypeOK
  <2> QED
    BY <1>12, <2>1, <2>2, EmitTyped DEF Deny, TypeOK, collector, sockets
<1>13. ASSUME NEW x \in Subjects, WriteDenial(x) PROVE TypeOK'
  BY <1>13 DEF WriteDenial, TypeOK, Values, collector, feed, sockets
<1>5. CASE TellSample
  <2>1. sample \in Devices /\ [of |-> sample, says |-> "online"] \in Event
    BY <1>5 DEF TellSample, TypeOK, Event, Values, Subjects
  <2>2. (table[sample] = "offline") \in BOOLEAN
    OBVIOUS
  <2>3. /\ queue' \in [Dashboards -> Seq(Event)]
        /\ \A b \in Dashboards : Len(queue'[b]) <= QueueSize
        /\ blind' \in [Dashboards -> SUBSET Subjects]
    BY <1>5, <2>1, <2>2, EmitTyped DEF TellSample
  <2> QED
    BY <1>5, <2>3 DEF TellSample, TypeOK, core, sockets
<1>6. ASSUME NEW d \in Devices, Skip(d) \/ Sampled(d) PROVE TypeOK'
  BY <1>6 DEF Skip, Sampled, TypeOK, core, feed, sockets
<1>7. ASSUME NEW b \in Dashboards, Connect(b) PROVE TypeOK'
  BY <1>7 DEF Connect, TypeOK, core, collector
<1>8. ASSUME NEW b \in Dashboards, ReadDevices(b) \/ ReadApprovals(b) PROVE TypeOK'
  <2>1. conn' \in [Dashboards -> {"off", "devices", "approvals", "open"}]
    BY <1>8 DEF ReadDevices, ReadApprovals, TypeOK
  <2>2. ASSUME NEW S, Read(b, S) PROVE /\ base' \in [Dashboards -> [Subjects -> Values]]
                                       /\ blind' \in [Dashboards -> SUBSET Subjects]
    <3>1. [x \in Subjects |-> IF x \in S THEN table[x] ELSE base[b][x]] \in [Subjects -> Values]
      BY DEF TypeOK
    <3>2. base' = [base EXCEPT ![b] = [x \in Subjects |-> IF x \in S THEN table[x] ELSE base[b][x]]]
      BY <2>2 DEF Read, TypeOK
    <3>3. blind' \in [Dashboards -> SUBSET Subjects]
      <4>1. ahead \in SUBSET Subjects
        BY DEF TypeOK, Subjects
      <4>2. \A quiet : (blind[b] \ quiet) \cup (quiet \cap ahead) \in SUBSET Subjects
        BY <4>1 DEF TypeOK
      <4> QED
        BY <2>2, <4>2 DEF Read, TypeOK
    <3> QED
      BY <3>1, <3>2, <3>3 DEF TypeOK
  <2>3. UNCHANGED <<core, collector, queue, losses>>
    BY <1>8 DEF ReadDevices, ReadApprovals, Read
  <2> QED
    BY <1>8, <2>1, <2>2, <2>3 DEF ReadDevices, ReadApprovals, TypeOK, core, collector
<1>9. ASSUME NEW b \in Dashboards, Deliver(b) PROVE TypeOK'
  <2>1. /\ Head(queue[b]) \in Event /\ Tail(queue[b]) \in Seq(Event)
        /\ Len(Tail(queue[b])) <= QueueSize
    BY <1>9 DEF Deliver, TypeOK
  <2> QED
    BY <1>9, <2>1 DEF Deliver, TypeOK, Event, core, collector
<1>10. ASSUME NEW b \in Dashboards, Lose(b) PROVE TypeOK'
  <2>1. losses'[b] \in 0..MaxLosses
    BY <1>10 DEF Lose, TypeOK
  <2>2. <<>> \in Seq(Event) /\ Len(<<>>) <= QueueSize
    OBVIOUS
  <2> QED
    BY <1>10, <2>1, <2>2 DEF Lose, TypeOK, core, collector
<1>11. CASE UNCHANGED vars
  BY <1>11 DEF vars, core, collector, feed, sockets, TypeOK
<1> QED
  BY <1>1, <1>2, <1>3, <1>4, <1>5, <1>6, <1>7, <1>8, <1>9, <1>10, <1>11, <1>12, <1>13, <1>14, <1>15 DEF Next

\* Every variable keeps its type, for every value of the constants.
THEOREM FeedTyped == Spec => []TypeOK
BY TypeInit, TypeStep, PTL DEF Spec

-----------------------------------------------------------------------------
(* The truth *)

LEMMA InvInit == Init => Inv
<1> SUFFICES ASSUME Init PROVE Inv
  OBVIOUS
<1>1. TypeOK
  BY TypeInit
<1>2. DeviceValues /\ OffIsEmpty /\ Core
  <2>1. \A d \in Devices : d \in Subjects /\ First(d) = "offline"
    BY EventFeedAssumption DEF First, Subjects
  <2> QED
    BY <2>1 DEF Init, DeviceValues, OffIsEmpty, Core, NotesAreTrue, ToldIsWritten, DenialsWereAsked
<1>3. ShowsTheTruth
  BY DEF Init, ShowsTheTruth, Agrees, LastOf, About, Truth
<1> QED
  BY <1>1, <1>2, <1>3 DEF Inv

\* Only what is emitted about a subject changes what is known of it.
LEMMA EmitOther ==
  ASSUME TypeOK, NEW e \in Event, NEW late \in BOOLEAN, Emit(e, late), UNCHANGED sockets,
         NEW b \in Dashboards, NEW y \in Subjects, y # e.of, Truth(y)' = Truth(y),
         y \notin blind'[b], y \notin blind[b] => Agrees(b, y)
  PROVE  Agrees(b, y)'
<1>1. queue[b] \in Seq(Event)
  BY DEF TypeOK
<1>2. y \notin blind[b]
  BY DEF Emit, TypeOK
<1>3. CASE queue'[b] = queue[b]
  BY <1>2, <1>3 DEF Agrees, LastOf, About, HasRead, sockets
<1>4. CASE queue'[b] = Append(queue[b], e)
  <2>1. /\ DOMAIN queue'[b] = 1..(Len(queue[b]) + 1) /\ DOMAIN queue[b] = 1..Len(queue[b])
        /\ queue'[b][Len(queue[b]) + 1] = e
        /\ \A i \in 1..Len(queue[b]) : queue'[b][i] = queue[b][i]
    BY <1>1, <1>4
  <2>2. About(b, y)' = About(b, y)
    BY <1>1, <2>1 DEF About
  <2>3. \A i \in DOMAIN queue'[b] : LastOf(b, y, i)' => i \in DOMAIN queue[b] /\ LastOf(b, y, i)
    BY <2>2 DEF LastOf, About
  <2> QED
    BY <1>2, <2>1, <2>2, <2>3 DEF Agrees, HasRead, sockets
<1> QED
  BY <1>3, <1>4 DEF Emit

\* An event that gets through says what there is to know of its subject.
LEMMA EmitSelf ==
  ASSUME TypeOK, NEW e \in Event, NEW late \in BOOLEAN, Emit(e, late),
         NEW b \in Dashboards, e.of \notin blind'[b], e.says = Truth(e.of)'
  PROVE  Agrees(b, e.of)' /\ ~late
<1>0. e.of \in Subjects
  BY DEF Event
<1>1. queue[b] \in Seq(Event)
  BY DEF TypeOK
<1>2. queue'[b] = Append(queue[b], e) /\ ~late
  BY <1>0 DEF Emit, Heard, TypeOK
<1>3. /\ DOMAIN queue'[b] = 1..(Len(queue[b]) + 1)
      /\ queue'[b][Len(queue[b]) + 1] = e
  BY <1>1, <1>2
<1>4. Len(queue[b]) + 1 \in About(b, e.of)' /\ Len(queue[b]) \in Nat
  BY <1>1, <1>3 DEF About
<1>5. \A i \in DOMAIN queue'[b] : LastOf(b, e.of, i)' => i = Len(queue[b]) + 1
  BY <1>3, <1>4 DEF LastOf
<1> QED
  BY <1>2, <1>3, <1>4, <1>5 DEF Agrees

\* A step of the core that no dashboard hears of.
LEMMA Unheard ==
  ASSUME UNCHANGED feed, NEW b \in Dashboards, NEW x \in Subjects,
         Truth(x)' = Truth(x), x \notin blind[b] => Agrees(b, x)
  PROVE  x \notin blind'[b] => Agrees(b, x)'
BY DEF feed, sockets, Agrees, LastOf, About, HasRead

LEMMA TruthStep == Inv /\ [Next]_vars => ShowsTheTruth'
<1> SUFFICES ASSUME Inv, [Next]_vars, NEW b \in Dashboards, NEW y \in Subjects,
                    Settled(y)', y \notin blind'[b]
             PROVE  Agrees(b, y)'
  BY DEF ShowsTheTruth
<1> USE DEF Inv
<1>0. /\ Settled(y) /\ y \notin blind[b] => Agrees(b, y)
      /\ queue[b] \in Seq(Event)
  BY DEF ShowsTheTruth, TypeOK
<1>1. ASSUME NEW x \in Subjects, NEW v \in Values, Write(x, v) PROVE Agrees(b, y)'
  <2>1. Change(x, v) /\ UNCHANGED <<told, ahead, feed>>
    BY <1>1 DEF Write
  <2>2. y # x
    BY <2>1, ChangeTyped DEF Core, ToldIsWritten, Settled, TypeOK
  <2>3. Settled(y) /\ Truth(y)' = Truth(y)
    BY <2>1, <2>2, ChangeTyped DEF Settled, Truth
  <2> QED
    BY <1>0, <2>1, <2>3, Unheard
<1>2. ASSUME NEW t \in untold, Tell(t) PROVE Agrees(b, y)'
  <2>1. /\ t \in Notes /\ t.of \in Subjects /\ Overtaken(t) \in BOOLEAN
        /\ [of |-> t.of, says |-> t.says] \in Event
    BY DEF TypeOK, Notes, Event, Subjects, Overtaken
  <2>2. /\ UNCHANGED <<table, writes, ahead, sockets>> /\ Truth(y)' = Truth(y)
        /\ Emit([of |-> t.of, says |-> t.says], Overtaken(t))
    BY <1>2 DEF Tell, Truth
  <2>3. CASE y = t.of
    <3>1. ~Overtaken(t)
      BY <2>2, <2>3 DEF Emit, TypeOK
    <3>2. told'[y] = t.nr
      BY <1>2, <2>1, <2>3, <3>1 DEF Tell, TypeOK
    <3>3. t.says = Truth(y)
      BY <2>2, <2>3, <3>2 DEF Settled, Core, NotesAreTrue
    <3> QED
      BY <2>1, <2>2, <2>3, <3>3, EmitSelf
  <2>4. CASE y # t.of
    <3>1. Settled(y)
      BY <1>2, <2>2, <2>4 DEF Tell, Settled, TypeOK
    <3> QED
      BY <1>0, <2>1, <2>2, <2>4, <3>1, EmitOther
  <2> QED
    BY <2>3, <2>4
<1>13. ASSUME NEW t \in untold, Cut(t) PROVE Agrees(b, y)'
  <2>1. t.of \in Devices /\ t.of \in Subjects /\ "offline" \in Values /\ UNCHANGED <<told, ahead, feed>>
    BY <1>13 DEF Cut, Subjects, Values
  <2>2. CASE UNCHANGED <<table, writes>>
    <3>1. Settled(y) /\ Truth(y)' = Truth(y)
      BY <2>1, <2>2 DEF Settled, Truth
    <3> QED
      BY <1>0, <2>1, <3>1, Unheard
  <2>3. CASE Change(t.of, "offline")
    <3>1. y # t.of
      BY <2>1, <2>3, ChangeTyped DEF Core, ToldIsWritten, Settled, TypeOK
    <3>2. Settled(y) /\ Truth(y)' = Truth(y)
      BY <2>1, <2>3, <3>1, ChangeTyped DEF Settled, Truth
    <3> QED
      BY <1>0, <2>1, <3>2, Unheard
  <2> QED
    BY <1>13, <2>2, <2>3 DEF Cut
<1>14. ASSUME NEW x \in Subjects, Reopen(x) PROVE Agrees(b, y)'
  <2>1. "listed" \in Values /\ Change(x, "listed") /\ UNCHANGED <<ahead, sockets, queue>>
    BY <1>14 DEF Reopen, Values
  <2>2. y # x /\ y \notin blind[b]
    BY <1>14 DEF Reopen, TypeOK
  <2>3. Settled(y) /\ Truth(y)' = Truth(y)
    BY <1>14, <2>1, <2>2, ChangeTyped DEF Reopen, Settled, Truth, TypeOK
  <2> QED
    BY <1>0, <2>1, <2>2, <2>3 DEF Agrees, LastOf, About, HasRead, sockets
<1>3. CASE Turn
  <2> DEFINE v == IF table[Hermes] = "quiet" THEN "busy" ELSE "quiet"
  <2>1. Hermes \in Subjects /\ Hermes \notin ahead /\ v \in Values /\ Change(Hermes, v)
        /\ UNCHANGED <<ahead, sockets>>
    BY <1>3, EventFeedAssumption DEF Turn, TypeOK, Subjects, Values
  <2> HIDE DEF v
  <2>2. [of |-> Hermes, says |-> table'[Hermes]] \in Event
    BY <2>1, ChangeTyped DEF Event
  <2>3. Emit([of |-> Hermes, says |-> table'[Hermes]], FALSE)
    BY <1>3 DEF Turn
  <2>4. Truth(Hermes)' = table'[Hermes] /\ (y # Hermes => Truth(y)' = Truth(y))
    BY <2>1, ChangeTyped DEF Truth
  <2>5. CASE y = Hermes
    BY <2>2, <2>3, <2>4, <2>5, EmitSelf
  <2>6. CASE y # Hermes
    <3>1. Settled(y)
      BY <1>3, <2>1, <2>6, ChangeTyped DEF Turn, Settled, TypeOK
    <3> QED
      BY <1>0, <2>1, <2>2, <2>3, <2>4, <2>6, <3>1, EmitOther
  <2> QED
    BY <2>5, <2>6
<1>4. CASE Poll \/ \E d \in Devices : Skip(d) \/ Sampled(d)
  <2>1. UNCHANGED <<core, feed>>
    BY <1>4 DEF Poll, Skip, Sampled
  <2> QED
    BY <1>0, <2>1, Unheard DEF core, Truth, Settled
<1>5. CASE TellSample
  <2>1. PICK d \in Devices : d = sample
    BY <1>5 DEF TellSample, TypeOK
  <2>2. /\ UNCHANGED <<table, ahead, sockets>> /\ Truth(y)' = Truth(y) /\ Settled(y)
        /\ [of |-> d, says |-> "online"] \in Event
    BY <1>5, <2>1 DEF TellSample, core, Truth, Settled, Event, Values, Subjects
  <2>3. PICK late \in BOOLEAN : /\ late <=> table[d] = "offline"
                                /\ Emit([of |-> d, says |-> "online"], late)
    BY <1>5, <2>1 DEF TellSample
  <2>4. CASE y # d
    BY <1>0, <2>2, <2>3, <2>4, EmitOther
  <2>5. CASE y = d
    <3>1. ~late
      BY <2>3, <2>5 DEF Emit, TypeOK
    <3>2. table[d] = "online" /\ d \notin ahead
      BY <2>3, <3>1, EventFeedAssumption DEF DeviceValues, TypeOK
    <3>3. Truth(d)' = "online"
      BY <2>2, <3>2 DEF Truth
    <3> QED
      BY <2>2, <2>3, <2>5, <3>3, EmitSelf
  <2> QED
    BY <2>4, <2>5
<1>6. ASSUME NEW c \in Dashboards, Connect(c) PROVE Agrees(b, y)'
  <2>1. queue' = queue
    BY <1>6 DEF Connect, OffIsEmpty, TypeOK
  <2>2. HasRead(b, y)' => HasRead(b, y)
    BY <1>6 DEF Connect, HasRead, TypeOK
  <2> QED
    BY <1>0, <1>6, <2>1, <2>2 DEF Connect, Agrees, LastOf, About, Truth, Settled, core
<1>7. ASSUME NEW c \in Dashboards, ReadDevices(c) \/ ReadApprovals(c) PROVE Agrees(b, y)'
  <2>1. PICK S \in {Devices, Approvals} :
          /\ Read(c, S)
          /\ \A x \in Subjects \ S : HasRead(c, x)' => HasRead(c, x)
    BY <1>7, EventFeedAssumption DEF ReadDevices, ReadApprovals, HasRead, TypeOK, Subjects
  <2>2. /\ UNCHANGED <<table, ahead, queue>> /\ About(b, y)' = About(b, y)
        /\ Truth(y)' = Truth(y) /\ Settled(y)
    BY <2>1 DEF Read, core, About, Truth, Settled
  <2>3. CASE b # c
    <3>1. base'[b] = base[b] /\ blind'[b] = blind[b] /\ conn'[b] = conn[b]
      BY <1>7, <2>1, <2>3 DEF Read, ReadDevices, ReadApprovals, TypeOK
    <3> QED
      BY <1>0, <2>2, <3>1 DEF Agrees, LastOf, HasRead
  <2>4. CASE b = c /\ y \in S
    <3>1. base'[b][y] = table[y]
      BY <2>1, <2>4 DEF Read, TypeOK
    <3>2. y \notin blind[b] \/ About(b, y) = {}
      BY <2>1, <2>4 DEF Read, TypeOK
    <3>3. \A i \in DOMAIN queue[b] : LastOf(b, y, i) => queue[b][i].says = Truth(y)
      BY <1>0, <2>2, <3>2 DEF Agrees, LastOf
    <3>4. About(b, y) = {} => y \notin ahead
      BY <2>1, <2>4 DEF Read, TypeOK
    <3>5. About(b, y) = {} => Truth(y) = table[y]
      BY <3>4 DEF Truth
    <3> QED
      BY <2>2, <3>1, <3>3, <3>5 DEF Agrees, LastOf
  <2>5. CASE b = c /\ y \notin S
    <3>1. base'[b][y] = base[b][y] /\ y \notin blind[b]
      BY <2>1, <2>5 DEF Read, TypeOK
    <3> QED
      BY <1>0, <2>1, <2>2, <2>5, <3>1 DEF Agrees, LastOf
  <2> QED
    BY <2>3, <2>4, <2>5
<1>8. ASSUME NEW c \in Dashboards, Deliver(c) PROVE Agrees(b, y)'
  <2>1. UNCHANGED <<table, ahead, conn, blind>> /\ Agrees(b, y) /\ Truth(y)' = Truth(y)
    BY <1>0, <1>8 DEF Deliver, core, Truth, Settled
  <2>2. CASE b # c
    <3>1. queue'[b] = queue[b] /\ base'[b] = base[b]
      BY <1>8, <2>2 DEF Deliver, TypeOK
    <3> QED
      BY <2>1, <3>1 DEF Agrees, LastOf, About, HasRead
  <2>3. CASE b = c
    <3> DEFINE q == queue[b]
    <3>1. /\ q # <<>> /\ queue'[b] = Tail(q)
          /\ base'[b] = [base[b] EXCEPT ![Head(q).of] = Head(q).says]
      BY <1>8, <2>3 DEF Deliver, TypeOK
    <3>2. /\ DOMAIN q = 1..Len(q) /\ DOMAIN queue'[b] = 1..(Len(q) - 1)
          /\ Len(q) \in Nat /\ Len(q) > 0 /\ Head(q) = q[1]
          /\ \A i \in 1..(Len(q) - 1) : queue'[b][i] = q[i + 1]
      BY <1>0, <3>1
    <3>3. \A i \in 1..(Len(q) - 1) : i \in About(b, y)' <=> i + 1 \in About(b, y)
      BY <3>2 DEF About
    <3>4. \A j \in About(b, y) : j \in 1..Len(q) /\ (j = 1 \/ j - 1 \in About(b, y)')
      <4> SUFFICES ASSUME NEW j \in About(b, y), j # 1 PROVE j \in 1..Len(q) /\ j - 1 \in About(b, y)'
        BY <3>2 DEF About
      <4>1. j \in 1..Len(q)
        BY <3>2 DEF About
      <4>2. j - 1 \in 1..(Len(q) - 1) /\ (j - 1) + 1 = j
        BY <3>2, <4>1
      <4> QED
        BY <3>3, <4>1, <4>2
    <3>5. \A i \in DOMAIN queue'[b] : LastOf(b, y, i)' => LastOf(b, y, i + 1)
      <4> SUFFICES ASSUME NEW i \in 1..(Len(q) - 1), LastOf(b, y, i)'
                   PROVE  LastOf(b, y, i + 1)
        BY <3>2
      <4>1. i + 1 \in About(b, y) /\ \A k \in About(b, y)' : k <= i
        BY <3>3 DEF LastOf
      <4>2. \A j \in About(b, y) : j <= i + 1
        BY <3>2, <3>4, <4>1
      <4> QED
        BY <4>1, <4>2 DEF LastOf
    <3>6. \A i \in DOMAIN queue'[b] : LastOf(b, y, i)' => queue'[b][i].says = Truth(y)'
      BY <2>1, <3>2, <3>5, SMTT(60) DEF Agrees
    <3>7. CASE Head(q).of = y /\ About(b, y)' = {}
      <4>1. 1 \in About(b, y) /\ \A j \in About(b, y) : j = 1
        BY <3>2, <3>4, <3>7 DEF About
      <4>2. LastOf(b, y, 1)
        BY <4>1 DEF LastOf
      <4>3. q[1].says = Truth(y)
        BY <2>1, <3>2, <4>2 DEF Agrees
      <4>4. base'[b][y] = Truth(y)
        BY <3>1, <3>2, <3>7, <4>3 DEF TypeOK
      <4> QED
        BY <2>1, <3>6, <4>4 DEF Agrees
    <3>8. CASE Head(q).of # y
      <4>1. base'[b][y] = base[b][y]
        BY <3>1, <3>8 DEF TypeOK
      <4>2. About(b, y)' = {} => About(b, y) = {}
        <5>1. 1 \notin About(b, y)
          BY <3>2, <3>8 DEF About
        <5> QED
          BY <3>4, <5>1
      <4> QED
        BY <2>1, <3>6, <4>1, <4>2 DEF Agrees, HasRead
    <3>9. CASE About(b, y)' # {}
      BY <3>6, <3>9 DEF Agrees
    <3> QED
      BY <3>7, <3>8, <3>9
  <2> QED
    BY <2>2, <2>3
<1>9. ASSUME NEW c \in Dashboards, Lose(c) PROVE Agrees(b, y)'
  <2>1. UNCHANGED <<table, ahead, base>> /\ Truth(y)' = Truth(y) /\ Settled(y)
    BY <1>9 DEF Lose, core, Truth, Settled
  <2>2. CASE b # c
    <3>1. queue'[b] = queue[b] /\ conn'[b] = conn[b] /\ blind'[b] = blind[b]
      BY <1>9, <2>2 DEF Lose, TypeOK
    <3> QED
      BY <1>0, <2>1, <3>1 DEF Agrees, LastOf, About, HasRead
  <2>3. CASE b = c
    <3>1. /\ queue'[b] = <<>> /\ conn'[b] = "off"
          /\ y \notin blind[b] /\ About(b, y) = {}
      BY <1>9, <2>3 DEF Lose, TypeOK
    <3>2. HasRead(b, y)' => HasRead(b, y)
      BY <3>1 DEF HasRead
    <3> QED
      BY <1>0, <2>1, <3>1, <3>2 DEF Agrees, About
  <2> QED
    BY <2>2, <2>3
<1>10. CASE UNCHANGED vars
  BY <1>0, <1>10, Unheard DEF vars, core, Truth, Settled
<1>11. ASSUME NEW x \in Subjects, Deny(x) PROVE Agrees(b, y)'
  <2>1. [of |-> x, says |-> "gone"] \in Event
    BY DEF Event, Values
  <2>2. /\ UNCHANGED <<table, sockets>> /\ Emit([of |-> x, says |-> "gone"], FALSE)
        /\ Truth(x)' = "gone" /\ (y # x => Truth(y)' = Truth(y))
    BY <1>11 DEF Deny, Truth
  <2>3. CASE y = x
    BY <2>1, <2>2, <2>3, EmitSelf
  <2>4. CASE y # x
    <3>1. Settled(y)
      BY <1>11, <2>4 DEF Deny, Settled, TypeOK
    <3> QED
      BY <1>0, <2>1, <2>2, <2>4, <3>1, EmitOther
  <2> QED
    BY <2>3, <2>4
<1>12. ASSUME NEW x \in Subjects, WriteDenial(x) PROVE Agrees(b, y)'
  <2>1. Truth(y)' = Truth(y) /\ Settled(y)
    BY <1>12 DEF WriteDenial, Truth, Settled, TypeOK
  <2> QED
    BY <1>0, <1>12, <2>1, Unheard DEF WriteDenial
<1> QED
  BY <1>1, <1>2, <1>3, <1>4, <1>5, <1>6, <1>7, <1>8, <1>9, <1>10, <1>11, <1>12, <1>13, <1>14 DEF Next

LEMMA DeviceValuesStep == TypeOK /\ DeviceValues /\ [Next]_vars => DeviceValues'
<1> SUFFICES ASSUME TypeOK, DeviceValues, [Next]_vars, NEW d \in Devices
             PROVE  table'[d] \in {"online", "offline"}
  BY DEF DeviceValues
<1>0. d \in Subjects /\ d # Hermes /\ table[d] \in {"online", "offline"}
  BY EventFeedAssumption DEF Subjects, DeviceValues
<1>1. ASSUME NEW x \in Subjects, NEW v \in Values, Write(x, v)
      PROVE  table'[d] \in {"online", "offline"}
  BY <1>0, <1>1, EventFeedAssumption DEF Write, Change, May, TypeOK
<1>2. CASE Turn
  BY <1>0, <1>2 DEF Turn, Change, TypeOK
<1>5. ASSUME NEW t \in untold, Cut(t) PROVE table'[d] \in {"online", "offline"}
  BY <1>0, <1>5 DEF Cut, Change, TypeOK
<1>6. ASSUME NEW x \in Subjects, Reopen(x) PROVE table'[d] \in {"online", "offline"}
  BY <1>0, <1>6, EventFeedAssumption DEF Reopen, Change, TypeOK
<1>3. CASE UNCHANGED table
  BY <1>0, <1>3
<1>4. ASSUME NEW x \in Subjects, WriteDenial(x) PROVE table'[d] \in {"online", "offline"}
  BY <1>0, <1>4, EventFeedAssumption DEF WriteDenial, TypeOK
<1> QED
  BY <1>1, <1>2, <1>3, <1>4, <1>5, <1>6 DEF Next, Tell, Deny, Poll, TellSample, Skip, Sampled, Connect, ReadDevices,
                          ReadApprovals, Read, Deliver, Lose, core, vars

LEMMA OffIsEmptyStep == TypeOK /\ OffIsEmpty /\ [Next]_vars => OffIsEmpty'
<1> SUFFICES ASSUME TypeOK, OffIsEmpty, [Next]_vars, NEW b \in Dashboards, conn'[b] = "off"
             PROVE  queue'[b] = <<>>
  BY DEF OffIsEmpty
<1>1. ASSUME NEW e, NEW late, Emit(e, late), UNCHANGED sockets PROVE queue'[b] = <<>>
  BY <1>1 DEF Emit, Heard, OffIsEmpty, sockets
<1>2. ASSUME NEW c \in Dashboards, Lose(c) PROVE queue'[b] = <<>>
  BY <1>2 DEF Lose, OffIsEmpty, TypeOK
<1>3. ASSUME NEW c \in Dashboards,
             Connect(c) \/ ReadDevices(c) \/ ReadApprovals(c) \/ Deliver(c)
      PROVE  queue'[b] = <<>>
  BY <1>3 DEF Connect, ReadDevices, ReadApprovals, Read, Deliver, OffIsEmpty, TypeOK
<1>4. CASE UNCHANGED <<conn, queue>>
  BY <1>4 DEF OffIsEmpty
<1> QED
  BY <1>1, <1>2, <1>3, <1>4 DEF Next, Write, Tell, Cut, Deny, WriteDenial, Reopen, Turn, Poll, TellSample,
                                Skip, Sampled, feed, sockets, vars

LEMMA CoreStep == TypeOK /\ Core /\ [Next]_vars => Core'
<1> SUFFICES ASSUME TypeOK, Core, [Next]_vars PROVE Core'
  OBVIOUS
<1> USE DEF Core, NotesAreTrue, ToldIsWritten, DenialsWereAsked
<1>0. /\ untold \subseteq Notes /\ ahead \subseteq Approvals
      /\ \A x \in Subjects : writes[x] \in Nat /\ told[x] \in Nat
      /\ \A t \in untold : t.of \in Subjects /\ t.nr \in Nat
  BY EventFeedAssumption DEF TypeOK, Notes, Subjects
\* A write by which everything noted before is of earlier ones.
<1>1. ASSUME NEW x \in Subjects, NEW v \in Values, Change(x, v), UNCHANGED <<told, ahead>>,
             NEW n \in SUBSET untold, x \in Devices \cup Approvals,
             untold' = n \cup {Note(x, v)}, x \in ahead => v = "gone"
      PROVE  Core'
  <2>1. Note(x, v).of = x /\ Note(x, v).nr = writes'[x] /\ Note(x, v).says = v
    BY <1>1, ChangeTyped DEF Note
  <2>2. Truth(x)' = v /\ \A y \in Subjects : y # x => Truth(y)' = Truth(y)
    BY <1>1, ChangeTyped DEF Truth
  <2>3. NotesAreTrue'
    <3> SUFFICES ASSUME NEW t \in untold'
                 PROVE  t.nr <= writes'[t.of] /\ (t.nr = writes'[t.of] => t.says = Truth(t.of)')
      OBVIOUS
    <3>1. CASE t = Note(x, v)
      BY <1>0, <1>1, <2>1, <2>2, <3>1, ChangeTyped
    <3>2. CASE t \in untold /\ t.of = x
      BY <1>0, <1>1, <3>2, ChangeTyped
    <3>3. CASE t \in untold /\ t.of # x
      BY <1>0, <1>1, <2>2, <3>3, ChangeTyped
    <3> QED
      BY <1>1, <3>1, <3>2, <3>3
  <2>4. ahead \subseteq Subjects
    BY <1>0 DEF Subjects
  <2>5. ToldIsWritten'
    <3> SUFFICES ASSUME NEW y \in Subjects PROVE told'[y] <= writes'[y]
      OBVIOUS
    <3>1. y # x => writes'[y] = writes[y]
      BY <1>1, ChangeTyped
    <3>2. writes'[x] = writes[x] + 1
      BY <1>1, ChangeTyped
    <3> QED
      BY <1>0, <1>1, <3>1, <3>2
  <2>6. DenialsWereAsked'
    <3> SUFFICES ASSUME NEW y \in ahead PROVE writes'[y] > 0
      BY <1>1
    <3>1. y # x => writes'[y] = writes[y]
      BY <1>1, <2>4, ChangeTyped
    <3>2. writes'[x] = writes[x] + 1
      BY <1>1, ChangeTyped
    <3> QED
      BY <1>0, <2>4, <3>1, <3>2
  <2> QED
    BY <2>3, <2>5, <2>6
<1>2. ASSUME NEW x \in Subjects, NEW v \in Values, Write(x, v) PROVE Core'
  <2>1. x \in ahead => v = "gone"
    BY <1>0, <1>2, EventFeedAssumption DEF Write, May
  <2> QED
    BY <1>1, <1>2, <2>1 DEF Write, May
<1>3. ASSUME NEW t \in untold, Cut(t) PROVE Core'
  <2>1. t.of \in Devices /\ t.of \in Subjects /\ "offline" \in Values /\ t.of \notin ahead
        /\ UNCHANGED <<told, ahead>>
    BY <1>0, <1>3, EventFeedAssumption DEF Cut, Subjects, Values
  <2>2. CASE untold' = untold \ {t} /\ UNCHANGED <<table, writes>>
    BY <2>1, <2>2 DEF Truth
  <2>3. CASE Change(t.of, "offline") /\ untold' = (untold \ {t}) \cup {Note(t.of, "offline")}
    <3>1. untold \ {t} \in SUBSET untold
      OBVIOUS
    <3> QED
      BY <1>1, <2>1, <2>3, <3>1
  <2> QED
    BY <1>3, <2>2, <2>3 DEF Cut
<1>4. ASSUME NEW t \in untold, Tell(t) PROVE Core'
  <2>1. UNCHANGED <<table, writes, ahead>> /\ untold' = untold \ {t}
    BY <1>4 DEF Tell
  <2>2. \A x \in Subjects : told'[x] = told[x] \/ (x = t.of /\ told'[x] = t.nr)
    BY <1>0, <1>4 DEF Tell, TypeOK
  <2> QED
    BY <1>0, <2>1, <2>2 DEF Truth
\* A write that nobody tells of, or that was told of ahead.
<1>5. ASSUME NEW x \in Subjects, UNCHANGED untold,
             writes'[x] = writes[x] + 1, told'[x] = writes'[x],
             \A y \in Subjects : y # x => writes'[y] = writes[y] /\ told'[y] = told[y],
             \A y \in Subjects : y # x => Truth(y)' = Truth(y),
             ahead' = ahead \/ ahead' = ahead \cup {x}
      PROVE  Core'
  <2>1. NotesAreTrue'
    <3> SUFFICES ASSUME NEW t \in untold
                 PROVE  t.nr <= writes'[t.of] /\ (t.nr = writes'[t.of] => t.says = Truth(t.of)')
      BY <1>5
    <3>1. CASE t.of = x
      BY <1>0, <1>5, <3>1
    <3>2. CASE t.of # x
      BY <1>0, <1>5, <3>2
    <3> QED
      BY <3>1, <3>2
  <2>2. ToldIsWritten'
    BY <1>0, <1>5
  <2>3. DenialsWereAsked'
    <3>1. ahead \subseteq Subjects
      BY <1>0 DEF Subjects
    <3> QED
      BY <1>0, <1>5, <3>1
  <2> QED
    BY <2>1, <2>2, <2>3
<1>6. ASSUME NEW x \in Subjects, Deny(x) PROVE Core'
  <2>1. /\ writes'[x] = writes[x] + 1 /\ told'[x] = writes'[x] /\ UNCHANGED <<table, untold>>
        /\ \A y \in Subjects : y # x => writes'[y] = writes[y] /\ told'[y] = told[y]
        /\ ahead' = ahead \cup {x}
    BY <1>6 DEF Deny, TypeOK
  <2>2. \A y \in Subjects : y # x => Truth(y)' = Truth(y)
    BY <2>1 DEF Truth
  <2> QED
    BY <1>5, <2>1, <2>2
<1>7. ASSUME NEW x \in Subjects, Reopen(x) PROVE Core'
  <2>1. Change(x, "listed") /\ "listed" \in Values /\ UNCHANGED <<untold, ahead>>
    BY <1>7 DEF Reopen, Values
  <2>2. told'[x] = writes'[x] /\ \A y \in Subjects : y # x => told'[y] = told[y]
    BY <1>7 DEF Reopen, TypeOK
  <2>3. \A y \in Subjects : y # x => Truth(y)' = Truth(y)
    BY <2>1, ChangeTyped DEF Truth
  <2> QED
    BY <1>5, <2>1, <2>2, <2>3, ChangeTyped
<1>8. CASE Turn
  <2> DEFINE v == IF table[Hermes] = "quiet" THEN "busy" ELSE "quiet"
  <2>1. Hermes \in Subjects /\ v \in Values /\ Change(Hermes, v) /\ UNCHANGED <<untold, ahead>>
    BY <1>8 DEF Turn, Subjects, Values
  <2> HIDE DEF v
  <2>2. told'[Hermes] = writes'[Hermes] /\ \A y \in Subjects : y # Hermes => told'[y] = told[y]
    BY <1>8, <2>1 DEF Turn, TypeOK
  <2>3. \A y \in Subjects : y # Hermes => Truth(y)' = Truth(y)
    BY <2>1, ChangeTyped DEF Truth
  <2> QED
    BY <1>5, <2>1, <2>2, <2>3, ChangeTyped
<1>9. ASSUME NEW x \in Subjects, WriteDenial(x) PROVE Core'
  <2>1. \A y \in Subjects : Truth(y)' = Truth(y)
    BY <1>9 DEF WriteDenial, Truth, TypeOK
  <2>2. UNCHANGED <<writes, untold, told>> /\ ahead' \subseteq ahead
    BY <1>9 DEF WriteDenial
  <2> QED
    BY <1>0, <2>1, <2>2
<1>10. CASE UNCHANGED core
  BY <1>10 DEF core, Truth
<1> QED
  BY <1>2, <1>3, <1>4, <1>6, <1>7, <1>8, <1>9, <1>10
     DEF Next, Poll, TellSample, Skip, Sampled, Connect, ReadDevices, ReadApprovals, Read, Deliver, Lose, vars

\* A dashboard shows the truth of every subject that is told of and not among
\* the exceptions, for every number of subjects and dashboards, every size of
\* the queue and every interleaving of writes, events and reads.
THEOREM DashboardsShowTheTruth == Spec => []ShowsTheTruth
<1>1. Inv /\ [Next]_vars => Inv'
  BY TypeStep, TruthStep, DeviceValuesStep, OffIsEmptyStep, CoreStep DEF Inv
<1>2. Inv => ShowsTheTruth
  BY DEF Inv
<1> QED
  BY InvInit, <1>1, <1>2, PTL DEF Spec
=============================================================================
