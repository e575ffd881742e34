------------------------------- MODULE EventFeed -------------------------------
(***************************************************************************)
(* What a dashboard shows of the core: EventBus (bus.py), /ws/events with  *)
(* its snapshot and its bounded queue (app.py), the client that reconnects *)
(* (api.ts) and the reducer (store.ts); MetricsCollector (metrics.py) is   *)
(* the one that tells of devices from outside of the gateway.              *)
(*                                                                         *)
(* A subject is a thing a dashboard shows one value of: a paired device    *)
(* (online or offline), an approval (listed or gone), the turn of Hermes   *)
(* (busy or quiet).  An event says the new value of one subject.  Whoever  *)
(* writes a row tells of it afterwards, in a coroutine of its own: several *)
(* may be between the two, and the one that wrote first may tell last.     *)
(***************************************************************************)
EXTENDS Integers, Sequences

CONSTANTS
  Devices, Approvals, Hermes,   \* the subjects
  Dashboards,
  QueueSize,                    \* maxsize of a dashboard's queue
  MaxWrites,                    \* bound on the changes of a subject
  MaxPolls,                     \* bound on the polls of the collector
  MaxLosses,                    \* bound on the losses of a dashboard's socket
  None

Subjects == Devices \cup Approvals \cup {Hermes}

ASSUME EventFeedAssumption ==
  /\ Devices \cap Approvals = {} /\ Hermes \notin Devices \cup Approvals
  /\ None \notin Devices
  /\ QueueSize \in Nat /\ MaxWrites \in Nat /\ MaxPolls \in Nat /\ MaxLosses \in Nat

Values == {"online", "offline", "listed", "gone", "busy", "quiet"}
Event  == [of : Subjects, says : Values]

VARIABLES
  table,       \* the core's own value of each subject
  writes,      \* how often each was written (bound)
  untold,      \* writes whose event is not emitted yet
  told,        \* the latest write of each subject that was told of (history)
  ahead,       \* approvals whose denial was emitted and is not written yet
  due, sample, \* MetricsCollector: devices left in this poll, the one with a result
  polls,
  conn,        \* a dashboard's socket: off, then how far events_ws is, or open
  queue,       \* the queue of events_ws
  base,        \* what the snapshot has so far, or what the dashboard shows
  blind,       \* subjects whose latest event did not get through, came too late or was never
               \* emitted, and denials read ahead of their row (history)
  losses

core      == <<table, writes, untold, told, ahead>>
collector == <<due, sample, polls>>
sockets   == <<conn, base, losses>>
feed      == <<sockets, queue, blind>>
vars      == <<core, collector, feed>>

-----------------------------------------------------------------------------
(* EventBus *)

Full(b) == Len(queue[b]) >= QueueSize

MutantHeard(b) == conn[b] = "open" /\ ~Full(b)
Heard(b) == conn[b] # "off" /\ ~Full(b)

\* emit: each dashboard that is subscribed queues the event, or drops it when
\* its queue is full.
Emit(e, late) ==
  /\ queue' = [b \in Dashboards |-> IF Heard(b) THEN Append(queue[b], e) ELSE queue[b]]
  /\ blind' = [b \in Dashboards |-> IF late \/ conn[b] = "off" \/ Full(b)
                                    THEN blind[b] \cup {e.of} ELSE blind[b] \ {e.of}]

-----------------------------------------------------------------------------
(* The core: a row is written, then its event is emitted; but for a denial *)

\* A session comes, is replaced or beats, or it goes (gateway.py); an action
\* waits, is approved or expires (actions.py), the latter also when another
\* decision was faster.
May(x, v) ==
  \/ x \in Devices /\ (v = "online" \/ (v = "offline" /\ table[x] = "online"))
  \/ x \in Approvals /\ v = (IF writes[x] = 0 THEN "listed" ELSE "gone")

Change(x, v) ==
  /\ writes[x] < MaxWrites
  /\ table' = [table EXCEPT ![x] = v]
  /\ writes' = [writes EXCEPT ![x] = @ + 1]

Note(x, v) == [of |-> x, nr |-> writes[x] + 1, says |-> v]

Write(x, v) ==
  /\ May(x, v) /\ Change(x, v)
  /\ untold' = untold \cup {Note(x, v)}
  /\ UNCHANGED <<told, ahead, collector, feed>>

\* Each coroutine tells the value it wrote, whatever the row says by then.
Overtaken(t) == t.nr < told[t.of]

Tell(t) ==
  /\ t \in untold
  /\ untold' = untold \ {t}
  /\ told' = [told EXCEPT ![t.of] = IF Overtaken(t) THEN @ ELSE t.nr]
  /\ Emit([of |-> t.of, says |-> t.says], Overtaken(t))
  /\ UNCHANGED <<table, writes, ahead, collector, sockets>>

\* The welcome of a hello cannot be sent: its event is not emitted, and its
\* connection ends; a session that was not replaced meanwhile goes offline.
Cut(t) ==
  /\ t \in untold /\ t.of \in Devices /\ t.says = "online"
  /\ IF t.nr < writes[t.of]
     THEN untold' = untold \ {t} /\ UNCHANGED <<table, writes>>
     ELSE Change(t.of, "offline") /\ untold' = (untold \ {t}) \cup {Note(t.of, "offline")}
  /\ UNCHANGED <<told, ahead, collector, feed>>

\* deny: ui.approval.resolved goes out first.
Deny(x) ==
  /\ x \in Approvals \ ahead /\ 0 < writes[x] /\ writes[x] < MaxWrites
  /\ ahead' = ahead \cup {x}
  /\ writes' = [writes EXCEPT ![x] = @ + 1]
  /\ told' = [told EXCEPT ![x] = writes'[x]]
  /\ Emit([of |-> x, says |-> "gone"], FALSE)
  /\ UNCHANGED <<table, untold, collector, sockets>>

\* ... and _finish writes the row.  device.action.denied, which follows, does
\* not touch the list of approvals.
WriteDenial(x) ==
  /\ x \in ahead
  /\ ahead' = ahead \ {x}
  /\ table' = [table EXCEPT ![x] = "gone"]
  /\ UNCHANGED <<writes, untold, told, collector, feed>>

\* A device answers awaiting_approval: _finish writes that, and the event,
\* device.action.failed, does not touch the list of approvals either.
Reopen(x) ==
  /\ x \in Approvals /\ table[x] = "gone" /\ Change(x, "listed")
  /\ told' = [told EXCEPT ![x] = writes'[x]]
  /\ blind' = [b \in Dashboards |-> blind[b] \cup {x}]
  /\ UNCHANGED <<untold, ahead, collector, sockets, queue>>

\* hermes.thinking and hermes.done: no row, the event is all there is of it.
Turn ==
  /\ Change(Hermes, IF table[Hermes] = "quiet" THEN "busy" ELSE "quiet")
  /\ told' = [told EXCEPT ![Hermes] = writes'[Hermes]]
  /\ Emit([of |-> Hermes, says |-> table'[Hermes]], FALSE)
  /\ UNCHANGED <<untold, ahead, collector, sockets>>

-----------------------------------------------------------------------------
(* MetricsCollector.poll_once *)

Poll ==
  /\ due = {} /\ sample = None /\ polls < MaxPolls
  /\ due' = {d \in Devices : table[d] = "online"}
  /\ polls' = polls + 1
  /\ UNCHANGED <<core, sample, feed>>

\* dispatch fails: a gap in the history.
Skip(d) ==
  /\ d \in due /\ sample = None
  /\ due' = due \ {d}
  /\ UNCHANGED <<core, sample, polls, feed>>

\* dispatch returns a sample; the INSERT is under way.
Sampled(d) ==
  /\ d \in due /\ sample = None /\ table[d] = "online"
  /\ due' = due \ {d} /\ sample' = d
  /\ UNCHANGED <<core, polls, feed>>

\* device.metrics, which the reducer takes for a sign of life.
TellSample ==
  /\ sample # None
  /\ sample' = None
  /\ Emit([of |-> sample, says |-> "online"], table[sample] = "offline")
  /\ UNCHANGED <<core, due, polls, sockets>>

-----------------------------------------------------------------------------
(* events_ws *)

\* The subscription comes first.
Connect(b) ==
  /\ conn[b] = "off"
  /\ conn' = [conn EXCEPT ![b] = "devices"]
  /\ queue' = [queue EXCEPT ![b] = <<>>]
  /\ UNCHANGED <<core, collector, base, blind, losses>>

About(b, x) == {i \in DOMAIN queue[b] : queue[b][i].of = x}

\* _snapshot reads one table, then the other; the turn of Hermes is in neither.
\* Events of before the read are in the queue all the same.
Read(b, S) ==
  LET quiet == {x \in S : About(b, x) = {}} IN
  /\ base' = [base EXCEPT ![b] = [x \in Subjects |-> IF x \in S THEN table[x] ELSE @[x]]]
  /\ blind' = [blind EXCEPT ![b] = (@ \ quiet) \cup (quiet \cap ahead)]
  /\ UNCHANGED <<core, collector, queue, losses>>

ReadDevices(b) ==
  /\ conn[b] = "devices" /\ conn' = [conn EXCEPT ![b] = "approvals"]
  /\ Read(b, Devices)

\* ... and the snapshot is sent once Hermes has answered or not.
ReadApprovals(b) ==
  /\ conn[b] = "approvals" /\ conn' = [conn EXCEPT ![b] = "open"]
  /\ Read(b, Approvals)

MutantDeliver(b) ==
  /\ conn[b] = "open" /\ Len(queue[b]) > 1
  /\ queue' = [queue EXCEPT ![b] = Tail(@)]
  /\ base' = [base EXCEPT ![b][Head(queue[b]).of] = Head(queue[b]).says]
  /\ UNCHANGED <<core, collector, conn, blind, losses>>

\* pump, and the reducer in the browser.
Deliver(b) ==
  /\ conn[b] = "open" /\ queue[b] # <<>>
  /\ queue' = [queue EXCEPT ![b] = Tail(@)]
  /\ base' = [base EXCEPT ![b][Head(queue[b]).of] = Head(queue[b]).says]
  /\ UNCHANGED <<core, collector, conn, blind, losses>>

\* The socket is lost, with everything queued for it.
Lose(b) ==
  /\ conn[b] # "off" /\ losses[b] < MaxLosses
  /\ conn' = [conn EXCEPT ![b] = "off"]
  /\ queue' = [queue EXCEPT ![b] = <<>>]
  /\ blind' = [blind EXCEPT ![b] = @ \cup {x \in Subjects : About(b, x) # {}}]
  /\ losses' = [losses EXCEPT ![b] = @ + 1]
  /\ UNCHANGED <<core, collector, base>>

-----------------------------------------------------------------------------

First(x) == CASE x \in Devices -> "offline" [] x \in Approvals -> "gone" [] x = Hermes -> "quiet"

Init ==
  /\ table = [x \in Subjects |-> First(x)]
  /\ writes = [x \in Subjects |-> 0] /\ told = [x \in Subjects |-> 0]
  /\ untold = {} /\ ahead = {}
  /\ due = {} /\ sample = None /\ polls = 0
  /\ conn = [b \in Dashboards |-> "off"] /\ queue = [b \in Dashboards |-> <<>>]
  /\ base = [b \in Dashboards |-> [x \in Subjects |-> First(x)]]
  /\ blind = [b \in Dashboards |-> {}] /\ losses = [b \in Dashboards |-> 0]

Next ==
  \/ \E x \in Subjects : (\E v \in Values : Write(x, v)) \/ Deny(x) \/ WriteDenial(x) \/ Reopen(x)
  \/ \E t \in untold : Tell(t) \/ Cut(t)
  \/ Turn
  \/ Poll \/ TellSample
  \/ \E d \in Devices : Skip(d) \/ Sampled(d)
  \/ \E b \in Dashboards : Connect(b) \/ ReadDevices(b) \/ ReadApprovals(b) \/ Deliver(b) \/ Lose(b)

\* A write returns and is told of, a read returns, the pump goes on sending, the
\* client tries again (api.ts, at most every ten seconds).
Fairness ==
  /\ WF_vars(\E t \in untold : Tell(t) \/ Cut(t))
  /\ \A x \in Subjects : WF_vars(WriteDenial(x))
  /\ WF_vars(TellSample)
  /\ \A b \in Dashboards : /\ WF_vars(Connect(b)) /\ WF_vars(ReadDevices(b))
                           /\ WF_vars(ReadApprovals(b)) /\ WF_vars(Deliver(b))

Spec == Init /\ [][Next]_vars /\ Fairness

-----------------------------------------------------------------------------
(* Properties *)

TypeOK ==
  /\ table \in [Subjects -> Values]
  /\ writes \in [Subjects -> 0..MaxWrites] /\ told \in [Subjects -> 0..MaxWrites]
  /\ untold \subseteq [of : Devices \cup Approvals, nr : 1..MaxWrites, says : Values]
  /\ ahead \subseteq Approvals
  /\ due \subseteq Devices /\ sample \in Devices \cup {None} /\ polls \in 0..MaxPolls
  /\ conn \in [Dashboards -> {"off", "devices", "approvals", "open"}]
  /\ queue \in [Dashboards -> Seq(Event)] /\ \A b \in Dashboards : Len(queue[b]) <= QueueSize
  /\ base \in [Dashboards -> [Subjects -> Values]]
  /\ blind \in [Dashboards -> SUBSET Subjects]
  /\ losses \in [Dashboards -> 0..MaxLosses]

\* What dashboard b knows of x without the queue: what it showed before for a
\* subject the snapshot does not have, what was read for one it has.
HasRead(b, x) ==
  \/ x \in Devices /\ conn[b] \in {"approvals", "open"}
  \/ x \in Approvals /\ conn[b] = "open"
  \/ x = Hermes

\* The value of x once a denial that was told of is written.
Truth(x) == IF x \in ahead THEN "gone" ELSE table[x]

Settled(x) == told[x] = writes[x]

LastOf(b, x, i) == i \in About(b, x) /\ \A j \in About(b, x) : j <= i

Agrees(b, x) ==
  /\ \A i \in DOMAIN queue[b] : LastOf(b, x, i) => queue[b][i].says = Truth(x)
  /\ HasRead(b, x) /\ About(b, x) = {} => base[b][x] = Truth(x)

\* Once the latest write of a subject has been told of, a dashboard that has
\* worked off its queue shows the truth, although events run while the snapshot
\* is read and come again after it.  The exceptions are those the code leaves
\* open: an event dropped at a full queue, an event that comes out after that of
\* a later write, a device whose sample came after it had gone offline, an
\* approval that its device reopened, one that the snapshot read between the
\* event of its denial and the row, and the turn of Hermes, which no snapshot
\* corrects, when the socket was gone as it began or ended.
ShowsTheTruth ==
  \A b \in Dashboards, x \in Subjects :
    Settled(x) /\ x \notin blind[b] => Agrees(b, x)

\* Every dashboard gets there: it is connected in the end, its queue is empty,
\* and it shows the truth but for those exceptions (connectEvents, pump).
DashboardsCatchUp ==
  <>[](\A b \in Dashboards :
         /\ conn[b] = "open" /\ queue[b] = <<>>
         /\ \A x \in Subjects : x \notin blind[b] => base[b][x] = table[x])
=============================================================================
