--------------------------- MODULE ActionService ---------------------------
(***************************************************************************)
(* The single path every device action takes (heren_core/actions.py):      *)
(* submit, approve, deny, the expiry sweep, and the shared tails _run and  *)
(* _finish, over the rows that storage.py keeps in SQLite.                 *)
(*                                                                         *)
(* Every handler is a coroutine.  One TLA+ step is the code between two    *)
(* awaits that really suspend; a database statement takes effect in the    *)
(* step that issues it (one worker thread executes them in that order) and *)
(* the coroutine goes on in a later step.  bus.emit does not suspend for   *)
(* these topics.  A Call is one invocation of submit, approve or deny, so  *)
(* that "who dispatched" and "who decided" can be told apart.              *)
(***************************************************************************)
EXTENDS Integers, FiniteSets

CONSTANTS
  Call,             \* invocations of submit / approve / deny
  Req,              \* request ids (fresh random tokens, new_id("req"))
  Device,           \* device ids
  User,             \* the people at the dashboard
  Hermes,           \* principals whose name starts with "hermes"
  RiskOf,           \* the risk of each request's action
  DeviceOf,         \* the device each request names
  Answers,          \* the statuses that agents put into their results
  TTL,              \* approval_ttl_s
  CriticalEnabled,  \* settings.critical_enabled
  PageLimit,        \* limit of Storage.list_actions (100 in the code)
  MaxReq,           \* bound on the requests submitted
  MaxTime,          \* bound on the clock
  MaxCrash,         \* bound on restarts of the core
  None, Sweeper     \* "no value"; the housekeeping task

Risk == {"low", "medium", "high", "critical"}

Terminal == {"denied", "expired", "completed", "failed", "device_offline"}
Status   == Terminal \cup {"pending", "awaiting_approval", "approved", "running"}

ASSUME ActionServiceAssumption ==
  /\ RiskOf \in [Req -> Risk]
  /\ DeviceOf \in [Req -> Device]
  /\ Answers \subseteq Status
  /\ TTL \in Nat
  /\ CriticalEnabled \in BOOLEAN
  /\ PageLimit \in Nat \ {0}
  /\ MaxReq \in Nat
  /\ MaxTime \in Nat
  /\ MaxCrash \in Nat
  /\ User \cap Hermes = {}
  /\ None \notin User \cup Hermes \cup Req \cup Int \cup {"submit", "approve", "deny"}
  /\ None \notin Status
  /\ Sweeper \notin Call

VARIABLES
  row,         \* actions.status of each request; "none" when there is no row
  approvedBy,  \* actions.approved_by
  created,     \* ActionRequest.created_at
  audit,       \* rows of the audit table
  deadline,    \* _approval_deadlines (in memory)
  device,      \* unknown to the registry, registered, or holding a live session
  now,         \* time.time()
  crashes,     \* restarts so far
  pc,          \* where each call is suspended
  op,          \* which handler each call runs
  req,         \* the request each call is about
  by,          \* approved_by / denied_by of each call
  seen,        \* the status the call read in _take_pending
  outcome,     \* the ActionResult the call is finishing with
  sweep,       \* the housekeeping task: where it is and what it read
  took,        \* calls whose decision was accepted (history)
  sent,        \* calls that handed their request to the dispatcher (history)
  expired,     \* requests the sweep has expired (history)
  published    \* events published on the bus (history)

stored  == <<row, approvedBy, created, audit>>
frames  == <<op, req, by, seen>>
history == <<took, sent, expired>>
world   == <<device, now, crashes>>
vars == <<stored, deadline, world, pc, frames, outcome, sweep, history, published>>

-----------------------------------------------------------------------------
(* Vocabulary *)

\* What DeviceGateway.dispatch can come back with: any status the agent puts
\* into its result ("failed" when it is none of them), FAILED after a transport
\* failure or a timeout, DEVICE_OFFLINE when the session closes under it.
DispatchOutcome == Answers \cup {"failed", "device_offline"}

Topic == {"ui.approval.needed", "ui.approval.resolved", "device.action.started",
          "device.action.completed", "device.action.failed",
          "device.action.denied", "device.action.expired"}

Location == {"idle", "unknown_device", "known_device", "saved", "asking", "taking",
             "granted", "starting", "waiting", "auditing", "announcing", "done", "lost"}

InFlight(c) == pc[c] \notin {"idle", "done", "lost"}

MutantNeedsApproval(r) == RiskOf[r] = "critical"
NeedsApproval(r) == RiskOf[r] \in {"high", "critical"}

RefusedOutright(r) == RiskOf[r] = "critical" /\ ~CriticalEnabled

MutantMayApprove(p) == TRUE
MayApprove(p) == p \notin Hermes

Pending(s) == s = "awaiting_approval"

Asleep == [pc |-> "asleep", at |-> 0, todo |-> {}, on |-> None]

Online(d) == device[d] = "online"

\* UPDATE actions SET status=... touches nothing when the row does not exist.
WithStatus(r, s) == IF row[r] = "none" THEN row ELSE [row EXCEPT ![r] = s]

MutantPopped(r) == deadline
Popped(r) == [deadline EXCEPT ![r] = None]

MutantExpiresAt(r) == IF deadline[r] = None THEN MaxTime ELSE deadline[r]
ExpiresAt(r) == IF deadline[r] = None THEN created[r] + TTL ELSE deadline[r]

Publish(topic, r, src) == published' = published \cup {[topic |-> topic, req |-> r, src |-> src]}

FinishTopic(s) == CASE s = "completed" -> "device.action.completed"
                    [] s = "denied"    -> "device.action.denied"
                    [] s = "expired"   -> "device.action.expired"
                    [] OTHER           -> "device.action.failed"

-----------------------------------------------------------------------------
(* _finish, first half: write the result, then wait for the database. *)

MutantFinishNoAudit(c, s) ==
  /\ row' = WithStatus(req[c], s)
  /\ outcome' = [outcome EXCEPT ![c] = s]
  /\ pc' = [pc EXCEPT ![c] = "announcing"]

Finish(c, s) ==
  /\ row' = WithStatus(req[c], s)
  /\ outcome' = [outcome EXCEPT ![c] = s]
  /\ pc' = [pc EXCEPT ![c] = "auditing"]

(* _finish, second half: the audit row, then the event. *)
Audit(c) ==
  /\ pc[c] = "auditing"
  /\ audit' = audit \cup {[req |-> req[c], result |-> outcome[c],
                           approver |-> by[c], writer |-> c]}
  /\ pc' = [pc EXCEPT ![c] = "announcing"]
  /\ UNCHANGED <<row, approvedBy, created, deadline, world, frames, outcome, sweep,
                 history, published>>

Announce(c) ==
  /\ pc[c] = "announcing"
  /\ Publish(FinishTopic(outcome[c]), req[c], c)
  /\ pc' = [pc EXCEPT ![c] = "done"]
  /\ UNCHANGED <<stored, deadline, world, frames, outcome, sweep, history>>

MutantRun(c) ==
  \/ /\ ~Online(DeviceOf[req[c]])
     /\ row' = WithStatus(req[c], "awaiting_approval")
     /\ pc' = [pc EXCEPT ![c] = "done"]
     /\ UNCHANGED outcome
  \/ /\ Online(DeviceOf[req[c]])
     /\ row' = WithStatus(req[c], "running")
     /\ pc' = [pc EXCEPT ![c] = "starting"]
     /\ UNCHANGED outcome

(* _run up to its first await: an offline device ends the request at once. *)
Run(c) ==
  \/ /\ ~Online(DeviceOf[req[c]])
     /\ Finish(c, "device_offline")
  \/ /\ Online(DeviceOf[req[c]])
     /\ row' = WithStatus(req[c], "running")
     /\ pc' = [pc EXCEPT ![c] = "starting"]
     /\ UNCHANGED outcome

(* _run from the started event on: the gateway looks the session up again, *)
(* so a device that went away meanwhile answers DEVICE_OFFLINE unsent.     *)
Dispatch(c) ==
  /\ pc[c] = "starting"
  /\ Publish("device.action.started", req[c], c)
  /\ \/ /\ Online(DeviceOf[req[c]])
        /\ sent' = sent \cup {c}
        /\ pc' = [pc EXCEPT ![c] = "waiting"]
        /\ UNCHANGED <<row, outcome>>
     \/ /\ ~Online(DeviceOf[req[c]])
        /\ Finish(c, "device_offline")
        /\ UNCHANGED sent
  /\ UNCHANGED <<approvedBy, created, audit, deadline, world, frames, sweep, took, expired>>

MutantAnswer(c, s) ==
  /\ pc[c] = "waiting"
  /\ Online(DeviceOf[req[c]])
  /\ Finish(c, s)
  /\ UNCHANGED <<approvedBy, created, audit, deadline, world, frames, sweep, history, published>>

Answer(c, s) ==
  /\ pc[c] = "waiting"
  /\ Finish(c, s)
  /\ UNCHANGED <<approvedBy, created, audit, deadline, world, frames, sweep, history, published>>

-----------------------------------------------------------------------------
(* submit *)

AnotherAllowed == Cardinality({r \in Req : created[r] # None}) < MaxReq

Submit(c, r) ==
  /\ pc[c] = "idle" /\ AnotherAllowed
  /\ created[r] = None
  /\ created' = [created EXCEPT ![r] = now]
  /\ op' = [op EXCEPT ![c] = "submit"]
  /\ req' = [req EXCEPT ![c] = r]
  /\ pc' = [pc EXCEPT ![c] = IF device[DeviceOf[r]] = "unknown"
                             THEN "unknown_device" ELSE "known_device"]
  /\ UNCHANGED <<row, approvedBy, audit, deadline, world, by, seen, outcome, sweep,
                 history, published>>

RejectUnknownDevice(c) ==
  /\ pc[c] = "unknown_device"
  /\ Finish(c, "failed")
  /\ UNCHANGED <<approvedBy, created, audit, deadline, world, frames, sweep, history, published>>

SaveAction(c) ==
  /\ pc[c] = "known_device"
  /\ row' = [row EXCEPT ![req[c]] = "pending"]
  /\ pc' = [pc EXCEPT ![c] = "saved"]
  /\ UNCHANGED <<approvedBy, created, audit, deadline, world, frames, outcome, sweep,
                 history, published>>

RefuseCritical(c) ==
  /\ pc[c] = "saved"
  /\ RefusedOutright(req[c])
  /\ Finish(c, "denied")
  /\ UNCHANGED <<approvedBy, created, audit, deadline, world, frames, sweep, history, published>>

RequestApproval(c) ==
  /\ pc[c] = "saved"
  /\ ~RefusedOutright(req[c])
  /\ NeedsApproval(req[c])
  /\ deadline' = [deadline EXCEPT ![req[c]] = now + TTL]
  /\ row' = WithStatus(req[c], "awaiting_approval")
  /\ pc' = [pc EXCEPT ![c] = "asking"]
  /\ UNCHANGED <<approvedBy, created, audit, world, frames, outcome, sweep, history, published>>

AskUser(c) ==
  /\ pc[c] = "asking"
  /\ Publish("ui.approval.needed", req[c], c)
  /\ pc' = [pc EXCEPT ![c] = "done"]
  /\ UNCHANGED <<stored, deadline, world, frames, outcome, sweep, history>>

RunUngated(c) ==
  /\ pc[c] = "saved"
  /\ ~RefusedOutright(req[c])
  /\ ~NeedsApproval(req[c])
  /\ Run(c)
  /\ UNCHANGED <<approvedBy, created, audit, deadline, world, frames, sweep, history, published>>

-----------------------------------------------------------------------------
(* approve and deny: _take_pending pops the deadline, then reads the row.  *)
(* The decision is taken later, on the status that was read.               *)

\* Ids are random tokens: a decision names a request that was made, or finds
\* no row and changes nothing.
TakePending(c, r, p, handler) ==
  /\ pc[c] = "idle" /\ created[r] # None
  /\ deadline' = Popped(r)
  /\ op' = [op EXCEPT ![c] = handler]
  /\ req' = [req EXCEPT ![c] = r]
  /\ by' = [by EXCEPT ![c] = p]
  /\ seen' = [seen EXCEPT ![c] = row[r]]
  /\ pc' = [pc EXCEPT ![c] = "taking"]
  /\ UNCHANGED <<stored, world, outcome, sweep, history, published>>

Approve(c, r, p) == MayApprove(p) /\ TakePending(c, r, p, "approve")

Deny(c, r, p) == TakePending(c, r, p, "deny")

ApprovalNotFound(c) ==
  /\ pc[c] = "taking"
  /\ ~Pending(seen[c])
  /\ pc' = [pc EXCEPT ![c] = "done"]
  /\ UNCHANGED <<stored, deadline, world, frames, outcome, sweep, history, published>>

GrantApproval(c) ==
  /\ pc[c] = "taking" /\ op[c] = "approve" /\ Pending(seen[c])
  /\ row' = WithStatus(req[c], "approved")
  /\ approvedBy' = [approvedBy EXCEPT ![req[c]] = by[c]]
  /\ took' = took \cup {c}
  /\ pc' = [pc EXCEPT ![c] = "granted"]
  /\ UNCHANGED <<created, audit, deadline, world, frames, outcome, sweep, sent, expired, published>>

RunApproved(c) ==
  /\ pc[c] = "granted"
  /\ Publish("ui.approval.resolved", req[c], c)
  /\ Run(c)
  /\ UNCHANGED <<approvedBy, created, audit, deadline, world, frames, sweep, history>>

MutantRecordDenial(c) ==
  /\ pc[c] = "taking" /\ op[c] = "deny" /\ Pending(seen[c])
  /\ row' = WithStatus(req[c], "denied")
  /\ took' = took \cup {c}
  /\ pc' = [pc EXCEPT ![c] = "granted"]
  /\ UNCHANGED <<approvedBy, created, audit, deadline, world, frames, outcome, sweep, sent, expired, published>>

RecordDenial(c) ==
  /\ pc[c] = "taking" /\ op[c] = "deny" /\ Pending(seen[c])
  /\ Publish("ui.approval.resolved", req[c], c)
  /\ Finish(c, "denied")
  /\ took' = took \cup {c}
  /\ UNCHANGED <<approvedBy, created, audit, deadline, world, frames, sweep, sent, expired>>

-----------------------------------------------------------------------------
(* expire_stale, run by Core._housekeeping.  sweep.at is the `now` read on *)
(* entry, sweep.todo what is left of the page that was listed.             *)

Waiting == {r \in Req : Pending(row[r])}

\* SELECT ... WHERE status=awaiting_approval ORDER BY created_at DESC LIMIT n.
IsNewestPage(page) ==
  /\ page \subseteq Waiting
  /\ \A r \in page, q \in Waiting \ page : created[q] <= created[r]
  /\ Cardinality(page) <= PageLimit
  /\ page # Waiting => Cardinality(page) = PageLimit

SweepList ==
  /\ sweep.pc = "asleep"
  /\ \E page \in SUBSET Waiting :
        /\ IsNewestPage(page)
        /\ sweep' = [sweep EXCEPT !.pc = "listed", !.at = now, !.todo = page]
  /\ UNCHANGED <<stored, deadline, world, pc, frames, outcome, history, published>>

Stale == {r \in sweep.todo : ExpiresAt(r) < sweep.at}

\* The loop passes over requests still in time without suspending, so the next
\* one it expires is the newest stale one, and the newer ones are behind it.
SweepExpire(r) ==
  /\ sweep.pc = "listed"
  /\ r \in Stale
  /\ \A q \in Stale : created[q] <= created[r]
  /\ deadline' = Popped(r)
  /\ row' = WithStatus(r, "expired")
  /\ expired' = expired \cup {r}
  /\ sweep' = [sweep EXCEPT !.pc = "auditing", !.on = r,
                            !.todo = {q \in @ \ {r} : created[q] <= created[r]}]
  /\ UNCHANGED <<approvedBy, created, audit, world, pc, frames, outcome, took, sent, published>>

SweepAudit ==
  /\ sweep.pc = "auditing"
  /\ audit' = audit \cup {[req |-> sweep.on, result |-> "expired",
                           approver |-> None, writer |-> Sweeper]}
  /\ sweep' = [sweep EXCEPT !.pc = "announcing"]
  /\ UNCHANGED <<row, approvedBy, created, deadline, world, pc, frames, outcome,
                 history, published>>

SweepAnnounce ==
  /\ sweep.pc = "announcing"
  /\ Publish(FinishTopic("expired"), sweep.on, Sweeper)
  /\ sweep' = [sweep EXCEPT !.pc = "listed", !.on = None]
  /\ UNCHANGED <<stored, deadline, world, pc, frames, outcome, history>>

SweepEnd ==
  /\ sweep.pc = "listed"
  /\ Stale = {}
  /\ sweep' = Asleep
  /\ UNCHANGED <<stored, deadline, world, pc, frames, outcome, history, published>>

-----------------------------------------------------------------------------
(* What happens around the service. *)

Tick ==
  /\ now < MaxTime
  /\ now' = now + 1
  /\ UNCHANGED <<stored, deadline, device, crashes, pc, frames, outcome, sweep, history, published>>

\* The gateway pairs a device, gains and loses its session.
DeviceChange(d, from, to) ==
  /\ device[d] = from
  /\ device' = [device EXCEPT ![d] = to]
  /\ UNCHANGED <<stored, deadline, now, crashes, pc, frames, outcome, sweep, history, published>>

DevicePaired(d) == DeviceChange(d, "unknown", "offline")
DeviceUp(d)     == DeviceChange(d, "offline", "online")
DeviceDown(d)   == DeviceChange(d, "online", "offline")

\* The process dies and a new one opens the same database: coroutines, the
\* deadline table and the sessions are gone, the rows are not.
Restart ==
  /\ crashes < MaxCrash
  /\ crashes' = crashes + 1
  /\ pc' = [c \in Call |-> IF InFlight(c) THEN "lost" ELSE pc[c]]
  /\ deadline' = [r \in Req |-> None]
  /\ sweep' = Asleep
  /\ device' = [d \in Device |-> IF Online(d) THEN "offline" ELSE device[d]]
  /\ UNCHANGED <<stored, now, frames, outcome, history, published>>

-----------------------------------------------------------------------------
Init ==
  /\ row = [r \in Req |-> "none"]
  /\ approvedBy = [r \in Req |-> None]
  /\ created = [r \in Req |-> None]
  /\ audit = {}
  /\ deadline = [r \in Req |-> None]
  /\ device = [d \in Device |-> "unknown"]
  /\ now = 0
  /\ crashes = 0
  /\ pc = [c \in Call |-> "idle"]
  /\ op = [c \in Call |-> None]
  /\ req = [c \in Call |-> None]
  /\ by = [c \in Call |-> None]
  /\ seen = [c \in Call |-> "none"]
  /\ outcome = [c \in Call |-> None]
  /\ sweep = Asleep
  /\ took = {} /\ sent = {} /\ expired = {}
  /\ published = {}

\* A request arriving: nobody is obliged to make one.
Begin(c) ==
  \/ \E r \in Req : Submit(c, r)
  \/ \E r \in Req, p \in User \cup Hermes : Approve(c, r, p) \/ Deny(c, r, p)

\* A suspended call going on.
Continue(c) ==
  \/ RejectUnknownDevice(c) \/ SaveAction(c) \/ RefuseCritical(c) \/ RequestApproval(c)
  \/ AskUser(c) \/ RunUngated(c)
  \/ ApprovalNotFound(c) \/ GrantApproval(c) \/ RunApproved(c) \/ RecordDenial(c)
  \/ Dispatch(c) \/ (\E s \in DispatchOutcome : Answer(c, s))
  \/ Audit(c) \/ Announce(c)

Sweep ==
  \/ SweepList \/ (\E r \in Req : SweepExpire(r))
  \/ SweepAudit \/ SweepAnnounce \/ SweepEnd

Environment ==
  \/ Tick \/ Restart
  \/ \E d \in Device : DevicePaired(d) \/ DeviceUp(d) \/ DeviceDown(d)

Next ==
  \/ \E c \in Call : Begin(c) \/ Continue(c)
  \/ Sweep
  \/ Environment

Spec == Init /\ [][Next]_vars

\* The event loop runs every ready coroutine, wait_for bounds the wait for an
\* agent, and the housekeeping loop never ends; the clock advances.
FairSpec ==
  /\ Spec
  /\ \A c \in Call : WF_vars(Continue(c))
  /\ WF_vars(Sweep)
  /\ WF_vars(Tick)

-----------------------------------------------------------------------------
(* Properties *)

\* Every variable holds a value of the kind the code keeps there.
TypeOK ==
  /\ row \in [Req -> Status \cup {"none"}]
  /\ approvedBy \in [Req -> User \cup Hermes \cup {None}]
  /\ created \in [Req -> Nat \cup {None}]
  /\ audit \subseteq [req : Req, result : Status, approver : User \cup Hermes \cup {None},
                      writer : Call \cup {Sweeper}]
  /\ deadline \in [Req -> Nat \cup {None}]
  /\ device \in [Device -> {"unknown", "offline", "online"}]
  /\ now \in Nat /\ crashes \in Nat
  /\ pc \in [Call -> Location]
  /\ op \in [Call -> {"submit", "approve", "deny", None}]
  /\ req \in [Call -> Req \cup {None}]
  /\ by \in [Call -> User \cup Hermes \cup {None}]
  /\ seen \in [Call -> Status \cup {"none"}]
  /\ outcome \in [Call -> Status \cup {None}]
  /\ sweep \in [pc : {"asleep", "listed", "auditing", "announcing"}, at : Nat,
                todo : SUBSET Req, on : Req \cup {None}]
  /\ took \subseteq Call /\ sent \subseteq Call /\ expired \subseteq Req
  /\ published \subseteq [topic : Topic, req : Req, src : Call \cup {Sweeper}]

Dispatchers(r) == {c \in sent : req[c] = r}

\* Who has decided request r: the accepted approve and deny calls, the submit
\* that let an ungated request through, and the sweep.
Deciders(r) ==
  {c \in took : req[c] = r} \cup {c \in Dispatchers(r) : op[c] = "submit"}
    \cup (IF r \in expired THEN {Sweeper} ELSE {})

SoleDecision(r) == \A a, b \in Deciders(r) : a = b

\* A HIGH or CRITICAL request reaches a device only in the hands of an approve
\* call made by a person, and a disabled CRITICAL one never does (submit's gate,
\* approve's PermissionError and _take_pending together).
GatedNeedsPerson ==
  \A c \in sent : NeedsApproval(req[c]) =>
      /\ c \in took /\ op[c] = "approve" /\ by[c] \in User
      /\ ~RefusedOutright(req[c])

\* When at most one decision on a request was accepted, the request is
\* dispatched at most once, and not at all once it was denied or expired.
SoleDecisionRunsOnce ==
  \A r \in Req : SoleDecision(r) =>
      /\ \A a, b \in Dispatchers(r) : a = b
      /\ Dispatchers(r) # {} => /\ r \notin expired
                                /\ \A c \in Deciders(r) : op[c] # "deny"

\* Under the same condition the audit log holds at most one line for the
\* request, and it tells the status the row ended with.
SoleDecisionAuditedOnce ==
  \A r \in Req : SoleDecision(r) =>
      \A a, b \in audit : a.req = r /\ b.req = r =>
          a = b /\ row[r] \in {"none", a.result}

\* Nobody is still writing about r.
Quiet(r) == /\ \A c \in Call : req[c] = r => ~InFlight(c)
            /\ sweep.on # r

\* "Every result is audited": when the last writer of a request has finished
\* without a restart, some audit line carries the status the row shows.
SettledIsAudited ==
  \A r \in Req : (crashes = 0 /\ Quiet(r) /\ row[r] \in Terminal) =>
      \E a \in audit : a.req = r /\ a.result = row[r]

\* The audit log tells of every settled request, once, and what became of it
\* (_finish, against a second decision and a late writer).
AuditTrail == SoleDecisionAuditedOnce /\ SettledIsAudited

\* The in-memory deadline table holds no entry for a request that has been
\* decided, so it does not grow with the history.
DeadlinesArePending ==
  \A r \in Req : deadline[r] # None => row[r] \in {"pending", "awaiting_approval"}

\* A status behind the gate goes back in front of it in one way only: the device
\* that the request was dispatched to answers with that status, which _finish
\* writes as it is.  No call, no sweep and no restart reopens a decision.
BehindGate == (Status \ {"pending", "awaiting_approval"})
OnlyItsDeviceReopens ==
  [][\A r \in Req : row[r] \in BehindGate /\ row'[r] \notin BehindGate =>
       \E c \in Dispatchers(r) : pc[c] = "waiting" /\ pc'[c] = "auditing" /\ outcome'[c] = row'[r]]_vars

\* A request that waits for approval does not wait for ever: somebody decides
\* it or the sweep expires it, also when the restart that lost its deadline
\* comes in between (as long as the modelled clock has TTL left to run).
ApprovalsLapse ==
  \A r \in Req : (Pending(row[r]) /\ now + TTL < MaxTime) ~> ~Pending(row[r])

OnItsWay == {"pending", "approved", "running"}

\* A restart has cut short a call about r, or a device that ran it answered with
\* the status the row shows.
Stranded(r) == \E c \in Call : req[c] = r /\ pc[c] = "lost"
LeftByItsDevice(r) == \E c \in Dispatchers(r) : outcome[c] = row[r]

\* A request past the gate does not stay on its way, also when the device never
\* answers: its handler ends it, but for the calls a restart has cut short and
\* for a device that answers with a status that settles nothing.
RequestsSettle ==
  \A r \in Req : row[r] \in OnItsWay ~>
      (row[r] \in Terminal \cup {"awaiting_approval"} \/ Stranded(r) \/ LeftByItsDevice(r))

-----------------------------------------------------------------------------
(* The service implements the gate that users are promised. *)

\* A "pending" that a device answered with is read by nobody: the request is decided.
stageOf == [r \in Req |->
              CASE row[r] = "none" -> "absent"
                [] row[r] = "pending" /\ Dispatchers(r) = {} -> "recorded"
                [] row[r] = "awaiting_approval" -> "waiting"
                [] OTHER -> "decided"]
grantsOf == {<<c, req[c]>> : c \in {d \in took : op[d] = "approve"}}
ranOf == {<<c, req[c]>> : c \in sent}

ThePromise == INSTANCE ApprovalGate
                WITH Gated <- {r \in Req : RiskOf[r] \in {"high", "critical"}},
                     stage <- stageOf, grants <- grantsOf, ran <- ranOf

\* Every step of the service is a step of the gate or leaves it alone: a gated
\* request is dispatched only by spending an approval that was accepted after
\* it had been put to the user, an ungated one once, and again only by spending
\* an approval after its device asked for one, also across restarts.
ImplementsGate == ThePromise!GateSpec
=============================================================================
