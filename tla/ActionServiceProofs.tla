------------------------ MODULE ActionServiceProofs ------------------------
(***************************************************************************)
(* Proofs about ActionService for every number of calls, requests, devices *)
(* and restarts.  One inductive invariant carries all of them.             *)
(***************************************************************************)
EXTENDS ActionService, TLAPS

\* The requests that the gate puts to a person.
Gateable(r) == NeedsApproval(r) /\ ~RefusedOutright(r)

\* A device that ran r has put it to a person again.
AskedAgain(r) == \E c \in sent : req[c] = r /\ outcome[c] = "awaiting_approval"
Decidable(r) == Gateable(r) \/ AskedAgain(r)

Ran(r) == \E c \in sent : req[c] = r

\* r has been put to a person, or has been let through; it never is as before.
Asked(r)  == row[r] # "none" /\ (row[r] = "pending" => Ran(r))
Passed(r) == row[r] # "none" /\ (row[r] \in {"pending", "awaiting_approval"} => Ran(r))

Ended == {"auditing", "announcing", "done", "lost"}
Submitting == {"unknown_device", "known_device", "saved", "asking"}
OnTheWay   == {"starting", "waiting"}

\* A call that has begun is about a request, runs one handler and stays in it.
FramesInv ==
  /\ \A c \in Call :
       /\ pc[c] # "idle" => req[c] \in Req /\ op[c] \in {"submit", "approve", "deny"}
       /\ pc[c] \in Submitting => op[c] = "submit"
       /\ pc[c] = "taking" => op[c] \in {"approve", "deny"}
       /\ pc[c] = "granted" => op[c] = "approve"
       /\ pc[c] \in OnTheWay => op[c] # "deny"
       /\ pc[c] \in {"auditing", "announcing"} => outcome[c] \in Status
       /\ outcome[c] # None => pc[c] \in Ended
       /\ op[c] = "approve" => by[c] \in User
  /\ sweep.pc \in {"auditing", "announcing"} => sweep.on \in Req

\* A request is submitted by one call, and its row appears with that call.
SubmitInv ==
  /\ \A c, d \in Call : (pc[c] # "idle" /\ pc[d] # "idle" /\ op[c] = "submit"
                          /\ op[d] = "submit" /\ req[c] = req[d]) => c = d
  /\ \A c \in Call : (pc[c] # "idle" /\ op[c] = "submit") => created[req[c]] # None
  /\ \A r \in Req : created[r] = None => row[r] = "none"
  /\ \A c \in Call : pc[c] \in {"unknown_device", "known_device"} => row[req[c]] = "none"
  /\ \A c \in Call : pc[c] = "saved" => row[req[c]] = "pending" /\ ~Ran(req[c])

\* What has been in front of the gate and what is behind it.
GateInv ==
  /\ \A r \in Req : row[r] = "awaiting_approval" => Decidable(r)
  /\ \A c \in Call : pc[c] = "taking" /\ Pending(seen[c]) =>
       Decidable(req[c]) /\ Asked(req[c]) /\ deadline[req[c]] = None
  /\ \A r \in sweep.todo : Decidable(r) /\ Asked(r)
  /\ \A c \in Call : pc[c] \in OnTheWay \cup {"granted"} => Passed(req[c])
  /\ \A c \in sent : Passed(req[c])
  /\ \A r \in Req : deadline[r] # None => row[r] = "awaiting_approval" /\ ~Ran(r)

\* Who decided and who dispatched.
HistoryInv ==
  /\ \A c \in took : pc[c] \notin Submitting \cup {"idle", "taking"} /\ Decidable(req[c])
  /\ \A r \in expired : Decidable(r)
  /\ \A c \in sent : pc[c] \notin Submitting \cup {"idle", "taking", "granted", "starting"}
  /\ \A c \in Call : pc[c] = "granted" => c \in took
  /\ \A c \in Call : pc[c] = "waiting" => c \in sent
  /\ \A c \in Call : (pc[c] \in OnTheWay \/ c \in sent) =>
       IF NeedsApproval(req[c])
         THEN c \in took /\ op[c] = "approve" /\ Gateable(req[c])
         ELSE op[c] = "submit" \/ (c \in took /\ op[c] = "approve")
  /\ \A c \in sent : ~NeedsApproval(req[c]) => \E b \in sent : req[b] = req[c] /\ op[b] = "submit"

IInv == TypeOK /\ FramesInv /\ SubmitInv /\ GateInv /\ HistoryInv

(***************************************************************************)
(* One lemma per action: the step keeps each part of the invariant.        *)
(***************************************************************************)

USE DEF stored, frames, history, world

LEMMA SubmitStep ==
  ASSUME IInv, NEW c \in Call, NEW r \in Req, Submit(c, r)
  PROVE  IInv'
<1>0. now # None
  BY ActionServiceAssumption DEF IInv, TypeOK
<1>1. TypeOK'
  BY DEF IInv, Submit, TypeOK, Terminal, Status, Location, Topic, FramesInv
<1>2. FramesInv'
  BY DEF IInv, Submit, FramesInv, TypeOK, Terminal, Submitting, OnTheWay, Ended
<1>3. SubmitInv'
  BY <1>0 DEF IInv, Submit, SubmitInv, TypeOK, FramesInv, GateInv, HistoryInv, Submitting, OnTheWay, BehindGate, Terminal, Status, Pending, Gateable, Decidable, AskedAgain, Ran, Asked, Passed
<1>4. GateInv'
  BY DEF IInv, Submit, GateInv, TypeOK, FramesInv, SubmitInv, HistoryInv, Submitting, OnTheWay, BehindGate, Terminal, Status, Pending, Gateable, Decidable, AskedAgain, Ran, Asked, Passed
<1>5. HistoryInv'
  BY DEF IInv, Submit, HistoryInv, TypeOK, FramesInv, SubmitInv, GateInv, Submitting, OnTheWay, Pending, Gateable, Decidable, AskedAgain, Ran, Asked, Passed, Status, Terminal
<1> QED BY <1>1, <1>2, <1>3, <1>4, <1>5 DEF IInv

LEMMA ApproveStep ==
  ASSUME IInv, NEW c \in Call, NEW r \in Req, NEW p \in User \cup Hermes, Approve(c, r, p)
  PROVE  IInv'
<1>1. TypeOK'
  BY DEF IInv, Approve, TakePending, Popped, MayApprove, TypeOK, Terminal, Status, Location, Topic, FramesInv
<1>2. FramesInv'
  BY DEF IInv, Approve, TakePending, Popped, MayApprove, FramesInv, TypeOK, Terminal, Submitting, OnTheWay, Ended
<1>3. SubmitInv'
  BY DEF IInv, Approve, TakePending, Popped, MayApprove, SubmitInv, TypeOK, FramesInv, GateInv, HistoryInv, Submitting, OnTheWay, BehindGate, Terminal, Status, Pending, Gateable, Decidable, AskedAgain, Ran, Asked, Passed
<1>4. GateInv'
  BY DEF IInv, Approve, TakePending, Popped, MayApprove, GateInv, TypeOK, FramesInv, SubmitInv, HistoryInv, Submitting, OnTheWay, BehindGate, Terminal, Status, Pending, Gateable, Decidable, AskedAgain, Ran, Asked, Passed
<1>5. HistoryInv'
  BY DEF IInv, Approve, TakePending, Popped, HistoryInv, TypeOK, FramesInv, SubmitInv, GateInv, Submitting, OnTheWay, Pending, Gateable, Decidable, AskedAgain, Ran, Asked, Passed, Status, Terminal
<1> QED BY <1>1, <1>2, <1>3, <1>4, <1>5 DEF IInv

LEMMA DenyStep ==
  ASSUME IInv, NEW c \in Call, NEW r \in Req, NEW p \in User \cup Hermes, Deny(c, r, p)
  PROVE  IInv'
<1>1. TypeOK'
  BY DEF IInv, Deny, TakePending, Popped, TypeOK, Terminal, Status, Location, Topic, FramesInv
<1>2. FramesInv'
  BY DEF IInv, Deny, TakePending, Popped, FramesInv, TypeOK, Terminal, Submitting, OnTheWay, Ended
<1>3. SubmitInv'
  BY DEF IInv, Deny, TakePending, Popped, SubmitInv, TypeOK, FramesInv, GateInv, HistoryInv, Submitting, OnTheWay, BehindGate, Terminal, Status, Pending, Gateable, Decidable, AskedAgain, Ran, Asked, Passed
<1>4. GateInv'
  BY DEF IInv, Deny, TakePending, Popped, GateInv, TypeOK, FramesInv, SubmitInv, HistoryInv, Submitting, OnTheWay, BehindGate, Terminal, Status, Pending, Gateable, Decidable, AskedAgain, Ran, Asked, Passed
<1>5. HistoryInv'
  BY DEF IInv, Deny, TakePending, Popped, HistoryInv, TypeOK, FramesInv, SubmitInv, GateInv, Submitting, OnTheWay, Pending, Gateable, Decidable, AskedAgain, Ran, Asked, Passed, Status, Terminal
<1> QED BY <1>1, <1>2, <1>3, <1>4, <1>5 DEF IInv

LEMMA RejectUnknownDeviceStep ==
  ASSUME IInv, NEW c \in Call, RejectUnknownDevice(c)
  PROVE  IInv'
<1>1. TypeOK'
  BY DEF IInv, RejectUnknownDevice, Finish, WithStatus, TypeOK, Terminal, Status, Location, Topic, FramesInv
<1>2. FramesInv'
  BY DEF IInv, RejectUnknownDevice, Finish, WithStatus, FramesInv, TypeOK, Terminal, Status, Submitting, OnTheWay, Ended
<1>3. SubmitInv'
  BY DEF IInv, RejectUnknownDevice, Finish, WithStatus, SubmitInv, TypeOK, FramesInv, GateInv, HistoryInv, Submitting, OnTheWay, BehindGate, Terminal, Status, Pending, Gateable, Decidable, AskedAgain, Ran, Asked, Passed
<1>4. GateInv'
  BY DEF IInv, RejectUnknownDevice, Finish, WithStatus, GateInv, TypeOK, FramesInv, SubmitInv, HistoryInv, Submitting, OnTheWay, BehindGate, Terminal, Status, Pending, Gateable, Decidable, AskedAgain, Ran, Asked, Passed
<1>5. HistoryInv'
  BY DEF IInv, RejectUnknownDevice, Finish, WithStatus, HistoryInv, TypeOK, FramesInv, SubmitInv, GateInv, Submitting, OnTheWay, Pending, Gateable, Decidable, AskedAgain, Ran, Asked, Passed, Status, Terminal
<1> QED BY <1>1, <1>2, <1>3, <1>4, <1>5 DEF IInv

LEMMA SaveActionStep ==
  ASSUME IInv, NEW c \in Call, SaveAction(c)
  PROVE  IInv'
<1>1. TypeOK'
  BY DEF IInv, SaveAction, TypeOK, Terminal, Status, Location, Topic, FramesInv
<1>2. FramesInv'
  BY DEF IInv, SaveAction, FramesInv, TypeOK, Terminal, Submitting, OnTheWay, Ended
<1>3. SubmitInv'
  BY DEF IInv, SaveAction, SubmitInv, TypeOK, FramesInv, GateInv, HistoryInv, Submitting, OnTheWay, BehindGate, Terminal, Status, Pending, Gateable, Decidable, AskedAgain, Ran, Asked, Passed
<1>4. GateInv'
  BY DEF IInv, SaveAction, GateInv, TypeOK, FramesInv, SubmitInv, HistoryInv, Submitting, OnTheWay, BehindGate, Terminal, Status, Pending, Gateable, Decidable, AskedAgain, Ran, Asked, Passed
<1>5. HistoryInv'
  BY DEF IInv, SaveAction, HistoryInv, TypeOK, FramesInv, SubmitInv, GateInv, Submitting, OnTheWay, Pending, Gateable, Decidable, AskedAgain, Ran, Asked, Passed, Status, Terminal
<1> QED BY <1>1, <1>2, <1>3, <1>4, <1>5 DEF IInv

LEMMA RefuseCriticalStep ==
  ASSUME IInv, NEW c \in Call, RefuseCritical(c)
  PROVE  IInv'
<1>1. TypeOK'
  BY DEF IInv, RefuseCritical, Finish, WithStatus, TypeOK, Terminal, Status, Location, Topic, FramesInv
<1>2. FramesInv'
  BY DEF IInv, RefuseCritical, Finish, WithStatus, FramesInv, TypeOK, Terminal, Status, Submitting, OnTheWay, Ended
<1>3. SubmitInv'
  BY DEF IInv, RefuseCritical, Finish, WithStatus, SubmitInv, TypeOK, FramesInv, GateInv, HistoryInv, Submitting, OnTheWay, BehindGate, Terminal, Status, Pending, Gateable, Decidable, AskedAgain, Ran, Asked, Passed
<1>4. GateInv'
  BY DEF IInv, RefuseCritical, Finish, WithStatus, GateInv, TypeOK, FramesInv, SubmitInv, HistoryInv, Submitting, OnTheWay, BehindGate, Terminal, Status, Pending, Gateable, Decidable, AskedAgain, Ran, Asked, Passed
<1>5. HistoryInv'
  BY DEF IInv, RefuseCritical, Finish, WithStatus, HistoryInv, TypeOK, FramesInv, SubmitInv, GateInv, Submitting, OnTheWay, Pending, Gateable, Decidable, AskedAgain, Ran, Asked, Passed, Status, Terminal
<1> QED BY <1>1, <1>2, <1>3, <1>4, <1>5 DEF IInv

LEMMA RequestApprovalStep ==
  ASSUME IInv, NEW c \in Call, RequestApproval(c)
  PROVE  IInv'
<1>0. now + TTL \in Nat
  BY ActionServiceAssumption DEF IInv, TypeOK, Gateable, Decidable, AskedAgain, Ran, Asked, Passed, Status, Terminal
<1>1. TypeOK'
  BY <1>0 DEF IInv, RequestApproval, WithStatus, TypeOK, Terminal, Status, Location, Topic, FramesInv
<1>2. FramesInv'
  BY DEF IInv, RequestApproval, WithStatus, FramesInv, TypeOK, Terminal, Submitting, OnTheWay, Ended
<1>3. SubmitInv'
  BY DEF IInv, RequestApproval, WithStatus, SubmitInv, TypeOK, FramesInv, GateInv, HistoryInv, Submitting, OnTheWay, BehindGate, Terminal, Status, Pending, Gateable, Decidable, AskedAgain, Ran, Asked, Passed
<1>4. GateInv'
  BY DEF IInv, RequestApproval, WithStatus, GateInv, TypeOK, FramesInv, SubmitInv, HistoryInv, Submitting, OnTheWay, BehindGate, Terminal, Status, Pending, Gateable, Decidable, AskedAgain, Ran, Asked, Passed
<1>5. HistoryInv'
  BY DEF IInv, RequestApproval, WithStatus, HistoryInv, TypeOK, FramesInv, SubmitInv, GateInv, Submitting, OnTheWay, Pending, Gateable, Decidable, AskedAgain, Ran, Asked, Passed, Status, Terminal
<1> QED BY <1>1, <1>2, <1>3, <1>4, <1>5 DEF IInv

LEMMA AskUserStep ==
  ASSUME IInv, NEW c \in Call, AskUser(c)
  PROVE  IInv'
<1>1. TypeOK'
  BY DEF IInv, AskUser, Publish, TypeOK, Terminal, Status, Location, Topic, FramesInv
<1>2. FramesInv'
  BY DEF IInv, AskUser, Publish, FramesInv, TypeOK, Terminal, Submitting, OnTheWay, Ended
<1>3. SubmitInv'
  BY DEF IInv, AskUser, Publish, SubmitInv, TypeOK, FramesInv, GateInv, HistoryInv, Submitting, OnTheWay, BehindGate, Terminal, Status, Pending, Gateable, Decidable, AskedAgain, Ran, Asked, Passed
<1>4. GateInv'
  BY DEF IInv, AskUser, Publish, GateInv, TypeOK, FramesInv, SubmitInv, HistoryInv, Submitting, OnTheWay, BehindGate, Terminal, Status, Pending, Gateable, Decidable, AskedAgain, Ran, Asked, Passed
<1>5. HistoryInv'
  BY DEF IInv, AskUser, Publish, HistoryInv, TypeOK, FramesInv, SubmitInv, GateInv, Submitting, OnTheWay, Pending, Gateable, Decidable, AskedAgain, Ran, Asked, Passed, Status, Terminal
<1> QED BY <1>1, <1>2, <1>3, <1>4, <1>5 DEF IInv

LEMMA RunUngatedStep ==
  ASSUME IInv, NEW c \in Call, RunUngated(c)
  PROVE  IInv'
<1>1. TypeOK'
  BY DEF IInv, RunUngated, Run, Finish, WithStatus, TypeOK, Terminal, Status, Location, Topic, FramesInv
<1>2. FramesInv'
  BY DEF IInv, RunUngated, Run, Finish, WithStatus, FramesInv, TypeOK, Terminal, Status, Submitting, OnTheWay, Ended
<1>3. SubmitInv'
  BY SMTT(60) DEF IInv, RunUngated, Run, Finish, WithStatus, SubmitInv, TypeOK, FramesInv, GateInv, HistoryInv, Submitting, OnTheWay, BehindGate, Terminal, Status, Pending, Gateable, Decidable, AskedAgain, Ran, Asked, Passed
<1>4. GateInv'
  BY DEF IInv, RunUngated, Run, Finish, WithStatus, GateInv, TypeOK, FramesInv, SubmitInv, HistoryInv, Submitting, OnTheWay, BehindGate, Terminal, Status, Pending, Gateable, Decidable, AskedAgain, Ran, Asked, Passed
<1>5. HistoryInv'
  BY DEF IInv, RunUngated, Run, Finish, WithStatus, HistoryInv, TypeOK, FramesInv, SubmitInv, GateInv, Submitting, OnTheWay, Pending, Gateable, Decidable, AskedAgain, Ran, Asked, Passed, Status, Terminal
<1> QED BY <1>1, <1>2, <1>3, <1>4, <1>5 DEF IInv

LEMMA ApprovalNotFoundStep ==
  ASSUME IInv, NEW c \in Call, ApprovalNotFound(c)
  PROVE  IInv'
<1>1. TypeOK'
  BY DEF IInv, ApprovalNotFound, TypeOK, Terminal, Status, Location, Topic, FramesInv
<1>2. FramesInv'
  BY DEF IInv, ApprovalNotFound, FramesInv, TypeOK, Terminal, Submitting, OnTheWay, Ended
<1>3. SubmitInv'
  BY DEF IInv, ApprovalNotFound, SubmitInv, TypeOK, FramesInv, GateInv, HistoryInv, Submitting, OnTheWay, BehindGate, Terminal, Status, Pending, Gateable, Decidable, AskedAgain, Ran, Asked, Passed
<1>4. GateInv'
  BY DEF IInv, ApprovalNotFound, GateInv, TypeOK, FramesInv, SubmitInv, HistoryInv, Submitting, OnTheWay, BehindGate, Terminal, Status, Pending, Gateable, Decidable, AskedAgain, Ran, Asked, Passed
<1>5. HistoryInv'
  BY DEF IInv, ApprovalNotFound, HistoryInv, TypeOK, FramesInv, SubmitInv, GateInv, Submitting, OnTheWay, Pending, Gateable, Decidable, AskedAgain, Ran, Asked, Passed, Status, Terminal
<1> QED BY <1>1, <1>2, <1>3, <1>4, <1>5 DEF IInv

LEMMA GrantApprovalStep ==
  ASSUME IInv, NEW c \in Call, GrantApproval(c)
  PROVE  IInv'
<1>1. TypeOK'
  BY DEF IInv, GrantApproval, WithStatus, TypeOK, Terminal, Status, Location, Topic, FramesInv
<1>2. FramesInv'
  BY DEF IInv, GrantApproval, WithStatus, FramesInv, TypeOK, Terminal, Submitting, OnTheWay, Ended
<1>3. SubmitInv'
  BY DEF IInv, GrantApproval, WithStatus, SubmitInv, TypeOK, FramesInv, GateInv, HistoryInv, Submitting, OnTheWay, BehindGate, Terminal, Status, Pending, Gateable, Decidable, AskedAgain, Ran, Asked, Passed
<1>4. GateInv'
  BY DEF IInv, GrantApproval, WithStatus, GateInv, TypeOK, FramesInv, SubmitInv, HistoryInv, Submitting, OnTheWay, BehindGate, Terminal, Status, Pending, Gateable, Decidable, AskedAgain, Ran, Asked, Passed
<1>5. HistoryInv'
  BY DEF IInv, GrantApproval, WithStatus, HistoryInv, TypeOK, FramesInv, SubmitInv, GateInv, Submitting, OnTheWay, Pending, Gateable, Decidable, AskedAgain, Ran, Asked, Passed, Status, Terminal
<1> QED BY <1>1, <1>2, <1>3, <1>4, <1>5 DEF IInv

LEMMA RunApprovedStep ==
  ASSUME IInv, NEW c \in Call, RunApproved(c)
  PROVE  IInv'
<1>1. TypeOK'
  BY DEF IInv, RunApproved, Run, Finish, WithStatus, Publish, TypeOK, Terminal, Status, Location, Topic, FramesInv
<1>2. FramesInv'
  BY DEF IInv, RunApproved, Run, Finish, WithStatus, Publish, FramesInv, TypeOK, Terminal, Status, Submitting, OnTheWay, Ended
<1>3. SubmitInv'
  BY SMTT(60) DEF IInv, RunApproved, Run, Finish, WithStatus, Publish, SubmitInv, TypeOK, FramesInv, GateInv, HistoryInv, Submitting, OnTheWay, BehindGate, Terminal, Status, Pending, Gateable, Decidable, AskedAgain, Ran, Asked, Passed
<1>4. GateInv'
  BY SMTT(60) DEF IInv, RunApproved, Run, Finish, WithStatus, Publish, GateInv, TypeOK, FramesInv, SubmitInv, HistoryInv, Submitting, OnTheWay, BehindGate, Terminal, Status, Pending, Gateable, Decidable, AskedAgain, Ran, Asked, Passed
<1>5. HistoryInv'
  BY DEF IInv, RunApproved, Run, Finish, WithStatus, Publish, HistoryInv, TypeOK, FramesInv, SubmitInv, GateInv, Submitting, OnTheWay, Pending, Gateable, Decidable, AskedAgain, Ran, Asked, Passed, Status, Terminal
<1> QED BY <1>1, <1>2, <1>3, <1>4, <1>5 DEF IInv

LEMMA RecordDenialStep ==
  ASSUME IInv, NEW c \in Call, RecordDenial(c)
  PROVE  IInv'
<1>1. TypeOK'
  BY DEF IInv, RecordDenial, Finish, WithStatus, Publish, TypeOK, Terminal, Status, Location, Topic, FramesInv
<1>2. FramesInv'
  BY DEF IInv, RecordDenial, Finish, WithStatus, Publish, FramesInv, TypeOK, Terminal, Status, Submitting, OnTheWay, Ended
<1>3. SubmitInv'
  BY DEF IInv, RecordDenial, Finish, WithStatus, Publish, SubmitInv, TypeOK, FramesInv, GateInv, HistoryInv, Submitting, OnTheWay, BehindGate, Terminal, Status, Pending, Gateable, Decidable, AskedAgain, Ran, Asked, Passed
<1>4. GateInv'
  BY DEF IInv, RecordDenial, Finish, WithStatus, Publish, GateInv, TypeOK, FramesInv, SubmitInv, HistoryInv, Submitting, OnTheWay, BehindGate, Terminal, Status, Pending, Gateable, Decidable, AskedAgain, Ran, Asked, Passed
<1>5. HistoryInv'
  BY DEF IInv, RecordDenial, Finish, WithStatus, Publish, HistoryInv, TypeOK, FramesInv, SubmitInv, GateInv, Submitting, OnTheWay, Pending, Gateable, Decidable, AskedAgain, Ran, Asked, Passed, Status, Terminal
<1> QED BY <1>1, <1>2, <1>3, <1>4, <1>5 DEF IInv

LEMMA DispatchStep ==
  ASSUME IInv, NEW c \in Call, Dispatch(c)
  PROVE  IInv'
<1>1. TypeOK'
  BY DEF IInv, Dispatch, Finish, WithStatus, Publish, TypeOK, Terminal, Status, Location, Topic, FramesInv
<1>2. FramesInv'
  BY DEF IInv, Dispatch, Finish, WithStatus, Publish, FramesInv, TypeOK, Terminal, Status, Submitting, OnTheWay, Ended
<1>3. SubmitInv'
  BY DEF IInv, Dispatch, Finish, WithStatus, Publish, SubmitInv, TypeOK, FramesInv, GateInv, HistoryInv, Submitting, OnTheWay, BehindGate, Terminal, Status, Pending, Gateable, Decidable, AskedAgain, Ran, Asked, Passed
<1>4. GateInv'
  BY DEF IInv, Dispatch, Finish, WithStatus, Publish, GateInv, TypeOK, FramesInv, SubmitInv, HistoryInv, Submitting, OnTheWay, BehindGate, Terminal, Status, Pending, Gateable, Decidable, AskedAgain, Ran, Asked, Passed
<1>5. HistoryInv'
  BY DEF IInv, Dispatch, Finish, WithStatus, Publish, HistoryInv, TypeOK, FramesInv, SubmitInv, GateInv, Submitting, OnTheWay, Pending, Gateable, Decidable, AskedAgain, Ran, Asked, Passed, Status, Terminal
<1> QED BY <1>1, <1>2, <1>3, <1>4, <1>5 DEF IInv

LEMMA AnswerStep ==
  ASSUME IInv, NEW c \in Call, NEW s \in DispatchOutcome, Answer(c, s)
  PROVE  IInv'
<1>1. TypeOK'
  BY ActionServiceAssumption DEF IInv, Answer, Finish, WithStatus, DispatchOutcome, TypeOK, Terminal, Status, Location, Topic, FramesInv
<1>2. FramesInv'
  BY ActionServiceAssumption DEF IInv, Answer, Finish, WithStatus, DispatchOutcome, FramesInv, TypeOK, Terminal, Status, Submitting, OnTheWay, Ended
<1>3. SubmitInv'
  BY DEF IInv, Answer, Finish, WithStatus, DispatchOutcome, SubmitInv, TypeOK, FramesInv, GateInv, HistoryInv, Submitting, OnTheWay, BehindGate, Terminal, Status, Pending, Gateable, Decidable, AskedAgain, Ran, Asked, Passed
<1>4. /\ s \in Status /\ c \in sent /\ req[c] \in Req /\ outcome[c] = None /\ pc[c] = "waiting"
      /\ row' = [row EXCEPT ![req[c]] = s]
      /\ outcome' = [outcome EXCEPT ![c] = s]
      /\ pc' = [pc EXCEPT ![c] = "auditing"]
      /\ UNCHANGED <<req, op, seen, deadline, sweep, took, sent, expired, created>>
  BY ActionServiceAssumption
     DEF Answer, Finish, WithStatus, DispatchOutcome, IInv, TypeOK, FramesInv, GateInv, HistoryInv,
         OnTheWay, Ended, Passed, Status, Terminal
<1>5. \A r \in Req : /\ Ran(r)' = Ran(r) /\ (AskedAgain(r) => AskedAgain(r)')
                     /\ (Asked(r) => Asked(r)') /\ (Passed(r) => Passed(r)')
                     /\ row'[r] = "awaiting_approval" => row[r] = "awaiting_approval" \/ AskedAgain(r)'
  <2> TAKE r \in Req
  <2>1. Ran(r)' = Ran(r) /\ Ran(req[c])
    BY <1>4 DEF Ran
  <2>2. AskedAgain(r) => AskedAgain(r)'
    <3>1. sent \subseteq Call /\ outcome[c] # "awaiting_approval" /\ DOMAIN outcome = Call
      BY <1>4, ActionServiceAssumption DEF IInv, TypeOK, Status
    <3> QED BY <1>4, <3>1 DEF AskedAgain
  <2>3. row'[r] = "awaiting_approval" => row[r] = "awaiting_approval" \/ AskedAgain(r)'
    BY <1>4 DEF AskedAgain, IInv, TypeOK
  <2>4. row[r] # "none" => row'[r] # "none" /\ (row'[r] = row[r] \/ Ran(r))
    BY <1>4, <2>1 DEF IInv, TypeOK, Status, Terminal
  <2> QED BY <2>1, <2>2, <2>3, <2>4 DEF Asked, Passed
<1>6. \A r \in Req : Decidable(r) => Decidable(r)'
  BY <1>5 DEF Decidable, Gateable, NeedsApproval, RefusedOutright
<1>7. Ran(req[c])
  BY <1>4 DEF Ran
<1>8. GateInv'
  <2>1. \A r \in Req : row'[r] = "awaiting_approval" => Decidable(r)'
    BY <1>4, <1>5, <1>6 DEF IInv, GateInv, Decidable
  <2>2. \A d \in Call : pc'[d] = "taking" /\ Pending(seen'[d]) =>
          Decidable(req[d])' /\ Asked(req[d])' /\ deadline'[req[d]] = None
    BY <1>4, <1>5, <1>6 DEF IInv, GateInv, TypeOK, FramesInv
  <2>3. \A r \in sweep'.todo : Decidable(r)' /\ Asked(r)'
    BY <1>4, <1>5, <1>6 DEF IInv, GateInv, TypeOK
  <2>4. \A d \in Call : pc'[d] \in OnTheWay \cup {"granted"} => Passed(req[d])'
    BY <1>4, <1>5 DEF IInv, GateInv, TypeOK, FramesInv, OnTheWay
  <2>5. \A d \in sent' : Passed(req[d])'
    BY <1>4, <1>5 DEF IInv, GateInv, TypeOK, FramesInv, HistoryInv
  <2>6. \A r \in Req : deadline'[r] # None => row'[r] = "awaiting_approval" /\ ~Ran(r)'
    BY <1>4, <1>5, <1>7 DEF IInv, GateInv, TypeOK
  <2> QED BY <1>4, <2>1, <2>2, <2>3, <2>4, <2>5, <2>6 DEF GateInv, Decidable, Asked, Passed, AskedAgain, Ran, Gateable
<1>9. HistoryInv'
  <2>1. \A d \in took : d \in Call /\ req[d] \in Req
    BY DEF IInv, TypeOK, FramesInv, HistoryInv
  <2>2. \A r \in expired : r \in Req
    BY DEF IInv, TypeOK
  <2>3. (\A d \in took' : Decidable(req[d])') /\ (\A r \in expired' : Decidable(r)')
    BY <1>4, <1>6, <2>1, <2>2 DEF IInv, HistoryInv
  <2> QED BY <1>4, <2>3 DEF IInv, TypeOK, HistoryInv, Submitting, OnTheWay, Decidable, AskedAgain
<1> QED BY <1>1, <1>2, <1>3, <1>8, <1>9 DEF IInv

LEMMA AuditStep ==
  ASSUME IInv, NEW c \in Call, Audit(c)
  PROVE  IInv'
<1>1. TypeOK'
  BY DEF IInv, Audit, TypeOK, Terminal, Status, Location, Topic, FramesInv
<1>2. FramesInv'
  BY DEF IInv, Audit, FramesInv, TypeOK, Terminal, Submitting, OnTheWay, Ended
<1>3. SubmitInv'
  BY DEF IInv, Audit, SubmitInv, TypeOK, FramesInv, GateInv, HistoryInv, Submitting, OnTheWay, BehindGate, Terminal, Status, Pending, Gateable, Decidable, AskedAgain, Ran, Asked, Passed
<1>4. GateInv'
  BY DEF IInv, Audit, GateInv, TypeOK, FramesInv, SubmitInv, HistoryInv, Submitting, OnTheWay, BehindGate, Terminal, Status, Pending, Gateable, Decidable, AskedAgain, Ran, Asked, Passed
<1>5. HistoryInv'
  BY DEF IInv, Audit, HistoryInv, TypeOK, FramesInv, SubmitInv, GateInv, Submitting, OnTheWay, Pending, Gateable, Decidable, AskedAgain, Ran, Asked, Passed, Status, Terminal
<1> QED BY <1>1, <1>2, <1>3, <1>4, <1>5 DEF IInv

LEMMA AnnounceStep ==
  ASSUME IInv, NEW c \in Call, Announce(c)
  PROVE  IInv'
<1>1. TypeOK'
  BY DEF IInv, Announce, Publish, FinishTopic, TypeOK, Terminal, Status, Location, Topic, FramesInv
<1>2. FramesInv'
  BY DEF IInv, Announce, Publish, FinishTopic, FramesInv, TypeOK, Terminal, Submitting, OnTheWay, Ended
<1>3. SubmitInv'
  BY DEF IInv, Announce, Publish, FinishTopic, SubmitInv, TypeOK, FramesInv, GateInv, HistoryInv, Submitting, OnTheWay, BehindGate, Terminal, Status, Pending, Gateable, Decidable, AskedAgain, Ran, Asked, Passed
<1>4. GateInv'
  BY DEF IInv, Announce, Publish, FinishTopic, GateInv, TypeOK, FramesInv, SubmitInv, HistoryInv, Submitting, OnTheWay, BehindGate, Terminal, Status, Pending, Gateable, Decidable, AskedAgain, Ran, Asked, Passed
<1>5. HistoryInv'
  BY DEF IInv, Announce, Publish, FinishTopic, HistoryInv, TypeOK, FramesInv, SubmitInv, GateInv, Submitting, OnTheWay, Pending, Gateable, Decidable, AskedAgain, Ran, Asked, Passed, Status, Terminal
<1> QED BY <1>1, <1>2, <1>3, <1>4, <1>5 DEF IInv

LEMMA SweepListStep ==
  ASSUME IInv, SweepList
  PROVE  IInv'
<1>0. /\ sweep'.pc = "listed" /\ sweep'.at \in Nat
      /\ sweep'.todo \subseteq Req /\ sweep'.on = sweep.on
      /\ sweep' = [pc |-> sweep'.pc, at |-> sweep'.at, todo |-> sweep'.todo, on |-> sweep'.on]
  BY DEF IInv, TypeOK, SweepList, IsNewestPage, Waiting, Gateable, Decidable, AskedAgain, Ran, Asked, Passed, Status, Terminal
<1>1. TypeOK'
  BY <1>0 DEF IInv, SweepList, IsNewestPage, Waiting, TypeOK, Terminal, Status, Location, Topic, FramesInv
<1>2. FramesInv'
  BY DEF IInv, SweepList, IsNewestPage, Waiting, FramesInv, TypeOK, Terminal, Submitting, OnTheWay, Ended
<1>3. SubmitInv'
  BY DEF IInv, SweepList, IsNewestPage, Waiting, SubmitInv, TypeOK, FramesInv, GateInv, HistoryInv, Submitting, OnTheWay, BehindGate, Terminal, Status, Pending, Gateable, Decidable, AskedAgain, Ran, Asked, Passed
<1>4. GateInv'
  BY DEF IInv, SweepList, IsNewestPage, Waiting, GateInv, TypeOK, FramesInv, SubmitInv, HistoryInv, Submitting, OnTheWay, BehindGate, Terminal, Status, Pending, Gateable, Decidable, AskedAgain, Ran, Asked, Passed
<1>5. HistoryInv'
  BY DEF IInv, SweepList, IsNewestPage, Waiting, HistoryInv, TypeOK, FramesInv, SubmitInv, GateInv, Submitting, OnTheWay, Pending, Gateable, Decidable, AskedAgain, Ran, Asked, Passed, Status, Terminal
<1> QED BY <1>1, <1>2, <1>3, <1>4, <1>5 DEF IInv

LEMMA SweepExpireStep ==
  ASSUME IInv, NEW r \in Req, SweepExpire(r)
  PROVE  IInv'
<1>1. TypeOK'
  BY ZenonT(60) DEF IInv, SweepExpire, Stale, Popped, WithStatus, TypeOK, Terminal, Status, Location, Topic, FramesInv
<1>2. FramesInv'
  BY DEF IInv, SweepExpire, Stale, Popped, WithStatus, FramesInv, TypeOK, Terminal, Submitting, OnTheWay, Ended
<1>3. SubmitInv'
  BY DEF IInv, SweepExpire, Stale, Popped, WithStatus, SubmitInv, TypeOK, FramesInv, GateInv, HistoryInv, Submitting, OnTheWay, BehindGate, Terminal, Status, Pending, Gateable, Decidable, AskedAgain, Ran, Asked, Passed
<1>4. GateInv'
  BY DEF IInv, SweepExpire, Stale, Popped, WithStatus, GateInv, TypeOK, FramesInv, SubmitInv, HistoryInv, Submitting, OnTheWay, BehindGate, Terminal, Status, Pending, Gateable, Decidable, AskedAgain, Ran, Asked, Passed
<1>5. HistoryInv'
  BY DEF IInv, SweepExpire, Stale, Popped, WithStatus, HistoryInv, TypeOK, FramesInv, SubmitInv, GateInv, Submitting, OnTheWay, Pending, Gateable, Decidable, AskedAgain, Ran, Asked, Passed, Status, Terminal
<1> QED BY <1>1, <1>2, <1>3, <1>4, <1>5 DEF IInv

LEMMA SweepAuditStep ==
  ASSUME IInv, SweepAudit
  PROVE  IInv'
<1>1. TypeOK'
  BY DEF IInv, SweepAudit, TypeOK, Terminal, Status, Location, Topic, FramesInv
<1>2. FramesInv'
  BY DEF IInv, SweepAudit, FramesInv, TypeOK, Terminal, Submitting, OnTheWay, Ended
<1>3. SubmitInv'
  BY DEF IInv, SweepAudit, SubmitInv, TypeOK, FramesInv, GateInv, HistoryInv, Submitting, OnTheWay, BehindGate, Terminal, Status, Pending, Gateable, Decidable, AskedAgain, Ran, Asked, Passed
<1>4. GateInv'
  BY DEF IInv, SweepAudit, GateInv, TypeOK, FramesInv, SubmitInv, HistoryInv, Submitting, OnTheWay, BehindGate, Terminal, Status, Pending, Gateable, Decidable, AskedAgain, Ran, Asked, Passed
<1>5. HistoryInv'
  BY DEF IInv, SweepAudit, HistoryInv, TypeOK, FramesInv, SubmitInv, GateInv, Submitting, OnTheWay, Pending, Gateable, Decidable, AskedAgain, Ran, Asked, Passed, Status, Terminal
<1> QED BY <1>1, <1>2, <1>3, <1>4, <1>5 DEF IInv

LEMMA SweepAnnounceStep ==
  ASSUME IInv, SweepAnnounce
  PROVE  IInv'
<1>0. published' \subseteq [topic : Topic, req : Req, src : Call \cup {Sweeper}]
  BY DEF IInv, TypeOK, FramesInv, SweepAnnounce, Publish, FinishTopic, Topic
<1>1. TypeOK'
  BY <1>0 DEF IInv, SweepAnnounce, Publish, FinishTopic, TypeOK, Terminal, Status, Location, Topic, FramesInv
<1>2. FramesInv'
  BY DEF IInv, SweepAnnounce, Publish, FinishTopic, FramesInv, TypeOK, Terminal, Submitting, OnTheWay, Ended
<1>3. SubmitInv'
  BY DEF IInv, SweepAnnounce, Publish, FinishTopic, SubmitInv, TypeOK, FramesInv, GateInv, HistoryInv, Submitting, OnTheWay, BehindGate, Terminal, Status, Pending, Gateable, Decidable, AskedAgain, Ran, Asked, Passed
<1>4. GateInv'
  BY DEF IInv, SweepAnnounce, Publish, FinishTopic, GateInv, TypeOK, FramesInv, SubmitInv, HistoryInv, Submitting, OnTheWay, BehindGate, Terminal, Status, Pending, Gateable, Decidable, AskedAgain, Ran, Asked, Passed
<1>5. HistoryInv'
  BY DEF IInv, SweepAnnounce, Publish, FinishTopic, HistoryInv, TypeOK, FramesInv, SubmitInv, GateInv, Submitting, OnTheWay, Pending, Gateable, Decidable, AskedAgain, Ran, Asked, Passed, Status, Terminal
<1> QED BY <1>1, <1>2, <1>3, <1>4, <1>5 DEF IInv

LEMMA SweepEndStep ==
  ASSUME IInv, SweepEnd
  PROVE  IInv'
<1>1. TypeOK'
  BY DEF IInv, SweepEnd, Asleep, TypeOK, Terminal, Status, Location, Topic, FramesInv
<1>2. FramesInv'
  BY DEF IInv, SweepEnd, Asleep, FramesInv, TypeOK, Terminal, Submitting, OnTheWay, Ended
<1>3. SubmitInv'
  BY DEF IInv, SweepEnd, Asleep, SubmitInv, TypeOK, FramesInv, GateInv, HistoryInv, Submitting, OnTheWay, BehindGate, Terminal, Status, Pending, Gateable, Decidable, AskedAgain, Ran, Asked, Passed
<1>4. GateInv'
  BY DEF IInv, SweepEnd, Asleep, GateInv, TypeOK, FramesInv, SubmitInv, HistoryInv, Submitting, OnTheWay, BehindGate, Terminal, Status, Pending, Gateable, Decidable, AskedAgain, Ran, Asked, Passed
<1>5. HistoryInv'
  BY DEF IInv, SweepEnd, Asleep, HistoryInv, TypeOK, FramesInv, SubmitInv, GateInv, Submitting, OnTheWay, Pending, Gateable, Decidable, AskedAgain, Ran, Asked, Passed, Status, Terminal
<1> QED BY <1>1, <1>2, <1>3, <1>4, <1>5 DEF IInv

LEMMA TickStep ==
  ASSUME IInv, Tick
  PROVE  IInv'
<1>1. TypeOK'
  BY DEF IInv, Tick, TypeOK, Terminal, Status, Location, Topic, FramesInv
<1>2. FramesInv'
  BY DEF IInv, Tick, FramesInv, TypeOK, Terminal, Submitting, OnTheWay, Ended
<1>3. SubmitInv'
  BY DEF IInv, Tick, SubmitInv, TypeOK, FramesInv, GateInv, HistoryInv, Submitting, OnTheWay, BehindGate, Terminal, Status, Pending, Gateable, Decidable, AskedAgain, Ran, Asked, Passed
<1>4. GateInv'
  BY DEF IInv, Tick, GateInv, TypeOK, FramesInv, SubmitInv, HistoryInv, Submitting, OnTheWay, BehindGate, Terminal, Status, Pending, Gateable, Decidable, AskedAgain, Ran, Asked, Passed
<1>5. HistoryInv'
  BY DEF IInv, Tick, HistoryInv, TypeOK, FramesInv, SubmitInv, GateInv, Submitting, OnTheWay, Pending, Gateable, Decidable, AskedAgain, Ran, Asked, Passed, Status, Terminal
<1> QED BY <1>1, <1>2, <1>3, <1>4, <1>5 DEF IInv

LEMMA DevicePairedStep ==
  ASSUME IInv, NEW d \in Device, DevicePaired(d)
  PROVE  IInv'
<1>1. TypeOK'
  BY DEF IInv, DevicePaired, DeviceChange, TypeOK, Terminal, Status, Location, Topic, FramesInv
<1>2. FramesInv'
  BY DEF IInv, DevicePaired, DeviceChange, FramesInv, TypeOK, Terminal, Submitting, OnTheWay, Ended
<1>3. SubmitInv'
  BY DEF IInv, DevicePaired, DeviceChange, SubmitInv, TypeOK, FramesInv, GateInv, HistoryInv, Submitting, OnTheWay, BehindGate, Terminal, Status, Pending, Gateable, Decidable, AskedAgain, Ran, Asked, Passed
<1>4. GateInv'
  BY DEF IInv, DevicePaired, DeviceChange, GateInv, TypeOK, FramesInv, SubmitInv, HistoryInv, Submitting, OnTheWay, BehindGate, Terminal, Status, Pending, Gateable, Decidable, AskedAgain, Ran, Asked, Passed
<1>5. HistoryInv'
  BY DEF IInv, DevicePaired, DeviceChange, HistoryInv, TypeOK, FramesInv, SubmitInv, GateInv, Submitting, OnTheWay, Pending, Gateable, Decidable, AskedAgain, Ran, Asked, Passed, Status, Terminal
<1> QED BY <1>1, <1>2, <1>3, <1>4, <1>5 DEF IInv

LEMMA DeviceUpStep ==
  ASSUME IInv, NEW d \in Device, DeviceUp(d)
  PROVE  IInv'
<1>1. TypeOK'
  BY DEF IInv, DeviceUp, DeviceChange, TypeOK, Terminal, Status, Location, Topic, FramesInv
<1>2. FramesInv'
  BY DEF IInv, DeviceUp, DeviceChange, FramesInv, TypeOK, Terminal, Submitting, OnTheWay, Ended
<1>3. SubmitInv'
  BY DEF IInv, DeviceUp, DeviceChange, SubmitInv, TypeOK, FramesInv, GateInv, HistoryInv, Submitting, OnTheWay, BehindGate, Terminal, Status, Pending, Gateable, Decidable, AskedAgain, Ran, Asked, Passed
<1>4. GateInv'
  BY DEF IInv, DeviceUp, DeviceChange, GateInv, TypeOK, FramesInv, SubmitInv, HistoryInv, Submitting, OnTheWay, BehindGate, Terminal, Status, Pending, Gateable, Decidable, AskedAgain, Ran, Asked, Passed
<1>5. HistoryInv'
  BY DEF IInv, DeviceUp, DeviceChange, HistoryInv, TypeOK, FramesInv, SubmitInv, GateInv, Submitting, OnTheWay, Pending, Gateable, Decidable, AskedAgain, Ran, Asked, Passed, Status, Terminal
<1> QED BY <1>1, <1>2, <1>3, <1>4, <1>5 DEF IInv

LEMMA DeviceDownStep ==
  ASSUME IInv, NEW d \in Device, DeviceDown(d)
  PROVE  IInv'
<1>1. TypeOK'
  BY DEF IInv, DeviceDown, DeviceChange, TypeOK, Terminal, Status, Location, Topic, FramesInv
<1>2. FramesInv'
  BY DEF IInv, DeviceDown, DeviceChange, FramesInv, TypeOK, Terminal, Submitting, OnTheWay, Ended
<1>3. SubmitInv'
  BY DEF IInv, DeviceDown, DeviceChange, SubmitInv, TypeOK, FramesInv, GateInv, HistoryInv, Submitting, OnTheWay, BehindGate, Terminal, Status, Pending, Gateable, Decidable, AskedAgain, Ran, Asked, Passed
<1>4. GateInv'
  BY DEF IInv, DeviceDown, DeviceChange, GateInv, TypeOK, FramesInv, SubmitInv, HistoryInv, Submitting, OnTheWay, BehindGate, Terminal, Status, Pending, Gateable, Decidable, AskedAgain, Ran, Asked, Passed
<1>5. HistoryInv'
  BY DEF IInv, DeviceDown, DeviceChange, HistoryInv, TypeOK, FramesInv, SubmitInv, GateInv, Submitting, OnTheWay, Pending, Gateable, Decidable, AskedAgain, Ran, Asked, Passed, Status, Terminal
<1> QED BY <1>1, <1>2, <1>3, <1>4, <1>5 DEF IInv

LEMMA RestartStep ==
  ASSUME IInv, Restart
  PROVE  IInv'
<1>1. TypeOK'
  BY DEF IInv, Restart, Asleep, InFlight, Online, TypeOK, Terminal, Status, Location, Topic, FramesInv
<1>2. FramesInv'
  BY DEF IInv, Restart, Asleep, InFlight, Online, FramesInv, TypeOK, Terminal, Submitting, OnTheWay, Ended
<1>3. SubmitInv'
  BY DEF IInv, Restart, Asleep, InFlight, Online, SubmitInv, TypeOK, FramesInv, GateInv, HistoryInv, Submitting, OnTheWay, BehindGate, Terminal, Status, Pending, Gateable, Decidable, AskedAgain, Ran, Asked, Passed
<1>4. GateInv'
  BY DEF IInv, Restart, Asleep, InFlight, Online, GateInv, TypeOK, FramesInv, SubmitInv, HistoryInv, Submitting, OnTheWay, BehindGate, Terminal, Status, Pending, Gateable, Decidable, AskedAgain, Ran, Asked, Passed
<1>5. HistoryInv'
  BY DEF IInv, Restart, Asleep, InFlight, Online, HistoryInv, TypeOK, FramesInv, SubmitInv, GateInv, Submitting, OnTheWay, Pending, Gateable, Decidable, AskedAgain, Ran, Asked, Passed, Status, Terminal
<1> QED BY <1>1, <1>2, <1>3, <1>4, <1>5 DEF IInv

-----------------------------------------------------------------------------

LEMMA InitIInv == Init => IInv
<1> SUFFICES ASSUME Init PROVE IInv
  OBVIOUS
<1>1. TypeOK
  BY ActionServiceAssumption DEF Init, TypeOK, Asleep, Status, Terminal, Location
<1>2. FramesInv /\ SubmitInv
  BY ActionServiceAssumption DEF Init, FramesInv, SubmitInv, Submitting, OnTheWay, Ended, Asleep
<1>3. GateInv /\ HistoryInv
  BY DEF Init, GateInv, HistoryInv, Submitting, OnTheWay, Asleep, Pending
<1> QED BY <1>1, <1>2, <1>3 DEF IInv

LEMMA StutterIInv == ASSUME IInv, UNCHANGED vars PROVE IInv'
<1>1. TypeOK' /\ FramesInv' /\ SubmitInv'
  BY DEF IInv, TypeOK, FramesInv, SubmitInv, Ran, vars
<1>2. GateInv' /\ HistoryInv'
  BY DEF IInv, GateInv, HistoryInv, Gateable, Decidable, AskedAgain, Ran, Asked, Passed, vars
<1> QED BY <1>1, <1>2 DEF IInv

LEMMA StepIInv == IInv /\ [Next]_vars => IInv'
<1> SUFFICES ASSUME IInv, [Next]_vars PROVE IInv'
  OBVIOUS
<1>1. ASSUME NEW c \in Call, Begin(c) PROVE IInv'
  BY <1>1, SubmitStep, ApproveStep, DenyStep DEF Begin
<1>2. ASSUME NEW c \in Call, Continue(c) PROVE IInv'
  BY <1>2, RejectUnknownDeviceStep, SaveActionStep, RefuseCriticalStep, RequestApprovalStep,
     AskUserStep, RunUngatedStep, ApprovalNotFoundStep, GrantApprovalStep, RunApprovedStep,
     RecordDenialStep, DispatchStep, AnswerStep, AuditStep, AnnounceStep DEF Continue
<1>3. CASE Sweep
  BY <1>3, SweepListStep, SweepExpireStep, SweepAuditStep, SweepAnnounceStep, SweepEndStep
     DEF Sweep
<1>4. CASE Environment
  BY <1>4, TickStep, RestartStep, DevicePairedStep, DeviceUpStep, DeviceDownStep DEF Environment
<1>5. CASE UNCHANGED vars
  BY <1>5, StutterIInv
<1> QED BY <1>1, <1>2, <1>3, <1>4, <1>5 DEF Next

THEOREM Invariance == Spec => []IInv
BY InitIInv, StepIInv, PTL DEF Spec

\* The state of the service is well typed whatever happens.
THEOREM TypeCorrect == Spec => []TypeOK
<1>1. IInv => TypeOK
  BY DEF IInv
<1> QED BY <1>1, Invariance, PTL

\* No device runs a HIGH or CRITICAL request that no person approved.
THEOREM PersonApproves == Spec => []GatedNeedsPerson
<1>1. IInv => GatedNeedsPerson
  BY DEF IInv, TypeOK, FramesInv, HistoryInv, GatedNeedsPerson, Gateable
<1> QED BY <1>1, Invariance, PTL

\* Whoever dispatched a request had decided it.
LEMMA DispatchersDecided ==
  ASSUME IInv, NEW r \in Req
  PROVE  /\ Dispatchers(r) \subseteq Deciders(r)
         /\ \A c \in Dispatchers(r) : c \in Call /\ op[c] # "deny" /\ Ran(r)
  BY DEF IInv, TypeOK, HistoryInv, Dispatchers, Deciders, Ran

\* A request that at most one call or sweep decided is dispatched at most once,
\* and not at all when that decision was a denial or an expiry.
THEOREM SoleDecisionSafe == Spec => []SoleDecisionRunsOnce
<1>1. ASSUME IInv, NEW r \in Req, SoleDecision(r)
      PROVE  /\ \A a, b \in Dispatchers(r) : a = b
             /\ Dispatchers(r) # {} => /\ r \notin expired
                                       /\ \A c \in Deciders(r) : op[c] # "deny"
  <2>1. \A a, b \in Dispatchers(r) : a = b
    BY <1>1, DispatchersDecided DEF SoleDecision
  <2>2. ASSUME NEW c \in Dispatchers(r), r \in expired PROVE FALSE
    <3>1. c \in Deciders(r) /\ Sweeper \in Deciders(r) /\ c # Sweeper
      BY <1>1, <2>2, DispatchersDecided, ActionServiceAssumption DEF Deciders
    <3> QED BY <1>1, <3>1 DEF SoleDecision
  <2>3. ASSUME NEW c \in Dispatchers(r), NEW d \in Deciders(r) PROVE op[d] # "deny"
    <3>1. c = d /\ op[c] # "deny"
      BY <1>1, DispatchersDecided DEF SoleDecision
    <3> QED BY <3>1
  <2> QED BY <2>1, <2>2, <2>3
<1>2. IInv => SoleDecisionRunsOnce
  BY <1>1 DEF SoleDecisionRunsOnce
<1> QED BY <1>2, Invariance, PTL

\* The deadline table only holds requests that still wait.
THEOREM DeadlinesBounded == Spec => []DeadlinesArePending
<1>1. IInv => DeadlinesArePending
  BY DEF IInv, GateInv, DeadlinesArePending
<1> QED BY <1>1, Invariance, PTL

\* The one step that takes a row back in front of the gate: an agent's answer.
Reopens(r) ==
  \E c \in Dispatchers(r) : pc[c] = "waiting" /\ pc'[c] = "auditing" /\ outcome'[c] = row'[r]

LEMMA StaysBehindGate ==
  ASSUME IInv, [Next]_vars, NEW r \in Req, row[r] \in BehindGate
  PROVE  row'[r] \in BehindGate \/ (Reopens(r) /\ row'[r] # "none")
<1> USE DEF IInv, TypeOK, BehindGate, Status, Terminal, WithStatus
<1>1. ASSUME NEW c \in Call, Begin(c) PROVE row'[r] \in BehindGate
  BY <1>1 DEF Begin, Submit, Approve, Deny, TakePending
<1>2. ASSUME NEW c \in Call, Continue(c) PROVE row'[r] \in BehindGate \/ (Reopens(r) /\ row'[r] # "none")
  <2>1. CASE SaveAction(c) \/ RequestApproval(c)
    BY <2>1 DEF SaveAction, RequestApproval, SubmitInv, FramesInv
  <2>2. CASE RejectUnknownDevice(c) \/ RefuseCritical(c) \/ RunUngated(c) \/ AskUser(c)
    BY <2>2 DEF RejectUnknownDevice, RefuseCritical, RunUngated, AskUser, Run, Finish, FramesInv
  <2>3. CASE ApprovalNotFound(c) \/ GrantApproval(c) \/ RunApproved(c) \/ RecordDenial(c)
    BY <2>3 DEF ApprovalNotFound, GrantApproval, RunApproved, RecordDenial, Run, Finish, FramesInv
  <2>4. CASE Dispatch(c)
    BY <2>4 DEF Dispatch, Finish, FramesInv
  <2>5. ASSUME NEW s \in DispatchOutcome, Answer(c, s)
        PROVE  row'[r] \in BehindGate \/ (Reopens(r) /\ row'[r] # "none")
    <3>1. /\ s # "none" /\ c \in sent /\ pc[c] = "waiting" /\ pc'[c] = "auditing" /\ outcome'[c] = s
          /\ row' = [row EXCEPT ![req[c]] = s] \/ row' = row
      BY <2>5, ActionServiceAssumption DEF Answer, DispatchOutcome, Finish, HistoryInv
    <3> QED BY <3>1 DEF Reopens, Dispatchers
  <2>6. CASE Audit(c) \/ Announce(c)
    BY <2>6 DEF Audit, Announce
  <2> QED BY <1>2, <2>1, <2>2, <2>3, <2>4, <2>5, <2>6 DEF Continue
<1>3. CASE Sweep
  BY <1>3, ZenonT(60) DEF Sweep, SweepList, SweepExpire, SweepAudit, SweepAnnounce, SweepEnd
<1>4. CASE Environment
  BY <1>4 DEF Environment, Tick, Restart, DevicePaired, DeviceUp, DeviceDown, DeviceChange
<1>5. CASE UNCHANGED vars
  BY <1>5 DEF vars
<1> QED BY <1>1, <1>2, <1>3, <1>4, <1>5 DEF Next

\* No call, no sweep and no restart reopens a decision: only the answer of the
\* device that the request was dispatched to, and then with the status it gave.
THEOREM OnlyDevicesReopen == Spec => OnlyItsDeviceReopens
<1>1. ASSUME IInv, [Next]_vars, NEW r \in Req, row[r] \in BehindGate, row'[r] \notin BehindGate
      PROVE  \E c \in Dispatchers(r) : pc[c] = "waiting" /\ pc'[c] = "auditing" /\ outcome'[c] = row'[r]
  BY <1>1, StaysBehindGate DEF Reopens
<1>2. IInv /\ [Next]_vars =>
        [\A r \in Req : row[r] \in BehindGate /\ row'[r] \notin BehindGate =>
           \E c \in Dispatchers(r) : pc[c] = "waiting" /\ pc'[c] = "auditing" /\ outcome'[c] = row'[r]]_vars
  BY <1>1
<1> QED BY <1>2, Invariance, PTL DEF Spec, OnlyItsDeviceReopens

\* A row is never deleted (storage.py has no such statement).
LEMMA RowStays ==
  ASSUME IInv, [Next]_vars, NEW r \in Req, row[r] # "none"
  PROVE  row'[r] # "none"
<1> USE DEF IInv, TypeOK, WithStatus
<1>1. ASSUME NEW c \in Call, Begin(c) PROVE row'[r] # "none"
  BY <1>1 DEF Begin, Submit, Approve, Deny, TakePending
<1>2. ASSUME NEW c \in Call, Continue(c) PROVE row'[r] # "none"
  <2>1. CASE SaveAction(c) \/ RequestApproval(c) \/ RejectUnknownDevice(c) \/ RefuseCritical(c)
    BY <2>1 DEF SaveAction, RequestApproval, RejectUnknownDevice, RefuseCritical, Finish
  <2>2. CASE RunUngated(c) \/ AskUser(c) \/ ApprovalNotFound(c) \/ GrantApproval(c)
    BY <2>2 DEF RunUngated, AskUser, ApprovalNotFound, GrantApproval, Run, Finish
  <2>3. CASE RunApproved(c) \/ RecordDenial(c) \/ Dispatch(c) \/ Audit(c) \/ Announce(c)
    BY <2>3 DEF RunApproved, RecordDenial, Dispatch, Audit, Announce, Run, Finish
  <2>4. ASSUME NEW s \in DispatchOutcome, Answer(c, s) PROVE row'[r] # "none"
    BY <2>4, ActionServiceAssumption DEF Answer, DispatchOutcome, Finish, Status, Terminal
  <2> QED BY <1>2, <2>1, <2>2, <2>3, <2>4 DEF Continue
<1>3. CASE Sweep
  BY <1>3, ZenonT(60) DEF Sweep, SweepList, SweepExpire, SweepAudit, SweepAnnounce, SweepEnd
<1>4. CASE Environment \/ UNCHANGED vars
  BY <1>4 DEF Environment, Tick, Restart, DevicePaired, DeviceUp, DeviceDown, DeviceChange, vars
<1> QED BY <1>1, <1>2, <1>3, <1>4 DEF Next

\* A call in a history keeps its frame, and the histories only grow.
LEMMA HistoryGrows ==
  ASSUME IInv, [Next]_vars
  PROVE  /\ took \subseteq took' /\ sent \subseteq sent' /\ expired \subseteq expired'
         /\ \A c \in took \cup sent : c \in Call /\ req'[c] = req[c] /\ op'[c] = op[c]
<1>1. \A c \in took \cup sent : c \in Call /\ pc[c] # "idle"
  BY DEF IInv, TypeOK, HistoryInv
<1>2. ASSUME NEW d \in Call, Begin(d)
      PROVE  /\ UNCHANGED <<took, sent, expired>>
             /\ \A c \in took \cup sent : req'[c] = req[c] /\ op'[c] = op[c]
  BY <1>1, <1>2 DEF Begin, Submit, Approve, Deny, TakePending, IInv, TypeOK
<1>3. ASSUME NEW d \in Call, Continue(d)
      PROVE  /\ took \subseteq took' /\ sent \subseteq sent' /\ UNCHANGED <<expired, req, op>>
  <2>1. CASE SaveAction(d) \/ RequestApproval(d) \/ RejectUnknownDevice(d) \/ RefuseCritical(d)
    BY <2>1 DEF SaveAction, RequestApproval, RejectUnknownDevice, RefuseCritical
  <2>2. CASE RunUngated(d) \/ AskUser(d) \/ ApprovalNotFound(d) \/ GrantApproval(d)
    BY <2>2 DEF RunUngated, AskUser, ApprovalNotFound, GrantApproval
  <2>3. CASE RunApproved(d) \/ RecordDenial(d) \/ Dispatch(d) \/ Audit(d) \/ Announce(d)
    BY <2>3 DEF RunApproved, RecordDenial, Dispatch, Audit, Announce
  <2>4. ASSUME NEW s \in DispatchOutcome, Answer(d, s) PROVE UNCHANGED <<took, sent, expired, req, op>>
    BY <2>4 DEF Answer
  <2> QED BY <1>3, <2>1, <2>2, <2>3, <2>4 DEF Continue
<1>4. ASSUME Sweep \/ Environment \/ UNCHANGED vars
      PROVE  UNCHANGED <<took, sent, req, op>> /\ expired \subseteq expired'
  BY <1>4 DEF Sweep, SweepList, SweepExpire, SweepAudit, SweepAnnounce, SweepEnd, Environment,
              Tick, Restart, DevicePaired, DeviceUp, DeviceDown, DeviceChange, vars
<1> QED BY <1>1, <1>2, <1>3, <1>4 DEF Next

\* A request that was let through never is as if nobody had been asked.
LEMMA PassedStays ==
  ASSUME IInv, [Next]_vars, NEW r \in Req, Passed(r)
  PROVE  Passed(r)'
<1>1. Ran(r) => Ran(r)'
  BY HistoryGrows DEF Ran
<1>2. row'[r] # "none"
  BY RowStays DEF Passed
<1>3. CASE row[r] \in BehindGate
  <2>1. row'[r] \notin BehindGate => Ran(r)
    BY <1>3, StaysBehindGate DEF Reopens, Dispatchers, Ran
  <2> QED BY <1>1, <1>2, <2>1 DEF Passed, BehindGate
<1>4. CASE row[r] \notin BehindGate
  BY <1>1, <1>2, <1>4 DEF Passed, BehindGate, IInv, TypeOK
<1> QED BY <1>3, <1>4

-----------------------------------------------------------------------------
(* The service implements ApprovalGate. *)

GatedReqs == {r \in Req : RiskOf[r] \in {"high", "critical"}}

\* Nothing the gate speaks of has changed.
SameGate == stageOf' = stageOf /\ grantsOf' = grantsOf /\ ranOf' = ranOf

LEMMA GatedAreRequestsHere == GatedReqs \subseteq Req
BY DEF GatedReqs

\* A step that leaves the rows and the histories alone, and the frames of
\* every call in a history, is not seen by the gate.
LEMMA UnseenByGate ==
  ASSUME IInv, row' = row, took' = took, sent' = sent,
         \A c \in took \cup sent : req'[c] = req[c] /\ op'[c] = op[c]
  PROVE  SameGate
<1>1. stageOf' = stageOf
  BY DEF stageOf, Dispatchers
<1>2. grantsOf' = grantsOf
  BY DEF grantsOf
<1>3. ranOf' = ranOf
  BY DEF ranOf
<1> QED BY <1>1, <1>2, <1>3 DEF SameGate

\* Writing the stage that a request has already changes nothing.
LEMMA SameStage ==
  ASSUME NEW r \in Req, stageOf' = [stageOf EXCEPT ![r] = stageOf[r]]
  PROVE  stageOf' = stageOf
<1>1. stageOf = [q \in Req |-> stageOf[q]]
  BY DEF stageOf
<1> QED BY <1>1

\* One status write moves at most that request's stage.
LEMMA StageOfWrite ==
  ASSUME IInv, NEW r \in Req, NEW s \in Status, row' = WithStatus(r, s), sent' = sent, req' = req
  PROVE  stageOf' = IF row[r] = "none" THEN stageOf
                    ELSE [stageOf EXCEPT ![r] =
                            CASE s = "pending" /\ Dispatchers(r) = {} -> "recorded"
                              [] s = "awaiting_approval" -> "waiting"
                              [] OTHER -> "decided"]
<1>1. \A q \in Req : Dispatchers(q)' = Dispatchers(q)
  BY DEF Dispatchers
<1> QED BY <1>1 DEF stageOf, WithStatus, IInv, TypeOK, Status, Terminal

\* A status behind the gate is a decision, or no change at all.
LEMMA DecisiveWrite ==
  ASSUME IInv, NEW r \in Req, NEW s \in BehindGate, row' = WithStatus(r, s),
         took' = took, sent' = sent, req' = req, op' = op
  PROVE  SameGate \/ ThePromise!Decide(r)
<1>1. grantsOf' = grantsOf /\ ranOf' = ranOf
  BY DEF grantsOf, ranOf
<1>2. CASE row[r] \in BehindGate \cup {"none"}
  <2>1. row[r] = "none" => stageOf' = stageOf
    BY StageOfWrite DEF BehindGate
  <2>2. row[r] \in BehindGate => stageOf[r] = "decided"
    BY DEF stageOf, BehindGate, Status, Terminal
  <2>3. ASSUME row[r] \in BehindGate PROVE stageOf' = stageOf
    <3>1. stageOf' = [stageOf EXCEPT ![r] = "decided"]
      BY <2>3, StageOfWrite DEF BehindGate, Status, Terminal
    <3>2. [stageOf EXCEPT ![r] = stageOf[r]] = stageOf
      BY DEF stageOf
    <3> QED BY <2>2, <2>3, <3>1, <3>2
  <2> QED BY <1>1, <1>2, <2>1, <2>3 DEF SameGate
<1>3. CASE row[r] \notin BehindGate \cup {"none"}
  <2>1. stageOf' = [stageOf EXCEPT ![r] = "decided"]
    BY <1>3, StageOfWrite DEF BehindGate, Status, Terminal
  <2>2. stageOf[r] \in {"recorded", "waiting", "decided"}
    BY <1>3 DEF stageOf
  <2>3. stageOf[r] = "decided" => stageOf' = stageOf
    BY <2>1 DEF stageOf
  <2> QED BY <1>1, <2>1, <2>2, <2>3 DEF ThePromise!Decide, SameGate
<1> QED BY <1>2, <1>3

GateStep == ThePromise!GateNext \/ SameGate

LEMMA BeginGate == ASSUME IInv, NEW c \in Call, Begin(c) PROVE GateStep
<1>1. c \notin took \cup sent /\ row' = row /\ took' = took /\ sent' = sent
  BY DEF Begin, Submit, Approve, Deny, TakePending, IInv, HistoryInv
<1>2. \A d \in took \cup sent : req'[d] = req[d] /\ op'[d] = op[d]
  BY <1>1 DEF Begin, Submit, Approve, Deny, TakePending, IInv, TypeOK
<1> QED BY <1>1, <1>2, UnseenByGate DEF GateStep

LEMMA SubmitGate ==
  ASSUME IInv, NEW c \in Call,
         \/ RejectUnknownDevice(c) \/ SaveAction(c) \/ RefuseCritical(c)
         \/ RequestApproval(c) \/ AskUser(c) \/ RunUngated(c)
  PROVE  GateStep
<1> USE DEF IInv, TypeOK, FramesInv, SubmitInv, Submitting
<1>1. CASE RejectUnknownDevice(c)
  BY <1>1, UnseenByGate DEF RejectUnknownDevice, Finish, WithStatus, GateStep
<1>2. CASE SaveAction(c)
  <2>1. /\ req[c] \in Req /\ row[req[c]] = "none" /\ row' = [row EXCEPT ![req[c]] = "pending"]
        /\ UNCHANGED <<op, req, took, sent>>
    BY <1>2 DEF SaveAction
  <2>2. Dispatchers(req[c]) = {} /\ \A q \in Req : Dispatchers(q)' = Dispatchers(q)
    BY <2>1 DEF Dispatchers, GateInv, Passed
  <2>3. stageOf[req[c]] = "absent" /\ stageOf' = [stageOf EXCEPT ![req[c]] = "recorded"]
    <3>1. stageOf[req[c]] = "absent" /\ stageOf = [q \in Req |-> stageOf[q]]
      BY <2>1 DEF stageOf
    <3>2. stageOf' = [q \in Req |-> IF q = req[c] THEN "recorded" ELSE stageOf[q]]
      BY <2>1, <2>2 DEF stageOf
    <3> QED BY <3>1, <3>2
  <2>4. grantsOf' = grantsOf /\ ranOf' = ranOf
    BY <2>1 DEF grantsOf, ranOf
  <2>5. ThePromise!Record(req[c])
    BY <2>3, <2>4 DEF ThePromise!Record
  <2> QED BY <2>1, <2>5 DEF GateStep, ThePromise!GateNext
<1>3. CASE RefuseCritical(c)
  <2>1. SameGate \/ ThePromise!Decide(req[c])
    BY <1>3, DecisiveWrite DEF RefuseCritical, Finish, BehindGate, Status, Terminal
  <2> QED BY <1>3, <2>1 DEF GateStep, ThePromise!GateNext, RefuseCritical
<1>4. CASE RequestApproval(c)
  <2>1. /\ req[c] \in Req /\ row[req[c]] = "pending" /\ ~Ran(req[c]) /\ req[c] \in GatedReqs
        /\ row' = WithStatus(req[c], "awaiting_approval") /\ UNCHANGED <<op, req, took, sent>>
    BY <1>4 DEF RequestApproval, NeedsApproval, GatedReqs
  <2>2. stageOf[req[c]] = "recorded"
    BY <2>1 DEF stageOf, Dispatchers, Ran
  <2>3. stageOf' = [stageOf EXCEPT ![req[c]] = "waiting"]
    BY <2>1, StageOfWrite DEF Status
  <2>4. grantsOf' = grantsOf /\ ranOf' = ranOf
    BY <2>1 DEF grantsOf, ranOf
  <2>5. ThePromise!Ask(req[c])
    BY <2>1, <2>2, <2>3, <2>4 DEF ThePromise!Ask, GatedReqs
  <2> QED BY <2>1, <2>5 DEF GateStep, ThePromise!GateNext
<1>5. CASE AskUser(c)
  BY <1>5, UnseenByGate DEF AskUser, GateStep
<1>6. CASE RunUngated(c)
  <2>1. SameGate \/ ThePromise!Decide(req[c])
    BY <1>6, DecisiveWrite, SMTT(60) DEF RunUngated, Run, Finish, BehindGate, Status, Terminal
  <2> QED BY <1>6, <2>1 DEF GateStep, ThePromise!GateNext, RunUngated
<1> QED BY <1>1, <1>2, <1>3, <1>4, <1>5, <1>6

LEMMA DecideGate ==
  ASSUME IInv, NEW c \in Call,
         ApprovalNotFound(c) \/ GrantApproval(c) \/ RunApproved(c) \/ RecordDenial(c)
  PROVE  GateStep
<1> USE DEF IInv, TypeOK, FramesInv
<1>1. CASE ApprovalNotFound(c)
  BY <1>1, UnseenByGate DEF ApprovalNotFound, GateStep
<1>2. CASE GrantApproval(c)
  <2>1. /\ req[c] \in Req /\ c \notin took /\ Asked(req[c])
        /\ req[c] \in GatedReqs \/ ThePromise!HasRun(req[c])
    <3>1. req[c] \in Req /\ c \notin took /\ Asked(req[c]) /\ Decidable(req[c])
      BY <1>2 DEF GrantApproval, GateInv, HistoryInv
    <3>2. Gateable(req[c]) => req[c] \in GatedReqs
      BY <3>1 DEF Gateable, GatedReqs, NeedsApproval
    <3>3. AskedAgain(req[c]) => ThePromise!HasRun(req[c])
      BY DEF AskedAgain, ThePromise!HasRun, ranOf
    <3> QED BY <3>1, <3>2, <3>3 DEF Decidable
  <2>2. stageOf' = [stageOf EXCEPT ![req[c]] = "decided"]
    BY <1>2, <2>1, StageOfWrite DEF GrantApproval, Asked, Status
  <2>3. grantsOf' = grantsOf \cup {<<c, req[c]>>} /\ ranOf' = ranOf
    BY <1>2 DEF GrantApproval, grantsOf, ranOf
  <2>4. \A q \in Req : <<c, q>> \notin grantsOf
    BY <2>1 DEF grantsOf
  <2>5. stageOf[req[c]] \in {"waiting", "decided"}
    BY <2>1 DEF stageOf, Asked, Ran, Dispatchers
  <2>6. ThePromise!Grant(c, req[c])
    BY <2>1, <2>2, <2>3, <2>4, <2>5 DEF ThePromise!Grant, GatedReqs
  <2> QED BY <2>1, <2>6 DEF GateStep, ThePromise!GateNext
<1>3. CASE RunApproved(c)
  <2>1. SameGate \/ ThePromise!Decide(req[c])
    BY <1>3, DecisiveWrite DEF RunApproved, Run, Finish, BehindGate, Status, Terminal
  <2> QED BY <1>3, <2>1 DEF GateStep, ThePromise!GateNext, RunApproved
<1>4. CASE RecordDenial(c)
  <2>1. req[c] \in Req /\ Asked(req[c])
    BY <1>4 DEF RecordDenial, GateInv
  <2>2. grantsOf' = grantsOf /\ ranOf' = ranOf
    BY <1>4 DEF RecordDenial, grantsOf, ranOf
  <2>3. stageOf' = [stageOf EXCEPT ![req[c]] = "decided"]
    BY <1>4, <2>1, StageOfWrite DEF RecordDenial, Finish, Asked, Status, Terminal
  <2>4. stageOf[req[c]] \in {"waiting", "decided"} /\ (stageOf[req[c]] = "decided" => stageOf' = stageOf)
    <3>1. stageOf[req[c]] \in {"waiting", "decided"}
      BY <2>1 DEF stageOf, Asked, Ran, Dispatchers
    <3> QED BY <2>1, <2>3, <3>1, SameStage
  <2>5. SameGate \/ ThePromise!Decide(req[c])
    BY <2>2, <2>3, <2>4 DEF SameGate, ThePromise!Decide
  <2> QED BY <2>1, <2>5 DEF GateStep, ThePromise!GateNext
<1> QED BY <1>1, <1>2, <1>3, <1>4

LEMMA DispatchGate ==
  ASSUME IInv, NEW c \in Call,
         \/ Dispatch(c) \/ (\E s \in DispatchOutcome : Answer(c, s))
         \/ Audit(c) \/ Announce(c)
  PROVE  GateStep
<1> USE DEF IInv, TypeOK, FramesInv
<1>1. CASE Dispatch(c) /\ Online(DeviceOf[req[c]])
  <2>1. req[c] \in Req /\ Passed(req[c]) /\ c \notin sent
    BY <1>1 DEF Dispatch, GateInv, HistoryInv, OnTheWay
  <2>2. <<c, req[c]>> \notin ranOf /\ stageOf[req[c]] \in {"waiting", "decided"}
    BY <2>1 DEF ranOf, stageOf, Passed, Ran, Dispatchers
  <2>3. <<c, req[c]>> \in grantsOf \/ (req[c] \notin GatedReqs /\ op[c] = "submit")
    BY <1>1 DEF Dispatch, HistoryInv, OnTheWay, GatedReqs, NeedsApproval, grantsOf
  <2>4. ASSUME req[c] \notin GatedReqs, op[c] = "submit", NEW b \in Call, <<b, req[c]>> \in ranOf
        PROVE  FALSE
    <3>1. b \in sent /\ req[b] = req[c] /\ ~NeedsApproval(req[b])
      BY <2>1, <2>4 DEF ranOf, GatedReqs, NeedsApproval
    <3>2. PICK e \in sent : req[e] = req[c] /\ op[e] = "submit"
      BY <3>1 DEF HistoryInv
    <3>3. pc[e] # "idle" /\ pc[c] # "idle" /\ e # c /\ e \in Call
      BY <1>1, <2>1, <3>2 DEF Dispatch, HistoryInv
    <3> QED BY <2>4, <3>2, <3>3 DEF SubmitInv
  <2>5. ranOf' = ranOf \cup {<<c, req[c]>>} /\ stageOf' = stageOf /\ grantsOf' = grantsOf
    <3>1. UNCHANGED <<row, req, op, took>> /\ sent' = sent \cup {c}
      BY <1>1 DEF Dispatch
    <3>2. \A q \in Req : row[q] = "pending" => (Dispatchers(q)' = {} <=> Dispatchers(q) = {})
      BY <2>1, <3>1 DEF Dispatchers, Passed, Ran
    <3> QED BY <3>1, <3>2 DEF ranOf, stageOf, grantsOf
  <2>6. ThePromise!Spend(c, req[c])
    BY <2>1, <2>2, <2>3, <2>4, <2>5 DEF ThePromise!Spend, ThePromise!HasRun, GatedReqs
  <2> QED BY <2>1, <2>6 DEF GateStep, ThePromise!GateNext
<1>2. CASE Dispatch(c) /\ ~Online(DeviceOf[req[c]])
  <2>1. SameGate \/ ThePromise!Decide(req[c])
    BY <1>2, DecisiveWrite DEF Dispatch, Finish, BehindGate, Status, Terminal
  <2> QED BY <1>2, <2>1 DEF GateStep, ThePromise!GateNext, Dispatch
<1>3. ASSUME NEW s \in DispatchOutcome, Answer(c, s) PROVE GateStep
  <2>1. /\ s \in Status /\ c \in sent /\ req[c] \in Req /\ Passed(req[c])
        /\ row' = WithStatus(req[c], s) /\ UNCHANGED <<op, req, took, sent>>
    BY <1>3, ActionServiceAssumption
       DEF Answer, Finish, DispatchOutcome, GateInv, HistoryInv, OnTheWay, Status, Terminal
  <2>2. c \in Dispatchers(req[c]) /\ stageOf[req[c]] \in {"waiting", "decided"}
    BY <2>1 DEF stageOf, Passed, Dispatchers
  <2>3. /\ stageOf' = [stageOf EXCEPT ![req[c]] = IF s = "awaiting_approval" THEN "waiting" ELSE "decided"]
        /\ grantsOf' = grantsOf /\ ranOf' = ranOf
    BY <2>1, <2>2, StageOfWrite DEF Passed, grantsOf, ranOf
  <2>4. stageOf'[req[c]] = IF s = "awaiting_approval" THEN "waiting" ELSE "decided"
    BY <2>1, <2>3 DEF stageOf
  <2>5. stageOf'[req[c]] = stageOf[req[c]] => stageOf' = stageOf
    BY <2>1, <2>3, <2>4, SameStage
  <2>6. ThePromise!HasRun(req[c])
    BY <2>1 DEF ThePromise!HasRun, ranOf
  <2>7. SameGate \/ ThePromise!Decide(req[c]) \/ ThePromise!AskAgain(req[c])
    BY <2>2, <2>3, <2>4, <2>5, <2>6 DEF SameGate, ThePromise!Decide, ThePromise!AskAgain
  <2> QED BY <2>1, <2>7 DEF GateStep, ThePromise!GateNext
<1>4. CASE Audit(c) \/ Announce(c)
  BY <1>4, UnseenByGate DEF Audit, Announce, GateStep
<1> QED BY <1>1, <1>2, <1>3, <1>4

LEMMA SweepGate == ASSUME IInv, Sweep PROVE GateStep
<1>1. ASSUME NEW r \in Req, SweepExpire(r) PROVE GateStep
  <2>1. SameGate \/ ThePromise!Decide(r)
    BY <1>1, DecisiveWrite DEF SweepExpire, BehindGate, Status, Terminal
  <2> QED BY <2>1 DEF GateStep, ThePromise!GateNext
<1>2. CASE SweepList \/ SweepAudit \/ SweepAnnounce \/ SweepEnd
  BY <1>2, UnseenByGate DEF SweepList, SweepAudit, SweepAnnounce, SweepEnd, GateStep
<1> QED BY <1>1, <1>2 DEF Sweep

\* The service keeps the promise of ApprovalGate: a gated request is dispatched
\* only by spending an approval accepted after it was put to the user, each
\* approval at most once, an ungated request once, and any request again only
\* by an approval after its device asked for one, across restarts too.
THEOREM KeepsThePromise == Spec => ImplementsGate
<1>1. Init => ThePromise!GateInit
  BY DEF Init, ThePromise!GateInit, stageOf, grantsOf, ranOf
<1>2. IInv /\ [Next]_vars => [ThePromise!GateNext]_(ThePromise!gateVars)
  <2> SUFFICES ASSUME IInv, [Next]_vars
               PROVE  ThePromise!GateNext \/ SameGate
    BY DEF SameGate, ThePromise!gateVars
  <2>1. ASSUME NEW c \in Call, Begin(c) \/ Continue(c) PROVE GateStep
    BY <2>1, BeginGate, SubmitGate, DecideGate, DispatchGate DEF Continue
  <2>2. CASE Sweep
    BY <2>2, SweepGate DEF GateStep
  <2>3. CASE Environment \/ UNCHANGED vars
    BY <2>3, UnseenByGate DEF Environment, Tick, Restart, DevicePaired, DeviceUp, DeviceDown,
                              DeviceChange, vars, GateStep
  <2> QED BY <2>1, <2>2, <2>3 DEF Next, GateStep
<1> QED BY <1>1, <1>2, Invariance, PTL DEF Spec, ImplementsGate, ThePromise!GateSpec

-----------------------------------------------------------------------------
(* The audit log tells of every settled request, once. *)

\* Each line was written by the call or the sweep that ended the request, and
\* that writer has not changed since.
LinesAreTheWriters ==
  /\ \A a \in audit :
       IF a.writer = Sweeper
         THEN a.req \in expired /\ a.result = "expired" /\ a.approver = None
         ELSE /\ a.req = req[a.writer] /\ a.result = outcome[a.writer]
              /\ a.approver = by[a.writer]
  /\ sweep.pc = "auditing" => sweep.on \in expired
  /\ \A c \in Call : pc[c] = "auditing" => outcome[c] # None

\* A submit that ended before anybody was asked about the request or ran it.
EndedEarly(c) == op[c] = "submit" /\ (row[req[c]] = "none" \/ (~Gateable(req[c]) /\ ~Ran(req[c])))

\* A call that ended a request had decided it, or submitted it outside the gate.
EndedByRight ==
  \A c \in Call : outcome[c] # None =>
    /\ pc[c] \in Ended
    /\ c \in took \/ (c \in sent /\ op[c] = "submit") \/ EndedEarly(c)

DecidedIsBehind ==
  /\ \A c \in took : Passed(req[c])
  /\ \A r \in expired : Passed(r)

\* What ended under a sole decision is what the row shows.
RowShowsTheEnd ==
  \A r \in Req : SoleDecision(r) =>
    /\ \A c \in Call : outcome[c] # None /\ req[c] = r => row[r] \in {"none", outcome[c]}
    /\ r \in expired => row[r] = "expired"

\* A terminal row has its line, or somebody who is about to write it.
EndIsTold ==
  \A r \in Req : crashes = 0 /\ row[r] \in Terminal =>
    \/ \E a \in audit : a.req = r /\ a.result = row[r]
    \/ \E c \in Call : pc[c] = "auditing" /\ req[c] = r /\ outcome[c] = row[r]
    \/ sweep.pc = "auditing" /\ sweep.on = r /\ row[r] = "expired"

AuditInv == LinesAreTheWriters /\ EndedByRight /\ DecidedIsBehind /\ RowShowsTheEnd /\ EndIsTold

\* The steps that may write the row of their own request.
RowStep(d) ==
  \/ pc[d] \in {"known_device", "saved", "granted"} \cup OnTheWay
  \/ GrantApproval(d) \/ RecordDenial(d)

\* A call ends its request.
Ends(d) ==
  /\ \E s \in Status : Finish(d, s)
  /\ pc[d] \notin Ended \cup {"idle"} /\ sent' = sent
  /\ d \in took' \/ (d \in sent /\ op[d] = "submit") \/ EndedEarly(d)
  /\ row[req[d]] = "none" \/ RowStep(d)

\* A call goes on without ending its request.
GoesOn(d) ==
  /\ pc[d] \notin Ended \cup {"idle"} /\ pc'[d] # "auditing"
  /\ UNCHANGED <<outcome, audit>>
  /\ row'[req[d]] = row[req[d]] \/ (RowStep(d) /\ row'[req[d]] \notin Terminal)

\* An ungated request is let through once: while its submit is on the way to
\* the device, nobody has dispatched it.
LEMMA FirstRun ==
  ASSUME IInv, NEW d \in Call, pc[d] = "starting", op[d] = "submit"
  PROVE  ~Gateable(req[d]) /\ ~Ran(req[d])
<1>1. d \notin sent /\ ~NeedsApproval(req[d])
  BY DEF IInv, HistoryInv, OnTheWay
<1>2. ASSUME NEW c \in sent, req[c] = req[d] PROVE FALSE
  <2>1. PICK e \in sent : req[e] = req[d] /\ op[e] = "submit"
    BY <1>1, <1>2 DEF IInv, HistoryInv
  <2>2. e \in Call /\ pc[e] # "idle" /\ e # d
    BY <1>1, <2>1 DEF IInv, HistoryInv, TypeOK
  <2> QED BY <2>1, <2>2 DEF IInv, SubmitInv
<1> QED BY <1>1, <1>2 DEF Ran, Gateable

LEMMA ContinueEnds ==
  ASSUME IInv, NEW d \in Call, Continue(d)
  PROVE  Audit(d) \/ Announce(d) \/ GoesOn(d) \/ (Ends(d) /\ UNCHANGED audit)
<1> USE DEF IInv, TypeOK, FramesInv, Ended
<1>1. CASE RejectUnknownDevice(d)
  BY <1>1 DEF RejectUnknownDevice, Ends, EndedEarly, Status, Terminal, SubmitInv, Submitting
<1>2. CASE RefuseCritical(d)
  BY <1>2 DEF RefuseCritical, Ends, EndedEarly, Status, Terminal, SubmitInv, Submitting, RowStep, Gateable
<1>3. CASE RunUngated(d)
  <2>1. CASE Finish(d, "device_offline")
    BY <1>3, <2>1 DEF RunUngated, Ends, EndedEarly, Status, Terminal, SubmitInv, Submitting, RowStep, Gateable
  <2>2. CASE row' = WithStatus(req[d], "running") /\ pc' = [pc EXCEPT ![d] = "starting"] /\ UNCHANGED outcome
    BY <1>3, <2>2 DEF RunUngated, GoesOn, WithStatus, Terminal, RowStep
  <2> QED BY <1>3, <2>1, <2>2 DEF RunUngated, Run
<1>4. CASE RunApproved(d)
  <2>1. CASE Finish(d, "device_offline")
    BY <1>4, <2>1 DEF RunApproved, Ends, Status, Terminal, RowStep, HistoryInv
  <2>2. CASE row' = WithStatus(req[d], "running") /\ pc' = [pc EXCEPT ![d] = "starting"] /\ UNCHANGED outcome
    BY <1>4, <2>2 DEF RunApproved, GoesOn, WithStatus, Terminal, RowStep
  <2> QED BY <1>4, <2>1, <2>2 DEF RunApproved, Run
<1>5. CASE RecordDenial(d)
  BY <1>5 DEF RecordDenial, Ends, Status, Terminal, RowStep
<1>6. CASE Dispatch(d)
  <2>1. CASE Finish(d, "device_offline")
    <3>1. d \in took \/ op[d] = "submit"
      BY <1>6 DEF Dispatch, HistoryInv, OnTheWay
    <3>2. op[d] = "submit" => EndedEarly(d)
      BY <1>6, FirstRun DEF Dispatch, EndedEarly
    <3> QED BY <1>6, <2>1, <3>1, <3>2 DEF Dispatch, Finish, Ends, Status, Terminal, RowStep, OnTheWay
  <2>2. CASE pc' = [pc EXCEPT ![d] = "waiting"] /\ UNCHANGED <<row, outcome>>
    BY <1>6, <2>2 DEF Dispatch, GoesOn
  <2> QED BY <1>6, <2>1, <2>2 DEF Dispatch
<1>7. ASSUME NEW s \in DispatchOutcome, Answer(d, s) PROVE Ends(d) /\ UNCHANGED audit
  <2>1. s \in Status /\ d \in sent /\ (d \in took \/ op[d] = "submit")
    BY <1>7, ActionServiceAssumption DEF Answer, DispatchOutcome, HistoryInv, OnTheWay, Status, Terminal
  <2> QED BY <1>7, <2>1 DEF Answer, Ends, RowStep, OnTheWay
<1>8. CASE SaveAction(d)
  BY <1>8 DEF SaveAction, GoesOn, RowStep, Terminal
<1>9. CASE RequestApproval(d)
  BY <1>9 DEF RequestApproval, GoesOn, RowStep, Terminal, WithStatus
<1>10. CASE AskUser(d) \/ ApprovalNotFound(d)
  BY <1>10 DEF AskUser, ApprovalNotFound, GoesOn
<1>11. CASE GrantApproval(d)
  <2>1. row'[req[d]] = row[req[d]] \/ row'[req[d]] = "approved"
    BY <1>11 DEF GrantApproval, WithStatus
  <2> QED BY <1>11, <2>1 DEF GrantApproval, GoesOn, RowStep, Terminal
<1> QED BY <1>1, <1>2, <1>3, <1>4, <1>5, <1>6, <1>7, <1>8, <1>9, <1>10, <1>11 DEF Continue

\* A call goes on in its own frame.
LEMMA ContinueFrames ==
  ASSUME IInv, NEW d \in Call, Continue(d)
  PROVE  /\ UNCHANGED <<op, req, by, sweep, expired, crashes>>
         /\ \A c \in Call : c # d => pc'[c] = pc[c] /\ outcome'[c] = outcome[c]
         /\ req[d] \in Req /\ \A r \in Req : r # req[d] => row'[r] = row[r]
         /\ took' = took \/ (took' = took \cup {d} /\ (GrantApproval(d) \/ RecordDenial(d)))
<1> USE DEF IInv, TypeOK, FramesInv, Finish, WithStatus
<1>1. CASE RejectUnknownDevice(d) \/ SaveAction(d) \/ RefuseCritical(d) \/ RequestApproval(d) \/ AskUser(d)
  BY <1>1 DEF RejectUnknownDevice, SaveAction, RefuseCritical, RequestApproval, AskUser
<1>2. CASE RunUngated(d) \/ RunApproved(d)
  BY <1>2 DEF RunUngated, RunApproved, Run
<1>3. CASE ApprovalNotFound(d) \/ GrantApproval(d) \/ RecordDenial(d)
  BY <1>3 DEF ApprovalNotFound, GrantApproval, RecordDenial
<1>4. CASE Dispatch(d) \/ (\E s \in DispatchOutcome : Answer(d, s))
  BY <1>4 DEF Dispatch, Answer
<1>5. CASE Audit(d) \/ Announce(d)
  BY <1>5 DEF Audit, Announce
<1> QED BY <1>1, <1>2, <1>3, <1>4, <1>5 DEF Continue

\* Decisions are never taken back, so a sole decision was one before.
LEMMA DecidersGrow ==
  ASSUME IInv, [Next]_vars, NEW r \in Req
  PROVE  Deciders(r) \subseteq Deciders(r)' /\ (SoleDecision(r)' => SoleDecision(r))
<1>1. Deciders(r) \subseteq Deciders(r)'
  BY HistoryGrows DEF Deciders, Dispatchers
<1> QED BY <1>1 DEF SoleDecision

\* A submit that ended early stays one that did: nobody runs its request.
LEMMA EarlyStays ==
  ASSUME IInv, NEW c \in Call, pc[c] \in Ended, op[c] = "submit",
         ~Gateable(req[c]), ~Ran(req[c]), NEW d \in Call, Dispatch(d), req[c] \in Req
  PROVE  req[d] # req[c]
<1> SUFFICES ASSUME req[d] = req[c] PROVE FALSE
  OBVIOUS
<1>1. pc[d] = "starting" /\ ~NeedsApproval(req[d])
  BY DEF Dispatch, IInv, HistoryInv, OnTheWay
<1>2. CASE op[d] = "submit"
  BY <1>1, <1>2 DEF IInv, SubmitInv, Ended
<1>3. CASE d \in took
  BY <1>3 DEF IInv, HistoryInv, Decidable, AskedAgain, Ran
<1> QED BY <1>1, <1>2, <1>3 DEF IInv, HistoryInv, OnTheWay

\* Whoever is about to write the row of a request that a sole decision ended
\* would be a second one.
LEMMA NobodyWritesAgain ==
  ASSUME IInv, AuditInv, NEW d \in Call, RowStep(d), req[d] \in Req,
         GrantApproval(d) \/ RecordDenial(d) => d \in took',
         took \subseteq took', sent \subseteq sent', expired \subseteq expired',
         req' = req, op' = op, SoleDecision(req[d])'
  PROVE  req[d] \notin expired /\ \A c \in Call : outcome[c] # None => req[c] # req[d]
<1> DEFINE r == req[d]
<1>1. pc[d] \notin Ended \cup {"idle"}
  BY DEF RowStep, OnTheWay, Ended, GrantApproval, RecordDenial
<1>2. \/ d \in took' /\ row[r] # "none" /\ Decidable(r)
      \/ d \in sent /\ op[d] = "submit"
      \/ op[d] = "submit" /\ r \notin expired /\ \A c \in took : req[c] # r
  <2>1. CASE pc[d] \in {"known_device", "saved"}
    <3>1. op[d] = "submit" /\ ~Passed(r)
      BY <2>1 DEF IInv, FramesInv, SubmitInv, Submitting, Passed
    <3> QED BY <3>1 DEF AuditInv, DecidedIsBehind
  <2>2. CASE pc[d] = "granted"
    BY <2>2 DEF IInv, HistoryInv, GateInv, Passed
  <2>3. CASE pc[d] \in OnTheWay /\ d \in took
    BY <2>3 DEF IInv, HistoryInv, GateInv, Passed
  <2>4. CASE pc[d] = "waiting" /\ op[d] = "submit"
    BY <2>4 DEF IInv, HistoryInv
  <2>5. CASE pc[d] = "starting" /\ op[d] = "submit"
    <3>1. ~Decidable(r)
      BY <2>5, FirstRun DEF Decidable, AskedAgain, Ran
    <3> QED BY <2>5, <3>1 DEF IInv, HistoryInv
  <2>6. CASE GrantApproval(d) \/ RecordDenial(d)
    BY <2>6 DEF IInv, GateInv, GrantApproval, RecordDenial, Asked
  <2>7. pc[d] \in OnTheWay => d \in took \/ op[d] = "submit"
    BY DEF IInv, HistoryInv
  <2> QED BY <2>1, <2>2, <2>3, <2>4, <2>5, <2>6, <2>7 DEF RowStep, OnTheWay
<1>3. d \in took' \/ (d \in sent /\ op[d] = "submit") => d \in Deciders(r)'
  BY DEF Deciders, Dispatchers
<1>4. ASSUME r \in expired PROVE FALSE
  <2>1. Sweeper \in Deciders(r)' /\ d # Sweeper
    BY <1>4, ActionServiceAssumption DEF Deciders
  <2> QED BY <1>2, <1>3, <1>4, <2>1 DEF SoleDecision
<1>5. ASSUME NEW c \in Call, outcome[c] # None, req[c] = r PROVE FALSE
  <2>1. pc[c] \in Ended /\ c # d
    BY <1>1, <1>5 DEF AuditInv, EndedByRight
  <2>2. op[d] = "submit" => op[c] # "submit"
    BY <1>1, <1>5, <2>1 DEF IInv, SubmitInv, Ended
  <2>3. CASE c \in took \/ (c \in sent /\ op[c] = "submit")
    <3>1. c \in Deciders(r)'
      BY <1>5, <2>3 DEF Deciders, Dispatchers
    <3> QED BY <1>2, <1>3, <1>5, <2>1, <2>2, <2>3, <3>1 DEF SoleDecision
  <2>4. CASE EndedEarly(c)
    BY <1>2, <1>5, <2>2, <2>4 DEF EndedEarly, Decidable, AskedAgain, Ran
  <2> QED BY <1>5, <2>3, <2>4 DEF AuditInv, EndedByRight
<1> QED BY <1>4, <1>5

\* A submit that ended without a row leaves no row behind.
LEMMA NoRowStaysNoRow ==
  ASSUME IInv, AuditInv, NEW d \in Call, Continue(d), NEW c \in Call, outcome[c] # None,
         op[c] = "submit", row[req[c]] = "none"
  PROVE  row'[req[c]] = "none"
<1>1. CASE req[d] # req[c]
  BY <1>1, ContinueFrames DEF IInv, TypeOK, FramesInv, AuditInv, EndedByRight, Ended
<1> SUFFICES ASSUME req[d] = req[c] PROVE row'[req[d]] = "none"
  BY <1>1
<1>2. pc[c] \in Ended
  BY DEF AuditInv, EndedByRight
<1>3. ASSUME RowStep(d), d # c PROVE FALSE
  <2>1. pc[d] = "known_device"
    BY <1>3 DEF RowStep, GrantApproval, RecordDenial, IInv, GateInv, SubmitInv, Passed, Asked, OnTheWay
  <2>2. op[d] = "submit"
    BY <2>1 DEF IInv, FramesInv, Submitting
  <2> QED BY <1>2, <1>3, <2>1, <2>2 DEF IInv, SubmitInv, Ended
<1>4. CASE Audit(d) \/ Announce(d)
  BY <1>4 DEF Audit, Announce
<1>5. CASE GoesOn(d)
  BY <1>2, <1>3, <1>5 DEF GoesOn
<1>6. CASE Ends(d)
  BY <1>6 DEF Ends, Finish, WithStatus
<1> QED BY <1>4, <1>5, <1>6, ContinueEnds

\* The row of a request that a sole decision ended is not written again.
LEMMA RowIsLeft ==
  ASSUME IInv, AuditInv, [Next]_vars, NEW d \in Call, Continue(d), RowStep(d), SoleDecision(req[d])'
  PROVE  req[d] \notin expired /\ \A c \in Call : outcome[c] # None => req[c] # req[d]
<1>1. /\ took \subseteq took' /\ sent \subseteq sent' /\ expired \subseteq expired'
      /\ req' = req /\ op' = op /\ req[d] \in Req
  BY ContinueFrames, HistoryGrows
<1>2. GrantApproval(d) \/ RecordDenial(d) => d \in took'
  BY DEF GrantApproval, RecordDenial
<1> QED BY <1>1, <1>2, NobodyWritesAgain

\* A step that ends nothing and writes neither a row nor a line.
EndsNothing ==
  /\ UNCHANGED <<row, outcome, audit, took, sent, expired>>
  /\ \A c \in Call : outcome[c] # None =>
       pc'[c] \in Ended /\ UNCHANGED <<op[c], req[c], by[c]>>
  /\ \A c \in Call : pc'[c] = "auditing" => pc[c] = "auditing"
  /\ \/ crashes' > 0
     \/ /\ crashes' = crashes
        /\ \A c \in Call : pc[c] = "auditing" => pc'[c] = "auditing" /\ req'[c] = req[c]
        /\ sweep.pc = "auditing" => sweep'.pc = "auditing" /\ sweep'.on = sweep.on
  /\ sweep'.pc = "auditing" => sweep.pc = "auditing" /\ sweep'.on = sweep.on

\* What was decided stays decided.
LEMMA DecidedStays ==
  ASSUME IInv, AuditInv, [Next]_vars
  PROVE  /\ \A c \in took : Passed(req[c])'
         /\ \A r \in expired : Passed(r)'
<1>1. \A c \in took : req[c] \in Req /\ req'[c] = req[c]
  BY HistoryGrows DEF IInv, TypeOK, FramesInv, HistoryInv
<1>2. expired \subseteq Req
  BY DEF IInv, TypeOK
<1>3. \A r \in Req : Passed(r) => Passed(r)'
  BY PassedStays
<1>4. \A c \in took : Passed(req[c])'
  BY <1>1, <1>3 DEF AuditInv, DecidedIsBehind, Passed, Ran
<1>5. \A r \in expired : Passed(r)'
  BY <1>2, <1>3 DEF AuditInv, DecidedIsBehind
<1> QED BY <1>4, <1>5

LEMMA EndsNothingAudit == ASSUME IInv, AuditInv, [Next]_vars, EndsNothing PROVE AuditInv'
<1>1. \A r \in Req : SoleDecision(r)' => SoleDecision(r)
  BY DecidersGrow
<1>2. \A a \in audit : a.writer # Sweeper => a.writer \in Call /\ outcome[a.writer] # None
  <2> SUFFICES ASSUME NEW a \in audit, a.writer # Sweeper
               PROVE  a.writer \in Call /\ outcome[a.writer] # None
    OBVIOUS
  <2>1. a.writer \in Call \cup {Sweeper} /\ a.result \in Status
    BY DEF IInv, TypeOK
  <2>2. a.result # None
    BY <2>1, ActionServiceAssumption
  <2> QED BY <2>1, <2>2 DEF AuditInv, LinesAreTheWriters
<1>3. LinesAreTheWriters'
  BY <1>2 DEF AuditInv, LinesAreTheWriters, EndsNothing
<1>4. EndedByRight'
  <2>1. \A c \in Call : outcome[c] # None /\ EndedEarly(c) => EndedEarly(c)'
    BY HistoryGrows DEF EndsNothing, EndedEarly, Gateable, NeedsApproval, RefusedOutright, Ran
  <2> QED BY <2>1 DEF AuditInv, EndedByRight, EndsNothing
<1>5. DecidedIsBehind'
  BY DecidedStays DEF EndsNothing, DecidedIsBehind
<1>6. RowShowsTheEnd'
  BY <1>1 DEF AuditInv, RowShowsTheEnd, EndsNothing
<1>7. EndIsTold'
  BY DEF AuditInv, EndIsTold, EndsNothing
<1> QED BY <1>3, <1>4, <1>5, <1>6, <1>7 DEF AuditInv

LEMMA BeginAudit ==
  ASSUME IInv, AuditInv, [Next]_vars, NEW d \in Call, Begin(d)
  PROVE  AuditInv'
<1>1. /\ pc[d] = "idle" /\ pc'[d] # "auditing"
      /\ UNCHANGED <<row, outcome, audit, took, sent, expired, crashes, sweep>>
      /\ \A c \in Call : c # d => UNCHANGED <<pc[c], op[c], req[c], by[c]>>
  BY DEF Begin, Submit, Approve, Deny, TakePending, IInv, TypeOK
<1>2. outcome[d] = None /\ d \notin took /\ took \subseteq Call
  BY <1>1 DEF AuditInv, EndedByRight, Ended, IInv, HistoryInv, TypeOK
<1>3. \A c \in Call : outcome[c] # None => pc[c] \in Ended
  BY DEF AuditInv, EndedByRight
<1>4. EndsNothing
  BY <1>1, <1>2, <1>3 DEF EndsNothing
<1> QED BY <1>4, EndsNothingAudit

LEMMA EnvironmentAudit ==
  ASSUME IInv, AuditInv, [Next]_vars, Environment \/ UNCHANGED vars
  PROVE  AuditInv'
<1>1. \A c \in Call : outcome[c] # None => pc[c] \in Ended
  BY DEF AuditInv, EndedByRight
<1>2. CASE Restart
  <2>1. \A c \in Call : pc'[c] # "auditing" /\ (pc[c] \in Ended => pc'[c] \in Ended)
    BY <1>2 DEF Restart, InFlight, Ended
  <2>2. crashes' > 0 /\ sweep'.pc = "asleep"
    BY <1>2 DEF Restart, Asleep, IInv, TypeOK
  <2>3. UNCHANGED <<row, outcome, audit, took, sent, expired, op, req, by>>
    BY <1>2 DEF Restart
  <2>4. EndsNothing
    BY <1>1, <2>1, <2>2, <2>3 DEF EndsNothing
  <2> QED BY <2>4, EndsNothingAudit
<1>3. CASE Tick \/ (\E d \in Device : DevicePaired(d) \/ DeviceUp(d) \/ DeviceDown(d)) \/ UNCHANGED vars
  <2>1. UNCHANGED <<row, outcome, audit, took, sent, expired, op, req, by, pc, sweep, crashes>>
    BY <1>3 DEF Tick, DevicePaired, DeviceUp, DeviceDown, DeviceChange, vars
  <2>2. EndsNothing
    BY <1>1, <2>1 DEF EndsNothing
  <2> QED BY <2>2, EndsNothingAudit
<1> QED BY <1>2, <1>3 DEF Environment

LEMMA SweepExpireAudit ==
  ASSUME IInv, AuditInv, [Next]_vars, NEW r \in Req, SweepExpire(r)
  PROVE  AuditInv'
<1>1. Decidable(r) /\ row[r] # "none" /\ sweep.pc = "listed"
  BY DEF SweepExpire, Stale, IInv, GateInv, Asked
<1>2. /\ row' = [row EXCEPT ![r] = "expired"] /\ expired' = expired \cup {r}
      /\ sweep'.pc = "auditing" /\ sweep'.on = r
      /\ UNCHANGED <<audit, pc, op, req, by, outcome, took, sent, crashes>>
  BY <1>1 DEF SweepExpire, WithStatus, IInv, TypeOK
<1>3. \A q \in Req : SoleDecision(q)' => SoleDecision(q)
  BY DecidersGrow
<1>4. LinesAreTheWriters'
  BY <1>2 DEF AuditInv, LinesAreTheWriters
<1>5. EndedByRight'
  <2>1. \A c \in Call : outcome[c] # None /\ EndedEarly(c) => EndedEarly(c)'
    BY <1>1, <1>2 DEF EndedEarly, Gateable, NeedsApproval, RefusedOutright, Ran, IInv, TypeOK
  <2> QED BY <1>2, <2>1 DEF AuditInv, EndedByRight
<1>6. DecidedIsBehind'
  <2>1. Passed(r)'
    BY <1>2 DEF Passed, IInv, TypeOK
  <2> QED BY <1>2, <2>1, DecidedStays DEF DecidedIsBehind
<1>7. ASSUME SoleDecision(r)', NEW c \in Call, outcome[c] # None, req[c] = r PROVE FALSE
  <2>1. c \in took \/ (c \in sent /\ op[c] = "submit")
    BY <1>1, <1>7 DEF AuditInv, EndedByRight, EndedEarly, Decidable, AskedAgain, Ran
  <2>2. c \in Deciders(r)' /\ Sweeper \in Deciders(r)'
    BY <1>2, <1>7, <2>1 DEF Deciders, Dispatchers
  <2> QED BY <1>7, <2>2, ActionServiceAssumption DEF SoleDecision
<1>8. RowShowsTheEnd'
  BY <1>2, <1>3, <1>7 DEF AuditInv, RowShowsTheEnd, IInv, TypeOK
<1>9. EndIsTold'
  <2> SUFFICES ASSUME NEW q \in Req, crashes' = 0, row'[q] \in Terminal
               PROVE  \/ \E a \in audit' : a.req = q /\ a.result = row'[q]
                      \/ \E c \in Call : pc'[c] = "auditing" /\ req'[c] = q /\ outcome'[c] = row'[q]
                      \/ sweep'.pc = "auditing" /\ sweep'.on = q /\ row'[q] = "expired"
    BY DEF EndIsTold
  <2>1. CASE q = r
    BY <1>2, <2>1 DEF IInv, TypeOK
  <2>2. CASE q # r
    BY <1>1, <1>2, <2>2 DEF AuditInv, EndIsTold, IInv, TypeOK
  <2> QED BY <2>1, <2>2
<1> QED BY <1>4, <1>5, <1>6, <1>8, <1>9 DEF AuditInv

LEMMA SweepAuditAudit ==
  ASSUME IInv, AuditInv, [Next]_vars, SweepAudit
  PROVE  AuditInv'
<1> DEFINE line == [req |-> sweep.on, result |-> "expired", approver |-> None, writer |-> Sweeper]
<1>1. /\ sweep.pc = "auditing" /\ sweep'.pc = "announcing" /\ audit' = audit \cup {line}
      /\ UNCHANGED <<row, pc, op, req, by, outcome, took, sent, expired, crashes>>
  BY DEF SweepAudit, IInv, TypeOK
<1>2. \A r \in Req : SoleDecision(r)' => SoleDecision(r)
  BY DecidersGrow
<1>3. LinesAreTheWriters'
  <2>1. /\ line.writer = Sweeper /\ line.req \in expired
        /\ line.result = "expired" /\ line.approver = None
    BY <1>1 DEF AuditInv, LinesAreTheWriters
  <2> HIDE DEF line
  <2> QED BY <1>1, <2>1 DEF AuditInv, LinesAreTheWriters
<1>4. EndedByRight' /\ DecidedIsBehind'
  BY <1>1 DEF AuditInv, EndedByRight, EndedEarly, DecidedIsBehind, Passed, Ran, Gateable,
              NeedsApproval, RefusedOutright
<1>5. RowShowsTheEnd'
  BY <1>1, <1>2 DEF AuditInv, RowShowsTheEnd
<1>6. EndIsTold'
  <2>1. line.req = sweep.on /\ line.result = "expired"
    OBVIOUS
  <2> HIDE DEF line
  <2> QED BY <1>1, <2>1 DEF AuditInv, EndIsTold
<1> QED BY <1>3, <1>4, <1>5, <1>6 DEF AuditInv

LEMMA SweepKeepsAudit ==
  ASSUME IInv, AuditInv, [Next]_vars, Sweep
  PROVE  AuditInv'
<1>1. CASE SweepList \/ SweepAnnounce \/ SweepEnd
  <2>1. /\ sweep.pc # "auditing" /\ sweep'.pc # "auditing"
        /\ UNCHANGED <<row, outcome, audit, took, sent, expired, op, req, by, pc, crashes>>
    <3>1. CASE SweepList
      BY <3>1 DEF SweepList, IInv, TypeOK
    <3>2. CASE SweepAnnounce
      BY <3>2 DEF SweepAnnounce, IInv, TypeOK
    <3>3. CASE SweepEnd
      BY <3>3 DEF SweepEnd, Asleep
    <3> QED BY <1>1, <3>1, <3>2, <3>3
  <2>2. \A c \in Call : outcome[c] # None => pc[c] \in Ended
    BY DEF AuditInv, EndedByRight
  <2>3. EndsNothing
    BY <2>1, <2>2 DEF EndsNothing
  <2> QED BY <2>3, EndsNothingAudit
<1> QED BY <1>1, SweepExpireAudit, SweepAuditAudit DEF Sweep

LEMMA CallAuditAudit ==
  ASSUME IInv, AuditInv, [Next]_vars, NEW d \in Call, Audit(d)
  PROVE  AuditInv'
<1> DEFINE line == [req |-> req[d], result |-> outcome[d], approver |-> by[d], writer |-> d]
<1>1. /\ pc[d] = "auditing" /\ audit' = audit \cup {line}
      /\ pc' = [pc EXCEPT ![d] = "announcing"]
      /\ UNCHANGED <<row, op, req, by, outcome, took, sent, expired, crashes, sweep>>
  BY DEF Audit
<1>2. /\ line.req = req[d] /\ line.result = outcome[d] /\ line.approver = by[d]
      /\ line.writer = d /\ d # Sweeper
  BY ActionServiceAssumption
<1> HIDE DEF line
<1>3. \A r \in Req : SoleDecision(r)' => SoleDecision(r)
  BY DecidersGrow
<1>4. pc \in [Call -> Location] /\ outcome[d] # None
  BY <1>1 DEF IInv, TypeOK, AuditInv, LinesAreTheWriters
<1>5. LinesAreTheWriters'
  BY <1>1, <1>2, <1>4 DEF AuditInv, LinesAreTheWriters
<1>6. EndedByRight'
  BY <1>1, <1>4 DEF AuditInv, EndedByRight, EndedEarly, Ended, Ran, Gateable, NeedsApproval, RefusedOutright
<1>7. DecidedIsBehind'
  BY <1>1 DEF AuditInv, DecidedIsBehind, Passed, Ran
<1>8. RowShowsTheEnd'
  BY <1>1, <1>3 DEF AuditInv, RowShowsTheEnd
<1>9. EndIsTold'
  BY <1>1, <1>2, <1>4 DEF AuditInv, EndIsTold
<1> QED BY <1>5, <1>6, <1>7, <1>8, <1>9 DEF AuditInv

LEMMA AnnounceAudit ==
  ASSUME IInv, AuditInv, [Next]_vars, NEW d \in Call, Announce(d)
  PROVE  AuditInv'
<1>1. /\ pc[d] = "announcing" /\ pc' = [pc EXCEPT ![d] = "done"] /\ pc \in [Call -> Location]
      /\ UNCHANGED <<row, audit, op, req, by, outcome, took, sent, expired, crashes, sweep>>
  BY DEF Announce, IInv, TypeOK
<1>2. EndsNothing
  BY <1>1 DEF EndsNothing, AuditInv, EndedByRight, Ended
<1> QED BY <1>2, EndsNothingAudit

\* The parts that do not depend on whether the call ends its request.
LEMMA ContinueDecided ==
  ASSUME IInv, AuditInv, [Next]_vars, NEW d \in Call, Continue(d)
  PROVE  DecidedIsBehind'
<1>1. expired' = expired /\ req' = req /\ req[d] \in Req
      /\ (took' = took \/ (took' = took \cup {d} /\ (GrantApproval(d) \/ RecordDenial(d))))
  BY ContinueFrames
<1>2. ASSUME GrantApproval(d) \/ RecordDenial(d) PROVE Passed(req[d])'
  <2>1. row'[req[d]] \in {"approved", "denied"}
    BY <1>1, <1>2 DEF GrantApproval, RecordDenial, Finish, WithStatus, Asked, IInv, TypeOK, GateInv
  <2> QED BY <1>1, <2>1 DEF Passed
<1> QED BY <1>1, <1>2, DecidedStays DEF DecidedIsBehind

LEMMA ContinueSends ==
  ASSUME IInv, NEW d \in Call, Continue(d)
  PROVE  sent' = sent \/ (Dispatch(d) /\ sent' = sent \cup {d})
<1>1. CASE SaveAction(d) \/ RequestApproval(d) \/ RejectUnknownDevice(d) \/ RefuseCritical(d)
  BY <1>1 DEF SaveAction, RequestApproval, RejectUnknownDevice, RefuseCritical
<1>2. CASE RunUngated(d) \/ AskUser(d) \/ ApprovalNotFound(d) \/ GrantApproval(d)
  BY <1>2 DEF RunUngated, AskUser, ApprovalNotFound, GrantApproval
<1>3. CASE RunApproved(d) \/ RecordDenial(d) \/ Dispatch(d) \/ Audit(d) \/ Announce(d)
  BY <1>3 DEF RunApproved, RecordDenial, Dispatch, Audit, Announce
<1>4. ASSUME NEW s \in DispatchOutcome, Answer(d, s) PROVE sent' = sent
  BY <1>4 DEF Answer
<1> QED BY <1>1, <1>2, <1>3, <1>4 DEF Continue

LEMMA GoesOnAudit ==
  ASSUME IInv, AuditInv, [Next]_vars, NEW d \in Call, Continue(d), GoesOn(d)
  PROVE  AuditInv'
<1>1. /\ UNCHANGED <<op, req, by, sweep, expired, crashes, outcome, audit>>
      /\ pc[d] \notin Ended \cup {"idle"} /\ pc'[d] # "auditing" /\ pc[d] # "auditing"
      /\ \A c \in Call : c # d => pc'[c] = pc[c]
      /\ took \subseteq took' /\ req[d] \in Req
      /\ \A r \in Req : r # req[d] => row'[r] = row[r]
  BY ContinueFrames DEF GoesOn, Ended
<1>2. \A c \in Call : outcome[c] # None => c # d /\ pc[c] \in Ended
  BY <1>1 DEF AuditInv, EndedByRight
<1>3. \A r \in Req : SoleDecision(r)' => SoleDecision(r)
  BY DecidersGrow
<1>4. LinesAreTheWriters'
  BY <1>1 DEF AuditInv, LinesAreTheWriters
<1>5. EndedByRight'
  <2>1. ASSUME NEW c \in Call, outcome[c] # None, EndedEarly(c) PROVE EndedEarly(c)'
    <3>1. req[c] \in Req /\ op[c] = "submit"
      BY <1>2, <2>1 DEF EndedEarly, IInv, FramesInv, Ended
    <3>2. CASE row[req[c]] = "none"
      BY <1>1, <2>1, <3>1, <3>2, NoRowStaysNoRow DEF EndedEarly
    <3>3. CASE ~Gateable(req[c]) /\ ~Ran(req[c])
      <4>1. sent' = sent \/ (Dispatch(d) /\ sent' = sent \cup {d})
        BY ContinueSends
      <4>2. Dispatch(d) => req[d] # req[c]
        BY <1>2, <2>1, <3>1, <3>3, EarlyStays
      <4>3. ~Ran(req[c])'
        BY <1>1, <3>3, <4>1, <4>2 DEF Ran
      <4> QED BY <1>1, <3>1, <3>3, <4>3 DEF EndedEarly, Gateable, NeedsApproval, RefusedOutright
    <3> QED BY <2>1, <3>2, <3>3 DEF EndedEarly
  <2>2. sent \subseteq sent'
    BY HistoryGrows
  <2> QED BY <1>1, <1>2, <2>1, <2>2 DEF AuditInv, EndedByRight
<1>6. RowShowsTheEnd'
  <2> SUFFICES ASSUME NEW r \in Req, SoleDecision(r)'
               PROVE  /\ \A c \in Call : outcome[c] # None /\ req[c] = r => row'[r] \in {"none", outcome[c]}
                      /\ r \in expired => row'[r] = "expired"
    BY <1>1 DEF RowShowsTheEnd
  <2>1. CASE row'[r] = row[r]
    BY <1>3, <2>1 DEF AuditInv, RowShowsTheEnd
  <2>2. CASE row'[r] # row[r]
    <3>1. r = req[d] /\ RowStep(d)
      BY <1>1, <2>2 DEF GoesOn
    <3>2. SoleDecision(req[d])'
      BY <1>1, <3>1 DEF SoleDecision, Deciders, Dispatchers
    <3> QED BY <1>1, <3>1, <3>2, RowIsLeft
  <2> QED BY <2>1, <2>2
<1>7. EndIsTold'
  <2>1. \A r \in Req : row'[r] \in Terminal => row'[r] = row[r]
    BY <1>1 DEF GoesOn
  <2> QED BY <1>1, <2>1 DEF AuditInv, EndIsTold
<1>8. DecidedIsBehind'
  BY ContinueDecided
<1> QED BY <1>4, <1>5, <1>6, <1>7, <1>8 DEF AuditInv

LEMMA EndsAudit ==
  ASSUME IInv, AuditInv, [Next]_vars, NEW d \in Call, Continue(d), Ends(d), UNCHANGED audit
  PROVE  AuditInv'
<1> DEFINE r == req[d]
<1>1. PICK s \in Status : Finish(d, s)
  BY DEF Ends
<1>2. /\ UNCHANGED <<op, req, by, sweep, expired, crashes, audit, sent>>
      /\ pc[d] \notin Ended \cup {"idle"} /\ pc'[d] = "auditing" /\ outcome'[d] = s
      /\ \A c \in Call : c # d => pc'[c] = pc[c] /\ outcome'[c] = outcome[c]
      /\ took \subseteq took' /\ r \in Req
      /\ \A q \in Req : q # r => row'[q] = row[q]
      /\ IF row[r] = "none" THEN row'[r] = "none" ELSE row'[r] = s
  BY <1>1, ContinueFrames DEF Ends, Finish, WithStatus, IInv, TypeOK
<1>3. s # None
  BY <1>1, ActionServiceAssumption
<1>4. \A c \in Call : outcome[c] # None => c # d /\ pc[c] \in Ended
  BY <1>2 DEF AuditInv, EndedByRight
<1>5. \A q \in Req : SoleDecision(q)' => SoleDecision(q)
  BY DecidersGrow
<1>6. LinesAreTheWriters'
  <2>1. ASSUME NEW a \in audit, a.writer # Sweeper PROVE a.writer \in Call /\ a.writer # d
    <3>1. a.writer \in Call /\ a.result \in Status /\ a.result = outcome[a.writer]
      BY <2>1 DEF IInv, TypeOK, AuditInv, LinesAreTheWriters
    <3>2. a.result # None
      BY <3>1, ActionServiceAssumption
    <3> QED BY <1>4, <3>1, <3>2
  <2> QED BY <1>2, <1>3, <2>1 DEF AuditInv, LinesAreTheWriters
<1>7. EndedByRight'
  <2>1. pc'[d] \in Ended
    BY <1>2 DEF Ended
  <2>2. \A c \in Call : (outcome[c] # None \/ c = d) /\ EndedEarly(c) => EndedEarly(c)'
    <3> SUFFICES ASSUME NEW c \in Call, outcome[c] # None \/ c = d, EndedEarly(c),
                        row[req[c]] = "none"
                 PROVE  row'[req[c]] = "none"
      BY <1>2 DEF EndedEarly, Gateable, NeedsApproval, RefusedOutright, Ran
    <3>1. CASE c = d
      BY <1>2, <3>1
    <3> QED BY <3>1, NoRowStaysNoRow DEF EndedEarly
  <2> QED BY <1>2, <1>4, <2>1, <2>2 DEF AuditInv, EndedByRight, Ends
<1>8. RowShowsTheEnd'
  <2> SUFFICES ASSUME NEW q \in Req, SoleDecision(q)'
               PROVE  /\ \A c \in Call : outcome'[c] # None /\ req[c] = q => row'[q] \in {"none", outcome'[c]}
                      /\ q \in expired => row'[q] = "expired"
    BY <1>2 DEF RowShowsTheEnd
  <2>1. CASE q # r
    BY <1>2, <1>5, <2>1 DEF AuditInv, RowShowsTheEnd
  <2>2. CASE q = r /\ row[r] = "none"
    BY <1>2, <1>5, <2>2 DEF AuditInv, RowShowsTheEnd
  <2>3. CASE q = r /\ row[r] # "none"
    <3> SUFFICES r \notin expired /\ \A c \in Call : outcome[c] # None => req[c] # r
      BY <1>2, <2>3
    <3>1. SoleDecision(req[d])'
      BY <1>2, <2>3 DEF SoleDecision, Deciders, Dispatchers
    <3> QED BY <2>3, <3>1, RowIsLeft DEF Ends
  <2> QED BY <2>1, <2>2, <2>3
<1>9. EndIsTold'
  <2> SUFFICES ASSUME NEW q \in Req, crashes = 0, row'[q] \in Terminal
               PROVE  \/ \E a \in audit : a.req = q /\ a.result = row'[q]
                      \/ \E c \in Call : pc'[c] = "auditing" /\ req[c] = q /\ outcome'[c] = row'[q]
                      \/ sweep.pc = "auditing" /\ sweep.on = q /\ row'[q] = "expired"
    BY <1>2 DEF EndIsTold
  <2>1. CASE q = r
    <3>1. row'[r] = s
      BY <1>2, <2>1 DEF Terminal
    <3> QED BY <1>2, <2>1, <3>1
  <2>2. CASE q # r
    BY <1>2, <2>2 DEF AuditInv, EndIsTold, Ended
  <2> QED BY <2>1, <2>2
<1>10. DecidedIsBehind'
  BY ContinueDecided
<1> QED BY <1>6, <1>7, <1>8, <1>9, <1>10 DEF AuditInv

LEMMA AuditStays == IInv /\ AuditInv /\ [Next]_vars => AuditInv'
<1> SUFFICES ASSUME IInv, AuditInv, [Next]_vars PROVE AuditInv'
  OBVIOUS
<1>1. ASSUME NEW d \in Call, Continue(d) PROVE AuditInv'
  BY <1>1, ContinueEnds, CallAuditAudit, AnnounceAudit, GoesOnAudit, EndsAudit
<1> QED BY <1>1, BeginAudit, SweepKeepsAudit, EnvironmentAudit DEF Next

LEMMA AuditStarts == Init => AuditInv
BY ActionServiceAssumption
   DEF Init, AuditInv, LinesAreTheWriters, EndedByRight, DecidedIsBehind, RowShowsTheEnd,
       EndIsTold, Asleep, Terminal

\* Under a sole decision two lines about a request are one and tell its row.
LEMMA OneLine ==
  ASSUME IInv, AuditInv, NEW r \in Req, SoleDecision(r), NEW a \in audit, NEW b \in audit,
         a.req = r, b.req = r
  PROVE  a = b /\ row[r] \in {"none", a.result}
<1> DEFINE Wrote(l, w) ==
      IF w = Sweeper
        THEN r \in expired /\ l.result = "expired" /\ l.approver = None
        ELSE /\ w \in Call /\ req[w] = r /\ outcome[w] # None
             /\ l.result = outcome[w] /\ l.approver = by[w]
<1>1. ASSUME NEW l \in audit, l.req = r PROVE Wrote(l, l.writer)
  <2>1. l.writer \in Call \cup {Sweeper} /\ l.result \in Status
    BY DEF IInv, TypeOK
  <2>2. l.result # None
    BY <2>1, ActionServiceAssumption
  <2> QED BY <1>1, <2>1, <2>2 DEF AuditInv, LinesAreTheWriters
<1>2. Wrote(a, a.writer) /\ Wrote(b, b.writer)
  BY <1>1
<1>3. ASSUME NEW l \in audit, Wrote(l, l.writer) PROVE row[r] \in {"none", l.result}
  BY <1>3 DEF AuditInv, RowShowsTheEnd
<1>4. ASSUME NEW l \in audit, Wrote(l, l.writer)
      PROVE  \/ l.writer \in Deciders(r) /\ row[r] # "none" /\ (Decidable(r) \/ Ran(r))
             \/ /\ l.writer \in Call /\ op[l.writer] = "submit" /\ req[l.writer] = r
                /\ pc[l.writer] # "idle" /\ (row[r] = "none" \/ (~Gateable(r) /\ ~Ran(r)))
  <2>1. CASE l.writer = Sweeper
    BY <1>4, <2>1 DEF Deciders, AuditInv, DecidedIsBehind, Passed, IInv, HistoryInv
  <2>2. CASE l.writer # Sweeper
    <3>1. l.writer \in Call /\ req[l.writer] = r /\ outcome[l.writer] # None
      BY <1>4, <2>2
    <3>2. CASE l.writer \in took
      BY <3>1, <3>2 DEF Deciders, AuditInv, DecidedIsBehind, Passed, IInv, HistoryInv
    <3>3. CASE l.writer \in sent /\ op[l.writer] = "submit"
      BY <3>1, <3>3 DEF Deciders, Dispatchers, Ran, Passed, IInv, GateInv
    <3>4. CASE EndedEarly(l.writer)
      BY <3>1, <3>4 DEF EndedEarly, AuditInv, EndedByRight, Ended
    <3> HIDE DEF Wrote
    <3> QED BY <3>1, <3>2, <3>3, <3>4 DEF AuditInv, EndedByRight
  <2> QED BY <2>1, <2>2
<1>5. ~Gateable(r) /\ ~Ran(r) => ~Decidable(r)
  BY DEF Decidable, AskedAgain, Ran
<1>6. a.writer = b.writer
  <2> HIDE DEF Wrote
  <2> QED BY <1>2, <1>4, <1>5 DEF SoleDecision, IInv, SubmitInv
<1>7. a.result = b.result /\ a.approver = b.approver
  BY <1>2, <1>6
<1>8. a = b
  BY <1>6, <1>7 DEF IInv, TypeOK
<1> QED BY <1>2, <1>3, <1>8

\* The audit log tells of every settled request, once and truly: under a sole
\* decision there is one line and it agrees with the row, and without a restart
\* no request ends untold (_finish on every path, against a late writer).
THEOREM AuditIsTrue == Spec => []AuditTrail
<1>1. IInv /\ AuditInv => AuditTrail
  <2> SUFFICES ASSUME IInv, AuditInv PROVE AuditTrail
    OBVIOUS
  <2>1. SoleDecisionAuditedOnce
    BY OneLine DEF SoleDecisionAuditedOnce
  <2>2. SettledIsAudited
    BY DEF AuditInv, EndIsTold, SettledIsAudited, Quiet, InFlight
  <2> QED BY <2>1, <2>2 DEF AuditTrail
<1> QED BY <1>1, AuditStarts, AuditStays, Invariance, PTL DEF Spec
=============================================================================
