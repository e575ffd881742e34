---------------------------- MODULE ApprovalGate ----------------------------
(***************************************************************************)
(* What heren_core/actions.py promises about the gate, without handlers,   *)
(* rows, clocks or the network: a request is recorded, a gated one is put  *)
(* to the user before anything else, and a device is only reached by       *)
(* spending a grant.  An ungated request is its own grant and is spent     *)
(* once; a gated one needs a call that was granted, and each granted call  *)
(* is spent at most once.  A decision is for ever, unless the device that  *)
(* ran the request puts it to the user again.                              *)
(***************************************************************************)
CONSTANTS Call, Req, Gated

VARIABLES
  stage,   \* how far each request is
  grants,  \* <<call, request>>: approvals accepted
  ran      \* <<call, request>>: dispatches made

gateVars == <<stage, grants, ran>>

GateInit ==
  /\ stage = [r \in Req |-> "absent"]
  /\ grants = {} /\ ran = {}

Record(r) ==
  /\ stage[r] = "absent"
  /\ stage' = [stage EXCEPT ![r] = "recorded"]
  /\ UNCHANGED <<grants, ran>>

Ask(r) ==
  /\ r \in Gated /\ stage[r] = "recorded"
  /\ stage' = [stage EXCEPT ![r] = "waiting"]
  /\ UNCHANGED <<grants, ran>>

\* Refused, denied, expired, or let through because it needs nobody.
Decide(r) ==
  /\ stage[r] \in {"recorded", "waiting"}
  /\ stage' = [stage EXCEPT ![r] = "decided"]
  /\ UNCHANGED <<grants, ran>>

HasRun(r) == \E c \in Call : <<c, r>> \in ran

\* A device that was given the request asks for approval of it.
AskAgain(r) ==
  /\ stage[r] = "decided" /\ HasRun(r)
  /\ stage' = [stage EXCEPT ![r] = "waiting"]
  /\ UNCHANGED <<grants, ran>>

\* Two calls that both found the request waiting may both be granted.
Grant(c, r) ==
  /\ r \in Gated \/ HasRun(r)
  /\ stage[r] \in {"waiting", "decided"}
  /\ \A q \in Req : <<c, q>> \notin grants
  /\ stage' = [stage EXCEPT ![r] = "decided"]
  /\ grants' = grants \cup {<<c, r>>}
  /\ UNCHANGED ran

Spend(c, r) ==
  /\ stage[r] \in {"waiting", "decided"}
  /\ <<c, r>> \notin ran
  /\ <<c, r>> \in grants \/ (r \notin Gated /\ ~HasRun(r))
  /\ ran' = ran \cup {<<c, r>>}
  /\ UNCHANGED <<stage, grants>>

GateNext ==
  \/ \E r \in Req : Record(r) \/ Ask(r) \/ Decide(r) \/ AskAgain(r)
  \/ \E c \in Call, r \in Req : Grant(c, r) \/ Spend(c, r)

GateSpec == GateInit /\ [][GateNext]_gateVars
=============================================================================
