-------------------------- MODULE MCActionService --------------------------
(* Instances of ActionService for TLC. *)
EXTENDS ActionService, TLC

CONSTANTS r1, r2, r3, d1

\* A request that needs approval, one that does not, and one critical_enabled governs.
EachRisk == [r \in Req |-> IF r = r2 THEN "medium" ELSE IF r = r3 THEN "critical" ELSE "high"]
OneDevice == [r \in Req |-> d1]

Calls == Permutations(Call)

\* The clock passes a deadline or the process dies, but not both: ActionProgress
\* has behaviours with both.
OneHardship == now' + crashes' <= 1
HardNext ==
  \/ \E c \in Call : Begin(c) \/ Continue(c)
  \/ Sweep
  \/ Environment /\ OneHardship
HardSpec == Init /\ [][HardNext]_vars

-----------------------------------------------------------------------------
(* Statements of the repository that the code does not keep. *)

\* test_actions.py: denying a HIGH risk request never dispatches it.
DeniedNeverDispatched ==
  \A c \in took : op[c] = "deny" => Dispatchers(req[c]) = {}
=============================================================================
