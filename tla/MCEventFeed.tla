----------------------------- MODULE MCEventFeed -----------------------------
(* An instance of EventFeed for TLC. *)
EXTENDS EventFeed

CONSTANTS d1, r1, hermes, MaxChanges

\* The subjects share the queue of a dashboard: MaxChanges bounds their changes together.
FewChanges == writes'[d1] + writes'[r1] + writes'[hermes] <= MaxChanges
FewSpec == Init /\ [][Next /\ FewChanges]_vars /\ Fairness
=============================================================================
