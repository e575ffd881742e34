----------------------------- MODULE RemoteCall -----------------------------
(***************************************************************************)
(* What a dispatch promises across the link to a device, without sockets,  *)
(* sessions or clocks.  A device acts on a request at most once and only   *)
(* if it was sent; it may act after the dispatch has been told otherwise.  *)
(* "completed" is never told of a request the device did not carry out,    *)
(* and a request refused because the device is offline is never sent.      *)
(***************************************************************************)
CONSTANTS Req, None

VARIABLES
  asked,  \* requests sent to the device
  acts,   \* how often the device has carried out each request
  told    \* what each dispatch was told

callVars == <<asked, acts, told>>

CallInit ==
  /\ asked = {} /\ acts = [q \in Req |-> 0]
  /\ told = [q \in Req |-> None]

Ask(q) ==
  /\ q \notin asked /\ told[q] = None
  /\ asked' = asked \cup {q}
  /\ UNCHANGED <<acts, told>>

Refuse(q) ==
  /\ q \notin asked /\ told[q] = None
  /\ told' = [told EXCEPT ![q] = "device_offline"]
  /\ UNCHANGED <<asked, acts>>

Act(q) ==
  /\ q \in asked /\ acts[q] = 0
  /\ acts' = [acts EXCEPT ![q] = 1]
  /\ UNCHANGED <<asked, told>>

\* Several dispatches are told at once when their session ends.
Tell(Q, o) ==
  /\ Q # {} /\ \A q \in Q : q \in asked /\ told[q] = None
  /\ o = "completed" => \A q \in Q : acts[q] = 1
  /\ told' = [q \in Req |-> IF q \in Q THEN o ELSE told[q]]
  /\ UNCHANGED <<asked, acts>>

CallNext ==
  \/ \E q \in Req : Ask(q) \/ Refuse(q) \/ Act(q)
  \/ \E Q \in SUBSET Req, o \in {"completed", "failed", "device_offline"} : Tell(Q, o)

CallSpec == CallInit /\ [][CallNext]_callVars
=============================================================================
