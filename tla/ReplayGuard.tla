---------------------------- MODULE ReplayGuard ----------------------------
(***************************************************************************)
(* The duplicate filter of both ends of the agent link: ReplayGuard.check  *)
(* in heren_core/security.py and acceptNonce in the agent's client.go.     *)
(* They differ in one point: the core forgets old nonces before it judges  *)
(* an envelope, the agent only for one whose timestamp it accepts.         *)
(*                                                                         *)
(* A Key is what a guard remembers an envelope by, <<device_id, nonce>> in *)
(* the core and the nonce in the agent; nonces are random, so a key stands *)
(* for one signed envelope, which may arrive any number of times.          *)
(***************************************************************************)
EXTENDS Integers

CONSTANTS
  Key,
  Stamp,       \* timestamps a sender's clock may put on an envelope
  Window,      \* window_s, ReplayWindow
  Skew,        \* clock_skew_s, ClockSkew
  MaxTime,     \* bound on the clock
  None         \* no entry

ASSUME ReplayGuardAssumption ==
  /\ Stamp \subseteq Int
  /\ Window \in Nat /\ Skew \in Nat /\ MaxTime \in Nat
  /\ None \notin Int

VARIABLES
  end,      \* "core" or "agent": whose guard this is
  ts,       \* the timestamp each envelope was signed with
  now,      \* the receiver's clock
  seen,     \* _seen: what the receiver remembers of each key
  accepted  \* how often each envelope was let through (history)

vars == <<end, ts, now, seen, accepted>>

-----------------------------------------------------------------------------
MutantInTime(k) == ts[k] >= now - Window
InTime(k) == ts[k] >= now - Window /\ ts[k] <= now + Skew

MutantForgetful == [k \in Key |-> IF seen[k] # None /\ seen[k] <= now - Window THEN None ELSE seen[k]]
Evicted == [k \in Key |-> IF seen[k] # None /\ seen[k] < now - Window THEN None ELSE seen[k]]

Refuse(k) ==
  /\ ~InTime(k)
  /\ seen' = IF end = "core" THEN Evicted ELSE seen
  /\ UNCHANGED <<end, ts, now, accepted>>

RefuseDuplicate(k) ==
  /\ InTime(k)
  /\ Evicted[k] # None
  /\ seen' = Evicted
  /\ UNCHANGED <<end, ts, now, accepted>>

Accept(k) ==
  /\ InTime(k)
  /\ Evicted[k] = None
  /\ seen' = [Evicted EXCEPT ![k] = ts[k]]
  /\ accepted' = [accepted EXCEPT ![k] = @ + 1]
  /\ UNCHANGED <<end, ts, now>>

Tick ==
  /\ now < MaxTime
  /\ now' = now + 1
  /\ UNCHANGED <<end, ts, seen, accepted>>

Init ==
  /\ end \in {"core", "agent"}
  /\ ts \in [Key -> Stamp]
  /\ now = 0
  /\ seen = [k \in Key |-> None]
  /\ accepted = [k \in Key |-> 0]

Next ==
  \/ \E k \in Key : Refuse(k) \/ RefuseDuplicate(k) \/ Accept(k)
  \/ Tick

Spec == Init /\ [][Next]_vars

-----------------------------------------------------------------------------
\* Timestamps are numbers, the table maps keys to timestamps or to nothing.
TypeOK ==
  /\ end \in {"core", "agent"}
  /\ ts \in [Key -> Int]
  /\ now \in Nat
  /\ seen \in [Key -> Int \cup {None}]
  /\ accepted \in [Key -> Nat]

\* However often an envelope arrives it is let through at most once, although
\* the guard forgets it: as long as it is remembered it is a duplicate, and by
\* the time it is forgotten it is stale (for a clock that is not set back and a
\* guard that is not restarted).
AcceptedOnce == \A k \in Key : accepted[k] <= 1

LetThroughTrims ==
  accepted' # accepted =>
    \A k \in Key : seen'[k] # None => seen'[k] \in (now - Window)..(now + Skew)

\* The table does not grow with the traffic: whenever an envelope is let
\* through, everything remembered lies inside the window.
RemembersTheWindow == [][LetThroughTrims]_vars
=============================================================================
