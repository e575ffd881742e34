---------------------------- MODULE ModelCatalog ----------------------------
(***************************************************************************)
(* ModelCatalog.get (models_catalog.py): what the providers of Hermes can  *)
(* run, cached for ttl_s.  The route calls it by asyncio.to_thread, so     *)
(* calls run in threads, with no lock between them; a step is what a       *)
(* thread does between two reads or writes of the shared cache.            *)
(*                                                                         *)
(* A catalog is told apart by the time its listing began.                  *)
(***************************************************************************)
EXTENDS Integers

CONSTANTS
  Thread,
  Provider,    \* providers that may have credentials
  Ttl,         \* ttl_s
  Longest,     \* the longest a call takes: the time-outs of its listings
  MaxClock,    \* bound on the clock
  Never        \* no catalog yet

ASSUME CatalogAssumption ==
  /\ Ttl \in Nat \ {0} /\ Longest \in Nat /\ MaxClock \in Nat
  /\ Never \notin Int

VARIABLES
  clock,
  cached,      \* _cached
  cachedAt,    \* _at
  step,        \* how far each thread is
  refresh,     \* what it was called with
  start,       \* its now
  todo         \* providers it has not listed yet

cache == <<cached, cachedAt>>
calls == <<step, refresh, start, todo>>
catalogVars == <<clock, cache, calls>>

Goes(t, to) == step' = [step EXCEPT ![t] = to]

-----------------------------------------------------------------------------

MutantFresh(t) == cached # Never /\ ~refresh[t]
Fresh(t) == cached # Never /\ ~refresh[t] /\ start[t] - cachedAt < Ttl

Get(t, again) ==
  /\ step[t] = "idle"
  /\ Goes(t, "check")
  /\ refresh' = [refresh EXCEPT ![t] = again]
  /\ start' = [start EXCEPT ![t] = clock]
  /\ UNCHANGED <<clock, cache, todo>>

\* The cache answers ...
Hit(t) ==
  /\ step[t] = "check" /\ Fresh(t)
  /\ Goes(t, "return")
  /\ UNCHANGED <<clock, cache, refresh, start, todo>>

\* ... or read_hermes_home says whom to ask: nobody, when it cannot be read.
Miss(t, providers) ==
  /\ step[t] = "check" /\ ~Fresh(t)
  /\ Goes(t, "list")
  /\ todo' = [todo EXCEPT ![t] = providers]
  /\ UNCHANGED <<clock, cache, refresh, start>>

\* One provider answers, or fails and is listed with its error.
List(t, p) ==
  /\ step[t] = "list" /\ p \in todo[t]
  /\ todo' = [todo EXCEPT ![t] = @ \ {p}]
  /\ UNCHANGED <<clock, cache, step, refresh, start>>

Keep(t) ==
  /\ step[t] = "list" /\ todo[t] = {}
  /\ Goes(t, "stamp")
  /\ cached' = start[t]
  /\ UNCHANGED <<clock, cachedAt, refresh, start, todo>>

KeepTime(t) ==
  /\ step[t] = "stamp"
  /\ Goes(t, "return")
  /\ cachedAt' = start[t]
  /\ UNCHANGED <<clock, cached, refresh, start, todo>>

\* return self._cached: the cache is read again.
Return(t) ==
  /\ step[t] = "return"
  /\ Goes(t, "idle")
  /\ UNCHANGED <<clock, cache, refresh, start, todo>>

\* A listing is a process with a time-out, so no call takes longer than Longest.
Pass ==
  /\ clock < MaxClock
  /\ \A t \in Thread : step[t] # "idle" => clock < start[t] + Longest
  /\ clock' = clock + 1
  /\ UNCHANGED <<cache, calls>>

-----------------------------------------------------------------------------

CatalogInit ==
  /\ clock = 0
  /\ cached = Never /\ cachedAt = 0
  /\ step = [t \in Thread |-> "idle"] /\ refresh = [t \in Thread |-> FALSE]
  /\ start = [t \in Thread |-> 0] /\ todo = [t \in Thread |-> {}]

CatalogNext ==
  \/ \E t \in Thread :
       \/ \E again \in BOOLEAN : Get(t, again)
       \/ \E providers \in SUBSET Provider : Miss(t, providers)
       \/ \E p \in Provider : List(t, p)
       \/ Hit(t) \/ Keep(t) \/ KeepTime(t) \/ Return(t)
  \/ Pass

CatalogSpec == CatalogInit /\ [][CatalogNext]_catalogVars

-----------------------------------------------------------------------------
(* Properties *)

Returns(t) == step[t] = "return" /\ step'[t] = "idle"

\* However the calls overlap and overtake each other, what one returns, errors
\* included, was listed less than a time to live and one call before it was
\* asked for; and what a refresh returns was listed by itself or by a call that
\* ran beside it, never by one that had ended before.
CatalogIsFresh ==
  [][\A t \in Thread : Returns(t) =>
       /\ start[t] - cached < Ttl + Longest
       /\ refresh[t] => cached >= start[t] - Longest]_catalogVars
=============================================================================
