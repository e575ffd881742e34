------------------------------- MODULE Presence -------------------------------
(***************************************************************************)
(* What the character shows while the rest of the core works:              *)
(* CharacterHost (character_host.py) feeds the events of the bus to the    *)
(* engine, ticks it and saves it.  HermesBridge's turns, the approvals of  *)
(* the ActionService, and the dashboards that play clips are the actors    *)
(* whose events it hears.                                                  *)
(*                                                                         *)
(* The handler of an event runs in the step that emits it.  A scenario,    *)
(* chosen at the start, bounds what happens: which texts, how many of each *)
(* kind of call, how far the clock goes.                                   *)
(***************************************************************************)
EXTENDS HermesBridge, Character, FiniteSets

CONSTANTS Scenarios, MaxLag     \* MaxLag: how long the host's loop may be late

\* What the settings may hold, of this version or another.
Saved == [energy : Int, debt : Int, asleep : BOOLEAN, lastInteraction : Nat, lastTick : Nat]

ASSUME PresenceAssumption ==
  \A s \in Scenarios :
    /\ {s.start, s.clock, s.touches} \subseteq Nat /\ s.downtimes \subseteq Nat
    /\ s.saved = None \/ s.saved \in Saved
    /\ s.callers \subseteq Callers /\ s.texts \cup s.outputs \subseteq Seq(Token)
    /\ IsFiniteSet(s.requests)

VARIABLES
  scenario,
  now,            \* the wall clock
  eng, pending,   \* CharacterHost.engine, and its _pending_approvals
  touches, restarts,
  requests,       \* approvals: new, waiting, decided, twice, expired
  episodes,       \* a dashboard playing a run of clips: quiet, playing, over
  reports,        \* POST /api/voice/playback under way
  announced,      \* requests this process has announced (history)
  miscounted,     \* a decision was heard of a request not announced, or a second one (history)
  misled,         \* a report was lost, or overtook the one before it (history)
  abandoned       \* a run ended without hermes.done (history)

day       == <<scenario, now, touches, restarts>>
approvals == <<requests, pending, announced, miscounted>>
playback  == <<episodes, reports, misled>>
vars      == <<bridge, day, eng, approvals, playback, abandoned>>

-----------------------------------------------------------------------------
(* CharacterHost._HANDLERS and _on_event *)

Handle(event, e, t) ==
  CASE event = "character.touch"         -> Touch(e, t)
    [] event = "hermes.thinking"         -> AssistantThinking(e, t)
    [] event = "hermes.speaking"         -> AssistantSpeaking(e, t)
    [] event = "hermes.done"             -> AssistantDone(e, t)
    [] event = "hermes.tool.started"     -> ToolStarted(e)
    [] event = "hermes.tool.completed"   -> ToolFinished(e)
    [] event = "hermes.tool.failed"      -> ToolFailed(e, t)
    [] event = "device.action.completed" -> DeviceActionCompleted(e, t)
    [] event = "device.offline"          -> DeviceOffline(e, t)
    [] event = "voice.playback.started"  -> SpeechStarted(e)
    [] event = "voice.playback.finished" -> SpeechFinished(e, t)

Hear(event) == eng' = Handle(event, eng, now)

-----------------------------------------------------------------------------
(* A turn with Hermes *)

TurnAction(action, event) ==
  /\ action /\ Hear(event)
  /\ UNCHANGED <<day, approvals, playback, abandoned>>

Asks == \E a \in scenario.callers :
          Ask(a) /\ UNCHANGED <<day, eng, approvals, playback, abandoned>>

Accepts == \E t \in scenario.texts :
             Accepted(t) /\ UNCHANGED <<day, eng, approvals, playback, abandoned>>

Think    == TurnAction(Begin, "hermes.thinking")
UseTool  == scenario.tools /\ TurnAction(ToolStarts, "hermes.tool.started")
ToolDone == \E event \in {"hermes.tool.completed", "hermes.tool.failed"} :
              TurnAction(ToolCompletes, event)

Write == \E n \in 0..(Len(script) - Len(full)) :
           /\ Delta(n)
           /\ IF speaking THEN UNCHANGED eng ELSE Hear("hermes.speaking")
           /\ UNCHANGED <<day, approvals, playback, abandoned>>

Finish(action) ==
  /\ action /\ Hear("hermes.done") /\ abandoned' = FALSE
  /\ UNCHANGED <<day, approvals, playback>>

\* An answer that needs no hermes.speaking any more is followed by hermes.done.
Complete == \E out \in scenario.outputs \cup {script, <<>>} :
              /\ Completes(out)
              /\ IF phase' = "closing"
                 THEN Hear("hermes.speaking") /\ UNCHANGED abandoned
                 ELSE Hear("hermes.done") /\ abandoned' = FALSE
              /\ UNCHANGED <<day, approvals, playback>>

Close  == Finish(Closes)
Fail   == Finish(Fails)

Raise ==
  /\ scenario.faults /\ Raises /\ abandoned' = TRUE
  /\ UNCHANGED <<day, eng, approvals, playback>>

-----------------------------------------------------------------------------
(* Approvals, as the ActionService tells of them *)

\* ui.approval.needed
RequestApproval(r) ==
  /\ requests[r] = "new"
  /\ requests' = [requests EXCEPT ![r] = "waiting"]
  /\ pending' = ApprovalNeeded(pending)
  /\ announced' = announced \cup {r}
  /\ UNCHANGED <<bridge, day, eng, playback, miscounted, abandoned>>

\* ui.approval.resolved, which a decision emits that has passed its check; two
\* that raced do so twice.
Decide(r) ==
  /\ requests[r] = "waiting" \/ (requests[r] = "decided" /\ scenario.faults)
  /\ requests' = [requests EXCEPT ![r] = IF @ = "waiting" THEN "decided" ELSE "twice"]
  /\ pending' = ApprovalResolved(pending)
  /\ miscounted' = (miscounted \/ r \notin announced \/ requests[r] = "decided")
  /\ UNCHANGED <<bridge, day, eng, announced, playback, abandoned>>

\* device.action.expired: no handler.
Expire(r) ==
  /\ requests[r] = "waiting"
  /\ requests' = [requests EXCEPT ![r] = "expired"]
  /\ UNCHANGED <<bridge, day, eng, pending, announced, miscounted, playback, abandoned>>

-----------------------------------------------------------------------------
(* Playback in the browser (external), and its reports *)

PlayStarts(p) ==
  /\ episodes[p] = "quiet"
  /\ episodes' = [episodes EXCEPT ![p] = "playing"]
  /\ reports' = reports \cup {[of |-> p, state |-> "voice.playback.started"]}
  /\ UNCHANGED <<bridge, day, eng, approvals, misled, abandoned>>

PlayEnds(p) ==
  /\ episodes[p] = "playing"
  /\ episodes' = [episodes EXCEPT ![p] = "over"]
  /\ reports' = reports \cup {[of |-> p, state |-> "voice.playback.finished"]}
  /\ UNCHANGED <<bridge, day, eng, approvals, misled, abandoned>>

\* voice_playback in app.py
ReportArrives == \E r \in reports :
  /\ reports' = reports \ {r}
  /\ Hear(r.state)
  /\ misled' = (misled \/ \E s \in reports : s.of = r.of /\ s.state # r.state
                                          /\ r.state = "voice.playback.finished")
  /\ UNCHANGED <<bridge, day, approvals, episodes, abandoned>>

ReportLost == \E r \in reports :
  /\ scenario.faults
  /\ reports' = reports \ {r} /\ misled' = TRUE
  /\ UNCHANGED <<bridge, day, eng, approvals, episodes, abandoned>>

-----------------------------------------------------------------------------
(* The person, the devices, the clock, a restart of the core *)

TouchIt ==
  /\ touches < scenario.touches
  /\ touches' = touches + 1
  /\ Hear("character.touch")
  /\ UNCHANGED <<bridge, scenario, now, restarts, approvals, playback, abandoned>>

DeviceEvent == \E event \in {"device.action.completed", "device.offline"} :
  /\ scenario.devices
  /\ Hear(event)
  /\ UNCHANGED <<bridge, day, approvals, playback, abandoned>>

Advance ==
  /\ now < scenario.start + scenario.clock
  /\ now - eng.lastTick < MaxLag
  /\ now' = now + 1
  /\ UNCHANGED <<bridge, scenario, touches, restarts, eng, approvals, playback, abandoned>>

\* CharacterHost._loop
HostTick ==
  /\ now > eng.lastTick
  /\ eng' = Tick(eng, now)
  /\ UNCHANGED <<bridge, day, approvals, playback, abandoned>>

\* What _persist_if_changed saved is what restore finds.
Restart == \E down \in scenario.downtimes :
  /\ restarts = 0
  /\ restarts' = 1 /\ now' = now + down
  /\ eng' = RestoreState(ExportState(eng), now')
  /\ pending' = 0 /\ announced' = {}
  /\ abandoned' = FALSE
  /\ TurnLost
  /\ UNCHANGED <<scenario, touches, requests, miscounted, playback>>

-----------------------------------------------------------------------------

Init ==
  /\ TurnInit
  /\ scenario \in Scenarios /\ now = scenario.start
  /\ eng = IF scenario.saved = None THEN Fresh(now) ELSE RestoreState(scenario.saved, now)
  /\ touches = 0 /\ restarts = 0
  /\ requests = [r \in scenario.requests |-> "new"]
  /\ pending = 0 /\ announced = {} /\ miscounted = FALSE
  /\ episodes = [p \in scenario.episodes |-> "quiet"]
  /\ reports = {} /\ misled = FALSE /\ abandoned = FALSE

Turn == \/ Asks \/ Think \/ Accepts \/ UseTool \/ ToolDone \/ Write
        \/ Complete \/ Close \/ Fail \/ Raise

Next ==
  \/ Turn
  \/ \E r \in scenario.requests : RequestApproval(r) \/ Decide(r) \/ Expire(r)
  \/ \E p \in scenario.episodes : PlayStarts(p) \/ PlayEnds(p)
  \/ ReportArrives \/ ReportLost
  \/ TouchIt \/ DeviceEvent \/ Advance \/ HostTick \/ Restart

\* The event loop resumes the call that has got the lock, and the one whose last
\* event was handled.  Nothing in the code bounds a run: the timeouts of its HTTP
\* client are per read, and any byte of Hermes, a comment too, starts them again.
Fairness == WF_vars(Think) /\ WF_vars(Close)

Spec == Init /\ [][Next]_vars /\ Fairness
-----------------------------------------------------------------------------
(* Properties *)

\* Every variable has its type; the counters of the engine stay in their range.
TypeOK ==
  /\ TurnTypeOK
  /\ scenario \in Scenarios /\ now \in Nat
  /\ eng \in Engine /\ pending \in 0..Cardinality(scenario.requests)
  /\ touches \in 0..scenario.touches /\ restarts \in {0, 1}
  /\ requests \in [scenario.requests -> {"new", "waiting", "decided", "twice", "expired"}]
  /\ announced \subseteq scenario.requests
  /\ episodes \in [scenario.episodes -> {"quiet", "playing", "over"}]
  /\ reports \subseteq [of : scenario.episodes, state : {"voice.playback.started", "voice.playback.finished"}]
  /\ {miscounted, misled, abandoned} \subseteq BOOLEAN

Unsettled == {r \in announced : requests[r] \in {"waiting", "expired"}}

\* The character never asks for attention on account of more requests than it
\* was told of and heard no decision of: those that wait, and those that have
\* expired, which nobody counts down.  It asks for exactly those unless two
\* decisions raced or a request is older than the process (approval_needed,
\* approval_resolved, and the dispatch table of the host).
PendingIsCounted ==
  /\ pending <= Cardinality(Unsettled)
  /\ ~miscounted => pending = Cardinality(Unsettled)

\* The character thinks or works only while a run of Hermes is under way.
BusyOnlyDuringTurn ==
  eng.activity \in {"thinking", "working"} => phase # "free" \/ abandoned

\* Outside of a run it speaks only while somebody hears it, or a report of it is
\* still under way.
SpeakingIsHeard ==
  eng.activity = "speaking" /\ phase = "free" =>
    \/ \E p \in scenario.episodes : episodes[p] = "playing"
    \/ reports # {}
    \/ misled \/ abandoned

\* The character never thinks, works or speaks for nothing, except after a run
\* that was left without hermes.done (_ask: only HTTP and OS errors are caught)
\* or a report of playback that was lost or overtaken (assistant_done,
\* speech_started, speech_finished).
NeverBusyForNothing == BusyOnlyDuringTurn /\ SpeakingIsHeard

\* The engine ticked in each unit of time, for d of them after t.
Ticked(e, t, d) ==
  LET run[i \in 0..d] == IF i = 0 THEN e ELSE Tick(run[i-1], t + i) IN run[d]

\* The nightfalls and mornings after s, until t.
Edges(s, t) == {u \in (s + 1)..t : Night(u) # Night(u - 1)}

\* A character that is down for a while is, after its first tick, as active and
\* as tired as one that was ticked all the time: same activity, same debt, and
\* an energy that differs by less than one step of integration at falling
\* asleep and at each nightfall and each morning (restore_state and the loop of
\* tick).
CatchesUp ==
  eng.activity \in {"idle", "sleeping"} =>
    \A d \in scenario.downtimes \ {0} :
      LET live == Ticked(eng, now, d)
          back == Tick(RestoreState(ExportState(eng), now + d), now + d)
          off  == (MaxStep - 1) * Greatest(SleepRecovery, IdleRecovery)
                    * (1 + Cardinality(Edges(eng.lastTick, now + d)))
      IN  /\ live.activity = back.activity
          /\ live.debt = back.debt
          /\ back.energy - live.energy \in -off..off

\* How long a window of the day lasts.
Lasts(start, end) == IF start <= end THEN end - start ELSE DayLength - start + end

\* Night and day, and the hours in which debt is cleared, are longer than a step
\* of integration, the latter are by day and the deep night is at night; a day is
\* long enough for whoever woke up in it to be idle by the next night.  So
\* CharacterConfig has them: hours against a minute, and ten minutes to fall asleep.
LongWindows ==
  /\ MaxStep <= Lasts(SleepStart, WakeTime)
  /\ MaxStep + SleepAfterIdle <= Lasts(WakeTime, SleepStart)
  /\ MaxStep <= Lasts(DebtClear, SleepStart)
  /\ Lasts(DebtClear, SleepStart) <= Lasts(WakeTime, SleepStart)
  /\ Lasts(DeepSleepStart, WakeTime) <= Lasts(SleepStart, WakeTime)

Clear(t) == InWindow(Clock(t), DebtClear, SleepStart)

\* What of an engine that was ticked last at e.lastTick fits to that time.
Coherent(e, t) ==
  /\ e.activity = "sleeping" => Night(e.lastTick) /\ e.lastInteraction <= e.lastTick
  /\ e.debt > 0 /\ Clear(e.lastTick) => \E u \in e.lastTick..t : Night(u)

\* What the first process finds has been written by one like it, not by one with
\* other windows.
WrittenRows ==
  \A s \in Scenarios : s.saved # None => Coherent(RestoreState(s.saved, s.start), s.start)

\* "exactly as if the engine had been running" (character.py:317) and "energy
\* accounting depends only on wall time, not on how often tick() is called"
\* (character.py:226): the same energy to the unit.  It does not hold: a step that
\* ends asleep, or by day, is counted as if it had been so from its start.
CatchesUpExactly ==
  eng.activity \in {"idle", "sleeping"} =>
    \A d \in scenario.downtimes :
      Tick(RestoreState(ExportState(eng), now + d), now + d).energy = Ticked(eng, now, d).energy

\* Hermes, or the link to it, lets every run come to an end.
RunsEnd == []<>(phase \notin {"posting", "streaming"})

\* If every run comes to an end, however it ends, every call of ask returns,
\* whatever became of the runs before it, unless the process ends (the lock of
\* ask, which each way out of _ask and _stream releases to the next in line).
\* Without that premise it does not: a Hermes that keeps a stream alive and
\* never ends it keeps the lock, and every later call waits.
AsksReturn ==
  RunsEnd => \A a \in Callers : asks[a] = "waiting" ~> asks[a] # "waiting"
=============================================================================
