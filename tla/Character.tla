------------------------------ MODULE Character ------------------------------
(***************************************************************************)
(* CharacterEngine (character.py) as values: an engine is a record, a      *)
(* method an operator from the engine before and the clock to the engine   *)
(* after.  The clock and the durations are natural numbers of one unit,    *)
(* energy and debt count in steps of what one interaction costs.           *)
(***************************************************************************)
EXTENDS Integers

CONSTANTS
  DayLength,                              \* the clock of the day is time % DayLength
  SleepStart, DeepSleepStart, WakeTime, DebtClear,
  SleepAfterIdle, DeepSleepAfterIdle, WakingDuration, ListenTimeout, ReactionDuration,
  MaxStep,                                \* max_step_s
  MaxEnergy, LowEnergy, NightCost, DebtThreshold,
  SleepRecovery, IdleRecovery,            \* energy gained in a unit of time
  None

ASSUME CharacterAssumption ==
  /\ DayLength \in Nat \ {0} /\ MaxStep \in Nat \ {0}
  /\ {SleepStart, DeepSleepStart, WakeTime, DebtClear} \subseteq 0..(DayLength - 1)
  /\ {SleepAfterIdle, DeepSleepAfterIdle, WakingDuration, ListenTimeout, ReactionDuration} \subseteq Nat
  /\ {MaxEnergy, LowEnergy, NightCost, DebtThreshold, SleepRecovery, IdleRecovery} \subseteq Nat

Activity  == {"idle", "listening", "thinking", "speaking", "working", "sleeping", "waking"}
Mood      == {"neutral", "happy", "sleepy", "annoyed", "confused"}
Attention == {"none", "user", "notification", "device"}
Reaction  == [mood : Mood, attention : Attention \cup {None}, until : Nat]

\* `until` is _waking_until while waking and _listening_until while listening;
\* no branch reads either of them in another activity.
Engine ==
  [activity : Activity, energy : 0..MaxEnergy, debt : Nat,
   lastInteraction : Nat, lastTick : Nat, until : Nat,
   tools : Nat, audio : BOOLEAN, user : BOOLEAN,
   reaction : Reaction \cup {None}]

Fresh(t) ==
  [activity |-> "idle", energy |-> MaxEnergy, debt |-> 0,
   lastInteraction |-> t, lastTick |-> t, until |-> 0,
   tools |-> 0, audio |-> FALSE, user |-> FALSE, reaction |-> None]

Least(a, b)    == IF a <= b THEN a ELSE b
Greatest(a, b) == IF a <= b THEN b ELSE a

InWindow(c, start, end) ==
  IF start <= end THEN start <= c /\ c < end ELSE start <= c \/ c < end

Clock(t)     == t % DayLength
Night(t)     == InWindow(Clock(t), SleepStart, WakeTime)
DeepNight(t) == InWindow(Clock(t), DeepSleepStart, WakeTime)

-----------------------------------------------------------------------------
(* The inputs *)

Now(e, activity) == [e EXCEPT !.activity = activity, !.until = 0]
Listen(e, t)     == [e EXCEPT !.activity = "listening", !.until = t + ListenTimeout]
React(e, t, mood, attention) ==
  [e EXCEPT !.reaction = [mood |-> mood, attention |-> attention, until |-> t + ReactionDuration]]

Touch(e, t) ==
  LET awake == [e EXCEPT !.lastInteraction = t, !.user = TRUE] IN
  CASE e.activity = "sleeping" ->
         [awake EXCEPT !.activity = "waking", !.until = t + WakingDuration]
    [] e.activity \in {"idle", "listening"} -> Listen(awake, t)
    [] OTHER -> awake

AssistantThinking(e, t) == [Now(e, "thinking") EXCEPT !.lastInteraction = t, !.user = TRUE]

ToolStarted(e) ==
  LET more == [e EXCEPT !.tools = @ + 1] IN
  IF e.activity \in {"sleeping", "waking"} THEN more ELSE Now(more, "working")

ToolFinished(e) ==
  LET fewer == [e EXCEPT !.tools = Greatest(0, @ - 1)] IN
  IF e.activity = "working" /\ fewer.tools = 0 THEN Now(fewer, "thinking") ELSE fewer

ToolFailed(e, t) == React(ToolFinished(e), t, "confused", None)

AssistantSpeaking(e, t) ==
  LET speaking == [Now(e, "speaking") EXCEPT !.lastInteraction = t] IN
  IF Night(t)
  THEN [speaking EXCEPT !.energy = Greatest(0, @ - NightCost), !.debt = @ + NightCost]
  ELSE speaking

AssistantDone(e, t) ==
  [Now(e, IF e.audio THEN "speaking" ELSE "idle")
     EXCEPT !.tools = 0, !.user = FALSE, !.lastInteraction = t]

SpeechStarted(e) ==
  LET playing == [e EXCEPT !.audio = TRUE] IN
  IF e.activity \in {"idle", "speaking", "listening"} THEN Now(playing, "speaking") ELSE playing

MutantSpeechFinished(e, t) ==
  IF e.activity = "speaking" THEN [Now(e, "idle") EXCEPT !.lastInteraction = t] ELSE e

SpeechFinished(e, t) ==
  LET silent == [e EXCEPT !.audio = FALSE] IN
  IF e.activity = "speaking" THEN [Now(silent, "idle") EXCEPT !.lastInteraction = t] ELSE silent

DeviceActionCompleted(e, t) ==
  IF e.activity = "sleeping" THEN e ELSE React(e, t, "happy", None)

DeviceOffline(e, t) == React(e, t, "annoyed", "device")

\* _pending_approvals, which no other input reads or writes.
ApprovalNeeded(n)   == n + 1
MutantApprovalResolved(n) == n - 1
MutantAllResolved(n) == 0
ApprovalResolved(n) == Greatest(0, n - 1)

-----------------------------------------------------------------------------
(* The clock *)

FallsAsleep(e, t) ==
  \/ DeepNight(t) /\ t - e.lastInteraction >= DeepSleepAfterIdle
  \/ Night(t) /\ t - e.lastInteraction >= SleepAfterIdle

\* _step: the timers that are due at t, then what the time since the last
\* tick is worth.  `now` is what _listen reads from the clock.
Timers(e, t, now) ==
  CASE e.activity = "waking" /\ t >= e.until -> Listen(e, now)
    [] e.activity = "listening" /\ t >= e.until ->
         [Now(e, "idle") EXCEPT !.user = FALSE, !.lastInteraction = t]
    [] e.activity = "idle" /\ FallsAsleep(e, t) -> Now(e, "sleeping")
    [] OTHER -> e

Morning(e, t) ==
  IF e.activity = "sleeping" /\ ~Night(t)
  THEN [Now(e, "idle") EXCEPT !.lastInteraction = t]
  ELSE e

Gain(e, t, dt) ==
  CASE e.activity = "sleeping" -> SleepRecovery * dt
    [] e.activity = "idle" /\ ~Night(t) -> IdleRecovery * dt
    [] OTHER -> 0

Step(e, t, now) ==
  LET dt   == Greatest(0, t - e.lastTick)
      calm == IF e.reaction # None /\ t >= e.reaction.until THEN None ELSE e.reaction
      next == Morning(Timers([e EXCEPT !.lastTick = t, !.reaction = calm], t, now), t)
  IN  [next EXCEPT !.energy = Least(MaxEnergy, @ + Gain(next, t, dt)),
                   !.debt = IF InWindow(Clock(t), DebtClear, SleepStart) THEN 0 ELSE @]

MutantStepEnd(e, now) == now
StepEnd(e, now) == Least(now, e.lastTick + MaxStep)

\* A gap is walked through in steps of at most MaxStep, and always in one.
Tick(e, now) ==
  LET gap   == Greatest(0, now - e.lastTick)
      steps == Greatest(1, (gap + MaxStep - 1) \div MaxStep)
      walk[i \in 0..steps] == IF i = 0 THEN e ELSE Step(walk[i-1], StepEnd(walk[i-1], now), now)
  IN  walk[steps]

-----------------------------------------------------------------------------
(* What is shown, and what is kept over a restart *)

MoodOf(e, t) ==
  IF e.reaction # None /\ e.activity # "sleeping" THEN e.reaction.mood
  ELSE IF Night(t) \/ e.energy < LowEnergy \/ e.debt >= DebtThreshold THEN "sleepy" ELSE "neutral"

AttentionOf(e, pending) ==
  CASE pending > 0 -> "notification"
    [] pending = 0 /\ e.reaction # None /\ e.reaction.attention # None -> e.reaction.attention
    [] OTHER -> IF e.user \/ e.activity \in {"listening", "waking", "thinking", "speaking"}
                THEN "user" ELSE "none"

ExportState(e) ==
  [energy |-> e.energy, debt |-> e.debt, asleep |-> e.activity = "sleeping",
   lastInteraction |-> e.lastInteraction, lastTick |-> e.lastTick]

\* Numbers out of range are brought into it, times ahead of the clock are not
\* taken over.
RestoreState(saved, t) ==
  [Fresh(t) EXCEPT
     !.energy = Least(MaxEnergy, Greatest(0, saved.energy)), !.debt = Greatest(0, saved.debt),
     !.activity = IF saved.asleep THEN "sleeping" ELSE "idle",
     !.lastInteraction = IF saved.lastInteraction <= t THEN saved.lastInteraction ELSE t,
     !.lastTick = IF saved.lastTick <= t THEN saved.lastTick ELSE t]
=============================================================================
