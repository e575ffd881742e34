---------------------------- MODULE PresenceProofs ----------------------------
(***************************************************************************)
(* The character, for every set of scenarios, any texts and any number of  *)
(* requests, clips and calls: what its engine may be, for what it asks     *)
(* attention, and that it is never busy for nothing.                       *)
(***************************************************************************)
EXTENDS Presence, HermesBridgeProofs

-----------------------------------------------------------------------------
(* What Tick repeats. *)

\* One round of the loop of tick.
Round(e, t) == Step(e, StepEnd(e, t), t)

LEMMA WalkExists ==
  ASSUME NEW e, NEW t
  PROVE  \A n \in Nat : \E w : w = [i \in 0..n |-> IF i = 0 THEN e ELSE Round(w[i-1], t)]
<1> DEFINE Good == {n \in Nat : \E w : w = [i \in 0..n |-> IF i = 0 THEN e ELSE Round(w[i-1], t)]}
<1>1. 0 \in Good
  <2> DEFINE w == [i \in 0..0 |-> e]
  <2>1. w = [i \in 0..0 |-> IF i = 0 THEN e ELSE Round(w[i-1], t)]
    OBVIOUS
  <2> QED
    BY <2>1
<1>2. ASSUME NEW n \in Good PROVE n + 1 \in Good
  <2>1. PICK w : w = [i \in 0..n |-> IF i = 0 THEN e ELSE Round(w[i-1], t)]
    OBVIOUS
  <2>2. \A i \in 0..n : w[i] = IF i = 0 THEN e ELSE Round(w[i-1], t)
    BY <2>1
  <2> DEFINE v == [i \in 0..(n+1) |-> IF i \in 0..n THEN w[i] ELSE Round(w[n], t)]
  <2>3. ASSUME NEW i \in 0..(n+1) PROVE v[i] = IF i = 0 THEN e ELSE Round(v[i-1], t)
    <3>1. CASE i = n + 1
      BY <3>1
    <3>2. CASE i \in 0..n /\ i # 0
      <4>1. v[i] = w[i] /\ v[i-1] = w[i-1]
        BY <3>2
      <4> QED
        BY <3>2, <4>1, <2>2
    <3>3. CASE i = 0
      BY <3>3, <2>2
    <3> QED
      BY <3>1, <3>2, <3>3
  <2>4. v = [i \in 0..(n+1) |-> IF i = 0 THEN e ELSE Round(v[i-1], t)]
    BY <2>3
  <2> HIDE DEF v
  <2> QED
    BY <2>4
<1>3. Good \in SUBSET Nat
  OBVIOUS
<1>4. Good = Nat
  <2> HIDE DEF Good
  <2> QED
    BY <1>1, <1>2, <1>3, Induction
<1> QED
  BY <1>4

\* n rounds of it.
Walked(e, t, n) ==
  LET walk[i \in 0..n] == IF i = 0 THEN e ELSE Round(walk[i-1], t) IN walk[n]

\* What one round preserves, all of them do.
LEMMA RoundsStay ==
  ASSUME NEW A, NEW e \in A, NEW t, NEW n \in Nat,
         \A x \in A : Round(x, t) \in A
  PROVE  Walked(e, t, n) \in A
<1> DEFINE w[i \in 0..n] == IF i = 0 THEN e ELSE Round(w[i-1], t)
<1>1. w = [i \in 0..n |-> IF i = 0 THEN e ELSE Round(w[i-1], t)]
  BY WalkExists
<1>2. Walked(e, t, n) = w[n]
  BY DEF Walked
<1> HIDE DEF w
<1>3. \A i \in 0..n : w[i] = IF i = 0 THEN e ELSE Round(w[i-1], t)
  BY <1>1
<1> DEFINE Bad == {i \in 0..n : w[i] \notin A}
<1>4. ASSUME Bad # {} PROVE FALSE
  <2>0. Bad \subseteq Nat
    OBVIOUS
  <2>1. PICK i \in Bad : \A j \in Bad : i <= j
    <3> HIDE DEF Bad
    <3> QED
      BY <1>4, <2>0, LeastNumber
  <2>2. i \in 0..n /\ w[i] \notin A
    BY <2>1
  <2>3. i # 0 /\ i - 1 \in 0..n
    BY <1>3, <2>2
  <2>4. w[i-1] \in A
    BY <2>1, <2>2, <2>3
  <2> QED
    BY <1>3, <2>2, <2>3, <2>4
<1> QED
  BY <1>2, <1>4

LEMMA TickStays ==
  ASSUME NEW A, NEW e \in A, NEW t \in Nat, e.lastTick \in Nat,
         \A x \in A : Round(x, t) \in A
  PROVE  Tick(e, t) \in A
<1> DEFINE gap   == Greatest(0, t - e.lastTick)
           steps == Greatest(1, (gap + MaxStep - 1) \div MaxStep)
<1>1. steps \in Nat
  <2>1. gap \in Nat
    BY DEF Greatest
  <2> HIDE DEF gap
  <2>2. gap + MaxStep - 1 \in Nat /\ MaxStep \in Nat \ {0}
    BY <2>1, CharacterAssumption
  <2>3. (gap + MaxStep - 1) \div MaxStep \in Int
    BY <2>2
  <2> QED
    BY <2>3 DEF Greatest
<1>2. Tick(e, t) = Walked(e, t, steps)
  BY DEF Tick, Walked, Round
<1> HIDE DEF steps
<1> QED
  BY <1>1, <1>2, RoundsStay

-----------------------------------------------------------------------------
(* Every input and every tick keeps an engine an engine. *)

Busy == {"thinking", "working", "speaking"}

\* The fields that the properties are about.
Same(x, e) == x.activity = e.activity /\ x.audio = e.audio

LEMMA ConstantsAreNatural ==
  /\ WakingDuration \in Nat /\ ListenTimeout \in Nat /\ ReactionDuration \in Nat
  /\ MaxStep \in Nat /\ MaxEnergy \in Nat /\ NightCost \in Nat
  /\ SleepRecovery \in Nat /\ IdleRecovery \in Nat
BY CharacterAssumption

LEMMA NowEngine ==
  ASSUME NEW e \in Engine, NEW a \in Activity
  PROVE  Now(e, a) \in Engine /\ Now(e, a).activity = a /\ Now(e, a).audio = e.audio
BY DEF Now, Engine

LEMMA ListenEngine ==
  ASSUME NEW e \in Engine, NEW t \in Nat
  PROVE  Listen(e, t) \in Engine /\ Listen(e, t).activity = "listening" /\ Listen(e, t).audio = e.audio
<1>1. t + ListenTimeout \in Nat
  BY ConstantsAreNatural
<1> QED
  BY <1>1 DEF Listen, Engine, Activity

LEMMA ReactEngine ==
  ASSUME NEW e \in Engine, NEW t \in Nat, NEW mood \in Mood, NEW attention \in Attention \cup {None}
  PROVE  React(e, t, mood, attention) \in Engine /\ Same(React(e, t, mood, attention), e)
<1> DEFINE r == [mood |-> mood, attention |-> attention, until |-> t + ReactionDuration]
<1>1. r \in Reaction
  BY ConstantsAreNatural DEF Reaction
<1> HIDE DEF r
<1>2. [e EXCEPT !.reaction = r] \in Engine /\ Same([e EXCEPT !.reaction = r], e)
  BY <1>1 DEF Engine, Same
<1> QED
  BY <1>2 DEF React, r

LEMMA AttendEngine ==
  ASSUME NEW e \in Engine, NEW t \in Nat, NEW u \in BOOLEAN
  PROVE  LET x == [e EXCEPT !.lastInteraction = t, !.user = u] IN x \in Engine /\ Same(x, e)
BY DEF Engine, Same

LEMMA TimeEngine ==
  ASSUME NEW e \in Engine, NEW t \in Nat
  PROVE  LET x == [e EXCEPT !.lastInteraction = t] IN x \in Engine /\ Same(x, e)
BY DEF Engine, Same

LEMMA TouchEngine ==
  ASSUME NEW e \in Engine, NEW t \in Nat
  PROVE  /\ Touch(e, t) \in Engine /\ Touch(e, t).audio = e.audio
         /\ Touch(e, t).activity \in Busy => Touch(e, t).activity = e.activity
<1> DEFINE awake == [e EXCEPT !.lastInteraction = t, !.user = TRUE]
<1>1. awake \in Engine /\ Same(awake, e)
  BY AttendEngine
<1> HIDE DEF awake
<1>2. CASE e.activity = "sleeping"
  <2> DEFINE x == [awake EXCEPT !.activity = "waking", !.until = t + WakingDuration]
  <2>1. t + WakingDuration \in Nat
    BY ConstantsAreNatural
  <2>2. x \in Engine /\ x.activity = "waking" /\ x.audio = awake.audio
    BY <1>1, <2>1 DEF Engine, Activity
  <2>3. Touch(e, t) = x
    BY <1>2 DEF Touch, awake
  <2> HIDE DEF x
  <2> QED
    BY <1>1, <2>2, <2>3 DEF Busy, Same
<1>3. CASE e.activity \in {"idle", "listening"}
  <2>1. Touch(e, t) = Listen(awake, t)
    BY <1>3 DEF Touch, awake
  <2> QED
    BY <1>1, <2>1, ListenEngine DEF Busy, Same
<1>4. CASE e.activity \notin {"idle", "listening", "sleeping"}
  <2>1. Touch(e, t) = awake
    BY <1>4 DEF Touch, awake
  <2> QED
    BY <1>1, <2>1 DEF Same
<1> QED
  BY <1>2, <1>3, <1>4

LEMMA ThinkingEngine ==
  ASSUME NEW e \in Engine, NEW t \in Nat
  PROVE  AssistantThinking(e, t) \in Engine /\ AssistantThinking(e, t).audio = e.audio
<1> DEFINE x == Now(e, "thinking")
<1>1. x \in Engine /\ x.audio = e.audio
  BY NowEngine DEF Activity
<1> HIDE DEF x
<1>2. LET y == [x EXCEPT !.lastInteraction = t, !.user = TRUE] IN y \in Engine /\ Same(y, x)
  BY <1>1, AttendEngine
<1> QED
  BY <1>1, <1>2 DEF AssistantThinking, x, Same

LEMMA ToolsEngine ==
  ASSUME NEW e \in Engine, NEW n \in Nat
  PROVE  LET x == [e EXCEPT !.tools = n] IN x \in Engine /\ Same(x, e)
BY DEF Engine, Same

LEMMA ToolStartedEngine ==
  ASSUME NEW e \in Engine
  PROVE  ToolStarted(e) \in Engine /\ ToolStarted(e).audio = e.audio
<1> DEFINE more == [e EXCEPT !.tools = e.tools + 1]
<1>1. e.tools + 1 \in Nat
  BY DEF Engine
<1>2. more \in Engine /\ Same(more, e)
  BY <1>1, ToolsEngine
<1>3. ToolStarted(e) = IF e.activity \in {"sleeping", "waking"} THEN more ELSE Now(more, "working")
  BY DEF ToolStarted
<1> HIDE DEF more
<1> QED
  BY <1>2, <1>3, NowEngine DEF Activity, Same

LEMMA ToolFinishedEngine ==
  ASSUME NEW e \in Engine
  PROVE  ToolFinished(e) \in Engine /\ ToolFinished(e).audio = e.audio
<1> DEFINE n     == Greatest(0, e.tools - 1)
           fewer == [e EXCEPT !.tools = n]
<1>1. n \in Nat
  BY DEF Engine, Greatest
<1>2. ToolFinished(e) = IF e.activity = "working" /\ fewer.tools = 0 THEN Now(fewer, "thinking") ELSE fewer
  <2>1. fewer.activity = e.activity
    BY DEF Engine
  <2> QED
    BY <2>1 DEF ToolFinished
<1> HIDE DEF n
<1>3. fewer \in Engine /\ Same(fewer, e)
  BY <1>1, ToolsEngine
<1> HIDE DEF fewer
<1> QED
  BY <1>2, <1>3, NowEngine DEF Activity, Same

LEMMA ToolFailedEngine ==
  ASSUME NEW e \in Engine, NEW t \in Nat
  PROVE  ToolFailed(e, t) \in Engine /\ ToolFailed(e, t).audio = e.audio
BY ToolFinishedEngine, ReactEngine DEF ToolFailed, Mood, Same

LEMMA SpeakingEngine ==
  ASSUME NEW e \in Engine, NEW t \in Nat
  PROVE  AssistantSpeaking(e, t) \in Engine /\ AssistantSpeaking(e, t).audio = e.audio
<1> DEFINE x == Now(e, "speaking")
           y == [x EXCEPT !.lastInteraction = t]
<1>1. x \in Engine /\ x.audio = e.audio
  BY NowEngine DEF Activity
<1> HIDE DEF x
<1>2. y \in Engine /\ y.audio = x.audio
  BY <1>1, TimeEngine DEF Same
<1>3. AssistantSpeaking(e, t) =
        IF Night(t) THEN [y EXCEPT !.energy = Greatest(0, y.energy - NightCost), !.debt = y.debt + NightCost]
                    ELSE y
  BY <1>1 DEF AssistantSpeaking, x, Engine
<1> HIDE DEF y
<1>4. Greatest(0, y.energy - NightCost) \in 0..MaxEnergy /\ y.debt + NightCost \in Nat
  BY <1>2, ConstantsAreNatural DEF Engine, Greatest
<1> DEFINE z == [y EXCEPT !.energy = Greatest(0, y.energy - NightCost), !.debt = y.debt + NightCost]
<1>5. z \in Engine /\ z.audio = y.audio
  BY <1>2, <1>4 DEF Engine
<1> HIDE DEF z
<1>6. AssistantSpeaking(e, t) = y \/ AssistantSpeaking(e, t) = z
  BY <1>3 DEF z
<1> QED
  BY <1>1, <1>2, <1>5, <1>6

LEMMA DoneEngine ==
  ASSUME NEW e \in Engine, NEW t \in Nat
  PROVE  /\ AssistantDone(e, t) \in Engine /\ AssistantDone(e, t).audio = e.audio
         /\ AssistantDone(e, t).activity = IF e.audio THEN "speaking" ELSE "idle"
<1> DEFINE a == IF e.audio THEN "speaking" ELSE "idle"
           x == Now(e, a)
<1>1. a \in Activity
  BY DEF Activity
<1> HIDE DEF a
<1>2. x \in Engine /\ x.audio = e.audio /\ x.activity = a
  BY <1>1, NowEngine
<1> DEFINE y == [x EXCEPT !.tools = 0]
<1>3. AssistantDone(e, t) = [y EXCEPT !.user = FALSE, !.lastInteraction = t]
  BY DEF AssistantDone, a
<1> HIDE DEF x
<1>4. y \in Engine /\ Same(y, x)
  BY <1>2, ToolsEngine
<1> HIDE DEF y
<1>5. AssistantDone(e, t) \in Engine /\ Same(AssistantDone(e, t), y)
  <2> DEFINE z == [y EXCEPT !.lastInteraction = t, !.user = FALSE]
  <2>1. AssistantDone(e, t) = z
    BY <1>3, <1>4 DEF Engine
  <2>2. z \in Engine /\ Same(z, y)
    BY <1>4, AttendEngine
  <2> HIDE DEF z
  <2> QED
    BY <2>1, <2>2
<1> QED
  BY <1>2, <1>4, <1>5 DEF a, Same

LEMMA SpeechStartedEngine ==
  ASSUME NEW e \in Engine
  PROVE  /\ SpeechStarted(e) \in Engine
         /\ SpeechStarted(e).activity = IF e.activity \in {"idle", "speaking", "listening"}
                                        THEN "speaking" ELSE e.activity
<1> DEFINE x == [e EXCEPT !.audio = TRUE]
<1>1. x \in Engine /\ x.activity = e.activity
  BY DEF Engine
<1>2. SpeechStarted(e) = IF e.activity \in {"idle", "speaking", "listening"} THEN Now(x, "speaking") ELSE x
  BY DEF SpeechStarted
<1> HIDE DEF x
<1> QED
  BY <1>1, <1>2, NowEngine DEF Activity

LEMMA SpeechFinishedEngine ==
  ASSUME NEW e \in Engine, NEW t \in Nat
  PROVE  /\ SpeechFinished(e, t) \in Engine /\ SpeechFinished(e, t).audio = FALSE
         /\ SpeechFinished(e, t).activity = IF e.activity = "speaking" THEN "idle" ELSE e.activity
<1> DEFINE x == [e EXCEPT !.audio = FALSE]
           y == Now(x, "idle")
           z == [y EXCEPT !.lastInteraction = t]
<1>1. x \in Engine /\ x.activity = e.activity /\ x.audio = FALSE
  BY DEF Engine
<1>2. SpeechFinished(e, t) = IF e.activity = "speaking" THEN z ELSE x
  BY DEF SpeechFinished
<1> HIDE DEF x
<1>3. y \in Engine /\ y.activity = "idle" /\ y.audio = FALSE
  BY <1>1, NowEngine DEF Activity
<1> HIDE DEF y
<1>4. z \in Engine /\ z.activity = "idle" /\ z.audio = FALSE
  BY <1>3, TimeEngine DEF Same
<1> HIDE DEF z
<1> QED
  BY <1>1, <1>2, <1>4

LEMMA DeviceEngine ==
  ASSUME NEW e \in Engine, NEW t \in Nat
  PROVE  /\ DeviceActionCompleted(e, t) \in Engine /\ Same(DeviceActionCompleted(e, t), e)
         /\ DeviceOffline(e, t) \in Engine /\ Same(DeviceOffline(e, t), e)
BY ReactEngine DEF DeviceActionCompleted, DeviceOffline, Mood, Attention, Same

\* What the clock does to an engine: the person's playback is not its business,
\* and it never makes the character busy.
Calm(x, e) == x \in Engine /\ x.audio = e.audio /\ (x.activity \in Busy => x.activity = e.activity)

LEMMA TimersCalm ==
  ASSUME NEW e \in Engine, NEW t \in Nat, NEW clock \in Nat
  PROVE  Calm(Timers(e, t, clock), e)
<1>1. CASE e.activity = "waking" /\ t >= e.until
  BY <1>1, ListenEngine DEF Timers, Calm, Busy
<1>2. CASE e.activity = "listening" /\ t >= e.until
  <2> DEFINE x == Now(e, "idle")
  <2>1. x \in Engine /\ x.activity = "idle" /\ x.audio = e.audio
    BY NowEngine DEF Activity
  <2>2. Timers(e, t, clock) = [x EXCEPT !.user = FALSE, !.lastInteraction = t]
    BY <1>2 DEF Timers
  <2> HIDE DEF x
  <2> DEFINE y == [x EXCEPT !.lastInteraction = t, !.user = FALSE]
  <2>3. Timers(e, t, clock) = y
    BY <2>1, <2>2 DEF Engine
  <2>4. y \in Engine /\ Same(y, x)
    BY <2>1, AttendEngine
  <2> HIDE DEF y
  <2> QED
    BY <2>1, <2>3, <2>4 DEF Calm, Same, Busy
<1>3. CASE e.activity = "idle" /\ FallsAsleep(e, t)
  <2>1. Timers(e, t, clock) = Now(e, "sleeping")
    BY <1>3 DEF Timers
  <2> QED
    BY <2>1, NowEngine DEF Calm, Busy, Activity
<1>4. CASE /\ ~ (e.activity = "waking" /\ t >= e.until)
           /\ ~ (e.activity = "listening" /\ t >= e.until)
           /\ ~ (e.activity = "idle" /\ FallsAsleep(e, t))
  <2>1. Timers(e, t, clock) = e
    BY <1>4 DEF Timers
  <2> QED
    BY <2>1 DEF Calm
<1> QED
  BY <1>1, <1>2, <1>3, <1>4

LEMMA MorningCalm ==
  ASSUME NEW e \in Engine, NEW t \in Nat
  PROVE  Calm(Morning(e, t), e)
<1> DEFINE x == Now(e, "idle")
           y == [x EXCEPT !.lastInteraction = t]
<1>1. x \in Engine /\ x.activity = "idle" /\ x.audio = e.audio
  BY NowEngine DEF Activity
<1>2. Morning(e, t) = IF e.activity = "sleeping" /\ ~Night(t) THEN y ELSE e
  BY DEF Morning
<1> HIDE DEF x
<1>3. y \in Engine /\ Same(y, x)
  BY <1>1, TimeEngine
<1> HIDE DEF y
<1> QED
  BY <1>1, <1>2, <1>3 DEF Calm, Same, Busy

LEMMA GainType ==
  ASSUME NEW e, NEW t, NEW dt \in Nat
  PROVE  Gain(e, t, dt) \in Nat
<1>1. SleepRecovery * dt \in Nat /\ IdleRecovery * dt \in Nat
  BY ConstantsAreNatural
<1> QED
  BY <1>1 DEF Gain

LEMMA StepCalm ==
  ASSUME NEW e \in Engine, NEW t \in Nat, NEW clock \in Nat
  PROVE  Calm(Step(e, t, clock), e)
<1> DEFINE dt   == Greatest(0, t - e.lastTick)
           calm == IF e.reaction # None /\ t >= e.reaction.until THEN None ELSE e.reaction
           here == [e EXCEPT !.lastTick = t, !.reaction = calm]
           then == Timers(here, t, clock)
           next == Morning(then, t)
           en   == Least(MaxEnergy, next.energy + Gain(next, t, dt))
           de   == IF InWindow(Clock(t), DebtClear, SleepStart) THEN 0 ELSE next.debt
<1>1. dt \in Nat
  BY DEF Engine, Greatest
<1>2. calm \in Reaction \cup {None}
  BY DEF Engine
<1> HIDE DEF calm
<1>3. here \in Engine /\ Same(here, e)
  BY <1>2 DEF Engine, Same
<1> HIDE DEF here
<1>4. Calm(then, here)
  BY <1>3, TimersCalm
<1> HIDE DEF then
<1>5. Calm(next, then)
  BY <1>4, MorningCalm DEF Calm
<1>6. next \in Engine
  BY <1>5 DEF Calm
<1>7. Step(e, t, clock) = [next EXCEPT !.energy = en, !.debt = de]
  <2>1. Step(e, t, clock) = [next EXCEPT !.energy = Least(MaxEnergy, @ + Gain(next, t, dt)),
                                        !.debt = IF InWindow(Clock(t), DebtClear, SleepStart) THEN 0 ELSE @]
    BY DEF Step, here, calm, then
  <2> HIDE DEF next
  <2> QED
    BY <1>6, <2>1 DEF Engine
<1> HIDE DEF next, dt
<1>8. Gain(next, t, dt) \in Nat
  BY <1>1, GainType
<1>9. en \in 0..MaxEnergy /\ de \in Nat
  <2>1. next.energy \in 0..MaxEnergy /\ next.debt \in Nat
    BY <1>6 DEF Engine
  <2> QED
    BY <1>8, <2>1, ConstantsAreNatural DEF Least
<1> HIDE DEF en, de
<1> DEFINE last == [next EXCEPT !.energy = en, !.debt = de]
<1>10. last \in Engine /\ Same(last, next)
  BY <1>6, <1>9 DEF Engine, Same
<1> HIDE DEF last
<1>11. Step(e, t, clock) = last
  BY <1>7 DEF last
<1> QED
  BY <1>3, <1>4, <1>5, <1>10, <1>11 DEF Calm, Same

LEMMA TickCalm ==
  ASSUME NEW e \in Engine, NEW t \in Nat
  PROVE  Calm(Tick(e, t), e)
<1> DEFINE A == {x \in Engine : Calm(x, e)}
<1>1. e \in A
  BY DEF Calm
<1>2. ASSUME NEW x \in A PROVE Round(x, t) \in A
  <2>1. x \in Engine /\ Calm(x, e)
    OBVIOUS
  <2>2. StepEnd(x, t) \in Nat
    BY <2>1, ConstantsAreNatural DEF StepEnd, Least, Engine
  <2>3. Calm(Round(x, t), x)
    BY <2>1, <2>2, StepCalm DEF Round
  <2>4. Round(x, t) \in Engine /\ Calm(Round(x, t), e)
    BY <2>1, <2>3 DEF Calm
  <2> QED
    BY <2>4
<1>3. e.lastTick \in Nat
  BY DEF Engine
<1>4. \A x \in A : Calm(x, e)
  OBVIOUS
<1> HIDE DEF A
<1>5. Tick(e, t) \in A
  BY <1>1, <1>2, <1>3, TickStays
<1> QED
  BY <1>4, <1>5

LEMMA FreshEngine ==
  ASSUME NEW t \in Nat
  PROVE  Fresh(t) \in Engine /\ Fresh(t).audio = FALSE /\ Fresh(t).activity = "idle"
BY ConstantsAreNatural DEF Fresh, Engine, Activity

LEMMA RestoreEngine ==
  ASSUME NEW saved \in Saved, NEW t \in Nat
  PROVE  LET e == RestoreState(saved, t) IN
         e \in Engine /\ e.audio = FALSE /\ e.activity \notin Busy \cup {"listening", "waking"}
<1> DEFINE en == Least(MaxEnergy, Greatest(0, saved.energy))
           de == Greatest(0, saved.debt)
           ac == IF saved.asleep THEN "sleeping" ELSE "idle"
           li == IF saved.lastInteraction <= t THEN saved.lastInteraction ELSE t
           lt == IF saved.lastTick <= t THEN saved.lastTick ELSE t
           f  == Fresh(t)
<1>1. RestoreState(saved, t) =
        [f EXCEPT !.energy = en, !.debt = de, !.activity = ac, !.lastInteraction = li, !.lastTick = lt]
  BY DEF RestoreState
<1>2. en \in 0..MaxEnergy /\ de \in Nat
  BY ConstantsAreNatural DEF Saved, Least, Greatest
<1>3. ac \in Activity /\ ac \in {"sleeping", "idle"}
  BY DEF Activity
<1>4. li \in Nat /\ lt \in Nat
  BY DEF Saved
<1>5. f \in Engine /\ f.audio = FALSE
  BY FreshEngine
<1> HIDE DEF en, de, ac, li, lt, f
<1> DEFINE e == [f EXCEPT !.energy = en, !.debt = de, !.activity = ac, !.lastInteraction = li, !.lastTick = lt]
<1>6. e \in Engine /\ e.audio = f.audio /\ e.activity = ac
  BY <1>2, <1>3, <1>4, <1>5 DEF Engine
<1> HIDE DEF e
<1>7. RestoreState(saved, t) = e
  BY <1>1 DEF e
<1> QED
  BY <1>3, <1>5, <1>6, <1>7 DEF Busy

LEMMA ExportSaved ==
  ASSUME NEW e \in Engine
  PROVE  ExportState(e) \in Saved
BY ConstantsAreNatural DEF ExportState, Saved, Engine

-----------------------------------------------------------------------------
(* The world around the character: clock, playback, reports.                  *)

States == {"voice.playback.started", "voice.playback.finished"}

\* What a handler of the host listens to.
Events == {"character.touch", "hermes.thinking", "hermes.speaking", "hermes.done",
           "hermes.tool.started", "hermes.tool.completed", "hermes.tool.failed",
           "device.action.completed", "device.offline"} \cup States

LEMMA HandleEngine ==
  ASSUME NEW e \in Engine, NEW t \in Nat, NEW event \in Events
  PROVE  Handle(event, e, t) \in Engine
<1>1. CASE event \in {"character.touch", "hermes.thinking", "hermes.speaking", "hermes.done"}
  BY <1>1, TouchEngine, ThinkingEngine, SpeakingEngine, DoneEngine DEF Handle
<1>2. CASE event \in {"hermes.tool.started", "hermes.tool.completed", "hermes.tool.failed"}
  BY <1>2, ToolStartedEngine, ToolFinishedEngine, ToolFailedEngine DEF Handle
<1>3. CASE event \in {"device.action.completed", "device.offline"}
  BY <1>3, DeviceEngine DEF Handle
<1>4. CASE event \in States
  BY <1>4, SpeechStartedEngine, SpeechFinishedEngine DEF Handle, States
<1> QED
  BY <1>1, <1>2, <1>3, <1>4 DEF Events, States

PlaybackTypeOK ==
  /\ episodes \in [scenario.episodes -> {"quiet", "playing", "over"}]
  /\ reports \subseteq [of : scenario.episodes, state : States]

WorldTypeOK ==
  /\ scenario \in Scenarios /\ now \in Nat /\ eng \in Engine
  /\ touches \in 0..scenario.touches /\ restarts \in {0, 1}
  /\ misled \in BOOLEAN /\ abandoned \in BOOLEAN

TypeInv == TurnInv /\ WorldTypeOK /\ PlaybackTypeOK

LEMMA ScenarioType ==
  ASSUME scenario \in Scenarios
  PROVE  /\ scenario.start \in Nat /\ scenario.clock \in Nat /\ scenario.touches \in Nat
         /\ scenario.downtimes \subseteq Nat /\ scenario.callers \subseteq Callers
         /\ scenario.texts \subseteq Seq(Token) /\ scenario.outputs \subseteq Seq(Token)
         /\ scenario.saved = None \/ scenario.saved \in Saved
         /\ IsFiniteSet(scenario.requests)
BY PresenceAssumption

LEMMA TypeInit == Init => TypeInv
<1> SUFFICES ASSUME Init PROVE TypeInv
  OBVIOUS
<1>1. scenario \in Scenarios /\ now = scenario.start /\ now \in Nat
  BY ScenarioType DEF Init
<1>2. eng \in Engine
  BY <1>1, ScenarioType, FreshEngine, RestoreEngine DEF Init
<1>3. TurnInv
  BY TurnStarts DEF Init
<1>4. PlaybackTypeOK
  BY DEF Init, PlaybackTypeOK
<1>5. touches \in 0..scenario.touches
  BY <1>1, ScenarioType DEF Init
<1> QED
  BY <1>1, <1>2, <1>3, <1>4, <1>5 DEF Init, TypeInv, WorldTypeOK

\* An event that a handler hears leaves an engine.
LEMMA HearStep ==
  ASSUME TypeInv, NEW event \in Events, Hear(event)
  PROVE  eng' \in Engine
BY HandleEngine DEF TypeInv, WorldTypeOK, Hear

LEMMA TurnWorldStep ==
  ASSUME TypeInv, eng' \in Engine, abandoned' \in BOOLEAN, UNCHANGED <<day, playback>>
  PROVE  WorldTypeOK' /\ PlaybackTypeOK'
BY DEF TypeInv, WorldTypeOK, PlaybackTypeOK, day, playback

LEMMA TurnTypeStep ==
  ASSUME TypeInv, Turn PROVE TypeInv'
<1>0. TurnInv /\ scenario \in Scenarios /\ eng \in Engine /\ abandoned \in BOOLEAN /\ script \in Seq(Token)
  BY DEF TypeInv, WorldTypeOK, TurnInv, TurnTypeOK
<1>1. CASE Asks
  <2>1. PICK a \in scenario.callers : Ask(a)
    BY <1>1 DEF Asks
  <2>2. TurnInv'
    BY <1>0, <2>1, ScenarioType, AskStep
  <2>3. UNCHANGED <<day, eng, playback, abandoned>>
    BY <1>1 DEF Asks
  <2> QED
    BY <1>0, <2>2, <2>3, TurnWorldStep DEF TypeInv
<1>2. CASE Accepts
  <2>1. PICK t \in scenario.texts : Accepted(t)
    BY <1>2 DEF Accepts
  <2>2. TurnInv'
    BY <1>0, <2>1, ScenarioType, AcceptedStep
  <2>3. UNCHANGED <<day, eng, playback, abandoned>>
    BY <1>2 DEF Accepts
  <2> QED
    BY <1>0, <2>2, <2>3, TurnWorldStep DEF TypeInv
<1>3. CASE Think
  <2>1. Begin /\ Hear("hermes.thinking") /\ UNCHANGED <<day, playback, abandoned>>
    BY <1>3 DEF Think, TurnAction
  <2> QED
    BY <1>0, <2>1, BeginStep, HearStep, TurnWorldStep DEF TypeInv, Events
<1>4. CASE UseTool
  <2>1. ToolStarts /\ Hear("hermes.tool.started") /\ UNCHANGED <<day, playback, abandoned>>
    BY <1>4 DEF UseTool, TurnAction
  <2> QED
    BY <1>0, <2>1, ToolStep, HearStep, TurnWorldStep DEF TypeInv, Events
<1>5. CASE ToolDone
  <2>1. PICK event \in {"hermes.tool.completed", "hermes.tool.failed"} : TurnAction(ToolCompletes, event)
    BY <1>5 DEF ToolDone
  <2>2. ToolCompletes /\ Hear(event) /\ UNCHANGED <<day, playback, abandoned>>
    BY <2>1 DEF TurnAction
  <2> QED
    BY <1>0, <2>2, ToolStep, HearStep, TurnWorldStep DEF TypeInv, Events
<1>6. CASE Write
  <2>1. PICK n \in 0..(Len(script) - Len(full)) : Delta(n)
    BY <1>6 DEF Write
  <2>2. (UNCHANGED eng \/ Hear("hermes.speaking")) /\ UNCHANGED <<day, playback, abandoned>>
    BY <1>6 DEF Write
  <2>3. TurnInv'
    BY <1>0, <2>1, DeltaStep
  <2> QED
    BY <1>0, <2>2, <2>3, HearStep, TurnWorldStep DEF TypeInv, Events
<1>7. CASE Complete
  <2>1. PICK out \in scenario.outputs \cup {script, <<>>} :
          /\ Completes(out)
          /\ IF phase' = "closing"
             THEN Hear("hermes.speaking") /\ UNCHANGED abandoned
             ELSE Hear("hermes.done") /\ abandoned' = FALSE
    BY <1>7 DEF Complete
  <2>2. UNCHANGED <<day, playback>>
    BY <1>7 DEF Complete
  <2>3. out \in Seq(Token)
    BY <1>0, ScenarioType, EmptySeq
  <2>4. TurnInv'
    BY <1>0, <2>1, <2>3, CompletesStep
  <2>5. eng' \in Engine /\ abandoned' \in BOOLEAN
    BY <1>0, <2>1, HearStep DEF Events
  <2> QED
    BY <2>2, <2>4, <2>5, TurnWorldStep DEF TypeInv
<1>8. CASE Close \/ Fail
  <2>1. (Closes \/ Fails) /\ Hear("hermes.done") /\ abandoned' = FALSE /\ UNCHANGED <<day, playback>>
    BY <1>8 DEF Close, Fail, Finish
  <2> QED
    BY <1>0, <2>1, FailsStep, HearStep, TurnWorldStep DEF TypeInv, Events
<1>9. CASE Raise
  <2>1. Raises /\ abandoned' = TRUE /\ UNCHANGED <<day, eng, playback>>
    BY <1>9 DEF Raise
  <2> QED
    BY <1>0, <2>1, FailsStep, TurnWorldStep DEF TypeInv
<1> QED
  BY <1>1, <1>2, <1>3, <1>4, <1>5, <1>6, <1>7, <1>8, <1>9 DEF Turn

LEMMA PlaybackTypeStep ==
  ASSUME TypeInv, NEW p \in scenario.episodes, PlayStarts(p) \/ PlayEnds(p) PROVE TypeInv'
<1>1. PICK s \in States, at \in {"playing", "over"} :
        /\ episodes' = [episodes EXCEPT ![p] = at] /\ reports' = reports \cup {[of |-> p, state |-> s]}
        /\ UNCHANGED <<bridge, day, eng, misled, abandoned>>
  BY DEF PlayStarts, PlayEnds, States
<1>2. PlaybackTypeOK'
  BY <1>1 DEF TypeInv, PlaybackTypeOK, day
<1>3. WorldTypeOK'
  BY <1>1 DEF TypeInv, WorldTypeOK, day
<1> QED
  BY <1>1, <1>2, <1>3, BridgeStays DEF TypeInv

LEMMA ReportTypeStep ==
  ASSUME TypeInv, ReportArrives \/ ReportLost PROVE TypeInv'
<1>1. CASE ReportArrives
  <2>1. PICK r \in reports :
          /\ reports' = reports \ {r} /\ Hear(r.state)
          /\ misled' = (misled \/ \E s \in reports : s.of = r.of /\ s.state # r.state
                                                  /\ r.state = "voice.playback.finished")
    BY <1>1 DEF ReportArrives
  <2>2. UNCHANGED <<bridge, day, episodes, abandoned>>
    BY <1>1 DEF ReportArrives
  <2>3. r.state \in Events
    BY DEF TypeInv, PlaybackTypeOK, Events
  <2>4. eng' \in Engine
    BY <2>1, <2>3, HearStep
  <2>5. misled' \in BOOLEAN
    BY <2>1, Zenon
  <2>6. WorldTypeOK' /\ PlaybackTypeOK'
    BY <2>1, <2>2, <2>4, <2>5 DEF TypeInv, WorldTypeOK, PlaybackTypeOK, day
  <2> QED
    BY <2>2, <2>6, BridgeStays DEF TypeInv
<1>2. CASE ReportLost
  <2>1. /\ reports' \subseteq reports /\ misled' = TRUE
        /\ UNCHANGED <<bridge, day, eng, episodes, abandoned>>
    BY <1>2 DEF ReportLost
  <2>2. WorldTypeOK' /\ PlaybackTypeOK'
    BY <2>1 DEF TypeInv, WorldTypeOK, PlaybackTypeOK, day
  <2> QED
    BY <2>1, <2>2, BridgeStays DEF TypeInv
<1> QED
  BY <1>1, <1>2

LEMMA DayTypeStep ==
  ASSUME TypeInv, TouchIt \/ DeviceEvent \/ Advance \/ HostTick PROVE TypeInv'
<1>0. UNCHANGED <<bridge, scenario, playback, abandoned>> /\ scenario \in Scenarios /\ now \in Nat /\ eng \in Engine
  BY DEF TouchIt, DeviceEvent, Advance, HostTick, day, TypeInv, WorldTypeOK
<1>1. TurnInv' /\ PlaybackTypeOK' /\ misled' \in BOOLEAN /\ abandoned' \in BOOLEAN /\ scenario' \in Scenarios
  BY <1>0, BridgeStays DEF TypeInv, WorldTypeOK, PlaybackTypeOK, playback
<1>2. touches' \in 0..scenario'.touches
  <2>1. touches \in 0..scenario.touches /\ scenario.touches \in Nat
    BY <1>0, ScenarioType DEF TypeInv, WorldTypeOK
  <2>2. CASE TouchIt
    BY <1>0, <2>1, <2>2 DEF TouchIt
  <2>3. CASE DeviceEvent \/ Advance \/ HostTick
    BY <1>0, <2>1, <2>3 DEF DeviceEvent, Advance, HostTick, day
  <2> QED
    BY <2>2, <2>3
<1>3. now' \in Nat /\ restarts' \in {0, 1}
  BY <1>0 DEF TouchIt, DeviceEvent, Advance, HostTick, day, TypeInv, WorldTypeOK
<1>4. eng' \in Engine
  <2>1. CASE TouchIt
    BY <2>1, HearStep DEF TouchIt, Events
  <2>2. CASE DeviceEvent
    BY <2>2, HearStep DEF DeviceEvent, Events
  <2>3. CASE Advance
    BY <1>0, <2>3 DEF Advance
  <2>4. CASE HostTick
    BY <1>0, <2>4, TickCalm DEF HostTick, Calm
  <2> QED
    BY <2>1, <2>2, <2>3, <2>4
<1> QED
  BY <1>1, <1>2, <1>3, <1>4 DEF TypeInv, WorldTypeOK

LEMMA RestartTypeStep ==
  ASSUME TypeInv, Restart PROVE TypeInv'
<1>1. PICK down \in scenario.downtimes :
        /\ now' = now + down /\ eng' = RestoreState(ExportState(eng), now')
  BY DEF Restart
<1>2. /\ restarts' = 1 /\ abandoned' = FALSE /\ TurnLost /\ UNCHANGED <<scenario, touches, playback>>
  BY DEF Restart
<1>3. scenario \in Scenarios /\ now \in Nat /\ eng \in Engine /\ down \in Nat
  BY ScenarioType DEF TypeInv, WorldTypeOK
<1>4. now' \in Nat
  BY <1>1, <1>3
<1>5. eng' \in Engine
  BY <1>1, <1>3, <1>4, ExportSaved, RestoreEngine
<1>6. TurnInv'
  BY <1>2, TurnLostStep DEF TypeInv
<1> QED
  BY <1>2, <1>4, <1>5, <1>6 DEF TypeInv, WorldTypeOK, PlaybackTypeOK, playback

LEMMA TypeStep == TypeInv /\ [Next]_vars => TypeInv'
<1> SUFFICES ASSUME TypeInv, [Next]_vars PROVE TypeInv'
  OBVIOUS
<1>1. CASE Turn
  BY <1>1, TurnTypeStep
<1>2. ASSUME NEW p \in scenario.episodes, PlayStarts(p) \/ PlayEnds(p) PROVE TypeInv'
  BY <1>2, PlaybackTypeStep
<1>3. CASE ReportArrives \/ ReportLost
  BY <1>3, ReportTypeStep
<1>4. CASE TouchIt \/ DeviceEvent \/ Advance \/ HostTick
  BY <1>4, DayTypeStep
<1>5. CASE Restart
  BY <1>5, RestartTypeStep
<1>6. CASE (\E r \in scenario.requests : RequestApproval(r) \/ Decide(r) \/ Expire(r)) \/ UNCHANGED vars
  <2>1. UNCHANGED <<bridge, day, eng, playback, abandoned>>
    BY <1>6 DEF RequestApproval, Decide, Expire, vars
  <2>2. WorldTypeOK' /\ PlaybackTypeOK'
    BY <2>1 DEF TypeInv, WorldTypeOK, PlaybackTypeOK, day, playback
  <2> QED
    BY <2>1, <2>2, BridgeStays DEF TypeInv
<1> QED
  BY <1>1, <1>2, <1>3, <1>4, <1>5, <1>6 DEF Next

-----------------------------------------------------------------------------
(* The requests the character asks attention for. *)

\* A request is announced once, when it is new; the announced are finitely many.
Announcements ==
  /\ requests \in [scenario.requests -> {"new", "waiting", "decided", "twice", "expired"}]
  /\ announced \subseteq scenario.requests /\ IsFiniteSet(announced)
  /\ \A r \in announced : requests[r] # "new"
  /\ pending \in Nat /\ miscounted \in BOOLEAN

Inv == Announcements /\ PendingIsCounted

LEMMA UnsettledFinite ==
  ASSUME Announcements
  PROVE  IsFiniteSet(Unsettled) /\ Cardinality(Unsettled) \in Nat
<1>1. Unsettled \subseteq announced
  BY DEF Unsettled
<1> QED
  BY <1>1, FS_Subset, FS_CardinalityType DEF Announcements

LEMMA InvInit == Init => Inv
<1> SUFFICES ASSUME Init PROVE Inv
  OBVIOUS
<1>1. Announcements
  BY FS_EmptySet DEF Init, Announcements
<1>2. Unsettled = {}
  BY DEF Init, Unsettled
<1>3. PendingIsCounted
  BY <1>2, FS_EmptySet DEF Init, PendingIsCounted
<1> QED
  BY <1>1, <1>3 DEF Inv

LEMMA AnnouncedStep ==
  ASSUME Inv, NEW r \in scenario.requests, RequestApproval(r) PROVE Inv'
<1>0. /\ requests[r] = "new" /\ r \notin announced
      /\ requests' = [requests EXCEPT ![r] = "waiting"] /\ announced' = announced \cup {r}
      /\ pending' = pending + 1 /\ UNCHANGED <<miscounted, scenario>>
  BY DEF RequestApproval, Inv, Announcements, ApprovalNeeded, day
<1>1. Announcements'
  <2>1. IsFiniteSet(announced')
    BY <1>0, FS_AddElement DEF Inv, Announcements
  <2> QED
    BY <1>0, <2>1 DEF Inv, Announcements
<1>2. Unsettled' = Unsettled \cup {r} /\ r \notin Unsettled
  BY <1>0 DEF Unsettled, Inv, Announcements
<1>3. Cardinality(Unsettled') = Cardinality(Unsettled) + 1
  BY <1>2, UnsettledFinite, FS_AddElement DEF Inv
<1> QED
  BY <1>0, <1>1, <1>3, UnsettledFinite DEF Inv, PendingIsCounted, Announcements

LEMMA DecidedStep ==
  ASSUME Inv, NEW r \in scenario.requests, Decide(r) PROVE Inv'
<1>0. /\ requests[r] \in {"waiting", "decided"}
      /\ requests' = [requests EXCEPT ![r] = IF @ = "waiting" THEN "decided" ELSE "twice"]
      /\ pending' = Greatest(0, pending - 1) /\ UNCHANGED <<announced, scenario>>
      /\ miscounted' = (miscounted \/ r \notin announced \/ requests[r] = "decided")
  BY DEF Decide, ApprovalResolved, day
<1>1. Announcements'
  BY <1>0 DEF Inv, Announcements, Greatest
<1>2. CASE requests[r] = "waiting" /\ r \in announced
  <2>1. Unsettled' = Unsettled \ {r} /\ r \in Unsettled
    BY <1>0, <1>2 DEF Unsettled, Inv, Announcements
  <2>2. Cardinality(Unsettled') = Cardinality(Unsettled) - 1
    BY <2>1, UnsettledFinite, FS_RemoveElement DEF Inv
  <2>3. Cardinality(Unsettled') \in Nat
    BY <2>1, UnsettledFinite, FS_RemoveElement, FS_CardinalityType DEF Inv
  <2> QED
    BY <1>0, <1>1, <2>2, <2>3, UnsettledFinite DEF Inv, PendingIsCounted, Announcements, Greatest
<1>3. CASE requests[r] # "waiting" \/ r \notin announced
  <2>1. Unsettled' = Unsettled
    BY <1>0, <1>3 DEF Unsettled, Inv, Announcements
  <2>2. miscounted'
    BY <1>0, <1>3
  <2> QED
    BY <1>0, <1>1, <2>1, <2>2, UnsettledFinite DEF Inv, PendingIsCounted, Announcements, Greatest
<1> QED
  BY <1>2, <1>3

LEMMA ExpiredStep ==
  ASSUME Inv, NEW r \in scenario.requests, Expire(r) PROVE Inv'
<1>1. Announcements'
  BY DEF Expire, Inv, Announcements, day
<1>2. Unsettled' = Unsettled
  BY DEF Expire, Unsettled, Inv, Announcements
<1> QED
  BY <1>1, <1>2 DEF Expire, Inv, PendingIsCounted

LEMMA RestartStep ==
  ASSUME Inv, Restart PROVE Inv'
<1>1. Announcements'
  BY FS_EmptySet DEF Restart, Inv, Announcements
<1>2. Unsettled' = {}
  BY DEF Restart, Unsettled
<1> QED
  BY <1>1, <1>2, FS_EmptySet DEF Restart, Inv, PendingIsCounted

LEMMA OtherStep ==
  ASSUME Inv, UNCHANGED <<approvals, scenario>> PROVE Inv'
BY DEF approvals, Inv, Announcements, PendingIsCounted, Unsettled

LEMMA InvStep == Inv /\ [Next]_vars => Inv'
<1> SUFFICES ASSUME Inv, [Next]_vars PROVE Inv'
  OBVIOUS
<1>1. ASSUME NEW r \in scenario.requests, RequestApproval(r) \/ Decide(r) \/ Expire(r) PROVE Inv'
  BY <1>1, AnnouncedStep, DecidedStep, ExpiredStep
<1>2. CASE Restart
  BY <1>2, RestartStep
<1>3. CASE Turn
  <2>1. UNCHANGED <<approvals, scenario>>
    BY <1>3 DEF Turn, Asks, Accepts, TurnAction, Think, UseTool, ToolDone, Write, Finish,
                Complete, Close, Fail, Raise, day
  <2> QED
    BY <2>1, OtherStep
<1>4. CASE \/ \E p \in scenario.episodes : PlayStarts(p) \/ PlayEnds(p)
           \/ ReportArrives \/ ReportLost \/ TouchIt \/ DeviceEvent \/ Advance \/ HostTick
           \/ UNCHANGED vars
  <2>1. UNCHANGED <<approvals, scenario>>
    BY <1>4 DEF PlayStarts, PlayEnds, ReportArrives, ReportLost, TouchIt, DeviceEvent, Advance,
                HostTick, vars, day
  <2> QED
    BY <2>1, OtherStep
<1> QED
  BY <1>1, <1>2, <1>3, <1>4 DEF Next

\* The character never asks attention for more than it was told of and heard no
\* decision of, and for exactly that unless two decisions raced or a request is
\* older than the process: whatever turns, clips, restarts and the clock do.
THEOREM AttentionIsCounted == Spec => []PendingIsCounted
<1>1. Inv => PendingIsCounted
  BY DEF Inv
<1> QED
  BY InvInit, InvStep, <1>1, PTL DEF Spec

\* Every variable keeps its type, whatever is asked, answered, played, reported,
\* touched or restarted: the texts of the bridge and its line of callers, an
\* energy between nothing and all of it, and no more attention asked than there
\* are requests.
THEOREM PresenceTyped == Spec => []TypeOK
<1>1. TypeInv /\ Inv => TypeOK
  <2> SUFFICES ASSUME TypeInv, Inv PROVE TypeOK
    OBVIOUS
  <2>1. pending \in 0..Cardinality(scenario.requests)
    <3>1. Unsettled \subseteq scenario.requests /\ IsFiniteSet(scenario.requests)
      BY ScenarioType DEF Unsettled, Inv, Announcements, TypeInv, WorldTypeOK
    <3>2. Cardinality(Unsettled) <= Cardinality(scenario.requests) /\ Cardinality(scenario.requests) \in Nat
      BY <3>1, FS_Subset, FS_CardinalityType
    <3> QED
      BY <3>2, UnsettledFinite DEF Inv, Announcements, PendingIsCounted
  <2>2. TurnTypeOK
    BY DEF TypeInv, TurnInv
  <2> QED
    BY <2>1, <2>2 DEF TypeOK, TypeInv, WorldTypeOK, PlaybackTypeOK, States, Inv, Announcements
<1> QED
  BY InvInit, InvStep, TypeInit, TypeStep, <1>1, PTL DEF Spec

-----------------------------------------------------------------------------
(* It is never busy for nothing.                                              *)

Report(p, state) == [of |-> p, state |-> state]

\* A report is of something that happened.  That a clip is over arrives after
\* that it started, unless a report was lost or overtaken.
ReportsAreTrue ==
  /\ \A r \in reports : episodes[r.of] # "quiet"
  /\ \A p \in scenario.episodes :
       Report(p, "voice.playback.finished") \in reports => episodes[p] = "over"
  /\ \A p \in scenario.episodes :
       episodes[p] = "over" /\ Report(p, "voice.playback.started") \in reports /\ ~misled =>
         Report(p, "voice.playback.finished") \in reports

\* Somebody hears the character, or is about to tell of it.
Heard == (\E p \in scenario.episodes : episodes[p] = "playing") \/ reports # {} \/ misled

AudioIsHeard == eng.audio => Heard

BusyInv == ReportsAreTrue /\ AudioIsHeard /\ NeverBusyForNothing

LEMMA BusyInit == Init => BusyInv
<1> SUFFICES ASSUME Init PROVE BusyInv
  OBVIOUS
<1>1. TypeInv
  BY TypeInit
<1>2. eng.audio = FALSE /\ eng.activity \notin Busy
  <2>1. scenario \in Scenarios /\ now \in Nat
    BY <1>1 DEF TypeInv, WorldTypeOK
  <2> QED
    BY <2>1, ScenarioType, FreshEngine, RestoreEngine DEF Init, Busy
<1>3. ReportsAreTrue
  BY DEF Init, ReportsAreTrue
<1> QED
  BY <1>2, <1>3 DEF BusyInv, AudioIsHeard, NeverBusyForNothing, BusyOnlyDuringTurn, SpeakingIsHeard, Busy

\* What leaves playback alone, and neither takes up the audio nor becomes busy
\* unless a run is under way.
LEMMA QuietStep ==
  ASSUME TypeInv, BusyInv, UNCHANGED <<scenario, playback>>,
         eng'.audio => eng.audio,
         eng'.activity \in Busy =>
           \/ phase' # "free" \/ abandoned'
           \/ eng'.activity = "speaking" /\ eng.audio
           \/ eng'.activity = eng.activity /\ phase' = phase /\ abandoned' = abandoned
  PROVE  BusyInv'
<1>1. ReportsAreTrue'
  BY DEF BusyInv, ReportsAreTrue, playback
<1>2. Heard' = Heard
  BY DEF Heard, playback
<1>3. AudioIsHeard'
  BY <1>2 DEF BusyInv, AudioIsHeard
<1>4. BusyOnlyDuringTurn'
  BY DEF BusyInv, NeverBusyForNothing, BusyOnlyDuringTurn, Busy
<1>5. SpeakingIsHeard'
  <2> SUFFICES ASSUME eng'.activity = "speaking", phase' = "free", ~abandoned' PROVE Heard'
    BY DEF SpeakingIsHeard, Heard
  <2>1. CASE eng.audio
    BY <1>2, <2>1 DEF BusyInv, AudioIsHeard
  <2>2. CASE eng.activity = "speaking" /\ phase = "free" /\ ~abandoned
    BY <1>2, <2>2 DEF BusyInv, NeverBusyForNothing, SpeakingIsHeard, Heard
  <2> QED
    BY <2>1, <2>2 DEF Busy
<1> QED
  BY <1>1, <1>3, <1>4, <1>5 DEF BusyInv, NeverBusyForNothing

LEMMA TurnBusyStep ==
  ASSUME TypeInv, BusyInv, Turn PROVE BusyInv'
<1>0. eng \in Engine /\ now \in Nat
  BY DEF TypeInv, WorldTypeOK
<1>1. CASE Asks \/ Accepts
  <2>1. UNCHANGED <<scenario, playback, eng, abandoned>> /\ (phase' = phase \/ phase' # "free")
    BY <1>1 DEF Asks, Accepts, Ask, Accepted, day
  <2> QED
    BY <2>1, QuietStep
<1>2. CASE Think
  <2>1. /\ phase' # "free" /\ eng' = AssistantThinking(eng, now)
        /\ UNCHANGED <<scenario, playback>>
    BY <1>2 DEF Think, TurnAction, Begin, Hear, Handle, day
  <2> QED
    BY <1>0, <2>1, ThinkingEngine, QuietStep
<1>3. CASE UseTool \/ ToolDone
  <2>1. PICK event \in {"hermes.tool.started", "hermes.tool.completed", "hermes.tool.failed"} :
          /\ phase = "streaming" /\ phase' = phase /\ Hear(event)
          /\ UNCHANGED <<scenario, playback>>
    BY <1>3 DEF UseTool, ToolDone, TurnAction, ToolStarts, ToolCompletes, day
  <2>2. eng'.audio = eng.audio
    BY <1>0, <2>1, ToolStartedEngine, ToolFinishedEngine, ToolFailedEngine DEF Hear, Handle
  <2> QED
    BY <2>1, <2>2, QuietStep
<1>4. CASE Write
  <2>1. /\ phase = "streaming" /\ phase' = phase /\ (UNCHANGED eng \/ Hear("hermes.speaking"))
        /\ UNCHANGED <<scenario, playback>>
    BY <1>4 DEF Write, Delta, day
  <2>2. eng'.audio = eng.audio
    BY <1>0, <2>1, SpeakingEngine DEF Hear, Handle
  <2> QED
    BY <2>1, <2>2, QuietStep
<1>5. CASE Complete
  <2>1. /\ UNCHANGED <<scenario, playback>>
        /\ \/ phase' = "closing" /\ Hear("hermes.speaking")
           \/ Hear("hermes.done") /\ abandoned' = FALSE
    BY <1>5 DEF Complete, day
  <2>2. CASE phase' = "closing" /\ Hear("hermes.speaking")
    BY <1>0, <2>1, <2>2, SpeakingEngine, QuietStep DEF Hear, Handle
  <2>3. CASE Hear("hermes.done")
    BY <1>0, <2>1, <2>3, DoneEngine, QuietStep DEF Hear, Handle, Busy
  <2> QED
    BY <2>1, <2>2, <2>3
<1>6. CASE Close \/ Fail
  <2>1. eng' = AssistantDone(eng, now) /\ UNCHANGED <<scenario, playback>>
    BY <1>6 DEF Close, Fail, Finish, Hear, Handle, day
  <2> QED
    BY <1>0, <2>1, DoneEngine, QuietStep DEF Busy
<1>7. CASE Raise
  <2>1. abandoned' /\ UNCHANGED <<scenario, playback, eng>>
    BY <1>7 DEF Raise, day
  <2> QED
    BY <2>1, QuietStep
<1> QED
  BY <1>1, <1>2, <1>3, <1>4, <1>5, <1>6, <1>7 DEF Turn

LEMMA DayBusyStep ==
  ASSUME TypeInv, BusyInv, TouchIt \/ DeviceEvent \/ Advance \/ HostTick PROVE BusyInv'
<1>0. eng \in Engine /\ now \in Nat
  BY DEF TypeInv, WorldTypeOK
<1>1. UNCHANGED <<scenario, playback, phase, abandoned>>
  BY DEF TouchIt, DeviceEvent, Advance, HostTick, day, bridge
<1>2. eng'.audio = eng.audio /\ (eng'.activity \in Busy => eng'.activity = eng.activity)
  <2>1. CASE TouchIt
    BY <1>0, <2>1, TouchEngine DEF TouchIt, Hear, Handle
  <2>2. CASE DeviceEvent
    <3>1. eng' = DeviceActionCompleted(eng, now) \/ eng' = DeviceOffline(eng, now)
      BY <2>2 DEF DeviceEvent, Hear, Handle
    <3> QED
      BY <1>0, <3>1, DeviceEngine DEF Same
  <2>3. CASE Advance
    BY <2>3 DEF Advance
  <2>4. CASE HostTick
    BY <1>0, <2>4, TickCalm DEF HostTick, Calm
  <2> QED
    BY <2>1, <2>2, <2>3, <2>4
<1> QED
  BY <1>1, <1>2, QuietStep

LEMMA RestartBusyStep ==
  ASSUME TypeInv, BusyInv, Restart PROVE BusyInv'
<1>1. eng'.audio = FALSE /\ eng'.activity \notin Busy
  <2>1. PICK down \in scenario.downtimes : now' = now + down /\ eng' = RestoreState(ExportState(eng), now')
    BY DEF Restart
  <2>2. eng \in Engine /\ now' \in Nat
    BY <2>1, ScenarioType DEF TypeInv, WorldTypeOK
  <2> QED
    BY <2>1, <2>2, ExportSaved, RestoreEngine
<1>2. UNCHANGED <<scenario, playback>>
  BY DEF Restart
<1> QED
  BY <1>1, <1>2, QuietStep

LEMMA PlayStartsBusyStep ==
  ASSUME TypeInv, BusyInv, NEW p \in scenario.episodes, PlayStarts(p) PROVE BusyInv'
<1>0. /\ episodes[p] = "quiet" /\ episodes' = [episodes EXCEPT ![p] = "playing"]
      /\ reports' = reports \cup {Report(p, "voice.playback.started")}
      /\ UNCHANGED <<scenario, phase, eng, misled, abandoned>>
      /\ episodes \in [scenario.episodes -> {"quiet", "playing", "over"}]
      /\ \A r \in reports : r.of \in scenario.episodes
  BY DEF PlayStarts, Report, TypeInv, PlaybackTypeOK, bridge, day
<1>1. Heard' /\ episodes'[p] = "playing"
  BY <1>0 DEF Heard
<1>2. \A r \in reports : r.of # p
  BY <1>0 DEF BusyInv, ReportsAreTrue
<1>3. ReportsAreTrue'
  <2>1. \A r \in reports' : episodes'[r.of] # "quiet"
    BY <1>0 DEF BusyInv, ReportsAreTrue, Report
  <2>2. ASSUME NEW q \in scenario.episodes, Report(q, "voice.playback.finished") \in reports'
        PROVE  episodes'[q] = "over"
    <3>1. Report(q, "voice.playback.finished") \in reports /\ q # p
      BY <1>0, <1>2, <2>2 DEF Report
    <3> QED
      BY <1>0, <3>1 DEF BusyInv, ReportsAreTrue
  <2>3. ASSUME NEW q \in scenario.episodes, episodes'[q] = "over", ~misled,
               Report(q, "voice.playback.started") \in reports'
        PROVE  Report(q, "voice.playback.finished") \in reports'
    <3>1. q # p /\ episodes[q] = "over" /\ Report(q, "voice.playback.started") \in reports
      BY <1>0, <1>1, <2>3 DEF Report
    <3> QED
      BY <1>0, <2>3, <3>1 DEF BusyInv, ReportsAreTrue
  <2> QED
    BY <1>0, <2>1, <2>2, <2>3 DEF ReportsAreTrue
<1> QED
  BY <1>0, <1>1, <1>3 DEF BusyInv, AudioIsHeard, NeverBusyForNothing, BusyOnlyDuringTurn, SpeakingIsHeard, Heard

LEMMA PlayEndsBusyStep ==
  ASSUME TypeInv, BusyInv, NEW p \in scenario.episodes, PlayEnds(p) PROVE BusyInv'
<1>0. /\ episodes[p] = "playing" /\ episodes' = [episodes EXCEPT ![p] = "over"]
      /\ reports' = reports \cup {Report(p, "voice.playback.finished")}
      /\ UNCHANGED <<scenario, phase, eng, misled, abandoned>>
      /\ episodes \in [scenario.episodes -> {"quiet", "playing", "over"}]
      /\ \A r \in reports : r.of \in scenario.episodes
  BY DEF PlayEnds, Report, TypeInv, PlaybackTypeOK, bridge, day
<1>1. Heard' /\ reports' # {}
  BY <1>0 DEF Heard
<1>3. ReportsAreTrue'
  <2>1. \A r \in reports' : episodes'[r.of] # "quiet"
    BY <1>0 DEF BusyInv, ReportsAreTrue, Report
  <2>2. ASSUME NEW q \in scenario.episodes, Report(q, "voice.playback.finished") \in reports'
        PROVE  episodes'[q] = "over"
    <3>1. q = p \/ Report(q, "voice.playback.finished") \in reports
      BY <1>0, <2>2 DEF Report
    <3> QED
      BY <1>0, <3>1 DEF BusyInv, ReportsAreTrue
  <2>3. ASSUME NEW q \in scenario.episodes, episodes'[q] = "over", ~misled,
               Report(q, "voice.playback.started") \in reports'
        PROVE  Report(q, "voice.playback.finished") \in reports'
    <3>1. CASE q = p
      BY <1>0, <3>1
    <3>2. CASE q # p
      <4>1. episodes[q] = "over" /\ Report(q, "voice.playback.started") \in reports
        BY <1>0, <2>3, <3>2 DEF Report
      <4> QED
        BY <1>0, <2>3, <4>1 DEF BusyInv, ReportsAreTrue
    <3> QED
      BY <3>1, <3>2
  <2> QED
    BY <1>0, <2>1, <2>2, <2>3 DEF ReportsAreTrue
<1> QED
  BY <1>0, <1>1, <1>3 DEF BusyInv, AudioIsHeard, NeverBusyForNothing, BusyOnlyDuringTurn, SpeakingIsHeard, Heard

\* After a report that a clip started, the clip plays or the report of its end
\* is still under way: unless one was lost or overtaken.
LEMMA ReportBusyStep ==
  ASSUME TypeInv, BusyInv, ReportArrives PROVE BusyInv'
<1>1. PICK r \in reports :
        /\ reports' = reports \ {r} /\ Hear(r.state)
        /\ misled' = (misled \/ \E s \in reports : s.of = r.of /\ s.state # r.state
                                                /\ r.state = "voice.playback.finished")
  BY DEF ReportArrives
<1>2. /\ UNCHANGED <<scenario, phase, episodes, abandoned>> /\ eng \in Engine /\ now \in Nat
      /\ \A s \in reports : s.of \in scenario.episodes /\ s.state \in States /\ s = Report(s.of, s.state)
      /\ episodes \in [scenario.episodes -> {"quiet", "playing", "over"}]
  BY DEF ReportArrives, TypeInv, WorldTypeOK, PlaybackTypeOK, bridge, day, Report
<1>3. misled => misled'
  BY <1>1, Zenon
<1>4. ReportsAreTrue'
  <2>1. ASSUME NEW q \in scenario.episodes, episodes[q] = "over", ~misled',
               Report(q, "voice.playback.started") \in reports'
        PROVE  Report(q, "voice.playback.finished") \in reports'
    <3>1. Report(q, "voice.playback.finished") \in reports
      BY <1>1, <1>3, <2>1 DEF BusyInv, ReportsAreTrue
    <3>2. ASSUME r = Report(q, "voice.playback.finished") PROVE FALSE
      <4>1. r.of = q /\ r.state = "voice.playback.finished"
        BY <3>2 DEF Report
      <4> DEFINE s == Report(q, "voice.playback.started")
      <4>2. s \in reports /\ s.of = r.of /\ s.state # r.state
        BY <1>1, <2>1, <4>1 DEF Report
      <4> HIDE DEF s
      <4>3. misled'
        BY <1>1, <4>1, <4>2, Zenon
      <4> QED
        BY <2>1, <4>3
    <3> QED
      BY <1>1, <3>1, <3>2
  <2> QED
    BY <1>1, <1>2, <2>1 DEF BusyInv, ReportsAreTrue
<1>5. CASE r.state = "voice.playback.started"
  <2>1. eng' = SpeechStarted(eng)
    BY <1>1, <1>5 DEF Hear, Handle
  <2>2. Heard'
    <3> SUFFICES ASSUME ~misled' PROVE Heard'
      BY DEF Heard
    <3>1. CASE episodes[r.of] = "playing"
      BY <1>2, <3>1 DEF Heard
    <3>2. CASE episodes[r.of] = "over"
      <4>1. Report(r.of, "voice.playback.finished") \in reports
        BY <1>2, <1>3, <1>5, <3>2 DEF BusyInv, ReportsAreTrue
      <4>2. Report(r.of, "voice.playback.finished") # r
        BY <1>5 DEF Report
      <4> QED
        BY <1>1, <4>1, <4>2 DEF Heard
    <3> QED
      BY <1>2, <3>1, <3>2 DEF BusyInv, ReportsAreTrue
  <2>3. eng'.activity \in {"thinking", "working"} => eng.activity = eng'.activity
    BY <1>2, <2>1, SpeechStartedEngine
  <2> QED
    BY <1>2, <1>4, <2>2, <2>3
       DEF BusyInv, AudioIsHeard, NeverBusyForNothing, BusyOnlyDuringTurn, SpeakingIsHeard, Heard
<1>6. CASE r.state = "voice.playback.finished"
  <2>1. eng' = SpeechFinished(eng, now)
    BY <1>1, <1>6 DEF Hear, Handle
  <2>2. /\ eng'.audio = FALSE /\ eng'.activity # "speaking"
        /\ eng'.activity \in {"thinking", "working"} => eng.activity = eng'.activity
    BY <1>2, <2>1, SpeechFinishedEngine
  <2> QED
    BY <1>2, <1>4, <2>2 DEF BusyInv, AudioIsHeard, NeverBusyForNothing, BusyOnlyDuringTurn, SpeakingIsHeard
<1> QED
  BY <1>2, <1>5, <1>6 DEF States

LEMMA ReportLostBusyStep ==
  ASSUME BusyInv, ReportLost PROVE BusyInv'
<1>1. /\ reports' \subseteq reports /\ misled'
      /\ UNCHANGED <<scenario, phase, episodes, eng, abandoned>>
  BY DEF ReportLost, bridge, day
<1>2. ReportsAreTrue' /\ Heard'
  BY <1>1 DEF BusyInv, ReportsAreTrue, Heard
<1> QED
  BY <1>1, <1>2 DEF BusyInv, AudioIsHeard, NeverBusyForNothing, BusyOnlyDuringTurn, SpeakingIsHeard

LEMMA BusyStep == TypeInv /\ BusyInv /\ [Next]_vars => BusyInv'
<1> SUFFICES ASSUME TypeInv, BusyInv, [Next]_vars PROVE BusyInv'
  OBVIOUS
<1>1. CASE Turn
  BY <1>1, TurnBusyStep
<1>2. ASSUME NEW p \in scenario.episodes, PlayStarts(p) \/ PlayEnds(p) PROVE BusyInv'
  BY <1>2, PlayStartsBusyStep, PlayEndsBusyStep
<1>3. CASE ReportArrives \/ ReportLost
  BY <1>3, ReportBusyStep, ReportLostBusyStep
<1>4. CASE TouchIt \/ DeviceEvent \/ Advance \/ HostTick
  BY <1>4, DayBusyStep
<1>5. CASE Restart
  BY <1>5, RestartBusyStep
<1>6. CASE (\E r \in scenario.requests : RequestApproval(r) \/ Decide(r) \/ Expire(r)) \/ UNCHANGED vars
  <2>1. UNCHANGED <<scenario, playback, phase, eng, abandoned>>
    BY <1>6 DEF RequestApproval, Decide, Expire, vars, day, bridge
  <2> QED
    BY <2>1, QuietStep
<1> QED
  BY <1>1, <1>2, <1>3, <1>4, <1>5, <1>6 DEF Next

\* The character never thinks, works or speaks for nothing, except after a run
\* that was left without hermes.done or a report that was lost or overtaken:
\* whichever way calls, tools, clips of several dashboards, reports, touches,
\* ticks and restarts interleave.
THEOREM BusyForAReason == Spec => []NeverBusyForNothing
<1>1. BusyInv => NeverBusyForNothing
  BY DEF BusyInv
<1> QED
  BY TypeInit, TypeStep, BusyInit, BusyStep, <1>1, PTL DEF Spec

-----------------------------------------------------------------------------
(* What it says is what is written.                                            *)

LEMMA TurnSpeaks ==
  ASSUME TypeInv, SpokenInv, Turn PROVE SpokenInv'
<1>0. TurnInv /\ scenario \in Scenarios /\ script \in Seq(Token)
  BY DEF TypeInv, WorldTypeOK, TurnInv, TurnTypeOK
<1>1. CASE Accepts
  <2>1. PICK t \in scenario.texts : Accepted(t)
    BY <1>1 DEF Accepts
  <2> QED
    BY <2>1, AcceptedSpeaks
<1>2. CASE Write
  <2>1. PICK n \in 0..(Len(script) - Len(full)) : Delta(n)
    BY <1>2 DEF Write
  <2> QED
    BY <1>0, <2>1, DeltaSpeaks
<1>3. CASE Complete
  <2>1. PICK out \in scenario.outputs \cup {script, <<>>} : Completes(out)
    BY <1>3 DEF Complete
  <2>2. out \in Seq(Token)
    BY <1>0, ScenarioType, EmptySeq
  <2> QED
    BY <1>0, <2>1, <2>2, CompletesSpeaks
<1>4. CASE Asks \/ Think \/ UseTool \/ ToolDone \/ Close \/ Fail \/ Raise
  <2>1. /\ UNCHANGED <<full, buf, spoken, answer>>
        /\ phase' = "streaming" => phase = "streaming"
    BY <1>4 DEF Asks, Think, UseTool, ToolDone, Close, Fail, Raise, TurnAction, Finish, Ask, Begin,
                ToolStarts, ToolCompletes, Closes, Fails, Raises, Returns, text
  <2> QED
    BY <2>1, SpokenStays
<1> QED
  BY <1>1, <1>2, <1>3, <1>4 DEF Turn

LEMMA SpokenStep == TypeInv /\ SpokenInv /\ [Next]_vars => SpokenInv'
<1> SUFFICES ASSUME TypeInv, SpokenInv, [Next]_vars PROVE SpokenInv'
  OBVIOUS
<1>1. CASE Turn
  BY <1>1, TurnSpeaks
<1>2. CASE Restart
  <2>1. TurnLost
    BY <1>2 DEF Restart
  <2> QED
    BY <2>1, SpokenStays DEF TurnLost, text
<1>3. CASE ~ Turn /\ ~ Restart
  <2>1. UNCHANGED bridge
    BY <1>3 DEF Next, RequestApproval, Decide, Expire, PlayStarts, PlayEnds, ReportArrives, ReportLost,
                TouchIt, DeviceEvent, Advance, HostTick, vars
  <2> QED
    BY <2>1, SpokenStays DEF bridge, text
<1> QED
  BY <1>1, <1>2, <1>3

\* However Hermes cuts what it writes into deltas, what has been spoken is what
\* the text so far says, sentence by sentence; and an answer that goes on from
\* what was streamed has been spoken in full, once and in order.  It holds for
\* every text, every set of abbreviations and every way to cut.
THEOREM SpokenAsWritten == Spec => []SpeaksAsWritten
<1>1. Init => SpokenInv
  BY SpokenStarts DEF Init
<1>2. SpokenInv => SpeaksAsWritten
  BY DEF SpokenInv
<1> QED
  BY TypeInit, TypeStep, SpokenStep, <1>1, <1>2, PTL DEF Spec

-----------------------------------------------------------------------------
(***************************************************************************)
(* A character that was down.  The time since its last tick is walked       *)
(* through in steps of MaxStep, where one that was up went unit by unit.    *)
(* At(e, x) says in closed form, without the steps, what has become of e:   *)
(* it is asleep at t when it fell asleep by then or was asleep all night    *)
(* (Asleep), its debt is cleared when an hour of clearing began (Clean),    *)
(* and its last interaction is the one it had or a morning it woke up       *)
(* (Woke).  Windows longer than a step are what makes that one step in      *)
(* either granularity keep it (AtStep); so the two agree but for energy,    *)
(* which a step counts at the rate of its end: it is off by less than a     *)
(* step for each change of the rate inside of one (Coarse, RateSwings),     *)
(* which are nightfalls, mornings and falling asleep, once in all.          *)
(***************************************************************************)

(* The clock of the day and its windows. *)

LEMMA ClockRange ==
  ASSUME NEW t \in Nat
  PROVE  Clock(t) \in Nat /\ 0 <= Clock(t) /\ Clock(t) < DayLength
BY CharacterAssumption DEF Clock

\* A number has one quotient and one remainder.
LEMMA OneRemainder ==
  ASSUME NEW D \in Nat \ {0}, NEW p \in Int, NEW q \in Int, NEW r \in Nat, NEW s \in Nat,
         r < D, s < D, D * p + r = D * q + s
  PROVE  p = q /\ r = s
<1>1. ASSUME NEW m \in Int, NEW n \in Int, m < n PROVE D * m + D <= D * n
  <2>1. D * (n - m) = D * n - D * m
    OBVIOUS
  <2>2. n - m \in Nat /\ n - m >= 1
    BY <1>1
  <2>3. \A k \in Nat : k >= 1 => D * k >= D
    OBVIOUS
  <2>4. D * (n - m) >= D
    BY <2>2, <2>3
  <2>5. D * n \in Int /\ D * m \in Int
    OBVIOUS
  <2> QED
    BY <2>1, <2>4, <2>5
<1>2. D * p \in Int /\ D * q \in Int
  OBVIOUS
<1>3. CASE p < q
  BY <1>1, <1>2, <1>3
<1>4. CASE q < p
  BY <1>1, <1>2, <1>4
<1> QED
  BY <1>2, <1>3, <1>4

LEMMA ModEquation ==
  ASSUME NEW D \in Nat \ {0}, NEW t \in Nat
  PROVE  t \div D \in Int /\ t % D \in Nat /\ t % D < D /\ t = D * (t \div D) + (t % D)
<1>1. t \div D \in Int
  OBVIOUS
<1>2. t % D \in Nat /\ t % D < D
  OBVIOUS
<1>3. t = D * (t \div D) + (t % D)
  OBVIOUS
<1> QED
  BY <1>1, <1>2, <1>3

LEMMA ClockNext ==
  ASSUME NEW t \in Nat
  PROVE  Clock(t + 1) = IF Clock(t) + 1 = DayLength THEN 0 ELSE Clock(t) + 1
<1> DEFINE D == DayLength
           r == t % D
           s == (t + 1) % D
           p == t \div D
           q == (t + 1) \div D
<1>0. D \in Nat \ {0} /\ t + 1 \in Nat
  BY CharacterAssumption
<1>1. p \in Int /\ r \in Nat /\ r < D /\ t = D * p + r
  BY <1>0, ModEquation
<1>2. q \in Int /\ s \in Nat /\ s < D /\ t + 1 = D * q + s
  BY <1>0, ModEquation
<1>3. Clock(t) = r /\ Clock(t + 1) = s
  BY DEF Clock
<1> HIDE DEF D, p, q, r, s
<1>4. D * p \in Int /\ D * q \in Int
  BY <1>0, <1>1, <1>2
<1>5. CASE r + 1 = D
  <2>1. p + 1 \in Int /\ D * (p + 1) = D * p + D
    BY <1>0, <1>1
  <2>2. D * (p + 1) + 0 = D * q + s
    BY <1>0, <1>1, <1>2, <1>4, <1>5, <2>1
  <2>3. 0 < D /\ 0 \in Nat
    BY <1>0
  <2> DEFINE p1 == p + 1
             z  == 0
  <2>4. p1 \in Int /\ z \in Nat /\ z < D /\ D * p1 + z = D * q + s
    BY <2>1, <2>2, <2>3
  <2> HIDE DEF p1, z
  <2>5. z = s
    BY <1>0, <1>2, <2>4, OneRemainder
  <2> QED
    BY <1>3, <1>5, <2>5 DEF D, z
<1>6. CASE r + 1 # D
  <2>1. r + 1 \in Nat /\ r + 1 < D
    BY <1>0, <1>1, <1>6
  <2>2. D * p + (r + 1) = D * q + s
    BY <1>1, <1>2, <1>4
  <2>3. r + 1 = s
    BY <1>0, <1>1, <1>2, <2>1, <2>2, OneRemainder
  <2> QED
    BY <1>3, <1>6, <2>3 DEF D
<1> QED
  BY <1>5, <1>6

\* What the clock shows n units later, less than a day.
LEMMA ClockLater ==
  ASSUME NEW t \in Nat, NEW n \in Nat, n < DayLength
  PROVE  Clock(t + n) = Clock(t) + n \/ Clock(t + n) = Clock(t) + n - DayLength
<1> DEFINE Good == {k \in Nat : k < DayLength => Clock(t + k) = Clock(t) + k
                                                \/ Clock(t + k) = Clock(t) + k - DayLength}
<1>0. DayLength \in Nat \ {0}
  BY CharacterAssumption
<1>1. 0 \in Good
  BY ClockRange
<1>2. ASSUME NEW k \in Good PROVE k + 1 \in Good
  <2> SUFFICES ASSUME k + 1 < DayLength
               PROVE  Clock(t + (k + 1)) = Clock(t) + (k + 1)
                      \/ Clock(t + (k + 1)) = Clock(t) + (k + 1) - DayLength
    OBVIOUS
  <2>1. k \in Nat /\ k < DayLength
    BY <1>0
  <2>2. Clock(t + k) = Clock(t) + k \/ Clock(t + k) = Clock(t) + k - DayLength
    BY <2>1
  <2>3. t + k \in Nat /\ t + (k + 1) = (t + k) + 1
    BY <2>1
  <2>4. Clock(t + (k + 1)) = IF Clock(t + k) + 1 = DayLength THEN 0 ELSE Clock(t + k) + 1
    BY <2>3, ClockNext
  <2>5. Clock(t) \in Nat /\ Clock(t) < DayLength
    BY ClockRange
  <2> QED
    BY <1>0, <2>1, <2>2, <2>4, <2>5
<1>3. Good \in SUBSET Nat
  OBVIOUS
<1> HIDE DEF Good
<1>4. n \in Good
  BY <1>1, <1>2, <1>3, Induction
<1> QED
  BY <1>4 DEF Good

Within(t, start, end) == InWindow(Clock(t), start, end)

LEMMA WindowIsLong ==
  ASSUME NEW s \in 0..(DayLength - 1), NEW e \in 0..(DayLength - 1),
         NEW a \in Nat, NEW v \in Nat, NEW q \in Nat, a < v, v < q,
         ~ Within(a, s, e), Within(v, s, e), ~ Within(q, s, e)
  PROVE  q - a > Lasts(s, e)
<1>0. DayLength \in Nat \ {0}
  BY CharacterAssumption
<1>1. CASE q - a >= DayLength
  BY <1>0, <1>1 DEF Lasts
<1>2. CASE q - a < DayLength
  <2> DEFINE m == v - a
             n == q - a
  <2>1. m \in Nat /\ n \in Nat /\ 0 < m /\ m < n /\ n < DayLength /\ v = a + m /\ q = a + n
    BY <1>2
  <2> HIDE DEF m, n
  <2>2. Clock(v) = Clock(a) + m \/ Clock(v) = Clock(a) + m - DayLength
    BY <1>0, <2>1, ClockLater
  <2>3. Clock(q) = Clock(a) + n \/ Clock(q) = Clock(a) + n - DayLength
    BY <1>0, <2>1, ClockLater
  <2> DEFINE ca == Clock(a)
             cv == Clock(v)
             cq == Clock(q)
  <2>4. ca \in Nat /\ cv \in Nat /\ cq \in Nat /\ ca < DayLength /\ cv < DayLength /\ cq < DayLength
    BY ClockRange
  <2>5. ~ InWindow(ca, s, e) /\ InWindow(cv, s, e) /\ ~ InWindow(cq, s, e)
    BY DEF Within
  <2>6. n > Lasts(s, e)
    <3> HIDE DEF ca, cv, cq
    <3>1. cv = ca + m \/ cv = ca + m - DayLength
      BY <2>2 DEF ca, cv
    <3>2. cq = ca + n \/ cq = ca + n - DayLength
      BY <2>3 DEF ca, cq
    <3> QED
      BY <1>0, <2>1, <2>4, <2>5, <3>1, <3>2 DEF InWindow, Lasts
  <2> QED
    BY <2>6 DEF n
<1> QED
  BY <1>0, <1>1, <1>2

LEMMA WindowBounds ==
  /\ DayLength \in Nat \ {0} /\ MaxStep \in Nat \ {0} /\ SleepAfterIdle \in Nat /\ DeepSleepAfterIdle \in Nat
  /\ SleepStart \in 0..(DayLength - 1) /\ DeepSleepStart \in 0..(DayLength - 1)
  /\ WakeTime \in 0..(DayLength - 1) /\ DebtClear \in 0..(DayLength - 1)
BY CharacterAssumption

\* Two windows that meet at both ends part the day.
LEMMA WindowApart ==
  ASSUME NEW s \in 0..(DayLength - 1), NEW e \in 0..(DayLength - 1), s # e, NEW t \in Nat
  PROVE  Within(t, e, s) <=> ~ Within(t, s, e)
BY WindowBounds, ClockRange DEF Within, InWindow

LEMMA DayIsLong ==
  ASSUME LongWindows, NEW a \in Nat, NEW v \in Nat, NEW q \in Nat, a < v, v < q,
         Night(a), ~ Night(v), Night(q)
  PROVE  q - a > MaxStep + SleepAfterIdle
<1>1. WakeTime # SleepStart
  BY WindowBounds DEF LongWindows, Lasts
<1>2. \A t \in Nat : Within(t, WakeTime, SleepStart) <=> ~ Night(t)
  BY <1>1, WindowBounds, WindowApart DEF Night, Within
<1>3. q - a > Lasts(WakeTime, SleepStart)
  BY <1>2, WindowBounds, WindowIsLong
<1>4. MaxStep + SleepAfterIdle <= Lasts(WakeTime, SleepStart) /\ Lasts(WakeTime, SleepStart) \in Int
  BY WindowBounds DEF LongWindows, Lasts
<1> QED
  BY <1>3, <1>4, WindowBounds

LEMMA ClearIsLong ==
  ASSUME LongWindows, NEW a \in Nat, NEW v \in Nat, NEW q \in Nat, a < v, v < q,
         ~ Clear(a), Clear(v), ~ Clear(q)
  PROVE  q - a > MaxStep
<1>1. q - a > Lasts(DebtClear, SleepStart)
  BY WindowBounds, WindowIsLong DEF Clear, Within
<1>2. MaxStep <= Lasts(DebtClear, SleepStart) /\ Lasts(DebtClear, SleepStart) \in Int
  BY WindowBounds DEF LongWindows, Lasts
<1> QED
  BY <1>1, <1>2, WindowBounds

LEMMA UnclearIsLong ==
  ASSUME LongWindows, NEW a \in Nat, NEW v \in Nat, NEW q \in Nat, a < v, v < q,
         Clear(a), ~ Clear(v), Clear(q)
  PROVE  q - a > MaxStep
<1>1. DebtClear # SleepStart
  BY WindowBounds DEF LongWindows, Lasts
<1>2. \A t \in Nat : Within(t, SleepStart, DebtClear) <=> ~ Clear(t)
  BY <1>1, WindowBounds, WindowApart DEF Clear, Within
<1>3. q - a > Lasts(SleepStart, DebtClear)
  BY <1>2, WindowBounds, WindowIsLong
<1>4. MaxStep <= Lasts(SleepStart, DebtClear) /\ Lasts(SleepStart, DebtClear) \in Int
  BY <1>1, WindowBounds DEF LongWindows, Lasts
<1> QED
  BY <1>3, <1>4, WindowBounds

LEMMA DeepIsNight ==
  ASSUME LongWindows, NEW t \in Nat, DeepNight(t)
  PROVE  Night(t)
BY WindowBounds, ClockRange DEF LongWindows, Lasts, DeepNight, Night, InWindow

LEMMA ClearIsDay ==
  ASSUME LongWindows, NEW t \in Nat, Clear(t)
  PROVE  ~ Night(t)
BY WindowBounds, ClockRange DEF LongWindows, Lasts, Clear, Night, InWindow

LEMMA DeepGoesOn ==
  ASSUME NEW t \in Nat, DeepNight(t), Night(t + 1)
  PROVE  DeepNight(t + 1)
<1> DEFINE c == Clock(t)
           d == Clock(t + 1)
<1>1. /\ c \in Nat /\ c < DayLength /\ d = IF c + 1 = DayLength THEN 0 ELSE c + 1
      /\ InWindow(c, DeepSleepStart, WakeTime) /\ InWindow(d, SleepStart, WakeTime)
  BY ClockRange, ClockNext DEF DeepNight, Night
<1> HIDE DEF c, d
<1>2. InWindow(d, DeepSleepStart, WakeTime)
  BY <1>1, WindowBounds DEF InWindow
<1> QED
  BY <1>2 DEF DeepNight, d

\* The deep night lasts as long as the night.
LEMMA DeepStays ==
  ASSUME NEW a \in Nat, NEW q \in Nat, a <= q, DeepNight(a), \A u \in a..q : Night(u)
  PROVE  DeepNight(q)
<1> DEFINE Good == {n \in Nat : a + n <= q => DeepNight(a + n)}
<1>1. 0 \in Good
  OBVIOUS
<1>2. ASSUME NEW n \in Good PROVE n + 1 \in Good
  <2> SUFFICES ASSUME a + (n + 1) <= q PROVE DeepNight(a + (n + 1))
    OBVIOUS
  <2>1. n \in Nat /\ a + n \in Nat /\ a + (n + 1) = (a + n) + 1 /\ DeepNight(a + n) /\ a + (n + 1) \in a..q
    OBVIOUS
  <2>2. Night(a + (n + 1))
    BY <2>1
  <2> QED
    BY <2>1, <2>2, DeepGoesOn
<1>3. Good \in SUBSET Nat
  OBVIOUS
<1>4. q - a \in Nat /\ a + (q - a) = q
  OBVIOUS
<1> HIDE DEF Good
<1>5. q - a \in Good
  BY <1>1, <1>2, <1>3, <1>4, Induction
<1> QED
  BY <1>4, <1>5 DEF Good

-----------------------------------------------------------------------------
(* One step of tick, field by field. *)

\* The fields of an engine by which its days go.
Looks(e, activity, energy, debt, last, tick) ==
  /\ e \in Engine /\ e.activity = activity /\ e.energy = energy /\ e.debt = debt
  /\ e.lastInteraction = last /\ e.lastTick = tick

Resting == {"idle", "sleeping"}

LEMMA NowLooks ==
  ASSUME NEW e \in Engine, NEW a \in Activity
  PROVE  Looks(Now(e, a), a, e.energy, e.debt, e.lastInteraction, e.lastTick)
BY NowEngine DEF Now, Looks, Engine

LEMMA ListenLooks ==
  ASSUME NEW e \in Engine, NEW t \in Nat
  PROVE  Looks(Listen(e, t), "listening", e.energy, e.debt, e.lastInteraction, e.lastTick)
BY ListenEngine DEF Listen, Looks, Engine

LEMMA AttendLooks ==
  ASSUME NEW e \in Engine, NEW t \in Nat
  PROVE  Looks([e EXCEPT !.user = FALSE, !.lastInteraction = t], e.activity, e.energy, e.debt, t, e.lastTick)
BY DEF Looks, Engine

LEMMA TimeLooks ==
  ASSUME NEW e \in Engine, NEW t \in Nat
  PROVE  Looks([e EXCEPT !.lastInteraction = t], e.activity, e.energy, e.debt, t, e.lastTick)
BY DEF Looks, Engine

LEMMA TimersLook ==
  ASSUME NEW e \in Engine, NEW t \in Nat, NEW clock \in Nat
  PROVE  LET y == Timers(e, t, clock) IN
         /\ y \in Engine /\ y.energy = e.energy /\ y.debt = e.debt /\ y.lastTick = e.lastTick
         /\ y.activity = "sleeping" <=> e.activity = "sleeping" \/ (e.activity = "idle" /\ FallsAsleep(e, t))
         /\ e.activity \in Resting => y.activity \in Resting
         /\ y.lastInteraction \in {e.lastInteraction, t}
         /\ y.activity = "sleeping" \/ e.activity \in Resting => y.lastInteraction = e.lastInteraction
<1>1. CASE e.activity = "waking" /\ t >= e.until
  <2>1. Timers(e, t, clock) = Listen(e, clock)
    BY <1>1 DEF Timers
  <2> QED
    BY <1>1, <2>1, ListenLooks DEF Looks, Resting
<1>2. CASE e.activity = "listening" /\ t >= e.until
  <2> DEFINE x == Now(e, "idle")
  <2>1. Looks(x, "idle", e.energy, e.debt, e.lastInteraction, e.lastTick)
    BY NowLooks DEF Activity
  <2>2. Timers(e, t, clock) = [x EXCEPT !.user = FALSE, !.lastInteraction = t]
    BY <1>2 DEF Timers
  <2> HIDE DEF x
  <2>3. x \in Engine
    BY <2>1 DEF Looks
  <2>4. Looks([x EXCEPT !.user = FALSE, !.lastInteraction = t], x.activity, x.energy, x.debt, t, x.lastTick)
    BY <2>3, AttendLooks
  <2>5. Looks(Timers(e, t, clock), "idle", e.energy, e.debt, t, e.lastTick)
    BY <2>1, <2>2, <2>4 DEF Looks
  <2> QED
    BY <1>2, <2>5 DEF Looks, Resting
<1>3. CASE e.activity = "idle" /\ FallsAsleep(e, t)
  <2>1. Timers(e, t, clock) = Now(e, "sleeping")
    BY <1>3 DEF Timers
  <2>2. Looks(Timers(e, t, clock), "sleeping", e.energy, e.debt, e.lastInteraction, e.lastTick)
    BY <2>1, NowLooks DEF Activity
  <2> QED
    BY <1>3, <2>2 DEF Looks, Resting
<1>4. CASE /\ ~ (e.activity = "waking" /\ t >= e.until)
           /\ ~ (e.activity = "listening" /\ t >= e.until)
           /\ ~ (e.activity = "idle" /\ FallsAsleep(e, t))
  <2>1. Timers(e, t, clock) = e
    BY <1>4 DEF Timers
  <2> QED
    BY <1>4, <2>1 DEF Resting
<1> QED
  BY <1>1, <1>2, <1>3, <1>4

LEMMA MorningLooks ==
  ASSUME NEW e \in Engine, NEW t \in Nat
  PROVE  IF e.activity = "sleeping" /\ ~Night(t)
         THEN Looks(Morning(e, t), "idle", e.energy, e.debt, t, e.lastTick)
         ELSE Morning(e, t) = e
<1> DEFINE x == Now(e, "idle")
<1>1. Looks(x, "idle", e.energy, e.debt, e.lastInteraction, e.lastTick)
  BY NowLooks DEF Activity
<1>2. Morning(e, t) = IF e.activity = "sleeping" /\ ~Night(t) THEN [x EXCEPT !.lastInteraction = t] ELSE e
  BY DEF Morning
<1> HIDE DEF x
<1>3. Looks([x EXCEPT !.lastInteraction = t], "idle", e.energy, e.debt, t, e.lastTick)
  BY <1>1, TimeLooks DEF Looks
<1> QED
  BY <1>2, <1>3

\* What is gained in dt units by who is at rest.
Rate(asleep, t) == IF asleep THEN SleepRecovery ELSE IF Night(t) THEN 0 ELSE IdleRecovery

\* Is the engine asleep after a step to t ?
SleepsAt(e, t) == Night(t) /\ (e.activity = "sleeping" \/ (e.activity = "idle" /\ FallsAsleep(e, t)))

\* One step of tick, field by field.
LEMMA StepLooks ==
  ASSUME NEW e \in Engine, NEW t \in Nat, NEW clock \in Nat, e.lastTick <= t
  PROVE  LET y == Step(e, t, clock) IN
         /\ y \in Engine /\ y.lastTick = t
         /\ y.debt = IF Clear(t) THEN 0 ELSE e.debt
         /\ y.activity = "sleeping" <=> SleepsAt(e, t)
         /\ y.lastInteraction \in {e.lastInteraction, t}
         /\ y.activity = "sleeping" => y.lastInteraction = e.lastInteraction
         /\ e.activity \in Resting =>
              /\ y.activity \in Resting
              /\ y.lastInteraction = IF ~Night(t) /\ (e.activity = "sleeping" \/ FallsAsleep(e, t))
                                     THEN t ELSE e.lastInteraction
              /\ y.energy = Least(MaxEnergy, e.energy + Rate(SleepsAt(e, t), t) * (t - e.lastTick))
<1> DEFINE dt   == Greatest(0, t - e.lastTick)
           calm == IF e.reaction # None /\ t >= e.reaction.until THEN None ELSE e.reaction
           here == [e EXCEPT !.lastTick = t, !.reaction = calm]
           then == Timers(here, t, clock)
           next == Morning(then, t)
           en   == Least(MaxEnergy, next.energy + Gain(next, t, dt))
           de   == IF InWindow(Clock(t), DebtClear, SleepStart) THEN 0 ELSE next.debt
<1>1. dt = t - e.lastTick /\ dt \in Nat
  BY DEF Engine, Greatest
<1>2. calm \in Reaction \cup {None}
  BY DEF Engine
<1> HIDE DEF calm
<1>3. Looks(here, e.activity, e.energy, e.debt, e.lastInteraction, t)
  BY <1>2 DEF Engine, Looks
<1>4. FallsAsleep(here, t) <=> FallsAsleep(e, t)
  BY <1>3 DEF FallsAsleep, Looks
<1> HIDE DEF here
<1>5. /\ then \in Engine /\ then.energy = e.energy /\ then.debt = e.debt /\ then.lastTick = t
      /\ then.activity = "sleeping" <=> e.activity = "sleeping" \/ (e.activity = "idle" /\ FallsAsleep(e, t))
      /\ e.activity \in Resting => then.activity \in Resting
      /\ then.lastInteraction \in {e.lastInteraction, t}
      /\ then.activity = "sleeping" \/ e.activity \in Resting => then.lastInteraction = e.lastInteraction
  <2>1. /\ here \in Engine /\ here.activity = e.activity /\ here.energy = e.energy /\ here.debt = e.debt
        /\ here.lastInteraction = e.lastInteraction /\ here.lastTick = t
    BY <1>3 DEF Looks
  <2>2. /\ then \in Engine /\ then.energy = here.energy /\ then.debt = here.debt /\ then.lastTick = here.lastTick
        /\ then.activity = "sleeping" <=> here.activity = "sleeping" \/ (here.activity = "idle" /\ FallsAsleep(here, t))
        /\ here.activity \in Resting => then.activity \in Resting
        /\ then.lastInteraction \in {here.lastInteraction, t}
        /\ then.activity = "sleeping" \/ here.activity \in Resting => then.lastInteraction = here.lastInteraction
    BY <2>1, TimersLook
  <2> HIDE DEF then
  <2> QED
    BY <1>4, <2>1, <2>2
<1> HIDE DEF then
<1>6. /\ next \in Engine /\ next.energy = e.energy /\ next.debt = e.debt /\ next.lastTick = t
      /\ next.activity = "sleeping" <=> SleepsAt(e, t)
      /\ e.activity \in Resting => next.activity \in Resting
      /\ next.lastInteraction \in {e.lastInteraction, t}
      /\ next.activity = "sleeping" => next.lastInteraction = e.lastInteraction
      /\ e.activity \in Resting =>
           next.lastInteraction = IF ~Night(t) /\ (e.activity = "sleeping" \/ FallsAsleep(e, t))
                                  THEN t ELSE e.lastInteraction
  <2>1. CASE then.activity = "sleeping" /\ ~Night(t)
    <3>1. Looks(next, "idle", then.energy, then.debt, t, then.lastTick)
      BY <1>5, <2>1, MorningLooks
    <3> HIDE DEF next
    <3> QED
      BY <1>5, <2>1, <3>1 DEF Looks, Resting, SleepsAt
  <2>2. CASE ~ (then.activity = "sleeping" /\ ~Night(t))
    <3>1. next = then
      BY <1>5, <2>2, MorningLooks
    <3> HIDE DEF next
    <3> QED
      BY <1>5, <2>2, <3>1 DEF Resting, SleepsAt
  <2> QED
    BY <2>1, <2>2
<1>7. Step(e, t, clock) = [next EXCEPT !.energy = en, !.debt = de]
  <2>1. Step(e, t, clock) = [next EXCEPT !.energy = Least(MaxEnergy, @ + Gain(next, t, dt)),
                                        !.debt = IF InWindow(Clock(t), DebtClear, SleepStart) THEN 0 ELSE @]
    BY DEF Step, here, calm, then
  <2> HIDE DEF next
  <2> QED
    BY <1>6, <2>1 DEF Engine
<1> HIDE DEF next
<1>8. /\ Step(e, t, clock).activity = next.activity /\ Step(e, t, clock).lastTick = next.lastTick
      /\ Step(e, t, clock).lastInteraction = next.lastInteraction
      /\ Step(e, t, clock).energy = en /\ Step(e, t, clock).debt = de
  <2> HIDE DEF en, de
  <2> QED
    BY <1>6, <1>7 DEF Engine
<1>9. de = IF Clear(t) THEN 0 ELSE e.debt
  BY <1>6 DEF Clear
<1>10. e.activity \in Resting => Gain(next, t, dt) = Rate(SleepsAt(e, t), t) * (t - e.lastTick)
  <2> SUFFICES ASSUME e.activity \in Resting PROVE Gain(next, t, dt) = Rate(SleepsAt(e, t), t) * (t - e.lastTick)
    OBVIOUS
  <2>1. CASE next.activity = "sleeping"
    BY <1>1, <1>6, <2>1 DEF Gain, Rate
  <2>2. CASE next.activity = "idle" /\ ~Night(t)
    BY <1>1, <1>6, <2>2 DEF Gain, Rate
  <2>3. CASE next.activity = "idle" /\ Night(t)
    <3>1. Gain(next, t, dt) = 0
      BY <2>3 DEF Gain
    <3>2. Rate(SleepsAt(e, t), t) = 0
      BY <1>6, <2>3 DEF Rate
    <3> QED
      BY <1>1, <3>1, <3>2
  <2> QED
    BY <1>6, <2>1, <2>2, <2>3 DEF Resting
<1>11. Step(e, t, clock) \in Engine
  BY StepCalm DEF Calm
<1>12. e.activity \in Resting => Step(e, t, clock).energy = Least(MaxEnergy, e.energy + Rate(SleepsAt(e, t), t) * (t - e.lastTick))
  BY <1>6, <1>8, <1>10
<1> HIDE DEF en, de
<1> QED
  BY <1>6, <1>8, <1>9, <1>11, <1>12

-----------------------------------------------------------------------------
(* What becomes of an engine. *)

\* Asleep since the last tick of e.
Kept(e, t) == e.activity = "sleeping" /\ \A u \in e.lastTick..t : Night(u)

\* Whoever e was at its last tick: is it asleep at t ?
Asleep(e, t) == Night(t) /\ (Kept(e, t) \/ (t > e.lastTick /\ FallsAsleep(e, t)))

\* An hour in which debt is cleared has begun.
Clean(e, t) == \E v \in (e.lastTick + 1)..t : Clear(v) /\ \E u \in e.lastTick..v : ~Clear(u)

\* A morning at which it has woken up.
Woke(e, m) == ~Night(m) /\ \E w \in e.lastTick..m : m - w <= MaxStep /\ Asleep(e, w)

Ready(e, t) ==
  /\ e \in Engine /\ e.activity \in Resting /\ t \in Nat
  /\ e.lastTick <= t /\ e.lastInteraction <= t /\ Coherent(e, t)

\* x is what has become of e, by whatever steps.
At(e, x) ==
  /\ x \in Engine /\ x.activity \in Resting /\ e.lastTick <= x.lastTick
  /\ x.activity = "sleeping" <=> Asleep(e, x.lastTick)
  /\ x.debt = IF Clean(e, x.lastTick) THEN 0 ELSE e.debt
  /\ x.lastInteraction = e.lastInteraction \/ (Woke(e, x.lastInteraction) /\ x.lastInteraction <= x.lastTick)

LEMMA EngineTimes ==
  ASSUME NEW e \in Engine
  PROVE  e.lastTick \in Nat /\ e.lastInteraction \in Nat /\ e.debt \in Nat /\ e.energy \in 0..MaxEnergy
BY DEF Engine

LEMMA AsleepTired ==
  ASSUME NEW e, NEW t, Ready(e, t), NEW w \in Nat, e.lastTick <= w, Asleep(e, w)
  PROVE  e.lastInteraction <= w
<1>1. e.lastTick \in Nat /\ e.lastInteraction \in Nat
  BY EngineTimes DEF Ready
<1> QED
  BY <1>1, WindowBounds DEF Ready, Coherent, Asleep, Kept, FallsAsleep

LEMMA AsleepStays ==
  ASSUME NEW e \in Engine, NEW a \in Nat, NEW q \in Nat, e.lastTick <= a, a <= q,
         Asleep(e, a), \A u \in a..q : Night(u)
  PROVE  Asleep(e, q)
<1>1. e.lastTick \in Nat /\ e.lastInteraction \in Nat /\ Night(q) /\ q \in a..q
  BY EngineTimes
<1>2. CASE Kept(e, a)
  <2>1. \A u \in e.lastTick..q : u \in e.lastTick..a \/ u \in a..q
    BY <1>1
  <2> QED
    BY <1>1, <1>2, <2>1 DEF Kept, Asleep
<1>3. CASE a > e.lastTick /\ FallsAsleep(e, a)
  <2>1. DeepNight(a) => DeepNight(q)
    BY DeepStays
  <2>2. q - e.lastInteraction >= a - e.lastInteraction /\ q > e.lastTick
    BY <1>1, <1>3
  <2> QED
    BY <1>1, <1>3, <2>1, <2>2, WindowBounds DEF Asleep, FallsAsleep
<1> QED
  BY <1>2, <1>3 DEF Asleep

\* Whoever was asleep once is asleep in each night.
LEMMA AsleepAgain ==
  ASSUME LongWindows, NEW e, NEW t, Ready(e, t), NEW a \in Nat, NEW q \in Nat,
         e.lastTick <= a, a <= q, Asleep(e, a), Night(q)
  PROVE  Asleep(e, q)
<1>0. e \in Engine /\ e.lastTick \in Nat /\ e.lastInteraction \in Nat
  BY EngineTimes DEF Ready
<1>1. CASE \A u \in a..q : Night(u)
  BY <1>0, <1>1, AsleepStays
<1>2. ASSUME NEW u \in a..q, ~ Night(u) PROVE Asleep(e, q)
  <2>1. u \in Nat /\ a < u /\ u < q
    <3>1. u # a /\ u # q
      BY <1>2 DEF Asleep
    <3> QED
      BY <3>1
  <2>2. q - a > MaxStep + SleepAfterIdle
    BY <1>2, <2>1, DayIsLong DEF Asleep
  <2>3. e.lastInteraction <= a
    BY AsleepTired
  <2>4. q - e.lastInteraction >= SleepAfterIdle /\ q > e.lastTick
    BY <1>0, <2>2, <2>3, WindowBounds
  <2> QED
    BY <2>4 DEF Asleep, FallsAsleep
<1> QED
  BY <1>1, <1>2

\* Whoever woke up in the morning is idle long enough by the next night.
LEMMA WokeTired ==
  ASSUME LongWindows, NEW e, NEW t, Ready(e, t), NEW m \in Nat, Woke(e, m),
         NEW q \in Nat, m < q, Night(q)
  PROVE  q - m >= SleepAfterIdle /\ Asleep(e, q)
<1>0. e.lastTick \in Nat /\ e.lastInteraction \in Nat
  BY EngineTimes DEF Ready
<1>1. PICK w \in e.lastTick..m : m - w <= MaxStep /\ Asleep(e, w)
  BY DEF Woke
<1>2. w \in Nat /\ e.lastTick <= w /\ w < m
  <2>1. w # m
    BY <1>1 DEF Woke, Asleep
  <2> QED
    BY <1>0, <2>1
<1>3. q - w > MaxStep + SleepAfterIdle
  BY <1>1, <1>2, DayIsLong DEF Woke, Asleep
<1>4. e.lastInteraction <= w
  BY <1>1, <1>2, AsleepTired
<1>5. q - m >= SleepAfterIdle /\ q - e.lastInteraction >= SleepAfterIdle /\ q > e.lastTick
  BY <1>0, <1>1, <1>2, <1>3, <1>4, WindowBounds
<1> QED
  BY <1>5 DEF Asleep, FallsAsleep

\* One step takes what has become of e at a to what becomes of it at q.
LEMMA AtSleeps ==
  ASSUME LongWindows, NEW e, NEW t, Ready(e, t), NEW x, At(e, x), NEW q \in Nat,
         x.lastTick < q, q - x.lastTick <= MaxStep
  PROVE  SleepsAt(x, q) <=> Asleep(e, q)
<1> DEFINE a == x.lastTick
<1>0. /\ e \in Engine /\ e.lastTick \in Nat /\ e.lastInteraction \in Nat
      /\ x \in Engine /\ a \in Nat /\ x.lastInteraction \in Nat /\ e.lastTick <= a
      /\ a < q /\ q - a <= MaxStep
  BY EngineTimes DEF Ready, At
<1>1. /\ x.activity \in Resting /\ (x.activity = "sleeping" <=> Asleep(e, a))
      /\ x.lastInteraction = e.lastInteraction \/ (Woke(e, x.lastInteraction) /\ x.lastInteraction <= a)
  BY DEF At
<1> HIDE DEF a
<1>2. CASE ~ Night(q)
  BY <1>2 DEF SleepsAt, Asleep
<1>3. CASE Night(q) /\ x.lastInteraction # e.lastInteraction
  <2>1. Woke(e, x.lastInteraction) /\ x.lastInteraction < q
    BY <1>0, <1>1, <1>3
  <2>2. q - x.lastInteraction >= SleepAfterIdle /\ Asleep(e, q)
    BY <1>0, <1>3, <2>1, WokeTired
  <2> QED
    BY <1>1, <1>3, <2>2 DEF SleepsAt, FallsAsleep, Resting
<1>4. CASE Night(q) /\ x.lastInteraction = e.lastInteraction
  <2>1. FallsAsleep(x, q) <=> FallsAsleep(e, q)
    BY <1>4 DEF FallsAsleep
  <2>2. ASSUME Asleep(e, a) PROVE Asleep(e, q)
    BY <1>0, <1>4, <2>2, AsleepAgain
  <2>3. ASSUME FallsAsleep(e, q) PROVE Asleep(e, q)
    BY <1>0, <1>4, <2>3 DEF Asleep
  <2>4. ASSUME Kept(e, q) PROVE Asleep(e, a)
    <3>1. \A u \in e.lastTick..a : u \in e.lastTick..q
      BY <1>0
    <3>2. a \in e.lastTick..a
      BY <1>0
    <3> QED
      BY <2>4, <3>1, <3>2 DEF Kept, Asleep
  <2> QED
    BY <1>1, <1>4, <2>1, <2>2, <2>3, <2>4 DEF SleepsAt, Asleep, Resting
<1> QED
  BY <1>2, <1>3, <1>4

LEMMA AtOwes ==
  ASSUME LongWindows, NEW e, NEW t, Ready(e, t), NEW x, At(e, x), NEW q \in Nat,
         x.lastTick < q, q - x.lastTick <= MaxStep, t < q,
         x.lastTick = e.lastTick \/ t < x.lastTick
  PROVE  (IF Clear(q) THEN 0 ELSE x.debt) = (IF Clean(e, q) THEN 0 ELSE e.debt)
<1> DEFINE a == x.lastTick
           b == e.lastTick
<1>0. /\ b \in Nat /\ e.debt \in Nat /\ a \in Nat /\ b <= a /\ t \in Nat /\ b <= t
      /\ a < q /\ q - a <= MaxStep
      /\ a = b \/ t < a
  BY EngineTimes DEF Ready, At
<1>1. x.debt = IF Clean(e, a) THEN 0 ELSE e.debt
  BY DEF At
<1>2. e.debt > 0 /\ Clear(b) => \E u \in b..t : Night(u)
  BY DEF Ready, Coherent
<1> HIDE DEF a
<1> SUFFICES ASSUME e.debt > 0 PROVE (IF Clear(q) THEN 0 ELSE x.debt) = (IF Clean(e, q) THEN 0 ELSE e.debt)
  BY <1>0, <1>1
<1>3. \E u \in b..t : ~Clear(u)
  <2>1. CASE Clear(b)
    <3>1. PICK u \in b..t : Night(u)
      BY <1>2, <2>1
    <3>2. u \in Nat
      BY <1>0
    <3>3. ~Clear(u)
      BY <3>1, <3>2, ClearIsDay
    <3> QED
      BY <3>3
  <2>2. CASE ~Clear(b)
    BY <1>0, <2>2
  <2> QED
    BY <2>1, <2>2
<1>4. ASSUME NEW v \in (b+1)..q, t < v, Clear(v), NEW r \in Nat, v <= r PROVE Clean(e, r)
  <2>1. PICK u \in b..t : ~Clear(u)
    BY <1>3
  <2>2. u \in b..v /\ v \in (b+1)..r
    BY <1>0, <1>4
  <2> QED
    BY <1>4, <2>1, <2>2 DEF Clean
<1>5. CASE Clear(q)
  <2>1. q \in (b+1)..q
    BY <1>0
  <2>2. Clean(e, q)
    BY <1>5, <2>1, <1>4
  <2> QED
    BY <1>5, <2>2
<1>6. CASE ~Clear(q)
  <2>1. ASSUME Clean(e, a) PROVE Clean(e, q)
    <3>1. \A v \in (b+1)..a : v \in (b+1)..q
      BY <1>0
    <3> QED
      BY <2>1, <3>1 DEF Clean
  <2>2. ASSUME Clean(e, q) PROVE Clean(e, a)
    <3>1. PICK v \in (b+1)..q : Clear(v) /\ \E u \in b..v : ~Clear(u)
      BY <2>2 DEF Clean
    <3>2. PICK u \in b..v : ~Clear(u)
      BY <3>1
    <3>3. v \in Nat /\ u \in Nat /\ u <= v /\ b <= u /\ v # q /\ v <= q /\ u # v /\ b < v
      BY <1>0, <1>6, <3>1, <3>2
    <3>4. CASE v <= a
      BY <1>0, <3>1, <3>3, <3>4 DEF Clean
    <3>5. CASE v > a
      <4>1. Clear(a)
        <5> SUFFICES ASSUME ~Clear(a) PROVE FALSE
          OBVIOUS
        <5>1. q - a > MaxStep
          BY <1>0, <1>6, <3>1, <3>3, <3>5, ClearIsLong
        <5> QED
          BY <1>0, <5>1, WindowBounds
      <4>2. CASE t < a
        <5>1. a \in (b+1)..q
          BY <1>0, <4>2
        <5> QED
          BY <1>0, <1>4, <4>1, <4>2, <5>1
      <4>3. CASE a = b
        <5>1. a < u /\ u < v
          <6>1. u # a
            BY <4>1, <3>2
          <6> QED
            BY <1>0, <3>3, <4>3, <6>1
        <5>2. v - a > MaxStep
          BY <1>0, <3>1, <3>2, <3>3, <4>1, <5>1, UnclearIsLong
        <5> QED
          BY <1>0, <3>3, <5>2, WindowBounds
      <4> QED
        BY <1>0, <4>2, <4>3
    <3> QED
      BY <1>0, <3>3, <3>4, <3>5
  <2> QED
    BY <1>1, <1>6, <2>1, <2>2
<1> QED
  BY <1>5, <1>6

LEMMA AtStarts ==
  ASSUME NEW e, NEW t, Ready(e, t), NEW f \in Engine,
         Looks(f, e.activity, e.energy, e.debt, e.lastInteraction, e.lastTick)
  PROVE  At(e, f)
<1>0. e \in Engine /\ e.lastTick \in Nat /\ e.debt \in Nat
  BY EngineTimes DEF Ready
<1>1. ~ Clean(e, e.lastTick)
  BY <1>0 DEF Clean
<1>2. Kept(e, e.lastTick) <=> e.activity = "sleeping" /\ Night(e.lastTick)
  <2>1. \A u \in e.lastTick..e.lastTick : u = e.lastTick
    BY <1>0
  <2>2. e.lastTick \in e.lastTick..e.lastTick
    BY <1>0
  <2> QED
    BY <2>1, <2>2 DEF Kept
<1>3. e.activity = "sleeping" <=> Asleep(e, e.lastTick)
  BY <1>0, <1>2 DEF Asleep, Ready, Coherent
<1> QED
  BY <1>0, <1>1, <1>3 DEF At, Looks, Ready

\* One step takes what has become of e to what becomes of it.
LEMMA AtStep ==
  ASSUME LongWindows, NEW e, NEW t, Ready(e, t), NEW x, At(e, x), NEW q \in Nat, NEW clock \in Nat,
         x.lastTick < q, q - x.lastTick <= MaxStep, t < q,
         x.lastTick = e.lastTick \/ t < x.lastTick
  PROVE  LET y == Step(x, q, clock) IN
         /\ At(e, y) /\ y.lastTick = q
         /\ y.energy = Least(MaxEnergy, x.energy + Rate(Asleep(e, q), q) * (q - x.lastTick))
<1> DEFINE y == Step(x, q, clock)
<1>0. /\ x \in Engine /\ x.activity \in Resting /\ e.lastTick <= x.lastTick /\ x.lastTick \in Nat
      /\ e.lastTick \in Nat /\ x.lastInteraction \in Nat
  BY EngineTimes DEF At, Ready
<1>1. /\ y \in Engine /\ y.lastTick = q /\ y.activity \in Resting
      /\ y.debt = IF Clear(q) THEN 0 ELSE x.debt
      /\ y.activity = "sleeping" <=> SleepsAt(x, q)
      /\ y.lastInteraction = IF ~Night(q) /\ (x.activity = "sleeping" \/ FallsAsleep(x, q))
                              THEN q ELSE x.lastInteraction
      /\ y.energy = Least(MaxEnergy, x.energy + Rate(SleepsAt(x, q), q) * (q - x.lastTick))
  BY <1>0, StepLooks
<1> HIDE DEF y
<1>2. SleepsAt(x, q) <=> Asleep(e, q)
  BY AtSleeps
<1>3. y.debt = IF Clean(e, q) THEN 0 ELSE e.debt
  BY <1>1, AtOwes
<1>4. Rate(SleepsAt(x, q), q) = Rate(Asleep(e, q), q)
  BY <1>2 DEF Rate
<1>5. y.lastInteraction = e.lastInteraction \/ (Woke(e, y.lastInteraction) /\ y.lastInteraction <= q)
  <2>1. CASE ~Night(q) /\ (x.activity = "sleeping" \/ FallsAsleep(x, q))
    <3>1. y.lastInteraction = q
      BY <1>1, <2>1
    <3>2. ~ FallsAsleep(x, q)
      BY <2>1, DeepIsNight DEF FallsAsleep
    <3>3. Asleep(e, x.lastTick)
      BY <2>1, <3>2 DEF At
    <3>4. x.lastTick \in e.lastTick..q
      BY <1>0
    <3>5. Woke(e, q)
      BY <2>1, <3>3, <3>4 DEF Woke
    <3> QED
      BY <3>1, <3>5
  <2>2. CASE ~ (~Night(q) /\ (x.activity = "sleeping" \/ FallsAsleep(x, q)))
    <3>1. y.lastInteraction = x.lastInteraction
      BY <1>1, <2>2
    <3> QED
      BY <1>0, <3>1 DEF At
  <2> QED
    BY <2>1, <2>2
<1>6. e.lastTick <= q
  BY <1>0
<1>7. At(e, y)
  BY <1>1, <1>2, <1>3, <1>5, <1>6 DEF At
<1> QED
  BY <1>1, <1>4, <1>7 DEF y

-----------------------------------------------------------------------------
(* The steps of a tick. *)

\* The recursion of tick has one solution.
LEMMA WalkedIs ==
  ASSUME NEW e, NEW t, NEW n \in Nat, NEW w,
         w = [i \in 0..n |-> IF i = 0 THEN e ELSE Round(w[i-1], t)]
  PROVE  Walked(e, t, n) = w[n]
<1> DEFINE walk[i \in 0..n] == IF i = 0 THEN e ELSE Round(walk[i-1], t)
<1>1. walk = [i \in 0..n |-> IF i = 0 THEN e ELSE Round(walk[i-1], t)]
  BY WalkExists
<1>2. Walked(e, t, n) = walk[n]
  BY DEF Walked
<1> HIDE DEF walk
<1>3. \A i \in 0..n : walk[i] = IF i = 0 THEN e ELSE Round(walk[i-1], t)
  BY <1>1
<1>4. \A i \in 0..n : w[i] = IF i = 0 THEN e ELSE Round(w[i-1], t)
  OBVIOUS
<1> DEFINE Bad == {i \in 0..n : w[i] # walk[i]}
<1>5. ASSUME Bad # {} PROVE FALSE
  <2>0. Bad \subseteq Nat
    OBVIOUS
  <2>1. PICK i \in Bad : \A j \in Bad : i <= j
    <3> HIDE DEF Bad
    <3> QED
      BY <1>5, <2>0, LeastNumber
  <2>2. i \in 0..n /\ w[i] # walk[i]
    BY <2>1
  <2>3. i # 0 /\ i - 1 \in 0..n
    BY <1>3, <1>4, <2>2
  <2>4. w[i-1] = walk[i-1]
    BY <2>1, <2>2, <2>3
  <2> QED
    BY <1>3, <1>4, <2>2, <2>3, <2>4
<1>6. n \in 0..n
  OBVIOUS
<1> QED
  BY <1>2, <1>5, <1>6

\* The first round, and then the others.
LEMMA WalkedShift ==
  ASSUME NEW e, NEW t, NEW n \in Nat
  PROVE  Walked(e, t, n + 1) = Walked(Round(e, t), t, n)
<1> DEFINE k == n + 1
<1>0. k \in Nat
  OBVIOUS
<1> HIDE DEF k
<1> DEFINE w[i \in 0..k] == IF i = 0 THEN e ELSE Round(w[i-1], t)
<1>1. w = [i \in 0..k |-> IF i = 0 THEN e ELSE Round(w[i-1], t)]
  BY <1>0, WalkExists
<1> HIDE DEF w
<1>2. Walked(e, t, n + 1) = w[n + 1]
  BY <1>0, <1>1, WalkedIs DEF k
<1>3. \A i \in 0..(n+1) : w[i] = IF i = 0 THEN e ELSE Round(w[i-1], t)
  BY <1>1 DEF k
<1> DEFINE v == [i \in 0..n |-> w[i+1]]
<1>4. ASSUME NEW i \in 0..n PROVE v[i] = IF i = 0 THEN Round(e, t) ELSE Round(v[i-1], t)
  <2>1. i + 1 \in 0..(n+1) /\ i + 1 # 0 /\ (i + 1) - 1 = i /\ 0 \in 0..(n+1)
    OBVIOUS
  <2>2. v[i] = Round(w[i], t)
    BY <1>3, <2>1
  <2>3. CASE i = 0
    BY <1>3, <2>1, <2>2, <2>3
  <2>4. CASE i # 0
    <3>1. i - 1 \in 0..n /\ (i - 1) + 1 = i
      BY <2>4
    <3>2. v[i-1] = w[i]
      BY <3>1
    <3> QED
      BY <2>2, <2>4, <3>2
  <2> QED
    BY <2>3, <2>4
<1>5. v = [i \in 0..n |-> IF i = 0 THEN Round(e, t) ELSE Round(v[i-1], t)]
  BY <1>4
<1>6. v[n] = w[n + 1]
  OBVIOUS
<1> HIDE DEF v
<1>7. Walked(Round(e, t), t, n) = v[n]
  BY <1>5, WalkedIs
<1> QED
  BY <1>2, <1>6, <1>7

LEMMA WalkedOnce ==
  ASSUME NEW e, NEW t
  PROVE  Walked(e, t, 1) = Round(e, t)
<1> DEFINE n == 0
           f == Round(e, t)
           v == [i \in 0..n |-> f]
<1>1. n \in Nat /\ n + 1 = 1
  OBVIOUS
<1>2. \A i \in 0..n : i = 0
  OBVIOUS
<1> HIDE DEF n, f
<1>3. v = [i \in 0..n |-> IF i = 0 THEN f ELSE Round(v[i-1], t)]
  BY <1>2
<1>4. v[n] = f
  BY <1>1
<1> HIDE DEF v
<1>5. Walked(f, t, n) = v[n]
  BY <1>1, <1>3, WalkedIs
<1>6. Walked(e, t, n + 1) = Walked(f, t, n)
  BY <1>1, WalkedShift DEF f
<1> QED
  BY <1>1, <1>4, <1>5, <1>6 DEF f

\* How many rounds a gap takes.
Rounds(gap) == Greatest(1, (gap + MaxStep - 1) \div MaxStep)

LEMMA RoundsOfGap ==
  ASSUME NEW gap \in Nat
  PROVE  /\ Rounds(gap) \in Nat
         /\ gap <= MaxStep => Rounds(gap) = 1
         /\ gap > MaxStep => Rounds(gap) = Rounds(gap - MaxStep) + 1
<1> DEFINE D == MaxStep
           n == gap + D - 1
           p == n \div D
           r == n % D
<1>0. D \in Nat \ {0} /\ n \in Nat
  BY WindowBounds
<1>1. p \in Int /\ r \in Nat /\ r < D /\ n = D * p + r
  BY <1>0, ModEquation
<1> HIDE DEF D, p, r
<1>2. D * 0 = 0 /\ D * 1 = D /\ D * p \in Int
  BY <1>0, <1>1
<1>3. Rounds(gap) = Greatest(1, p)
  BY DEF Rounds, p, D
<1>4. gap <= D => Rounds(gap) = 1
  <2>1. CASE gap = 0
    <3>1. D * 0 + (D - 1) = D * p + r /\ D - 1 \in Nat /\ D - 1 < D
      BY <1>0, <1>1, <1>2, <2>1
    <3>2. 0 = p
      BY <1>0, <1>1, <3>1, OneRemainder
    <3> QED
      BY <1>3, <3>2 DEF Greatest
  <2>2. CASE gap # 0 /\ gap <= D
    <3>1. D * 1 + (gap - 1) = D * p + r /\ gap - 1 \in Nat /\ gap - 1 < D
      BY <1>0, <1>1, <1>2, <2>2
    <3>2. 1 = p
      BY <1>0, <1>1, <3>1, OneRemainder
    <3> QED
      BY <1>3, <3>2 DEF Greatest
  <2> QED
    BY <2>1, <2>2
<1>5. gap > D => Rounds(gap) = Rounds(gap - D) + 1
  <2> SUFFICES ASSUME gap > D PROVE Rounds(gap) = Rounds(gap - D) + 1
    OBVIOUS
  <2> DEFINE m == (gap - D) + D - 1
             q == m \div D
             s == m % D
  <2>0. m \in Nat /\ m = gap - 1 /\ m >= D
    BY <1>0
  <2>1. q \in Int /\ s \in Nat /\ s < D /\ m = D * q + s
    BY <1>0, <2>0, ModEquation
  <2>2. Rounds(gap - D) = Greatest(1, q)
    BY DEF Rounds, D
  <2> HIDE DEF m, q, s
  <2>3. q + 1 \in Int /\ D * (q + 1) = D * q + D /\ D * q \in Int
    BY <1>0, <2>1
  <2>4. D * (q + 1) + s = D * p + r
    BY <1>0, <1>1, <1>2, <2>0, <2>1, <2>3
  <2>5. q + 1 = p
    BY <1>0, <1>1, <2>1, <2>3, <2>4, OneRemainder
  <2>6. q >= 1
    <3> SUFFICES ASSUME q <= 0 PROVE FALSE
      BY <2>1
    <3>1. D * q <= 0
      <4>1. \A k \in Int : k <= 0 => D * k <= 0
        BY <1>0
      <4> QED
        BY <2>1, <4>1
    <3> QED
      BY <1>0, <2>0, <2>1, <2>3, <3>1
  <2> QED
    BY <1>3, <2>1, <2>2, <2>5, <2>6 DEF Greatest
<1>6. Rounds(gap) \in Nat
  BY <1>1, <1>3 DEF Greatest
<1> QED
  BY <1>4, <1>5, <1>6 DEF D

LEMMA TickIs ==
  ASSUME NEW e, NEW t \in Nat, e.lastTick \in Nat, e.lastTick <= t
  PROVE  Tick(e, t) = Walked(e, t, Rounds(t - e.lastTick))
<1>1. Greatest(0, t - e.lastTick) = t - e.lastTick
  BY DEF Greatest
<1> QED
  BY <1>1 DEF Tick, Walked, Round, Rounds

LEMMA TickOne ==
  ASSUME NEW e, NEW t \in Nat, e.lastTick \in Nat, e.lastTick <= t, t - e.lastTick <= MaxStep
  PROVE  Tick(e, t) = Step(e, t, t)
<1>1. t - e.lastTick \in Nat
  OBVIOUS
<1>2. Rounds(t - e.lastTick) = 1
  BY <1>1, RoundsOfGap
<1>3. Tick(e, t) = Round(e, t)
  BY <1>2, TickIs, WalkedOnce
<1>4. StepEnd(e, t) = t
  BY WindowBounds DEF StepEnd, Least
<1> QED
  BY <1>3, <1>4 DEF Round

LEMMA TickMore ==
  ASSUME NEW e \in Engine, NEW t \in Nat, t - e.lastTick > MaxStep
  PROVE  Tick(e, t) = Tick(Step(e, e.lastTick + MaxStep, t), t)
<1> DEFINE f == Step(e, e.lastTick + MaxStep, t)
<1>0. e.lastTick \in Nat /\ MaxStep \in Nat /\ e.lastTick + MaxStep \in Nat
  BY EngineTimes, WindowBounds
<1>1. f.lastTick = e.lastTick + MaxStep
  BY <1>0, StepLooks
<1>2. StepEnd(e, t) = e.lastTick + MaxStep
  BY <1>0 DEF StepEnd, Least
<1>3. Round(e, t) = f
  BY <1>2 DEF Round
<1> HIDE DEF f
<1>4. /\ t - e.lastTick \in Nat /\ t - f.lastTick \in Nat
      /\ t - f.lastTick = (t - e.lastTick) - MaxStep /\ e.lastTick <= t /\ f.lastTick <= t
  BY <1>0, <1>1
<1>5. Rounds(t - e.lastTick) = Rounds(t - f.lastTick) + 1 /\ Rounds(t - f.lastTick) \in Nat
  BY <1>4, RoundsOfGap
<1>6. Tick(e, t) = Walked(e, t, Rounds(t - f.lastTick) + 1)
  BY <1>0, <1>4, <1>5, TickIs
<1>7. Tick(f, t) = Walked(f, t, Rounds(t - f.lastTick))
  BY <1>0, <1>1, <1>4, TickIs
<1>8. Tick(e, t) = Tick(f, t)
  BY <1>3, <1>5, <1>6, <1>7, WalkedShift
<1> QED
  BY <1>8 DEF f

\* What every step on the way to t preserves holds at t.
LEMMA TickInduction ==
  ASSUME NEW A, A \subseteq Engine, NEW t \in Nat,
         \A x \in A : x.lastTick < t => Step(x, StepEnd(x, t), t) \in A,
         NEW e \in A, e.lastTick < t
  PROVE  Tick(e, t) \in A /\ Tick(e, t).lastTick = t
<1> DEFINE Good == {n \in Nat : \A x \in A : x.lastTick < t /\ t - x.lastTick <= n =>
                                   Tick(x, t) \in A /\ Tick(x, t).lastTick = t}
<1>0. \A x \in A : x \in Engine /\ x.lastTick \in Nat
  BY EngineTimes
<1>1. 0 \in Good
  BY <1>0
<1>2. ASSUME NEW n \in Good PROVE n + 1 \in Good
  <2> SUFFICES ASSUME NEW x \in A, x.lastTick < t, t - x.lastTick <= n + 1
               PROVE  Tick(x, t) \in A /\ Tick(x, t).lastTick = t
    OBVIOUS
  <2>0. x \in Engine /\ x.lastTick \in Nat /\ MaxStep \in Nat \ {0} /\ n \in Nat
    BY <1>0, WindowBounds
  <2>1. CASE t - x.lastTick <= MaxStep
    <3>1. StepEnd(x, t) = t
      BY <2>0, <2>1 DEF StepEnd, Least
    <3>2. Tick(x, t) = Step(x, t, t)
      BY <2>0, <2>1, TickOne
    <3>3. Step(x, t, t).lastTick = t
      BY <2>0, StepLooks
    <3>4. Step(x, t, t) \in A
      BY <3>1
    <3> QED
      BY <3>2, <3>3, <3>4
  <2>2. CASE t - x.lastTick > MaxStep
    <3> DEFINE s == x.lastTick + MaxStep
               y == Step(x, s, t)
    <3>1. StepEnd(x, t) = s /\ s \in Nat
      BY <2>0, <2>2 DEF StepEnd, Least
    <3>2. y \in A /\ y.lastTick = s
      BY <2>0, <3>1, StepLooks
    <3>3. Tick(x, t) = Tick(y, t)
      BY <2>0, <2>2, TickMore
    <3>4. y.lastTick < t /\ t - y.lastTick <= n
      <4> HIDE DEF y
      <4> QED
        BY <2>0, <2>2, <3>2
    <3> HIDE DEF y
    <3> QED
      BY <3>2, <3>3, <3>4
  <2> QED
    BY <2>0, <2>1, <2>2
<1>3. Good \in SUBSET Nat
  OBVIOUS
<1>4. t - e.lastTick \in Nat /\ e.lastTick \in Nat
  BY <1>0
<1>5. t - e.lastTick \in Good
  <2> HIDE DEF Good
  <2> QED
    BY <1>1, <1>2, <1>3, <1>4, Induction
<1> QED
  BY <1>4, <1>5

-----------------------------------------------------------------------------
(* Energy gained step by step and in one step. *)

\* en is gained in steps of one unit from u on, rho[v] in the one that ends at v,
\* and in one step from a to u.
Fine(M, R, en, rho, a, u, q) ==
  /\ M \in Nat /\ R \in Nat /\ a \in Nat /\ u \in Nat /\ q \in Nat /\ a < u /\ u <= q
  /\ en[a] \in 0..M
  /\ \A v \in u..q : rho[v] \in 0..R
  /\ en[u] = Least(M, en[a] + rho[u] * (u - a))
  /\ \A v \in (u + 1)..q : en[v] = Least(M, en[v-1] + rho[v])

LEMMA FineBounds ==
  ASSUME NEW M, NEW R, NEW en, NEW rho, NEW a, NEW u, NEW q, Fine(M, R, en, rho, a, u, q)
  PROVE  \A v \in u..q : en[v] \in 0..M /\ en[a] <= en[v] /\ en[v] <= en[a] + R * (v - a)
<1> DEFINE Good == {n \in Nat : u + n <= q =>
                      /\ en[u + n] \in 0..M /\ en[a] <= en[u + n]
                      /\ en[u + n] <= en[a] + R * ((u + n) - a)}
<1>0. /\ M \in Nat /\ R \in Nat /\ a \in Nat /\ u \in Nat /\ q \in Nat /\ a < u /\ u <= q /\ en[a] \in 0..M
      /\ \A v \in u..q : rho[v] \in 0..R
      /\ en[u] = Least(M, en[a] + rho[u] * (u - a))
      /\ \A v \in (u + 1)..q : en[v] = Least(M, en[v-1] + rho[v])
  BY DEF Fine
<1>1. 0 \in Good
  <2>1. rho[u] \in 0..R /\ u + 0 = u /\ u - a \in Nat
    BY <1>0
  <2>2. \A r \in 0..R, k \in Nat : r * k \in Nat /\ r * k <= R * k
    BY <1>0
  <2>3. rho[u] * (u - a) \in Nat /\ rho[u] * (u - a) <= R * (u - a) /\ R * (u - a) \in Nat
    BY <1>0, <2>1, <2>2
  <2>4. en[u] \in 0..M /\ en[a] <= en[u] /\ en[u] <= en[a] + R * (u - a)
    BY <1>0, <2>3 DEF Least
  <2> QED
    BY <2>1, <2>4
<1>2. ASSUME NEW n \in Good PROVE n + 1 \in Good
  <2> SUFFICES ASSUME u + (n + 1) <= q
               PROVE  /\ en[u + (n + 1)] \in 0..M /\ en[a] <= en[u + (n + 1)]
                      /\ en[u + (n + 1)] <= en[a] + R * ((u + (n + 1)) - a)
    OBVIOUS
  <2> DEFINE w == u + n
             v == u + (n + 1)
  <2>1. n \in Nat /\ w \in Nat /\ v \in Nat /\ w <= q /\ v = w + 1 /\ v - 1 = w /\ v \in (u+1)..q /\ v \in u..q
    BY <1>0
  <2>2. en[w] \in 0..M /\ en[a] <= en[w] /\ en[w] <= en[a] + R * (w - a)
    BY <2>1
  <2>3. w - a \in Nat /\ v - a = (w - a) + 1
    BY <1>0, <2>1
  <2> HIDE DEF w, v
  <2>4. R * (v - a) = R * (w - a) + R /\ R * (w - a) \in Nat
    <3> DEFINE m == w - a
    <3>1. m \in Nat /\ v - a = m + 1 /\ R \in Nat
      BY <1>0, <2>3
    <3> HIDE DEF m
    <3>2. R * (m + 1) = R * m + R /\ R * m \in Nat
      BY <3>1
    <3> QED
      BY <3>1, <3>2 DEF m
  <2>5. en[v] = Least(M, en[w] + rho[v]) /\ rho[v] \in 0..R
    BY <1>0, <2>1
  <2>6. en[v] \in 0..M /\ en[a] <= en[v] /\ en[v] <= en[a] + R * (v - a)
    BY <1>0, <2>2, <2>4, <2>5 DEF Least
  <2> QED
    BY <2>6 DEF v
<1>3. Good \in SUBSET Nat
  OBVIOUS
<1>4. Good = Nat
  <2> HIDE DEF Good
  <2> QED
    BY <1>1, <1>2, <1>3, Induction
<1> SUFFICES ASSUME NEW v \in u..q PROVE en[v] \in 0..M /\ en[a] <= en[v] /\ en[v] <= en[a] + R * (v - a)
  OBVIOUS
<1>5. v - u \in Nat /\ u + (v - u) = v /\ v <= q
  BY <1>0
<1>6. v - u \in Good
  <2> HIDE DEF Good
  <2> QED
    BY <1>4, <1>5
<1> QED
  BY <1>5, <1>6

LEMMA FineConstant ==
  ASSUME NEW M, NEW R, NEW en, NEW rho, NEW a, NEW u, NEW q, Fine(M, R, en, rho, a, u, q),
         \A v \in u..q : rho[v] = rho[q]
  PROVE  en[q] = Least(M, en[a] + rho[q] * (q - a))
<1> DEFINE r == rho[q]
           Good == {n \in Nat : u + n <= q => en[u + n] = Least(M, en[a] + r * ((u + n) - a))}
<1>0. /\ M \in Nat /\ R \in Nat /\ a \in Nat /\ u \in Nat /\ q \in Nat /\ a < u /\ u <= q /\ en[a] \in 0..M
      /\ \A v \in u..q : rho[v] = r
      /\ r \in 0..R
      /\ en[u] = Least(M, en[a] + rho[u] * (u - a))
      /\ \A v \in (u + 1)..q : en[v] = Least(M, en[v-1] + rho[v])
  BY DEF Fine
<1> HIDE DEF r
<1>1. 0 \in Good
  <2>1. u \in u..q /\ u + 0 = u
    BY <1>0
  <2> QED
    BY <1>0, <2>1
<1>2. ASSUME NEW n \in Good PROVE n + 1 \in Good
  <2> SUFFICES ASSUME u + (n + 1) <= q
               PROVE  en[u + (n + 1)] = Least(M, en[a] + r * ((u + (n + 1)) - a))
    OBVIOUS
  <2> DEFINE w == u + n
             v == u + (n + 1)
  <2>1. n \in Nat /\ w \in Nat /\ v \in Nat /\ w <= q /\ v = w + 1 /\ v - 1 = w /\ v \in (u+1)..q /\ v \in u..q
    BY <1>0
  <2>2. en[w] = Least(M, en[a] + r * (w - a))
    BY <2>1
  <2>3. w - a \in Nat /\ v - a = (w - a) + 1
    BY <1>0, <2>1
  <2> HIDE DEF w, v
  <2>4. r * (v - a) = r * (w - a) + r /\ r * (w - a) \in Nat
    BY <1>0, <2>3
  <2>5. en[v] = Least(M, en[w] + r)
    BY <1>0, <2>1
  <2>6. en[v] = Least(M, en[a] + r * (v - a))
    BY <1>0, <2>2, <2>4, <2>5 DEF Least
  <2> QED
    BY <2>6 DEF v
<1>3. Good \in SUBSET Nat
  OBVIOUS
<1>4. Good = Nat
  <2> HIDE DEF Good
  <2> QED
    BY <1>1, <1>2, <1>3, Induction
<1>5. q - u \in Nat /\ u + (q - u) = q /\ q <= q
  BY <1>0
<1>6. q - u \in Good
  <2> HIDE DEF Good
  <2> QED
    BY <1>4, <1>5
<1> QED
  BY <1>5, <1>6 DEF r

\* In one step of q - a units somebody with energy c gains what he gains in small
\* ones, or a step less one unit more or less.
LEMMA Coarse ==
  ASSUME NEW M, NEW R, NEW en, NEW rho, NEW a, NEW u, NEW q, Fine(M, R, en, rho, a, u, q),
         NEW c \in 0..M, NEW D \in Nat, c - en[a] \in (-D)..D
  PROVE  LET far == Least(M, c + rho[q] * (q - a)) - en[q] IN
         /\ (\A v \in u..q : rho[v] = rho[q]) => far \in (-D)..D
         /\ LET off == D + R * ((q - a) - 1) IN far \in (-off)..off
<1> DEFINE r == rho[q]
           k == (q - a) - 1
           x == en[a]
           y == en[q]
<1>0. /\ M \in Nat /\ R \in Nat /\ a \in Nat /\ u \in Nat /\ q \in Nat /\ a < u /\ u <= q /\ x \in 0..M
      /\ r \in 0..R
      /\ en[u] = Least(M, x + rho[u] * (u - a))
      /\ \A v \in (u + 1)..q : en[v] = Least(M, en[v-1] + rho[v])
  BY DEF Fine
<1>1. k \in Nat /\ q - a = k + 1
  BY <1>0
<1>2. r * (q - a) = r * k + r /\ r * k \in Nat /\ R * k \in Nat /\ r * k <= R * k
  <2> HIDE DEF r, k
  <2>1. r * (k + 1) = r * k + r /\ r * k \in Nat /\ R * k \in Nat
    BY <1>0, <1>1
  <2>2. \A m \in Nat, s \in 0..R : s * m <= R * m
    BY <1>0
  <2> QED
    BY <1>0, <1>1, <2>1, <2>2
<1>3. (\A v \in u..q : rho[v] = rho[q]) => y = Least(M, x + (r * k + r))
  BY <1>2, FineConstant
<1>4. /\ y \in 0..M
      /\ \/ y = Least(M, x + (r * k + r))
         \/ \E z \in x..(x + R * k) : y = Least(M, z + r)
  <2>1. q \in u..q
    BY <1>0
  <2>2. y \in 0..M
    BY <2>1, FineBounds
  <2>3. CASE u = q
    BY <1>0, <1>2, <2>2, <2>3
  <2>4. CASE u < q
    <3>1. q - 1 \in u..q /\ q \in (u+1)..q /\ (q - 1) - a = k
      BY <1>0, <2>4
    <3>2. en[q-1] \in 0..M /\ x <= en[q-1] /\ en[q-1] <= x + R * ((q - 1) - a)
      BY <3>1, FineBounds
    <3>3. y = Least(M, en[q-1] + r)
      BY <1>0, <3>1
    <3>4. en[q-1] \in x..(x + R * k)
      <4> HIDE DEF k
      <4> QED
        BY <1>0, <1>2, <3>1, <3>2
    <3> QED
      BY <2>2, <3>3, <3>4
  <2> QED
    BY <1>0, <2>3, <2>4
<1>5. x \in Int /\ c - x >= -D /\ c - x <= D
  BY <1>0
<1> DEFINE g == r * k
           h == R * k
           far == Least(M, c + (g + r)) - y
<1>6. g \in Nat /\ h \in Nat /\ g <= h
  BY <1>2
<1> HIDE DEF r, k, x, y
<1>7. y = Least(M, x + (g + r)) => far \in (-D)..D
  <2> HIDE DEF g, h
  <2> QED
    BY <1>0, <1>5, <1>6 DEF Least
<1>8. (\E z \in x..(x + h) : y = Least(M, z + r)) => far \in (-(D + h))..(D + h)
  <2> HIDE DEF g, h
  <2> QED
    BY <1>0, <1>5, <1>6 DEF Least
<1>9. far \in (-D)..D => far \in (-(D + h))..(D + h)
  <2> HIDE DEF g, h, far
  <2> QED
    BY <1>6
<1>10. Least(M, c + rho[q] * (q - a)) - en[q] = far
  BY <1>2 DEF r, y
<1>11. (\A v \in u..q : rho[v] = rho[q]) => far \in (-D)..D
  <2> HIDE DEF far
  <2> QED
    BY <1>3, <1>7
<1>12. far \in (-(D + h))..(D + h)
  <2> HIDE DEF far
  <2> QED
    BY <1>4, <1>7, <1>8, <1>9
<1> HIDE DEF far
<1> QED
  BY <1>10, <1>11, <1>12 DEF k

-----------------------------------------------------------------------------
(* When what is gained in a unit of time changes. *)

\* Nightfalls, mornings, and when it falls asleep at night.
Swings(e, q) ==
  {v \in (e.lastTick + 1)..q : \/ Night(v) # Night(v - 1)
                               \/ Night(v) /\ Asleep(e, v) /\ ~Asleep(e, v - 1)}

LEMMA EdgesFinite ==
  ASSUME NEW s \in Nat, NEW t \in Nat
  PROVE  IsFiniteSet(Edges(s, t)) /\ Cardinality(Edges(s, t)) \in Nat
<1>1. IsFiniteSet((s + 1)..t)
  BY FS_Interval
<1>2. Edges(s, t) \in SUBSET ((s + 1)..t)
  BY DEF Edges
<1>3. IsFiniteSet(Edges(s, t))
  BY <1>1, <1>2, FS_Subset
<1> QED
  BY <1>3, FS_CardinalityType

LEMMA SwingsFinite ==
  ASSUME NEW e \in Engine, NEW q \in Nat
  PROVE  IsFiniteSet(Swings(e, q)) /\ Cardinality(Swings(e, q)) \in Nat
<1>0. e.lastTick \in Nat
  BY EngineTimes
<1>1. IsFiniteSet((e.lastTick + 1)..q)
  BY <1>0, FS_Interval
<1>2. Swings(e, q) \in SUBSET ((e.lastTick + 1)..q)
  BY DEF Swings
<1>3. IsFiniteSet(Swings(e, q))
  BY <1>1, <1>2, FS_Subset
<1> QED
  BY <1>3, FS_CardinalityType

\* It falls asleep but once without a nightfall.
LEMMA SwingsAreEdges ==
  ASSUME LongWindows, NEW e, NEW t, Ready(e, t), NEW q \in Nat
  PROVE  Cardinality(Swings(e, q)) <= Cardinality(Edges(e.lastTick, q)) + 1
<1> DEFINE b == e.lastTick
           T == Swings(e, q)
           H == Edges(b, q)
<1>0. e \in Engine /\ b \in Nat
  BY EngineTimes DEF Ready
<1>1. IsFiniteSet(T) /\ IsFiniteSet(H) /\ Cardinality(T) \in Nat /\ Cardinality(H) \in Nat
  BY <1>0, EdgesFinite, SwingsFinite
<1>2. CASE T \subseteq H
  <2>1. Cardinality(T) <= Cardinality(H)
    BY <1>1, <1>2, FS_Subset
  <2> QED
    BY <1>1, <2>1
<1>3. CASE ~ (T \subseteq H)
  <2>1. PICK z \in T : z \notin H
    BY <1>3
  <2>2. ASSUME NEW v \in T, v \notin H
        PROVE  v \in (b+1)..q /\ Night(v) /\ Asleep(e, v) /\ ~Asleep(e, v - 1) /\ Night(v - 1)
    BY <2>2 DEF Swings, Edges
  <2>3. ASSUME NEW v \in T, v \notin H, NEW w \in T, w \notin H, v < w PROVE FALSE
    <3>1. v \in Nat /\ b <= v /\ w - 1 \in Nat /\ v <= w - 1
      BY <1>0, <2>2, <2>3
    <3>2. Asleep(e, v) /\ Night(w - 1) /\ ~Asleep(e, w - 1)
      BY <2>2, <2>3
    <3> HIDE DEF T, H
    <3> QED
      BY <3>1, <3>2, AsleepAgain
  <2>4. ASSUME NEW v \in T, v \notin H PROVE v = z
    <3>1. v \in Int /\ z \in Int
      BY <1>0, <2>1, <2>2, <2>4
    <3> HIDE DEF T, H
    <3> QED
      BY <2>1, <2>3, <2>4, <3>1
  <2>5. T \subseteq H \cup {z}
    BY <2>4
  <2>6. IsFiniteSet(H \cup {z}) /\ Cardinality(H \cup {z}) = Cardinality(H) + 1
    BY <1>1, <2>1, FS_AddElement
  <2>7. Cardinality(T) <= Cardinality(H \cup {z})
    BY <2>5, <2>6, FS_Subset
  <2> QED
    BY <2>6, <2>7
<1> QED
  BY <1>2, <1>3

LEMMA SwingsGrow ==
  ASSUME NEW e \in Engine, NEW a \in Nat, NEW q \in Nat, a <= q
  PROVE  Cardinality(Swings(e, a)) <= Cardinality(Swings(e, q))
<1>0. e.lastTick \in Nat
  BY EngineTimes
<1>1. Swings(e, a) \in SUBSET Swings(e, q)
  BY <1>0 DEF Swings
<1> QED
  BY <1>1, SwingsFinite, FS_Subset

\* A rate that changes between u and q changes at a swing.
LEMMA RateSwings ==
  ASSUME NEW e \in Engine, NEW a \in Nat, NEW u \in Nat, NEW q \in Nat, e.lastTick <= a, a < u, u <= q,
         ~ (\A v \in u..q : Rate(Asleep(e, v), v) = Rate(Asleep(e, q), q))
  PROVE  Cardinality(Swings(e, a)) + 1 <= Cardinality(Swings(e, q))
<1> DEFINE rho(v) == Rate(Asleep(e, v), v)
           Bad == {n \in Nat : n <= q - u /\ rho(q - n) # rho(q)}
<1>0. e.lastTick \in Nat
  BY EngineTimes
<1>1. PICK n \in Bad : \A m \in Bad : n <= m
  <2>1. PICK v \in u..q : rho(v) # rho(q)
    OBVIOUS
  <2>2. q - v \in Nat /\ q - (q - v) = v /\ q - v <= q - u
    BY <2>1
  <2>3. q - v \in Bad
    BY <2>1, <2>2
  <2>4. Bad \subseteq Nat /\ Bad # {}
    BY <2>3
  <2> HIDE DEF Bad
  <2> QED
    BY <2>4, LeastNumber
<1> DEFINE v == (q - n) + 1
<1>2. n \in Nat /\ n <= q - u /\ rho(q - n) # rho(q)
  BY <1>1
<1>3. n # 0
  BY <1>2
<1>4. v \in Nat /\ v \in (u + 1)..q /\ v - 1 = q - n /\ n - 1 \in Nat /\ q - (n - 1) = v /\ n - 1 <= q - u
  BY <1>2, <1>3
<1>5. n - 1 \notin Bad
  BY <1>1, <1>2
<1>6. rho(v) = rho(q)
  BY <1>4, <1>5
<1>7. rho(v) # rho(v - 1)
  BY <1>2, <1>4, <1>6
<1> HIDE DEF v
<1>8. v \in Swings(e, q)
  <2>1. v \in (e.lastTick + 1)..q
    BY <1>0, <1>4
  <2>2. Asleep(e, v - 1) => Night(v - 1)
    BY DEF Asleep
  <2>3. Asleep(e, v) => Night(v)
    BY DEF Asleep
  <2>4. ASSUME Night(v) = Night(v - 1), ~ (Asleep(e, v) /\ ~ Asleep(e, v - 1)) PROVE FALSE
    <3>1. Asleep(e, v - 1) /\ ~ Asleep(e, v)
      BY <1>7, <2>4 DEF Rate
    <3>2. Night(v)
      BY <2>2, <2>4, <3>1
    <3>3. \A w \in (v-1)..v : Night(w)
      <4>1. \A w \in (v-1)..v : w = v - 1 \/ w = v
        BY <1>4
      <4> QED
        BY <2>4, <3>2, <4>1
    <3>4. v - 1 \in Nat /\ e.lastTick <= v - 1 /\ v - 1 <= v
      BY <1>0, <1>4
    <3> QED
      BY <1>4, <3>1, <3>3, <3>4, AsleepStays
  <2> QED
    BY <2>1, <2>3, <2>4 DEF Swings
<1>9. v \notin Swings(e, a) /\ Swings(e, a) \subseteq Swings(e, q) \ {v}
  BY <1>0, <1>4 DEF Swings
<1>10. /\ IsFiniteSet(Swings(e, q) \ {v})
       /\ Cardinality(Swings(e, q) \ {v}) = Cardinality(Swings(e, q)) - 1
  BY <1>8, SwingsFinite, FS_RemoveElement
<1>11. Cardinality(Swings(e, a)) <= Cardinality(Swings(e, q) \ {v})
  BY <1>9, <1>10, FS_Subset
<1> QED
  BY <1>10, <1>11, SwingsFinite

-----------------------------------------------------------------------------
(* The engine that was ticked all the time. *)

LEMMA RunExists ==
  ASSUME NEW e, NEW t
  PROVE  \A n \in Nat : \E w : w = [i \in 0..n |-> IF i = 0 THEN e ELSE Tick(w[i-1], t + i)]
<1> DEFINE Good == {n \in Nat : \E w : w = [i \in 0..n |-> IF i = 0 THEN e ELSE Tick(w[i-1], t + i)]}
<1>1. 0 \in Good
  <2> DEFINE w == [i \in 0..0 |-> e]
  <2>1. w = [i \in 0..0 |-> IF i = 0 THEN e ELSE Tick(w[i-1], t + i)]
    OBVIOUS
  <2> QED
    BY <2>1
<1>2. ASSUME NEW n \in Good PROVE n + 1 \in Good
  <2>1. PICK w : w = [i \in 0..n |-> IF i = 0 THEN e ELSE Tick(w[i-1], t + i)]
    OBVIOUS
  <2>2. \A i \in 0..n : w[i] = IF i = 0 THEN e ELSE Tick(w[i-1], t + i)
    BY <2>1
  <2> DEFINE v == [i \in 0..(n+1) |-> IF i \in 0..n THEN w[i] ELSE Tick(w[n], t + i)]
  <2>3. ASSUME NEW i \in 0..(n+1) PROVE v[i] = IF i = 0 THEN e ELSE Tick(v[i-1], t + i)
    <3>1. CASE i = n + 1
      BY <3>1
    <3>2. CASE i \in 0..n /\ i # 0
      <4>1. v[i] = w[i] /\ v[i-1] = w[i-1]
        BY <3>2
      <4> QED
        BY <3>2, <4>1, <2>2
    <3>3. CASE i = 0
      BY <3>3, <2>2
    <3> QED
      BY <3>1, <3>2, <3>3
  <2>4. v = [i \in 0..(n+1) |-> IF i = 0 THEN e ELSE Tick(v[i-1], t + i)]
    BY <2>3
  <2> HIDE DEF v
  <2> QED
    BY <2>4
<1>3. Good \in SUBSET Nat
  OBVIOUS
<1>4. Good = Nat
  <2> HIDE DEF Good
  <2> QED
    BY <1>1, <1>2, <1>3, Induction
<1> QED
  BY <1>4

LEMMA RunIs ==
  ASSUME NEW e, NEW t, NEW n \in Nat, NEW w,
         w = [i \in 0..n |-> IF i = 0 THEN e ELSE Tick(w[i-1], t + i)]
  PROVE  Ticked(e, t, n) = w[n]
<1> DEFINE run[i \in 0..n] == IF i = 0 THEN e ELSE Tick(run[i-1], t + i)
<1>1. run = [i \in 0..n |-> IF i = 0 THEN e ELSE Tick(run[i-1], t + i)]
  BY RunExists
<1>2. Ticked(e, t, n) = run[n]
  BY DEF Ticked
<1> HIDE DEF run
<1>3. \A i \in 0..n : run[i] = IF i = 0 THEN e ELSE Tick(run[i-1], t + i)
  BY <1>1
<1>4. \A i \in 0..n : w[i] = IF i = 0 THEN e ELSE Tick(w[i-1], t + i)
  OBVIOUS
<1> DEFINE Bad == {i \in 0..n : w[i] # run[i]}
<1>5. ASSUME Bad # {} PROVE FALSE
  <2>0. Bad \subseteq Nat
    OBVIOUS
  <2>1. PICK i \in Bad : \A j \in Bad : i <= j
    <3> HIDE DEF Bad
    <3> QED
      BY <1>5, <2>0, LeastNumber
  <2>2. i \in 0..n /\ w[i] # run[i]
    BY <2>1
  <2>3. i # 0 /\ i - 1 \in 0..n
    BY <1>3, <1>4, <2>2
  <2>4. w[i-1] = run[i-1]
    BY <2>1, <2>2, <2>3
  <2> QED
    BY <1>3, <1>4, <2>2, <2>3, <2>4
<1>6. n \in 0..n
  OBVIOUS
<1> QED
  BY <1>2, <1>5, <1>6

LEMMA TickedNext ==
  ASSUME NEW e, NEW t
  PROVE  /\ Ticked(e, t, 0) = e
         /\ \A n \in Nat : Ticked(e, t, n + 1) = Tick(Ticked(e, t, n), t + (n + 1))
<1>1. Ticked(e, t, 0) = e
  <2> DEFINE n == 0
             v == [i \in 0..n |-> e]
  <2>1. n \in Nat /\ \A i \in 0..n : i = 0
    OBVIOUS
  <2> HIDE DEF n
  <2>2. v = [i \in 0..n |-> IF i = 0 THEN e ELSE Tick(v[i-1], t + i)]
    BY <2>1
  <2>3. v[n] = e
    BY <2>1
  <2> HIDE DEF v
  <2>4. Ticked(e, t, n) = v[n]
    BY <2>1, <2>2, RunIs
  <2> QED
    BY <2>3, <2>4 DEF n
<1>2. ASSUME NEW n \in Nat PROVE Ticked(e, t, n + 1) = Tick(Ticked(e, t, n), t + (n + 1))
  <2> DEFINE k == n + 1
  <2>0. k \in Nat
    OBVIOUS
  <2> HIDE DEF k
  <2> DEFINE w[i \in 0..k] == IF i = 0 THEN e ELSE Tick(w[i-1], t + i)
  <2>1. w = [i \in 0..k |-> IF i = 0 THEN e ELSE Tick(w[i-1], t + i)]
    BY <2>0, RunExists
  <2> HIDE DEF w
  <2>2. Ticked(e, t, k) = w[k]
    BY <2>0, <2>1, RunIs
  <2>3. \A i \in 0..k : w[i] = IF i = 0 THEN e ELSE Tick(w[i-1], t + i)
    BY <2>1
  <2> DEFINE v == [i \in 0..n |-> w[i]]
  <2>4. ASSUME NEW i \in 0..n PROVE v[i] = IF i = 0 THEN e ELSE Tick(v[i-1], t + i)
    <3>1. i \in 0..k /\ (i # 0 => i - 1 \in 0..n)
      BY DEF k
    <3> QED
      BY <2>3, <3>1
  <2>5. v = [i \in 0..n |-> IF i = 0 THEN e ELSE Tick(v[i-1], t + i)]
    BY <2>4
  <2>6. v[n] = w[n]
    OBVIOUS
  <2> HIDE DEF v
  <2>7. Ticked(e, t, n) = v[n]
    BY <2>5, RunIs
  <2>8. w[k] = Tick(w[n], t + k)
    <3>1. k \in 0..k /\ k # 0 /\ k - 1 = n
      BY DEF k
    <3> QED
      BY <2>3, <3>1
  <2> QED
    BY <2>2, <2>6, <2>7, <2>8 DEF k
<1> QED
  BY <1>1, <1>2

\* It has become what an engine becomes, unit by unit.
LEMMA LiveRun ==
  ASSUME LongWindows, NEW e, NEW t, Ready(e, t), t < e.lastTick + MaxStep, NEW n \in Nat
  PROVE  LET x == Ticked(e, t, n)
             y == Ticked(e, t, n + 1)
             q == t + (n + 1)
         IN  /\ At(e, x) /\ x.lastTick = (IF n = 0 THEN e.lastTick ELSE t + n)
             /\ At(e, y) /\ y.lastTick = q
             /\ y.energy = Least(MaxEnergy, x.energy + Rate(Asleep(e, q), q) * (q - x.lastTick))
<1> DEFINE X(i) == Ticked(e, t, i)
           Good == {i \in Nat : At(e, X(i)) /\ X(i).lastTick = IF i = 0 THEN e.lastTick ELSE t + i}
<1>0. e \in Engine /\ t \in Nat /\ e.lastTick \in Nat /\ e.lastTick <= t /\ MaxStep \in Nat \ {0}
  BY EngineTimes, WindowBounds DEF Ready
<1>1. X(0) = e /\ \A i \in Nat : X(i + 1) = Tick(X(i), t + (i + 1))
  BY TickedNext
<1> HIDE DEF X
<1>2. 0 \in Good
  <2>1. Looks(e, e.activity, e.energy, e.debt, e.lastInteraction, e.lastTick)
    BY <1>0 DEF Looks
  <2>2. At(e, e)
    BY <1>0, <2>1, AtStarts
  <2> QED
    BY <1>1, <2>2
<1>3. ASSUME NEW i \in Good
      PROVE  LET q == t + (i + 1) IN
             /\ At(e, X(i + 1)) /\ X(i + 1).lastTick = q
             /\ X(i + 1).energy = Least(MaxEnergy, X(i).energy + Rate(Asleep(e, q), q) * (q - X(i).lastTick))
  <2> DEFINE x == X(i)
             q == t + (i + 1)
  <2>1. i \in Nat /\ At(e, x) /\ x.lastTick = IF i = 0 THEN e.lastTick ELSE t + i
    OBVIOUS
  <2>2. /\ q \in Nat /\ x.lastTick < q /\ q - x.lastTick <= MaxStep /\ t < q /\ x.lastTick \in Nat
        /\ x.lastTick = e.lastTick \/ t < x.lastTick
    BY <1>0, <2>1
  <2>3. X(i + 1) = Tick(x, q)
    BY <1>1, <2>1
  <2> HIDE DEF x, q
  <2>4. Tick(x, q) = Step(x, q, q)
    BY <2>2, TickOne
  <2>5. /\ At(e, Step(x, q, q)) /\ Step(x, q, q).lastTick = q
        /\ Step(x, q, q).energy = Least(MaxEnergy, x.energy + Rate(Asleep(e, q), q) * (q - x.lastTick))
    BY <2>1, <2>2, AtStep
  <2> QED
    BY <2>3, <2>4, <2>5 DEF x, q
<1>4. ASSUME NEW i \in Good PROVE i + 1 \in Good
  <2>1. i + 1 \in Nat /\ i + 1 # 0
    OBVIOUS
  <2>2. At(e, X(i + 1)) /\ X(i + 1).lastTick = t + (i + 1)
    BY <1>3
  <2> QED
    BY <2>1, <2>2
<1>5. Good \in SUBSET Nat
  OBVIOUS
<1>6. n \in Good
  <2> HIDE DEF Good
  <2> QED
    BY <1>2, <1>4, <1>5, Induction
<1>7. At(e, X(n)) /\ X(n).lastTick = IF n = 0 THEN e.lastTick ELSE t + n
  BY <1>6
<1> QED
  BY <1>3, <1>6, <1>7 DEF X

-----------------------------------------------------------------------------
(* The engine that comes back, against the one that was ticked all the time. *)

Recovery == Greatest(SleepRecovery, IdleRecovery)
Slip     == (MaxStep - 1) * Recovery

\* The energy of the one that was ticked, and what it gains.
LiveEnergy(e, t) == [v \in Nat |-> IF v <= t THEN e.energy ELSE Ticked(e, t, v - t).energy]
LiveRate(e)      == [v \in Nat |-> Rate(Asleep(e, v), v)]

LEMMA SlipType == Recovery \in Nat /\ Slip \in Nat /\ Slip = Recovery * (MaxStep - 1)
<1>1. Recovery \in Nat /\ MaxStep - 1 \in Nat
  BY CharacterAssumption DEF Recovery, Greatest
<1> QED
  BY <1>1 DEF Slip

LEMMA RateRange ==
  ASSUME NEW e, NEW v \in Nat
  PROVE  LiveRate(e)[v] = Rate(Asleep(e, v), v) /\ LiveRate(e)[v] \in 0..Recovery
<1>1. LiveRate(e)[v] = Rate(Asleep(e, v), v)
  BY DEF LiveRate
<1>2. Rate(Asleep(e, v), v) \in 0..Recovery
  BY CharacterAssumption DEF Rate, Recovery, Greatest
<1> QED
  BY <1>1, <1>2

LEMMA RunFine ==
  ASSUME LongWindows, NEW e, NEW t, Ready(e, t), t < e.lastTick + MaxStep,
         NEW a \in Nat, NEW u \in Nat, NEW q \in Nat, t < q, a < q,
         (a = e.lastTick /\ u = t + 1) \/ (t < a /\ u = a + 1)
  PROVE  Fine(MaxEnergy, Recovery, LiveEnergy(e, t), LiveRate(e), a, u, q)
<1> DEFINE en  == LiveEnergy(e, t)
           rho == LiveRate(e)
<1>0. /\ e \in Engine /\ t \in Nat /\ e.lastTick \in Nat /\ e.lastTick <= t /\ e.energy \in 0..MaxEnergy
      /\ MaxEnergy \in Nat /\ Recovery \in Nat
  BY EngineTimes, SlipType, ConstantsAreNatural DEF Ready
<1>1. ASSUME NEW v \in Nat PROVE v <= t => en[v] = e.energy
  BY <1>1 DEF LiveEnergy
<1>2. ASSUME NEW n \in Nat
      PROVE  en[t + n] = Ticked(e, t, n).energy
  <2>1. CASE n = 0
    BY <1>0, <1>1, <2>1, TickedNext
  <2>2. CASE n # 0
    <3>1. t + n \in Nat /\ ~ (t + n <= t) /\ (t + n) - t = n
      BY <1>0, <2>2
    <3> QED
      BY <3>1 DEF LiveEnergy
  <2> QED
    BY <2>1, <2>2
<1>3. ASSUME NEW n \in Nat PROVE en[t + n] \in 0..MaxEnergy
  <2>1. Ticked(e, t, n) \in Engine
    BY LiveRun DEF At
  <2> QED
    BY <1>2, <2>1, EngineTimes
<1>4. ASSUME NEW n \in Nat
      PROVE  LET v == t + (n + 1)
                 s == IF n = 0 THEN e.lastTick ELSE t + n
             IN en[v] = Least(MaxEnergy, en[t + n] + rho[v] * (v - s))
  <2> DEFINE v == t + (n + 1)
             s == IF n = 0 THEN e.lastTick ELSE t + n
             x == Ticked(e, t, n)
             y == Ticked(e, t, n + 1)
  <2>1. x.lastTick = s /\ y.energy = Least(MaxEnergy, x.energy + Rate(Asleep(e, v), v) * (v - x.lastTick))
    BY LiveRun
  <2>2. en[v] = y.energy /\ en[t + n] = x.energy
    BY <1>2
  <2>3. v \in Nat
    BY <1>0
  <2>4. rho[v] = Rate(Asleep(e, v), v)
    BY <2>3, RateRange
  <2> HIDE DEF v, s, x, y, en, rho
  <2>5. en[v] = Least(MaxEnergy, en[t + n] + rho[v] * (v - s))
    BY <2>1, <2>2, <2>4
  <2> QED
    BY <2>5 DEF v, s
<1> HIDE DEF en, rho
<1>5. a < u /\ u <= q /\ t < u
  BY <1>0
<1>6. en[a] \in 0..MaxEnergy
  <2>1. CASE a = e.lastTick
    BY <1>0, <1>1, <2>1
  <2>2. CASE t < a
    <3>1. a - t \in Nat /\ t + (a - t) = a
      BY <1>0, <2>2
    <3> QED
      BY <1>3, <3>1
  <2> QED
    BY <2>1, <2>2
<1>7. \A v \in u..q : rho[v] \in 0..Recovery
  BY RateRange DEF rho
<1>8. ASSUME NEW v \in Nat, v > t + 1
      PROVE  en[v] = Least(MaxEnergy, en[v-1] + rho[v])
  <2> DEFINE n == (v - 1) - t
  <2>1. n \in Nat /\ n # 0 /\ t + (n + 1) = v /\ t + n = v - 1 /\ v - (v - 1) = 1
    BY <1>0, <1>8
  <2> HIDE DEF n
  <2>2. en[v] = Least(MaxEnergy, en[v-1] + rho[v] * (v - (v - 1)))
    BY <1>4, <2>1
  <2>3. rho[v] * 1 = rho[v]
    <3>1. rho[v] \in Nat
      BY <1>0, RateRange DEF rho
    <3> QED
      BY <3>1
  <2> QED
    BY <2>1, <2>2, <2>3
<1>9. \A v \in (u + 1)..q : en[v] = Least(MaxEnergy, en[v-1] + rho[v])
  <2>1. \A v \in (u + 1)..q : v \in Nat /\ v > t + 1
    BY <1>0, <1>5
  <2> QED
    BY <1>8, <2>1
<1>10. en[u] = Least(MaxEnergy, en[a] + rho[u] * (u - a))
  <2>1. CASE a = e.lastTick /\ u = t + 1
    <3> DEFINE n == 0
    <3>1. n \in Nat /\ t + (n + 1) = u /\ t + n = t /\ n = 0
      BY <1>0, <2>1
    <3> HIDE DEF n
    <3>2. en[u] = Least(MaxEnergy, en[t] + rho[u] * (u - e.lastTick))
      BY <1>4, <3>1
    <3>3. en[t] = en[a]
      BY <1>0, <1>1, <2>1
    <3> QED
      BY <2>1, <3>2, <3>3
  <2>2. CASE t < a /\ u = a + 1
    <3>1. u > t + 1 /\ u - a = 1 /\ u - 1 = a
      BY <1>0, <2>2
    <3>2. en[u] = Least(MaxEnergy, en[u-1] + rho[u])
      BY <1>8, <3>1
    <3>3. rho[u] * 1 = rho[u]
      <4>1. rho[u] \in Nat
        BY <1>0, RateRange DEF rho
      <4> QED
        BY <4>1
    <3> QED
      BY <3>1, <3>2, <3>3
  <2> QED
    BY <2>1, <2>2
<1>11. Fine(MaxEnergy, Recovery, en, rho, a, u, q)
  BY <1>0, <1>5, <1>6, <1>7, <1>9, <1>10 DEF Fine
<1> QED
  BY <1>11 DEF en, rho

\* How far the one that comes back may be off at v.
Off(e, v) == Slip * Cardinality(Swings(e, v))

\* What has become of e on the way to T, since t.
OnTheWay(e, t, T) ==
  {x \in Engine : /\ At(e, x) /\ x.lastTick <= T /\ (x.lastTick = e.lastTick \/ t < x.lastTick)
                  /\ x.energy - LiveEnergy(e, t)[x.lastTick] \in (-Off(e, x.lastTick))..Off(e, x.lastTick)}

LEMMA OffType ==
  ASSUME NEW e \in Engine, NEW v \in Nat
  PROVE  Off(e, v) \in Nat
<1>1. \A i \in Nat, j \in Nat : i * j \in Nat
  OBVIOUS
<1> QED
  BY <1>1, SlipType, SwingsFinite DEF Off

LEMMA OffGrows ==
  ASSUME NEW e \in Engine, NEW a \in Nat, NEW q \in Nat, a <= q
  PROVE  /\ Off(e, a) <= Off(e, q)
         /\ Cardinality(Swings(e, a)) + 1 <= Cardinality(Swings(e, q)) => Off(e, a) + Slip <= Off(e, q)
<1>1. \A i \in Nat, j \in Nat, s \in Nat : i <= j => s * i <= s * j
  OBVIOUS
<1>2. \A i \in Nat, s \in Nat : s * (i + 1) = s * i + s
  OBVIOUS
<1> DEFINE i == Cardinality(Swings(e, a))
           j == Cardinality(Swings(e, q))
<1>3. i \in Nat /\ j \in Nat /\ i <= j /\ Slip \in Nat /\ i + 1 \in Nat
  BY SwingsFinite, SwingsGrow, SlipType
<1>4. Off(e, a) = Slip * i /\ Off(e, q) = Slip * j
  BY DEF Off
<1> HIDE DEF i, j
<1>5. Slip * i <= Slip * j
  BY <1>1, <1>3
<1>6. i + 1 <= j => Slip * (i + 1) <= Slip * j
  BY <1>1, <1>3
<1>7. Slip * (i + 1) = Slip * i + Slip
  BY <1>2, <1>3
<1> QED
  BY <1>4, <1>5, <1>6, <1>7 DEF i, j

LEMMA BackStep ==
  ASSUME LongWindows, NEW e, NEW t, Ready(e, t), t < e.lastTick + MaxStep, NEW T \in Nat, t < T,
         NEW x \in OnTheWay(e, t, T), x.lastTick < T
  PROVE  Step(x, StepEnd(x, T), T) \in OnTheWay(e, t, T)
<1> DEFINE a   == x.lastTick
           q   == StepEnd(x, T)
           u   == IF a = e.lastTick THEN t + 1 ELSE a + 1
           y   == Step(x, q, T)
           en  == LiveEnergy(e, t)
           rho == LiveRate(e)
           c   == x.energy
           D   == Off(e, a)
           k   == (q - a) - 1
<1>0. /\ e \in Engine /\ t \in Nat /\ e.lastTick \in Nat /\ e.lastTick <= t /\ MaxStep \in Nat \ {0}
      /\ x \in Engine /\ a \in Nat /\ c \in 0..MaxEnergy /\ MaxEnergy \in Nat
  BY EngineTimes, WindowBounds, ConstantsAreNatural DEF Ready, OnTheWay
<1>1. /\ At(e, x) /\ e.lastTick <= a /\ (a = e.lastTick \/ t < a)
      /\ c - en[a] \in (-D)..D
  BY DEF OnTheWay, At
<1>2. q \in Nat /\ a < q /\ q <= T /\ q - a <= MaxStep /\ t < q
  BY <1>0, <1>1 DEF StepEnd, Least
<1> HIDE DEF a, q
<1>3. /\ At(e, y) /\ y.lastTick = q
      /\ y.energy = Least(MaxEnergy, c + Rate(Asleep(e, q), q) * (q - a))
  BY <1>0, <1>1, <1>2, AtStep DEF a
<1>4. y.energy = Least(MaxEnergy, c + rho[q] * (q - a))
  BY <1>2, <1>3, RateRange
<1> HIDE DEF y
<1>5. u \in Nat /\ a < u /\ u <= q /\ ((a = e.lastTick /\ u = t + 1) \/ (t < a /\ u = a + 1))
  BY <1>0, <1>1, <1>2
<1> HIDE DEF u
<1>6. Fine(MaxEnergy, Recovery, en, rho, a, u, q)
  BY <1>0, <1>2, <1>5, RunFine
<1>7. D \in Nat /\ Off(e, q) \in Nat
  BY <1>0, <1>2, OffType
<1> DEFINE far == Least(MaxEnergy, c + rho[q] * (q - a)) - en[q]
<1>8. /\ (\A v \in u..q : rho[v] = rho[q]) => far \in (-D)..D
      /\ far \in (-(D + Recovery * k))..(D + Recovery * k)
  <2> HIDE DEF en, rho, c, D
  <2> QED
    BY <1>0, <1>1, <1>6, <1>7, Coarse
<1>9. Recovery * k \in Nat /\ Recovery * k <= Slip
  <2>1. k \in Nat /\ k <= MaxStep - 1 /\ MaxStep - 1 \in Nat
    BY <1>0, <1>2
  <2>2. \A i \in Nat, j \in Nat, s \in Nat : i <= j => s * i \in Nat /\ s * i <= s * j
    OBVIOUS
  <2> HIDE DEF k
  <2> QED
    BY <2>1, <2>2, SlipType
<1>10. y.energy - en[q] = far
  BY <1>4
<1>11. en[q] \in 0..MaxEnergy
  BY <1>0, <1>2, <1>5, <1>6, FineBounds
<1>12. far \in Int
  BY <1>8, <1>7, <1>9
<1> HIDE DEF far, k
<1>13. far \in (-Off(e, q))..Off(e, q)
  <2>1. D <= Off(e, q)
    BY <1>0, <1>2, OffGrows
  <2>2. CASE \A v \in u..q : rho[v] = rho[q]
    <3>1. far \in (-D)..D
      BY <1>8, <2>2
    <3> HIDE DEF D
    <3> QED
      BY <1>7, <1>12, <2>1, <3>1
  <2>3. CASE ~ (\A v \in u..q : rho[v] = rho[q])
    <3>1. \A v \in u..q : v \in Nat /\ rho[v] = Rate(Asleep(e, v), v)
      BY <1>5, RateRange
    <3>2. q \in u..q
      BY <1>2, <1>5
    <3>3. ~ (\A v \in u..q : Rate(Asleep(e, v), v) = Rate(Asleep(e, q), q))
      BY <2>3, <3>1, <3>2
    <3>4. Cardinality(Swings(e, a)) + 1 <= Cardinality(Swings(e, q))
      BY <1>0, <1>1, <1>2, <1>5, <3>3, RateSwings
    <3>5. D + Slip <= Off(e, q)
      BY <1>0, <1>2, <3>4, OffGrows
    <3>6. D + Recovery * k <= Off(e, q) /\ D + Recovery * k \in Nat
      <4> HIDE DEF D
      <4> QED
        BY <1>7, <1>9, <3>5, SlipType
    <3>7. far \in (-(D + Recovery * k))..(D + Recovery * k)
      BY <1>8
    <3> DEFINE m == D + Recovery * k
    <3> HIDE DEF m
    <3>8. m \in Nat /\ m <= Off(e, q) /\ far \in (-m)..m
      BY <3>6, <3>7 DEF m
    <3> QED
      BY <1>7, <1>12, <3>8
  <2> QED
    BY <2>2, <2>3
<1>14. y \in Engine
  BY <1>3 DEF At
<1>15. y \in OnTheWay(e, t, T)
  BY <1>2, <1>3, <1>10, <1>13, <1>14 DEF OnTheWay
<1> QED
  BY <1>15 DEF y, q

\* Two engines after the same time.
Agree(x, y, n) ==
  /\ x.activity = y.activity /\ x.debt = y.debt
  /\ y.energy - x.energy \in (-(Slip * (1 + n)))..(Slip * (1 + n))

LEMMA CatchNear ==
  ASSUME LongWindows, NEW e, NEW t, Ready(e, t), t < e.lastTick + MaxStep, NEW d \in Nat \ {0},
         NEW f \in Engine, Looks(f, e.activity, e.energy, e.debt, e.lastInteraction, e.lastTick)
  PROVE  Agree(Ticked(e, t, d), Tick(f, t + d), Cardinality(Edges(e.lastTick, t + d)))
<1> DEFINE T == t + d
           W == OnTheWay(e, t, T)
           x == Ticked(e, t, d)
           y == Tick(f, T)
           n == Cardinality(Edges(e.lastTick, T))
<1>0. /\ e \in Engine /\ t \in Nat /\ e.lastTick \in Nat /\ e.lastTick <= t /\ e.energy \in 0..MaxEnergy
      /\ T \in Nat /\ t < T /\ d \in Nat
  BY EngineTimes DEF Ready
<1>1. At(e, f) /\ f.lastTick = e.lastTick /\ f.energy = e.energy
  BY AtStarts DEF Looks
<1>2. f \in W
  <2>1. LiveEnergy(e, t)[e.lastTick] = e.energy
    BY <1>0 DEF LiveEnergy
  <2>2. e.energy - e.energy = 0
    BY <1>0
  <2>3. Off(e, e.lastTick) \in Nat
    BY <1>0, OffType
  <2>4. 0 \in (-Off(e, e.lastTick))..Off(e, e.lastTick)
    BY <2>3
  <2> QED
    BY <1>0, <1>1, <2>1, <2>2, <2>4 DEF OnTheWay
<1>3. W \subseteq Engine
  BY DEF OnTheWay
<1>4. \A z \in W : z.lastTick < T => Step(z, StepEnd(z, T), T) \in W
  BY <1>0, BackStep
<1>5. f.lastTick < T
  BY <1>0, <1>1
<1>6. y \in W /\ y.lastTick = T
  <2> HIDE DEF W, T
  <2> QED
    BY <1>0, <1>2, <1>3, <1>4, <1>5, TickInduction
<1>7. At(e, x) /\ x.lastTick = T
  <2>1. d - 1 \in Nat /\ (d - 1) + 1 = d
    OBVIOUS
  <2> QED
    BY <2>1, LiveRun
<1>8. LiveEnergy(e, t)[T] = x.energy
  <2>1. ~ (T <= t) /\ T - t = d
    BY <1>0
  <2> HIDE DEF x
  <2>2. LiveEnergy(e, t)[T] = Ticked(e, t, T - t).energy
    BY <1>0, <2>1 DEF LiveEnergy
  <2> QED
    BY <2>1, <2>2 DEF x
<1> HIDE DEF x, y, T
<1>9. At(e, y) /\ y.energy - x.energy \in (-Off(e, T))..Off(e, T)
  BY <1>6, <1>8 DEF OnTheWay
<1>10. x.activity = y.activity /\ x.debt = y.debt
  BY <1>6, <1>7, <1>9 DEF At, Resting
<1>11. y.energy - x.energy \in (-(Slip * (1 + n)))..(Slip * (1 + n))
  <2>1. x \in Engine /\ y \in Engine
    BY <1>7, <1>9 DEF At
  <2>2. x.energy \in Int /\ y.energy \in Int
    BY <2>1, EngineTimes
  <2>3. n \in Nat /\ Cardinality(Swings(e, T)) \in Nat /\ Cardinality(Swings(e, T)) <= n + 1
    BY <1>0, EdgesFinite, SwingsFinite, SwingsAreEdges
  <2> HIDE DEF n
  <2>4. \A i \in Nat, j \in Nat, s \in Nat : i <= j => s * i \in Nat /\ s * i <= s * j /\ s * j \in Nat
    OBVIOUS
  <2>5. Off(e, T) <= Slip * (1 + n) /\ Off(e, T) \in Nat /\ Slip * (1 + n) \in Nat
    BY <2>3, <2>4, SlipType DEF Off
  <2> DEFINE far == y.energy - x.energy
             m == Slip * (1 + n)
  <2>6. far \in Int /\ m \in Nat /\ Off(e, T) <= m /\ far \in (-Off(e, T))..Off(e, T)
    BY <1>9, <2>2, <2>5
  <2> HIDE DEF far, m
  <2>7. far \in (-m)..m
    BY <2>5, <2>6
  <2> QED
    BY <2>7 DEF far, m
<1>12. Agree(x, y, n)
  BY <1>10, <1>11 DEF Agree
<1> QED
  BY <1>12 DEF x, y, n, T

\* A step leaves what fits to its time.
LEMMA StepCoherent ==
  ASSUME NEW e \in Engine, NEW q \in Nat, NEW clock \in Nat, NEW t, e.lastTick <= q,
         e.activity = "sleeping" => e.lastInteraction <= e.lastTick
  PROVE  Coherent(Step(e, q, clock), t)
<1> DEFINE y == Step(e, q, clock)
<1>0. e.lastTick \in Nat /\ e.lastInteraction \in Nat
  BY EngineTimes
<1>1. /\ y.lastTick = q
      /\ y.debt = IF Clear(q) THEN 0 ELSE e.debt
      /\ y.activity = "sleeping" <=> SleepsAt(e, q)
      /\ y.activity = "sleeping" => y.lastInteraction = e.lastInteraction
  BY StepLooks
<1> HIDE DEF y
<1>2. SleepsAt(e, q) => Night(q) /\ e.lastInteraction <= q
  BY <1>0, WindowBounds DEF SleepsAt, FallsAsleep
<1>3. Coherent(y, t)
  BY <1>1, <1>2 DEF Coherent
<1> QED
  BY <1>3 DEF y

\* Two engines that look alike do so after a step.
LEMMA StepAlike ==
  ASSUME NEW e \in Engine, e.activity \in Resting, NEW q \in Nat, e.lastTick <= q, NEW c \in Nat, NEW d \in Nat,
         NEW f \in Engine, Looks(f, e.activity, e.energy, e.debt, e.lastInteraction, e.lastTick)
  PROVE  LET x == Step(e, q, c)
             y == Step(f, q, d)
         IN  Looks(y, x.activity, x.energy, x.debt, x.lastInteraction, x.lastTick)
<1> DEFINE x == Step(e, q, c)
           y == Step(f, q, d)
<1>0. /\ f.activity = e.activity /\ f.energy = e.energy /\ f.debt = e.debt
      /\ f.lastInteraction = e.lastInteraction /\ f.lastTick = e.lastTick
  BY DEF Looks
<1>1. /\ x \in Engine /\ x.lastTick = q /\ x.activity \in Resting
      /\ x.debt = IF Clear(q) THEN 0 ELSE e.debt
      /\ x.activity = "sleeping" <=> SleepsAt(e, q)
      /\ x.lastInteraction = IF ~Night(q) /\ (e.activity = "sleeping" \/ FallsAsleep(e, q))
                             THEN q ELSE e.lastInteraction
      /\ x.energy = Least(MaxEnergy, e.energy + Rate(SleepsAt(e, q), q) * (q - e.lastTick))
  BY StepLooks
<1>2. /\ y \in Engine /\ y.lastTick = q /\ y.activity \in Resting
      /\ y.debt = IF Clear(q) THEN 0 ELSE f.debt
      /\ y.activity = "sleeping" <=> SleepsAt(f, q)
      /\ y.lastInteraction = IF ~Night(q) /\ (f.activity = "sleeping" \/ FallsAsleep(f, q))
                             THEN q ELSE f.lastInteraction
      /\ y.energy = Least(MaxEnergy, f.energy + Rate(SleepsAt(f, q), q) * (q - f.lastTick))
  BY <1>0, StepLooks
<1>3. FallsAsleep(f, q) <=> FallsAsleep(e, q)
  BY <1>0 DEF FallsAsleep
<1>4. SleepsAt(f, q) <=> SleepsAt(e, q)
  BY <1>0, <1>3 DEF SleepsAt
<1>5. Rate(SleepsAt(f, q), q) = Rate(SleepsAt(e, q), q)
  BY <1>4 DEF Rate
<1> HIDE DEF x, y
<1>6. y.activity = x.activity
  BY <1>1, <1>2, <1>4 DEF Resting
<1>7. y.energy = x.energy
  BY <1>0, <1>1, <1>2, <1>5
<1>8. y.debt = x.debt /\ y.lastInteraction = x.lastInteraction /\ y.lastTick = x.lastTick
  BY <1>0, <1>1, <1>2, <1>3
<1>9. Looks(y, x.activity, x.energy, x.debt, x.lastInteraction, x.lastTick)
  BY <1>2, <1>6, <1>7, <1>8 DEF Looks
<1> QED
  BY <1>9 DEF x, y

LEMMA TickedMore ==
  ASSUME NEW e, NEW t, NEW n \in Nat
  PROVE  Ticked(e, t, n + 1) = Tick(Ticked(e, t, n), t + (n + 1))
BY TickedNext

\* The run depends on its first tick only.
LEMMA TickedFrom ==
  ASSUME NEW e, NEW f, NEW t, Tick(e, t + 1) = Tick(f, t + 1), NEW d \in Nat \ {0}
  PROVE  Ticked(e, t, d) = Ticked(f, t, d)
<1> DEFINE Good == {n \in Nat : Ticked(e, t, n + 1) = Ticked(f, t, n + 1)}
<1>1. 0 \in Good
  <2> DEFINE n == 0
  <2>1. n \in Nat /\ n + 1 = 1 /\ n = 0
    OBVIOUS
  <2> HIDE DEF n
  <2>2. Ticked(e, t, n + 1) = Ticked(f, t, n + 1)
    BY <2>1, TickedNext
  <2> QED
    BY <2>1, <2>2
<1>2. ASSUME NEW n \in Good PROVE n + 1 \in Good
  <2> DEFINE m == n + 1
  <2>1. m \in Nat /\ Ticked(e, t, m) = Ticked(f, t, m)
    OBVIOUS
  <2> HIDE DEF m
  <2>2. /\ Ticked(e, t, m + 1) = Tick(Ticked(e, t, m), t + (m + 1))
        /\ Ticked(f, t, m + 1) = Tick(Ticked(f, t, m), t + (m + 1))
    BY <2>1, TickedMore
  <2>3. Ticked(e, t, m + 1) = Ticked(f, t, m + 1)
    BY <2>1, <2>2
  <2> QED
    BY <2>1, <2>3 DEF m
<1>3. Good \in SUBSET Nat
  OBVIOUS
<1>4. d - 1 \in Nat /\ (d - 1) + 1 = d
  OBVIOUS
<1>5. d - 1 \in Good
  <2> HIDE DEF Good
  <2> QED
    BY <1>1, <1>2, <1>3, <1>4, Induction
<1> QED
  BY <1>4, <1>5

LEMMA AgreeMore ==
  ASSUME NEW x \in Engine, NEW y \in Engine, NEW m \in Nat, NEW n \in Nat, m <= n, Agree(x, y, m)
  PROVE  Agree(x, y, n)
<1>1. x.energy \in Int /\ y.energy \in Int
  BY EngineTimes
<1>2. \A i \in Nat, j \in Nat, s \in Nat : i <= j => s * i \in Nat /\ s * i <= s * j /\ s * j \in Nat
  OBVIOUS
<1>3. Slip * (1 + m) \in Nat /\ Slip * (1 + m) <= Slip * (1 + n) /\ Slip * (1 + n) \in Nat
  BY <1>2, SlipType
<1> DEFINE far == y.energy - x.energy
           i   == Slip * (1 + m)
           j   == Slip * (1 + n)
<1>4. far \in Int /\ i \in Nat /\ j \in Nat /\ i <= j /\ far \in (-i)..i
  BY <1>1, <1>3 DEF Agree
<1> HIDE DEF far, i, j
<1>5. far \in (-j)..j
  BY <1>4
<1> QED
  BY <1>5 DEF Agree, far, j

\* The steps of the one that comes back in the time it was not ticked before it
\* went down are those of the other's first tick.
LEMMA CatchFar ==
  ASSUME LongWindows, NEW e, NEW t, Ready(e, t), NEW d \in Nat \ {0},
         NEW f \in Engine, Looks(f, e.activity, e.energy, e.debt, e.lastInteraction, e.lastTick)
  PROVE  Agree(Ticked(e, t, d), Tick(f, t + d), Cardinality(Edges(e.lastTick, t + d)))
<1> DEFINE Alike(x, y) == y \in Engine /\ Looks(y, x.activity, x.energy, x.debt, x.lastInteraction, x.lastTick)
           Caught(x, y) ==
             /\ Ticked(x, t, d) \in Engine /\ Tick(y, t + d) \in Engine
             /\ Agree(Ticked(x, t, d), Tick(y, t + d), Cardinality(Edges(x.lastTick, t + d)))
           Good == {n \in Nat : \A x, y : Ready(x, t) /\ t - x.lastTick <= n /\ Alike(x, y) => Caught(x, y)}
<1>0. t \in Nat /\ MaxStep \in Nat \ {0} /\ d \in Nat /\ t + d \in Nat /\ t + 1 \in Nat
  BY WindowBounds DEF Ready
<1>1. ASSUME NEW x, NEW y, Ready(x, t), Alike(x, y), t < x.lastTick + MaxStep PROVE Caught(x, y)
  <2>1. Agree(Ticked(x, t, d), Tick(y, t + d), Cardinality(Edges(x.lastTick, t + d)))
    BY <1>1, CatchNear
  <2>2. Ticked(x, t, d) \in Engine
    <3>1. d - 1 \in Nat /\ (d - 1) + 1 = d
      OBVIOUS
    <3> QED
      BY <1>1, <3>1, LiveRun DEF At
  <2>3. Tick(y, t + d) \in Engine
    BY <1>0, <1>1, TickCalm DEF Calm
  <2> QED
    BY <2>1, <2>2, <2>3
<1>2. ASSUME NEW x, NEW y, Ready(x, t), Alike(x, y), ~ (t < x.lastTick + MaxStep)
      PROVE  \E v, w : /\ Ready(v, t) /\ Alike(v, w) /\ v.lastTick = x.lastTick + MaxStep
                       /\ Caught(v, w) => Caught(x, y)
  <2> DEFINE s == x.lastTick + MaxStep
             v == Step(x, s, t + 1)
             w == Step(y, s, t + d)
  <2>0. /\ x \in Engine /\ x.lastTick \in Nat /\ x.lastInteraction \in Nat /\ s \in Nat /\ x.lastTick <= s /\ s <= t
        /\ x.activity \in Resting /\ x.lastInteraction <= t /\ y \in Engine /\ y.lastTick = x.lastTick
    BY <1>0, <1>2, EngineTimes DEF Ready, Looks
  <2>1. Tick(x, t + 1) = Tick(v, t + 1)
    <3>1. (t + 1) - x.lastTick > MaxStep
      BY <1>0, <2>0
    <3> QED
      BY <1>0, <2>0, <3>1, TickMore
  <2>2. Tick(y, t + d) = Tick(w, t + d)
    <3>1. (t + d) - y.lastTick > MaxStep
      BY <1>0, <2>0
    <3> QED
      BY <1>0, <2>0, <3>1, TickMore
  <2>3. v \in Engine /\ v.lastTick = s /\ v.activity \in Resting /\ v.lastInteraction \in {x.lastInteraction, s}
    BY <1>0, <2>0, StepLooks
  <2>4. w \in Engine /\ Looks(w, v.activity, v.energy, v.debt, v.lastInteraction, v.lastTick)
    <3>1. Looks(y, x.activity, x.energy, x.debt, x.lastInteraction, x.lastTick)
      BY <1>2
    <3>2. Looks(w, v.activity, v.energy, v.debt, v.lastInteraction, v.lastTick)
      BY <1>0, <2>0, <3>1, StepAlike
    <3> QED
      BY <3>2 DEF Looks
  <2>5. Coherent(v, t)
    BY <1>0, <1>2, <2>0, StepCoherent DEF Ready, Coherent
  <2> HIDE DEF v, w
  <2>6. Ready(v, t)
    BY <1>0, <2>0, <2>3, <2>5 DEF Ready
  <2>7. Ticked(x, t, d) = Ticked(v, t, d)
    BY <2>1, TickedFrom
  <2>8. ASSUME Caught(v, w) PROVE Caught(x, y)
    <3>1. Edges(s, t + d) \in SUBSET Edges(x.lastTick, t + d)
      BY <1>0, <2>0 DEF Edges
    <3>2. /\ Cardinality(Edges(s, t + d)) \in Nat /\ Cardinality(Edges(x.lastTick, t + d)) \in Nat
          /\ IsFiniteSet(Edges(x.lastTick, t + d))
      BY <1>0, <2>0, EdgesFinite
    <3>3. Cardinality(Edges(s, t + d)) <= Cardinality(Edges(x.lastTick, t + d))
      BY <3>1, <3>2, FS_Subset
    <3> QED
      BY <2>2, <2>3, <2>7, <2>8, <3>2, <3>3, AgreeMore
  <2> HIDE DEF Caught, Alike
  <2>9. Alike(v, w)
    BY <2>4 DEF Alike
  <2> QED
    BY <2>3, <2>6, <2>8, <2>9
<1> HIDE DEF Alike, Caught
<1>3. 0 \in Good
  <2> SUFFICES ASSUME NEW x, NEW y, Ready(x, t), t - x.lastTick <= 0, Alike(x, y) PROVE Caught(x, y)
    OBVIOUS
  <2>1. x.lastTick \in Nat
    BY EngineTimes DEF Ready
  <2>2. t < x.lastTick + MaxStep
    BY <1>0, <2>1
  <2> QED
    BY <1>1, <2>2
<1>4. ASSUME NEW n \in Good PROVE n + 1 \in Good
  <2> SUFFICES ASSUME NEW x, NEW y, Ready(x, t), t - x.lastTick <= n + 1, Alike(x, y) PROVE Caught(x, y)
    OBVIOUS
  <2>1. x.lastTick \in Nat /\ n \in Nat
    BY EngineTimes DEF Ready
  <2>2. CASE t < x.lastTick + MaxStep
    BY <1>1, <2>2
  <2>3. CASE ~ (t < x.lastTick + MaxStep)
    <3>1. PICK v, w : /\ Ready(v, t) /\ Alike(v, w) /\ v.lastTick = x.lastTick + MaxStep
                      /\ Caught(v, w) => Caught(x, y)
      BY <1>2, <2>3
    <3>2. t - v.lastTick <= n
      BY <1>0, <2>1, <3>1
    <3> QED
      BY <3>1, <3>2
  <2> QED
    BY <2>2, <2>3
<1>5. Good \in SUBSET Nat
  OBVIOUS
<1>6. t - e.lastTick \in Nat
  BY EngineTimes DEF Ready
<1>7. t - e.lastTick \in Good
  <2> HIDE DEF Good
  <2> QED
    BY <1>3, <1>4, <1>5, <1>6, Induction
<1>8. Alike(e, f)
  BY DEF Alike
<1>9. Caught(e, f)
  BY <1>6, <1>7, <1>8
<1> QED
  BY <1>9 DEF Caught

-----------------------------------------------------------------------------
(* What an input leaves of what fits to the time. *)

Follows(y, e, t) ==
  /\ y.lastTick = e.lastTick /\ y.lastInteraction \in {e.lastInteraction, t}
  /\ y.activity = "sleeping" => e.activity = "sleeping" /\ y.lastInteraction = e.lastInteraction
  /\ y.debt = e.debt \/ Night(t)

LEMMA TouchFollows ==
  ASSUME NEW e \in Engine, NEW t \in Nat
  PROVE  Follows(Touch(e, t), e, t)
BY DEF Touch, Listen, Follows, Engine

LEMMA ThinkingFollows ==
  ASSUME NEW e \in Engine, NEW t \in Nat
  PROVE  Follows(AssistantThinking(e, t), e, t)
BY DEF AssistantThinking, Now, Follows, Engine

LEMMA ToolStartedFollows ==
  ASSUME NEW e \in Engine, NEW t \in Nat
  PROVE  Follows(ToolStarted(e), e, t)
BY DEF ToolStarted, Now, Follows, Engine

LEMMA ToolFinishedFollows ==
  ASSUME NEW e \in Engine, NEW t \in Nat
  PROVE  Follows(ToolFinished(e), e, t)
BY DEF ToolFinished, Now, Follows, Engine

LEMMA ReactFollows ==
  ASSUME NEW e \in Engine, NEW t \in Nat, NEW mood, NEW attention
  PROVE  Follows(React(e, t, mood, attention), e, t)
BY DEF React, Follows, Engine

LEMMA ToolFailedFollows ==
  ASSUME NEW e \in Engine, NEW t \in Nat
  PROVE  Follows(ToolFailed(e, t), e, t)
<1> DEFINE x == ToolFinished(e)
<1>1. x \in Engine /\ Follows(x, e, t)
  BY ToolFinishedEngine, ToolFinishedFollows
<1> HIDE DEF x
<1>2. Follows(React(x, t, "confused", None), x, t)
  BY <1>1, ReactFollows
<1>3. Follows(React(x, t, "confused", None), e, t)
  BY <1>1, <1>2 DEF Follows
<1> QED
  BY <1>3 DEF ToolFailed, x

LEMMA SpeakingFollows ==
  ASSUME NEW e \in Engine, NEW t \in Nat
  PROVE  Follows(AssistantSpeaking(e, t), e, t)
BY DEF AssistantSpeaking, Now, Follows, Engine

LEMMA DoneFollows ==
  ASSUME NEW e \in Engine, NEW t \in Nat
  PROVE  Follows(AssistantDone(e, t), e, t)
BY DEF AssistantDone, Now, Follows, Engine

LEMMA SpeechFollows ==
  ASSUME NEW e \in Engine, NEW t \in Nat
  PROVE  Follows(SpeechStarted(e), e, t) /\ Follows(SpeechFinished(e, t), e, t)
BY DEF SpeechStarted, SpeechFinished, Now, Follows, Engine

LEMMA DeviceFollows ==
  ASSUME NEW e \in Engine, NEW t \in Nat
  PROVE  Follows(DeviceActionCompleted(e, t), e, t) /\ Follows(DeviceOffline(e, t), e, t)
<1>1. \A mood, attention : Follows(React(e, t, mood, attention), e, t)
  BY ReactFollows
<1>2. Follows(e, e, t)
  BY DEF Follows
<1> QED
  BY <1>1, <1>2 DEF DeviceActionCompleted, DeviceOffline

LEMMA HandleFollows ==
  ASSUME NEW e \in Engine, NEW t \in Nat, NEW event \in Events
  PROVE  Follows(Handle(event, e, t), e, t)
<1>1. CASE event \in {"character.touch", "hermes.thinking", "hermes.speaking", "hermes.done"}
  BY <1>1, TouchFollows, ThinkingFollows, SpeakingFollows, DoneFollows DEF Handle
<1>2. CASE event \in {"hermes.tool.started", "hermes.tool.completed", "hermes.tool.failed"}
  BY <1>2, ToolStartedFollows, ToolFinishedFollows, ToolFailedFollows DEF Handle
<1>3. CASE event \in {"device.action.completed", "device.offline"}
  BY <1>3, DeviceFollows DEF Handle
<1>4. CASE event \in States
  BY <1>4, SpeechFollows DEF Handle, States
<1> QED
  BY <1>1, <1>2, <1>3, <1>4 DEF Events, States

-----------------------------------------------------------------------------
(* What fits to the time goes on to fit to it. *)

Fits(e, t) == e.lastTick <= t /\ e.lastInteraction <= t /\ Coherent(e, t)

DayInv == TypeInv /\ Fits(eng, now)

\* What a step may do to the engine and the clock.
LEMMA EngineSteps ==
  ASSUME TypeInv, [Next]_vars
  PROVE  \/ UNCHANGED eng /\ now' \in {now, now + 1}
         \/ UNCHANGED now /\ \E event \in Events : Hear(event)
         \/ HostTick
         \/ Restart
<1>1. CASE Turn
  <2>1. CASE Asks \/ Accepts \/ Raise
    BY <2>1 DEF Asks, Accepts, Raise, day
  <2>2. CASE Think \/ UseTool
    BY <2>2 DEF Think, UseTool, TurnAction, day, Events
  <2>3. CASE ToolDone
    BY <2>3 DEF ToolDone, TurnAction, day, Events
  <2>4. CASE Write
    BY <2>4 DEF Write, day, Events
  <2>5. CASE Complete
    BY <2>5 DEF Complete, day, Events
  <2>6. CASE Close \/ Fail
    BY <2>6 DEF Close, Fail, Finish, day, Events
  <2> QED
    BY <1>1, <2>1, <2>2, <2>3, <2>4, <2>5, <2>6 DEF Turn
<1>2. CASE (\E r \in scenario.requests : RequestApproval(r) \/ Decide(r) \/ Expire(r)) \/ UNCHANGED vars
  BY <1>2 DEF RequestApproval, Decide, Expire, vars, day
<1>3. CASE \E p \in scenario.episodes : PlayStarts(p) \/ PlayEnds(p)
  BY <1>3 DEF PlayStarts, PlayEnds, day
<1>4. CASE ReportArrives
  <2>1. PICK r \in reports : Hear(r.state)
    BY <1>4 DEF ReportArrives
  <2>2. r.state \in Events
    BY DEF TypeInv, PlaybackTypeOK, Events
  <2>3. UNCHANGED now
    BY <1>4 DEF ReportArrives, day
  <2> QED
    BY <2>1, <2>2, <2>3
<1>5. CASE ReportLost
  BY <1>5 DEF ReportLost, day
<1>6. CASE TouchIt
  BY <1>6 DEF TouchIt, Events
<1>7. CASE DeviceEvent
  BY <1>7 DEF DeviceEvent, day, Events
<1>8. CASE Advance
  BY <1>8 DEF Advance
<1> QED
  BY <1>1, <1>2, <1>3, <1>4, <1>5, <1>6, <1>7, <1>8 DEF Next

LEMMA FitsLater ==
  ASSUME NEW e \in Engine, NEW t \in Nat, NEW u \in Nat, t <= u, Fits(e, t)
  PROVE  Fits(e, u)
<1>1. e.lastTick \in Nat /\ e.lastInteraction \in Nat
  BY EngineTimes
<1>2. e.lastTick..t \subseteq e.lastTick..u
  BY <1>1
<1> QED
  BY <1>1, <1>2 DEF Fits, Coherent

LEMMA HearFits ==
  ASSUME NEW e \in Engine, NEW t \in Nat, NEW event \in Events, Fits(e, t)
  PROVE  Fits(Handle(event, e, t), t)
<1> DEFINE y == Handle(event, e, t)
<1>1. Follows(y, e, t)
  BY HandleFollows
<1> HIDE DEF y
<1>2. e.lastTick \in Nat /\ e.lastInteraction \in Nat /\ e.lastTick <= t /\ e.lastInteraction <= t /\ Coherent(e, t)
  BY EngineTimes DEF Fits
<1>3. y.lastTick <= t /\ y.lastInteraction <= t
  BY <1>1, <1>2 DEF Follows
<1>4. y.activity = "sleeping" => Night(y.lastTick) /\ y.lastInteraction <= y.lastTick
  BY <1>1, <1>2 DEF Follows, Coherent
<1>5. ASSUME y.debt > 0, Clear(y.lastTick) PROVE \E u \in y.lastTick..t : Night(u)
  <2>1. CASE Night(t)
    <3>1. t \in y.lastTick..t
      BY <1>1, <1>2 DEF Follows
    <3> QED
      BY <2>1, <3>1
  <2>2. CASE ~Night(t)
    BY <1>1, <1>2, <1>5, <2>2 DEF Follows, Coherent
  <2> QED
    BY <2>1, <2>2
<1>6. Fits(y, t)
  BY <1>3, <1>4, <1>5 DEF Fits, Coherent
<1> QED
  BY <1>6 DEF y

LEMMA TickFits ==
  ASSUME NEW e \in Engine, NEW t \in Nat, Fits(e, t), e.lastTick < t
  PROVE  Fits(Tick(e, t), t)
<1> DEFINE A == {x \in Engine : Fits(x, t)}
<1>1. A \subseteq Engine /\ e \in A
  OBVIOUS
<1>2. ASSUME NEW x \in A, x.lastTick < t PROVE Step(x, StepEnd(x, t), t) \in A
  <2> DEFINE q == StepEnd(x, t)
             y == Step(x, q, t)
  <2>0. x \in Engine /\ x.lastTick \in Nat /\ x.lastInteraction \in Nat /\ x.lastInteraction <= t /\ Coherent(x, t)
    BY EngineTimes DEF Fits
  <2>1. q \in Nat /\ x.lastTick <= q /\ q <= t
    BY <1>2, <2>0, WindowBounds DEF StepEnd, Least
  <2> HIDE DEF q
  <2>2. y \in Engine /\ y.lastTick = q /\ y.lastInteraction \in {x.lastInteraction, q}
    BY <2>0, <2>1, StepLooks
  <2>3. Coherent(y, t)
    BY <2>0, <2>1, StepCoherent DEF Coherent
  <2> HIDE DEF y
  <2>4. Fits(y, t)
    BY <2>0, <2>1, <2>2, <2>3 DEF Fits
  <2> QED
    BY <2>2, <2>4 DEF y, q
<1> HIDE DEF A
<1>3. Tick(e, t) \in A
  BY <1>1, <1>2, TickInduction
<1> QED
  BY <1>3 DEF A

\* What is kept over a restart.
LEMMA RestoredLooks ==
  ASSUME NEW e \in Engine, NEW t \in Nat, e.lastTick <= t, e.lastInteraction <= t
  PROVE  Looks(RestoreState(ExportState(e), t), IF e.activity = "sleeping" THEN "sleeping" ELSE "idle",
               e.energy, e.debt, e.lastInteraction, e.lastTick)
<1> DEFINE ac == IF e.activity = "sleeping" THEN "sleeping" ELSE "idle"
           s  == ExportState(e)
           f  == Fresh(t)
<1>1. /\ s.energy = e.energy /\ s.debt = e.debt /\ s.asleep = (e.activity = "sleeping")
      /\ s.lastInteraction = e.lastInteraction /\ s.lastTick = e.lastTick
  BY DEF ExportState
<1>2. s \in Saved
  BY ExportSaved
<1>3. RestoreState(s, t) \in Engine
  BY <1>2, RestoreEngine
<1>4. Least(MaxEnergy, Greatest(0, e.energy)) = e.energy /\ Greatest(0, e.debt) = e.debt
  BY EngineTimes, ConstantsAreNatural DEF Least, Greatest
<1> HIDE DEF s
<1>5. RestoreState(s, t) =
        [f EXCEPT !.energy = e.energy, !.debt = e.debt, !.activity = ac,
                  !.lastInteraction = e.lastInteraction, !.lastTick = e.lastTick]
  BY <1>1, <1>4 DEF RestoreState
<1>6. f \in Engine
  BY FreshEngine
<1> HIDE DEF f, ac
<1>7. /\ RestoreState(s, t).activity = ac /\ RestoreState(s, t).energy = e.energy /\ RestoreState(s, t).debt = e.debt
      /\ RestoreState(s, t).lastInteraction = e.lastInteraction /\ RestoreState(s, t).lastTick = e.lastTick
  BY <1>5, <1>6 DEF Engine
<1> QED
  BY <1>3, <1>7 DEF Looks, s, ac

LEMMA RestartFits ==
  ASSUME NEW e \in Engine, NEW t \in Nat, NEW u \in Nat, t <= u, Fits(e, t)
  PROVE  Fits(RestoreState(ExportState(e), u), u)
<1> DEFINE y == RestoreState(ExportState(e), u)
<1>1. Fits(e, u)
  BY FitsLater
<1>2. Looks(y, IF e.activity = "sleeping" THEN "sleeping" ELSE "idle", e.energy, e.debt, e.lastInteraction, e.lastTick)
  BY <1>1, RestoredLooks DEF Fits
<1> HIDE DEF y
<1>3. Fits(y, u)
  BY <1>1, <1>2 DEF Looks, Fits, Coherent
<1> QED
  BY <1>3 DEF y

LEMMA DayInit ==
  ASSUME WrittenRows PROVE Init => DayInv
<1> SUFFICES ASSUME Init PROVE Fits(eng, now)
  BY TypeInit DEF DayInv
<1>0. scenario \in Scenarios /\ now = scenario.start /\ now \in Nat
  BY ScenarioType DEF Init
<1>1. CASE scenario.saved = None
  <2>1. eng = Fresh(now)
    BY <1>1 DEF Init
  <2>2. eng.activity = "idle" /\ eng.debt = 0 /\ eng.lastTick = now /\ eng.lastInteraction = now
    BY <2>1 DEF Fresh
  <2> QED
    BY <1>0, <2>2 DEF Fits, Coherent
<1>2. CASE scenario.saved # None
  <2> DEFINE s  == scenario.saved
             li == IF s.lastInteraction <= now THEN s.lastInteraction ELSE now
             lt == IF s.lastTick <= now THEN s.lastTick ELSE now
  <2>1. s \in Saved
    BY <1>0, <1>2, ScenarioType
  <2>2. eng = RestoreState(s, now)
    BY <1>2 DEF Init
  <2>3. eng.lastInteraction = li /\ eng.lastTick = lt
    <3>1. Fresh(now) \in Engine
      BY <1>0, FreshEngine
    <3> HIDE DEF s
    <3> QED
      BY <2>2, <3>1 DEF RestoreState, Engine
  <2>4. li <= now /\ lt <= now
    BY <1>0, <2>1 DEF Saved
  <2>5. Coherent(eng, now)
    BY <1>0, <1>2, <2>2 DEF WrittenRows
  <2> QED
    BY <2>3, <2>4, <2>5 DEF Fits
<1> QED
  BY <1>1, <1>2

LEMMA DayStep == DayInv /\ [Next]_vars => DayInv'
<1> SUFFICES ASSUME DayInv, [Next]_vars PROVE Fits(eng, now)'
  BY TypeStep DEF DayInv
<1>0. TypeInv /\ eng \in Engine /\ now \in Nat /\ Fits(eng, now)
  BY DEF DayInv, TypeInv, WorldTypeOK
<1>1. CASE UNCHANGED eng /\ now' \in {now, now + 1}
  <2>1. now' \in Nat /\ now <= now'
    BY <1>0, <1>1
  <2>2. Fits(eng, now')
    BY <1>0, <2>1, FitsLater
  <2> QED
    BY <1>1, <2>2 DEF Fits, Coherent
<1>2. CASE UNCHANGED now /\ \E event \in Events : Hear(event)
  <2>1. Fits(eng', now)
    BY <1>0, <1>2, HearFits DEF Hear
  <2> QED
    BY <1>2, <2>1 DEF Fits, Coherent
<1>3. CASE HostTick
  <2>1. eng' = Tick(eng, now) /\ eng.lastTick < now /\ now' = now
    <3>1. eng.lastTick \in Nat
      BY <1>0, EngineTimes
    <3> QED
      BY <1>0, <1>3, <3>1 DEF HostTick, day
  <2>2. Fits(eng', now)
    BY <1>0, <2>1, TickFits
  <2> QED
    BY <2>1, <2>2 DEF Fits, Coherent
<1>4. CASE Restart
  <2>1. PICK down \in scenario.downtimes :
          now' = now + down /\ eng' = RestoreState(ExportState(eng), now')
    BY <1>4 DEF Restart
  <2>2. down \in Nat
    BY <1>0, ScenarioType DEF TypeInv, WorldTypeOK
  <2>3. now' \in Nat /\ now <= now'
    BY <1>0, <2>1, <2>2
  <2>4. Fits(eng', now')
    BY <1>0, <2>1, <2>3, RestartFits
  <2> QED
    BY <2>4 DEF Fits, Coherent
<1> QED
  BY <1>0, <1>1, <1>2, <1>3, <1>4, EngineSteps

LEMMA DayCatchesUp ==
  ASSUME LongWindows, DayInv PROVE CatchesUp
<1> SUFFICES ASSUME eng.activity \in {"idle", "sleeping"}, NEW d \in scenario.downtimes \ {0}
             PROVE  LET live == Ticked(eng, now, d)
                        back == Tick(RestoreState(ExportState(eng), now + d), now + d)
                        off  == (MaxStep - 1) * Greatest(SleepRecovery, IdleRecovery)
                                  * (1 + Cardinality(Edges(eng.lastTick, now + d)))
                    IN  /\ live.activity = back.activity
                        /\ live.debt = back.debt
                        /\ back.energy - live.energy \in -off..off
  BY DEF CatchesUp
<1> DEFINE f == RestoreState(ExportState(eng), now + d)
<1>0. eng \in Engine /\ now \in Nat /\ Fits(eng, now) /\ scenario \in Scenarios
  BY DEF DayInv, TypeInv, WorldTypeOK
<1>1. d \in Nat \ {0} /\ now + d \in Nat /\ now <= now + d
  BY <1>0, ScenarioType
<1>2. Ready(eng, now)
  BY <1>0 DEF Ready, Fits, Resting
<1>3. Fits(eng, now + d)
  BY <1>0, <1>1, FitsLater
<1>4. Looks(f, eng.activity, eng.energy, eng.debt, eng.lastInteraction, eng.lastTick)
  <2>1. eng.activity = IF eng.activity = "sleeping" THEN "sleeping" ELSE "idle"
    OBVIOUS
  <2> QED
    BY <1>0, <1>1, <1>3, <2>1, RestoredLooks DEF Fits
<1>5. f \in Engine
  BY <1>4 DEF Looks
<1> HIDE DEF f
<1>6. Agree(Ticked(eng, now, d), Tick(f, now + d), Cardinality(Edges(eng.lastTick, now + d)))
  BY <1>1, <1>2, <1>4, <1>5, CatchFar
<1> QED
  BY <1>6 DEF Agree, Slip, Recovery, f

\* A character that comes back after any downtime is, at its first tick, asleep or
\* awake as one that was ticked all the time and owes the same; its energy differs
\* by less than one step of integration at each nightfall and each morning, and
\* one: in each process, whenever it goes down (restore_state, tick).  The day has
\* the windows of CharacterConfig, and what the first process found had been
\* written by one like it.
THEOREM DowntimeIsCaughtUp ==
  ASSUME LongWindows, WrittenRows
  PROVE  Spec => []CatchesUp
<1>1. Init => DayInv
  BY DayInit
<1>2. DayInv /\ [Next]_vars => DayInv'
  BY DayStep
<1>3. DayInv => CatchesUp
  BY DayCatchesUp
<1> QED
  BY <1>1, <1>2, <1>3, PTL DEF Spec
=============================================================================
