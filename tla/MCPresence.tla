----------------------------- MODULE MCPresence -----------------------------
(* Presence for TLC: the scenarios, and a day of twelve units. *)
EXTENDS Presence

Quiet ==
  [start |-> 12, saved |-> None, clock |-> 0, callers |-> {}, texts |-> {<<>>}, outputs |-> {},
   tools |-> FALSE, faults |-> FALSE, requests |-> {}, episodes |-> {}, touches |-> 0,
   devices |-> FALSE, downtimes |-> {}]

\* Every short text and two longer ones, in every division into deltas.
Words == {Space, Stop, "dr", "w"}
Prose == UNION {[1..n -> Words] : n \in 1..4}
           \cup {<<"dr", Stop, Space, "w", Stop, Space, "w">>, <<"w", Stop, Stop, Space, Space, "w", Stop>>}
Long  == {[Quiet EXCEPT !.callers = {"a"}, !.texts = Prose, !.outputs = {<<"w", Stop>>}]}

\* Two calls with tools and failures; a call with playback, by day and by night.
Turns == {[Quiet EXCEPT !.clock = 1, !.callers = {"a", "b"}, !.texts = {<<>>, <<"w">>},
                        !.tools = TRUE, !.faults = TRUE]}
Plays == {[Quiet EXCEPT !.callers = {"a"}, !.texts = {<<"w">>}, !.faults = TRUE,
                        !.episodes = {"p", "q"}, !.downtimes = {1}],
          [Quiet EXCEPT !.clock = 2, !.callers = {"a"}, !.texts = {<<"w">>}, !.faults = TRUE,
                        !.episodes = {"p"}, !.touches = 1],
          [Quiet EXCEPT !.start = 22, !.clock = 2, !.callers = {"a"}, !.texts = {<<"w">>},
                        !.episodes = {"p"}, !.tools = TRUE, !.touches = 1]}

Gates == {[Quiet EXCEPT !.requests = {"r1", "r2", "r3"}, !.faults = TRUE, !.downtimes = {1}]}

\* A day, with a person who touches it now and then.
Days == {[Quiet EXCEPT !.start = s, !.clock = 13, !.touches = 2, !.devices = (s = 21),
                       !.callers = IF s = 12 THEN {"a"} ELSE {}, !.downtimes = {2, 5}] : s \in {12, 21}}

\* What a process may find when it starts.
Rows == {[Quiet EXCEPT !.start = 12 + s, !.downtimes = {1, 4, 9},
            !.saved = [energy |-> en, debt |-> de, asleep |-> as,
                       lastInteraction |-> 12 + s - i, lastTick |-> 12 + s - 1]] :
          s \in 0..11, en \in {-1, 3, 13}, de \in 0..1, as \in BOOLEAN, i \in 1..3}

\* What the proof about downtimes supposes is so of this day, and of rows of
\* either kind; the other rows are those of a process with other windows.
ASSUME DayAssumption ==
  /\ LongWindows
  /\ \A asleep \in BOOLEAN : \E s \in Rows :
        s.saved.asleep = asleep /\ Coherent(RestoreState(s.saved, s.start), s.start)

MCScenarios == Long \cup Turns \cup Plays \cup Gates \cup Days \cup Rows
=============================================================================
