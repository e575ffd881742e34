----------------------------- MODULE HermesBridge -----------------------------
(***************************************************************************)
(* HermesBridge (hermes_bridge.py): one run of Hermes at a time, its       *)
(* stream of events turned into events on the bus and into sentences.      *)
(*                                                                         *)
(* A text is a sequence of tokens: a run of whitespace, a run of stops     *)
(* (. ! ? ...), or a word.  The actions say which coroutine step is taken; *)
(* the event it emits is named at each of them and composed in Presence.   *)
(***************************************************************************)
EXTENDS Integers, Sequences, SequencesExt, FiniteSetsExt

CONSTANTS
  Callers,          \* requests to POST /api/ask, or spoken ones
  Token,            \* what texts are made of
  Space, Stop,      \* whitespace, a stop
  Abbreviations,    \* words of _ABBREV
  MaxTools          \* bound on the tools a run uses

ASSUME BridgeAssumption == {Space, Stop} \subseteq Token /\ Space # Stop /\ MaxTools \in Nat

VARIABLES
  asks,             \* per caller: idle, waiting (in ask), answered, failed, raised, lost
  line,             \* who holds HermesBridge._lock, then who waits for it, in order
  phase,            \* free, posting (POST /v1/runs), streaming, closing
  script,           \* what Hermes is about to say in this run
  full, buf,        \* _stream: what has arrived, what is not spoken of it
  speaking,         \* _stream: hermes.speaking was emitted
  used, open,       \* tools Hermes has started, and those not completed
  spoken,           \* sentences emitted as hermes.text in this run (history)
  answer            \* AskResult.text of this run (history)

text   == <<script, full, buf, speaking, used, open, spoken, answer>>
bridge == <<asks, line, phase, text>>

-----------------------------------------------------------------------------
(* sentences *)

Last0(S) == Max(S \cup {0})

LStrip(s) == SubSeq(s, 1 + Last0({i \in DOMAIN s : \A j \in 1..i : s[j] = Space}), Len(s))
RStrip(s) == SubSeq(s, 1, Last0({i \in DOMAIN s : s[i] # Space}))
Strip(s)  == RStrip(LStrip(s))

\* The last chunk between spaces of buf[1..i], without the stops at its end.
Word(s, i) ==
  LET from == 1 + Last0({j \in 1..i : s[j] = Space})
  IN  SubSeq(s, from, Last0({j \in from..i : s[j] # Stop}))

Abbreviated(s, i) == \E w \in Abbreviations : Word(s, i) = <<w>>

\* A stop ends a sentence when a space follows; at the end of the buffer the
\* sentence may still be growing.
MutantEnds(s) == {i \in DOMAIN s : s[i] = Stop /\ (i = Len(s) \/ s[i+1] = Space) /\ ~Abbreviated(s, i)}
Ends(s) == {i \in 1..(Len(s) - 1) : s[i] = Stop /\ s[i+1] = Space /\ ~Abbreviated(s, i)}

Done(s) ==
  LET cuts == Ends(s)
      cut[k \in 0..Cardinality(cuts)] == IF k = 0 THEN 0 ELSE Min({i \in cuts : i > cut[k-1]})
  IN  [k \in 1..Cardinality(cuts) |-> Strip(SubSeq(s, cut[k-1] + 1, cut[k]))]

Remainder(s) ==
  IF Ends(s) = {} THEN s ELSE LStrip(SubSeq(s, Max(Ends(s)) + 1, Len(s)))

-----------------------------------------------------------------------------
(* ask *)

TurnInit ==
  /\ asks = [a \in Callers |-> "idle"]
  /\ line = <<>> /\ phase = "free"
  /\ script = <<>> /\ full = <<>> /\ buf = <<>> /\ speaking = FALSE
  /\ used = 0 /\ open = 0 /\ spoken = <<>> /\ answer = <<>>

Ask(a) ==
  /\ asks[a] = "idle"
  /\ asks' = [asks EXCEPT ![a] = "waiting"]
  /\ line' = Append(line, a)
  /\ UNCHANGED <<phase, text>>

\* The lock is taken, in the order it was asked for: hermes.thinking.
Begin ==
  /\ phase = "free" /\ line # <<>>
  /\ phase' = "posting"
  /\ UNCHANGED <<asks, line, text>>

MutantReturns(result) ==
  /\ asks' = [asks EXCEPT ![Head(line)] = result]
  /\ line' = <<>>
  /\ phase' = "free"

\* The call returns and the lock is free.  The last event of a run waits for
\* its handlers first; nobody can tell that from a next run that starts late.
Returns(result) ==
  /\ asks' = [asks EXCEPT ![Head(line)] = result]
  /\ line' = Tail(line)
  /\ phase' = "free"

Accepted(t) ==
  /\ phase = "posting"
  /\ phase' = "streaming"
  /\ script' = t /\ full' = <<>> /\ buf' = <<>> /\ speaking' = FALSE
  /\ used' = 0 /\ open' = 0 /\ spoken' = <<>> /\ answer' = <<>>
  /\ UNCHANGED <<asks, line>>

\* The run is refused, Hermes is unreachable, the run fails or is cancelled,
\* the stream ends without a completion: hermes.done.
Fails ==
  /\ phase \in {"posting", "streaming"}
  /\ Returns("failed")
  /\ UNCHANGED text

\* A reply without a run_id, an event that is not an object: the exception
\* leaves ask, the lock is released, no event tells of it.
Raises ==
  /\ phase \in {"posting", "streaming"}
  /\ Returns("raised")
  /\ UNCHANGED text

-----------------------------------------------------------------------------
(* _stream *)

\* hermes.tool.started
ToolStarts ==
  /\ phase = "streaming" /\ used < MaxTools
  /\ used' = used + 1 /\ open' = open + 1
  /\ UNCHANGED <<asks, line, phase, script, full, buf, speaking, spoken, answer>>

\* hermes.tool.completed or hermes.tool.failed
ToolCompletes ==
  /\ phase = "streaming" /\ open > 0
  /\ open' = open - 1
  /\ UNCHANGED <<asks, line, phase, used, script, full, buf, speaking, spoken, answer>>

\* message.delta, the next n tokens: hermes.speaking at the first, then a
\* hermes.text per sentence.
Delta(n) ==
  LET chunk == SubSeq(script, Len(full) + 1, Len(full) + n) IN
  /\ phase = "streaming" /\ Len(full) + n <= Len(script)
  /\ speaking' = TRUE
  /\ full' = full \o chunk
  /\ spoken' = spoken \o Done(buf \o chunk)
  /\ buf' = Remainder(buf \o chunk)
  /\ UNCHANGED <<asks, line, phase, script, used, open, answer>>

Rest(s) == IF Strip(s) = <<>> THEN <<>> ELSE <<Strip(s)>>

\* run.completed with the output `out`: hermes.speaking when nothing was
\* streamed, the rest of the text, hermes.done.
Completes(out) ==
  LET output == IF out = <<>> THEN full ELSE out
      tail   == IF IsPrefix(full, output) THEN SubSeq(output, Len(full) + 1, Len(output)) ELSE <<>>
  IN
  /\ phase = "streaming"
  /\ answer' = output
  /\ spoken' = spoken \o Done(buf \o tail) \o Rest(Remainder(buf \o tail))
  /\ buf' = <<>>
  /\ IF ~speaking /\ output # <<>>
     THEN phase' = "closing" /\ UNCHANGED <<asks, line>>
     ELSE Returns("answered")
  /\ UNCHANGED <<script, full, speaking, used, open>>

\* ... the hermes.done that follows a late hermes.speaking.
Closes ==
  /\ phase = "closing"
  /\ Returns("answered")
  /\ UNCHANGED text

\* The process ends: every call under way is lost.
TurnLost ==
  /\ asks' = [a \in Callers |-> IF asks[a] = "waiting" THEN "lost" ELSE asks[a]]
  /\ line' = <<>> /\ phase' = "free"
  /\ UNCHANGED text

-----------------------------------------------------------------------------
(* Properties *)

TurnTypeOK ==
  /\ asks \in [Callers -> {"idle", "waiting", "answered", "failed", "raised", "lost"}]
  /\ line \in Seq(Callers)
  /\ phase \in {"free", "posting", "streaming", "closing"}
  /\ {script, full, buf, answer} \subseteq Seq(Token) /\ IsPrefix(full, script)
  /\ speaking \in BOOLEAN
  /\ used \in 0..MaxTools /\ open \in 0..used

\* A text without its spaces.
Written(s) ==
  LET upTo[n \in 0..Len(s)] ==
        CASE n = 0 -> <<>>
          [] n > 0 /\ s[n] = Space -> upTo[n-1]
          [] OTHER -> Append(upTo[n-1], s[n])
  IN  upTo[Len(s)]

\* However Hermes cuts its text into deltas, the sentences spoken so far are
\* those of the whole text up to here, and when a run is answered with what it
\* streamed, or with more of it, everything was spoken once and in order
\* (sentences, and the buffer of _stream).
SpeaksAsWritten ==
  /\ phase = "streaming" =>
       spoken = Done(full) /\ LStrip(buf) = LStrip(Remainder(full))
  /\ answer # <<>> /\ IsPrefix(full, answer) =>
       Written(FlattenSeq(spoken)) = Written(answer)
=============================================================================
