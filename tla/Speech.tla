------------------------------- MODULE Speech -------------------------------
(***************************************************************************)
(* From a sentence of Hermes to sound: VoiceHost (voice/host.py) numbers   *)
(* and synthesizes sentences and announces clips; a dashboard puts them    *)
(* back in order and plays them (voice/speechQueue.ts).  The person may    *)
(* cut it short at any moment (useVoice.ts), Hermes may be talking on.     *)
(*                                                                         *)
(* One dashboard, with its FIFO of events.  The generation of a clip is    *)
(* not on the wire: it is kept here to tell what an interruption was to    *)
(* silence.                                                                *)
(***************************************************************************)
EXTENDS Integers, Sequences, FiniteSets

CONSTANTS
  MaxRun,        \* bound on the runs of Hermes, one after the other
  MaxSentence,   \* bound on the sentences of a run
  MaxInterrupt,  \* bound on interruptions
  MaxDrop,       \* bound on losses of the event socket
  MaxClips,      \* voice_max_clips
  None

ASSUME SpeechAssumption ==
  /\ MaxRun \in Nat \ {0} /\ MaxClips \in Nat \ {0}
  /\ MaxSentence \in Nat /\ MaxInterrupt \in Nat /\ MaxDrop \in Nat

Runs == 1..MaxRun

VARIABLES
  run, said,      \* the run of Hermes and its sentences so far
  jobs,           \* VoiceHost._queue
  seq,            \* VoiceHost._seq
  generation,     \* VoiceHost._generation
  worker, job,    \* where VoiceHost._run is, and what it synthesizes
  idle,           \* VoiceHost._idle
  clips,          \* VoiceHost._clips, oldest first
  feed,           \* events on their way to the dashboard
  stops,          \* POST /api/voice/stop under way
  interrupts, drops,
  pending,        \* SpeechQueue: clips that wait
  nextSeq, order, \* ... the number each run is at, the runs in arrival order
  player, clip,   \* where pump is, and the clip it is at
  started,        \* clips pump has taken up (history)
  silenced        \* the last generation whose stop the dashboard was told of (history)

hermes    == <<run, said>>
host      == <<jobs, seq, generation, worker, job, idle, clips>>
wire      == <<feed, stops, interrupts, drops>>
queue     == <<pending, nextSeq, order>>
playback  == <<player, clip, started>>
dashboard == <<queue, playback, silenced>>
vars      == <<hermes, host, wire, dashboard>>

-----------------------------------------------------------------------------
(* VoiceHost *)

Clip == [run : Runs, seq : 0..(MaxSentence - 1), generation : 0..MaxInterrupt]

\* What travels to the dashboard: voice.speech, and voice.stopped.
Event == [type : {"speech"}, clip : Clip] \cup [type : {"stopped"}, generation : 0..MaxInterrupt]

\* hermes.text: numbered, queued, and the worker started if there is none.
Say ==
  /\ said < MaxSentence
  /\ said' = said + 1
  /\ jobs' = Append(jobs, [run |-> run, seq |-> seq[run], generation |-> generation])
  /\ seq' = [seq EXCEPT ![run] = @ + 1]
  /\ idle' = FALSE
  /\ worker' = IF worker = "none" THEN "starting" ELSE worker
  /\ UNCHANGED <<run, generation, job, clips, wire, dashboard>>

NextRun ==
  /\ run < MaxRun
  /\ run' = run + 1 /\ said' = 0
  /\ UNCHANGED <<host, wire, dashboard>>

Wanted(j) == j.generation = generation

\* The top of the worker's loop: jobs from before an interruption are passed over.
TakeJob ==
  \/ /\ \A i \in 1..Len(jobs) : ~Wanted(jobs[i])
     /\ worker' = "waiting" /\ idle' = TRUE
     /\ job' = None /\ jobs' = <<>>
  \/ \E i \in 1..Len(jobs) :
       /\ Wanted(jobs[i]) /\ \A k \in 1..(i - 1) : ~Wanted(jobs[k])
       /\ worker' = "synthesizing" /\ UNCHANGED idle
       /\ job' = jobs[i] /\ jobs' = SubSeq(jobs, i + 1, Len(jobs))

\* A worker that waits in get() goes on when it finds a job there.
GetJob ==
  /\ worker = "starting" \/ (worker = "waiting" /\ jobs # <<>>)
  /\ TakeJob
  /\ UNCHANGED <<hermes, seq, generation, clips, wire, dashboard>>

MutantStillWanted == TRUE
StillWanted == Wanted(job)

MutantKept(cs) == IF Len(cs) > MaxClips + 1 THEN Tail(cs) ELSE cs
Kept(cs) == IF Len(cs) > MaxClips THEN Tail(cs) ELSE cs

\* A clip is announced unless it was interrupted while it was synthesized.
Synthesize ==
  /\ worker = "synthesizing"
  /\ IF StillWanted
     THEN /\ clips' = Kept(Append(clips, job))
          /\ feed' = Append(feed, [type |-> "speech", clip |-> job])
     ELSE UNCHANGED <<clips, feed>>
  /\ TakeJob
  /\ UNCHANGED <<hermes, seq, generation, stops, interrupts, drops, dashboard>>

MutantAfterFailure == worker' = "none" /\ job' = None /\ UNCHANGED <<jobs, idle>>
AfterFailure == TakeJob

\* voice.error; the worker outlives it.
SynthesisFails ==
  /\ worker = "synthesizing"
  /\ AfterFailure
  /\ UNCHANGED <<hermes, seq, generation, clips, wire, dashboard>>

\* POST /api/voice/stop arrives: voice.interrupt, and from within it
\* voice.stopped.  The dashboard does the same on either; one stands for both.
Interrupt ==
  /\ stops > 0
  /\ stops' = stops - 1
  /\ generation' = generation + 1
  /\ jobs' = <<>>
  /\ seq' = [r \in Runs |-> 0]
  /\ feed' = Append(feed, [type |-> "stopped", generation |-> generation + 1])
  /\ UNCHANGED <<hermes, worker, job, idle, clips, interrupts, drops, dashboard>>

-----------------------------------------------------------------------------
(* SpeechQueue *)

\* The clips that wait, the runs and their numbers, as handle hands them to pump.
Waits == [clips |-> pending, next |-> nextSeq, order |-> order]

MutantDue(w, i) == {c \in w.clips : c.run = w.order[i]}
Due(w, i) == {c \in w.clips : c.run = w.order[i] /\ c.seq = w.next[w.order[i]]}

\* The oldest run that has its next clip; what older runs still have is given up.
Takes(w, c) ==
  \E i \in 1..Len(w.order) :
    /\ c \in Due(w, i)
    /\ \A k \in 1..(i - 1) : Due(w, k) = {}
    /\ order' = SubSeq(w.order, i, Len(w.order))
    /\ pending' = {d \in w.clips \ {c} : \E k \in i..Len(w.order) : w.order[k] = d.run}
    /\ nextSeq' = [w.next EXCEPT ![c.run] = c.seq + 1]

\* No run has its next clip: only the newest may go on waiting, if it has any.
TakesNone(w) ==
  LET newest == w.order[Len(w.order)]
      kept == {c \in w.clips : w.order # <<>> /\ c.run = newest}
  IN /\ \A i \in 1..Len(w.order) : Due(w, i) = {}
     /\ pending' = kept
     /\ order' = IF kept = {} THEN <<>> ELSE <<newest>>
     /\ nextSeq' = w.next

\* pump from takeNext to the next await.
Pump(w) ==
  \/ \E c \in w.clips :
       /\ Takes(w, c)
       /\ player' = "fetching" /\ clip' = c /\ started' = started \cup {c}
  \/ /\ TakesNone(w)
     /\ player' = "quiet" /\ clip' = None /\ UNCHANGED started

Filed(c) ==
  [clips |-> {d \in pending : ~(d.run = c.run /\ d.seq = c.seq)} \cup {c},
   next  |-> nextSeq,
   order |-> IF \E i \in 1..Len(order) : order[i] = c.run THEN order ELSE Append(order, c.run)]

Store(w) ==
  /\ pending' = w.clips /\ nextSeq' = w.next /\ order' = w.order
  /\ UNCHANGED playback

Busy == player # "quiet"

HearSpeech ==
  /\ feed # <<>> /\ Head(feed).type = "speech"
  /\ feed' = Tail(feed)
  /\ IF Busy THEN Store(Filed(Head(feed).clip)) ELSE Pump(Filed(Head(feed).clip))
  /\ UNCHANGED <<hermes, host, stops, interrupts, drops, silenced>>

\* Everything that waits is dropped; audio that plays is paused.  A clip that
\* is still being fetched is no audio yet and is not stopped.
Hush ==
  /\ pending' = {} /\ nextSeq' = [r \in Runs |-> 0] /\ order' = <<>>
  /\ player' = IF player = "playing" THEN "paused" ELSE player
  /\ UNCHANGED <<clip, started>>

HearStopped ==
  /\ feed # <<>> /\ Head(feed).type = "stopped"
  /\ feed' = Tail(feed)
  /\ Hush
  /\ silenced' = Head(feed).generation
  /\ UNCHANGED <<hermes, host, stops, interrupts, drops>>

\* stopSpeaking, or start of a recording: silent at once, and the core is told.
BargeIn ==
  /\ interrupts < MaxInterrupt
  /\ interrupts' = interrupts + 1
  /\ Hush
  /\ \/ stops' = stops + 1
     \/ UNCHANGED stops \* the call fails, and nobody looks at it
  /\ UNCHANGED <<hermes, host, feed, drops, silenced>>

\* The browser's player.
Fetched ==
  /\ player = "fetching" /\ \E i \in 1..Len(clips) : clips[i] = clip
  /\ player' = "playing"
  /\ UNCHANGED <<hermes, host, wire, queue, clip, started, silenced>>

\* The clip has ended, was paused, could not be fetched or not be played.
ClipOver ==
  /\ Busy
  /\ Pump(Waits)
  /\ UNCHANGED <<hermes, host, wire, silenced>>

\* The event socket is lost and what was on its way with it; it is opened anew.
Reconnect ==
  /\ drops < MaxDrop /\ feed # <<>>
  /\ drops' = drops + 1
  /\ feed' = <<>>
  /\ UNCHANGED <<hermes, host, stops, interrupts, dashboard>>

-----------------------------------------------------------------------------
Init ==
  /\ run = 1 /\ said = 0
  /\ jobs = <<>> /\ seq = [r \in Runs |-> 0] /\ generation = 0
  /\ worker = "none" /\ job = None /\ idle = TRUE /\ clips = <<>>
  /\ feed = <<>> /\ stops = 0 /\ interrupts = 0 /\ drops = 0
  /\ pending = {} /\ nextSeq = [r \in Runs |-> 0] /\ order = <<>>
  /\ player = "quiet" /\ clip = None /\ started = {} /\ silenced = 0

Host == GetJob \/ Synthesize \/ SynthesisFails
Hear == HearSpeech \/ HearStopped

Next ==
  \/ Say \/ NextRun
  \/ Host \/ Interrupt
  \/ Hear \/ BargeIn
  \/ Fetched \/ ClipOver
  \/ Reconnect

Spec == Init /\ [][Next]_vars

\* The worker, the socket and the browser go on.
FairSpec == Spec /\ WF_vars(Host) /\ WF_vars(Hear) /\ WF_vars(ClipOver)

-----------------------------------------------------------------------------
(* Properties *)

\* Every variable holds a value of its kind; the clip store keeps its bound.
TypeOK ==
  /\ run \in Nat /\ said \in 0..MaxSentence
  /\ jobs \in Seq(Clip) /\ seq \in [Runs -> 0..MaxSentence] /\ generation \in 0..MaxInterrupt
  /\ worker \in {"none", "starting", "waiting", "synthesizing"}
  /\ job \in Clip \cup {None} /\ idle \in BOOLEAN
  /\ clips \in Seq(Clip) /\ Len(clips) <= MaxClips
  /\ feed \in Seq(Event)
  /\ stops \in Nat /\ interrupts \in 0..MaxInterrupt /\ drops \in 0..MaxDrop
  /\ pending \subseteq Clip /\ nextSeq \in [Runs -> 0..MaxSentence] /\ order \in Seq(Runs)
  /\ player \in {"quiet", "fetching", "playing", "paused"}
  /\ clip \in Clip \cup {None} /\ started \subseteq Clip /\ silenced \in 0..MaxInterrupt

\* A clip whose turn it is never waits for a pump that sleeps.
NothingDueIsLeft == player = "quiet" => \A c \in pending : c.seq # nextSeq[c.run]

InOrder ==
  /\ clip' \notin started
  /\ clip'.seq > 0 => [clip' EXCEPT !.seq = @ - 1] \in started

\* Clips are taken up in the order of their sentences, each once, none before
\* the one in front of it was (as long as no event was lost on the way), and
\* none whose turn it is waits for ever because of it (enqueue, pump).
PlaysInOrder ==
  [][/\ NothingDueIsLeft'
     /\ clip' # clip /\ clip' # None /\ drops' = 0 => InOrder]_vars

\* Once the dashboard was told of a stop, no clip from before it is taken up.
StopIsFinal ==
  [][(clip' # clip /\ clip' # None) => clip'.generation >= silenced]_vars

\* "voice.stopped cuts the current clip" (speechQueue.test.ts:2): after a stop the
\* dashboard was told of, no clip from before it begins to be heard.  It does
\* not hold of the player in the browser: a clip whose sound is being fetched
\* when the stop comes has nothing to pause, and plays when it is there.
StopCutsTheClip ==
  [][player # "playing" /\ player' = "playing" => clip'.generation >= silenced']_vars

\* When Hermes has no more to say, the worker and the player come to rest: every
\* sentence is announced, dropped or given up, and no clip is fetched or played
\* for ever (the worker's loop, pump).  Clips behind a gap may stay in `pending`.
FallsSilent == <>[](player = "quiet" /\ jobs = <<>> /\ feed = <<>>)
=============================================================================
