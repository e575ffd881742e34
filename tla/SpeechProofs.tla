----------------------------- MODULE SpeechProofs -----------------------------
(***************************************************************************)
(* Clips are taken up in the order of their sentences, each once, and none *)
(* from before a stop the dashboard was told of; for any number of runs,   *)
(* sentences, interruptions and lost sockets.                              *)
(*                                                                         *)
(* Four facts carry the proof.  A clip is in one place at a time, and a    *)
(* new one is numbered as none before it (InOnePlace, Numbered).  What is  *)
(* on its way to the dashboard is sorted by generation, and each stop in   *)
(* it begins a new one (Sorted).  As long as nothing of it was lost, what  *)
(* waits at the dashboard is therefore of the generation it was last told  *)
(* of, and so is the clip before the one a run is at (Told).  And every    *)
(* clip that waits is in the list of runs that pump goes through (Listed). *)
(***************************************************************************)
EXTENDS Speech, SequenceTheorems, TLAPS

-----------------------------------------------------------------------------
(* Where a clip can be, from the queue of the host to the loudspeaker. *)

Queued == {jobs[i] : i \in 1..Len(jobs)}
Making == {c \in {job} : worker = "synthesizing"}

Speaks(i) == feed[i].type = "speech"
OnWire    == {feed[i].clip : i \in {k \in 1..Len(feed) : Speaks(k)}}

Heard == pending \cup started
Sent  == OnWire \cup Heard

InOnePlace ==
  /\ \A i, j \in 1..Len(jobs) : i # j => jobs[i] # jobs[j]
  /\ \A i, j \in 1..Len(feed) : i # j /\ Speaks(i) /\ Speaks(j) => feed[i].clip # feed[j].clip
  /\ pending \cap started = {}
  /\ OnWire \cap Heard = {}
  /\ Making \cap Sent = {}
  /\ Queued \cap (Making \cup Sent) = {}

\* The numbers of a generation start at 0 again, and are never given out twice.
Old(c) == c.generation < generation \/ (c.generation = generation /\ c.seq < seq[c.run])

Numbered ==
  /\ \A c \in Queued \cup Making \cup Sent : Old(c)
  /\ run \in Runs /\ seq[run] <= said /\ \A r \in Runs : r > run => seq[r] = 0
  /\ generation + stops <= interrupts
  /\ worker = "synthesizing" => job \in Clip

\* A stop, and the generation an event is of.
IsStop(e) == e.type = "stopped"
Of(e)     == IF e.type = "speech" THEN e.clip.generation ELSE e.generation

Sorted ==
  /\ silenced <= generation
  /\ \A c \in pending : silenced <= c.generation
  /\ \A i \in 1..Len(feed) : silenced <= Of(feed[i]) /\ Of(feed[i]) <= generation /\ (IsStop(feed[i]) => silenced < Of(feed[i]))
  /\ \A i, j \in 1..Len(feed) : i < j => Of(feed[i]) <= Of(feed[j]) /\ (IsStop(feed[j]) => Of(feed[i]) < Of(feed[j]))

\* Which generations the dashboard is at, or is going to be told of.
Told ==
  drops = 0 =>
    /\ generation = silenced \/ \E j \in 1..Len(feed) : IsStop(feed[j]) /\ Of(feed[j]) = generation
    /\ \A i \in 1..Len(feed) :
         Speaks(i) => Of(feed[i]) = silenced \/ \E j \in 1..(i - 1) : IsStop(feed[j]) /\ Of(feed[j]) = Of(feed[i])
    /\ \A c \in pending : c.generation = silenced
    /\ \A r \in Runs :
         nextSeq[r] > 0 => [run |-> r, seq |-> nextSeq[r] - 1, generation |-> silenced] \in started

Listed == \A c \in pending : \E i \in 1..Len(order) : order[i] = c.run

SpeechInv == TypeOK /\ InOnePlace /\ Numbered /\ Sorted /\ Told /\ Listed /\ NothingDueIsLeft

-----------------------------------------------------------------------------
(* What the operators of the host and of the wire do to these sets. *)

\* The worker takes a job out of the queue, or finds none.
LEMMA JobTaken ==
  ASSUME jobs \in Seq(Clip), \A i, j \in 1..Len(jobs) : i # j => jobs[i] # jobs[j],
         idle \in BOOLEAN, TakeJob
  PROVE  /\ jobs' \in Seq(Clip) /\ Queued' \subseteq Queued
         /\ \A i, j \in 1..Len(jobs') : i # j => jobs'[i] # jobs'[j]
         /\ worker' \in {"waiting", "synthesizing"} /\ idle' \in BOOLEAN
         /\ job' \in Clip \cup {None} /\ (worker' = "synthesizing" => job' \in Clip)
         /\ Making' \subseteq Queued /\ Making' \cap Queued' = {}
<1>1. CASE worker' = "waiting" /\ idle' = TRUE /\ job' = None /\ jobs' = <<>>
  BY <1>1 DEF Queued, Making
<1>2. ASSUME NEW i \in 1..Len(jobs), worker' = "synthesizing", idle' = idle,
             job' = jobs[i], jobs' = SubSeq(jobs, i + 1, Len(jobs))
      PROVE  /\ jobs' \in Seq(Clip) /\ Queued' \subseteq Queued
             /\ \A k, j \in 1..Len(jobs') : k # j => jobs'[k] # jobs'[j]
             /\ worker' \in {"waiting", "synthesizing"} /\ idle' \in BOOLEAN
             /\ job' \in Clip \cup {None} /\ (worker' = "synthesizing" => job' \in Clip)
             /\ Making' \subseteq Queued /\ Making' \cap Queued' = {}
  <2>1. /\ Len(jobs) \in Nat
        /\ \A k \in 1..Len(jobs) : jobs[k] \in Clip
    OBVIOUS
  <2>2. /\ jobs' \in Seq(Clip)
        /\ Len(jobs') = IF i + 1 <= Len(jobs) THEN Len(jobs) - i ELSE 0
        /\ \A k \in 1..(Len(jobs) - i) : jobs'[k] = jobs[i + k]
    <3>1. i + 1 \in Int /\ Len(jobs) \in Int /\ \A k \in (i + 1)..Len(jobs) : jobs[k] \in Clip
      BY <2>1
    <3> HIDE DEF Clip
    <3>2. /\ SubSeq(jobs, i + 1, Len(jobs)) \in Seq(Clip)
          /\ Len(SubSeq(jobs, i + 1, Len(jobs))) = IF i + 1 <= Len(jobs) THEN Len(jobs) - (i + 1) + 1 ELSE 0
          /\ \A k \in 1..(Len(jobs) - (i + 1) + 1) :
               SubSeq(jobs, i + 1, Len(jobs))[k] = jobs[(i + 1) + k - 1]
      BY <3>1, SubSeqProperties
    <3> QED
      BY <1>2, <2>1, <3>2
  <2>3. \A k \in 1..Len(jobs') : i + k \in 1..Len(jobs) /\ jobs'[k] = jobs[i + k]
    BY <2>1, <2>2
  <2>4. Queued' = {jobs'[k] : k \in 1..Len(jobs')} /\ Making' = {jobs[i]}
    BY <1>2 DEF Queued, Making
  <2>5. Queued' \subseteq Queued /\ Making' \subseteq Queued
    BY <2>3, <2>4 DEF Queued
  <2>6. \A k, j \in 1..Len(jobs') : k # j => jobs'[k] # jobs'[j]
    <3> SUFFICES ASSUME NEW k \in 1..Len(jobs'), NEW j \in 1..Len(jobs'), k # j PROVE jobs'[k] # jobs'[j]
      OBVIOUS
    <3>1. i + k # i + j
      BY <2>2
    <3> QED
      BY <3>1, <2>3
  <2>7. \A k \in 1..Len(jobs') : jobs'[k] # jobs[i]
    <3> SUFFICES ASSUME NEW k \in 1..Len(jobs') PROVE jobs'[k] # jobs[i]
      OBVIOUS
    <3>1. i + k # i
      BY <2>2
    <3> QED
      BY <3>1, <2>3
  <2>8. Making' \cap Queued' = {}
    BY <2>4, <2>7
  <2> QED
    BY <1>2, <2>1, <2>2, <2>5, <2>6, <2>8
<1> QED
  BY <1>1, <1>2 DEF TakeJob

\* The first event is taken off the wire.
LEMMA EventTaken ==
  ASSUME feed \in Seq(Event), feed # <<>>, feed' = Tail(feed)
  PROVE  /\ feed' \in Seq(Event) /\ Len(feed) \in Nat \ {0} /\ Len(feed') = Len(feed) - 1
         /\ Head(feed) = feed[1] /\ feed[1] \in Event
         /\ \A i \in 1..Len(feed') : i + 1 \in 1..Len(feed) /\ feed'[i] = feed[i + 1]
         /\ OnWire' \subseteq OnWire
<1> HIDE DEF Event
<1>1. /\ feed' \in Seq(Event) /\ Len(feed') = Len(feed) - 1
      /\ \A i \in 1..Len(feed') : feed'[i] = feed[i + 1]
  BY HeadTailProperties
<1>2. Len(feed) \in Nat \ {0} /\ Head(feed) = feed[1] /\ feed[1] \in Event
  BY EmptySeq, ElementOfSeq
<1>3. \A i \in 1..Len(feed') : i + 1 \in 1..Len(feed)
  BY <1>1, <1>2
<1>4. OnWire' \subseteq OnWire
  BY <1>1, <1>3 DEF OnWire, Speaks
<1> QED
  BY <1>1, <1>2, <1>3, <1>4

\* An event is put on the wire.
LEMMA EventSent ==
  ASSUME feed \in Seq(Event), NEW e \in Event, feed' = Append(feed, e)
  PROVE  /\ feed' \in Seq(Event) /\ Len(feed) \in Nat /\ Len(feed') = Len(feed) + 1
         /\ \A i \in 1..Len(feed) : feed'[i] = feed[i]
         /\ feed'[Len(feed) + 1] = e
         /\ e.type = "speech" => OnWire' = OnWire \cup {e.clip}
         /\ e.type # "speech" => OnWire' = OnWire
<1> HIDE DEF Event
<1>1. /\ feed' \in Seq(Event) /\ Len(feed) \in Nat /\ Len(feed') = Len(feed) + 1
      /\ \A i \in 1..Len(feed) : feed'[i] = feed[i]
      /\ feed'[Len(feed) + 1] = e
  BY AppendProperties, LenProperties
<1>2. \A i \in 1..Len(feed') : i \in 1..Len(feed) \/ i = Len(feed) + 1
  BY <1>1
<1>3. Len(feed) + 1 \in 1..Len(feed') /\ 1..Len(feed) \subseteq 1..Len(feed')
  BY <1>1
<1>4. OnWire' = {feed'[i].clip : i \in {k \in 1..Len(feed') : feed'[k].type = "speech"}}
  BY DEF OnWire, Speaks
<1>5. CASE e.type = "speech"
  BY <1>1, <1>2, <1>3, <1>4, <1>5 DEF OnWire, Speaks
<1>6. CASE e.type # "speech"
  BY <1>1, <1>2, <1>3, <1>4, <1>6 DEF OnWire, Speaks
<1> QED
  BY <1>1, <1>5, <1>6

\* The two kinds of event.
LEMMA EventKinds ==
  ASSUME NEW e \in Event
  PROVE  /\ e.type = "speech" => e.clip \in Clip
         /\ e.type = "stopped" => e.generation \in 0..MaxInterrupt
         /\ e.type \in {"speech", "stopped"}
  BY DEF Event

LEMMA ClipFields ==
  ASSUME NEW c \in Clip
  PROVE  /\ c.run \in Runs /\ c.seq \in Nat /\ c.seq + 1 \in 0..MaxSentence
         /\ c.generation \in 0..MaxInterrupt
         /\ c = [run |-> c.run, seq |-> c.seq, generation |-> c.generation]
  BY SpeechAssumption DEF Clip

\* The pump takes up the next clip of a run, or goes to sleep with nothing due.
LEMMA Pumped ==
  ASSUME NEW w, w.clips \subseteq Clip, w.next \in [Runs -> 0..MaxSentence], w.order \in Seq(Runs),
         \A c \in w.clips : \E i \in 1..Len(w.order) : w.order[i] = c.run,
         Pump(w)
  PROVE  /\ pending' \subseteq w.clips /\ order' \in Seq(Runs) /\ Listed' /\ NothingDueIsLeft'
         /\ nextSeq' \in [Runs -> 0..MaxSentence]
         /\ \/ \E c \in w.clips :
                 /\ c \notin pending' /\ c.seq = w.next[c.run] /\ nextSeq' = [w.next EXCEPT ![c.run] = c.seq + 1]
                 /\ player' = "fetching" /\ clip' = c /\ started' = started \cup {c}
            \/ player' = "quiet" /\ clip' = None /\ started' = started /\ nextSeq' = w.next
<1> USE SpeechAssumption
<1>1. Len(w.order) \in Nat /\ \A i \in 1..Len(w.order) : w.order[i] \in Runs
  OBVIOUS
<1>2. ASSUME NEW c \in w.clips, Takes(w, c), player' = "fetching", clip' = c, started' = started \cup {c}
      PROVE  /\ pending' \subseteq w.clips \ {c} /\ order' \in Seq(Runs) /\ Listed' /\ NothingDueIsLeft'
             /\ nextSeq' \in [Runs -> 0..MaxSentence]
             /\ c.seq = w.next[c.run] /\ nextSeq' = [w.next EXCEPT ![c.run] = c.seq + 1]
  <2>1. PICK i \in 1..Len(w.order) :
          /\ c.run = w.order[i] /\ c.seq = w.next[w.order[i]]
          /\ order' = SubSeq(w.order, i, Len(w.order))
          /\ pending' = {d \in w.clips \ {c} : \E k \in i..Len(w.order) : w.order[k] = d.run}
          /\ nextSeq' = [w.next EXCEPT ![c.run] = c.seq + 1]
    BY <1>2 DEF Takes, Due
  <2>2. /\ order' \in Seq(Runs) /\ Len(order') = Len(w.order) - i + 1
        /\ \A k \in 1..(Len(w.order) - i + 1) : order'[k] = w.order[i + k - 1]
    <3>1. i \in Int /\ Len(w.order) \in Int /\ i <= Len(w.order) /\ \A k \in i..Len(w.order) : w.order[k] \in Runs
      BY <1>1
    <3> HIDE DEF Runs
    <3>2. /\ SubSeq(w.order, i, Len(w.order)) \in Seq(Runs)
          /\ Len(SubSeq(w.order, i, Len(w.order))) = IF i <= Len(w.order) THEN Len(w.order) - i + 1 ELSE 0
          /\ \A k \in 1..(Len(w.order) - i + 1) : SubSeq(w.order, i, Len(w.order))[k] = w.order[i + k - 1]
      BY <3>1, SubSeqProperties
    <3> QED
      BY <2>1, <3>1, <3>2
  <2>3. c \in Clip /\ c.run \in Runs /\ c.seq + 1 \in 0..MaxSentence
    <3>1. c \in Clip
      OBVIOUS
    <3> QED
      BY <3>1, ClipFields
  <2>4. Listed'
    <3> SUFFICES ASSUME NEW d \in pending' PROVE \E k \in 1..Len(order') : order'[k] = d.run
      BY DEF Listed
    <3>1. PICK k \in i..Len(w.order) : w.order[k] = d.run
      BY <2>1
    <3>2. k - i + 1 \in 1..Len(order') /\ order'[k - i + 1] = w.order[k]
      BY <1>1, <2>2
    <3> QED
      BY <3>1, <3>2
  <2>5. NothingDueIsLeft'
    BY <1>2 DEF NothingDueIsLeft
  <2>6. nextSeq' \in [Runs -> 0..MaxSentence]
    BY <2>1, <2>3
  <2> QED
    BY <2>1, <2>2, <2>4, <2>5, <2>6
<1>3. ASSUME TakesNone(w), player' = "quiet"
      PROVE  /\ pending' \subseteq w.clips /\ order' \in Seq(Runs) /\ Listed' /\ NothingDueIsLeft'
             /\ nextSeq' = w.next
  <2> DEFINE newest == w.order[Len(w.order)]
             kept == {c \in w.clips : w.order # <<>> /\ c.run = newest}
  <2>1. /\ pending' = kept /\ nextSeq' = w.next
        /\ order' = IF kept = {} THEN <<>> ELSE <<newest>>
        /\ \A i \in 1..Len(w.order) : Due(w, i) = {}
    BY <1>3 DEF TakesNone
  <2>2. CASE w.order = <<>>
    BY <2>1, <2>2 DEF Listed, NothingDueIsLeft
  <2>3. CASE w.order # <<>>
    <3>1. Len(w.order) \in 1..Len(w.order) /\ newest \in Runs
      BY <1>1, <2>3, EmptySeq
    <3>2. \A c \in kept : c.run = newest /\ c.seq # w.next[newest]
      BY <2>1, <3>1 DEF Due
    <3>3. order' \in Seq(Runs)
      BY <2>1, <3>1
    <3>4. Listed'
      <4> SUFFICES ASSUME NEW c \in kept PROVE \E i \in 1..Len(order') : order'[i] = c.run
        BY <2>1 DEF Listed
      <4>1. order' = <<newest>>
        BY <2>1
      <4>2. 1 \in 1..Len(order') /\ order'[1] = newest
        BY <4>1
      <4> QED
        BY <3>2, <4>2
    <3>5. NothingDueIsLeft'
      BY <2>1, <3>2 DEF NothingDueIsLeft
    <3> QED
      BY <2>1, <3>3, <3>4, <3>5
  <2> QED
    BY <2>2, <2>3
<1>4. CASE \E c \in w.clips : Takes(w, c) /\ player' = "fetching" /\ clip' = c /\ started' = started \cup {c}
  <2>1. PICK c \in w.clips : Takes(w, c) /\ player' = "fetching" /\ clip' = c /\ started' = started \cup {c}
    BY <1>4
  <2> QED
    BY <1>2, <2>1
<1>5. CASE TakesNone(w) /\ player' = "quiet" /\ clip' = None /\ started' = started
  BY <1>3, <1>5
<1> QED
  BY <1>4, <1>5 DEF Pump

\* A clip is filed among those that wait, in place of one with its number.
LEMMA FiledClip ==
  ASSUME NEW c \in Clip, pending \subseteq Clip, order \in Seq(Runs), Listed
  PROVE  /\ Filed(c).clips \subseteq pending \cup {c} /\ c \in Filed(c).clips
         /\ Filed(c).next = nextSeq /\ Filed(c).order \in Seq(Runs)
         /\ \A d \in Filed(c).clips : \E i \in 1..Len(Filed(c).order) : Filed(c).order[i] = d.run
<1>1. /\ Filed(c).clips = {d \in pending : ~(d.run = c.run /\ d.seq = c.seq)} \cup {c}
      /\ Filed(c).next = nextSeq
      /\ Filed(c).order = IF \E i \in 1..Len(order) : order[i] = c.run THEN order ELSE Append(order, c.run)
  BY DEF Filed
<1>2. c.run \in Runs
  BY DEF Clip
<1> HIDE DEF Runs
<1>3. CASE \E i \in 1..Len(order) : order[i] = c.run
  BY <1>1, <1>3 DEF Listed
<1>4. CASE ~ \E i \in 1..Len(order) : order[i] = c.run
  <2>1. /\ Filed(c).order \in Seq(Runs) /\ Len(order) \in Nat /\ Len(Filed(c).order) = Len(order) + 1
        /\ \A i \in 1..Len(order) : Filed(c).order[i] = order[i]
        /\ Filed(c).order[Len(order) + 1] = c.run
    BY <1>1, <1>2, <1>4, AppendProperties, LenProperties
  <2>2. Len(order) + 1 \in 1..Len(Filed(c).order) /\ \A i \in 1..Len(order) : i \in 1..Len(Filed(c).order)
    BY <2>1
  <2>3. \A d \in pending : \E i \in 1..Len(Filed(c).order) : Filed(c).order[i] = d.run
    BY <2>1, <2>2 DEF Listed
  <2> QED
    BY <1>1, <2>1, <2>2, <2>3
<1> QED
  BY <1>3, <1>4

-----------------------------------------------------------------------------
(* What the steps of the dashboard do, in these terms. *)

TakesUpOf(S) ==
  \E c \in S : /\ c \notin pending' /\ c.seq = nextSeq[c.run] /\ nextSeq' = [nextSeq EXCEPT ![c.run] = c.seq + 1]
               /\ clip' = c /\ started' = started \cup {c}

TakesUpNone == started' = started /\ nextSeq' = nextSeq /\ (clip' = clip \/ clip' = None)

DashboardTyped ==
  /\ pending \subseteq Clip /\ nextSeq \in [Runs -> 0..MaxSentence] /\ order \in Seq(Runs)
  /\ player \in {"quiet", "fetching", "playing", "paused"}
  /\ clip \in Clip \cup {None} /\ started \subseteq Clip

LEMMA PumpedOn ==
  ASSUME DashboardTyped, NEW w, w.clips \subseteq Clip, w.next = nextSeq, w.order \in Seq(Runs),
         \A c \in w.clips : \E i \in 1..Len(w.order) : w.order[i] = c.run,
         Pump(w)
  PROVE  /\ pending' \subseteq w.clips /\ DashboardTyped' /\ Listed' /\ NothingDueIsLeft'
         /\ TakesUpOf(w.clips) \/ TakesUpNone
<1>1. w.next \in [Runs -> 0..MaxSentence]
  BY DEF DashboardTyped
<1>2. /\ pending' \subseteq w.clips /\ order' \in Seq(Runs) /\ Listed' /\ NothingDueIsLeft'
      /\ nextSeq' \in [Runs -> 0..MaxSentence]
      /\ \/ \E c \in w.clips :
              /\ c \notin pending' /\ c.seq = w.next[c.run] /\ nextSeq' = [w.next EXCEPT ![c.run] = c.seq + 1]
              /\ player' = "fetching" /\ clip' = c /\ started' = started \cup {c}
         \/ player' = "quiet" /\ clip' = None /\ started' = started /\ nextSeq' = w.next
  BY <1>1, Pumped
<1>3. /\ player' \in {"quiet", "fetching", "playing", "paused"} /\ clip' \in Clip \cup {None}
      /\ started' \subseteq Clip
  BY <1>2 DEF DashboardTyped
<1>4. TakesUpOf(w.clips) \/ TakesUpNone
  BY <1>2 DEF TakesUpOf, TakesUpNone
<1> QED
  BY <1>2, <1>3, <1>4 DEF DashboardTyped

\* A clip arrives: it waits, or the pump wakes up.
LEMMA ClipHeard ==
  ASSUME SpeechInv, HearSpeech
  PROVE  /\ feed # <<>> /\ feed' = Tail(feed) /\ feed[1].type = "speech" /\ feed[1].clip \in Clip
         /\ UNCHANGED <<hermes, host, stops, interrupts, drops, silenced>>
         /\ pending' \subseteq pending \cup {feed[1].clip} /\ DashboardTyped' /\ Listed' /\ NothingDueIsLeft'
         /\ TakesUpOf(pending \cup {feed[1].clip}) \/ TakesUpNone
<1>1. /\ feed # <<>> /\ feed' = Tail(feed) /\ Head(feed).type = "speech"
      /\ UNCHANGED <<hermes, host, stops, interrupts, drops, silenced>>
      /\ IF Busy THEN Store(Filed(Head(feed).clip)) ELSE Pump(Filed(Head(feed).clip))
  BY DEF HearSpeech
<1>2. feed \in Seq(Event) /\ DashboardTyped /\ Listed
  BY DEF SpeechInv, TypeOK, DashboardTyped
<1>3. Head(feed) = feed[1] /\ feed[1] \in Event
  BY <1>1, <1>2, EventTaken
<1> DEFINE c == feed[1].clip
<1>4. c \in Clip
  BY <1>1, <1>3, EventKinds
<1>5. /\ IF Busy THEN Store(Filed(c)) ELSE Pump(Filed(c))
  BY <1>1, <1>3
<1> HIDE DEF c
<1> DEFINE w == Filed(c)
<1>6. /\ w.clips \subseteq pending \cup {c} /\ w.next = nextSeq /\ w.order \in Seq(Runs)
      /\ \A d \in w.clips : \E i \in 1..Len(w.order) : w.order[i] = d.run
  BY <1>2, <1>4, FiledClip DEF DashboardTyped
<1>7. w.clips \subseteq Clip
  BY <1>2, <1>4, <1>6 DEF DashboardTyped
<1>8. IF Busy THEN Store(w) ELSE Pump(w)
  BY <1>5
<1> HIDE DEF w
<1>9. CASE Busy
  <2>1. /\ pending' = w.clips /\ nextSeq' = w.next /\ order' = w.order /\ UNCHANGED <<player, clip, started>>
    BY <1>8, <1>9 DEF Store, playback
  <2>2. DashboardTyped' /\ Listed' /\ TakesUpNone
    BY <2>1, <1>2, <1>6, <1>7 DEF DashboardTyped, Listed, TakesUpNone
  <2>3. NothingDueIsLeft'
    BY <2>1, <1>9 DEF NothingDueIsLeft, Busy
  <2> QED
    BY <1>1, <1>3, <1>4, <1>6, <2>1, <2>2, <2>3 DEF c
<1>10. CASE ~Busy
  <2>1. /\ pending' \subseteq w.clips /\ DashboardTyped' /\ Listed' /\ NothingDueIsLeft'
        /\ TakesUpOf(w.clips) \/ TakesUpNone
    BY <1>2, <1>6, <1>7, <1>8, <1>10, PumpedOn
  <2>2. TakesUpOf(w.clips) => TakesUpOf(pending \cup {c})
    BY <1>6 DEF TakesUpOf
  <2> QED
    BY <1>1, <1>3, <1>4, <1>6, <2>1, <2>2 DEF c
<1> QED
  BY <1>9, <1>10

\* A clip is over: the pump goes on.
LEMMA ClipDone ==
  ASSUME SpeechInv, ClipOver
  PROVE  /\ UNCHANGED <<hermes, host, wire, silenced>>
         /\ pending' \subseteq pending /\ DashboardTyped' /\ Listed' /\ NothingDueIsLeft'
         /\ TakesUpOf(pending) \/ TakesUpNone
<1>1. UNCHANGED <<hermes, host, wire, silenced>> /\ Pump(Waits)
  BY DEF ClipOver
<1> DEFINE w == Waits
<1>2. w.clips = pending /\ w.next = nextSeq /\ w.order = order
  BY DEF Waits
<1>3. Pump(w)
  BY <1>1
<1> HIDE DEF w
<1>4. DashboardTyped /\ Listed
  BY DEF SpeechInv, TypeOK, DashboardTyped
<1>5. /\ w.clips \subseteq Clip /\ w.order \in Seq(Runs)
      /\ \A d \in w.clips : \E i \in 1..Len(w.order) : w.order[i] = d.run
  BY <1>2, <1>4 DEF DashboardTyped, Listed
<1>6. /\ pending' \subseteq w.clips /\ DashboardTyped' /\ Listed' /\ NothingDueIsLeft'
      /\ TakesUpOf(w.clips) \/ TakesUpNone
  BY <1>2, <1>3, <1>4, <1>5, PumpedOn
<1> QED
  BY <1>1, <1>2, <1>6

\* Silence: nothing waits, and no run is counted.
LEMMA Hushed ==
  ASSUME DashboardTyped, Hush
  PROVE  /\ DashboardTyped' /\ Listed' /\ NothingDueIsLeft' /\ pending' = {} /\ started' = started /\ clip' = clip
         /\ nextSeq' = [r \in Runs |-> 0]
  BY SpeechAssumption DEF Hush, DashboardTyped, Listed, NothingDueIsLeft

-----------------------------------------------------------------------------
(* The invariant, one part after the other. *)

HostTyped ==
  /\ run \in Nat /\ said \in 0..MaxSentence
  /\ jobs \in Seq(Clip) /\ seq \in [Runs -> 0..MaxSentence] /\ generation \in 0..MaxInterrupt
  /\ worker \in {"none", "starting", "waiting", "synthesizing"}
  /\ job \in Clip \cup {None} /\ idle \in BOOLEAN
  /\ clips \in Seq(Clip) /\ Len(clips) <= MaxClips

WireTyped ==
  /\ feed \in Seq(Event)
  /\ stops \in Nat /\ interrupts \in 0..MaxInterrupt /\ drops \in 0..MaxDrop /\ silenced \in 0..MaxInterrupt

LEMMA TypeParts == TypeOK <=> HostTyped /\ WireTyped /\ DashboardTyped
  BY DEF TypeOK, HostTyped, WireTyped, DashboardTyped

\* The sentence that is numbered next.
Newest == [run |-> run, seq |-> seq[run], generation |-> generation]

LEMMA NewestIsNew ==
  ASSUME SpeechInv, said < MaxSentence
  PROVE  /\ Newest \in Clip /\ ~Old(Newest) /\ seq[run] + 1 <= said + 1 /\ seq[run] + 1 \in 0..MaxSentence
         /\ \A c \in Queued \cup Making \cup Sent : c # Newest
<1> USE SpeechAssumption
<1>1. run \in Runs /\ seq[run] \in 0..MaxSentence /\ seq[run] <= said /\ said \in 0..MaxSentence
      /\ generation \in 0..MaxInterrupt
  BY DEF SpeechInv, Numbered, TypeOK
<1>2. seq[run] \in 0..(MaxSentence - 1)
  BY <1>1
<1>3. Newest \in Clip
  BY <1>1, <1>2 DEF Newest, Clip
<1>4. ~Old(Newest)
  BY <1>1 DEF Newest, Old
<1>5. seq[run] + 1 <= said + 1 /\ seq[run] + 1 \in 0..MaxSentence
  BY <1>1, <1>2
<1> QED
  BY <1>3, <1>4, <1>5 DEF SpeechInv, Numbered

LEMMA TypeStep == SpeechInv /\ [Next]_vars => TypeOK'
<1> SUFFICES ASSUME SpeechInv, [Next]_vars PROVE HostTyped' /\ WireTyped' /\ DashboardTyped'
  BY DEF TypeOK, HostTyped, WireTyped, DashboardTyped
<1> USE SpeechAssumption
<1>1. HostTyped /\ WireTyped /\ DashboardTyped
  BY TypeParts DEF SpeechInv
<1>2. CASE Say
  <2>1. Newest \in Clip /\ seq[run] + 1 \in 0..MaxSentence
    BY <1>2, NewestIsNew DEF Say
  <2>2. jobs' = Append(jobs, Newest) /\ seq' = [seq EXCEPT ![run] = @ + 1]
    BY <1>2 DEF Say, Newest
  <2>3. HostTyped'
    <3>1. seq' \in [Runs -> 0..MaxSentence]
      BY <1>1, <2>1, <2>2 DEF HostTyped
    <3>2. said' \in 0..MaxSentence
      BY <1>1, <1>2 DEF HostTyped, Say
    <3>3. jobs' \in Seq(Clip)
      <4> HIDE DEF Clip
      <4> QED
        BY <1>1, <2>1, <2>2, AppendProperties DEF HostTyped
    <3> QED
      BY <1>1, <1>2, <3>1, <3>2, <3>3 DEF HostTyped, Say
  <2> QED
    BY <1>1, <1>2, <2>3 DEF Say, WireTyped, DashboardTyped, wire, dashboard, queue, playback
<1>3. CASE NextRun
  BY <1>1, <1>3 DEF NextRun, HostTyped, WireTyped, DashboardTyped, host, wire, dashboard, queue, playback
<1>4. ASSUME TakeJob, UNCHANGED <<hermes, seq, generation>>, clips' \in Seq(Clip), Len(clips') <= MaxClips
      PROVE  HostTyped'
  <2>1. /\ jobs' \in Seq(Clip) /\ worker' \in {"waiting", "synthesizing"} /\ idle' \in BOOLEAN
        /\ job' \in Clip \cup {None}
    BY <1>1, <1>4, JobTaken DEF HostTyped, SpeechInv, InOnePlace
  <2> QED
    BY <1>1, <1>4, <2>1 DEF HostTyped, hermes
<1>5. CASE GetJob
  <2>1. HostTyped'
    BY <1>1, <1>4, <1>5 DEF GetJob, HostTyped
  <2> QED
    BY <1>1, <1>5, <2>1 DEF GetJob, WireTyped, DashboardTyped, wire, dashboard, queue, playback
<1>6. CASE Synthesize
  <2>1. TakeJob /\ UNCHANGED <<hermes, seq, generation, stops, interrupts, drops, dashboard>>
    BY <1>6 DEF Synthesize
  <2>2. job \in Clip
    BY <1>6 DEF Synthesize, SpeechInv, Numbered
  <2>3. clips' \in Seq(Clip) /\ Len(clips') <= MaxClips
    <3>1. CASE ~StillWanted
      BY <1>1, <1>6, <3>1 DEF Synthesize, HostTyped
    <3>2. CASE StillWanted
      <4> DEFINE more == Append(clips, job)
      <4>1. clips' = Kept(more)
        BY <1>6, <3>2 DEF Synthesize
      <4> HIDE DEF Clip
      <4>2. more \in Seq(Clip) /\ more # <<>> /\ Len(more) = Len(clips) + 1 /\ Len(clips) \in Nat /\ Len(clips) <= MaxClips
        BY <1>1, <2>2, AppendProperties, LenProperties DEF HostTyped
      <4> HIDE DEF more
      <4>3. Tail(more) \in Seq(Clip) /\ Len(Tail(more)) = Len(more) - 1
        BY <4>2, HeadTailProperties
      <4> QED
        BY <4>1, <4>2, <4>3 DEF Kept
    <3> QED
      BY <3>1, <3>2
  <2>4. feed' \in Seq(Event)
    <3>1. CASE ~StillWanted
      BY <1>1, <1>6, <3>1 DEF Synthesize, WireTyped
    <3>2. CASE StillWanted
      <4>1. [type |-> "speech", clip |-> job] \in Event
        BY <2>2 DEF Event
      <4>2. feed' = Append(feed, [type |-> "speech", clip |-> job])
        BY <1>6, <3>2 DEF Synthesize
      <4> QED
        BY <1>1, <4>1, <4>2, EventSent DEF WireTyped
    <3> QED
      BY <3>1, <3>2
  <2>5. HostTyped'
    BY <1>4, <2>1, <2>3
  <2> QED
    BY <1>1, <2>1, <2>4, <2>5 DEF WireTyped, DashboardTyped, dashboard, queue, playback
<1>7. CASE SynthesisFails
  <2>1. TakeJob /\ UNCHANGED <<hermes, seq, generation, clips, wire, dashboard>>
    BY <1>7 DEF SynthesisFails, AfterFailure
  <2>2. HostTyped'
    BY <1>1, <1>4, <2>1 DEF HostTyped
  <2> QED
    BY <1>1, <2>1, <2>2 DEF WireTyped, DashboardTyped, wire, dashboard, queue, playback
<1>8. CASE Interrupt
  <2>1. generation + 1 \in 0..MaxInterrupt /\ stops - 1 \in Nat
    BY <1>1, <1>8 DEF Interrupt, SpeechInv, Numbered, HostTyped, WireTyped
  <2>2. [type |-> "stopped", generation |-> generation + 1] \in Event
    BY <2>1 DEF Event
  <2>3. feed' \in Seq(Event)
    BY <1>1, <1>8, <2>2, EventSent DEF Interrupt, WireTyped
  <2>4. HostTyped'
    BY <1>1, <1>8, <2>1 DEF Interrupt, HostTyped, hermes
  <2> QED
    BY <1>1, <1>8, <2>1, <2>3, <2>4 DEF Interrupt, WireTyped, DashboardTyped, dashboard, queue, playback
<1>9. CASE HearSpeech
  <2>1. /\ feed # <<>> /\ feed' = Tail(feed) /\ DashboardTyped'
        /\ UNCHANGED <<hermes, host, stops, interrupts, drops, silenced>>
    BY <1>9, ClipHeard
  <2>2. feed' \in Seq(Event)
    BY <1>1, <2>1, EventTaken DEF WireTyped
  <2> QED
    BY <1>1, <2>1, <2>2 DEF HostTyped, WireTyped, hermes, host
<1>10. CASE HearStopped
  <2>1. feed # <<>> /\ feed' = Tail(feed) /\ Head(feed).type = "stopped" /\ Hush /\ silenced' = Head(feed).generation
    BY <1>10 DEF HearStopped
  <2>2. feed' \in Seq(Event) /\ Head(feed) \in Event
    BY <1>1, <2>1, EventTaken DEF WireTyped
  <2>3. silenced' \in 0..MaxInterrupt
    BY <2>1, <2>2, EventKinds
  <2>4. DashboardTyped'
    BY <1>1, <2>1, Hushed
  <2> QED
    BY <1>1, <1>10, <2>2, <2>3, <2>4 DEF HearStopped, HostTyped, WireTyped, hermes, host
<1>11. CASE BargeIn
  <2>1. Hush /\ UNCHANGED <<hermes, host, feed, drops, silenced>> /\ interrupts' = interrupts + 1
        /\ interrupts < MaxInterrupt /\ (stops' = stops + 1 \/ stops' = stops)
    BY <1>11 DEF BargeIn
  <2>2. DashboardTyped'
    BY <1>1, <2>1, Hushed
  <2> QED
    BY <1>1, <2>1, <2>2 DEF HostTyped, WireTyped, hermes, host
<1>12. CASE Fetched
  BY <1>1, <1>12 DEF Fetched, HostTyped, WireTyped, DashboardTyped, hermes, host, wire, queue
<1>13. CASE ClipOver
  <2>1. UNCHANGED <<hermes, host, wire, silenced>> /\ DashboardTyped'
    BY <1>13, ClipDone
  <2> QED
    BY <1>1, <2>1 DEF HostTyped, WireTyped, hermes, host, wire
<1>14. CASE Reconnect
  BY <1>1, <1>14 DEF Reconnect, HostTyped, WireTyped, DashboardTyped, hermes, host, dashboard, queue, playback
<1>15. CASE UNCHANGED vars
  BY <1>1, <1>15 DEF vars, HostTyped, WireTyped, DashboardTyped, hermes, host, wire, dashboard, queue, playback
<1> QED
  BY <1>2, <1>3, <1>5, <1>6, <1>7, <1>8, <1>9, <1>10, <1>11, <1>12, <1>13, <1>14, <1>15 DEF Next, Host, Hear

JobsDiffer == \A i, j \in 1..Len(jobs) : i # j => jobs[i] # jobs[j]
FeedDiffers == \A i, j \in 1..Len(feed) : i # j /\ Speaks(i) /\ Speaks(j) => feed[i].clip # feed[j].clip
Apart ==
  /\ pending \cap started = {}
  /\ OnWire \cap Heard = {}
  /\ Making \cap Sent = {}
  /\ Queued \cap (Making \cup Sent) = {}

LEMMA PlacesParts == InOnePlace <=> JobsDiffer /\ FeedDiffers /\ Apart
  BY DEF InOnePlace, JobsDiffer, FeedDiffers, Apart

\* The events of a shorter feed differ as they did before.
LEMMA StillDiffers ==
  ASSUME feed \in Seq(Event), FeedDiffers, feed # <<>>, feed' = Tail(feed)
  PROVE  FeedDiffers' /\ (Speaks(1) => feed[1].clip \in OnWire /\ feed[1].clip \notin OnWire')
<1>1. /\ Len(feed) \in Nat \ {0} /\ Len(feed') = Len(feed) - 1
      /\ \A i \in 1..Len(feed') : i + 1 \in 1..Len(feed) /\ feed'[i] = feed[i + 1]
  BY EventTaken
<1>2. FeedDiffers'
  <2> SUFFICES ASSUME NEW i \in 1..Len(feed'), NEW j \in 1..Len(feed'), i # j,
                      feed'[i].type = "speech", feed'[j].type = "speech"
               PROVE feed'[i].clip # feed'[j].clip
    BY DEF FeedDiffers, Speaks
  <2>1. i + 1 # j + 1
    BY <1>1
  <2> QED
    BY <1>1, <2>1 DEF FeedDiffers, Speaks
<1>3. ASSUME Speaks(1) PROVE feed[1].clip \in OnWire /\ feed[1].clip \notin OnWire'
  <2>1. 1 \in 1..Len(feed)
    BY <1>1
  <2>2. feed[1].clip \in OnWire
    BY <1>3, <2>1 DEF OnWire
  <2>3. ASSUME NEW i \in 1..Len(feed'), feed'[i].type = "speech" PROVE feed'[i].clip # feed[1].clip
    <3>1. i + 1 # 1
      BY <1>1
    <3> QED
      BY <1>1, <1>3, <2>1, <2>3, <3>1 DEF FeedDiffers, Speaks
  <2> QED
    BY <2>2, <2>3 DEF OnWire, Speaks
<1> QED
  BY <1>2, <1>3

LEMMA PlacesStep == SpeechInv /\ [Next]_vars => InOnePlace'
<1> SUFFICES ASSUME SpeechInv, [Next]_vars PROVE JobsDiffer' /\ FeedDiffers' /\ Apart'
  BY DEF InOnePlace, JobsDiffer, FeedDiffers, Apart
<1>1. JobsDiffer /\ FeedDiffers /\ Apart /\ jobs \in Seq(Clip) /\ feed \in Seq(Event) /\ idle \in BOOLEAN
  BY PlacesParts DEF SpeechInv, TypeOK
<1>2. CASE Say
  <2>1. jobs' = Append(jobs, Newest) /\ UNCHANGED <<job, wire, dashboard>>
        /\ (worker' = "synthesizing" <=> worker = "synthesizing")
    BY <1>2 DEF Say, Newest
  <2>2. Newest \in Clip /\ \A c \in Queued \cup Making \cup Sent : c # Newest
    BY <1>2, NewestIsNew DEF Say
  <2>3. /\ Len(jobs) \in Nat /\ Len(jobs') = Len(jobs) + 1
        /\ \A i \in 1..Len(jobs) : jobs'[i] = jobs[i]
        /\ jobs'[Len(jobs) + 1] = Newest
    <3> HIDE DEF Clip
    <3> QED
      BY <1>1, <2>1, <2>2, AppendProperties, LenProperties
  <2>4. \A i \in 1..Len(jobs') : i \in 1..Len(jobs) \/ i = Len(jobs) + 1
    BY <2>3
  <2>5. \A i \in 1..Len(jobs) : jobs[i] \in Queued
    BY DEF Queued
  <2>6. JobsDiffer'
    BY <1>1, <2>2, <2>3, <2>4, <2>5 DEF JobsDiffer
  <2>7. Queued' \subseteq Queued \cup {Newest}
    BY <2>3, <2>4 DEF Queued
  <2>8. Making' = Making /\ OnWire' = OnWire /\ pending' = pending /\ started' = started /\ feed' = feed
    BY <2>1 DEF Making, OnWire, Speaks, wire, dashboard, queue, playback
  <2>9. Apart'
    BY <1>1, <2>2, <2>7, <2>8 DEF Apart, Sent, Heard
  <2> QED
    BY <1>1, <2>6, <2>8, <2>9 DEF FeedDiffers, Speaks
<1>3. ASSUME TakeJob, UNCHANGED <<feed, pending, started>>
      PROVE  JobsDiffer' /\ FeedDiffers' /\ Apart'
  <2>1. /\ Queued' \subseteq Queued /\ JobsDiffer' /\ Making' \subseteq Queued /\ Making' \cap Queued' = {}
    BY <1>1, <1>3, JobTaken DEF JobsDiffer
  <2>2. FeedDiffers' /\ OnWire' = OnWire
    BY <1>1, <1>3 DEF FeedDiffers, OnWire, Speaks
  <2> QED
    BY <1>1, <1>3, <2>1, <2>2 DEF Apart, Sent, Heard
<1>4. CASE GetJob
  BY <1>3, <1>4 DEF GetJob, wire, dashboard, queue, playback
<1>5. CASE SynthesisFails
  BY <1>3, <1>5 DEF SynthesisFails, AfterFailure, wire, dashboard, queue, playback
<1>6. CASE Synthesize
  <2>1. TakeJob /\ UNCHANGED <<pending, started>> /\ worker = "synthesizing"
    BY <1>6 DEF Synthesize, dashboard, queue, playback
  <2>2. CASE ~StillWanted
    BY <1>3, <1>6, <2>1, <2>2 DEF Synthesize
  <2>3. CASE StillWanted
    <3>1. /\ Queued' \subseteq Queued /\ JobsDiffer' /\ Making' \subseteq Queued /\ Making' \cap Queued' = {}
      BY <1>1, <2>1, JobTaken DEF JobsDiffer
    <3> DEFINE e == [type |-> "speech", clip |-> job]
    <3>2. e \in Event /\ e.type = "speech" /\ e.clip = job
      BY <2>1 DEF Event, SpeechInv, Numbered
    <3>3. feed' = Append(feed, e)
      BY <1>6, <2>3 DEF Synthesize
    <3> HIDE DEF e
    <3>4. /\ Len(feed) \in Nat /\ Len(feed') = Len(feed) + 1
          /\ \A i \in 1..Len(feed) : feed'[i] = feed[i]
          /\ feed'[Len(feed) + 1] = e /\ OnWire' = OnWire \cup {job}
      BY <1>1, <3>2, <3>3, EventSent
    <3>5. job \in Making
      BY <2>1 DEF Making
    <3>6. \A i \in 1..Len(feed) : Speaks(i) => feed[i].clip # job
      BY <1>1, <3>5 DEF Apart, Sent, OnWire
    <3>7. \A i \in 1..Len(feed') : i \in 1..Len(feed) \/ i = Len(feed) + 1
      BY <3>4
    <3>8. FeedDiffers'
      BY <1>1, <3>2, <3>4, <3>6, <3>7 DEF FeedDiffers, Speaks
    <3>9. Apart'
      BY <1>1, <2>1, <3>1, <3>4, <3>5 DEF Apart, Sent, Heard
    <3> QED
      BY <3>1, <3>8, <3>9
  <2> QED
    BY <2>2, <2>3
<1>7. CASE Interrupt
  <2> DEFINE e == [type |-> "stopped", generation |-> generation + 1]
  <2>1. /\ jobs' = <<>> /\ feed' = Append(feed, e) /\ UNCHANGED <<worker, job, pending, started>>
    BY <1>7 DEF Interrupt, dashboard, queue, playback
  <2>2. generation + 1 \in 0..MaxInterrupt
    BY <1>7, SpeechAssumption DEF Interrupt, SpeechInv, Numbered, TypeOK
  <2>3. e \in Event /\ e.type = "stopped"
    BY <2>2 DEF Event
  <2> HIDE DEF e
  <2>4. /\ Len(feed) \in Nat /\ Len(feed') = Len(feed) + 1
        /\ \A i \in 1..Len(feed) : feed'[i] = feed[i]
        /\ feed'[Len(feed) + 1] = e /\ OnWire' = OnWire
    BY <1>1, <2>1, <2>3, EventSent
  <2>5. \A i \in 1..Len(feed') : i \in 1..Len(feed) \/ i = Len(feed) + 1
    BY <2>4
  <2>6. FeedDiffers'
    BY <1>1, <2>3, <2>4, <2>5 DEF FeedDiffers, Speaks
  <2>7. JobsDiffer' /\ Queued' = {} /\ Making' = Making
    BY <2>1 DEF JobsDiffer, Queued, Making
  <2> QED
    BY <1>1, <2>1, <2>4, <2>6, <2>7 DEF Apart, Sent, Heard
<1>8. ASSUME UNCHANGED <<jobs, worker, job>> PROVE JobsDiffer' /\ Queued' = Queued /\ Making' = Making
  BY <1>1, <1>8 DEF JobsDiffer, Queued, Making
<1>9. ASSUME NEW S, S \subseteq pending \cup OnWire, pending' \subseteq S, OnWire' \subseteq OnWire,
             S \cap OnWire' = {}, UNCHANGED <<jobs, worker, job>>, TakesUpOf(S) \/ TakesUpNone
      PROVE  Apart'
  <2>1. \/ started' = started
        \/ \E c \in S : c \notin pending' /\ started' = started \cup {c}
    BY <1>9 DEF TakesUpOf, TakesUpNone
  <2>2. Queued' = Queued /\ Making' = Making
    BY <1>8, <1>9
  <2>3. S \cap started = {}
    BY <1>1, <1>9 DEF Apart, Heard
  <2> QED
    BY <1>1, <1>9, <2>1, <2>2, <2>3 DEF Apart, Sent, Heard
<1>10. CASE HearSpeech
  <2>1. /\ feed # <<>> /\ feed' = Tail(feed) /\ Speaks(1)
        /\ UNCHANGED <<jobs, worker, job>>
        /\ pending' \subseteq pending \cup {feed[1].clip}
        /\ TakesUpOf(pending \cup {feed[1].clip}) \/ TakesUpNone
    BY <1>10, ClipHeard DEF Speaks, host
  <2>2. FeedDiffers' /\ feed[1].clip \in OnWire /\ feed[1].clip \notin OnWire'
    BY <1>1, <2>1, StillDiffers
  <2>3. OnWire' \subseteq OnWire
    BY <1>1, <2>1, EventTaken
  <2>4. pending \cap OnWire' = {}
    BY <1>1, <2>3 DEF Apart, Heard
  <2>5. Apart'
    BY <1>9, <2>1, <2>2, <2>3, <2>4
  <2> QED
    BY <1>8, <2>1, <2>2, <2>5
<1>11. ASSUME Hush, OnWire' \subseteq OnWire, UNCHANGED <<jobs, worker, job>> PROVE Apart'
  <2>1. pending' = {} /\ started' = started
    BY <1>11 DEF Hush
  <2> QED
    BY <1>1, <1>8, <1>11, <2>1 DEF Apart, Sent, Heard
<1>12. CASE HearStopped
  <2>1. feed # <<>> /\ feed' = Tail(feed) /\ Hush /\ UNCHANGED <<jobs, worker, job>>
    BY <1>12 DEF HearStopped, host
  <2>2. FeedDiffers' /\ OnWire' \subseteq OnWire
    BY <1>1, <2>1, StillDiffers, EventTaken
  <2> QED
    BY <1>8, <1>11, <2>1, <2>2
<1>13. ASSUME UNCHANGED feed PROVE FeedDiffers' /\ OnWire' = OnWire
  BY <1>1, <1>13 DEF FeedDiffers, OnWire, Speaks
<1>14. CASE BargeIn
  BY <1>8, <1>11, <1>13, <1>14 DEF BargeIn, host
<1>15. CASE ClipOver
  <2>1. /\ UNCHANGED <<jobs, worker, job, feed>> /\ pending' \subseteq pending
        /\ TakesUpOf(pending) \/ TakesUpNone
    BY <1>15, ClipDone DEF host, wire
  <2>2. Apart'
    BY <1>1, <1>9, <1>13, <2>1 DEF Apart, Heard
  <2> QED
    BY <1>8, <1>13, <2>1, <2>2
<1>16. CASE Reconnect
  <2>1. UNCHANGED <<jobs, worker, job, pending, started>> /\ feed' = <<>>
    BY <1>16 DEF Reconnect, host, dashboard, queue, playback
  <2>2. FeedDiffers' /\ OnWire' = {}
    BY <2>1 DEF FeedDiffers, OnWire
  <2> QED
    BY <1>1, <1>8, <2>1, <2>2 DEF Apart, Sent, Heard
<1>17. ASSUME UNCHANGED <<jobs, worker, job, feed, pending, started>> PROVE JobsDiffer' /\ FeedDiffers' /\ Apart'
  BY <1>1, <1>8, <1>13, <1>17 DEF Apart, Sent, Heard
<1>18. CASE NextRun \/ Fetched \/ UNCHANGED vars
  BY <1>17, <1>18 DEF NextRun, Fetched, vars, host, wire, dashboard, queue, playback
<1> QED
  BY <1>2, <1>4, <1>5, <1>6, <1>7, <1>10, <1>12, <1>14, <1>15, <1>16, <1>18 DEF Next, Host, Hear

\* Every clip there is, wherever it is.
Known == Queued \cup Making \cup Sent

\* But for a new sentence, no step makes a clip.
LEMMA NothingNew ==
  ASSUME SpeechInv, [Next]_vars
  PROVE  \/ Say /\ Known' \subseteq Known \cup {Newest}
         \/ ~Say /\ Known' \subseteq Known
<1>1. jobs \in Seq(Clip) /\ feed \in Seq(Event) /\ idle \in BOOLEAN
  BY DEF SpeechInv, TypeOK
<1>2. CASE Say
  <2>1. jobs' = Append(jobs, Newest) /\ UNCHANGED <<job, feed, pending, started>>
        /\ (worker' = "synthesizing" <=> worker = "synthesizing")
    BY <1>2 DEF Say, Newest, wire, dashboard, queue, playback
  <2>2. Newest \in Clip
    BY <1>2, NewestIsNew DEF Say
  <2>3. Queued' \subseteq Queued \cup {Newest}
    <3> HIDE DEF Clip
    <3>1. /\ Len(jobs) \in Nat /\ Len(jobs') = Len(jobs) + 1
          /\ \A i \in 1..Len(jobs) : jobs'[i] = jobs[i]
          /\ jobs'[Len(jobs) + 1] = Newest
      BY <1>1, <2>1, <2>2, AppendProperties, LenProperties
    <3>2. \A i \in 1..Len(jobs') : i \in 1..Len(jobs) \/ i = Len(jobs) + 1
      BY <3>1
    <3> QED
      BY <3>1, <3>2 DEF Queued
  <2>4. Making' = Making /\ Sent' = Sent
    BY <2>1 DEF Making, Sent, OnWire, Heard, Speaks
  <2> QED
    BY <1>2, <2>3, <2>4 DEF Known
<1>3. CASE ~Say
  <2>1. ASSUME TakeJob, OnWire' \subseteq OnWire \cup Making, UNCHANGED <<pending, started>>
        PROVE  Known' \subseteq Known
    <3>1. Queued' \subseteq Queued /\ Making' \subseteq Queued
      BY <1>1, <2>1, JobTaken DEF SpeechInv, InOnePlace
    <3> QED
      BY <2>1, <3>1 DEF Known, Sent, Heard
  <2>2. ASSUME UNCHANGED feed PROVE OnWire' = OnWire
    BY <2>2 DEF OnWire, Speaks
  <2>3. CASE GetJob
    BY <2>1, <2>2, <2>3 DEF GetJob, wire, dashboard, queue, playback
  <2>4. CASE SynthesisFails
    BY <2>1, <2>2, <2>4 DEF SynthesisFails, AfterFailure, wire, dashboard, queue, playback
  <2>5. CASE Synthesize
    <3>1. TakeJob /\ UNCHANGED <<pending, started>> /\ job \in Making
      BY <2>5 DEF Synthesize, dashboard, queue, playback, Making
    <3>2. CASE ~StillWanted
      BY <2>1, <2>2, <2>5, <3>1, <3>2 DEF Synthesize
    <3>3. CASE StillWanted
      <4> DEFINE e == [type |-> "speech", clip |-> job]
      <4>1. e \in Event /\ e.type = "speech" /\ e.clip = job
        BY <2>5 DEF Synthesize, Event, SpeechInv, Numbered
      <4>2. feed' = Append(feed, e)
        BY <2>5, <3>3 DEF Synthesize
      <4> HIDE DEF e
      <4>3. OnWire' = OnWire \cup {job}
        BY <1>1, <4>1, <4>2, EventSent
      <4> QED
        BY <2>1, <3>1, <4>3
    <3> QED
      BY <3>2, <3>3
  <2>6. CASE Interrupt
    <3> DEFINE e == [type |-> "stopped", generation |-> generation + 1]
    <3>1. /\ jobs' = <<>> /\ feed' = Append(feed, e) /\ UNCHANGED <<worker, job, pending, started>>
      BY <2>6 DEF Interrupt, dashboard, queue, playback
    <3>2. generation + 1 \in 0..MaxInterrupt
      BY <2>6, SpeechAssumption DEF Interrupt, SpeechInv, Numbered, TypeOK
    <3>3. e \in Event /\ e.type = "stopped"
      BY <3>2 DEF Event
    <3> HIDE DEF e
    <3>4. OnWire' = OnWire
      BY <1>1, <3>1, <3>3, EventSent
    <3>5. Queued' = {} /\ Making' = Making
      BY <3>1 DEF Queued, Making
    <3> QED
      BY <3>1, <3>4, <3>5 DEF Known, Sent, Heard
  <2>7. ASSUME UNCHANGED <<jobs, worker, job>> PROVE Queued' = Queued /\ Making' = Making
    BY <2>7 DEF Queued, Making
  <2>8. ASSUME NEW S, S \subseteq pending \cup OnWire, pending' \subseteq S, OnWire' \subseteq OnWire,
               UNCHANGED <<jobs, worker, job>>, TakesUpOf(S) \/ TakesUpNone
        PROVE  Known' \subseteq Known
    <3>1. started' \subseteq started \cup S
      BY <2>8 DEF TakesUpOf, TakesUpNone
    <3> QED
      BY <2>7, <2>8, <3>1 DEF Known, Sent, Heard
  <2>9. CASE HearSpeech
    <3>1. /\ feed # <<>> /\ feed' = Tail(feed) /\ Speaks(1)
          /\ UNCHANGED <<jobs, worker, job>>
          /\ pending' \subseteq pending \cup {feed[1].clip}
          /\ TakesUpOf(pending \cup {feed[1].clip}) \/ TakesUpNone
      BY <2>9, ClipHeard DEF Speaks, host
    <3>2. feed[1].clip \in OnWire /\ OnWire' \subseteq OnWire
      BY <1>1, <3>1, StillDiffers, EventTaken, PlacesParts DEF SpeechInv
    <3> QED
      BY <2>8, <3>1, <3>2
  <2>10. CASE ClipOver
    <3>1. /\ UNCHANGED <<jobs, worker, job, feed>> /\ pending' \subseteq pending
          /\ TakesUpOf(pending) \/ TakesUpNone
      BY <2>10, ClipDone DEF host, wire
    <3> QED
      BY <2>2, <2>8, <3>1
  <2>11. ASSUME pending' \subseteq pending, started' = started, OnWire' \subseteq OnWire,
                UNCHANGED <<jobs, worker, job>>
         PROVE  Known' \subseteq Known
    BY <2>7, <2>11 DEF Known, Sent, Heard
  <2>12. CASE HearStopped
    <3>1. feed # <<>> /\ feed' = Tail(feed) /\ UNCHANGED <<jobs, worker, job, started>> /\ pending' = {}
      BY <2>12 DEF HearStopped, Hush, host
    <3>2. OnWire' \subseteq OnWire
      BY <1>1, <3>1, EventTaken
    <3> QED
      BY <2>11, <3>1, <3>2
  <2>13. CASE BargeIn
    BY <2>2, <2>11, <2>13 DEF BargeIn, Hush, host
  <2>14. CASE Reconnect
    <3>1. feed' = <<>> /\ UNCHANGED <<jobs, worker, job, pending, started>>
      BY <2>14 DEF Reconnect, host, dashboard, queue, playback
    <3>2. OnWire' = {}
      BY <3>1 DEF OnWire
    <3> QED
      BY <2>11, <3>1, <3>2
  <2>15. CASE NextRun \/ Fetched \/ UNCHANGED vars
    BY <2>2, <2>11, <2>15 DEF NextRun, Fetched, vars, host, wire, dashboard, queue, playback
  <2> QED
    BY <1>3, <2>3, <2>4, <2>5, <2>6, <2>9, <2>10, <2>12, <2>13, <2>14, <2>15 DEF Next, Host, Hear
<1> QED
  BY <1>2, <1>3

LEMMA NumberedStep == SpeechInv /\ [Next]_vars => Numbered'
<1> SUFFICES ASSUME SpeechInv, [Next]_vars PROVE Numbered'
  OBVIOUS
<1> USE SpeechAssumption
<1>1. /\ run \in Runs /\ said \in 0..MaxSentence /\ seq \in [Runs -> 0..MaxSentence]
      /\ generation \in Nat /\ stops \in Nat /\ interrupts \in Nat /\ feed \in Seq(Event)
      /\ seq[run] <= said /\ (\A r \in Runs : r > run => seq[r] = 0)
      /\ generation + stops <= interrupts
      /\ worker = "synthesizing" => job \in Clip
  BY DEF SpeechInv, TypeOK, Numbered
<1>2. Known \subseteq Clip
  <2>1. Queued \subseteq Clip /\ Making \subseteq Clip /\ Heard \subseteq Clip
    BY DEF SpeechInv, TypeOK, Numbered, Queued, Making, Heard
  <2>2. \A i \in 1..Len(feed) : feed[i] \in Event
    <3> HIDE DEF Event
    <3> QED
      BY <1>1
  <2>3. OnWire \subseteq Clip
    BY <2>2, EventKinds DEF OnWire, Speaks
  <2> QED
    BY <2>1, <2>3 DEF Known, Sent
<1>3. \A c \in Known : Old(c) /\ c.generation \in Nat /\ c.seq \in Nat /\ c.run \in Runs
  BY <1>2, ClipFields DEF Known, SpeechInv, Numbered
<1>4. Numbered' <=> /\ \A c \in Known' : Old(c)'
                    /\ run' \in Runs /\ seq'[run'] <= said' /\ \A r \in Runs : r > run' => seq'[r] = 0
                    /\ generation' + stops' <= interrupts'
                    /\ worker' = "synthesizing" => job' \in Clip
  BY DEF Numbered, Known
<1>5. CASE Say
  <2>1. /\ generation' = generation /\ seq' = [seq EXCEPT ![run] = @ + 1] /\ run' = run /\ said' = said + 1
        /\ UNCHANGED <<stops, interrupts, job>> /\ (worker' = "synthesizing" <=> worker = "synthesizing")
    BY <1>5 DEF Say, wire
  <2>2. Known' \subseteq Known \cup {Newest}
    BY <1>5, NothingNew
  <2>3. seq'[run] = seq[run] + 1 /\ \A r \in Runs : seq'[r] >= seq[r] /\ (r # run => seq'[r] = seq[r])
    BY <1>1, <2>1
  <2>5. ASSUME NEW c \in Known PROVE c.generation < generation' \/ (c.generation = generation' /\ c.seq < seq'[c.run])
    BY <1>1, <1>3, <2>1, <2>3 DEF Old
  <2>6. Newest.generation < generation' \/ (Newest.generation = generation' /\ Newest.seq < seq'[Newest.run])
    BY <1>1, <2>1, <2>3 DEF Newest
  <2>7. \A c \in Known' : Old(c)'
    BY <2>2, <2>5, <2>6 DEF Old
  <2>8. /\ run' \in Runs /\ seq'[run'] <= said' /\ \A r \in Runs : r > run' => seq'[r] = 0
        /\ generation' + stops' <= interrupts'
    BY <1>1, <2>1, <2>3 DEF Runs
  <2> QED
    BY <1>1, <1>4, <2>1, <2>7, <2>8
<1>6. CASE Interrupt
  <2>1. /\ generation' = generation + 1 /\ seq' = [r \in Runs |-> 0] /\ UNCHANGED <<run, said, interrupts, worker, job>>
        /\ stops > 0 /\ stops' = stops - 1
    BY <1>6 DEF Interrupt, hermes
  <2>2. Known' \subseteq Known
    <3>1. ~Say
      BY <1>1, <2>1 DEF Say
    <3> QED
      BY <3>1, NothingNew
  <2>3. \A c \in Known : c.generation < generation'
    BY <1>1, <1>3, <2>1 DEF Old
  <2>4. \A c \in Known' : Old(c)'
    BY <2>2, <2>3 DEF Old
  <2>5. /\ run' \in Runs /\ seq'[run'] <= said' /\ \A r \in Runs : r > run' => seq'[r] = 0
        /\ generation' + stops' <= interrupts'
    BY <1>1, <2>1
  <2> QED
    BY <1>1, <1>4, <2>1, <2>4, <2>5
<1>7. CASE ~Say /\ ~Interrupt
  <2>1. Known' \subseteq Known
    BY <1>7, NothingNew
  <2>2. /\ generation' = generation /\ seq' = seq
        /\ \/ run' = run /\ said' = said
           \/ run < MaxRun /\ run' = run + 1 /\ said' = 0
        /\ \/ interrupts' = interrupts /\ stops' = stops
           \/ interrupts' = interrupts + 1 /\ stops' \in {stops, stops + 1}
    BY <1>7, ClipHeard, ClipDone DEF Next, Host, Hear, NextRun, GetJob, Synthesize, SynthesisFails, HearSpeech, HearStopped, BargeIn,
                Fetched, ClipOver, Reconnect, vars, hermes, host, wire
  <2>3. worker' = "synthesizing" => job' \in Clip
    <3>1. CASE TakeJob
      BY <3>1, JobTaken DEF SpeechInv, TypeOK, InOnePlace
    <3>2. CASE UNCHANGED <<worker, job>>
      BY <1>1, <3>2
    <3> QED
      BY <1>7, <3>1, <3>2 DEF Next, Host, Hear, NextRun, GetJob, Synthesize, SynthesisFails, AfterFailure, HearSpeech,
                HearStopped, BargeIn, Fetched, ClipOver, Reconnect, vars, host
  <2>4. \A c \in Known' : Old(c)'
    BY <1>3, <2>1, <2>2 DEF Old
  <2>5. run' \in Runs /\ seq'[run'] <= said' /\ \A r \in Runs : r > run' => seq'[r] = 0
    <3>1. CASE run' = run /\ said' = said
      BY <1>1, <2>2, <3>1
    <3>2. CASE run < MaxRun /\ run' = run + 1 /\ said' = 0
      <4>1. run' \in Runs /\ run' > run /\ \A r \in Runs : r > run' => r > run
        BY <1>1, <3>2 DEF Runs
      <4> QED
        BY <1>1, <2>2, <3>2, <4>1
    <3> QED
      BY <2>2, <3>1, <3>2
  <2>6. generation' + stops' <= interrupts'
    BY <1>1, <2>2
  <2> QED
    BY <1>4, <2>3, <2>4, <2>5, <2>6
<1> QED
  BY <1>5, <1>6, <1>7

LEMMA EventOf ==
  ASSUME NEW e \in Event
  PROVE  /\ Of(e) \in Nat /\ (IsStop(e) <=> e.type # "speech")
         /\ e.type = "speech" => Of(e) = e.clip.generation
         /\ e.type # "speech" => Of(e) = e.generation
  BY EventKinds, ClipFields DEF Of, IsStop

LEMMA SortedStep == SpeechInv /\ [Next]_vars => Sorted'
<1> SUFFICES ASSUME SpeechInv, [Next]_vars PROVE Sorted'
  OBVIOUS
<1>1. /\ Sorted /\ feed \in Seq(Event) /\ generation \in Nat /\ silenced \in Nat
      /\ pending \subseteq Clip /\ generation \in 0..MaxInterrupt
  BY DEF SpeechInv, TypeOK
<1>2. Len(feed) \in Nat /\ \A i \in 1..Len(feed) : feed[i] \in Event /\ Of(feed[i]) \in Nat
  <2>1. Len(feed) \in Nat /\ \A i \in 1..Len(feed) : feed[i] \in Event
    <3> HIDE DEF Event
    <3> QED
      BY <1>1
  <2> QED
    BY <2>1, EventOf
<1>3. ASSUME UNCHANGED <<feed, generation, silenced>>, \A c \in pending' : silenced <= c.generation PROVE Sorted'
  BY <1>1, <1>3 DEF Sorted
<1>4. ASSUME NEW e \in Event, feed' = Append(feed, e), UNCHANGED <<silenced, pending>>, generation' \in Nat,
             Of(e) = generation', generation <= generation', IsStop(e) => generation < generation'
      PROVE  Sorted'
  <2>1. /\ Len(feed') = Len(feed) + 1
        /\ \A i \in 1..Len(feed) : feed'[i] = feed[i]
        /\ feed'[Len(feed) + 1] = e
    BY <1>1, <1>4, EventSent
  <2>2. \A i \in 1..Len(feed') : i \in 1..Len(feed) \/ i = Len(feed) + 1
    BY <1>2, <2>1
  <2>3. \A i \in 1..Len(feed') : /\ silenced <= Of(feed'[i]) /\ Of(feed'[i]) <= generation'
                                 /\ IsStop(feed'[i]) => silenced < Of(feed'[i])
    BY <1>1, <1>2, <1>4, <2>1, <2>2 DEF Sorted
  <2>4. ASSUME NEW i \in 1..Len(feed'), NEW j \in 1..Len(feed'), i < j
        PROVE  Of(feed'[i]) <= Of(feed'[j]) /\ (IsStop(feed'[j]) => Of(feed'[i]) < Of(feed'[j]))
    <3>1. i \in 1..Len(feed)
      BY <1>2, <2>1, <2>4
    <3>2. Of(feed[i]) <= generation /\ Of(feed[i]) \in Nat
      BY <1>1, <1>2, <3>1 DEF Sorted
    <3>3. CASE j \in 1..Len(feed)
      BY <1>1, <2>1, <2>4, <3>1, <3>3 DEF Sorted
    <3>4. CASE j = Len(feed) + 1
      BY <1>1, <1>4, <2>1, <3>1, <3>2, <3>4
    <3> QED
      BY <2>2, <3>3, <3>4
  <2>5. silenced' <= generation' /\ \A c \in pending' : silenced' <= c.generation
    BY <1>1, <1>4 DEF Sorted
  <2> QED
    BY <1>4, <2>3, <2>4, <2>5 DEF Sorted
<1>5. ASSUME feed # <<>>, feed' = Tail(feed), generation' = generation, silenced' \in Nat,
             silenced' <= generation, \A i \in 1..Len(feed') : silenced' <= Of(feed'[i]) /\ (IsStop(feed'[i]) => silenced' < Of(feed'[i])),
             \A c \in pending' : silenced' <= c.generation
      PROVE  Sorted'
  <2>1. /\ Len(feed') = Len(feed) - 1 /\ Len(feed) \in Nat \ {0}
        /\ \A i \in 1..Len(feed') : i + 1 \in 1..Len(feed) /\ feed'[i] = feed[i + 1]
    BY <1>1, <1>5, EventTaken
  <2>2. \A i, j \in 1..Len(feed') : i < j => Of(feed'[i]) <= Of(feed'[j]) /\ (IsStop(feed'[j]) => Of(feed'[i]) < Of(feed'[j]))
    <3> SUFFICES ASSUME NEW i \in 1..Len(feed'), NEW j \in 1..Len(feed'), i < j
                 PROVE  Of(feed'[i]) <= Of(feed'[j]) /\ (IsStop(feed'[j]) => Of(feed'[i]) < Of(feed'[j]))
      OBVIOUS
    <3>1. i + 1 < j + 1 /\ i + 1 \in 1..Len(feed) /\ j + 1 \in 1..Len(feed)
      BY <2>1
    <3> QED
      BY <1>1, <2>1, <3>1 DEF Sorted
  <2>3. \A i \in 1..Len(feed') : Of(feed'[i]) <= generation'
    BY <1>1, <1>5, <2>1 DEF Sorted
  <2> QED
    BY <1>5, <2>2, <2>3 DEF Sorted
<1>6. CASE Synthesize
  <2>1. UNCHANGED <<generation, silenced, pending>> /\ worker = "synthesizing"
    BY <1>6 DEF Synthesize, dashboard, queue
  <2>2. CASE ~StillWanted
    BY <1>1, <1>3, <1>6, <2>1, <2>2 DEF Synthesize, Sorted
  <2>3. CASE StillWanted
    <3> DEFINE e == [type |-> "speech", clip |-> job]
    <3>1. e \in Event /\ e.type = "speech" /\ e.clip = job
      BY <2>1 DEF Event, SpeechInv, Numbered
    <3>2. feed' = Append(feed, e) /\ job.generation = generation
      BY <1>6, <2>3 DEF Synthesize, StillWanted, Wanted
    <3> HIDE DEF e
    <3>3. Of(e) = generation /\ ~IsStop(e)
      BY <3>1, <3>2, EventOf
    <3> QED
      BY <1>1, <1>4, <2>1, <3>1, <3>2, <3>3
  <2> QED
    BY <2>2, <2>3
<1>7. CASE Interrupt
  <2> DEFINE e == [type |-> "stopped", generation |-> generation + 1]
  <2>1. /\ feed' = Append(feed, e) /\ UNCHANGED <<pending, silenced>> /\ generation' = generation + 1
    BY <1>7 DEF Interrupt, dashboard, queue
  <2>2. generation + 1 \in 0..MaxInterrupt
    BY <1>7, SpeechAssumption DEF Interrupt, SpeechInv, Numbered, TypeOK
  <2>3. e \in Event /\ e.type = "stopped" /\ e.generation = generation + 1
    BY <2>2 DEF Event
  <2> HIDE DEF e
  <2>4. Of(e) = generation + 1
    BY <2>3, EventOf
  <2> QED
    BY <1>1, <1>4, <2>1, <2>3, <2>4
<1>8. CASE HearSpeech
  <2>1. /\ feed # <<>> /\ feed' = Tail(feed) /\ feed[1].type = "speech"
        /\ UNCHANGED <<generation, silenced>> /\ pending' \subseteq pending \cup {feed[1].clip}
    BY <1>8, ClipHeard DEF host
  <2>2. 1 \in 1..Len(feed) /\ \A i \in 1..Len(feed') : i + 1 \in 1..Len(feed) /\ feed'[i] = feed[i + 1]
    BY <1>1, <2>1, EventTaken
  <2>3. silenced <= feed[1].clip.generation
    BY <1>1, <1>2, <2>1, <2>2, EventOf DEF Sorted
  <2> QED
    BY <1>1, <1>5, <2>1, <2>2, <2>3 DEF Sorted
<1>9. CASE HearStopped
  <2>1. /\ feed # <<>> /\ feed' = Tail(feed) /\ Head(feed).type = "stopped" /\ silenced' = Head(feed).generation
        /\ generation' = generation /\ pending' = {}
    BY <1>9 DEF HearStopped, Hush, host
  <2>2. /\ 1 \in 1..Len(feed) /\ Head(feed) = feed[1]
        /\ \A i \in 1..Len(feed') : i + 1 \in 1..Len(feed) /\ feed'[i] = feed[i + 1]
    BY <1>1, <2>1, EventTaken
  <2>3. silenced' = Of(feed[1])
    BY <1>2, <2>1, <2>2, EventOf
  <2>4. \A i \in 1..Len(feed') : 1 < i + 1
    BY <1>2, <2>2
  <2>5. \A i \in 1..Len(feed') : silenced' <= Of(feed'[i]) /\ (IsStop(feed'[i]) => silenced' < Of(feed'[i]))
    BY <1>1, <2>2, <2>3, <2>4 DEF Sorted
  <2>6. silenced' <= generation /\ silenced' \in Nat
    BY <1>1, <1>2, <2>2, <2>3 DEF Sorted
  <2> QED
    BY <1>5, <2>1, <2>5, <2>6
<1>10. CASE Reconnect
  BY <1>1, <1>10 DEF Reconnect, Sorted, host, dashboard, queue
<1>11. CASE ClipOver
  <2>1. UNCHANGED <<feed, generation, silenced>> /\ pending' \subseteq pending
    BY <1>11, ClipDone DEF host, wire
  <2> QED
    BY <1>1, <1>3, <2>1 DEF Sorted
<1>12. CASE BargeIn
  BY <1>3, <1>12 DEF BargeIn, Hush, host
<1>13. CASE Say \/ NextRun \/ GetJob \/ SynthesisFails \/ Fetched \/ UNCHANGED vars
  <2>1. UNCHANGED <<feed, generation, silenced, pending>>
    BY <1>13 DEF Say, NextRun, GetJob, SynthesisFails, Fetched, vars, host, wire, dashboard, queue
  <2> QED
    BY <1>1, <1>3, <2>1 DEF Sorted
<1> QED
  BY <1>6, <1>7, <1>8, <1>9, <1>10, <1>11, <1>12, <1>13 DEF Next, Host, Hear

\* The parts of Told, each of them about the wire or about the dashboard.
GenerationTold == generation = silenced \/ \E j \in 1..Len(feed) : IsStop(feed[j]) /\ Of(feed[j]) = generation

ClipsTold ==
  \A i \in 1..Len(feed) :
    Speaks(i) => Of(feed[i]) = silenced \/ \E j \in 1..(i - 1) : IsStop(feed[j]) /\ Of(feed[j]) = Of(feed[i])

DashboardTold ==
  /\ \A c \in pending : c.generation = silenced
  /\ \A r \in Runs :
       nextSeq[r] > 0 => [run |-> r, seq |-> nextSeq[r] - 1, generation |-> silenced] \in started

LEMMA ToldParts == Told <=> (drops = 0 => GenerationTold /\ ClipsTold /\ DashboardTold)
  BY DEF Told, GenerationTold, ClipsTold, DashboardTold

LEMMA ToldStep == SpeechInv /\ [Next]_vars => Told'
<1> SUFFICES ASSUME SpeechInv, [Next]_vars, drops' = 0
             PROVE  GenerationTold' /\ ClipsTold' /\ DashboardTold'
  BY DEF Told, GenerationTold, ClipsTold, DashboardTold
<1>1. /\ Sorted /\ feed \in Seq(Event) /\ generation \in Nat /\ silenced \in Nat /\ drops \in Nat
      /\ DashboardTyped
  BY DEF SpeechInv, TypeOK, DashboardTyped
<1>2. Len(feed) \in Nat /\ \A i \in 1..Len(feed) : feed[i] \in Event /\ Of(feed[i]) \in Nat
  <2>1. Len(feed) \in Nat /\ \A i \in 1..Len(feed) : feed[i] \in Event
    <3> HIDE DEF Event
    <3> QED
      BY <1>1
  <2> QED
    BY <2>1, EventOf
<1>3. drops = 0 /\ ~Reconnect
  <2>1. ~Reconnect
    BY <1>1 DEF Reconnect
  <2>2. drops' = drops
    BY <2>1, ClipHeard, ClipDone
    DEF Next, Host, Hear, Say, NextRun, GetJob, Synthesize, SynthesisFails, Interrupt, HearStopped, BargeIn, Fetched, vars, wire
  <2> QED
    BY <2>1, <2>2
<1>4. GenerationTold /\ ClipsTold /\ DashboardTold
  BY <1>3, ToldParts DEF SpeechInv
<1>5. ASSUME UNCHANGED <<feed, generation, silenced>> PROVE GenerationTold' /\ ClipsTold'
  BY <1>4, <1>5 DEF GenerationTold, ClipsTold, Speaks
<1>6. ASSUME UNCHANGED <<pending, nextSeq, started, silenced>> PROVE DashboardTold'
  BY <1>4, <1>6 DEF DashboardTold
<1>7. ASSUME Hush PROVE DashboardTold'
  BY <1>1, <1>7, Hushed DEF DashboardTold
<1>8. ASSUME NEW S, S \subseteq Clip, \A c \in S : c.generation = silenced, pending' \subseteq S,
             silenced' = silenced, TakesUpOf(S) \/ TakesUpNone
      PROVE  DashboardTold'
  <2>1. CASE TakesUpNone
    BY <1>4, <1>8, <2>1 DEF DashboardTold, TakesUpNone
  <2>2. CASE TakesUpOf(S)
    <3>1. PICK c \in S : nextSeq' = [nextSeq EXCEPT ![c.run] = c.seq + 1] /\ started' = started \cup {c}
      BY <2>2 DEF TakesUpOf
    <3>2. /\ c.run \in Runs /\ c.seq \in Nat
          /\ c = [run |-> c.run, seq |-> c.seq, generation |-> silenced]
      BY <1>8, ClipFields
    <3>3. ASSUME NEW r \in Runs, nextSeq'[r] > 0
          PROVE  [run |-> r, seq |-> nextSeq'[r] - 1, generation |-> silenced] \in started'
      <4>1. CASE r = c.run
        <5>1. nextSeq'[r] = c.seq + 1
          BY <1>1, <3>1, <3>2, <4>1 DEF DashboardTyped
        <5>2. nextSeq'[r] - 1 = c.seq
          BY <3>2, <5>1
        <5> QED
          BY <3>1, <3>2, <4>1, <5>2
      <4>2. CASE r # c.run
        <5>1. nextSeq'[r] = nextSeq[r]
          BY <1>1, <3>1, <4>2 DEF DashboardTyped
        <5> QED
          BY <1>4, <3>1, <3>3, <5>1 DEF DashboardTold
      <4> QED
        BY <4>1, <4>2
    <3> QED
      BY <1>8, <3>3 DEF DashboardTold
  <2> QED
    BY <1>8, <2>1, <2>2
<1>9. CASE Synthesize
  <2>1. UNCHANGED <<generation, silenced, pending, nextSeq, started>> /\ worker = "synthesizing"
    BY <1>9 DEF Synthesize, dashboard, queue, playback
  <2>2. CASE ~StillWanted
    BY <1>5, <1>6, <1>9, <2>1, <2>2 DEF Synthesize
  <2>3. CASE StillWanted
    <3> DEFINE e == [type |-> "speech", clip |-> job]
    <3>1. e \in Event /\ e.type = "speech" /\ e.clip = job
      BY <2>1 DEF Event, SpeechInv, Numbered
    <3>2. feed' = Append(feed, e) /\ job.generation = generation
      BY <1>9, <2>3 DEF Synthesize, StillWanted, Wanted
    <3> HIDE DEF e
    <3>3. Of(e) = generation
      BY <3>1, <3>2, EventOf
    <3>4. /\ Len(feed') = Len(feed) + 1
          /\ \A i \in 1..Len(feed) : feed'[i] = feed[i]
          /\ feed'[Len(feed) + 1] = e
      BY <1>1, <3>1, <3>2, EventSent
    <3>5. \A i \in 1..Len(feed) : i \in 1..Len(feed')
      BY <1>2, <3>4
    <3>6. generation = silenced \/ \E j \in 1..Len(feed) : IsStop(feed'[j]) /\ Of(feed'[j]) = generation
      BY <1>4, <3>4 DEF GenerationTold
    <3>7. GenerationTold'
      BY <2>1, <3>5, <3>6 DEF GenerationTold
    <3>8. ASSUME NEW i \in 1..Len(feed'), feed'[i].type = "speech"
          PROVE  Of(feed'[i]) = silenced \/ \E j \in 1..(i - 1) : IsStop(feed'[j]) /\ Of(feed'[j]) = Of(feed'[i])
      <4>1. CASE i = Len(feed) + 1
        <5>1. i - 1 = Len(feed)
          BY <1>2, <4>1
        <5> QED
          BY <3>3, <3>4, <3>6, <4>1, <5>1
      <4>2. CASE i \in 1..Len(feed)
        <5>1. \A j \in 1..(i - 1) : j \in 1..Len(feed)
          BY <1>2, <4>2
        <5> QED
          BY <1>4, <3>4, <3>8, <4>2, <5>1 DEF ClipsTold, Speaks
      <4> QED
        BY <1>2, <3>4, <4>1, <4>2
    <3>9. ClipsTold'
      BY <2>1, <3>8 DEF ClipsTold, Speaks
    <3> QED
      BY <1>6, <2>1, <3>7, <3>9
  <2> QED
    BY <2>2, <2>3
<1>10. CASE Interrupt
  <2> DEFINE e == [type |-> "stopped", generation |-> generation + 1]
  <2>1. /\ feed' = Append(feed, e) /\ UNCHANGED <<pending, nextSeq, started, silenced>> /\ generation' = generation + 1
    BY <1>10 DEF Interrupt, dashboard, queue, playback
  <2>2. generation + 1 \in 0..MaxInterrupt
    BY <1>10, SpeechAssumption DEF Interrupt, SpeechInv, Numbered, TypeOK
  <2>3. e \in Event /\ e.type = "stopped" /\ e.generation = generation + 1
    BY <2>2 DEF Event
  <2> HIDE DEF e
  <2>4. Of(e) = generation' /\ IsStop(e) /\ e.type # "speech"
    BY <2>1, <2>3, EventOf DEF IsStop
  <2>5. /\ Len(feed') = Len(feed) + 1
        /\ \A i \in 1..Len(feed) : feed'[i] = feed[i]
        /\ feed'[Len(feed) + 1] = e
    BY <1>1, <2>1, <2>3, EventSent
  <2>6. GenerationTold'
    <3>1. Len(feed) + 1 \in 1..Len(feed')
      BY <1>2, <2>5
    <3> QED
      BY <2>4, <2>5, <3>1 DEF GenerationTold
  <2>7. ASSUME NEW i \in 1..Len(feed'), feed'[i].type = "speech"
        PROVE  Of(feed'[i]) = silenced \/ \E j \in 1..(i - 1) : IsStop(feed'[j]) /\ Of(feed'[j]) = Of(feed'[i])
    <3>1. i \in 1..Len(feed)
      BY <1>2, <2>4, <2>5, <2>7
    <3>2. \A j \in 1..(i - 1) : j \in 1..Len(feed)
      BY <1>2, <3>1
    <3> QED
      BY <1>4, <2>5, <2>7, <3>1, <3>2 DEF ClipsTold, Speaks
  <2>8. ClipsTold'
    BY <2>1, <2>7 DEF ClipsTold, Speaks
  <2> QED
    BY <1>6, <2>1, <2>6, <2>8
<1>11. ASSUME feed # <<>>, feed' = Tail(feed), generation' = generation,
              silenced' = (IF feed[1].type = "speech" THEN silenced ELSE Of(feed[1])),
              feed[1].type = "speech" => Of(feed[1]) = silenced
       PROVE  GenerationTold' /\ ClipsTold'
  <2>1. /\ Len(feed') = Len(feed) - 1 /\ 1 \in 1..Len(feed)
        /\ \A i \in 1..Len(feed') : i + 1 \in 1..Len(feed) /\ feed'[i] = feed[i + 1]
    BY <1>1, <1>11, EventTaken
  \* whatever a stop in the feed has told of, the rest of it tells of, or it is the first
  <2>2. ASSUME NEW n \in 1..Len(feed), NEW g \in Nat, Of(feed[1]) <= g,
               g = silenced \/ \E j \in 1..n : IsStop(feed[j]) /\ Of(feed[j]) = g
        PROVE  g = silenced' \/ \E j \in 1..(n - 1) : IsStop(feed'[j]) /\ Of(feed'[j]) = g
    <3>1. CASE g = silenced
      <4>1. IsStop(feed[1]) => silenced < Of(feed[1])
        BY <1>1, <2>1 DEF Sorted
      <4>2. ~IsStop(feed[1])
        BY <1>1, <1>2, <2>1, <2>2, <3>1, <4>1
      <4>3. feed[1].type = "speech"
        BY <1>2, <2>1, <4>2, EventOf
      <4> QED
        BY <1>11, <3>1, <4>3
    <3>2. ASSUME NEW j \in 1..n, IsStop(feed[j]), Of(feed[j]) = g
          PROVE  g = silenced' \/ \E k \in 1..(n - 1) : IsStop(feed'[k]) /\ Of(feed'[k]) = g
      <4>1. CASE j = 1
        BY <1>2, <1>11, <2>1, <3>2, <4>1, EventOf
      <4>2. CASE j # 1
        <5>1. j - 1 \in 1..(n - 1) /\ j - 1 \in 1..Len(feed') /\ (j - 1) + 1 = j
          BY <1>2, <2>1, <4>2
        <5>2. feed'[j - 1] = feed[j]
          BY <2>1, <5>1
        <5> QED
          BY <3>2, <5>1, <5>2
      <4> QED
        BY <4>1, <4>2
    <3> QED
      BY <2>2, <3>1, <3>2
  <2>3. GenerationTold'
    <3>1. Len(feed) \in 1..Len(feed) /\ Of(feed[1]) <= generation
      BY <1>1, <1>2, <2>1 DEF Sorted
    <3>2. generation = silenced \/ \E j \in 1..Len(feed) : IsStop(feed[j]) /\ Of(feed[j]) = generation
      BY <1>4 DEF GenerationTold
    <3>3. generation = silenced' \/ \E j \in 1..(Len(feed) - 1) : IsStop(feed'[j]) /\ Of(feed'[j]) = generation
      BY <1>1, <2>2, <3>1, <3>2
    <3> QED
      BY <1>11, <2>1, <3>3 DEF GenerationTold
  <2>4. ASSUME NEW i \in 1..Len(feed'), feed'[i].type = "speech"
        PROVE  Of(feed'[i]) = silenced' \/ \E j \in 1..(i - 1) : IsStop(feed'[j]) /\ Of(feed'[j]) = Of(feed'[i])
    <3>1. i + 1 \in 1..Len(feed) /\ feed'[i] = feed[i + 1] /\ (i + 1) - 1 = i /\ 1 < i + 1 /\ i \in 1..Len(feed)
      BY <1>2, <2>1
    <3>2. Of(feed[1]) <= Of(feed[i + 1]) /\ Of(feed[i + 1]) \in Nat
      BY <1>1, <1>2, <2>1, <3>1 DEF Sorted
    <3>3. Of(feed[i + 1]) = silenced \/ \E j \in 1..i : IsStop(feed[j]) /\ Of(feed[j]) = Of(feed[i + 1])
      BY <1>4, <2>4, <3>1 DEF ClipsTold, Speaks
    <3>4. Of(feed[i + 1]) = silenced' \/ \E j \in 1..(i - 1) : IsStop(feed'[j]) /\ Of(feed'[j]) = Of(feed[i + 1])
      BY <2>2, <3>1, <3>2, <3>3
    <3> QED
      BY <3>1, <3>4
  <2>5. ClipsTold'
    BY <2>4 DEF ClipsTold, Speaks
  <2> QED
    BY <2>3, <2>5
<1>12. CASE HearSpeech
  <2>1. /\ feed # <<>> /\ feed' = Tail(feed) /\ feed[1].type = "speech" /\ feed[1].clip \in Clip
        /\ UNCHANGED <<generation, silenced>> /\ pending' \subseteq pending \cup {feed[1].clip}
        /\ TakesUpOf(pending \cup {feed[1].clip}) \/ TakesUpNone
    BY <1>12, ClipHeard DEF host
  <2>2. 1 \in 1..Len(feed) /\ Of(feed[1]) = feed[1].clip.generation
    BY <1>1, <1>2, <2>1, EventTaken, EventOf
  <2>3. Of(feed[1]) = silenced
    BY <1>4, <2>1, <2>2 DEF ClipsTold, Speaks
  <2>4. DashboardTold'
    <3> DEFINE S == pending \cup {feed[1].clip}
    <3>1. S \subseteq Clip /\ \A c \in S : c.generation = silenced
      BY <1>1, <1>4, <2>1, <2>2, <2>3 DEF DashboardTyped, DashboardTold
    <3> HIDE DEF S
    <3> QED
      BY <1>8, <2>1, <3>1 DEF S
  <2> QED
    BY <1>11, <2>1, <2>3, <2>4
<1>13. CASE HearStopped
  <2>1. /\ feed # <<>> /\ feed' = Tail(feed) /\ Head(feed).type = "stopped" /\ silenced' = Head(feed).generation
        /\ generation' = generation /\ Hush
    BY <1>13 DEF HearStopped, host
  <2>2. Head(feed) = feed[1] /\ feed[1] \in Event
    BY <1>1, <2>1, EventTaken
  <2>3. feed[1].type # "speech" /\ silenced' = Of(feed[1])
    BY <2>1, <2>2, EventOf
  <2> QED
    BY <1>7, <1>11, <2>1, <2>3
<1>14. CASE ClipOver
  <2>1. UNCHANGED <<feed, generation, silenced>> /\ pending' \subseteq pending /\ (TakesUpOf(pending) \/ TakesUpNone)
    BY <1>14, ClipDone DEF host, wire
  <2> QED
    BY <1>1, <1>4, <1>5, <1>8, <2>1 DEF DashboardTyped, DashboardTold
<1>15. CASE BargeIn
  BY <1>5, <1>7, <1>15 DEF BargeIn, host
<1>16. CASE Say \/ NextRun \/ GetJob \/ SynthesisFails \/ Fetched \/ UNCHANGED vars
  <2>1. UNCHANGED <<feed, generation, silenced, pending, nextSeq, started>>
    BY <1>16 DEF Say, NextRun, GetJob, SynthesisFails, Fetched, vars, host, wire, dashboard, queue, playback
  <2> QED
    BY <1>5, <1>6, <2>1
<1> QED
  BY <1>3, <1>9, <1>10, <1>12, <1>13, <1>14, <1>15, <1>16 DEF Next, Host, Hear

LEMMA ListedStep == SpeechInv /\ [Next]_vars => Listed' /\ NothingDueIsLeft'
<1> SUFFICES ASSUME SpeechInv, [Next]_vars PROVE Listed' /\ NothingDueIsLeft'
  OBVIOUS
<1>1. Listed /\ NothingDueIsLeft /\ DashboardTyped
  BY DEF SpeechInv, TypeOK, DashboardTyped
<1>2. ASSUME UNCHANGED queue, player' # player => player' # "quiet" PROVE Listed' /\ NothingDueIsLeft'
  BY <1>1, <1>2 DEF Listed, NothingDueIsLeft, queue
<1>3. CASE HearSpeech
  BY <1>3, ClipHeard
<1>4. CASE ClipOver
  BY <1>4, ClipDone
<1>5. CASE HearStopped \/ BargeIn
  BY <1>1, <1>5, Hushed DEF HearStopped, BargeIn
<1>6. CASE ~(HearSpeech \/ ClipOver \/ HearStopped \/ BargeIn)
  BY <1>2, <1>6
  DEF Next, Host, Hear, Say, NextRun, GetJob, Synthesize, SynthesisFails, Interrupt, Fetched, Reconnect, vars, dashboard, playback
<1> QED
  BY <1>3, <1>4, <1>5, <1>6

LEMMA SpeechStart == Init => SpeechInv
<1> SUFFICES ASSUME Init PROVE SpeechInv
  OBVIOUS
<1> USE SpeechAssumption DEF Init
<1>1. HostTyped /\ WireTyped /\ DashboardTyped
  <2>1. <<>> \in Seq(Clip) /\ Len(<<>>) = 0 /\ <<>> \in Seq(Event) /\ <<>> \in Seq(Runs)
    BY EmptySeq
  <2> HIDE DEF Clip, Event
  <2> QED
    BY <2>1 DEF HostTyped, WireTyped, DashboardTyped
<1>2. Queued = {} /\ Making = {} /\ OnWire = {} /\ Heard = {}
  BY DEF Queued, Making, OnWire, Heard
<1>3. InOnePlace
  BY <1>2 DEF InOnePlace, Sent
<1>4. Numbered
  BY <1>2 DEF Numbered, Sent, Runs
<1>5. Sorted /\ Told /\ Listed /\ NothingDueIsLeft
  BY DEF Sorted, Told, Listed, NothingDueIsLeft
<1> QED
  BY <1>1, <1>3, <1>4, <1>5, TypeParts DEF SpeechInv

LEMMA SpeechStep == SpeechInv /\ [Next]_vars => SpeechInv'
  BY TypeStep, PlacesStep, NumberedStep, SortedStep, ToldStep, ListedStep DEF SpeechInv

LEMMA SpeechInvariance == Spec => []SpeechInv
  BY SpeechStart, SpeechStep, PTL DEF Spec

\* A clip is taken up from those that wait, or as it arrives.
LEMMA WhichIsTakenUp ==
  ASSUME SpeechInv, [Next]_vars, clip' # clip, clip' # None
  PROVE  /\ clip' \in Clip /\ clip' \notin started /\ clip'.generation >= silenced
         /\ clip'.seq = nextSeq[clip'.run]
         /\ drops' = 0 => drops = 0 /\ clip'.generation = silenced
<1>1. /\ feed \in Seq(Event) /\ pending \subseteq Clip /\ silenced \in Nat
  BY DEF SpeechInv, TypeOK
<1>2. CASE HearSpeech
  <2>1. /\ feed # <<>> /\ feed' = Tail(feed) /\ feed[1].type = "speech" /\ feed[1].clip \in Clip
        /\ drops' = drops /\ TakesUpOf(pending \cup {feed[1].clip})
    BY <1>2, ClipHeard DEF TakesUpNone
  <2>2. clip' \in pending \cup {feed[1].clip} /\ clip'.seq = nextSeq[clip'.run]
    BY <2>1 DEF TakesUpOf
  <2>3. 1 \in 1..Len(feed) /\ feed[1] \in Event
    BY <1>1, <2>1, EventTaken
  <2>4. feed[1].clip \in OnWire
    BY <2>1, <2>3 DEF OnWire, Speaks
  <2>5. clip' \notin started
    BY <2>2, <2>4 DEF SpeechInv, InOnePlace, Heard
  <2>6. feed[1].clip.generation >= silenced
    BY <2>1, <2>3, EventOf DEF SpeechInv, Sorted
  <2>7. \A c \in pending : c.generation >= silenced
    BY <1>1, ClipFields DEF SpeechInv, Sorted
  <2>8. drops = 0 => feed[1].clip.generation = silenced /\ \A c \in pending : c.generation = silenced
    BY <2>1, <2>3, EventOf DEF SpeechInv, Told, Speaks
  <2> QED
    BY <1>1, <2>1, <2>2, <2>5, <2>6, <2>7, <2>8
<1>3. CASE ClipOver
  <2>1. drops' = drops /\ TakesUpOf(pending)
    BY <1>3, ClipDone DEF TakesUpNone, wire
  <2>2. clip' \in pending /\ clip'.seq = nextSeq[clip'.run]
    BY <2>1 DEF TakesUpOf
  <2>3. clip' \notin started
    BY <2>2 DEF SpeechInv, InOnePlace
  <2>4. clip'.generation >= silenced /\ (drops = 0 => clip'.generation = silenced)
    BY <1>1, <2>2, ClipFields DEF SpeechInv, Sorted, Told
  <2> QED
    BY <1>1, <2>1, <2>2, <2>3, <2>4
<1>4. HearSpeech \/ ClipOver
  BY DEF Next, Host, Hear, Say, NextRun, GetJob, Synthesize, SynthesisFails, Interrupt, HearStopped, BargeIn, Hush,
         Fetched, Reconnect, vars, dashboard, playback
<1> QED
  BY <1>2, <1>3, <1>4

-----------------------------------------------------------------------------
(* Theorems *)

\* Every variable keeps its type, and the clip store its bound (VoiceHost._run).
THEOREM SpeechTyped == Spec => []TypeOK
<1>1. SpeechInv => TypeOK
  BY DEF SpeechInv
<1> QED
  BY SpeechInvariance, <1>1, PTL

\* A clip is in one place at a time on its way from the queue of the host to the
\* loudspeaker, and no two sentences ever make the same one.
THEOREM ClipsAreOnce == Spec => []InOnePlace
<1>1. SpeechInv => InOnePlace
  BY DEF SpeechInv
<1> QED
  BY SpeechInvariance, <1>1, PTL

\* Clips are taken up once each and in the order of their sentences, unless an
\* event was lost, and none whose turn it is waits for a pump that sleeps
\* (handle, takeNext and pump of SpeechQueue).
THEOREM ClipsPlayInOrder == Spec => PlaysInOrder
<1>1. SpeechInv /\ [Next]_vars => NothingDueIsLeft' /\ (clip' # clip /\ clip' # None /\ drops' = 0 => InOrder)
  <2> SUFFICES ASSUME SpeechInv, [Next]_vars, clip' # clip, clip' # None, drops' = 0 PROVE InOrder
    BY ListedStep
  <2>1. /\ clip' \in Clip /\ clip' \notin started /\ clip'.seq = nextSeq[clip'.run]
        /\ drops = 0 /\ clip'.generation = silenced
    BY WhichIsTakenUp
  <2> DEFINE c == clip'
  <2>2. c \in Clip
    BY <2>1
  <2> HIDE DEF c
  <2>3. c.run \in Runs /\ c.seq \in Nat /\ c = [run |-> c.run, seq |-> c.seq, generation |-> c.generation]
    BY <2>2, ClipFields
  <2>4. ASSUME c.seq > 0 PROVE [c EXCEPT !.seq = @ - 1] \in started
    <3>1. [run |-> c.run, seq |-> nextSeq[c.run] - 1, generation |-> silenced] \in started
      BY <2>1, <2>3, <2>4 DEF SpeechInv, Told, c
    <3>2. [c EXCEPT !.seq = @ - 1] = [run |-> c.run, seq |-> c.seq - 1, generation |-> c.generation]
      BY <2>3
    <3> QED
      BY <2>1, <3>1, <3>2 DEF c
  <2> QED
    BY <2>1, <2>4 DEF InOrder, c
<1> QED
  BY SpeechInvariance, <1>1, PTL DEF Spec, PlaysInOrder

\* Once the dashboard was told of a stop, no clip from before it is taken up
\* (_interrupt of VoiceHost, handle of SpeechQueue).
THEOREM StopsAreFinal == Spec => StopIsFinal
<1>1. SpeechInv /\ [Next]_vars => ((clip' # clip /\ clip' # None) => clip'.generation >= silenced)
  BY WhichIsTakenUp
<1> QED
  BY SpeechInvariance, <1>1, PTL DEF Spec, StopIsFinal
=============================================================================
