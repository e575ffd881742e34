------------------------------ MODULE Recorder ------------------------------
(***************************************************************************)
(* The click-to-talk recorder of a dashboard: start, stop and unmount of   *)
(* useVoice.ts around the two awaits of start, the capture (micCapture.ts) *)
(* and the detector that ends a recording by itself (silence.ts).          *)
(*                                                                         *)
(* A start is numbered.  Time passes with the chunks of sound: one unit    *)
(* from a chunk to the next.                                               *)
(***************************************************************************)
EXTENDS Integers

CONSTANTS
  MaxStarts,                  \* bound on the starts
  MaxTalk,                    \* bound on the chunks with speech in them
  HoldTime, MinSpeech, MaxWait  \* SILENCE: holdMs, minSpeechMs, maxMs

ASSUME RecorderAssumption == {MaxStarts, MaxTalk, HoldTime, MinSpeech, MaxWait} \subseteq Nat

Starts == 1..MaxStarts

VARIABLES
  mounted,
  starts,
  current,    \* the start whose token is the generation; 0 when cancelled
  starting,   \* starting.current
  attempt,    \* how far each start is: new, asking, opening, over
  mic,        \* its stream: off, open
  media,      \* the start whose media are kept; 0 for none
  busy,       \* a recording is being transcribed
  heard,      \* SilenceDetector
  talk,       \* chunks with speech so far
  broken      \* starts whose capture could not be opened (history)

recorderVars == <<mounted, starts, current, starting, attempt, mic, media, busy, heard, talk, broken>>

-----------------------------------------------------------------------------
(* SilenceDetector *)

\* `since` runs from the last speech, or from the first chunk when there was none.
Detector == [fed : BOOLEAN, spoke : BOOLEAN, said : 0..MinSpeech, since : 0..(HoldTime + MaxWait)]
Unfed    == [fed |-> FALSE, spoke |-> FALSE, said |-> 0, since |-> 0]

Upto(most, n) == IF n > most THEN most ELSE n

Feed(h, speech) ==
  LET dt == IF h.fed THEN 1 ELSE 0 IN
  IF speech
  THEN [fed |-> TRUE, spoke |-> TRUE, said |-> Upto(MinSpeech, h.said + dt), since |-> 0]
  ELSE [h EXCEPT !.fed = TRUE, !.since = Upto(HoldTime + MaxWait, @ + dt)]

Sends(h)    == h.spoke /\ h.said >= MinSpeech /\ h.since >= HoldTime
TimesOut(h)    == ~h.spoke /\ h.since >= MaxWait

-----------------------------------------------------------------------------
(* start *)

StartTalking ==
  /\ mounted /\ starts < MaxStarts
  /\ media = 0 /\ ~starting /\ ~busy
  /\ starting' = TRUE
  /\ starts' = starts + 1 /\ current' = starts + 1
  /\ attempt' = [attempt EXCEPT ![starts + 1] = "asking"]
  /\ UNCHANGED <<mounted, mic, media, busy, heard, talk, broken>>

MutantCancelled(t) == FALSE
Cancelled(t) == t # current

\* The finally of start.
Over(t) ==
  /\ attempt' = [attempt EXCEPT ![t] = "over"]
  /\ starting' = (starting /\ Cancelled(t))

\* getUserMedia: refused, too late, or in time.
Denied(t) ==
  /\ attempt[t] = "asking"
  /\ Over(t)
  /\ UNCHANGED <<mounted, starts, current, mic, media, busy, heard, talk, broken>>

GrantedLate(t) ==
  /\ attempt[t] = "asking" /\ Cancelled(t)
  /\ Over(t) \* its tracks are stopped at once
  /\ UNCHANGED <<mounted, starts, current, mic, media, busy, heard, talk, broken>>

Granted(t) ==
  /\ attempt[t] = "asking" /\ ~Cancelled(t)
  /\ attempt' = [attempt EXCEPT ![t] = "opening"]
  /\ mic' = [mic EXCEPT ![t] = "open"]
  /\ UNCHANGED <<mounted, starts, current, starting, media, busy, heard, talk, broken>>

\* new AudioContext or openCapture throws; nobody stops the tracks.
CaptureFails(t) ==
  /\ attempt[t] = "opening"
  /\ Over(t)
  /\ broken' = broken \cup {t}
  /\ UNCHANGED <<mounted, starts, current, mic, media, busy, heard, talk>>

Opened(t) ==
  /\ attempt[t] = "opening"
  /\ Over(t)
  /\ IF Cancelled(t)
     THEN mic' = [mic EXCEPT ![t] = "off"] /\ UNCHANGED <<media, heard>>
     ELSE media' = t /\ heard' = Unfed /\ UNCHANGED mic
  /\ UNCHANGED <<mounted, starts, current, busy, talk, broken>>

-----------------------------------------------------------------------------
(* stop *)

Release == mic' = [t \in Starts |-> IF t = media THEN "off" ELSE mic[t]]

\* A recording that is long enough is sent; a start under way is cancelled.
Stops(long) ==
  /\ current' = 0 /\ starting' = FALSE
  /\ media' = 0 /\ Release
  /\ busy' = (busy \/ (media # 0 /\ long))
  /\ UNCHANGED <<mounted, starts, attempt, broken>>

Click == \E long \in BOOLEAN : mounted /\ Stops(long) /\ UNCHANGED <<heard, talk>>

\* The callback of openCapture.
Chunk(speech) ==
  /\ media # 0
  /\ speech => talk < MaxTalk
  /\ talk' = IF speech THEN talk + 1 ELSE talk
  /\ heard' = Feed(heard, speech)
  /\ IF ~speech /\ (Sends(heard') \/ TimesOut(heard'))
     THEN Stops(TRUE)
     ELSE UNCHANGED <<mounted, starts, current, starting, attempt, mic, media, busy, broken>>

Transcribed ==
  /\ busy /\ busy' = FALSE
  /\ UNCHANGED <<mounted, starts, current, starting, attempt, mic, media, heard, talk, broken>>

Unmount ==
  /\ mounted /\ mounted' = FALSE
  /\ current' = 0
  /\ media' = 0 /\ Release
  /\ UNCHANGED <<starts, starting, attempt, busy, heard, talk, broken>>

-----------------------------------------------------------------------------

RecorderInit ==
  /\ mounted = TRUE /\ starts = 0 /\ current = 0 /\ starting = FALSE
  /\ attempt = [t \in Starts |-> "new"] /\ mic = [t \in Starts |-> "off"]
  /\ media = 0 /\ busy = FALSE /\ heard = Unfed /\ talk = 0 /\ broken = {}

Opens(t) == Opened(t) \/ CaptureFails(t)

RecorderNext ==
  \/ StartTalking \/ Click \/ Transcribed \/ Unmount
  \/ \E t \in Starts : Denied(t) \/ GrantedLate(t) \/ Granted(t) \/ Opens(t)
  \/ \E speech \in BOOLEAN : Chunk(speech)

RecorderSpec == RecorderInit /\ [][RecorderNext]_recorderVars

-----------------------------------------------------------------------------
(* Properties *)

\* What was said so far counts as nothing said, and as speech begun.
Blip == heard.spoke /\ heard.said < MinSpeech

\* An open microphone is closed again without anybody's doing: after stops,
\* restarts and unmounts at any await of start, after silence, after speech.
\* The two exceptions are the code's: a capture that could not be opened, whose
\* tracks nobody stops, and a recording in which no more was said than a blip,
\* which neither ends it nor lets it time out (start, stop, the effect's
\* clean-up, SilenceDetector.feed).
MicCloses ==
  \A t \in Starts :
    mic[t] = "open" ~> mic[t] = "off" \/ t \in broken \/ (media = t /\ Blip)
=============================================================================
