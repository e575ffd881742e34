----------------------------- MODULE PartsProofs ------------------------------
(***************************************************************************)
(* Four small parts, which share no state: the replay guard, the start of  *)
(* the process, the model catalog, the recorder of a dashboard.  For each  *)
(* one an inductive invariant and what follows from it, for all values of  *)
(* its constants.                                                          *)
(***************************************************************************)
EXTENDS ReplayGuard, CoreProcess, ModelCatalog, Recorder, TLAPS

-----------------------------------------------------------------------------
(* ReplayGuard: an envelope is let through at most once, for every window, *)
(* skew, set of envelopes and order of eviction.  What makes it inductive  *)
(* is where an accepted envelope can be: still in the table under its own  *)
(* timestamp, or too old to be in time ever again.                         *)


TooOld(k) == ts[k] < now - Window

Remembered ==
  \A k \in Key :
    /\ accepted[k] = 0 => seen[k] = None
    /\ accepted[k] > 0 => seen[k] = ts[k] \/ (seen[k] = None /\ TooOld(k))

\* Nothing in the table is further in the future than the skew allows.
NothingAhead == \A k \in Key : seen[k] # None => seen[k] <= now + Skew

GuardInv == TypeOK /\ AcceptedOnce /\ Remembered /\ NothingAhead

\* Forgetting preserves what the table has to remember.
LEMMA EvictedKeepsRemembering ==
  ASSUME TypeOK, Remembered, NEW k \in Key
  PROVE  /\ Evicted[k] \in Int \cup {None}
         /\ accepted[k] = 0 => Evicted[k] = None
         /\ accepted[k] > 0 => Evicted[k] = ts[k] \/ (Evicted[k] = None /\ TooOld(k))
  BY ReplayGuardAssumption DEF TypeOK, Remembered, Evicted, TooOld

LEMMA GuardStart == Init => GuardInv
<1> SUFFICES ASSUME Init PROVE GuardInv
  OBVIOUS
<1>1. TypeOK
  BY ReplayGuardAssumption DEF Init, TypeOK
<1>2. AcceptedOnce /\ Remembered /\ NothingAhead
  BY DEF Init, AcceptedOnce, Remembered, NothingAhead
<1> QED
  BY <1>1, <1>2 DEF GuardInv

\* A step that only forgets.
LEMMA ForgettingIsSafe ==
  ASSUME GuardInv, seen' \in {seen, Evicted}, UNCHANGED <<end, ts, now, accepted>>
  PROVE  GuardInv'
<1>1. TypeOK'
  BY EvictedKeepsRemembering DEF GuardInv, TypeOK, Evicted
<1>2. AcceptedOnce'
  BY DEF GuardInv, AcceptedOnce
<1>3. Remembered'
  BY EvictedKeepsRemembering DEF GuardInv, Remembered, TooOld
<1>4. NothingAhead'
  BY DEF GuardInv, NothingAhead, Evicted, TypeOK
<1> QED
  BY <1>1, <1>2, <1>3, <1>4 DEF GuardInv

LEMMA GuardStep == GuardInv /\ [Next]_vars => GuardInv'
<1> SUFFICES ASSUME GuardInv, [Next]_vars PROVE GuardInv'
  OBVIOUS
<1>1. ASSUME NEW k \in Key, Refuse(k) PROVE GuardInv'
  BY <1>1, ForgettingIsSafe DEF Refuse
<1>2. ASSUME NEW k \in Key, RefuseDuplicate(k) PROVE GuardInv'
  BY <1>2, ForgettingIsSafe DEF RefuseDuplicate
<1>3. ASSUME NEW k \in Key, Accept(k) PROVE GuardInv'
  <2>1. accepted[k] = 0
    \* an accepted envelope that is out of the table is too old to be in time
    BY <1>3, EvictedKeepsRemembering, ReplayGuardAssumption
    DEF GuardInv, TypeOK, Accept, InTime, TooOld
  <2>2. TypeOK'
    BY <1>3, EvictedKeepsRemembering DEF GuardInv, TypeOK, Accept, Evicted
  <2>3. AcceptedOnce'
    BY <1>3, <2>1 DEF GuardInv, TypeOK, AcceptedOnce, Accept
  <2>4. ASSUME NEW j \in Key
        PROVE  /\ accepted'[j] = 0 => seen'[j] = None
               /\ accepted'[j] > 0 => seen'[j] = ts'[j] \/ (seen'[j] = None /\ TooOld(j)')
    <3>1. CASE j = k
      BY <1>3, <2>1, <3>1 DEF GuardInv, TypeOK, Accept, Evicted
    <3>2. CASE j # k
      <4>1. accepted'[j] = accepted[j] /\ seen'[j] = Evicted[j] /\ ts' = ts /\ now' = now
        BY <1>3, <3>2 DEF GuardInv, TypeOK, Accept, Evicted
      <4> QED
        BY <4>1, EvictedKeepsRemembering DEF GuardInv, TooOld
    <3> QED
      BY <3>1, <3>2
  <2>5. NothingAhead'
    BY <1>3 DEF GuardInv, NothingAhead, Accept, InTime, Evicted, TypeOK
  <2> QED
    BY <2>2, <2>3, <2>4, <2>5 DEF GuardInv, Remembered
<1>4. CASE Tick
  <2>1. TypeOK' /\ AcceptedOnce'
    BY <1>4 DEF GuardInv, TypeOK, AcceptedOnce, Tick
  <2>2. Remembered' /\ NothingAhead'
    BY <1>4, ReplayGuardAssumption DEF GuardInv, TypeOK, Remembered, NothingAhead, TooOld, Tick
  <2> QED
    BY <2>1, <2>2 DEF GuardInv
<1>5. CASE UNCHANGED vars
  BY <1>5 DEF GuardInv, TypeOK, AcceptedOnce, Remembered, NothingAhead, TooOld, vars
<1> QED
  BY <1>1, <1>2, <1>3, <1>4, <1>5 DEF Next

LEMMA GuardInvariance == Spec => []GuardInv
  BY GuardStart, GuardStep, PTL DEF Spec

\* No envelope is let through twice, in either order of eviction.
THEOREM NoDuplicates == Spec => []AcceptedOnce
<1>1. GuardInv => AcceptedOnce
  BY DEF GuardInv
<1> QED
  BY <1>1, GuardInvariance, PTL

\* The table is trimmed to the window at every acceptance.
THEOREM TableIsBounded == Spec => RemembersTheWindow
<1>1. GuardInv /\ [Next]_vars => LetThroughTrims
  <2> SUFFICES ASSUME GuardInv, [Next]_vars, accepted' # accepted, NEW j \in Key, seen'[j] # None
               PROVE  seen'[j] \in (now - Window)..(now + Skew)
    BY DEF LetThroughTrims
  <2>1. PICK k \in Key : Accept(k)
    BY DEF Next, Refuse, RefuseDuplicate, Tick, vars
  <2>2. CASE j = k
    BY <2>1, <2>2, ReplayGuardAssumption DEF GuardInv, TypeOK, Accept, InTime, Evicted
  <2>3. CASE j # k
    BY <2>1, <2>3, ReplayGuardAssumption
    DEF GuardInv, TypeOK, NothingAhead, Accept, Evicted
  <2> QED
    BY <2>2, <2>3
<1> QED
  BY <1>1, GuardInvariance, PTL DEF Spec, RemembersTheWindow

-----------------------------------------------------------------------------
(* CoreProcess: a certificate once fetched goes on being served, for any   *)
(* number of agents, pairs, losses and crashes.                            *)
(*                                                                         *)
(* What a client holds is compared with what the server has in memory; the *)
(* link between the two is the pair on disk.  While it is whole, those who *)
(* fetched it hold it and the server serves it (Held, Serves); whenever it *)
(* is not whole, because a file is missing or a new pair is being written, *)
(* whoever holds a certificate held it before a loss (Broken), since a     *)
(* pair is only minted when a file is missing.  The new pair differs from  *)
(* whatever is left of the old one while it is written (Writing).          *)


Held ==
  setting.own = "none" /\ Matching =>
    \A a \in Agent \ outdated : pin[a] # Absent => pin[a] = cert

Broken ==
  setting.own = "none" /\ ~Matching => \A a \in Agent \ outdated : pin[a] = Absent

Writing ==
  /\ at \in {"key", "opening", "cert"} => pairs \in Pair
  /\ at = "mint" => ~Matching
  /\ at = "key" => key = Torn /\ cert # pairs
  /\ at = "opening" => key = pairs /\ cert # pairs
  /\ at = "cert" => key = pairs /\ cert = Torn

Numbered ==
  /\ key \in Pair => key <= pairs
  /\ cert \in Pair => cert <= pairs

Serves ==
  /\ at \in {"core", "up"} /\ Tls /\ setting.own # "both" => Matching \/ ~Minted
  /\ at \in {"core", "up"} /\ Tls /\ setting.own # "both" /\ ~ahead /\ Matching => served = cert
  /\ at \in {"core", "up"} /\ Tls /\ setting.own = "both" => served = Own

Handed ==
  /\ setting.own # "none" => \A a \in Agent : pin[a] \in {Absent, Own}
  /\ asker # Absent => setting.own = "none"

ProcessInv == ProcessTypeOK /\ Held /\ Broken /\ Writing /\ Numbered /\ Serves /\ Handed

LEMMA ProcessStart == ProcessInit => ProcessInv
<1> SUFFICES ASSUME ProcessInit PROVE ProcessInv
  OBVIOUS
<1>1. ProcessTypeOK
  BY DEF ProcessInit, ProcessTypeOK, Steps
<1>2. Held /\ Broken /\ Handed
  BY DEF ProcessInit, Held, Broken, Handed
<1>3. Writing /\ Numbered /\ Serves
  BY CoreProcessAssumption DEF ProcessInit, Writing, Numbered, Serves, Matching, Pair
<1> QED
  BY <1>1, <1>2, <1>3 DEF ProcessInv

LEMMA ProcessStep == ProcessInv /\ [ProcessNext]_processVars => ProcessInv'
<1> SUFFICES ASSUME ProcessInv, [ProcessNext]_processVars PROVE ProcessInv'
  OBVIOUS
<1> USE CoreProcessAssumption
<1>1. CASE Start
  BY <1>1 DEF Start, files, clients, history, faults, ProcessInv, ProcessTypeOK, Held, Broken, Writing,
              Numbered, Serves, Handed, Matching, Minted, Steps, Pair, Tls
<1>2. CASE SetUpTls
  BY <1>2 DEF SetUpTls, Minted, files, clients, history, faults, ProcessInv, ProcessTypeOK, Held, Broken,
              Writing, Numbered, Serves, Handed, Matching, Minted, Steps, Pair, Tls
<1>3. CASE MintKey
  BY <1>3 DEF MintKey, clients, history, faults, ProcessInv, ProcessTypeOK, Held, Broken, Writing,
              Numbered, Serves, Handed, Matching, Minted, Steps, Pair, Tls
<1>4. CASE WriteKey
  BY <1>4 DEF WriteKey, clients, history, faults, ProcessInv, ProcessTypeOK, Held, Broken, Writing,
              Numbered, Serves, Handed, Matching, Minted, Steps, Pair, Tls
<1>5. CASE OpenCert
  BY <1>5 DEF OpenCert, clients, history, faults, ProcessInv, ProcessTypeOK, Held, Broken, Writing,
              Numbered, Serves, Handed, Matching, Minted, Steps, Pair, Tls
<1>6. CASE WriteCert
  BY <1>6, ZenonT(60) DEF WriteCert, clients, faults, ProcessInv, ProcessTypeOK, Held, Broken, Writing,
              Numbered, Serves, Handed, Matching, Minted, Steps, Pair, Tls
<1>7. CASE LoadPair
  <2>1. UNCHANGED <<setting, files, asker, voice, clients, interrupted, faults>> /\ ahead' = FALSE
    BY <1>7 DEF LoadPair
  <2>2. CASE setting.own = "both" \/ Matching
    <3>1. at' = "core" /\ served' = (IF setting.own = "both" THEN Own ELSE cert)
      BY <1>7, <2>2 DEF LoadPair
    <3>2. ProcessTypeOK'
      BY <2>1, <2>2, <3>1 DEF files, clients, faults, ProcessInv, ProcessTypeOK, Steps, Matching
    <3>3. (Held /\ Broken /\ Writing /\ Numbered /\ Handed)'
      BY <2>1, <3>1 DEF files, clients, ProcessInv, Held, Broken, Writing, Numbered, Handed, Matching
    <3>4. Serves'
      BY <2>1, <2>2, <3>1 DEF files, Serves, Matching, Minted, Tls
    <3> QED
      BY <3>2, <3>3, <3>4 DEF ProcessInv
  <2>3. CASE ~(setting.own = "both" \/ Matching)
    <3>1. at' = "down" /\ served' = Absent
      BY <1>7, <2>3 DEF LoadPair
    <3>2. ProcessTypeOK'
      BY <2>1, <3>1 DEF files, clients, faults, ProcessInv, ProcessTypeOK, Steps
    <3>3. (Held /\ Broken /\ Writing /\ Numbered /\ Serves /\ Handed)'
      BY <2>1, <3>1 DEF files, clients, ProcessInv, Held, Broken, Writing, Numbered, Serves, Handed, Matching
    <3> QED
      BY <3>2, <3>3 DEF ProcessInv
  <2> QED
    BY <2>2, <2>3
<1>8. CASE StartCore
  BY <1>8 DEF StartCore, Resolved, files, clients, history, faults, ProcessInv, ProcessTypeOK, Held, Broken,
              Writing, Numbered, Serves, Handed, Matching, Minted, Steps, Pair, Tls
<1>9. CASE Stop \/ Crash
  <2>1. /\ Gone /\ UNCHANGED outdated /\ interrupted' \in BOOLEAN
        /\ losses' \in Nat /\ crashes' \in Nat
    <3>1. CASE Stop
      BY <3>1 DEF Stop, Gone, clients, faults, ProcessInv, ProcessTypeOK
    <3>2. CASE Crash
      <4>1. Gone /\ UNCHANGED <<outdated, losses>> /\ crashes' = crashes + 1
        BY <3>2 DEF Crash, Gone, clients
      <4>2. interrupted' = (interrupted \/ at \in {"key", "opening", "cert"})
        BY <3>2 DEF Crash
      <4> QED
        BY <4>1, <4>2 DEF ProcessInv, ProcessTypeOK
    <3> QED
      BY <1>9, <3>1, <3>2
  <2>2. ProcessTypeOK'
    BY <2>1 DEF Gone, files, clients, ProcessInv, ProcessTypeOK, Steps
  <2>3. (Held /\ Broken /\ Writing /\ Numbered /\ Serves /\ Handed)'
    BY <2>1 DEF Gone, files, clients, ProcessInv, Held, Broken, Writing, Numbered, Serves, Handed, Matching
  <2> QED
    BY <2>2, <2>3 DEF ProcessInv
<1>10. ASSUME NEW a \in Agent, FetchCert(a) PROVE ProcessInv'
  BY <1>10 DEF FetchCert, CertPath, files, history, faults, ProcessInv, ProcessTypeOK, Held, Broken, Writing,
               Numbered, Serves, Handed, Matching, Minted, Steps, Pair, Tls
<1>11. ASSUME NEW a \in Agent, FetchMissing(a) PROVE ProcessInv'
  BY <1>11 DEF FetchMissing, CertPath, files, clients, history, faults, ProcessInv, ProcessTypeOK, Held,
               Broken, Writing, Numbered, Serves, Handed, Matching, Minted, Steps, Pair, Tls
<1>12. ASSUME NEW k \in BOOLEAN, NEW c \in BOOLEAN, k \/ c, Lose(k, c) PROVE ProcessInv'
  BY <1>12 DEF Lose, history, ProcessInv, ProcessTypeOK, Held, Broken, Writing,
               Numbered, Serves, Handed, Matching, Minted, Steps, Pair, Tls
<1>13. CASE UNCHANGED processVars
  BY <1>13 DEF processVars, files, clients, history, faults, ProcessInv, ProcessTypeOK, Held, Broken, Writing,
               Numbered, Serves, Handed, Matching, Minted, Steps, Pair, Tls
<1>14. QED
  BY <1>1, <1>2, <1>3, <1>4, <1>5, <1>6, <1>7, <1>8, <1>9, <1>10, <1>11, <1>12, <1>13
     DEF ProcessNext, ComeUp

\* Every reachable state has the types the code gives its variables.
THEOREM ProcessTyped == ProcessSpec => []ProcessTypeOK
<1>1. ProcessInv => ProcessTypeOK
  BY DEF ProcessInv
<1> QED
  BY ProcessStart, ProcessStep, <1>1, PTL DEF ProcessSpec

\* Whoever has fetched the certificate reaches the core with it, but for the
\* exceptions PinsLast names (access_cert, ensure_self_signed, main).
THEOREM FetchedIsServed == ProcessSpec => []PinsLast
<1>1. ProcessInv => PinsLast
  <2> SUFFICES ASSUME ProcessInv, at = "up", Tls, setting.own # "cert",
                      NEW a \in Agent \ outdated, pin[a] # Absent, ~ahead
               PROVE pin[a] = served
    BY DEF PinsLast
  <2>1. CASE setting.own = "both"
    BY <2>1 DEF ProcessInv, Handed, Serves
  <2>2. CASE setting.own = "none"
    <3>1. Matching /\ pin[a] = cert
      BY <2>2 DEF ProcessInv, Held, Broken
    <3> QED
      BY <2>2, <3>1 DEF ProcessInv, Serves
  <2> QED
    BY <2>1, <2>2 DEF ProcessInv, ProcessTypeOK, Setting
<1> QED
  BY ProcessStart, ProcessStep, <1>1, PTL DEF ProcessSpec

-----------------------------------------------------------------------------
(* ModelCatalog: an answer is never older than promised, for any number of *)
(* threads, any time to live and any duration of a listing.                *)
(*                                                                         *)
(* The two assignments of a fill are apart, and other fills come in        *)
(* between: the catalog and its time may be of different calls.  Since all *)
(* calls under way began at most Longest ago, the time is at most that     *)
(* much too late (StampIsClose), and no fill ever leaves a catalog older   *)
(* than that behind, whoever it overtakes (Fills, Answers).                *)

CatalogTypeOK ==
  /\ clock \in Nat /\ cached \in Nat \cup {Never} /\ cachedAt \in Nat
  /\ step \in [Thread -> {"idle", "check", "list", "stamp", "return"}]
  /\ refresh \in [Thread -> BOOLEAN] /\ start \in [Thread -> Nat]
  /\ todo \in [Thread -> SUBSET Provider]

NobodyIsLate ==
  \A t \in Thread : step[t] # "idle" => start[t] <= clock /\ clock <= start[t] + Longest

StampIsClose == cachedAt <= clock /\ (cached # Never => cachedAt <= cached + Longest)

Fills ==
  \A t \in Thread : step[t] = "stamp" => cached # Never /\ start[t] <= cached + Longest

Answers ==
  \A t \in Thread : step[t] = "return" =>
    /\ cached # Never /\ start[t] - cached < Ttl + Longest
    /\ refresh[t] => cached >= start[t] - Longest

CatalogInv == CatalogTypeOK /\ NobodyIsLate /\ StampIsClose /\ Fills /\ Answers

LEMMA CatalogStart == CatalogInit => CatalogInv
  BY CatalogAssumption
  DEF CatalogInit, CatalogInv, CatalogTypeOK, NobodyIsLate, StampIsClose, Fills, Answers

LEMMA CatalogStep == CatalogInv /\ [CatalogNext]_catalogVars => CatalogInv'
<1> SUFFICES ASSUME CatalogInv, [CatalogNext]_catalogVars PROVE CatalogInv'
  OBVIOUS
<1> USE CatalogAssumption DEF CatalogInv, CatalogTypeOK, Goes
<1>1. ASSUME NEW t \in Thread, NEW again \in BOOLEAN, Get(t, again) PROVE CatalogInv'
  BY <1>1 DEF Get, cache, NobodyIsLate, StampIsClose, Fills, Answers
<1>2. ASSUME NEW t \in Thread, NEW providers \in SUBSET Provider, Miss(t, providers) PROVE CatalogInv'
  BY <1>2 DEF Miss, cache, NobodyIsLate, StampIsClose, Fills, Answers
<1>3. ASSUME NEW t \in Thread, NEW p \in Provider, List(t, p) PROVE CatalogInv'
  BY <1>3 DEF List, cache, NobodyIsLate, StampIsClose, Fills, Answers
<1>4. ASSUME NEW t \in Thread, Hit(t) PROVE CatalogInv'
  BY <1>4 DEF Hit, Fresh, cache, NobodyIsLate, StampIsClose, Fills, Answers
<1>5. ASSUME NEW t \in Thread, Keep(t) PROVE CatalogInv'
  <2>1. /\ cached' = start[t] /\ step' = [step EXCEPT ![t] = "stamp"] /\ step[t] = "list"
        /\ UNCHANGED <<clock, cachedAt, refresh, start, todo>>
    BY <1>5 DEF Keep
  <2>2. cached' \in Nat /\ cached' # Never /\ clock <= cached' + Longest /\ cached' <= clock
    BY <2>1 DEF NobodyIsLate
  <2>3. CatalogTypeOK' /\ NobodyIsLate' /\ StampIsClose'
    BY <2>1, <2>2 DEF NobodyIsLate, StampIsClose
  <2>4. Fills'
    BY <2>1, <2>2 DEF NobodyIsLate, Fills
  <2>5. Answers'
    BY <2>1, <2>2 DEF NobodyIsLate, Answers
  <2> QED
    BY <2>3, <2>4, <2>5
<1>6. ASSUME NEW t \in Thread, KeepTime(t) PROVE CatalogInv'
  BY <1>6 DEF KeepTime, NobodyIsLate, StampIsClose, Fills, Answers
<1>7. ASSUME NEW t \in Thread, Return(t) PROVE CatalogInv'
  BY <1>7 DEF Return, cache, NobodyIsLate, StampIsClose, Fills, Answers
<1>8. CASE Pass
  BY <1>8 DEF Pass, cache, calls, NobodyIsLate, StampIsClose, Fills, Answers
<1>9. CASE UNCHANGED catalogVars
  BY <1>9 DEF catalogVars, cache, calls, NobodyIsLate, StampIsClose, Fills, Answers
<1> QED
  BY <1>1, <1>2, <1>3, <1>4, <1>5, <1>6, <1>7, <1>8, <1>9 DEF CatalogNext

\* However the calls overlap, what one returns was listed less than a time to
\* live and one call before it was asked for, and a refresh returns nothing of
\* a call that ended before it began (get of ModelCatalog).
THEOREM CatalogStaysFresh == CatalogSpec => CatalogIsFresh
<1>1. CatalogInv /\ [CatalogNext]_catalogVars =>
        [\A t \in Thread : Returns(t) =>
           /\ start[t] - cached < Ttl + Longest
           /\ refresh[t] => cached >= start[t] - Longest]_catalogVars
  BY DEF CatalogInv, Answers, Returns
<1> QED
  BY CatalogStart, CatalogStep, <1>1, PTL DEF CatalogSpec, CatalogIsFresh

-----------------------------------------------------------------------------
(* Recorder: who holds an open microphone, for any number of starts and    *)
(* any times of the detector.                                              *)

HasHolder(t) == media = t \/ attempt[t] = "opening" \/ t \in broken

\* An open microphone is that of the recording on view, or of a start that
\* still has to look at the generation, or its capture could not be opened; and
\* a view that is gone has no recording (start, stop, clean-up of the effect).
OpenIsHeld ==
  /\ \A t \in Starts : mic[t] = "open" => HasHolder(t)
  /\ ~mounted => media = 0

\* What a step relies on: a start becomes current once, while the view is
\* there, and has no media of another one before it.
HeldInv ==
  /\ OpenIsHeld
  /\ attempt \in [Starts -> {"new", "asking", "opening", "over"}]
  /\ mic \in [Starts -> {"off", "open"}]
  /\ media # 0 => media = current /\ attempt[media] = "over"
  /\ ~mounted => current = 0
  /\ starts \in 0..MaxStarts /\ current \in 0..starts /\ media \in 0..starts
  /\ \A t \in Starts : t > starts => attempt[t] = "new"

LEMMA HeldInit == RecorderInit => HeldInv
BY RecorderAssumption DEF RecorderInit, HeldInv, OpenIsHeld, HasHolder, Starts

\* stop and the clean-up of the effect: the media are let go of.
LEMMA ReleaseStep ==
  ASSUME HeldInv, Release, media' = 0, current' = 0,
         UNCHANGED <<starts, attempt, broken>>
  PROVE  HeldInv'
BY RecorderAssumption DEF Release, HeldInv, OpenIsHeld, HasHolder, Starts

LEMMA HeldStep == HeldInv /\ [RecorderNext]_recorderVars => HeldInv'
<1> SUFFICES ASSUME HeldInv, [RecorderNext]_recorderVars PROVE HeldInv'
  OBVIOUS
<1> USE RecorderAssumption DEF HeldInv, OpenIsHeld, HasHolder, Starts
<1>1. CASE UNCHANGED recorderVars
  BY <1>1 DEF recorderVars
<1>2. CASE StartTalking
  BY <1>2 DEF StartTalking
<1>3. CASE Click
  <2>1. Release /\ media' = 0 /\ current' = 0 /\ UNCHANGED <<starts, attempt, broken>>
    BY <1>3 DEF Click, Stops
  <2> QED BY <2>1, ReleaseStep
<1>4. CASE Transcribed
  BY <1>4 DEF Transcribed
<1>5. CASE Unmount
  <2>1. Release /\ media' = 0 /\ current' = 0 /\ UNCHANGED <<starts, attempt, broken>>
    BY <1>5 DEF Unmount
  <2> QED BY <2>1, ReleaseStep
<1>6. ASSUME NEW t \in Starts, Denied(t) PROVE HeldInv'
  BY <1>6 DEF Denied, Over
<1>7. ASSUME NEW t \in Starts, GrantedLate(t) PROVE HeldInv'
  BY <1>7 DEF GrantedLate, Over
<1>8. ASSUME NEW t \in Starts, Granted(t) PROVE HeldInv'
  BY <1>8 DEF Granted
<1>9. ASSUME NEW t \in Starts, CaptureFails(t) PROVE HeldInv'
  BY <1>9 DEF CaptureFails, Over
<1>10. ASSUME NEW t \in Starts, Opened(t) PROVE HeldInv'
  <2>1. CASE Cancelled(t)
    BY <1>10, <2>1 DEF Opened, Over
  <2>2. CASE ~Cancelled(t)
    BY <1>10, <2>2 DEF Opened, Over, Cancelled
  <2> QED BY <2>1, <2>2
<1>11. ASSUME NEW speech \in BOOLEAN, Chunk(speech) PROVE HeldInv'
  <2>1. CASE Release /\ media' = 0 /\ current' = 0 /\ UNCHANGED <<starts, attempt, broken>>
    BY <2>1, ReleaseStep
  <2>2. CASE UNCHANGED <<mounted, starts, current, attempt, mic, media, broken>>
    BY <2>2
  <2> QED BY <1>11, <2>1, <2>2 DEF Chunk, Stops
<1> QED
  BY <1>1, <1>2, <1>3, <1>4, <1>5, <1>6, <1>7, <1>8, <1>9, <1>10, <1>11 DEF RecorderNext, Opens

\* No microphone is left open behind the back of the person, for any number of
\* starts (useVoice.ts, "never leave the mic open").
THEOREM MicIsHeld == RecorderSpec => []OpenIsHeld
<1>1. HeldInv => OpenIsHeld
  BY DEF HeldInv
<1> QED
  BY HeldInit, HeldStep, <1>1, PTL DEF RecorderSpec
=============================================================================
