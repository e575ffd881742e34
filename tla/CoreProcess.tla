----------------------------- MODULE CoreProcess -----------------------------
(***************************************************************************)
(* The life of the core's process: main (__main__.py) with Settings.load   *)
(* (config.py), the self-signed pair for TLS (netaccess.py), Core.start    *)
(* and Core.stop (app.py) as far as they decide whether the core comes up, *)
(* and the route by which devices and phones fetch the certificate to pin. *)
(*                                                                         *)
(* A pair is a number, the how-manieth it is; a file holds a number, or    *)
(* nothing, or is Torn: opened for writing and not written.                *)
(***************************************************************************)
EXTENDS Integers

CONSTANTS
  Agent,       \* those who fetch the certificate
  MaxPairs,    \* bound on the pairs minted
  MaxLosses,   \* bound on the times files are lost
  MaxCrashes,  \* bound on the crashes
  Absent, Torn, Own

ASSUME CoreProcessAssumption ==
  /\ MaxPairs \in Nat /\ MaxLosses \in Nat /\ MaxCrashes \in Nat
  /\ Absent \notin Nat /\ Torn \notin Nat /\ Own \notin Nat
  /\ Absent # Torn /\ Absent # Own /\ Torn # Own /\ Absent \notin Agent

Setting == [named : BOOLEAN,                       \* HEREN_CONFIG is set
            file : {"missing", "tls", "plain"},    \* the YAML file and its tls
            env : {"unset", "tls", "plain"},       \* HEREN_TLS
            own : {"none", "cert", "both"},        \* tls_cert, tls_key
            voice : {"none", "known", "unknown"}]  \* tts_provider, stt_provider

Steps == {"down", "main", "mint", "key", "opening", "cert", "load", "core", "up"}

VARIABLES
  setting,
  at,           \* how far the process is
  key, cert,    \* key.pem and cert.pem in tls_dir
  pairs,        \* pairs minted so far
  asker,        \* the agent whose request mints; Absent at start-up
  served,       \* what uvicorn serves: a pair, Own, or nothing (Absent)
  voice,        \* the provider that speaks
  pin,          \* the certificate each agent has fetched
  outdated,     \* agents whose certificate predates a loss (history)
  ahead,        \* a pair was minted after the one that is served (history)
  interrupted,  \* a crash hit the writing of the files (history)
  losses, crashes

files       == <<key, cert, pairs>>
clients     == <<pin, outdated>>
history     == <<ahead, interrupted>>
faults      == <<losses, crashes>>
processVars == <<setting, at, files, asker, served, voice, clients, history, faults>>

-----------------------------------------------------------------------------
(* Settings.load: defaults, then the file, then the environment *)

Refused == setting.named /\ setting.file = "missing"

Tls == setting.env = "tls" \/ (setting.env = "unset" /\ setting.file = "tls")

Start ==
  /\ at = "down" /\ ~Refused
  /\ at' = "main"
  /\ UNCHANGED <<setting, files, asker, served, voice, clients, history, faults>>

(* ensure_self_signed *)

MutantMinted == FALSE
Minted == key # Absent /\ cert # Absent

\* main: a pair of one's own needs both parts.
SetUpTls ==
  /\ at = "main"
  /\ at' = IF ~Tls THEN "core" ELSE IF setting.own = "both" \/ Minted THEN "load" ELSE "mint"
  /\ UNCHANGED <<setting, files, asker, served, voice, clients, history, faults>>

\* The key is made and key.pem opened, which empties it ...
MintKey ==
  /\ at = "mint" /\ pairs < MaxPairs
  /\ pairs' = pairs + 1
  /\ key' = Torn /\ at' = "key"
  /\ UNCHANGED <<setting, cert, asker, served, voice, clients, history, faults>>

WriteKey ==
  /\ at = "key"
  /\ key' = pairs /\ at' = "opening"
  /\ UNCHANGED <<setting, cert, pairs, asker, served, voice, clients, history, faults>>

OpenCert ==
  /\ at = "opening"
  /\ cert' = Torn /\ at' = "cert"
  /\ UNCHANGED <<setting, key, pairs, asker, served, voice, clients, history, faults>>

\* ... and the new pair is served by the next start, or handed to the asker.
WriteCert ==
  /\ at = "cert"
  /\ cert' = pairs /\ interrupted' = FALSE /\ asker' = Absent
  /\ IF asker = Absent
     THEN at' = "load" /\ UNCHANGED <<clients, ahead>>
     ELSE /\ at' = "up" /\ ahead' = TRUE
          /\ pin' = [pin EXCEPT ![asker] = pairs]
          /\ outdated' = outdated \ {asker}
  /\ UNCHANGED <<setting, key, pairs, served, voice, faults>>

-----------------------------------------------------------------------------
(* uvicorn and Core *)

Matching == key = cert /\ cert \notin {Absent, Torn}

\* The server loads the pair before anything else, or gives up.
LoadPair ==
  /\ at = "load"
  /\ IF setting.own = "both" \/ Matching
     THEN /\ at' = "core"
          /\ served' = (IF setting.own = "both" THEN Own ELSE cert)
     ELSE at' = "down" /\ served' = Absent
  /\ ahead' = FALSE
  /\ UNCHANGED <<setting, files, asker, voice, clients, interrupted, faults>>

\* resolve_tts, resolve_stt: a provider that is unknown or fails to start is
\* replaced by the silent one.
Resolved == IF setting.voice = "known" THEN {"known", "none"} ELSE {"none"}

MutantStartCore ==
  /\ at = "core"
  /\ \/ voice' \in Resolved /\ at' = "up"
     \/ setting.voice # "none" /\ voice' = "none" /\ at' = "down"
  /\ UNCHANGED <<setting, files, asker, served, clients, history, faults>>

StartCore ==
  /\ at = "core"
  /\ voice' \in Resolved /\ at' = "up"
  /\ UNCHANGED <<setting, files, asker, served, clients, history, faults>>

Gone ==
  /\ at' = "down" /\ asker' = Absent /\ served' = Absent /\ voice' = "none"
  /\ UNCHANGED <<setting, files, clients, ahead>>

Stop == at = "up" /\ Gone /\ UNCHANGED <<interrupted, faults>>

-----------------------------------------------------------------------------
(* /api/access/cert.pem *)

\* cert_path, which asks for a certificate of one's own only.
CertPath == IF setting.own = "none" THEN cert ELSE Own

FetchCert(a) ==
  /\ at = "up" /\ Tls /\ CertPath # Absent
  /\ pin' = [pin EXCEPT ![a] = CertPath]
  /\ outdated' = IF key = Absent THEN outdated \cup {a} ELSE outdated \ {a}
  /\ UNCHANGED <<setting, at, files, asker, served, voice, history, faults>>

\* "mint on demand"
FetchMissing(a) ==
  /\ at = "up" /\ Tls /\ CertPath = Absent
  /\ at' = "mint" /\ asker' = a
  /\ UNCHANGED <<setting, files, served, voice, clients, history, faults>>

-----------------------------------------------------------------------------
(* Faults *)

\* Files that somebody removes while they are not being written.
Lose(k, c) ==
  /\ at \in {"down", "main", "load", "core", "up"} /\ losses < MaxLosses
  /\ key' = (IF k THEN Absent ELSE key) /\ cert' = (IF c THEN Absent ELSE cert)
  /\ outdated' = Agent
  /\ losses' = losses + 1
  /\ UNCHANGED <<setting, at, pairs, asker, served, voice, pin, history, crashes>>

Crash ==
  /\ at # "down" /\ crashes < MaxCrashes
  /\ Gone
  /\ interrupted' = (interrupted \/ at \in {"key", "opening", "cert"})
  /\ crashes' = crashes + 1
  /\ UNCHANGED losses

-----------------------------------------------------------------------------

ProcessInit ==
  /\ setting \in Setting
  /\ at = "down" /\ key = Absent /\ cert = Absent /\ pairs = 0
  /\ asker = Absent /\ served = Absent /\ voice = "none"
  /\ pin = [a \in Agent |-> Absent] /\ outdated = {}
  /\ ahead = FALSE /\ interrupted = FALSE
  /\ losses = 0 /\ crashes = 0

ComeUp == Start \/ SetUpTls \/ MintKey \/ WriteKey \/ OpenCert \/ WriteCert \/ LoadPair \/ StartCore

ProcessNext ==
  \/ ComeUp
  \/ Stop
  \/ \E a \in Agent : FetchCert(a) \/ FetchMissing(a)
  \/ \E k, c \in BOOLEAN : (k \/ c) /\ Lose(k, c)
  \/ Crash

\* A step once begun is done, and somebody starts a core that is down.
ProcessSpec == ProcessInit /\ [][ProcessNext]_processVars /\ WF_processVars(ComeUp)

-----------------------------------------------------------------------------
(* Properties *)

Pair == Nat \ {0}

ProcessTypeOK ==
  /\ setting \in Setting
  /\ at \in Steps
  /\ key \in Pair \cup {Absent, Torn} /\ cert \in Pair \cup {Absent, Torn} /\ pairs \in Nat
  /\ asker \in Agent \cup {Absent}
  /\ served \in Pair \cup {Absent, Own} /\ voice \in {"none", "known"}
  /\ pin \in [Agent -> Pair \cup {Absent, Torn, Own}] /\ outdated \subseteq Agent
  /\ ahead \in BOOLEAN /\ interrupted \in BOOLEAN
  /\ losses \in Nat /\ crashes \in Nat

\* Whoever has fetched the certificate reaches the core with it, also after it
\* was stopped, crashed and started again: a pair that is there is never minted
\* anew.  The exceptions are those of the code: files were lost since, the
\* certificate was minted by the request itself and is served from the next
\* start on, and a tls_cert without its tls_key, which is handed out and not
\* served.
PinsLast ==
  at = "up" /\ Tls /\ setting.own # "cert" =>
    \A a \in Agent \ outdated : pin[a] # Absent /\ ~ahead => pin[a] = served

\* A core that is started comes up, with a crash or lost files behind it and
\* whatever the voice providers do, unless the crash came while key.pem and
\* cert.pem were written and left both behind: then Minted is content with
\* files that the server cannot load.
ComesUp ==
  (at = "down" /\ ~Refused) ~> (at = "up" \/ (interrupted /\ Minted))
=============================================================================
