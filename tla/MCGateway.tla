----------------------------- MODULE MCGateway -----------------------------
(***************************************************************************)
(* Instances of Gateway for TLC.  A behaviour plays one scene, which says  *)
(* what takes part in it and how far its clock and its restarts go; the    *)
(* rest stays as it was at first.                                          *)
(***************************************************************************)
EXTENDS Gateway, FiniteSets, TLC

CONSTANTS d1, Scenes
VARIABLE scene

Distinct == CHOOSE f \in [Call -> Req] : \A a, b \in Call : f[a] = f[b] => a = b
OneDevice == [q \in Req |-> d1]
Sids == Permutations(Sid)

One(S) == {CHOOSE x \in S : TRUE}
TwoOf(S) == {P \in SUBSET S : Cardinality(P) = 2}

\* Three connections replace each other while the clock runs; two codes and
\* two keys over two connections; two calls over two connections.
Crowd    == {[sids |-> Sid, codes |-> One(Code), keys |-> One(Key), calls |-> {},
              clock |-> MaxTime, restarts |-> 0]}
Pairings == {[sids |-> P, codes |-> Code, keys |-> Key, calls |-> {}, clock |-> 0,
              restarts |-> 0] : P \in TwoOf(Sid)}
Traffic  == {[sids |-> P, codes |-> One(Code), keys |-> One(Key), calls |-> Call, clock |-> 0,
              restarts |-> 0] : P \in TwoOf(Sid)}
SafetyScenes == Crowd \cup Pairings \cup Traffic

\* The clock passes a deadline; a call is cut short by a replacement or a restart.
Silence == [sids |-> Sid, codes |-> Code, keys |-> Key, calls |-> {}, clock |-> MaxTime, restarts |-> 0]
CutCall == [Silence EXCEPT !.calls = Call, !.clock = 0, !.restarts = MaxRestart]
ProgressScenes == {Silence, CutCall}

\* Next, with the sockets, codes, keys, calls and bounds of the scene.
Player(s) ==
  Peer(s) /\ hello'[s].key \in scene.keys \cup {None} /\ hello'[s].code \in scene.codes \cup {None}

SceneStep ==
  \/ \E s \in scene.sids : Player(s) \/ Handle(s)
  \/ Reap
  \/ \E c \in scene.calls : Ask(c) \/ Await(c)
  \/ \E c \in scene.codes : NewPairingCode(c)
  \/ now < scene.clock /\ Tick
  \/ restarts < scene.restarts /\ Restart

SceneInit == Init /\ scene \in Scenes
SceneNext == SceneStep /\ UNCHANGED scene
SceneSpec == SceneInit /\ [][SceneNext]_<<vars, scene>>

\* The fairness of FairSpec: the scene holds back the clock and the environment.
FairSceneSpec == SceneSpec /\ Fairness /\ WF_vars(now < scene.clock /\ Tick)
=============================================================================
