---------------------------- MODULE GatewayProofs ----------------------------
(***************************************************************************)
(* The gateway keeps its types; one session speaks for a device and the    *)
(* devices table agrees with it; a code admits once and a device paired    *)
(* once keeps its key; and the futures on file are those that are waited   *)
(* for: for every number of sockets, devices, codes and dispatches.        *)
(***************************************************************************)
EXTENDS Gateway, TLAPS

USE DEF table, store, rpc, clock, hist, vars, Goto

Queue == Seq(Sid \cup {Reaper})

\* A socket that is handling a hello names a device and a key.
Greeting(s) ==
  pc[s] \in {"looking_up", "registering", "replacing", "marking", "welcoming"}

HelloIsWhole == \A s \in Sid : Greeting(s) => Dev(s) \in Device /\ hello[s].key \in Key

\* Who is registered speaks for the device of its hello, with the hello's key.
SpeaksAsGreeted ==
  \A s \in Sid :
    /\ owner[s] # None => owner[s] = Dev(s) /\ skey[s] = hello[s].key
    /\ pc[s] \in {"marking", "welcoming"} => owner[s] # None
    /\ pc[s] \in {"none", "looking_up", "registering", "replacing"} => owner[s] = None

TypeInv == TypeOK /\ HelloIsWhole /\ SpeaksAsGreeted

-----------------------------------------------------------------------------
(* Types *)

LEMMA TypeInit == Init => TypeInv
BY GatewayAssumption
   DEF Init, TypeInv, TypeOK, Location, Asleep, HelloIsWhole, SpeaksAsGreeted, Greeting

LEMMA QueueTyped ==
  ASSUME TypeOK, NEW t \in Sid \cup {Reaper}
  PROVE  /\ AwaitDb(t) => db' \in Queue
         /\ Resume(t) => db' \in Queue
         /\ ResumeAndAwait(t) => db' \in Queue
<1>1. db # <<>> => Tail(db) \in Queue
  BY DEF TypeOK, Queue
<1>2. \A q \in Queue : Append(q, t) \in Queue
  BY DEF Queue
<1> QED
  BY <1>1, <1>2 DEF TypeOK, AwaitDb, Resume, ResumeAndAwait, Served, Queue

LEMMA DropTyped ==
  ASSUME TypeOK, NEW s \in Sid, Drop(s)
  PROVE  /\ sessions' \subseteq Sid
         /\ answer' \in [Call -> {"completed", "failed", "device_offline", None}]
         /\ byDevice' \in [Device -> Sid \cup {None}]
         /\ status' \in [Device -> {"online", "offline"}]
BY ZenonT(60) DEF Drop, TypeOK

\* Where a socket's coroutine may go with its hello and its ownership kept.
LEMMA KeepsGreeting ==
  ASSUME HelloIsWhole, SpeaksAsGreeted, UNCHANGED <<hello, owner, skey>>,
         \A s \in Sid : \/ pc'[s] = pc[s]
                        \/ pc'[s] \notin {"none", "looking_up", "registering", "replacing",
                                          "marking", "welcoming"}
                        \/ Greeting(s) /\ owner[s] # None /\ pc'[s] \in {"marking", "welcoming"}
                        \/ Greeting(s) /\ owner[s] = None /\ pc'[s] \in {"registering", "replacing"}
  PROVE  HelloIsWhole' /\ SpeaksAsGreeted'
BY DEF HelloIsWhole, SpeaksAsGreeted, Greeting, Dev

\* A step of a peer.
LEMMA PeerTyped ==
  ASSUME TypeInv, NEW s \in Sid, Peer(s)
  PROVE  TypeInv'
<1> USE GatewayAssumption
<1>1. TypeOK /\ HelloIsWhole /\ SpeaksAsGreeted
  BY DEF TypeInv
<1>2. CASE Connect(s)
  <2>1. TypeOK'
    BY <1>1, <1>2 DEF Connect, TypeOK, Location
  <2>2. HelloIsWhole' /\ SpeaksAsGreeted'
    BY <1>1, <1>2 DEF Connect, TypeOK, HelloIsWhole, SpeaksAsGreeted, Greeting, Dev
  <2> QED BY <2>1, <2>2 DEF TypeInv
<1>3. CASE PeerLeaves(s)
  <2>1. TypeOK'
    BY <1>1, <1>3 DEF PeerLeaves, TypeOK
  <2> QED BY <1>1, <1>3, <2>1, KeepsGreeting DEF PeerLeaves, TypeInv
<1>4. CASE NoHello(s)
  <2>1. TypeOK'
    BY <1>1, <1>4 DEF NoHello, Reject, TypeOK, Location
  <2> QED BY <1>1, <1>4, <2>1, KeepsGreeting DEF NoHello, Reject, TypeInv, TypeOK
<1>5. CASE Heartbeat(s)
  <2>1. db' \in Queue
    BY <1>1, <1>5, QueueTyped DEF Heartbeat
  <2>2. TypeOK'
    BY <1>1, <1>5, <2>1 DEF Heartbeat, Reads, TypeOK, Location, Queue
  <2> QED BY <1>1, <1>5, <2>2, KeepsGreeting DEF Heartbeat, TypeInv, TypeOK
<1>6. ASSUME NEW d \in Device, NEW k \in Key, NEW c \in Code \cup {None}, Hello(s, d, k, c)
      PROVE TypeInv'
  <2>1. db' \in Queue
    BY <1>1, <1>6, QueueTyped DEF Hello
  <2>2. TypeOK'
    BY <1>1, <1>6, <2>1 DEF Hello, TypeOK, Location, Queue
  <2>3. HelloIsWhole' /\ SpeaksAsGreeted'
    BY <1>1, <1>6 DEF Hello, Reads, TypeOK, HelloIsWhole, SpeaksAsGreeted, Greeting, Dev
  <2> QED BY <2>2, <2>3 DEF TypeInv
<1>7. ASSUME NEW q \in Req, NEW o \in {"completed", "failed"}, Result(s, q, o) PROVE TypeInv'
  <2>1. TypeOK'
    BY <1>1, <1>7 DEF Result, TypeOK
  <2> QED BY <1>1, <1>7, <2>1, KeepsGreeting DEF Result, TypeInv
<1> QED
  BY <1>2, <1>3, <1>4, <1>5, <1>6, <1>7 DEF Peer

\* The registration of a session.
LEMMA AdmitTyped ==
  ASSUME TypeInv, NEW s \in Sid, Admit(s), Greeting(s), db' \in Queue, raced' \subseteq Device,
         UNCHANGED <<known, rpc, clock, codes, hello, reaper, feed, admitted>>
  PROVE  TypeInv'
<1>1. TypeOK'
  BY DEF Admit, TypeInv, TypeOK, Location, Queue, HelloIsWhole
<1>2. HelloIsWhole' /\ SpeaksAsGreeted'
  BY GatewayAssumption
     DEF Admit, TypeInv, TypeOK, HelloIsWhole, SpeaksAsGreeted, Greeting, Dev
<1> QED
  BY <1>1, <1>2 DEF TypeInv

\* A socket's coroutine going on.
LEMMA HandleTyped ==
  ASSUME TypeInv, NEW s \in Sid, Handle(s)
  PROVE  TypeInv'
<1> USE GatewayAssumption
<1>1. TypeOK /\ HelloIsWhole /\ SpeaksAsGreeted
  BY DEF TypeInv
<1>2. /\ Resume(s) => db' \in Queue
      /\ ResumeAndAwait(s) => db' \in Queue
      /\ AwaitDb(s) => db' \in Queue
  BY <1>1, QueueTyped
<1>3. Greeting(s) => Dev(s) \in Device /\ hello[s].key \in Key
  BY <1>1 DEF HelloIsWhole
<1>4. CASE Rejected(s)
  <2>1. TypeOK'
    BY <1>1, <1>4 DEF Rejected, TypeOK, Location
  <2> QED BY <1>1, <1>4, <2>1, KeepsGreeting DEF Rejected, TypeInv, TypeOK
<1>5. CASE RefuseStranger(s)
  <2>1. TypeOK'
    BY <1>1, <1>2, <1>5 DEF RefuseStranger, Reject, Consumed, TypeOK, Location, Queue
  <2> QED BY <1>1, <1>5, <2>1, KeepsGreeting DEF RefuseStranger, Reject, TypeInv, TypeOK
<1>6. CASE RefuseKey(s)
  <2>1. TypeOK'
    BY <1>1, <1>2, <1>6 DEF RefuseKey, Reject, TypeOK, Location, Queue
  <2> QED BY <1>1, <1>6, <2>1, KeepsGreeting DEF RefuseKey, Reject, TypeInv, TypeOK
<1>7. CASE Pair(s)
  <2>1. hello[s].code \in Code
    BY <1>1, <1>7 DEF Pair, CodeIsValid, TypeOK
  <2>2. TypeOK'
    BY <1>1, <1>2, <1>3, <1>7, <2>1 DEF Pair, Consumed, Greeting, TypeOK, Location, Queue
  <2>3. Greeting(s) /\ owner[s] = None
    BY <1>1, <1>7 DEF Pair, Greeting, SpeaksAsGreeted
  <2> QED BY <1>1, <1>7, <2>2, <2>3, KeepsGreeting DEF Pair, TypeInv, TypeOK
<1>8. CASE Refresh(s)
  <2>1. TypeOK'
    BY <1>1, <1>2, <1>3, <1>8 DEF Refresh, Recognised, Greeting, TypeOK, Location, Queue
  <2>2. Greeting(s) /\ owner[s] = None
    BY <1>1, <1>8 DEF Refresh, Greeting, SpeaksAsGreeted
  <2> QED BY <1>1, <1>8, <2>1, <2>2, KeepsGreeting, SMTT(60) DEF Refresh, TypeInv, TypeOK
<1>9. CASE TakeOver(s)
  <2>1. Greeting(s) /\ owner[s] = None /\ Dev(s) \in Device
    BY <1>1, <1>3, <1>9 DEF TakeOver, Greeting, SpeaksAsGreeted
  <2>2. CASE Supersede(s) /\ Resume(s)
    <3>1. raced' \subseteq Device
      BY <1>1, <2>1, <2>2 DEF Supersede, RacedIf, TypeOK
    <3>2. TypeOK'
      BY <1>1, <1>2, <1>9, <2>2, <3>1 DEF TakeOver, Supersede, TypeOK, Location, Queue
    <3> QED BY <1>1, <1>9, <2>1, <2>2, <3>2, KeepsGreeting DEF TakeOver, Supersede, TypeInv, TypeOK
  <2>3. CASE Admit(s) /\ RacedIf(s \notin sessions, Dev(s)) /\ ResumeAndAwait(s)
    <3>1. raced' \subseteq Device
      BY <1>1, <2>1, <2>3 DEF RacedIf, TypeOK
    <3> QED BY <1>2, <1>9, <2>1, <2>3, <3>1, AdmitTyped DEF TakeOver
  <2> QED BY <1>9, <2>2, <2>3 DEF TakeOver
<1>10. CASE Replaced(s)
  <2>1. Greeting(s) /\ Dev(s) \in Device
    BY <1>3, <1>10 DEF Replaced, Greeting
  <2>2. raced' \subseteq Device
    BY <1>1, <1>10, <2>1 DEF Replaced, RacedIf, TypeOK
  <2> QED BY <1>2, <1>10, <2>1, <2>2, AdmitTyped DEF Replaced
<1>11. CASE Welcome(s)
  <2>1. TypeOK'
    BY <1>1, <1>2, <1>11, ZenonT(60) DEF Welcome, TypeOK, Location, Queue
  <2>2. Greeting(s) /\ owner[s] # None
    BY <1>1, <1>11 DEF Welcome, Greeting, SpeaksAsGreeted
  <2> QED BY <1>1, <1>11, <2>1, <2>2, KeepsGreeting DEF Welcome, TypeInv, TypeOK
<1>12. CASE Welcomed(s)
  <2>1. TypeOK'
    <3>. PICK l \in {"reading", "leaving"} : pc' = [pc EXCEPT ![s] = l]
      BY <1>12 DEF Welcomed
    <3>1. pc' \in [Sid -> Location]
      BY <1>1 DEF TypeOK, Location
    <3>2. feed' = [feed EXCEPT ![Dev(s)] = "online"] \/ UNCHANGED feed
      BY <1>12 DEF Welcomed
    <3>3. feed' \in [Device -> {"online", "offline"}]
      BY <1>1, <3>2 DEF TypeOK
    <3> QED BY <1>1, <1>12, <3>1, <3>3 DEF Welcomed, TypeOK
  <2> QED BY <1>1, <1>12, <2>1, KeepsGreeting DEF Welcomed, TypeInv, TypeOK
<1>13. CASE HeartbeatStored(s)
  <2>1. TypeOK'
    BY <1>1, <1>2, <1>13 DEF HeartbeatStored, TypeOK, Location, Queue
  <2> QED BY <1>1, <1>13, <2>1, KeepsGreeting DEF HeartbeatStored, TypeInv, TypeOK
<1>14. CASE Disconnect(s)
  <2>1. /\ sessions' \subseteq Sid
        /\ answer' \in [Call -> {"completed", "failed", "device_offline", None}]
        /\ byDevice' \in [Device -> Sid \cup {None}]
        /\ status' \in [Device -> {"online", "offline"}]
    BY <1>1, <1>14, DropTyped DEF Disconnect
  <2>2. db' \in Queue
    BY <1>1, <1>2, <1>14 DEF Disconnect, TypeOK, Queue
  <2>3. TypeOK'
    <3>1. pc' \in [Sid -> Location]
      BY <1>1, <1>14, ZenonT(60) DEF Disconnect, TypeOK, Location
    <3> QED BY <1>1, <1>14, <2>1, <2>2, <3>1 DEF Disconnect, TypeOK, Queue
  <2> QED BY <1>1, <1>14, <2>3, KeepsGreeting DEF Disconnect, TypeInv, TypeOK
<1>15. CASE AlreadyDropped(s)
  <2>1. TypeOK'
    BY <1>1, <1>15 DEF AlreadyDropped, TypeOK, Location
  <2> QED BY <1>1, <1>15, <2>1, KeepsGreeting DEF AlreadyDropped, TypeInv, TypeOK
<1>16. CASE AnnounceOffline(s)
  <2>1. TypeOK'
    BY <1>1, <1>2, <1>16 DEF AnnounceOffline, TypeOK, Location, Queue
  <2> QED BY <1>1, <1>16, <2>1, KeepsGreeting DEF AnnounceOffline, TypeInv, TypeOK
<1> QED
  BY <1>4, <1>5, <1>6, <1>7, <1>8, <1>9, <1>10, <1>11, <1>12, <1>13, <1>14, <1>15, <1>16
     DEF Handle

\* A step of the reaper.
LEMMA ReapTyped ==
  ASSUME TypeInv, Reap
  PROVE  TypeInv'
<1> USE GatewayAssumption
<1>1. TypeOK /\ HelloIsWhole /\ SpeaksAsGreeted
  BY DEF TypeInv
<1>2. CASE ReapScan
  <2>1. TypeOK'
    BY <1>1, <1>2 DEF ReapScan, TypeOK
  <2> QED BY <1>1, <1>2, <2>1, KeepsGreeting DEF ReapScan, TypeInv
<1>3. ASSUME NEW s \in Sid, ReapClose(s) PROVE TypeInv'
  <2>1. TypeOK'
    BY <1>1, <1>3 DEF ReapClose, TypeOK
  <2> QED BY <1>1, <1>3, <2>1, KeepsGreeting DEF ReapClose, TypeInv
<1>4. ASSUME NEW s \in Sid, ReapDrop(s) PROVE TypeInv'
  <2>1. /\ sessions' \subseteq Sid
        /\ answer' \in [Call -> {"completed", "failed", "device_offline", None}]
        /\ byDevice' \in [Device -> Sid \cup {None}]
        /\ status' \in [Device -> {"online", "offline"}]
    BY <1>1, <1>4, DropTyped, SMTT(60) DEF ReapDrop, TypeOK
  <2>2. db' \in Queue
    BY <1>1, <1>4, QueueTyped DEF ReapDrop, TypeOK, Queue
  <2>3. raced' \subseteq Device
    BY <1>1, <1>4 DEF ReapDrop, RacedIf, TypeOK, SpeaksAsGreeted
  <2>4. reaper' \in [pc : {"asleep", "reaping", "closing", "offlining"},
                     todo : SUBSET Sid, on : Sid \cup {None}]
    <3>1. CASE reaper' = [reaper EXCEPT !.pc = "offlining"]
      BY <1>1, <3>1 DEF TypeOK
    <3>2. CASE reaper' = [reaper EXCEPT !.pc = "reaping", !.on = None]
      BY <1>1, <3>2 DEF TypeOK
    <3> QED BY <1>4, <3>1, <3>2 DEF ReapDrop
  <2>5. TypeOK'
    BY <1>1, <1>4, <2>1, <2>2, <2>3, <2>4 DEF ReapDrop, TypeOK, Queue
  <2> QED BY <1>1, <1>4, <2>5, KeepsGreeting DEF ReapDrop, TypeInv
<1>5. CASE ReapAnnounce
  <2>1. db' \in Queue
    BY <1>1, <1>5, QueueTyped DEF ReapAnnounce
  <2>2. TypeOK'
    BY <1>1, <1>5, <2>1 DEF ReapAnnounce, TypeOK, Queue
  <2> QED BY <1>1, <1>5, <2>2, KeepsGreeting DEF ReapAnnounce, TypeInv
<1>6. CASE ReapEnd
  <2>1. TypeOK'
    BY <1>1, <1>6 DEF ReapEnd, Asleep, TypeOK
  <2> QED BY <1>1, <1>6, <2>1, KeepsGreeting DEF ReapEnd, TypeInv
<1> QED
  BY <1>2, <1>3, <1>4, <1>5, <1>6 DEF Reap

\* A step of a dispatch.
LEMMA CallTyped ==
  ASSUME TypeInv, NEW c \in Call, Ask(c) \/ Await(c)
  PROVE  TypeInv'
<1> USE GatewayAssumption
<1>1. TypeOK /\ HelloIsWhole /\ SpeaksAsGreeted
  BY DEF TypeInv
<1>2. UNCHANGED <<hello, owner, skey, pc>>
  BY DEF Ask, Await, DispatchOffline, Dispatch, DispatchSent, DispatchReturn, DispatchTimeout
<1>3. ASSUME DispatchOffline(c) PROVE TypeOK'
  BY <1>1, <1>3 DEF DispatchOffline, TypeOK
<1>4. ASSUME NEW s \in Sid, Dispatch(c, s) PROVE TypeOK'
  BY <1>1, <1>4 DEF Dispatch, TypeOK
<1>5. ASSUME DispatchSent(c) PROVE TypeOK'
  BY <1>1, <1>5 DEF DispatchSent, TypeOK
<1>6. ASSUME DispatchReturn(c) PROVE TypeOK'
  BY <1>1, <1>6 DEF DispatchReturn, TypeOK
<1>7. ASSUME DispatchTimeout(c) PROVE TypeOK'
  BY <1>1, <1>7 DEF DispatchTimeout, Unfiled, TypeOK
<1>8. TypeOK'
  BY <1>3, <1>4, <1>5, <1>6, <1>7 DEF Ask, Await
<1> QED
  BY <1>1, <1>2, <1>8, KeepsGreeting DEF TypeInv

LEMMA TypeStep == TypeInv /\ [Next]_vars => TypeInv'
<1> SUFFICES ASSUME TypeInv, [Next]_vars PROVE TypeInv'
  OBVIOUS
<1> USE GatewayAssumption
<1>1. TypeOK /\ HelloIsWhole /\ SpeaksAsGreeted
  BY DEF TypeInv
<1>2. ASSUME NEW c \in Code, NewPairingCode(c) PROVE TypeInv'
  <2>1. TypeOK'
    BY <1>1, <1>2 DEF NewPairingCode, CodeExpiry, TypeOK
  <2> QED BY <1>1, <1>2, <2>1, KeepsGreeting DEF NewPairingCode, TypeInv
<1>3. CASE Tick
  <2>1. TypeOK'
    BY <1>1, <1>3 DEF Tick, TypeOK
  <2> QED BY <1>1, <1>3, <2>1, KeepsGreeting DEF Tick, TypeInv
<1>4. CASE Restart
  <2>1. TypeOK'
    BY <1>1, <1>4 DEF Restart, Asleep, TypeOK, Location
  <2> QED BY <1>1, <1>4, <2>1, KeepsGreeting DEF Restart, TypeInv, TypeOK
<1>5. CASE UNCHANGED vars
  BY <1>1, <1>5 DEF TypeInv, TypeOK, HelloIsWhole, SpeaksAsGreeted, Greeting, Dev
<1> QED
  BY <1>2, <1>3, <1>4, <1>5, PeerTyped, HandleTyped, ReapTyped, CallTyped DEF Next

\* The gateway's state is well typed whatever happens.
THEOREM GatewayTyped == Spec => []TypeOK
<1>1. Spec => []TypeInv
  BY TypeInit, TypeStep, PTL DEF Spec
<1>2. TypeInv => TypeOK
  BY DEF TypeInv
<1> QED
  BY <1>1, <1>2, PTL

-----------------------------------------------------------------------------
(* The session table *)

\* A session that never connected has no socket and is not on the table.
FreshIsAbsent == \A s \in Sid : pc[s] = "none" => s \notin sessions /\ sock[s] = "none"

\* Who is about to be dropped has lost its connection.
DropsTheGone ==
  /\ \A s \in Sid : pc[s] = "leaving" => sock[s] # "open"
  /\ \A s \in reaper.todo : pc[s] # "none"
  /\ reaper.pc = "closing" => reaper.on \in Sid /\ sock[reaper.on] = "closed"

TableInv == FreshIsAbsent /\ DropsTheGone /\ SoleSession /\ StatusAgrees

\* Nobody registers: the table may only shrink, more hellos may have been cut into.
Shrinks ==
  /\ UNCHANGED <<owner, byDevice, status, restarts>>
  /\ sessions' \subseteq sessions /\ raced \subseteq raced'

LEMMA ShrinksKeeps ==
  ASSUME TypeOK, SoleSession, StatusAgrees, Shrinks
  PROVE  SoleSession' /\ StatusAgrees'
BY DEF Shrinks, SoleSession, StatusAgrees, TypeOK

\* The new owner of a device that no registered session claims.
LEMMA AdmitKeeps ==
  ASSUME TypeInv, SoleSession, StatusAgrees, NEW s \in Sid, Dev(s) \in Device, Admit(s),
         byDevice[Dev(s)] \in sessions => Dev(s) \in raced',
         raced \subseteq raced', UNCHANGED <<restarts, hello>>
  PROVE  SoleSession' /\ StatusAgrees'
<1>1. TypeOK
  BY DEF TypeInv
<1>2. SoleSession'
  BY <1>1, GatewayAssumption DEF Admit, SoleSession, TypeOK
<1>3. StatusAgrees'
  BY <1>1, GatewayAssumption DEF Admit, StatusAgrees, TypeOK
<1> QED
  BY <1>2, <1>3

LEMMA DropKeeps ==
  ASSUME TypeOK, SoleSession, StatusAgrees, NEW s \in Sid, Drop(s),
         raced \subseteq raced', UNCHANGED <<restarts, owner>>
  PROVE  SoleSession' /\ StatusAgrees'
<1>1. SoleSession'
  BY GatewayAssumption DEF Drop, Current, SoleSession, TypeOK
<1>2. CASE Current(s)
  <2>1. /\ owner[s] \in Device
        /\ byDevice' = [byDevice EXCEPT ![owner[s]] = None]
        /\ status' = [status EXCEPT ![owner[s]] = "offline"]
    BY <1>2 DEF Drop, Current, TypeOK
  <2> QED BY <1>1, <2>1 DEF StatusAgrees, TypeOK
<1>3. CASE ~Current(s)
  BY <1>1, <1>3 DEF Drop, StatusAgrees
<1> QED
  BY <1>2, <1>3

LEMMA TableInit == Init => TableInv
BY GatewayAssumption
   DEF Init, TableInv, FreshIsAbsent, DropsTheGone, SoleSession, StatusAgrees, Asleep

LEMMA TableOfPeer ==
  ASSUME TypeInv, TableInv, NEW s \in Sid, Peer(s)
  PROVE  TableInv'
<1> USE GatewayAssumption
<1>1. TypeOK /\ FreshIsAbsent /\ DropsTheGone /\ SoleSession /\ StatusAgrees
  BY DEF TypeInv, TableInv
<1>2. CASE Connect(s)
  <2>1. FreshIsAbsent' /\ DropsTheGone'
    BY <1>1, <1>2 DEF Connect, TypeOK, FreshIsAbsent, DropsTheGone
  <2>2. owner[s] = None
    BY <1>2 DEF TypeInv, SpeaksAsGreeted, Connect
  <2>3. SoleSession' /\ StatusAgrees'
    BY <1>1, <1>2, <2>2 DEF Connect, SoleSession, StatusAgrees, TypeOK
  <2> QED BY <2>1, <2>3 DEF TableInv
<1>3. CASE PeerLeaves(s)
  <2>1. FreshIsAbsent' /\ DropsTheGone'
    BY <1>1, <1>3 DEF PeerLeaves, TypeOK, FreshIsAbsent, DropsTheGone
  <2> QED BY <1>1, <1>3, <2>1, ShrinksKeeps DEF PeerLeaves, Shrinks, TableInv
<1>4. CASE NoHello(s)
  <2>1. FreshIsAbsent' /\ DropsTheGone'
    BY <1>1, <1>4 DEF NoHello, Reject, Reads, TypeOK, FreshIsAbsent, DropsTheGone
  <2> QED BY <1>1, <1>4, <2>1, ShrinksKeeps DEF NoHello, Reject, Shrinks, TableInv
<1>5. CASE Heartbeat(s)
  <2>1. FreshIsAbsent' /\ DropsTheGone'
    BY <1>1, <1>5 DEF Heartbeat, TypeOK, FreshIsAbsent, DropsTheGone
  <2>2. SoleSession'
    BY <1>1, <1>5 DEF Heartbeat, SoleSession
  <2>3. owner[s] \in Device /\ (owner[s] \notin raced => byDevice[owner[s]] = s)
    BY <1>1, <1>5 DEF Heartbeat, Reads, SoleSession, TypeOK
  <2>4. StatusAgrees'
    BY <1>1, <1>5, <2>3 DEF Heartbeat, StatusAgrees, TypeOK
  <2> QED BY <2>1, <2>2, <2>4 DEF TableInv
<1>6. ASSUME NEW d \in Device, NEW k \in Key, NEW c \in Code \cup {None}, Hello(s, d, k, c)
      PROVE TableInv'
  <2>1. FreshIsAbsent' /\ DropsTheGone'
    BY <1>1, <1>6 DEF Hello, TypeOK, FreshIsAbsent, DropsTheGone
  <2> QED BY <1>1, <1>6, <2>1, ShrinksKeeps DEF Hello, Shrinks, TableInv
<1>7. ASSUME NEW q \in Req, NEW o \in {"completed", "failed"}, Result(s, q, o) PROVE TableInv'
  <2>1. FreshIsAbsent' /\ DropsTheGone'
    BY <1>1, <1>7 DEF Result, FreshIsAbsent, DropsTheGone
  <2> QED BY <1>1, <1>7, <2>1, ShrinksKeeps DEF Result, Shrinks, TableInv
<1> QED
  BY <1>2, <1>3, <1>4, <1>5, <1>6, <1>7 DEF Peer

\* A coroutine that goes on without opening a socket or leaving on an open one.
LEMMA GoesOn ==
  ASSUME TypeOK, FreshIsAbsent, DropsTheGone, UNCHANGED reaper, sessions' \subseteq sessions,
         \A t \in Sid : /\ (pc[t] = "none") <=> (pc'[t] = "none")
                        /\ sock'[t] = sock[t] \/ (sock'[t] = "closed" /\ pc[t] # "none")
                        /\ pc'[t] = "leaving" => pc[t] = "leaving" \/ sock'[t] # "open"
  PROVE  FreshIsAbsent' /\ DropsTheGone'
BY DEF FreshIsAbsent, DropsTheGone, TypeOK

LEMMA TableOfHandle ==
  ASSUME TypeInv, TableInv, NEW s \in Sid, Handle(s)
  PROVE  TableInv'
<1> USE GatewayAssumption
<1>1. TypeOK /\ FreshIsAbsent /\ DropsTheGone /\ SoleSession /\ StatusAgrees
  BY DEF TypeInv, TableInv
<1>2. CASE Rejected(s)
  <2>1. FreshIsAbsent' /\ DropsTheGone'
    BY <1>1, <1>2, GoesOn DEF Rejected, TypeOK
  <2> QED BY <1>1, <1>2, <2>1, ShrinksKeeps DEF Rejected, Shrinks, TableInv
<1>3. CASE RefuseStranger(s)
  <2>1. FreshIsAbsent' /\ DropsTheGone'
    BY <1>1, <1>3, GoesOn DEF RefuseStranger, Reject, TypeOK
  <2> QED BY <1>1, <1>3, <2>1, ShrinksKeeps DEF RefuseStranger, Reject, Shrinks, TableInv
<1>4. CASE RefuseKey(s)
  <2>1. FreshIsAbsent' /\ DropsTheGone'
    BY <1>1, <1>4, GoesOn DEF RefuseKey, Reject, TypeOK
  <2> QED BY <1>1, <1>4, <2>1, ShrinksKeeps DEF RefuseKey, Reject, Shrinks, TableInv
<1>5. CASE Pair(s)
  <2>1. FreshIsAbsent' /\ DropsTheGone'
    BY <1>1, <1>5, GoesOn DEF Pair, TypeOK
  <2> QED BY <1>1, <1>5, <2>1, ShrinksKeeps DEF Pair, Shrinks, TableInv
<1>6. CASE Refresh(s)
  <2>1. FreshIsAbsent' /\ DropsTheGone'
    BY <1>1, <1>6, GoesOn DEF Refresh, TypeOK
  <2> QED BY <1>1, <1>6, <2>1, ShrinksKeeps DEF Refresh, Shrinks, TableInv
<1>7. CASE TakeOver(s)
  <2>1. Dev(s) \in Device
    BY <1>7 DEF TakeOver, TypeInv, HelloIsWhole, Greeting
  <2>2. CASE Replaces(s) /\ Supersede(s)
    <3>1. byDevice[Dev(s)] \in Sid /\ pc[byDevice[Dev(s)]] # "none"
      BY <1>1, <2>1, <2>2 DEF Replaces, FreshIsAbsent, TypeOK
    <3>2. FreshIsAbsent' /\ DropsTheGone'
      BY <1>1, <1>7, <2>2, <3>1, GoesOn DEF TakeOver, Supersede, TypeOK
    <3> QED BY <1>1, <1>7, <2>2, <3>2, ShrinksKeeps
            DEF TakeOver, Supersede, RacedIf, Shrinks, TableInv
  <2>3. CASE ~Replaces(s) /\ Admit(s) /\ RacedIf(s \notin sessions, Dev(s))
    <3>1. FreshIsAbsent' /\ DropsTheGone'
      BY <1>1, <1>7, <2>3, GoesOn DEF TakeOver, Admit, TypeOK
    <3>2. SoleSession' /\ StatusAgrees'
      BY <1>1, <1>7, <2>1, <2>3, AdmitKeeps DEF TakeOver, Replaces, RacedIf
    <3> QED BY <3>1, <3>2 DEF TableInv
  <2> QED BY <1>7, <2>2, <2>3 DEF TakeOver
<1>8. CASE Replaced(s)
  <2>1. Dev(s) \in Device
    BY <1>8 DEF Replaced, TypeInv, HelloIsWhole, Greeting
  <2>2. FreshIsAbsent' /\ DropsTheGone'
    BY <1>1, <1>8, GoesOn DEF Replaced, Admit, TypeOK
  <2>3. SoleSession' /\ StatusAgrees'
    BY <1>1, <1>8, <2>1, AdmitKeeps DEF Replaced, RacedIf
  <2> QED BY <2>2, <2>3 DEF TableInv
<1>9. CASE Welcome(s)
  <2>1. FreshIsAbsent' /\ DropsTheGone'
    BY <1>1, <1>9, GoesOn DEF Welcome, TypeOK
  <2> QED BY <1>1, <1>9, <2>1, ShrinksKeeps DEF Welcome, Shrinks, TableInv
<1>10. CASE Welcomed(s)
  <2>1. FreshIsAbsent' /\ DropsTheGone'
    BY <1>1, <1>10, GoesOn DEF Welcomed, TypeOK
  <2> QED BY <1>1, <1>10, <2>1, ShrinksKeeps DEF Welcomed, Shrinks, TableInv
<1>11. CASE HeartbeatStored(s)
  <2>1. FreshIsAbsent' /\ DropsTheGone'
    BY <1>1, <1>11, GoesOn DEF HeartbeatStored, TypeOK
  <2> QED BY <1>1, <1>11, <2>1, ShrinksKeeps DEF HeartbeatStored, Shrinks, TableInv
<1>12. CASE Disconnect(s)
  <2>1. FreshIsAbsent' /\ DropsTheGone'
    BY <1>1, <1>12, GoesOn DEF Disconnect, Over, Drop, TypeOK
  <2> QED BY <1>1, <1>12, <2>1, DropKeeps DEF Disconnect, TableInv
<1>13. CASE AlreadyDropped(s)
  <2>1. FreshIsAbsent' /\ DropsTheGone'
    BY <1>1, <1>13, GoesOn DEF AlreadyDropped, Over, TypeOK
  <2> QED BY <1>1, <1>13, <2>1, ShrinksKeeps DEF AlreadyDropped, Shrinks, TableInv
<1>14. CASE AnnounceOffline(s)
  <2>1. FreshIsAbsent' /\ DropsTheGone'
    BY <1>1, <1>14, GoesOn DEF AnnounceOffline, TypeOK
  <2> QED BY <1>1, <1>14, <2>1, ShrinksKeeps DEF AnnounceOffline, Shrinks, TableInv
<1> QED
  BY <1>2, <1>3, <1>4, <1>5, <1>6, <1>7, <1>8, <1>9, <1>10, <1>11, <1>12, <1>13, <1>14
     DEF Handle

LEMMA TableOfReap ==
  ASSUME TypeInv, TableInv, Reap
  PROVE  TableInv'
<1>1. TypeOK /\ FreshIsAbsent /\ DropsTheGone /\ SoleSession /\ StatusAgrees
  BY DEF TypeInv, TableInv
<1>2. CASE ReapScan
  <2>1. FreshIsAbsent' /\ DropsTheGone'
    BY <1>1, <1>2 DEF ReapScan, FreshIsAbsent, DropsTheGone, TypeOK
  <2> QED BY <1>1, <1>2, <2>1, ShrinksKeeps DEF ReapScan, Shrinks, TableInv
<1>3. ASSUME NEW s \in Sid, ReapClose(s) PROVE TableInv'
  <2>1. FreshIsAbsent' /\ DropsTheGone'
    BY <1>1, <1>3 DEF ReapClose, FreshIsAbsent, DropsTheGone, TypeOK
  <2> QED BY <1>1, <1>3, <2>1, ShrinksKeeps DEF ReapClose, Shrinks, TableInv
<1>4. ASSUME NEW s \in Sid, ReapDrop(s) PROVE TableInv'
  <2>1. sessions' \subseteq sessions /\ reaper'.pc # "closing" /\ reaper'.todo = reaper.todo
    <3>1. CASE reaper' = [reaper EXCEPT !.pc = "offlining"]
      BY <1>1, <1>4, <3>1 DEF ReapDrop, Drop, TypeOK
    <3>2. CASE reaper' = [reaper EXCEPT !.pc = "reaping", !.on = None]
      BY <1>1, <1>4, <3>2 DEF ReapDrop, Drop, TypeOK
    <3> QED BY <1>4, <3>1, <3>2 DEF ReapDrop
  <2>2. FreshIsAbsent' /\ DropsTheGone'
    BY <1>1, <1>4, <2>1 DEF ReapDrop, FreshIsAbsent, DropsTheGone
  <2>3. raced \subseteq raced'
    BY <1>4 DEF ReapDrop, RacedIf
  <2>4. CASE s \in sessions
    BY <1>1, <1>4, <2>2, <2>3, <2>4, DropKeeps DEF ReapDrop, TableInv
  <2>5. CASE s \notin sessions
    BY <1>1, <1>4, <2>2, <2>3, <2>5, ShrinksKeeps DEF ReapDrop, Shrinks, TableInv
  <2> QED BY <2>4, <2>5
<1>5. CASE ReapAnnounce
  <2>1. FreshIsAbsent' /\ DropsTheGone'
    BY <1>1, <1>5 DEF ReapAnnounce, FreshIsAbsent, DropsTheGone, TypeOK
  <2> QED BY <1>1, <1>5, <2>1, ShrinksKeeps DEF ReapAnnounce, Shrinks, TableInv
<1>6. CASE ReapEnd
  <2>1. FreshIsAbsent' /\ DropsTheGone'
    BY <1>1, <1>6 DEF ReapEnd, Asleep, FreshIsAbsent, DropsTheGone
  <2> QED BY <1>1, <1>6, <2>1, ShrinksKeeps DEF ReapEnd, Shrinks, TableInv
<1> QED
  BY <1>2, <1>3, <1>4, <1>5, <1>6 DEF Reap

LEMMA TableStep == TypeInv /\ TableInv /\ [Next]_vars => TableInv'
<1> SUFFICES ASSUME TypeInv, TableInv, [Next]_vars PROVE TableInv'
  OBVIOUS
<1>1. TypeOK /\ FreshIsAbsent /\ DropsTheGone /\ SoleSession /\ StatusAgrees
  BY DEF TypeInv, TableInv
<1>2. ASSUME NEW c \in Call, Ask(c) \/ Await(c) PROVE TableInv'
  <2>1. UNCHANGED <<table, store, clock, hist, pc, sock, reaper>>
    BY <1>2 DEF Ask, Await, DispatchOffline, Dispatch, DispatchSent, DispatchReturn,
                DispatchTimeout
  <2> QED BY <1>1, <2>1 DEF TableInv, FreshIsAbsent, DropsTheGone, SoleSession, StatusAgrees
<1>3. ASSUME NEW c \in Code, NewPairingCode(c) PROVE TableInv'
  BY <1>1, <1>3
     DEF NewPairingCode, TableInv, FreshIsAbsent, DropsTheGone, SoleSession, StatusAgrees
<1>4. CASE Tick
  BY <1>1, <1>4 DEF Tick, TableInv, FreshIsAbsent, DropsTheGone, SoleSession, StatusAgrees
<1>5. CASE Restart
  BY <1>1, <1>5 DEF Restart, Asleep, TypeOK, TableInv, FreshIsAbsent, DropsTheGone, SoleSession,
                    StatusAgrees
<1>6. CASE UNCHANGED vars
  BY <1>1, <1>6 DEF TableInv, FreshIsAbsent, DropsTheGone, SoleSession, StatusAgrees
<1> QED
  BY <1>2, <1>3, <1>4, <1>5, <1>6, TableOfPeer, TableOfHandle, TableOfReap DEF Next

LEMMA TableHolds == Spec => [](TypeInv /\ TableInv)
BY TypeInit, TypeStep, TableInit, TableStep, PTL DEF Spec

\* Unless hellos were cut into, no other registered session claims the device
\* that a session speaks for (_handle_hello's replacement).
THEOREM OneSessionSpeaks == Spec => []SoleSession
<1>1. TableInv => SoleSession
  BY DEF TableInv
<1> QED
  BY <1>1, TableHolds, PTL

\* The devices table says "online" exactly while a session is on file.
THEOREM StatusIsTrue == Spec => []StatusAgrees
<1>1. TableInv => StatusAgrees
  BY DEF TableInv
<1> QED
  BY <1>1, TableHolds, PTL

\* The device whose session is dropped, and no other, goes offline.
LEMMA DropTakesItsOwn ==
  ASSUME TypeOK, NEW s \in Sid, Drop(s), sock[s] # "open",
         NEW d \in Device, byDevice[d] # None, byDevice'[d] = None
  PROVE  sock[byDevice[d]] # "open"
BY DEF Drop, Current, TypeOK

\* A device goes offline only when the connection of its current session has
\* ended: closing an older session never takes the newer one with it.
THEOREM OnlyTheGoneGoOffline == Spec => OfflineOnlyWhenGone
<1>1. TypeInv /\ TableInv /\ [Next]_vars =>
      [\A d \in Device : byDevice[d] # None /\ byDevice'[d] = None /\ restarts' = restarts
         => sock[byDevice[d]] # "open"]_vars
  <2> SUFFICES ASSUME TypeInv, TableInv, [Next]_vars, NEW d \in Device, byDevice[d] # None,
                      byDevice'[d] = None, restarts' = restarts
               PROVE  sock[byDevice[d]] # "open"
    OBVIOUS
  <2>1. TypeOK /\ DropsTheGone
    BY DEF TypeInv, TableInv
  <2>2. ASSUME NEW s \in Sid, Admit(s) PROVE FALSE
    BY <2>1, <2>2, GatewayAssumption DEF Admit, TypeOK
  <2>3. ASSUME NEW s \in Sid, Peer(s) PROVE FALSE
    BY <2>3 DEF Peer, Connect, PeerLeaves, NoHello, Reject, Heartbeat, Hello, Result
  <2>4. ASSUME NEW s \in Sid, Handle(s) PROVE sock[byDevice[d]] # "open"
    <3>1. CASE Disconnect(s)
      <4>1. sock[s] # "open"
        BY <2>1, <3>1 DEF Disconnect, Over, DropsTheGone
      <4> QED BY <2>1, <3>1, <4>1, DropTakesItsOwn DEF Disconnect
    <3>2. CASE TakeOver(s) \/ Replaced(s)
      BY <2>2, <3>2 DEF TakeOver, Supersede, Replaced
    <3>3. CASE Rejected(s) \/ RefuseStranger(s) \/ RefuseKey(s) \/ Pair(s) \/ Refresh(s)
      BY <3>3 DEF Rejected, RefuseStranger, RefuseKey, Reject, Pair, Refresh
    <3>4. CASE Welcome(s) \/ Welcomed(s) \/ HeartbeatStored(s) \/ AlreadyDropped(s)
               \/ AnnounceOffline(s)
      BY <3>4 DEF Welcome, Welcomed, HeartbeatStored, AlreadyDropped, AnnounceOffline
    <3> QED BY <2>4, <3>1, <3>2, <3>3, <3>4 DEF Handle
  <2>5. ASSUME Reap PROVE sock[byDevice[d]] # "open"
    <3>1. ASSUME NEW s \in Sid, ReapDrop(s) PROVE sock[byDevice[d]] # "open"
      <4>1. sock[s] # "open" /\ Drop(s)
        BY <2>1, <3>1 DEF ReapDrop, DropsTheGone
      <4> QED BY <2>1, <4>1, DropTakesItsOwn
    <3> QED BY <2>5, <3>1 DEF Reap, ReapScan, ReapClose, ReapAnnounce, ReapEnd
  <2>6. ASSUME NEW c \in Call, Ask(c) \/ Await(c) PROVE FALSE
    BY <2>6 DEF Ask, Await, DispatchOffline, Dispatch, DispatchSent, DispatchReturn,
                DispatchTimeout
  <2>7. CASE Restart
    BY <2>1, <2>7 DEF Restart, TypeOK
  <2> QED
    BY <2>3, <2>4, <2>5, <2>6, <2>7 DEF Next, NewPairingCode, Tick
<1> QED
  BY <1>1, TableHolds, PTL DEF Spec, OfflineOnlyWhenGone

-----------------------------------------------------------------------------
(* Pairing *)

\* Somebody registered d with a code; nobody did so twice.
Paired(d) == \E a \in admitted : Dev(a[2]) = d
Sole(d)   == \A a, b \in admitted : Dev(a[2]) = d /\ Dev(b[2]) = d => a = b

\* The hello of s was let through: its key speaks for its device.
Settled(s) == pc[s] \in {"registering", "replacing"} \/ owner[s] # None
LooksUp(s) == pc[s] = "looking_up" /\ hello[s].found # None

CodesAreSpent  == \A a \in admitted : codes[a[1]] = None
AdmittedStay   == \A a \in admitted : pc[a[2]] = "done" \/ Settled(a[2])
KnownArePaired == /\ \A d \in Device : known[d] # None => Paired(d)
                  /\ \A s \in Sid : LooksUp(s) \/ Settled(s) => Paired(Dev(s))
SoleKeyIsKnown ==
  \A s \in Sid : Sole(Dev(s)) =>
    /\ LooksUp(s) => hello[s].found = known[Dev(s)]
    /\ Settled(s) => hello[s].key = known[Dev(s)]

KeyInv == CodesAreSpent /\ CodeAdmitsOnce /\ AdmittedStay /\ KnownArePaired /\ SoleKeyIsKnown

\* A step that registers nothing, reads no row and writes none.
LEMMA KeysKept ==
  ASSUME TypeInv, KeyInv, UNCHANGED <<hello, known, admitted>>,
         \A c \in Code : codes'[c] \in {codes[c], None} \/ \A a \in admitted : a[1] # c,
         \A s \in Sid :
           /\ pc[s] = "done" => pc'[s] = "done"
           /\ pc'[s] = "looking_up" => pc[s] = "looking_up"
           /\ Settled(s) => Settled(s)' \/ pc'[s] = "done"
           /\ Settled(s)' => Settled(s) \/ (pc[s] = "looking_up" /\ Recognised(s))
  PROVE  KeyInv'
<1>1. TypeOK /\ HelloIsWhole
  BY DEF TypeInv
<1>2. \A s \in Sid : /\ LooksUp(s)' => LooksUp(s)
                     /\ Settled(s)' => Settled(s) \/ (LooksUp(s) /\ Recognised(s))
  BY <1>1, GatewayAssumption DEF LooksUp, Recognised, HelloIsWhole, Greeting
<1>3. \A s \in Sid : Dev(s)' = Dev(s)
  BY DEF Dev
<1>4. \A d : (Paired(d)' <=> Paired(d)) /\ (Sole(d)' <=> Sole(d))
  BY DEF Paired, Sole, Dev
<1>5. CodesAreSpent'
  BY <1>1 DEF KeyInv, CodesAreSpent, TypeOK
<1>6. CodeAdmitsOnce' /\ AdmittedStay'
  BY <1>1 DEF KeyInv, CodeAdmitsOnce, AdmittedStay, TypeOK
<1>7. KnownArePaired'
  BY <1>2, <1>3, <1>4 DEF KeyInv, KnownArePaired
<1>8. SoleKeyIsKnown'
  BY <1>2, <1>3, <1>4 DEF KeyInv, SoleKeyIsKnown, Recognised
<1> QED
  BY <1>5, <1>6, <1>7, <1>8 DEF KeyInv

LEMMA KeyInit == Init => KeyInv
BY DEF Init, KeyInv, CodesAreSpent, CodeAdmitsOnce, AdmittedStay, KnownArePaired, SoleKeyIsKnown,
       Paired, Sole, Settled, LooksUp

\* A first hello reads what is known of its device.
LEMMA HelloKeepsKeys ==
  ASSUME TypeInv, KeyInv, NEW s \in Sid, NEW d \in Device, NEW k \in Key,
         NEW c \in Code \cup {None}, Hello(s, d, k, c)
  PROVE  KeyInv'
<1>1. TypeOK
  BY DEF TypeInv
<1>2. \A a \in admitted : a[2] \in Sid /\ a[2] # s
  BY <1>1 DEF Hello, Reads, KeyInv, AdmittedStay, Settled, TypeOK
<1>3. /\ \A t \in Sid \ {s} : Dev(t)' = Dev(t) /\ hello'[t] = hello[t] /\ pc'[t] = pc[t]
      /\ Dev(s)' = d /\ hello'[s].found = known[d] /\ ~Settled(s)'
  BY <1>1 DEF Hello, Reads, Settled, Dev, TypeOK
<1>4. UNCHANGED <<known, admitted, codes, owner>>
  BY DEF Hello
<1>5. \A e : (Paired(e)' <=> Paired(e)) /\ (Sole(e)' <=> Sole(e))
  BY <1>2, <1>3, <1>4 DEF Paired, Sole
<1>6. \A t \in Sid \ {s} : (LooksUp(t)' <=> LooksUp(t)) /\ (Settled(t)' <=> Settled(t))
  BY <1>3, <1>4 DEF LooksUp, Settled
<1>7. CodesAreSpent' /\ CodeAdmitsOnce' /\ AdmittedStay'
  BY <1>2, <1>3, <1>4, <1>6 DEF KeyInv, CodesAreSpent, CodeAdmitsOnce, AdmittedStay
<1>8. KnownArePaired'
  BY <1>3, <1>4, <1>5, <1>6 DEF KeyInv, KnownArePaired, LooksUp
<1>9. SoleKeyIsKnown'
  BY <1>3, <1>4, <1>5, <1>6 DEF KeyInv, SoleKeyIsKnown
<1> QED
  BY <1>7, <1>8, <1>9 DEF KeyInv

\* A registration: the first one of its device, or it is not the only one.
LEMMA PairKeepsKeys ==
  ASSUME TypeInv, KeyInv, NEW s \in Sid, Pair(s)
  PROVE  KeyInv'
<1>1. TypeOK /\ Dev(s) \in Device
  BY DEF TypeInv, HelloIsWhole, Greeting, Pair
<1> DEFINE new == <<hello[s].code, s>>
<1>2. /\ hello[s].code \in Code /\ codes[hello[s].code] # None
      /\ codes' = [codes EXCEPT ![hello[s].code] = None]
      /\ admitted' = admitted \cup {new} /\ new[1] = hello[s].code /\ new[2] = s
      /\ known' = [known EXCEPT ![Dev(s)] = hello[s].key]
      /\ pc' = [pc EXCEPT ![s] = "registering"] /\ pc[s] = "looking_up"
      /\ UNCHANGED <<hello, owner>>
  BY <1>1 DEF Pair, CodeIsValid, Consumed, TypeOK
<1>3. \A a \in admitted : a[1] \in Code /\ a[2] \in Sid /\ a[1] # new[1] /\ a # new
  BY <1>1, <1>2 DEF KeyInv, CodesAreSpent, TypeOK
<1>4. \A t \in Sid : Dev(t)' = Dev(t)
  BY <1>2 DEF Dev
<1>5. owner[s] = None
  BY <1>2 DEF TypeInv, SpeaksAsGreeted
<1>6. CodesAreSpent'
  BY <1>1, <1>2, <1>3 DEF KeyInv, CodesAreSpent, TypeOK
<1>7. CodeAdmitsOnce'
  BY <1>2, <1>3 DEF KeyInv, CodeAdmitsOnce
<1>8. \A t \in Sid : /\ Settled(t)' <=> Settled(t) \/ t = s
                     /\ LooksUp(t)' => LooksUp(t) /\ t # s
  BY <1>1, <1>2 DEF Settled, LooksUp, TypeOK
<1>9. AdmittedStay'
  BY <1>1, <1>2, <1>3, <1>8 DEF KeyInv, AdmittedStay, TypeOK
<1>10. \A e : Paired(e)' <=> Paired(e) \/ e = Dev(s)
  BY <1>2, <1>3, <1>4 DEF Paired
<1>11. KnownArePaired'
  BY <1>1, <1>2, <1>4, <1>8, <1>10 DEF KeyInv, KnownArePaired, TypeOK
<1>12. \A e : Sole(e)' => Sole(e) /\ (e = Dev(s) => ~Paired(e))
  BY <1>2, <1>3, <1>4 DEF Sole, Paired
<1>13. SoleKeyIsKnown'
  <2> SUFFICES ASSUME NEW t \in Sid, Sole(Dev(t))'
               PROVE  /\ LooksUp(t)' => hello[t].found = known'[Dev(t)]
                      /\ Settled(t)' => hello[t].key = known'[Dev(t)]
    BY <1>2, <1>4 DEF SoleKeyIsKnown
  <2>1. PICK e : e = Dev(t)
    OBVIOUS
  <2>2. Sole(e)'
    BY <1>4, <2>1 DEF Sole, Dev
  <2>3. Sole(e) /\ (e = Dev(s) => ~Paired(e))
    BY <1>12, <2>2
  <2>4. CASE e = Dev(s)
    <3>1. ~LooksUp(t)' /\ (Settled(t)' => t = s)
      BY <1>8, <2>1, <2>3, <2>4 DEF KeyInv, KnownArePaired
    <3> QED BY <1>1, <1>2, <3>1 DEF TypeOK
  <2>5. CASE e # Dev(s)
    <3>1. known'[Dev(t)] = known[Dev(t)] \/ Dev(t) \notin Device
      BY <1>1, <1>2, <2>1, <2>5 DEF TypeOK
    <3>2. LooksUp(t) \/ Settled(t) => Dev(t) \in Device
      BY <1>1 DEF LooksUp, Settled, TypeInv, HelloIsWhole, SpeaksAsGreeted, Greeting, TypeOK
    <3> QED BY <1>8, <2>1, <2>3, <2>5, <3>1, <3>2 DEF KeyInv, SoleKeyIsKnown
  <2> QED BY <2>4, <2>5
<1> QED
  BY <1>6, <1>7, <1>9, <1>11, <1>13 DEF KeyInv

\* The row is written back as it was read.
LEMMA RefreshKeepsKeys ==
  ASSUME TypeInv, KeyInv, NEW s \in Sid, Refresh(s)
  PROVE  KeyInv'
<1>1. TypeOK /\ Dev(s) \in Device /\ hello[s].key \in Key
  BY DEF TypeInv, HelloIsWhole, Greeting, Refresh
<1>2. /\ known' = [known EXCEPT ![Dev(s)] = hello[s].found]
      /\ pc' = [pc EXCEPT ![s] = "registering"] /\ pc[s] = "looking_up"
      /\ UNCHANGED <<hello, owner, codes, admitted>>
      /\ LooksUp(s) /\ hello[s].found = hello[s].key
  BY <1>1, GatewayAssumption DEF Refresh, Recognised, LooksUp
<1>3. \A t \in Sid : Dev(t)' = Dev(t)
  BY <1>2 DEF Dev
<1>4. \A e : (Paired(e)' <=> Paired(e)) /\ (Sole(e)' <=> Sole(e))
  BY <1>2 DEF Paired, Sole, Dev
<1>5. \A t \in Sid : /\ Settled(t)' <=> Settled(t) \/ t = s
                     /\ LooksUp(t)' => LooksUp(t) /\ t # s
  BY <1>1, <1>2 DEF Settled, LooksUp, TypeOK
<1>6. CodesAreSpent' /\ CodeAdmitsOnce' /\ AdmittedStay'
  BY <1>1, <1>2, <1>5 DEF KeyInv, CodesAreSpent, CodeAdmitsOnce, AdmittedStay, TypeOK
<1>7. KnownArePaired'
  BY <1>1, <1>2, <1>3, <1>4, <1>5 DEF KeyInv, KnownArePaired, TypeOK
<1>8. Sole(Dev(s)) => known' = known
  BY <1>1, <1>2 DEF KeyInv, SoleKeyIsKnown, TypeOK
<1>9. \A e \in Device : e # Dev(s) => known'[e] = known[e]
  BY <1>1, <1>2 DEF TypeOK
<1>10. SoleKeyIsKnown'
  <2> SUFFICES ASSUME NEW t \in Sid, Sole(Dev(t))
               PROVE  /\ LooksUp(t)' => hello[t].found = known'[Dev(t)]
                      /\ Settled(t)' => hello[t].key = known'[Dev(t)]
    BY <1>2, <1>3, <1>4 DEF SoleKeyIsKnown
  <2>1. LooksUp(t) \/ Settled(t) => Dev(t) \in Device
    BY <1>1 DEF LooksUp, Settled, TypeInv, HelloIsWhole, SpeaksAsGreeted, Greeting, TypeOK
  <2>2. LooksUp(t) \/ Settled(t) => known'[Dev(t)] = known[Dev(t)]
    BY <1>8, <1>9, <2>1
  <2> QED BY <1>2, <1>5, <2>2 DEF KeyInv, SoleKeyIsKnown
<1> QED
  BY <1>6, <1>7, <1>10 DEF KeyInv

LEMMA KeyStep == TypeInv /\ TableInv /\ KeyInv /\ [Next]_vars => KeyInv'
<1> SUFFICES ASSUME TypeInv, TableInv, KeyInv, [Next]_vars PROVE KeyInv'
  OBVIOUS
<1> USE GatewayAssumption
<1>1. TypeOK /\ HelloIsWhole /\ SpeaksAsGreeted
  BY DEF TypeInv
<1>2. ASSUME NEW s \in Sid, Peer(s) PROVE KeyInv'
  <2>1. CASE Connect(s)
    BY <1>1, <2>1, KeysKept DEF Connect, Settled, TypeOK
  <2>2. CASE PeerLeaves(s)
    BY <1>1, <2>2, KeysKept DEF PeerLeaves, Settled
  <2>3. CASE NoHello(s)
    BY <1>1, <2>3, KeysKept DEF NoHello, Reject, Reads, Settled, TypeOK
  <2>4. CASE Heartbeat(s)
    BY <1>1, <2>4, KeysKept DEF Heartbeat, Reads, Settled, TypeOK
  <2>5. ASSUME NEW q \in Req, NEW o \in {"completed", "failed"}, Result(s, q, o) PROVE KeyInv'
    BY <1>1, <2>5, KeysKept DEF Result, Settled
  <2> QED BY <1>2, <2>1, <2>2, <2>3, <2>4, <2>5, HelloKeepsKeys DEF Peer
<1>3. ASSUME NEW s \in Sid, Handle(s) PROVE KeyInv'
  <2>1. CASE Rejected(s)
    BY <1>1, <2>1, KeysKept DEF Rejected, Settled, TypeOK
  <2>2. CASE RefuseStranger(s)
    BY <1>1, <2>2, KeysKept DEF RefuseStranger, Reject, Consumed, Settled, TypeOK
  <2>3. CASE RefuseKey(s)
    BY <1>1, <2>3, KeysKept DEF RefuseKey, Reject, Settled, TypeOK
  <2>4. CASE TakeOver(s)
    <3>1. /\ UNCHANGED <<hello, known, admitted, codes>>
          /\ \/ pc' = [pc EXCEPT ![s] = "replacing"] /\ UNCHANGED owner
             \/ pc' = [pc EXCEPT ![s] = "marking"] /\ owner' = [owner EXCEPT ![s] = Dev(s)]
      BY <2>4 DEF TakeOver, Supersede, Admit
    <3>2. Dev(s) \in Device /\ (Settled(s) \/ (pc[s] = "looking_up" /\ Recognised(s)))
      BY <1>1, <2>4 DEF TakeOver, HelloIsWhole, Greeting, Settled
    <3> QED BY <1>1, <2>4, <3>1, <3>2, KeysKept DEF TakeOver, Settled, TypeOK
  <2>5. CASE Replaced(s)
    <3>1. Dev(s) \in Device
      BY <1>1, <2>5 DEF Replaced, HelloIsWhole, Greeting
    <3> QED BY <1>1, <2>5, <3>1, KeysKept DEF Replaced, Admit, Settled, TypeOK
  <2>6. CASE Welcome(s)
    BY <1>1, <2>6, KeysKept DEF Welcome, Settled, TypeOK
  <2>7. CASE Welcomed(s)
    BY <1>1, <2>7, KeysKept DEF Welcomed, Settled, TypeOK
  <2>8. CASE HeartbeatStored(s)
    BY <1>1, <2>8, KeysKept DEF HeartbeatStored, Settled, TypeOK
  <2>9. CASE Disconnect(s)
    BY <1>1, <2>9, KeysKept DEF Disconnect, Over, Settled, TypeOK
  <2>10. CASE AlreadyDropped(s)
    BY <1>1, <2>10, KeysKept DEF AlreadyDropped, Over, Settled, TypeOK
  <2>11. CASE AnnounceOffline(s)
    BY <1>1, <2>11, KeysKept DEF AnnounceOffline, Settled, TypeOK
  <2> QED
    BY <1>3, <2>1, <2>2, <2>3, <2>4, <2>5, <2>6, <2>7, <2>8, <2>9, <2>10, <2>11,
       PairKeepsKeys, RefreshKeepsKeys DEF Handle
<1>4. CASE Reap
  <2>1. UNCHANGED <<hello, known, admitted, codes, pc, owner>>
    BY <1>4 DEF Reap, ReapScan, ReapClose, ReapDrop, ReapAnnounce, ReapEnd
  <2> QED BY <2>1, KeysKept DEF Settled
<1>5. ASSUME NEW c \in Call, Ask(c) \/ Await(c) PROVE KeyInv'
  <2>1. UNCHANGED <<hello, known, admitted, codes, pc, owner>>
    BY <1>5 DEF Ask, Await, DispatchOffline, Dispatch, DispatchSent, DispatchReturn,
                DispatchTimeout
  <2> QED BY <2>1, KeysKept DEF Settled
<1>6. ASSUME NEW c \in Code, NewPairingCode(c) PROVE KeyInv'
  BY <1>1, <1>6, KeysKept DEF NewPairingCode, Settled, TypeOK
<1>7. CASE Tick \/ UNCHANGED vars
  BY <1>7, KeysKept DEF Tick, Settled
<1>8. CASE Restart
  BY <1>1, <1>8, KeysKept DEF Restart, Settled, TypeOK
<1> QED
  BY <1>2, <1>3, <1>4, <1>5, <1>6, <1>7, <1>8 DEF Next

\* A code registers at most one device, once; and a device that was paired
\* once is only ever spoken for with the key of that pairing.
THEOREM PairingExcludes == Spec => []PairingIsExclusive
<1>1. TypeInv /\ KeyInv => PairingIsExclusive
  <2> SUFFICES ASSUME TypeInv, KeyInv PROVE SolePairingKeepsKey
    BY DEF KeyInv, PairingIsExclusive
  <2>1. \A s \in Sid : owner[s] # None => Settled(s) /\ owner[s] = Dev(s) /\ skey[s] = hello[s].key
    BY DEF TypeInv, SpeaksAsGreeted, Settled
  <2>2. \A d \in Device : d # None
    BY GatewayAssumption
  <2> QED BY <2>1, <2>2 DEF SolePairingKeepsKey, KeyInv, SoleKeyIsKnown, Sole
<1>2. Spec => []KeyInv
  BY KeyInit, KeyStep, TableHolds, PTL DEF Spec
<1> QED
  BY <1>1, <1>2, TableHolds, PTL

-----------------------------------------------------------------------------
(* Dispatch *)

\* No request is dispatched twice (ids are fresh, and ActionService dispatches
\* one once unless two decisions on it were accepted).
DistinctRequests == \A b, c \in Call : ReqOf[b] = ReqOf[c] => b = c

InFlight(c) == call[c] \in {"sending", "waiting"}
Lost(s)     == s \notin sessions \/ sock[s] # "open"

\* What is filed is filed where its dispatch put it, and the dispatch goes on
\* without an answer, or else the session is lost.
FiledIsWaitedFor ==
  \A s \in Sid, q \in Req : pending[s][q] # None =>
    /\ via[pending[s][q]] = s /\ ReqOf[pending[s][q]] = q
    /\ pc[s] # "none" /\ call[pending[s][q]] # "idle"
    /\ (InFlight(pending[s][q]) /\ answer[pending[s][q]] = None) \/ Lost(s)

InFlightAreFiled ==
  \A c \in Call : InFlight(c) /\ answer[c] = None => via[c] \in Sid /\ pending[via[c]][ReqOf[c]] = c

IdleAreUnanswered == \A c \in Call : call[c] = "idle" => answer[c] = None

CallInv == FiledIsWaitedFor /\ InFlightAreFiled /\ IdleAreUnanswered

LEMMA CallInit == Init => CallInv
BY DEF Init, CallInv, FiledIsWaitedFor, InFlightAreFiled, IdleAreUnanswered, InFlight

\* A step that has nothing to do with dispatch.
LEMMA CallsKept ==
  ASSUME TypeOK, CallInv, UNCHANGED rpc,
         \A s \in Sid : pc[s] # "none" => pc'[s] # "none" /\ (Lost(s) => Lost(s)')
  PROVE  CallInv'
BY DEF CallInv, FiledIsWaitedFor, InFlightAreFiled, IdleAreUnanswered, InFlight, TypeOK

\* Whoever waits on a dropped session has an answer.
LEMMA CallsDropped ==
  ASSUME TypeOK, CallInv, NEW s \in Sid, Drop(s), UNCHANGED <<pending, call, via, wire, sock>>,
         \A t \in Sid : pc[t] # "none" => pc'[t] # "none"
  PROVE  CallInv'
<1>1. \A c \in Call : \/ answer'[c] = answer[c]
                      \/ answer'[c] # None /\ \E q \in Req : pending[s][q] = c
  BY GatewayAssumption DEF Drop, Waiters, TypeOK
<1>2. sessions' = sessions \ {s}
  BY DEF Drop
<1>3. \A t \in Sid : Lost(t)' <=> Lost(t) \/ t = s
  BY <1>2 DEF Lost
<1>4. \A c \in Call : c # None
  BY GatewayAssumption
<1>5. IdleAreUnanswered'
  BY <1>1, <1>4 DEF CallInv, FiledIsWaitedFor, IdleAreUnanswered
<1>6. InFlightAreFiled'
  BY <1>1 DEF CallInv, InFlightAreFiled, InFlight
<1>7. FiledIsWaitedFor'
  <2> SUFFICES ASSUME NEW t \in Sid, NEW q \in Req, pending[t][q] # None
               PROVE  /\ via[pending[t][q]] = t /\ ReqOf[pending[t][q]] = q
                      /\ pc'[t] # "none" /\ call[pending[t][q]] # "idle"
                      /\ \/ InFlight(pending[t][q]) /\ answer'[pending[t][q]] = None
                         \/ Lost(t)'
    BY DEF FiledIsWaitedFor, InFlight
  <2>1. PICK c \in Call : pending[t][q] = c
    BY DEF TypeOK
  <2>2. /\ via[c] = t /\ ReqOf[c] = q /\ pc[t] # "none" /\ call[c] # "idle"
        /\ (InFlight(c) /\ answer[c] = None) \/ Lost(t)
    BY <2>1 DEF CallInv, FiledIsWaitedFor
  <2>3. CASE t = s
    BY <1>3, <2>1, <2>2, <2>3
  <2>4. CASE t # s
    <3>1. \A r \in Req : pending[s][r] # c
      BY <1>4, <2>2, <2>4 DEF CallInv, FiledIsWaitedFor
    <3>2. answer'[c] = answer[c]
      BY <1>1, <3>1
    <3> QED BY <1>3, <2>1, <2>2, <3>2
  <2> QED BY <2>3, <2>4
<1> QED
  BY <1>5, <1>6, <1>7 DEF CallInv

\* The result of a request reaches the call that waits for it.
LEMMA CallsAnswered ==
  ASSUME TypeOK, CallInv, NEW s \in Sid, NEW q \in Req, NEW o \in {"completed", "failed"},
         Result(s, q, o)
  PROVE  CallInv'
<1>1. /\ pending' = [pending EXCEPT ![s][q] = None]
      /\ UNCHANGED <<sessions, call, via, sock, pc>>
      /\ o # None
  BY GatewayAssumption DEF Result
<1>2. /\ pending'[s][q] = None
      /\ \A t \in Sid, r \in Req : t # s \/ r # q => pending'[t][r] = pending[t][r]
  BY <1>1 DEF TypeOK
<1>3. \A c \in Call : c # None
  BY GatewayAssumption
<1>4. /\ \A c \in Call : answer'[c] = answer[c] \/ (c = pending[s][q] /\ answer'[c] # None)
      /\ \A c \in Call : c = pending[s][q] => answer'[c] # None
  BY <1>1, <1>3 DEF Result, TypeOK
<1>5. IdleAreUnanswered'
  BY <1>1, <1>3, <1>4 DEF CallInv, FiledIsWaitedFor, IdleAreUnanswered
<1>6. InFlightAreFiled'
  <2> SUFFICES ASSUME NEW c \in Call, InFlight(c), answer'[c] = None
               PROVE  via[c] \in Sid /\ pending'[via[c]][ReqOf[c]] = c
    BY <1>1 DEF InFlightAreFiled, InFlight
  <2>1. answer[c] = None /\ c # pending[s][q]
    BY <1>4
  <2>2. via[c] \in Sid /\ pending[via[c]][ReqOf[c]] = c /\ ReqOf[c] \in Req
    BY <2>1, GatewayAssumption DEF CallInv, InFlightAreFiled
  <2> QED BY <1>2, <2>1, <2>2
<1>7. FiledIsWaitedFor'
  <2> SUFFICES ASSUME NEW t \in Sid, NEW r \in Req, pending'[t][r] # None
               PROVE  /\ via[pending'[t][r]] = t /\ ReqOf[pending'[t][r]] = r
                      /\ pc[t] # "none" /\ call[pending'[t][r]] # "idle"
                      /\ \/ InFlight(pending'[t][r]) /\ answer'[pending'[t][r]] = None
                         \/ Lost(t)
    BY <1>1 DEF FiledIsWaitedFor, InFlight, Lost
  <2>1. pending'[t][r] = pending[t][r] /\ (t # s \/ r # q)
    BY <1>2
  <2>2. PICK c \in Call : pending[t][r] = c
    BY <2>1 DEF TypeOK
  <2>3. /\ via[c] = t /\ ReqOf[c] = r /\ pc[t] # "none" /\ call[c] # "idle"
        /\ (InFlight(c) /\ answer[c] = None) \/ Lost(t)
    BY <1>3, <2>2 DEF CallInv, FiledIsWaitedFor
  <2>4. c # pending[s][q]
    BY <1>3, <2>1, <2>3 DEF CallInv, FiledIsWaitedFor
  <2>5. answer'[c] = answer[c]
    BY <1>4, <2>4
  <2> QED BY <2>1, <2>2, <2>3, <2>5
<1> QED
  BY <1>5, <1>6, <1>7 DEF CallInv

\* A dispatch files its future.
LEMMA CallsFiled ==
  ASSUME TypeOK, FreshIsAbsent, CallInv, DistinctRequests, NEW c \in Call, NEW s \in Sid,
         Dispatch(c, s)
  PROVE  CallInv'
<1> DEFINE to == IF sock[s] = "closed" THEN "done" ELSE "sending"
<1>1. /\ call[c] = "idle" /\ s \in sessions /\ pc[s] # "none"
      /\ via' = [via EXCEPT ![c] = s] /\ call' = [call EXCEPT ![c] = to]
      /\ pending' = [pending EXCEPT ![s][ReqOf[c]] = c]
      /\ UNCHANGED <<sessions, answer, sock, pc>>
  BY DEF Dispatch, FreshIsAbsent
<1>2. ReqOf[c] \in Req /\ answer[c] = None /\ \A b \in Call : b # None
  BY <1>1, GatewayAssumption DEF CallInv, IdleAreUnanswered
<1>3. /\ pending'[s][ReqOf[c]] = c
      /\ \A t \in Sid, r \in Req : t # s \/ r # ReqOf[c] => pending'[t][r] = pending[t][r]
      /\ via'[c] = s /\ call'[c] = to
      /\ \A b \in Call : b # c => via'[b] = via[b] /\ call'[b] = call[b]
  BY <1>1, <1>2 DEF TypeOK
<1>4. IdleAreUnanswered'
  BY <1>1, <1>3 DEF CallInv, IdleAreUnanswered
<1>5. InFlightAreFiled'
  <2> SUFFICES ASSUME NEW b \in Call, InFlight(b)', answer[b] = None
               PROVE  via'[b] \in Sid /\ pending'[via'[b]][ReqOf[b]] = b
    BY <1>1 DEF InFlightAreFiled
  <2>1. CASE b = c
    BY <1>3, <2>1
  <2>2. CASE b # c
    <3>1. via[b] \in Sid /\ pending[via[b]][ReqOf[b]] = b /\ ReqOf[b] \in Req
      BY <1>3, <2>2, GatewayAssumption DEF CallInv, InFlightAreFiled, InFlight
    <3>2. ReqOf[b] # ReqOf[c]
      BY <2>2 DEF DistinctRequests
    <3> QED BY <1>3, <2>2, <3>1, <3>2
  <2> QED BY <2>1, <2>2
<1>6. FiledIsWaitedFor'
  <2> SUFFICES ASSUME NEW t \in Sid, NEW r \in Req, pending'[t][r] # None
               PROVE  /\ via'[pending'[t][r]] = t /\ ReqOf[pending'[t][r]] = r
                      /\ pc[t] # "none" /\ call'[pending'[t][r]] # "idle"
                      /\ \/ call'[pending'[t][r]] \in {"sending", "waiting"} /\ answer[pending'[t][r]] = None
                         \/ Lost(t)
    BY <1>1 DEF FiledIsWaitedFor, InFlight, Lost
  <2>1. CASE t = s /\ r = ReqOf[c]
    BY <1>1, <1>2, <1>3, <2>1 DEF InFlight, Lost
  <2>2. CASE t # s \/ r # ReqOf[c]
    <3>1. PICK b \in Call : pending[t][r] = b /\ pending'[t][r] = b
      BY <1>3, <2>2 DEF TypeOK
    <3>2. /\ via[b] = t /\ ReqOf[b] = r /\ pc[t] # "none" /\ call[b] # "idle"
          /\ (InFlight(b) /\ answer[b] = None) \/ Lost(t)
      BY <1>2, <3>1 DEF CallInv, FiledIsWaitedFor
    <3> QED BY <1>1, <1>3, <3>1, <3>2 DEF InFlight
  <2> QED BY <2>1, <2>2
<1> QED
  BY <1>4, <1>5, <1>6 DEF CallInv

\* A dispatch goes from sending to waiting, or comes back.
LEMMA CallsReturn ==
  ASSUME TypeOK, CallInv, NEW c \in Call, Await(c)
  PROVE  CallInv'
<1>1. UNCHANGED <<sessions, answer, sock, pc, via>> /\ \A b \in Call : b # None
  BY GatewayAssumption DEF Await, DispatchSent, DispatchReturn, DispatchTimeout
<1>2. ReqOf[c] \in Req
  BY GatewayAssumption
<1>3. PICK l \in {"waiting", "done"} : call' = [call EXCEPT ![c] = l]
  BY DEF Await, DispatchSent, DispatchReturn, DispatchTimeout
<1>4. call'[c] = l /\ call[c] \in {"sending", "waiting"} /\ \A b \in Call : b # c => call'[b] = call[b]
  BY <1>3 DEF Await, DispatchSent, DispatchReturn, DispatchTimeout, TypeOK
<1>5. IdleAreUnanswered'
  BY <1>1, <1>4 DEF CallInv, IdleAreUnanswered
<1>6. CASE DispatchSent(c) \/ DispatchReturn(c)
  <2>1. UNCHANGED pending
    BY <1>6 DEF DispatchSent, DispatchReturn
  <2>2. l = "waiting" \/ answer[c] # None \/ sock[via[c]] # "open"
    BY <1>4, <1>6 DEF DispatchSent, DispatchReturn, TypeOK
  <2>3. InFlightAreFiled'
    BY <1>1, <1>4, <2>1 DEF CallInv, InFlightAreFiled, InFlight
  <2>4. FiledIsWaitedFor'
    <3> SUFFICES ASSUME NEW t \in Sid, NEW r \in Req, pending[t][r] # None
                 PROVE  /\ via[pending[t][r]] = t /\ ReqOf[pending[t][r]] = r
                        /\ pc[t] # "none" /\ call'[pending[t][r]] # "idle"
                        /\ \/ call'[pending[t][r]] \in {"sending", "waiting"} /\ answer[pending[t][r]] = None
                           \/ Lost(t)
      BY <1>1, <2>1 DEF FiledIsWaitedFor, InFlight, Lost
    <3>1. PICK b \in Call : pending[t][r] = b
      BY DEF TypeOK
    <3>2. /\ via[b] = t /\ ReqOf[b] = r /\ pc[t] # "none" /\ call[b] # "idle"
          /\ (InFlight(b) /\ answer[b] = None) \/ Lost(t)
      BY <1>1, <3>1 DEF CallInv, FiledIsWaitedFor
    <3>3. CASE b = c
      BY <1>4, <2>2, <3>1, <3>2, <3>3 DEF Lost
    <3>4. CASE b # c
      BY <1>4, <3>1, <3>2, <3>4 DEF InFlight
    <3> QED BY <3>3, <3>4
  <2> QED BY <1>5, <2>3, <2>4 DEF CallInv
<1>7. CASE DispatchTimeout(c)
  <2>1. answer[c] = None /\ call'[c] = "done" /\ via[c] \in Sid
        /\ pending' = [pending EXCEPT ![via[c]][ReqOf[c]] = None]
    BY <1>4, <1>7 DEF DispatchTimeout, TimesOut, Unfiled, TypeOK, CallInv, InFlightAreFiled, InFlight
  <2>2. /\ pending'[via[c]][ReqOf[c]] = None
        /\ \A t \in Sid, r \in Req : t # via[c] \/ r # ReqOf[c] => pending'[t][r] = pending[t][r]
    BY <1>2, <2>1 DEF TypeOK
  <2>3. pending[via[c]][ReqOf[c]] = c
    BY <1>4, <2>1 DEF CallInv, InFlightAreFiled, InFlight
  <2>4. InFlightAreFiled'
    <3> SUFFICES ASSUME NEW b \in Call, InFlight(b)', answer[b] = None
                 PROVE  via[b] \in Sid /\ pending'[via[b]][ReqOf[b]] = b
      BY <1>1 DEF InFlightAreFiled
    <3>1. b # c /\ InFlight(b)
      BY <1>4, <2>1 DEF InFlight
    <3>2. via[b] \in Sid /\ pending[via[b]][ReqOf[b]] = b /\ ReqOf[b] \in Req
      BY <3>1, GatewayAssumption DEF CallInv, InFlightAreFiled
    <3> QED BY <2>2, <2>3, <3>1, <3>2
  <2>5. FiledIsWaitedFor'
    <3> SUFFICES ASSUME NEW t \in Sid, NEW r \in Req, pending'[t][r] # None
                 PROVE  /\ via[pending'[t][r]] = t /\ ReqOf[pending'[t][r]] = r
                        /\ pc[t] # "none" /\ call'[pending'[t][r]] # "idle"
                        /\ \/ call'[pending'[t][r]] \in {"sending", "waiting"} /\ answer[pending'[t][r]] = None
                           \/ Lost(t)
      BY <1>1 DEF FiledIsWaitedFor, InFlight, Lost
    <3>0. pending'[t][r] = pending[t][r] /\ pending[t][r] \in Call \cup {None}
      BY <2>2 DEF TypeOK
    <3>1. PICK b \in Call : pending[t][r] = b /\ pending'[t][r] = b
      BY <3>0
    <3>2. /\ via[b] = t /\ ReqOf[b] = r /\ pc[t] # "none" /\ call[b] # "idle"
          /\ (InFlight(b) /\ answer[b] = None) \/ Lost(t)
      BY <1>1, <3>1 DEF CallInv, FiledIsWaitedFor
    <3>3. b # c
      BY <1>1, <2>2, <3>1, <3>2
    <3> QED BY <1>4, <3>1, <3>2, <3>3 DEF InFlight
  <2> QED BY <1>5, <2>4, <2>5 DEF CallInv
<1> QED
  BY <1>6, <1>7 DEF Await

LEMMA CallStep ==
  ASSUME DistinctRequests
  PROVE  TypeInv /\ TableInv /\ CallInv /\ [Next]_vars => CallInv'
<1> SUFFICES ASSUME TypeInv, TableInv, CallInv, [Next]_vars PROVE CallInv'
  OBVIOUS
<1>1. TypeOK /\ FreshIsAbsent /\ DropsTheGone
  BY DEF TypeInv, TableInv
<1>2. ASSUME NEW s \in Sid, Peer(s) PROVE CallInv'
  <2>1. CASE Connect(s)
    BY <1>1, <2>1, CallsKept DEF Connect, Lost, TypeOK
  <2>2. CASE PeerLeaves(s)
    BY <1>1, <2>2, CallsKept DEF PeerLeaves, Lost, TypeOK
  <2>3. CASE NoHello(s)
    BY <1>1, <2>3, CallsKept DEF NoHello, Reject, Lost, TypeOK
  <2>4. CASE Heartbeat(s)
    BY <1>1, <2>4, CallsKept DEF Heartbeat, Lost, TypeOK
  <2>5. ASSUME NEW d \in Device, NEW k \in Key, NEW c \in Code \cup {None}, Hello(s, d, k, c)
        PROVE CallInv'
    BY <1>1, <2>5, CallsKept DEF Hello, Lost, TypeOK
  <2> QED BY <1>1, <1>2, <2>1, <2>2, <2>3, <2>4, <2>5, CallsAnswered DEF Peer
<1>3. ASSUME NEW s \in Sid, Handle(s) PROVE CallInv'
  <2>1. CASE Rejected(s)
    BY <1>1, <2>1, CallsKept DEF Rejected, Lost, TypeOK
  <2>2. CASE RefuseStranger(s) \/ RefuseKey(s)
    BY <1>1, <2>2, CallsKept DEF RefuseStranger, RefuseKey, Reject, Lost, TypeOK
  <2>3. CASE Pair(s)
    BY <1>1, <2>3, CallsKept DEF Pair, Lost, TypeOK
  <2>4. CASE Refresh(s)
    BY <1>1, <2>4, CallsKept DEF Refresh, Lost, TypeOK
  <2>5. CASE TakeOver(s)
    <3>1. CASE Supersede(s)
      BY <1>1, <2>5, <3>1, CallsKept DEF TakeOver, Supersede, Lost, TypeOK
    <3>2. CASE Admit(s)
      BY <1>1, <2>5, <3>2, CallsKept DEF TakeOver, Admit, Lost, TypeOK
    <3> QED BY <2>5, <3>1, <3>2 DEF TakeOver
  <2>6. CASE Replaced(s)
    BY <1>1, <2>6, CallsKept DEF Replaced, Admit, Lost, TypeOK
  <2>7. CASE Welcome(s) \/ Welcomed(s)
    BY <1>1, <2>7, CallsKept DEF Welcome, Welcomed, Lost, TypeOK
  <2>8. CASE HeartbeatStored(s) \/ AlreadyDropped(s) \/ AnnounceOffline(s)
    BY <1>1, <2>8, CallsKept DEF HeartbeatStored, AlreadyDropped, AnnounceOffline, Lost, TypeOK
  <2>9. CASE Disconnect(s)
    BY <1>1, <2>9, CallsDropped DEF Disconnect, TypeOK
  <2> QED
    BY <1>3, <2>1, <2>2, <2>3, <2>4, <2>5, <2>6, <2>7, <2>8, <2>9 DEF Handle
<1>4. CASE Reap
  <2>1. ASSUME NEW s \in Sid, ReapDrop(s) PROVE CallInv'
    <3>1. CASE s \in sessions
      BY <1>1, <2>1, <3>1, CallsDropped DEF ReapDrop
    <3>2. CASE s \notin sessions
      BY <1>1, <2>1, <3>2, CallsKept DEF ReapDrop, Lost
    <3> QED BY <3>1, <3>2
  <2>2. ASSUME NEW s \in Sid, ReapClose(s) PROVE CallInv'
    BY <1>1, <2>2, CallsKept DEF ReapClose, Lost, TypeOK
  <2>3. CASE ReapScan \/ ReapAnnounce \/ ReapEnd
    BY <1>1, <2>3, CallsKept DEF ReapScan, ReapAnnounce, ReapEnd, Lost
  <2> QED BY <1>4, <2>1, <2>2, <2>3 DEF Reap
<1>5. ASSUME NEW c \in Call, Ask(c) PROVE CallInv'
  <2>1. CASE DispatchOffline(c)
    BY <1>1, <2>1, GatewayAssumption
       DEF DispatchOffline, TypeOK, CallInv, FiledIsWaitedFor, InFlightAreFiled,
           IdleAreUnanswered, InFlight, Lost
  <2> QED BY <1>1, <1>5, <2>1, CallsFiled DEF Ask
<1>6. ASSUME NEW c \in Code, NewPairingCode(c) PROVE CallInv'
  BY <1>1, <1>6, CallsKept DEF NewPairingCode, Lost
<1>7. CASE Tick \/ UNCHANGED vars
  BY <1>1, <1>7, CallsKept DEF Tick, Lost
<1>8. CASE Restart
  BY <1>1, <1>8, GatewayAssumption
     DEF Restart, TypeOK, CallInv, FiledIsWaitedFor, InFlightAreFiled, IdleAreUnanswered,
         InFlight, Lost
<1> QED
  BY <1>1, <1>2, <1>3, <1>4, <1>5, <1>6, <1>7, <1>8, CallsReturn DEF Next

\* The futures on file are those that are waited for, however results,
\* replacements, drops and timeouts race (dispatch and its timeout).
THEOREM PendingExact == DistinctRequests => (Spec => []PendingIsExact)
<1> SUFFICES ASSUME DistinctRequests PROVE Spec => []PendingIsExact
  OBVIOUS
<1>1. TypeInv /\ CallInv => PendingIsExact
  BY DEF TypeInv, TypeOK, CallInv, FiledIsWaitedFor, InFlightAreFiled, InFlight, Lost,
         PendingIsExact, NoStalePending, WaitersAreFiled
<1>2. TypeInv /\ TableInv /\ CallInv /\ [Next]_vars => CallInv'
  BY CallStep
<1>3. Spec => []CallInv
  BY CallInit, <1>2, TableHolds, PTL DEF Spec
<1> QED
  BY <1>1, <1>3, TableHolds, PTL

-----------------------------------------------------------------------------
(* The event feed *)

Waiting == {"looking_up", "registering", "marking", "beating", "offlining"}

Waits(t) == IF t = Reaper THEN reaper.pc = "offlining" ELSE pc[t] \in Waiting

Once(q)        == \A i, j \in 1..Len(q) : q[i] = q[j] => i = j
In(q, x)       == \E i \in 1..Len(q) : q[i] = x
Ahead(q, x, u) == \A j \in 1..Len(q) : q[j] = u => \E i \in 1..(j - 1) : q[i] = x

\* Whoever waits for the database is in its queue, once.
QueueIsExact == Once(db) /\ \A t \in Sid \cup {Reaper} : Waits(t) <=> In(db, t)

\* Who is about to announce d offline.
Announces(x, d) ==
  IF x = Reaper THEN reaper.pc = "offlining" /\ owner[reaper.on] = d
                ELSE pc[x] = "offlining" /\ owner[x] = d

Clean(d) == d \in Device /\ d \notin raced /\ restarts = 0

OnFileOwns ==
  /\ \A d \in Device : byDevice[d] # None => owner[byDevice[d]] = d
  /\ \A s \in Sid : pc[s] = "rejecting" => owner[s] = None
  /\ \A s \in sessions : pc[s] \notin {"offlining", "done"}
  /\ reaper.pc = "offlining" => reaper.on \in Sid /\ owner[reaper.on] # None

\* A session on file that is off the table is being replaced.
OffTableIsReplaced ==
  \A d \in Device : Clean(d) /\ byDevice[d] # None /\ byDevice[d] \notin sessions =>
    \E t \in Sid : pc[t] = "replacing" /\ Dev(t) = d

\* A session whose welcome goes out is on file and on the table.
WelcomedAreOnFile ==
  \A s \in Sid : Clean(Dev(s)) =>
    /\ pc[s] = "welcoming" => byDevice[Dev(s)] = s /\ s \in sessions
    /\ pc[s] = "marking" => (byDevice[Dev(s)] = s /\ s \in sessions) \/ sock[s] = "closed"

\* An announcement that is under way comes before the next welcome.
OfflineComesFirst ==
  \A d \in Device, x \in Sid \cup {Reaper} :
    Clean(d) /\ Announces(x, d) /\ byDevice[d] # None =>
      pc[byDevice[d]] = "marking" /\ Ahead(db, x, byDevice[d])

\* What the dashboards were told last.
ToldOnline ==
  \A d \in Device : Clean(d) /\ byDevice[d] \in sessions
      /\ pc[byDevice[d]] \in {"reading", "beating"} => feed[d] = "online"
ToldOffline ==
  \A d \in Device : Clean(d) /\ byDevice[d] = None =>
    feed[d] = "offline" \/ \E x \in Sid \cup {Reaper} : Announces(x, d)

FeedInv ==
  /\ QueueIsExact /\ OnFileOwns /\ OffTableIsReplaced /\ WelcomedAreOnFile
  /\ OfflineComesFirst /\ ToldOnline /\ ToldOffline

LEMMA FeedAgreesWhenQuiet == TypeInv /\ FeedInv => FeedAgrees
<1> SUFFICES ASSUME TypeInv, FeedInv, NEW d \in Device \ raced, restarts = 0, Quiet(d)
             PROVE  feed[d] = "online" <=> byDevice[d] # None
  BY DEF FeedAgrees
<1> USE DEF FeedInv
<1>1. TypeOK /\ SpeaksAsGreeted /\ Clean(d) /\ None \notin Device
  BY GatewayAssumption DEF TypeInv, Clean
<1>2. CASE byDevice[d] = None
  <2>1. \A x \in Sid \cup {Reaper} : ~Announces(x, d)
    BY <1>1, GatewayAssumption DEF Quiet, Announces, SpeaksAsGreeted
  <2> QED BY <1>1, <1>2, <2>1 DEF ToldOffline, TypeOK
<1>3. CASE byDevice[d] # None
  <2>1. PICK s \in Sid : byDevice[d] = s
    BY <1>1, <1>3 DEF TypeOK
  <2>2. owner[s] = d /\ Dev(s) = d
    BY <1>1, <1>3, <2>1 DEF OnFileOwns, SpeaksAsGreeted
  <2>3. s \in sessions
    BY <1>1, <1>3, <2>1 DEF OffTableIsReplaced, Quiet
  <2>4. pc[s] \in {"reading", "beating"}
    BY <1>1, <2>2, <2>3 DEF Quiet, SpeaksAsGreeted, OnFileOwns
  <2> QED BY <1>1, <1>3, <2>1, <2>3, <2>4 DEF ToldOnline
<1> QED
  BY <1>2, <1>3

LEMMA FeedInit == Init => FeedInv
BY GatewayAssumption
   DEF Init, FeedInv, QueueIsExact, Once, In, Waits, Waiting, Asleep, OnFileOwns,
       OffTableIsReplaced, WelcomedAreOnFile, OfflineComesFirst, Announces, ToldOnline,
       ToldOffline, Clean

\* The queue of the database, when one joins and when the first is served.
LEMMA Joined ==
  ASSUME NEW q \in Queue, NEW t \in Sid \cup {Reaper}, Once(q), ~In(q, t)
  PROVE  /\ Once(Append(q, t))
         /\ \A x : In(Append(q, t), x) <=> In(q, x) \/ x = t
         /\ \A x, u : Ahead(q, x, u) /\ u # t => Ahead(Append(q, t), x, u)
         /\ \A x : In(q, x) => Ahead(Append(q, t), x, t)
<1> DEFINE r == Append(q, t)
<1>1. /\ Len(q) \in Nat /\ Len(r) = Len(q) + 1 /\ r[Len(q) + 1] = t
      /\ \A i \in 1..Len(q) : r[i] = q[i]
  BY DEF Queue
<1> HIDE DEF r
<1>2. Once(r)
  BY <1>1 DEF Once, In
<1>3. \A x : In(r, x) <=> In(q, x) \/ x = t
  <2> TAKE x
  <2>1. In(r, x) => In(q, x) \/ x = t
    BY <1>1 DEF In
  <2>2. In(q, x) => In(r, x)
    BY <1>1 DEF In
  <2>3. x = t => In(r, x)
    <3>1. Len(q) + 1 \in 1..Len(r)
      BY <1>1
    <3> QED BY <1>1, <3>1 DEF In
  <2> QED BY <2>1, <2>2, <2>3
<1>4. \A x, u : Ahead(q, x, u) /\ u # t => Ahead(r, x, u)
  BY <1>1 DEF Ahead
<1>5. \A x : In(q, x) => Ahead(r, x, t)
  BY <1>1 DEF In, Ahead
<1> QED
  BY <1>2, <1>3, <1>4, <1>5 DEF r

LEMMA ServedFirst ==
  ASSUME NEW q \in Queue, q # <<>>, Once(q)
  PROVE  /\ Tail(q) \in Queue /\ Once(Tail(q)) /\ In(q, Head(q))
         /\ \A x : In(Tail(q), x) <=> In(q, x) /\ x # Head(q)
         /\ \A x, u : Ahead(q, x, u) /\ x # Head(q) => Ahead(Tail(q), x, u)
         /\ \A x : ~Ahead(q, x, Head(q))
<1> DEFINE r == Tail(q)
<1>1. /\ r \in Queue /\ Len(q) \in Nat \ {0} /\ Len(r) = Len(q) - 1 /\ Head(q) = q[1]
      /\ \A i \in 1..Len(r) : r[i] = q[i + 1]
  BY DEF Queue
<1> HIDE DEF r
<1>2. Once(r)
  BY <1>1 DEF Once
<1>3. 1 \in 1..Len(q)
  BY <1>1
<1>4. In(q, Head(q)) /\ \A x : ~Ahead(q, x, Head(q))
  BY <1>1, <1>3 DEF In, Ahead
<1>5. \A i \in 2..Len(q) : i - 1 \in 1..Len(r) /\ r[i - 1] = q[i]
  BY <1>1
<1>6. \A x : In(r, x) <=> In(q, x) /\ x # Head(q)
  <2> TAKE x
  <2>1. In(r, x) => In(q, x) /\ x # Head(q)
    <3> SUFFICES ASSUME NEW i \in 1..Len(r), r[i] = x PROVE In(q, x) /\ x # Head(q)
      BY DEF In
    <3>1. i + 1 \in 1..Len(q) /\ q[i + 1] = x /\ i + 1 # 1
      BY <1>1
    <3> QED BY <1>1, <1>3, <3>1 DEF In, Once
  <2>2. In(q, x) /\ x # Head(q) => In(r, x)
    BY <1>1, <1>5 DEF In
  <2> QED BY <2>1, <2>2
<1>7. \A x, u : Ahead(q, x, u) /\ x # Head(q) => Ahead(r, x, u)
  <2> SUFFICES ASSUME NEW x, NEW u, Ahead(q, x, u), x # Head(q), NEW j \in 1..Len(r), r[j] = u
               PROVE  \E i \in 1..(j - 1) : r[i] = x
    BY DEF Ahead
  <2>1. j + 1 \in 1..Len(q) /\ q[j + 1] = u
    BY <1>1
  <2>2. PICK i \in 1..j : q[i] = x
    BY <2>1 DEF Ahead
  <2>3. i - 1 \in 1..(j - 1) /\ r[i - 1] = x
    BY <1>1, <1>5, <2>1, <2>2
  <2> QED BY <2>3
<1> QED
  BY <1>1, <1>2, <1>4, <1>6, <1>7 DEF r

\* What a step of t does to the queue.
QueueStep(t) ==
  /\ \A x \in (Sid \cup {Reaper}) \ {t} : Waits(x)' <=> Waits(x)
  /\ \/ AwaitDb(t) /\ ~Waits(t) /\ Waits(t)'
     \/ Resume(t) /\ ~Waits(t)'
     \/ ResumeAndAwait(t) /\ Waits(t)'
     \/ UNCHANGED db /\ (Waits(t)' <=> Waits(t))

LEMMA QueueKept ==
  ASSUME TypeOK, QueueIsExact, NEW t \in Sid \cup {Reaper}, QueueStep(t)
  PROVE  /\ QueueIsExact'
         /\ \A x, u : x # t /\ u # t /\ Ahead(db, x, u) => Ahead(db', x, u)
         /\ Waits(t)' /\ (ResumeAndAwait(t) \/ (AwaitDb(t) /\ ~Waits(t))) =>
              \A x \in (Sid \cup {Reaper}) \ {t} : Waits(x) => Ahead(db', x, t)
         /\ Served(t) => \A x : ~Ahead(db, x, t)
<1>1. db \in Queue
  BY DEF TypeOK, Queue
<1>2. CASE AwaitDb(t) /\ ~Waits(t) /\ Waits(t)'
  BY <1>1, <1>2, Joined, ServedFirst DEF QueueIsExact, QueueStep, AwaitDb, ResumeAndAwait, Served
<1>3. CASE Resume(t) /\ ~Waits(t)'
  <2>1. db # <<>> /\ Head(db) = t /\ db' = Tail(db)
    BY <1>3 DEF Resume, Served
  <2> QED BY <1>1, <1>3, <2>1, ServedFirst DEF QueueIsExact, QueueStep
<1>4. CASE ResumeAndAwait(t) /\ Waits(t)'
  <2>1. db # <<>> /\ Head(db) = t /\ db' = Append(Tail(db), t)
    BY <1>4 DEF ResumeAndAwait, Served
  <2>2. /\ Tail(db) \in Queue /\ Once(Tail(db)) /\ ~In(Tail(db), t)
        /\ \A x : In(Tail(db), x) <=> In(db, x) /\ x # t
        /\ \A x, u : Ahead(db, x, u) /\ x # t => Ahead(Tail(db), x, u)
        /\ \A x : ~Ahead(db, x, t)
    BY <1>1, <2>1, ServedFirst DEF QueueIsExact
  <2>3. /\ Once(db')
        /\ \A x : In(db', x) <=> In(Tail(db), x) \/ x = t
        /\ \A x, u : Ahead(Tail(db), x, u) /\ u # t => Ahead(db', x, u)
        /\ \A x : In(Tail(db), x) => Ahead(db', x, t)
    BY <2>1, <2>2, Joined
  <2> QED BY <1>4, <2>2, <2>3 DEF QueueIsExact, QueueStep
<1>5. CASE /\ UNCHANGED db /\ (Waits(t)' <=> Waits(t))
            /\ ~(ResumeAndAwait(t) /\ Waits(t)')
  <2>1. QueueIsExact'
    BY <1>5 DEF QueueIsExact, QueueStep, Once, In
  <2>2. Served(t) => \A x : ~Ahead(db, x, t)
    <3>1. Once(db) /\ (Served(t) => db # <<>> /\ Head(db) = t)
      BY DEF QueueIsExact, Served
    <3>2. db # <<>> => \A x : ~Ahead(db, x, Head(db))
      BY <1>1, <3>1, ServedFirst
    <3> QED BY <3>1, <3>2
  <2> QED BY <1>5, <2>1, <2>2
<1> QED
  BY <1>2, <1>3, <1>4, <1>5 DEF QueueStep

\* Steps that leave alone what is on file and what was told: a coroutine keeps
\* its place, or goes on in a way that no announcement depends on.
GoesOnQuietly(t) ==
  \/ pc'[t] = pc[t]
  \/ /\ owner[t] = None /\ pc[t] \notin {"replacing", "offlining"}
     /\ pc'[t] \in {"reading", "rejecting", "looking_up", "registering"}
  \/ pc[t] \in {"reading", "beating"} /\ pc'[t] \in {"reading", "beating"}
  \/ pc[t] \in {"reading", "leaving"} /\ pc'[t] = "done" /\ t \notin sessions'
  \/ pc[t] = "welcoming" /\ pc'[t] = "leaving"

Quietly ==
  /\ UNCHANGED <<owner, byDevice, feed, restarts>> /\ raced \subseteq raced'
  /\ sessions' \subseteq Sid
  /\ \A d \in Device : byDevice[d] \in sessions' <=> byDevice[d] \in sessions
  /\ \A t \in Sid :
       /\ GoesOnQuietly(t)
       /\ t \in sessions' => t \in sessions \/ pc'[t] = "reading"
       /\ pc[t] \in {"replacing", "marking", "welcoming"} => hello'[t] = hello[t]
       /\ pc[t] = "marking" /\ sock[t] = "closed" => sock'[t] = "closed"
  /\ reaper' = reaper \/ (reaper.pc # "offlining" /\ reaper'.pc # "offlining")

\* The actor of such a step, if it uses the database, is neither about to
\* announce a device offline nor about to welcome one.
Bystander(t) ==
  \/ UNCHANGED db
  \/ IF t = Reaper THEN reaper.pc # "offlining" ELSE pc[t] \notin {"offlining", "marking"}

LEMMA FeedKept ==
  ASSUME TypeInv, FeedInv, NEW a \in Sid \cup {Reaper}, QueueStep(a), Bystander(a), Quietly
  PROVE  FeedInv'
<1>1. TypeOK /\ QueueIsExact
  BY DEF TypeInv, FeedInv
<1>2. QueueIsExact'
  BY <1>1, QueueKept
<1>3. \A x, u : x # a /\ u # a /\ Ahead(db, x, u) => Ahead(db', x, u)
  BY <1>1, QueueKept
<1>4. OnFileOwns'
  <2>1. \A d \in Device : byDevice'[d] # None => owner'[byDevice'[d]] = d
    BY DEF FeedInv, OnFileOwns, Quietly
  <2>2. \A s \in Sid : pc'[s] = "rejecting" => owner'[s] = None
    BY DEF FeedInv, OnFileOwns, Quietly, GoesOnQuietly
  <2>3. \A s \in sessions' : pc'[s] \notin {"offlining", "done"}
    BY DEF FeedInv, OnFileOwns, Quietly, GoesOnQuietly
  <2>4. reaper'.pc = "offlining" => reaper'.on \in Sid /\ owner'[reaper'.on] # None
    BY DEF FeedInv, OnFileOwns, Quietly
  <2> QED BY <2>1, <2>2, <2>3, <2>4 DEF OnFileOwns
<1>5. \A d \in Device : Clean(d)' => Clean(d)
  BY DEF Quietly, Clean
<1>6. OffTableIsReplaced'
  BY <1>1, <1>5 DEF FeedInv, OffTableIsReplaced, Quietly, GoesOnQuietly, Dev
<1>7. WelcomedAreOnFile'
  <2> SUFFICES ASSUME NEW s \in Sid, Clean(Dev(s))', pc'[s] \in {"welcoming", "marking"}
               PROVE  /\ pc'[s] = "welcoming" => byDevice'[Dev(s)'] = s /\ s \in sessions'
                      /\ pc'[s] = "marking" =>
                           (byDevice'[Dev(s)'] = s /\ s \in sessions') \/ sock'[s] = "closed"
    BY DEF WelcomedAreOnFile
  <2>1. pc'[s] = pc[s] /\ Dev(s)' = Dev(s)
    BY DEF Quietly, GoesOnQuietly, Dev
  <2>2. Dev(s) \in Device /\ Clean(Dev(s))
    BY <1>5, <2>1 DEF Clean, Quietly
  <2> QED BY <2>1, <2>2 DEF FeedInv, WelcomedAreOnFile, Quietly
<1>8. \A x \in Sid \cup {Reaper}, d \in Device : Announces(x, d)' <=> Announces(x, d)
  BY DEF Quietly, GoesOnQuietly, Announces
<1>9. OfflineComesFirst'
  <2> SUFFICES ASSUME NEW d \in Device, NEW x \in Sid \cup {Reaper}, Clean(d)', Announces(x, d),
                      byDevice[d] # None
               PROVE  pc'[byDevice[d]] = "marking" /\ Ahead(db', x, byDevice[d])
    BY <1>8 DEF OfflineComesFirst, Quietly
  <2>1. byDevice[d] \in Sid /\ pc[byDevice[d]] = "marking" /\ Ahead(db, x, byDevice[d])
    BY <1>1, <1>5 DEF FeedInv, OfflineComesFirst, TypeOK
  <2>2. pc'[byDevice[d]] = "marking"
    <3>1. byDevice[d] # None => owner[byDevice[d]] # None
      BY GatewayAssumption DEF FeedInv, OnFileOwns
    <3> QED BY <2>1, <3>1 DEF Quietly, GoesOnQuietly
  <2>3. Ahead(db', x, byDevice[d])
    BY <1>3, <2>1, GatewayAssumption DEF Bystander, Announces
  <2> QED BY <2>2, <2>3
<1>10. ToldOnline'
  <2> SUFFICES ASSUME NEW d \in Device, Clean(d)', byDevice[d] \in sessions',
                      pc'[byDevice[d]] \in {"reading", "beating"}
               PROVE  feed[d] = "online"
    BY DEF ToldOnline, Quietly
  <2>1. byDevice[d] \in Sid /\ byDevice[d] # None /\ byDevice[d] \in sessions
    BY <1>1, GatewayAssumption DEF Quietly, TypeOK
  <2>2. owner[byDevice[d]] # None
    BY <2>1, GatewayAssumption DEF FeedInv, OnFileOwns
  <2>3. pc[byDevice[d]] \in {"reading", "beating"}
    BY <2>1, <2>2 DEF Quietly, GoesOnQuietly
  <2> QED BY <1>5, <2>1, <2>3 DEF FeedInv, ToldOnline
<1>11. ToldOffline'
  BY <1>5, <1>8 DEF FeedInv, ToldOffline, Quietly
<1> QED
  BY <1>2, <1>4, <1>6, <1>7, <1>9, <1>10, <1>11 DEF FeedInv

\* An old session is taken off the table.
LEMMA FeedSuperseded ==
  ASSUME TypeInv, FeedInv, NEW s \in Sid, TakeOver(s), Replaces(s), Supersede(s), Resume(s)
  PROVE  FeedInv'
<1>1. TypeOK /\ SpeaksAsGreeted /\ QueueIsExact /\ Dev(s) \in Device
  BY DEF TypeInv, FeedInv, HelloIsWhole, Greeting, TakeOver
<1>2. PICK o \in Sid : o = byDevice[Dev(s)]
  BY <1>1 DEF Replaces, TypeOK
<1>3. /\ pc[s] \in {"looking_up", "registering"} /\ owner[s] = None
      /\ pc' = [pc EXCEPT ![s] = "replacing"] /\ sock' = [sock EXCEPT ![o] = "closed"]
      /\ sessions' = sessions \ {o} /\ o \in sessions
      /\ UNCHANGED <<owner, byDevice, feed, restarts, hello, reaper>>
      /\ raced' = IF pc[o] = "welcoming" THEN raced \cup {Dev(s)} ELSE raced
  BY <1>1, <1>2 DEF TakeOver, Supersede, Replaces, RacedIf, SpeaksAsGreeted
<1>4. owner[o] = Dev(s) /\ Dev(o) = Dev(s) /\ s # o
  BY <1>1, <1>2, <1>3, GatewayAssumption DEF FeedInv, OnFileOwns, SpeaksAsGreeted
<1>5. \A t \in Sid : t # s => pc'[t] = pc[t]
  BY <1>1, <1>3 DEF TypeOK
<1>6. pc'[s] = "replacing" /\ \A t \in Sid : Dev(t)' = Dev(t)
  BY <1>1, <1>3 DEF TypeOK, Dev
<1>7. QueueStep(s)
  BY <1>1, <1>3, <1>5, <1>6, GatewayAssumption DEF QueueStep, Waits, Waiting
<1>8. /\ QueueIsExact'
      /\ \A x, u : x # s /\ u # s /\ Ahead(db, x, u) => Ahead(db', x, u)
  BY <1>1, <1>7, QueueKept
<1>9. \A d \in Device : Clean(d)' => Clean(d)
  BY <1>3 DEF Clean
<1>10. OnFileOwns'
  BY <1>3, <1>5, <1>6, <1>1 DEF FeedInv, OnFileOwns, TypeOK
<1>11. \A d \in Device : byDevice[d] = o => d = Dev(s)
  BY <1>2, <1>4, GatewayAssumption DEF FeedInv, OnFileOwns
<1>12. OffTableIsReplaced'
  <2> SUFFICES ASSUME NEW d \in Device, Clean(d)', byDevice[d] # None, byDevice[d] \notin sessions'
               PROVE  \E t \in Sid : pc'[t] = "replacing" /\ Dev(t)' = d
    BY <1>3 DEF OffTableIsReplaced
  <2>1. CASE d = Dev(s)
    BY <1>6, <2>1
  <2>2. CASE d # Dev(s)
    <3>1. byDevice[d] \notin sessions
      BY <1>3, <1>11, <2>2
    <3>2. PICK t \in Sid : pc[t] = "replacing" /\ Dev(t) = d
      BY <1>9, <3>1 DEF FeedInv, OffTableIsReplaced
    <3> QED BY <1>5, <1>6, <2>2, <3>2
  <2> QED BY <2>1, <2>2
<1>13. WelcomedAreOnFile'
  <2> SUFFICES ASSUME NEW t \in Sid, Clean(Dev(t))'
               PROVE  /\ pc'[t] = "welcoming" => byDevice[Dev(t)] = t /\ t \in sessions'
                      /\ pc'[t] = "marking" =>
                           (byDevice[Dev(t)] = t /\ t \in sessions') \/ sock'[t] = "closed"
    BY <1>3, <1>6 DEF WelcomedAreOnFile
  <2>1. Clean(Dev(t)) /\ (t = o => pc[o] # "welcoming")
    BY <1>3, <1>4, <1>6 DEF Clean
  <2> QED BY <1>1, <1>3, <1>5, <1>6, <2>1 DEF FeedInv, WelcomedAreOnFile, TypeOK
<1>14. \A x \in Sid \cup {Reaper}, d \in Device : Announces(x, d)' <=> Announces(x, d) /\ x # s
  BY <1>3, <1>5, <1>6, GatewayAssumption DEF Announces
<1>15. OfflineComesFirst'
  BY <1>1, <1>3, <1>5, <1>8, <1>9, <1>14 DEF FeedInv, OfflineComesFirst, TypeOK
<1>16. ToldOnline'
  BY <1>1, <1>3, <1>5, <1>6, <1>9, GatewayAssumption DEF FeedInv, ToldOnline, TypeOK
<1>17. ToldOffline'
  <2>1. \A d \in Device : ~Announces(s, d)
    BY <1>3, GatewayAssumption DEF Announces
  <2> QED BY <1>3, <1>9, <1>14, <2>1 DEF FeedInv, ToldOffline
<1> QED
  BY <1>8, <1>10, <1>12, <1>13, <1>15, <1>16, <1>17 DEF FeedInv

\* A session goes on file: its welcome comes after every announcement that is
\* under way, since it joins the queue last.
LEMMA FeedAdmitted ==
  ASSUME TypeInv, FeedInv, NEW s \in Sid, Admit(s), UNCHANGED <<hello, reaper, feed, restarts>>,
         pc[s] \in {"looking_up", "registering", "replacing"},
         raced \subseteq raced',
         Clean(Dev(s))' => s \in sessions /\ byDevice[Dev(s)] \notin sessions,
         ResumeAndAwait(s) \/ (AwaitDb(s) /\ ~Waits(s))
  PROVE  FeedInv'
<1>1. TypeOK /\ QueueIsExact /\ Dev(s) \in Device /\ owner[s] = None
  BY DEF TypeInv, FeedInv, HelloIsWhole, Greeting, SpeaksAsGreeted
<1>2. /\ pc'[s] = "marking" /\ owner'[s] = Dev(s) /\ byDevice'[Dev(s)] = s
      /\ UNCHANGED <<sessions, sock>>
      /\ \A t \in Sid : t # s => pc'[t] = pc[t] /\ owner'[t] = owner[t]
      /\ \A d \in Device : d # Dev(s) => byDevice'[d] = byDevice[d]
      /\ \A t \in Sid : Dev(t)' = Dev(t)
  BY <1>1 DEF Admit, TypeOK, Dev
<1>3. s # Reaper /\ s # None /\ None \notin Device /\ Reaper \notin Sid
  BY GatewayAssumption
<1>4. Waits(s)' /\ QueueStep(s)
  BY <1>2, <1>3 DEF QueueStep, Waits, Waiting
<1>5. /\ QueueIsExact'
      /\ \A x, u : x # s /\ u # s /\ Ahead(db, x, u) => Ahead(db', x, u)
      /\ \A x \in (Sid \cup {Reaper}) \ {s} : Waits(x) => Ahead(db', x, s)
  BY <1>1, <1>4, QueueKept
<1>6. \A d \in Device : Clean(d)' => Clean(d)
  BY DEF Clean
<1>7. \A d \in Device : byDevice[d] # s
  BY <1>1, <1>3 DEF FeedInv, OnFileOwns
<1>8. \A x \in Sid \cup {Reaper}, d \in Device : Announces(x, d)' <=> Announces(x, d) /\ x # s
  BY <1>1, <1>2, <1>3 DEF Announces, FeedInv, OnFileOwns
<1>9. \A x \in Sid \cup {Reaper}, d \in Device : Announces(x, d) => Waits(x) /\ x # s
  BY <1>3 DEF Announces, Waits, Waiting
<1>10. OnFileOwns'
  <2>1. \A d \in Device : byDevice'[d] # None => byDevice'[d] \in Sid /\ owner'[byDevice'[d]] = d
    <3> SUFFICES ASSUME NEW d \in Device, byDevice'[d] # None
                 PROVE  byDevice'[d] \in Sid /\ owner'[byDevice'[d]] = d
      OBVIOUS
    <3>1. CASE d = Dev(s)
      BY <1>2, <3>1
    <3>2. CASE d # Dev(s)
      <4>1. byDevice'[d] = byDevice[d] /\ byDevice[d] \in Sid /\ byDevice[d] # s
        BY <1>1, <1>2, <1>7, <3>2 DEF TypeOK
      <4> QED BY <1>2, <4>1 DEF FeedInv, OnFileOwns
    <3> QED BY <3>1, <3>2
  <2>2. \A t \in Sid : pc'[t] = "rejecting" => owner'[t] = None
    BY <1>2 DEF FeedInv, OnFileOwns
  <2>3. \A t \in sessions : pc'[t] \notin {"offlining", "done"}
    BY <1>1, <1>2 DEF FeedInv, OnFileOwns, TypeOK
  <2>4. reaper.pc = "offlining" => reaper.on \in Sid /\ owner'[reaper.on] # None
    BY <1>1, <1>2 DEF FeedInv, OnFileOwns
  <2> QED BY <1>2, <2>1, <2>2, <2>3, <2>4 DEF OnFileOwns
<1>11. OffTableIsReplaced'
  <2> SUFFICES ASSUME NEW d \in Device, Clean(d)', byDevice'[d] # None, byDevice'[d] \notin sessions
               PROVE  \E t \in Sid : pc'[t] = "replacing" /\ Dev(t)' = d
    BY <1>2 DEF OffTableIsReplaced
  <2>1. d # Dev(s)
    BY <1>2
  <2>2. PICK t \in Sid : pc[t] = "replacing" /\ Dev(t) = d
    BY <1>2, <1>6, <2>1 DEF FeedInv, OffTableIsReplaced
  <2> QED BY <1>2, <2>1, <2>2
<1>12. WelcomedAreOnFile'
  <2> SUFFICES ASSUME NEW t \in Sid, Clean(Dev(t))'
               PROVE  /\ pc'[t] = "welcoming" => byDevice'[Dev(t)] = t /\ t \in sessions
                      /\ pc'[t] = "marking" =>
                           (byDevice'[Dev(t)] = t /\ t \in sessions) \/ sock[t] = "closed"
    BY <1>2 DEF WelcomedAreOnFile
  <2>1. Dev(t) \in Device /\ Clean(Dev(t))
    BY <1>2, <1>6 DEF Clean
  <2>2. CASE t = s
    BY <1>2, <2>2
  <2>3. CASE t # s /\ Dev(t) = Dev(s)
    BY <1>2, <2>1, <2>3 DEF FeedInv, WelcomedAreOnFile
  <2>4. CASE t # s /\ Dev(t) # Dev(s)
    BY <1>2, <2>1, <2>4 DEF FeedInv, WelcomedAreOnFile
  <2> QED BY <2>2, <2>3, <2>4
<1>13. OfflineComesFirst'
  <2> SUFFICES ASSUME NEW d \in Device, NEW x \in Sid \cup {Reaper}, Clean(d), Announces(x, d),
                      byDevice'[d] # None
               PROVE  pc'[byDevice'[d]] = "marking" /\ Ahead(db', x, byDevice'[d])
    BY <1>6, <1>8 DEF OfflineComesFirst
  <2>1. CASE d = Dev(s)
    BY <1>2, <1>5, <1>9, <2>1
  <2>2. CASE d # Dev(s)
    <3>1. byDevice[d] \in Sid /\ pc[byDevice[d]] = "marking" /\ Ahead(db, x, byDevice[d])
      BY <1>1, <1>2, <2>2 DEF FeedInv, OfflineComesFirst, TypeOK
    <3> QED BY <1>2, <1>5, <1>7, <1>9, <2>2, <3>1
  <2> QED BY <2>1, <2>2
<1>14. ToldOnline'
  <2> SUFFICES ASSUME NEW d \in Device, Clean(d), byDevice'[d] \in sessions,
                      pc'[byDevice'[d]] \in {"reading", "beating"}
               PROVE  feed[d] = "online"
    BY <1>2, <1>6 DEF ToldOnline
  <2>1. d # Dev(s)
    BY <1>2
  <2> QED BY <1>1, <1>2, <1>7, <2>1 DEF FeedInv, ToldOnline, TypeOK
<1>15. ToldOffline'
  <2> SUFFICES ASSUME NEW d \in Device, Clean(d), byDevice'[d] = None
               PROVE  feed[d] = "offline" \/ \E x \in Sid \cup {Reaper} : Announces(x, d)'
    BY <1>6 DEF ToldOffline
  <2>1. d # Dev(s)
    BY <1>2, <1>3
  <2> QED BY <1>2, <1>8, <1>9, <2>1 DEF FeedInv, ToldOffline
<1> QED
  BY <1>5, <1>10, <1>11, <1>12, <1>13, <1>14, <1>15 DEF FeedInv

\* The welcome goes out: nobody is about to announce the device offline.
LEMMA FeedWelcomes ==
  ASSUME TypeInv, FeedInv, NEW s \in Sid, Welcome(s)
  PROVE  FeedInv'
<1>1. TypeOK /\ QueueIsExact /\ SpeaksAsGreeted
  BY DEF TypeInv, FeedInv
<1>2. PICK l \in {"welcoming", "leaving"} :
        pc' = [pc EXCEPT ![s] = l] /\ (l = "welcoming" => sock[s] # "closed")
  BY DEF Welcome
<1>3. /\ pc[s] = "marking" /\ Resume(s) /\ owner[s] # None
      /\ pc'[s] = l /\ \A t \in Sid : t # s => pc'[t] = pc[t]
      /\ UNCHANGED <<table, raced, restarts, hello, reaper, feed, sock>>
  BY <1>1, <1>2 DEF Welcome, TypeOK, SpeaksAsGreeted
<1>4. s # Reaper /\ s # None /\ Reaper \notin Sid
  BY GatewayAssumption
<1>5. QueueStep(s)
  BY <1>3, <1>4 DEF QueueStep, Waits, Waiting
<1>6. /\ QueueIsExact'
      /\ \A x, u : x # s /\ u # s /\ Ahead(db, x, u) => Ahead(db', x, u)
      /\ \A x : ~Ahead(db, x, s)
  BY <1>1, <1>3, <1>5, QueueKept DEF Resume
<1>7. /\ \A d : Clean(d)' <=> Clean(d)
      /\ \A t \in Sid : Dev(t)' = Dev(t)
      /\ \A x \in Sid \cup {Reaper}, d \in Device :
           (Announces(x, d)' <=> Announces(x, d)) /\ (Announces(x, d) => x # s)
  BY <1>3, <1>4 DEF Clean, Dev, Announces
<1>8. OnFileOwns'
  BY <1>1, <1>3 DEF FeedInv, OnFileOwns, TypeOK
<1>9. OffTableIsReplaced'
  BY <1>3, <1>7 DEF FeedInv, OffTableIsReplaced
<1>10. WelcomedAreOnFile'
  <2> SUFFICES ASSUME NEW t \in Sid, Clean(Dev(t))
               PROVE  /\ pc'[t] = "welcoming" => byDevice[Dev(t)] = t /\ t \in sessions
                      /\ pc'[t] = "marking" =>
                           (byDevice[Dev(t)] = t /\ t \in sessions) \/ sock[t] = "closed"
    BY <1>3, <1>7 DEF WelcomedAreOnFile, Clean
  <2> QED BY <1>2, <1>3 DEF FeedInv, WelcomedAreOnFile
<1>11. OfflineComesFirst'
  <2> SUFFICES ASSUME NEW d \in Device, NEW x \in Sid \cup {Reaper}, Clean(d), Announces(x, d),
                      byDevice[d] # None
               PROVE  pc'[byDevice[d]] = "marking" /\ Ahead(db', x, byDevice[d])
    BY <1>3, <1>7 DEF OfflineComesFirst
  <2>1. byDevice[d] \in Sid /\ pc[byDevice[d]] = "marking" /\ Ahead(db, x, byDevice[d])
    BY <1>1 DEF FeedInv, OfflineComesFirst, TypeOK
  <2>2. byDevice[d] # s
    BY <1>6, <2>1
  <2> QED BY <1>3, <1>6, <1>7, <2>1, <2>2
<1>12. ToldOnline'
  <2> SUFFICES ASSUME NEW d \in Device, Clean(d), byDevice[d] \in sessions,
                      pc'[byDevice[d]] \in {"reading", "beating"}
               PROVE  feed[d] = "online"
    BY <1>3, <1>7 DEF ToldOnline
  <2>1. byDevice[d] \in Sid /\ byDevice[d] # s
    BY <1>1, <1>3 DEF TypeOK
  <2> QED BY <1>3, <2>1 DEF FeedInv, ToldOnline
<1>13. ToldOffline'
  BY <1>3, <1>7 DEF FeedInv, ToldOffline
<1> QED
  BY <1>6, <1>8, <1>9, <1>10, <1>11, <1>12, <1>13 DEF FeedInv

\* The device is announced online: its session is on file.
LEMMA FeedToldOnline ==
  ASSUME TypeInv, FeedInv, NEW s \in Sid, Welcomed(s),
         feed' = [feed EXCEPT ![Dev(s)] = "online"], Goto(s, "reading")
  PROVE  FeedInv'
<1>1. TypeOK /\ SpeaksAsGreeted /\ QueueIsExact
  BY DEF TypeInv, FeedInv
<1>2. /\ pc[s] = "welcoming" /\ pc'[s] = "reading" /\ owner[s] # None
      /\ \A t \in Sid : t # s => pc'[t] = pc[t]
      /\ UNCHANGED <<table, raced, restarts, hello, reaper, sock, db>>
  BY <1>1 DEF Welcomed, TypeOK, SpeaksAsGreeted
<1>3. owner[s] = Dev(s) /\ Dev(s) \in Device /\ s # None /\ s # Reaper /\ Reaper \notin Sid
  BY <1>1, <1>2, GatewayAssumption DEF SpeaksAsGreeted, TypeOK
<1>4. /\ feed'[Dev(s)] = "online"
      /\ \A d \in Device : d # Dev(s) => feed'[d] = feed[d]
  BY <1>1, <1>3 DEF TypeOK
<1>5. /\ \A d : Clean(d)' <=> Clean(d)
      /\ \A t \in Sid : Dev(t)' = Dev(t)
      /\ \A x \in Sid \cup {Reaper}, d \in Device : Announces(x, d)' <=> Announces(x, d)
  BY <1>2, <1>3 DEF Clean, Dev, Announces
<1>6. Clean(Dev(s)) => byDevice[Dev(s)] = s
  BY <1>2 DEF FeedInv, WelcomedAreOnFile
<1>7. QueueIsExact'
  BY <1>1, <1>2, <1>3 DEF QueueIsExact, Waits, Waiting
<1>8. OnFileOwns'
  BY <1>1, <1>2 DEF FeedInv, OnFileOwns, TypeOK
<1>9. OffTableIsReplaced'
  BY <1>2, <1>5 DEF FeedInv, OffTableIsReplaced
<1>10. WelcomedAreOnFile'
  <2> SUFFICES ASSUME NEW t \in Sid, Clean(Dev(t))
               PROVE  /\ pc'[t] = "welcoming" => byDevice[Dev(t)] = t /\ t \in sessions
                      /\ pc'[t] = "marking" =>
                           (byDevice[Dev(t)] = t /\ t \in sessions) \/ sock[t] = "closed"
    BY <1>2, <1>5 DEF WelcomedAreOnFile, Clean
  <2> QED BY <1>2 DEF FeedInv, WelcomedAreOnFile
<1>11. OfflineComesFirst'
  <2> SUFFICES ASSUME NEW d \in Device, NEW x \in Sid \cup {Reaper}, Clean(d), Announces(x, d),
                      byDevice[d] # None
               PROVE  pc'[byDevice[d]] = "marking" /\ Ahead(db, x, byDevice[d])
    BY <1>2, <1>5 DEF OfflineComesFirst
  <2> QED BY <1>1, <1>2 DEF FeedInv, OfflineComesFirst, TypeOK
<1>12. ToldOnline'
  <2> SUFFICES ASSUME NEW d \in Device, Clean(d), byDevice[d] \in sessions,
                      pc'[byDevice[d]] \in {"reading", "beating"}
               PROVE  feed'[d] = "online"
    BY <1>2, <1>5 DEF ToldOnline
  <2>1. CASE d = Dev(s)
    BY <1>4, <2>1
  <2>2. CASE d # Dev(s)
    <3>1. byDevice[d] \in Sid /\ byDevice[d] # s
      BY <1>1, <1>3, <2>2 DEF FeedInv, OnFileOwns, TypeOK
    <3> QED BY <1>2, <1>4, <2>2, <3>1 DEF FeedInv, ToldOnline
  <2> QED BY <2>1, <2>2
<1>13. ToldOffline'
  <2> SUFFICES ASSUME NEW d \in Device, Clean(d), byDevice[d] = None
               PROVE  feed'[d] = "offline" \/ \E x \in Sid \cup {Reaper} : Announces(x, d)
    BY <1>2, <1>5 DEF ToldOffline
  <2>1. d # Dev(s)
    BY <1>3, <1>6
  <2> QED BY <1>4, <2>1 DEF FeedInv, ToldOffline
<1> QED
  BY <1>7, <1>8, <1>9, <1>10, <1>11, <1>12, <1>13 DEF FeedInv

\* A session leaves the table with its device; x, who dropped it, will say so.
LEMMA FeedDropped ==
  ASSUME TypeInv, FeedInv, NEW s \in Sid, NEW x \in {s, Reaper}, Drop(s), Current(s),
         UNCHANGED <<owner, hello, sock, feed, restarts>>, raced \subseteq raced',
         AwaitDb(x), ~Waits(x), Waits(x)', Announces(x, owner[s])',
         x = s => reaper' = reaper /\ pc[s] \in {"reading", "leaving"},
         x # s => reaper'.on = s,
         \A t \in Sid : pc'[t] = pc[t] \/ (t = x /\ pc'[t] = "offlining"),
         pc[s] = "welcoming" => owner[s] \in raced',
         pc[s] = "marking" => sock[s] = "closed"
  PROVE  FeedInv'
<1>1. TypeOK /\ SpeaksAsGreeted /\ QueueIsExact
  BY DEF TypeInv, FeedInv
<1>2. /\ owner[s] \in Device /\ byDevice[owner[s]] = s /\ byDevice'[owner[s]] = None
      /\ owner[s] = Dev(s) /\ sessions' = sessions \ {s}
      /\ \A d \in Device : d # owner[s] => byDevice'[d] = byDevice[d]
  BY <1>1 DEF Drop, Current, TypeOK, SpeaksAsGreeted
<1>3. s # Reaper /\ s # None /\ Reaper \notin Sid
  BY GatewayAssumption
<1>4. QueueStep(x)
  BY <1>3 DEF QueueStep, Waits
<1>5. /\ QueueIsExact'
      /\ \A y, u : y # x /\ u # x /\ Ahead(db, y, u) => Ahead(db', y, u)
  BY <1>1, <1>4, QueueKept
<1>6. /\ \A d : Clean(d)' => Clean(d)
      /\ \A t \in Sid : Dev(t)' = Dev(t)
  BY DEF Clean, Dev
<1>7. \A y \in Sid \cup {Reaper}, d \in Device : y # x => (Announces(y, d)' <=> Announces(y, d))
  BY <1>3 DEF Announces
<1>8. \A d \in Device : Announces(x, d)' => d = owner[s]
  BY <1>3 DEF Announces
<1>9. \A d \in Device : ~Announces(x, d)
  BY <1>3 DEF Announces, Waits, Waiting
<1>10. OnFileOwns'
  <2>1. \A d \in Device : byDevice'[d] # None => owner[byDevice'[d]] = d
    BY <1>2 DEF FeedInv, OnFileOwns
  <2>2. \A t \in Sid : pc'[t] = "rejecting" => owner[t] = None
    BY DEF FeedInv, OnFileOwns
  <2>3. \A t \in sessions' : pc'[t] \notin {"offlining", "done"}
    BY <1>1, <1>2, <1>3 DEF FeedInv, OnFileOwns, TypeOK
  <2>4. reaper'.pc = "offlining" => reaper'.on \in Sid /\ owner[reaper'.on] # None
    BY <1>2, GatewayAssumption DEF FeedInv, OnFileOwns
  <2> QED BY <2>1, <2>2, <2>3, <2>4 DEF OnFileOwns
<1>11. \A d \in Device : d # owner[s] => byDevice[d] # s
  BY <1>2, <1>3 DEF FeedInv, OnFileOwns
<1>12. OffTableIsReplaced'
  <2> SUFFICES ASSUME NEW d \in Device, Clean(d), byDevice'[d] # None, byDevice'[d] \notin sessions'
               PROVE  \E t \in Sid : pc'[t] = "replacing" /\ Dev(t) = d
    BY <1>6 DEF OffTableIsReplaced
  <2>1. byDevice[d] # None /\ byDevice[d] \notin sessions
    BY <1>2, <1>11
  <2>2. PICK t \in Sid : pc[t] = "replacing" /\ Dev(t) = d
    BY <2>1 DEF FeedInv, OffTableIsReplaced
  <2>3. pc'[t] = "replacing"
    BY <1>3, <2>2
  <2> QED BY <2>2, <2>3
<1>13. WelcomedAreOnFile'
  <2> SUFFICES ASSUME NEW t \in Sid, Clean(Dev(t))'
               PROVE  /\ pc'[t] = "welcoming" => byDevice'[Dev(t)] = t /\ t \in sessions'
                      /\ pc'[t] = "marking" =>
                           (byDevice'[Dev(t)] = t /\ t \in sessions') \/ sock[t] = "closed"
    BY <1>6 DEF WelcomedAreOnFile
  <2>1. Clean(Dev(t)) /\ Dev(t) \in Device /\ (t = s => pc[s] # "welcoming")
    BY <1>2, <1>6 DEF Clean
  <2> QED BY <1>2, <2>1 DEF FeedInv, WelcomedAreOnFile
<1>14. OfflineComesFirst'
  <2> SUFFICES ASSUME NEW d \in Device, NEW y \in Sid \cup {Reaper}, Clean(d), Announces(y, d)',
                      byDevice'[d] # None
               PROVE  pc'[byDevice'[d]] = "marking" /\ Ahead(db', y, byDevice'[d])
    BY <1>6 DEF OfflineComesFirst
  <2>1. d # owner[s] /\ y # x /\ Announces(y, d)
    BY <1>2, <1>7, <1>8
  <2>2. PICK u \in Sid : u = byDevice[d] /\ u = byDevice'[d] /\ u # s /\ u # x
    BY <1>1, <1>2, <1>3, <1>11, <2>1 DEF TypeOK
  <2>3. pc[u] = "marking" /\ Ahead(db, y, u)
    BY <2>1, <2>2 DEF FeedInv, OfflineComesFirst
  <2> QED BY <1>5, <2>1, <2>2, <2>3
<1>15. ToldOnline'
  <2> SUFFICES ASSUME NEW d \in Device, Clean(d), byDevice'[d] \in sessions',
                      pc'[byDevice'[d]] \in {"reading", "beating"}
               PROVE  feed[d] = "online"
    BY <1>6 DEF ToldOnline
  <2>1. byDevice'[d] \in Sid /\ byDevice'[d] \in sessions
    BY <1>1, <1>2 DEF TypeOK
  <2>2. d # owner[s] /\ byDevice'[d] = byDevice[d]
    BY <1>2, <2>1, GatewayAssumption
  <2> QED BY <2>1, <2>2 DEF FeedInv, ToldOnline
<1>16. ToldOffline'
  <2> SUFFICES ASSUME NEW d \in Device, Clean(d), byDevice'[d] = None
               PROVE  feed[d] = "offline" \/ \E y \in Sid \cup {Reaper} : Announces(y, d)'
    BY <1>6 DEF ToldOffline
  <2>1. CASE d = owner[s]
    BY <2>1
  <2>2. CASE d # owner[s]
    BY <1>2, <1>7, <1>9, <2>2 DEF FeedInv, ToldOffline
  <2> QED BY <2>1, <2>2
<1> QED
  BY <1>5, <1>10, <1>12, <1>13, <1>14, <1>15, <1>16 DEF FeedInv

\* A device is announced offline: its next session is still to be welcomed.
LEMMA FeedToldOffline ==
  ASSUME TypeInv, FeedInv, NEW x \in Sid \cup {Reaper}, NEW o \in Sid, Resume(x),
         \A d \in Device : Announces(x, d) <=> d = owner[o],
         feed' = [feed EXCEPT ![owner[o]] = "offline"],
         UNCHANGED <<table, raced, restarts, hello, sock>>,
         Waits(x), ~Waits(x)', reaper' = reaper \/ (x = Reaper /\ reaper'.pc # "offlining"),
         \A t \in Sid : pc'[t] = pc[t] \/ (t = x /\ pc[t] = "offlining" /\ pc'[t] = "done")
  PROVE  FeedInv'
<1>1. TypeOK /\ QueueIsExact /\ Reaper \notin Sid
  BY GatewayAssumption DEF TypeInv, FeedInv
<1>2. QueueStep(x)
  BY <1>1 DEF QueueStep, Waits
<1>3. /\ QueueIsExact'
      /\ \A y, u : y # x /\ u # x /\ Ahead(db, y, u) => Ahead(db', y, u)
      /\ \A y : ~Ahead(db, y, x)
  BY <1>1, <1>2, QueueKept DEF Resume
<1>4. /\ \A d : Clean(d)' <=> Clean(d)
      /\ \A t \in Sid : Dev(t)' = Dev(t)
      /\ \A y \in Sid \cup {Reaper}, d \in Device : Announces(y, d)' <=> Announces(y, d) /\ y # x
  BY <1>1 DEF Clean, Dev, Announces, Waits, Waiting
<1>5. \A d \in Device : feed'[d] = IF d = owner[o] THEN "offline" ELSE feed[d]
  BY <1>1 DEF TypeOK
<1>6. OnFileOwns'
  <2>1. \A t \in sessions : pc'[t] \notin {"offlining", "done"}
    BY <1>1 DEF FeedInv, OnFileOwns, TypeOK
  <2> QED BY <2>1 DEF FeedInv, OnFileOwns
<1>7. OffTableIsReplaced'
  BY <1>4 DEF FeedInv, OffTableIsReplaced
<1>8. WelcomedAreOnFile'
  <2> SUFFICES ASSUME NEW t \in Sid, Clean(Dev(t))
               PROVE  /\ pc'[t] = "welcoming" => byDevice[Dev(t)] = t /\ t \in sessions
                      /\ pc'[t] = "marking" =>
                           (byDevice[Dev(t)] = t /\ t \in sessions) \/ sock[t] = "closed"
    BY <1>4 DEF WelcomedAreOnFile, Clean
  <2> QED BY DEF FeedInv, WelcomedAreOnFile
<1>9. OfflineComesFirst'
  <2> SUFFICES ASSUME NEW d \in Device, NEW y \in Sid \cup {Reaper}, Clean(d), Announces(y, d),
                      y # x, byDevice[d] # None
               PROVE  pc'[byDevice[d]] = "marking" /\ Ahead(db', y, byDevice[d])
    BY <1>4 DEF OfflineComesFirst
  <2>1. byDevice[d] \in Sid /\ pc[byDevice[d]] = "marking" /\ Ahead(db, y, byDevice[d])
    BY <1>1 DEF FeedInv, OfflineComesFirst, TypeOK
  <2>2. byDevice[d] # x
    BY <1>3, <2>1
  <2> QED BY <1>3, <2>1, <2>2
<1>10. ToldOnline'
  <2> SUFFICES ASSUME NEW d \in Device, Clean(d), byDevice[d] \in sessions,
                      pc'[byDevice[d]] \in {"reading", "beating"}
               PROVE  feed'[d] = "online"
    BY <1>4 DEF ToldOnline
  <2>1. byDevice[d] \in Sid /\ byDevice[d] # None /\ pc[byDevice[d]] \in {"reading", "beating"}
    BY <1>1, GatewayAssumption DEF TypeOK
  <2>2. ~Announces(x, d)
    BY <2>1 DEF FeedInv, OfflineComesFirst
  <2> QED BY <1>5, <2>1, <2>2 DEF FeedInv, ToldOnline
<1>11. ToldOffline'
  BY <1>4, <1>5 DEF FeedInv, ToldOffline
<1> QED
  BY <1>3, <1>6, <1>7, <1>8, <1>9, <1>10, <1>11 DEF FeedInv

LEMMA FeedOfPeer ==
  ASSUME TypeInv, TableInv, FeedInv, NEW s \in Sid, Peer(s)
  PROVE  FeedInv'
<1> USE GatewayAssumption DEF Bystander, QueueStep, Waits, Waiting
<1>1. TypeOK /\ SpeaksAsGreeted /\ OnFileOwns /\ FreshIsAbsent
  BY DEF TypeInv, FeedInv, TableInv
<1>2. CASE Connect(s)
  <2>1. \A d \in Device : byDevice[d] # s
    BY <1>1, <1>2 DEF Connect, OnFileOwns, SpeaksAsGreeted
  <2>2. Quietly
    BY <1>1, <1>2, <2>1 DEF Connect, Quietly, GoesOnQuietly, SpeaksAsGreeted, TypeOK
  <2>3. QueueStep(s)
    BY <1>1, <1>2 DEF Connect, TypeOK
  <2> QED BY <1>2, <2>2, <2>3, FeedKept DEF Connect
<1>3. CASE PeerLeaves(s)
  BY <1>1, <1>3, FeedKept DEF PeerLeaves, Quietly, GoesOnQuietly, TypeOK
<1>4. CASE NoHello(s)
  BY <1>1, <1>4, FeedKept DEF NoHello, Reads, Reject, Quietly, GoesOnQuietly, TypeOK
<1>5. CASE Heartbeat(s)
  <2>1. Quietly
    BY <1>1, <1>5 DEF Heartbeat, Reads, Quietly, GoesOnQuietly, TypeOK
  <2>2. QueueStep(s)
    BY <1>1, <1>5 DEF Heartbeat, Reads, TypeOK
  <2> QED BY <1>5, <2>1, <2>2, FeedKept DEF Heartbeat, Reads
<1>6. ASSUME NEW d \in Device, NEW k \in Key, NEW c \in Code \cup {None}, Hello(s, d, k, c)
      PROVE FeedInv'
  <2>1. Quietly
    BY <1>1, <1>6 DEF Hello, Reads, Quietly, GoesOnQuietly, TypeOK
  <2>2. QueueStep(s)
    BY <1>1, <1>6 DEF Hello, Reads, TypeOK
  <2> QED BY <1>6, <2>1, <2>2, FeedKept DEF Hello, Reads
<1>7. ASSUME NEW q \in Req, NEW o \in {"completed", "failed"}, Result(s, q, o) PROVE FeedInv'
  BY <1>1, <1>7, FeedKept DEF Result, Quietly, GoesOnQuietly, TypeOK
<1> QED
  BY <1>2, <1>3, <1>4, <1>5, <1>6, <1>7 DEF Peer

LEMMA FeedOfHandle ==
  ASSUME TypeInv, TableInv, FeedInv, NEW s \in Sid, Handle(s)
  PROVE  FeedInv'
<1> USE GatewayAssumption
<1>1. TypeOK /\ SpeaksAsGreeted /\ OnFileOwns /\ DropsTheGone
  BY DEF TypeInv, FeedInv, TableInv
<1>2. CASE Rejected(s)
  <2>1. owner[s] = None /\ \A d \in Device : byDevice[d] # s
    BY <1>1, <1>2 DEF Rejected, OnFileOwns
  <2> QED BY <1>1, <1>2, <2>1, FeedKept
          DEF Rejected, TypeOK, Quietly, GoesOnQuietly, Bystander, QueueStep, Waits, Waiting
<1>3. CASE RefuseStranger(s) \/ RefuseKey(s)
  <2>1. /\ pc[s] = "looking_up" /\ Resume(s) /\ Reject(s) /\ owner[s] = None
        /\ pc'[s] = "rejecting"
    BY <1>1, <1>3 DEF RefuseStranger, RefuseKey, Reject, SpeaksAsGreeted, TypeOK
  <2> QED BY <1>1, <2>1, FeedKept
          DEF Reject, TypeOK, Quietly, GoesOnQuietly, Bystander, QueueStep, Waits, Waiting
<1>4. CASE Pair(s) \/ Refresh(s)
  <2>1. /\ pc[s] = "looking_up" /\ ResumeAndAwait(s) /\ owner[s] = None
        /\ pc' = [pc EXCEPT ![s] = "registering"]
        /\ UNCHANGED <<table, restarts, raced, sock, hello, reaper, feed>>
    BY <1>1, <1>4 DEF Pair, Refresh, SpeaksAsGreeted
  <2>2. Quietly
    BY <1>1, <2>1 DEF Quietly, GoesOnQuietly, TypeOK
  <2>3. QueueStep(s)
    BY <1>1, <2>1 DEF QueueStep, Waits, Waiting, TypeOK
  <2> QED BY <2>1, <2>2, <2>3, FeedKept DEF Bystander
<1>5. CASE TakeOver(s)
  <2>1. CASE ~Replaces(s) /\ Admit(s) /\ RacedIf(s \notin sessions, Dev(s)) /\ ResumeAndAwait(s)
    <3>1. UNCHANGED <<hello, reaper, feed, restarts>>
      BY <1>5 DEF TakeOver
    <3>2. pc[s] \in {"looking_up", "registering", "replacing"}
      BY <1>5 DEF TakeOver
    <3>3. raced \subseteq raced' /\ (Clean(Dev(s))' => s \in sessions)
      BY <2>1, <3>1 DEF RacedIf, Clean, Dev
    <3> QED BY <2>1, <3>1, <3>2, <3>3, FeedAdmitted DEF Replaces
  <2> QED BY <1>5, <2>1, FeedSuperseded DEF TakeOver
<1>6. CASE Replaced(s)
  <2>1. /\ pc[s] = "replacing" /\ Admit(s) /\ AwaitDb(s) /\ ~Waits(s)
        /\ UNCHANGED <<hello, reaper, feed, restarts>>
        /\ RacedIf(s \notin sessions \/ byDevice[Dev(s)] \in sessions, Dev(s))
    BY <1>6 DEF Replaced, Waits, Waiting
  <2>2. /\ raced \subseteq raced'
        /\ Clean(Dev(s))' => s \in sessions /\ byDevice[Dev(s)] \notin sessions
    BY <2>1 DEF RacedIf, Clean, Dev
  <2> QED BY <2>1, <2>2, FeedAdmitted
<1>7. CASE Welcomed(s)
  <2>1. CASE sock[s] # "open" /\ Goto(s, "leaving") /\ UNCHANGED feed
    BY <1>1, <1>7, <2>1, FeedKept
       DEF Welcomed, TypeOK, Quietly, GoesOnQuietly, Bystander, QueueStep, Waits, Waiting
  <2> QED BY <1>7, <2>1, FeedToldOnline DEF Welcomed
<1>8. CASE HeartbeatStored(s)
  <2>1. Quietly
    BY <1>1, <1>8 DEF HeartbeatStored, Quietly, GoesOnQuietly, TypeOK
  <2>2. QueueStep(s)
    BY <1>1, <1>8 DEF HeartbeatStored, QueueStep, Waits, Waiting, TypeOK
  <2> QED BY <1>8, <2>1, <2>2, FeedKept DEF HeartbeatStored, Bystander
<1>9. CASE Disconnect(s)
  <2>1. CASE Current(s)
    <3>1. /\ pc[s] \in {"reading", "leaving"} /\ Drop(s) /\ AwaitDb(s)
          /\ pc' = [pc EXCEPT ![s] = "offlining"]
          /\ UNCHANGED <<owner, hello, sock, feed, restarts, raced, reaper>>
      BY <1>9, <2>1 DEF Disconnect, Over
    <3>2. ~Waits(s) /\ Waits(s)' /\ Announces(s, owner[s])'
      BY <1>1, <3>1 DEF Waits, Waiting, Announces, TypeOK
    <3>3. \A t \in Sid : pc'[t] = pc[t] \/ (t = s /\ pc'[t] = "offlining")
      BY <1>1, <3>1 DEF TypeOK
    <3> QED BY <2>1, <3>1, <3>2, <3>3, FeedDropped
  <2>2. CASE ~Current(s)
    <3>1. /\ pc[s] \in {"reading", "leaving"} /\ sessions' = sessions \ {s}
          /\ pc' = [pc EXCEPT ![s] = "done"]
          /\ UNCHANGED <<owner, byDevice, hello, sock, feed, restarts, raced, reaper, db>>
      BY <1>9, <2>2 DEF Disconnect, Over, Drop
    <3>2. \A d \in Device : byDevice[d] # s
      BY <1>1, <2>2 DEF Current, OnFileOwns
    <3> QED BY <1>1, <3>1, <3>2, FeedKept
            DEF TypeOK, Quietly, GoesOnQuietly, Bystander, QueueStep, Waits, Waiting
  <2> QED BY <2>1, <2>2
<1>10. CASE AlreadyDropped(s)
  BY <1>1, <1>10, FeedKept
     DEF AlreadyDropped, Over, TypeOK, Quietly, GoesOnQuietly, Bystander, QueueStep, Waits, Waiting
<1>11. CASE AnnounceOffline(s)
  <2>1. /\ pc[s] = "offlining" /\ Resume(s) /\ pc' = [pc EXCEPT ![s] = "done"]
        /\ feed' = [feed EXCEPT ![owner[s]] = "offline"]
        /\ UNCHANGED <<table, raced, restarts, hello, sock, reaper>>
    BY <1>11 DEF AnnounceOffline
  <2>2. /\ Waits(s) /\ ~Waits(s)' /\ \A d \in Device : Announces(s, d) <=> d = owner[s]
        /\ \A t \in Sid : pc'[t] = pc[t] \/ (t = s /\ pc[t] = "offlining" /\ pc'[t] = "done")
    BY <1>1, <2>1 DEF Waits, Waiting, Announces, TypeOK
  <2> QED BY <2>1, <2>2, FeedToldOffline
<1> QED
  BY <1>2, <1>3, <1>4, <1>5, <1>6, <1>7, <1>8, <1>9, <1>10, <1>11, FeedWelcomes DEF Handle

LEMMA FeedOfReap ==
  ASSUME TypeInv, TableInv, FeedInv, Reap
  PROVE  FeedInv'
<1> USE GatewayAssumption
<1>1. TypeOK /\ SpeaksAsGreeted /\ OnFileOwns /\ DropsTheGone
  BY DEF TypeInv, FeedInv, TableInv
<1>2. CASE ReapScan
  BY <1>1, <1>2, FeedKept
     DEF ReapScan, TypeOK, Quietly, GoesOnQuietly, Bystander, QueueStep, Waits, Waiting
<1>3. ASSUME NEW s \in Sid, ReapClose(s) PROVE FeedInv'
  BY <1>1, <1>3, FeedKept
     DEF ReapClose, TypeOK, Quietly, GoesOnQuietly, Bystander, QueueStep, Waits, Waiting
<1>4. ASSUME NEW s \in Sid, ReapDrop(s) PROVE FeedInv'
  <2>1. /\ reaper.pc = "closing" /\ reaper.on = s /\ sock[s] = "closed"
        /\ UNCHANGED <<owner, hello, sock, feed, restarts, pc>> /\ raced \subseteq raced'
        /\ s \in sessions /\ pc[s] = "welcoming" => owner[s] \in raced'
    BY <1>1, <1>4 DEF ReapDrop, DropsTheGone, RacedIf
  <2>2. CASE s \in sessions /\ Current(s)
    <3>1. /\ Drop(s) /\ AwaitDb(Reaper)
          /\ reaper' = [reaper EXCEPT !.pc = "offlining"]
      BY <1>4, <2>2 DEF ReapDrop
    <3>2. /\ ~Waits(Reaper) /\ Waits(Reaper)' /\ Announces(Reaper, owner[s])' /\ reaper'.on = s
      BY <1>1, <2>1, <3>1 DEF Waits, Announces, TypeOK
    <3> QED BY <2>1, <2>2, <3>1, <3>2, FeedDropped
  <2>3. CASE ~(s \in sessions /\ Current(s))
    <3>1. /\ reaper' = [reaper EXCEPT !.pc = "reaping", !.on = None]
          /\ sessions' = sessions \ {s} /\ UNCHANGED <<byDevice, db>>
      BY <1>4, <2>3 DEF ReapDrop, Drop
    <3>2. \A d \in Device : byDevice[d] = s => s \notin sessions
      BY <1>1, <2>3 DEF Current, OnFileOwns
    <3> QED BY <1>1, <2>1, <3>1, <3>2, FeedKept
            DEF TypeOK, Quietly, GoesOnQuietly, Bystander, QueueStep, Waits, Waiting
  <2> QED BY <2>2, <2>3
<1>5. CASE ReapAnnounce
  <2>1. PICK o \in Sid : o = reaper.on
    BY <1>1, <1>5 DEF ReapAnnounce, OnFileOwns
  <2>2. /\ reaper.pc = "offlining" /\ Resume(Reaper) /\ UNCHANGED pc
        /\ feed' = [feed EXCEPT ![owner[o]] = "offline"]
        /\ UNCHANGED <<table, raced, restarts, hello, sock>>
        /\ reaper' = [reaper EXCEPT !.pc = "reaping", !.on = None]
    BY <1>5, <2>1 DEF ReapAnnounce
  <2>3. /\ Waits(Reaper) /\ ~Waits(Reaper)' /\ reaper'.pc # "offlining"
        /\ \A d \in Device : Announces(Reaper, d) <=> d = owner[o]
    BY <1>1, <2>1, <2>2 DEF Waits, Announces, TypeOK
  <2> QED BY <2>2, <2>3, FeedToldOffline
<1>6. CASE ReapEnd
  BY <1>1, <1>6, FeedKept
     DEF ReapEnd, Asleep, TypeOK, Quietly, GoesOnQuietly, Bystander, QueueStep, Waits, Waiting
<1> QED
  BY <1>2, <1>3, <1>4, <1>5, <1>6 DEF Reap

LEMMA FeedStep == TypeInv /\ TableInv /\ FeedInv /\ [Next]_vars => FeedInv'
<1> SUFFICES ASSUME TypeInv, TableInv, FeedInv, [Next]_vars PROVE FeedInv'
  OBVIOUS
<1>1. TypeOK
  BY DEF TypeInv
<1>2. ASSUME UNCHANGED <<table, sock, pc, hello, db, reaper, feed, raced, restarts>> PROVE FeedInv'
  BY <1>1, <1>2, FeedKept
     DEF TypeOK, Quietly, GoesOnQuietly, Bystander, QueueStep, Waits
<1>3. ASSUME NEW c \in Call, Ask(c) \/ Await(c) PROVE FeedInv'
  BY <1>2, <1>3 DEF Ask, Await, DispatchOffline, Dispatch, DispatchSent, DispatchReturn,
                    DispatchTimeout
<1>4. ASSUME NEW c \in Code, NewPairingCode(c) PROVE FeedInv'
  BY <1>2, <1>4 DEF NewPairingCode
<1>5. CASE Tick \/ UNCHANGED vars
  BY <1>2, <1>5 DEF Tick
<1>6. CASE Restart
  <2>1. QueueIsExact'
    BY <1>1, <1>6, GatewayAssumption DEF Restart, Asleep, QueueIsExact, Once, In, Waits, Waiting
  <2>2. \A d : ~Clean(d)'
    BY <1>1, <1>6 DEF Restart, Clean, TypeOK
  <2>3. OnFileOwns'
    BY <1>1, <1>6 DEF Restart, Asleep, OnFileOwns, TypeOK
  <2> QED BY <2>1, <2>2, <2>3
          DEF FeedInv, OffTableIsReplaced, WelcomedAreOnFile, OfflineComesFirst, ToldOnline,
              ToldOffline
<1> QED
  BY <1>3, <1>4, <1>5, <1>6, FeedOfPeer, FeedOfHandle, FeedOfReap DEF Next

\* Once nobody is in the middle of something about a device, the last event
\* the dashboards got about it tells the truth (the order of the database's
\* answers keeps an announcement of the old session ahead of the new welcome).
THEOREM FeedTellsTheTruth == Spec => []FeedAgrees
<1>1. Spec => []FeedInv
  BY FeedInit, FeedStep, TableHolds, PTL DEF Spec
<1> QED
  BY <1>1, TableHolds, FeedAgreesWhenQuiet, PTL
=============================================================================
