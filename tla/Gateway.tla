------------------------------ MODULE Gateway ------------------------------
(***************************************************************************)
(* The core's end of the agent links (heren_core/gateway.py and the        *)
(* /ws/agent route): pairing, hello, replacement of an old session, the    *)
(* heartbeat reaper, disconnect, and dispatch with its pending futures.    *)
(*                                                                         *)
(* Each socket has one coroutine, which handles its frames in turn.  A     *)
(* step runs from one suspending await to the next.  A database call takes *)
(* effect in the step that makes it, and since one worker thread serves    *)
(* them in order, db is the queue of coroutines waiting for theirs; sends  *)
(* and closes may take any time.  A frame that fails a check (malformed,   *)
(* wrong device, bad signature, replayed) changes nothing here, and the    *)
(* replay table itself is ReplayGuard.                                     *)
(***************************************************************************)
EXTENDS Integers, Sequences

CONSTANTS
  Sid,               \* sessions; every connection gets a fresh token
  Device, Key, Code, \* device ids, public keys, pairing codes
  Call, Req,         \* invocations of dispatch, request ids
  ReqOf, DeviceOf,   \* what each call dispatches, and to whom
  HeartbeatTimeout, CodeTTL,
  MaxTime, MaxRestart, \* bounds on the clock and on restarts
  None, Reaper       \* "no value"; the housekeeping coroutine

ASSUME GatewayAssumption ==
  /\ ReqOf \in [Call -> Req] /\ DeviceOf \in [Req -> Device]
  /\ HeartbeatTimeout \in Nat /\ CodeTTL \in Nat
  /\ MaxTime \in Nat /\ MaxRestart \in Nat
  /\ None \notin Sid \cup Device \cup Key \cup Code \cup Call \cup Nat
                 \cup {"completed", "failed", "device_offline"}
  /\ Reaper \notin Sid

VARIABLES
  sessions,   \* _sessions: the registered sids
  owner, skey, lastSeen, \* Session.device_id, public_key, last_seen
  pending,    \* Session.pending: the call waiting under each request id
  byDevice,   \* _by_device
  codes,      \* _pairing_codes: when each live code expires
  known,      \* devices.public_key
  status,     \* devices.status
  now, restarts,
  sock,       \* open; gone, when the peer left; closed, when the core closed it
  pc, hello,  \* where each socket's coroutine is, and the hello it handles
  db,         \* coroutines waiting for the database, in order
  reaper,     \* the reaper: where it is, what its scan found, whom it drops
  call, via, answer, \* dispatch: where it is, its session, its future
  wire,       \* <<sid, request>>: requests the agent was sent
  feed,       \* the last device.online / device.offline event of each device
  raced,      \* devices whose hello was cut into (history)
  admitted    \* <<code, sid>>: registrations (history)

table == <<sessions, owner, skey, lastSeen, byDevice>>
store == <<known, status>>
rpc   == <<pending, call, via, answer, wire>>
clock == <<now, restarts>>
hist  == <<raced, admitted>>
vars  == <<table, store, rpc, clock, hist, codes, sock, pc, hello, db, reaper, feed>>

-----------------------------------------------------------------------------
(* Waiting and resuming *)

Goto(s, l) == pc' = [pc EXCEPT ![s] = l]
AwaitDb(t) == db' = Append(db, t)
Served(t) == db # <<>> /\ Head(db) = t
Resume(t) == Served(t) /\ db' = Tail(db)
ResumeAndAwait(t) == Served(t) /\ db' = Append(Tail(db), t)

\* handle_message drops the frames of a session that is not registered.
MutantReads(s) == pc[s] = "reading"
Reads(s) == pc[s] = "reading" /\ s \in sessions
Dev(s) == hello[s].dev

Current(s) == owner[s] # None /\ byDevice[owner[s]] = s

\* Something cut into a hello about d.
RacedIf(cut, d) == raced' = IF cut THEN raced \cup {d} ELSE raced

-----------------------------------------------------------------------------
(* Pairing codes *)

MutantCodeExpiry == now - CodeTTL
CodeExpiry == now + CodeTTL

NewPairingCode(c) ==
  /\ codes[c] = None
  /\ \A a \in admitted : a[1] # c
  /\ codes' = [codes EXCEPT ![c] = CodeExpiry]
  /\ UNCHANGED <<table, store, rpc, clock, hist, sock, pc, hello, db, reaper, feed>>

CodeIsValid(c) == c # None /\ codes[c] # None /\ codes[c] >= now

MutantConsumed(c) == codes
Consumed(c) == IF c = None THEN codes ELSE [codes EXCEPT ![c] = None]

-----------------------------------------------------------------------------
(* Sessions *)

Connect(s) ==
  /\ pc[s] = "none"
  /\ sessions' = sessions \cup {s}
  /\ lastSeen' = [lastSeen EXCEPT ![s] = now]
  /\ sock' = [sock EXCEPT ![s] = "open"]
  /\ Goto(s, "reading")
  /\ UNCHANGED <<owner, skey, byDevice, store, rpc, clock, hist, codes, hello, db, reaper, feed>>

PeerLeaves(s) ==
  /\ sock[s] = "open"
  /\ sock' = [sock EXCEPT ![s] = "gone"]
  /\ UNCHANGED <<table, store, rpc, clock, hist, codes, pc, hello, db, reaper, feed>>

\* _reject: close, and forget the session when the close is through.
Reject(s) ==
  /\ sock' = [sock EXCEPT ![s] = "closed"]
  /\ Goto(s, "rejecting")
  /\ UNCHANGED <<table, store, rpc, clock, hist, hello, reaper, feed>>

Rejected(s) ==
  /\ pc[s] = "rejecting"
  /\ sessions' = sessions \ {s}
  /\ Goto(s, "reading")
  /\ UNCHANGED <<owner, skey, lastSeen, byDevice, store, rpc, clock, hist, codes, sock, hello,
                 db, reaper, feed>>

\* The first frame is no hello, or a hello without an id or a key.
NoHello(s) ==
  /\ Reads(s) /\ owner[s] = None
  /\ Reject(s)
  /\ UNCHANGED <<codes, db>>

Hello(s, d, k, c) ==
  /\ Reads(s) /\ owner[s] = None
  /\ hello' = [hello EXCEPT ![s] = [dev |-> d, key |-> k, code |-> c, found |-> known[d]]]
  /\ Goto(s, "looking_up")
  /\ AwaitDb(s)
  /\ UNCHANGED <<table, store, rpc, clock, hist, codes, sock, reaper, feed>>

\* No usable code, or (the code is spent all the same) a hello that makes no Device.
RefuseStranger(s) ==
  /\ pc[s] = "looking_up" /\ Resume(s)
  /\ hello[s].found = None
  /\ codes' = Consumed(hello[s].code)
  /\ Reject(s)

RefuseKey(s) ==
  /\ pc[s] = "looking_up" /\ Resume(s)
  /\ hello[s].found \notin {None, hello[s].key}
  /\ Reject(s)
  /\ UNCHANGED codes

Pair(s) ==
  /\ pc[s] = "looking_up" /\ ResumeAndAwait(s)
  /\ hello[s].found = None
  /\ CodeIsValid(hello[s].code)
  /\ codes' = Consumed(hello[s].code)
  /\ admitted' = admitted \cup {<<hello[s].code, s>>}
  /\ known' = [known EXCEPT ![Dev(s)] = hello[s].key]
  /\ Goto(s, "registering")
  /\ UNCHANGED <<table, status, rpc, clock, raced, sock, hello, reaper, feed>>

Recognised(s) == hello[s].found = hello[s].key

\* The agent advertises something new: the row is written back as it was read.
Refresh(s) ==
  /\ pc[s] = "looking_up" /\ ResumeAndAwait(s)
  /\ Recognised(s)
  /\ known' = [known EXCEPT ![Dev(s)] = hello[s].found]
  /\ Goto(s, "registering")
  /\ UNCHANGED <<table, status, rpc, clock, hist, codes, sock, hello, reaper, feed>>

\* From here on the session speaks for the device.
Admit(s) ==
  /\ owner' = [owner EXCEPT ![s] = Dev(s)]
  /\ skey' = [skey EXCEPT ![s] = hello[s].key]
  /\ lastSeen' = [lastSeen EXCEPT ![s] = now]
  /\ byDevice' = [byDevice EXCEPT ![Dev(s)] = s]
  /\ status' = [status EXCEPT ![Dev(s)] = "online"]
  /\ Goto(s, "marking")
  /\ UNCHANGED <<sessions, sock>>

\* A session taken off the table while its welcome goes out says "online" later.
Supersede(s) ==
  /\ sessions' = sessions \ {byDevice[Dev(s)]}
  /\ sock' = [sock EXCEPT ![byDevice[Dev(s)]] = "closed"]
  /\ RacedIf(pc[byDevice[Dev(s)]] = "welcoming", Dev(s))
  /\ Goto(s, "replacing")
  /\ UNCHANGED <<owner, skey, lastSeen, byDevice, status>>

MutantReplaces(s) == byDevice[Dev(s)] \in sessions /\ sock[byDevice[Dev(s)]] # "open"
Replaces(s) == byDevice[Dev(s)] \in sessions

\* The database has answered and, if need be, the registration is written.
TakeOver(s) ==
  /\ pc[s] = "registering" \/ (pc[s] = "looking_up" /\ Recognised(s))
  /\ \/ Replaces(s) /\ Supersede(s) /\ Resume(s)
     \/ ~Replaces(s) /\ Admit(s) /\ RacedIf(s \notin sessions, Dev(s)) /\ ResumeAndAwait(s)
  /\ UNCHANGED <<known, rpc, clock, codes, hello, reaper, feed, admitted>>

\* The old socket is closed at last.
Replaced(s) ==
  /\ pc[s] = "replacing"
  /\ Admit(s) /\ AwaitDb(s)
  /\ RacedIf(s \notin sessions \/ byDevice[Dev(s)] \in sessions, Dev(s))
  /\ UNCHANGED <<known, rpc, clock, codes, hello, reaper, feed, admitted>>

\* Sending on a socket the core has closed raises; on one the peer has left it may.
Welcome(s) ==
  /\ pc[s] = "marking" /\ Resume(s)
  /\ \/ sock[s] # "closed" /\ Goto(s, "welcoming")
     \/ sock[s] # "open" /\ Goto(s, "leaving")
  /\ UNCHANGED <<table, store, rpc, clock, hist, codes, sock, hello, reaper, feed>>

MutantWelcomed(s) ==
  /\ pc[s] = "welcoming"
  /\ Goto(s, IF sock[s] = "open" THEN "reading" ELSE "leaving")
  /\ feed' = IF hello[s].found = None THEN [feed EXCEPT ![Dev(s)] = "online"] ELSE feed
  /\ UNCHANGED <<table, store, rpc, clock, hist, codes, sock, hello, db, reaper>>

Welcomed(s) ==
  /\ pc[s] = "welcoming"
  /\ \/ feed' = [feed EXCEPT ![Dev(s)] = "online"] /\ Goto(s, "reading")
     \/ sock[s] # "open" /\ Goto(s, "leaving") /\ UNCHANGED feed
  /\ UNCHANGED <<table, store, rpc, clock, hist, codes, sock, hello, db, reaper>>

-----------------------------------------------------------------------------
(* Frames of an admitted session *)

Heartbeat(s) ==
  /\ Reads(s) /\ owner[s] # None
  /\ lastSeen' = [lastSeen EXCEPT ![s] = now]
  /\ status' = [status EXCEPT ![owner[s]] = "online"]
  /\ Goto(s, "beating")
  /\ AwaitDb(s)
  /\ UNCHANGED <<sessions, owner, skey, byDevice, known, rpc, clock, hist, codes, sock, hello,
                 reaper, feed>>

HeartbeatStored(s) ==
  /\ pc[s] = "beating" /\ Resume(s)
  /\ Goto(s, "reading")
  /\ UNCHANGED <<table, store, rpc, clock, hist, codes, sock, hello, reaper, feed>>

\* The agent answers a request it was sent; nobody may be waiting any more.
Result(s, q, o) ==
  /\ Reads(s) /\ owner[s] # None
  /\ <<s, q>> \in wire
  /\ lastSeen' = [lastSeen EXCEPT ![s] = now]
  /\ pending' = [pending EXCEPT ![s][q] = None]
  /\ answer' = IF pending[s][q] # None /\ answer[pending[s][q]] = None
               THEN [answer EXCEPT ![pending[s][q]] = o] ELSE answer
  /\ UNCHANGED <<sessions, owner, skey, byDevice, store, call, via, wire, clock, hist, codes,
                 sock, pc, hello, db, reaper, feed>>

-----------------------------------------------------------------------------
(* disconnect, called when a socket's loop ends and by the reaper *)

\* Whoever still waits on this session is told at once.
Waiters(s) == {c \in Call : \E q \in Req : pending[s][q] = c}

MutantDrop(s) ==
  /\ sessions' = sessions \ {s}
  /\ answer' = answer
  /\ byDevice' = [d \in Device |-> IF owner[s] = d THEN None ELSE byDevice[d]]
  /\ status' = [d \in Device |-> IF owner[s] = d THEN "offline" ELSE status[d]]

Drop(s) ==
  /\ sessions' = sessions \ {s}
  /\ answer' = [c \in Call |-> IF c \in Waiters(s) /\ answer[c] = None
                               THEN "device_offline" ELSE answer[c]]
  /\ IF Current(s)
     THEN /\ byDevice' = [byDevice EXCEPT ![owner[s]] = None]
          /\ status' = [status EXCEPT ![owner[s]] = "offline"]
     ELSE UNCHANGED <<byDevice, status>>

Over(s) == pc[s] = "leaving" \/ (pc[s] = "reading" /\ sock[s] # "open")

Disconnect(s) ==
  /\ Over(s)
  /\ s \in sessions
  /\ Drop(s)
  /\ IF Current(s) THEN Goto(s, "offlining") /\ AwaitDb(s)
                   ELSE Goto(s, "done") /\ UNCHANGED db
  /\ UNCHANGED <<owner, skey, lastSeen, known, pending, call, via, wire, clock, hist, codes,
                 sock, hello, reaper, feed>>

AlreadyDropped(s) ==
  /\ Over(s)
  /\ s \notin sessions
  /\ Goto(s, "done")
  /\ UNCHANGED <<table, store, rpc, clock, hist, codes, sock, hello, db, reaper, feed>>

AnnounceOffline(s) ==
  /\ pc[s] = "offlining" /\ Resume(s)
  /\ feed' = [feed EXCEPT ![owner[s]] = "offline"]
  /\ Goto(s, "done")
  /\ UNCHANGED <<table, store, rpc, clock, hist, codes, sock, hello, reaper>>

-----------------------------------------------------------------------------
(* reap_dead_sessions *)

Asleep == [pc |-> "asleep", todo |-> {}, on |-> None]

MutantSilent(s) == lastSeen[s] + HeartbeatTimeout < now - HeartbeatTimeout
Silent(s) == lastSeen[s] < now - HeartbeatTimeout

ReapScan ==
  /\ reaper.pc = "asleep"
  /\ reaper' = [reaper EXCEPT !.pc = "reaping", !.todo = {s \in sessions : Silent(s)}]
  /\ UNCHANGED <<table, store, rpc, clock, hist, codes, sock, pc, hello, db, feed>>

ReapClose(s) ==
  /\ reaper.pc = "reaping" /\ s \in reaper.todo
  /\ sock' = [sock EXCEPT ![s] = "closed"]
  /\ reaper' = [pc |-> "closing", todo |-> reaper.todo \ {s}, on |-> s]
  /\ UNCHANGED <<table, store, rpc, clock, hist, codes, pc, hello, db, feed>>

ReapDrop(s) ==
  /\ reaper.pc = "closing" /\ reaper.on = s
  /\ IF s \in sessions THEN Drop(s) ELSE UNCHANGED <<sessions, answer, byDevice, status>>
  /\ IF s \in sessions /\ Current(s)
     THEN reaper' = [reaper EXCEPT !.pc = "offlining"] /\ AwaitDb(Reaper)
     ELSE reaper' = [reaper EXCEPT !.pc = "reaping", !.on = None] /\ UNCHANGED db
  /\ RacedIf(s \in sessions /\ pc[s] = "welcoming", owner[s])
  /\ UNCHANGED <<owner, skey, lastSeen, known, pending, call, via, wire, clock, admitted, codes,
                 sock, pc, hello, feed>>

ReapAnnounce ==
  /\ reaper.pc = "offlining" /\ Resume(Reaper)
  /\ feed' = [feed EXCEPT ![owner[reaper.on]] = "offline"]
  /\ reaper' = [reaper EXCEPT !.pc = "reaping", !.on = None]
  /\ UNCHANGED <<table, store, rpc, clock, hist, codes, sock, pc, hello>>

ReapEnd ==
  /\ reaper.pc = "reaping" /\ reaper.todo = {}
  /\ reaper' = Asleep
  /\ UNCHANGED <<table, store, rpc, clock, hist, codes, sock, pc, hello, db, feed>>

-----------------------------------------------------------------------------
(* dispatch *)

Target(c) == byDevice[DeviceOf[ReqOf[c]]]

DispatchOffline(c) ==
  /\ call[c] = "idle"
  /\ Target(c) \notin sessions
  /\ call' = [call EXCEPT ![c] = "done"]
  /\ UNCHANGED <<table, store, pending, via, answer, wire, clock, hist, codes, sock, pc, hello,
                 db, reaper, feed>>

\* The future is filed before the frame goes out; a send that raises leaves it there.
Dispatch(c, s) ==
  /\ call[c] = "idle"
  /\ Target(c) = s /\ s \in sessions
  /\ via' = [via EXCEPT ![c] = s]
  /\ pending' = [pending EXCEPT ![s][ReqOf[c]] = c]
  /\ wire' = IF sock[s] = "open" THEN wire \cup {<<s, ReqOf[c]>>} ELSE wire
  /\ call' = [call EXCEPT ![c] = IF sock[s] = "closed" THEN "done" ELSE "sending"]
  /\ UNCHANGED <<table, store, answer, clock, hist, codes, sock, pc, hello, db, reaper, feed>>

DispatchSent(c) ==
  /\ call[c] = "sending"
  /\ \/ call' = [call EXCEPT ![c] = "waiting"]
     \/ sock[via[c]] # "open" /\ call' = [call EXCEPT ![c] = "done"]
  /\ UNCHANGED <<table, store, pending, via, answer, wire, clock, hist, codes, sock, pc, hello,
                 db, reaper, feed>>

DispatchReturn(c) ==
  /\ call[c] = "waiting" /\ answer[c] # None
  /\ call' = [call EXCEPT ![c] = "done"]
  /\ UNCHANGED <<table, store, pending, via, answer, wire, clock, hist, codes, sock, pc, hello,
                 db, reaper, feed>>

MutantUnfiled(c) == pending
Unfiled(c) == [pending EXCEPT ![via[c]][ReqOf[c]] = None]

MutantTimesOut(c) == answer[c] = None /\ via[c] \in sessions
TimesOut(c) == answer[c] = None

DispatchTimeout(c) ==
  /\ call[c] = "waiting" /\ TimesOut(c)
  /\ pending' = Unfiled(c)
  /\ call' = [call EXCEPT ![c] = "done"]
  /\ UNCHANGED <<table, store, via, answer, wire, clock, hist, codes, sock, pc, hello, db,
                 reaper, feed>>

-----------------------------------------------------------------------------
Tick ==
  /\ now < MaxTime
  /\ now' = now + 1
  /\ UNCHANGED <<table, store, rpc, restarts, hist, codes, sock, pc, hello, db, reaper, feed>>

\* The process dies and a new one opens the database: only the devices table stays.
Restart ==
  /\ restarts < MaxRestart
  /\ restarts' = restarts + 1
  /\ sessions' = {}
  /\ byDevice' = [d \in Device |-> None]
  /\ codes' = [c \in Code |-> None]
  /\ sock' = [s \in Sid |-> IF sock[s] = "none" THEN "none" ELSE "closed"]
  /\ pc' = [s \in Sid |-> IF pc[s] = "none" THEN "none" ELSE "done"]
  /\ call' = [c \in Call |-> IF call[c] = "idle" THEN "idle" ELSE "done"]
  /\ db' = <<>>
  /\ reaper' = Asleep
  /\ UNCHANGED <<owner, skey, lastSeen, store, pending, via, answer, wire, now, hist, hello, feed>>

Init ==
  /\ sessions = {} /\ owner = [s \in Sid |-> None] /\ skey = [s \in Sid |-> None]
  /\ lastSeen = [s \in Sid |-> 0]
  /\ byDevice = [d \in Device |-> None]
  /\ pending = [s \in Sid |-> [q \in Req |-> None]]
  /\ codes = [c \in Code |-> None]
  /\ known = [d \in Device |-> None] /\ status = [d \in Device |-> "offline"]
  /\ now = 0 /\ restarts = 0
  /\ sock = [s \in Sid |-> "none"] /\ pc = [s \in Sid |-> "none"]
  /\ hello = [s \in Sid |-> [dev |-> None, key |-> None, code |-> None, found |-> None]]
  /\ db = <<>> /\ reaper = Asleep
  /\ call = [c \in Call |-> "idle"] /\ via = [c \in Call |-> None]
  /\ answer = [c \in Call |-> None] /\ wire = {}
  /\ feed = [d \in Device |-> "offline"]
  /\ raced = {} /\ admitted = {}

\* What agents and their networks do to a socket.
Peer(s) ==
  \/ Connect(s) \/ PeerLeaves(s) \/ NoHello(s) \/ Heartbeat(s)
  \/ \E d \in Device, k \in Key, c \in Code \cup {None} : Hello(s, d, k, c)
  \/ \E q \in Req, o \in {"completed", "failed"} : Result(s, q, o)

\* A socket's coroutine going on.
Handle(s) ==
  \/ Rejected(s) \/ RefuseStranger(s) \/ RefuseKey(s) \/ Pair(s) \/ Refresh(s)
  \/ TakeOver(s) \/ Replaced(s) \/ Welcome(s) \/ Welcomed(s) \/ HeartbeatStored(s)
  \/ Disconnect(s) \/ AlreadyDropped(s) \/ AnnounceOffline(s)

Reap ==
  \/ ReapScan \/ (\E s \in Sid : ReapClose(s) \/ ReapDrop(s)) \/ ReapAnnounce \/ ReapEnd

Ask(c) == DispatchOffline(c) \/ \E s \in Sid : Dispatch(c, s)
Await(c) == DispatchSent(c) \/ DispatchReturn(c) \/ DispatchTimeout(c)

Next ==
  \/ \E s \in Sid : Peer(s) \/ Handle(s)
  \/ Reap
  \/ \E c \in Call : Ask(c) \/ Await(c)
  \/ \E c \in Code : NewPairingCode(c)
  \/ Tick \/ Restart

Spec == Init /\ [][Next]_vars

\* Ready coroutines run, the database and the network calls answer, the
\* housekeeping loop goes round and the clock advances.  A peer that has left
\* has sent finitely many frames, so its loop comes to the disconnect.
Fairness ==
  /\ \A s \in Sid : WF_vars(Handle(s)) /\ SF_vars(Disconnect(s) \/ AlreadyDropped(s))
  /\ \A c \in Call : WF_vars(Await(c))
  /\ WF_vars(Reap)

FairSpec == Spec /\ Fairness /\ WF_vars(Tick)

-----------------------------------------------------------------------------
(* Properties *)

Location == {"none", "reading", "rejecting", "looking_up", "registering", "replacing", "marking",
             "welcoming", "beating", "leaving", "offlining", "done"}

\* Every variable holds a value of the kind the code keeps there.
TypeOK ==
  /\ sessions \subseteq Sid
  /\ owner \in [Sid -> Device \cup {None}] /\ skey \in [Sid -> Key \cup {None}]
  /\ lastSeen \in [Sid -> Nat]
  /\ byDevice \in [Device -> Sid \cup {None}]
  /\ pending \in [Sid -> [Req -> Call \cup {None}]]
  /\ codes \in [Code -> Nat \cup {None}]
  /\ known \in [Device -> Key \cup {None}] /\ status \in [Device -> {"online", "offline"}]
  /\ now \in Nat /\ restarts \in Nat
  /\ sock \in [Sid -> {"none", "open", "gone", "closed"}]
  /\ pc \in [Sid -> Location]
  /\ hello \in [Sid -> [dev : Device \cup {None}, key : Key \cup {None},
                        code : Code \cup {None}, found : Key \cup {None}]]
  /\ db \in Seq(Sid \cup {Reaper})
  /\ reaper \in [pc : {"asleep", "reaping", "closing", "offlining"},
                 todo : SUBSET Sid, on : Sid \cup {None}]
  /\ call \in [Call -> {"idle", "sending", "waiting", "done"}]
  /\ via \in [Call -> Sid \cup {None}]
  /\ answer \in [Call -> {"completed", "failed", "device_offline", None}]
  /\ wire \subseteq Sid \X Req
  /\ feed \in [Device -> {"online", "offline"}]
  /\ raced \subseteq Device /\ admitted \subseteq Code \X Sid

\* A device is reached through the one session that speaks for it: unless two
\* hellos, or a hello and the reaper, have cut into each other, no other
\* registered session claims the device (_handle_hello's replacement).
SoleSession ==
  \A s \in sessions : owner[s] # None /\ owner[s] \notin raced => byDevice[owner[s]] = s

\* The devices table says "online" exactly while a session is on file, through
\* hello, heartbeat, replacement, disconnect and reaping (until a restart).
StatusAgrees ==
  \A d \in Device \ raced : restarts = 0 => (status[d] = "online" <=> byDevice[d] # None)

\* Nobody is in the middle of something about d.
Quiet(d) ==
  /\ \A s \in Sid : Dev(s) = d => pc[s] \in {"none", "reading", "beating", "done"}
  /\ reaper.pc = "offlining" => owner[reaper.on] # d

\* Once things are quiet, the last event the dashboards got tells the truth.
FeedAgrees ==
  \A d \in Device \ raced : restarts = 0 /\ Quiet(d) => (feed[d] = "online" <=> byDevice[d] # None)

\* A pairing code registers at most one device, once.
CodeAdmitsOnce == \A a, b \in admitted : a[1] = b[1] => a = b

\* A device paired once keeps its key, and only that key speaks for it.
SolePairingKeepsKey ==
  \A d \in Device :
    (\A a, b \in admitted : Dev(a[2]) = d /\ Dev(b[2]) = d => a = b) =>
       \A s \in Sid : owner[s] = d => skey[s] = known[d]

\* A code that is used up stays used up, and a pairing is exclusive
\* (_handle_hello spends the code before it writes the device).
PairingIsExclusive == CodeAdmitsOnce /\ SolePairingKeepsKey

\* No future outlives its dispatch in a session that goes on, so pending does
\* not grow with the traffic (distinct requests, as new_id makes them).
NoStalePending ==
  \A s \in sessions, q \in Req :
    sock[s] = "open" /\ pending[s][q] # None => call[pending[s][q]] \in {"sending", "waiting"}

\* The result of a dispatch that still waits finds its future.
WaitersAreFiled ==
  \A c \in Call :
    call[c] = "waiting" /\ answer[c] = None => pending[via[c]][ReqOf[c]] = c

\* The futures on file are those that are waited for (dispatch, which takes its
\* future back when it times out, and the results and replacements that race
\* with that).
PendingIsExact == NoStalePending /\ WaitersAreFiled

\* A device goes offline only when the connection of its current session has
\* ended: closing an older session never takes the newer one with it.
OfflineOnlyWhenGone ==
  [][\A d \in Device : byDevice[d] # None /\ byDevice'[d] = None /\ restarts' = restarts
       => sock[byDevice[d]] # "open"]_vars

Dead(s) == sock[s] # "open" \/ lastSeen[s] + HeartbeatTimeout < now

\* A device whose agent left, or fell silent for longer than the timeout, does
\* not stay online.
DeadGoOffline ==
  \A s \in Sid, d \in Device :
    (byDevice[d] = s /\ Dead(s)) ~> (byDevice[d] # s \/ ~Dead(s) \/ d \in raced)

\* Every dispatch comes back, also when its session was replaced under it.
DispatchEnds == \A c \in Call : (call[c] # "idle") ~> (call[c] = "done")
=============================================================================
