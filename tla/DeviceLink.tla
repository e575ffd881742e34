----------------------------- MODULE DeviceLink -----------------------------
(***************************************************************************)
(* The device agent (internal/client/client.go) and the core's end of its  *)
(* connection, over links that break at any moment.                        *)
(*                                                                         *)
(* The agent is modelled in full: dialling, hello, refusals, back-off, one *)
(* goroutine for each request, and the cancellation of a session's work.   *)
(* Of the core only what the agent meets is here (Gateway has the rest):   *)
(* the three steps of _handle_hello, dispatch with its waiting future, and  *)
(* the ways a session ends.  Every connection carries one queue of frames  *)
(* in each direction; when it breaks, either end may still read what had   *)
(* arrived.  A core that closes a connection says so in a last frame.      *)
(***************************************************************************)
EXTENDS Integers, Sequences

CONSTANTS
  Conn,            \* connections; each Dial takes a fresh one
  Req,             \* requests; each is dispatched once
  ReconnectMin, ReconnectMax,
  MaxRestart,      \* bound on restarts of either end
  None

ASSUME DeviceLinkAssumption ==
  /\ ReconnectMin \in Nat \ {0} /\ ReconnectMax \in Nat /\ ReconnectMin <= ReconnectMax
  /\ MaxRestart \in Nat
  /\ None \notin Conn

VARIABLES
  phase,     \* where Agent.Run is
  conn,      \* the agent's connection, or None
  code,      \* cfg.PairingCode is still set
  backoff,
  job,       \* the goroutine of each request and the connection it came by
  acts,      \* how often the adapter has carried out each request
  link,      \* unused, open or broken
  toAgent, toCore,
  hello,     \* the core's handling of each hello: what it found in the registry
  known,     \* whose key is registered: nobody's, this agent's or another's
  codeValid, \* the pairing code is still good
  live,      \* the core's session for the device
  call, answer, via, \* each dispatch: where it is, what it was told, by which connection
  restarts,
  overlapped \* two hellos were being handled at once (history)

agent   == <<phase, conn, code, backoff>>
work    == <<job, acts>>
wires   == <<link, toAgent, toCore>>
core    == <<hello, known, codeValid, live, overlapped>>
futures == <<call, answer, via>>
vars    == <<agent, work, wires, core, futures, restarts>>

-----------------------------------------------------------------------------
(* Frames *)

HelloFrame(withCode) == [type |-> "hello", code |-> withCode]
Welcome == [type |-> "welcome"]
Refused == [type |-> "refused"]   \* closed with 4003 and a permanent reason
Closed == [type |-> "closed"]     \* closed for any other reason
Request(q) == [type |-> "request", req |-> q]
ResultOf(q, o) == [type |-> "result", req |-> q, status |-> o]

Put(queues, c, f) == [queues EXCEPT ![c] = Append(@, f)]
Arrives(queues, c, type) == queues[c] # <<>> /\ Head(queues[c]).type = type
Taken(queues, c) == [queues EXCEPT ![c] = Tail(@)]

\* Unused connections bound how often a connection can be lost.
OneLeft == \E c \in Conn : link[c] = "unused"

-----------------------------------------------------------------------------
(* Agent.Run and session *)

MutantKeepsCode == FALSE
KeepsCode == code

Dial(c) ==
  /\ phase = "dialing" /\ link[c] = "unused"
  /\ link' = [link EXCEPT ![c] = "open"]
  /\ toCore' = Put(toCore, c, HelloFrame(code))
  /\ conn' = c
  /\ code' = KeepsCode
  /\ phase' = "greeting"
  /\ UNCHANGED <<backoff, work, toAgent, core, futures, restarts>>

DialFails ==
  /\ phase = "dialing"
  /\ phase' = "backing_off"
  /\ UNCHANGED <<conn, code, backoff, work, wires, core, futures, restarts>>

MutantDoubled == 2 * backoff
Doubled == IF 2 * backoff > ReconnectMax THEN ReconnectMax ELSE 2 * backoff

\* A client that gives up once the back-off has reached its limit.
MutantStillTries == backoff < ReconnectMax
StillTries == TRUE

Retry ==
  /\ phase = "backing_off" /\ StillTries
  /\ phase' = "dialing"
  /\ backoff' = Doubled
  /\ UNCHANGED <<conn, code, work, wires, core, futures, restarts>>

ReadWelcome ==
  /\ phase = "greeting" /\ Arrives(toAgent, conn, "welcome")
  /\ toAgent' = Taken(toAgent, conn)
  /\ code' = FALSE
  /\ phase' = "connected"
  /\ UNCHANGED <<conn, backoff, work, link, toCore, core, futures, restarts>>

\* The first frame must be the welcome: after any other the session is over.
Unwelcome == phase = "greeting" /\ Arrives(toAgent, conn, "request")

\* The session is over: its context is cancelled and its socket closed.
EndSession(p) ==
  /\ phase' = p
  /\ conn' = None
  /\ link' = [link EXCEPT ![conn] = "broken"]
  /\ UNCHANGED <<code, backoff, work, toAgent, toCore, core, futures, restarts>>

GiveUp == conn # None /\ Arrives(toAgent, conn, "refused") /\ EndSession("stopped")

LoseSession ==
  /\ conn # None
  /\ link[conn] = "broken" \/ Arrives(toAgent, conn, "closed") \/ Unwelcome
  /\ EndSession("backing_off")

-----------------------------------------------------------------------------
(* handle, and the goroutine of a request *)

Receive(q) ==
  /\ phase = "connected"
  /\ Arrives(toAgent, conn, "request") /\ Head(toAgent[conn]).req = q
  /\ toAgent' = Taken(toAgent, conn)
  /\ \/ job' = [job EXCEPT ![q] = [pc |-> "running", on |-> conn]]
     \/ UNCHANGED job \* not verified, or refused by acceptNonce
  /\ UNCHANGED <<agent, acts, link, toCore, core, futures, restarts>>

Perform(q) ==
  /\ job[q].pc = "running"
  /\ acts' = [acts EXCEPT ![q] = @ + 1]
  /\ job' = [job EXCEPT ![q].pc = "performed"]
  /\ UNCHANGED <<agent, wires, core, futures, restarts>>

StillOn(q) == conn = job[q].on /\ link[conn] = "open"

MutantStatusOf(q) == {"completed", "failed"}
StatusOf(q) == IF job[q].pc = "performed" THEN {"completed", "failed"} ELSE {"failed"}

\* adapter.Run returns: done, refused, timed out or cancelled.  Its result goes
\* out by the connection the request came by, if that session goes on.
Reply(q) ==
  /\ job[q].pc \in {"running", "performed"}
  /\ \/ /\ StillOn(q)
        /\ \E o \in StatusOf(q) : toCore' = Put(toCore, conn, ResultOf(q, o))
     \/ ~StillOn(q) /\ UNCHANGED toCore
  /\ job' = [job EXCEPT ![q].pc = "done"]
  /\ UNCHANGED <<agent, acts, link, toAgent, core, futures, restarts>>

-----------------------------------------------------------------------------
(* The network *)

Break(c) ==
  /\ link[c] = "open" /\ OneLeft
  /\ link' = [link EXCEPT ![c] = "broken"]
  /\ UNCHANGED <<agent, work, toAgent, toCore, core, futures, restarts>>

\* What was under way when the connection broke may never arrive.
Lose(c) ==
  /\ link[c] = "broken"
  /\ toAgent' = [toAgent EXCEPT ![c] = <<>>] /\ toCore' = [toCore EXCEPT ![c] = <<>>]
  /\ <<toAgent, toCore>>' # <<toAgent, toCore>>
  /\ UNCHANGED <<agent, work, link, core, futures, restarts>>

-----------------------------------------------------------------------------
(* The core: hello *)

LookUp(c) ==
  /\ hello[c] = "none" /\ Arrives(toCore, c, "hello")
  /\ hello' = [hello EXCEPT ![c] = known]
  /\ overlapped' = (overlapped \/ \E d \in Conn : hello[d] \in {"nobody", "mine", "other"})
  /\ UNCHANGED <<agent, work, wires, known, codeValid, live, futures, restarts>>

HasCode(c) == Head(toCore[c]).code /\ codeValid

MutantAdmits(c) == hello[c] # "other" /\ (Head(toCore[c]).code => codeValid)
Admits(c) == hello[c] = "mine" \/ (hello[c] = "nobody" /\ HasCode(c))

\* The session speaks for the device from here on, and an older one is closed.
\* The write of the status is awaited before the welcome goes out: a dispatch
\* may send its request first.
Admit(c) ==
  /\ hello[c] \in {"nobody", "mine", "other"} /\ Arrives(toCore, c, "hello")
  /\ Admits(c)
  /\ known' = "mine"
  /\ codeValid' = (codeValid /\ hello[c] = "mine")
  /\ live' = c
  /\ hello' = [hello EXCEPT ![c] = "filed"]
  /\ toAgent' = IF live = None THEN toAgent ELSE Put(toAgent, live, Closed)
  /\ toCore' = Taken(toCore, c)
  /\ UNCHANGED <<agent, work, link, futures, restarts, overlapped>>

\* A session that was replaced or reaped meanwhile has been closed: nothing
\* more goes out on it.
SendWelcome(c) ==
  /\ hello[c] = "filed"
  /\ hello' = [hello EXCEPT ![c] = "admitted"]
  /\ toAgent' = IF c = live THEN Put(toAgent, c, Welcome) ELSE toAgent
  /\ UNCHANGED <<agent, work, link, toCore, known, codeValid, live, futures, restarts, overlapped>>

Reject(c) ==
  /\ hello[c] \in {"nobody", "mine", "other"} /\ Arrives(toCore, c, "hello")
  /\ ~Admits(c)
  /\ hello' = [hello EXCEPT ![c] = "rejected"]
  /\ toAgent' = Put(toAgent, c, Refused)
  /\ toCore' = Taken(toCore, c)
  /\ UNCHANGED <<agent, work, link, known, codeValid, live, futures, restarts, overlapped>>

CodeExpires ==
  /\ codeValid
  /\ codeValid' = FALSE
  /\ UNCHANGED <<agent, work, wires, hello, known, live, futures, restarts, overlapped>>

-----------------------------------------------------------------------------
(* The core: dispatch, results and the end of a session *)

Tell(q, o) ==
  /\ call' = [call EXCEPT ![q] = "done"]
  /\ answer' = [answer EXCEPT ![q] = o]

DispatchOffline(q) ==
  /\ call[q] = "idle" /\ live = None
  /\ Tell(q, "device_offline")
  /\ UNCHANGED <<agent, work, wires, core, via, restarts>>

Dispatch(q) ==
  /\ call[q] = "idle" /\ live # None
  /\ call' = [call EXCEPT ![q] = "waiting"]
  /\ via' = [via EXCEPT ![q] = live]
  /\ toAgent' = Put(toAgent, live, Request(q))
  /\ UNCHANGED <<agent, work, link, toCore, core, answer, restarts>>

Timeout(q) ==
  /\ call[q] = "waiting"
  /\ Tell(q, "failed")
  /\ UNCHANGED <<agent, work, wires, core, via, restarts>>

Result(c) ==
  /\ Arrives(toCore, c, "result") /\ c = live
  /\ LET f == Head(toCore[c]) IN
       IF call[f.req] = "waiting" /\ via[f.req] = c
       THEN Tell(f.req, f.status) ELSE UNCHANGED <<call, answer>>
  /\ toCore' = Taken(toCore, c)
  /\ UNCHANGED <<agent, work, link, toAgent, core, via, restarts>>

\* disconnect, for a connection that broke or one the reaper closes.
Disconnect(c) ==
  /\ c = live
  /\ link[c] = "broken" \/ OneLeft
  /\ live' = None
  /\ toAgent' = Put(toAgent, c, Closed)
  /\ call' = [q \in Req |-> IF call[q] = "waiting" /\ via[q] = c THEN "done" ELSE call[q]]
  /\ answer' = [q \in Req |-> IF call[q] = "waiting" /\ via[q] = c
                              THEN "device_offline" ELSE answer[q]]
  /\ UNCHANGED <<agent, work, link, toCore, hello, known, codeValid, overlapped, via, restarts>>

-----------------------------------------------------------------------------
(* Restarts *)

AgentRestart ==
  /\ restarts < MaxRestart /\ OneLeft
  /\ restarts' = restarts + 1
  /\ phase' = "dialing" /\ conn' = None /\ code' = TRUE /\ backoff' = ReconnectMin
  /\ job' = [q \in Req |-> IF job[q].pc = "none" THEN job[q] ELSE [job[q] EXCEPT !.pc = "done"]]
  /\ link' = [c \in Conn |-> IF c = conn THEN "broken" ELSE link[c]]
  /\ UNCHANGED <<acts, toAgent, toCore, core, futures>>

\* The dispatches under way die with the core, and so does the pairing code.
CoreRestart ==
  /\ restarts < MaxRestart /\ OneLeft
  /\ restarts' = restarts + 1
  /\ live' = None /\ codeValid' = FALSE
  /\ hello' = [c \in Conn |-> IF link[c] = "unused" THEN hello[c] ELSE "rejected"]
  /\ link' = [c \in Conn |-> IF link[c] = "unused" THEN "unused" ELSE "broken"]
  /\ call' = [q \in Req |-> IF call[q] = "idle" THEN "idle" ELSE "done"]
  /\ UNCHANGED <<agent, work, toAgent, toCore, known, overlapped, answer, via>>

-----------------------------------------------------------------------------
Init ==
  /\ phase = "dialing" /\ conn = None /\ code = TRUE /\ backoff = ReconnectMin
  /\ job = [q \in Req |-> [pc |-> "none", on |-> None]] /\ acts = [q \in Req |-> 0]
  /\ link = [c \in Conn |-> "unused"]
  /\ toAgent = [c \in Conn |-> <<>>] /\ toCore = [c \in Conn |-> <<>>]
  /\ hello = [c \in Conn |-> "none"]
  /\ known \in {"nobody", "mine", "other"} /\ codeValid \in BOOLEAN
  /\ live = None
  /\ call = [q \in Req |-> "idle"] /\ answer = [q \in Req |-> None]
  /\ via = [q \in Req |-> None]
  /\ restarts = 0 /\ overlapped = FALSE

Run == (\E c \in Conn : Dial(c)) \/ Retry \/ ReadWelcome \/ GiveUp \/ LoseSession
Work == \E q \in Req : Receive(q) \/ Perform(q) \/ Reply(q)
Greet == \E c \in Conn : LookUp(c) \/ Admit(c) \/ SendWelcome(c) \/ Reject(c)
Serve == \E q \in Req : DispatchOffline(q) \/ Dispatch(q) \/ Timeout(q)

Next ==
  \/ Run \/ DialFails
  \/ Work
  \/ \E c \in Conn : Break(c) \/ Lose(c) \/ Result(c) \/ Disconnect(c)
  \/ Greet \/ CodeExpires
  \/ Serve
  \/ AgentRestart \/ CoreRestart

Spec == Init /\ [][Next]_vars

\* Both programs keep running; a core that is up answers a hello and is found
\* by one of the attempts to dial it.
Fairness ==
  /\ WF_vars(Run) /\ WF_vars(Greet)
  /\ SF_vars(\E c \in Conn : Dial(c))

FairSpec == Spec /\ Fairness

-----------------------------------------------------------------------------
(* Properties *)

Frame ==
  {Welcome, Refused, Closed} \cup {HelloFrame(b) : b \in BOOLEAN} \cup {Request(q) : q \in Req}
    \cup {ResultOf(q, o) : q \in Req, o \in {"completed", "failed"}}

\* Every variable holds a value of its kind; the back-off stays in its range.
TypeOK ==
  /\ phase \in {"dialing", "greeting", "connected", "backing_off", "stopped"}
  /\ conn \in Conn \cup {None} /\ code \in BOOLEAN
  /\ backoff \in ReconnectMin..ReconnectMax
  /\ job \in [Req -> [pc : {"none", "running", "performed", "done"}, on : Conn \cup {None}]]
  /\ acts \in [Req -> Nat]
  /\ link \in [Conn -> {"unused", "open", "broken"}]
  /\ toAgent \in [Conn -> Seq(Frame)] /\ toCore \in [Conn -> Seq(Frame)]
  /\ hello \in [Conn -> {"none", "nobody", "mine", "other", "filed", "admitted", "rejected"}]
  /\ known \in {"nobody", "mine", "other"} /\ codeValid \in BOOLEAN
  /\ live \in Conn \cup {None}
  /\ call \in [Req -> {"idle", "waiting", "done"}]
  /\ answer \in [Req -> {None, "completed", "failed", "device_offline"}]
  /\ via \in [Req -> Conn \cup {None}]
  /\ restarts \in Nat /\ overlapped \in BOOLEAN

\* What the link promises a dispatch, across every session.
Promise == INSTANCE RemoteCall WITH asked <- {q \in Req : via[q] # None}, told <- answer
ImplementsRemoteCall == Promise!CallSpec

\* The agent stops for good only when retrying is pointless: not while its key
\* is registered, unless two of its hellos met in the core.
GivesUpForAReason == phase = "stopped" /\ known = "mine" => overlapped

\* ... and not while the code it was started with would still pair it: a hello
\* that is lost does not take the code with it.
CodeOutlivesLostHellos == phase = "stopped" /\ known = "nobody" => ~codeValid

\* Whatever the agent is doing, it comes to be connected or to give up: broken
\* links, refused dials and restarts of the core do not strand it.  (Or the
\* instance has run out of connections.)
OutOfConnections == conn = None /\ ~OneLeft
ComesBack == []<>(phase \in {"connected", "stopped"} \/ OutOfConnections)
=============================================================================
