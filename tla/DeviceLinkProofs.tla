-------------------------- MODULE DeviceLinkProofs --------------------------
(***************************************************************************)
(* Proofs about DeviceLink: types, what a dispatch may rely on (RemoteCall)*)
(* and that the agent gives up for a reason, for any number of connections,*)
(* requests and restarts.                                                  *)
(***************************************************************************)
EXTENDS DeviceLink, TLAPS

USE DeviceLinkAssumption

-----------------------------------------------------------------------------
(* Frames and queues *)

In(s, f) == \E i \in 1..Len(s) : s[i] = f
Once(s, f) == \A i, j \in 1..Len(s) : s[i] = f /\ s[j] = f => i = j

Queues == [Conn -> Seq(Frame)]

LEMMA PutTyped ==
  ASSUME NEW queues \in Queues, NEW c \in Conn, NEW f \in Frame
  PROVE  Put(queues, c, f) \in Queues
BY DEF Put, Queues

\* What is in a queue after a frame was put into one, and how often.
LEMMA PutKeeps ==
  ASSUME NEW queues \in Queues, NEW c \in Conn, NEW f \in Frame,
         NEW d \in Conn, NEW g
  PROVE  /\ In(Put(queues, c, f)[d], g) => In(queues[d], g) \/ (d = c /\ g = f)
         /\ Once(queues[d], g) /\ ~(d = c /\ g = f /\ In(queues[d], g))
              => Once(Put(queues, c, f)[d], g)
<1> DEFINE s == queues[d]
           t == Put(queues, c, f)[d]
<1>1. CASE d # c
  <2>1. t = s
    BY <1>1 DEF Put, Queues
  <2> QED BY <1>1, <2>1
<1>2. CASE d = c
  <2>1. s \in Seq(Frame) /\ t = Append(s, f)
    BY <1>2 DEF Put, Queues
  <2>2. Len(t) = Len(s) + 1 /\ Len(s) \in Nat /\ t[Len(s) + 1] = f
        /\ \A i \in 1..Len(s) : t[i] = s[i]
    BY <2>1
  <2> HIDE DEF s, t
  <2>3. \A i \in 1..Len(t) : i \in 1..Len(s) \/ i = Len(s) + 1
    BY <2>2
  <2>4. ASSUME In(t, g), g # f PROVE In(s, g)
    BY <2>2, <2>3, <2>4 DEF In
  <2>5. ASSUME Once(s, g), ~(g = f /\ In(s, g)) PROVE Once(t, g)
    <3> SUFFICES ASSUME NEW i \in 1..Len(t), NEW j \in 1..Len(t), t[i] = g, t[j] = g PROVE i = j
      BY DEF Once
    <3>1. CASE g = f
      BY <2>2, <2>3, <2>5, <3>1 DEF In
    <3>2. CASE g # f
      BY <2>2, <2>3, <2>5, <3>2 DEF Once
    <3> QED BY <3>1, <3>2
  <2>6. (In(t, g) => In(s, g) \/ g = f) /\ (Once(s, g) /\ ~(g = f /\ In(s, g)) => Once(t, g))
    BY <2>4, <2>5
  <2> QED BY <1>2, <2>6 DEF s, t
<1> QED BY <1>1, <1>2

LEMMA TakeFrame ==
  ASSUME NEW queues \in Queues, NEW c \in Conn, queues[c] # <<>>
  PROVE  /\ Taken(queues, c) \in Queues
         /\ Head(queues[c]) \in Frame /\ In(queues[c], Head(queues[c]))
         /\ \A d \in Conn : \A g : In(Taken(queues, c)[d], g) => In(queues[d], g)
         /\ \A d \in Conn : \A g : Once(queues[d], g) => Once(Taken(queues, c)[d], g)
         /\ Once(queues[c], Head(queues[c])) => ~In(Taken(queues, c)[c], Head(queues[c]))
<1> DEFINE s == queues[c]
           t == Tail(s)
<1>1. s \in Seq(Frame) /\ t \in Seq(Frame) /\ Len(s) \in Nat /\ Len(s) > 0 /\ Len(t) = Len(s) - 1
  BY DEF Queues
<1>2. Head(s) \in Frame /\ Head(s) = s[1] /\ \A i \in 1..Len(t) : t[i] = s[i + 1]
  BY <1>1
<1>3. In(s, Head(s))
  BY <1>1, <1>2 DEF In
<1>4. \A i \in 1..Len(t) : i + 1 \in 1..Len(s) /\ i + 1 # 1
  BY <1>1
<1>5. \A g : In(t, g) => In(s, g)
  BY <1>2, <1>4 DEF In
<1>6. \A g : Once(s, g) => Once(t, g)
  <2> SUFFICES ASSUME NEW g, Once(s, g), NEW i \in 1..Len(t), NEW j \in 1..Len(t),
                      t[i] = g, t[j] = g
               PROVE  i = j
    BY DEF Once
  <2>1. i + 1 = j + 1
    BY <1>2, <1>4 DEF Once
  <2> QED BY <2>1, <1>1
<1>7. Once(s, Head(s)) => ~In(t, Head(s))
  <2> SUFFICES ASSUME Once(s, Head(s)), NEW i \in 1..Len(t), t[i] = Head(s) PROVE FALSE
    BY DEF In
  <2>1. s[i + 1] = Head(s) /\ s[1] = Head(s) /\ i + 1 \in 1..Len(s) /\ 1 \in 1..Len(s)
    BY <1>1, <1>2, <1>4
  <2>2. i + 1 = 1
    BY <2>1 DEF Once
  <2> QED BY <2>2, <1>4
<1>8. Taken(queues, c) = [queues EXCEPT ![c] = t]
  BY DEF Taken
<1>9. /\ Taken(queues, c) \in Queues
      /\ \A d \in Conn : Taken(queues, c)[d] = IF d = c THEN t ELSE queues[d]
  BY <1>1, <1>8 DEF Queues
<1> HIDE DEF t
<1>10. ASSUME NEW d \in Conn, NEW g
       PROVE  /\ In(Taken(queues, c)[d], g) => In(queues[d], g)
              /\ Once(queues[d], g) => Once(Taken(queues, c)[d], g)
  <2>1. CASE d = c
    <3>1. Taken(queues, c)[d] = t
      BY <2>1, <1>9
    <3> QED BY <2>1, <3>1, <1>5, <1>6
  <2>2. CASE d # c
    <3>1. Taken(queues, c)[d] = queues[d]
      BY <2>2, <1>9
    <3> QED BY <3>1
  <2> QED BY <2>1, <2>2
<1>11. Once(queues[c], Head(queues[c])) => ~In(Taken(queues, c)[c], Head(queues[c]))
  <2>1. Taken(queues, c)[c] = t
    BY <1>9
  <2> QED BY <2>1, <1>7
<1> QED BY <1>2, <1>3, <1>9, <1>10, <1>11

\* What each kind of frame is, and that the kinds differ.
LEMMA FrameKinds ==
  ASSUME NEW f \in Frame
  PROVE  /\ f.type = "hello" => \E b \in BOOLEAN : f = HelloFrame(b)
         /\ f.type = "request" => f.req \in Req /\ f = Request(f.req)
         /\ f.type = "result" => /\ f.req \in Req /\ f.status \in {"completed", "failed"}
                                 /\ f = ResultOf(f.req, f.status)
         /\ f.type = "welcome" => f = Welcome
         /\ f.type = "refused" => f = Refused
         /\ f.type = "closed" => f = Closed
BY DEF Frame, HelloFrame, Request, ResultOf, Welcome, Refused, Closed

LEMMA FramesAre ==
  /\ Welcome \in Frame /\ Refused \in Frame /\ Closed \in Frame
  /\ \A b \in BOOLEAN : HelloFrame(b) \in Frame
  /\ \A q \in Req : Request(q) \in Frame
  /\ \A q \in Req, o \in {"completed", "failed"} : ResultOf(q, o) \in Frame
BY DEF Frame

LEMMA FramesDiffer ==
  /\ \A q, r : Request(q) = Request(r) => q = r
  /\ \A q, r, o, p : ResultOf(q, o) = ResultOf(r, p) => q = r /\ o = p
  /\ \A b, d : HelloFrame(b) = HelloFrame(d) => b = d
  /\ \A q : Request(q) # Welcome /\ Request(q) # Refused /\ Request(q) # Closed
  /\ \A q, o, b : ResultOf(q, o) # HelloFrame(b)
  /\ Welcome # Refused /\ Welcome # Closed /\ Refused # Closed
<1>1. \A q, r : Request(q).type = "request" /\ Request(q).req = q
  BY DEF Request
<1>2. \A q, o : /\ ResultOf(q, o).type = "result" /\ ResultOf(q, o).req = q
                /\ ResultOf(q, o).status = o
  BY DEF ResultOf
<1>3. \A b : HelloFrame(b).type = "hello" /\ HelloFrame(b).code = b
  BY DEF HelloFrame
<1>4. Welcome.type = "welcome" /\ Refused.type = "refused" /\ Closed.type = "closed"
  BY DEF Welcome, Refused, Closed
<1> QED BY <1>1, <1>2, <1>3, <1>4

\* The agent has a connection while it greets and while it is connected.
OnAConnection == conn # None <=> phase \in {"greeting", "connected"}

\* A goroutine at work has come by a connection.
JobsHaveConnection == \A q \in Req : job[q].pc \in {"running", "performed"} => job[q].on \in Conn

TypeInv == TypeOK /\ OnAConnection /\ JobsHaveConnection

Job == [pc : {"none", "running", "performed", "done"}, on : Conn \cup {None}]

\* A goroutine that gets on keeps its connection.
LEMMA Advanced ==
  ASSUME TypeOK, NEW q \in Req, NEW p \in {"none", "running", "performed", "done"}
  PROVE  /\ [job EXCEPT ![q].pc = p] \in [Req -> Job]
         /\ \A r \in Req : /\ [job EXCEPT ![q].pc = p][r].on = job[r].on
                            /\ [job EXCEPT ![q].pc = p][r].pc = IF r = q THEN p ELSE job[r].pc
<1> DEFINE j == [job[q] EXCEPT !.pc = p]
<1>1. job \in [Req -> Job] /\ job[q] \in Job
  BY DEF TypeOK, Job
<1>2. j \in Job /\ j.pc = p /\ j.on = job[q].on
  BY <1>1 DEF Job
<1> DEFINE all == [job EXCEPT ![q].pc = p]
<1>3. all = [job EXCEPT ![q] = j]
  OBVIOUS
<1> HIDE DEF j, all
<1>4. all \in [Req -> Job] /\ all[q] = j /\ \A r \in Req : r # q => all[r] = job[r]
  BY <1>1, <1>2, <1>3
<1>5. \A r \in Req : all[r].pc = (IF r = q THEN p ELSE job[r].pc) /\ all[r].on = job[r].on
  BY <1>2, <1>4
<1> QED BY <1>4, <1>5 DEF all

\* The goroutine of a request that has just arrived.
LEMMA Started ==
  ASSUME TypeOK, NEW q \in Req, NEW c \in Conn
  PROVE  /\ [job EXCEPT ![q] = [pc |-> "running", on |-> c]] \in [Req -> Job]
         /\ \A r \in Req : [job EXCEPT ![q] = [pc |-> "running", on |-> c]][r]
                            = IF r = q THEN [pc |-> "running", on |-> c] ELSE job[r]
<1> DEFINE j == [pc |-> "running", on |-> c]
<1>1. job \in [Req -> Job] /\ j \in Job
  BY DEF TypeOK, Job
<1> HIDE DEF j
<1>2. [job EXCEPT ![q] = j] \in [Req -> Job]
  BY <1>1
<1>3. \A r \in Req : [job EXCEPT ![q] = j][r] = IF r = q THEN j ELSE job[r]
  BY <1>1
<1> QED BY <1>2, <1>3 DEF j

LEMMA InitTyped == Init => TypeInv
<1> SUFFICES ASSUME Init PROVE TypeInv
  OBVIOUS
<1>1. job \in [Req -> Job] /\ \A q \in Req : job[q].pc = "none"
  BY DEF Init, Job
<1>2. /\ toAgent \in Queues /\ toCore \in Queues
      /\ link \in [Conn -> {"unused", "open", "broken"}]
  <2>1. <<>> \in Seq(Frame)
    OBVIOUS
  <2> QED BY <2>1 DEF Init, Queues
<1>3. acts \in [Req -> Nat] /\ backoff \in ReconnectMin..ReconnectMax
  BY DEF Init
<1>4. OnAConnection /\ JobsHaveConnection
  BY <1>1 DEF Init, OnAConnection, JobsHaveConnection
<1> QED BY <1>1, <1>2, <1>3, <1>4 DEF Init, TypeInv, TypeOK, Job, Queues

LEMMA RunTyped ==
  ASSUME TypeInv, Run \/ DialFails
  PROVE  TypeInv'
<1> USE DEF TypeInv, TypeOK, OnAConnection, JobsHaveConnection, Queues, agent, work, wires, core, futures
<1>1. ASSUME NEW c \in Conn, Dial(c) PROVE TypeInv'
  <2>1. toCore' \in Queues
    BY <1>1, PutTyped, FramesAre DEF Dial
  <2> QED BY <1>1, <2>1 DEF Dial, KeepsCode
<1>2. CASE Retry
  <2>1. backoff' \in ReconnectMin..ReconnectMax
    BY <1>2 DEF Retry, Doubled
  <2> QED BY <1>2, <2>1 DEF Retry
<1>3. CASE ReadWelcome
  <2>1. conn \in Conn /\ toAgent[conn] # <<>>
    BY <1>3 DEF ReadWelcome, Arrives
  <2>2. toAgent' \in Queues
    BY <1>3, <2>1, TakeFrame DEF ReadWelcome
  <2> QED BY <1>3, <2>1, <2>2 DEF ReadWelcome
<1>4. CASE GiveUp
  BY <1>4 DEF GiveUp, EndSession
<1>5. CASE LoseSession
  BY <1>5 DEF LoseSession, EndSession
<1>6. CASE DialFails
  BY <1>6 DEF DialFails
<1> QED BY <1>1, <1>2, <1>3, <1>4, <1>5, <1>6 DEF Run

LEMMA WorkTyped ==
  ASSUME TypeInv, NEW q \in Req, Receive(q) \/ Perform(q) \/ Reply(q)
  PROVE  TypeInv'
<1> USE DEF TypeInv, TypeOK, OnAConnection, JobsHaveConnection, Queues, agent, work, wires, core, futures
<1>1. CASE Receive(q)
  <2>1. conn \in Conn /\ toAgent[conn] # <<>>
    BY <1>1 DEF Receive, Arrives
  <2>2. toAgent' \in Queues
    BY <1>1, <2>1, TakeFrame DEF Receive
  <2>3. job' \in [Req -> Job] /\ JobsHaveConnection'
    <3>1. CASE job' = job
      BY <3>1 DEF Job
    <3>2. CASE job' = [job EXCEPT ![q] = [pc |-> "running", on |-> conn]]
      BY <2>1, <3>2, Started
    <3> QED BY <1>1, <3>1, <3>2 DEF Receive
  <2> QED BY <1>1, <2>2, <2>3 DEF Receive, Job
<1>2. CASE Perform(q)
  <2>1. job' \in [Req -> Job] /\ JobsHaveConnection'
    <3> DEFINE all == [job EXCEPT ![q].pc = "performed"]
    <3>1. all \in [Req -> Job] /\ \A r \in Req : all[r].on = job[r].on
                /\ all[r].pc = IF r = q THEN "performed" ELSE job[r].pc
      BY Advanced
    <3>2. job' = all /\ job[q].on \in Conn
      BY <1>2 DEF Perform
    <3> HIDE DEF all
    <3> QED BY <3>1, <3>2
  <2>2. acts' \in [Req -> Nat]
    BY <1>2 DEF Perform
  <2>3. UNCHANGED <<agent, wires, core, futures, restarts>>
    BY <1>2 DEF Perform
  <2> QED BY <2>1, <2>2, <2>3 DEF Job
<1>3. CASE Reply(q)
  <2>1. job' \in [Req -> Job] /\ JobsHaveConnection'
    <3> DEFINE all == [job EXCEPT ![q].pc = "done"]
    <3>1. all \in [Req -> Job] /\ \A r \in Req : all[r].on = job[r].on
                /\ all[r].pc = IF r = q THEN "done" ELSE job[r].pc
      BY Advanced
    <3>2. job' = all /\ job[q].on \in Conn
      BY <1>3 DEF Reply
    <3> HIDE DEF all
    <3> QED BY <3>1, <3>2
  <2>2. ASSUME StillOn(q), NEW o \in StatusOf(q), toCore' = Put(toCore, conn, ResultOf(q, o))
        PROVE  toCore' \in Queues
    <3>1. conn \in Conn
      BY <1>3, <2>2 DEF StillOn, Reply
    <3>2. ResultOf(q, o) \in Frame
      BY <2>2, FramesAre DEF StatusOf
    <3> QED BY <2>2, <3>1, <3>2, PutTyped
  <2>3. toCore' \in Queues
    BY <1>3, <2>2 DEF Reply
  <2> QED BY <1>3, <2>1, <2>3 DEF Reply, Job
<1> QED BY <1>1, <1>2, <1>3

LEMMA WireTyped ==
  ASSUME TypeInv, NEW c \in Conn, Break(c) \/ Lose(c) \/ Result(c) \/ Disconnect(c)
  PROVE  TypeInv'
<1> USE DEF TypeInv, TypeOK, OnAConnection, JobsHaveConnection, Queues, agent, work, wires, core, futures
<1>1. CASE Break(c)
  BY <1>1 DEF Break
<1>2. CASE Lose(c)
  <2>1. <<>> \in Seq(Frame)
    OBVIOUS
  <2> QED BY <1>2, <2>1 DEF Lose
<1>3. CASE Result(c)
  <2> DEFINE f == Head(toCore[c])
  <2>1. toCore' \in Queues /\ f \in Frame
    BY <1>3, TakeFrame DEF Result, Arrives
  <2>2. f.req \in Req /\ f.status \in {"completed", "failed"}
    BY <1>3, <2>1, FrameKinds DEF Result, Arrives
  <2>3. /\ call' \in [Req -> {"idle", "waiting", "done"}]
        /\ answer' \in [Req -> {None, "completed", "failed", "device_offline"}]
    <3>1. CASE Tell(f.req, f.status)
      BY <2>2, <3>1 DEF Tell
    <3>2. CASE UNCHANGED <<call, answer>>
      BY <3>2
    <3> QED BY <1>3, <3>1, <3>2 DEF Result
  <2> QED BY <1>3, <2>1, <2>3 DEF Result
<1>4. CASE Disconnect(c)
  <2>1. toAgent' \in Queues
    BY <1>4, PutTyped, FramesAre DEF Disconnect
  <2> QED BY <1>4, <2>1 DEF Disconnect
<1> QED BY <1>1, <1>2, <1>3, <1>4

LEMMA GreetTyped ==
  ASSUME TypeInv, NEW c \in Conn, LookUp(c) \/ Admit(c) \/ SendWelcome(c) \/ Reject(c)
  PROVE  TypeInv'
<1> USE DEF TypeInv, TypeOK, OnAConnection, JobsHaveConnection, Queues, agent, work, wires, core, futures
<1>1. CASE LookUp(c)
  BY <1>1 DEF LookUp
<1>2. CASE Admit(c)
  <2>1. toCore' \in Queues
    BY <1>2, TakeFrame DEF Admit, Arrives
  <2>2. toAgent' \in Queues
    BY <1>2, PutTyped, FramesAre DEF Admit
  <2> QED BY <1>2, <2>1, <2>2 DEF Admit
<1>3. CASE Reject(c)
  <2>1. toCore' \in Queues
    BY <1>3, TakeFrame DEF Reject, Arrives
  <2>2. toAgent' \in Queues
    BY <1>3, PutTyped, FramesAre DEF Reject
  <2> QED BY <1>3, <2>1, <2>2 DEF Reject
<1>4. CASE SendWelcome(c)
  <2>1. toAgent' \in Queues
    BY <1>4, PutTyped, FramesAre DEF SendWelcome
  <2> QED BY <1>4, <2>1 DEF SendWelcome
<1> QED BY <1>1, <1>2, <1>3, <1>4

LEMMA ServeTyped ==
  ASSUME TypeInv, NEW q \in Req, DispatchOffline(q) \/ Dispatch(q) \/ Timeout(q)
  PROVE  TypeInv'
<1> USE DEF TypeInv, TypeOK, OnAConnection, JobsHaveConnection, Queues, agent, work, wires, core, futures
<1>1. CASE DispatchOffline(q)
  BY <1>1 DEF DispatchOffline, Tell
<1>2. CASE Dispatch(q)
  <2>1. toAgent' \in Queues
    BY <1>2, PutTyped, FramesAre DEF Dispatch
  <2> QED BY <1>2, <2>1 DEF Dispatch
<1>3. CASE Timeout(q)
  BY <1>3 DEF Timeout, Tell
<1> QED BY <1>1, <1>2, <1>3

LEMMA RestartTyped ==
  ASSUME TypeInv, AgentRestart \/ CoreRestart \/ CodeExpires \/ UNCHANGED vars
  PROVE  TypeInv'
<1> USE DEF TypeInv, TypeOK, OnAConnection, JobsHaveConnection, Queues, agent, work, wires, core, futures
<1>1. CASE AgentRestart
  <2>1. \A q \in Req : job[q] \in Job
    BY DEF Job
  <2>2. \A j \in Job : [j EXCEPT !.pc = "done"] \in Job /\ [j EXCEPT !.pc = "done"].pc = "done"
    BY DEF Job
  <2>3. job' \in [Req -> Job] /\ JobsHaveConnection'
    BY <1>1, <2>1, <2>2 DEF AgentRestart
  <2>4. link' \in [Conn -> {"unused", "open", "broken"}] /\ OnAConnection'
    BY <1>1 DEF AgentRestart
  <2>5. code' \in BOOLEAN /\ backoff' \in ReconnectMin..ReconnectMax /\ restarts' \in Nat
    BY <1>1 DEF AgentRestart
  <2> QED BY <1>1, <2>3, <2>4, <2>5 DEF AgentRestart, Job
<1>2. CASE CoreRestart
  <2>1. /\ link' \in [Conn -> {"unused", "open", "broken"}]
        /\ hello' \in [Conn -> {"none", "nobody", "mine", "other", "filed", "admitted", "rejected"}]
    BY <1>2 DEF CoreRestart
  <2>2. call' \in [Req -> {"idle", "waiting", "done"}]
    BY <1>2 DEF CoreRestart
  <2>3. restarts' \in Nat
    BY <1>2 DEF CoreRestart
  <2>4. codeValid' \in BOOLEAN /\ live' = None
    BY <1>2 DEF CoreRestart
  <2>5. UNCHANGED <<agent, work, toAgent, toCore, known, overlapped, answer, via>>
    BY <1>2 DEF CoreRestart
  <2> QED BY <2>1, <2>2, <2>3, <2>4, <2>5
<1>3. CASE CodeExpires
  BY <1>3 DEF CodeExpires
<1>4. CASE UNCHANGED vars
  BY <1>4 DEF vars
<1> QED BY <1>1, <1>2, <1>3, <1>4

LEMMA NextTyped == TypeInv /\ [Next]_vars => TypeInv'
BY RunTyped, WorkTyped, WireTyped, GreetTyped, ServeTyped, RestartTyped
   DEF Next, Work, Greet, Serve

LEMMA TypeInvHolds == Spec => []TypeInv
BY InitTyped, NextTyped, PTL DEF Spec

\* Every variable of both ends keeps its type, the back-off its range, and
\* every queue holds frames only.
THEOREM LinkTyped == Spec => []TypeOK
<1>1. TypeInv => TypeOK
  BY DEF TypeInv
<1> QED BY <1>1, TypeInvHolds, PTL

-----------------------------------------------------------------------------
(* What a step sends *)

\* The frames a step may add to the queue from c to the agent.
SentToAgent(c, g) ==
  \/ g = Closed
  \/ g = Welcome /\ SendWelcome(c)
  \/ g = Refused /\ Reject(c)
  \/ \E q \in Req : g = Request(q) /\ Dispatch(q) /\ c = live

SentToCore(c, g) ==
  \/ g = HelloFrame(code) /\ Dial(c)
  \/ \E q \in Req : Reply(q) /\ \E o \in StatusOf(q) : g = ResultOf(q, o)

LEMMA QueueToAgentMoves ==
  ASSUME [Next]_vars
  PROVE  \/ toAgent' = toAgent \/ ReadWelcome
         \/ \E q \in Req : Receive(q) \/ Dispatch(q)
         \/ \E c \in Conn : Lose(c) \/ Admit(c) \/ SendWelcome(c) \/ Reject(c) \/ Disconnect(c)
<1> USE DEF vars, agent, work, wires, core, futures
<1>1. CASE Run \/ DialFails
  BY <1>1 DEF Run, Dial, DialFails, Retry, GiveUp, LoseSession, EndSession
<1>2. CASE Work
  BY <1>2 DEF Work, Perform, Reply
<1>3. CASE \E c \in Conn : Break(c) \/ Lose(c) \/ Result(c) \/ Disconnect(c)
  BY <1>3 DEF Break, Result
<1>4. CASE Greet \/ CodeExpires
  BY <1>4 DEF Greet, LookUp, CodeExpires
<1>5. CASE Serve
  BY <1>5 DEF Serve, DispatchOffline, Timeout
<1>6. CASE AgentRestart \/ CoreRestart \/ UNCHANGED vars
  BY <1>6 DEF AgentRestart, CoreRestart
<1> QED BY <1>1, <1>2, <1>3, <1>4, <1>5, <1>6 DEF Next

LEMMA QueueToCoreMoves ==
  ASSUME [Next]_vars
  PROVE  \/ toCore' = toCore
         \/ \E q \in Req : Reply(q)
         \/ \E c \in Conn : Dial(c) \/ Lose(c) \/ Admit(c) \/ Reject(c) \/ Result(c)
<1> USE DEF vars, agent, work, wires, core, futures
<1>1. CASE Run \/ DialFails
  BY <1>1 DEF Run, DialFails, Retry, ReadWelcome, GiveUp, LoseSession, EndSession
<1>2. CASE Work
  BY <1>2 DEF Work, Receive, Perform
<1>3. CASE \E c \in Conn : Break(c) \/ Lose(c) \/ Result(c) \/ Disconnect(c)
  BY <1>3 DEF Break, Disconnect
<1>4. CASE Greet \/ CodeExpires
  BY <1>4 DEF Greet, LookUp, SendWelcome, CodeExpires
<1>5. CASE Serve
  BY <1>5 DEF Serve, DispatchOffline, Dispatch, Timeout
<1>6. CASE AgentRestart \/ CoreRestart \/ UNCHANGED vars
  BY <1>6 DEF AgentRestart, CoreRestart
<1> QED BY <1>1, <1>2, <1>3, <1>4, <1>5, <1>6 DEF Next

LEMMA FramesToAgent ==
  ASSUME TypeInv, [Next]_vars, NEW c \in Conn, NEW g
  PROVE  /\ In(toAgent'[c], g) => In(toAgent[c], g) \/ SentToAgent(c, g)
         /\ Once(toAgent[c], g) /\ ~SentToAgent(c, g) => Once(toAgent'[c], g)
<1>1. toAgent \in Queues /\ conn \in Conn \cup {None} /\ live \in Conn \cup {None}
  BY DEF TypeInv, TypeOK, Queues
<1>2. CASE toAgent' = toAgent
  BY <1>2
<1>3. CASE ReadWelcome \/ \E q \in Req : Receive(q)
  <2>1. conn \in Conn /\ toAgent[conn] # <<>> /\ toAgent' = Taken(toAgent, conn)
    BY <1>1, <1>3 DEF ReadWelcome, Receive, Arrives, TypeInv, OnAConnection
  <2> QED BY <1>1, <2>1, TakeFrame
<1>4. ASSUME NEW d \in Conn, Lose(d)
      PROVE  In(toAgent'[c], g) => In(toAgent[c], g) /\ (Once(toAgent[c], g) => Once(toAgent'[c], g))
  <2>1. toAgent'[c] = <<>> \/ toAgent'[c] = toAgent[c]
    BY <1>1, <1>4 DEF Lose, Queues
  <2> QED BY <2>1 DEF In
<1>5. ASSUME NEW d \in Conn, Lose(d)
      PROVE  Once(toAgent[c], g) => Once(toAgent'[c], g)
  <2>1. toAgent'[c] = <<>> \/ toAgent'[c] = toAgent[c]
    BY <1>1, <1>5 DEF Lose, Queues
  <2> QED BY <2>1 DEF Once
<1>6. ASSUME NEW d \in Conn, Admit(d)
      PROVE  /\ In(toAgent'[c], g) => In(toAgent[c], g) \/ SentToAgent(c, g)
             /\ Once(toAgent[c], g) /\ ~SentToAgent(c, g) => Once(toAgent'[c], g)
  <2>1. CASE live = None
    BY <1>2, <1>6, <2>1 DEF Admit
  <2>2. CASE live # None
    <3>1. live \in Conn /\ toAgent' = Put(toAgent, live, Closed)
      BY <1>1, <1>6, <2>2 DEF Admit
    <3>2. /\ In(toAgent'[c], g) => In(toAgent[c], g) \/ g = Closed
          /\ Once(toAgent[c], g) /\ g # Closed => Once(toAgent'[c], g)
      BY <1>1, <3>1, PutKeeps, FramesAre
    <3> QED BY <3>2 DEF SentToAgent
  <2> QED BY <2>1, <2>2
<1>7. ASSUME NEW d \in Conn, Reject(d)
      PROVE  /\ In(toAgent'[c], g) => In(toAgent[c], g) \/ SentToAgent(c, g)
             /\ Once(toAgent[c], g) /\ ~SentToAgent(c, g) => Once(toAgent'[c], g)
  <2>1. toAgent' = Put(toAgent, d, Refused)
    BY <1>7 DEF Reject
  <2>2. /\ In(toAgent'[c], g) => In(toAgent[c], g) \/ (c = d /\ g = Refused)
        /\ Once(toAgent[c], g) /\ ~(c = d /\ g = Refused) => Once(toAgent'[c], g)
    BY <1>1, <2>1, PutKeeps, FramesAre
  <2> QED BY <1>7, <2>2 DEF SentToAgent
<1>8. ASSUME NEW d \in Conn, Disconnect(d)
      PROVE  /\ In(toAgent'[c], g) => In(toAgent[c], g) \/ SentToAgent(c, g)
             /\ Once(toAgent[c], g) /\ ~SentToAgent(c, g) => Once(toAgent'[c], g)
  <2>1. toAgent' = Put(toAgent, d, Closed)
    BY <1>8 DEF Disconnect
  <2>2. /\ In(toAgent'[c], g) => In(toAgent[c], g) \/ g = Closed
        /\ Once(toAgent[c], g) /\ g # Closed => Once(toAgent'[c], g)
    BY <1>1, <2>1, PutKeeps, FramesAre
  <2> QED BY <2>2 DEF SentToAgent
<1>9. ASSUME NEW q \in Req, Dispatch(q)
      PROVE  /\ In(toAgent'[c], g) => In(toAgent[c], g) \/ SentToAgent(c, g)
             /\ Once(toAgent[c], g) /\ ~SentToAgent(c, g) => Once(toAgent'[c], g)
  <2>1. live \in Conn /\ toAgent' = Put(toAgent, live, Request(q))
    BY <1>1, <1>9 DEF Dispatch
  <2>2. /\ In(toAgent'[c], g) => In(toAgent[c], g) \/ (c = live /\ g = Request(q))
        /\ Once(toAgent[c], g) /\ ~(c = live /\ g = Request(q)) => Once(toAgent'[c], g)
    BY <1>1, <2>1, PutKeeps, FramesAre
  <2> QED BY <1>9, <2>2 DEF SentToAgent
<1>10. ASSUME NEW d \in Conn, SendWelcome(d)
       PROVE  /\ In(toAgent'[c], g) => In(toAgent[c], g) \/ SentToAgent(c, g)
              /\ Once(toAgent[c], g) /\ ~SentToAgent(c, g) => Once(toAgent'[c], g)
  <2>1. CASE d # live
    BY <1>2, <1>10, <2>1 DEF SendWelcome
  <2>2. CASE d = live
    <3>1. toAgent' = Put(toAgent, d, Welcome)
      BY <1>10, <2>2 DEF SendWelcome
    <3>2. /\ In(toAgent'[c], g) => In(toAgent[c], g) \/ (c = d /\ g = Welcome)
          /\ Once(toAgent[c], g) /\ ~(c = d /\ g = Welcome) => Once(toAgent'[c], g)
      BY <1>1, <3>1, PutKeeps, FramesAre
    <3> QED BY <1>10, <3>2 DEF SentToAgent
  <2> QED BY <2>1, <2>2
<1> QED BY <1>2, <1>3, <1>4, <1>5, <1>6, <1>7, <1>8, <1>9, <1>10, QueueToAgentMoves

LEMMA FramesToCore ==
  ASSUME TypeInv, [Next]_vars, NEW c \in Conn, NEW g
  PROVE  In(toCore'[c], g) => In(toCore[c], g) \/ SentToCore(c, g)
<1>1. toCore \in Queues /\ code \in BOOLEAN
  BY DEF TypeInv, TypeOK, Queues
<1>2. CASE toCore' = toCore
  BY <1>2
<1>3. ASSUME NEW d \in Conn, Admit(d) \/ Reject(d) \/ Result(d)
      PROVE  In(toCore'[c], g) => In(toCore[c], g)
  <2>1. toCore[d] # <<>> /\ toCore' = Taken(toCore, d)
    BY <1>3 DEF Admit, Reject, Result, Arrives
  <2> QED BY <1>1, <2>1, TakeFrame
<1>4. ASSUME NEW d \in Conn, Lose(d)
      PROVE  In(toCore'[c], g) => In(toCore[c], g)
  <2>1. toCore'[c] = <<>> \/ toCore'[c] = toCore[c]
    BY <1>1, <1>4 DEF Lose, Queues
  <2> QED BY <2>1 DEF In
<1>5. ASSUME NEW d \in Conn, Dial(d)
      PROVE  In(toCore'[c], g) => In(toCore[c], g) \/ SentToCore(c, g)
  <2>1. toCore' = Put(toCore, d, HelloFrame(code))
    BY <1>5 DEF Dial
  <2>2. In(toCore'[c], g) => In(toCore[c], g) \/ (c = d /\ g = HelloFrame(code))
    BY <1>1, <2>1, PutKeeps, FramesAre
  <2> QED BY <1>5, <2>2 DEF SentToCore
<1>6. ASSUME NEW q \in Req, Reply(q)
      PROVE  In(toCore'[c], g) => In(toCore[c], g) \/ SentToCore(c, g)
  <2>1. ASSUME StillOn(q), NEW o \in StatusOf(q), toCore' = Put(toCore, conn, ResultOf(q, o))
        PROVE  In(toCore'[c], g) => In(toCore[c], g) \/ SentToCore(c, g)
    <3>1. conn \in Conn /\ o \in {"completed", "failed"}
      BY <1>6, <2>1 DEF StillOn, StatusOf, Reply, TypeInv, JobsHaveConnection
    <3>2. In(toCore'[c], g) => In(toCore[c], g) \/ g = ResultOf(q, o)
      BY <1>1, <2>1, <3>1, PutKeeps, FramesAre
    <3> QED BY <1>6, <2>1, <3>2 DEF SentToCore
  <2> QED BY <1>2, <1>6, <2>1 DEF Reply
<1> QED BY <1>2, <1>3, <1>4, <1>5, <1>6, QueueToCoreMoves

-----------------------------------------------------------------------------
(* What a dispatch may rely on *)

\* A request is on its way once, by the connection it was sent by, and not at
\* the agent yet.
OnItsWayOnce ==
  \A c \in Conn, q \in Req : In(toAgent[c], Request(q)) =>
    via[q] = c /\ job[q].pc = "none" /\ Once(toAgent[c], Request(q))

JobsWereAsked == \A q \in Req : job[q].pc # "none" => via[q] # None

ActsByTheJob ==
  \A q \in Req :
    /\ job[q].pc \in {"none", "running"} => acts[q] = 0
    /\ job[q].pc = "performed" => acts[q] = 1
    /\ acts[q] \in {0, 1}

ResultsAreTrue ==
  \A c \in Conn, q \in Req : In(toCore[c], ResultOf(q, "completed")) => acts[q] = 1

DispatchesWait ==
  \A q \in Req : /\ call[q] = "idle" => via[q] = None /\ answer[q] = None
                 /\ call[q] = "waiting" => via[q] # None /\ answer[q] = None

PromiseInv == OnItsWayOnce /\ JobsWereAsked /\ ActsByTheJob /\ ResultsAreTrue /\ DispatchesWait

\* The steps that touch a job, and those that touch a dispatch.
LEMMA JobsMove ==
  ASSUME [Next]_vars
  PROVE  job' = job \/ AgentRestart \/ \E q \in Req : Receive(q) \/ Perform(q) \/ Reply(q)
<1> USE DEF vars, agent, work, wires, core, futures
<1>1. CASE Run \/ DialFails
  BY <1>1 DEF Run, Dial, DialFails, Retry, ReadWelcome, GiveUp, LoseSession, EndSession
<1>2. CASE \E c \in Conn : Break(c) \/ Lose(c) \/ Result(c) \/ Disconnect(c)
  BY <1>2 DEF Break, Lose, Result, Disconnect
<1>3. CASE Greet \/ CodeExpires
  BY <1>3 DEF Greet, LookUp, Admit, SendWelcome, Reject, CodeExpires
<1>4. CASE Serve
  BY <1>4 DEF Serve, DispatchOffline, Dispatch, Timeout
<1>5. CASE CoreRestart \/ UNCHANGED vars
  BY <1>5 DEF CoreRestart
<1> QED BY <1>1, <1>2, <1>3, <1>4, <1>5 DEF Next, Work

LEMMA FuturesMove ==
  ASSUME [Next]_vars
  PROVE  \/ UNCHANGED <<call, answer, via, acts>>
         \/ CoreRestart
         \/ \E q \in Req : Perform(q) \/ DispatchOffline(q) \/ Dispatch(q) \/ Timeout(q)
         \/ \E c \in Conn : Result(c) \/ Disconnect(c)
<1> USE DEF vars, agent, work, wires, core, futures
<1>1. CASE Run \/ DialFails
  BY <1>1 DEF Run, Dial, DialFails, Retry, ReadWelcome, GiveUp, LoseSession, EndSession
<1>2. CASE Work
  BY <1>2 DEF Work, Receive, Reply
<1>3. CASE \E c \in Conn : Break(c) \/ Lose(c) \/ Result(c) \/ Disconnect(c)
  BY <1>3 DEF Break, Lose
<1>4. CASE Greet \/ CodeExpires
  BY <1>4 DEF Greet, LookUp, Admit, SendWelcome, Reject, CodeExpires
<1>5. CASE AgentRestart \/ UNCHANGED vars
  BY <1>5 DEF AgentRestart
<1> QED BY <1>1, <1>2, <1>3, <1>4, <1>5 DEF Next, Serve

LEMMA JobSteps ==
  ASSUME TypeInv, [Next]_vars, NEW q \in Req
  PROVE  \/ job'[q] = job[q]
         \/ Receive(q) /\ job'[q].pc = "running"
         \/ Perform(q) /\ job[q].pc = "running" /\ job'[q].pc = "performed"
         \/ job[q].pc # "none" /\ job'[q].pc = "done"
<1>1. TypeOK /\ job \in [Req -> Job]
  BY DEF TypeInv, TypeOK, Job
<1>2. ASSUME NEW r \in Req, Receive(r)
      PROVE  job'[q] = job[q] \/ (Receive(q) /\ job'[q].pc = "running")
  <2>1. conn \in Conn
    BY <1>2 DEF Receive, TypeInv, TypeOK, OnAConnection
  <2>2. CASE job' = [job EXCEPT ![r] = [pc |-> "running", on |-> conn]]
    BY <1>1, <1>2, <2>1, <2>2, Started
  <2> QED BY <1>2, <2>2 DEF Receive
<1>3. ASSUME NEW r \in Req, Perform(r)
      PROVE  job'[q] = job[q] \/ (Perform(q) /\ job[q].pc = "running" /\ job'[q].pc = "performed")
  <2>1. job[r].pc = "running" /\ job' = [job EXCEPT ![r].pc = "performed"]
    BY <1>3 DEF Perform
  <2>2. r # q => job'[q] = job[q]
    BY <1>1, <2>1
  <2>3. r = q => job'[q].pc = "performed"
    BY <1>1, <2>1, Advanced
  <2> QED BY <1>3, <2>1, <2>2, <2>3
<1>4. ASSUME NEW r \in Req, Reply(r)
      PROVE  job'[q] = job[q] \/ (job[q].pc # "none" /\ job'[q].pc = "done")
  <2>1. job[r].pc \in {"running", "performed"} /\ job' = [job EXCEPT ![r].pc = "done"]
    BY <1>4 DEF Reply
  <2>2. r # q => job'[q] = job[q]
    BY <1>1, <2>1
  <2>3. r = q => job'[q].pc = "done"
    BY <1>1, <2>1, Advanced
  <2> QED BY <2>1, <2>2, <2>3
<1>5. CASE AgentRestart
  <2>1. job'[q] = IF job[q].pc = "none" THEN job[q] ELSE [job[q] EXCEPT !.pc = "done"]
    BY <1>5 DEF AgentRestart
  <2>2. \A j \in Job : [j EXCEPT !.pc = "done"].pc = "done"
    BY DEF Job
  <2>3. job[q] \in Job
    BY <1>1
  <2> QED BY <2>1, <2>2, <2>3
<1> QED BY <1>2, <1>3, <1>4, <1>5, JobsMove

\* A dispatch waits and is told; a request is sent by its dispatch and carried
\* out by its job.
LEMMA DispatchSteps ==
  ASSUME TypeInv, [Next]_vars, NEW q \in Req
  PROVE  \/ /\ Dispatch(q) /\ live \in Conn
            /\ call'[q] = "waiting" /\ via'[q] = live /\ answer'[q] = answer[q] /\ acts' = acts
         \/ /\ via'[q] = via[q] /\ Perform(q) /\ acts'[q] = acts[q] + 1
            /\ call'[q] = call[q] /\ answer'[q] = answer[q]
         \/ /\ via'[q] = via[q] /\ acts'[q] = acts[q]
            /\ call'[q] = "done" \/ (call'[q] = call[q] /\ answer'[q] = answer[q])
<1> USE DEF vars, agent, work, wires, core, futures
<1>1. /\ call \in [Req -> {"idle", "waiting", "done"}] /\ via \in [Req -> Conn \cup {None}]
      /\ acts \in [Req -> Nat] /\ live \in Conn \cup {None}
      /\ answer \in [Req -> {None, "completed", "failed", "device_offline"}]
  BY DEF TypeInv, TypeOK
<1>2. ASSUME NEW r \in Req, Perform(r)
      PROVE  /\ via'[q] = via[q] /\ call'[q] = call[q] /\ answer'[q] = answer[q]
             /\ IF r = q THEN acts'[q] = acts[q] + 1 ELSE acts'[q] = acts[q]
  BY <1>1, <1>2 DEF Perform
<1>3. ASSUME NEW r \in Req, DispatchOffline(r) \/ Timeout(r)
      PROVE  /\ via'[q] = via[q] /\ acts'[q] = acts[q]
             /\ call'[q] = "done" \/ (call'[q] = call[q] /\ answer'[q] = answer[q])
  BY <1>1, <1>3 DEF DispatchOffline, Timeout, Tell
<1>4. ASSUME NEW r \in Req, Dispatch(r)
      PROVE  /\ live \in Conn /\ acts' = acts /\ answer'[q] = answer[q]
             /\ r = q => call'[q] = "waiting" /\ via'[q] = live
             /\ r # q => call'[q] = call[q] /\ via'[q] = via[q]
  BY <1>1, <1>4 DEF Dispatch
<1>5. ASSUME NEW c \in Conn, Result(c)
      PROVE  /\ via'[q] = via[q] /\ acts'[q] = acts[q]
             /\ call'[q] = "done" \/ (call'[q] = call[q] /\ answer'[q] = answer[q])
  <2>1. UNCHANGED <<via, acts>>
    BY <1>5 DEF Result
  <2>2. UNCHANGED <<call, answer>> \/ Tell(Head(toCore[c]).req, Head(toCore[c]).status)
    BY <1>5 DEF Result
  <2> QED BY <1>1, <2>1, <2>2 DEF Tell
<1>6. ASSUME NEW c \in Conn, Disconnect(c)
      PROVE  /\ via'[q] = via[q] /\ acts'[q] = acts[q]
             /\ call'[q] = "done" \/ (call'[q] = call[q] /\ answer'[q] = answer[q])
  BY <1>1, <1>6 DEF Disconnect
<1>7. CASE CoreRestart
  BY <1>1, <1>7 DEF CoreRestart
<1>8. CASE UNCHANGED <<call, answer, via, acts>>
  BY <1>8
<1> QED BY <1>2, <1>3, <1>4, <1>5, <1>6, <1>7, <1>8, FuturesMove

\* A request that is read is the one that was sent, and no other copy is left.
LEMMA ReceivedIsNew ==
  ASSUME TypeInv, PromiseInv, NEW q \in Req, Receive(q)
  PROVE  /\ conn \in Conn /\ via[q] = conn /\ job[q].pc = "none"
         /\ \A c \in Conn : ~In(toAgent'[c], Request(q))
<1>1. conn \in Conn /\ toAgent \in Queues
  BY DEF Receive, TypeInv, TypeOK, OnAConnection, Queues
<1>2. toAgent[conn] # <<>> /\ toAgent' = Taken(toAgent, conn)
  BY DEF Receive, Arrives
<1>3. Head(toAgent[conn]) = Request(q) /\ In(toAgent[conn], Request(q))
  <2>1. Head(toAgent[conn]) \in Frame /\ In(toAgent[conn], Head(toAgent[conn]))
    BY <1>1, <1>2, TakeFrame
  <2>2. Head(toAgent[conn]).type = "request" /\ Head(toAgent[conn]).req = q
    BY DEF Receive, Arrives
  <2> QED BY <2>1, <2>2, FrameKinds
<1>4. via[q] = conn /\ job[q].pc = "none" /\ Once(toAgent[conn], Request(q))
  BY <1>1, <1>3 DEF PromiseInv, OnItsWayOnce
<1>5. ASSUME NEW c \in Conn, In(toAgent'[c], Request(q)) PROVE FALSE
  <2>1. In(toAgent[c], Request(q))
    BY <1>1, <1>2, <1>5, TakeFrame
  <2>2. c = conn
    BY <1>4, <2>1 DEF PromiseInv, OnItsWayOnce
  <2> QED BY <1>1, <1>2, <1>3, <1>4, <1>5, <2>2, TakeFrame
<1> QED BY <1>1, <1>4, <1>5

LEMMA PromiseInit == Init => PromiseInv
<1> SUFFICES ASSUME Init PROVE PromiseInv
  OBVIOUS
<1>1. \A c \in Conn : \A f : ~In(toAgent[c], f) /\ ~In(toCore[c], f)
  BY DEF Init, In
<1>2. OnItsWayOnce /\ ResultsAreTrue
  BY <1>1 DEF OnItsWayOnce, ResultsAreTrue
<1>3. JobsWereAsked /\ ActsByTheJob /\ DispatchesWait
  BY DEF Init, JobsWereAsked, ActsByTheJob, DispatchesWait
<1> QED BY <1>2, <1>3 DEF PromiseInv

LEMMA PromiseNext ==
  ASSUME TypeInv, PromiseInv, [Next]_vars
  PROVE  PromiseInv'
<1> USE DEF PromiseInv
<1>1. OnItsWayOnce'
  <2> SUFFICES ASSUME NEW c \in Conn, NEW q \in Req, In(toAgent'[c], Request(q))
               PROVE  via'[q] = c /\ job'[q].pc = "none" /\ Once(toAgent'[c], Request(q))
    BY DEF OnItsWayOnce
  <2>1. CASE Dispatch(q) /\ c = live
    <3>1. via[q] = None /\ job[q].pc = "none"
      BY <2>1 DEF Dispatch, DispatchesWait, JobsWereAsked
    <3>2. ~In(toAgent[c], Request(q))
      BY <3>1 DEF OnItsWayOnce
    <3>3. Once(toAgent'[c], Request(q))
      <4>1. toAgent' = Put(toAgent, c, Request(q)) /\ toAgent \in Queues
        BY <2>1 DEF Dispatch, TypeInv, TypeOK, Queues
      <4>2. Once(toAgent[c], Request(q))
        BY <3>2 DEF In, Once
      <4> QED BY <3>2, <4>1, <4>2, PutKeeps, FramesAre
    <3>4. via'[q] = c /\ job' = job
      BY <2>1 DEF Dispatch, TypeInv, TypeOK, agent, work
    <3> QED BY <3>1, <3>3, <3>4
  <2>2. CASE ~(Dispatch(q) /\ c = live)
    <3>1. ~SentToAgent(c, Request(q))
      BY <2>2, FramesDiffer DEF SentToAgent
    <3>2. In(toAgent[c], Request(q)) /\ Once(toAgent'[c], Request(q))
      BY <3>1, FramesToAgent DEF OnItsWayOnce
    <3>3. via[q] = c /\ job[q].pc = "none"
      BY <3>2 DEF OnItsWayOnce
    <3>4. ~Dispatch(q) /\ ~Receive(q) /\ ~Perform(q)
      BY <3>3, ReceivedIsNew DEF Dispatch, DispatchesWait, Perform
    <3> QED BY <3>2, <3>3, <3>4, JobSteps, DispatchSteps
  <2> QED BY <2>1, <2>2
<1>2. JobsWereAsked'
  <2> SUFFICES ASSUME NEW q \in Req, job'[q].pc # "none" PROVE via'[q] # None
    BY DEF JobsWereAsked
  <2>1. job[q].pc # "none" \/ Receive(q)
    BY JobSteps
  <2>2. via[q] # None
    BY <2>1, ReceivedIsNew DEF JobsWereAsked
  <2> QED BY <2>2, DispatchSteps
<1>3. ActsByTheJob'
  <2> SUFFICES ASSUME NEW q \in Req
               PROVE  /\ job'[q].pc \in {"none", "running"} => acts'[q] = 0
                      /\ job'[q].pc = "performed" => acts'[q] = 1
                      /\ acts'[q] \in {0, 1}
    BY DEF ActsByTheJob
  <2>1. CASE Perform(q)
    <3>1. job[q].pc = "running" /\ acts[q] = 0
      BY <2>1 DEF Perform, ActsByTheJob
    <3>2. job'[q].pc = "performed" /\ acts'[q] = 1
      <4>1. job' = [job EXCEPT ![q].pc = "performed"] /\ TypeOK
        BY <2>1 DEF Perform, TypeInv
      <4>2. acts' = [acts EXCEPT ![q] = @ + 1] /\ acts \in [Req -> Nat]
        BY <2>1 DEF Perform, TypeInv, TypeOK
      <4>3. job'[q].pc = "performed"
        BY <4>1, Advanced, ZenonT(60)
      <4> QED BY <3>1, <4>2, <4>3
    <3> QED BY <3>2
  <2>2. CASE ~Perform(q)
    <3>1. acts'[q] = acts[q]
      BY <2>2, DispatchSteps
    <3>2. Receive(q) => job[q].pc = "none"
      BY ReceivedIsNew
    <3> QED BY <2>2, <3>1, <3>2, JobSteps DEF ActsByTheJob
  <2> QED BY <2>1, <2>2
<1>4. ResultsAreTrue'
  <2> SUFFICES ASSUME NEW c \in Conn, NEW q \in Req, In(toCore'[c], ResultOf(q, "completed"))
               PROVE  acts'[q] = 1
    BY DEF ResultsAreTrue
  <2>1. acts[q] = 1
    <3>1. CASE In(toCore[c], ResultOf(q, "completed"))
      BY <3>1 DEF ResultsAreTrue
    <3>2. CASE SentToCore(c, ResultOf(q, "completed"))
      <4>1. Reply(q) /\ "completed" \in StatusOf(q)
        BY <3>2, FramesDiffer DEF SentToCore
      <4>2. job[q].pc = "performed"
        BY <4>1 DEF StatusOf
      <4> QED BY <4>2 DEF ActsByTheJob
    <3> QED BY <3>1, <3>2, FramesToCore
  <2>2. ~Perform(q)
    BY <2>1 DEF Perform, ActsByTheJob
  <2> QED BY <2>1, <2>2, DispatchSteps
<1>5. DispatchesWait'
  <2> SUFFICES ASSUME NEW q \in Req
               PROVE  /\ call'[q] = "idle" => via'[q] = None /\ answer'[q] = None
                      /\ call'[q] = "waiting" => via'[q] # None /\ answer'[q] = None
    BY DEF DispatchesWait
  <2>1. Dispatch(q) => call[q] = "idle"
    BY DEF Dispatch
  <2> QED BY <2>1, DispatchSteps DEF DispatchesWait
<1> QED BY <1>1, <1>2, <1>3, <1>4, <1>5

LEMMA PromiseInvHolds == Spec => []PromiseInv
<1>1. TypeInv /\ PromiseInv /\ [Next]_vars => PromiseInv'
  BY PromiseNext
<1> QED BY <1>1, PromiseInit, TypeInvHolds, PTL DEF Spec

-----------------------------------------------------------------------------
(* The link implements the promise *)

PromiseStep == [Promise!CallNext]_(Promise!callVars)

\* What the abstract variables are made of.
SamePromise == UNCHANGED <<via, acts, answer>>

LEMMA Unseen == SamePromise => PromiseStep
BY DEF SamePromise, PromiseStep, Promise!callVars

LEMMA PromiseOfStep ==
  ASSUME TypeInv, PromiseInv, [Next]_vars
  PROVE  PromiseStep
<1> USE DEF agent, work, wires, core, futures
<1>1. /\ via \in [Req -> Conn \cup {None}] /\ acts \in [Req -> Nat] /\ toCore \in Queues
      /\ call \in [Req -> {"idle", "waiting", "done"}]
      /\ answer \in [Req -> {None, "completed", "failed", "device_offline"}]
  BY DEF TypeInv, TypeOK, Queues
<1>2. ASSUME NEW q \in Req, Perform(q) PROVE PromiseStep
  <2>1. acts[q] = 0 /\ via[q] # None
    BY <1>2 DEF Perform, PromiseInv, ActsByTheJob, JobsWereAsked
  <2>2. acts' = [acts EXCEPT ![q] = 1] /\ UNCHANGED <<via, answer>>
    BY <1>1, <1>2, <2>1 DEF Perform
  <2>3. Promise!Act(q)
    BY <2>1, <2>2 DEF Promise!Act
  <2> QED BY <2>3 DEF PromiseStep, Promise!CallNext
<1>3. ASSUME NEW q \in Req, DispatchOffline(q) PROVE PromiseStep
  <2>1. via[q] = None /\ answer[q] = None
    BY <1>3 DEF DispatchOffline, PromiseInv, DispatchesWait
  <2>2. answer' = [answer EXCEPT ![q] = "device_offline"] /\ UNCHANGED <<via, acts>>
    BY <1>3 DEF DispatchOffline, Tell
  <2>3. Promise!Refuse(q)
    BY <2>1, <2>2 DEF Promise!Refuse
  <2> QED BY <2>3 DEF PromiseStep, Promise!CallNext
<1>4. ASSUME NEW q \in Req, Dispatch(q) PROVE PromiseStep
  <2>1. via[q] = None /\ answer[q] = None /\ live # None
    BY <1>4 DEF Dispatch, PromiseInv, DispatchesWait
  <2>2. via' = [via EXCEPT ![q] = live] /\ UNCHANGED <<answer, acts>>
    BY <1>4 DEF Dispatch
  <2>3. {r \in Req : via'[r] # None} = {r \in Req : via[r] # None} \cup {q}
    BY <1>1, <2>1, <2>2
  <2>4. Promise!Ask(q)
    BY <2>1, <2>2, <2>3 DEF Promise!Ask
  <2> QED BY <2>4 DEF PromiseStep, Promise!CallNext
<1>5. ASSUME NEW q \in Req, NEW o \in {"completed", "failed", "device_offline"},
             call[q] = "waiting", answer' = [answer EXCEPT ![q] = o], UNCHANGED <<via, acts>>,
             o = "completed" => acts[q] = 1
      PROVE  PromiseStep
  <2>1. via[q] # None /\ answer[q] = None
    BY <1>5 DEF PromiseInv, DispatchesWait
  <2>2. answer' = [r \in Req |-> IF r \in {q} THEN o ELSE answer[r]]
    BY <1>1, <1>5
  <2>3. Promise!Tell({q}, o)
    BY <1>5, <2>1, <2>2 DEF Promise!Tell
  <2>4. {q} \in SUBSET Req
    OBVIOUS
  <2> QED BY <1>5, <2>3, <2>4 DEF PromiseStep, Promise!CallNext
<1>6. ASSUME NEW q \in Req, Timeout(q) PROVE PromiseStep
  BY <1>5, <1>6 DEF Timeout, Tell
<1>7. ASSUME NEW c \in Conn, Result(c) PROVE PromiseStep
  <2> DEFINE f == Head(toCore[c])
  <2>1. f \in Frame /\ In(toCore[c], f) /\ f.type = "result"
    BY <1>1, <1>7, TakeFrame DEF Result, Arrives
  <2>2. f.req \in Req /\ f.status \in {"completed", "failed"} /\ f = ResultOf(f.req, f.status)
    BY <2>1, FrameKinds
  <2>3. f.status = "completed" => acts[f.req] = 1
    BY <2>1, <2>2 DEF PromiseInv, ResultsAreTrue
  <2>4. UNCHANGED <<via, acts>>
    BY <1>7 DEF Result
  <2>5. \/ UNCHANGED answer
        \/ call[f.req] = "waiting" /\ answer' = [answer EXCEPT ![f.req] = f.status]
    BY <1>7 DEF Result, Tell
  <2> HIDE DEF f
  <2>6. CASE UNCHANGED answer
    BY <2>4, <2>6, Unseen DEF SamePromise
  <2> QED BY <1>5, <2>2, <2>3, <2>4, <2>5, <2>6
<1>8. ASSUME NEW c \in Conn, Disconnect(c) PROVE PromiseStep
  <2> DEFINE Q == {q \in Req : call[q] = "waiting" /\ via[q] = c}
  <2>1. UNCHANGED <<via, acts>> /\ answer' = [q \in Req |-> IF q \in Q THEN "device_offline" ELSE answer[q]]
    BY <1>8 DEF Disconnect
  <2>2. \A q \in Q : q \in Req /\ via[q] # None /\ answer[q] = None
    BY DEF PromiseInv, DispatchesWait
  <2>3. CASE Q = {}
    <3>1. answer' = answer
      BY <1>1, <2>1, <2>3
    <3> QED BY <2>1, <3>1, Unseen DEF SamePromise
  <2>4. CASE Q # {}
    <3>1. Q \in SUBSET Req
      OBVIOUS
    <3> HIDE DEF Q
    <3>2. Promise!Tell(Q, "device_offline")
      BY <2>1, <2>2, <2>4 DEF Promise!Tell
    <3> QED BY <3>1, <3>2 DEF PromiseStep, Promise!CallNext
  <2> QED BY <2>3, <2>4
<1>9. CASE CoreRestart \/ UNCHANGED <<call, answer, via, acts>>
  BY <1>9, Unseen DEF CoreRestart, SamePromise
<1> QED BY <1>2, <1>3, <1>4, <1>6, <1>7, <1>8, <1>9, FuturesMove

\* Across broken links, lost frames and restarts of either end a request is
\* carried out at most once and only if it was sent, and "completed" is told of
\* nothing else.
THEOREM KeepsRemoteCall == Spec => ImplementsRemoteCall
<1>1. Init => Promise!CallInit
  BY DEF Init, Promise!CallInit
<1>2. TypeInv /\ PromiseInv /\ [Next]_vars => [Promise!CallNext]_(Promise!callVars)
  BY PromiseOfStep DEF PromiseStep
<1> QED BY <1>1, <1>2, TypeInvHolds, PromiseInvHolds, PTL DEF Spec, ImplementsRemoteCall, Promise!CallSpec

-----------------------------------------------------------------------------
(* Why the agent gives up *)

Undecided == {"nobody", "mine", "other"}

\* What a hello found stays true, but for a registration that overlapped it.
FoundStays ==
  \A c \in Conn : /\ hello[c] \in {"mine", "other"} => known = hello[c]
                  /\ hello[c] = "nobody" => known = "nobody" \/ (known = "mine" /\ overlapped)

OverlapIsNoticed ==
  \A c, d \in Conn : hello[c] \in Undecided /\ hello[d] \in Undecided => c = d \/ overlapped

\* A session is filed for a key that is registered.
FiledIsKnown == \A c \in Conn : hello[c] = "filed" => known = "mine"

\* Until its key is registered the agent keeps its code and sends it along.
CodeIsKept ==
  known # "mine" =>
    /\ code = TRUE
    /\ \A c \in Conn : ~In(toCore[c], HelloFrame(FALSE)) /\ ~In(toAgent[c], Welcome)

Pointless == (known = "nobody" => ~codeValid) /\ (known = "mine" => overlapped)

RefusedForAReason ==
  phase = "stopped" \/ (\E c \in Conn : In(toAgent[c], Refused)) => Pointless

ReasonInv == FoundStays /\ OverlapIsNoticed /\ FiledIsKnown /\ CodeIsKept /\ RefusedForAReason

\* The steps that touch what the core knows, and those that touch the agent.
LEMMA CoreMoves ==
  ASSUME [Next]_vars
  PROVE  \/ UNCHANGED <<hello, known, codeValid, overlapped>>
         \/ CodeExpires \/ CoreRestart
         \/ \E c \in Conn : LookUp(c) \/ Admit(c) \/ SendWelcome(c) \/ Reject(c)
<1> USE DEF vars, agent, work, wires, core, futures
<1>1. CASE Run \/ DialFails
  BY <1>1 DEF Run, Dial, DialFails, Retry, ReadWelcome, GiveUp, LoseSession, EndSession
<1>2. CASE Work
  BY <1>2 DEF Work, Receive, Perform, Reply
<1>3. CASE \E c \in Conn : Break(c) \/ Lose(c) \/ Result(c) \/ Disconnect(c)
  BY <1>3 DEF Break, Lose, Result, Disconnect
<1>4. CASE Serve
  BY <1>4 DEF Serve, DispatchOffline, Dispatch, Timeout
<1>5. CASE AgentRestart \/ UNCHANGED vars
  BY <1>5 DEF AgentRestart
<1> QED BY <1>1, <1>2, <1>3, <1>4, <1>5 DEF Next, Greet

\* The agent keeps its code but for a welcome, and stops but for a refusal.
LEMMA AgentSteps ==
  ASSUME [Next]_vars
  PROVE  /\ code' = code \/ code' = TRUE \/ ReadWelcome
         /\ phase' = "stopped" => phase = "stopped" \/ GiveUp
<1> USE DEF vars, agent, work, wires, core, futures
<1>1. CASE Run \/ DialFails
  BY <1>1 DEF Run, Dial, KeepsCode, DialFails, Retry, ReadWelcome, GiveUp, LoseSession, EndSession
<1>2. CASE Work
  BY <1>2 DEF Work, Receive, Perform, Reply
<1>3. CASE \E c \in Conn : Break(c) \/ Lose(c) \/ Result(c) \/ Disconnect(c)
  BY <1>3 DEF Break, Lose, Result, Disconnect
<1>4. CASE Greet \/ CodeExpires
  BY <1>4 DEF Greet, LookUp, Admit, SendWelcome, Reject, CodeExpires
<1>5. CASE Serve
  BY <1>5 DEF Serve, DispatchOffline, Dispatch, Timeout
<1>6. CASE AgentRestart \/ CoreRestart \/ UNCHANGED vars
  BY <1>6 DEF AgentRestart, CoreRestart
<1> QED BY <1>1, <1>2, <1>3, <1>4, <1>5, <1>6 DEF Next

\* What the core knows of the key and of each hello, step by step.
LEMMA HelloSteps ==
  ASSUME TypeInv, [Next]_vars, NEW c \in Conn
  PROVE  \/ hello'[c] = hello[c]
         \/ hello'[c] \notin Undecided /\ (hello'[c] = "filed" => Admit(c))
         \/ LookUp(c) /\ hello[c] = "none" /\ hello'[c] = known
<1> USE DEF Undecided
<1>1. hello \in [Conn -> {"none", "nobody", "mine", "other", "filed", "admitted", "rejected"}]
  BY DEF TypeInv, TypeOK
<1>2. ASSUME NEW d \in Conn, LookUp(d)
      PROVE  hello'[c] = hello[c] \/ (LookUp(c) /\ hello[c] = "none" /\ hello'[c] = known)
  <2>1. hello[d] = "none" /\ hello' = [hello EXCEPT ![d] = known]
    BY <1>2 DEF LookUp
  <2> QED BY <1>1, <1>2, <2>1
<1>3. ASSUME NEW d \in Conn, Admit(d) \/ SendWelcome(d) \/ Reject(d)
      PROVE  hello'[c] = hello[c] \/ (hello'[c] \notin Undecided /\ (hello'[c] = "filed" => Admit(c)))
  <2>1. CASE Admit(d)
    <3>1. hello' = [hello EXCEPT ![d] = "filed"]
      BY <2>1 DEF Admit
    <3> QED BY <1>1, <2>1, <3>1
  <2>2. CASE SendWelcome(d)
    BY <1>1, <2>2 DEF SendWelcome
  <2>3. CASE Reject(d)
    BY <1>1, <2>3 DEF Reject
  <2> QED BY <1>3, <2>1, <2>2, <2>3
<1>4. CASE CodeExpires \/ CoreRestart
  BY <1>1, <1>4 DEF CodeExpires, CoreRestart
<1> QED BY <1>2, <1>3, <1>4, CoreMoves

LEMMA KnownSteps ==
  ASSUME [Next]_vars
  PROVE  \/ UNCHANGED known /\ (overlapped => overlapped') /\ (codeValid' => codeValid)
         \/ \E c \in Conn : Admit(c) /\ known' = "mine" /\ UNCHANGED overlapped
<1>1. ASSUME NEW c \in Conn, LookUp(c) \/ SendWelcome(c) \/ Reject(c)
      PROVE  UNCHANGED known /\ (overlapped => overlapped') /\ (codeValid' => codeValid)
  <2>1. CASE LookUp(c)
    <3>1. UNCHANGED <<known, codeValid>>
      BY <2>1 DEF LookUp
    <3>2. overlapped => overlapped'
      BY <2>1 DEF LookUp
    <3> QED BY <3>1, <3>2
  <2>2. CASE Reject(c)
    BY <2>2 DEF Reject
  <2>3. CASE SendWelcome(c)
    BY <2>3 DEF SendWelcome
  <2> QED BY <1>1, <2>1, <2>2, <2>3
<1>2. ASSUME NEW c \in Conn, Admit(c) PROVE known' = "mine" /\ UNCHANGED overlapped
  BY <1>2 DEF Admit
<1>3. CASE CodeExpires \/ CoreRestart
  BY <1>3 DEF CodeExpires, CoreRestart
<1> QED BY <1>1, <1>2, <1>3, CoreMoves

\* Once the key is registered it stays registered, and another's is never replaced.
LEMMA KeyStays ==
  ASSUME TypeInv, ReasonInv, [Next]_vars
  PROVE  /\ known = "mine" => known' = "mine"
         /\ known = "other" <=> known' = "other"
         /\ overlapped => overlapped'
<1>1. ASSUME NEW c \in Conn, Admit(c) PROVE known # "other"
  <2>1. hello[c] = "mine" \/ hello[c] = "nobody"
    BY <1>1 DEF Admit, Admits
  <2> QED BY <2>1 DEF ReasonInv, FoundStays
<1> QED BY <1>1, KnownSteps

\* Nothing that is pointless becomes worth trying again.
LEMMA PointlessStays ==
  ASSUME TypeInv, ReasonInv, [Next]_vars, Pointless
  PROVE  Pointless'
<1>1. ASSUME NEW c \in Conn, Admit(c), known' = "mine", UNCHANGED overlapped PROVE Pointless'
  <2>1. known = "mine" \/ known = "nobody"
    BY <1>1, KeyStays DEF TypeInv, TypeOK
  <2>2. CASE known = "mine"
    BY <1>1, <2>2 DEF Pointless
  <2>3. CASE known = "nobody"
    <3>1. hello[c] = "nobody"
      BY <1>1, <2>3 DEF Admit, Admits, ReasonInv, FoundStays
    <3>2. codeValid
      BY <1>1, <3>1 DEF Admit, Admits, HasCode
    <3> QED BY <2>3, <3>2 DEF Pointless
  <2> QED BY <2>1, <2>2, <2>3
<1>2. CASE UNCHANGED known /\ (overlapped => overlapped') /\ (codeValid' => codeValid)
  BY <1>2 DEF Pointless
<1> QED BY <1>1, <1>2, KnownSteps

LEMMA ReasonInit == Init => ReasonInv
<1> SUFFICES ASSUME Init PROVE ReasonInv
  OBVIOUS
<1>1. \A c \in Conn : \A f : ~In(toAgent[c], f) /\ ~In(toCore[c], f)
  BY DEF Init, In
<1>2. CodeIsKept /\ RefusedForAReason
  BY <1>1 DEF Init, CodeIsKept, RefusedForAReason
<1>3. FoundStays /\ OverlapIsNoticed /\ FiledIsKnown
  BY DEF Init, FoundStays, OverlapIsNoticed, FiledIsKnown, Undecided
<1> QED BY <1>2, <1>3 DEF ReasonInv

LEMMA ReasonNext ==
  ASSUME TypeInv, ReasonInv, [Next]_vars
  PROVE  ReasonInv'
<1>1. FoundStays'
  <2> SUFFICES ASSUME NEW c \in Conn
               PROVE  /\ hello'[c] \in {"mine", "other"} => known' = hello'[c]
                      /\ hello'[c] = "nobody" => known' = "nobody" \/ (known' = "mine" /\ overlapped')
    BY DEF FoundStays
  <2>1. CASE hello'[c] = hello[c]
    <3>1. CASE UNCHANGED known /\ (overlapped => overlapped')
      BY <2>1, <3>1 DEF ReasonInv, FoundStays
    <3>2. ASSUME NEW d \in Conn, Admit(d), known' = "mine", UNCHANGED overlapped,
                 hello[c] = "nobody"
          PROVE  overlapped
      <4>1. hello[d] \in Undecided /\ hello[c] \in Undecided /\ hello'[d] = "filed"
        BY <3>2 DEF Admit, Undecided, TypeInv, TypeOK
      <4>2. c # d
        BY <2>1, <3>2, <4>1
      <4> QED BY <4>1, <4>2 DEF ReasonInv, OverlapIsNoticed
    <3>3. hello[c] \in {"mine", "other"} => known' = hello[c]
      BY KeyStays DEF ReasonInv, FoundStays
    <3> QED BY <2>1, <3>1, <3>2, <3>3, KnownSteps
  <2>2. CASE hello'[c] \notin Undecided
    BY <2>2 DEF Undecided
  <2>3. CASE LookUp(c) /\ hello[c] = "none" /\ hello'[c] = known
    <3>1. known' = known
      BY <2>3 DEF LookUp
    <3> QED BY <2>3, <3>1
  <2> QED BY <2>1, <2>2, <2>3, HelloSteps
<1>2. OverlapIsNoticed'
  <2> SUFFICES ASSUME NEW c \in Conn, NEW d \in Conn,
                      hello'[c] \in Undecided, hello'[d] \in Undecided, c # d
               PROVE  overlapped'
    BY DEF OverlapIsNoticed
  <2>1. CASE hello'[c] = hello[c] /\ hello'[d] = hello[d]
    BY <2>1, KeyStays DEF ReasonInv, OverlapIsNoticed
  <2>2. ASSUME NEW a \in Conn, NEW b \in Conn, a # b, LookUp(a), hello'[b] \in Undecided
        PROVE  overlapped'
    <3>1. hello'[b] = hello[b]
      BY <2>2 DEF LookUp, TypeInv, TypeOK
    <3> QED BY <2>2, <3>1 DEF LookUp, Undecided
  <2> QED BY <2>1, <2>2, HelloSteps
<1>3. CodeIsKept'
  <2> SUFFICES ASSUME known' # "mine"
               PROVE  /\ code' = TRUE
                      /\ \A c \in Conn : ~In(toCore'[c], HelloFrame(FALSE)) /\ ~In(toAgent'[c], Welcome)
    BY DEF CodeIsKept
  <2>1. known # "mine" /\ \A c \in Conn : ~SendWelcome(c)
    BY KeyStays DEF SendWelcome, ReasonInv, FiledIsKnown
  <2>2. /\ code = TRUE
        /\ \A c \in Conn : ~In(toCore[c], HelloFrame(FALSE)) /\ ~In(toAgent[c], Welcome)
    BY <2>1 DEF ReasonInv, CodeIsKept
  <2>3. ~ReadWelcome
    <3> SUFFICES ASSUME ReadWelcome PROVE FALSE
      OBVIOUS
    <3>1. conn \in Conn /\ toAgent \in Queues /\ toAgent[conn] # <<>>
      BY DEF ReadWelcome, Arrives, TypeInv, TypeOK, OnAConnection, Queues
    <3>2. Head(toAgent[conn]) \in Frame /\ In(toAgent[conn], Head(toAgent[conn]))
      BY <3>1, TakeFrame
    <3>3. Head(toAgent[conn]) = Welcome
      BY <3>2, FrameKinds DEF ReadWelcome, Arrives
    <3> QED BY <2>2, <3>1, <3>2, <3>3
  <2>4. code' = TRUE
    BY <2>2, <2>3, AgentSteps
  <2>5. ASSUME NEW c \in Conn PROVE ~In(toCore'[c], HelloFrame(FALSE))
    <3>1. ~SentToCore(c, HelloFrame(FALSE))
      BY <2>2, FramesDiffer DEF SentToCore
    <3> QED BY <2>2, <3>1, FramesToCore
  <2>6. ASSUME NEW c \in Conn PROVE ~In(toAgent'[c], Welcome)
    <3>1. ~SentToAgent(c, Welcome)
      BY <2>1, FramesDiffer DEF SentToAgent
    <3> QED BY <2>2, <3>1, FramesToAgent
  <2> QED BY <2>4, <2>5, <2>6
<1>4. RefusedForAReason'
  <2>1. ASSUME NEW c \in Conn, Reject(c) PROVE Pointless
    <3>1. toCore \in Queues /\ toCore[c] # <<>> /\ hello[c] \in {"nobody", "mine", "other"}
      BY <2>1 DEF Reject, Arrives, TypeInv, TypeOK, Queues
    <3>2. Head(toCore[c]) \in Frame /\ In(toCore[c], Head(toCore[c]))
      BY <3>1, TakeFrame
    <3>3. PICK b \in BOOLEAN : Head(toCore[c]) = HelloFrame(b)
      BY <2>1, <3>2, FrameKinds DEF Reject, Arrives
    <3>4. Head(toCore[c]).code = b
      BY <3>3 DEF HelloFrame
    <3>5. ~(hello[c] = "mine") /\ ~(hello[c] = "nobody" /\ b /\ codeValid)
      BY <2>1, <3>4 DEF Reject, Admits, HasCode
    <3>6. CASE hello[c] = "other"
      BY <3>6 DEF ReasonInv, FoundStays, Pointless
    <3>7. CASE hello[c] = "nobody"
      <4>1. known = "nobody" \/ (known = "mine" /\ overlapped)
        BY <3>7 DEF ReasonInv, FoundStays
      <4>2. known = "nobody" => b = TRUE
        BY <3>2, <3>3 DEF ReasonInv, CodeIsKept
      <4> QED BY <3>5, <3>7, <4>1, <4>2 DEF Pointless
    <3> QED BY <3>1, <3>5, <3>6, <3>7
  <2>2. ASSUME GiveUp PROVE Pointless
    <3>1. conn \in Conn /\ toAgent \in Queues /\ toAgent[conn] # <<>>
      BY <2>2 DEF GiveUp, Arrives, TypeInv, TypeOK, Queues
    <3>2. Head(toAgent[conn]) \in Frame /\ In(toAgent[conn], Head(toAgent[conn]))
      BY <3>1, TakeFrame
    <3>3. Head(toAgent[conn]) = Refused
      BY <2>2, <3>2, FrameKinds DEF GiveUp, Arrives
    <3> QED BY <3>1, <3>2, <3>3 DEF ReasonInv, RefusedForAReason
  <2>3. ASSUME NEW c \in Conn, In(toAgent'[c], Refused) PROVE Pointless
    <3>1. In(toAgent[c], Refused) \/ Reject(c)
      BY <2>3, FramesToAgent, FramesDiffer DEF SentToAgent
    <3> QED BY <2>1, <3>1 DEF ReasonInv, RefusedForAReason
  <2>4. ASSUME phase' = "stopped" PROVE Pointless
    <3>1. phase = "stopped" \/ GiveUp
      BY <2>4, AgentSteps
    <3> QED BY <2>2, <3>1 DEF ReasonInv, RefusedForAReason
  <2> QED BY <2>3, <2>4, PointlessStays DEF RefusedForAReason
<1>5. FiledIsKnown'
  <2> SUFFICES ASSUME NEW c \in Conn, hello'[c] = "filed" PROVE known' = "mine"
    BY DEF FiledIsKnown
  <2>1. CASE hello[c] = "filed"
    BY <2>1, KeyStays DEF ReasonInv, FiledIsKnown
  <2>2. CASE hello[c] # "filed"
    <3>1. known # "filed"
      BY DEF TypeInv, TypeOK
    <3>2. Admit(c)
      BY <2>2, <3>1, HelloSteps
    <3> QED BY <3>2 DEF Admit
  <2> QED BY <2>1, <2>2
<1> QED BY <1>1, <1>2, <1>3, <1>4, <1>5 DEF ReasonInv

LEMMA ReasonInvHolds == Spec => []ReasonInv
<1>1. TypeInv /\ ReasonInv /\ [Next]_vars => ReasonInv'
  BY ReasonNext
<1> QED BY <1>1, ReasonInit, TypeInvHolds, PTL DEF Spec

\* The agent gives up for good only when its key is not registered, or its
\* hellos overlapped in the core.
THEOREM GivesUpRightly == Spec => []GivesUpForAReason
<1>1. ReasonInv => GivesUpForAReason
  BY DEF ReasonInv, RefusedForAReason, Pointless, GivesUpForAReason
<1> QED BY <1>1, ReasonInvHolds, PTL

\* It does not give up while the code it was started with would pair it.
THEOREM CodeOutlives == Spec => []CodeOutlivesLostHellos
<1>1. ReasonInv => CodeOutlivesLostHellos
  BY DEF ReasonInv, RefusedForAReason, Pointless, CodeOutlivesLostHellos
<1> QED BY <1>1, ReasonInvHolds, PTL
=============================================================================
