# A TLA+ model of heren-agent

heren-agent is a personal assistant that acts on a person's computers. A Python
process, the *core*, holds the registry of devices, the approval gate and the
audit trail; a Go *device agent* on each computer connects to the core over a
websocket and carries out a fixed set of actions; a React *dashboard* shows what
happens and is where a person approves. *Hermes*, an external model runner,
answers what the person asks and asks for actions through the core's MCP server.

This directory models the part of that system where order matters: what may
happen between two `await`s, what is left after a restart, what a device, a
dashboard or a person may do at a bad moment.

## Inventory

### Core (`src/apps/core/heren_core`)

| Component | State | Operations | Talks to |
|---|---|---|---|
| `actions.py` ActionService | rows `actions`, `audit` (SQLite); `_approval_deadlines` (memory) | submit, approve, deny, expire_stale | gateway (dispatch), storage, bus |
| `gateway.py` DeviceGateway | `_sessions`, `_by_device`, `_pairing_codes`, the `pending` futures of a session | connect, handle_message, disconnect, reap_dead_sessions, dispatch, new_pairing_code | agents (websocket), storage, bus |
| `security.py` ReplayGuard | `_seen` | check | clock |
| `storage.py` | SQLite tables devices, actions, audit, settings | one statement per method, one worker thread | - |
| `bus.py` EventBus | subscribers by pattern | publish, emit, subscribe | everybody |
| `character.py` CharacterEngine | activity, reaction, energy, sleep debt, timers, "audio is playing" | one input per event, tick, export_state, restore_state | - |
| `character_host.py` CharacterHost | the engine, what it last published and saved | _on_event, _loop, restore | bus, settings |
| `hermes_bridge.py` HermesBridge | an asyncio lock (first come, first served), session id, the buffer of a stream | ask, respond_approval, healthy | Hermes over HTTP, bus |
| `voice/host.py`, `voice/providers.py`, `voice/dsp.py` | sentence numbers, generation, queue, clips; the providers chosen at start | text in, clips out, interrupt; resolve_tts, resolve_stt | speech services, bus |
| `metrics.py` MetricsCollector | latest samples, history table | poll_once, run | gateway, bus |
| `models_catalog.py` ModelCatalog | cached catalog and its time | get | subprocesses |
| `mcp_server.py` | none | device_list, device_status, device_action | ActionService |
| `app.py`, `__main__.py`, `config.py`, `netaccess.py` | the parts above, one queue per dashboard socket; `key.pem`, `cert.pem` | start, stop, HTTP and websocket routes, `_housekeeping`, ensure_self_signed | all |

### Device agent (`src/agents/device-agent`)

`internal/client/client.go` keeps the connection: hello, heartbeats, back-off,
the duplicate filter `seen`, and one goroutine for each request.
`internal/protocol` is canonical JSON and signatures, `internal/adapter` the
operations on the computer, `cmd/heren-agent` flags and key files.

### Dashboard (`src/apps/ui/src`)

`lib/store.ts` is a reducer over the event feed, `lib/api.ts` the reconnecting
socket that feeds it, `voice/` the ordered playback of speech and the
microphone; the rest draws.

### How they interact

    Hermes --MCP--> submit --+                              +--> dashboard: approve / deny
    dashboard ------> submit-+--> ActionService --bus-------+
                                   |      ^                 +--> character, voice
                          dispatch |      | result
                                   v      |
                                DeviceGateway <== websocket ==> device agent (Go)

    dashboard --ask--> HermesBridge --hermes.* on the bus--> character, voice host, dashboards
    dashboard --playback reports--> bus --> character

Everything in the core runs on one event loop, but for the listings of the model
catalog and speech synthesis, which run in threads. Between two suspending
awaits a coroutine has the process to itself; at an await any other coroutine
may run. Storage serves its statements in the order they are issued. The
housekeeping task alternates between `reap_dead_sessions` and `expire_stale`.

### What is hard, and what makes each part correct

* **ActionService**: two people (or one person twice) decide the same request
  while the sweep expires it; the process dies between two commits. Correct: a
  gated action reaches a device only by a person's approval, once; a decision
  stays but for what its device answers; what ended was audited; a waiting
  request lapses.
* **DeviceGateway**: hello, replacement, reaping and disconnect of several
  sockets of one device interleave; frames arrive on sockets that are over;
  dispatches wait on sessions that disappear. Correct: the session table, the
  devices table and the event feed agree; closing an old session never takes the
  new one with it; codes and keys are used as paired; every dispatch ends.
* **Replay guards**: boundaries of two time windows, in two languages. Correct:
  each envelope is let through once, with a table bounded by the window.
* **Agent client**: reconnection, back-off, results of requests whose connection
  is gone. Correct: one request is executed once; a permanent refusal stops it.
* **Voice and speech queue**: clips of two runs with gaps, interruptions at any
  moment. Correct: clips play in order and once; an interruption is final.
* **Recorder**: a click, an unmount or a second start while the permission prompt
  or the capture is awaited. Correct: no microphone stays open unnoticed.
* **Hermes and the character**: text cut into deltas anywhere, runs that fail,
  playback reports that are late or lost, approvals that expire, days that were
  slept through. Correct: what is spoken is what was written; the character is
  busy, speaks and asks for attention exactly while there is a reason to.
* **Event feed and store**: events run while the snapshot is read, queues
  overflow, sockets are lost. Correct: the dashboard converges to the core.
* **Start of the core**: crashes between the writes of key and certificate, files
  that disappear, voice providers that do not start. Correct: the core comes up,
  and a certificate once fetched stays good.
* **Model catalog**: threads that overtake each other in a cache without a lock.
  Correct: what is returned is not older than the time to live.

The hazards, each at its line, are in `PROJECT.json`.

## Plan

The order in which the modules were written, the most important first. All of
it is done; what is left out for good is at the end of this file.

1. `ActionService` with its promise `ApprovalGate`: checked, refined, proved.
2. `ReplayGuard` for both ends: checked and proved.
3. `Gateway`: checked and, but for its liveness, proved.
4. `DeviceLink`, client.go and the core's end of its connection over links that
   break, with its promise `RemoteCall`: checked, refined, proved.
5. `Speech`: host, clip sequence, speech queue, interruptions: checked and, but
   for its liveness, proved.
6. `Presence`, which composes `HermesBridge` and `Character` with approvals and
   playback reports: checked and, but for its liveness, proved.
7. `EventFeed`: bus, bounded queue, snapshot, reconnecting client, reducer,
   metrics polls: checked and proved.
8. `CoreProcess`, `ModelCatalog`, `Recorder`: checked and, but for their
   liveness, proved.

## The modules

| Module | Models |
|---|---|
| `ApprovalGate` | What `actions.py` promises: record, ask, decide, grant, spend. Abstract. |
| `ActionService`, `ActionServiceProofs` | `actions.py` with its rows and the housekeeping sweep. |
| `ReplayGuard` | `ReplayGuard.check` (Python) and `acceptNonce` (Go). |
| `Gateway`, `GatewayProofs` | `gateway.py` and the `/ws/agent` route. |
| `RemoteCall` | What a dispatch promises across the link to a device. Abstract. |
| `DeviceLink`, `DeviceLinkProofs` | `client.go`, and the hello, dispatch and disconnect of `gateway.py` as the agent meets them. |
| `Speech`, `SpeechProofs` | The queue and worker of `voice/host.py`, `speechQueue.ts`, and the stop button. |
| `Character` | `character.py`: the engine as a record, each method an operator. |
| `HermesBridge`, `HermesBridgeProofs` | `hermes_bridge.py`: the lock, the run, the stream and its sentences. |
| `Presence`, `PresenceProofs` | `character_host.py`, composing the two above with approvals, playback, the clock and a restart. |
| `EventFeed`, `EventFeedProofs` | `bus.py`, `/ws/events`, `metrics.py`, `api.ts` and the reducer of `store.ts`. |
| `CoreProcess` | `__main__.py`, `config.py`, `netaccess.py`, start and stop of `app.py`, the certificate route, the choice of voice providers. |
| `ModelCatalog` | `models_catalog.py`. |
| `Recorder` | start, stop and unmount of `useVoice.ts`, `micCapture.ts`, `silence.ts`. |
| `PartsProofs` | Proofs about `ReplayGuard`, `CoreProcess`, `ModelCatalog` and `Recorder`. |
| `MCActionService`, `MCGateway`, `MCDeviceLink`, `MCEventFeed`, `MCPresence`, `MCParts` | Instances for TLC; `MCParts` runs four parts that share no state, one per behaviour; `MCGateway` plays one scene (who takes part, how far the clock and the restarts go) per behaviour. |

### Grain of atomicity

A step is the code from one await that really suspends to the next. A database
call takes effect in the step that issues it, because a single worker thread
executes statements in order, and the coroutine goes on in a later step.
`bus.emit` does not suspend for action, approval and device events: every
subscriber to those either puts into a queue without waiting or only counts; the
one that writes (the character host) does so only when its exported state
changed. `ActionService` lets coroutines resume in any order, which allows more
than the loop does; `Gateway` keeps the queue of coroutines waiting for the
database, because the order of events depends on it. Code that runs in threads
(`ModelCatalog`) takes a step per access to what the threads share.

### ActionService

`row`, `approvedBy`, `created`, `audit` are the tables, `deadline` is
`_approval_deadlines`. A `Call` is one invocation of submit, approve or deny;
`pc`, `op`, `req`, `by`, `seen`, `outcome` are its frame. `seen` is the status
`_take_pending` read, which the rest of the handler relies on after further
awaits. `sweep` is the housekeeping task with the page it listed. `took`,
`sent`, `expired` and `published` are history. `Restart` clears memory and
frames and keeps the tables. The MCP server and the dashboard are two of the
callers: both only forward to submit.

A dispatch comes back with `failed` or `device_offline`, or with whatever status
the device put into its result: the gateway takes any of the nine
(`gateway.py:215`) and `_finish` writes it as it is. The constant `Answers` says
which ones the devices of an instance use; the theorems hold for all nine. A
device that answers `awaiting_approval` puts a request that was decided in front
of the gate again, where it can be approved and run a second time or denied; one
that answers `pending`, `approved` or `running` leaves its request open for good.
`ApprovalGate` promises no more than that: `AskAgain` is a step of it, for a
request that has been run. `OnlyItsDeviceReopens` says that nothing else brings a
decided request back in front of the gate.

### ReplayGuard

A `Key` stands for one signed envelope, `ts` for the time stamp it was signed
with, `seen` for the receiver's table, and `accepted` counts how often it was
let through. The core evicts before it judges (`end`), the agent only
for an envelope whose time stamp it accepts. The clock is taken to be monotone
and the guard to live as long as its process.

### Gateway

`sessions`, `byDevice`, `pending`, `codes` are the fields of `DeviceGateway`;
`owner`, `skey`, `lastSeen` those of a `Session`; `known` and `status` the
columns of `devices`. A session's coroutine is at `pc[s]`: `looking_up` (the
row is being read), `registering` (written), `replacing` (the old socket is
closing), `marking` (status being written), `welcoming` (the welcome is going
out), `reading`, `beating`, `leaving`, `offlining`. `reaper` is
`reap_dead_sessions` with the list it made. `call`, `via`, `answer` are
invocations of `dispatch`. `raced` and `admitted` are history: the devices whose
hello was cut into by another hello or the reaper, and the registrations made.

Four properties hold only for devices that were never `raced`; what happens to
the others is described below.

### DeviceLink

`phase` is where `Agent.Run` is, `conn`, `code`, `backoff` its variables, `job`
the goroutine started for each request together with the connection it came by.
A connection carries a queue of frames each way (`toAgent`, `toCore`); when it
breaks, each end may find out late, still read what had arrived, or lose it. A
`Refused` frame is a close with code 4003 and one of the two reasons
`isPermanent` knows; `Closed` is any other close. Of the core, `hello[c]` is
what the handler of that connection's hello found in the devices table (a
suspended handler acts on it later) and how far it is: a hello is handled in three
steps, `LookUp`, `Admit` or `Reject`, and `SendWelcome`. Between the last two the
session is on file and its status being written, so a dispatch may put its
request on the wire before the welcome; the agent then drops the connection
(`Unwelcome`) and dials again, as it still has its code and is registered. `known` and `codeValid` are the row and the
pairing code, `live` the session of the device, and `call`, `answer`, `via` the
dispatches. `overlapped` is history. Heartbeats are left out: they decide when
the core reaps a session, and here it may do so at any time. `acts` counts how
often the adapter was called for a request, so that a second call would show.

`RemoteCall` is what the caller of `dispatch` can rely on: the device acts at
most once and only if it was asked; "completed" is told only of what was carried
out; a request refused as offline was never sent, or its session ended. It does
not promise the converse: `failed` and `device_offline` may be told of a request
that is carried out afterwards.

### Speech

A clip is the run, number and generation of its sentence. `jobs`, `seq`,
`generation`, `worker`, `idle`, `clips` are the fields of `VoiceHost`; the step
`TakeJob` is the top of the worker's loop up to its next await (it takes the first
job of this generation and passes over those before it), and synthesis is
a thread that may end well or not at any later time. `feed` is the FIFO of one
dashboard's socket. `pending`, `nextSeq`, `order` are those of `SpeechQueue`:
the map of runs is the set of clips that wait, and a run has an entry exactly if
it is in `order`. `player` is where `pump` awaits `play`: fetching the clip,
playing, or paused and about to be told so. `takeNext` is a loop that deletes
from the list it walks over; `Takes` and `TakesNone` say what it comes to.

### HermesBridge, Character and Presence

`HermesBridge` is one run of Hermes at a time. `line` is the asyncio lock with
its waiters in order, `phase` is where `_ask` and `_stream` are (`posting`,
`streaming`, `closing` between the last two events). Text is a sequence of
tokens (a word, a run of stops, a run of whitespace) out of the constant `Token`; `script` is what Hermes
is about to say, and `Delta(n)` delivers its next n tokens, so every division
into deltas is covered. `Ends`, `Done` and `Remainder` are `sentences`: a stop
ends a sentence when whitespace follows and its word is no abbreviation. `Fails`
is every way out that emits `hermes.done`, `Raises` those that do not.

`Character` is the engine as a record with one operator per method: from the
engine before, and the clock, to the engine after. Time is a natural number of
one unit and the day has `DayLength` of them; energy is counted in steps.
`Tick` is the integration of a gap in steps of at most `MaxStep`. The settings may
hold numbers out of their range (`Saved`), which `RestoreState` clamps as the code does. The two fields
`_waking_until` and `_listening_until` are one, since an activity reads only its
own.

`Presence` composes them: a handler runs in the step that emits its event.
`pending` is `_pending_approvals`, `requests` what became of each request,
`reports` the playback reports under way, which may overtake each other or be
lost. `scenario`, chosen at the start, says which texts, calls, requests,
episodes of playback, hours and downtimes a behaviour has: the state space is
the union of the scenarios of `MCPresence`, not their product.

### EventFeed

A *subject* is something a dashboard shows one value of: a device that is paired,
an approval, the turn of Hermes. `table` is the core's own value. The writes of a
subject are numbered; `untold` holds a note for each write whose event is still to
come (the order of gateway and service), with its number and the value it wrote.
Several coroutines may be between write and event for one subject, and any of them
may tell first: `Tell` emits what its own coroutine wrote, whatever the table says
by then, and an event that comes out after that of a later write is `Overtaken`.
`told` is the latest write that was told of. `Cut` is a hello whose welcome cannot
be sent: it ends without its event. `ahead` are the approvals whose denial was emitted before its row was
written (the order of `deny`). `conn` is how far `events_ws` is: subscribed,
devices read, approvals read, open. `queue` is its bounded queue, `base` what
the snapshot and the events so far have made of the dashboard's store. `due` and
`sample` are a poll of the metrics collector. A heartbeat is a write of "online"
like that of a hello, and the `device.metrics` that follows it its event.
`Reopen` is a device that answers `awaiting_approval`: the row is listed again and
no event says so. `blind` is history: the subjects of which a dashboard does not
know the truth for one of these reasons, until an event or a snapshot says it:

* the event was dropped at the full queue, or queued on a socket that was lost;
* it came out after that of a later write (two sessions of one device, or a
  session and the reaper);
* it was a metrics sample of a device that had gone offline;
* it was never emitted, because a device reopened its approval;
* the snapshot read an approval between the event of its denial and the row;
* it was of the turn of Hermes, which no snapshot has, and the socket was gone.

`ShowsTheTruth` and `DashboardsCatchUp` are about all the others.

### CoreProcess, ModelCatalog, Recorder

`CoreProcess`: `setting` is what `Settings.load` finds in the file and the
environment, `at` how far the process is. `key` and `cert` are the files: a pair
is a number, and a file that was opened and not yet written is `Torn`. `served`
is what uvicorn loaded, `pin` what each agent or phone fetched. `MintKey` to
`WriteCert` are the four effects of `ensure_self_signed`, each of which a crash
may follow; the same steps serve the route that mints on demand (`asker`).

`ModelCatalog`: a catalog is the time its listing began, `cached` and `cachedAt`
the two fields that `get` assigns one after the other, `step` where each thread
is.

`Recorder`: a start is numbered, `current` is the one whose token equals the
generation, `attempt` where it awaits. `heard` is the detector: whether anything
was fed, whether and how long somebody spoke, and the time since; a unit of time
is the distance of two chunks of sound.

## The runs

All bounds are constants of the .cfg files. `CHECK_DEADLOCK FALSE` everywhere:
calls, sessions, envelopes, starts and losses are used up and clocks end, so a
behaviour that has used them all stops.

| Run | Instance | Shows |
|---|---|---|
| `ActionGate` | 3 calls, 1 request that is HIGH, MEDIUM or a disabled CRITICAL one, TTL 0, and one hardship: the clock goes from 0 to 1, or 1 restart; the device answers completed, awaiting_approval or pending | The gate, one dispatch under a sole decision, audited endings, bounded deadlines, decisions reopened by their device only, and `ActionService` implements `ApprovalGate`. |
| `ActionProgress` | 2 calls, 1 HIGH request, clock 0..3, TTL 1, 1 restart, fair; the device answers any of the nine statuses | Waiting approvals lapse; requests past the gate settle, but for those a restart cut short and those a device left open. |
| `Parts` | the four parts of `MCParts`, one per behaviour (below) | Both ends' replay guard: no duplicate, a table no larger than the window. The catalog is fresh. A certificate fetched goes on being served, and the core comes up. An open microphone is closed again. |
| `GatewaySafety` | 1 device, timeout 0; 3 sockets with clock 0..1, or 2 sockets with 2 codes and 2 keys, or 2 sockets with 2 dispatches of their own request ids | Types; the session that speaks for a device is the one on file; table, status and feed agree; a device goes offline only when its own connection ended; a code admits once and a device paired once keeps its key (`PairingIsExclusive`); `pending` holds exactly what somebody waits for. |
| `GatewayProgress` | 2 sockets, fair; clock 0..2 with timeout 1, or 1 dispatch and 1 restart | A device whose agent left or fell silent goes offline; every dispatch ends, also when its session was replaced. |
| `LinkCalls` | 2 connections, 2 requests of which the first to be dispatched is `q1`, 1 restart, back-off 2..3, fair | Types; what a dispatch is told fits what the device did; the agent gives up only when its key or code is of no use, unless its hellos overlapped; a hello that is lost does not cost the pairing code; the agent comes back, also when a request overtook its welcome. |
| `SpeechOrder` | 2 runs of 2 sentences, 2 interruptions, 1 lost socket, 2 clips in the store, fair | Types; clips are taken up once, in order and never left waiting when due; nothing from before a stop is taken up after it; speech ends. |
| `Presence` | the scenarios of `MCPresence`, with downtimes of 1 to 9 units | Types; what is spoken is what was written, however it is cut; attention counts the requests; the character is not busy for nothing; it catches up with the time it was down; every question returns, if Hermes lets every run end. |
| `DashboardFeed` | 1 device, 1 approval, the turn of Hermes, 1 dashboard, queue of 2, 3 writes per subject and 4 in all, 1 poll, 1 lost socket, fair | A dashboard that has worked off its queue shows the truth, with the exceptions the code leaves; it gets there. |

`Parts` has 3 envelopes stamped 0..7 with a window of 2 and a clock to 6; two
threads, one provider, a time to live of 2, listings of at most 2 and a clock to
7; every combination of settings, 2 agents, 1 loss of files, 2 crashes and 4
pairs, which is one more than losses and crashes together so that the bound
never stops the minting; 3 starts of the recorder, 3 chunks with speech, and
times of 2, 2 and 3 chunks for hold, least speech and longest wait.

Why these bounds are enough to be of interest: three calls are two decisions and
the submission they race on; three sockets are an old session and two that race
to replace it; a clock of three instants with a time-out of one has a before, an
at and an after of each deadline, and where it only has to pass a deadline once
(`ActionGate`, `GatewaySafety`) two instants and a time-out of zero do; `ActionGate`
(`HardSpec`) has the passing of the deadline and the restart in different
behaviours, `ActionProgress` has both in one; of the statuses that leave a request
open one stands for three there, as nothing reads them apart. One
restart separates a run from what it left in the tables; two connections are the
one a request or a hello was lost with and the one after it; two runs of two
sentences have a gap, a newer run that supersedes it and a clip evicted before
it was fetched. A queue of 2 in place of 1000 fills; 3 writes are a subject that
came, went and came again, and two of them may be told in the other order; the 4
in all (`FewSpec`) let two subjects meet in the queue. The two requests of
`LinkCalls` are alike, so calling the first one `q1` (`InOrderSpec`) leaves no
behaviour out but for its names. A day of 12 units has a window of sleep that crosses
midnight, a deeper one inside it, a morning and a time at which debts are
cleared, all apart; a step of 2 and a lag of 2 make ticks that are late and
gaps of several steps; texts up to 4 tokens over {word, abbreviation, stop,
space}, and two longer ones, have every pair of neighbours that `sentences`
looks at, in every division. More devices add nothing to the gateway, whose
tables are keyed by device.

### Where the code does not do what is said of it

| Run | Statement | What happens |
|---|---|---|
| `ActionDenyRace` | a denied request is never dispatched (`tests/test_actions.py:83`) | deny and approve both read the waiting row, both go on. |
| `SpeechStop` | a stop cuts the current clip (`voice/speechQueue.test.ts:2`) | While a clip is being fetched there is no audio element to pause: it plays after the stop. |
| `PresenceExact` | energy depends only on wall time, not on how often the engine is ticked (`character.py:226`, `:317`, `docs/05-faz4-rapor.md:16`) | A step counts all its time at the rate of its end, so after a downtime the energy is another one. `CatchesUp` says how far it may be off. |

The following were met while modelling. They are visible in the modules, mostly
as an exception that a property names, and have no run of their own.

Approvals and audit:

* a restart between the status update and the audit insert leaves a result that
  is never audited (`docs/02-faz1-rapor.md:13` says all are);
* a device may answer a request with any status of the protocol: with
  `awaiting_approval` it is asked for again and may run twice, with `running`,
  `pending` or `approved` it is never settled (`gateway.py:215`, `actions.py:137`);
* two approve calls that read the same waiting row are both accepted, and the
  same request id may be dispatched twice; an approval that arrives after the
  deadline and before the next sweep is accepted;
* the sweep sees only the newest 100 waiting rows;
* `deny` emits `ui.approval.resolved` before it writes the row: a dashboard that
  connects in between lists the denied request until it connects again;
* `metrics.py:3` says that the audit and risk rules apply to its polls, while
  `poll_once` dispatches directly, with no row and no audit.

Devices:

* two hellos of one device that wait for the same old socket end as two sessions
  (`gateway.py:181` says a hello replaces any stale one);
* a session reaped in the middle of its hello files itself afterwards and leaves
  its device online with nobody behind it; a core that dies leaves devices
  marked online until their next hello;
* a dispatch between the filing of a session and its welcome reaches the agent
  first, which drops the connection for it (`gateway.py:191`, `client.go:184`);
* two first hellos of one device with two codes both find no row, and the later
  one's key replaces the earlier one's;
* an agent whose first link breaks after its hello, and whose second hello
  overlaps the registration, is refused for a code already used and stops for
  good although its key has just been registered (`client.go:103`);
* the replay table of either end is empty after a restart.

Speech, recorder, character:

* an interruption between `put_nowait` and the wake-up of the voice worker leaves
  `_idle` cleared and `drain()` waiting for ever;
* a recording that timed out because nothing was said is sent for transcription
  like any other (`useVoice.ts:18` says it stops quietly); a recording in which
  no more than a blip was said neither ends nor times out by itself; when the
  capture cannot be opened after the microphone was, nobody stops its tracks
  (`useVoice.ts:91`);
* an approval that expires is not counted down: the character asks for attention
  until the process ends;
* nothing bounds a run of Hermes: `request_timeout_s` is a time-out per read
  (`hermes_bridge.py:161`), so a stream kept alive by comments, empty events or
  deltas holds the lock, and every later question waits;
* an error of `ask` that is no HTTP or OS error emits no `hermes.done`: the
  character goes on thinking until the next run; `/api/ask` reads the state of
  the character and the devices before it waits for the lock (`app.py:403`), so
  a question that waited tells Hermes of an older state.

Dashboard and start:

* `hermes.busy` is in no snapshot: a dashboard whose socket was gone at the end
  of a run shows Hermes busy until the next; events beyond a full queue are
  dropped and nothing corrects them before a reconnect;
* `device.metrics` marks a device online also when it comes after `device.offline`,
  and so does a `device.online` overtaken by it (`gateway.py:195`): an offline
  device is shown online until it comes and goes again or the socket reconnects;
* with `tls_cert` set and `tls_key` not, the certificate that is handed out to be
  pinned is not the one that is served (`netaccess.py:85`);
* a crash between the writes of `key.pem` and `cert.pem` leaves a pair that counts
  as minted and that no later start can load (`netaccess.py:100`); a pair minted
  on demand is handed out at once and served from the next start on.

## Fairness

Weak fairness of a coroutine's continuation says the event loop runs what is
ready, and that the database and network calls in flight end (a socket whose
peer is gone fails by the websocket server's keep-alive). Weak fairness of the
sweep and the reaper is the `while True` of `_housekeeping`, whose body catches
every exception. The clock advances. In `Gateway`, a socket whose peer has left
is given strong fairness for its disconnect: it has sent finitely many frames,
so its loop comes to the end of them. Nothing is assumed of people, agents or
devices: they may do nothing for ever. In `DeviceLink` the agent's loop and the
core's handling of a hello go on by weak fairness; strong fairness of dialling
says that attempts do not all fail for ever while the core is up (`DialFails` is
never fair). `ComesBack` excuses an agent that has used all connections of the
instance. In `Speech` the worker, the socket and the browser's player go on:
a synthesis, a fetch and a clip come to an end. A call that waits for the device's
answer is bounded by `asyncio.wait_for`, so `DispatchEnds` supposes nothing of the
device, and `RequestsSettle` does not suppose that it answers; what it answers
matters, and a device that answers with a status that settles nothing is the
exception `LeftByItsDevice`.

In `Presence` the loop hands the lock to the next in line (`Think`) and the last
event of a run follows (`Close`). That a run ends is not assumed: the time-outs of
the HTTP client are per read, and a Hermes that keeps its stream alive is never
timed out. `AsksReturn` therefore has the premise `RunsEnd`, that every run comes
to an end somehow, and shows that the lock is then passed on whatever way it
ended; without the premise it does not hold. In `EventFeed` a write
returns and is told of or its welcome fails, reads return, the pump goes on and the client tries
again, at most ten seconds later. In `CoreProcess` a step once begun is done,
and somebody starts a core that is down: the repository has a service unit for
the agent only, so this is an assumption about the person or the container. In
`Recorder` a capture opens or fails, and sound keeps coming in; the person falls
silent in the end (`MaxTalk`). That the permission prompt is ever answered is
not assumed.

## What is proved

The theorems hold for every number of calls, requests, devices, envelopes,
connections, dashboards, agents, starts, losses and restarts and for every value of the other
constants that the named assumptions allow.

`ActionServiceProofs` proves `TypeOK`, `GatedNeedsPerson`,
`SoleDecisionRunsOnce`, `DeadlinesArePending`, `OnlyItsDeviceReopens`,
`AuditTrail` and the refinement `ImplementsGate`. The invariant they rest on,

    IInv == TypeOK /\ FramesInv /\ SubmitInv /\ GateInv /\ HistoryInv

says what a suspended call may rely on. It is needed because the properties
speak of rows and dispatches, while the code carries its right to dispatch in
the frame of a coroutine: `FramesInv` ties a frame's location to what it read,
`SubmitInv` says that a request which is still being submitted is touched by its
own submitter alone, `GateInv` says what has been in front of the gate (`Asked`,
`Decidable`: a gated request, or one that has run and was asked for again) and what
is behind it (`Passed`), and `HistoryInv` ties `sent` to the calls that may have
run: those in `took`, and the submitters of ungated requests.
There is one lemma for each action; `SoleDecisionSafe` then argues from the
history. For the refinement, a step that writes a row maps to the abstract
action of the same name, or stutters when the abstract stage does not change.

`AuditTrail` needs a second invariant, `AuditInv`, because the line, the row and
the decision are written by different steps: each line has the request, result
and approver of the call (or the sweep) that wrote it; a call that ended a
request had decided it or was its submitter, outside the gate; a decided row is
behind the gate; and a terminal row has its line or somebody at `auditing`. The
heart of it is `NobodyWritesAgain`: under a sole decision nobody who may still
write the row is left when somebody has ended the request, since he would be a
second decider or a second submitter.

`PartsProofs` holds the proofs of four small parts that share no state. Of the
replay guard it proves `AcceptedOnce` and `RemembersTheWindow` from: what was
accepted and may still be judged in time is remembered under its own time stamp,
and no stamp that was accepted lies further ahead than the skew.

`GatewayProofs` proves `TypeOK`, `SoleSession`, `StatusAgrees`,
`OfflineOnlyWhenGone`, `PairingIsExclusive`, `PendingIsExact` and `FeedAgrees`,
from one invariant for each concern, so that a step that leaves a concern alone
is dismissed at once. `TypeInv` adds to the types that a socket in its hello
names a device and a key, and that a registered one owns the device of its
hello. `TableInv` adds to `SoleSession` and `StatusAgrees` that whoever is about
to drop a session holds one whose socket is gone, and that a socket not yet
opened is in no table. `KeyInv` says that a code used is spent, that
whoever a hello lets through speaks for a device with a registration, and that
where there was one registration only, what a hello read and what it speaks with
is still the key of the row. `CallInv` says that a future on file is that of a
dispatch in flight without an answer, unless its session is lost, and that such a
dispatch has its future on file. It assumes `DistinctRequests`: no request id is
dispatched twice, which `SoleDecisionRunsOnce` gives where one decision was
accepted, and two approvals that raced do not. `FeedInv` is
the longest: the feed and the table are written by two steps with a wait for
the database in between, so it says that everybody who waits is in the queue
once and nobody else is (`QueueIsExact`), that an offline mark stands in it
before the online mark of a session that came later, and hence who will speak
last.

`DeviceLinkProofs` proves `TypeOK`, `GivesUpForAReason`,
`CodeOutlivesLostHellos` and the refinement `ImplementsRemoteCall`. Its lemmas
say which frames a step can have put into a queue, and the invariants speak of
what is in a queue, wherever it is. `PromiseInv`: a request travels once and
towards an agent that has no job for it, a job has acted once or not at all, and
a result "completed" on its way tells of an act. `ReasonInv`: what a hello found
stays true but for a registration that overlapped it, a session that is filed and
not yet welcomed is of a registered key (`FiledIsKnown`), the agent keeps its code
until its key is registered, and whoever is refused, or about to read that he is,
has no key and no valid code, or met another hello of his.

`EventFeedProofs` proves `TypeOK` (so the run does not check it) and
`ShowsTheTruth`. The property is inductive with these additions: devices have
the values of devices, a socket that is off has nothing queued, and `Core`: a note
that is still to be told is of a write that was made, and that of the latest write
says the truth (`NotesAreTrue`); what was told was written; a denial under way is
of an approval that was asked for. So an event that is not overtaken, and after
which the subject is `Settled`, says the truth. The argument is about
the last event of a subject in a queue: either a step appends one, which then
tells the truth or makes the dashboard `blind`, or it takes the head away, and
then the base shows what the last event said.

`SpeechProofs` proves `TypeOK`, `InOnePlace`, `PlaysInOrder` and `StopIsFinal`
from

    SpeechInv == TypeOK /\ InOnePlace /\ Numbered /\ Sorted /\ Told /\ Listed /\ NothingDueIsLeft

A clip is in one place between the queue of the host and the loudspeaker, and a
new one has a number none before it had (`Numbered`, which is why the numbers may
start at 0 again after an interruption). What travels to the dashboard is sorted
by generation and each stop in it begins a new one (`Sorted`); while nothing of
it was lost, what waits at the dashboard is of the generation it was told last,
and the clip before the one a run is at was taken up (`Told`), which is the order.
That no clip which is due is left waiting needs the list of runs that `pump` walks
over to name the run of every clip (`Listed`).

`HermesBridgeProofs` is about texts. `SpeaksAsWritten` says that the division into
deltas does not matter, so its proof is about `sentences` applied to a text and to
the text with more behind it. The argument: where a text has been cut once it is
cut for good (a stop followed by space stays one, whatever comes later), so a
text may be parted at its last end of a sentence, and the sentences of the whole
are those of the first part followed by those of the second (`Parted`,
`DoneApart`, `DoneBehind`); what is held back is the text behind the last end but
for spaces at its head, which matter to no end (`LeftOfSame`); and the tokens
written are those of the sentences, in order, and of what is left
(`WrittenInTurn`, `WrittenRemainder`). `HermesBridge` computes with recursive
functions over texts, and what they return is proved by induction.

`PresenceProofs` proves, for any scenarios: `PendingIsCounted`, from `Inv`: a
request is announced once, when it is new, and the announced are finitely many;
each step changes `Unsettled` by one request or not at all. `TypeOK`, from
`TypeInv`, which adds that a run that is not free has somebody in line, and from
lemmas that each method of the engine, `Tick` with its loop among them, returns an
engine. `NeverBusyForNothing`, from `BusyInv`: a report of a clip's end follows
the clip, a report of its start is not left alone without that of its end unless
one was lost or overtaken (`ReportsAreTrue`), and an engine that believes audio is
playing is right or will hear otherwise (`AudioIsHeard`). `SpeaksAsWritten`, from
`SpokenInv`: while text streams there is no answer yet; the rest is the argument
above, delta by delta.

`CatchesUp` compares a gap walked through in steps of `MaxStep` with one walked
through unit by unit, for gaps of any length. `At` says in closed form, without
steps, what has become of an engine by the time t: it sleeps if it is night and
it slept all along, or has been idle for long enough by then (`Asleep`); its debt
is gone if an hour of clearing has begun (`Clean`); its last interaction is still
that of before, or a morning it woke up (`Woke`). The heart of the proof is
`AtStep`: a step of at most `MaxStep` leads from the closed form to the closed
form, whatever its length, so the two that are compared agree in activity and
debt. That is where the windows matter: a step longer than a window of the day
jumps over it, and with a day of 12 units and steps of 9 TLC finds a character
that wakes up in one granularity and not in the other. The theorem therefore
supposes `LongWindows`: night, day and the hours in which debts are cleared are
longer than a step, and a day is long enough for whoever woke up in it to be
idle by the next night. `CharacterConfig` has 60 s against hours and 600 s of
idleness. It also supposes `WrittenRows`: what the first process finds was
written by one with the same windows, so nobody in it sleeps by day; that this
remains so is the invariant `DayInv`. The run does not suppose it: its rows are
of both kinds. Energy has no closed form, as a
step books all its time at the rate of its end; a step is off by less than its
length at the highest rate, and only if the rate changes inside of it (`Coarse`,
`RateSwings`), which it does at nightfalls, at mornings and when it falls asleep
at night, once in all (`SwingsAreEdges`). `CatchFar` takes away the steps of a
tick that was already late before the process went down, which both sides make
alike.

Of the start of the core, `PartsProofs` proves `ProcessTypeOK` and `PinsLast`. What a client holds
is compared with what the server loaded, and the link between the two is the
pair on disk: while it is whole, whoever fetched it holds it (`Held`) and the
server serves it (`Serves`); when it is not whole, everybody's certificate is
older than a loss (`Broken`), because a pair is only minted when a file is
missing; and the pair that is being written differs from what is left of the old
one (`Writing`, `Numbered`).

Of the model catalog it proves `CatalogIsFresh`, for any number of threads that
overtake each other. The catalog and its time are assigned apart and may be of
different calls; the invariant says that the time is at most one listing too late
(`StampIsClose`) and that no fill leaves a catalog behind that is older than that
(`Fills`), so that an answer is at most a time to live and one listing old.

Of the recorder it proves that an open microphone is that of the recording on
view, or of a start that still has to look at the generation, or one whose
capture could not be opened; and that a view that is gone has no recording. It
is the safety half of `MicCloses`; the invariant adds that media belong to the
current start, which has then come to its end.

### Induction

The induction theorems of the library take an operator for a parameter, which the
provers cannot instantiate. `HermesBridgeProofs` therefore starts from the fact
that `<` is well-founded on the natural numbers, derives that a non-empty set of
them has a least one, and from this that a set which has 0 and with each number
its successor has them all (`LeastNumber`, `Induction`). A statement is proved for
every number by stating the set of numbers it holds of. So are proved that a
recursive function over a text is what its definition says, what `FlattenSeq` of
the community modules returns, what the loop of `Tick` preserves
(`TickInduction`), how the clock of the day goes on (`ClockLater`), and what many
small steps of energy add up to (`FineBounds`).

### What is only model-checked

The liveness properties (`ApprovalsLapse`, `RequestsSettle`, `CoreComesUp`,
`MicCloses`, `DeadGoOffline`, `DispatchEnds`, `ComesBack`, `FallsSilent`,
`AsksReturn`, `DashboardsCatchUp`), which need fairness and are out of the
prover's reach.

## What is not modelled, and why

* Signatures and canonical JSON are taken to work: a frame that does not verify
  changes nothing. Storage errors are not modelled, as the code does not handle
  them. The metrics history and the settings other than the character's are
  rows nothing decides by.
* The heartbeats of the agent are the reaper's freedom in `DeviceLink` and the
  `beat` frames in `Gateway`; the ticker itself is not modelled. The adapters are
  single calls to the operating system, the agent's `main` is flags and files.
* The MCP server checks that the device exists, which it does for ever once it is
  paired, and calls submit on behalf of Hermes: a caller of `ActionService`.
* Of Hermes' bridge, `healthy` and `respond_approval` forward one request and keep
  nothing; `instructions` formats. The branch of `sentences` for digits cannot be
  taken, as a stop inside a number is not followed by whitespace.
* Of the character, rounding and the order of `character.state` events; of the
  store, the conversation, the activity list and the voice status, which only
  grow. A reducer is taken to treat subjects independently, as it does.
* Speech services, signal processing, the encoding of sound, frame drawing, React
  views, addresses and links shown to the user, the development agent, scripts,
  assets and deployment have no protocol of their own.
