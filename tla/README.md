# DDCS in TLA+

This directory holds TLA+ specifications of DDCS, the configurations that
model-check them with TLC, and proofs checked by TLAPS. `PROJECT.json` is the
index: it links components, modules, runs, properties and hazards to the lines
of the source they are about.

DDCS controls a fleet of devices. A controller process accepts TCP connections
of agents, each agent looks after one device. Agents report load and
temperature; the controller derives the mode each device should be in and sends
commands until the agent confirms them. Controller and agents are single-threaded
programs around an edge-triggered epoll reactor. So the difficulties are not data
races. They are handlers that call each other back synchronously (disconnecting
or sending may end connections, the handler's own included, before the call
returns), responses that arrive late or for something that no longer exists,
timers that race with them, lost connections and restarted controllers.

## Inventory

| component | state | operations | interacts with |
|---|---|---|---|
| CommandService (ctrl/app/device) | per device one tracked command: id, mode, attempts, in flight or backoff, deadline, failure sink; next id; counters | dispatch, acknowledge, settle, sweep (timeout, resend, give up), detach_failure_sink | sends through CommandSender; tells the policy service of failures (callback); told of responses by SessionService; swept by the tick |
| PolicyService (ctrl/app/device) | policy, regime per group, DeviceControl per device, commands still to dispatch | evaluate, command_one, set_policy, on_command_failed, on_device_released | reads shadows and active devices; dispatches through CommandService; both callbacks may run inside dispatch |
| GroupRule, DeviceControl (ctrl/domain) | thermal latch, what was commanded, whether it failed | next_regime, next_thermal, decide, dispatched, failed, clear_record | pure, used by PolicyService |
| StatusService, RegistrationService, DeviceRegistry | a shadow per device: group, last status | update_status, register_device | written by SessionService, read by PolicyService; shadows outlive sessions |
| SessionService, SessionRegistry (ctrl/app/session) | a session per connection: handshaking, confirming or active, device, last_seen; index from device to connection | on_connected, on_disconnected, on_message with its handlers, sweep; CommandSender::send | calls Disconnector and Sender synchronously; they call on_disconnected back |
| transport Server, Acceptor (ctrl/infra) | connections by id, receive ring and transmit queue each, reap queue, spare descriptor | accept, receive, send, disconnect, reap, stop | reactor events in, session callbacks out |
| Controller (ctrl) | sweep timer, fixed-rate schedule, signals | start, tick (command sweep, session sweep, policy evaluation), reload, stop | assembles all of the above |
| agent SessionService (agent/app) | idle, registering or active; the last command and its result | on_connected, on_disconnected, on_message, on_timer | drives the device; sends through Connector; Connector calls it back |
| AgentFleet, Agent, bootstrap (agent), device identity (apps/agent) | members, start timer, signals; a file | start, start_next, stop; load or create the identity | owns reactor, timers, connectors; `main` runs and stops it |
| agent Connector, BackoffSchedule (agent/infra) | connection state, receive ring, transmit queue, application timers, reconnect timer, attempt | connect, events, send, disconnect, timers | reactor and timers in, session callbacks out |
| Reactor, ChannelRegistry (io) | channels by descriptor, with a generation | register, modify, deregister, run_once | batches of events carry a token of descriptor and generation |
| TimerScheduler, TimerQueue, TimerRegistry (io) | slots with generations, a heap with stale entries, a timerfd | schedule, cancel, dispatch | callbacks schedule and cancel |
| SignalSource (io) | signalfd | events | stops the controller, reloads the policy |
| frames, CircularBuffer, LinearBuffer (wire, common, net) | ring with two cursors, buffers with headroom | receive_into, decode, frame, send_from | used by both transports |
| ObjectPool (common) | free list, counts | acquire, release | message buffers |
| message and command codecs (wire) | none | encode, decode | used by both session services |
| metrics, Prometheus endpoint | counters, HTTP connections | expose | reads counters of the services |
| profiling, profile-report, profile-verify | samples of a tick, a file | record, serialize, dump; read, analyse, compare with the metrics | observes the tick; the tools read the file and a scrape |
| JSON | values | parse, write | recordings, configuration and policies; start-up and reload |
| simulated device, configuration lookup, logging | a random walk; none | | not modelled |

What makes each part correct, and hard:

- **Commands.** Every command gets exactly one verdict, and gets it although the
  agent stays silent; at most `max_attempts` transmissions although a late
  acknowledgement takes a command out of its backoff; counters that add up
  although responses are stale, sends fail and the sweep works on commands it
  collected earlier.
- **Policy.** A device is not told the same thing on every tick, but is told again
  whenever what it was told may be lost: failure, reconnect, reload, a connection
  that breaks while the command is being sent. Regimes do not flip inside their
  bands. A protected device stays protected until it was seen cool, and then does
  leave protection, also when the regime of its group is unknown.
- **Sessions.** The registry has a map and an index; kicking an older connection,
  rejecting, failing to send and expiring all modify both in nested callbacks. A new
  connection of a device always wins. A registration that stalls and an agent that
  falls silent are noticed.
- **Agent.** It never stops trying; its timers match its state; a repeated command is
  answered but not applied twice, a new command is never mistaken for an old one,
  although a restarted controller starts again at id 1.
- **Transport.** A connection is reported as ended at most once, after its messages, which
  are delivered in the order they were sent, and one that is gone was reported; nothing touches a
  connection after it was reaped; a full descriptor table does not silence the
  listener.
- **Tick.** Order of the phases, the next tick scheduled on every path, deadlines on
  the grid of the period.
- **Reactor and timers.** An event or expiry is delivered only to the registration
  it was meant for, though descriptors and slots are reused within one batch.
- **Frames.** What is extracted is what was sent, over a ring that wraps, for connections
  that follow each other and share a pool; a frame within the limits always
  completes; every buffer comes back to the pool, once.
- **Codecs and JSON.** What was cut or extended on the way is refused, or is another
  well-formed text.
- **Recordings.** The dump is whole or not there, and what the tools say of it is true of the
  run, although the origin of the recording in UTC is known up to an interval only.
- **Fleet.** Members are started in steps, in order, all of them; wherever a signal or an
  exception hits, no event or timer of a member outlives the members.

The full list, with lines and the property that watches each, is `hazards` in
`PROJECT.json`.

## Modules

| module | models | proofs |
|---|---|---|
| `CommandLifecycle` | abstract: ids, open commands, one irrevocable verdict each | |
| `CommandService` | CommandService with its counters; refines `CommandLifecycle` | `CommandServiceProofs` |
| `DeviceControl` | GroupRule and DeviceControl as operators | |
| `PolicyService` | PolicyService, DeviceRegistry and the device-related services, composed with `CommandLifecycle` and `DeviceControl` | `PolicyServiceProofs` |
| `SessionService` | SessionService, SessionRegistry, CommandSender | `ControllerServicesProofs` |
| `AgentSession` | the agent's SessionService and Connector, composed with the controller's session as a peer over a connection | `AgentProofs` |
| `ConnectionPort` | abstract: what a transport promises its session layer | |
| `TransportServer` | the controller's transport Server and Connection; refines `ConnectionPort` | `TransportServerProofs` |
| `Acceptor` | the accept loop, the descriptor table, the spare descriptor | `TransportServerProofs` |
| `Timers` | abstract: timers that expire once, in time, in the order of deadlines and tokens | |
| `TimerScheduler` | TimerScheduler, TimerQueue, TimerRegistry and the timerfd; refines `Timers` | `AgentProofs` |
| `Reactor` | Reactor, ChannelRegistry and Channel over epoll | `ReactorProofs` |
| `ControllerTick` | Controller, tick execution, fixed-rate schedule, SignalSource, the profile recorder and the end of `main` | `ControllerTickProofs` |
| `PrometheusServer` | the connections of the metrics endpoint | `ControllerServicesProofs` |
| `CircularBuffer`, `LinearBuffer` | the ring and the buffers as operators on records | `FrameStreamProofs` |
| `ObjectPool` | slots, free list, growth by chunks | `FrameStreamProofs` |
| `FrameStream` | framing in both directions over these three, as Server and Connector use them | `FrameStreamProofs` |
| `MessageCodec` | wire messages and commands as bytes | `FrameStreamProofs` |
| `JsonText` | JSON values, writer and parser | |
| `TickProfile` | recorder, serializer, analysis, profile-report, profile-verify | `ControllerServicesProofs` |
| `ProfileDump` | dump_recording over a file system that fails and crashes | `ControllerTickProofs` |
| `AgentFleet` | AgentFleet and the `main` around it | `AgentProofs` |
| `BackoffSchedule` | the reconnect delay | |
| `DeviceIdentity` | the identity an agent keeps between starts | |
| `MCPolicyService`, `MCTransport` | instances of `PolicyService` and `TransportServer` for TLC: policies and input values, bounds per kind of behaviour | |
| `MCTick` | the instance of `ControllerTick` for TLC, with files that parse and that do not | |
| `MCAgent` | `AgentSession`, `TimerScheduler` and `AgentFleet` in one run | |
| `MCEventLoop` | `Reactor` and `Acceptor` in one run | |
| `MCData` | `FrameStream`, `MessageCodec`, `JsonText`, `TickProfile` and `ProfileDump` in one run | |

In the last three a variable `component` says, once and for all, which part a behaviour
exercises; the others rest in an initial state. `MCAgent` extends its three modules, `MCEventLoop`
extends `Reactor`, and `MCData` extends all of its modules but `ProfileDump`, so the invariants they check are the very definitions the proofs are about. They are unions of independent instances, not
compositions: the parts share no variable, and fairness and liveness are those of each part.

Operators marked `Slip` in a module are mistakes one could make in the definition
that follows. The specifications do not use them. Each is paired in
`PROJECT.json` with the property that notices it when it is substituted.

Each module states one consistency invariant, a conjunction of named parts: its type invariant and
what holds between its variables in every state (`CommandsConsistent`, `SessionsConsistent`,
`ServerConsistent`, ...). Promises to the outside, action properties and liveness stand beside it.

### CommandService

`pending` is `pending_`, a function on the devices that have a tracked command. The
actions `Dispatch`, `Acknowledge`, `Settle` and `DetachFailureSink` are whole
methods; `sweep` is split where the code has a loop over what it collected before
(`SweepBegin`, then `SweepTimeout` or `SweepResend` per command), so that what happens to
one command between collection and handling is visible; `Idle` keeps other handlers
out meanwhile, as the single thread does. The result of sending is
an input: sent, offline, or not encodable. Sending hands the message to the
network as a *transmission* which the agent may acknowledge and answer later, never,
or after newer ones: `unacked` and `unanswered` are sets, so responses come in any
order across transmissions. Within one transmission the answer follows the
acknowledgement, which is the order the agent sends them in.

Time is relative: a slot has the remaining time `due` instead of `next_at`, and
`Elapse` decreases it; below -1 nothing distinguishes values. The 64-bit id is bounded by
`MaxCommands`. Round-trip times, the only other thing the code records, are left
out since nothing reads them back.

### DeviceControl and PolicyService

`DeviceControl` has the decision functions. Optional values are sets with at
most one element. Loads and temperatures are integers because the code only adds and
compares them (the code works with doubles: rounding of sums is outside the model; values that are not
finite are dropped by `StatusService` and therefore no inputs).

`PolicyService` models `evaluate` as the decision for all devices (`Evaluate`)
followed by one `CommandOne` per device to be commanded, since dispatching can end the
connection of the device and call `on_device_released` in between. Of the session
layer it keeps which devices are active: `Enroll` (a registration, which kicks the older
session), `Activate`, `Deactivate`. Of the command subsystem it uses the promises,
`CommandLifecycle`; the failure callback is `CommandFails`. A policy is any member of
`Policies`, and `SetPolicy` is a reload that parsed. `commanded`, `protected` and `quiet` are
history variables for the properties. `quiet` says that nothing came from outside since the last
evaluation: no report, no session that began or ended, no reload, no command that failed or could not
be sent. `CommandsHaveCause` is the action property that an evaluation after such a time commands nobody. Counting
commands against disturbances would not say that: a device that becomes active changes the average of its
group, and with it the regime and what every member is told.

### SessionService

`sessions` and `device_index` are the two maps of SessionRegistry. `Disconnect` is the
effect of `Disconnector::disconnect` together with the `on_disconnected` it calls
before it returns; `HandleRegisterRequest` contains the nested end of the kicked
connection and the possible end of the connection itself when sending the outcome fails or breaks it.
`sweep` is split like the one of CommandService. `commanded` is history: the
connection over which a device was last sent a command since the policy service was
last told to forget it. Connection ids are never reused (`Server::issue_id` counts
up in 64 bits), bounded by `MaxConnections`.

### AgentSession

The agent's handlers are whole actions: `OnConnected`, `OnRegisterOutcome`, `OnCommand`,
`OnRegisterTimeout`, `OnPeriodicTimer`, with what Connector does under them. A parameter
`breaks` says whether a send in the handler fails to arm write events, in which case
Connector ends the connection and calls `on_disconnected` inside `send`, and the handler
carries on with a session that was reset under its feet. Only the first message
queued on an empty queue can do that. The history variable `intact` says that it has not happened
yet; what both sides agree on is promised until then. `Connect`, `ConnectFails` and `ConnectionLost`
are the connector's own paths. `Dropped` is `disconnect_and_reconnect`.

The controller is the state of its session for the present connection (`peer`), what
it sent on it (`inbox`), and its incarnation (`epoch`) with the ids issued so far; it
handles a message when it is transmitted, as SessionService does. The tail of `inbox` and `tx` is lost with the
connection; messages on a connection are not reordered or duplicated, since it is
TCP. Delays are open, so any timer races with any message; the length of the reconnect delay
is in `BackoffSchedule`. The branch of `on_message`
for a message that does not belong to the state is left out: `ProtocolAgreed` shows
that the runs never need it.

The controller's rejection of a registration is queued and then dropped, because
the connection ends in the same handler. The agent is nevertheless ready to
receive it, so the model allows both.

### TransportServer

Callbacks of the session layer may send and disconnect before they return, and a
reap may run in the middle of a callback. Therefore the call stack of the reactor
thread is a variable, `stack`, with one record per call in progress, and the code
between two points where a callback can have changed something is one action
(`Receive`, `DispatchFrame`, `AfterDispatch`, `AfterRead`, `Reap`, ...). The session layer
is free: whenever it is running it may send to or disconnect any connection it knows,
return, or throw. `connections` and `reap_queue` are the members of Server. A socket has
what arrived, what it still takes, and whether it was closed or broke; `ready` is what epoll will
report, set on edges only. Frames pass the ring in one piece, numbered as the peer sent them, and are good or bad; their bytes are the
matter of `FrameStream`. A behaviour begins with one of several budgets for what comes from outside. The reactor
may refuse an accepted connection, or throw (`throws`). `ConnectionPort` is what SessionService relies on: connections announced in the order of ids,
the messages of a peer only after that, in the order in which it sent them, none left out and none twice, and then at most one end. Its state is, per
connection, how many messages the peer has sent (`sent`) and the numbers of those delivered (`heard`). `Acceptor` is a module of its own: the accept
loop shares no state with the connections it hands over. In it accept4 allocates a descriptor before
it looks at the backlog, as the kernel does, which is why a full table makes it fail
with an empty backlog as well.

### Timers and TimerScheduler

`slots`, `free` and `heap` are the registry with its free list and the priority queue,
which keeps entries of cancelled timers until they come to the top. `armed`, `ticks` and
`edge` are the timerfd: when it expires, whether it has an expiration that was not read, and
whether epoll will report it. Setting the timerfd forgets an unread expiration. `issued` is history: the tokens handed out. A dispatch is `OnReady`,
`Expire` per timer, `DispatchDone`; between `Expire` and `CallbackReturns` the callback schedules, cancels
and stops. Of the pending timers `Timers` knows the deadline and the token,
by which equal deadlines are ordered.

### Reactor

Slots by descriptor with generation, the interest list of the kernel with the token given
to it, and the batch that `epoll_wait` returned. Handlers add, remove, close and open
channels between the events of a batch; a descriptor that was closed is the next one
opened. Each registration has a number of its own, a history variable that tokens
are compared with. A handler may stop the loop, and the rest of the batch is dispatched nevertheless (`AfterHandler`).
`modify` is left out, it keeps the token.

A generation is a number of 32 bits that wraps, here of `Generations` values, and it does wrap in the run. A stale event is told from
one of the present registration only as long as the generation of the descriptor has not come round within the batch. The
code relies on that and the model says so: `renewed` counts the calls of `add` by the handlers of one batch, and `Renews` keeps
them below the number of generations, which is 2^32 - 1 in the code.

### ControllerTick

`at` is where the process is: booting, waiting, in a phase of a tick, rescheduling, draining
signals, stopping, dumping (one step here), ended. A phase takes any time and completes or throws; what it does is
in the modules of the services. The timer is used as `Timers` promises. Signals that are
pending merge by number; they are taken in the order of their numbers; before the controller blocks them and after
it restores the mask they have their default action, which ends the process. The policy
file is edited at any moment and is valid or not. Each attempt has a `sample`, as the recorder
gets it, with a time per phase; times are absolute. Recording disabled and a clock that
went back (`relative_ns` without a value) are not modelled.

### PrometheusServer

`PrometheusServer` counts requests and responses in units. Every handler ends with
the reap queue empty and nothing calls back, so the queue is not a variable: `Drop` is
scheduling and reaping. `Modify` is a step of its own, since room may appear between the failed
send and the change of interests. `refused` is history: the connections given up because epoll
would not take them. An exception while a connection is accepted (`AcceptThrows`: no memory for it in the pool or in a table) leaves
the loop and ends the controller, and the endpoint with it (`EndOfServer`).

### FrameStream, CircularBuffer, LinearBuffer, ObjectPool

A ring is a record of its storage and the two sequence numbers, which count modulo `SeqModulus` and
wrap; `Peeked` goes through one or two spans as the code does. A linear buffer is
headroom and data. The pool has slots that are available, in the order of the list, or used; it grows by a chunk or fails to, and a
slot goes back reset to the front of the list. `FrameStream` has both directions of one
connection after another: `Receive` is one `recv` up to the end of the storage, `ReceiveReturns` what ends the loop of them,
`DispatchFrame` decodes and hands a pooled payload to a callback, which may disconnect and queue; `Send` frames a
message by prepending; `Transmit` is one `send`, which takes a part of the front buffer or all of it.
`Close` returns the queued buffers to the pool, from whatever handler the connection ends.
A byte is a small number, each half of the header is one byte; a payload may look like a
header. The histories `sent`, `stray`, `heard`, `queued`, `written` state the reference: what is heard, what lies in the ring
and what is still to be read are what was sent, what is written and what is queued are the accepted messages, framed.

Controller and agent have separate but equal code for this; where they differ (who closes on
what) the comment at the action says so.

### MessageCodec and JsonText

A message is encoded field by field into a tailroom that may be too small, possibly cut or
extended, and decoded; bytes are digits of base `Base`, so that a value of two digits has its lowest byte
first. The fields of a message are those its encoder has (`FieldValues` says of what kind each is), and a payload has
a length that two bytes express, which is what the length of a frame allows. Encoder and decoder are recursive functions over the list of fields, since proofs
are about them. The reference is the message itself: what was
sent whole comes back, and what was cut or extended is refused by the decoder of the message or by that of the command
in it. `JsonText` has the recursive parser with its depth counter over tokens, and
writer and object lookup; its recursive operators keep it to TLC. The reference for parsing is the
inverse of writing, and a grammar of the tokens.

### TickProfile and ProfileDump

`TickProfile` follows one measurement: the controller takes the UTC of its origin between two
looks at the clock, records ticks into a recorder that may be full, counts them for the
metrics (each duration rounded to microseconds), is scraped in the middle, ends or throws,
serializes (`DumpRecording`); somebody may edit the file, in one of the ways of `Changed`; `Verify` and `Report` are the two tools. The properties
compare what the tools say with the histories `origin`, `scraped` and the recorder, which the tools
do not see; what a report says is kept with the window it was asked for. Times are bounded by `InTime`: nanoseconds since the origin fit 64 bits, as in the
code, which has 584 years for it; a file may say otherwise, and `Lengthened` makes one that does, for the sums to overflow.
Sums and digits are recursive functions, because proofs are about them. `ProfileDump` has one action per system call, each of which may fail; the
process may be killed and the system may crash between any two, losing what was not synced; another
program makes and removes the output.

### AgentFleet, DeviceIdentity, BackoffSchedule

In `AgentFleet` a member is the state of its connector: a socket, a timer, or gone. `batch` and `due` are the
events and timers that the reactor and the scheduler have collected but not dispatched; stopping
in the middle must leave nothing of them to be delivered to a destroyed member. `DeviceIdentity` is the
decision where the identity comes from, over several starts, with the stream that saves it closed after the
decision what to announce. `BackoffSchedule` counts time in units of 2^24 ns, so that the 32
bits of the random number, the default base and the default cap keep their ratios.

## Runs

Each run finishes within five minutes on two workers, most within two; `Policy`, with 398 569 states, takes longest. All but the three that show
findings use a specification with fairness, so that one instance answers for safety and progress alike.

| run | instance | shows |
|---|---|---|
| `CommandService` | 2 devices, 2 commands, 2 attempts | counter identities, retry budget, sweep targets, no callback after detach, refinement of `CommandLifecycle`, every command resolves |
| `Policy` | 2 devices, 2 groups, 3 policies, 4 commands, 5 disturbances | records are backed, latches hold, commands have causes, protection ends and control converges (`GovernedInTheEnd`) |
| `Session` | 2 devices, 3 connections | index, counters, history and sweep are consistent; a new connection wins; stages end, silent agents lose their session |
| `Agent` | session: 2 commands, 1 restart, 3 faults, sends that break; scheduler: 3 timers, 3 instants; fleet: 3 members, with and without interval, exceptions | waits are timed, protocol and outcomes agreed while `intact`; registry and timerfd exact, refinement of `Timers`; nothing outlives the end of a fleet; each part gets where it must (`ProcessMoves`) |
| `Transport` | 2 connections with answers, with failures, or with a reactor that throws over one of them; 1 connection with 3 frames, 2 messages, a ring for two and a socket for one, and exceptions | reap queue exact, clean between events, refinement of `ConnectionPort` with the order of messages; no edge lost, close after messages, everything read and transmitted |
| `EventLoop` | reactor: 3 channels, 2 descriptors, 3 generations, 5 registrations, batches of 2; acceptor: 4 arrivals, 2 free descriptors, both tables fill, another error | registry and kernel agree, events reach their registration or nobody, while generations wrap; what is ready is served, spare held, rejections counted, backlog drains (`LoopServes`) |
| `Tick` | period 2, 6 instants, 2 signals, 2 policies, a file that does not parse, an edit, recorder of 2 samples, phases throw | grid of deadlines, samples valid, attempts recorded once, no signal forgotten, latest policy in force (`ControllerConsistent`); recording and metrics agree; ticks keep up until the controller is told to stop, and none after (`TicksUntilStopped`) |
| `Data` | frames: ring of 4 with cursors modulo 8, four budgets; messages of all types, 5 tailrooms; 4 JSON values, depth 2; 3 ticks, recorder of 2; dump of 3 bytes | streams intact, buffers returned once, decoders sound, reports true, dump whole or absent; a handler that began ends, and what is queued is written |
| `Prometheus` | 2 clients, one without end of its request, faults | no scrape forgotten, stranded connections reported, scrapes answered, abandoned connections end |
| `AgentDedup`, `Identity`, `Backoff` | | violations, see findings |

**Bounds.** Two devices are what an interaction between devices needs: commands of
different devices share only the sweep and the id counter, sessions only the sweep
and the index; the third device adds nothing that the second does not. Two commands
let one supersede another, on the same or on the other device; two attempts give the
first transmission, the backoff, the resend and the exhausted budget, with a
timeout of one unit, so that answers arrive before, at and after it. Three
connections allow two to compete for one device while a third registers, is kicked or
expires. The handshake budget (1) is shorter than the
liveness budget (2), so that the two are told apart. In the policy run loads
lie below and above the band and the average of two devices inside it, temperatures lie below, in and
above theirs; the policies differ
in whether g1 has thermal limits and whether it has a rule at all. `MaxDisturbances`
counts everything that comes from outside; five of them let both devices register and
report and something change afterwards, or one device register, report, trip, reload and
reconnect. `Tick` has as many instants as a tick that overruns two periods takes, with another one after it. Agent runs have three faults, the least
that breaks a registration, a command and a reconnect of the same history, and
`MaxQueued` bounds what the periodic timers queue while the socket is not writable.
Two connections let a callback of one end the other or itself, in any nesting; the
call stack grows with disconnects only, of which one per run is enough for a reap within a reap, because a
second fault or tick adds another. A ring for two frames and a socket for one are full as often as they
can be, and two frames in a ring have an order; the third arrives while the ring is full. Three timers give a reused slot next to a fresh one and a stale entry below them.
The lowest free descriptor is taken, so with three channels on two descriptors a closed descriptor comes back within the batch
under another channel; five registrations of three generations wrap. With batches of two a stale event is always the last of its batch; that
an event behind a stale one is still delivered is left to the proof, which is for batches of any length.
A period of two instants has ticks that begin at, within and
after it. A recorder of two
samples fills up, and one sample follows another.
The file has the first of the valid contents at the start, or does not parse; an edit makes it the other or breaks it or repairs it. `MCTick` leaves out what
differs from this in names only: which valid contents are first, and SIGTERM alone, which is handled as SIGINT is.
A ring of four bytes holds the longest frame exactly (a header of two, a payload of two), so every position of a
header and of a payload relative to the end of the ring occurs, and cursors modulo eight wrap after two rounds. The pool
grows by two and has memory for one or two chunks. The budgets of `Data` trade frames against
messages and connections: two of each in one behaviour are out of reach, any pair of kinds occurs.
A recorder of two and three ticks give a recording that is complete, one that dropped a tick,
and a scrape before, at and after the drop. Three members of a fleet have a first, a middle and a last one.

**Deadlock** is not checked: each instance comes to rest when its bounds are used up
(all ids handed out and answered, all connections ended), which is the end of the instance, not a
state in which the program is stuck. Progress is checked by the liveness properties instead.

**Fairness.** The handlers of a process run to completion, so a sweep or an evaluation that
began goes on. The controller's tick schedules its successor on every path,
including after an exception (`Controller::on_expired`), so the sweeps and the
evaluation recur: weak fairness of `SweepBegin` and `Evaluate`. The clock goes on:
weak fairness of `Elapse`. Nothing is assumed of agents in `CommandService` and
`SessionService`: they may fall silent for ever. In `PolicyService` the verdict of every
command is assumed, which is what `EveryCommandResolves` shows of
`CommandService`. For the agent, armed timers fire, ready sockets are served and an attempt to
connect ends in success or failure; each of these is level-independent because the handlers read and write until
they would block. Fairness is on the forms of an action that are not faults, and faults are
finite: the liveness properties say what happens once nothing fails any more.
In `FrameStream` the handlers go on, callbacks return, and a live peer reads what was transmitted; in the fleet the
reactor goes on and the start timer, once armed, is reported even while other events keep coming (strong fairness:
epoll reports what is ready in turn). In the transport, timer, reactor and endpoint modules the fair actions are those of the loop
itself: an event that epoll has ready is reported (each descriptor for itself: epoll takes the ready
list in turn), a handler that began goes on, a callback returns. Beyond the program, the
clock goes on, a timerfd that is due expires, and a peer that has something to read reads it; the last is
assumed only where the property is about transmitting. `ControllerFairSpec` lets the process
go on and time pass, so that no phase of a tick takes for ever.

## Theorems

| theorem | statement |
|---|---|
| `CommandTypeCorrect` | `CommandSpec => [](CommandTypeOK /\ BackoffHasAttempt)` |
| `ConservationHolds` | `CommandSpec => []Conservation` |
| `CommandsAlwaysConsistent` | `CommandSpec => []CommandsConsistent`: the types, the retry budget, and sweep targets that are tracked and due |
| `NeverNotifiedAfterDetach` | `CommandSpec => NoCallbackAfterDetach` |
| `LifecycleImplemented` | `CommandSpec => ImplementsLifecycle`: CommandService refines `CommandLifecycle` |
| `RecordsAlwaysBacked` | `PolicySpec => []PolicyConsistent` |
| `LatchesHeld` | `PolicySpec => HysteresisHeld` |
| `NoCommandWithoutCause` | `PolicySpec => CommandsHaveCause` |
| `ProtectionAlwaysReleased` | `PolicySpec => ProtectionReleased` |
| `RegistryConsistent` | `SessionSpec => []SessionsConsistent`: types, `IndexInverse` and `VictimsOverdue` |
| `CommandedOverPresentSession` | `SessionSpec => []CommandedOnThisSession` |
| `NewWinsAlways` | `SessionSpec => NewWins` |
| `ClosesAccounted` | `SessionSpec => []EveryCloseCounted` |
| `ServerAlwaysConsistent` | `ServerSpec => []ServerConsistent`: types, `ReapQueueExact`, `CleanBetweenEvents`, `SynchronousDisconnect` |
| `NothingEverForgotten` | `ServerSpec => []NothingForgotten`: `NoLostEdge`, `CloseAfterMessages` |
| `PortImplemented` | `ServerSpec => ImplementsPort`: TransportServer refines `ConnectionPort` |
| `AcceptorAlwaysConsistent` | `AcceptorSpec => []AcceptorConsistent`: types, `StrandedOnlyAfterReport`, `SpareHeld`, `RejectionsCounted` (the safety part of `LoopServes`) |
| `RegistryFollowsKernel` | `ReactorSpec => []ReactorConsistent` |
| `DeliveredAsRaised` | `ReactorSpec => []DeliveredToItsRegistration` |
| `SchedulerIsConsistent` | `SchedulerSpec => []SchedulerConsistent`: types, `RegistryExact`, `ArmedForNext` |
| `TimersImplemented` | `SchedulerSpec => ImplementsTimers`: TimerScheduler refines `Timers` |
| `AgentAlwaysWaits` | `AgentSpec => []AgentConsistent`: types, `ReconnectPending`, `WaitsAreTimed` |
| `SessionsAlwaysAgree` | `AgentSpec => []SessionsAgree`: `ProtocolAgreed`, `OutcomeTruthful` |
| `CommandsAppliedOnce` | `AgentSpec => AppliedOncePerSession` |
| `FleetIsConsistent` | `FleetSpec => []FleetConsistent` |
| `ControllerAlwaysConsistent` | `ControllerSpec => []ControllerConsistent`: `TicksOnGrid`, `RecordingSerializable`, `AttemptsRecordedOnce`, `SignalsServed` |
| `MetricsAlwaysMatch` | `ControllerSpec => []MetricsMatchRecording`, for a recording of any length |
| `NextDeadlineAlwaysAhead` | `ControllerSpec => NextDeadlineAhead`, the safety half of `TicksKeepUp` |
| `NoTickEverAfterStop` | `ControllerSpec => NoTickAfterStop`, the safety half of `StopHonoured` |
| `PromAlwaysConsistent` | `PromSpec => []PromConsistent`: types, `NoLostScrape`, `BacklogReported` |
| `DumpIsWhole` | `DumpSpec => []DumpConsistent` |
| `OthersAreKept` | `DumpSpec => NeverReplaces` |
| `FramesAlwaysConsistent` | `FrameSpec => []FramesConsistent`: types, `PoolExact`, `NeverStuck` |
| `StreamsAlwaysIntact` | `FrameSpec => []StreamsIntact`: `BytesInOrder`, `EndsTruthful` |
| `MessagesAlwaysSound` | `CodecSpec => []MessagesSound`: types, `MessagesFaithful` |
| `ProfilesAlwaysTruthful` | `ProfileSpec => []ProfilesTruthful`: types, `VerifyTruthful`, `ReportTruthful` |

They hold for every set of devices (finite for the command
service, where they are counted), any policies, any number of commands, attempts, connections, frames, channels, generations, timers and
members of a fleet, any length of a recording with phases of any duration, rings, payloads, chunks and cuts of the stream of any size, and messages with strings of any length in bytes of any base. They rest on the constant assumptions of the modules only
(`CommandConstants`, `PolicyConstants`, ...), which TLC evaluates in the runs. `ServerConstants` asks that each kind of bound has a largest value
among the budgets, for `Conn` and the types are built from these values; any finite set of budgets has one.

TLC checked each invariant, the strengthenings included, before it was proved.

*CommandServiceProofs.* The type invariant is not inductive: a resend increments
`attempts`, which stays in `1..MaxAttempts` only because a slot in backoff has an
attempt left. `CommandInv` adds that (`BackoffHasAttempt`, a part of `RetryBudget`). It is preserved
because `FailAttempt` moves a slot to backoff only when it is not exhausted and an
acknowledgement never moves one there. For `Conservation` each action is
reduced to how it changes the counters and the number of tracked devices; lemmas
about `Put` and `Erase` give the change of the cardinality, and the identities
follow by arithmetic. `TrackingInv` joins the rest: transmissions stay within the attempts, and a sweep finds
what it collected, only because an id is handed out once (`IdsUsedOnce`), so that a late answer or a target that
names a command cannot mean another one; `SinksDetached` carries the detachment through every later slot. The refinement maps each
step on the same step of `CommandLifecycle` or on none.

*PolicyServiceProofs.* `PolicyInv` adds to the invariant what is known of a command id from the moment it is
handed out (`CommandsKnown`), that a record never names an id still to come and that what waits to be dispatched has not
failed (`ControlsKnown`): otherwise a callback in the middle of `CommandOne` could mark the record of another command. The commands of an
evaluation have causes because the kernel is a fixpoint: `ThermalSettles` and `RegimeSettles` say that neither latch needs a
second look at the same inputs, `DecideSettles` that `decide` leaves nothing to command, also when it leaves
protection while the regime is unknown, where deciding changes the target itself.

*ControllerServicesProofs, the sessions.* `SessionInv` joins the type invariant with `IndexInverse`,
`CommandedOnThisSession` and `VictimsOverdue`; they need one another. Ending a
connection erases the index entry of its session's device without comparing
connections, which is right only because the index is the inverse of the bound
sessions; `commanded` stays within the active sessions only because the entry
erased with a session belongs to that session; the sweep may disconnect what it
collected only because ending one victim leaves the others alone. Lemmas describe the end of one
connection, the kick with the binding that follows, and a step that only marks a session as seen.
`NewWins` is an action property that follows from `IndexInverse` in the state before. `EveryCloseCounted` sums over the reasons; every
handler ends none, one or two connections, and the lemmas give the change of the sum and of the number of sessions in each case.

*TransportServerProofs.* What the server promises is proved along the shape of the call stack. `ServerInv` has, beside the
types and `ReapQueueExact`:

- `StackShape`: handlers of events are called by the reactor only, a callback runs for a frame, in a reap or from a
  timer, a reap runs for an event or for a callback; and when nobody on the stack is left to reap, the queue is empty. That is why the server is clean
  between events.
- `GoneOrQueued`: what a callback disconnected has ended or is in the queue of the reap it waits for. At the top of the stack this is
  `SynchronousDisconnect`.
- `IdsInOrder`: ids that were not issued are untouched, the session layer knows what is registered, and only registered connections are ready.
- `FramesAccounted` and `NumbersInOrder`: what a peer sent was delivered, is in the ring or is in the socket, in this order without a gap. The frame at the front of the ring
  is therefore the message after the last one delivered, which is what the port allows. It bounds what is delivered, and tells that nothing is left when a close
  is reported (`ClosesInOrder`, which also says that nothing can follow).
- `NoneForgotten`: a connection nobody handles is ready if it shows anything. For the one that is handled, `InHand` says what the handler has left
  to do at each point: having seen `would_block` it may forget the socket, since any change after that puts it back into the ready list; after a full ring it may not.
- `WithinBudget`, for the types of the queues.

A lemma per action states its effect on these parts; the steps without a new id and without a verdict are `QuietSteps`, whose effect
on the registry is shown once. In the refinement `OnAccepted`, `PeerSends`, `DispatchFrame` and `Reap` are the steps of the port, all others stutter.

*TransportServerProofs, the acceptor.* None of the three parts of `AcceptorConsistent` is inductive: each speaks of the end of the accept loop and
needs what holds inside it. `AcceptorInv` adds that the spare descriptor is closed and the exhaustion is noted while a connection is turned away, that
closing it frees an entry as long as the table of the system has room (so that the spare one can be opened again), that the backlog which was found empty while a
connection was turned away is still empty when the loop ends, unless an edge has come since, and that the count is taken before the connection is turned
away. This holds for any number of arrivals and descriptors.

*ReactorProofs.* `ReactorInv` says of every event in the batch that its registration is still there (`Live`), or that its slot was released at
least once and at most once more than handlers of the batch registered channels (`Stale`), so that its generation, which counts round, is another one. Without
counting the releases the invariant is not inductive: a slot may be released and taken again between two events.

*AgentProofs, the timers.* The heap is a set with a strict order, of which the top is the least (`TopIsFirst`). `SchedulerInv` accounts for slots, the free list and every token
handed out (a token is that of the present timer of its slot or has an older generation) and for the entries, each of a token, one for each pending
timer: that is why dropping entries of tokens that are not live loses nothing. `ArmedForNext` needs `DispatchRunning`, since a dispatch that was cut off by `stop` must not rearm.
The refinement maps the live entries to the pending timers of `Timers`.

*AgentProofs, a session.* That the agent always waits for something needs no more than the types of the queues, and holds whatever breaks. That
both sides agree is not inductive: it is the protocol itself, and `AgreementInv`, promised while `intact`, spells it out. `RestInv`: without a connection there is no
session and no command is remembered. `HandshakeInv` relates the agent's state, the peer's and what is under way, step by step of the handshake: the
registration is alone in the queue, its outcome alone in the inbox, and the confirmation precedes every report. `InboxInv`, which also covers what
arrives after the controller closed: an outcome comes first and only to an agent that waits for one, requests come in the order of their ids and none is older than the command remembered. `IssuedInv`:
as long as the controller has a session, every id under way or remembered is one that its present incarnation issued. `AppliedInv`: a success remembered or
reported is one of a command of that incarnation that was applied. A command is therefore new or the remembered
one, never an older one, which is `AppliedOncePerSession`. Without `intact` the agreement is false: `AgentDedup` is the counterexample.

*AgentProofs, the fleet.* `FleetConsistent` alone does not say why a timer that is served late cannot revive a member. `DueInv`
does: as long as anything is due the fleet runs, and what is due is still scheduled. `PhaseInv` ties the flags to the
phase of main. Two lemmas carry the steps: `StartNextAdvances` (the next members get a link, the others keep
theirs, the timer is set exactly if some are left) and `StopEndsAll`.

*ControllerTickProofs, the process.* `EveryPeriodCounted` is about the loop between ticks; in a tick the attempt is already counted and the schedule is
still the deadline that expired. `GridInv` has both forms, with the bounds of the clock: `sweep_schedule + Interval` is on the grid of the counters, and lies not after `started`,
which is the hypothesis under which `AdvanceIsNext` holds (the next deadline is on the grid, ahead, and by one period at most; the one place with a division).
`SampleInv` says what the sample of a tick holds in each phase, so that the one which is recorded is valid whichever phase threw; `RecordInv` that
samples end before the present tick began, that their number and that of the dropped ones are the attempts, less the one in progress, and that samples are dropped only when the recorder is full, without
which `id = i` is not inductive. `SignalInv` strengthens `NoSignalForgotten` to every place: a pending signal has an edge, is in the
batch, or is about to be read; once the signals are unblocked nothing is pending or the process is dead. `PlaceInv` tells from the place whether the
loop runs and hears signals: a stopped loop has no timer, which gives `NoTickAfterStop`, and no signal can end a process in a tick by its default action.

*ControllerTickProofs, the sums.* `MetricsMatchRecording` is about sums over all samples (`Total`, a recursive function), so it needs induction over
the length of the recording. The induction theorems of the library cannot be used, but induction itself can: a subset of the naturals that is not empty has a
least element (`Least`, from the well-foundedness of `<`), so a set that holds 0 and with each number the next one holds all (`SetInduction`). From this follow that the
recursive function exists (`SumExists`), that `Total` unfolds (`TotalIs`), and what one more sample adds (`TotalExtended`). `TotalsInv` adds to the property that a tick enters
its start in the sample by the clock it takes for itself.

*ControllerTickProofs, the dump.* `TemporaryAt` says what the temporary file holds before each call, so that what is linked is complete
and on disk; `OutputAt` that the output is linked by that call and none before. `LostOutput` shows that a crash can take
the name but nothing of the contents. All failures before the link share `FailureKeeps`.

*ControllerServicesProofs, the metrics endpoint.* `PromInv` says, per client, what makes `NoLostScrape` (here `WaitsInv`) inductive: which interests epoll knows in each state, except for the one connection
whose interests are about to be changed (`InterestsInv`), since only events of an interest make a connection ready; and that what is in the sockets was sent, and no more
was sent of a response than there is (`CountsInv`). `BacklogInv` extends `BacklogReported` to the moments in which a handler is at work. `DropKeeps` shows once that ending one
connection leaves the others as they are.

*ControllerServicesProofs, the profile.* What the tools say is a function of the file, so most of this proof is about that function, for a recording of any length; the rest is
the invariant which says what the file is.

- Numbers. The seconds of the exported counter are read back as the microseconds they stand for, whatever zeros were left out
  (`SecondsRoundTrip`): taking the digits from the last to the first and putting them together from the first to the last are two recursions that meet in the quotient by a power of ten.
  `SumsAre` and `SumsAgree` unfold the sums over chosen samples, `SumsBelow` bounds them, `DistributionIs` says that every rank exists and ranks are in order.
- A recording that nobody touched. A sample is read as it was recorded (`SampleRoundTrip`), whatever phases its outcome leaves out. Since ticks do not
  overlap, the sums of their durations and of the intervals between them are below the time of the last one, so the analysis never fails with an overflow (`RunSums`); `RunSummary` then gives its
  numbers. `UntouchedVerified` follows with the ticks up to a scrape as prefix (`RunPrefix`).
- A recording that was changed. Each change of `Changed` either is an error or, when it is accepted, left the ticks up to the scrape alone: a sample taken out of them
  is missing in the count, swapped ones are out of order, another schema is refused (`RemovedVerified`, `SwappedVerified`). A last tick that was made longer is the delicate one: what tells it is the total of the
  durations, and only if the change does not get lost when nanoseconds are rounded to microseconds. Times of the run therefore stay a microsecond below the largest number (`InTime`), which is the reason for that spare
  microsecond (`LongerVerified`, `QuotientGrows`).
- The window. `MapUnixWindow` takes the earlier end of the bracket for its lower bound and the later one for the upper. `MappedWindow` shows that what is inside after the mapping was inside in UTC,
  and that what is further inside than the bracket is wide stays. A window of an ordered recording is a range of samples, so that all but its first have a predecessor in
  it (`PairsOfRange`).

`ProfileInv` says that the origin lies in its bracket (`ClocksOK`); that the recorder holds the ticks in order up to its capacity, all complete but perhaps the last, as many as are
counted (`RecordingOK`); that durations were added one by one, and what was scraped is what they were after that many ticks (`CountersOK`); and what is on disk
(`FileOK`). `CountersOK` is what `VerifyTruthful` lacks to be inductive: without it nothing relates the snapshot to the samples recorded before it.

*FrameStreamProofs.* The bytes of a connection are a matter of three layers.

- The ring. `Contents` is what `Peeked` shows of all of it. Because `SeqModulus` is a multiple of the capacity, a position that wrapped has the same place in the storage
  (`PlaceWraps`); from that, what `Committed` and `Consumed` do to the contents (`CommittedContents`, `ConsumedContents`): they append
  bytes and take them from the front. This is the only place with remainders, and needs that a write fits, in one piece, into what is free.
- The stream. `Stream` and the queue flatten sequences of frames. `FlattenSeq` is a recursive definition; that it exists, unfolds, and goes through appending and
  taking the first is shown by induction on the length, as above (`JoinIs`, `JoinAppend`, `JoinFirst`, `StreamCut`). `FrameAtFront` says that
  bytes which begin a stream begin with the frame of its first payload, however few there are of them: a header that is whole is the header of that frame.
- The handlers. `ReceiveInv` says that the ring and the socket hold the stream of what was sent and not delivered (`Rest`) and the stray bytes, which `BytesInOrder`
  and `EndsTruthful` follow from; stated with `Stream(sent)` it would not say what the next frame is. It also has that after `peer_closed`
  nothing is left in the socket, so that the end may be told once no frame is left. `DecodedIs` connects `decode_frame` with the contents.

`PoolInv` is `PoolExact` with the bound on the capacity and what a callback holds; every action that moves slots is an instance of `AcquiredPool`, `ReleasedPool` or
`AllReleasedPool`. The count of the slots in use follows from the sets (`PoolCounts`). `NeverStuck` needs that `fit_rx_capacity` leaves room for the longest frame.
The assumption on `Strays`, that they do not begin with a frame, only separates them from `Payloads`.

*FrameStreamProofs, the codecs.* Encoder and decoder go through the fields, so what they do is shown by induction over them, for each of the recursive functions after its
existence (`EndsExist`, `OutsExist`, `CursorsExist`). `EndsOf` is where the fields of a message end on the wire; `Carries` says of bytes that each lies where it
belongs, as far as they go, and so holds of a message that was cut or goes on just as well. One field: `FieldAppended` (all of it, or the encoder has failed) and
`FieldExtracted` (all of it, or the decoder has failed, also when the cut is in the middle of a string or of its length). All fields: `EncodedIs` and `MessageDecodedIs`, which say what
the two make of a message and of the bytes of one, however many of them there are. `CodecInv` adds to the property what the bytes have to do with the message at every stage, with the number of
bytes by what became of them on the way. The assumption that a room fits in two bytes is needed: a longer string has no length on the wire, and the encoder refuses it for that reason and not for want of room.

Only model-checked: all liveness (fairness and ENABLED are out of the prover's reach), the composition of the parts of `MCAgent`, `MCEventLoop` and `MCData`, `DeviceIdentity`, `BackoffSchedule` (whose runs show findings), and
JSON. `JsonText` is made of mutually recursive `RECURSIVE` operators over trees, which the prover does not reason about; the induction over lengths which the recording, the frames, the messages and the samples
have does not carry over to them.

## Findings and observations

`AgentDedup` is a finding: when sending the acknowledgement of a command breaks the connection,
`on_disconnected` clears the memory of the last command, and the rest of `handle_command` fills it
again. If the controller restarted meanwhile and issues the same id, the agent answers the new command
with success without applying it. It needs `epoll_ctl` to fail for a registered descriptor, which the
code handles as an ordinary error but which will be rare.

`Identity` is a finding: `load_device_uuid` looks at the stream after writing into its buffer; a write that
fails when the stream is closed, on a full disk, goes unnoticed, and the log does not say what
the comment promises (`src/apps/agent/main.cpp:84`).

`Backoff` is a finding: the jitter is a 32-bit random number modulo a span in nanoseconds. A span of more than 4.3 s,
that of delays beyond 8.6 s, is never used up; at the default cap of 30 s the wait lies between 22.5 s and 26.8 s and
not between 22.5 s and the 37.5 s of `docs/architecture.md:219`.

The following was noticed while translating the code. No run is about it; the models have the behaviour of the
code.

- `agent session_service.cpp:132`: when sending the acknowledgement of the registration
  breaks the connection, the session is reset to idle and then made active by the rest of the handler. On the next
  connection `on_connected` does not register; the controller closes the connection when the handshake budget is used
  up, which resets the session. `Recovers`, a part of `ProcessMoves`, holds because of that.
- `command_service.cpp:165`: a transmission that times out, and whose failure is
  reported afterwards, counts as two failed attempts.
- `transport/server.cpp:174`: the comment says that nothing is left when `add` fails in the middle. That holds when the
  reactor refuses; when it throws (line 188, its table may have to grow), the connection was stored
  and stays, not registered and not in the reap queue. `Stranded` in `TransportServer` names these; the
  invariants say that they stay alone and disturb no other.
- `acceptor.cpp:144`: the number of rejected connections is incremented before it is
  known whether one is pending, and accept4 fails with EMFILE on an empty backlog too. `RejectionsCounted` is
  therefore about attempts to reject.
- `timer_queue.hpp:55-63`: the comment calls the smaller of two tokens the one registered first. A token has the generation of its slot in its upper
  half, so a timer in a fresh slot comes before an older one with the same deadline in a slot that was used again. `Timers` promises the order of the tokens
  and nothing about the registration.
- `signal_source.cpp:78`: stopping the signal source restores the signal mask while main still has
  to dump the recording; a second signal then ends the process without a dump (`at = "killed"` in `ControllerTick`).
- `dump.cpp`: the directory is not synced, so a crash of the system after a successful dump may lose the name of the
  output, never a part of its contents.
- `prometheus/connection.cpp:59`: beyond the cap for requests the endpoint goes on reading and discards.

## Not modelled, and plan

Left out for good: configuration lookup and logging (keys with defaults, formatting), the simulated device (a
random walk; the agent model lets applying a command succeed or fail), `bootstrap` and the command lines of
the programs (wiring), the text of the metrics but for the two values the tools compare, the characters inside JSON
strings and numbers (one token each), and floating-point rounding.

Left for later:

1. `ControlLoop`: sessions, commands and policy composed, so that the order of the
   phases within a tick, and callbacks that cross all three services, are checked together.
2. `modify` in the reactor, failing timerfd calls, the listener's start, parse_policy, the RTT histogram, and the
   multiplication in `backoff_for`, which a configured base of days could take out of the range of nanoseconds.

Theorems: every safety invariant and action property of the passing runs is proved but `JsonTruthful` (`DumpTruthful` of `MCData` is `DumpConsistent` and `NeverReplaces` of its instance). `JsonText` declares recursive operators, so `MCData` and it
hold no theorems; written with recursive functions over a set of values of bounded depth, as far as the parser goes, it could be reasoned about.
