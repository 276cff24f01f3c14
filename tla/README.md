# bbtools-infra in TLA+

bbtools-infra is a C++ library on top of the bbt coroutine runtime: a TCP engine
(`net`), and above it HTTP, RPC, Redis, MongoDB, Consul, MCP and configuration
components. This directory models the parts of it whose correctness is a matter
of interleaving, ordering and limits, checks them with TLC and proves the core of
it with TLAPS. Paths below are relative to `src/bbt/infra/`.

To run: `tlc -workers 2 -config X.cfg M` for the pairs in the table of runs,
`tlapm M.tla` for each of the eight modules `*Proofs.tla` (section 4).

## 1. The system

### Components, their state and how they meet

| component | state | operations | meets |
|---|---|---|---|
| `net/detail/OutboundQueue` | a byte ring and a list of overflow segments | `Append`, `GatherViews`, `ConsumeSent`, move | owned by ConnectionState, under `m_write_mutex` |
| `net/detail/ConnectionState`, write half of `ConnCore` (`net/Engine.cc`), `CoTcpConnection`, `WakeHub` | unfinished writes, finished ones not yet reported, one record per write, acceptance state, close reason, two hubs of waiters | `AcceptWrite`, `PumpWrites`, `AttributeSentLocked`, `FailAll`, delivery of `OnWrite`, `RequestClose`, settling, `OnClose`, `AwaitWrite`, `WaitCapacity`, `WaitClosed` | any thread accepts and waits, one owner sends |
| `net/detail/ReceiveRing`, read half of `ConnCore`, `ReadAccess` | ring, deferred bytes, staged bytes, terminal flags, access generation, two hubs | `TryReserve`, `TryAppend`, `AppendDeferred`, `StageDetached`, `TryPopAll`, `Mark*`, guards, `Read`, `TryRead` | only ever `try_lock`ed, by the owner and by readers |
| `Reactor` (`net/Engine.cc`) | registry of connections, intrusive dirty list of raw pointers, seal flags, `conn_count` | `MarkDirty`, `PumpOwner`, `AdoptFdOnOwner`, `RemoveConn`, `SealServiceOnOwner`, `FinalizeControl` | every thread that writes, reads or closes |
| `EngineImpl` (`net/Engine.cc`) | reactors, listeners, dials, handoff reservations, start/stop phase | `Listen`, `CoDial`, accept handoff, `Stop`, seal, reclaim receipts | creates connections, ends them |
| `ReactorDriver`, `DriverBinder` | the coroutine that runs a reactor, its wake pipe | bind, tick, unbind | the scheduling of every owner |
| `http/detail/Pool` | entries (Dialing, Active, Idle, Retiring), waiters, `inflight`, phase | `Acquire`, `Lease::Release`, `Close`, `Shutdown`, `Stats` | uses the engine's dials and release receipts |
| HTTP client (`http/Client.cc`) | one exchange, a leased connection, what is on the wire | build, `Send`, interim responses, body, close | the pool |
| HTTP server (`http/Server.cc`) | sessions, tasks, requests in flight, sources, phase | accept loop, session loop, `Close`, `Shutdown`, `WaitStopped` | `CoAccept` of the engine |
| RPC link (`SessionCore` in `rpc/Session.cc`) | three lanes of frames, tables of calls and acknowledged sends, `dead`, `writes_outstanding` | `Call`, `Send`, replies, `WriterLoop`, `ReaderLoop`, `Kill` | a `net` connection below, the owner above |
| RPC handshake | epoch, decoder, stash of bytes read too early | `OutboundHandshake`, `InboundHandshake` | becomes a link |
| RPC owner and server | links by identity and endpoint, links being established, quota, responsibilities, phase | find or dial a link, serve an inbound one, election, eviction, seal, drain | its links |
| RPC admission, checkpoints | admitted requests and their leases, queue; registered points | admit, hand to the worker, reply, settle; throw, pause, replace | the readers of the links, handlers |
| RPC transports, codec | none | encode, decode, exchange | `net`, HTTP |
| Redis client, Redis pool | one active operation on one stream; slots, idle clients, waiters | `Connect`, `Execute`, `Close`; borrow, give back, rebuild | `net`; the pool owns clients |
| Mongo runtime | job queue, worker threads, operations, phase | `Submit`, worker loop, `Close`, finalizer | blocking driver calls, a strand |
| MCP core (`mcp/Registry.cc`) | registry, places, requests in flight, subscriptions | register, dispatch, cancel, publish, `Close` | its transports' sinks |
| MCP stdio, MCP HTTP | queue of frames, a pipe; the queue of an event stream | read, write, tear down; gates, push, pull, cancel | the core; HttpServer |
| Configuration watch | last version, failure flag, closing gate | poll, deliver, close | sources |
| Consul client | none of its own | requests | HTTP client |

The central composition is in `net`. A thread hands a write to `ConnectionState`
or makes room in `ReceiveRing`, and calls `Reactor::MarkDirty`. The owner pops the
connection from the dirty list and runs `ConnCore::PumpOwner`, which sends,
reports, receives, arms descriptor waits and closes. Nothing else runs on behalf
of a connection, so a wake lost anywhere stops it for ever.

### What is hard here

* Lost wake-ups: every wait follows "test, register, test again, sleep", and every
  event "change, notify"; the owner sleeps unless marked dirty or armed.
* Try-locks: in the read path whoever finds the mutex taken goes away. What the
  loser had in hand has to survive and has to be brought back.
* Responsibility at the limits: circular buffers, hubs with a limit, queues with a
  byte and a segment limit, connection budgets.
* Closing: several threads and the owner close for different reasons, sealing
  and stopping cut in; each accepted write, reader and waiter needs its end.
* Raw pointers: the dirty list and a dialling entry of the pool.
* Timeouts that race an answer: the slice of a pool waiter against a handoff, a
  reply against the deadline of its command, a dial against its caller.
* Ends that have to be counted: a drain waits for a number that every path of a
  request, a session, a frame or a dial has to settle exactly once.
* Seals: whatever is under way when an owner is closed must be closed by
  somebody, and what comes after must be refused.

The list of hazards with their lines is in `PROJECT.json`.

## 2. Modules

```
ByteFifo  <-- refines --  OutboundQueue  <-- INSTANCE --  ConnectionState  <-- MCConnectionState

MCNet        EXTENDS OutboundQueue, ReceiveRing, Reactor, EngineDial, EngineAccept
MCPools      EXTENDS HttpPool, RedisClient, RedisPool; INSTANCE HttpClient, MongoRuntime
MCRpcSession EXTENDS RpcSession, HttpServer        MCRpcOwner  EXTENDS RpcOwner
MCProtocols  EXTENDS McpRequests, RpcAdmission, RpcHooks
             INSTANCE RpcHandshake, McpCore, McpStdio, McpHttp

HttpPool, RedisPool, RpcOwner EXTEND Lists        (elements taken out of a list)

XProofs      EXTENDS X, TLAPS          for X one of OutboundQueue, ConnectionState, EngineDial;
                                       ListProofs for Lists
ClientProofs   EXTENDS HttpPool, RedisClient, RedisPool, ListProofs, TLAPS
NetProofs      EXTENDS ReceiveRing, Reactor, EngineAccept, TLAPS
SessionProofs  EXTENDS RpcSession, HttpServer, TLAPS
RpcOwnerProofs EXTENDS RpcOwner, RpcAdmission, RpcHooks, TLAPS
```

`MCNet`, `MCPools`, `MCRpcSession` and `MCProtocols` explore several components in one run. The
variable `subject` names the component explored, is chosen at the start and never
changes; the others stay in their initial state. The state space is the disjoint union
of those of the components: the run is several runs under one configuration, not a
composition. A component with proofs is extended, so that a run checks the very
definition a theorem states and the assumption on its constants; its properties hold in
the runs of the other subjects because it stays initial there. A component that is
instanced has its properties restated for its subject only. The components that are
extended together give their operators names of their own (`QueueNext`, `ReactorNext`,
`DialNext`, `AcceptNext`, `ServerNext`, `AdmissionNext`, `HooksNext`). Real
composition is inside the modules: OutboundQueue in ConnectionState; caller, owner
and engine in ConnectionState; readers and owner in ReceiveRing; threads, owner and
seal in Reactor; caller, owner and control thread in EngineDial; two owners, receiver
and stopper in EngineAccept; clients, owner and server in RpcOwner.

Definitions called "Slip" in comments are not part of any specification: each is
a plausible mistake in the definition after it, and the property named with it in
`PROJECT.json` (`mutants`) fails when it is used instead. A property that joins several
parts has a slip for each of them where one was found.

### OutboundQueue, ByteFifo

`queue` is a record of the private members (`ring`, `head`, `size`, `cap`, `spill`
for the segments, `listBytes`). `AppendQueue` is `Append`: all or nothing, first
into the free ring cells if no segment exists, the rest merged into the last
segment or put in a new one, the segment limit checked before anything changes.
`ConsumeSent` pops the ring, then whole segments, then a part of one. `MovedFrom`
is what a move leaves. ByteFifo is the promise, a bounded FIFO of bytes;
`ImplementsFifo` maps the storage to its content in order. `QueueCorrect` joins the
bounds, the prefix that `GatherViews` offers and the refinement.

### ConnectionState

One connection's write side. The state follows the members of `ConnectionState`
and `ConnCore`; `opc` is the owner's place, `call[c]` a caller's.

* Callers: `Call` begins a write or a wait; `CheckSeal`, `AcceptClosed`,
  `AcceptRefused`, `AcceptEmpty`, `Accept` and `Accepted` are `AcceptWrite` and the
  `WakeOwner` after the unlock; `WaitOver`, `Register`, `Recheck`, `Resume`, `GiveUp`
  are the wait protocol on `m_write_hub` and `m_close_hub`, a full hub (the
  call fails) and cancellation included; `RequestClose` comes from any thread.
* Owner: `PumpOwner` and `WriteReady` start a pump; `RoundSend` sends a prefix of
  what `GatherViews` offers; `Attribute` credits one write after the other;
  `RoundAgain`, `RoundInterrupted`, `RoundsOver` are EAGAIN, EINTR and spent budgets;
  `RoundFail`, `FailOne`, `Failed` are a send error; `PumpNotify`, `Deliver`,
  `PopNotify`, `DeliverDone` report; `Arm` arms the write wait or queues the
  connection itself. `MarkClosed`, `SettleOne`, `Settled`, `PublishReadClosed`,
  `Announce`, `OnClose` are `ShutdownOwner`; `Seal`, `SealOnOwner`, `CancelControl`
  end the connection from the engine.

`m_write_mutex` is held by the owner over a whole pump and over the settling
loops; those are sequences of steps because records have mutexes of their own and
waiters look at them meanwhile. Every other critical section is one step.
Abstractions: a byte is the id of its write; `m_last_error` (a diagnostic) is left
out; allocation failures, and with them the retry of a notification that could
not be made, are left out; the reactor's dirty list is the flag `dirty`, whose own
correctness is the subject of Reactor; a read-side error that closes the
connection is one of the reasons `RequestClose` may come with.

### ReceiveRing

The read side. `holder` is the owner of `m_mutex`. Taking it, working under it and
notifying afterwards are separate steps, so every `try_lock` can fail against
everyone else. The owner's `DoReadsOwner` is a loop of reserving, `recv`, appending
or, when the append finds the mutex taken, deferring or holding the bytes; then
arming, the raw retry and the terminal flags. The closing owner stages what it
still holds without the mutex (`StageHold`) and then sets `m_closed`. Readers: `read`
(a coroutine that waits), `try`, and `guard` (a ReadAccess that may keep, take part
or all). A byte is its position in the stream; the generation counter is kept as
"moved since sampled". `RequestClose` here stands for every way to close, sealing
and `CancelControl` included. `OnRead` callbacks of the raw mode appear only as the
retry flag; the peer's sends are implied by what `recv` returns.

### Reactor

The registry and the dirty list for several connections and threads. `MarkDirty`
is three steps (early checks, the exchange of `m_dirty_queued`, the linking under
`m_dirty_mutex`), because nothing but the last is locked. The owner pops, finds,
serves, closes and removes; `SealUnlink`, `SealFlag`, `SealNext`, `SealErase` are
`SealServiceOnOwner` cut where another thread can get in; `FinalizeUnlink` and
`Finalize` end the reactor. A connection is alive while the registry or a call holds
it. What pumping does to a connection is abstracted to "its work is done", which
ConnectionState and ReceiveRing model in detail. `Adopt` followed by `ServeCloses`
covers an adoption that fails; `KickPumpOwner` and `PumpAllConnsOwner` are used by
tests only and are left out.

### EngineDial

`CoDial` and `Connect`. The table of connect operations under its mutex, the steps
posted to the owner (`BeginConnect`, `StartSocket`, readiness, adoption in three steps
because the seal may come in between), the coroutine that waits for the result and
abandons it when its deadline passes or it is cancelled, `RequestClose`, the control
loop (`SealOwner`, `SettleTable`, `UnbindDials`, `FinalizeDials`), a failing driver, and the receipt that
says when the descriptor of a dial is physically gone. With `raw` the result goes to
`OnConnect`. The connection after adoption is one descriptor that can be closed.

### EngineAccept

One engine that listens from `Run` to its end: one listener on the main owner, one
sub owner. An arrival takes a reservation before accept(2), is posted to the sub
owner, adopted and committed to the bounded handoff, or handed to the raw handler;
`CoAccept` takes or parks. `RequestStopAccepting` posts the stop, `RequestClose` shuts the gate
first; `Run` settles a stop the engine cannot serve (`ClientStops`) and then publishes Running
(`Publish`), so that a stop may come between the two; it hands on a stop that could not be
posted, seals, unbinds and confirms.

### HttpPool

The HTTP client's pool. Every critical section of `State::mutex` is one step. A
call goes through the fast path (`TakeFast`), a reserved dial (`ReserveDial`,
`DialFails`, `DialSucceeds`) or the queueing loop (`Enqueue`, `Recheck` for the
callback that runs after the wait is registered, `Resume` for a completed wait,
`SliceEnds` and `Sliced` for a slice that timed out or was cancelled, with the
orphaned handoff given back). `Release` is `Lease::Release`; `GiveBack` its loop over the
waiters, which `AdmitHandedLocked` repeats. `Close`, `Shutdown` with its wait on the
condition variable, and the sweeping `Stats` run at any time. A slot stands for the
address of an entry; `net` is what exists below it, so that a place can be compared
with what is physically there. External: when the engine releases a closed
connection (`NetReleases`) and when an idle one goes stale (`Spoils`).

### RpcSession

One link of the RPC session: `SessionCore`. Four kinds of actor run against each
other: the callers, the writer coroutine, the reader coroutine, and `Kill`, which
the writer, the reader or the owner starts and the first one carries out. Every
critical section of `out_mu` and of `pending_mu` is one step.

* Callers: `Insert` (the record, refused by a dead link), `Enqueue` (the lane and its
  limit), `Undo`, `Register` and `Recheck` (the wait and the second look at `done`),
  `Completed`, `Expire` and `GiveUp`. An acknowledged `Send` is a call; one without
  acknowledgement and the frames the reader posts are Tells; `Complete` and `Fail` of
  a ReplyCompletion are Replies, which wait without a second look, as the code does.
* `Kill`: `BeginKill` (the exchange of `dead`), `Drop`, `KillCloses`, `FailPending`,
  `KillNotifies`.
* Writer: `Dequeue` with the lane it chooses, `GateFails`, `Commit`, `Write`,
  `WriteReturns`, `FailItemPending`, `WriterTells`, `Settle`, `WriterKills`; `FindNothing`
  begins its sleep and `WriterExits` is the look at `dead` after it, without another look
  at the lanes.
* Reader: `Match`, `SetReply`, `ReaderTells`, `ReaderEnds`.

The connection below is reduced to what the writer relies on: it refuses a write
once a close was requested (ConnectionState has that in detail), it may finish an
accepted write at any time, and it may break. Left out: the frames' content.
Inbound requests are RpcAdmission, the exit of a link is in RpcOwner.

### HttpClient

One exchange. `Build` makes a prepared request from the options of client and request,
`Alter` is its owner changing it, `Send` validates again; `Submit`, `Transmit` (the connection,
which goes on after the caller has left) and `Written`; then interim responses, the
final one, failures, and `Seal` for Close and Shutdown. A URL is a record of its parts,
a header a name class and a value, all combinations of two are inputs. What the pool
does is HttpPool.

### HttpServer

The accept task, one task per session and native callers. The accept task sweeps,
looks at the physical places, asks, holds and submits; a session reads, is admitted
under the mutex that seals the server, serves, settles and goes on or leaves; a streamed
reply registers its source, which `Close` marks and cancels once. `Stop`, `Shutdown` with its
deadline, `Close` and `WaitStopped` come from outside. The parser is the choice of its
outcome.

### MongoRuntime

`Submit` as the code has it: phase, registration, wait, queue; workers that take,
claim, call and post to the strand; `Finish`, which decides once; `Start` with failures to
publish the client and to start threads; `Close`, `CloseAndWakeAll`, `Teardown`, joining and the finalizer. A driver call is the
choice of its outcome. `client` says whether the owner is used through CoMongoCli.

### RedisClient, RedisPool

RedisClient has one active operation on one stream: `Connect` with dial and handshake,
`Execute`, the check for stray bytes, write and reply, time-outs and broken streams (which
retire the stream before the failure is told), `Close`. `Dialled` may find no memory for
the reader. What travels on a connection are
the calls whose reply is owed or has arrived, so that a reply can meet the wrong call.
RedisPool has its slots, the FIFO of idle clients, waiters to whom a client is handed
under the lock, retirement, the explicit `Connect` that rebuilds the dead slots and ends
under a lock of its own (`BuildOver`), and `Close`.

### RpcOwner, RpcHandshake

RpcOwner has callers that find a link, join a dial under way or dial (`BeginOperation`,
`GetSession`, `EstablishOutbound`), the server's accept and `ServeInbound`, the election between two
links to one peer, eviction, the quota and its return, the exit of a link's tasks, and
`Seal`, `Shutdown` and the sweep of owner and server. The responsibilities of a link are
counted one by one, the connection (`CountConnection`) and its two tasks (`Submit`; one that
cannot be registered ends the link, `Unregistered`). `Kill` is one step here and many in
RpcSession. RpcHandshake has the two sides and the frames between them, cut in halves:
a read brings any number of halves, and what was read too early is kept in front of
what was not yet fed to the decoder.

### RpcAdmission, RpcHooks

RpcAdmission follows each inbound request from the reader that counts its lease over
the queue and the one worker to its reply, which handler and framework may both try,
and the drain. A link with no server or no queue answers for itself (`NobodyServes`). RpcHooks is one checkpoint that is armed, replaced, cleared and closed
while coroutines pass it, with the two locks of a throw as two steps and a second look
after each slice of a pause (`Recheck`).

### McpCore, McpRequests, McpStdio, McpHttp

McpCore has frames, cancels, sessions that leave and one publisher: the places, the owner
of each request that commits one terminal, the two-phase subscription (inserted, then
acknowledged, then told of changes), and `Close`, which seals. A cancel takes its victims
under the lock and finishes them outside (`FinishCancelled`); the ends of a leaving session
are all told before its places are returned (`EndNext`, `LeavingDies`); a publisher looks at
`closed` first and takes its list of subscriptions later (`FindOpen`,
`PublishResourceChanged`). The run starts with modern and listen requests and with a
legacy one beside the initialize of its session (what else there is goes the way of a modern
one without its handler), and with a cancel of a session that has requests. McpRequests is what is made
of one frame after another: eras, validation, the registry frozen by `Start`, pages and
their cursors on integers of a width. McpStdio is the reader, the writer with its
partial writes, the sink and the teardown shared by the end of input and Close, in steps:
`BeginTeardown`, `EndSubscriptions`, `SealInput`, then `CheckDone`, `DrainEnds`,
`TryFinishTeardown` and `Unmount` by whoever comes last. McpHttp is the ladder of gates a POST
passes, with headers that are absent, wrong, foreign or repeated, and the event stream:
captured list, queue, cancel, and the body that dies with or without one (`DropBody`).

## 3. Runs

| run | configuration | shows | states, time |
|---|---|---|---|
| `connection_writes` | 1 caller, writes of 0, 1, 2 bytes, limit 3, ring 1, 2 ops, 3 writes | accounting of every write, attribution, closing order, first reason | 1.5 M, 1 min |
| `connection_waits` | 2 callers, hub of 1, 1 op, 2 writes, fairness | nobody forgotten, close completes, waiters served | 0.2 M, 2.5 min |
| `receive_ring_live` | 1 reader with all three calls, limit 2, 3 bytes, fairness | reading resumes, a close releases readers | 0.4 M, 1.5 min |
| `net` | queue, ring, reactor, dial, accept, each by itself | the safety of each | 1.4 M, 2 min |
| `pools` | HTTP pool and exchange, Mongo, Redis client, Redis pool, each by itself | exclusive use, nothing lost, one outcome, closing reaches all, a truthful exchange | 1.1 M, 2.5 min |
| `rpc_session` | a call and a reply on one lane of one frame, a one-way frame on each other lane; by itself, the HTTP server with 2 sessions | one outcome per call, told to it and true, exact count; the safety of the server | 3.2 M, 2.5 min |
| `rpc_owner` | 2 callers, 1 endpoint and peer, 2 links | one link, bounded, nobody and nothing left by a seal | 3.0 M, 2.5 min |
| `protocols` | handshake, admission, checkpoints, MCP core, stdio, HTTP, requests, each by itself | the safety of each | 1.5 M, 2.5 min |
| `ring_busy`, `reactor_seal`, `http_pool_dial`, `mongo_stranded` | small | the deviations of section 6 | seconds |

Why the bounds are enough to meet the cases:

* Queue: a ring of 2 with a limit of 5 and 2 segments wraps, spills, merges, refuses by
  bytes and refuses by segments.
* `connection_writes`: writes of 0, 1 and 2 against a limit of 3 and a ring of 1 give
  empty writes, writes that do not fit, writes that spill, partial sends inside a
  write and over two; `MaxOps` 2 with 3 writes makes the completion buffer full.
  `MaxWrites` is a bound of the model, `ByteBudget` and `WriteRounds` are the code's constants
  made small. The hubs take nobody (`MaxWaiters` 0): waiting is the question of
  `connection_waits`, where a hub of one waiter and two callers refuses one of them.
* Ring: a limit of 2 and a stream longer than a chunk give a full ring, a pause, a
  low-water mark of 1 and bytes in all three places. `net` has two waiting readers
  of a stream of 2 in pieces of 1, `receive_ring_live` one reader with guards, 3 bytes
  and pieces of 2 (grants smaller than wanted). `StreamLen` is a bound of the model.
* Reactor: two connections and two threads give every race of linking, popping,
  removing and sealing for one connection with another in the list.
* Engine: two dials against a limit of one admit, refuse and race the seal; two
  arrivals against a handoff of one fill it while the other waits.
* HTTP: two sessions with room for one connection and one request meet every
  refusal; a streaming server serves plain replies too. The exchange starts from
  every pair of URL and base, up to two headers on each side, every pair of time-outs,
  with one interim response allowed and one too many.
* Pools: two callers on two origins and two places let a caller that gave its
  connection away queue again before the receiver claims it, and a retiring connection
  hold a place while both queue. Two Mongo commands, a queue of one, a worker
  and a closer meet a full queue and a claimed command at the seal; with one worker
  the order among workers is not seen. Two Redis calls with two dials allow a late
  reply and its successor; three borrowers of two clients with three builds in all
  (`Builds`, a bound of the model) allow a waiter, a dead slot and its repair.
* RPC: a call and a reply on a lane with room for one frame make the lane full; the
  frames on the other lanes keep the writer busy while they wait, and let `Kill` find
  frames in the queues and one in the writer's hand. Two links and two callers give
  every election of dialled against dialled and dialled against accepted; the
  election of two accepted links needs no third. One peer and one endpoint never ask for
  more than two places, which elections need: that a smaller quota is kept too is what
  the theorem `OwnerKeepsBounds` shows. The peer is the greater side
  (`Greater`); the smaller is the mirror image.
* Handshake: two data frames a side and reads and feeds of any size up to 3 halves cut a
  frame anywhere. Admission: one call, one acknowledged and one plain message more
  than there is room for. Checkpoints: two coroutines and three registrations. MCP
  core: two frames, two sessions, one cancel, two places, one change, so that a
  subscription holds a place while the other frame asks for one. Stdio: three frames
  of two pieces in a queue of one. Event stream: three changes into a queue of two.
  Requests: two registrations in all, pages of one and of `SizeMax` (7, an integer of
  three bits) so that the end of a page can wrap.

Symmetry is used in the runs without liveness over sets whose members the modules
treat alike (readers, callers, origins, links, frames). Deadlock is not
checked where the system really may stop: engines and owners that have ended, a
session or an exchange that is over, a bounded number of operations all done. It is
checked in `connection_writes`, `connection_waits` and `receive_ring_live`, whose
callers go on for ever.

### Fairness

Callers and readers that can run do run (WF): the coroutine runtime schedules
them, and a guard is documented to be short. The owner finishes what it began
(WF). Its loop polls the descriptors and runs the tick that pumps the dirty list
and the posted commands in every turn, so each of these happens again and again
even while the others keep disabling it (SF for `PumpOwner`, the sealing commands
and, in ReceiveRing, `ReadReady`, which additionally needs something to read).
Nothing makes the peer read or send, and nobody has to write, read, close or seal.

Liveness is checked of the two halves of a connection only. Elsewhere what must not be
missed is an invariant: a wait is never entered, nor kept asleep, when what it waits
for is there and nobody is about to tell it (`NoLostTurn`, `AcceptanceExact`, `NoOrphan`,
`DrainNotMissed`, `WaitersFirst`, `CallsDecided`, `OwnerSettles`); most waits of the upper
layers also end by their deadline.

## 4. Proofs

Eight modules hold theorems and lemmas. Seven prove their components' properties as they
stand in the components, for every value of the constants under the component's own assumption,
which the runs evaluate:

| module | assumption | proved of every behaviour | invariant |
|---|---|---|---|
| OutboundQueueProofs | `QueueConstants` | `QueueCorrect`: limits, prefixes, the refinement of ByteFifo | `QueueInv` |
| ConnectionStateProofs | `StateConstants` | `TypeOK`, `ResponsibilityBounded`, `ExactlyOnce`, `DoneMeansSent`, `WritesExact`, `NobodyForgotten`, `FirstReasonWins` | `Exact` |
| NetProofs | `RingConstants` | `InboundExact`, `NobodyStranded` | `RingInv` |
| NetProofs | `ReactorConstants` | `ListsExact`, `NoLostTurn` | `ReactorInv` |
| NetProofs | `EngineAcceptConstants` | `HandoffExact`, `AcceptanceExact` | `AcceptInv` |
| EngineDialProofs | `EngineDialConstants` | `DialExact`, `NoOrphan` | `DialInv` |
| SessionProofs | `SessionConstants` | `OutstandingExact`, `ClosedMeansUnsent`, `CallsDecided` | `SessionInv` |
| SessionProofs | `HttpServerAssumption` | `SessionsExact`, `CloseReachesSources` | `ServerInv` |
| RpcOwnerProofs | `OwnerConstants` | `OwnerBounded`, `OwnerSettles` | `OwnerInv` |
| RpcOwnerProofs | `AdmissionConstants` | `RequestsAccounted` | `AdmissionInv` |
| RpcOwnerProofs | `HooksConstants` | `HookExact` | `HooksInv` |
| ClientProofs | `PoolConstants` | `PoolExact`, `PoolEnds` | `PoolInv` |
| ClientProofs | `RedisClientAssumption` | `RedisExact` | `RedisInv` |
| ClientProofs | `RedisPoolAssumption` | `ClientsKept` | `BorrowInv` |
| ListProofs | none | no property: lemmas about `Without` and lists without repetition, for the other modules | |

The assumptions say that limits are naturals (positive where the code divides by them or
refuses zero), that the sets of connections, peers, frames and coroutines are finite
where they are counted, and that a marker such as "nobody" is none of them. No bound of
a run is among them: numbers of callers, readers, threads, connections and frames, sizes
and limits are arbitrary.

Every proof has the same shape. Lemmas state what the operators on sequences and sets
do; a lemma shows that the initial states satisfy the invariant, one per action (and
under it one step per conjunct the action can disturb) that it is kept, one that it
implies the properties; the theorem puts them together. None of the properties is
inductive alone; what each invariant adds, and why:

* `QueueInv`: the ring holds bytes in exactly the `size` cells from `head` on
  (modulo `cap`), the segments are not empty, `listBytes` is the sum of their lengths.
  The content, ring in order and then segments, is related to every step: an append
  puts its bytes at the end, `ConsumeSent` drops a prefix. Two facts carry it: cells
  `head + i` modulo `cap` are distinct for different `i` below `cap`, so a write
  behind the used cells disturbs none of them; and the recursive function under
  `FlattenSeq` is determined by its equations (`Recursion`, by least elements of sets of
  numbers), from which its laws for concatenation follow by the same induction.
* `Books`: attribution runs only with a write to credit (`SomethingToCredit`); ids taken
  are below `m_next_op` (`FreshIds`), so that accepting adds an id that is nowhere yet;
  sent and remaining add up to the size (`SumsMatch`), so that "nothing remains" means
  "all sent". `ExactlyOnce` survives a push only because `ResponsibilityBounded` says it
  does not overwrite, `DoneMeansSent` because a finished id is in no other place.
* `Exact` adds to `Books` what `WritesExact` and `NobodyForgotten` need. `WriteInv`: the
  queue holds exactly the unsent bytes of `m_ops` (`Even`), or, while bytes are credited,
  what is left of them after the `left` bytes still to credit (`Behind`); and different
  overflow segments end in different writes (`EndsDistinct`), so that there are never
  more segments than unfinished writes and the queue's own segment limit cannot refuse
  what `AcceptWrite` let through. `EndKept` follows the close step by step to `OnClose`;
  `TurnKept` says who will wake an idle owner that has work; `CallsKept` and
  `SleepersTold` say that a sleeper is in its hub and, once its condition holds, notified
  unless a notification is due (`Due`). What is proved of OutboundQueue is taken over
  through an instance, `QP`. The model's `RingCap` is assumed positive: it is the constant
  64 KiB.
* `RingInv`: bytes are in at most one place after the ring (`BytesPlaced`: what is
  deferred has been merged before more is received, what is staged by the close is the
  last), so that ring, deferred, staged and held bytes stay consecutive; room that was
  granted stays (`GrantKept`), because readers only make more; an owner that goes to
  sleep has armed its wait, is paused with reason, or will pump (`OwnerHears`,
  `PauseJustified`).
* `ReactorInv`: what each `MarkDirty` under way owns (`Flags`); the count lies between the
  connections there are and those there were and is exact before the seal (`Counted`);
  every connection with work is linked, about to be, or in the owner's hand (`Turns`).
  After the seal the last two are not claimed, as section 6 explains.
* `AcceptInv`: how far `Run` has come (`RunKept`, `BuildKept`), what each posted handler
  stands for (`TasksKept`), and who finishes a stop (`StopKept`).
* `DialInv`: a dial is in one place between its caller, the posted handlers, the owner and
  its wait (`OnePlace`), the start of each is posted once and runs before the seal
  (`TasksInOrder`), and the end is announced before anything of it is done (`EndInOrder`).
  `RecordThere` and `CallerServed` say that the record outlives whoever looks at it; they
  carry `NoOrphan`, because who gave up has marked the record before the owner could hand
  the connection over, or has asked for the close. `HandlerTold` follows the dials of a
  handler. What the seal waits for is counted by the set `Waits` (`CallsCounted`).
* `SessionInv`: a frame is in one lane, once, and does not come back (`LanesKept`,
  `FramesOnce`); what `Kill` has done follows from how far it is (`KillState`); a record is
  in the table, in the reader's hand or decided (`Records`); who was told "closed" has a
  frame that is nowhere on the way (`Fates`). The last one rests on the order in `Kill`:
  it closes the connection before it fails the table.
* `OwnerInv`: a caller inside EstablishOutbound is the only one at its key and has its open
  record, whose connection is where the caller's place says (`Workers`, `OneWorker`); every
  dialled connection is in exactly one record until it is installed or closed (`Dialled`),
  every served one among the handshakes, then in the ledger, or closed (`Serving`), which
  is what makes the two snapshots of a Seal complete. What is to be killed was installed
  (`Targets`), and the count of a link covers the tasks it runs (`Sound`). `Registered` bounds the registry and the reserved places together; a link that
  is installed turns its own place into the registration (`WinsPlace`). Most steps only age
  the links (`Ages`): these share one lemma for each part of the invariant.
* `AdmissionInv`: the counter is the number of leases held, and a place determines its
  lease and its answer (`LeaseOf`, `AnswerOf`). `HooksInv`: tokens come in the order of
  registration, a run holds a registration that was made, and one that threw is no longer
  armed.
* `PoolInv`: an entry outside the list is at its end and, before the close, nothing lives
  below it (`EntryFits`), so that the physical budget is the length of the list while the
  pool is not closed; after the close nothing begins, and what exists only shrinks. A
  caller points to an entry only from places where it may (`Pointing`), alone (`Alone`);
  who dials keeps its entry until the close (`DialFits`); an active entry has a user, an
  idle one none (`UseFits`); who waits has nothing (`Waits`). `inflight` is the number of
  callers that are somewhere (`Busy`). The invariant takes the phase, the pool, the queue
  and the calls as parameters (`Fits`), because most critical sections are two changes in
  a row, a sweep and then the entry that is taken: each is shown to keep `Fits` by itself.
  That a fresh address exists (`FreshSlotIs`) is a pigeonhole over the callers that point
  somewhere. `Without` is a recursive function, so that what it returns could be proved
  (`ListProofs`), by least elements of sets of numbers.
* `RedisInv`: at most one operation is active, and the client is busy while there is one
  (`OneCall`); an active call has the published connection (`Place`), and nobody is owed a
  reply there but the call that reads (`InStep`): that is why the reply an operation reads
  is its own, and why `Fail` has to retire the stream before it tells the failure. A stream
  not yet dialled is empty (`Resting`). `Truth` relates what a command tells to what it sent
  and got.
* `BorrowInv`: what the lock keeps is stated over slots, callers, queue and idle slots, with
  the set of slots whose client is in hand (`Kept`): a step takes a client into the hand
  (`LetsGo`, `FilledKeeps`) and puts it away (`RequeueKeeps`: handed over, or idle), and the
  offers of a rebuild are a chain of the second, by induction over the targets. Whoever is
  in the queue has nothing yet and is not woken, and the queue is empty while a slot is
  idle (`LineFits`); who has a client names its living slot, alone (`HoldersFit`). Clients
  under construction are nowhere else (`MadeFits`), and an open client is in a slot, under
  construction or in Close's snapshot (`ClientsFit`): so nothing is open once the two are
  through.
* `ServerInv`: the accept task was started once and has one connection in its hands,
  unserved, or none (`OneAcceptTask`); that is why a task is registered for it at most
  once and the two counters stay exact through a refused registration (`CountsRight`). A
  session is listed from the moment its connection is taken while the connection is there,
  and is authorised exactly while it replies (`SessionHeld`); so when WaitStopped finds no
  task, no session is authorised and no connection is left. `SourceReached` follows the
  mark `source_cancelled`: it has one caller that makes the Cancel call, which is `Stop`'s
  collector, the registration that came late, or the task whose write failed
  (`CancelledOnce`). The mark outlives its reply in the code, so it must not reach the
  next one: only a closing server or a session whose connection is already asked to close
  carries it on, and neither reads again.

TLC checked every invariant on the runs as well. One attempt found an error of
the model's own property: `AcceptanceKept` said that a listener with room is armed or has
a handler posted, which is false for a `Capacity` of two or more (the connection that
is being adopted arms it again afterwards); the run's capacity of one hid it. The property
now says so.

Only model-checked:

* liveness (`connection_waits`, `receive_ring_live`), which is outside the prover's reach;
* the components without a proof module: HttpClient, Mongo, RpcHandshake, MCP. No
  module declares a RECURSIVE operator, so that all of them can be proved about (section 7);
* what a recursive function computes is proved only where it is needed, for `FlattenSeq`,
  the sums of the queue, `Without` and the offers of the redis pool. The library's induction theorems take an operator as
  parameter, which the installed provers cannot instantiate; the proofs use least elements
  of sets instead.

## 5. Properties and where they bite

Every property is stated in its module with the behaviour it is about. Most runs ask
for one property per question a component has to answer; it is a conjunction of
parts with names of their own.

* Writes: `ExactlyOnce`, `DoneMeansSent`, `ResponsibilityBounded`, and `WritesExact` with
  `AttributionExact`, `OnCloseIsLast` and `AppendNeverRefuses` (AcceptWrite's limits make the
  queue's own refusal unreachable, so its roll-back is dead code). `NobodyForgotten`:
  no lost wake-up (the second test after registering carries it, and the extra
  notification after a pop when `max_ops` is 1), and an idle owner owes nothing.
* Reads: `InboundExact` (bytes that lost a try-lock keep their place, within the limit),
  `NobodyStranded`.
* Reactor: `ListsExact` (the flag without a lock is exact), `NoLostTurn`.
* Engine: `DialExact` (a receipt never says released while the descriptor is open; the
  seal waits for exactly the callbacks still to come), `NoOrphan`, `HandoffExact` (each
  place belongs to one arrival), `AcceptanceExact`.
* HTTP: `SessionsExact`, `CloseReachesSources`, `ExchangeExact` (an error that does not say
  "unknown" means that nothing was sent and nothing will be), `PoolExact`, `PoolEnds`.
* Clients: `RedisExact` (a late reply never answers the next command), `ClientsKept`,
  `MongoExact` (one terminal, a quiet owner after close, a finalizer that is woken).
* RPC: `ClosedMeansUnsent` (that a call on a dying link went nowhere rests on the order of
  two calls in `Kill`), `OutstandingExact`, `CallsDecided`, `OwnerBounded`, `OwnerSettles`,
  `HandshakeExact`, `RequestsAccounted`, `HookExact`.
* MCP: `CoreCorrect` (places, one terminal, acknowledgement before updates, silence after
  Close), `FramesAccounted`, `HttpExact`, `RequestsExact`.

## 6. Where code and comments disagree

With a run of their own:

* `ring_busy`: `AppendDeferred` takes the mutex and does not announce its release
  (`net/detail/impl/ReceiveRingImpl.hpp:119`), although a Busy reader waits for that
  (`net/detail/ReceiveRing.hpp:8-10`). The reader sleeps with the mutex free.
* `reactor_seal`: `SealServiceOnOwner` empties the dirty list before it sets
  `m_sealed`; a `MarkDirty` in between leaves the node of a destroyed connection in
  the list (`net/Engine.cc:2143` against `2130`).
* `http_pool_dial`: `Close` retires an entry whose dial is suspended; its empty
  receipt counts as released, so the sweep of `Stats` destroys the entry
  `DialReserved` points to (`http/detail/impl/PoolImpl.hpp:296` against `Pool.hpp:163`).
* `mongo_stranded`: a command is registered before its wait; a close in between decides
  it and wakes nobody (`mongo/detail/MongoRuntime.cc:195` against `179-180`).

Stated as a property of its module and refuted by TLC, without a run in `PROJECT.json`
(the list of runs is kept short; give the module a configuration with the constants
of the composite and the property to see the trace):

* `EofMeansDrained` (ReceiveRing): `TryPopAll` reads sizes and then the terminal flags; a
  close in between stages bytes and sets the flag, and Eof is reported with bytes left
  (`ReceiveRingImpl.hpp:195` against `ReceiveRing.hpp:147`).
* `StopConfirmed`, `StopAfterHandoff` (EngineAccept): after `Run` has ended and the request
  returned the stop may be unconfirmed (`Engine.cc:2464-2465`); `AcceptingStopped` may be true
  before the handoff is sealed (`Engine.hpp:211-219`).
* `AgainIsFinal` (HttpServer): a second `Shutdown` returns ok while the first is still
  draining (`http/Server.cc:876-894`).
* `ClosedIsDefinite` (HttpClient): an exchange reports Closed although its request is partly
  on the wire, against the comment at `http/Client.cc:506-507`.
* `ConnectOkIsReady` (RedisClient): a `Connect` during another's handshake returns ok
  (`redis/CoRedisCli.cc:189`), against the header: Overloaded, and ok means usable.
* `CancelReachesListen`, `NoAnswerAfterSeal`, `PoolShared`, `NoWindowLoss`, `LinesWhole` (MCP):
  a cancelled listen request enters its subscription afterwards (`mcp/Registry.cc:604-606`);
  a request that a cancel took out of the table before `Close` looked at it is answered after
  the seal (`330`); resources and prompts do not count tools in the bound they share
  (`McpServer.hpp:58`); a change between capture and stream is lost, so that a full queue is
  not the only way to lose one (`mcp/HttpTransport.cc:628-629`); the frame after one given up
  in its middle continues its line (`mcp/StdioTransport.cc:10`, `430-438`). `FramesAccounted`
  and `HttpExact` state what does hold there: every frame is written, dropped or given up
  and counted; a stream begins with its acknowledgement, repeats nothing, keeps its limit and
leaves no subscription behind.

Seen while modelling, stated nowhere as a property:

* Net: `max_inbound_bytes` = 1 gives a low-water mark of 0 (`Engine.cc:1389`); a ring once
  full never resumes, against `Engine.cc:772`. `ResumesWhenDrained` is checked for 2.
  `PumpOwner` ends a pause below the low-water mark also when deferred bytes are still
  unmerged (`Engine.cc:575`), and the level-triggered wait spins, which `796-799` wants to
  prevent. A raw retry is requested after the failed `try_lock`
  (`ReceiveRingImpl.hpp:151`); if the release is over by then nobody serves it. In raw mode,
  without a counted reservation, accepting is not armed again after EMFILE, a failed
  wait or a failed adoption.
* HTTP: a source returned after the total deadline is dropped without `Cancel`, and an
  exception in `Serve` leaves one uncancelled. Of a header the client's defaults repeat a
  request replaces only the first; the last wins on the wire.
* RPC link: a call that times out or is cancelled while its frame is queued is told
  TimedOut, or Cancelled in phase NotStarted (`rpc/Session.cc:2893-2914`), but the frame
  stays in the lane and is sent later. A wait for a write that ends just as the write is
  done yields a definite failure of a frame that went out (`rpc/detail/Tcp.cc:94-106`).
  These two are why `ClosedMeansUnsent` speaks of "closed", "moved" and "overloaded" and not
  of "failed" and "gaveUp". A reply registers its wait without a second look at `settled`
  (`rpc/Session.cc:1698-1716`): a writer that is faster notifies nobody.
* RPC owner: the loser of an election in `ServeInbound` enters the winner in the server's
  links once more; `ReleasedLocked` takes the quota back without waiting for the
  responsibilities its comment asks for (`rpc/Session.cc:1044-1070`); an evicted link leaves
  `by_identity` at once, so `MaxSessions` bounds the registered links and dials, not the
  physical ones; a new link can lose to a dead winner not yet released; replies over links
  that were dialled are not seen by the server's drain; `Start` after an early `Drain`
  succeeds.
* Mongo: `CloseAndWakeAll` may wake a submitter whose operation was claimed and has no
  outcome yet; a failed spawn in `Start` strands like `Close` does (`114-123`).
* Redis: a PTTL below -2 is a protocol error that keeps the stream; waiters of a pool
  whose slots are all dead wait for their deadline or a `Connect`; a slot retired during a
  repairing `Connect` stays dead though it returns ok.
* MCP: a listen that races `Close` can enter a subscription nobody drains; an end of a
  flow may come before its acknowledgement, an update after it; over HTTP the end frame is
  never delivered. The error for a repeated id is answered without the gate `Close` shuts.

## 7. Plan

1. Done: the write and read side of a connection, the queue, the reactor, the HTTP pool,
   one RPC link; the proofs of ConnectionState's books.
2. Done: dials and accepting of the engine; HTTP client and server; Mongo and Redis; the
   owner of the RPC links, its handshake, admission and checkpoints; the MCP core and its
   transports.
3. Done, proofs: OutboundQueue with its refinement, ReceiveRing, Reactor, EngineAccept,
   EngineDial, RpcSession, RpcOwner, RpcAdmission, RpcHooks, HttpPool, HttpServer, RedisClient,
   RedisPool, and all of ConnectionState's safety (section 4).
4. Next, proofs, each from an inductive strengthening checked by TLC first: McpStdio
   (`FramesAccounted`), McpHttp (`HttpExact`), McpRequests (`RequestsExact`). The first two
   need names of their own, so that their composite can extend them.
5. An abstract specification of the handoff that EngineAccept implements (a bounded bag
   that is shut once), and of a pool of places that HttpPool and RedisPool share.
6. Composition: Reactor over an abstract connection that ConnectionState and ReceiveRing
   implement (`dirty`, `closed` and the pending work as the interface).

## 8. Not modelled

* Text and byte formats (addresses, HTTP/1.1 messages, RPC frames, RESP, BSON, JSON,
  schemas), which are data conversions with their own tests. A parser appears as the
  choice of its outcome.
* `ReactorDriver`, `DriverBinder` and the bbt coroutine runtime: the loop that runs an owner
  appears as the fairness above. `NativeSocket` and other thin wrappers of system calls.
* Configuration watch, the Consul client, the older RPC transports: sequential code with
  one actor.
* Allocation failures and exceptions of the scheduler, save where a call can be refused;
  the fault injection of the tests; time beyond "the deadline may have passed"; the debug
  and observation helpers; metrics.
* Liveness above `net`: see Fairness.

`PROJECT.json` lists every component with its status, and every hazard with its line.
