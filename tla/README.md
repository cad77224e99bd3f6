# Ogmios in TLA+

TLA+ models of the concurrent core of the Ogmios server (`server/src/Ogmios`) and of its
TypeScript client (`clients/TypeScript/packages/client/src`), the TLC configurations that check
them, and theorems about them that TLAPS checks. Paths below are relative to the root of the
repository; line numbers are those of the source the models were written from.

Contents: [the system](#the-system) · [the components](#the-components) ·
[modules and code](#modules-and-code) · [runs](#runs) · [bounds](#bounds) ·
[fairness and deadlock](#fairness-and-deadlock) · [proofs](#proofs) ·
[disagreements found](#disagreements-found) · [not modelled](#not-modelled) · [plan](#plan)

## The system

Ogmios is a WebSocket bridge in front of a cardano-node. A WebSocket client sends JSON-RPC
requests, in any number and without waiting; the node speaks four typed mini-protocols over a
local socket, each with a strict agency. For each WebSocket connection the server keeps

* a *session* thread, inside a stack of exception handlers, that owns everything else,
* a *routing worker*, linked to it, that receives messages, decodes them and pushes each to the
  queue (`TQueue`) of its mini-protocol,
* four *mini-protocol clients* on one node connection, each reading one of the queues and writing
  responses to the WebSocket (chain-sync, state-query, tx-submission, tx-monitor), and
* on a second node connection, the *execution units evaluator*: a state-query client and a
  mempool monitoring client that serve `evaluateTransaction`, reached through `TMVar`s.

Beside all sessions, the *health check* follows the tip of the chain on a node connection of its
own, and writes the health that `GET /health` reads. Sessions share the metrics.

```
            WebSocket client                                       HTTP client
                  |  ^                                                  |
          messages|  |responses                                         | GET /health
     +------------v--+-------------------- Session ----+         +------v------+
     |  routeMessage (cache)                           |-metrics-| HealthCheck |
     |   |chainSyncQ  |stateQueryQ |txSubQ  |txMonQ    |         | (Debouncer) |
     |   v            v            v        v          |         +------+------+
     | ChainSync  StateQuery  TxSubmission  TxMonitor  |                |
     |                          | ^ TMVars             |                |
     |                     Evaluator, MempoolCache     |                |
     +---+------------+-----------+---------+----------+                |
         v            v           v         v                           v
        cardano-node (chain, ledger states, mempool: LocalNode)  <------+
```

At the other end of a WebSocket, the TypeScript client keeps an *interaction context*: the
WebSocket with the callbacks registered on it, and the promises of the calls that wait for a
response. Four clients are built on it, the first with a window of requests ahead of its own:

```
      program:  handlers <----.      calls      calls        calls
                  |  nextBlock |       |          |            |
        ChainSynchronization (fastq)  LedgerStateQuery  MempoolMonitoring  TransactionSubmission
                  |                    | Method:      | generator        | two generators
                  |                    | own id       | by id            | by method
        +---------v--------------------v--------------v------------------v--+
        |  Connection: send, Method, once('close'), removeAllListeners      |
        +----------------------------- WebSocket ---------------------------+
```

What is hard about the server: the client's view (an unbounded list of requests, answered in order) and
the node's view (one outstanding message, or a bounded pipeline) differ in every mini-protocol;
each protocol has states in which a request must not reach the node; evaluation crosses threads
twice and depends on a cache that a third thread rewrites; the node's tip, era and mempool change
between any two messages; connections end at any time, with state left in shared variables; and
exceptions are thrown across threads into whatever handler is active then.

What is hard about the TypeScript client: responses are told apart in three ways, only one of
which is the identity of the request; an event generator is fed by callbacks and emptied by
microtasks; callbacks are added and removed while events are emitted, on two platforms that
disagree about what that means; the chain is followed with many requests ahead and with handlers
that end when they please.

## The components

| component | state it keeps | operations | hazards | what makes it correct |
|---|---|---|---|---|
| chain-sync client (`App/Protocol/ChainSync.hs`) | queue, pipeline depth `n`, `buffer` of pending `toResponse` | pipeline, collect, seek an intersection, refuse one | buffer and pipeline are separate pieces of state; a `findIntersection` behind unanswered requests; off-by-one of the pipeline's limit | indistinguishable from a service that answers one request after the other; bounded pipeline; `error` unreachable |
| state-query client (`App/Protocol/StateQuery.hs`) | queue, whether a state is acquired | acquire, re-acquire, release, queries of 0–3 parts, one-off or not | every shape of query is written twice with different continuations; tip crosses eras between parts | client and node agree on what is held; each response of one state; queries from the acquired state |
| tx-submission client (`App/Protocol/TxSubmission.hs`, `mkTxSubmissionClient`) | queue, the transaction at the node | submit, upgrade and resubmit, evaluate | cache invalidated on success while a drain is under way | every request answered once, in order, with its own result |
| mempool cache (same file, `mempoolMonitoringClient`, `readMempoolM`, `clearMempoolM`) | `mempool` TMVar, snapshot names | drain, publish, read, invalidate | two variables written by one thread and read by another; blocking takes and puts | readers get a whole snapshot that is new since the last submission; the monitor never blocks |
| evaluator (same file, `localStateQueryClient`) | two TMVars, acquired ledger state | take, acquire, four queries, reply, retry | results left behind; stale ledger states; eras that do not translate | at most one evaluation; fresh ledger; right era |
| tx-monitor client (`App/Protocol/TxMonitor.hs`) | queue, acquired or not, eras left to try | acquire, next, has, size, release | first acquisition immediate, later ones blocking; loop over eras | consistent answers about one snapshot; re-acquiring gives a new one |
| health check (`App/Health.hs`) | health `TVar`, two TMVars between its clients, connection loop | follow the tip, interpret it, reconnect | TMVars outlive the connection; two clients wait for each other; debouncing | health agrees with connection and itself; no deadlock; says Connected again |
| debouncer (`Control/MonadClock.hs`) | lock, background thread | run, release | the lock is given back on a schedule of its own | how often the action may run |
| sessions and routing (`App/Server/WebSocket.hs`) | handlers, linked worker, message cache, queues | accept, route, replay, end | asynchronous exceptions during unwinding; cached decoding | messages routed once, in order; sessions end and leave nothing |
| metrics (`App/Metrics.hs`) | counters, gauge, distribution | increment, decrement | decrement skipped by an exception | the gauge counts what it says |
| interaction context (`Connection.ts`, `IsomorphicWebSocket.ts`, `ServerHealth.ts`) | WebSocket, callbacks on it, promises | create, send, `Method`, shutdown; open, message, error, close | callbacks that remove others while an event is emitted; a close at any time | calls settle by their own response or the close; callbacks do not add up; the user is told once |
| event generators (`util.ts`, `eventEmitterToGenerator`) | kept events, one promise, waiting `next()`s | match, `next()`, microtask | several matches before a microtask; several `next()`s | the k-th `next()` gets the k-th event |
| ledger-state, mempool, transaction clients (`*/Client.ts` and their methods) | generators, identifiers | 19 + 5 + 2 methods, 24 functions on their own | mini-protocols answer in order, but not relative to each other; errors without a method | each call gets its own response |
| chain-synchronization client (`ChainSynchronization/`) | queue of handlers, window of requests | `resume`, handler callbacks, `nextBlock`, shutdown | overlapping or failing handlers; tip that moves between two requests | a chain is applied, in order, up to the tip |
| parsing and sizes (`util.ts`, `safeJSON`, `utxoSize`) | — | parse, size of an output | numbers typed by the names around them; boundaries of CBOR heads | types of the schema; the size the ledger charges |
| HTTP server, codecs, predicate failures, rewards, options, logging, inspect, dashboard, packaging | — | — | see [not modelled](#not-modelled) | |

`PROJECT.json` lists all of them, with sources, under `components`, and under `hazards` what in
each is hard to test, at its line, with the properties about it.

## Modules and code

Each action is a whole handler: everything from the message, answer or wake-up that runs it to the
point where the thread next waits. Mini-protocols with the node are synchronous except for the
chain-sync pipeline, so an action there is an answer of the node together with the handler that
runs on it. `PROJECT.json` maps each definition to its lines (`map`).

Some operators come in pairs, `X` and `XFaulty`: `XFaulty` is what a plausible slip would make of
`X`. No specification uses one; each property is broken when some faulty operator takes the place
of the right one (`mutants`), which shows that the property does depend on the code.

### `ChainSync`, `ChainSyncService`

`ChainSync` is `mkChainSyncClient`. `pc` says which continuation runs next: `clientStIdle`
(`idle`), `CollectResponse` with or without an alternative (`tryCollect`, `collect`),
`clientStIntersect` (`intersect`). `inFlight` is the type-level `n`, `buffer` the sequence of
`toResponse` closures, abstracted to the request each answers. The node (external) serves its
messages in order and first rolls back after its read-pointer moved. Blocks, points and tips are
abstracted to the serial number of the node's answer, which is what ordering is about.

`ChainSyncService` is the promise, with no pipeline and no node: a list of requests answered from
the front, successive `nextBlock` responses with the node's successive answers, and one exception,
the immediate refusal of a `findIntersection` with only `nextBlock` requests ahead of it.
`ChainSync` implements it under the mapping `pending <- buffer \o intersecting \o queue`,
`delivered <- answers collected`.

### `StateQuery`

`client` is the continuation: `clientStIdle`, `clientStAcquiring`, `clientStAcquiringTip`,
`withCurrentEra` (`era`), the queries of `clientStAcquired`. The code writes every shape of query
twice, with `SendMsgRelease` in the one-off copy and `clientStAcquired` in the other; the model
has one copy and a flag, `oneOff`, and `AfterQuery`/`AfterGenesis` say where each copy goes.
Ledger states are numbered; `held` is the one the node holds for this client. A query is
abstracted to the number of queries of the node it is made of (none for genesis configurations)
and the eras it exists in.

### `LocalNode`, `MempoolCache`, `Evaluator`, `TxSubmission`

`LocalNode` (external) is the history of the node's mempool, each state in the era of the tip; it
keeps all of them so that properties can say how old a snapshot is.

`MempoolCache` is the monitoring client's loop, transaction by transaction, with `mempool` (a
`TMVar`: a sequence of at most one value), `mempoolSnapshot` and `mempoolSnapshotOnLastSubmit`.
The code names a snapshot by slot and monotonic time at the start of its drain; the model by the
number of drains started. `Readable` is the STM `retry` of `readMempoolM`, `Cleared` is
`clearMempoolM`.

`Evaluator` is the state-query client that serves evaluations and the two `TMVar`s around it. The
arguments of an evaluation are abstracted to their era and, as history, to the request, the
snapshot, the UTxOs and the state of the node they come from. `Translatable` is `translateToNetworkEra`. A
Haskell `error` there is the state `impossible` or `upgradeFailed`: the exception ends the
connection.

`TxSubmission` is `mkTxSubmissionClient` and composes the other three: four threads (router,
submission client, evaluator, monitor) and the node, interleaved.

### `TxMonitor`

`clientStIdle`, `clientStAcquired` and the loop of `hasTransaction` over `inMultipleEras`, against
`LocalNode`. Idle, every request but `acquireMempool` is refused; acquired, `acquireMempool` is
`SendMsgAwaitAcquire`, which blocks until the mempool changed.

### `Debouncer`, `HealthCheck`

`Debouncer` is `withDebouncer`: a lock, taken by whoever runs the action, given back by a thread
that sleeps `Delay` between two returns. It measures the time since the last two runs.
`HealthCheck` extends it with `connectHealthCheckClient` (`Connect`, `LoseConnection`, which also
is a failure to connect; `foreverCalmly`'s pause is `retry`), `mkHealthCheckClient` (`follower`),
`newTimeInterpreterClient` (`interpreter`), the two `TMVar`s between them, which live as long as
the process, and the health. Slot arithmetic is abstracted to the tip it is about.

### `Session`

`phase` is where a session's thread is among the handlers around it: `accepting` and `open`
inside `onExceptions` (`newWebSocketApp`), `unwinding` when the node connections are gone and the
handlers are being run, `leaving` and `recorded` in what is left of `recordSession`, `done`, or
`escaped`, when an exception went past `recordSession`. The worker's loop (`routeMessage`) counts,
receives, and then replays the cached effect, decodes, or reports. The worker is linked to the
session with `link`: its exception is thrown to the session, asynchronously, wherever that is
(`OnWorkerException`). The two node connections of a session are one value, `node`, because
`concurrently_` ends either with the other. Messages are records of a method and an identity; two
messages are the same bytes when they are equal. Queues are the history of what was written.

The queues of `Session` are the `queue`s of the mini-protocol modules, whose `Push` is a write by
`RouteMatched` or `RouteAgain`: `RoutedInOrder` says that each mini-protocol sees exactly the
client's requests to it, in order, which is what the mini-protocol modules assume of `Push`.
What `Session` shares with `ChainSync` in one run is nothing but that; so its `Init`, `Next` and so on
are `SessionInit`, `SessionNext`, and a WebSocket client is a `Peer`.

### `EventGenerator`

`eventEmitterToGenerator` as pure operators on a record: `events` kept, `listens` and `given` the
promise the loop awaits, `callers` the calls of `next()`, which the engine runs one after the
other. `Matched` is the callback on the emitter, `Asked` a call of `next()`, `Resumed` the
microtask that ends the first call and runs the loop for the second, `Turn` one turn of the loop.
`EventGeneratorHistory` is one generator under any sequence of these, with the history of what
happened to it, to prove about.

### `ClientRequests`, `Connection`, `Clients`

`ClientRequests` is every operation of the three clients, and of the functions the repl
offers: its mini-protocol, whether it has parameters (which can be ill-formed), whether the schema
has an error for it and whether its handler insists on a `result`; how its request is tagged
(`Identifier`) and what a response is matched by (`IsOwn`, `MatchAny`, `MatchSubmitTransaction`,
`MatchEvaluateTransaction`). Parameters and results are left out.

`Connection` is the WebSocket, its callbacks in order of registration, and the promises. `Runs`
is the one difference between the platforms: Node.js emits to a copy of the list, while in a
browser a callback that a previous one removed does not run. `Clients` composes them with the
generators and with the server as its clients see it: `Route` and `Answer` are the promises that
`Session` (`RoutedInOrder`) and the mini-protocol modules (`EveryRequestAnswered`, answers in
order) make, ill-formed requests being answered by the routing worker ahead of the others. Any
well-formed request may be answered by an internal error instead, which carries the request's
identifier but no method (`defaultWithInternalError`, `App/Protocol.hs:196`; `RpcError` in `Answers`);
`unnamed` is the history of those. An action is one callback with the microtasks after it, except that Node.js may emit several
messages before the microtasks of a generator run (`Resume`).

### `ChainSyncClient`

`createChainSynchronizationClient`, `findIntersection` and `nextBlock` between the server, which
answers as `ChainSyncService` does (in order, refusing an interleaved `findIntersection` at once,
with a rollback first after an intersection), a node that extends or switches its chain (`Adopt`),
and the program's handlers. Those do what the documentation's examples do: append a block, or roll
back to one; they ask for the next block at some point (`Asks`), end later (`Finishes`), or fail
before they asked (`Fails`). `fastq` (external) is a sequence of tasks, and
`sequential` is the option. `platform` is Node.js or a browser, where a close leaves the calls of
`resume()` that wait as they are (`Closed`): the callback that would reject them is taken away by
`onInitialClose` before it runs, as in `Connection`.

### `UtxoSize`, `SafeJSON`, `Util`

`UtxoSize` is `utxoSize`, over outputs of which only sizes remain, next to a reference definition:
`Encoding` is the CBOR of the same output, byte by byte. `SafeJSON` is `sanitize` with its helpers, over
documents of transactions, blocks and values in which each number carries the type the schema gives it.
`Util` is one step from an input to a result, for TLC. `SafeJSON` is recursive, so nothing is proved about it.

## Runs

`tlc -config X.cfg M`. The `MC` modules instantiate the models. Three of them put side by side two
parts that share no state: `MCServer` (chain-sync and sessions), `MCLedger` (ledger-state queries and the
health check) and `MCClients` (the clients and the helpers). A behaviour is then of one part (`part`),
while the other stays as it begins, so that the run checks the properties of both and multiplies
nothing.

| run | asks | properties |
|---|---|---|
| `server` (`Server.cfg`), chain-sync | does the pipeline ever show, block or err? | `NeverErrors`, `PipelineBounded`; `ImplementsService`, `EveryRequestAnswered` |
| `server`, sessions | are messages routed once and in order, is the gauge exact until a session escapes it, and do sessions end? | `RoutedInOrder`, `GaugeUntilEscaped`, `UnroutedAccounted`; `SessionEnds` |
| `chainsync_inflight` | are no more than `--max-in-flight` requests in flight? **violated** | `InFlightLimited` |
| `session_gauge` | is the gauge the number of connections established? **violated** | `GaugeIsLive` |
| `ledger` (`Ledger.cfg`), queries | do client and node agree on what is acquired, and do responses come from it? | `InStep`, `OneLedgerState`, `QueriesFromAcquired`; `EveryRequestAnswered` |
| `ledger`, health check | does the health tell the truth through lost connections, and do the threads get on? | `StatusAgrees`, `OneTipUntilLost`, `SomebodyMoves`; `TwicePerDelay`, `ConnectedIsSaid` |
| `statequery_genesis` | is a state kept until it is released? **violated** | `QueriesFromAcquiredUntilRelease` |
| `health_check_stale` | is a health about one tip? **violated** | `OneTip` |
| `health_check_debounce` | does a debounced action run once per interval? **violated** | `OncePerDelay` |
| `txsubmission` (`TxSubmission.cfg`) | do evaluations get their own result, from a whole and new snapshot and a fresh ledger, and always get one? | `InStep`, `CacheIsSound`, `UpToDate`; `EveryRequestAnswered`, `OneChangeSuffices` |
| `txsubmission_utxo` | does an evaluation use the additional UTxO? **violated** | `AdditionalUtxoUsed` |
| `txmonitor` (`TxMonitor.cfg`) | are answers about one snapshot consistent, are new ones new, and is every request answered? | `InStep`, `ConsistentWhileAcquired`, `NewSnapshots`; `EveryRequestAnswered` |
| `clients` (`Clients.cfg`), calls | does each call get its own response, do callbacks add up, and what does a close leave? | `InStep`, `OwnResponse`, `InFlightAccounted`, `CloseReported`; `CallsSettle` |
| `clients`, helpers | is the size the ledger's, and are numbers typed as the schema says? | `SizeAsLedger`, `OneRound`, `SanitizedAsTyped` |
| `chainsync_client` (`ChainSyncClient.cfg`) | does the program follow the node's chain, whatever its handlers do? | `InStep`, `AppliedIsAChain`, `ResumesAtIntersection`; `CatchesUp`, `ResumeSettles` |

`InStep` is, in each module, the conjunction of the invariants that say that its bookkeeping is in
step: `TypeOK` with `SessionsAgree` and `AnsweredInOrder` (`StateQuery`), `AnsweredInOrder`
(`TxMonitor`), `OneEvaluation`, `AnsweredInOrder` and `OwnResult` (`TxSubmission`),
`ListenersAccounted` (`Clients`), `WindowKept` (`ChainSyncClient`). `CacheIsSound` is
`CacheIsASnapshot` and `MonitorNeverBlocks`; `UpToDate` is `FreshLedger` and
`NewSnapshotAfterSubmit`. What is
proved of `ChainSync`, `HealthCheck` and `Session` beyond the
properties of their runs (`TypeOK`, `HealthTypeOK`, `SessionTypeOK`, `PipelineAccounted`, `IntersectAlone`)
is not checked again.

What they show, in the properties' words:

* *Chain-sync.* Seen from the WebSocket there is no pipeline: responses carry the right request in
  the right order, with the node's answers in the node's order, and after an intersection the first
  roll is the rollback to it. The client never sends what the node's protocol does not allow.
* *State queries.* Whichever of the many ways a request ends, the client's belief about whether a
  state is acquired is the node's, and every response is made of results of one ledger state, even
  if the tip crosses a hard fork between its parts.
* *Submission and evaluation.* The rendezvous of two threads over two `TMVar`s is sound: one
  evaluation at a time, no result left behind, retries included. The cache is a whole snapshot at
  all times, and one that was published after the last successful submission, though not
  necessarily *acquired* after it.
* *Evaluation waits.* After a submission evaluations wait for a new snapshot, which may need one
  more change of the node's mempool or tip, and never needs two.
* *Mempool monitoring.* The promises of `docs/content/mini-protocols/local-tx-monitor.md:35` hold,
  also when the mempool's era changes while eras are tried.
* *Health.* Left-overs of a lost connection make the health stale by one tip, but never block the
  two clients, nor keep the server from saying `Connected` again.
* *Sessions.* Routing with a cache is routing; the gauge of live connections is right until a
  session's exception escapes, which takes a connection that fails, and wrong from then on; nothing
  outlives a session.
* *Calls of the TypeScript client.* Over `Method`, a call only ever gets the response to its own
  request. The mempool and transaction clients, which take the next response of a stream, get theirs
  as long as no request of the stream is ill-formed and, for the transaction client, which goes by the
  method, none was answered with an internal error, which has none, and nobody else uses its method over
  the same WebSocket; `Undisturbed` is exactly that condition. What a call waits for is in one place at a
  time. Callbacks do not add up. On Node.js the close is told once and settles every call.
* *Following the chain from TypeScript.* With sequential handlers, whatever the window and whenever
  they end, the program's chain is a chain, and reaches the node's tip; a `resume()` starts at the
  intersection it found, or before it when the node left that. The window is kept, except for what
  failing handlers take away for good.
* *Pure helpers.* Without an inline datum `utxoSize` is the encoder's length, to the byte; one
  round of `size * coinsPerUtxoByte` is enough, with an inline datum too.

## Bounds

Every counter of a model is bounded by a constant named in its module.

| run | bounds | why they are enough |
|---|---|---|
| `server`, chain-sync | `MaxInFlight` 2, `MaxRequests` 5 | full pipeline (3 in flight), a request behind it, and an intersection in any of the five places; all kinds, all interleavings with answers |
| `ledger`, queries | 3 requests; states 1–3, hard fork at 2; the node acquires the last 2 | acquire, query, then anything; a point too old, not there yet, or fine; the tip crosses the fork at any point of a compound query of 3 parts |
| `txsubmission` | either 2 requests of the era of the node, 3 mempools; or 1 request of any kind, 2 mempools, eras Alonzo–Dijkstra (`several` in `MCTxSubmission` says which) | a submission and an evaluation of either order, a drain under way, one more change; more states of the mempool repeat this. Of eras what matters is the pair of those of the arguments and the ledger, and a hard fork between |
| `txmonitor` | 4 requests, 3 mempools, eras Conway–Dijkstra | acquire, two questions that could contradict each other, acquire again; an era that changes between |
| `ledger`, health check | `Delay` 2, `RetryDelay` 1, 3 tips, 2 updates, 2 losses | two losses, since the first leaves something behind and the second comes on top of it; the second, in the same run, finds every combination of left-overs |
| `server`, sessions | 2 sessions, the first sends 2 of 4 messages, the second none | replay is about two consecutive messages; sessions share only counters, to which the other one contributes by coming, failing and going. 3 messages pass too, in more than three times the time |
| `clients`, calls | every operation once; programs of 2–3 calls over the mempool and transaction clients and `Method`; one context; both platforms | what makes calls interact is a shared stream, a shared queue of the server, or the close: each pair is there, with a third call behind it; well-formed or not, answered, failed or met with an internal error |
| `chainsync_client` | both platforms, default window 2, 2 calls of `resume()` (windows 2 and 1), 2 blocks after the origin, forks that drop 1, 1 failing handler | more handlers than may run; a window inside another; a fork between the two requests of a `resume()` without points and between an intersection and the first block |
| `clients`, helpers | some 1,900 inputs | lengths around each boundary of CBOR heads (24, 2^8, 2^16, 2^32) and of collections (24); scripts and metadata nested two deep |

Symmetry is not used: requests are numbered, and the two sessions differ.

## Fairness and deadlock

* Threads of the program are not starved: the runtime schedules every green thread. `WF` of each
  thread's next step, as one formula per thread: a thread takes whichever of its steps is enabled.
* The node answers what it was asked (`WF` of `Node`, of the monitor and evaluator steps that
  stand for its answers, of `NodeSubmits`); at the tip it answers `RequestNext` with the next block.
* Where the node alone decides between two answers, strong fairness says that it does not give
  the bad one for ever: `SF` of `QueryPParams` and of `QueryUtxo \/ Raise` (the era is not
  contradicted for ever; the loop of retries would otherwise be infinite, and is so in the code),
  `SF` of `OnIntersectFound` (the tip is not switched away each time it is sought).
* Blocks keep coming: `WF` of a change of the node's mempool or tip *while somebody waits for one*.
  It is bounded in the model (`MaxMempools`), and the liveness properties end with "or the model's
  node made its last change"; `OneChangeSuffices` has no such way out.
* Nothing is assumed of clients: they need not send, nor leave.
* In `Clients` the server routes and answers what reaches it, which is what `EveryRequestAnswered`
  of the server's modules gives, messages are delivered while the WebSocket is there, microtasks
  run, and a WebSocket that is closing closes. No program is made to call, and no WebSocket to stay
  open or to close.
* In `ChainSyncClient` the server answers what it *can*: a `nextBlock` at the tip waits for a block
  the node need not adopt. Handlers end (`Handle`); whether one fails is not fair.

`CHECK_DEADLOCK FALSE` in `ChainSync`, `StateQuery`, `TxSubmission`, `TxMonitor`: the model stops
when the client has sent its `MaxRequests`, as the server does when the client is silent; and in
`Session`, `Clients`, `ChainSyncClient` and `Util`: every session, program or input comes to an end. That nothing stops *earlier* is what the liveness properties
say. `HealthCheck` never stops, as time passes; that its two threads do
not wait for each other for ever is `SomebodyMoves`, and that something comes of it `ConnectedIsSaid`.

## Proofs

`tlapm M.tla` checks them. They hold for every value of the constants that satisfies the
assumptions named next to the constants (`ChainSyncAssumption`, `DebouncerAssumption`,
`HealthCheckAssumption`, `SessionAssumption`, `StateQueryAssumption`, `NodeAssumption`,
`TxMonitorAssumption`, `TxSubmissionAssumption`, `ClientsAssumption`, `ChainSyncClientAssumption`;
`RequestOrder` needs none): sizes and bounds are natural numbers, a delay and the numbers of tips and updates are not
zero, the set of sessions is finite, messages have methods, requests have the shapes the code has,
programs make calls of the operations there are.
None is about behaviour. Two theorems, `SnapshotsAreConsistent` and `AdditionalUtxoUsedBefore`, have a
hypothesis of their own, about the era of the node; it is explained there.

**`ChainSyncProofs`**, for every `--max-in-flight` and any number of requests.

* `TypeCorrect`, `PipelineCorrect` (`PipelineAccounted`, `IntersectAlone`, `NeverErrors`),
  `PipelineIsBounded`.
* `PipelineInv` conjoins what the run checks and a bound. `NeverErrors` is not inductive: that the
  buffer is not empty when an answer is there follows from `PipelineAccounted`, which counts
  buffer, pipeline and the node's debts; the state in which an intersection is sought is disjoint
  from it (`IntersectAlone`). `PipelineBounded` alone is not inductive either: the pipeline may
  only be one above the limit while the client can do nothing but collect (`PipelineLimited`).
* `PipelineImplementsService`: `ImplementsService`, the refinement of `ChainSyncService`, step by
  step. `PipelineInv` relates how many requests and answers there are; `ServiceInv` adds what they
  are: which kind a request has that left the queue (`KindsApart`), which of the node's answers
  are on their way (`Numbered`: the serial numbers are consecutive, so what is collected is the
  service's next answer), and that after an intersection the node still remembers to roll back, or
  its rollback is the next answer to collect (`RollbackKept`). Most steps of the pipeline are
  stutters, because they move a request between two adjacent parts of `pending`; `Refuse` is the
  one that takes a request from its middle (`JumpTheLine`).

**`RequestOrder`**: lemmas that the next three modules share. `InOrder` says that requests are
numbered as they come and that responses, the request being served and the queue follow one
another in those numbers; each lemma is a way in which a client moves a request on. It is the
strengthening of `AnsweredInOrder`, which does not say which requests are in the queue. In each
module, `StepShape` says that every step is one of these ways, or none of them.

**`StateQueryProofs`**, for any shapes of query, of up to three parts and in any eras, and any
number of requests.

* `InStepCorrect`: client and node agree on whether a state is held, and answers are in order.
* `OneLedgerStateCorrect`: from `Collecting`, in which the partial results of a query are all of
  the state held.
* `AcquiredStateServes`: `QueriesFromAcquired` looks at two responses and at all between them, and
  is not inductive. `InForceIsHeld` is what connects it with the state: while no response ended
  what an acquisition began, the state acquired *is* the one held, the client is not idle, and no
  query is one-off, so that no path through the code releases it.

**`TxMonitorProofs`**, for any number of requests, transactions, changes of the mempool and hard
forks.

* `InStepCorrect`. `AllPossible`: mempools do not hold a transaction twice, whatever the node
  does.
* `SnapshotsAreNew`: acquisitions in a session are of ever later states of the mempool. The
  invariant relates the last acquisition to what the node holds (`LastIsHeld`), and the others to
  it (`Newer`).
* `SnapshotsAreConsistent`: `ConsistentWhileAcquired` relates answers to each other; what is
  inductive is that each is *true* of the state it was acquired from (`Truthful`). Of
  `hasTransaction` that takes `Searching` (a search that goes on has not missed the era of the
  snapshot), of `nextTransaction` `Pulled` (what was pulled is what comes before the node's
  cursor). The hypothesis `Oldest >= Mary` is needed: `inMultipleEras` tries no era before Mary,
  and the theorem would be false of a node that is still in Shelley or Allegra (see
  [below](#disagreements-found)).

**`TxSubmissionProofs`**, for any number of requests, mempools of any length, any interleaving of
the four threads.

* `InStepCorrect`. `AtOnePlace` is why results are never mixed up: an evaluation is in one of
  `request`, `args` and `response`, and only while the submission client waits for it; what the
  `TMVar`s hold follows from the positions of the two threads. `InFlight` says of what is carried
  there that it belongs to the request being served.
* `CacheIsSoundAlways`: `CacheKept` holds in the middle of a drain too, when the list so far is
  the beginning of the snapshot, backwards (`DrainedSoFar`); it is what makes the published cache
  whole.
* `EvaluationsAreUpToDate`: `OnLedger` follows the ledger state of the evaluator from its
  acquisition, which is after the arguments were put together; `Marked` says that a submission
  only ever invalidates a snapshot that had been published.
* `AdditionalUtxoUsedBefore`: with a node that has not reached Dijkstra (`Newest < Dijkstra`) both
  UTxOs are in every evaluation; `Merged` and `Sound` follow them through retries and
  translations. Without the hypothesis it is false, as `txsubmission_utxo` shows.

**`ServerProofs`**, for every delay, and any number of lost connections, about `HealthCheck` and
the `Debouncer` it extends:

* `DebouncerCorrect`: the debounced action starts at most twice in any `Delay`. The invariant
  (`DebouncerInv`) orders the ages: while the lock is there, the background thread gave it back no
  longer ago than the last run, and no second run is within `Delay`.
* `ImplementsDebouncer`, `UpdatesDebounced`: the health check touches the debouncer's variables by
  the debouncer's steps only, so it inherits the theorem.
* `HealthTypeCorrect`, and `StatusCorrect` with `StatusInv`.
* `NoDeadlock`: the threads never wait for each other, from `ThreadsInv`: when the follower awaits
  a result there is one, or a tip to make it of, or the interpreter is at it. A lost connection
  can only add to these.
* `OneTipCorrect`: until a connection is lost there is one tip on its way, in one place
  (`OneAtATime`), so that what is taken was made of what was notified.

and, for any finite set of sessions, any messages, any number of them, about `Session`:

* `GaugeCorrect` (`GaugeUntilEscaped`): the invariant counts the sessions between the gauge's two
  updates or escaped (`LiveOrEscaped`), so that the gauge is right while none escaped. `Reasons` is the
  strengthening for the rest: an exception can only wait outside `onExceptions` if the node
  failed first, which is why no session escapes otherwise.
* `TypeCorrect`: from `RouterInv`, in which a worker that routes has something to route, and
  `CacheInv`: only matched messages are cached.
* `MessagesCorrect` (`UnroutedAccounted`), `MessagesAhead`: counting. `totalUnrouted` is the number of
  unmatched messages because replaying cannot be of one. `totalMessages` is ahead of the messages
  routed, by one at least for each worker that waits: that much is wrong with it.
* `RoutedCorrect`: each queue is the messages of it that were routed, in order. The place of a
  message in its queue is its rank among them (`Rank`), which further messages do not change
  (`OneMoreOfQueue`, `InItsQueue`, `SentLater`); that a replayed message goes to the queue of the
  one before is `CacheInv`.

**`ClientsProofs`**, first about one generator (`EventGeneratorHistory`), for any events, any
callers, any order of them:

* `EventsYieldedInOrder`: calls of `next()` are over in the order they were made, the k-th with
  the k-th event. The invariant says where everything is: `matched = yielded \o given \o events`
  and `asked = callers \o waiting`, and each step is an equation between concatenations.
* `NoCallerStarves`: with an event nobody got and a call that is not over, a promise is resolved.
  From `OneServed`: some caller is always being served, and it listens only when nothing was
  kept.

Then about `Clients`, for programs of any number of calls of any operations, on both platforms,
with the WebSocket failing or closing at any time. All four theorems follow from one inductive
invariant, `Inv` (`ClientsInvariant`), whose conjuncts need each other:

* `Staged`, `Registered`, `Told`: the context. Each phase has its own callbacks; a call that is
  pending has one on the close, and one on messages if it is over `Method`, each registered once
  (`Once`), which is why `removeListener`, which takes away the first of several, leaves none.
* `Fitting`: what is on its way belongs to a call, and a response carries its call's identifier.
  That the identifier of a call over `Method` is its own gives `OwnResponse` for those at once. The
  other calls need order:
* `Ordered`, `OrderedStreams`: requests and responses are in the order of the calls *within a lane*, a
  mini-protocol or the routing worker. The server keeps no order between lanes, so nothing
  stronger holds. What comes behind a response in its lane is of a later call (`Answered`,
  `BeforeAll`).
* `Waiting`: the callers of a generator are the pending calls of its stream, in the order they were
  made.
* `Accounted`: when nobody disturbs a stream (`Peaceful`, which is `Undisturbed` said of the
  stream: no request of it is ill-formed, no response of it came without the method it is matched by),
  its generator has responses to its own calls only, and a call waits exactly as long as
  its request or its response is somewhere. Then what the first caller is given is the response to the
  first caller (`FirstGiven`): the response is to some call of the stream, and an earlier one
  that waits would have its own response in front of it, or its request, which order excludes.
* `Typed`, `Programmed`: types, and that calls are those of the program.

`OnErrorStep`, `OnMessageStep` and so on have the step of each action. `ResponsesAreOwn` and
`CloseIsReported` are conjuncts of `Inv`. `BookkeepingInStep` counts callbacks, and
`InFlightIsAccounted` counts requests and responses: since order in a lane is strict, there is at
most one of a call in each place (`RequestCounted`, `ReplyCounted`), and `InOnePlace` says that not in
two. The conjuncts of `Inv` were checked with TLC on the instance of `MCClients` before they
were proved, which found what the first versions of them missed; the run itself checks the properties
only.

**`ChainSyncClientProofs`**, for any windows, any number of calls of `resume()`, of blocks and of
failures, and forks of any depth. One inductive invariant, `Inv`, again:

* `Typed`: types; `TypeCorrect` follows.
* `Rooted`: there is a *tree*, a set of chains closed under prefixes in which a block is in one
  place (`Tree`), with the node's chain, the one it believes the client to have, and, while handlers
  are sequential and none failed, every chain the program's passes through: the rolls that a
  handler has, that wait for one and that are on their way, applied in order (`After`, `Leads`), lead from
  the program's chain to the node's idea of it (`Traced`). The tree is what the state does not
  hold: chains the node has left. It grows with each fork (`TreeGrows`). A rollback to a block is to the
  same chain for whoever has that block (`UpToTip`), which is why the node need not know how far the
  handlers are. Until the first block after an intersection the two need not agree, since that roll
  brings its own (`rewound`). `ChainIsBuilt` says that what is in the tree is a chain.
* `Asked`: a call of `resume()` that waits has one request or one response under way, for the point
  it goes by.
* `Started`: what comes after a response that found an intersection, if no other follows, is the rollback to
  it, or nothing yet (`StartsAt`); the same of the one that was dealt with last (`Expects`), from which
  `ResumesThere`. It holds across forks since a block that the node has left never comes back
  (`AdoptGrows`).

As for `Clients`, the conjuncts were checked with TLC on the run's instance before they were proved.

`WindowIsKept` (`InStep`, that is `TypeOK` and `WindowKept`) is an account: `Kept` weighs what is
counted (`Counts`) against the elements of `Windows`, the pairs of a call of `resume()` that resolved and
a number up to its window; a set, since a sum over the calls would need induction. Each action moves one from
one term to another, except the response that opens a window, which adds as many requests as
pairs (`WindowPutIn`, `WindowOpens`). What removing, adding or marking an element of a sequence does
to the count of those with a property is proved once, by bijections between their places (`OneFewer`,
`ManyMore`).

Model-checked only: all liveness and `ENABLED`, which the prover does not treat; and `Util`
(`SafeJSON` is recursive, and a sum over a document or an encoding needs induction over data).

## Disagreements found

Six runs check what a comment, an option's help or the documentation says and the code does not do. Each
is a counterexample of a few steps; the quotations are in `PROJECT.json` (`findings`).

1. **Querying a genesis configuration releases the acquired state** (`statequery_genesis`). The next query is
   answered from the tip, without a word.
2. **A health of two tips** (`health_check_stale`). A connection lost in mid-notification leaves a tip in a
   `TMVar`; from then on each health shows the synchronization of the tip before.
3. **`--max-in-flight` k lets k + 1 requests be in flight** (`chainsync_inflight`), and 0 lets one: `natToInt n <
   maxInFlight` (`ChainSync.hs:136`) is tested with the number *before* the message that is sent
   regardless. What does hold is `PipelineBounded`.
4. **The additional UTxO of an evaluation is dropped**, without a word, when the cached mempool has a
   transaction of the Dijkstra era (`txsubmission_utxo`): requests cannot give theirs in that era, and
   `mergeUtxo` (`Data/Protocol/TxSubmission.hs:597`) then takes the one of the mempool alone, where the
   documentation has it used "as a complement". Before Dijkstra it is used (`AdditionalUtxoUsedBefore`).
5. **The debouncer runs its action twice in an interval** (`health_check_debounce`) when its thread was
   already waiting to give the lock back. What does hold is `TwicePerDelay`.
6. **The gauge of live connections stays one too high** (`session_gauge`) for each session that ended by an
   exception thrown past `recordSession`. What does hold is `GaugeUntilEscaped`.

Observed, and checked by no property of a run:

* `totalMessages`, the "Total number of messages received" (`docs/content/getting-started/monitoring.md:73`), is
  incremented before a message is awaited, so it is one too high for each session (`MessagesAhead`).
* The `error` of `translateToNetworkEra` for "impossible" arguments (`TxSubmission.hs:676-682`) is
  possible: arguments in Babbage with the ledger in Dijkstra reach it, and it ends the connection (the
  state `impossible` of `Evaluator`, an exception in `EveryRequestAnswered`).
* `utxoSize` measures the head of an inline datum in characters (`util.ts:328`), of which there are two for a
  byte, and so is up to two bytes larger than the "size of an output, as seen by the ledger" when the
  datum is 12 to 23, 128 to 255 or 32,768 to 65,535 bytes long. `SizeAsLedger` is about outputs without an
  inline datum, `OneRound` about all.
* The seconds and milliseconds of era summaries are typed `bigint` (schema, lines 2707 and 2743) and
  parsed as numbers: `sanitize` does not know of them. `SanitizedAsTyped` is about transactions, blocks and
  values, and era summaries are not among its documents.
* Byron addresses, which are no bech32, make `utxoSize` throw (not in the model's inputs).

Observed, and stated by a property that holds of the code as it is:

* A drain under way when a submission succeeds publishes a snapshot from before it, which is newer
  than the one invalidated (`TxSubmission.hs:238`, `271`): the next evaluation may not see the
  transaction. `NewSnapshotAfterSubmit` says *published*, not *acquired*, after the submission.
* `hasTransaction` looks for a transaction in the eras from Mary to the latest (`inMultipleEras`,
  `TxMonitor.hs:203-218`): of a mempool in Shelley or Allegra it says `false` for a transaction that
  `nextTransaction` lists. `SnapshotsAreConsistent` has the hypothesis `Oldest >= Mary`, and
  run `txmonitor` is of a node that is past them.
* A genesis file that cannot be read raises in the mini-protocol's thread: that request is not
  answered (`EveryRequestAnswered` of `StateQuery` says so).

Of the TypeScript client, in the model as the code has it and as exceptions in the properties:

* `next()` of a client's generator is not "guaranteed to yield the right event"
  (`architectural-decisions/accepted/016-event-emitter-to-generator.md:81`): the error about an ill-formed request
  is answered by the routing worker and overtakes the answers of the requests before it, so that two
  calls swap their responses (`Undisturbed` in `OwnResponse`).
* The error about an ill-formed `submitTransaction` or `evaluateTransaction` has no method and matches neither
  generator, and nor does the internal error that any of them may be answered with when a handler of
  the server raises (`App/Protocol.hs:203`): that call, and with it every later one of the method, is one response behind, and
  the last of them waits until the close (`CallsSettle`).
* The default handler of `Method` looks at the method only: a failed query resolves, with
  `undefined` (`Settled`).
* In a browser the close runs `onInitialClose`, whose `removeAllListeners` takes away the callbacks behind
  it: neither `closeHandler` nor `onUnexpectedClose` nor a `shutdown` is told
  (`Connection.ts:148`; `CloseReported`, `CallsSettle` and `ResumeSettles` except it for that reason).
* `createInteractionContext` without options fails on `options.maxEventListeners` after it made the
  WebSocket, which nobody closes (`ConnectWithoutOptions`).
* A second `resume()` while blocks are due is refused (`IntersectionInterleaved`, an error that
  the schema, line 537, says should not happen); one without points may have moved the cursor to the
  origin by then (`OnIntersection`; a program must expect the rollback).
* A handler that fails requests no block: the window is one smaller for good (`WindowKept`), and a
  window that is empty stops the client without an error (`CatchesUp`).

## Not modelled

* *JSON codecs, ledger predicate failures, rewards, execution units*: more than half of the
  server's code, pure functions of ledger types with no state; their result is one outcome in the
  models.
* *Contents* of blocks, transactions, UTxOs and queries. Of a merged UTxO, its era and the UTxOs
  it is merged from are modelled, not its entries.
* *Typed-protocol details, the multiplexer and version negotiation*: that all mini-protocols of a
  connection fail together is taken from them.
* *HTTP server*: reads the health and the metrics; a `POST` is a session of one request.
* *Sampling of metrics, logging, options, inspect*: reads or output.
* *Dashboard*: a page that polls `/health` and draws it; no state anything depends on.
* *TypeScript schema*: generated types. The methods, failures and bigint types the clients' modules
  rest on are modelled; the other four fifths are the layout of blocks, transactions and failures.
* *TypeScript client*: addresses and TLS of the connection, contents of the health, predicates on
  blocks and scripts, the repl's reading of lines.
* *Pings* of the WebSocket, and `rts` statistics.
* The callback on `error` that the transaction client's `shutdown` registers beside the one on `close`
  (`TransactionSubmission/Client.ts:114`).
* The race between a session's asynchronous exception and a handler that is *part way* through
  closing: `unwinding` is one step.

## Plan

Built, in this order, the most important behaviour first:

1. `ChainSync` with its abstract service, then its proofs.
2. `LocalNode`, `MempoolCache`, `Evaluator`, and `TxSubmission` that composes them.
3. `StateQuery`; `TxMonitor` on the same `LocalNode`.
4. `Debouncer`, `HealthCheck` on top of it, and their proofs.
5. `Session`, and its proofs.
6. `EventGenerator`; `ClientRequests`, `Connection` and `Clients` that composes them.
7. `ChainSyncClient`; `UtxoSize`, `SafeJSON`, `Util`.
8. The proofs of `StateQuery`, `TxMonitor` and `TxSubmission`, on `RequestOrder`; `ChainSync` implements
   `ChainSyncService`; `RoutedInOrder`.
9. The proofs of `EventGeneratorHistory`, `Clients` and `ChainSyncClient`.

Next, models:

* *Abstract services* for `StateQuery` (a request is answered atomically from the acquired state,
  or from some tip since it was sent), `TxMonitor` (a cursor over a snapshot) and `TxSubmission`
  (an evaluation is one atomic step on a snapshot and a ledger state), each shown to be implemented,
  like `ChainSyncService`; they would replace several of the invariants of the runs.
* *UTxO contents*: `utxoFromMempool` over small sets of inputs: what an evaluation sees of
  transactions that spend each other's outputs, and of mempools of two eras.
* *Session and a mini-protocol composed*, the queue of the one being the queue of the other, for the end
  of a session with requests in its queues.
* *The ledger-state queries themselves*: the parts and eras of each query (`Data/Json/Query.hs`) in place
  of the shapes `MCStateQuery` enumerates.

Next, proofs:

* The refinements of those services, as `PipelineImplementsService` is.
* That `Clients` and `ChainSyncClient` rest on what the server does: `Answer` and `Server` as steps of the
  mini-protocols' services.
