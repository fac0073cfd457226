# Formal models of LLMRelayService

LLMRelayService relays requests for language models to a set of upstream channels. Two gateways
serve them: a Rust proxy (`rust-proxy/`) and a TypeScript one (`src/index.ts`), which lives in the
console process (`src/`, Bun). The console supervises the Rust proxy, sends it its configuration
over a socket and writes the request log of both; a dashboard (`console/`) shows and edits
everything. This directory holds TLA+ models of the parts whose behaviour depends on interleavings,
failures, time, counters or on several programs agreeing, the TLC configurations that check them,
and TLAPS proofs about fourteen of them.

Paths below are relative to the repository. `PROJECT.json` has the source lines of every definition,
the runs, the hazards with the properties that watch them, the findings and the theorems.
Definitions whose comment begins with "Mutant" are plausible bugs; no specification uses them. They
are the mutated forms that `PROJECT.json` pairs with the properties they break.

## 1. Inventory

| Component | State | Operations | Hard behaviour | What makes it correct |
|---|---|---|---|---|
| Circuit breaker (`circuit_breaker.rs`) | per channel and origin: closed with a count, open since, half-open since | `admit`, `record_connect_failure`, `record_connect_success` | late answers, differing policies, cancelled probes | blocks exactly when failures in a row warrant it; probes a cooldown apart; recovers |
| Concurrency limits (`concurrency_limit.rs`) | counters per rule, channel, model; permits | `try_acquire`, `track`, drop | limits change while requests run | counters equal the permits held; no rule exceeded |
| 429 cooldown (`rate_limit_cooldown.rs`, `.ts`) | per channel and model: 429s in a row, until, duration | `remaining`, `record_429`, `record_success`, `clear` | late 429s, clamps, backoff | in force exactly in the allowed window; the documented series |
| Rust failover loop (`proxy.rs`, `failover.rs`) | per request: routes, index, retries, cached error, permit, log guard | the handler | the client leaves at any await; nine ways back to the head of the loop | one terminal log; an answer that matches what happened; an end |
| TypeScript failover loop (`index.ts`, `console-log-tasks.ts`) | routes, queue, promise chain of writes | `handleProxyRequest` | state read before an await, used after it | no needless exhaustion; a row that tells the end |
| Response observer (`response-observer.ts`) | reader, collector, timers, rewrite buffer | chunk, end, cancel, idle, settle | ends that race; chunks cut anywhere | "complete" means whole; the model stays hidden |
| Request log pipeline (`proxy.rs`, `ipc.rs`, `server.ts`, `console-store.ts`) | tasks, queue, connection, promise chain, rows | log attempt, 429 snapshot, terminal log, forward, save | unordered tasks, lost connections, crashes | no late message turns a row back; rows get closed |
| Process supervision (`rust-process.ts`) | process, generation, restart count, timers | start, exit, restart, stop | callbacks and timers in any order | one proxy; budget of crashes |
| IPC bridge (`rust-bridge.ts`) | socket, reconnect timer, `restartingRust` | connect, error, close, automatic restart | restart concurrent with supervision | reconnects; restarts a dead proxy, and only that |
| Configuration sync (`rust-bridge.ts`, `main.rs`, `app_state.rs`) | snapshots in flight, routing table, `config_synced` | sync, install, wait | stale snapshots, missed notification | the stored configuration in the end; nobody waits for ever |
| Settings (`gateway-failover.ts`, `gateway-timeouts.ts`) | a row, a cache with a TTL, the environment | get, update, normalise | a load that overlaps an update; three sources of a default | at most a TTL stale; what is shown is in force |
| Registry (`config.ts`, `console-provider-store.ts`, `console-model-alias-store.ts`, `concurrency-rule-store.ts`) | tables, and a copy in memory | create, edit, toggle, bind, delete, sync models | handlers that share a reload, failing reloads | the copy is what is stored; edits keep the rest; Rust is told |
| Route resolution (`routing.rs`, `config.ts`, `index.ts`, route map of the dashboard) | none | resolve, fallback candidates | three programs, many cases | they agree |
| Console database (`console-store.ts`, `rust-log-writer.ts`) | rows, charges, retention | save record, response, 429; clear; list; statistics | saves of several statements interleaved with everything else | a key pays what its rows say; list and statistics agree |
| Keys and quota (`api-keys.ts`, `api-key-quota.ts`) | quota and use; what Rust was last sent of them | create, limit, charge, delete, admit; sync | charged by saves, read by two gateways, told by syncs nobody awaits | both admit alike |
| Usage and prices (`providers/`, `token-estimator.ts`, `pricing.ts`, `model-catalog.ts`, `catalog-db.ts`, `model-metadata-overrides.ts`) | caches, a table, overrides | parse, estimate, fetch, save, warm, override | shared fetch, cooldown, restarts; usage in pieces | each token counted once; fresh as it is taken for; charged as shown |
| Conversions (`openai-responses-chat-compat.ts`, `providers/anthropic.ts`, `responses.rs`) | per stream | convert | tags and chunks cut anywhere | streamed and at once are the same; requests keep their meaning |
| Dashboard (`console/ai-proxy-dashboard`) | session, lists, sheets, forms | load, poll, edit, toggle, save | answers in any order; forms that rebuild a whole from a part | shows what is chosen and stored; writes what was touched |
| Console API (`console-ui.ts`, `openapi-routes.ts`) | none of its own | HTTP handlers | with the stores above | with the stores above |
| Frame codec, logging, metrics, database schema | buffers, output | | none beyond unit tests | not modelled |

How they interact. A request enters the handler of a gateway, which reads the routing table (Rust:
after the first configuration), and loops: it takes a permit of a concurrency rule, looks at the
cooldown, asks the breaker, logs the attempt, converts and sends the request, and reports the
outcome. Rust queues its log messages to one forwarder, which sends them over the socket to a promise
chain of the console; the TypeScript gateway has a promise chain per request. Both end in the
statements of `console-store.ts`, which charge the key. Handlers of the console write tables, reload
a copy in memory, and push a snapshot of all tables and settings over the same socket to Rust. The
socket belongs to the process that the supervision keeps alive. The dashboard calls these handlers,
several at a time.

## 2. Modules

| Module | Models | Runs |
|---|---|---|
| `CircuitBreaker`, `AdmissionProofs` | `circuit_breaker.rs` and its calls in `proxy.rs` | `CircuitBreaker_all` |
| `PermitPool` | abstract: per rule a set of insiders, entered only with a ticket whose limit leaves room | refined by `ConcurrencyLimit` |
| `ConcurrencyLimit`, `AdmissionProofs` | `concurrency_limit.rs` and its calls | `ConcurrencyLimit_all` |
| `RateLimitCooldown`, `FailoverProofs` | `rate_limit_cooldown.rs` and its calls | `RateLimitCooldown_all` |
| `ProxyFailover`, `FailoverProofs` | `proxy_handler_inner` of one request | `ProxyFailover_loop` |
| `RequestLog`, `RequestLogProofs` | from the handler's log messages to the row | `RequestLog_all` |
| `ResponseObserver`, `TsGateway` (extends it), `ConsoleProofs` | `handleProxyRequest`, its writes, the observed response | `TsGateway_all` |
| `RustProcess`, `RustBridge` (extends it), `ConsoleProofs` | supervision, socket and automatic restart, composed | `RustBridge_all`, `RustBridge_long_outage` |
| `ConfigSync`, `ConfigSyncProofs` | writes, settings cache, syncs, connection, installation, waiting requests | `ConfigSync_all` |
| `LogStore`, `LogStoreProofs` | saves statement by statement, charges, retention, reads | `LogStore_all` |
| `KeyPush`, `PartsProofs` | an API key, the syncs its routes start, admission by both gateways | `Parts_all`, `keys` |
| `Registry`, `PartsProofs` | tables and copy of channels, aliases, rules | `Parts_all`, part `registry` |
| `Routing` | both gateways' routes, the route map, `/v1/models` | `Parts_all`, `routing` |
| `DashboardViews`, `DashboardEditors`, `DashboardProofs`, `PartsProofs` | loads of the pages; lists, toggles, forms and writes | `Parts_all`, `views`, `editors` |
| `ChannelSettings`, `AliasSettings`, `TimeoutSettings`, `PolicySettings` | field by field: form or client, payload, normalised entry, row, what is in force, form again | `Parts_all`, `channels`, `aliases`, `timeouts`, `policy` |
| `LogQueries` | lists, filters, options, statistics, channel health, and the pages' use of them | `Parts_all`, `queries` |
| `UsageParsing` | usage told by answers, estimates, buckets of the charge | `Parts_all`, `usage` |
| `ModelCatalog`, `PartsProofs` | fetch of models.dev, two caches, saved table, restart, timer | `Parts_all`, `catalog` |
| `ModelPrices` | choice of a price among providers, overrides, dialog, charge | `Parts_all`, `prices` |
| `RequestForms`, `ChatStream` | a Responses request as a chat, headers, instructions; a chat answer as a Responses stream | `Parts_all`, `forms`, `chat` |
| `ModelRewrite` | the streamed replacement of the model's name | `Parts_all`, `rewrite`; `ModelRewrite_boundary` |
| `MC*` | constants of the runs; `MCParts` also composes its parts | |

**CircuitBreaker.** `circuits[k]` is the map entry of a key; an `Instant` is represented by its age,
which saturates at `Horizon`. `attempt[a]` is an attempt admitted with the policy its request cloned.
`Admit` and `SkipOpen` are the two answers of `admit_at`; `ConnectFailed`, `HeadersReceived` and
`Abandoned` the ways an attempt ends. `streak` and `sinceProbe` are history.

**ConcurrencyLimit.** A request reads the rule of its route (`ReadRule`), asks for a permit with that
copy (`TryAcquire`, or `Full`), and moves on (`Advance`) or goes without a slot (`Track`). `Release` is
`Drop`, `SetLimit` a configuration sync; `peak` is the history of the largest limit. One mutex holds the
counters, so each operation is one action.

**RateLimitCooldown.** An entry is the number of 429s, the time left and the duration. `Send` is
`remaining` answering None, `Bypass` the cooled channel used as a last resort; `Record429`,
`RecordSuccess` and `OtherOutcome` end the attempt, `Clear` is the console's request or a configuration
that turns the feature off. Jitter is a free choice among per-mille values.

**ProxyFailover.** `pc` names the await the handler is at, with one disjunct of `Proceed` per way the
code goes on. What a rule, the cooldown, the breaker and the table answer is free, because other
requests, time and syncs may change them between any two steps. `ClientLeaves` drops the handler's
future at an await: an armed guard sends the 499. `sent` and `barred` are history.

**RequestLog.** A handler queues its RequestLogs, its 429 snapshot and the guard's 499 itself, but
leaves the terminal log to a task, which runs when the runtime gets to it (`RunTask`). `Forward` is the
forwarder, `Save` one link of the promise chain: an upsert for a RequestLog, updates otherwise.
Connections and both processes may die, and a statement may be refused. `armed` is the guard: a request
that is skipped by an open circuit logs its attempt without arming it, and one that cannot be converted on a
later chat route, or whose answer cannot be, disarms it and logs no end (`Untold`).

**ResponseObserver, TsGateway.** An action is what JavaScript does from one await to the next. The
gateway's actions follow the loop of `handleProxyRequest` with its retries, its queue of fallbacks and
its tries; `RunWrite` settles the next link of the promise chain; the observer's actions are the reads
of a plain body, the pulls of the client, the idle and duration limits and the collector's end. Other
requests put routes into cooldown or take them out between any two steps. `posted` is the method: attempts
are saved for every method, responses are logged for a POST only.

**RustProcess, RustBridge.** `proc` says what each process does and whether its exit callback has run;
`newest` is the one whose generation is current. A process killed by a signal has no exit code, which
the code takes for running: which of the two a death is, is free. The bridge adds its two timers,
`restartingRust`, and the age of the disconnection in two classes on either side of the threshold.

**ConfigSync.** Each table is the number of its writes. A sync reads tables, settings (through their
cache) and keys in separate steps and then sends; syncs are not awaited, so they overtake each other.
Rust installs and notifies; requests register, look and park. History names what excuses a stale
proxy: nothing else may.

**LogStore.** Each save is its statements, for SQLite and for PostgreSQL (one transaction). Callers
differ: one after the other for all requests (`server.ts`), per request (the TypeScript gateway), all at
once (`rust-log-writer.ts`). Retention, clearing, prices, the deletion of the key and a crash come in between.

**KeyPush.** A route writes the row of the key (`Stores`), and then starts a sync and answers
(`RouteReturns`). A sync asks for tables and settings, reads the keys last (`ReadsKeys`) and sends
(`SendsKeys`), unless there is no connection, before or after. Charges start none. `newest`, `pushed`,
`since` and `keyLapses` are history: which sync read last, whether that was sent, what was charged since,
and whether an older reading was sent after it or a query failed.

**Registry, Routing, dashboard, settings, queries, conversions, usage and prices.** The head of each
module says what it keeps of its code. The settings modules follow one value through every program it
passes; their properties are round trips with every exception written out. `Routing` computes the
routes of a configuration in three ways and compares them, each gateway with its own order of names. `LogQueries` classifies a log by each
statement of `console-store.ts`. `ChatStream` builds the client's view event by event and compares
it with the conversion at once.

Each module states its actions in the order of the code. A type invariant is stated where a proof
needs one; elsewhere TLC's evaluation of the actions finds an ill-typed value.

## 3. Runs

All of these pass, except for the two marked as violated.

| Run | Properties | Bounds and why they are enough |
|---|---|---|
| `CircuitBreaker_all` | `StreakDecides`, `ProbeSpacing`, `Recovers` | 2 keys, 2 attempts (a late answer against a new attempt), 3 policies: patient, impatient, off; `Horizon` 3 is the longest cooldown, `StreakCap` 2 the largest threshold |
| `ConcurrencyLimit_all` | `CountersMatch`, `NeverOverPeak`, `ImplementsPool` | 3 requests; a rule over two channels and a route without; limits 0 to 2 and deleted: a third request meets a full rule, a limit falls below what is held |
| `RateLimitCooldown_all` | `CooldownWindow`, `DocumentedBackoff` | 1 channel with 2 models, 2 attempts; minimum 1, base 2, maximum 4, so that the second 429 is at the cap; Retry-After 0 and 9 lie outside; both ends of the jitter |
| `ProxyFailover_loop` | `AnswerAccounted`, `EndsOnce`, `PermitCoversSend`, `Answered` | 4 channels: two native, one to convert, one that does not serve the API; 6 policies; two fallbacks let a second batch follow the first |
| `RequestLog_all` | `ShowsLastAttempt`, `ShowsEnd`, `RowsClose` | 1 request, 3 tries, 2 failures, streaming and not, circuits skipped before the guard is armed and after. Requests share only the order of queue and inbox, which tasks permute already |
| `TsGateway_all` | `ExhaustedOnlyByRace`, `RowTellsTheEnd`, `CompleteMeansWhole`, `AnsweredAndRecorded` | 4 routes (retry, fallback of the same model, of another), POST and not, 2 changes by other requests, 2 chunks of which 1 fits the log |
| `RustBridge_all` | `OneUnlessRaced`, `RestartOnlyAfterOutage`, `Reconnects` | 2 process slots, 2 crash restarts for the code's 5, 1 replacement that meets a due restart, 3 alarms |
| `RustBridge_long_outage` | `LongOutageRestarts` **violated** | 1 crash restart, no race, 2 alarms |
| `ConfigSync_all` | `SyncedWhenQuiet`, `StaleAtMostTTL`, `NoLostWakeup` | 2 administrators, 2 syncs in flight, 2 writes, TTL 1, 1 lost connection: every pair of steps overlaps |
| `LogStore_all` | `KeyPaysForRequests`, `CostsAgree`, `LostOnlyIfOld`, `LastAnswerShown`, `HistoryKept` | 2 requests (symmetric), 2 places, retention of 1, 2 saves at once, 3 calls, 4 saves, 1 outside change |
| `Parts_all` | the ten below | see below |
| `ModelRewrite_boundary` | `ModelHidden` **violated** | field of 2 symbols, tail of 3, two fields anywhere |

`Parts_all` is the union of sixteen parts that share no state. `part` is chosen in the initial state; only
the variables of that part move. The product of the parts would show no more than their union, since
no action of one reads a variable of another.

| Property | Says (and in which module) | Bounds |
|---|---|---|
| `RegistryKept` | `CopyIsStored`, `EditsKeepTheRest`, `RustToldOfChanges` (`Registry`) | 2 names, 1 rule, 2 handlers at once, 3 operations and faults together, 1 fault at most |
| `DashboardTrue` | `ShownIsChosen` (`DashboardViews`); `OwnWritesShown`, `NoCrossWrite` (`DashboardEditors`) | 2 filters, 2 requests, 1 change of page, 1 failure, 2 calls in flight; 2 rows, 3 edits and failures together, 1 failure at most, 2 in flight |
| `RoutesAgree` | `GatewaysRouteAlike`, `MapShowsRoutes` (`Routing`) | 3 channels, of which each gateway sorts two of equal priority in its own way; two of them on and ordinary or either off, of the other type or explicit-only; 2 models of which one may name the alias, 2 targets, or 1 beside a `channel:model` fallback, which names the other |
| `FormsShown`, `FormsKeep` | what was saved is shown again and is in force; saving changes what was touched (settings modules) | 2 writes each; times 0, 2 and 9 below, within and above limits 0 or 1 to 4; lists at and over their limits of 1 to 3 |
| `LogsAgree` | `LogsCounted` (`LogQueries`) | 2 requests, a channel of either type, 1 key, 2 hours; another model answers where nothing is told of the cache |
| `UsageSettled` | `ToldIsUsed`, `EstimatedOnce`, `BilledOnce` (`UsageParsing`); `DatedTruly`, `KnownIsSaved`, `StaleIsFetched` (`ModelCatalog`); `PriceChosen`, `ShownIsCharged`, `DialogKeeps` (`ModelPrices`) | 3 turns and events; 2 models, 3 ticks against a TTL of 2 and a cooldown of 1; 3 providers of one model, 2 where the channel has a context of its own |
| `RequestMeaningKept` | `TurnsKept`, `NothingOdd`, `SystemKept`, `CredentialsOwn` (`RequestForms`) | 4 items: a call, its result and one on either side |
| `AnswerKept` | `ClientRebuilds` (`ChatStream`); `BodyKept` (`ModelRewrite`) | 5 symbols of text and chunks of tool calls together, in chunks of up to 3, 2 tool calls, a tag of two symbols that may be cut; a refusal, a call without a name or a second choice in answers of up to 3 symbols; two fields at any distance |
| `KeysAgree` | `KeysAdmittedAlike` (`KeyPush`) | 1 key without a limit, with one of 0 or 2, 2 syncs at once, 3 routes and charges, 2 lost connections and failed queries |

Every bound is a constant named `Max...`, `Most...`, `Last...`, `Slots`, `Keep` or `Horizon`, `StreakCap`,
`CountCap`, and is used in a guard or as the value at which a count or an age saturates.
`CHECK_DEADLOCK FALSE` is set where the system may stop: a request has its answer, a bound is used up,
the server has shut down.

## 4. Fairness

* `CircuitBreaker`: time passes and every attempt ends (the send is under a first-byte timeout, and
  the handler ends with its client). `Recovers` also assumes that requests whose policy uses the breaker
  keep coming for the key, as the breaker has no timer of its own. That is strong fairness of `Admit`,
  because between two of them all attempts of the small instance may be in flight.
* `ProxyFailover`: weak fairness of `Proceed`: locks are held briefly, the send has a timeout, a body that
  was begun ends or breaks. The client need not leave.
* `RequestLog`: the runtime runs every spawned task, forwarder and chain work off their queues. No
  connection needs to come back: a lost message is excused.
* `TsGateway`: the handler goes on at every await, statements are answered, a plain body is read to its
  end by a detached reader, the upstream goes on or breaks while somebody reads it, the duration limit
  fires, and a settled observation is logged. The client of an event stream need not read.
* `RustBridge`: a signalled process dies, callbacks run, timers fire, a socket call is answered, and time
  passes. Nobody has to crash, and nobody has to press the restart button.

The other runs check safety only.

## 5. Proofs

Proved with TLAPS for every value of the constants that satisfies the named assumptions (finite sets of
requests and slots where members are counted or summed, at least one slot for a process, `Horizon` and
`StreakCap` at least what the policies ask for, minimum ≤ base ≤ maximum cooldown, and that what stands
for "no row", "no task" and "no key" is none):

* **AdmissionProofs**, the breaker - `BreakerTypeCorrect`, `Decided`, `Spaced`. `StreakDecides` is not inductive:
  the count in a closed circuit has to equal the history, an absent circuit has none (`Evidence`), and the age
  a blocked circuit stores is at most that of the last probe (`AgeBelowProbe`). `Spaced`, an action property,
  follows step by step from `BreakerInv`.
* **AdmissionProofs**, the limits - `TypeCorrect`, `CountersCorrect`, `PeakRespected`, `Refinement`. The counters
  are cardinalities of sets of holders: lemmas say what adding or removing one request does to them.
  `PeakRespected` needs that a copied limit is at most the peak of its rule (`CopiesBounded`,
  `LimitsBounded`). `Refinement` maps the holders of a rule to the insiders of `PermitPool` and the copied
  limit to its ticket, with one step per action.
* **FailoverProofs**, the cooldown - `CooldownTypeCorrect`, `WindowHolds`, `BacksOff`. The strengthening `InStep`
  relates the time left of an entry to the time since its last 429: their sum is its duration, which the clamps
  bound; and it has the entry count the 429s since its key was last removed. `BacksOff`, an action property,
  adds arithmetic: the shift `1 << n` is at least 1 (by the least counterexample), the backoff lies between base
  and maximum, and neither the jitter nor the clamps take it more than 20% away from there.
* **FailoverProofs**, the loop - `EndedOnce`, `AnswersAccounted`, `PermitHeld`, for lists of routes of any length and
  every policy. `IInv` conjoins `RequestTypeOK`, `PermitOfStep` (at which await a permit is held and for which
  route), `OnlyServingSent` (what was sent went to a channel that serves the API), and `Underway` (armed,
  row and endings at each await) with `AnswerAccounted` and `EndsOnce`. The two properties need each
  other's supporting parts: a cached error is there only if something was sent, and a terminal log is
  missing only as long as the guard is armed. There is one lemma per way of going on, and one for the
  client that leaves.
* **ConfigSyncProofs** - `TypeCorrect`, `NoWakeupLost`, `StaleBounded`, `RustIsSynced`. Only the first of the three
  properties is inductive. `StaleBounded` needs that the time a view is cached with, or that a handler or query
  takes along to cache it with, is one before the view was overwritten (`Dated`; `Overwritten` is about the
  history itself). `RustIsSynced` needs `Delivered`: on a connection, each part that the history does not taint
  is promised by a handler about to start a sync, or is on its way: sent as it is stored, or held so by a
  sync in flight, and every sync with an older value is an elder of one that holds it so. `Aged` orders the syncs in flight,
  `Reading` says what they have read, and `CacheCurrent` when the cached settings are those stored.
* **ConsoleProofs**, the proxy's process - `Supervises`, `TypeCorrect`, `OneProcess`, `RestartsAfterOutage`, `AlwaysPolls`. `Supervises`:
  the composition takes only steps of `RustProcess`, so what is proved of the supervision holds of it.
  `OneUnlessRaced` counts too little to be inductive: `Accounted` also counts the start that a kill under way
  has pledged and the restart that an exit not yet told is due; the sum is at most `1 + raced`. Adding or
  removing one process changes the cardinality by one (lemmas). `RestartsAfterOutage` needs `AgeTold`: the age the
  bridge reads is that of the outage as long as there is one. `AlwaysPolls` is the safety half of
  `Reconnects`.
* **ConsoleProofs**, the TypeScript gateway - `GatewayTypeCorrect`, `RunsOutByRace`, `RowToldInTheEnd`,
  `CompleteIsWhole`, `BudgetObeyed`, for any routes, policies, fallbacks and number of chunks. `GatewayInv` has two
  halves. `Loop` is about the queue: it has one place per fallback paid for (`BudgetKept`), and as long as no
  other request changed a cooldown there is a route to try at every step, and a failure from which the handler was
  to go on still is one when its body is cancelled (`QueueHolds`).
  `Recorded429` is about the log: the statements that wait come in the order of the saves after the one the row
  shows (`SavesInOrder`), the first 429 is in the row or waits behind its save (`SnapshotTold`), what the collector
  has is what was read (`CollectsAll`), and a body is observed or its response is told exactly when the handler
  has answered with one (`HandlerStage`, `ResponseTold`).
* **RequestLogProofs** - `TypeCorrect`, `RowShowsAttempt`, `RowShowsEnd`. The two properties speak of a request
  all of whose messages are saved; the invariant `Told` speaks of those under way. `Pipe` is the queue of the
  proxy after the inbox of the console. In it the attempts of a request come in their order after the one
  the row shows, up to the last one made; the 429s are all there, or the first is shown; the row exists or
  its first message comes before any that only updates it; and the end is shown, in the pipe or a free task,
  and no other end is. Losing or delivering messages of others keeps all that (`Thinned`), so each hop is a
  lemma about one request.
* **LogStoreProofs** - `TypeCorrect`, `KeyIsCharged`, `CostsAreOne`, `OnlyOldAreLost`, `ShowsLastAnswer`,
  `KeepsHistory`. A save runs statement by statement, so `IInv` says for every save at work what it has read
  and written so far (`Statement`, `Reads`), that a request has one save at a time unless the standalone
  writer is used (`Alone`), what a row keeps (`Kept`), that a response lost met enough newer requests
  (`Outnumbered`), and that the key's use, the sum of the rows' charges, what was
  removed and what saves at work still owe agree (`Covered`). The last needs laws of sums over finite sets
  (`SumChange`, `SumRemove`, `SumPlus`...), proved in the module from the definition of `MapThenFoldSet`.
* **DashboardProofs**, **PartsProofs** - `CopiesKept`, `DashboardTold`, `CatalogTrue` and `KeysAdmitted`, of the specification that composes the
  parts; each part has an inductive invariant of its own, and a step of another part leaves it alone.
  `RegistryInv`: as long as no old copy was put over it, a loaded copy is what is stored but for the candidate of
  a handler that is about to write, and a reload under way has read what is stored (`CopyLoaded`); a handler no
  other overlapped is alone (`Alone`), and its entry is the row with its edit in it (`EntryKept`); a toggle
  that waits for the reload finds its channel in it or waits together with the handler that moved it
  (`TogglesSeen`), without which `RustToldOfChanges` is not inductive: a toggle that finds its channel gone tells
  nobody. `ViewsInv`: the latest call of each slot asks for what is chosen (`LatestAsksChosen`). `EditorsInv`
  (`ListTold`): on the page of channels a write that was done will load the list and the last load brings what
  is stored; on the pages that put answers into the list each row has at most one call, and each row that
  differs has its answer under way. `NoCrossWrite` needs that the open form, and a key typed into it, are of the
  open channel (`FormFits`, `NewFormFits`). `CatalogInv`: editions only grow (`PastGrows`) and a row is what was
  published at its time (`RowsTrue`); unless a save was cut short or the rows were read before its end, a model
  that was always listed has the newest row or a save that will still write it (`NewestRows`), so the time at which the
  table is read is that of its row; and what a copy tells is in the table or in a save under way
  (`SavedOrSaving`). `StaleIsFetched` needs that the fetch under way is also for prices (`PricesLooked`): its
  answer would leave them stale if it were for contexts alone. `KeyPushInv`: unless something is still to come
  that reads the keys, or should have come and failed (`KeysBehind`), the sync that read them last either
  holds what the key is and has not sent it, or has sent it and nobody after it sent anything else
  (`NewestKeysRight`); a write makes it behind, and no step but a newer reading ends that.

Induction over data. The library's induction theorems take an operator, which the provers cannot
instantiate. Where a recursion matters (`Shifted`, `Filtered`, the fold under the sums) the proofs use well-foundedness
instead: a set of bad numbers, or of sizes of bad sets, has a least one (`WFMin`). That also proves that the
recursively defined function exists.

What the proofs changed in the models. `DocumentedBackoff` compared with the bare power of two below
`CountCap`, which is wrong for a larger cap than the run's; it now names the documented maximum. `RustProcess`
now assumes a slot for the process it starts with. `LogStore` names its sets of rows, tasks and keys and the
values outside them, `Registry` those of its tables, `ModelCatalog` its copies and rows, `DashboardViews` its questions, and `TsGateway` types its
policies. `TsGateway` filters with a recursive function instead of `SelectSeq`, of which the provers know nothing
that depends on its operator.

Only model-checked: every liveness property (`Recovers`, `Answered`, `RowsClose`, `AnsweredAndRecorded`,
`Reconnects`: fairness and ENABLED are out of the prover's reach); and of `MCParts` everything but `RegistryKept`,
`DashboardTrue`, `KeysAgree` and the part of the catalog in `UsageSettled` (`CatalogKept`): `RoutesAgree`, `FormsShown`, `FormsKeep`, `LogsAgree`, the rest of `UsageSettled`, `RequestMeaningKept` and
`AnswerKept` are about functions over sorted or filtered sequences, sums over buckets, strings cut into chunks or
records with many optional fields, where exhausting the inputs says more than the one-step lemmas a proof would
consist of.

## 6. Findings

Two runs show that the code does not do what its comments say:

| Run | What happens |
|---|---|
| `RustBridge_long_outage` | After one automatic restart, `restartingRust` is cleared only by a connection or a failed restart. A proxy that crashes until its budget is spent after that restart is never restarted again, though `rust-bridge.ts:320-324` says so. |
| `ModelRewrite_boundary` | `flushSafe` cuts `safeTailBytes` before the end of what arrived, even within a field that is complete: neither half matches, and the client reads the real model's name. The comments at `response-observer.ts:112` and `:135` say the tail prevents this. `ModelRewriteStream` (`proxy.rs:1725-1745`) makes the same cut with a tail of 64, and decodes each chunk by itself, so that a character cut by a chunk is lost. |

Met while modelling, and written into the models as the code does them (exceptions of a property, or
choices of an action):

*Gateways.* A retry counter survives a skip of a full rule, so that the first send to the next channel
is logged as a retry. A client that leaves after an open circuit was skipped, before the guard was
armed, leaves its row open (`proxy.rs:677-692`); so do a request that cannot be converted on a later
chat route (`proxy.rs:413-416`) and a 200 that cannot be converted (`proxy.rs:836`). The TypeScript
gateway saves the attempts of every method but logs a response for POST alone (`index.ts:895, 999,
1125`): the rows of other methods stay open, as do those of a loop that ran off its queue after 429s. A
handler that panics on `try_read` while a sync installs is logged as 499. A real 500 that is cached is
lost when the next error breaks off while it is read. The row of a stream may show its start after its
end. A crash and a restart by hand within three seconds can start two proxies.

*Routing.* The gateways differ: channels of equal priority are sorted with `localeCompare` by TypeScript
(`config.ts:354`, `822`) and by bytes in Rust (`routing.rs:290`), so `Beta` and `alpha` are tried in opposite
orders; a custom fallback is tried before the model's other channels by TypeScript (`index.ts:538`) and behind
them in Rust (`proxy.rs:1379`); an alias whose targets are explicit-only is routed by TypeScript
(`config.ts:418`, and `en.ts:657` promises it) but not by Rust (`routing.rs:183`); two targets on one
channel are one for Rust; a custom fallback `channel:model` never matches in Rust, one that names a plain
model only there; `any_model` adds channels that do not list the model in Rust; failover "disabled" still
falls back to the same model there (`proxy.rs:1362`, `index.ts:533`); an explicit `/providers/x` path
takes explicit-only channels only in Rust. Both append the site's fallbacks to a custom rule's, though
the help says they are used only when no rule matches. The route map shows targets on disabled channels,
and models whose name an alias of the other type took.

*Settings and forms.* Saving any form of a channel drops its models' `context`. An export has no
credential, so the import of a channel with a key fails; import forgets visibility, autoSync,
compatibility and rule. Changing the header when the credential could not be loaded wipes it. The model
sync drops `upstreamModel` and contexts. The form offers the failover mode "none" (`routes-page.tsx:755`)
where the gateway knows "disabled" (`gateway-failover.ts:118-123`): it is always refused. A PATCH of
failover or timeouts resets what it does not name. A timeout of the environment out of its limits makes
every read throw until a row is saved. A save of the policy form adds 408, drops codes without a box and
splits names at commas. The dialog of the models page saves the catalog's price and context as manual
ones when only the other was edited.

*Console.* A refresh that joins an earlier reload leaves an old copy, with nothing to renew it; a failed
write puts back the copy of before over what another handler wrote; a handler whose reload fails answers
400 for what is stored and does not tell Rust. Metadata overrides and the timer's model sync are not
pushed. `buildSyncConfigPayload` sends no keys if their query fails. A quota of 0 exhausts a key for TypeScript
and is no limit for Rust (`rust-bridge.ts:422`). Charges start no sync, so the Rust proxy goes on admitting a
key that is used up until something else starts one; and of two syncs the one that read the keys first may be
sent last, which gives a deleted key back to Rust until the next. `rust-log-writer.ts` does not await its
saves. The list's "error" includes pending rows, the statistics' does not, and the dashboard counts them
as successes; the filter offers the channel fallen back from though it goes by the last one
(`console-store.ts:2239`); "Last 6 hours" is not handled by the console. In the providers page a late
answer for one channel can fill the form of a new one.

*Conversions, usage, prices.* A refusal is an item of an answer converted at once and is lost in a stream
(`openai-responses-chat-compat.ts:683`, `1085`); a call without a name is passed over at once and told in a
stream (`723`, `925`); of several choices the first is read at once, and all are run together in a stream
(`1079`). Channels of type openai ignore `systemPrompt` (`README.md:63` says
generally). Parallel function calls become turns of their own. The estimate misses results of tools in
Responses requests; `response.incomplete` without usage is counted twice; a cut anthropic stream is
charged its input only; usage in `message_delta` overrides no input. A chunk after `[DONE]` emits events
after the end of the response, and a stream cut short is told as completed. The catalog's table is
dated by its newest row: after a save that was cut short, or read half done, a copy of two editions is
fresh for a TTL, and a model models.dev dropped returns after a restart; an empty answer empties both
caches for a TTL. The comment at `model-catalog.ts:94` says that free entries rank behind all priced
ones, but the rank of the provider comes first.

Dead code: `clearMissingConcurrencyRuleBindings`, `upsertRequest`, `updateResponse`, `networkFetchedAt`, the
thinking filters of `providers/anthropic.ts`.

## 7. What is not modelled

* The frame codec (length-prefixed bytes; both ends exchange whole messages here), the Rust converter
  of Responses (`responses.rs`), the Rust observer's parsing, embedded images, annotations, content that is an
  array of parts (its text is read at once and ignored in a stream), and ids.
* Login, CORS, migrations and schema, connectivity tests of channels, the listing of an upstream's
  models, the curl process behind an external proxy, logging, metrics and rendering.
* `ProxyFailover` and `TsGateway` follow one request; breaker, limits and cooldown answer it freely. That
  is more than their own modules allow, so what holds here holds with them; what only holds because
  they cannot answer some way is not shown.
* More than one console at a time, poisoned locks, the health poll (which only writes a status).
* In the parts of `Parts_all` one write at a time for settings, prices and aliases; overlapping writes are
  those of `Registry` and `DashboardEditors`.

## 8. What could follow

1. Two requests over two channels with the real breaker, limits and cooldown under the failover loop.
2. The Rust converter as a second refinement of what `ChatStream` promises.
3. The frame codec as a function of a chunked stream, with the buffer that is cleared in its middle.
