# npora/request: models, checks and proofs

This directory holds TLA+ models of the request library in `src/src`, the TLC
configurations that check them on small instances, and TLAPS proofs of the
properties that matter most. Paths below are relative to the repository;
`PROJECT.json` lists for every definition the lines it models, the hazards of
the code with the properties that watch them, and the divergences found.

To check a module: `tlc -config MCConcurrency_keys.cfg MCConcurrency.tla`.
To check a proof: `tlapm ConcurrencyProofs.tla`.

## 1. The system

A `Client` sends requests through a `Pipeline`. Plugins installed with
`client.use()` register hooks, and the pipeline calls them around each attempt
of a request. Everything runs on one JavaScript thread. Nothing is preempted,
but every `await`, timer and abort listener is a point where other requests,
`use()`, `unuse()` and the caller's signal come in between. Every hazard of this
code is at such a point. Stores and streams add other contexts (tabs, a server)
and calls that fail.

### Components

| Component (source) | State it keeps | Operations | What is hard | What makes it correct |
|---|---|---|---|---|
| Client (`client/Client.ts`) | installed plugins, contexts, defaults | request methods, `use`, `unuse`, `extend`, `sse` | an install that fails half-way; removal while requests run | removal takes back exactly what the install registered |
| Configuration merge (`core/ConfigMerger.ts`) | defaults of each client | `extend`, merge per request | options that reset one another, repeated merging | the last layer that says something decides |
| Pipeline (`core/Pipeline.ts`, `lifecycleTiming.ts`) | per request: response, error, fallback, attempt | `execute`, retry loop, failure path, `finally` | an abort at any await; promises returned without `await` inside `try`/`finally` | nothing of an old attempt is returned; an abort wins; settled hooks run once and see the outcome |
| PluginHooks, HookRegistry, InterceptorManager, PluginScope | ordered lists, a count of raw hooks, cleanups of each installation | register, run, eject, roll back | a list that changes while an asynchronous run walks it; a cleanup that throws | nobody is skipped or run twice; nothing is left behind |
| concurrencyPlugin | records (active, FIFO queue), admissions per installation | `onRequest`, `onSettled`, abort, queue timer, cleanup | hand-over, scoped removal, eviction | permits conserved, FIFO, nobody waits beside a free permit |
| circuitBreakerPlugin | LRU Map of circuits, admissions, `latestCircuit` | `onRequest`, `onSettled`, `reset`, cleanup | results of old phases, asynchronous classifier | only present failures open, no lost probe slot, circuits in use are kept |
| rateLimitPlugin | timestamps, cooldown, timer, queue per key | `onTransport`, Retry-After hooks, timer, cleanup | window boundary, the one timer of a record, eviction of budgets | the window is never exceeded, a waiter always has a timer |
| retryPlugin | attempts and start time of a request | `onRetry` | asynchronous decisions, elapsed-time budget, jitter, Retry-After | bounded attempts and time |
| authPlugin | the refresh under way, its participants | `onRequest`, `onRetry`, cleanup | single flight, removal during a refresh | one refresh at a time, silence after removal |
| cache plugin (17 files) | tokens per key, requests in flight, leases, operations | lookup, response, invalidation, revalidation | a response that started before an invalidation is written after it | nothing invalidated is served again |
| cache stores (memory, tiered, IndexedDB, Web Storage), memoryCachePlugin | entries, recency, sizes, connections, locks | get, set, delete, tags, clear, compact | promotion against delete, other tabs, failing transactions, two schema versions | bounds hold, tiers agree, later removals win |
| SSE (`observeSse.ts`, `reconnectSse.ts`, the streaming parser) | connection, last event id, attempts | iterate, close, abort | a break inside an event; close during a wait | no event skipped, one terminal state, close ends every wait |
| Mock adapter and recorder | rules, entries, generation | request, register, record, clear, replay | calls that overlap, a response after `clear()` | once means once, nothing of an old generation |
| Signals and timeouts | listeners and timers | settle by result or signal | both at once | one settlement |
| openTelemetryPlugin, openTelemetryMetricsPlugin | spans of attempts, states of requests and streams, shared by all clients of the object | hooks of all stages, wrapping of streams, cleanup | an attempt may end in four hooks, a cleanup or nowhere; the consumer of a stream outlives the request | everything begun is ended once |
| downloadPlugin, uploadPlugin, `xhrTransport.ts` | one exchange, its listeners, the stream of a body | send, progress, limit, abort, collect, hand on | events, callbacks that throw and the signal race to end one exchange | nothing goes on after the end; what is delivered was reported |
| Adapters, logging, validation, types | almost none | I/O and conversions | - | not a matter of behaviour over time |

### Interaction

The pipeline calls plugins only through hooks. Two rules decide what plugins
have to cope with, and both are in the models of plugins:

* **Hooks are captured per stage** (`PluginHooks.ts` 340-342). A request whose
  hook list was captured before `unuse()` still runs the hooks of the removed
  closure, and a removed plugin does not see the later stages of the request.
  The constants `LateHooks` and `Late` decide whether this race may happen.
* **One plugin instance may be installed on several clients.** The closure of
  the factory (records, circuits, refresh state) is shared; `active` and what a
  cleanup walks belong to one installation. The models have a set of clients or
  installations, and where it matters an `epoch` that tells which installation a
  request belongs to.

The plugins do not call each other. What one does to another goes through the
pipeline (a retry, an error, an abort), so each plugin module contains the part
of the pipeline its plugin can observe: requests that begin, fail, are repeated
or aborted at any point. The modules that interact through shared state are
composed: `Tiered` is built on `MemoryStore` (an instance per context), `Retry`
decides beside the other plugin that retries, and `Concurrency` implements
`PermitPool`.

## 2. The modules

An action is one callback: everything the code does between two points where it
returns to the event loop. The places where the code waits are the values of
`pc`. Definitions introduced by "Wrong variant" or "The mutant" are plausible
mistakes. Each property of a passing run is violated when one of them takes the
place of the definition it mimics, as listed under `mutants`.

| Module | Models | Checked through |
|---|---|---|
| `PermitPool` | abstract promise of the limiter for one key | refinement target of `Concurrency` |
| `Concurrency` | `concurrencyPlugin.ts` | `MCConcurrency`, `ConcurrencyProofs` |
| `CircuitBreaker` | `circuitBreakerPlugin.ts` | `MCCircuitBreaker`, `CircuitBreakerProofs` |
| `RateLimit` | `rateLimitPlugin.ts` | `MCRateLimit`, `RateLimitProofs` |
| `Lifecycle` | `Pipeline.ts`, `PluginHooks.ts`, `lifecycleTiming.ts`, `waitForSignal.ts` | `MCEndings`, `EndingsProofs` |
| `Registry` | `Client.use`/`unuse`, `PluginScope.ts`, `PluginHooks.ts`, `InterceptorManager.ts` | `MCClient`, `ClientProofs` |
| `ConfigMerge` | `ConfigMerger.ts`, `resolveExtensionConfig.ts`, `Client.extend` and request configs | `MCConfigMerge`, `MCClient`, `ClientProofs` |
| `Cache` | `cachePlugin.ts` and its handlers | `MCCache`, `CacheProofs` |
| `MemoryStore` | `MemoryCacheStore` as operators on a value | inside `Tiered` |
| `Tiered` | `tieredCacheStore.ts` in several contexts | `MCStores` |
| `IndexedDB` | `indexedDB*.ts` | `MCStores`, `StoresProofs` |
| `MemoryCache` | `memoryCachePlugin.ts` | `MCStores`, `StoresProofs` |
| `Auth` | `authPlugin.ts` | `MCSession`, `SessionProofs` |
| `Retry` | `retryPlugin.ts`, `parseRetryAfter.ts` | `MCSession`, `SessionProofs` |
| `Mock` | `MockAdapter.ts`, `MockRecorder.ts` | `MCSession`, `SessionProofs` |
| `Tracing` | `openTelemetryPlugin.ts` | `MCSession`, `SessionProofs` |
| `Metrics` | `openTelemetryMetricsPlugin.ts` | `MCSession`, `SessionProofs` |
| `Transfer` | `xhrTransport.ts`, `downloadPlugin.ts`, `uploadPlugin.ts`, `errorResponseTimeout.ts` | `MCSession`, `SessionProofs` |
| `Sse` | `observeSse.ts`, `reconnectSse.ts`, `parseStreamingResponse.ts`, `sseControl.ts` | `MCEndings`, `EndingsProofs` |

`MCCache`, `MCStores`, `MCSession`, `MCEndings` and `MCClient` are sums: a
variable `part`, chosen at the start, says which instance a behaviour belongs to,
and the variables of the others are idle. Components that share no state show
nothing more in a product; a sum keeps one run for one question and lets a
component be checked with several sets of constants. The `Parts` of a `.cfg` say
which instances it takes. In `MCSession` and `MCCache` and for two components of
`MCStores` the instances are parametrised by a record of constants, `Auths(c)`,
`Caches(c)`, `Databases(c)` and so on, so that a theorem can speak of every such
record and not only of those the run has.

**Concurrency.** `config`, `pc`, `born`, `aborted` describe requests.
`admissions` is the union of the installations' Maps; `records`, `active`,
`queue` and `ahead` are the records Map. The doubly linked queue is a set with
`ahead[r]`, the entries linked before `r`, so that unlinking in the middle and
shifting the head are set operations. `onRequest` is `Bypass`, `Admit`, `Refuse`
or `Enqueue`; the entry's listeners are `AbortQueued` and `QueueTimeout`; the
continuation of `enqueue` is `Resume`, which looks at `active` again; `onSettled`
is `SettleNothing`, `SettleHandOff` or `SettleFree`. The cleanup is one action,
`Unuse`: it rejects own entries, releases own permits one by one to the heads of
the remaining queues, trims, and clears everything with the last installation.
Left out: the Map order by which the oldest idle record is evicted (idle records
differ only in their key) and wall-clock time (a queue timer may fire any time).

**CircuitBreaker.** A circuit is an object: `record[i]`, and the Map `circuits`
refers to it. Admissions keep the number of the object and its generation, so a
request can outlive `reset()`, an eviction or a phase. `older` is the Map order.
`SettleSuccess`, `SettleFailure`, `SettleStale` and `SettleRemoved` are the
branches of `onSettled`. With an asynchronous classifier, `BeginClassify`,
`Classified` and `FinishClassified` are the promise, its `then` and its
`finally`, which are separate callbacks. Time is the flag `elapsed`. `Unuse` gives
back every admission of the installation in one action; the code trims the Map
after each, so that circuits go in the order in which they fall idle. The model
leaves the order of the admissions Map open: any set of idle circuits of the
right size may go (`MakesRoom`), and the theorems hold for each.

**RateLimit.** A discrete clock `now`; `stamps[k]` are the attempts behind
`record.timestamps`, `timer[k]` the due time of the record's timer. A timer
fires at its due time or later. `Schedule` is `schedule` together with the
`drain` it may run into. `Observe` is the Retry-After hook for responses and
errors. Timers are not split at 2^31-1 ms as `MAX_TIMER_DELAY` does: a timer that
fires early re-arms itself, and nothing else depends on it.

**Lifecycle.** One request. Plugins are numbered in hook order, and each has a
hook in every stage. A stage is `todo`, the hooks captured at its start, run one
per action, so `Use`, `Unuse` and `Abort` fall between any two of them. What a
hook, an interceptor or the adapter does is chosen nondeterministically (set a
response, offer a fallback, throw, ask for a retry). The `finally` block is a
second thread of control (`settle`, `settleTodo`): `Detaches` lets it start while
the body still waits, because the code returns the promises of `fail` and
`recoverFromError` without `await` inside `try`/`finally`. `caller` is the
promise of `execute()`, which the total timeout can reject on its own. A response
is represented by the attempt it stems from.

**Registry.** `installed` are the keys of `installedPlugins`; `interceptors` and
`hooks` are the entries of one manager and one registry, which stand for the
three managers and six registries that share their code; `Precedes` is the
comparison of `refreshOrder`, and `Place` the index it gives an entry. `Use` is
`use()` with the checks of requirements and conflicts, the registrations of
`install()` and, when it throws, the rollback of its scope. `Unuse` runs the
cleanups in reverse order, any of which may throw. `RegisterLater` and `Dispose`
are a plugin that keeps its context. A request's `walk` goes through the *live*
list of interceptors by index (`CallInterceptor`), but through the hooks
captured at the start of their stage (`RunResponse`, `CallHook`).

**ConfigMerge.** A config is a record with one field per merge rule; an absent
option differs from one that is present and undefined, because the code uses
`hasOwnProperty`. `Extend`, `RequestConfig` and `RequestNative` are the ways to
get to the next config; the history `layers` is what the user wrote. The
properties compare the result of the pairwise merges with the last layers that
say something.

**Cache.** `req[c]` is a request's context and what the plugin's WeakMaps hold
for it; `token` are the generation tokens, `live[k]` the per-key Maps
(`keyGenerations`, `inFlight`, `rawInFlight`, `backgroundRefreshes`), `keyOp` and
`tagOp` the promises operations chain behind. `Start` is the request hook with
its waiting for operations, `Read`/`ReadApplied` the lookup that ends in a hit, a
join, a lead or a revalidation, `LeaseGranted`/`LeaseFailed` the refresh lease,
`Answered` the response hook with its generation check, `Wake` the followers,
`Abort`, `Settle` the rest. `SettleMutation` is the settled hook of a successful
request with `invalidateTags`, which may be a cached one: it releases its token
and leaves the maps first, then looks which tokens carry its tags. The record of
a leader whose response its own schema rejects is shared all the same: `error`
in `Outcome` stands for the other errors. The read of `update()` may fail, and so
may its updater (`UpdateRead`). Operations drop tokens when they are called
(`KeyOperation`, `TagOperation`, `Clear`) and reach the store later
(`RunOperation`, `OperationApplied`). The store applies calls in the order they
were made. The age of an entry is `fresh`, `stale` or `old`; an entry carries
`born`, the number of invalidations issued before its request began, which is
what the properties compare.

**MemoryStore, Tiered.** A memory store is a sequence of entries and
`newestKey`. `Tiered` has one per context above one secondary store; a call on
the secondary store is made (`Call`), applied (`Apply`) and answered (`Settle`)
in separate steps, each of which may fail. Messages of the channel are in `inbox`
until `Receive`. `tracked` is `trackedKeys` with its count, whose eviction falls
back to clearing the primary store. `AskLease` asks for the Web Lock around a
refresh if it is free, and is granted or refused it; `QueueLease` is the second
request, which waits, `GrantLease` its turn, `EndLease` a release or an abort.

**IndexedDB.** Several stores with their schema versions over one database.
A slot is a storage key (a version and a key), a record has a version of its own:
that of its slot when a store of the model wrote it, any when an earlier session
left it (`Leftover`), for the prefix of a later version is also a legal key of
version 1. So a store may find a newer record under its own storage key, which
`get`, `set` and `delete` then leave alone (`Future`).
`memo` is `this.database`, the promise that callers share; `Open` and
`VersionChange` end it. `Proceed` creates the transaction of the oldest call of a
connection and runs it: transactions run one after the other in the order of
their creation. `Admit` is the end of `shouldPersist`, `Recover` and `Rewrite`
the quota recovery and the second write. Pruning (`Evicted`, `Written`) orders by
last use and key and removes until both limits hold.

**MemoryCache.** The transport hook answers from the Map and marks the request
as a hit, the response hook stores what is no hit. `Repeat` runs a request again
with the same context.

**Auth.** `refresh[f]` is a call of `refreshToken` with its participants
(`members`), `refreshState` the shared promise. `Answer` is the server's verdict,
`Hook` the retry hook (`PolicyAnswers` its asynchronous policy), `Finish` the end
of the refresh (with a token, an empty one, none or an error), `WriteDone` the
end of the write to storage, `Resume` and `ReadToken` the waiter that goes on.
`Send` is the request interceptor, which waits for the token, and `GetToken` its
end: as in the code, it does not look at the installation again.

**Retry.** One request and a clock. `Hook`, `Policy`, `Finalize` and `Jitter`
are the steps of one decision, which waits for `shouldRetry`, `delay` and
`jitter`; `Abort` settles the request while the decision goes on behind it.

**Mock.** `Request` looks for a rule, a handler (`Handle`, `ResetHandlers` change
them) or a recorder, and fails when there is none; `Answer` ends what a rule or a
handler answers, `Return` what was forwarded, which is recorded when the
generation is still the same, or skipped; `Replay` registers the exported entries as
rules.

**Tracing, Metrics.** `pc` is the stage of the pipeline, `todo` the hooks of this
plugin that the stage has captured; hooks of other plugins, which may answer or
fail, lie before and after them. `Enter` captures, so a removed plugin misses the
stages that begin later. In `Tracing`, `current` is the WeakMap of attempts and
`active` the set a cleanup walks; a cleanup ends the spans of every client of the
object, as the code does. In `Metrics`, `stream[r]` is the stream of a response
with its wrapper: `Deliver`, `ReadEnds` and `Close` are the continuations of
`measureReadableStream` and of the generator of `measureAsyncIterable`, whose
`return()` waits for a pending read and may reject (`Stops`). `Uploads` says whether a transport hook that
runs earlier may send the request itself, as the upload plugin does.

**Transfer.** `plan` is what request, plugins and runtime ask for and offer, and
decides who sends (`Transport`). `xhr` is one exchange: `attached` are its
listeners, `seen` the bytes the last event told of, `timer` the time an error body
has; an abort settles the transfer while that body is still parsed, so the timer
may outlive it until `ErrorBodyEnds`. `stream` is the body of a download with its reader, which the plugin reads to
the end (`collecting`) or on demand (`returned`).

**Sse.** The iterator's position `pc`, the connection `conn`, and the parser's
place in the stream: `ReadId` is an id line, `ReadEvent` the end of an event,
`Validate` an asynchronous schema. The server may break a connection anywhere
(`Disconnect`, `StreamEnds`). `Return` is `return()` on the iterator from
outside, whatever it waits for.

## 3. What the runs check

Twelve runs are listed in `PROJECT.json`, with the bounds in the `.cfg` files.
Where the system may stop (requests done, bounds used up) the run says
`CHECK_DEADLOCK FALSE`; `cache`, `stores` and `session` check deadlock instead:
their modules have a step `Finished` (`AllDone` in `Cache`) that is enabled only
when nobody waits, so a wait nothing can end is reported.

| Run | Instance | Shows |
|---|---|---|
| `keys` | 2 clients, 2 keys, 3 requests, 1 permit, queue 1, 1 retained record, 2 installations each | `PermitsConserved`, `RetentionBounded`: no permit lost or minted, records in use never evicted |
| `pool` | 2 clients, 1 key, 4 requests, 2 permits, queue 2 | `NoWaiterBesideFreePermit`, `NoOvertaking`, `RemovalIsScoped`, and `ImplementsPool`: every key refines `PermitPool` |
| `live` | 2 clients, 1 key, 3 requests waiting without timeout | `PermitReturned`, `QueueMoves` under fairness |
| `phases` | 1 client, 1 circuit, 4 requests, 2 probes, 2 successes, asynchronous classifier, `reset()`, reinstallation | `SlotsConserved` (`activeRequests` exactly, probe slots from above), `SuccessesEarned`, `OpensForCurrentFailure` |
| `lru` | 2 clients, 2 keys, Map of 1 | `LruKept`, `BusyCircuitKept`, `SaturationEnds` under fairness |
| `window` | 2 clients, 2 keys, 3 attempts, 1 per window of 2, Retry-After of 1 and 3 capped at 2, clock to 3 | `WindowBounded`, `WaiterHasTimer`, `GrantsInOrder` |
| `endings` | a request with 2 plugins, 2 attempts, 1 registry change and fallbacks; a stream of 4 events over up to 4 connections | `ResponseIsFresh`, `SettledSeesOutcome`, `AbortWins`, `Ends`; `StreamKept` (`OnlyUnfinishedMissed` and `EndsQuietly` of `Sse`), `CloseEnds` |
| `client` | 3 plugins, one required and one excluded, 1 walking request; 2 layers of clients, then a request, with every combination of options that share a rule | `RegistryAgrees`, `WalkIsExact`; `LayersDecide` |
| `cache` | 6 instances of `Cache`: updates and tags beside two requests; all operations on a key, chained; parsed and raw requests; tags, `clear()`, mutations (cached ones too) and revalidation; leases and a failing store; three requests that share a miss | `InvalidatedStaysOut`, `ReadsSeeInvalidations`, `InFlightAgrees` |
| `stores` | 3 instances of `Tiered`, 4 of `IndexedDB`, 1 of `MemoryCache` | `PrimaryAgrees` (with `RecencyIsExact`); `PruningExact`, `RemovalWins`; `ServedWithinTtl` |
| `session` | 2 instances of `Auth`, 1 of `Retry`, 3 of `Mock`, 1 each of `Tracing`, `Metrics` and `Transfer` | `RefreshShared`, `RemovedStaysSilent`; `RetryWithinBudget`; `CallsAccounted`; `SpansAgree`; `MetricsAgree`; `TransferKept` |
| `restored` | `Cache` with requests for one key that differ in their tags | violates `InvalidatedStaysOut` (section 5) |

Why the bounds are enough for what is claimed of them:

* Two clients are what scoped removal needs: the one removed and the one that
  must not notice. Two keys with one retained record make eviction happen with
  each record idle, busy or waited for.
* `pool` has two permits so that one `unuse()` returns two at once and hands
  them to two waiters; `keys` has two installations so that a request of the
  first meets the second. Neither needs the other's parameter, and
  `PermitsConserved` and `NoWaiterBesideFreePermit` are proved for all values.
* Four requests in `phases` are enough for one failure that opens, two probes,
  and a late result of an earlier generation.
* The clock of `window` passes the end of a window and of the longest cooldown.
  With one permit per window the rolling-window comparison is exercised at its
  boundary; larger budgets are not checked.
* `cache`: a stale write takes one request under way and one operation; a second
  operation on the key exercises the chain of `cacheOperations.ts`, a second
  request is the one that reads, joins or leads next, and a third (`three`) joins
  one that joined and had to lead. Keys do not interact except
  through tags and `clear()`, so one key with one tag suffices.
* `stores`: three operations are a write, a removal and a read in any order and
  from either context; one tracked key of two makes tracking overflow. Three
  records of sizes 1, 2 and 4 under limits of 2 entries and 3 bytes make a write
  prune none, some or all others, and fail when it does not fit by itself.
* `session`: three refusals on two clients are a refresh, a joiner, and one that
  comes after its end, with two refreshes. Without a policy requests are refused
  for want of a token only, with one also for an expired token: the policy part
  has the longer behaviours. `Mock` has one part without a recorder, one that
  records and one that replays. The delays of `Retry` are below, at and above the limits.
  `Tracing` and `Metrics` have one request, whose client shares the plugin with
  another: requests meet only in the cleanup, which treats them alike. Two
  changes are a removal and a reinstallation during it, or a removal on each
  client. Bodies of `Transfer` have up to two chunks: none, one that the limit of
  one admits, and one beyond it.
* `endings`: a break after the id of an event, one inside the next and one that
  uses up the attempts need four events and three reconnects.
* Generations, installations, circuit objects, resets, attempts, tokens and
  clocks are unbounded in the code. The constants named `Max...` whose comment
  says "bound" limit them in guards.

`Symmetry` permutes clients, keys and requests and is used in runs without
liveness only. `LateHooks` is FALSE in `live` and `window` because
`PermitReturned` and `WaiterHasTimer` do not hold otherwise (section 5), and in
`lru` because a late probe would keep its slot; it is TRUE in `keys`, `pool` and
`phases`. The instances `mixed`, `cleared` and `pair` of `MCCache`, `colliding`
and `admission` of `MCStores` and `late`, `late traces` and `uploads` of
`MCSession` are those in which a divergence of section 5 occurs; the
`_divergences` and `_restored` configurations take them.

### Fairness

* `Concurrency` (`live`): hooks and continuations run and a request's transport
  ends (`WF` of `OnRequest`, `Resume`, `BeginSettle`, `OnSettled` of every
  request). The event loop justifies the first two; the end of the transport is
  an assumption about the adapter. Nothing is assumed of the caller, of
  `unuse()` or of abort signals, and queue timers are off in that run.
* `CircuitBreaker` (`lru`): settled hooks and classifiers end, nothing else.
* `Lifecycle` (`endings`): every hook, interceptor, adapter call and retry wait
  ends (`WF(Body)`) and the `finally` block proceeds (`WF(Finally)`). An abort is
  not assumed.
* `Sse` (`endings`): continuations run (`Take`), timers fire (`WaitEnds`), and a
  body or a connection attempt that was cancelled ends (`StreamEnds`,
  `ConnectFails` after a stop). Nothing is assumed of the server, of a schema or
  of the consumer, so `CloseEnds` says that closing works while all of them hang.
* The other modules state no liveness. Their waits are covered by the deadlock
  check and by the invariants that say who will end a wait (`InFlightAgrees`).

## 4. What is proved

The runs show a property on one small instance; the theorems below state it for
every value of the constants that the modules' named assumptions allow: any
finite sets of clients, keys and requests, any limits, windows, delays and sizes,
any timing of `unuse()`. The assumptions ask for finite sets, natural numbers and
positive limits, as the option checks of the plugins do, and that the marker
`None` is none of the values it stands beside. TLC evaluates them on every run.

A property is seldom inductive. Each entry names the invariant that is, and what
it has to add.

`ConcurrencyProofs` (`PermitInv`, `RecordsInv`, `ScopedInv`):

* `TypeCorrect`, with `active <= maxConcurrent` and the bound of the queues;
  `Conserved` (`PermitsConserved`); `NobodyWaitsInVain`
  (`NoWaiterBesideFreePermit`). A settling request that holds a permit must find
  its installation and its record, or it would leave without giving the permit
  back; an entry in a queue must be of that key and waiting, or handing it a
  permit would count it twice. `PermitInv` adds `EntriesQueued`, `HoldersPlaced`,
  `SettlersInstalled`, `ActiveRecorded`. The hard step is `Unuse`, which releases
  many permits at once: lemma `Exchange` counts the holders after some left and
  some waiters came, and `HandOverPermit` applies it per key.
* `FirstInFirstOut` (`NoOvertaking`) and `RemovalScoped` (`RemovalIsScoped`).
* `RecordsRetained` (`RetentionBounded`): `RecordsInv` says that beyond the limit
  no record is idle. It needs `PermitInv`, because the code takes `active = 0`
  for idle and may do so only as nobody waits beside a free permit.
* `PermitsReturned` (`PermitReturned`), for `~LateHooks`: with late hooks it is
  false (section 5). `ScopedInv`: holders, waiters and captured hooks all belong
  to installations that are still there.
* `PoolRefined` (`ImplementsPool`): for every key, `Concurrency` implements
  `PermitPool` with the pool's holders and line read off `admissions`, `queue` and
  `ahead`. `AheadQueued` (only entries of the queue stand before an entry) makes
  the abstract line agree with the linked list. Every action of another key, and
  every step of the hooks, is a stutter; a removal maps to the one step in which
  many leave and the front of the line takes their permits.

`CircuitBreakerProofs` (`CircuitInv`):

* `SlotsAreConserved` (`SlotsConserved`), `SuccessesAreEarned`
  (`SuccessesEarned`), `MapIsLru` (`LruKept`). A circuit is an object that may
  outlive its place in the Map, so `Placed` says that no two keys share one and
  that nothing refers to one not yet created, and `Stages` which request has an
  admission. The count of probes is only inductive together with the count of
  requests in flight, from which the code decides what may be evicted.
* `BusyCircuitsAreKept` (`BusyCircuitKept`) and `OpensForAFailure`
  (`OpensForCurrentFailure`), one step per action from the same invariant.

`RateLimitProofs` (`WindowInv`, `TimerInv`):

* `WindowsHold` (`WindowBounded`): `StampsKept` says that every grant younger
  than the window is among the record's timestamps, whatever was trimmed or
  evicted, and `WindowsBounded` that no window up to now is exceeded. A grant
  adds to a window that ends now, and that one is the timestamps it has counted.
* `GrantsOrdered` (`GrantsInOrder`).
* `WaitersHaveTimers` (`WaiterHasTimer`), for `~LateHooks` (section 5):
  `TimersDue` says that the timer of a queue is due no later than the cooldown or
  the oldest timestamp, so it cannot sleep past either. `schedule` takes a
  minimum; that a set of naturals has a least element is well-founded induction
  on `Nat`, instantiated with a set and not with an operator.

`EndingsProofs` (`FreshInv`, `OutcomeInv`, `StreamInv`):

* `TypeCorrect`; `Fresh` (`ResponseIsFresh`), by `FreshInv`: response and
  fallback are absent or of the present attempt. `AbortIsFinal` (`AbortWins`)
  needs no invariant.
* `OutcomeSeen` (`SettledSeesOutcome`): `OutcomeInv` says where the body may still
  be when `finally` has overtaken it: outside of a fallback it is on its way to a
  rejection, and the error can no longer go away.
* `StreamSafe` (`StreamKept`): `CursorInv` ties `lastEventId` to what was
  delivered, cut off or is being read, so a reconnect asks for the event that
  follows; `EndInv` says what an ended iteration has left.

`ClientProofs` (`RegistryInv`), for any plugins with any requirements, conflicts
and priorities:

* `RegistryAgreesHolds` (`RegistryAgrees`), by `ListsInv`: an entry that is not
  late belongs to an installed plugin *and* is in its scope, so `unuse()` finds
  it; ids are below the next one, so a rollback takes out only what it added.
* `WalkIsExactHolds` (`WalkIsExact`), by `WalkInv`: without an eject, the entries
  of the start whose place is below the index have been called; without an
  addition, no others have. An addition only moves entries up and an eject only
  down (lemma `Places`), so each spoils one of the two; `WalksKept` shows it for
  all steps of plugins at once.

and for any menus of configs and any number of layers:

* `LayersDecideHolds` (`LayersDecide`), by `ConfigInv`: the defaults of the client
  at the end of the chain, or what is sent, are a config that says what the
  layers say (`Fits`). `MergeFacts` gives what `mergeConfig` makes of each option;
  one lemma per merge rule (`TimeoutStep`, `StatusStep`, `BodyStep`, `QueryStep`,
  `ExtensionsStep`) shows that the layer appended to the list and the merge agree;
  `ConstructKeeps` that the second merge of `Client.extend`, over an empty config,
  changes nothing a reader could tell, and `EmptyKeeps` the same of a request
  without options. The hypothesis `ValuesApart` says that the values for "no own
  property", "undefined" and "not a plain object" are no objects. The menus may
  hold any configs whose query, search params and plugin options, where a layer
  has them, are not the value `undefined` (`ConfigAssumption`, which TLC checks of
  the run's menus): a layer with such an `undefined` resets the option, which what
  a reader expects here does not say.

`SessionProofs` has an invariant for each plugin, over the record `c` of its
constants; the theorems about `MCSpec` take it for their parts.

* `RetriesKeepBudget`, `SessionRetries` (`RetryWithinBudget`), by `RetryInv`: a
  decision under way has an attempt left, although policies and the clock go on
  behind an abort.
* `OneRefreshForAll`, `SessionRefreshes` (`RefreshShared`), by `AuthInv`: a
  refresh that is pending and is not the shared one has been left by all members.
  `RemovedIsSilent`, `SessionSilent` (`RemovedStaysSilent`) without late hooks.
* `MockAccounts`, `SessionMocks` (`CallsAccounted`), by `MockInv`: rules are
  registered in the order of their ids and a rule that answers is the first of
  its route; the recorder holds the newest of what its generation recorded, and
  the skipped calls are counted exactly.
* `SpansEnd`, `SessionSpans` (`SpansAgree`), by `TracingInv`: the open spans are
  the set a cleanup walks, each the current one of its request, at a stage whose
  hooks can still end it.
* `MetricsBalance`, `SessionMetrics` (`MetricsAgree`), by `MetricsInv`: the gauges
  are the numbers of requests and streams marked as counted, and the marks are
  taken off on every path.
* `TransferLeavesNothing`, `SessionTransfers` (`TransferKept`), by `TransferInv`:
  where an exchange and a stream may be at each stage, and that what was loaded
  was reported. What is over may still have the parser of an error body and its
  timer, but only after an abort.

`StoresProofs` has three, `TieredInv`, `MemoryInv` and `DbInv`, over records of
constants too:

* `PrimaryStoresAgree`, `PrimaryAgreesHolds` (`PrimaryAgrees` with
  `RecencyIsExact`), by `TieredInv`, for any number of contexts, keys and calls.
  `PrimaryAgrees` speaks of the moments when nothing is under way, so the
  invariant has to say what the primary stores hold at all others (`Sound`): an
  entry under a key is the shared one, or a message that drops it is in the inbox
  (`Told`), or a call has changed the shared entry and will, once settled, post
  that message or replace the entry (`Changing`); and no removal of that context
  that would take the entry is unsettled (`Removes`), for it dropped its own
  entries when it was called. A context that has lost track of a key drops its
  whole store, so tracking is not needed for `Sound`. `Asked` ties
  the calls in the queues to the operations that wait, which gives `Quiet` its
  force. The bounds rest on `TrackInv` (one key under each fingerprint, each
  fingerprint once, and the count is their number, through every eviction) and
  `StoreInv`.
* `CacheServesWithinTtl`, `ServedWithinTtlHolds` (`ServedWithinTtl`), by
  `MemoryInv`: an entry expires its lifetime after it was stored, and what is
  about to be stored came from the network. Both are needed, or an old answer
  would be stored as if it were new.
* `OrderlyRemovalsWin`, `RemovalWinsHolds` (`RemovalWins`), by `DbInv`: the calls
  in the line of a connection wait there, each once (`InLine`), and a write was
  asked for after everything its connection did or does before it (`Ahead`). So
  what a removal leaves behind is later than it (`Outcome`). The numbers of calls
  are those of the calls made, which makes a count of calls part of the
  invariant (`AskedFacts`). A write that becomes a removal joins a line again
  with its old number; `Ahead` speaks of writes only, and that is why.
* `NewerRecordsKept` (`KeepsNewer` of `IndexedDB`), one step per action: each
  action changes records that its version finds outdated or current, or the slot
  it was asked for, and none of these is a readable record of a newer version
  (`NoneNewer`).
* `WritesFit`, `PruningExactHolds` (`PruningExact`, all of it): what a write
  leaves fits. With `DbInv` goes `WritesReady`: a call that still is to write has
  a valid record and a store that keeps entries at all, and once it has gone on
  from its line the record fits by itself, through admission and quota recovery.
  `EvictionFits` is about the loop that drops the oldest first: among the records
  kept beside the written one there is an oldest (`Oldest`), the loop kept it
  because it fits with all that are younger, and those are the rest; a record
  that is dropped does not fit with its younger ones, so none that is kept is
  older. `WrittenFits` takes that through the clean-up of outdated records, which
  leaves the written one alone.

`CacheProofs` has three, each beside the one before it, `CacheInv`, `DataInv` and
`Readers`, over records of constants as well:

* `FollowersLedAndLeasesReturned`, for any number of clients: no record in
  flight is left behind by a leader that went (`FollowersAreLed`), and no lease
  by its holder (`LeasesReturned`). What carries it is that a leader has a token
  and an installation until it settles (`Requests`), through every callback that
  may come in between.
* `OneClientAgrees`, `InFlightAgreesHolds` (`InFlightAgrees`): the Maps also match
  the requests. A token on the map counts its users, all of them requests for
  that key (`Tokens`); that the last user finds a count of one needs that a token
  named after a request is unused before the request begins (`Unused`). A record
  in flight belongs to a leader under the token on the map (`Flights`).
* `StaysOut`, `InvalidatedStaysOutHolds` (`InvalidatedStaysOut`), by `DataInv`,
  for any number of clients: what is stored was requested after every finished
  invalidation that covers it (`Stored`). That needs the same of a response on its
  way, whose call is in the queue before those of later invalidations (`Written`),
  and of requests whose token is on the map, which none has hit (`Unhit`); a
  response is written only while its token is. For operations it needs the chains:
  each has its own number (`Numbered`) and one call in the queue while it runs
  (`Queued`), and whoever was issued later on a key, or for a tag, waits for
  someone who is not done before its predecessors are (`Chained`). An operation
  waits for the latest one only, which may be a `tags` operation between two on
  the key; so `Chained` names *some* open operation of the lane that is no earlier.
* `LaterReadsAreNew`, `ReadsSeeInvalidationsHolds` (`ReadsSeeInvalidations`), by
  `Readers`, for one client: whatever a request holds, an answer, a stale fallback
  or the record it asks for a lease with, is no older than the operations issued
  before it began (`Past`). Where it will take one from, none of them is in the
  way (`Way`): while it waits, it waits for each that is open, by `Chained`; when
  it reads, they have ended, but for a `clear()`, which nothing waits for and
  whose call is ahead of its own in the queue (`Ahead`); and whom it joins began
  after all of them. The last needs `Unhit` and, for the record in flight, that
  its leader holds the token on the map (`Flights`), which is where one client is
  needed. For `Ahead` a request has one read in the queue at most, and none before
  it reads (`Reading`).

The hypotheses are the exceptions of section 5, not conveniences: late hooks
leak a permit, strand a waiter, write a token and open a span (`~LateHooks`,
`~c.late`, `"late" \notin Parts`), and an upload that sends from its own hook
skips those of tracing and metrics (`~c.uploads`, `"uploads" \notin Parts`). A
write to IndexedDB that waits for `shouldPersist`, or is repeated after a quota
error, is overtaken by a removal called after it (`Orderly`, `"admission" \notin
Parts`); where nothing removes or only one call is made, nothing can overtake.
The removal of one client takes the tokens of all (`One`, `"pair" \notin Parts`).
A revalidation writes an entry back under the labels of the entry, while the
token has those of the request (`Uniform`, `"mixed" \notin Parts`), and `clear()`
waits for no operation on a key, so that a `set()` or `update()` called before it
may be carried out after it (`Ordered`, `"cleared" \notin Parts`). Keys of one
fingerprint are miscounted (`Injective`, `"colliding" \notin Parts`).
The passing runs have the same `Parts` and values, and TLC shows each property
violated without them.

### What the proofs changed in the models

Some definitions could not be reasoned about. `CASE` with arms that
overlap is a choice nobody specified: `Schedule` of `RateLimit`, `Disposition` and
`Proceed` of `IndexedDB` and `Receive` of `Transfer` now have guards that exclude
each other, in the order of the code's tests. And `None` was assumed to be
different from other values without saying so. `Mock` has its own `Splice`, and
`MemoryCache` its own removal of a key from the Map, for what a library operator
did by recursion. `Registry` compares entries instead of sorting them, a captured
stage is the set of hooks still to run, and `Requires` and `Conflicts` are
constants, so that the theorems hold for all of them; `VersionOf` of `IndexedDB`
is a function. `ConfigMerge` spreads objects with an operator of its own
(`Joined`), and the options of a plugin that `LayersDecide` expects are no longer
folded with the code's own `MergedOptions` but read off the layers. `MemoryStore`
and `Tiered` take elements out of a Map with an operator of their own (`Select`,
for the recursive `SelectSeq`), the keys evicted from tracking are counted as one
set instead of by a recursive sum (they are disjoint), and `Fingerprint` is a
function of the keys. `IndexedDB` counts the bytes of its records as one set
(`Bytes`), for a sum over a set of records: sums need induction over data, unions
of finite sets do not. Its keys and stores are assumed finite, as a
database's are. No reachable state changed otherwise.

### Only model-checked

* Liveness (`QueueMoves`, `SaturationEnds`, `Ends`, `CloseEnds`): the prover does
  not handle liveness under fairness.

## 5. Where code and documentation disagree

Each is a property that TLC finds violated; the quotes are under `findings` in
`PROJECT.json`. The `_divergences` configurations list several properties: `tlc
-continue` shows all of them violated.

| Configuration | Property | What happens |
|---|---|---|
| `MCConcurrency_late` | `PermitReturned` | A permit taken by a captured `onRequest` hook after `unuse()` is never given back (`docs/api.md` 1238); the other clients of the instance lose it for good. |
| `MCCircuitBreaker_probes` | `ProbesBounded` | More probes run at once than `halfOpenMaxRequests` (`docs/api.md` 1178): a probe of an earlier half-open phase gives back a slot of the present one. |
| `MCRateLimit_stranded` | `WaiterHasTimer` | A 429 observed by a removed installation stops the record's timer, so waiters do not "resume under the rolling-window limit" (`docs/api.md` 1314). |
| `Lifecycle_divergences` | `SettledIsLast` | Settled hooks may start before asynchronous error interceptors have ended (`docs/architecture.md` 82). |
| `Lifecycle_divergences` | `SettledSeesFinalResult` | Settled hooks may see a fallback response whose processing then fails (`docs/configuration.md` 669). |
| `MCCache_restored` | `InvalidatedStaysOut` | A revalidation by a request without tags writes a tagged entry back after its tag was invalidated (`docs/api.md` 1565). |
| `MCCache_divergences` | `InvalidatedStaysOut` | `cache.update()` writes what it read before `clear()` after it (`docs/api.md` 1945). |
| `MCCache_divergences` | `ReadsSeeInvalidations` | Removing one installation forgets the tokens of the others, and a later tag invalidation does not detach their requests (`docs/api.md` 1565). |
| `MCStores_divergences` | `RemovedStaysOut` | A read that overlaps a `delete()` promotes the deleted entry into the primary store (`docs/api.md` 1539). |
| `MCStores_divergences` | `RecencyIsExact` | With keys of one fingerprint the count of tracked keys falls behind, and the bound is no longer kept (`docs/api.md` 1919). |
| `MCStores_divergences` | `RemovalWins` | A `delete()` called after a `set()` that awaits `shouldPersist` is carried out before it (`docs/api.md` 1539). The second write of a quota recovery may come after it, too: `Admission` with `policy` FALSE and `failures` TRUE shows it. |
| `MCSession_divergences` | `RemovedStaysSilent` | Without `shouldRefresh`, a captured hook starts a refresh for a removed installation and its token is written (`docs/api.md` 2005). |
| `MCSession_divergences` | `SpansEndOnce` | A start hook captured before `unuse()` opens a span that nobody ends (`docs/api.md` 1389). |
| `MCSession_divergences` | `AttemptHasSpan` | A repeated upload with progress has no span and carries the trace header of the attempt before it (`docs/api.md` 1349): the upload plugin's transport hook sends, and later ones are skipped. |
| `MCSession_divergences` | `CloseStops` | Closing a measured NDJSON or SSE iterable before its first read leaves the response open, and closing it during a read waits (`docs/api.md` 603, `docs/workflows.md` 227). |
| `MCSession_divergences` | `OutcomesTrue` | A byte stream cancelled while it waits for data is recorded as complete (`docs/api.md` 1435). |
| `MCSession_divergences` | `ReturnedOnly` | The stream of a request that failed after its response is counted as active for ever (`docs/api.md` 1424). |
| `MCSession_divergences` | `HookCanRead` | Where downloads use XMLHttpRequest, a request that watches upload and download fails although it succeeded (`docs/api.md` 881). |
| `MCConfigMerge_headers` | `HeadersFollowLayers` | A layer that removes a header and sets it loses it at the next merge (`docs/api.md` 313). |
| `MCEndings_skipped` | `EventsResume` | The id of an event that was cut off is sent on reconnect, and the server resumes after an event the consumer never got (`docs/api.md` 597). |

`PrimaryAgrees` in the passing run leaves out the entries `RemovedStaysOut` is
about, those written to a primary store while their key was being removed there
or the shared entry was another one already (`raced`), and `OnlyUnfinishedMissed` those of `EventsResume`
(`unfinished`). `StreamsMeasured`, `RequestsMeasured` and `DeliveredIsReported`,
which the passing run checks, name the cases above as their exceptions. All of
them say that nothing else goes wrong. A transport hook of the upload plugin also
runs before that of a rate limiter installed after it, which then does not count
the request.

One more needs no run: `unuse()` runs the plugin's own cleanup before it removes
the hooks, not after (`docs/api.md` 997, `PluginScope.ts` 73).

## 6. What is not modelled

* `WebStorageCacheStore` and `getUsage()`: synchronous calls on one object,
  and reads. Option validation of all plugins.
* `cacheKey.ts`, the header syntax of `cachePolicy.ts` and `cacheEvents.ts`:
  conversions and notifications. `Cache` takes what a policy allows as a choice.
* The timers and listeners of `createTimeoutSignal.ts` and `waitForSignal.ts`
  themselves: each model has their effect, one `Abort` that settles who waits.
  That every path removes its listeners is not stated.
* `loggerPlugin` writes a line and keeps no state. Attributes of spans and
  metrics, rates of progress objects, and the text of headers: conversions.
* `buildRequest.ts`, `parseResponse.ts` but for its stream, `normalizeURL.ts` and
  the other utilities are conversions of one value; a model would be the same
  function again.
* Types, errors, entry points, website, benchmark and tests.

## 7. What could be proved next

Every safety property that the passing runs check is a theorem, for the parts
named in section 4. Liveness (`QueueMoves`, `SaturationEnds`, `Ends`,
`CloseEnds`) waits for a prover of fairness and ENABLED.

