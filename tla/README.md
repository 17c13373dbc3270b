# cedar-gate in TLA+

A verification project for cedar-gate, an API gateway whose access control,
rate limiting and routing are decided by Cedar policies. The modules are
translated from `src/`; TLC checks them on small instances and TLAPS proves
the main results for every value of the constants. `PROJECT.json` lists the
components, the runs, the lines each definition models, the hazards the
properties are aimed at, the disagreements between code and documentation, and
the theorems.

## The system

One Node process, two HTTP servers, one event loop. Whatever runs between two
`await`s, or inside one callback, is atomic; everything hard about the program
happens between them.

| Component | State | Operations | What makes it correct |
| --- | --- | --- | --- |
| Policy loader (`policies/policy-loader.ts`) | none | read a directory file by file, parse each; read the entities file | a bad file is an error, not an abort; nothing is read twice |
| Policy store (`policies/policy-store.ts`) | policy text, entities | `setPolicies`, `setEntities`, `update`, snapshots | a swap is all or nothing |
| Hot reloader (`policies/hot-reload.ts`) | watcher, debounce timer, `isReloading`, `pendingReload` | watch event, timer, `reload()`, `stop()` | no edit is lost, one load at a time, requests are answered by what was loaded |
| Admin API (`admin/`) | the bodies being read | reload, add policies, put entities, read | no request undoes another unasked; one answer each; a refusal changes nothing |
| Token bucket (`ratelimit/strategies.ts`) | a map of buckets | `consume`, `reset`, `cleanupStale` | never above capacity and refill; the retry time is enough |
| Sliding window (same file) | a map of counts | the same | the weighted count never exceeds the maximum; a bound over any window |
| Limiter registry, policy rate limiter (`ratelimit/`) | limiters by configuration | `get`, `check` | the limiter asked is the one its tier configures; no client is refused for what another spent (true of keys without colons only) |
| Gateway handler (`gateway.ts`) | none beyond the request | access, rate limit, route, proxy, count | each request is answered and counted once |
| Reverse proxy (`routing/proxy.ts`) | one promise and two streams a request | response, end, error, timeout, client close | one head, one settlement, no unanswered exchange left behind |
| Server (`server.ts`) | phase | boot, shutdown | the process ends, though responses may be stuck |
| Pipeline (`pipeline/`) | an index | `next()` | each middleware runs at most once, errors reach whoever waits; exported, not used by the server |
| Metrics registry (`observability/metrics.ts`) | counters, histograms, gauges | `counter`, `histogram`, `gauge` | the counts of a request add up |
| Evaluators, router, schema, tracing, logging, configuration | none | pure calls | no behaviour over time |

How they interact: the loader is awaited by the boot and by the reloader; the
reloader and three admin handlers write the store; the gateway handler reads a
snapshot of the store at its first line and keeps it for the request; the rate
limiter is called synchronously, so it never interleaves with itself, only with
its cleanup interval; the proxy's callbacks and the client's close interleave
with each other, with the rest of the upload and with shutdown.

Hard behaviours: edits, events, the timer, admin requests and `stop()` during
the awaits of a load; a coalesced reload; a load in which one read fails;
requests against a bucket that has idled, been collected, or whose window has
rolled once or more; the races of response, end, abort, error, timeout and
client close; a shutdown with responses in flight; admin bodies that interleave,
are too large or break off; tiers reconfigured between two requests of a client;
`next()` called late, twice or unawaited. `PROJECT.json` has each at its line.

## Modules

| Module | Models |
| --- | --- |
| `HotReloader` | disk, boot, loader, store, reloader, the admin handlers that write, shutdown |
| `PolicyStore` | the store as requests know it: swapped whole, appended to, put |
| `MCHotReloader` | its symmetry sets for TLC |
| `HotReloaderProofs` | theorems about it, among them the refinement of `PolicyStore` |
| `Allowance` | what the gateway relies on of either limiter: capacity per key, used up and coming back |
| `IdealBucket` | what a token bucket promises: a level per key that rises with time |
| `TokenBucket` | `TokenBucketLimiter`: lazy creation, lazy refill, cleanup |
| `TokenBucketProofs` | theorems about it, among them the refinements of `IdealBucket` and `Allowance` |
| `IdealWindow` | the two-window count with windows that always exist and roll on time |
| `SlidingWindow` | `SlidingWindowLimiter`: lazy creation, lazy rolling, cleanup |
| `MCSlidingWindow` | the roundings TLC assumes |
| `SlidingWindowProofs` | theorems about it, among them the refinements of `IdealWindow` and `Allowance` |
| `Exchange` | what a request comes to: one answer, whole or cut short, and one count |
| `Gateway` | the requests of `gateway.ts` and `proxy.ts`, and the shutdown of `server.ts` |
| `GatewayProofs` | theorems about it, among them the refinement of `Exchange` |
| `Admission` | what `gateway.ts` decides before the proxy: access, tier, limiter registry, route, and the counts |
| `MCAdmission` | the tier configurations, tenants and paths TLC uses |
| `AdmissionProofs` | theorems about it |
| `AdminApi` | `admin-handlers.ts` with `readBody`, and the catch of `admin-router.ts` |
| `AdminApiProofs` | theorems about it |
| `Pipeline` | one call of a handler composed by `composePipeline` |
| `PipelineProofs` | theorems about it |

`HotReloader` and `AdminApi` meet at the store: the first has the handlers that
write it next to a load that is running, the second has how their bodies are
read and takes a load as one step, `Install`. `Admission` and `Gateway` divide
`handleRequest` at its await: the first ends where the second's `Forward`
begins.

What is asked of a limiter is `Allowance`: a call is allowed exactly when the rest
of its key's capacity suffices, uses that up, and nothing but time or `reset`
gives it back. `TokenBucket` and `SlidingWindow` are each proved to implement it.
`Admission` takes a limiter for just that, in units of one token, and adds what
the registry does with many of them; that its `Spent` and `Recover` are the two
limiters seen from outside is an argument and no theorem.

`PolicyStore` is what the loads and handlers of `HotReloader` come to for
everyone who reads the store, and `Exchange` what the callbacks of `Gateway` come to
for a client and the metrics. `Install` of `AdminApi` is `PolicyStore`'s `Load`.

Operators named `Action_Something` and marked "Mutant" are wrong versions of the
action that follows them. No specification uses them; with one put in the place
of the action it is named after, the property `PROJECT.json` pairs it with fails.
That is the evidence that the property depends on the code.

### HotReloader

A load is the variable `pc` walking through `readdir`, `files`, `entities`,
`install`: one action for each await of `loadPoliciesFromDir` and
`loadEntitiesFromFile`. `caller` says who awaits it: the boot, the timer or an
admin request. The first load and a reload share the steps and differ where the
code does: the boot goes on without bad files and bad entities, a reload gives
up. `dir` and `entitiesFile` are the disk, `Edit` and `EditEntities` the
operator's editor; each change of a watched file makes the watcher owe an
`event`. `Places` says where `ENTITIES_FILE` may point: nowhere, to
`entities.json` in the watched directory, whose events pass the filter of
`start()`, or to a file outside it, as in the Dockerfile and docker-compose.yml,
of which the watcher hears nothing (`EntitiesReported`). Several
changes may be reported by one event, and one change by several; since a
callback only re-arms the timer, one outstanding event stands for any number.

Abstractions. A policy file is a model value, accepted (`Contents`) or refused
(`Invalid`). The store's text, a concatenation, is kept as what it holds of
each file plus the set of texts admins appended. The files a directory lists are
those that exist when it is listed; a file removed between listing and reading
is a failed read, as in the code. The 300 ms are not counted: an armed timer
fires at any later time. A request body is read before the admin actions begin.
Posting a text the store already holds would change nothing the model tells
apart, so the model does not take that step. `HOT_RELOAD=false` is not modelled.

### TokenBucket and SlidingWindow

The clock `now` counts ticks of a millisecond and does not run backwards; a run
scales it down (`TicksPerSecond`, `WindowMs`). Tokens are counted in units of
1/`TicksPerSecond`, so refilling a tick is adding `RefillRate` and the
arithmetic is exact; rates are whole numbers per second. The cleanup interval
may run at any moment, which covers every phase of the sixty seconds.

The sliding window multiplies a count by a binary64 weight and floors it. The
exact product is a multiple of 1/`WindowMs` and the error is many orders of
magnitude smaller, so the floor is exact unless the product is an integer, when
it may come out one lower. `RoundsDown` says for which counts and times it
does; `SlidingWindow` is proved for every such set, and checked with one
that is mixed, as binary64 is: 100 * (1 - 0.9) comes out low, 100 * (1 - 0.95)
does not. The retry time divides by the rounded product, not by the exact one, so its
ceiling may be one more than the exact quotient: whenever the product came
out low, and otherwise where `RoundsUp` says so.
`since`, `spent` and `promise` are history: what has been admitted since a
moment that may be chosen anew at any time (so the bound holds for every
interval) and what a client was last told by `retryAfterMs`. A client may rely
on that time with two exceptions, which `RetryHonoured` states. A request for more
than the capacity is told a finite time by either limiter, which nothing can keep (the
gateway always asks for one token). And a sliding window works a time out from the previous
window's weight alone, so that one in a later window may be too early, since
today's count is then the weighted one; the client who waited for it and is refused
again is told a time that is kept. `answer` is the
result of the last call; it tells a `reset` from a cleanup, so that the
refinements fail when the cleanup deletes something a key still needs.

For `Allowance` a bucket has used up what it lacks in whole tokens, and a
window what its weighted count comes to; the making of a state must then use up
nothing, and neither may a new window, in which the current count becomes a
weighted one.

### Gateway

`handleRequest` has one `await`, the proxy. Everything before it happens in the
turn the request arrives in, so `Answer` is one action for the four ways a
request ends there; which one is left open here and decided in `Admission`. `backend` follows the exchange:
`waiting` for a head, `streaming` a body, `destroyed` (by the timeout or the
client's close, with the resulting error still to come) and `closed`; `uploaded`
says whether the client's own body, which `req.pipe(proxyReq)` passes on, is at its end. A
backend may answer in full before that and go on reading: the exchange is then
`answered`, and a client that hangs up no longer ends it, because the close
handler of `proxyRequest` tests `writableEnded`. It ends with the upload, by an
error, or by its timeout; `NoBackendLeft` says that nothing else can be left. When a
callback settles the promise the handler resumes in the same turn, so counting
is part of the callback's action. Each request has a connection to itself while it
runs. `Shutdown` refuses new connections, and requests still arrive in the drain on
those that were kept alive and are busy; a connection is busy until both its response and its
request body are complete. The admin server's own requests are not part of the drain.

Left out: headers, bodies, the statuses a backend chooses, and an exception
thrown after an answer has been written.

### Admission

A request is one action, named for the way it ends: `Deny`, `LimiterThrows`,
`RateLimited`, `Route`. `permitted` is the set of tiers Cedar allows it, any
set, since the engine is external; `Matched` is the search of `check()` from the last
tier to the first. `limiters` is the registry by `configKey`, `Limiter` what
`createLimiter` makes, `Constructible` what the constructors of `strategies.ts`
accept. `spent` is what a limiter remembers of a rate limit key, `granted` the
history it is compared with: which client was granted it; `refused` is the
limiter's last refusal, which an allowed request clears. `SetEntities`
reconfigures a tier between any two requests. A rate limit key is the string
`tenant:method:path`, in which tenant and path may hold colons of their own; the model has
a string as the sequence of its colon-free parts, so that `RateKey` joins as the code does
and two clients may come to one key. `counted` has the statuses
answered before the proxy; a 429 is counted by its own counter, as in the code.

Left out: the gateway never calls `destroy()`. `req.principal` is never set by
the server, so every principal is anonymous and limits are by tenant, method
and path. Tier numbers are natural numbers.

### AdminApi

An admin request is `idle`, then `reading` a body or `reloading`, then `done`.
`Chunk` is the "data" callback with the limit; over it the socket is destroyed
before the 413 is written, to nobody. What follows "end" runs in the same turn,
so refusing, adding and setting are one action each, from the body to the
answer. `HangUp` is "error" on the request. `ReloadDone` and `WatcherReloads`
are a load as `HotReloader` allows it to end. `added` is the set of texts
appended since the last load: loads replace the text as a whole, and the files
in it play no part here. `told` and `before` are history.

### Pipeline

`dispatch(i)` is a step with a body and a promise. What a middleware does is
left open: it may call `next()` in time, again or after it has returned
(`CallNext`, `CallNextAgain`), await the promise at once, later or never
(`AwaitLater`, `Resume`), catch an error, throw one. `unhandled` records errors
nobody was waiting for, which Node reports; it is how a middleware, and never
`dispatch`, can lose one.

## Runs

| Run | Bounds | Shows |
| --- | --- | --- |
| `HotReload` | 2 files, 1 text, a watched entities file with one content, entities an admin puts, 1 admin, failing reads | `NoSilentLoss`, `NoSilentEntityLoss`, `ImplementsPolicyStore`, `ReloadAnswersItsLoad`, `InstallsWhatItRead` |
| `HotReloadLiveness` | no entities file, a watched one and an unwatched one; 1 policy file, 1 text, 1 content of the entities file, 1 added text, 1 admin, reads that succeed | `Convergence`, `ReloadAnswered`, `CoalescedIsServed`, `AddedLostOnlyToInstall` |
| `TokenBucket` | 1 key, capacity 2, rate 2, 3 ticks a second, requests of 1 to 3 tokens, 12 ticks | `BurstBound`, `RetryHonoured`, `ImplementsIdealBucket`, `ImplementsAllowance` |
| `SlidingWindow` | 1 key, windows of 4 ticks, a maximum of 4, requests of 1, 2 or 5 tokens, mixed rounding, 17 ticks | `NeverOverdrawn`, `RollingBound`, `LongRunBound`, `RetryHonoured`, `ImplementsIdealWindow`, `ImplementsAllowance` |
| `Gateway` | 2 requests | `SingleHead`, `CountedOnce`, `NoBackendLeft`, `ImplementsExchange`, `HandlerReturns`, `ShutdownEnds` |
| `Admission` | the tenants `a`, `a:GET:/y` and `global` and requests without one, the paths `/x` and `/y:GET:/x`, 2 tiers, 4 configurations, 3 requests | `LimitersFit`, `CapacityHolds`, `MetricsBalance`, `RefusedForOwnSpending` |
| `AdminApi` | 2 requests, 2 texts, 2 arrays, a limit of 3, chunks of 1 or 2 | `TypeOK`, `AnsweredOnce`, `NoAddIsLost`, `RefusalsChangeNothing`, `RequestsEnd` |
| `Pipeline` | 3 middlewares | `OncePerRequest`, `NothingOutlives`, `NoErrorIsSwallowed`, `Settles` |

`TypeOK` of `AdminApi` is among these because it bounds the body that is kept by
the limit. The other type invariants, the inductive invariants `IInv` of `HotReloader`,
`Gateway` and `Admission`, and `OnlyBackendsTruncate`, which `ImplementsExchange`
implies, were checked on these bounds before they were proved; as theorems for
every value of the constants they need no run.

Why these are enough. Two files are needed for a load to be between them, and
one text and one invalid one for versions to differ; a third file would only
be read like the second. One admin is enough for a reload to be coalesced: the
timer's load is what it coincides with, and the other way round. For liveness one policy file and
an entities file give a load all its awaits; all three places of the entities file
are initial states of the one run. Seventeen ticks are four windows and one tick, so that a state can be
skipped by one window, by two, and be collected after three; twelve ticks are
twice the idle time after which a bucket is collected (six ticks and one), with
a burst before and after. Keys of a limiter do not share state, and the theorems
about both limiters cover any number of them. Four tier configurations are two
that share a key (a number missing and a number 0) and two that differ in the
window only; three requests spend either capacity, one and two, and are refused,
before and after a tier has changed and changed back. Two of the tenants and both paths
meet in one key, and elsewhere each keeps a key to itself; the tenant `global` and no tenant share all of theirs.
With a maximum of four, a previous count of four has a product that comes out low after one
tick and exact after two, and five tokens are a request no window can hold. A limit of three and
chunks of at most two reach it exactly, cross it by one, and cross it only in
the sum. Three middlewares are one that calls, one between, and one that is last. Every run switches deadlock checking off:
the process may exit, and the clock stops at its bound.

Runs that end in a violation, each a disagreement with the repository's own words:

| Run | Statement | What the code does |
| --- | --- | --- |
| `HotReloadStop` | tests/policies/hot-reload.test.ts:107, "stop() should clear pending debounce timers" | a load that outlives `stop()` with the pending mark set arms a timer in its finally block |
| `HotReloadCoalesced` | the same file, line 72, an invalid file makes `reload()` return an error | a coalesced `reload()` answers success before anything is read |
| `SlidingWindowRolling` | README.md:366, "100 requests per rolling 60-second window" | up to the maximum more, less what the weight still covers; `RollingBound` is the bound that holds |
| `GatewayHang` | docs/component-diagram.puml:62, proxy.ts:16, responses are streamed to the client | a body cut short after the head is neither ended nor dropped |

Some facts no run repeats. A file edited between the
first load and the start of the watcher is never noticed: set `EditsDuringBoot`
to TRUE and `NoSilentLoss` fails. And the ten seconds of the forced exit
are less than a backend's thirty, so a drain may be cut off with responses in
flight. The proxy's own 502 and
504, and proxied responses, carry no `x-request-id`, though README.md:339 says
all responses do. An entities file outside the policies directory, which is the layout of
the Dockerfile, is not watched: an edit of it shows only with the next reload, and a policy
edit that was rejected because the entities file was broken is not retried when that
file is repaired; `Convergence` states it as its exception. README.md:378, "Each tenant gets
its own rate limit counters", holds only of keys without colons: tenant `a` asking for
`/y:GET:/x` and tenant `a:GET:/y` asking for `/x` share one counter, and a tenant called
`global` shares those of requests that have no tenant (with `Plain` weakened to "not
called global", TLC finds `RefusedForOwnSpending` violated by the first pair). A tier number of 0 is
refused by the constructor, unless a configuration without that number was
asked first: `LimitersFit` speaks of sound configurations.

## Fairness

`HotReloader`: a started file operation completes (`LoadStep`), the watcher
delivers what it owes (`WatchEvent`), and an armed timer fires, but only weakly
and only while no event is outstanding, because each event starts the timer
anew: a directory that never rests may never be reloaded. `Convergence`
therefore speaks of files that rest. Nobody is obliged to edit, to call the
admin API or to stop the process.

`Gateway`: an exchange that is silent times out and one that streams, in either
direction, is taken to end or fail some day; Node delivers what `destroy()` and `server.close()` leave
pending, and the exit timer fires. The first is the one assumption the code
does not enforce by itself: a backend that sends a byte now and then, or reads one, streams for
ever, and the code allows it to. Clients are not obliged to do anything, not even to finish their uploads.

`Pipeline`: a settled promise resumes whoever awaits it, and a middleware that
is running is taken to end; one that never does is not dispatch's fault.

`AdminApi`: a load ends (that is `ReloadAnswered` of `HotReloader`), and a body comes
to its end, breaks off, or is dropped by Node's request timeout, whose default
the server keeps.

The limiters and `Admission` have no liveness: they answer in the call.

## Proofs

`HotReloaderProofs`, for any number of files, texts, admins and every option:

- `TypeCorrect`: `TypeOK` is inductive by itself.
- `LoadCorrect`: with `LoadInv`, `isReloading` holds exactly while a reload is
  at one of its awaits, and only then can a request be pending.
- `InstallsCorrect`: `SeenInv` adds that every segment of the text read so far was on
  disk since the load began; a step that changes the policies then installs
  only such segments.
- `NoEditIsLost`: `NoSilentLoss` is not inductive, since it speaks of quiet states only.
  `FreshInv` says why quiet states are good: while nothing that would start
  another load is outstanding, all that the running load has read is still
  current. Every edit breaks the premise by making an event due; the event,
  the timer and the pending mark hand it to one another until a new load
  starts. The theorem assumes `~EditsDuringBoot`, and is false without it.
- `NoEntityEditIsLost`: the same for the entities file, with `EntitiesFreshInv` for the
  entities a load has read and not yet installed.
- `PolicyPlaneInvariant`: all of these together, `IInv`.
- `ReloadsAnswered`: `WaitInv`, that whoever waits for an answer is the caller of
  the load in progress, is what ties an answer to its own load.
- `AddedStays`: each action that is not an install leaves the added texts alone or extends them.
- `StoreIsAtomic`: the plane implements `PolicyStore`. Every await, failure and
  coalesced request is a stutter and the step that ends a load is the one `FirstLoad` or `Load`.
  `InstallsWhatItRead` looks at the policies of one step; this says of every behaviour that policies and
  entities change together or not at all. `StoreInv` is what the steps need besides `LoadInv`:
  entities are awaited only where a file of them is configured (so a load
  without one leaves an admin's alone), and nothing is appended before the process serves.

`TokenBucketProofs`, for any keys, capacity, rate and resolution:

- `BucketsTyped`: a bucket's tokens lie between none and a full bucket, its stamps in the past.
- `BurstsBounded`: `LevelBound`, that what was spent and what is left never exceed a full
  bucket and the refill, is inductive; a lemma shows that deleting a stale
  bucket does not change the level of its key.
- `Refinement`: each step of the limiter is a step of `IdealBucket` or none, with the level a key
  would have if asked now as the refinement mapping. Creation and cleanup stutter.
- `RetriesHonoured`: `RetryInv`, that the level and the refill until the promised time cover
  a request within the capacity, is inductive.
  Only a request within the capacity fits in a full bucket, at which the refill stops.
- `AllowanceKept`: the limiter implements `Allowance`. What is used up is the capacity less the level
  rounded down, so a request of whole tokens fits exactly if it fits in the level,
  and the level of a key never falls but by what it is allowed.

`SlidingWindowProofs`, for any keys, maximum, window and rounding (`RoundsDown` may be any set):

- `CountsBounded` and `NotOverdrawn` from `WindowInv`: the types, `Aligned` (states start at
  window boundaries, this one's or one at least a window ago), and
  `NeverOverdrawn` itself. Alignment is what makes rolling exact; without it a state could
  start inside a window and be weighted by the wrong elapsed time.
- `SpansBounded`: `SpentInv` says where what was admitted since a moment is counted: in the
  current count if the moment lies in this window, in one of the two if it lies in the one
  before. With `NeverOverdrawn` and the least a weight can be, the bound is arithmetic.
- `RetriesHonoured`, for any rounding: `RetryInv` says that at every time left in the window which is
  not before the promised one the request fits, so that a tick only takes times away. A
  denial establishes it (`PromiseMade`): by the promised time the weighted count has fallen by what is
  missing, counted from the product as it was rounded then, and a quotient taken from a product that
  was low is one tick later. `IdleInv` covers a promise that crosses a
  boundary: its key admits nothing while it is out, so a window later only the previous count
  is left, and for who is refused again on coming back not even that after another.
- `LongRunsBounded`: a key is admitted at most the maximum for each aligned window a span
  touches, so idling, rolling and cleanup never add up to more. `LongRunInv` says
  more: what it was admitted before the current window is at most the maximum for each window
  begun since, and the rest is the current count. A new window starts that count anew and adds one maximum.
- `AllowanceKept`: the limiter implements `Allowance`. The heart of it is that the weighted
  count never rises by itself, not even where a window begins and the current count becomes
  the previous one, at weight one, nor where a product rounds down at one time and not at the next.
- `Refinement`: `IdealWindow` with what a key would be judged by now as the
  mapping. Making, rolling and collecting a state are stutters; a tick that
  crosses a boundary is where the ideal windows roll.

`GatewayProofs`, for any number of requests, from one invariant of each request
(`RequestInv`): how often a head was written, what an exchange still open implies
about the handler, the client and the upload, and what has been answered once the handler has
settled. `GatewayInvariant` proves it; `HeadsAreSingle`, `CountsAreRight`,
`BackendsAreReleased` and `OwnAnswersComplete` follow from it state by state.
`OutcomesAreFinal` is the refinement of `Exchange`: of the five callbacks that may
settle a request only the first is a step of it, and every later one a stutter,
because `RequestInv` says that an exchange still open belongs to a handler that waits.

`AdmissionProofs`, for any tenants, endpoints and configurations: `AdmissionInvariant`
proves `IInv`. `RegistryInv` says that a registered limiter was made from a
sound configuration with its key and has admitted no key beyond its capacity;
`OwedInv` that what it remembers of a key is the number of units the requests with
that key owe it, however many clients share the key: each unit is a pair of a request and a
number, so that a step adds or removes one pair and changes the cardinality by one. `LimitersFitTiers`,
`CapacityIsHeld` (what one client owes is a subset of all) and `OwnSpending` follow;
the last because a key of three colon-free parts splits in one way (`SplitsOnce`), so that
all units under it are of the one request. `MetricsAddUp` is inductive by itself.

`AdminApiProofs`, for any requests, texts, limit and chunks: `BodiesAreBounded`,
`AnswersAreSingle` and `AddsAreKept` are inductive (the last because the text is
read and written in one turn), `RefusedWithoutTrace` is a step property.

`PipelineProofs`, for a chain of any length: `ChainCorrect` proves an invariant that
says which steps have begun, that a promise is pending exactly while its step
is not done, and that only a settled promise has been joined. `StepsRunOnce`,
`ChainIsAwaited` and `ErrorsSurvive` follow: a step whose middleware above has joined it is
done, so the invariant gives the second without an induction along the chain.

The assumptions are the named ASSUMEs of the modules, which TLC evaluates.

Only model-checked: all liveness, which is beyond the prover, as is what it
rests on, ENABLED. Every safety invariant and action property the passing runs
check is also a theorem.

## Not modelled

- The Cedar engine is external and its verdicts are free, a failure counting as
  a denial as in `policy-evaluator.ts`; the wrappers around it and the router
  are not more than the choice of a verdict.
- Schema and entity construction, logging, tracing, configuration: pure
  functions or formatting, no behaviour over time.
- The text format, sums, buckets and gauges of the metrics.
- `HOT_RELOAD=false`, a port that is taken, `LimiterRegistry.destroy()`.
- A clock that is set back. Both limiters subtract wall clock readings and guard
  against nothing; each of their promises is about elapsed time, and even the
  types fail when it is negative.
- Binary64 drift of token counts. The model counts tokens exactly; how far sums of
  rounded refills drift depends on the very numbers, and a small scale shows nothing of it.
- Infrastructure under `infra/`, which is not part of the program.

## Plan

In order of importance; the first eight are done.

1. `HotReloader`: the policy plane, with its proofs.
2. `TokenBucket` over `IdealBucket`, with its proofs.
3. `SlidingWindow` over `IdealWindow`, with its proofs.
4. `Gateway`: requests, proxy, shutdown, with the proofs of its safety.
5. `Admission`: access, tiers, registry and route, with its proofs.
6. `AdminApi`: bodies, refusals and answers, with its proofs.
7. `Pipeline`: composed middlewares, with its proofs.
8. The abstractions: `Allowance` under the limiters, `PolicyStore` under `HotReloader`, `Exchange` under `Gateway`, with their proofs.
9. Left: `AdminApi` over `PolicyStore` (its `added` is the one part they share), and
   an abstract chain for `Pipeline` to implement, without promises and with an order only.
