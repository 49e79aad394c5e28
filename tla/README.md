# TLA+ verification of GopherCore

GopherCore is a library of building blocks for Go services. This directory holds TLA+ models of the
blocks that keep state across goroutines, processes or failures, the TLC configurations that check
them on small instances, and TLAPS proofs of the properties that matter most for every instance.

Run from this directory:

    tlc -workers 2 -config cache.cfg MCInMemoryCache      # one run of the table below
    tlapm InMemoryCacheProofs.tla                         # one proof module

## 1. Inventory

| Part (package) | State | Operations | Interacts with | What is hard | What makes it correct |
|---|---|---|---|---|---|
| circuit breaker (`circuitbreaker`) | phase, three counters, last failure time, behind one mutex | Execute, ExecuteContext, State, Reset | the protected `fn`, contexts, OnStateChange callback | the mutex is free while `fn` runs: results arrive in another phase than the call was admitted in | counters belong to their phase, nothing passes before the rest period is over, probes are limited, it recovers |
| in-memory cache (`cachekit`) | map of items with deadlines, RWMutex, sweeper goroutine | Set, Get, Delete, Close, cleanup loop | clock, ticker, contexts | read lock, decision, write lock: the map changes in between | eviction is invisible, hits are live, Close returns |
| redis cache (`cachekit`) | none of its own | Set, Get, Delete | go-redis | nothing local | - |
| `async.Map` | semaphore, WaitGroup, result and error slices | one call | contexts, `fn` | cancellation against launch, panics, choice of the error | throttle, barrier, truthful nil |
| `async.Group`, `async.Fan` | WaitGroup, error slice behind a mutex | Go, Wait; one call | `fn`, contexts | nested launches, several waiters, partial launch | barrier, no error lost or repeated |
| `async.Go`, `async.GoErr` | one channel per GoErr | one call | `fn`, onPanic, the receiver | a caller that walks away, a goroutine that ends without a result | no goroutine leaked, one outcome per receiver |
| job queue (`async/queue.go`) | mutex, started flag, the mux | HandleFunc, Start, Stop, Shutdown; Enqueue, Close of the client | asynq, Redis | registration against a Start in another goroutine, panics with the lock held | the mux is frozen once started, no call blocks for ever |
| retry (`retry`) | loop counter, timer | Do, DoWithValue | contexts, `fn`, RetryIf, random source | timer against cancellation, float and integer ranges | exact number of attempts, at most one begun on a dead context, bounded delay |
| HTTP server life cycle (`httpkit.GracefulShutdown`) | signal channel, server result channel | one call | http.Server, os/signal | signal, failure, deadline and foreign Shutdown race | drained when nil, an error only of a failed server, nothing accepted after return, ends on a signal |
| HTTP router, middleware, responses (`httpkit`) | shared token bucket | one request | chi, x/time/rate | any frame may answer, panics unwind, clients go away, bucket at its limits | every answer guarded, the limiter's budget kept |
| gRPC interceptors (`grpckit`) | none between calls | one RPC | grpc-go, slog | unwinding of panics through the chain | no panic escapes, codes and records agree |
| gRPC client (`grpckit`) | none | NewClient | grpc-go | - | - |
| database, migrations (`dbkit`) | in the database: version, dirty flag, advisory lock; the pool | Connect, RunMigrations, RollbackMigrations, GetMigrationVersion | sqlx, golang-migrate | crash in the middle, concurrent runs, several errors in one call | what a call returns is true of the schema, no lock is kept |
| configuration (`config`) | the caller's struct | Load | environment, validator | nested structs, an error half way, empty variables, overflow | each field is what tag and environment say, up to the first error |
| telemetry (`otelkit`) | global providers, exporters | InitSDK, the shutdown function | OpenTelemetry | failure between its steps, one of two shutdowns failing | nothing runs that nobody can stop |
| result (`result`) | none | constructors, Map, FlatMap, Unwrap... | - | chains, Err of a nil error | laws of the combinators |
| guard, logkit, jsonutil | none | pure functions | validator, slog, encoders | - | - |

`PROJECT.json` lists every component with its status, and under `hazards` the places in the code that
tests hardly reach, with the properties aimed at each.

## 2. Modules

| Module | Models | Remarks |
|---|---|---|
| `CircuitContract` | abstract specification | what a caller may rely on: phases, rest period, calls in flight |
| `CircuitBreaker` | `circuitbreaker.Breaker` | each critical section is one action; the theorems are about this module |
| `LockedBreaker` | the breaker with its mutex, the OnStateChange callback under it, and a service that heals | extends `CircuitBreaker`, whose actions it runs inside critical sections |
| `ExpiringMap` | abstract specification | a map from keys to values with deadlines |
| `InMemoryCache` | `cachekit.InMemoryCache` | split at every lock boundary |
| `AsyncMap` | `async.Map` | launch loop, select, workers, return |
| `TaskGroup` | goroutine body shared by Group and Fan | |
| `Group`, `Fan` | `async.Group`, `async.Fan` | extend `TaskGroup` |
| `GoErr` | `async.Go`, `async.GoErr` and their callers | extends `TaskGroup` |
| `Retry` | `retry.Do`, `DoWithValue`, `calculateDelay` | reduced integer and mantissa width |
| `GracefulShutdown` | `httpkit.GracefulShutdown` | http.Server and os/signal external |
| `HTTPRouter` | `httpkit.NewRouter`, its options and middlewares, the answers of `response.go` | chi, its middlewares and x/time/rate external |
| `HTTPService` | the router behind the server | composes `GracefulShutdown` and `HTTPRouter`, which share the constant of `HTTPRequests` |
| `RPCChain` | recovery and logging interceptors, NewServer | unary and stream alike |
| `Migrations` | `dbkit` migrations and the pool they use | golang-migrate external: lock, dirty flag, versions |
| `Telemetry` | `otelkit.InitSDK` and its shutdown | providers external |
| `JobQueue` | `async.QueueServer` | asynq external |
| `ConfigLoader` | `config.Load`, `populate`, `setField` | the recursion as a walk over the fields with a cursor |
| `Result` | `result.Result` | operators and theorems, no state |
| `MC*` | instances for TLC | `MCTasks` and `MCParts` choose one of several parts that share no state; `MCParts` takes its values for Load and Retry from `MCConfig` and `MCRetry` |
| `CircuitBreakerProofs`, `InMemoryCacheProofs`, `AsyncMapProofs`, `RetryProofs` | theorems | extend the module they are about (the first one `LockedBreaker`) |
| `TaskProofs` | theorems about `Group`, `Fan`, `GoErr` | one invariant of the shared `TaskGroup`, one on top for each |
| `HTTPServiceProofs` | theorems about `GracefulShutdown`, and about it around `HTTPRouter` | |
| `KitProofs` | theorems about `Migrations`, `Telemetry`, `JobQueue`, `RPCChain`, `ConfigLoader` | components that share nothing |

Definitions whose comment begins with "Variant:" are not part of any specification. Each is a
plausible mistake in the definition that follows it; PROJECT.json's `mutants` says which property
notices it when it takes that definition's place.

### How state and actions correspond to the code

*CircuitBreaker.* `breaker` is the struct. A call moves from `idle` over `checked` (ctx.Err() was nil,
the lock is not yet held) to `running` (in `fn`, lock released) and back. Admission (lines 214-241) and
the deferred completion (246-268) are one action each because they hold the mutex throughout.
`transitionTo`, `currentState`, `recordSuccess` and `recordFailure` are functions of the struct and keep
their names. Time is an age that saturates at Timeout, since `currentState` only asks whether it has
been reached; a tick is the unit. `probes`, `staleProbes`, `staleReturns` and `sinceTrip` are history.
A settings value that New replaces is modelled by `Sanitize`.

*LockedBreaker.* `mutex` says who is in a critical section and where it stands. A section that changes the
phase stays open while OnStateChange runs; every other one is still a single step, since nobody can look
inside. The callback returns, panics or calls the breaker again (and then waits for itself). A panic
unlocks where the code defers its Unlock and leaves the mutex locked in the admission, where it does not.
An admission that moves the breaker to half-open is two steps around the callback.

*InMemoryCache.* Set is two steps (deadline, then write under the lock), Get three (read under the read
lock, test of the deadline, possible purge under the write lock), a sweep three (start with its `now`,
scan, purge). Deadlines are computed before the lock is taken, so time may pass in between. Time runs
from `StartTime` to `MaxTime`.

*AsyncMap.* The loop's `ctx.Err()` check, the `select`, `wg.Add` and the `go` statement are separate
steps; a worker begins (with its own context check), ends `fn`, releases its token and reports Done, in
the order of its deferred calls. Return is atomic: nothing it reads changes after `wg.Wait`, except that
the context may be cancelled, which the model allows before it.

*TaskGroup, Group, Fan.* `wg` is the counter, `errs` holds the tasks whose errors were appended.
`Group.Go` may be called from outside or by a running task; raising the counter from zero while somebody
waits is excluded, as sync.WaitGroup requires. Wait is three steps: call, release at zero, read of the
slice under the mutex. Fan checks the context and launches in two steps. `goexit` stands for
runtime.Goexit, for which recover() returns nil.

*GoErr.* A goroutine is `detached` (Go) or `promised` (GoErr); GoErr's goes on to `sending` unless `fn`
ended it with runtime.Goexit, and can send only while the channel has room. The caller is `busy` until it
asks, may leave at any time, and otherwise receives.

*Migrations.* `mig[p]` is the call of process p, split at each access to the database; `todo` are the
versions still to step through. A step marks the target version dirty, runs the body and marks it clean, so a
crash or a failure in between leaves a dirty version that later calls refuse. `Close` is the deferred
function: it chooses the error that is returned, ends the session and with it a lock that could not be
released, and closes the caller's pool. A crash loses the call and the lock, never the table.

*Telemetry.* Each return of InitSDK is an action; `global` are the process-wide providers. *JobQueue.*
HandleFunc holds the mutex over the check of the flag and the write of the mux, Start only while it sets the
flag.

*ConfigLoader.* A struct type is the sequence of its fields in the order in which `populate` meets them; a
struct or pointer field says how many of the fields that follow lie inside it. `cursor` is the field at which
`populate` stands, and takes the place of its call stack: descending is going on to the next field, and a field
that cannot be set is jumped over with all that is inside. Each branch of the loop's body is an action, and an
error of `setField` ends the walk where it is. A raw value is the sequence of its comma-separated parts;
strconv is a table over the tokens in use, with one that overflows 8 bits.

*Retry.* `at` is the place in the loop. `calculateDelay` returns the set of delays it may return.
int64 becomes a `WordBits`-bit integer, float64's mantissa `MantissaBits` bits, the cap of 62 on the
exponent `WordBits - 2`; conversions round to nearest even, and an out-of-range conversion yields what
amd64 or arm64 produce. The look at ctx.Err() (`Check`, line 222) and the call of `fn` (`Attempt`, line 226) are
two steps, and the context may end between them. RetryIf shows as the choice between `FnEnds("fnErr")` and
`FnFails`; with WithRetryIf(nil) a failure of `fn` can only end in the panic of the missing function.

*GracefulShutdown.* The serving goroutine may start late. `Signal` before `Notify` kills the process,
later it fills a channel of one. http.Server is external. A request comes in on a connection accepted for it
(`new` until its first bytes are read) or on one of the `idle` ones, kept alive after an earlier answer. The end
of Accept closes neither kind. http.Server.Shutdown closes the listener and the idle connections, waits for the
new and the active ones, and returns the context's error without closing them; a new one may then still be
served. The model takes net/http at its documentation: the instants in which a connection changes its state
while Shutdown looks at it are not told apart.

*HTTPRouter.* `ParseOptions` builds `cfg`, from which `Chain` follows in the order of the `r.Use` calls.
`frame` is the place of a request in it. The frames that only pass the request down (otel, RequestID,
RealIP, Recoverer, Logger) are jumped over; Recoverer counts when a panic unwinds past it. Each own
middleware is one action with its test of the context, `Mux` is chi's routing together with whatever the
application's handler may do. `beyond` remembers who got past the limiter, whatever becomes of the request. A custom limiter may allow, deny or panic. RateLimit is in tenths of a
request per second, so that `int(cfg.RateLimit)` truncates.

*HTTPService.* A request is active in the server exactly while it is in the chain: arriving, on a new connection
or on a kept-alive one, enters it, the answer finishes it, also the one that a panic causes. Nothing in the chain notices a shutdown.

*RPCChain.* One RPC goes down and up a stack of frames `Chain`. `mode = "panic"` is unwinding. Application
interceptors may do anything an interceptor can: answer, call on, replace the error, recover, panic. `refused`
remembers that the recovery found the context over and did not hand the call on.

## 3. Runs

| Run | Shows | Bounds |
|---|---|---|
| `breaker` | phase counters, probe accounting, refinement of `CircuitContract`; callers get an answer unless the callback re-entered the breaker or panicked during an admission; an open circuit is probed; a healed service closes it for good | 2 calls, failure threshold 2, timeout 2 ticks so that a late failure can postpone the probe; success threshold and probe limit are passed as 0, so New's defaults are at work. Two calls are a stale probe and a current one; the callback may return, panic or re-enter |
| `breaker_limit` (violation) | more probes than MaxHalfOpenRequests | `CircuitBreaker` without mutex and callback, 3 calls (a stale probe, a current one and one more), everything 1 |
| `cache` | refinement of `ExpiringMap`, picked items stay expired, hits are live, Close returns, expired items go | 1 key (keys do not interact outside the map), 2 clients, durations 0, 1, -1, three clock values: enough for set, expiry, replacement and purge |
| `cache_miss` (violation) | ErrCacheMiss for a key present all the time | 2 clients |
| `async_map` | throttle, barrier, truthful nil, own errors first, return | 3 items, concurrency 2: one item must wait |
| `task_groups` | barrier, exact reports, all items accounted, termination; no detached goroutine leaked and outcomes delivered | 3 tasks and 2 waiters for a Group, 3 items for a Fan, 2 goroutines for Go and GoErr; all four ways for `fn` to end |
| `shutdown` | what the call returns is true of the server, nothing accepted and nothing moved after the return that the result excludes, a signal ends the call; answers carry the security headers; the limiter keeps its budget | 2 requests of 3 kinds (metrics, plain, preflight), so that one may reuse the other's connection; timeout set, 1 refill; 4 routers: one token with CORS, a bucket of no token, a custom limiter with CORS for all, no limiter. Two requests compete for one token. About two and a half minutes |
| `shutdown_deadline` (violation) | requests run on after the deadline | 3 requests, without the router |
| `rpc_every_call` (violation) | a call refused by the recovery leaves no record | 2 application interceptors |
| `rpc_record` (violation) | a panic leaves no record of the call | as above |
| `parts` | migrations tell the truth, change the schema only under the lock and never once left dirty; no orphaned exporter; Load against a definition without the walk; handlers frozen; attempts exact, at most one begun late, backoff sound, prompt cancellation; panics become Internal, records and answers agree; all calls return | 2 processes, 2 versions, 0 or 2 steps (all of them, and more than there may be), crashes at every step; 2 InitSDK calls; 2 registrars on 2 patterns; 2 struct shapes, 3 variables over 7 raw values or unset, zero and filled structs; 6-bit words, 4-bit mantissa and loops of 8 attempts, so that the exponent passes its cap of 4; 2 application interceptors, one between another and the built-in ones |
| `config_default` (violation) | an empty variable overrides the default | the shapes and values of `parts` |

### What the violations show

* `breaker_limit`: `transitionTo` zeroes `halfOpenRequests` while probes run; their later decrement lowers
  the counter of another period. `ProbeAccounting` says exactly by how much the limit can be exceeded.
* `cache_miss`: the deadline is tested on a copy after the lock was released.
* `shutdown_deadline`: `srv.Close` is never called, against the comment above `srv.Shutdown`.
* `rpc_record`: logging sits inside recovery and defers nothing, so a panic passes it without a record.
* `rpc_every_call`: the recovery interceptor answers a call whose context is already over by itself, so that the
  logging interceptor inside it never sees the call, against the "every call" of NewServer's comment.
* `config_default`: `populate` asks only whether the variable exists; config.go:34 says "absent or empty". The
  comment at lines 103-104 wants what the code does, so it is the comment of Load that is wrong.

More observations that no run reports. `async.Map` returns a nil error with an unmapped item if
`fn` calls runtime.Goexit (set `Outcomes` to include `"goexit"` in `async_map.cfg` to see it);
GracefulShutdown returns nil at once, requests running, if somebody else calls `srv.Shutdown` (the
exception in `NilMeansDrained`); a context error that a handler returns as it is is recorded as Unknown
and sent as Canceled or DeadlineExceeded, though interceptors.go:122-124 speaks of the final status code (outside
the scope of `RecordAgrees`, by `RawContextErr`); a failure of the server that meets a signal may be lost in the
select (the `~signalled` in `CrashReported`); after a failure of Accept kept-alive connections go on being served;
RateLimitMiddleware exempts the literal `/metrics`, so a path set with WithMetricsPath is throttled, although
the comment there says it bypasses rate limiting; and a rate below one request per second without a burst
makes a bucket that never holds a token. And from the parts around start-up:

* OnStateChange runs synchronously under the mutex (line 359; a comment at line 121 speaks of alerts
  "asynchronously"), so a callback that uses the breaker blocks for ever, and one that panics
  during an admission leaves the mutex locked. The escape `Wedged` in the liveness properties names exactly
  these two cases. With `CallbackEnds = {"return"}` nothing wedges.
* `m.Close()` closes the pool the migration driver was made from, so the caller's `*sqlx.DB` is unusable after
  any of the three calls (the last conjunct of `OutcomeTrue`).
* GetMigrationVersion is said to take "an atomic lock"; it takes none, and reports a healthy migration under
  way as dirty.
* After a failure of the metric exporter the global tracer provider is one that was shut down (the last
  conjunct of `NoOrphanExporter`).
* A signal between the start of the listener and signal.Notify kills the process with requests in flight; the
  model has this end.
* Group.Wait returns its own slice, which further tasks may append to; Err(nil) of `result` is not ok and
  unwraps to a nil error.
* QueueServer.Stop before Start does nothing, and the server then runs on.
* GoErr's receiver waits for ever if `fn` calls runtime.Goexit (the exception in `OutcomeDelivered`).

### Fairness

* Breaker: time passes, the mutex does not starve a waiter, `fn` returns, the callback does one of the things
  it may do, and live calls keep arriving
  (strong fairness on some call entering). Without traffic an open breaker stays open: it has no timer.
  Recovery also assumes that the healed service completes some calls instead of all being cancelled.
* Cache: goroutines are scheduled, the clock moves to its bound, and the sweeper's select is strongly
  fair towards the stop channel, as Go's select chooses uniformly among ready cases.
* Map, Group, Fan, Go, GoErr: every `fn` ends and goroutines are scheduled. Nothing forces a cancellation,
  and nobody is forced to receive.
* Migrations: the database answers each request, with a result or an error. Crashes are not forced, nor
  restarts. Job queue: goroutines run and the mutex does not starve a waiter.
* Retry: `fn` returns and the loop runs on; the timer need not fire, so that `CancelReturns` cannot lean on it.
* GracefulShutdown: the caller runs and timers fire; requests need not finish.

The runs of `GracefulShutdown` switch deadlock checking off: the process may be killed, and after the
return nothing need happen.

## 4. Proofs

All theorems hold for every value of the constants that satisfies the named assumptions of the modules.

| Module | Theorem | Property |
|---|---|---|
| `CircuitBreakerProofs` | `TypeCorrect`, `CountersStayInRange`, `ProbesAccounted`, `ImplementsContract` | types; `CountersInRange`; `ProbeAccounting`; refinement of `CircuitContract` |
| | `LockedCounters`, `LockedImplementsContract` | the counters and the refinement again, for `LockedBreaker` |
| | `NoSlotLeaks`, `HealedNeverWorse` | what refuses a call is a running probe or a callback; a healed circuit only moves towards closed: the safety halves of `CallersGetAnswer` and `Recovers` |
| `InMemoryCacheProofs` | `TypeCorrect`, `PickedExpired`, `HitsWereLive`, `ImplementsMap` | types; `PickedAreExpired`; `HitWasLive`; refinement of `ExpiringMap` |
| | `MissesExplained`, `ClosesHeard` | a false miss means that the key was overwritten meanwhile; the safety half of `CloseReturns` |
| `AsyncMapProofs` | `TypeCorrect`, `ConcurrencyBounded`, `NoGoroutineOutlivesMap`, `NilIsMapped`, `FailuresReported` | types and the four safety properties of `async_map` |
| | `MapNeverStuck`, `MapAdvances` | somebody can run until Map returns; it takes at most 9N + 6 steps |
| `TaskProofs` | `GroupBarrier`, `GroupReport`, `FanAccounts`, `PromisesKept` | `Barrier`, `ReportExact`, `EveryItemAccounted`; `PromiseKept`, the safety half of `OutcomeDelivered` |
| | `GroupWaitEnds`, `FanEnds` | the safety halves of `WaitReturns` and `FanReturns`, the parts of `EverybodyReturns` |
| `RetryProofs` | `AttemptsAreExact`, `OneLateCall`, `BackoffIsSound` | `AttemptsExact`, `AtMostOneLateCall`, `BackoffSound` |
| | `LoopAdvances` | the loop takes at most 4 MaxAttempts + 1 steps, and at most four after a cancellation |
| `HTTPServiceProofs` | `ReturnsTruthful`, `NothingTaken` | `ReturnTruthful`, `NothingTakenAfterReturn`, of `GracefulShutdown` alone |
| | `SignalNotLost` | a delivered signal is in the channel or was acted on, and the caller never goes back: the safety half of `SignalEndsCall` |
| | `ServiceShutdown`, `ServiceDrainsChain`, `ServiceGuarded`, `ServiceWithinBudget` | the same two and the kept signal with the router inside; `ChainDrained`; `AnswersGuarded`; `WithinBudget` |
| `KitProofs` | `OutcomesTrue`, `SchemaGuarded` | `OutcomeTrue`; `SchemaUnderLock` |
| | `LoadCorrect` | `LoadIsReference`, for every struct type and environment |
| | `ExportersStoppable` | `NoOrphanExporter` |
| | `MuxFrozen`, `QueueLockReleased` | `HandlersFrozen`; `QueueLockFree`, the safety half of the queue's part of `StartupCallsReturn` |
| | `PanicsBecomeInternal`, `RecordsAgree` | `PanicBecomesInternal`, `RecordAgrees`, for any number of interceptors |
| `Result` | `Associativity`, `MapFusion`, `ErrorIffNotOk`, `RoundTrip` | laws of the combinators for any types and errors |

A property seldom is inductive by itself. For each specification there is an invariant that is; TLC confirms
it on the bounds of section 3, too. The arguments:

* *Breaker.* `CountersInRange` and `ProbeAccounting` are inductive together with the types: the deferred
  completion changes phase and counters in one step, and every change of phase turns all probes stale. The
  refinement needs `RestNeverShortened`: in the open phase the age of the last failure is at most the time
  since the trip, because late failures only reset the former.
* *Breaker with its mutex* (`LIInv`). Every section is a step of `CircuitBreaker` (`SectionIsStep`) but one:
  an admission whose callback panics has moved the phase and admitted nobody. That step (`Abandon`) is no
  step of `CircuitBreaker`; it preserves its invariant and is a stutter of the contract. So the counters and
  the refinement carry over. `MutexInv` says which sections can leave the mutex without an owner.
* *Cache.* What was picked outside the write lock is a pair of key and deadline that lies before the
  picker's `now`; since purges compare both and time only grows, a replaced item is never hit. The invariant
  relates each client's local copy to the values that were live since its Get began.
* *Map.* The counter of the WaitGroup is the number of goroutines between launch and Done, the semaphore the
  number holding a token. `NilIsMapped` assumes that `"goexit"` is not among the outcomes.
* *Group and Fan* (`TaskInv`, then `GroupInv` and `FanInv`). The counter is the number of goroutines alive,
  and the slice names each failed task that has recorded its error exactly once, and what Fan itself
  appended. A waiter that was let go has seen the counter at zero. Nobody raises it while another waits, so
  everything launched before has recorded, and what the waiter reads under the mutex is complete.
* *GoErr* (`DetachedInv`). The channel is empty until its one sender has sent, so the sender never blocks,
  and what is in it or was received is the outcome.
* *Retry.* The number of calls is the loop counter, plus one inside the body; nothing about `calculateDelay`
  is used for that. A call that began late leaves the context done, and `Check` lets nobody through then. For the
  delays (`DelayInv`) the last one is the `Backoff` of an attempt already made, and for ordinary durations
  `Backoff` grows with the attempt: rounding keeps a positive duration non-negative, 2^n grows with n,
  and below the rounded MaxDelay no conversion leaves the range. The facts about 2^n come from the number of
  subsets of 1 .. n, which takes the place of an induction. The upper bound needs none of this: the last
  comparison with MaxDelay covers whatever an overflow yields.
* *GracefulShutdown* (`ShutdownInv`). Where the call stands is tied to the listener, the server's result, the
  signal and `inShutdown`: the server's end is http.ErrServerClosed only after somebody's Shutdown; this call's
  own Shutdown follows a signal, and returns nil only when nothing is new or active, with no connection idle;
  and without a signal the return follows the server's end, so that it cannot fail later. After the return the
  listener is closed or will never open, whichever way the call returned. The exceptions are those of the
  properties.
* *Router* (`RouterInv`, `SInv`). The middlewares in front of the security headers only pass on
  (`ChainFacts`: the place of every frame in `Chain`, for any options), so whoever answers has them set. The
  requests that passed the limiter and the tokens left together never exceed burst and refills; a request
  passes by taking a token, and past the limiter is in `beyond` already, so that it is counted once. `InChain` says that the server's active requests are those in a frame, which
  carries the promises of GracefulShutdown over to the handlers.
* *Migrations* (`MigInv`). Whoever is between Lock and Unlock holds the advisory lock, so nobody else
  touches the table (`MigMoveInv`). What is left of a plan leads from the table's version to the goal one by
  one (`Follows`, `FollowsOn`, `PlanFacts`), and the table is clean between two migrations. Crashes only
  drop calls and the lock.
* *Telemetry* (`TelInv`). At most one InitSDK is between its two providers, and it owns the global tracer.
* *Job queue* (`QueueInv`). The lock is held exactly by the HandleFunc between its check and its end, so
  that when Start has it nobody is about to register.
* *Configuration* (`WalkInv`). Before the cursor no field is wrong and each is as the definition without the
  walk has it; from the cursor on nothing is touched; and the cursor is never inside a field that cannot be set,
  which is what makes "settable where the walk stands" and "settable with all that is around it" the same. The
  nesting of the shapes (`ShapesAssumption`: what is inside a field ends before the field does) is all that is
  assumed of a struct type.
* *RPC* (`RPCInv`). For each frame, what is in the log and whether a panic has escaped: below the logging
  frame nothing is written, and at the server one of three cases is left.

Liveness itself is out of reach, but what it rests on is not. For Map, Fan, Group, Retry and GracefulShutdown the
theorems say that somebody can always run, that every step raises some rank, and where the rank is bounded; only
the last inference, from fairness to the end, is left to TLC. "Can run" is spelled out as the guards of the
actions, since ENABLED cannot be expanded by the prover; that the two agree for Map, Group and Fan was checked
with TLC on the bounds of section 3, outside the runs listed there. For the breaker the ingredients are that no slot leaks and that after healing the
phase, the successes and the age of the last failure never fall back.

`MissesExplained` and `ProbesAccounted` give the exact scope of two violations: how a false cache miss can
come about, and by how much the probe limit can be exceeded.

The assumptions: sets of calls, tasks and requests are finite (a process has finitely many at a time); there is
some kind of request; the options set numbers (`OptionsAssumption`); a bound, a threshold or a width is a number
of its range; the values that stand for nobody holding a lock (`"nobody"`, `"free"`) are not the names of
processes or goroutines.

Only model-checked: liveness under fairness (`CallersGetAnswer`, `Recovers`, `OpenEventuallyProbed`,
`CloseReturns`, `ExpiredEvicted`, `MapReturns`, `CancelReturns`, `EverybodyReturns`, `OutcomeDelivered`,
`SignalEndsCall`, `StartupCallsReturn`). Every invariant and action property of a passing run is a theorem, and
so are the two refinements. The type invariants are proved and not checked by a run.

## 5. Abstractions and limits

* `MaxDelay` values so large that float64 rounds them up past the largest duration, and non-positive durations,
  are outside of what `BackoffSound` says about sign and growth (`Ordinary`), not of its upper bound. They are
  modelled and in the run; what the conversions make of them depends on the platform.
* onPanic of `async.Go` is taken to return: a panic in it is recovered by nobody and ends the process.
* golang-migrate is modelled by what its documentation and its use here say: one lock per session, a dirty flag
  around each migration, ErrNoChange, ErrShortLimit. The body of a migration has no effect but its version.
* Of `setField`, the unsigned and floating kinds take the same path as the signed ones and are left out. Types
  that contain themselves have no finite shape; `populate` does not end on them.
* The cache's items set after Close are expired lazily only; the model has this, no property needs it.
* The router's network timeouts go to net/http unchanged and are left out; the methods and headers that CORS
  lists are not told apart.
* http.Server's connections change state at once with respect to Shutdown, as its documentation has it.
* A Connect that fails leaves no pool, and MustConnect panics then; the model begins with a pool.
* Values, keys, errors and requests are opaque. Logging is left out, except in `RPCChain`.

### Not modelled

* gRPC client: it folds options into a list and calls grpc.NewClient. No state, and dialling (with the
  timeout that NewClient's comment promises to enforce) happens later, inside gRPC.
* Redis cache: one go-redis call per method. Expiry is the server's. A negative duration, which the
  in-memory cache takes as expired at once, is go-redis' to interpret.
* Job queue client and the processing of tasks: nil tests in front of asynq calls; retries and Redis are
  asynq's.
* guard, logkit, jsonutil: pure functions of one argument, best tested.
* simulation: a package of tests only.

## 6. Plan

Every invariant and action property is proved. What could come next, each as a module of its own: the scraper of a
custom metrics path; retry around a breaker (does a retry loop exhaust itself against an open circuit?).
