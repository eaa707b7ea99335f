# swre in TLA+

Specifications, model-checking runs and proofs for `swre`, a stale-while-revalidate
cache engine in Go. `src/...` below names files of the repository.

## The system

| component | source | state | operations |
|---|---|---|---|
| StaleEngine | `swr.go` | singleflight group, `currentRefreshes`, `shutdownCtx`, tracker, storage handle | `Execute`, `syncRefresh`, `tryAsyncRefresh`, `safeCall`, `Shutdown`, `GetCacheEntry` |
| RefreshTracker | `refresh_tracker.go` | 16 shards, each a map key -> expiry under an RWMutex; cleanup goroutine | `Get`, `TrySet`, `Delete`, `Size`, `Stop`, cleanup of a shard per tick |
| CircuitBreakerEngine | `circuit_breaker.go` | atomics: state, failures, successes, lastFailureTime, halfOpenRequests; per-key breakers in a map and an LRU | `Execute`, `canExecute`, `canExecuteKey`, `recordFailure`, `recordSuccess`, `Reset` |
| CacheEntry, TTLs, clock | `cache.go`, `swr.go:275-314`, `types.go` | the cached millisecond clock | `NewCacheEntryWithTTL`, `IsStaleAt`, `IsExpiredAt`, `NowUnixMilli`, `ToEngineTTLs`, `SetDefaults` |
| badgerStorage | `badger_storage.go` | Badger handle, `closed`, `doneCh`, GC goroutine, buffer pools | open, `Get`, `Set`, `Delete`, `Close`, value-log GC loop |
| singleflight group | external, `golang.org/x/sync` | the call in flight per key | `Do`, `DoChan` |
| TTL calculators | `serializers.go`, `types.go` | none | pure |
| serializers | `serializers.go` | none | pure |
| loggers, metrics | `logger*.go`, `types.go` | none the cache reads | output only |

How they interact. Every caller of `Execute` reads the storage once and branches. A miss goes
to `syncRefresh`, which joins or starts the singleflight call of the key and waits for it or for
its own context. A stale (or expired) entry goes to `tryAsyncRefresh`, which asks the tracker for
the key's marker, takes a slot of `currentRefreshes` and launches a goroutine that joins or starts
the same singleflight call; the caller returns the entry it read. The singleflight call runs
`safeCall`: the upstream callback in a goroutine of its own, under `refreshTimeout` and
`shutdownCtx`, then serialization and `storage.Set`. Engine and storage both tell the time with
`NowUnixMilli`. The circuit breaker wraps `Execute`.

What is hard here: callers, refresh goroutines, flights, orphaned callbacks and Shutdown
interleave between any two atomics; callbacks have no context and outlive the flight that gave
them up; writes fail while the flight succeeds; a decision (miss, not shutting down, marker free,
breaker open) is taken in one step and acted on in a later one; leases, entries and the cached clock
are judged by times read earlier; Close and Stop wait for goroutines that may be anywhere.
`PROJECT.json` lists each hazard at its line, with the properties that watch it.

What would make each component correct:

* StaleEngine: an abandoned answer is never stored or served; the store and the readers never go
  back to an older answer; one refresh per key and at most `maxConcurrentRefreshes` in all; no slot,
  marker, flight or waiter is ever left behind.
* RefreshTracker: a marker is a lease; at most one holder until it expires; cleanup removes only
  expired leases, and all of them; Stop means stopped.
* CircuitBreakerEngine: a bounded number of requests in the half-open phase; no state, count or
  breaker of a key that keeps requests out for good.
* TTLs and clock: fresh <= total whatever the configuration; the phases last what it says, up to the
  interval of the cached clock.
* badgerStorage: nothing uses the handle after it is closed; a handle opened too late is closed;
  Close ends.

## Modules

Operators commented "Variant" are faulty forms of the definition after them; the checks replace
the one by the other to see that the property of a run can fail.

### StaleEngine

One action per step between two accesses to shared state. A value is the number of the upstream
call that produced it (`StartCallback` numbers them), so older means smaller; 0 is no value, and
version 1 is what an earlier process left in the store, so `Init` covers restarts. The
correspondence:

| TLA+ | code |
|---|---|
| `pc`, `key`, `seen`, `reply` | a goroutine inside `Execute`, the entry or result it holds, what it returned |
| `stored`, `fresh` | the storage: the entry's version, and whether `StaleAfter` is ahead |
| `stage`, `call`, `ok`, `dead` | the singleflight call of a key and the `safeCall` it runs: `spawn` (registered), `call` (select on callback and deadline), `ready` (answer in the buffered channel), `store` (at `storage.Set`), `end` (returned, not yet delivered) |
| `started`, `running` | callbacks launched, and those that have not returned, orphans included |
| `rpc`, `rkey` | background refresh goroutines |
| `marker`, `count`, `shut` | `refreshTracker`, `currentRefreshes`, `Shutdown` |
| `floor`, `served`, `discarded` | history for the properties; no action reads them |

`Execute` is one action because only its `storage.Get` touches shared state; `tryAsyncRefresh` is
`SkipRefresh`, `CheckShutdown`, `ProbeMarker`, `TrySet`, `LaunchRefresh` or `OverLimit`,
`UndoCount`, `UndoMark`, in the order of the code. `FlightEnd` delivers to all waiters at once, as
singleflight does under its mutex. `Store` may come after the deadline or Shutdown, since Set looks
at its context once and then commits. The environment ages entries (`Age`), drops them (`Evict`: TTL
or Delete), ends contexts (`Deadline`, `CallerCancel`) and returns callbacks at any time or never.

Abstractions: "stale" and "expired" take the same path and are one status; the serializers, the
transformer and the TTL calculator only can fail; the adaptive write timeout is a failing
`StoreFails`; parseCacheKey's argument checks are left out.

### MonotoneCache

What the engine promises its callers, with no flights, markers or goroutines: a published value
only gives way to a newer one or is dropped, an answer is never older than one given before the
question, and a withdrawn fetch is never published or answered with. `Cache` in StaleEngine is the
refinement mapping: `stored`, `started`, `discarded`, `key` and the versions of `reply` are the
abstract state.

### RefreshTracker, RefreshLease

`RefreshTracker` has one action per critical section of a shard's lock; each reads the clock once,
after locking, as the code does. An expiry is kept as what is left of it (`left`), down to -1 for any
earlier time, and `Tick` counts it down: at 0 `TrySet` takes the marker for expired
(`!now.Before(expire)`) and the cleanup does not (`!now.After(expire)`), a difference the model keeps.
Workers use the tracker as `tryAsyncRefresh` and its goroutine do: `Get`, `TrySet`, `Delete`, the
last at any time, also after their lease has ended.

| TLA+ | code |
|---|---|
| `tracked`, `left` | the maps of the shards: keys, and expiry less the time now |
| `cleaner`, `shardIndex` | the cleanup goroutine: at its select, at a shard, gone; the next shard |
| `stop`, `spc` | `cleanupCtx` and `stopOnce`; the goroutines in `Stop` |
| `sizeAt`, `total` | a `Size` under way |
| `wpc`, `wkey` | where a worker is, and its key |
| `mine`, `robbed`, `ever`, `always` | history for the properties |

`RefreshLease` is a lease service without shards, map, cleanup or Stop. The mapping takes an expired
marker for no lease, so the cleanup must be invisible: every step of it is a stuttering step.

### BadgerStorage

`NewBadgerStorage` with its opening goroutine and the reaper of a late handle, the operations against
the `closed` flag, `Close` through its `sync.Once`, and `runValueLogGC` with the counters that pace
it. Two openings of one directory race; Badger's directory lock allows one open handle. The model
follows the first store; a later one only counts as a handle. A Get, Set or Delete is two steps, the
flag and the transaction, with Close free to come between: Badger then refuses the transaction (the
model takes this from the library, no property watches it); what `CloseMeansClosed` speaks of is
operations that begin after a Close has returned.

| TLA+ | code |
|---|---|
| `npc`, `ctxDone`, `opening`, `resCh`, `reaper` | the caller of `NewBadgerStorage`, its context, the opening goroutine, the buffered result, the goroutine that closes a late handle |
| `handle`, `store` | the `*badger.DB` of each opening; the one in the store the model follows |
| `closed`, `done`, `once`, `cpc` | `closed`, `doneCh`, `closeOnce`, callers of `Close` |
| `gc`, `rewrites`, `successes`, `failures` | the loop and its counters, saturated one above the limits they are compared with |
| `upc`, `late` | an operation under way; history: it began after a Close had returned |

### CacheTTL, CacheLifetime

`CacheTTL` has the arithmetic and no state: `ToEngineTTLs`, the calculators that `SetDefaults`
installs (`ConfigTTLs`, `LegacyTTLs`), `NewCacheEntryWithTTL` (`EntryTTLs`), the choice `safeCall`
makes between override and calculator, and its write timeout. Durations are signed integers of
`Width` values, and `Seconds` wraps around as `time.Duration(n) * time.Second` does.

`CacheLifetime` takes one entry through its life. `NowUnixMilli` is `Load`, then `UseCached` or
`ReadWall` and `UpdateCached`, so that goroutines race between the load of the cached time, the wall
clock and the compare-and-swap. A writer stamps the entry with one reading and computes the storage
TTL from another; Badger adds that to the wall clock and keeps whole seconds. A reader judges the
entry by a reading taken after its `storage.Get`. `life`, `begun`, `ended` and `written` in an entry,
`peak` and `low` are there for the properties.

### CircuitBreaker

The global breaker: one action per access to an atomic, between `canExecute` and the deferred
`halfOpenRequests.Add(-1)`.

| TLA+ | code |
|---|---|
| `phase`, `failures`, `successes`, `lastAge`, `halfOpen` | the atomics `state`, `failures`, `successes`, `lastFailureTime`, `halfOpenRequests` |
| `pc` | where a goroutine is in `Execute`: `last`, `since`, `clear` in `canExecute`; `key`, `track`, `add`, `undo`, `run` in `Execute`; `failed` to `zero` in `recordFailure`; `succeeded` to `cleared` in `recordSuccess`; `leave` at the return |
| `got`, `age` | what the goroutine read (`failures.Add(1)`, a time) and has not yet used |
| `slot` | its deferred decrement is pending |
| `resetter`, `resets` | the goroutine in `Reset` |

Times are ages. Code asks of a time only `time.Since(t) > timeout`, so an age counts up to
`Timeout + 1`, which stands for anything older (and for the zero time of a breaker that never
failed). `Tick` ages every time at once, those in the hands of goroutines included, at any moment.
`time.Now()` in `recordFailure` is read somewhere between `failures.Add` and the `Store`, so the
age that is stored is any up to the time passed since the former.

What the engine answers is free (`EngineFails`, `EngineSucceeds`); "the upstream answers from now on" is
a premise of the properties about it, that one of the two steps is no longer taken.

A *place* is an Add of `halfOpenRequests` whose deferred decrement is pending (`slot`).
`PlacesBounded` bounds the places, and is all that the counter bounds: a request that `canExecute` lets
pass in half-open and that finds another state when `Execute` reads it again, at line 131, runs
without one. `HalfOpenRequests` adds a history variable, `trial`, of the requests that were let pass in
half-open, to state the limit that `MaxHalfOpenReqs` is documented as; the code does not keep it.

The breakers of keys share no variable with the global one and are a module of their own; here
they may refuse any request (`KeyRefuses`).

### KeyBreakers

`canExecuteKey`, `recordKeyFailure`, `resetKeyBreaker` and the locked part of `Reset`. A breaker is
an object, a member of `Breakers`: goroutines keep pointers (`ref`) to objects that the map
(`keyBreakers`) or the LRU cache (`cached`, with `lru` its keys by use) have already dropped.
`Breakers` is large enough that a new one is always free when each request holds at most one; an
object nobody points to is forgotten by `Tick` and reused. The LRU cache is used only under
`keyBreakerMutex`, so its operations are part of the step that is visible outside: the lookup goes
with the lock, `Add` with the eviction callback's delete from the map. The global breaker may
refuse a request that the key breaker has let pass (`HalfOpenFull`).

### Proofs and instances

`StaleEngineProofs`, `StaleEngineRefinement`, `RefreshTrackerProofs`, `BadgerStorageProofs`,
`CacheTTLProofs`, `CacheLifetimeProofs`, `CircuitBreakerProofs` and `KeyBreakersProofs` hold the
theorems, see below. `MCStaleEngine` and `MCCircuitBreaker` (for `breaker_reset`) have the symmetry sets for TLC,
`MCRefreshTracker` and `MCCacheLifetime` the values of constants a configuration cannot write.

## Runs

| run | instance | shows |
|---|---|---|
| `engine_safety` | 1 key, 2 callers, 3 Executes, Set may fail | type invariant; overlap of calls only after abandonment; no abandoned value stored or served; no reply older than what was served before; store monotone; the engine implements MonotoneCache |
| `engine_limit` | 2 keys, 2 callers, 2 Executes, limit 1, 2 goroutine slots | counter exact, limit kept, marker up exactly while held |
| `engine_faults` | 1 key, 2 callers, 2 Executes, markers expire, Set and the re-read may fail | under fairness: every Execute returns; the engine comes to rest |
| `engine_overlap` | as `engine_safety` | violation: "Single upstream call per key at any time" |
| `engine_shutdown` | as `engine_safety` | violation: "all background refreshes completed" |
| `tracker` | 2 keys in 2 shards, 2 workers, 2 Stops, TTL 2 | one worker in the lease of a key; Size, Stop and typing; RefreshLease implemented; under fairness expired markers go and Stop ends |
| `storage` | 2 openings, 1 user, 2 Closes, GC limits 2, 1, 1 | no open handle lost, GC on an open handle only, Close means closed, GC paced; under fairness Close and a cancelled opening return and a late handle is closed |
| `lifetime` | 1 writer, 1 reader, 1 other goroutine, 4 ways to configure the TTL, 6 units of time, clock set back once | lifetimes in order; the clock bounded; hit, stale and expired told in time to an interval; storage TTL right to an interval and a second |
| `breaker` | 2 requests, thresholds 2, half-open limit 1, timeout 1, 1 Reset | counts in range; until Reset is called, the half-open counter exact and no more places taken than the limit; under fairness: upstream up, the breaker ends up closed; upstream down, it opens again and again |
| `breaker_reset` | as `breaker` | violation: "Max concurrent requests in half-open state", of the requests with a place, after a Reset |
| `breaker_halfopen` | as `breaker`, no Reset | violation: "Max concurrent requests in half-open state", of the requests let pass in half-open |
| `keybreakers` | 2 keys, 1 key breaker at a time, 2 requests, 3 objects, threshold 1, 1 Reset | map and cache agree, stay bounded, failures land where they are read; under fairness no key stays refused |

### Bounds

`MaxExecutes` bounds the calls of `Execute`, and with it flights and versions. Three let an
abandoned callback, the flight that replaces it and a third reader meet on one key, with version 1
possibly in the store at the start. The limit needs two keys, since a key has one marker: two
stale keys at start, one Execute each and a limit of 1 make one caller launch and the other be
refused, in every order of their steps. There is one goroutine slot more than the limit, so that
the pool is never what keeps the bound. `engine_faults` has one key because expiring markers alone
bring a second refresh against the limit.

`NoTimeTravel` and `ImplementsCache` are checked with `RereadMayFail = FALSE`: when the write of a
newer value and the read that follows it both fail, the value is served once and the older entry is
served after it.

The tracker needs two shards for the cleanup and Size to be between them, two workers on one key for
a lease to be lost, and two callers of Stop for the Once; a TTL of 2 has a moment before, at and after
the expiry. `TrackerTTL = 0` makes the run take the default, twice the refresh timeout with a minimum.
Workers come back for ever; nothing else needs a bound.

The storage has two openings so that one can hold the directory while the other is abandoned, and GC
limits small enough for each counter to pass its limit. Counters saturate one above the limit they
are compared with, which no comparison sees.

In `lifetime` a second is two units, the interval one, and a duration has 64 values, so that 20
seconds wrap around; the minimum TTL is three units, so that within the six there is time for an entry
to be judged later than its total lifetime and the interval; the overrides are none, one that is never fresh and one
that overflows, the calculators one with a negative fresh field and one with an offset larger than
its total. Two bounds make it finish: one entry is followed at a time, and the clock is set back only
while there is none (`SetBackAlone`). The theorems have neither the second bound nor a limit on time.

The breakers need no bound on requests: goroutines call `Execute` for ever and the state space is
finite because counts are cleared and ages saturate. Two requests and a half-open limit of 1 let one
hold the place while the other is over the limit; thresholds of 2 make the second of two counts
decide, with the first left over from an earlier phase or not. In `keybreakers` a cache of one makes
every failure of the other key an eviction, and a threshold of 1 with a timeout of 0 makes every
failure a refusal until the next tick. The order of use, which only a larger cache has, is in the
theorems: they hold for every bound.

### Fairness

In `engine_faults`, goroutines that can run do run, timers fire, Shutdown's loop ticks.
No fairness is assumed of callbacks, of callers cancelling, of Execute being called, or of entries
ageing.

In `tracker` and `storage` the goroutines run, the tickers and timers fire and Badger's GC returns.
Strong fairness of `CleanerStops` and `GCStops` is Go's select, which picks at random among the cases
that are ready, and so does not prefer the ticker for ever to a closed channel. badger.Open is not
fair, nor is any worker, user or Close under an obligation to come.

In `breaker`, requests keep coming, goroutines go on and time passes, and strong fairness of
`KeyAllows` says that a key breaker does not refuse for ever: it lets requests through once timeout
has passed since its key's last failure, which `keybreakers` shows (`KeysRecover`). `Recovers` and
`Trips` also assume that now and then no request is under way (`Lulls`). Without that, TLC finds a
livelock the code has: requests over the half-open limit raise the counter before they undo it, and
two that always overlap keep each other out for ever. In `keybreakers` goroutines go on and time
passes; the mutex need not be fair.

## Known differences between code and documentation

Four are runs that end in a violation (above, and `findings` in `PROJECT.json`):

* `swr.go:347` promises a single upstream call per key; an abandoned callback runs on beside the next
  (`engine_overlap`).
* `swr.go:811` logs that all background refreshes are completed, and one may still be launched
  (`engine_shutdown`).
* `circuit_breaker.go:63`, the limit of half-open, is lost when Reset clears the counter under requests
  that are counted in it (`breaker_reset`).
* The same limit, and `docs/architecture.md:279` ("Open: Fast fail all requests"), are lost without any
  Reset (`breaker_halfopen`): the state is read twice, at lines 175 and 131. A request that was let pass
  in half-open reads Open the second time, because an earlier request has failed in between; it runs
  the engine all the same, with no place. When timeout has passed another request half-opens the
  breaker and takes the only place, and both run in half-open.

Others met while modelling, which no run reports:

* `swr.go:14` says that singleflight eliminates duplicate work. A caller that reads a miss just before
  a flight stores its value starts a second flight just after it (`swr.go:465`).
* `syncRefresh` re-reads the storage after its flight and returns what is there (`swr.go:481-486`):
  when Set has failed, an older entry instead of the value just fetched.
* `docs/architecture.md:273-276` draws the transitions of the breaker. A goroutine that is slow between
  its reading and its store makes others: Open to Closed by `recordSuccess`, Closed to HalfOpen by
  `canExecute`. `recordSuccess` also closes before it clears `failures`, so that one failure can open
  the breaker at once, and a reader between `failures.Add` and `lastFailureTime.Store` clears the
  failure just counted for a key. `Recovers`, `Trips` and `KeysRecover` say that none of this lasts.
* `swr.go:275-279` has a stale phase of StaleSeconds and an expired one after it. The engine has one
  phase for both: ExpiresAfter is the sum of all three, and the storage TTL is the same time, so an
  entry is dropped about when it would first count as expired. The fallback after expiry of
  `cache.go:76` exists only within the second that Badger rounds off and the lag of the clock.
* `cache.go:104` promises 10 ms. After the clock was set back the cached time is ahead of it by as much
  (`ClockBounded` bounds it by the highest time there has been).
* `serializers.go` says of DynamicTTLCalculator that an error falls back to default TTLs; safeCall fails
  the refresh (`swr.go:621-625`).
* `RefreshTracker.Size` calls its result a snapshot; it may be a number of markers that no moment had
  (`SizeWithinCall` is what holds).

## Proofs

All theorems hold for all values of the constants under the assumptions their module names.

`StaleEngineProofs` (finite sets of callers and refresh slots, a positive limit, more slots than the
limit):

* `Typing`: `TypeOK`.
* `CounterExact`, `RefreshesBounded`: `LimitInv`, the conjunction, is inductive given the types.
  `CounterSteps` reduces each step to "nothing", or one member joining or leaving the refreshes or
  the undoing callers with the counter moving along; the cardinality theorems do the rest. The
  bound alone is not inductive: launching looks at the counter, not at the refreshes.
* `StoreMonotone`: from `StoreBehindFlight`, a flight that may still store carries a call newer than
  the stored one.
* `OverlapAfterAbandon`: from `RunningOwned`, a running call is the one its key's flight waits for or
  it has been discarded, and the flight waits for the newest.
* `LaunchNeverBlocked`: from `LimitInv`, by counting. It is about the model: `Refreshers`, one larger
  than the limit, never keeps a caller from a launch that `go` would make.
* `MarkerExclusive`, `NoMarkerForgotten`: `HoldSteps` sorts the steps by what they do to one key's marker
  and its holders (nothing, an expiry, a TrySet, a caller passing it to its goroutine, a Delete). With
  it `MarkerOwned` is inductive when markers do not expire, and `MarkerHeld`, that a marker which is up
  has a holder that will delete it, in any case.
* `WaitersAttended`: `Attended` is inductive: registering with a flight and its end are one step each.
* `NothingLeftBehind`: from `CounterMatchesHolders` and `MarkerHeld`, with everybody gone.
* `KeysNeverMix`: `KeysApart` needs `NumbersTaken`, that every number in use has been given out, so that a
  new call's number is nobody's value. `ValueSteps` shows that no step brings a value of a key into
  use that was not in use for it, save the launch of a callback, for the key of its flight.
* `DrainsOnly`: `CommittedSteps`: once Shutdown has begun, a refresh is launched only by a caller who had
  looked before, and each such launch uses that caller up.
* `ServedInOrder` (assuming `~RereadMayFail`): `NoTimeTravel`, from `InTime`. "Served", "stored" and
  "in a caller's hands" are all behind the key's flight (`Behind`, which `BehindStable` shows no step
  breaks), and what is stored is never behind what was served. The second part is what a failing
  re-read loses: it serves a value that storage.Set never wrote.
* `DiscardedUnused`: `NoDiscardedResult`, from `Separate`: a call is unpublished until its flight can
  no longer give it up, and no two flights have the same call, so nothing is both published and
  discarded. Without the second half one flight's failure could discard what another delivers.

`StaleEngineRefinement`:

* `EngineIsCache` (assuming `~RereadMayFail`): `ImplementsCache`. Each group of steps maps to one action
  of MonotoneCache or to a stutter; the invariants above supply its guards: `StoreBehindFlight` that
  what is published is newer, `InTime` that an answer is not below the floor, `Separate` that what is
  withdrawn was not seen.
* `PromiseSuffices`: the other direction, about MonotoneCache alone: `NoTimeTravel`, `NoDiscardedResult` and
  `StoreNeverRegresses` follow from `ImplementsCache`, by an invariant of the abstract cache
  (`PromiseInv`). So the refinement is not one of a specification that allows everything.

`RefreshTrackerProofs` (any keys, workers, shards and spread of keys over them, any TTL settings):

* `Typing`: `TypeOK`, with the tracked keys finite, since they come one by one.
* `RefreshExclusive`: `OneRefreshPerKey` is inductive with `MarkerKept`: a worker within its lease that
  nobody robbed has its marker up, with as much left as its lease. Without it TrySet could not be
  known to refuse.
* `TrackerIsLease`: `ImplementsLease`; the cleanup removes only what counts as no lease.
* `NoMarkerForgotten`: `MarkerHeld` is inductive: a Delete takes the entry with it, whoever set it, so an
  entry that is there was set by a worker that is still to delete it.
* `StopWaits`: `StopMeansGone`, from `StopInv`: the Once is done only after the goroutine is gone.
* `StopNeverStuck`: from `OnceInv`: while the Once runs there is exactly one first caller, and nobody waits
  before the goroutine has been told to go.
* `SizeHonest`: `SizeWithinCall`, from `SizeInv`: at every shard boundary the total lies between what was
  there all the time and at some time, of the shards already counted; the cardinality theorems carry
  it over a shard.

`BadgerStorageProofs` (any openings, users and closers, any limits):

* `Typing`, `GCPacing`: inductive together with `RoundInv`, that a round starts from zero and goes on
  only below its limit; `RoundEndPaces` is the arithmetic of how a round ends.
* `HandlesOwned`, `GCHandleOpen`, `CloseIsClosed`: `LifeInv`, the conjunction of `OpenInv` (where the
  result of an opening is), `StoreInv` (the store's handle is open until the one Close that runs the
  Once is past its wait) and `CloseInv` (what is true at each of its steps). None is inductive alone.
* `NothingClosedTwice`, `CloseNeverStuck`: `OnceInv`, on top of `LifeInv`: doneCh is open until the caller
  inside the Once closes it, the store's handle until that caller is done, and while the Once runs
  there is such a caller. Closing doneCh again would panic.

`CacheTTLProofs` (any positive unit, any integers):

* `EngineTTLsOrdered`, `EntryTTLsOrdered`, `ChosenTTLsOrdered`: a lifetime has at least the minimum in
  total and is fresh for 0 up to that, whatever the fields and even where the products wrap around.
  `OverrideKept`: the second normalisation does not change the result of the first.
* `RoutesAgree`: the configuration's conversion and the override's agree when no field is negative and
  nothing overflows.
* `StoreTimeoutBounded`: the adaptive write timeout is within the refresh timeout and what is left of it.

`CacheLifetimeProofs` (any goroutines, any interval, grace period and configuration, any number of
settings of the clock, with `InputAssumption` on the inputs):

* `ClockIsBounded`: from `ClockInv`, what the cached time and the goroutines inside `NowUnixMilli` hold is
  behind the highest time, and a goroutine at its compare-and-swap holds a time it has read itself.
* `StatusInTime`, `StorageTTLInTime`, `Typing`: from `EntryInv`, which bounds an entry's times by the
  moments it was made and written, at each step of the writer; lifetimes are ordered by
  `ChosenTTLsOrdered`.
* `CachedOnlyForward`: from `SwapsForward`: a goroutine gets to its compare-and-swap only with a time later
  than the one it expects to find, also after the wall clock was set back (it then uses the cached one).
* `NoEntryForEver`: the part of `EntryInv` that holds for any clock, `Shaped`, already gives an entry two
  positive times in order; 0 would mean "never" to `IsStaleAt` and `IsExpiredAt`.

`CircuitBreakerProofs` (finitely many requests; positive thresholds and limit):

* `Typing`: `TypeOK`.
* `SlotCountExact`, `PlacesAreBounded`: `SlotInv`, inductive with `SlotHeldInside`, that a request
  asking for a place has none yet. As with the refreshes, the bound needs the exact counter; both
  stop at the first Reset, so the invariant also says that no Reset is half done before one is
  called. `SlotSteps` reduces the steps to one member joining or leaving.
* `NoThresholdMissed`: from `FailuresNoticed` and `SuccessesNoticed`, each inductive: whenever the state and
  a count say that the breaker should change, some request (or Reset) is between the Add or Store that
  made it so and the one that deals with it. When all have returned, nothing is left undone.

`KeyBreakersProofs`:

* `TablesInStep`, `FailureRecorded`: `LockInv` says what the holder of the mutex finds in the two
  tables at each of its steps; the properties speak of the moments before and after, and are not
  inductive without it. Which keys the cache evicts does not matter to it.
* `Typing`, `MapIsBounded`: `TableInv`, that the list of recent use names each cached key once, so that its
  length, which `Add` keeps within the limit, is the number of breakers in the cache; and the map has
  no key that the cache lacks.
* `BreakersApart`: `KeysApart`, by `PointerSteps`: a pointer to a breaker is only passed on for its own key,
  and a new breaker is one that nobody points to.
* `MutexNeverLost`: from `MutexInv`: a request that holds the mutex is at one of the four steps before
  Unlock. None of them waits, `NewBreaker` included: `ABreakerIsFree` counts the objects in use. Its
  hypothesis `EnoughBreakers` is about the model's pool, and the run `keybreakers` meets it exactly.

Only model-checked: the liveness properties `ExecuteReturns`, `ComesToRest`, `ExpiredRemoved`,
`StopEnds`, `CloseReturns`, `NewReturnsOnCancel`, `AbandonedIsClosed`, `Recovers`, `Trips` and
`KeysRecover`; fairness and ENABLED are beyond the prover. What they rest on besides fairness is
proved: that whoever waits waits for something that is there and can go on (`WaitersAttended`,
`StopNeverStuck`, `CloseNeverStuck`, `MutexNeverLost`) and that nothing is forgotten on the way
(`NoMarkerForgotten`, `NothingLeftBehind`, `NoThresholdMissed`). These invariants are stated in the proof
modules only; no run lists them, nor `KeysApart`, `ShutdownDrains`, `ClosesOnce`, `CachedForward` and
`EntriesMortal`.

## Not modelled

* Loggers and metrics: output only; nothing of the cache depends on them.
* Serializers and compression: stateless conversions by gob, gzip and jsoniter; they can fail, which
  StaleEngine has.
* The buffer pools of `badger_storage.go` and `cache.go`: `sync.Pool` gives a buffer to one goroutine at a
  time and the entry decoded from it is a copy, so no state of this code outlives a call. (The buffer
  of `Marshal` is taken and never written to.)
* The table of Badger's defaults, option functions and argument checks: no shared state.
* Write batches: Set adds an entry to a batch that its caller flushes.
* The Redis storage the docs mention: there is no code for it.

## Plan

Done: StaleEngine and MonotoneCache, CircuitBreaker and KeyBreakers, RefreshTracker and RefreshLease,
BadgerStorage, CacheTTL and CacheLifetime, with the theorems of their safety properties, of the
invariants behind their liveness and of the two refinements. Left:

1. An abstract breaker that a single-request instance of CircuitBreaker refines.
2. StaleEngine over the lease of RefreshTracker, with its time, in place of a marker that may expire.
