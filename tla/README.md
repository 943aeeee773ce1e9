# go-latency in TLA+

The repository is a collection of Go services and packages, each of which keeps
latency low in one way: caches that survive a stampede, coalesced requests, a
circuit breaker, a waiting room, an in-memory snapshot, an LRU cache. This
directory holds TLA+ models of those that have state and concurrency of their
own, the TLC configurations that check them, and TLAPS proofs about every one of
them. Paths below are relative to the repository's root.

## 1. The system

| Component | State | Operations | What makes it hard | What must hold |
|---|---|---|---|---|
| `cache-stampede/cache.go` (`GetWithLock`) | Redis `cache:k`, `stale:k`, `lock:k`, channel `notify:k`; a singleflight group per process | lookup, lock-or-stale script, fetch, pipeline, release script, Pub/Sub wait, self-fetch | processes interleave between Redis commands; locks expire; notifications get lost; the pipeline fails half way; crashes | one fetcher at a time; no fetch beside a fresh value; the stale copy never goes back; nobody waits forever; a nil error comes with a value |
| `cache-stampede/coalescing/singleflight.go` | map of calls under a mutex, a goroutine per flight | Get, fetch goroutine, deferred delete and close | callers give up while their fetch runs on; late callers; unsynchronised fields | one fetch per key; no late join; results written before they are read; everybody is answered |
| `cache-stampede/coalescing/distributed.go` | Redis `lock:k`, `result:k` on top of the former | lock, fetch, store, release, poll | locks that run out; pollers that outlast the fetcher | one designated fetcher; results in order; every pod still looks like the in-process layer |
| `cache-stampede/locking/circuit_breaker.go` | three atomics | Allow, RecordSuccess, RecordFailure | the stores of one event interleave with those of others | follows the origin up and down; one probe |
| `cache-stampede/locking/hardlock.go`, `stale_while_revalidate.go` | Redis `k`, `stale:k`, `lock:k` | the two Gets, background refresh, poll loops | late releases, unconditional DEL, TTLs | one refresher; fresh not older than stale; every call returns |
| `cache-stampede/xfetch` | Redis value with its compute time | lookup, early refresh, store | background goroutines that outlive the request | a failing cache is no error |
| `singleflight` (template service) | Redis copy, group per key | GetTemplate | a request that missed enters a later flight | monotonic reads |
| `cache-strategies`, `gateway-caching` (middleware), `cache-layering` | one cached copy | GetUser, Handle, GetWeather, GetFlags, SetFlags | errors of cache and source | as their docs say: cache errors fall through, or fail; flags have defaults (they may not: section 3) |
| `gateway-caching/request_coalescing.go` | maps of WaitGroups and of responses under a mutex | Get | a waiter reads the response map without the mutex, while later flights write it | no answer from before the request; everybody is let go |
| `waiting-room` | Redis sorted set, one token per admitted session | join, status, resource, admission loop | pop-then-grant is two steps, check-then-delete too, and so is status; float scores | nobody is lost; join order; a token is used once; status tells the truth |
| `snapshot` | a pointer under an RWMutex | refresh at start and on a ticker, reads | readers use the object after the lock is gone; queries fail | what is held does not change; never older; catches up |
| `cache-eviction-policy/lru.go` | map and pointer list | Get, Put | pointers left wrong by one operation bite several later | an LRU cache |
| `cache-stampede/monitoring` | Prometheus metrics | instrumented wrappers | the breaker's gauge is set in three calls, after the transition | the gauge comes to show the breaker's state |
| `commands`, `redis-high-availability`, `monitoring/cpu`, demo servers, load generators, assets | none of their own | wiring | - | not modelled |

How they interact. `GetWithLock` runs inside `singleflight.Group.Do` unless
bypassed, and meets other processes only in Redis. `DistributedCoalescingCache`
hands its Redis protocol to `CoalescingCache.Get` as the `fetchFn`.
`ResilientCache` asks the breaker and then calls `SWRCache.Get`; it falls back to
`stale:k`. An instrumented breaker calls back into the metrics after each
transition. The waiting room's handlers and its admitter share two kinds of Redis
keys and nothing else. The snapshot service's handlers read what its ticker
writes. The other services share no state with each other.

## 2. Modules

`PROJECT.json` maps every definition to its lines. The modules' own comments
say what a step is. The general conventions:

- A Redis command is one step, and so is a Lua script. A go-redis `Pipeline` is
  not a transaction: each of its commands is a step, and it may fail after any
  prefix of them.
- A critical section under a mutex that touches nothing else is one step.
- An atomic operation of `sync/atomic` is one step.
- A value is the *version of the source* it was read from; that is all the
  properties tell apart. `NONE` (0) stands for a missing key and for Go's zero
  value.
- A Redis, origin or context error, and a crash, spend one of `MaxFaults` faults.
- A command that ends in an error may have been executed nonetheless, its reply
  lost: the lock of a call that was told an error may be taken (`LockScriptError`,
  `AcquireError`, `LockError`) and stay so until its TTL, and a write may have
  happened.
- A TTL may run out at any moment, unless a constant says otherwise.
- Variables marked *history* record what happened for a property's sake; no
  guard reads them.
- Operators whose comment starts with *Mutant* are in no next-state relation.
  Each is a plausible slip in the action that follows it; putting it in the
  action's place makes one of the runs fail, which shows that the property
  depends on the code.

### StampedeCache (`cache-stampede/cache.go`)

One key. A member of `Calls` is one `GetWithLock` and its lock token;
`Process[p]` is the `*Cache` it is made on, and `Bypass` the calls whose options
set `BypassSingleFlight`. `pc[p]` is the next statement:

| `pc` | code | actions |
|---|---|---|
| idle, follow | `group.Do` (133-139) | `Enter`, `Follow` |
| get, check, lastCheck, reread | the four GETs of `cache:k` | `GetHit`, `GetMiss` |
| lock | `lockOrStaleScript` (87-97, 165-186) | `LockOrStale`, `LockScriptError` |
| fetch, selfFetch | `fetchFn` | `Fetch`, `FetchError` |
| setData, setStale, publish, exec | the pipeline of `fetchAndCache` | `SetData`, `SetStale`, `Publish`, `Exec` |
| release | deferred `releaseLockScript` | `Release` |
| wait | `waitForResult` | `Notified`, `WaitTimeout` |
| selfSet | the best-effort SET after a self-fetch | `SelfSet` |
| return | back in `GetWithLock` | `Return` |

`Expiry` is Redis' TTLs, `SourceChanges` the world, `Crash(P)` the end of a
process with all its calls. `Subscribe` is not confirmed by Redis before the code
goes on, so `Publish` reaches any subset of the calls that have subscribed. The
history variable `overran` names the calls whose lock ran out between their
acquiring and releasing it; the safety properties are about the others, which is
all that a lock with a TTL can give.

### Coalescing, SingleFlight (`coalescing/singleflight.go`)

`SingleFlight` is the promise: per key at most one flight, all who join it get
its one outcome, a caller may give up while the flight goes on. `Coalescing` has
the map, the call objects, `done` channels and the goroutine of the fetcher
(`worker`), whose deferred block deletes the entry and then closes the channel.
`fetchFn` may return a value next to its error; both are stored as they are and
handed to every waiter (`Returned`, `Fetch`).
`SF` is `SingleFlight` under the refinement mapping: a flight lands when its entry leaves
the map.

### DistributedCoalescing (`coalescing/distributed.go`)

EXTENDS Coalescing, with pods for its keys, and replaces `Fetch` by the steps of
`fetchWithDistributedLock`: lock, fetch, store, release, or poll. `Local` maps it
back: to its callers a pod is `Coalescing`, fairness included. The history
variable `before` orders the reads of the source, which is what `ResultInOrder`
compares results by. `MCCoalescing` runs `Coalescing`
alone (three callers of one key) or inside two pods (two callers and one); `running`
says which a behaviour is, and who has no part in it does not call.

### CircuitBreaker, BreakerGauge (`locking/circuit_breaker.go`, `monitoring`)

`state`, `failures` and the clock test `cooled` are the three atomics; the steps
between them interleave. What `SWRCache.Get` does with an admitted request is
left open (it answers from Redis or calls compute). `BreakerGauge` EXTENDS it with
the Prometheus gauge: a transition leaves the goroutine that made it with three
labels to set (`OnCircuitBreakerEvent`), each a step, before it goes on.

### GatewayCoalescing (`gateway-caching/request_coalescing.go`)

Its own protocol, not an instance of Coalescing: waiters wait for a WaitGroup and
then read `results[key]`, which keeps old responses forever, without the mutex.
The assignment to the map is a step with a beginning (`Lock`) and an end
(`Store`), so that such a read can fall into it: it returns the old or the new
response (`Read`), or the runtime notices and ends the process (`ReadRaces`).
A waiter of a failed flight gets a nil response and a nil error, as line 26 has
it.

### LockingCaches (`locking/hardlock.go`, `locking/stale_while_revalidate.go`)

Both share their Redis keys' shape, so one module has both; `hard` says which of
them the requests use. `pc` is the request, `bg` the goroutine it may have
started. The background refresh writes the key twice and then deletes it, as
lines 55-57 do.

### WaitingRoom (`waiting-room/internal`)

Join (clock, ZADD NX), the admission loop (`PopBatch`, one `Grant` per pipelined
SET), Status (`AskToken`, then `AskPosition`), Resource (GET, then DEL), token
TTLs, errors and crashes. `Grain` is the
distance of neighbouring float64 values at UnixNano's magnitude: instants of one
grain get one score, and ZPOPMIN's order among them is not the order of joining.

### ReadPaths

Seven read paths with no Redis lock: cache-aside, read-through, template service,
gateway middleware, weather and flags handlers and XFetch. They are one state
machine (look up, load, store) and differ in four traits: whether a lookup error
ends the request, whether equal loads share a `group.Do`, whether a hit may start
a background refresh, and whether there is a source to load from and fill the
cache with. `Services` gives the traits of each; Init picks one.

Of flags there is no source. A request that does not find its set looks up the
defaults in the same cache (`Default`, `DefaultError`); a PUT fills the cache
(`SetFlags`). The defaults are preloaded into L1 and the stale copy, and L1's TTL
ends (`DefaultsExpire`). From then on a healthy Redis answers redis.Nil, and only when
Redis fails the stale copy may answer. This is how `docs/README.md` (95, 118) tells what the
library does; its code is not in the repository.

### Snapshot, LRU, RecencyList, MCIndependent

`Snapshot` has the heap explicitly (`object`, `current`, `held`), for the hazard
is a reader that uses a pointer after the read lock is gone while the next
refresh publishes. `LRU` performs the pointer assignments of `lru.go` one after
the other on a list record; `RecencyList` is what an LRU cache promises, and the
map and list are shown to implement it. Where the pointers lead is said by the
sequence of keys they thread (`Follows` along `next`, `LeadsBack` along `prev`):
`ListMatchesMap` is that there is one which holds the map's keys once each, and the
refinement mapping is the sequence from `head` (`Chain`). `MCIndependent` runs the components that
share nothing with any other (ReadPaths, BreakerGauge, GatewayCoalescing,
Snapshot, LRU) in one TLC run: `running` says which of them a behaviour is of,
the others rest. They are independent, so this loses nothing.

## 3. What is checked

| Run | Bounds | Distinct states | Shows |
|---|---|---|---|
| `stampede_safety` | 3 calls that bypass singleflight, 2 versions, 1 fault, lock may expire under its holder | 646 k (symmetry) | `MutualExclusion`, `NoFetchWhileFresh`, `StaleNeverGoesBack` |
| `stampede_live` | 2 processes, 3 calls of which one bypasses singleflight, lock may expire, 1 version, 1 fault | 215 k | `ValueOrError`, `OnlyOwnerReleases`, `CallsReturn` |
| `stampede_dropped` | as `stampede_live`, none bypasses | - | violated: a fetched value is thrown away when the pipeline fails |
| `coalescing` | alone: 3 callers of a key; in pods: 2 callers in a pod, 1 in another, 2 polls, 1 fault | 306 k | `OneFetchPerKey`, `NoLateJoin`, `WrittenBeforeRead`, `ImplementsSingleFlight`, of Coalescing alone and in its pods; `OneFetcher`, `ResultInOrder`, `ImplementsCoalescing` |
| `independent` | read paths: 3 requests, 2 versions, 2 faults, seven services; breaker: 2 requests, threshold 2; gateway: 3 callers, 1 key; snapshot: 1 reader, 3 objects, 2 versions, 2 faults; LRU: 4 keys, 2 values (one is -1, which Get answers for no entry), capacity 3 | 143 k | `OutageIsNoError`, `MonotonicReads`, `CopyNeverGoesBack`, `RequestsAnswered`, `BreakerRecovers`, `BreakerKeepsOpening`, `GatewayNotEarlier`, `GatewayCallsReturn`, `SnapshotHeld`, `SnapshotNeverOlder`, `SnapshotCatchesUp`, `LRUListMatchesMap`, `LRUImplementsRecencyList` |
| `flags_defaults` | 2 requests, no fault | - | violated: a request for flags is answered 500 once L1's TTL has ended for the defaults |
| `breaker_probe` | 2 requests, threshold 2 | - | violated: half-open lets every request pass |
| `gauge_consistent` | as above | - | violated: interleaved reports leave the gauge at another state than the breaker's |
| `waiting_room` | 3 sessions, 2 requests of one of them, rate 2, grain 2, 1 fault | 1.68 M | `Accounted`, `JoinOrderKept`, `ReplayRefused`, `StatusTruthful`, `EveryoneAdmitted` |
| `waiting_replay` | as above, no fault | - | violated: two concurrent requests of a session both enter |
| `locking_safety` | 3 requests, 2 polls, 2 versions, 1 fault, both caches | 562 k | `OneRefresher`, `FreshNotOlder`, `GetReturns` |
| `locking_refresh` | as above, no fault | - | violated: the background refresh deletes what it stored |

Why these bounds. Three is the number of callers at which each protocol's roles
are all taken: the one that holds the lock, one that overran or gave up before
it, and one that waits (or comes late). Two versions are what "older" needs. One
fault is enough for each partial failure; where two are allowed (`ReadPaths`,
`Snapshot`), a second one hits the recovery from the first. One key suffices
where keys share nothing but a map (the theorems about `Coalescing` and
`GatewayCoalescing` hold for any number). Capacity 3 of 4 keys gives the LRU list
a middle node, and an eviction in every position. Two polls are a first and a
last one.

`stampede_safety` bypasses singleflight because that gives the most calls in
`getInternal` at once: a process with singleflight is one call and its followers,
which only wait. The safety properties are about calls in Redis. `Symmetric`
permutes calls together with their processes; the run has no liveness property,
so the reduction is sound. `stampede_live` has both kinds of call.
The runs have a `LockTimeout` of 5 s; with one below 1 s the lock script asks for
`EX 0` and always fails (`LockScriptError`), so that no call ever gets as far as a
lock. The theorems cover it, since they take any `LockTimeoutMs`.

Deadlock is checked everywhere except in the waiting room: its sessions and its
clock are finite, so it does stop when all have been served. In the others the
end of everything is an explicit step (`AllOver`, `Quiet`).

### Fairness

Liveness assumes no more than that goroutines that can run do run. Where each of
them makes a bounded number of steps, it is enough that one of those that can
take a step does (`WF` of "some call steps"): the rest follows by counting. Whether
a call is made, a source changes, a fault or a crash happens is never assumed.

- `StampedeCache`: some call under way goes on, since Go schedules it, Redis and
  `fetchFn` answer or fail, and the timer of `waitCtx` fires. No key need expire:
  a waiter whose holder crashed is let go by its timer.
- `Coalescing`, `SingleFlight`: some goroutine of a fetcher, or some caller whose
  `select` has a ready arm, goes on. Nobody need call or cancel. `fetchFn` returns: a `fetchFn` that
  hangs hangs its flight for all, in the model as in the code.
- `DistributedCoalescing`: the same; polls are bounded by `maxRetries`.
- `CircuitBreaker`, `BreakerGauge`: requests keep coming and proceed, a goroutine
  that reports a transition goes on, time passes. `Compute` is strongly fair:
  among requests admitted again and again some find their cache entry expired and
  reach the origin. Without it a breaker whose traffic is answered from the cache
  only would learn nothing, which is true of the code.
- `GatewayCoalescing`: some goroutine that can run does, and `fetch` returns.
- `WaitingRoom`: the ticker fires (`PopBatch`) and the admission loop goes on (some
  `Grant` of the batch at hand). After a crash it is started again.
- `LockingCaches`: each request and each background goroutine goes on.
- `ReadPaths`: some request or background goroutine goes on.
- `Snapshot`: both goroutines run on, the database answers or fails, the ticker
  fires.

### Where code and documentation differ

Six runs end in a violation; each states what a comment or README says.

1. `stampede_dropped`: `cache.go:228` says the data is returned even if caching
   fails; `GetWithLock` (136-138) drops it unless singleflight is bypassed.
2. `breaker_probe`: `circuit_breaker.go:57` says half-open lets one probe through;
   `Allow` (line 76) lets everybody through.
3. `gauge_consistent`: `metrics.go:224` says the event counter and the state gauge
   are updated atomically and line 228 that the gauge is consistent with each
   transition; the three calls that set it (231-243) interleave with those of
   another report and with the breaker's own stores, so the gauge may stay at a
   state the breaker has left. `BreakerRecovers` shows that it is right again once
   the breaker has closed for good.
4. `waiting_replay`: `admitter.go:99` says a session enters once; `Resource` checks
   with GET and deletes with a separate DEL whose count it ignores.
5. `locking_refresh`: `locking/README.md:59` says the refresh writes fresh and stale
   and releases the lock; lines 55-57 write the key twice and delete it.

6. `flags_defaults`: `handler.go:110` says the defaults are never a cache miss and
   `store.go:107` that they are always available. `GetDefaultFlags` is one more Get on the
   same go-cache: after L1's TTL a healthy Redis does not have them, and `GetFlags`
   answers 500 (112-116). Nor need the stale copy outlive `STALE_TTL` in an outage,
   although `handler.go:91` promises defaults if Redis is down and the README of
   `cache-layering` (line 16) a TTL of infinity. `OutageIsNoError` is therefore about the
   services that have a source.

Two more things that no document denies, but that a reader of the code may not
expect, are in the models as the code has them. A gateway waiter of a failed
flight gets neither a response nor an error (`request_coalescing.go:26`), or an old
response. And a session that has been popped and not yet granted a token, or is
granted one between Status' two questions, is told 404 (`handler.go:62-77`):
`StatusTruthful` says that nobody else is.

## 4. What is proved

For every set of calls, callers, processes, sessions and keys and every bound,
from the modules' named assumptions (types of the constants, positive bounds).
Where Redis locks have a TTL, safety is proved of the holders that have not
overrun it, as the runs state it too.

**StampedeCacheProofs**: `TypeCorrect`, `LockExcludes` (MutualExclusion),
`NoStampede` (NoFetchWhileFresh), `ResultsReal` (ValueOrError), `OwnersRelease`
(OnlyOwnerReleases) and `StaleMonotone` (StaleNeverGoesBack). The inductive
invariant is `IndInv`: types, and

- `HolderHasLock`: a call between its lock and its release still has the lock,
  unless it overran. `MutualExclusion` alone is not inductive: that two calls are
  not both inside follows from the one lock each of them would have to hold.
- `ValuesRead` and `RefreshInOrder`: what a holder is about to store is no newer
  than the source and, until some holder overruns, no older than the stale copy. A
  fetch reads the source's current version, which is at least any stored one; and
  no one else stores to `stale:k` before the holder has released. `StaleMonotone`
  is then the effect of `SetStale`.
- `ResultsHeld`: every statement at which a call stores or returns something has
  a value or an error at hand; this is what gives `ValueOrError` for all the ways
  back.
- `SelfFetchShows`: who self-fetched is known as such, since `NoFetchWhileFresh`
  excuses only those.
- `FollowersLed`: a follower has a flight to follow, so that what it takes over is
  well typed.

**CoalescingProofs**: `TypeCorrect`, `NoDuplicateFetch` (OneFetchPerKey),
`LateCallersStartAnew` (NoLateJoin), `ResultsWrittenFirst` (WrittenBeforeRead), and
`Refinement`: `Spec => SF!Spec`, the safety part of `ImplementsSingleFlight`. The
inductive invariant says that an entry of the map is a call for that key whose
goroutine has not deleted it yet (`EntryHasWorker`, `EntryUnderItsKey`), that
whoever is joined to a call is joined to one that was started (`JoinedStarted`,
`WorkerJoined`), and that a closed `done` is the last thing a goroutine does
(`DoneIsLast`). The refinement shows initial states map to initial states and each
action to a step (`Delete` to a landing, `Receive` to an answer) or a stutter
(`Fetch`, `Close`, `Cancel`).

Its second part is about DistributedCoalescing: `DTypeCorrect`, `OneDesignated`
(OneFetcher), `ResultsOrdered` (ResultInOrder) and `DistributedRefinement`:
`DSpec => Local!Spec`, the safety part of `ImplementsCoalescing`. `DInv` is the
in-process `IndInv` with what the Redis protocol adds: `FetcherHasLock` as above;
`OwnOutcome`, a fetcher stores and returns what it fetched; `StoredInOrder`, the
result in Redis was read before the value that is about to replace it, until
somebody overruns; `PollsLeft`, for the types of the poll counter; `RepliedJoined`.
Each lemma about a kind of step (`AroundKeeps`, `ReturnKeeps`, `FetchKeeps`) has its
twin in the refinement: the in-process steps are Coalescing's own, a return from
`fetchWithDistributedLock` is its `Fetch`, and the Redis steps stutter.

**LockingProofs**: `TypeCorrect`, `RefreshesExclude` (OneRefresher) and `FreshIsNewest`
(FreshNotOlder). `RefresherHasLock` excuses more of SWRCache than of LockedCache:
its DEL frees whoever's lock, so one late release ends the exclusion for all. The
order of fresh and stale copies needs `NotAhead` and `ReadInOrder`: what is read is
no newer than the origin and no older than what it will replace.

**IndependentProofs**, first part, about ReadPaths: `ReadPathsTyped`, `OutagesPass`
(OutageIsNoError), `CopyMonotone` (CopyNeverGoesBack) and `ReadsMonotone` (MonotonicReads).
`OutagesPass` says where errors come from in a service with a source: of a load, or,
in the two strict services, of the request's own lookup; so a failing cache fails no
request of the others, and no failed lookup fails anybody but the request that
made it. `OutageInv` covers all services: a value at hand at every store (`Loaded`),
followers only where loads are grouped, a request's flight its own until it
follows (`Own`), and a follower's flight a load whose leader's lookup did not
fail (`Shared`), which is what keeps a lookup's error from spreading through the group.
`TemplateInv` adds the order of the template service: one flight at a time loads
and stores (`OneFlight`), it has read at least what is cached (`LoadedInOrder`), and
what a request may be answered next is no older than what any earlier one was
answered (`AnsweredInOrder`, `Led` for followers whose flight has already ended).

**SnapshotProofs**: `HeldIsStable` (HeldUnchanged) and `RefreshMonotone` (NeverOlder).
`SnapshotAssumption` includes `HeapSuffices`: there is always an object nobody points
to, which is what a garbage collector gives. `OneRefresh`, the loop starts after the
first refresh is over, makes refreshes sequential, and `QueriedInOrder` compares
what one has queried with what is shown.

**WaitingRoomProofs**: `TypeCorrect`, `NobodyVanishes` (Accounted),
`FirstComeFirstServed` (JoinOrderKept), `ReplaysAreRefused` (ReplayRefused) and
`StatusIsTrue` (StatusTruthful), for finitely many sessions. `NotSentNowhere`: who
has not been queued is in no later place; `Ordered`: scores are of the past and who
asked after another's answer has no lower one, so ZPOPMIN cannot prefer it by more
than a grain; `VisitsKnow`: what a handler learned with its first command and what
of it is still so at the second.

**GatewayProofs**: `TypeCorrect` and `AnswersAreNotEarlier` (NotFromEarlierFlight).
`InFlight`: the map holds exactly the flights under way; `OwnResponse`: what a flight
stores is its own; `LandedBefore`: a waiter's flight had not landed when the waiter
came, and what `results` shows after it has landed is of that flight or a later one.

**LRUProofs**: `ListAndMapAgree` (`Spec => []ListMatchesMap`) and `Refinement`
(`Spec => ImplementsRecencyList`), for any keys, values and capacity, 0 included.
That keys are reachable along pointers would be an induction; that a *given*
sequence is threaded by them is a statement about each of its entries. So the
inductive invariant is, beside the types, `\E order \in Seq(Keys) : Holds(order)`, and
each step has to say what the next such sequence is. (Pointers of keys that are not
in the map need no clause: `AddToHead` assigns both of its node's.) One lemma per list
operation names the sequence it leaves: `AddToHeadThreads` puts the key in front,
`RemoveTailThreads` drops the last entry, and `MoveToHeadThreads` is `OutThreads`
(the node is unlinked, wherever in the list it is) followed by the former. `StepInv`
combines them (`Used`, `Inserted`); that the eviction happens exactly when the map
has outgrown `Capacity` is `CountKeys`, the map's cardinality being the sequence's
length. For the refinement `FollowsOne` shows that no other sequence is threaded
(two would differ at a least index, and `next` of the entry before it would be two
keys), so that `Chain` is `order`; the `Contents...` lemmas then turn each lemma about
keys into one about entries, and `StepSimulation` maps each call to the abstract one.

**IndependentProofs**, second part, about the breaker and its gauge: `BreakerTyped`
(GTypeOK), and two results about what `gauge_consistent` finds violated.
`GaugeShowsAState`: when every report is over some label is 1, however they
interleaved. `GaugeRightAlone`: if there is one request, `GaugeConsistent` does hold,
for any threshold. `LoneInv` says how far the report on the current state has
got; every report sets all three labels and the new state's last, so it ends with
`Showing(state)` whatever was shown before. Interleaving is thus the whole cause.

Third part, about `MCIndependent`: `TypesCorrect` (TypesOK), `GatewayAnswersNotEarlier`,
`SnapshotHoldsStill`, `SnapshotGoesForward`, `LRUMapAndListAgree` and `LRUIsRecencyList`
state what the run `independent` checks. They carry over what the component's own
module proves: a step of `MCNext` is one component's and leaves the variables of the
others alone (`OneComponentSteps`), so that a behaviour of `MCSpec` is one of each
component (`BreakerRuns`, `ReadPathsRun`, `GatewayRuns`, `SnapshotRuns`, `LRURuns`).
This is also why running them together in TLC checks each.

With these every safety property of a passing run is proved for all values of the
constants. Only model-checked: all liveness, and the fairness halves of the
refinements, for the prover has no ENABLED; that is also all there is to the
breaker's recovery (`BreakerRecovers`, `BreakerKeepsOpening`). The six documented claims
that fail have no theorem.

## 5. What is not modelled

- JSON, HTTP, logging, configuration: no property is about them. What is decoded
  was encoded by the same code, so decoding gives back the version stored.
- `cache-stampede/monitoring`'s counters and histograms, each one atomic addition
  that nothing reads back, and its metrics server.
- `gateway-caching/circuit_breaker_handler.lua`, a sketch of a Kong plugin: it does not
  parse (`else if` without its `end`) and uses names that are defined nowhere.
- What go-cache does inside (`cache-layering`): its code is not in the repository.
  The handlers see a value or an error from it, and that is what is modelled.
- A go-cache key is one set of flags: that a request may ask for the set `defaults`
  itself, so that both lookups are of one key, is the case in which both miss.
- A SET that reaches Redis after its caller has seen a timeout (`ReadPaths`): a write
  that ends in an error happens at once or never.
- A wall clock that steps back, or differs between instances of the waiting room:
  `Tick` goes forward, as UnixNano does but for clock adjustments.
- Panics. A gateway `fetch` that panics leaves its entry and its WaitGroup behind for
  good (`request_coalescing.go:36` has no defer). `val.(T)` in `singleflight.go` (82, 126)
  panics for an interface type `T` when `fetchFn` returned nil. And `lru.go:110` would, had the
  list no tail there; `SetNext` of nil does nothing, and `ListMatchesMap` excludes it.
- The gateway's maps have no constructor in the repository; they start empty.
- XFetch's probability: any hit may refresh early. The formula is real-valued.
- The number in a `waiting-room` position: only that there is one. `Remove` and
  `Size` are called by nothing that changes what is modelled.
- The demo server and the load generator of `cache-stampede`: wiring and traffic.
  The generator's semaphores shed ticks, and nothing relies on what they shed.
- `commands`: straight lines of Redis commands. The WATCH example
  (`redis-json/handle_race_condition.go`) gives up on a conflict; the concurrency is Redis' own.
- `redis-high-availability`: a loop around one SET and one GET; the rest is deployment.
- `cache-stampede/resilient`: package clauses only. `ResilientCache` itself is in
  `locking/circuit_breaker.go`.

## 6. Plan

Done: all the modules above, their runs and proofs. The order was: the stampede
cache and coalescing with their proofs; the distributed layer, locking caches,
breaker and waiting room; the read paths, snapshot and LRU; then the gauge, the
gateway's coalescing, Status, flags, per-call bypass, and the proofs of the rest;
last the LRU list by the sequence it threads, the breaker and the composition.

What could follow:

1. A hand argument of the breaker's recovery on top of `BreakerInv`: which step each
   request takes when the origin stays up, as lemmas without ENABLED.
2. A lock with a lease as an abstract module of its own, which `StampedeCache` and
   `DistributedCoalescing` implement and `SWRCache`, whose DEL asks for no owner, does not.
3. The WATCH example as a check of optimistic locking against a lost update, if
   it ever gets a retry.
