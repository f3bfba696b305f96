# microservice-kit in TLA+

Formal models of `microservice-kit`: of every part in which processes,
goroutines, requests or messages meet, and of the pure parts whose mistakes show
only after long sequences of calls. Every module is written from the Go source;
`PROJECT.json` maps each definition to its lines.

Tools: `tlasany M.tla` parses, `tlc -config X.cfg MCY.tla` model-checks,
`tlapm MProofs.tla` checks proofs.

Contents: 1 the system, 2 the modules, 3 the runs, 4 fairness, 5 proofs, 6 what
was seen in the source, 7 what is left.

## 1. The system

### How its parts interact

    scheduler --(lock.Locker)--> storage/lock --+
    middleware/idempotency --(KV)---------------+--> storage/cache --> Redis
    middleware/semaphore, ratelimit --(Counter)-+      or memory
    saga --(Store, KV)--------------------------+
    request/activity --(Store)----------------- Redis
                     --(Producer)--> messaging --> Kafka --> its consumers
    app --> servers (http, grpc, gateway), cleanups
        --> discovery --> Consul --> transport/health of the servers
    client (retry) --> server: recovery, auth, ACL, timeout --> handler
    handler --> domain aggregate --> event bus --> event handlers
    websocket, sse: one goroutine (Run) with channels --> clients
    logger --> rotating files

Calls are synchronous Go calls. What processes share they share through Redis,
a broker or Consul only: one action of a model is one command as that server
executes it, and everything else can come between two commands. What goroutines
share they share through memory: one action is what a goroutine does between two
points where another may step in (a mutex dropped, a channel, a blocking call).

### Modelled

| Component | State it keeps | Operations | What is hard about it |
|---|---|---|---|
| `storage/lock` | key in Redis with owner and expiry; `held` map of the `lock.Redis` object | `TryLock`, `Lock`, `Unlock`, `Extend`, `WithLock` | lost replies and re-sent commands, leases that end early, crashes, GET then EXPIRE in `Extend` |
| `storage/cache` | memory: map of items with expiry and an access order; Redis: keys | all of `Cache` but `MGet` and `Ping` | `Get` and `Exists` act on what they read before dropping the lock; evictions; commands executed twice |
| `middleware/ratelimit` | token bucket, windows, or a counter in a cache | `Allow`, `Wait` and the middlewares | count, then expiry; waiters that are overtaken; what the counter's cache does to its expiry |
| `middleware/idempotency` | per key a stored result and a processing lock, each with expiry | `Get`, `Set`, `SetNX`; three middlewares | every store call is a round trip; a lock without an owner; panics, crashes, failed saves |
| `middleware/semaphore` (distributed) | one counter in Redis with one expiry | `TryAcquire`, `Acquire`, `Release`, four middlewares | INCR and EXPIRE are two commands, errors are ignored, commands counted twice, permits of the dead |
| `saga` | mutex of the `Saga`; per execution state, results, completed steps; the saved state | `Execute` | retries, timeout, panics, failing compensations, saves under a context that is done |
| `scheduler` | job map, `running`, `closed`, cron's entries, job states, wait group, lock | `Add`, `Remove`, `Start`, `Stop`, `Shutdown`, `Trigger`, `executeJob` | `Stop` and `Shutdown` wait outside the mutex; cron, `Trigger` and slow runs; processes that share a lock |
| `middleware/timeout`, `retry`, `recovery` | the attempt, its goroutine, the writer both sides share | one call over HTTP, gRPC, gateway or endpoint | a handler that goes on after its deadline; a mutex made at its first use; panics in another goroutine |
| `auth`, `auth/jwt` | tokens and the store that can take them back | generate, validate, refresh, revoke; the doors | doors over different transports must agree; a store that forgets; tokens at their last second |
| `transport/response`, `request/clientip` | none | mapping of errors; whose address, may it come in | what survives a mapping there and back |
| `app` | servers, hooks, cleanups, context | `Run`, `Stop`, signals | goroutines that start and stop servers in no order; the graceful timeout |
| `discovery` | IDs of the registered services; Consul's list and checks | `RegisterAll`, `UnregisterAll`, `Discover` | half-failed registrations, contexts that are done, checks that look at the wrong door |
| `transport/health` | status map, checkers | probes over HTTP and gRPC | faces that must agree |
| `messaging` (Kafka) | offset, session, message in hand, retries, dead letters | consume, commit, send, close | rebalances, crashes, contexts that end before the claim |
| `messaging` (RabbitMQ) | connection, channel, confirm channel, delivery in hand | send, consume, ack, reconnect, close | a reconnect nobody hears of, confirmations taken by another sender, answers on a dead channel |
| `transport/websocket`, `transport/sse` | map of clients, three channels, each client's channel | register, unregister, broadcast, send, close; topics | channels that order nothing between them, full channels, a send on a closed one |
| `domain` event bus | two lists of handlers; an aggregate's events | `Publish`, `Subscribe`, `Dispatch` | `append` into an array others read; events raised during a dispatch |
| `request/activity` | per user last activity and online key; the set of all online | middlewares, `Track`, publish, consume, batches, `SetOnline` | check then act; pipelines that mix; events twice, late or out of order |
| `logger` (rotating files) | current day, open file, the directory | `Write`, rotation, clean-up, compression, `Close` | the clock is read four times in a `Write`; old files replaced by copies |
| `util/collections`, `pagination`, `sorting` | red-black tree, ring buffer, heap, LRU list, sets; functions | all | long sequences of calls; boundaries |

### Not modelled

| Component | Why |
|---|---|
| `config` | sources and merging of files: I/O and data, done by a library |
| `logger` other than rotation, `observability` | formatting; adapters of client libraries |
| `request` other than `clientip` and `activity`, `util/pbjson` | text taken from headers; a codec |
| `storage/database`, `mongodb`, `s3` | adapters of client libraries: each method is one call of a driver |
| `middleware/semaphore` local | a buffered channel |
| options, codecs and wiring of servers and clients | data that is set once, before anything runs |

Smaller omissions are named at the component in `PROJECT.json` and with the
modules below. Left out everywhere are logs, metrics, traces and the wording of
errors.

## 2. The modules

Every component's module holds state, actions and properties; a definition
marked `Mutant of X` is a wrong form of `X` that no specification uses, to show
that a property can fail. `MC*` modules give TLC its instances; `*Proofs`
modules hold theorems, of one component or of several that are checked alike:
`MiddlewareProofs` those of `Idempotency` and `Chain`, `DeliveryProofs` those of
`Messaging` and `Fanout`, `LimitProofs` those of `Cache` and `RateLimit`. Names are
distinct across a module and what its proofs extend; that is why the
specification of `Chain` is `ChainSpec` and that of `Fanout` `FanoutSpec`.

Ghost variables are marked as such where they are declared: they record, and no
guard of the code's actions reads them.

Some components are checked in one run because an application has one of them
in use at a time: `Messaging` picks a broker, `Fanout` one of its parts,
`RateLimit` a limiter or the bare cache, `Collections` a structure. The first
state chooses, the rest of the variables stand still.

### Locks and what uses them

**`LeaseLock`** is what `Locker` promises: one key with `holder` and `left`;
acquire it free, release or renew one's own, let the lease run down.
`RedisLock` implements it and `Scheduler` uses its actions for its lock.

**`RedisLock`**: `storage/lock/redis.go` over `storage/cache/redis.go`.

| TLA+ | Go |
|---|---|
| `owner`, `left` | value and expiry of the key in Redis; `Nobody`/0 is "no key" |
| `held[i]` | `Redis.held[key]` of lock object `i`; a new process is another element of `Instance` |
| `pc[w]`, `call[w]` | where goroutine `w` is; operation, ttl and attempt of its call |
| `lease[w]` | ghost: what is left of the lease `w` knows it was granted |
| `Begin` .. `Cancel` | `Lock` and `TryLock`; `Grant`, `Refuse` are SETNX at the server |
| `Unlock` .. `Abandon` | `Unlock` with its Lua script; `WithLock` drops the error (`Abandon`) |
| `Extend` .. `ExpireFails` | `Extend`: GET, then EXPIRE |
| `Crash`, `Tick` | a process dies; Redis' clock |

go-redis sends a command again when its reply does not come; for SETNX that means
"refused by one's own key", a branch of `Grant`. `UnlockFails` covers script
calls lost before or after they ran, and sent again. `ImplementsLease` is the
refinement; its one exception, `Stray`, is an EXPIRE that comes after the lease
has ended.

**`Idempotency`**: two entries in the KV server and requests with one key. `Get`,
`Exists`, `SetNX`, `Handle`, `Save`, `DelLock` are the round trips in the code's
order; `StoreError` is `skipOnError`, which leads to `Bypass`. `Transport` picks
what a stored result is answered with (`Decode`): HTTP writes again what was
written, gRPC and Endpoint return the JSON text of the response.

**`Semaphore`**: `present`, `count`, `left` are the counter's key; `Increment`,
`SetExpiry`, `Undo`, `Refresh` the commands of `TryAcquire`, `Release` the
deferred DECR. The key may expire between any two of them. A command can be
counted twice, lost, or left out by a context that is done. Ghosts: `leaked` is
what the counter counts too much or too little, `short` the most it ever missed,
`lost` that one of the things happened that make it miss some.

**`Saga`**: executions of one `Saga` object, one action per branch of
`ExecuteWithData`, `executeStepWithRetry` and `compensate`. `effect` is the world:
what actions did and nothing has undone. `Save` may fail by itself, and because
the context is done.

**`Scheduler`**: processes with a scheduler each and the job of one name. `Stop`
and `Shutdown` come in the pieces between which they drop the mutex; `executeJob`
is a goroutine with one action per step. robfig/cron is external (`cronOn`,
`entries`, `Fired`). Assumed and named where used: `Due` (hooks are quick,
handlers end with their context's timeout), one re-send of the Unlock script, one
`Stop` at a time, handlers that do not call the scheduler.

### Cache and limiters

**`Cache`**: both implementations behind one interface, chosen at the start
(`type`). The memory cache's items are pointers: `Get` and `Exists` are three
steps, everything else one. **`RateLimit`** puts the four limiters on it, with
the distributed limiter's count and `Expire` as two calls of the cache and a
waiter's loop (`Try`, `Date`, `Sleep`, `Wake`). When the cache reports an error the
distributed limiter lets the request pass without a permit (`FailOpen`), whether
or not it was counted at the server. `kind = "none"` leaves the cache to its
callers.

### Collections

**`TreeMap`** is the red-black tree with its parent links, rotations and fix-ups as
in the code, a node named by its key; **`Containers`** are the
deque (a ring), the heap and the LRU cache's linked list;
**`Slices`** the functions on slices, maps, pages and sort orders.
**`Collections`** keeps one structure (`it`) and the value its documentation says
it holds (`model`), applies the same call to both and relates them. Values of the
tree map, the sharing of arrays between slices and the hash set, which is a Go
map, are left out.

### One call

**`Status`** (codes and errors, with the gateway's mapping and the retry
decisions), **`ClientIP`**, **`Auth`** and, on top, **`Chain`**: a client that
retries, the chain of middlewares in the order each server builds, the handler.
Every attempt has two goroutines: the request's and the timeout's. The lock of
the timeout's writer is modelled with its channels: `ch` is what the field holds,
`made` how often it was made, `full` where a token is. A connection may break at
any time (`cut`): the client then has a network error while the server works on.
The head of an HTTP answer that a handler wrote before it panicked stays.

### One application

**`Health`** (checkers to probes), **`Discovery`** (what is registered of a
server and with which check), **`App`**: `Run` from its hooks to its cleanups;
each server's `Start` and `Stop` in goroutines of their own; doors ("web", "rpc")
that open and close; Consul, which probes, over HTTP and gRPC past the
authenticator if there is one, and reaps by the last probe (`sick`).

### Messages

**`Kafka`**: a consumer group of processes over one partition. Sarama and the
coordinator are external: who has the partition (`Setup`, `Evict`), when a
session's context ends. **`Rabbit`**: one client, its connection's goroutine
(`watch`), its own (`helper`), senders or the consuming loop, and the broker's
side of channels and confirmations; links are numbered, a channel is named by its
link. Its set-up on a live link may fail (`ChannelRefused`) and is then not tried
again; a producer waits for confirms or does not (`rcfg.confirm`). **`Messaging`** states what holds whatever the broker.

**`Hub`**: the WebSocket hub and the SSE server in one module: they differ in
what a full channel means. A client's two goroutines end one after the other, in
either order, and the application may close a client (`Kick`). **`EventBus`**: the handlers' lists with the arrays
behind them, since `Publish` may append into an array that `Subscribe` writes.
**`Activity`**: requests, the goroutines that publish, the consumer (single or
batch) and the commands of the store's pipelines one by one. **`LogFiles`**: the
steps of one `Write` with the hours that end in between, and the directory.
**`Fanout`** composes the four and states their properties.

## 3. The runs

Every run passes, and every property has a mutant of the code in `PROJECT.json`
that breaks it under the run's own instance. Deadlock is checked in
`limit_cache` only: in the others goroutines may all be done, stopped, dead or
waiting for a call nobody has to make, and then the system really rests.

| Run | Question | Instance and bounds |
|---|---|---|
| `lock` | is the section exclusive, is a running lease backed by the key, are keys freed, does `Lock` return, is it a lease lock? | 2 objects with a goroutine each, ttl 1 or 2, `Extend` 2, at most 2 attempts |
| `idem_safe` | overlap, finality, truth of replays, lock freed | 3 requests, one with `skipOnError`, HTTP decoding, all faults; lock timeout 2, handlers of up to 2, result 2 |
| `sem_safe` | concurrency bound, exact count, which counters stay for ever | 4 symmetric clients, 2 permits, ttl 2, permits held for up to 2, counter within -4..4, crashes, failing and re-sent commands, lost EXPIREs |
| `saga_safe` | all or nothing, order, honesty, termination | 2 executions, 3 steps, the second without compensation, 1 retry, all faults |
| `sched_safe` | one run at a time across processes | 2 processes, 2+1 goroutines, 1 retry, timeout 1, ttl 3, one `Job` object, one cron entry; the two goroutines of a process are symmetric |
| `sched_live` | truth of the flags, `Stop` and `Shutdown` return | 1 process, 2 goroutines, 2 `Job` objects, 2 entries, no lock |
| `limit_cache` | what a cache answers; what limiters let through; are waiters served | 2 callers, 2 keys, memory or Redis, each limiter or none; ttls up to 2, values up to 4, a memory cache of one entry or more, 4 calls, failing and re-sent commands, crashes |
| `collections` | is each structure what its documentation says | 9 keys in the tree, items 0..2, sequences up to 6, ring of 2 that grows and shrinks |
| `chain` | is the answer true, is work done twice, do doors and protocols agree | one call with 2 attempts, 5 kinds of request, all protocols, a token that lives 1 or 2; each order of middlewares the servers build; connections that break, where the lock of the HTTP timeout takes no part |
| `app` | who runs when at the end; what Consul believes | one `Run` of each server kind, one request at a time; one dying dependency, failing Consul calls, signals |
| `messaging` | are acks true, does everything get a verdict, does the client resume | Kafka: 2 members, 2 messages, 1 fault, 3 set-ups; RabbitMQ: 2 senders with and without confirms, or a consumer for each way to acknowledge, 2 messages, 2 dropped links, 1 failing handler, refused channels |
| `fanout` | order, nothing outlives a connection, everything heard, recorded and kept | 2 connections, channels of 1, 6 set-ups of hub and server; 2 events; up to 3 visits, 2 ticks, batches of 2; up to 8 hours of 2-hour days, 3 lines, 1 mishap |

### What the properties say

- **`lock`.** `MutualExclusion` in time, while both leases run. `KeySound`: a
  running lease has the key behind it with its owner, a key has an expiry, a call
  the ttl it was made with. `KeyFreed`, `LockReturns`. `ImplementsLease`: the
  refinement of `LeaseLock`, with `Stray` as its one named exception.
- **`idem_safe`.** `NoOverlap`: of the requests that were granted the lock one is
  served at a time, and one more for each that outlived the lock's timeout, whose
  DEL frees the next one's lock; without the lock a handler runs only with
  `skipOnError`. `StoredIsFinal`: who comes in after the result was stored does not
  run the handler. `ReplayIsTrue`: a replay tells how a run ended; what it hands
  out over gRPC is another matter (section 6). `LockFreed`.
- **`sem_safe`.** `AtMostSize`: no more requests run than there are permits and
  than the counter ever missed, and it misses none until an EXPIRE is lost, a
  DECR is counted twice with no permit leaked, or the key expires inside a
  `TryAcquire` or under a request of the whole ttl. `CountSound`: the counter is
  the requests that are counted and what it is off by; until one of those things
  happens it is never below, the key is there, and it stays for ever only with a
  leaked permit in it.
- **`saga_safe`.** `AllOrNothing`; `StepsSound` (compensation in reverse);
  `SagaHonest` (no effect without a word of it, a store that is never ahead);
  `Ends`.
- **`sched_safe`, `sched_live`.** `RunsAreOne`: per `Job` object in a process, and
  across processes when the retries fit in the lock's ttl. `FlagsTrue`: the
  singleton flag is "someone executes it", a stopped scheduler is quiet.
  `Quiesces`.
- **`limit_cache`.** `AnswerIsTrue`: a call's answer is what the cache held at some
  moment of the call, but where the memory cache deletes what was set meanwhile.
  `LockExclusive`: `SetNX` and the compare-and-delete keep one owner.
  `CounterSound`: never more permits than the limit in a sliding window, than two
  limits around the end of a fixed one, than a bucket holds and gets; and a
  counter over Redis stays for ever only where its `Expire` did not come about,
  or the count did not come back. It counts permits: while the cache cannot be
  reached the distributed limiter lets everyone pass and bounds nothing.
  `WaiterServed`: a waiter within the limit gets in, also when all the others wait.
  No limiter queues: others that keep coming may overtake it for ever, and the
  property leaves that case open (`Overtaken`; with `MaxCalls` it does not arise in
  the run).
- **`collections`.** `TreeBalanced`. `ContainersRight`: deque, queue and cache hold what
  an abstract sequence, bag and order of use hold; and the functions agree: chunks
  put together are the slice, keys and values of an inverted map change places, what
  a page shows is what its offset says, a sort text that is printed and parsed is
  itself.
- **`chain`.** `AnswersSound`: an answer tells what the handler did, work is done
  twice only if it was late or its connection broke, a panic gets out only from a timeout's goroutine
  with no recovery inside it. `EdgesAgree`: HTTP and gRPC make the same of a
  token, an address and a code. `CallReturns`.
- **`app`.** `CleanupQuiet`: no cleanup behind an open door within the graceful
  timeout. `ConsulTrue`: what Consul has and the registry does not know is a service
  whose own call failed, and what `Discover` answers is an open gRPC door, with
  the same exception. `HealthyStays`: Consul reaps no server that was well at its
  last probe; it looks at that probe only, so that one which has just recovered
  may still go. `ProbesAgree`, `RunReturns`.
- **`messaging`.** `AcksTrue`: what the broker considers taken was handled, put
  among the dead letters, given up because there are none, because the session
  ended under its dead letter or because the broker refused that, or published
  before a session first committed (OffsetNewest); of a producer that waits for
  confirms not more sends succeed than were confirmed. `EverySettled`. `Resumes`: a
  client whose link dropped has a channel again, unless it missed the
  notification or its set-up was refused.
- **`fanout`.** `InOrder`, `ConnectionsEnd`; `EventsHeard`: subscribed handlers are
  called and raised events dispatched; `LogKept`: every accepted line is in
  the directory, in the file of its hour, until it is old; `ActivityKnown`: of a
  visit the store knows itself, a later one, or one less than the dedupe window
  before, unless a failing store or broker took it; and the online set misses
  nobody.

A property that holds with an exception names the exception as a ghost
(`undated`, `mislaid`, `late`, `cut`, ...) or a definition (`Stray`, `Jammed`,
`Forsaken`), with the line of code it comes from. Section 6 lists them.

### Why the bounds are enough

Every mutant is broken by two actors who meet at one key, one channel or one
lease that ends. Three requests or four clients let one actor's leftovers meet
two fresh ones; ttls of 2 and 3 leave room for a tick before, during and after
each step. Three saga steps are a first, a middle and a last. One `Job` object
and entry replaced by a second one is what `Add` after `Remove` can do. Nine keys
make a tree in which `deleteFixup` takes each of its cases; six elements let the
ring of two grow twice. Channels of capacity 1 fill and empty with two messages.
Two attempts are a first and a last of the client; a third has nothing new
to meet. Eight hours of days of two cross a day's and an age's end with room
before and after. `MaxCount`, `MaxCalls`, `MaxSent`, `MaxClock` and `MaxFaults` cap
counters and appear in guards; beyond them clients wait or stop calling.

Set-ups (`MC*Configs`) are lists, not products: what multiplies the states (a
token that is revoked meanwhile, a dependency that dies) is let happen in the
set-ups with the fewest other choices.

## 4. Fairness

Liveness is checked under the fairness each module states. None for calls that
clients may or may not make, for crashes, panics, dropped links, expiring
contexts and the firing of cron.

- **Clocks** (`Tick`, `Deadline`, `Expire`): weak; time passes.
- **A goroutine inside a call goes on**: weak; commands have timeouts, retry waits
  are timers, handlers end (with `Due` and `HandlerMax` bounding when) where a
  module says so. `RedisLock`: every goroutine in a call; `Idempotency`: `Serve`;
  `RateLimit`: `Try`, `Date`, `Sleep`, `Wake`; `Chain`: `Client`, `Goroutine`,
  `GiveUp \/ TakeResult`; a handler that hangs has no fairness, and `Forsaken`
  names it.
- **`Saga`** (`Forward`, `Backward`): a free mutex goes to a waiter, since Go's
  `sync.Mutex` starves nobody. **`Scheduler`** (`Execute`, `Ending`): `Stop` and
  `Shutdown` see the end of what they wait for.
- **`App`**: `StartAll`, `Registry`, `ContextDone`, `Drain`, `Cleanup`; a graceful
  timeout passes (`Expire`), requests need not end.
- **`Hub`**: Run's goroutine and each client's goroutines take what their channels
  have; a client's network does or does not.
- **`Kafka`**: the coordinator assigns what nobody has (`Setup`), evicts the dead
  and restarts of processes come (`Evict`, `Restart`).
- **`Rabbit`**: weak for the goroutines, the broker's deliveries and confirmations;
  strong for `Connect` alone: dialling is tried again and again, and
  succeeds if it can again and again.

`Activity`, `LogFiles`, `EventBus`, `Collections` and `Semaphore` state safety only:
nothing in that code promises when something happens, other than by its callers.

## 5. Proofs

TLAPS proves these for every value of the constants that satisfies the modules'
assumptions, and under the hypotheses named here; nothing else is assumed. TLC
evaluates the assumptions in the runs.

| Module | Theorem | Establishes |
|---|---|---|
| `RedisLockProofs` | `TypeCorrect` | `Spec => []TypeOK` |
| | `NoEternalKey` | `Spec => []KeyHasTTL` |
| | `Backed`, `Mutex`, `Sound` | under `OneWorkerPerInstance` and `LongExtend`: `[]GrantBacked`, `[]MutualExclusion`, `[]KeySound` |
| | `Refines` | `Spec => ImplementsLease`, for the whole interface |
| `MiddlewareProofs` | `TypeCorrect` | `Spec => []TypeOK` |
| | `NeverOverlap` | `[]NoOverlap` |
| | `Final`, `ReplaysAreTrue` | `[]StoredIsFinal`, `[]ReplayIsTrue` |
| | `ChainAlways` | a call's invariant, `ChainSpec => []ChainInv` |
| | `AnswersAreSound`, `EdgesDoAgree` | `[]AnswersSound`, `[]EdgesAgree` |
| `SemaphoreProofs` | `TypeCorrect` | `Spec => []TypeOK` |
| | `SemAlways`, `AtMostSizeHolds`, `CountIsSound` | the invariant, `[]AtMostSize`, `[]CountSound` |
| `SagaProofs` | `SagaAlways`, `StepsAreSound`, `SagaIsHonest` | the invariant, `[]StepsSound`, `[]SagaHonest` |
| | `AllOrNothingHolds` | `RetryCount >= 0` gives `[]AllOrNothing` |
| `SchedulerProofs` | `TypeCorrect`, `SchedAlways` | types and limits of attempts and times; the invariant |
| | `FlagsAreTrue`, `RunsAreSingle` | `[]FlagsTrue`, `[]RunsAreOne` |
| `LimitProofs` | `LimitAlways`, `LockIsExclusive`, `AnswersAreTrue` | the caches' invariant, `[]LockExclusive`, the action property `AnswerIsTrue` |
| | `TypeCorrect`, `WindowAlways`, `CountersAreSound` | `[]LimitTypeOK`, the limiters' invariant, `[]CounterSound` |
| `DeliveryProofs` | `AcksAreTrue` | `[]AcksTrue`, over Kafka and over RabbitMQ |
| | `BroadcastsInOrder` | the action property `InOrder` |
| | `EventsAreHeard` | `[]EventsHeard` |
| | `ActivityIsKnown` | `[]ActivityKnown` |
| | `LogIsKept` | `[]LogKept` |
| `AppProofs` | `ProbesAlwaysAgree` | `[]ProbesAgree` |
| | `AppAlways`, `CleanupIsQuiet`, `ConsulIsTrue` | the invariant, `[]CleanupQuiet`, `[]ConsulTrue` |
| | `HealthyAlwaysStays` | the action property `HealthyStays` |

### Hypotheses and assumptions

Three hypotheses are the theorems' own, and each is what the code leaves to those
who configure or call it. `OneWorkerPerInstance`: goroutines that share a lock
object unlock each other's key. `LongExtend`: an `Extend` shorter than the lease
takes the key from under it. `RetryCount >= 0`: with a negative `WithRetry` the loop of the attempts
is empty and a step completes that nobody called. The others need none, as their
properties say themselves what they depend on: `RunsAreOne` by `FitsTTL`, `NoOverlap`
by counting who outlived the lock, `AtMostSize` and `CountSound` by `lost`. What the assumptions of
the modules add to the types of the constants: names that stand for "none" are
nobody's name; clients, callers, keys and senders are finite sets, because they
are counted; `MaxValue` is beyond `Limit + 1`, so that capping a counter does
not hide that it is over; an application is configured with servers there are;
a gateway has the mapping of `WithResponse` and the peer of a request an address;
a handler of the event bus is subscribed once, up to four for one name at first,
since the model's largest array has four places (`Capacities`); a log's day has
hours and its age is a number of days; and there is a visit. The tables
of `EdgesAgree` go over all sets of addresses, networks and countries, but over
headers of at most two hops.

### The arguments

**Lock: mutual exclusion.** `MutualExclusion` says nothing of the key and is not
inductive. The strengthening is `GrantBacked`: a lease that still runs has the
key behind it, with the owner's ID and no less time left. Grant sets both to the
same ttl; `Unlock`'s script and `Extend`'s EXPIRE touch a key only for its owner
or lengthen it; `Tick` takes one from each. Two running leases then have the
same owner, hence (`OneWorkerPerInstance`) the same goroutine.

**Lock: refinement.** Initial states map to initial states; of the actions
`Grant` maps to `Acquire`, `ServerUnlock` to `Release` or a stutter,
`ServerExpire` to `Renew` when the key is still the caller's and to `Stray` when
it is not, `Tick` to `Elapse` or a stutter, the rest to stutters. `LeaseLock`
sees the key change, not who asked for it: that no one else releases a holder's
key is what `GrantBacked` adds.

**Idempotency.** The lock has no owner, so what makes DEL safe is time. `Owner`: the
lock entry and the request it is of age together, their times make up the lock's
timeout. `Paid`: of the granted requests all, or all but the entry's owner, have
a request that outlived the timeout to answer for them. A DEL by the owner takes
the owner with it; one by anybody else is by a request that outlived its lock, and
pays for the next one it lets in. For replays the invariant
follows the value: what is stored was put there by a request that ran to its
end, what a request read was stored, and what it answers is what it read,
decoded.

**Semaphore.** `Exact`: the counter is the number of requests that have to be
counted plus `leaked`, which is never below `-short`; a step moves one request into,
out of, or within that set, and three lemmas say what its cardinality does then.
INCR's answer then counts everybody who was given a permit but the ones missed,
which is the bound `Size + short`, wherever the key expires. `Kept` is what holds as
long as nothing was lost: nobody is missed, the key is there, and what it has left
and the time a request has had its permit make up the whole ttl (`Renewed`), so
that a key which expires under a request below that is one that was lost before.

**Saga.** `InPlace` says, for each place an execution can be at, what is known
of the steps before, at and after it: up to the turn the steps before the
current one stand and those after it are untouched; from the turn on the later
ones are settled. Compensation in reverse order, all or nothing and the honest
result are that invariant read at the right places; `Faithful` is the same for
the store.

**Scheduler.** `Alone`: a Job object is busy for exactly one goroutine, the one
between `tryStart` and `finish`. `Quiet`: from the moment `Stop` or `Shutdown`
turned cron off until they are done nobody can turn it on. `Leased`: a run has
the key, and the key's time and the run's add up to the whole ttl; under
`FitsTTL` a run is over before that is, so whoever takes a free key finds nobody
running.

**Cache.** `LockBacked` is the locks' argument again, for `TryLock` of both
caches, with the thefts the code allows (`robbed`) as its exception. `Pointing`
and `Judged` are about the memory cache's readers: a pointer that is still
current is what the map has, so that an `Expire` of the item under a reader's
eyes is an `Expire` of the key, which the call saw. That gives `AnswerIsTrue` as
a property of the step that ends a call.

**Limiters.** `CounterSound` bounds what passes in a window, `WindowInv` what
passed in the last ticks, for every number of them, by what the limiter keeps:
tokens in the bucket and what passed in the last `n` ticks are together at most
a full bucket and `n` ticks' refill; the last timestamps of the sliding window
are those of what passed last; a fixed window's count is what passed in it, and
one other window came before; a counter with an expiry is as old as the part of
its window that is over, and while one request has made a counter and not dated
it nobody else can be about to; a count that came to nothing, or whose reply was
lost, leaves `undated` behind. `passed` is a ghost that accumulates over the ticks,
so that no fold is needed; what `FailOpen` lets through is no permit and is not in
it.

**Messaging.** Kafka: no member stands behind, has marked or was told to commit
an offset with a message before it that has no verdict, and `Reasons` says where
each verdict can have come from: a letter is given up only where there are dead
letters, because its own session ended or the broker refused it; a message is
passed over only when it was published before a first session that committed.
RabbitMQ, where confirms are on (`AckCount`, `Promise`): the acknowledgements
given are those senders took and those that still lie in a confirm channel; on
the first link there is a confirmation, made or due, for every sender that
waits, so that no fewer succeed than were confirmed; on later ones nothing of
the kind holds, because senders leave channels with others' confirmations in
them.

**Application.** `TakenBack`: what Consul has is in the registry's list, or a
call of its own failed. `Ordered`: the list is empty before any server stops.
`Watched`: a request is behind an open door, or one whose `Stop` waits for it,
unless time is up. With what a registration says of each server (lemmas about
`Discovery`'s operators) the first two give `ConsulTrue`, the third
`CleanupQuiet`. For `HealthyStays`: Consul reaps who is in `sick`, and a probe puts a
server there only when its check gets no answer, which is never one that is open
and well where the check looks at its own door without credentials to show. `ProbesAgree` is a
statement about `Health`'s operators in every state.

**One call.** `ChainInv` follows an attempt. `Placed`: which of its goroutines
(`m` the request's, `h` the timeout's) is where and what there is by then; who is
in the timeout's lock came there after the deadline. `Written`: each goroutine
writes the status once, so that the text of the timeout is under any other status
only when the lock was made twice. `Answered`: what is told in time is what the
handler said. `Retried`: the client went on from an attempt because it may retry
that answer, because the server died, and then no handler works again,
because its own context is done, and then it asks no more, or because the
attempt's connection broke; a success in time that is read is not retried, which
gives `DoneTwiceOnlyIfLate`. A handler that panics after its status leaves the head
he wrote, which `Written` and `Answered` tell from an answer of his own. `EdgesAgree` needs
little of it: its parts are about `Auth`'s, `ClientIP`'s and `Status`' operators, and
the proof walks their branches and tables.

**Hub.** `InOrder` is a property of steps, and needs what waits: as long as
no broadcast found the channel full, what lies in it is in order, newer than what
`Run` is sending, and that is not older than what any client got (`Ordered`).

**Event bus.** `Distinct`: no handler is twice in the lists. `OnItsWay`:
until a handler of the name is added (`crossed`), the slice a `Publish` walks is
the list as it is now or the beginning of it, what it called is the beginning of
that slice, and what was due is all of it. `Subscribe` for the name writes beyond
that list's length, where a `Publish` has put the handlers of all events: there
the invariant ends, and so does the property. `Dispatched`: what a `Dispatch`
would clear was published, is in its batch, or came in meanwhile.

**Activity.** `ActivityInv` follows an event. `Own`: the event of a visit that has
been dealt with is in the topic, accounted for in the store, or is less
than the window after one that is. `Consumed`: for every message in the consumer's hand, the
store accounts for it or an event of the same user, not older, is yet to be
written; batches keep the latest of a user, redeliveries start again from the
topic, and `newest` only grows. `Counted`: the key that says a user is online
lives at most its time, and the user is in the set, which lives as long or is
about to be given its time, or is about to be added.

**Log files.** `Directory` relates a file to its name and its time of change: a
line in it is not younger than that time, in a compressed copy older by more
than the age, so that a file too old has only lines too old. `Cleaning`: what the
clean-up has chosen stays old enough until it is removed, as the clock only goes
on. `DayNoted` and `Open` place the open file: the hour now belongs in it, or
began within a `Write`; the day may have been read before midnight and the hour
after, which `InPlace` allows for.

### Only model-checked

`TreeBalanced` and `ContainersRight` of `collections`: what recursive
functions compute over trees, rings, heaps and texts is induction over data, which these provers
cannot do, and `TreeMap` and `Containers` declare RECURSIVE operators, next to which
tlapm does not offer its SMT solver. Liveness (`KeyFreed`, `LockReturns`,
`LockFreed`, `Ends`, `Quiesces`, `WaiterServed`, `CallReturns`, `RunReturns`,
`EverySettled`, `Resumes`, `ConnectionsEnd`): fairness and ENABLED are outside
TLAPS. Every other property of the runs, 27 of 40, is stated by a theorem.

## 6. Seen in the source

Where the code does something else than a comment or a document says, or
something a reader would not expect. The models follow the code.

**Locks and what uses them.**
- `Extend`'s GET and EXPIRE are two commands: it can change another owner's expiry
  (`redis.go:179`; `lock.go:68`: only the holder can). This is `Stray`.
- `lock.Redis.held` is a map without a mutex; goroutines that share the object
  race on it and unlock each other's key. The instance gives each its own.
- Idempotency's `SetNX` is Exists, then SETNX (`store.go:85`, `:94`), and the result
  is read before the lock is taken: a duplicate whose read failed or came too early
  runs the handler again (`middleware/idempotency/README.md:132` promises one
  charge). `WithLockTimeout` is documented as a wait, but who finds the lock gets
  a conflict at once.
- A repeated gRPC call is not answered with the earlier result (`grpc.go:20`,
  `middleware/idempotency/README.md:19`): the interceptor stores
  `json.Marshal(resp)` (`grpc.go:128`) and returns that `[]byte` (`grpc.go:152`),
  which is no message for the codec. `Endpoint` does the same and says so
  (`endpoint.go:135`). An error without a message comes back as a response
  (`grpc.go:147`, `endpoint.go:132`).
- The semaphore's INCR without its EXPIRE leaks a permit for ever
  (`distributed.go:92`, `:99`; `:27` says it does not); go-redis sends INCR and DECR
  again after a lost reply. The key may expire between INCR and the EXPIRE or DECR
  after it (`distributed.go:92-110`): who was counted no longer is, a DECR makes the
  new counter negative, and more run than there are permits, with no fault at all.
- The scheduler's lock ttl covers one attempt, not the retries (`cron.go:284-287`,
  `scheduler/README.md:9`, `:246`). `Remove` on a stopped scheduler leaves the cron
  entry, and the job fires again after `Start` (`cron.go:95`). `Shutdown` does not
  wait for a triggered run that has not reached `wg.Add`; a second `Shutdown`
  returns nil at once; a job removed and added again is a new object, whose
  predecessor may still run.
- Saga: a negative `WithRetry` completes steps without calling them; a panic skips
  compensation; the last save uses a context that is done after a timeout; no code
  resumes from the store.

**Cache and limiters.** The memory cache's `Increment` drops the expiry
(`memory.go:227`), so a distributed limiter over it dates its counter once and
loses the date at the next request; `Get` and `Exists` delete the key they found
expired after they dropped the lock, fresh value or not (`memory.go:142`). The Redis cache hands a ttl that is not
positive to EXPIRE, which then deletes the key (`redis.go:187`). The distributed
limiter passes everybody when the cache reports an error (`distributed.go:84-88`); if
the increment was executed all the same, the count goes up without a permit, and
a first one is never dated. No limiter queues its waiters: one can wait for ever
while others come.

**One call.** On the gateway, `WithResponse` turns a refusal of `WithAuth` into
Internal (`gateway/server/options.go:248`, `response/grpc.go:145`);
`WithAutoDiscovery` of the gRPC server is never applied (`grpc/server/options.go:262`).
A refresh needs a token that still validates, so its window never opens for an
expired one. `Revoke` deletes nothing. The default claims mapper yields no roles.
A lower-case "bearer" is refused over HTTP and accepted over gRPC. A
`BusinessError` returned raw over gRPC is Unknown. HTTP's retrying client hands
out a drained body on its last attempt. A panic in the timeout's goroutine, with
recovery outermost, ends the process (`middleware/recovery/README.md:167`). A
handler that first writes after its deadline may wait for a token that nobody
gives back (`Jammed`). A client that loses the reply of a server that lives takes it
for a network error and sends the request again, whatever was done
(`retry/http.go:81`, `retry/grpc.go:48`). A panic after the status was written leaves
the client that status, with a body cut short (`recovery/http.go:49`).

**Application.** Nobody reads `errCh` (`app.go:133`): a server that fails to start
does not end `Run`. `running` stays set when a BeforeStart hook fails. A rollback
under a done context leaves services until Consul reaps them; nothing registers
again after a reap. A gateway gets the protocol "http" and `Discover` asks for
"grpc". Health probes behind auth answer 401. `SetServingStatus("readiness")` does
not affect the service "". A `Start` that comes after its `Stop` opens a door nobody
closes. Cleanups get an expired context after the timeout.

**Kafka.** A failed message is marked all the same (`kafka_consumer.go:423`; the
comment at `:203` says it is not, and comes again after the next rebalance). With OffsetNewest, what is published
before the first commit is passed over after a crash. A dead letter is sent under
the session's context and lost when that ends. `Client.Shutdown` closes
producers and consumers together.

**RabbitMQ.** `CommitMessage` ignores its argument and acks the delivery in hand; a
second answer makes the broker close the channel, and nothing reconnects it. After
a reconnect the consumer reads the first channel's deliveries
(`rabbitmq_consumer.go:270`). The notification is a non-blocking send
(`rabbitmq_connection.go:115`): a busy goroutine misses it. A `Close` while
redialling leaves the new connection open; a failing `setupChannel` is not tried
again on a live link. Senders share one confirm channel
(`rabbitmq_producer.go:197`), and one may wait on a channel it did not publish on.

**Hubs, events, activity, log files.** A client whose unregister is read before its
register stays in the map (a ghost); `Send` on a closed channel panics, in Run's
goroutine for a broadcast; a broadcast that finds the channel full overtakes the
queue (`websocket.go:246`); SSE drops events silently; an SSE client that the
application closes ends its request without unregistering and stays in the map
(`sse.go:331`); `Broker.topics` has no mutex
and keeps clients that left. `Publish` appends to a slice whose array `Subscribe`
writes. Two requests in one dedupe window can both publish; an older event
overwrites a newer `last_active`; `GetOnlineCount` counts users who left.
Compression renews the file's time, so that old logs live about twice as long;
it drops the error of gzip's `Close` and removes the original; a
`Write` just after the hour's end puts the next hour's lines into the old file
(`logger/writer.go:127`); a `Write` after `Close` opens the file again.

## 7. What is left

**Left out of the modelled parts.** The smaller ones, by module.

- `Semaphore`: the local semaphore, `Available`. `Idempotency`: `Store.Delete`.
  `Saga`: `Get`, `List`, `Delete` of the store. `Scheduler`: `Get`, `List`, `Running`.
  They change nothing another operation reads. `idem_safe` decodes as HTTP does; the
  theorems are for every transport.
- `Cache`: `MGet`, `Ping`. `Slices`: a page's offset beyond int32; functions of one
  line, which a law would only repeat; the GORM adapters of pages and sorts.
- `Chain`: one server that is not restarted; what the timeout's writer does after
  the response is over; the stream interceptors and `retry.Run`. Connections break
  in the set-ups where the lock of the HTTP timeout takes no part (the theorems
  have them everywhere).
- `App`: one `Run`; slow checkers; `Register` outside the registry; a hook or
  cleanup that does not end. A cleanup is one action; a deregistration that
  outlives its caller's context takes effect at once or never.
- `Kafka`: one partition; batches and the asynchronous producer. `Rabbit`: `Consume`
  has been called; one message per sender.
- `Hub`: the middlewares of WebSocket connections other than authentication, which
  wrap one call each; the text of SSE events. `Activity`: what only reads; the hash's expiry of 30 days.
  `LogFiles`: the static file mode, `Stat` errors.

**Proofs that are worth while next.** Every safety property that these provers can
reach is proved; what they leave is `collections` and liveness. Not stated yet are
refinements: of the cache's compare-and-delete by `LeaseLock`, which `LockBacked`
nearly gives, and of `Semaphore` by a counting semaphore that may leak, which
`CountSound` nearly gives.
