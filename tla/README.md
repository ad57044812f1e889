# Formal models of the load-simulation reservation service

The program is a seat-reservation API with one business route,
`POST /api/v1/events/:eventId/reservations`, built to be measured under load:
three or more app instances behind HAProxy, one Postgres database, optionally a
Redis cache and stock gate, and optionally an asynchronous write path through
RabbitMQ with its own workers. This directory holds TLA+ models of its control
logic, the TLC runs that check them on small instances, and theorems checked by
TLAPS. `PROJECT.json` is the machine-readable index of the same material:
components, runs, the source lines each definition models, hazards, theorems.

## Inventory

| Component | Source (`app/src`) | State | Operations | Correct when |
|---|---|---|---|---|
| Reservation transactions | `reservation.js`, `worker.js` handle, `db/init.sql` | rows of `events` and `reservations`, row locks, index entries | `createNaive`, `createOptimized`, `handle` | no seat sold twice, one row per key, answers are true of the database, nothing deadlocks |
| Asynchronous write path | `reservation.js` createAsync, `cache.js` reserveStock, `queue.js` publish, `worker.js` | `stock:<id>` counters, three queues, unacked messages, the tables | take, publish, confirm, release; deliver, handle, retry, dead-letter | a 202 is never lost and is kept, the gate and the database agree |
| Cache tiers | `cache.js`, `reservation.js` createReservation | local map, Redis entries, running loads | `cacheGet`, `cachePut`, `cacheInvalidate` | a cached refusal has a reason in the database; concurrent loads are shared and strand no caller |
| Queue connection | `queue.js`, `worker.js` main | connection, channel, `mqReady`, reconnect timer | connect, close events, reconnect, `closeQueue` | ready means a live channel; a lost broker is found again; consuming resumes |
| Overload protection | `overload.js`, `server.js` hooks | in-flight count, loop lag | `shouldShed`, `withTimeout` | the count is the number of requests being served and never leaks |
| Connection pool | `db.js` | connections in use, waiters | `pool.connect`, release, `closeDb` | bounded, no caller starves, every connection returns |
| Lifecycle and load balancer | `server.js` boot and signals, `main.js`, `haproxy.cfg` | readiness, listening socket, health state, cluster workers | boot, drain, close, respawn | no request meets a closed port when the drain is long enough; shutdown ends |
| HTTP handler, error classes | `server.js`, `db.js` classifyDbError | none | validate, dispatch, map errors | a transient failure is a 503, a permanent one a 500 |
| Metrics, schema scripts, k6, run and analysis scripts | `metrics.js`, `db/*.sql`, `k6/`, `scripts/` | counters, files | observe, reset, generate, analyse | – |

App instances, workers and Postgres run concurrently; within one Node process
every `await` is a point where other requests run. Components interact through
the database (row locks, the unique index on `idempotency_key`), through the
Redis counters, and through messages (at least once, possibly to another
worker). The hard behaviours, each at its source line, are the `hazards` of
`PROJECT.json`: interleaved transactions, lost commit replies, overlapping
calls with one key, redelivered messages, publishes that fail after the broker
took the message, crashes between two systems, and retries.

## Plan

Done, in this order:

1. `ReservationBase`, `ReservationStore`, `ReservationTx`, `ReservationRetry`:
   the transactions, since everything else relies on them, with the abstract
   store they implement.
2. `AsyncWrite`: the path over Redis, RabbitMQ and the worker, using that a
   transaction is one atomic step (shown by 1), and `PromiseStore`, the abstract
   promises it implements.
3. `Cache`: the two tiers, singleflight and the short circuit in front of the
   reservation paths.
4. `QueueConn`: connection, channel and timer of `queue.js` with the worker's
   consumer registration.
5. `Overload`: hooks, shedding, timeouts, the work a timeout abandons and the
   order of the shutdown over a pool of `PG_POOL_MAX` connections, which
   implements `ConnectionPool`; statuses and error classes with it.
6. `Lifecycle`: boot order, readiness, the load balancer's fall/rise counting,
   drain, shutdown, crashes and restarts, around `QueueConn`.
7. `LoadPlan`: the load plans of the k6 scripts, the windows the analyzers cut
   out of them, and the helpers both rest on.
8. Proofs: every safety property and every refinement of every passing run.

Left: `Cache` composed with `ReservationRetry` and with `AsyncWrite` (the short
circuit in front of the key look-up and of the gate); crashes of the broker
while copies for the retry queue are unconfirmed; the cluster primary with
several workers at once; `capacity.mjs` and the statistics over CSV files.

## Modules

| Module | Models |
|---|---|
| `ReservationBase` | events, keys, requests, answers, the seats of a set of rows |
| `ReservationStore` | the abstract promise: each call is decided by one atomic step |
| `ReservationTx` | `createNaive`, `createOptimized` and `handle`, one action per statement |
| `ReservationRetry` | `ReservationTx` with a history variable: was the key committed when the call came in |
| `AsyncWrite` | `createAsync`, the gate, the queues, the consumer callback and its failures |
| `PromiseStore` | the abstract promises of the asynchronous path: promise, accept, fulfil, withdraw |
| `Cache` | `cacheGet`, `cachePut`, singleflight, expiry, the short circuit of `createReservation` |
| `QueueConn` | `connectOnce`, the close handlers, the reconnect timer, `startConsuming`, `closeQueue` |
| `Lifecycle` | one process around `QueueConn`: boot, `/healthz` and HAProxy, signals, shutdown, crashes, restarts |
| `ConnectionPool` | the abstract promise of `pg.Pool`: bounded, in order |
| `Overload` | the hooks, the route and its statuses, shedding, `withTimeout`, the pool's queue, `app.close` and `pool.end` |
| `LoadPlan` | k6 scenarios, schedules, analyzers' windows, keys, the Zipf sampler, the slope |
| `ReservationTxProofs`, `AsyncWriteProofs`, `GateProofs`, `CacheProofs`, `QueueConnProofs`, `LifecycleProofs`, `OverloadProofs`, `LoadPlanProofs` | lemmas and theorems |
| `MCReservationTx`, `MCReservationRetry`, `MCAsyncWrite`, `MCCache`, `MCLifecycle`, `MCOverload` | small instances |

Operators whose comment begins with "Fault:" are the mistakes the properties
are measured against (a lock not taken, a condition dropped, a copy not sent).
No specification uses them; `PROJECT.json` pairs each with the definition it
would replace and the property that then fails.

### ReservationTx

A `Caller` is one activation: a request being served or a message being
handled. `pc` names its next statement, `seen` is the local `ev.remaining` or
the value `RETURNING` gave, `result` the return value of the transaction
callback until COMMIT, `answer` what the caller got. `rowLock` holds row locks,
`inserted` the transactions with an uncommitted index entry. Writes become
visible at COMMIT (`Publish`), as READ COMMITTED has it.

- `SELECT ... FOR UPDATE` and a matching conditional UPDATE wait for the row,
  then see its newest committed version. A row that does not match is skipped
  without waiting, which is why `UpdateNothing` needs no lock.
- The unique index makes an INSERT wait for a transaction that inserted the
  same key; if that one commits, the INSERT fails with 23505, the whole
  transaction rolls back (`InsertDuplicate`, `Rollback`).
- Any statement may fail (`FailInTx`, `FailOutsideTx`): server-side timeouts,
  no connection in time, a lost connection. `CommitUnheard` is the commit whose
  reply is lost.
- A transaction keeps its connection until it ends; a query outside one takes
  and returns it in one step. `PoolMax` bounds transactions per process.

Left out: `alreadyReservedByUser` and `txHoldMs` (a read and a wait, no effect
on the outcome; any interleaving is already allowed there); the generated id of
a row (the key identifies it); the foreign key (the event row is locked or
updated before the INSERT); the tuple lock Postgres keeps when an UPDATE
re-checks a row and then skips it (it only delays others).

### AsyncWrite

`step[c]` is where an API call is in `createAsync`; `gate` is the counter
`stock:<id>`; `main`, `retry`, `dlq` are bags of message copies with their
attempt number (`x-retry-count`); `job` and `stage` describe each prefetch slot
of a worker. A database transaction is one step (`WorkerOutcome`, `Apply`).
`Faults` selects the failures an instance admits: Redis commands that fail with
or without effect, loss of the counters, publishes that fail before or after
the broker has the message, app crashes, transactions that fail, commits whose
reply is lost, and workers that die or lose their broker connection while the
transaction goes on (`zombie`). Bags, not sequences: redelivery and the retry
queue reorder anyway, so every order is allowed.

`PromiseStore` says what all of this amounts to for a caller while Redis keeps
its counters and no confirm is lost: a call is promised seats only if the event
covers them together with everything promised before (`Promise`, the step of
`reserveStock`), 202 is said to a promise or to a booked key (`Accept`), a row
appears for a promise only (`Fulfil`), and only a promise nobody was told of goes
away (`Withdraw`: a failed publish, a process that died). `Promised` maps the
steps, answers and messages of `AsyncWrite` to it; it includes the calls whose
app died after the publish, because their message may still become a row.

Assumed: `STOCK_GATE=1`, `MQ_CONFIRM=1`, counters seeded from the tables
(`scripts/run-mq.sh`), a durable broker. The copy a worker sends to the retry
queue is not confirmed by the broker (a consumer channel has no confirms), so a
broker crash at that moment could lose it; broker crashes are not modelled.
Messages that do not parse are not modelled: `publish` writes them all.

### Cache

`local[i]` is the `Map` of an instance in insertion order; an entry that
expired stays in it, and counts against `CACHE_LOCAL_MAX`, until a look-up
finds it, as in the code. `inflight` is the map of running loads: `Lead` starts
one, `Join` waits for it, and `Resolve` wakes everyone who shares it in one
step, because the promise's callbacks run before anything else does. A load
reads the row (`Load`) and its reply arrives later (`Fill`), so writes may
overtake it. Time is abstracted: an entry may expire at any moment, which
covers every TTL and jitter. The mode (local, redis or tiered; singleflight on
or off) is chosen in `Init`, so one run covers several settings. The second
look at the local map inside singleflight runs in the same tick as the first
and finds the same, so it is not a step of its own. Requests have keys of their
own here: replays are the subject of `ReservationRetry`. `cacheInvalidate` has
no caller and is no action.

### QueueConn

A slot is one attempt (`work[k]`, where `connectOnce` is) and the connection it
leaves behind (`link[k]`, `chan[k]`), so that attempts may overlap, as they do
once a channel closes alone. `conn`, `ch`, `mqReady`, `reconnectTimer` and
`closing` are the module's variables, `init` the promise of the first
`initQueue`. A lost connection is `stale` until it is noticed (a socket error
or a heartbeat); then the close handlers run and its pending calls reject in
one step, because amqplib emits both in one tick. `onto[k]` is the channel an
attempt registers its consumer on: the code reads the module's `ch` at that
moment, which need not be its own. `ChannelCloses` is a channel the broker
closes while the connection stays: only `mqReady` is told. After that the loop
may stop or fork, so what is claimed of one connection and of one consumer is
claimed for `channelFaults = 0`.

`closeQueue` waits for the reply to `ch.close()`, then for that to
`conn.close()`, and only the broker's reply settles either: a connection that is
lost in between leaves `quit = "lost"`, from which it does not go on (the
reconnect is switched off by then, and nothing else wakes it). From the moment
a channel or a connection is being closed (`Closing`) nothing can be sent on it:
an attempt that is under way there fails, and an acknowledgement throws, as on a
channel that is gone, in a consumer callback that nothing catches. `Orphaned`
says so, and `Lifecycle!OrphanEnds` ends the process.

### Lifecycle

`phase` is where the process is: `cache` and `queue` of the boot, `run`, then
`drain`, `close` (`app.close`), `closeQueue`, `closeCache`, `closeDb`. One
behaviour is an app or a worker (`consumer`); the module extends `QueueConn` and
gives it its next-state relation. Time is counted in health checks: `left` is
what is left of `DRAIN_WAIT_MS`, `streak` the checks in a row that contradict
`health`, HAProxy's opinion (the check is the one `haproxy.cfg` configures). A
request may arrive as long as HAProxy thinks the server is up. Whatever died is
restarted unless it was told to stop.

Signals come at any moment, also before the handlers are installed
(`TermAtBoot`). Then the signal has its default effect, which depends on where
the process runs: a cluster worker dies of it, while node as process 1 of its
container (`Dockerfile`, `CMD ["node", ...]`) is not touched and boots on. Both
are possible in the model, and the grace period may end at any moment after a
signal (`Killed`), also of a process that never noticed it. `closeCache` calls
`quit()`; of a client that is connected it is answered or rejected, and caught
either way. Of a client that is not, it may stay in the queue of commands that
wait for a connection: phase `offline`, which only the end of the process leaves.

Two comments say more than the code does, and the model follows the code.
`server.js:292-293` wants the app to boot without Redis: `redis.connect()`
retries and does not reject, so the boot waits for Redis. The run
`lifecycle_redis` shows it, and `BootEnds` has the return of Redis as its
premise. `queue.js:131` says that `initQueue` does not throw: it schedules a
reconnect and throws on. An app catches that and listens; a worker's `main`
exits with 1 and its container is restarted, which also leads to a consumer.

### Overload

`stage[r]` is where a request is between `onRequest` and `onResponse`, `job[r]`
its `createReservation`, which goes on when the timeout has answered. What a job
returns or throws is chosen from `Results`. The handler up to its first `await`
is one step; so are shedding and the decision it rests on. `waiters` is the
queue of the pool; `server` goes from `up` over `closing` (`app.close`) and
`ending` (`pool.end`) to `exited`. A client that gave up may leave a response
that never finishes (`leaked`): `onResponse` does not run and the counter keeps
it. `lagging` changes freely when the lag probe is on. `ClassifyDbError`,
`StatusOf`, `Bucket`, `Reserve` and `RealFailures` are the tables of the
server, of k6 and of the report. `burnCpu` and `allocateGarbage` only take time.

### LoadPlan

There is no state in this part of the program worth stepping through, so a
behaviour is one `input` (the options of a run, the dice of two virtual users,
the weights of the events, the samples of a column) and the invariants compare
what the definitions compute from it with what the comments promise. The seconds
of a scenario, its warm-up and its `gracefulStop`, the schedule
`handleSummary` computes on its own, and the window of each analyzer are
translated one by one. A key's fields of four hex digits wrap at `Field`.

A window is what an analyzer passes to its queries: `to` and `w`. What the
queries read is more than that. CPU columns ask for `rate(...[10s])[w:5s]`
(`analyze.mjs`) or `rate(...[15s])[w:5s]` (`analyze-tls.mjs`,
`analyze-app.mjs`), whose first samples lie 10 or 15 s before `to - w`; the
sub-queries of gauges look one second further back. The field `back` of an
`Analyzer` holds these look-backs, and `WindowsAreSteady` says for each of them
what the columns read:

- nothing that is read comes from the ramp into the hold or from after it, if
  the hold is long enough for the window not to be empty and the run lags
  behind its schedule by no more than what is cut off the head less the
  look-back. For columns of counters that is 15 or 20 s, for CPU columns only
  5 s. A later start of k6, or a hold so short that an analyzer falls back on a
  window of one second, puts the ramp, the gap or the warm-up into the CPU
  columns, and nothing in the scripts notices.
- CPU columns therefore do read the first seconds of a hold, which
  `docs/labs/01-baseline.md:98` says are dropped: they are steady in rate, but
  the settling they are dropped for is in them.
- with `SPIKE=1` (the spike rounds of `run-mq.sh`) a window holds the requests of
  `LbSpike` together with the steady ones; in a hold of more than 70 s the spike
  has ordinary load on both sides, its `gracefulStop` included.

The look-back of one second for gauges takes it that scrapes, one per second,
succeed; Prometheus would otherwise go back up to five minutes.

## Runs

| Run | Bounds | Shows |
|---|---|---|
| `tx_safety` | 3 callers (one per path), events of 2 and 1 seats, 2 keys shared by both, quantities 1 and 2, pools of 2 | conservation, uniqueness, current decisions, truthful answers, replays, no deadlock, refinement of the store |
| `tx_live` | pools of one connection, a missing event, an event of 2 seats | every call is answered |
| `tx_collision` | as `tx_live` with pools of 2 | finding: overlapping calls with one key are not replayed |
| `async_all_faults` | 2 calls, 2 workers of one slot, 1 retry, any 2 failures | nothing is forgotten or given up early; the queues drain |
| `async_promises` | 3 calls, 3 keys that may be shared, a worker with 2 slots, 1 failure | promises are kept, the gate never oversells and, with fresh keys, agrees with the database; refinement of `PromiseStore` |
| `async_gate_fallback` | one failing Redis command | finding: the fallback sells promised seats |
| `async_redelivery` | one worker failure | finding: a booked message is counted as a failure after its 202 |
| `cache_tiers` | 3 calls on 2 instances, local map of one entry, 3 modes | loads are shared and strand nobody; a copy refuses only with a reason |
| `cache_refusal` | the same | finding: a cached sold_out refuses a request that fits |
| `lifecycle` | 2 slots, one outage, one channel fault, one stop, one crash, one Redis failure, drains of 0 and 2 checks, fall 2, rise 1, one request at a time; app and worker | the reconnect loop neither dies nor forks, ready means usable, no request meets a closed port, a shutdown ends by itself but for two places where it may hang, the boot ends, the broker is found again |
| `lifecycle_redis` | the same without outages, channel faults and crashes; Redis may be away from the start | finding: the app does not listen without Redis |
| `overload` | 3 requests, a pool of one, one client that gives up, 4 settings, 4 results; the plans, keys, weights and samples of `MCOverload` | the counter is exact, the bulkhead bounds the work, answers agree with jobs and statuses with each other, the exit is clean, everyone is answered, the jobs implement `ConnectionPool`; what the analyzers read is steady, look-back included; helpers exact |

`async_promises` excludes `redis`, `evict` and `confirm`: with any of them the
property is false of the code. `async_gate_fallback` shows it for `redis`.
With `confirm` (the broker has the message, the confirm is lost) `createAsync`
gives the seats back although the message will be booked, and the same seats are
promised again; set `Faults` to `{"confirm"}` in its configuration to see the
trace. With `evict` the counter restarts at 0 and everything is refused.

Why the bounds are enough to be interesting: conflicts are between two calls on
one row or one key, and a third caller observes or interferes; two seats with
quantities 1 and 2 give both "just enough" and "one too few"; callers of
`ReservationTx` submit again and again, so their behaviours are bounded by the
seats, not by a counter. In `AsyncWrite` each call is made once, one retry
separates first and last attempts, and `MaxFaults` bounds failures; two cover
a failure during the recovery from another. In `Cache` two calls share an
instance and one has its own, and a map of one entry makes every second event
evict. In `Lifecycle` two slots are what one channel fault can lead to (the
connection that stays and the attempt beside it); each kind of failure happens
once, in any order with the others, and a second stop, crash or outage would
meet the state the first one reset. A drain of 2 checks is exactly `Fall`, one
of 0 is the setting without a wait. In `Overload` a pool of one makes the second
job wait and the third stand behind it; the four settings turn each limit on
alone or with the delay before it. `Field = 3` and `Requests = 4` let a field of
the key wrap once. The holds of `LoadPlan` include those that are shorter than
what the analyzers cut off.

Deadlock checking is off where the system really may stop: in `AsyncWrite`,
`Cache` and `Overload` the finite set of calls ends (and a behaviour of
`LoadPlan` is one input), in `Lifecycle` every fault is used up and an idle
worker whose channel closed alone has nothing left to do. `ReservationTx` is
checked for deadlock.

The findings are behaviours of the code that contradict a comment or a
document; each is a run of its own that checks the one property.

## Fairness

`ReservationTx!FairSpec` has strong fairness of each caller's next statement:
`pg.Pool` serves waiters in arrival order and Postgres queues the waiters of a
row lock and of an index entry, so a statement that is enabled again and again
is not passed over for ever. Submitting is not fair (clients need not call) and
neither are failures. `AsyncWrite!FairSpec` has weak fairness of each call that
has begun, of each worker slot, and of the retry TTL; the number of failures is
bounded by `MaxFaults`, so liveness says what happens once failures stop.
`Cache!FairSpec` has weak fairness of each call that has begun: every Redis
command and query is answered or fails. Expiry is not fair: nothing relies on it.

`Lifecycle!Fairness` is weak fairness of what happens without anybody's help:
the steps of the boot and of the shutdown, the reconnect timer, the steps of an
attempt, the noticing of a lost connection (amqplib sends heartbeats), the end
of a request, and HAProxy's checks. `Deploy`, `Term`, `DebugReady` and the
return of broker and Redis are not fair; where the latter matter they are
premises (`<>[]broker`, `[]<>redis`), and Docker's restart is `Start`, within
`Boots`. `Killed` is not fair either: `ShutdownEnds` holds because the drain,
the requests and the closing end, not because somebody kills the process, and
where that is not so (`quit = "lost"`, phase `offline`) it says so. A closing
handshake with a broker that is connected is fair: the broker answers or the
connection is lost. So is `quit()` of a connected Redis client, which is answered
or rejected. `pool.end()` is one step here; that it returns once the last
connection is back is what `Overload` shows. `Overload!Fairness` is weak fairness of callbacks
and timers. `JobEnds` is not fair: the database need never answer, and
`EveryoneIsAnswered` speaks of the settings with a request timeout.

## Proofs

TLAPS proves every safety property that a passing run checks, for any sets and
numbers the named assumptions admit; `PROJECT.json` lists the theorems. An
invariant is seldom inductive alone, and each proof rests on a strengthening of
it:

**`ReservationTxProofs`** (any sets of callers, events, keys and requests, any
quantities, totals and pools). `Inv` is the conjunction of the type invariant and
the named properties. `BooksBalance` needs `LockDiscipline` and
`DecisionIsCurrent` (the value a transaction writes is still the committed one,
because it holds the row), and `OneRowPerKey` (so that the new row adds exactly
its own seats). `DecisionIsCurrent` needs that only the holder of a row
publishes it. `FindingsStayTrue` holds because seats only leave and keys only
arrive. `StepKinds` sorts the actions by what they change; `PublishStep`
carries the one step that changes the tables. Conservation is cardinality
arithmetic on seats. `DeadlockFree` follows from the
lock order: the row before the index entry. The refinement maps `req`, `answer`
and the tables identically; `Commit` and `CommitUnheard` with an inserted row
map to `Create` and `CreateUnheard`, other ends to `Decline`, and everything
between to stuttering. `RetriesAreReplayed` adds `OnlyReplays`: a caller whose
key was committed when it came in never gets past its look-up with another
result (the worker looks nothing up, and is not part of the property).

**`AsyncWriteProofs`** (any finite sets of calls and slots, any `MaxRetry`, any
`Faults`). An accepted call is `Remembered` from the broker's confirm on: by a
copy in a queue, a slot that has not acknowledged it, or a decision. `Counted`:
the attempt number a copy carries is at most the failures its call had. That
every 202 is settled (`AcceptedIsSettled`) is liveness, but `RestSettlesAccepted`
reduces it to the one thing that needs fairness, that the queues come to rest
(`QueuesDrain`, which TLC checks): an answer given stays given, and what still
remembers a call when the queues are empty is a verdict or the dead-letter queue.

**`GateProofs`** (the same, with `Steady`: no `redis`, `evict` or `confirm`
among the faults, the three that break the promise). The counter is compared
with every call that may still take its row (`Debtor`), not only with those
that were promised something: the app may die after the publish. `Covered` says
that the gate plus what they are owed stays within `events.remaining`;
`TrueVerdict` that a refusal by the worker means a booked key. `GateIsExact`
strengthens the inequality to an equation when keys are fresh and no call died.
`AsyncImplementsPromises` maps every step to `PromiseStore`: `Decr` below the
limit is `Promise` (what is promised is among the calls `Covered` counts),
`Confirm` is `Accept`, a worker's booking is `Fulfil` (with a `Withdraw` when the
worker dies over it), and every other step withdraws or stutters.
What `PromiseStore` guarantees (`Kept`: the table has the seats of everything
promised, and an accepted call holds a promise or finds its key booked) is proved
of it alone (`StoreKeepsPromises`) and carried over (`PromisesHoldSeats`).

**`CacheProofs`** (any calls, instances, settings and map sizes). `Maps`: each
local map stays bounded with one entry per key through eviction; `Seen`: every
state held anywhere, also a reply still under way, is `Just` (the database would
refuse some request for it), which is kept because seats only leave; `Flight`: a load that runs is in `inflight`, once.

**`QueueConnProofs`, `LifecycleProofs`** (any slots, faults, drains, fall, rise).
`QInv` says where the connection and the channel of each attempt are (`Slots`),
that something leads to a connection (`Loop`), and, while no channel closed
alone, that it is one thing and `ch` is its channel (`Calm`); `InUse`, a part of
`Calm`, is the other direction of `ReadyIsUsable`: an attempt that came to its
end left `mqReady` set and the worker consuming on its own channel. `LifeInv` adds
what the load balancer has counted: `streak + left >= drain` while it still
thinks the draining server is up, so that a drain of `Fall` checks is enough.

**`OverloadProofs`** (any finite set of requests, any pool, any settings and
results). `Courses` says what a request has at each stage; the queue of the pool
holds exactly the jobs that wait, once each; the bulkhead follows because
the requests that are worked on are among those the counter counts.
`OverloadImplementsPool` maps the jobs that hold a connection and the waiters to
`ConnectionPool`: timeouts, abandonment and shutdown are a release, a caller
that gives up, or a stutter.

**`LoadPlanProofs`** (any ladders, ramps, holds, warm-ups, durations, delays, any
field size, weights and samples). The definitions here are recursive functions.
`Iterates` builds a function that satisfies a recursive equation over `0..n`, so
that the one the definition chooses satisfies it, and `Induction` (the
least-number principle, for the set of indices where a property fails) gives
what its values are. The stages of a ladder then end where `handleSummary` says
(`ScheduleIs`, `EndsAre`, `LadderIsSteady`). What an analyzer reads, its window and
the look-back before it, lies in a hold by `WindowWithin` and `HoldIsRead`, for
every lag up to the head less the look-back; `SpikeIsInside` is the part about
the second scenario. Keys are injective in the pair of virtual user and
sequence number (`KeysAreInjective`) because a sequence number fits its two
fields (`FieldAssumption`) and never falls (`SequenceGrows`). The
binary search keeps the first event that reaches `r` between its ends
(`FirstInHalf`); the slope is an identity of polynomials, with the five samples
the definition `SlopeIsRegression` speaks of.

The assumptions are those named in the modules (`EventAssumption`,
`TotalAssumption`, `RequestAssumption`, `CallAssumption`, `SlotAssumption`,
`LifeAssumption`, `ReqAssumption`, `PlanAssumption`, `FieldAssumption`, ...): finite sets where something is counted,
positive quantities and limits, and null values that are no members.

Only model-checked: liveness under fairness (`EveryCallAnswered`, `QueuesDrain`,
`EveryCallFinishes`, `ShutdownEnds`, `BootEnds`, `FindsBroker`,
`EveryoneIsAnswered`), because ENABLED is out of the prover's reach.

## Not modelled

- Composition of the short circuit with the key look-up behind it and with the
  gate: `Cache` gives every request its own key and uses the synchronous path.
- Broker crashes that lose an unconfirmed copy;
  several cluster workers at once (they share nothing but the port and are
  alike); the primary only restarts and signals its workers.
- Unrecognised failures of the database are answered 500 although some of them
  pass; the model has them, but no comment says what they should be.
- `cacheInvalidate` has no caller.
- k6: `appSelector`, the
  distributions of `pickEventId` other than Zipf, the text of summaries.
  Analyzers: the fallback windows without a schedule, statistics over CSV files
  and logs, `capacity.mjs`.
- Metrics, the schema and reset scripts and the shell scripts observe or drive
  the program. nginx does no active health checks. PgBouncer and TLS change
  latencies, not outcomes, of the code modelled here.
