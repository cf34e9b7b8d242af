# Verification of the PostgreSQL data foundation

TLA+ models, TLC runs and TLAPS proofs of `pgfoundation` (the data-access
library) and of what its service shell builds on it. Paths are relative to the
repository; `PK` stands for `src/postgresqlmodule/code/pgfoundation`, `SV` for
`src/postgresqlmodule/code/pgfoundation_service`, and "doc NN" for the file of
`src/documentations/` with that number.

## 1. The system

`pgfoundation` is an asyncio library: one process, one event loop, many tasks.
Tasks interleave only at an `await`, and a task can be cancelled at any `await`.
`SV` exposes it over HTTP: plain asynchronous Django views, and in front of them
an ASGI handler that opens and closes the pools with the process (`lifespan`).

| Component | State it keeps | Operations | What is hard |
|-----------|----------------|------------|--------------|
| transaction runner, unit of work (`PK/_internal/access/transactions.py`, `uow.py`) | attempt counter; the pinned connection and its transaction | `run_transaction`, `__aenter__`, `__aexit__`, `execute`, `execute_many`, `savepoint` | every await is an interleaving and a cancellation point; retry of partial work; lost COMMIT answers |
| psycopg adapter (`drivers/psycopg_driver.py`) | isolation level, transaction status and subscriptions of reused connections; the bounded pool | `acquire`, `release`, `begin`, `execute`, `execute_many`, `stream`, `copy_stream`, `listen`, `health`, `open`, `close` | state left on a connection reaches its next holder; errors that are not mapped |
| error mapping (`drivers/errors_map.py`, `core/errors.py`) | none | `map_error` | which errors are retried, which reach a client as its own fault |
| circuit breaker, `ResilientPool` (`resilience/`) | state, failure counter, time of opening | `allow`, `on_success`, `on_failure`, lazy half-opening; `acquire` | answers of overlapping calls arrive late; cancelled probes |
| metering (`observability/`) | none (counters elsewhere) | delegates and counts | agreement with what the caller is told |
| handle (`api/handle.py`) | none; borrows connections | `query`, `execute`, `execute_many`, `view`, `function`, `procedure`, `stream`, `copy_stream`, `listen`, `fetch_since`, `run_transaction` | async generators that are dropped early; calls made in a loop body |
| registry, pool factory, facade (`connection/registry.py`, `api/facade.py`) | name -> pool | `build`, `register`, `get`, `start`, `aclose`, `health` | a start or a shutdown that stops half-way |
| incremental fetch (`access/watermark.py`) | the caller's watermark | `fetch_since` | rows that commit late, ties, NULL keys |
| interval, invocation, SQL compilers (`access/`) | none | compile a request to SQL | boundaries, NULL, parameters that collide |
| configuration (`config/`), clock, models, ports | settings | load, validate | what the validation lets through |
| service shell (`SV`) | the foundation, per process | lifespan, views, gate, error mapping | requests in flight at startup, shutdown and failure |

A call goes view -> facade -> registry -> handle -> `MeteredPool` ->
`ResilientPool` (breaker) -> `PsycopgPool` -> `psycopg_pool` -> server, and
answers come back the same way.

`UnitOfWork` pins one connection for its lifetime; the operations of the handle
borrow one for a single call, and a stream or a listener until its generator is
closed. The pool is shared by all tasks, and so is the breaker in front of it:
what one task leaves in either reaches the next. Nothing is persisted by the
library itself; the watermark of incremental fetches is kept by the caller.

What each component has to guarantee:

- runner and unit of work: a run commits at most once, as one unit, and its
  answer tells; attempts are bounded and independent; a connection is exclusive,
  is given back on every exit, and carries nothing to its next holder;
- breaker: its two fields agree; during an outage it keeps opening; after it, it
  closes for good; it follows the documented diagram, late answers apart;
- incremental fetch: no row is skipped; a row is processed twice only after a
  crash; the watermark never goes back by itself;
- streams and listeners: a session has one user at a time, also when its generator
  is dropped in the middle of a cursor; what the pool hands out is outside a
  transaction; nobody waits in `acquire()` for ever, and every connection comes back;
- lifecycle: requests find a foundation only when all of its pools are open; after
  `aclose()` the process is soon without connections;
- service shell: a status tells the truth about the statement's effect, metrics
  agree with it, and every request is answered;
- invocation, interval, configuration: a compiled view keeps the rows that its
  filters mean, pages tile as far as their order is total, windows tile, and what is
  accepted can be built.

## 2. Modules

| Module | Models | Source |
|--------|--------|--------|
| `Sessions` | what one command does to one pooled session: isolation level, transaction status, pending rows, innermost savepoint | `psycopg_driver.py` (`PsycopgConnection`, `_PsycopgTransaction`), PostgreSQL |
| `Transactions` | calls of `run_transaction` that share one pool; EXTENDS `Sessions` | `transactions.py`, `uow.py`, `psycopg_driver.py`, `errors_map.py` |
| `AtomicRuns` | abstract: what `run_transaction` promises | |
| `MCTransactions`, `TransactionsProofs` | TLC instance; proofs | |
| `CircuitBreaker` | what each call does to a breaker | `circuit_breaker.py`, `clock.py` |
| `ResilientPool` | overlapping callers of `acquire()`; EXTENDS `CircuitBreaker` | `resilience/pool.py`, `PsycopgPool.acquire` |
| `BreakerDiagram` | abstract: the diagram of doc 10, and the late answers it does not draw | |
| `ResilientPoolProofs` | proofs | |
| `Keyset` | the key of a row, ORDER BY and the tuple predicate | `watermark.py` (`build_keyset_query`) |
| `IncrementalFetch` | overlapping jobs that poll with `fetch_since`; EXTENDS `Keyset` | `watermark.py`; the job's loop as in docs 11 and 16 |
| `Feed` | abstract: the log that a table with a key is to its readers | |
| `MCIncrementalFetch`, `IncrementalFetchProofs` | TLC instance; proofs | |
| `Streams` | the calls of a handle that borrow a connection each, and the pool's own steps | `handle.py`, `psycopg_driver.py` |
| `Borrowing` | abstract: what a pool promises to its borrowers | |
| `StreamsProofs` | proofs | |
| `Errors` | SQLSTATE to error to HTTP status | `errors_map.py`, `core/errors.py`, `http_errors.py` |
| `Service` | lifespan, pools and requests; EXTENDS `Errors` | `asgi.py`, `bootstrap.py`, `views.py`, `auth.py`, `schemas.py`, `facade.py`, `registry.py`, `metered.py` |
| `ServiceProofs` | proofs | |
| `Invocation` | filters and pages of a view, and what PostgreSQL makes of them | `invocation.py`, `core/models.py` |
| `Interval` | windows and buckets | `interval.py` |
| `Configuration` | what the settings accept and what is built of it | `settings.py`, `loader.py`, `registry.py` |
| `Access` | a call or a configuration is given and compiled, or executed; EXTENDS the three modules above | `handle.py`, `facade.py`, `core/models.py` |
| `AccessProofs` | proofs | |

`PROJECT.json` maps every definition to its lines.

### 2.1 Transactions

A task is one call of `run_transaction`. `pc` is the await at which it stands:

| Label | Where in the code |
|-------|-------------------|
| `acquiring` | `await self._pool.acquire()` in `UnitOfWork.__aenter__` |
| `beginning` | `await self._txn.__aenter__()` in `_PsycopgTransaction.__aenter__` (BEGIN sent) |
| `body` | inside `fn(uow)`, between statements |
| `unwinding` | an exception leaves an `async with uow.savepoint()` block |
| `exiting` | `_PsycopgTransaction.__aexit__` (COMMIT or ROLLBACK sent) |
| `releasing` | `await self._pool.release(...)` in the `finally` of `UnitOfWork.__aexit__` |
| `backoff` | `asyncio.sleep` between two attempts |

`attempt` is the loop counter, `conn` is `UnitOfWork._conn`, `prev` is
`_PsycopgTransaction._prev`, `exc` the exception in flight, `outcome` what the
caller got. `session[c]` is the state of connection `c`, `idle` the pool's free
list. `commits` and `durable` are the store. `acked` is what the body was told:
the rows whose statements succeeded and that no savepoint undid. A row is the
triple of the run, attempt and statement that wrote it, so that rows of another
attempt or run can be told apart. Statements succeed, are refused by the server,
or meet a failed block or a dead connection; COMMIT succeeds, is refused, finds
the connection dead or loses its acknowledgement; a connection may die at any
moment (`Break`), and a task may be cancelled at every await (`Cancel`).

`AtomicRuns` is refined through `Promise == INSTANCE AtomicRuns WITH Rows <- Row`:
`outcome`, `commits` and `durable` are shared, everything else is a stutter.

Abstractions. Savepoints are one deep. `set_isolation_level` does not suspend
(on an autocommit connection psycopg only sets the attribute). The delay of
`_backoff` is left out, its place as an await is kept. A cancellation during
`release()` and a second one during the clean-up of a first are not modelled. The
kinds of error are those that the runner, the breaker or the caller tell apart.

### 2.2 Circuit breaker and resilient pool

`breaker` has the fields of `CircuitBreaker`; the clock is kept as the time since
`_opened_at`, up to the reset timeout, which is all that the code compares.
`acquire()` is two steps, before and after `await self._inner.acquire()`: other
callers run in between. The lazy half-opening of the `state` property is
`Looked`. The inner pool answers with a connection, a timeout, or not at all (the
caller is cancelled); when the source is down it may still hold `spare`
connections that only fail when used. `TimeoutMapped` chooses between the
contract of the port (what `fake.py` does) and what `PsycopgPool` does, whose
`except` clause names a class that does not exist.

`BreakerDiagram` has the edges of doc 10 and two more, `LateSuccess` and
`LateFailure`, for answers that arrive while the circuit is open. They are enabled
only while `late` holds, which the refinement maps to `Awaited`: some call is still
waiting. So the refinement says that whatever is not in the diagram is due to a
call admitted before the circuit opened.

### 2.3 Incremental fetch

A job is `Load`, `Fetch`, `Process` for each row, `Save`: the loop that docs 11
and 16 prescribe, around `fetch_since`. `mark` is the `WatermarkCursor` the job
holds, `saved` the durable one. `Beyond` is the SQL row comparison, which is
unknown at a NULL, and `SortsBefore` is `ORDER BY`, which puts NULL last. `Pages`
are the possible results of the query: with equal keys the server may cut the
page anywhere. `InKeyOrder` is the condition under which keyset fetching is
gap-free: each commit makes visible a key that sorts after all visible ones. Without
it (`fetch_overlap`) transactions commit in any order, keys may be equal or hold NULL;
`SkippedAtCommit` says what is left then: a row is `Skipped` from its own commit on, by a
watermark that is in use at that moment, and never by what a job does.

`Feed` is refined by jobs that do not overlap, through `Promise`. It has no keys,
watermarks or pages: `log` is the visible rows, `earlier[r]` the rows that sort before
`r`, `settled` those that the saved watermark has passed, and `taken` those of the page in
work that are processed. `Commit` publishes, `Process` delivers, `Save` settles, and
`Crash` loses; `Load` and `Fetch` stutter. That `Settle` maps says that what a watermark
passes is always a beginning of the log, all of it delivered, and that `Process` maps,
that nothing settled or taken is delivered again.

### 2.4 Streams, listeners and single calls

A call of the handle is a `command` (`query`, `execute`, `execute_many`, `view`,
`function`, `procedure`, `copy_stream`, a health probe), a `stream` or a `listen`.

| Label | Where in the code |
|-------|-------------------|
| `over` | not begun, or done |
| `acquiring` | `await self._pool.acquire()` |
| `holding` | its command, or the generator's first one, is sent |
| `yielding` | the generator is at its `yield`: the consumer has control |
| `dropped` | the consumer has left its loop; nobody refers to the generator |
| `releasing` | `await self._pool.release(conn)` in the `finally` |

`inside[k]` is the generator in whose loop body call `k` is made, so that a consumer
cannot go on, end or drop the generator before that call is over. `conn[k]` is what
the call borrowed. Two generators are nested, `handle.stream` around
`PsycopgConnection.stream`; if the consumer drops the outer one, the event loop
closes it (`CloseOuter`) and later, in a task of its own, the inner one
(`CloseInner`). Between the two, `inner[k]` is the connection on which a server-side
cursor is open in a transaction, or whose lock `notifies()` has: the window in which
`release()` already runs. What saves the next borrower is psycopg: while the
transaction context of the inner generator is alive it forbids a ROLLBACK on the
connection, so `putconn()` cannot reset the session and closes it (`Reusable`).

`Connect`, `Retire` and `Break` are the pool's workers and the server; `OpenPool` and
`ClosePool` are `open()` and `close()`. A connection is a place in the pool: `Vacated`
empties it. `Borrowing` is refined by `Promise`: the borrower of a session is its
only user, and `inTxn` its transaction status.

Abstractions. The producer of rows of `copy_stream` is a part of its command. Units
of work are in `Transactions`, which has its own pool; both modules model `release()`.
A second cancellation during a `release()` is not modelled.

### 2.5 Service

`life` is the process: `off`, `starting` and `stopping` (with `next`, the pool that
`start()` or `aclose()` has come to), `serving`, `stopped`, `failed` (the startup
raised, the server exits). `foundation` is the global of `bootstrap.py`, which is set
after the last pool is open and never taken back. `pool[s]` is the pool of source `s`.
A request stands at the `gate`, is `waiting` in `acquire()`, `holding` a connection
(its statement is sent), `releasing` it, or `answered` with `status`. `at` is the data
source it has come to; a health report goes through all of them, one by one, and
`healthy` collects its result. `effect` says whether the statement took effect,
`signal` what `MeteredConnection` emitted. `Objection` is what a view raises before
its first `acquire()`, in the order of the code: schema, foundation, empty raw SQL,
unknown source, name or filter that does not compile. Two kinds of statement are told
apart (`Statements`): one that takes effect as a whole or not at all, and a
`procedure`, a CALL or a raw script in autocommit, that may commit on its way and then
raise (`MayHaveEffect`). A raw script that leaves a transaction of its own open is not
modelled. Status 499 stands for a client
that went away and a view that was cancelled.

Requests may arrive while the process stops: the server refuses new connections, not
the requests of those it has. The breaker is left out: over `PsycopgPool` it never
opens (run `pool_unmapped`), and an `acquire()` that fails is therefore always the
`AttributeError` of section 6, HTTP 500.

### 2.6 Compilers and configuration

`Invocation` compiles filters to clauses with holes and one dict of parameters, and
evaluates the result in three-valued logic. A value of a filter may be None, alone or in
a list, as `Filter.value` allows; it is bound as NULL. `Means` is the reference, written
from `FilterOp`, and `ExcludesNone` the one case in which PostgreSQL keeps less than it
says. Each page of a view is a query of its own: `Orders` are the orders in which
PostgreSQL may return the rows, of which ORDER BY (optional, and not necessarily total)
excludes some, and `ReadPages` picks one for each page. A row is its place in `keys`,
the column it is ordered by, with NULL as the greatest key. `Interval` is `date_bin`
with the start of the window as its origin, and GROUP BY. `Configuration` is the
validation of `AppSettings` and the loop of `PoolFactory.build`. In `Access` an input is
`given` and compiled in one step to `made`: no states but these two, hence no behaviour
to speak of, and properties over all inputs. Columns, values, keys, lengths, moments,
widths, names and sizes are constants, which the run gives small sets and the proofs
leave open.

## 3. Runs

| Run | Question | Instance |
|-----|----------|----------|
| `transactions_pool` | Are connections exclusive, clean when handed on, at the right isolation level, and lost only at BEGIN? Also with bodies that swallow errors. | 2 runs, 2 connections, 1 statement, 2 attempts |
| `transactions_safety` | Are runs atomic, do answers tell the truth, and does every step of a run leave less to do? | 2 runs, 1 connection, 2 statements, 2 attempts |
| `transactions_live` | Does every run end? | 2 runs, 1 connection, 1 statement |
| `transactions_commit_retry` | violation, see section 6 | 2 runs, 1 connection, 1 statement |
| `pool_overlap` | Do late answers, cancellations and outages leave the breaker sound, does it follow the diagram but for late answers, and does it open and recover? | 3 callers, threshold 2, window 2 |
| `pool_unmapped` | violation, see section 6 | 1 caller |
| `fetch_sequential` | Is every row processed, in the order of the keys and more than once only after a crash, and does the watermark tell which? | 1 job, 3 rows, 4 keys of 2 columns, pages of 2, 2 crashes |
| `fetch_overlap` | Can overlapping jobs skip a row by anything they do, if rows become visible in any order? | 2 jobs, 3 rows, 9 keys with NULL, pages of 2, 1 crash |
| `streams` | Does a session have one user and come back ready, does every wait for a connection end, does every connection come back? | 3 calls, 1 connection, 1 channel |
| `streams_stale` | violation, see section 6 | 2 calls, 1 connection, 2 channels |
| `service` | Are statuses and metrics true, is every pool open before its use, is every request answered, and does the process drain? | 2 requests, 2 sources with 1 connection each, gate enabled |
| `access` | Do filters mean what they say, do pages and windows tile, and can an accepted configuration be built? | up to 2 filters on 2 columns and lists of up to 2 values, with NULL; 2 pages of up to 3 rows, of a view of up to 4 rows with 3 keys; windows over 6 moments, widths 1 to 3; up to 2 data sources |

Why the bounds are enough. Two runs are the smallest number that can share a connection,
follow each other on it, or wait for each other; tasks meet only in the pool, so a third
adds no new kind of meeting. One connection forces reuse, two allow parallel bodies. Two
statements are needed for a savepoint that undoes a part of an attempt; two attempts for
a retry that succeeds or that is the last. One isolation level beside the server's
default tells a restored connection from a forgotten one. Three callers let one answer
be late for a trip, a window and a probe of the others. Four keys of two columns contain
a tie in the first column and in the second; three rows with pages of two make a full
page, a partial and an empty one. Every order of commits includes the order of the keys,
so that `fetch_overlap` also covers what overlapping jobs do to rows that come in order.
Three calls are a stream, a call in its loop body (or the next borrower of its session,
once it is dropped), and one that waits behind both. They share one connection, so that
a loop body always waits for its own stream, the deadlock that only a timeout ends, and
every release is a handover. What differs with two connections is who is served when;
that the safety properties hold for any number of calls and connections is proved. Two
sources are a pool that is open or closed and one that is not yet; one connection each
makes the second request wait for the first. Two filters are the smallest number whose
parameters can collide; four rows and pages of up to three make full, partial and empty
ones, and pages of no rows; four rows with three keys have ties within a page and across
its end, and two queries are the smallest number that can order them differently; six
moments make windows that end on and between the edges of a bucket. The named bounds are
`MaxAttempts`, `MaxMishaps` (calls cancelled or timed out while the source is up) and
`MaxCrashes`; `elapsed` and `failures` stop where the code no longer distinguishes their
values. Tasks, connections, statements, rows and jobs are symmetric in the safety runs
without liveness. Deadlock checking is off where the system really stops: when all runs
of `Transactions` are done, when the process of `Service` has failed, and when an input
of `Access` is compiled.

Each property is also run against a plausible bug of the code (the definitions
marked as mutants in the modules), which TLC must find.

### Fairness

- `Transactions`: weak fairness of each task's own steps. The event loop runs
  every ready task; `acquire_timeout_seconds` bounds the wait for a connection
  and `statement_timeout_ms` or a dead connection that of a statement, so that
  some answer comes; a body has finitely many statements. No fairness for the
  start of a run, cancellation, or the death of connections.
- `ResilientPool`: callers keep calling, the inner `acquire()` answers within its
  timeout, the clock advances. None for outages and cancellations; the liveness
  properties speak of outages that last and of sources that stay up. Mishaps are
  finitely many, else every probe could be cancelled.
- `IncrementalFetch`: the scheduler keeps starting the job and a running job goes
  on. None for commits; finitely many crashes.
- `Streams`: weak fairness of what the event loop runs when it is ready: a command, the
  closing of dropped generators, `release()`. Strong fairness of `Acquire`: waiting
  callers stand in the FIFO queue of `psycopg_pool`, so that a pool that has a connection
  again and again serves each of them. Weak fairness of `Connect`: for as long as the pool
  is open its workers replace closed connections, and the server lets them. `GiveUp` is
  fair in two cases only: a pool that is not open refuses at once, and a call in a loop
  body has its acquire timeout, without which streams whose bodies all wait for a
  connection stop for ever. For any other call the timeout may or may not fire, and
  `WaitsEnd` does not rely on it. Strong fairness of the consumer of a stream: its loop
  body makes finitely many calls, each of which disables `End` and `Drop` while it
  lasts, and then it goes on or leaves. None for listeners, which may run for ever
  (hence `Pinned` in `WaitsEnd` and `ComesBack`), or for the pool's life.
- `Service`: the gate answers, `acquire()` answers within its timeout, a statement
  ends, `release()` is run. None for the lifespan, arrivals or cancellations.

## 4. Proofs

All theorems hold for any number of tasks, connections, statements, isolation
levels and attempts; of callers, any threshold and window; of jobs, rows, key
columns and any page size; of calls, connections and channels; of requests and
data sources of any size; of columns, values, filters, pages, moments, widths and
pool sizes. They rest on the named assumptions of the modules:
`None` and `ServerDefault` differ from other values, thresholds, limits, columns,
sources and sizes are positive, counts are naturals, flags are Booleans. A theorem
that holds only for one value of a flag says so in its ASSUME.

`TransactionsProofs`. `IInv` is inductive: `TypeOK`,
`Exclusivity`, `IdleSessionsClean`, and for each task `RunnerInv`, `StoreInv`,
and `SessionInv` while it has a connection pinned. The safety properties are not
inductive by themselves: that a returned run is durable needs that the rows
pending on its session are those its body was told of, which needs that the
session was clean when it was acquired, which needs that every way out restores
and ends it. `InsideStep` covers the actions in which a task works on its own
session: the other tasks are framed by `Exclusivity`. `PoolStep` covers those
that move a connection. Proved: `Invariance`, `TypeCorrect`, `PinnedExclusively`,
`PoolIsClean`, `IsolationHonoured`, `ErrorIsRollback`, `DurableFromOneAttempt`,
`RetryBound`, the action property `LeakOnlyThere`, and, for bodies that do not
swallow statement errors, `ReturnIsCommit` and the refinement `Atomicity`.
`NoRunGoesInCircles` proves `RunsAdvance`: every step of a run, a cancellation included,
takes it to a later attempt, or a later label of this one, or further through its body.
That is the safety half of `EveryRunEnds`; what remains for TLC is that some step is
always enabled and taken. It needs `IInv` where a body leaves a savepoint, which must
be one that the session still has (`BodyAdvances`).

`ResilientPoolProofs`. `BreakerConsistent` is inductive with `TypeOK`: only a
success closes the circuit, and it resets the counter; only a count at the
threshold opens a closed one; half-open is entered from open alone, with the
count unchanged. `TypeCorrect` and `Consistency` follow. `DiagramFollowed` proves
the refinement of `BreakerDiagram` for any number of callers: an answer that
changes an open circuit is that of a call which is waiting, so `late` holds.
`SourceFollowed` proves `GoesWithSource`, the safety half of `KeepsOpening` and `Recovers`: in an
outage with no connection left a timeout opens the circuit or counts, and nothing closes it or takes a
failure back; while the source is up and no call has a mishap, nothing opens it.
`SequentialNeverLate` shows that a single caller is never late (it waits only while
the circuit is closed or half-open), and so follows the diagram of the document.

`IncrementalFetchProofs`. `IInv`: visible keys differ, a watermark is the key of a
visible row, and a job has processed, or still holds on its page, every row that
the watermark it holds has passed. `NoGaps` alone is not inductive: it says
nothing of the watermarks that jobs will save. `PageIsComplete` is the core: a row
between the cursor and the last key of a page is on the page, because keys are
totally ordered (`OneOrder`, from the first column in which two keys differ).
`CommitStep` is where `InKeyOrder` is used. Proved: `TypeCorrect` (for any order),
`Invariance`, and `GapFree`. For one job `OneJobInv` adds that what is left of its
page is beyond what it has processed since it last started (`Ahead`), that its
watermark is not behind the saved one (`Forward`), and that a row was processed at
most once more than there were crashes (`Counted`); it needs that `Beyond` is
transitive and means "after" (`BeyondTransitive`, `BeyondIsAfter`). From it follow
`OncePerCrash`, `Onward`, and `FeedServed`, the refinement of `Feed`, with one lemma for
each action: `SaveMaps` needs that what the new watermark passes are the rows the old one
passed and those of the page (`PassedAhead`), `ProcessMaps` that a row of the page is
neither settled nor taken. `EmptyPageIsTrue` proves `EmptyPageMeansDone` for overlapping
jobs: a page is empty only if nothing is eligible, as the visible rows are finitely many
(`TableIsFinite`), so the watermark has passed them all, and then `IInv` says that they are
processed. Without `InKeyOrder` `IInv` is not inductive: a late commit breaks it.
`OnlyLateRowsSkipped` proves `SkippedAtCommit` from the part that survives any order,
`MarksInv` (a watermark is the key of a visible row, a job has a page only while it
processes it): `JobSkipsNone` takes each step of a job, and a crash, in turn.

`StreamsProofs`. `OneUser` is not inductive: that a session with an open driver
generator is not handed on depends on its transaction. `IInv` says who has a
connection (`Distinct`), that a place without a borrower holds no transaction
(`Settled`), and that the transaction of a cursor lasts until both generators are
closed (`CursorOpen`), so that `Release` finds it not `Reusable`. Proved:
`TypeCorrect`, `OneUserAlways`, `IdleIsReadyAlways`, and the refinement of
`Borrowing`, `PromiseKept`, with one step for each action: acquire is `Borrow`,
release and closing are `Return`, the commands between are `Work`. `LoopBodiesNest`
proves `Nested`: a generator stays at its yield while a call of its loop body is not over, and
there is one such call at a time. `ClosedForGood` proves `ClosedOnlyDrains`: after `close()`
connections only come back, and each is closed then, with its subscriptions and its
transaction. That is what `Service` takes for granted of a pool.

`ServiceProofs`. `IInv`: where `start()` and `aclose()` stand in the list of pools
(`Lifecycle`), that a request reaches a source only by way of the foundation
(`ThroughFoundation`), and that it has neither effect nor signal before its statement
and a true status after it (`Truth`; of a procedure that was begun and raised a 4xx says
nothing). Proved: `TypeCorrect`, `AnswersTrue`, `OpenedBeforeUse`, `SignalsTrue`, and
the safety halves of `EveryRequestAnswered` and `Drains`: `NoRequestInCircles` (each
step of a request answers it or takes it further, so that a health report ends) and
`ClosedForGood` (a closed pool stays closed, and the requests that use it only become
fewer).

`AccessProofs`. `Compiled`, that `made` is what the compiler makes of `given`, is the
invariant; the rest is what the operators return. None of them is recursive, so that no
induction is needed. Pages: `PageOf` says which rows a page has, by place in the order
of its query. Two queries need not order the rows alike, so that what is common to them
comes from counting: before a row stand all rows that sort before it, and only such as
do not sort after it (`PlaceByRank`), which bounds its place in every order
(`OrdersAgree`). Windows: `Bin` puts an event between the edges of its bucket, by the
uniqueness of quotient and remainder (`Division`, `DivisionUnique`); `SameBin` says that
two origins a multiple of the width apart make the same buckets, from which
`BucketsMerge`. Filters: a hole belongs to one filter and one place (`HolesOf`), so that
whatever binds it last is the filter's own value (`BoundToItsPart`), and then a clause
is true in three-valued logic exactly if its filter means the row and excludes no None
(`EvaluateMeans`). Configurations: `RegisteredOf`, and `OnlyTheDefault`, which finds the
one way past the validators. Proved: `ViewKeepsAlways`, `PagesTileAlways`,
`WindowsTileAlways`, `AcceptedIsBuiltAlways`.

Theorems about properties of their own, which no run checks, define them beside the
proof: `GoesWithSource`, `EmptyPageMeansDone`, `Nested`, `ClosedOnlyDrains`,
`RequestsAdvance`, `NobodyWaitsOnOpen`.

## 5. Only model-checked

- Liveness, out of the prover's reach: `EveryRunEnds`, `KeepsOpening`, `Recovers`,
  `EveryRowDelivered`, `WaitsEnd`, `ComesBack`, `EveryRequestAnswered`, `Drains`. Their
  safety halves are proved, `WaitsEnd` and `ComesBack` apart: that no step leads away
  from the end. That the steps towards it are enabled and taken is what TLC adds.
- The violations of section 6.

## 6. Where the code and its documents differ

Shown by a run:

- `SerializationFailureRetried`: ADR-010 and doc 07 say that 40001 is retried.
  One that COMMIT reports is not mapped, and reaches the caller at once.
- `KeepsOpening` with `TimeoutMapped = FALSE`: `PsycopgPool.acquire` names
  `psycopg.pool.PoolTimeout`, which psycopg does not have; a pool timeout becomes
  an `AttributeError` that the breaker does not count, and it never opens.
- `OwnEventsOnly`: doc 06 line 79 says that the state of a session is reset on
  release. `listen()` sends no UNLISTEN, and the next listener on that session gets
  the events of the former channel, too.

Met while modelling, without a run of their own:

- Doc 07 line 28, connections never leak on error: `UnitOfWork.__aenter__` acquires
  and then awaits BEGIN; if that fails or is cancelled, `__aexit__` never runs and the
  connection is lost to the pool. `LeakOnlyAtBegin` shows that it is the only place.
- `uow.py` line 3, commits on clean exit: after a body that caught a statement's
  error, COMMIT rolls back and no one is told (`ReturnedIsDurable` excludes it).
- Docs 11 (line 250) and 16 (line 129), no gaps: a row that becomes visible behind
  the watermark is never fetched. `NoGaps` needs `InKeyOrder`; `SkippedAtCommit` shows
  that this is the only way to lose one, while visible keys differ and hold no NULL.
- The same lines, no re-processing after a crash: what a job processed of a page before it
  died is processed again. `RedeliveredOnlyByCrash` shows that it happens then only.
- Doc 10, the diagram: a success that was admitted before the circuit opened closes it
  at once, without a probe (`LateSuccess`).
- Doc 06 line 146, `aclose()` drains: it closes the pools at once and waits for no one.
  `Drains` shows what holds instead.
- Doc 08 section 8.6, a database that is down gives 503: 57P01 (the server shuts down)
  and 53300 have no case in `map_error` and give 400. A pool that times out or is
  closed gives 500, and is not counted by the metrics.
- `core/errors.py` line 37, 08xxx is transient: `map_error` makes it a
  `ConnectionError`, which no one retries.
- `max_size` of `PoolSettings` is not validated when it is left to its default; a larger
  `min_size` passes `load_settings()` and the pool raises `ValueError`
  (`AcceptedIsBuilt`).
- A None among the values of `ne` or `not_in` (`Filter.value` is `Any = None`) is bound as
  NULL, and the view keeps no row at all. `ViewKeepsWhatFiltersMean` shows that these are
  the only filters that keep less than they mean.
- Doc 08 line 253, paging is keyset and not OFFSET: `compile_view` offers LIMIT and
  OFFSET, with an ORDER BY that is optional and need not be total. Rows that sort alike
  may be on two pages or on none; `PagesTile` says which.
- A procedure that commits on its way and then raises is answered 400 or 409 with a part
  of its effect durable. `AnswersAreTrue` shows that no other 4xx leaves an effect.
- A result that is not JSON gives 500 after the statement took effect, and so do an
  empty raw SQL text and an IN filter that is no list, before it.
- A health report probes the `PsycopgPool` itself, past breaker and metering. The retry
  and auth settings of a data source are not used by the facade, nor is `tz` of an
  interval.

## 7. Not modelled

- Fake driver: a test double. Clock: only the time since the circuit opened. Ports and
  models: value types and interfaces, as far as the compilers do not use them.
- Metering counts; only the signal of a call and its agreement with the answer is
  modelled, not the gauges and durations.
- The breaker within `Service`: over `PsycopgPool` it never opens.
- Of the service shell: OpenAPI, URL wiring beyond the views, request ids, Django
  settings, the development server; the gate's ports are external, and answer or refuse.
- Of the compilers: identifiers and column lists, arguments of functions and
  procedures, the metrics and groups of an interval, `Repository`. They are text put
  together, without a state or a boundary of their own. LIKE compiles as a
  comparison.
- Of the configuration: `${env:...}` references, secrets and the parsing of files.
- A row whose key holds NULL: `Keyset` has it, no property promises it to the caller.
  The deletion and update of polled rows: `fetch_since` promises nothing about them.
- `execute_many` is a statement like another.

## 8. Plan

Done: transactions, breaker, incremental fetch, streams, lifecycle and requests,
compilers and configuration, and their proofs. What would come next:

1. Advisory-lock jobs through pooled handles (doc 07): lock and unlock on different
   connections.
2. Units of work opened in the loop body of a stream: `Transactions` and `Streams`
   on one pool.
3. The breaker in `Service`, once a pool timeout is mapped (`TimeoutMapped`): a
   bulkhead for each data source.
4. Arguments of functions and procedures, and the columns of an interval, in
   `Invocation` and `Interval`.
