----------------------------- MODULE Transactions -----------------------------
(***************************************************************************)
(* run_transaction (access/transactions.py) over UnitOfWork                *)
(* (access/uow.py), _PsycopgTransaction and PsycopgPool                    *)
(* (drivers/psycopg_driver.py).  A task is one call of run_transaction; the *)
(* tasks share one bounded pool.  Each await at which another task can run, *)
(* or at which the task can be cancelled, ends a step:                     *)
(*                                                                         *)
(*   start -> acquiring -> beginning -> body -> exiting -> releasing       *)
(*               ^                                             |           *)
(*               +-------------- backoff <----------------- or done        *)
(*                                                                         *)
(* with "unwinding" for an exception that leaves a savepoint block.        *)
(***************************************************************************)
EXTENDS Naturals, Sessions

CONSTANTS
    None,           \* the absent value: no connection, no exception, no outcome
    Tasks,          \* concurrent calls of run_transaction
    Conns,          \* the pool's connections, max_size of them
    Stmts,          \* the statements a body may execute, each once per attempt
    MaxAttempts,    \* RetryPolicy.max_attempts
    BodySwallows    \* may a body catch a statement's error outside a savepoint?

\* A row remembers the run and the attempt that wrote it.
Row == [task : Tasks, attempt : Nat, stmt : Stmts]
RowOf(t, n, s) == [task |-> t, attempt |-> n, stmt |-> s]

\* What map_error raises for a failing statement: 40001, 40P01 and 57014 are
\* transient, a lost connection is a ConnectionError, the rest (IntegrityError,
\* QueryError) makes no difference to the runner.
StatementErrors == {"TransientError", "StatementError"}
\* What the foundation defines (PgFoundationError), acquire's errors included.
FoundationErrors == StatementErrors \cup {"ConnectionError", "AcquireError"}
\* What escapes unmapped: psycopg's own classes out of begin() and commit, an
\* exception of the body itself, and asyncio's cancellation.
ForeignErrors == {"SerializationFailure", "psycopg.Error", "AppError", "CancelledError"}
Errors == FoundationErrors \cup ForeignErrors

ASSUME TransactionsAssumption ==
    /\ MaxAttempts \in Nat
    /\ BodySwallows \in BOOLEAN
    /\ ServerDefault \notin Levels
    /\ None \notin Conns \cup Errors \cup {"returned"}

VARIABLES
    pc,         \* where each task is
    request,    \* the isolation level it asked for (ServerDefault: none)
    attempt,    \* the runner's attempt counter
    conn,       \* UnitOfWork._conn, None outside the unit of work
    prev,       \* _PsycopgTransaction._prev
    tried,      \* statements the body has executed in this attempt
    acked,      \* rows the body of this attempt was told are written
    exc,        \* the exception in flight, None if there is none
    outcome,    \* None, "returned" or the error the caller of the run got
    idle,       \* connections in the pool
    session,    \* the state of each connection
    commits,    \* how many COMMITs of this run became durable
    durable     \* the rows they made durable

taskVars == <<pc, request, attempt, conn, prev, tried, acked, exc, outcome>>
poolVars == <<idle, session>>
storeVars == <<commits, durable>>
vars == <<taskVars, poolVars, storeVars>>

Labels == {"start", "acquiring", "beginning", "body", "unwinding", "exiting",
           "releasing", "backoff", "done"}

TypeOK ==
    /\ pc \in [Tasks -> Labels]
    /\ request \in [Tasks -> Levels \cup {ServerDefault}]
    /\ attempt \in [Tasks -> Nat]
    /\ conn \in [Tasks -> Conns \cup {None}]
    /\ prev \in [Tasks -> Levels \cup {ServerDefault}]
    /\ tried \in [Tasks -> SUBSET Stmts]
    /\ acked \in [Tasks -> SUBSET Row]
    /\ exc \in [Tasks -> Errors \cup {None}]
    /\ outcome \in [Tasks -> Errors \cup {None, "returned"}]
    /\ idle \subseteq Conns
    /\ session \in [Conns -> SessionType(Row)]
    /\ commits \in [Tasks -> Nat]
    /\ durable \in [Tasks -> SUBSET Row]

Init ==
    /\ pc = [t \in Tasks |-> "start"]
    /\ request = [t \in Tasks |-> ServerDefault]
    /\ attempt = [t \in Tasks |-> 0]
    /\ conn = [t \in Tasks |-> None]
    /\ prev = [t \in Tasks |-> ServerDefault]
    /\ tried = [t \in Tasks |-> {}]
    /\ acked = [t \in Tasks |-> {}]
    /\ exc = [t \in Tasks |-> None]
    /\ outcome = [t \in Tasks |-> None]
    /\ idle = Conns
    /\ session = [c \in Conns |-> Fresh]
    /\ commits = [t \in Tasks |-> 0]
    /\ durable = [t \in Tasks |-> {}]
-------------------------------------------------------------------------------
\* Control moves of a task.
Goto(t, from, to) == pc[t] = from /\ pc' = [pc EXCEPT ![t] = to]

Session(t) == session[conn[t]]
SetSession(t, s) == session' = [session EXCEPT ![conn[t]] = s]
Raise(t, e) == exc' = [exc EXCEPT ![t] = e]

\* The run is over without an exception, or with e.
Finish(t, e) ==
    outcome' = [outcome EXCEPT ![t] = IF e = None THEN "returned" ELSE e]

\* Where an exception raised in the body goes first: out of the savepoint
\* block if the body is in one, else out of the unit of work.
UnwindTo(t) == IF ~Session(t).savepoint THEN "exiting" ELSE "unwinding"

\* Mutants: one attempt too many; psycopg's own errors retried as well.
RetryableOffByOne(t, e) == e = "TransientError" /\ attempt[t] <= MaxAttempts
RetryableTooMuch(t, e) ==
    e \in {"TransientError", "psycopg.Error"} /\ attempt[t] < MaxAttempts

\* run_transaction's except clause: is the exception e tried again?
Retryable(t, e) == e = "TransientError" /\ attempt[t] < MaxAttempts

\* run_transaction(pool, fn, isolation): the first attempt starts.
Call(t, level) ==
    /\ Goto(t, "start", "acquiring")
    /\ request' = [request EXCEPT ![t] = level]
    /\ attempt' = [attempt EXCEPT ![t] = 1]
    /\ UNCHANGED <<conn, prev, tried, acked, exc, outcome, poolVars, storeVars>>

\* Mutant: only the first attempt gets the isolation level.
AcquireMutant(t, c) ==
    /\ Goto(t, "acquiring", "beginning")
    /\ c \in idle
    /\ idle' = idle \ {c}
    /\ conn' = [conn EXCEPT ![t] = c]
    /\ prev' = [prev EXCEPT ![t] = session[c].iso]
    /\ session' = [session EXCEPT ![c] =
                      IF attempt[t] > 1 THEN @ ELSE AtLevel(@, request[t])]
    /\ UNCHANGED <<request, attempt, tried, acked, exc, outcome, storeVars>>

\* pool.acquire() hands a connection over; without another suspension
\* _PsycopgTransaction.__aenter__ remembers and sets the isolation level and
\* sends BEGIN.
Acquire(t, c) ==
    /\ Goto(t, "acquiring", "beginning")
    /\ c \in idle
    /\ idle' = idle \ {c}
    /\ conn' = [conn EXCEPT ![t] = c]
    /\ prev' = [prev EXCEPT ![t] = session[c].iso]
    /\ session' = [session EXCEPT ![c] =
                      IF request[t] = ServerDefault THEN @ ELSE AtLevel(@, request[t])]
    /\ UNCHANGED <<request, attempt, tried, acked, exc, outcome, storeVars>>

\* acquire() times out or the breaker is open: nothing is held and nothing but
\* TransientError is retried.
AcquireFails(t) ==
    /\ Goto(t, "acquiring", "done")
    /\ Finish(t, "AcquireError")
    /\ UNCHANGED <<request, attempt, conn, prev, tried, acked, exc, poolVars, storeVars>>

\* BEGIN is acknowledged and the body starts.
BeginSucceeds(t) ==
    /\ Goto(t, "beginning", "body")
    /\ Session(t).txn = "idle"
    /\ SetSession(t, Begun(Session(t)))
    /\ tried' = [tried EXCEPT ![t] = {}]
    /\ acked' = [acked EXCEPT ![t] = {}]
    /\ UNCHANGED <<request, attempt, conn, prev, exc, outcome, idle, storeVars>>

\* UnitOfWork.__aenter__ raises after acquire(): __aexit__ never runs, so the
\* connection is not released and its isolation level is not restored.
AbandonUnitOfWork(t, e) ==
    /\ Goto(t, "beginning", "done")
    /\ conn' = [conn EXCEPT ![t] = None]
    /\ Finish(t, e)

\* BEGIN fails because the connection is dead.
BeginFails(t) ==
    /\ AbandonUnitOfWork(t, "psycopg.Error")
    /\ Session(t).txn = "broken"
    /\ UNCHANGED <<request, attempt, prev, tried, acked, exc, poolVars, storeVars>>
-------------------------------------------------------------------------------
\* The body.  Savepoints are one deep: a savepoint inside a savepoint adds no
\* state the runner can see.

\* The session a statement runs in: inside uow.savepoint() when sp, which the
\* body enters with this statement unless it is in one already.
InSavepoint(t, sp) ==
    IF sp /\ ~Session(t).savepoint THEN Marked(Session(t)) ELSE Session(t)

\* A statement that succeeds.
Execute(t, s, sp) ==
    /\ pc[t] = "body" /\ s \notin tried[t]
    /\ Session(t).txn = "open"
    /\ LET row == RowOf(t, attempt[t], s) IN
         /\ SetSession(t, Wrote(InSavepoint(t, sp), row))
         /\ acked' = [acked EXCEPT ![t] = @ \cup {row}]
    /\ tried' = [tried EXCEPT ![t] = @ \cup {s}]
    /\ UNCHANGED <<pc, request, attempt, conn, prev, exc, outcome, idle, storeVars>>

\* The body lets the error e of a statement go, or, when BodySwallows, catches
\* it where it was raised and goes on.
Propagate(t, e, swallowed, marked) ==
    IF swallowed
    THEN BodySwallows /\ UNCHANGED <<pc, exc>>
    ELSE /\ Raise(t, e)
         /\ pc' = [pc EXCEPT ![t] = IF marked THEN "unwinding" ELSE "exiting"]

\* A statement the server refuses: the transaction block fails with it.
ExecuteFails(t, s, sp, e, swallowed) ==
    /\ pc[t] = "body" /\ s \notin tried[t]
    /\ Session(t).txn = "open"
    /\ SetSession(t, Failed(InSavepoint(t, sp)))
    /\ Propagate(t, e, swallowed, sp \/ Session(t).savepoint)
    /\ tried' = [tried EXCEPT ![t] = @ \cup {s}]
    /\ UNCHANGED <<request, attempt, conn, prev, acked, outcome, idle, storeVars>>

\* A statement on a failed block (25P02, a QueryError) or a dead connection.
ExecuteRefused(t, s, swallowed) ==
    /\ pc[t] = "body" /\ s \notin tried[t]
    /\ Session(t).txn \in {"failed", "broken"}
    /\ LET e == IF Session(t).txn = "failed" THEN "StatementError" ELSE "ConnectionError"
       IN  Propagate(t, e, swallowed, Session(t).savepoint)
    /\ tried' = [tried EXCEPT ![t] = @ \cup {s}]
    /\ UNCHANGED <<request, attempt, conn, prev, acked, outcome, poolVars, storeVars>>

\* The savepoint block ends without an exception: RELEASE, which a failed block
\* or a dead connection refuses with an unmapped psycopg error.
SavepointEnds(t, swallowed) ==
    /\ pc[t] = "body" /\ Session(t).savepoint
    /\ SetSession(t, Unmarked(Session(t)))
    /\ IF Session(t).txn = "open"
       THEN ~swallowed /\ UNCHANGED <<pc, exc>>
       ELSE Propagate(t, "psycopg.Error", swallowed, FALSE)
    /\ UNCHANGED <<request, attempt, conn, prev, tried, acked, outcome, idle, storeVars>>

\* Mutants: begin(None) inside a transaction opens no savepoint; the statements of
\* the block are tried again inside the open transaction.
SavepointRollsBackNothing(t, caught) ==
    /\ pc[t] = "unwinding"
    /\ caught => exc[t] # "CancelledError"
    /\ SetSession(t, [Unmarked(Session(t)) EXCEPT !.txn = IF @ = "failed" THEN "open" ELSE @])
    /\ acked' = [acked EXCEPT ![t] = Session(t).mark]
    /\ pc' = [pc EXCEPT ![t] = IF caught THEN "body" ELSE "exiting"]
    /\ exc' = [exc EXCEPT ![t] = IF caught THEN None ELSE @]
    /\ UNCHANGED <<request, attempt, conn, prev, tried, outcome, idle, storeVars>>

SavepointRetries(t, caught) ==
    /\ pc[t] = "unwinding"
    /\ caught = Retryable(t, exc[t])
    /\ SetSession(t, RolledBackTo(Session(t)))
    /\ attempt' = [attempt EXCEPT ![t] = IF caught THEN @ + 1 ELSE @]
    /\ acked' = [acked EXCEPT ![t] = Session(t).mark]
    /\ pc' = [pc EXCEPT ![t] = IF caught THEN "body" ELSE "exiting"]
    /\ exc' = [exc EXCEPT ![t] = IF caught THEN None ELSE @]
    /\ UNCHANGED <<request, conn, prev, tried, outcome, idle, storeVars>>

\* The savepoint block ends with an exception: ROLLBACK TO, then the body
\* catches the exception outside the block or lets it go.
SavepointRollsBack(t, caught) ==
    /\ pc[t] = "unwinding"
    /\ caught => exc[t] # "CancelledError"
    /\ SetSession(t, RolledBackTo(Session(t)))
    /\ IF Session(t).txn = "broken" THEN UNCHANGED acked
       ELSE acked' = [acked EXCEPT ![t] = Session(t).mark]
    /\ pc' = [pc EXCEPT ![t] = IF caught THEN "body" ELSE "exiting"]
    /\ exc' = [exc EXCEPT ![t] = IF caught THEN None ELSE @]
    /\ UNCHANGED <<request, attempt, conn, prev, tried, outcome, idle, storeVars>>

\* fn returns; it is in no savepoint block any more.
BodyReturns(t) ==
    /\ Goto(t, "body", "exiting")
    /\ ~Session(t).savepoint
    /\ UNCHANGED <<request, attempt, conn, prev, tried, acked, exc, outcome, poolVars, storeVars>>

\* fn raises an exception of its own.
BodyRaises(t) ==
    /\ Goto(t, "body", UnwindTo(t))
    /\ Raise(t, "AppError")
    /\ UNCHANGED <<request, attempt, conn, prev, tried, acked, outcome, poolVars, storeVars>>
-------------------------------------------------------------------------------
\* UnitOfWork.__aexit__: the transaction's own __aexit__ (COMMIT without an
\* exception, ROLLBACK with one) and its finally, which restores the isolation
\* level it found if it had set one.  On a dead connection psycopg refuses to,
\* and that error takes the place of the exception in flight.
CannotRestore(t, s) == request[t] # ServerDefault /\ s.txn = "broken"
LeavesWith(t, s, e) == IF CannotRestore(t, s) THEN "psycopg.Error" ELSE e

\* Mutant: no finally, the level is restored after a clean exit only.
RestoredMutant(t, s) == IF exc[t] # None \/ CannotRestore(t, s) THEN s ELSE AtLevel(s, prev[t])

Restored(t, s) ==
    IF request[t] = ServerDefault \/ CannotRestore(t, s) THEN s ELSE AtLevel(s, prev[t])

EndBlock(t, s) ==
    /\ Goto(t, "exiting", "releasing")
    /\ SetSession(t, Restored(t, s))
    /\ UNCHANGED <<request, attempt, conn, prev, tried, acked, outcome, idle>>

MakeDurable(t) ==
    /\ commits' = [commits EXCEPT ![t] = @ + 1]
    /\ durable' = [durable EXCEPT ![t] = @ \cup Session(t).pending]

\* COMMIT of an open block.
CommitSucceeds(t) ==
    /\ EndBlock(t, Ended(Session(t)))
    /\ exc[t] = None /\ Session(t).txn = "open"
    /\ MakeDurable(t)
    /\ UNCHANGED exc

\* COMMIT of a failed block: the server rolls back and psycopg reports no error.
CommitOfFailedBlock(t) ==
    /\ EndBlock(t, Ended(Session(t)))
    /\ exc[t] = None /\ Session(t).txn = "failed"
    /\ UNCHANGED <<exc, storeVars>>

\* COMMIT is refused with 40001, or with another error (a deferred constraint).
\* No map_error here: psycopg's own exception leaves the unit of work.
CommitRejected(t, e) ==
    /\ EndBlock(t, Ended(Session(t)))
    /\ exc[t] = None /\ Session(t).txn = "open"
    /\ Raise(t, e)
    /\ UNCHANGED storeVars

\* Mutant: the lost connection is mapped, as execute() maps it.
CommitUnacknowledgedMutant(t) ==
    /\ EndBlock(t, Broken(Session(t)))
    /\ exc[t] = None /\ Session(t).txn = "open"
    /\ MakeDurable(t)
    /\ Raise(t, "ConnectionError")

\* COMMIT took effect and the connection died before its acknowledgement.
CommitUnacknowledged(t) ==
    /\ EndBlock(t, Broken(Session(t)))
    /\ exc[t] = None /\ Session(t).txn = "open"
    /\ MakeDurable(t)
    /\ Raise(t, "psycopg.Error")

\* COMMIT on a connection already dead.
CommitOnDeadConnection(t) ==
    /\ EndBlock(t, Session(t))
    /\ exc[t] = None /\ Session(t).txn = "broken"
    /\ Raise(t, "psycopg.Error")
    /\ UNCHANGED storeVars

\* ROLLBACK, whatever the exception.
Rollback(t) ==
    /\ EndBlock(t, Ended(Session(t)))
    /\ exc[t] # None
    /\ Raise(t, LeavesWith(t, Session(t), exc[t]))
    /\ UNCHANGED storeVars

\* Mutant: the unit of work of the next attempt keeps the connection released.
ReleaseMutant(t) ==
    /\ pc[t] = "releasing"
    /\ idle' = idle \cup {conn[t]}
    /\ SetSession(t, Returned(Session(t)))
    /\ IF Retryable(t, exc[t])
       THEN pc' = [pc EXCEPT ![t] = "backoff"] /\ UNCHANGED <<conn, outcome>>
       ELSE /\ pc' = [pc EXCEPT ![t] = "done"]
            /\ conn' = [conn EXCEPT ![t] = None]
            /\ Finish(t, exc[t])
    /\ exc' = [exc EXCEPT ![t] = None]
    /\ UNCHANGED <<request, attempt, prev, tried, acked, storeVars>>

\* pool.release() in UnitOfWork's finally, then the runner's except clause:
\* back off and try again, or hand the result or the exception to the caller.
Release(t) ==
    /\ pc[t] = "releasing"
    /\ idle' = idle \cup {conn[t]}
    /\ SetSession(t, Returned(Session(t)))
    /\ conn' = [conn EXCEPT ![t] = None]
    /\ IF Retryable(t, exc[t])
       THEN pc' = [pc EXCEPT ![t] = "backoff"] /\ UNCHANGED outcome
       ELSE pc' = [pc EXCEPT ![t] = "done"] /\ Finish(t, exc[t])
    /\ exc' = [exc EXCEPT ![t] = None]
    /\ UNCHANGED <<request, attempt, prev, tried, acked, storeVars>>

\* Mutant: the attempt is not counted.
BackoffMutant(t) ==
    /\ Goto(t, "backoff", "acquiring")
    /\ UNCHANGED <<request, attempt, conn, prev, tried, acked, exc, outcome,
                   poolVars, storeVars>>

\* _backoff is over: the next attempt.
Backoff(t) ==
    /\ Goto(t, "backoff", "acquiring")
    /\ attempt' = [attempt EXCEPT ![t] = @ + 1]
    /\ UNCHANGED <<request, conn, prev, tried, acked, exc, outcome, poolVars, storeVars>>
-------------------------------------------------------------------------------
\* The task is cancelled at an await.  Cancellation is not an Exception, so no
\* except clause of the runner stops it.

\* Mutant: the finally releases what acquire() has not returned yet.
CancelWaitMutant(t) ==
    /\ pc[t] \in {"acquiring", "backoff"}
    /\ pc' = [pc EXCEPT ![t] = "done"]
    /\ Finish(t, "CancelledError")
    /\ idle' = idle \cup {conn[t]}
    /\ UNCHANGED <<request, attempt, conn, prev, tried, acked, exc, session, storeVars>>

\* While it waits for a connection or sleeps: it holds nothing.
CancelWait(t) ==
    /\ pc[t] \in {"acquiring", "backoff"}
    /\ pc' = [pc EXCEPT ![t] = "done"]
    /\ Finish(t, "CancelledError")
    /\ UNCHANGED <<request, attempt, conn, prev, tried, acked, exc, poolVars, storeVars>>

\* While BEGIN is in flight: it has taken effect or not.
CancelBegin(t) ==
    /\ AbandonUnitOfWork(t, "CancelledError")
    /\ \/ UNCHANGED session
       \/ Session(t).txn = "idle" /\ SetSession(t, Begun(Session(t)))
    /\ UNCHANGED <<request, attempt, prev, tried, acked, exc, idle, storeVars>>

\* In the body.
CancelBody(t) ==
    /\ pc[t] = "body"
    /\ pc' = [pc EXCEPT ![t] = UnwindTo(t)]
    /\ Raise(t, "CancelledError")
    /\ UNCHANGED <<request, attempt, conn, prev, tried, acked, outcome, poolVars, storeVars>>

\* Mutant: no finally around the transaction's exit, the connection is lost.
CancelExitMutant(t) ==
    /\ Goto(t, "exiting", "done")
    /\ conn' = [conn EXCEPT ![t] = None]
    /\ Finish(t, "CancelledError")
    /\ exc' = [exc EXCEPT ![t] = None]
    /\ UNCHANGED <<request, attempt, prev, tried, acked, poolVars, storeVars>>

\* While COMMIT or ROLLBACK is in flight: the block is over, and an open one
\* was committed or was not.
CancelExit(t) ==
    /\ EndBlock(t, Ended(Session(t)))
    /\ Raise(t, LeavesWith(t, Session(t), "CancelledError"))
    /\ \/ exc[t] = None /\ Session(t).txn = "open" /\ MakeDurable(t)
       \/ UNCHANGED storeVars

Cancel(t) == CancelWait(t) \/ CancelBegin(t) \/ CancelBody(t) \/ CancelExit(t)

\* The server end of a connection goes away (restart, failover, network).
Break(c) ==
    /\ session[c].txn # "broken"
    /\ session' = [session EXCEPT ![c] = Broken(@)]
    /\ UNCHANGED <<taskVars, idle, storeVars>>
-------------------------------------------------------------------------------
Body(t) ==
    \/ \E s \in Stmts, sp \in BOOLEAN : Execute(t, s, sp)
    \/ \E s \in Stmts, sp, swallowed \in BOOLEAN, e \in StatementErrors :
           ExecuteFails(t, s, sp, e, swallowed)
    \/ \E s \in Stmts, swallowed \in BOOLEAN : ExecuteRefused(t, s, swallowed)
    \/ \E swallowed \in BOOLEAN : SavepointEnds(t, swallowed)
    \/ \E caught \in BOOLEAN : SavepointRollsBack(t, caught)
    \/ BodyReturns(t)
    \/ BodyRaises(t)

Exit(t) ==
    \/ CommitSucceeds(t)
    \/ CommitOfFailedBlock(t)
    \/ \E e \in {"SerializationFailure", "psycopg.Error"} : CommitRejected(t, e)
    \/ CommitUnacknowledged(t)
    \/ CommitOnDeadConnection(t)
    \/ Rollback(t)

\* What the task does by itself once it was called.
Step(t) ==
    \/ \E c \in Conns : Acquire(t, c)
    \/ AcquireFails(t)
    \/ BeginSucceeds(t)
    \/ BeginFails(t)
    \/ Body(t)
    \/ Exit(t)
    \/ Release(t)
    \/ Backoff(t)

Next ==
    \/ \E t \in Tasks :
        \/ \E level \in Levels \cup {ServerDefault} : Call(t, level)
        \/ Step(t)
        \/ Cancel(t)
    \/ \E c \in Conns : Break(c)

Spec == Init /\ [][Next]_vars

\* The event loop runs every ready task, the pool's and the server's timeouts
\* bound every wait, and a body has finitely many statements.
FairSpec == Spec /\ \A t \in Tasks : WF_vars(Step(t))
-------------------------------------------------------------------------------
\* The connections neither in the pool nor in a unit of work: lost for good.
Held == {conn[t] : t \in Tasks} \ {None}
Leaked == Conns \ (idle \cup Held)

\* No connection is in two units of work, or in one and in the pool: the unit of
\* work pins its connection from acquire() to release() (uow.py).
Exclusivity ==
    \A t \in Tasks : conn[t] # None =>
        /\ conn[t] \notin idle
        /\ \A u \in Tasks \ {t} : conn[u] # conn[t]

\* Whatever way runs ended (error, cancellation, rejected or lost COMMIT), what
\* the pool hands out next carries nothing of them: no isolation level, no open
\* transaction, no pending row (_PsycopgTransaction.__aexit__, putconn).
IdleSessionsClean ==
    \A c \in idle : Clean(session[c])

\* A body runs at the level its caller asked for, and at the server's default if
\* it asked for none, although the level lives on a reused connection.
RequestedIsolation ==
    \A t \in Tasks : pc[t] \in {"body", "unwinding", "exiting"} =>
        Session(t).iso = request[t]

\* A run that returns has committed once, exactly the rows its last attempt was
\* told it had written and had not undone through a savepoint.
ReturnedIsDurable ==
    \A t \in Tasks : outcome[t] = "returned" =>
        commits[t] = 1 /\ durable[t] = acked[t]

\* A caller that gets one of the foundation's own errors may try again: nothing
\* of the run is durable.  (psycopg's errors and cancellation give no such hint.)
ErrorMeansRolledBack ==
    \A t \in Tasks : outcome[t] \in FoundationErrors => commits[t] = 0

\* Durable rows all come from the run's own last attempt: neither an earlier
\* attempt nor another run on the same connection left rows in the transaction.
OneAttempt ==
    \A t \in Tasks : \A r \in durable[t] : r.task = t /\ r.attempt = attempt[t]

\* A TransientError reaches the caller only when the attempts are used up, and
\* no run makes more than max_attempts of them.
RetriesExhausted ==
    \A t \in Tasks :
        /\ outcome[t] = "TransientError" => attempt[t] >= MaxAttempts
        /\ attempt[t] > 1 => attempt[t] <= MaxAttempts

\* A connection is lost only by a unit of work whose BEGIN failed or was
\* cancelled; every other exit gives it back.
LeakOnlyAtBegin ==
    [][\A c \in Leaked' \ Leaked :
           \E t \in Tasks : pc[t] = "beginning" /\ conn[t] = c]_vars

\* No run goes round in circles: each of its steps takes it to a later attempt, or
\* within the attempt to a later stage, or within the body to one statement more, or
\* out of a savepoint block; a body that catches errors is no way around the bound on
\* the attempts (run_transaction's loop, UnitOfWork.savepoint).
Stage == [start |-> 0, acquiring |-> 1, beginning |-> 2, body |-> 3, unwinding |-> 3,
          exiting |-> 4, releasing |-> 5, backoff |-> 6, done |-> 7]
InBody(t) ==
    \/ tried[t] \subseteq tried'[t] /\ tried'[t] # tried[t]
    \/ /\ tried'[t] = tried[t]
       /\ \/ pc[t] = "body" /\ pc'[t] = "unwinding"
          \/ Session(t).savepoint /\ ~Session(t)'.savepoint
Advances(t) ==
    \/ attempt'[t] > attempt[t]
    \/ /\ attempt'[t] = attempt[t]
       /\ \/ Stage[pc'[t]] > Stage[pc[t]]
          \/ Stage[pc'[t]] = Stage[pc[t]] /\ InBody(t)
RunsAdvance == [][\A t \in Tasks : Step(t) \/ Cancel(t) => Advances(t)]_vars

\* Every run ends: attempts are bounded and no run waits for another for ever.
EveryRunEnds ==
    \A t \in Tasks : pc[t] = "acquiring" ~> pc[t] = "done"

\* What a run promises its caller (AtomicRuns), whatever the interleaving.
Promise == INSTANCE AtomicRuns WITH Rows <- Row
RunsAreAtomic == Promise!Spec

\* Stated by documentations/07-data-access-and-transactions.md: a 40001, the one
\* COMMIT reports included, is rolled back and the body run again.
SerializationFailureRetried ==
    \A t \in Tasks : outcome[t] = "SerializationFailure" => attempt[t] >= MaxAttempts
===============================================================================
