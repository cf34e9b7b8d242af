------------------------------- MODULE Sessions -------------------------------
(***************************************************************************)
(* One PostgreSQL session as the foundation sees it through                *)
(* PsycopgConnection (drivers/psycopg_driver.py): the isolation level that *)
(* psycopg keeps on the connection object, the status of the server's      *)
(* transaction, the rows written and not yet committed, and the pending    *)
(* rows at the innermost savepoint.  The operators are what each command   *)
(* does to a session; a state machine that owns sessions composes them.    *)
(***************************************************************************)

CONSTANTS
    Levels,         \* the isolation levels a caller may ask for (the keys of _ISO)
    ServerDefault   \* isolation_level = None: nothing set on the connection

\* Transaction status of the session.  "failed" is a transaction block in which
\* a statement raised (every later command but ROLLBACK is refused), "broken" a
\* connection whose server end is gone.
TxnStatus == {"idle", "open", "failed", "broken"}

SessionType(Row) ==
    [iso       : Levels \cup {ServerDefault},
     txn       : TxnStatus,
     pending   : SUBSET Row,
     savepoint : BOOLEAN,   \* is the client inside a savepoint block?
     mark      : SUBSET Row]  \* pending when it entered the block

\* A connection the pool has just opened and run _configure on: autocommit, so
\* no transaction until begin().
Fresh == [iso |-> ServerDefault, txn |-> "idle", pending |-> {},
          savepoint |-> FALSE, mark |-> {}]

\* Carries nothing of a former holder, alive or since broken.
Clean(s) ==
    /\ s.iso = ServerDefault
    /\ s.txn \in {"idle", "broken"} /\ s.pending = {}
    /\ ~s.savepoint /\ s.mark = {}

\* set_isolation_level.
AtLevel(s, level) == [s EXCEPT !.iso = level]

\* BEGIN acknowledged.
Begun(s) == [s EXCEPT !.txn = "open"]

\* A statement of an open transaction that succeeded in writing row.
Wrote(s, row) == [s EXCEPT !.pending = @ \cup {row}]

\* A statement that raised: the block refuses everything until it is rolled back.
Failed(s) == [s EXCEPT !.txn = "failed"]

\* The server end is gone, and what was uncommitted with it; the savepoint block
\* is the client's and is still to be left.
Broken(s) == [s EXCEPT !.txn = "broken", !.pending = {}]

\* SAVEPOINT.
Marked(s) == [s EXCEPT !.savepoint = TRUE, !.mark = s.pending]

\* RELEASE SAVEPOINT.
Unmarked(s) == [s EXCEPT !.savepoint = FALSE, !.mark = {}]

\* ROLLBACK TO SAVEPOINT; on a broken connection psycopg only logs a warning.
RolledBackTo(s) ==
    IF s.txn = "broken" THEN Unmarked(s)
    ELSE [Unmarked(s) EXCEPT !.txn = "open", !.pending = s.mark]

\* The transaction block is over: COMMIT (its rows are read before) or ROLLBACK.
\* A broken connection stays broken, psycopg only logs the failed ROLLBACK.
Ended(s) ==
    IF s.txn = "broken" THEN s
    ELSE [Unmarked(s) EXCEPT !.txn = "idle", !.pending = {}]

\* What putconn puts back: a broken connection is replaced by a new one, an
\* unfinished transaction is rolled back, and nothing else is reset.
Returned(s) == IF s.txn = "broken" THEN Fresh ELSE Ended(s)
===============================================================================
