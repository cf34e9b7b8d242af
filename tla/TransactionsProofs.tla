-------------------------- MODULE TransactionsProofs --------------------------
(***************************************************************************)
(* Proofs about Transactions, for every number of tasks, connections,      *)
(* statements and attempts.  The argument: an action moves one task t and   *)
(* the session t has pinned; by Exclusivity no other task and no idle       *)
(* connection sees that session (Frame), so each action is left with what   *)
(* holds of t itself.                                                       *)
(***************************************************************************)
EXTENDS Transactions, TLAPS

(***************************************************************************)
(* The inductive invariant behind the properties below: what holds of a    *)
(* task, and of the session it has pinned, at each label.                  *)
(***************************************************************************)
Pinned == {"beginning", "body", "unwinding", "exiting", "releasing"}
InBlock == {"body", "unwinding", "exiting"}

\* The runner: the unit of work holds a connection exactly while it is pinned,
\* an exception is in flight only on the way out, attempts are counted.
RunnerInv(t) ==
    /\ conn[t] # None <=> pc[t] \in Pinned
    /\ prev[t] = ServerDefault
    /\ exc[t] # None => pc[t] \in {"unwinding", "exiting", "releasing"}
    /\ pc[t] = "unwinding" => exc[t] # None
    /\ outcome[t] # None <=> pc[t] = "done"
    /\ attempt[t] > 1 => attempt[t] <= MaxAttempts
    /\ pc[t] = "backoff" => attempt[t] < MaxAttempts
    /\ outcome[t] = "TransientError" => attempt[t] >= MaxAttempts

\* The session a task has pinned, and what its body knows of it.
SessionInv(t) ==
    /\ pc[t] # "releasing" => Session(t).iso = request[t]
    /\ pc[t] = "releasing" => Session(t).iso = ServerDefault \/ Session(t).txn = "broken"
    /\ pc[t] \in {"beginning", "releasing"} =>
           /\ Session(t).txn \in {"idle", "broken"}
           /\ Session(t).pending = {}
    /\ Session(t).txn = "broken" => Session(t).pending = {}
    /\ pc[t] \notin {"body", "unwinding"} => ~Session(t).savepoint
    /\ ~Session(t).savepoint => Session(t).mark = {}
    /\ pc[t] = "unwinding" => Session(t).savepoint
    /\ pc[t] \in InBlock =>
           /\ Session(t).txn # "idle"
           /\ Session(t).txn = "open" => Session(t).pending = acked[t]
           /\ Session(t).savepoint => Session(t).mark \subseteq acked[t]
           /\ \A r \in acked[t] : r.task = t /\ r.attempt = attempt[t]
           /\ Session(t).txn = "failed" /\ exc[t] = None => BodySwallows

\* What became durable, and what the exception or the outcome tells of it.
StoreInv(t) ==
    /\ commits[t] \in {0, 1}
    /\ commits[t] = 0 => durable[t] = {}
    /\ commits[t] = 1 =>
           /\ pc[t] \in {"releasing", "done"}
           /\ exc[t] \notin FoundationErrors
           /\ outcome[t] \notin FoundationErrors
           /\ durable[t] = acked[t]
           /\ \A r \in durable[t] : r.task = t /\ r.attempt = attempt[t]
    /\ ~BodySwallows /\ pc[t] = "releasing" /\ exc[t] = None => commits[t] = 1
    /\ ~BodySwallows /\ outcome[t] = "returned" => commits[t] = 1
\* The whole of it; each safety property of Transactions follows.
IInv ==
    /\ TypeOK
    /\ Exclusivity
    /\ IdleSessionsClean
    /\ \A t \in Tasks : RunnerInv(t) /\ StoreInv(t) /\ (pc[t] \in Pinned => SessionInv(t))

\* Everything the invariant says of task t.
TaskInv(t) == RunnerInv(t) /\ StoreInv(t) /\ (pc[t] \in Pinned => SessionInv(t))

\* A step changes nothing of u's.
Untouched(u) ==
    /\ pc'[u] = pc[u] /\ request'[u] = request[u] /\ attempt'[u] = attempt[u]
    /\ conn'[u] = conn[u] /\ prev'[u] = prev[u] /\ acked'[u] = acked[u]
    /\ exc'[u] = exc[u] /\ outcome'[u] = outcome[u]
    /\ commits'[u] = commits[u] /\ durable'[u] = durable[u]
    /\ conn[u] # None => session'[conn[u]] = session[conn[u]]

\* The commands keep a session a session.
LEMMA SessionOps ==
    ASSUME NEW s \in SessionType(Row)
    PROVE  /\ Fresh \in SessionType(Row)
           /\ Begun(s) \in SessionType(Row)
           /\ Failed(s) \in SessionType(Row)
           /\ Broken(s) \in SessionType(Row)
           /\ Marked(s) \in SessionType(Row)
           /\ Unmarked(s) \in SessionType(Row)
           /\ s.savepoint => RolledBackTo(s) \in SessionType(Row)
           /\ Ended(s) \in SessionType(Row)
           /\ Returned(s) \in SessionType(Row)
           /\ \A row \in Row : Wrote(s, row) \in SessionType(Row)
           /\ \A level \in Levels \cup {ServerDefault} :
                 AtLevel(s, level) \in SessionType(Row)
  BY DEF SessionType, TxnStatus, Fresh, AtLevel, Begun, Wrote, Failed, Broken,
         Marked, Unmarked, RolledBackTo, Ended, Returned

\* What is not touched keeps its invariant.
LEMMA Frame ==
    ASSUME NEW u \in Tasks, TaskInv(u), Untouched(u)
    PROVE  TaskInv(u)'
  BY DEF TaskInv, Untouched, RunnerInv, StoreInv, SessionInv, Session, Pinned, InBlock

\* What the invariant gives for a task that has pinned a session.
LEMMA PinnedSession ==
    ASSUME IInv, NEW t \in Tasks, pc[t] \in Pinned
    PROVE  /\ TypeOK /\ RunnerInv(t) /\ StoreInv(t) /\ SessionInv(t)
           /\ conn[t] \in Conns /\ Session(t) \in SessionType(Row)
  BY DEF IInv, TypeOK, RunnerInv, Session

LEMMA SetSessionEffect ==
    ASSUME TypeOK, NEW t \in Tasks, conn[t] \in Conns,
           NEW s \in SessionType(Row), SetSession(t, s)
    PROVE  /\ session' \in [Conns -> SessionType(Row)]
           /\ session'[conn[t]] = s
           /\ \A c \in Conns : c # conn[t] => session'[c] = session[c]
  BY DEF TypeOK, SetSession

\* A step of t that neither takes nor gives back a connection.
LEMMA InsideStep ==
    ASSUME IInv, TypeOK', NEW t \in Tasks, TaskInv(t)',
           conn' = conn, idle' = idle,
           \A u \in Tasks \ {t} : Untouched(u),
           \A c \in Conns : c # conn[t] => session'[c] = session[c],
           conn[t] = None => session' = session
    PROVE  IInv'
  <1>1. \A u \in Tasks : TaskInv(u)'
    <2>1. TAKE u \in Tasks
    <2>2. CASE u = t  BY <2>2
    <2>3. CASE u # t  BY <2>3, Frame DEF IInv, TaskInv
    <2>4. QED  BY <2>2, <2>3
  <1>2. Exclusivity'  BY DEF IInv, Exclusivity
  <1>3. IdleSessionsClean'
    BY DEF IInv, Exclusivity, IdleSessionsClean, TypeOK
  <1>4. QED  BY <1>1, <1>2, <1>3 DEF IInv, TaskInv

\* The first attempt starts.
LEMMA StepCall ==
    ASSUME IInv, NEW t \in Tasks, NEW level \in Levels \cup {ServerDefault},
           Call(t, level)
    PROVE  IInv'
  <1>1. session' = session /\ conn' = conn /\ idle' = idle
    BY DEF Call, Goto, poolVars
  <1>2. TypeOK /\ RunnerInv(t) /\ StoreInv(t) /\ (pc[t] \in Pinned => SessionInv(t))
    BY DEF IInv
  <1>3. TypeOK'
    BY <1>1, <1>2
    DEF Call, Goto, storeVars, TypeOK, Labels, Errors, FoundationErrors, StatementErrors,
        ForeignErrors
  <1>4. RunnerInv(t)'
    BY <1>1, <1>2, TransactionsAssumption
    DEF Call, Goto, storeVars, RunnerInv, TypeOK, Pinned, Errors, FoundationErrors,
        StatementErrors, ForeignErrors
  <1>5. StoreInv(t)'
    BY <1>1, <1>2, TransactionsAssumption
    DEF Call, Goto, storeVars, StoreInv, RunnerInv, TypeOK, Errors, FoundationErrors,
        StatementErrors, ForeignErrors
  <1>6. pc'[t] \in Pinned => SessionInv(t)'
    BY <1>1, <1>2
    DEF Call, Goto, storeVars, SessionInv, RunnerInv, Session, InBlock, Pinned, TypeOK
  <1>7. \A u \in Tasks \ {t} : Untouched(u)
    BY <1>1, <1>2 DEF Call, Goto, storeVars, TypeOK, Untouched
  <1>8. QED
    BY <1>1, <1>3, <1>4, <1>5, <1>6, <1>7, InsideStep DEF TaskInv

\* Nothing was held.
LEMMA StepAcquireFails ==
    ASSUME IInv, NEW t \in Tasks,
           AcquireFails(t)
    PROVE  IInv'
  <1>1. session' = session /\ conn' = conn /\ idle' = idle
    BY DEF AcquireFails, Goto, Finish, poolVars
  <1>2. TypeOK /\ RunnerInv(t) /\ StoreInv(t) /\ (pc[t] \in Pinned => SessionInv(t))
    BY DEF IInv
  <1>3. TypeOK'
    BY <1>1, <1>2
    DEF AcquireFails, Goto, Finish, storeVars, TypeOK, Labels, Errors, FoundationErrors,
        StatementErrors, ForeignErrors
  <1>4. RunnerInv(t)'
    BY <1>1, <1>2, TransactionsAssumption
    DEF AcquireFails, Goto, Finish, storeVars, RunnerInv, TypeOK, Pinned, Errors,
        FoundationErrors, StatementErrors, ForeignErrors
  <1>5. StoreInv(t)'
    BY <1>1, <1>2, TransactionsAssumption
    DEF AcquireFails, Goto, Finish, storeVars, StoreInv, RunnerInv, TypeOK, Errors,
        FoundationErrors, StatementErrors, ForeignErrors
  <1>6. pc'[t] \in Pinned => SessionInv(t)'
    BY <1>1, <1>2
    DEF AcquireFails, Goto, Finish, storeVars, SessionInv, RunnerInv, Session, InBlock,
        Pinned, TypeOK
  <1>7. \A u \in Tasks \ {t} : Untouched(u)
    BY <1>1, <1>2 DEF AcquireFails, Goto, Finish, storeVars, TypeOK, Untouched
  <1>8. QED
    BY <1>1, <1>3, <1>4, <1>5, <1>6, <1>7, InsideStep DEF TaskInv

\* The body starts with nothing written.
LEMMA StepBeginSucceeds ==
    ASSUME IInv, NEW t \in Tasks,
           BeginSucceeds(t)
    PROVE  IInv'
  <1> DEFINE new == Begun(Session(t))
  <1>1. /\ pc[t] \in Pinned
        /\ SetSession(t, new)
    BY DEF BeginSucceeds, Goto, Pinned
  <1>2. /\ TypeOK /\ RunnerInv(t) /\ StoreInv(t) /\ SessionInv(t)
        /\ conn[t] \in Conns /\ Session(t) \in SessionType(Row)
    BY <1>1, PinnedSession
  <1>3. new \in SessionType(Row)
    BY <1>1, <1>2, SessionOps DEF BeginSucceeds, Goto, SessionInv, RunnerInv, TypeOK
  <1>4. /\ session' \in [Conns -> SessionType(Row)]
        /\ session'[conn[t]] = new
        /\ \A c \in Conns : c # conn[t] => session'[c] = session[c]
    BY <1>1, <1>2, <1>3, SetSessionEffect
  <1>5. conn' = conn /\ idle' = idle
    BY DEF BeginSucceeds, Goto
  <1>6. SessionInv(t)'
    BY <1>2, TransactionsAssumption, <1>4, <1>5
    DEF BeginSucceeds, Goto, Begun, SessionInv, RunnerInv, Session, InBlock, Pinned, TypeOK,
       SessionType, Errors, FoundationErrors, StatementErrors, ForeignErrors
  <1> HIDE DEF new
  <1>7. TypeOK'
    BY <1>2, <1>4, <1>5
    DEF BeginSucceeds, Goto, storeVars, TypeOK, Labels, Errors, FoundationErrors,
        StatementErrors, ForeignErrors
  <1>8. RunnerInv(t)'
    BY <1>2, TransactionsAssumption, <1>5
    DEF BeginSucceeds, Goto, RunnerInv, SessionInv, TypeOK, Pinned, Errors,
        FoundationErrors, StatementErrors, ForeignErrors
  <1>9. StoreInv(t)'
    BY <1>2, <1>5, TransactionsAssumption
    DEF BeginSucceeds, Goto, storeVars, StoreInv, RunnerInv, SessionInv,
       TypeOK, InBlock, Errors, FoundationErrors, StatementErrors, ForeignErrors
  <1>10. \A u \in Tasks \ {t} : Untouched(u)
    BY <1>1, <1>2, <1>4, <1>5
    DEF BeginSucceeds, Goto, IInv, TypeOK, Exclusivity, Untouched, storeVars
  <1>11. QED
    BY <1>2, <1>4, <1>5, <1>6, <1>7, <1>8, <1>9, <1>10, InsideStep,
       TransactionsAssumption DEF TaskInv

\* The row joins the pending and the acknowledged rows.
LEMMA StepExecute ==
    ASSUME IInv, NEW t \in Tasks, NEW s \in Stmts, NEW sp \in BOOLEAN,
           Execute(t, s, sp)
    PROVE  IInv'
  <1> DEFINE new == Wrote(InSavepoint(t, sp), RowOf(t, attempt[t], s))
  <1>1. /\ pc[t] \in Pinned
        /\ SetSession(t, new)
    BY DEF Execute, Pinned
  <1>2. /\ TypeOK /\ RunnerInv(t) /\ StoreInv(t) /\ SessionInv(t)
        /\ conn[t] \in Conns /\ Session(t) \in SessionType(Row)
    BY <1>1, PinnedSession
  <1>3. new \in SessionType(Row)
    BY <1>1, <1>2, SessionOps
    DEF Execute, InSavepoint, Row, RowOf, SessionInv, RunnerInv, TypeOK
  <1>4. /\ session' \in [Conns -> SessionType(Row)]
        /\ session'[conn[t]] = new
        /\ \A c \in Conns : c # conn[t] => session'[c] = session[c]
    BY <1>1, <1>2, <1>3, SetSessionEffect
  <1>5. conn' = conn /\ idle' = idle
    BY DEF Execute
  <1>6. SessionInv(t)'
    BY <1>2, TransactionsAssumption, <1>4, <1>5
    DEF Execute, InSavepoint, Marked, Wrote, Row, RowOf, SessionInv, RunnerInv, Session,
        InBlock, Pinned, TypeOK,
       SessionType, Errors, FoundationErrors, StatementErrors, ForeignErrors
  <1> HIDE DEF new
  <1>7. TypeOK'
    <2>1. RowOf(t, attempt[t], s) \in Row
      BY <1>2 DEF TypeOK, Row, RowOf
    <2>2. QED
      BY <1>2, <1>4, <1>5, <2>1
      DEF Execute, storeVars, TypeOK, Labels, Errors, FoundationErrors, StatementErrors,
          ForeignErrors
  <1>8. RunnerInv(t)'
    BY <1>2, TransactionsAssumption, <1>5
    DEF Execute, RunnerInv, SessionInv, TypeOK, Pinned, Errors, FoundationErrors,
        StatementErrors, ForeignErrors
  <1>9. StoreInv(t)'
    BY <1>2, <1>5, TransactionsAssumption
    DEF Execute, storeVars, StoreInv, RunnerInv, SessionInv,
       TypeOK, InBlock, Errors, FoundationErrors, StatementErrors, ForeignErrors
  <1>10. \A u \in Tasks \ {t} : Untouched(u)
    BY <1>1, <1>2, <1>4, <1>5 DEF Execute, IInv, TypeOK, Exclusivity, Untouched, storeVars
  <1>11. QED
    BY <1>2, <1>4, <1>5, <1>6, <1>7, <1>8, <1>9, <1>10, InsideStep,
       TransactionsAssumption DEF TaskInv

\* The block fails; the body goes on only if it swallows errors.
LEMMA StepExecuteFails ==
    ASSUME IInv, NEW t \in Tasks, NEW s \in Stmts, NEW sp \in BOOLEAN,
           NEW e \in StatementErrors, NEW swallowed \in BOOLEAN,
           ExecuteFails(t, s, sp, e, swallowed)
    PROVE  IInv'
  <1> DEFINE new == Failed(InSavepoint(t, sp))
  <1>1. /\ pc[t] \in Pinned
        /\ SetSession(t, new)
    BY DEF ExecuteFails, Propagate, Raise, Pinned
  <1>2. /\ TypeOK /\ RunnerInv(t) /\ StoreInv(t) /\ SessionInv(t)
        /\ conn[t] \in Conns /\ Session(t) \in SessionType(Row)
    BY <1>1, PinnedSession
  <1>3. new \in SessionType(Row)
    BY <1>1, <1>2, SessionOps
    DEF ExecuteFails, Propagate, Raise, InSavepoint, SessionInv, RunnerInv, TypeOK
  <1>4. /\ session' \in [Conns -> SessionType(Row)]
        /\ session'[conn[t]] = new
        /\ \A c \in Conns : c # conn[t] => session'[c] = session[c]
    BY <1>1, <1>2, <1>3, SetSessionEffect
  <1>5. conn' = conn /\ idle' = idle
    BY DEF ExecuteFails, Propagate, Raise
  <1>6. SessionInv(t)'
    BY <1>2, TransactionsAssumption, <1>4, <1>5
    DEF ExecuteFails, Propagate, Raise, InSavepoint, Marked, Failed, SessionInv, RunnerInv,
        Session, InBlock, Pinned, TypeOK,
       SessionType, Errors, FoundationErrors, StatementErrors, ForeignErrors
  <1> HIDE DEF new
  <1>7. TypeOK'
    BY <1>2, <1>4, <1>5
    DEF ExecuteFails, Propagate, Raise, storeVars, TypeOK, Labels, Errors,
        FoundationErrors, StatementErrors, ForeignErrors
  <1>8. RunnerInv(t)'
    BY <1>2, TransactionsAssumption, <1>5
    DEF ExecuteFails, Propagate, Raise, RunnerInv, SessionInv, TypeOK, Pinned, Errors,
        FoundationErrors, StatementErrors, ForeignErrors
  <1>9. StoreInv(t)'
    BY <1>2, <1>5, TransactionsAssumption
    DEF ExecuteFails, Propagate, Raise, storeVars, StoreInv, RunnerInv, SessionInv,
       TypeOK, InBlock, Errors, FoundationErrors, StatementErrors, ForeignErrors
  <1>10. \A u \in Tasks \ {t} : Untouched(u)
    BY <1>1, <1>2, <1>4, <1>5
    DEF ExecuteFails, Propagate, Raise, IInv, TypeOK, Exclusivity, Untouched, storeVars
  <1>11. QED
    BY <1>2, <1>4, <1>5, <1>6, <1>7, <1>8, <1>9, <1>10, InsideStep,
       TransactionsAssumption DEF TaskInv

\* Nothing is written.
LEMMA StepExecuteRefused ==
    ASSUME IInv, NEW t \in Tasks, NEW s \in Stmts, NEW swallowed \in BOOLEAN,
           ExecuteRefused(t, s, swallowed)
    PROVE  IInv'
  <1>1. session' = session /\ conn' = conn /\ idle' = idle
    BY DEF ExecuteRefused, Propagate, Raise, poolVars
  <1>2. TypeOK /\ RunnerInv(t) /\ StoreInv(t) /\ (pc[t] \in Pinned => SessionInv(t))
    BY DEF IInv
  <1>3. TypeOK'
    BY <1>1, <1>2
    DEF ExecuteRefused, Propagate, Raise, storeVars, TypeOK, Labels, Errors,
        FoundationErrors, StatementErrors, ForeignErrors
  <1>4. RunnerInv(t)'
    BY <1>1, <1>2, TransactionsAssumption
    DEF ExecuteRefused, Propagate, Raise, storeVars, RunnerInv, TypeOK, Pinned, Errors,
        FoundationErrors, StatementErrors, ForeignErrors
  <1>5. StoreInv(t)'
    BY <1>1, <1>2, TransactionsAssumption
    DEF ExecuteRefused, Propagate, Raise, storeVars, StoreInv, RunnerInv, TypeOK, Errors,
        FoundationErrors, StatementErrors, ForeignErrors
  <1>6. pc'[t] \in Pinned => SessionInv(t)'
    BY <1>1, <1>2
    DEF ExecuteRefused, Propagate, Raise, storeVars, SessionInv, RunnerInv, Session,
        InBlock, Pinned, TypeOK
  <1>7. \A u \in Tasks \ {t} : Untouched(u)
    BY <1>1, <1>2 DEF ExecuteRefused, Propagate, Raise, storeVars, TypeOK, Untouched
  <1>8. QED
    BY <1>1, <1>3, <1>4, <1>5, <1>6, <1>7, InsideStep DEF TaskInv

\* The mark goes, the rows stay.
LEMMA StepSavepointEnds ==
    ASSUME IInv, NEW t \in Tasks, NEW swallowed \in BOOLEAN,
           SavepointEnds(t, swallowed)
    PROVE  IInv'
  <1> DEFINE new == Unmarked(Session(t))
  <1>1. /\ pc[t] \in Pinned
        /\ SetSession(t, new)
    BY DEF SavepointEnds, Propagate, Raise, Pinned
  <1>2. /\ TypeOK /\ RunnerInv(t) /\ StoreInv(t) /\ SessionInv(t)
        /\ conn[t] \in Conns /\ Session(t) \in SessionType(Row)
    BY <1>1, PinnedSession
  <1>3. new \in SessionType(Row)
    BY <1>1, <1>2, SessionOps
    DEF SavepointEnds, Propagate, Raise, SessionInv, RunnerInv, TypeOK
  <1>4. /\ session' \in [Conns -> SessionType(Row)]
        /\ session'[conn[t]] = new
        /\ \A c \in Conns : c # conn[t] => session'[c] = session[c]
    BY <1>1, <1>2, <1>3, SetSessionEffect
  <1>5. conn' = conn /\ idle' = idle
    BY DEF SavepointEnds, Propagate, Raise
  <1>6. SessionInv(t)'
    BY <1>2, TransactionsAssumption, <1>4, <1>5
    DEF SavepointEnds, Propagate, Raise, Unmarked, SessionInv, RunnerInv, Session, InBlock,
        Pinned, TypeOK,
       SessionType, Errors, FoundationErrors, StatementErrors, ForeignErrors
  <1> HIDE DEF new
  <1>7. TypeOK'
    BY <1>2, <1>4, <1>5
    DEF SavepointEnds, Propagate, Raise, storeVars, TypeOK, Labels, Errors,
        FoundationErrors, StatementErrors, ForeignErrors
  <1>8. RunnerInv(t)'
    BY <1>2, TransactionsAssumption, <1>5
    DEF SavepointEnds, Propagate, Raise, RunnerInv, SessionInv, TypeOK, Pinned, Errors,
        FoundationErrors, StatementErrors, ForeignErrors
  <1>9. StoreInv(t)'
    BY <1>2, <1>5, TransactionsAssumption
    DEF SavepointEnds, Propagate, Raise, storeVars, StoreInv, RunnerInv, SessionInv,
       TypeOK, InBlock, Errors, FoundationErrors, StatementErrors, ForeignErrors
  <1>10. \A u \in Tasks \ {t} : Untouched(u)
    BY <1>1, <1>2, <1>4, <1>5
    DEF SavepointEnds, Propagate, Raise, IInv, TypeOK, Exclusivity, Untouched, storeVars
  <1>11. QED
    BY <1>2, <1>4, <1>5, <1>6, <1>7, <1>8, <1>9, <1>10, InsideStep,
       TransactionsAssumption DEF TaskInv

\* Pending and acknowledged rows go back to the mark together.
LEMMA StepSavepointRollsBack ==
    ASSUME IInv, NEW t \in Tasks, NEW caught \in BOOLEAN,
           SavepointRollsBack(t, caught)
    PROVE  IInv'
  <1> DEFINE new == RolledBackTo(Session(t))
  <1>1. /\ pc[t] \in Pinned
        /\ SetSession(t, new)
    BY DEF SavepointRollsBack, Pinned
  <1>2. /\ TypeOK /\ RunnerInv(t) /\ StoreInv(t) /\ SessionInv(t)
        /\ conn[t] \in Conns /\ Session(t) \in SessionType(Row)
    BY <1>1, PinnedSession
  <1>3. new \in SessionType(Row)
    BY <1>1, <1>2, SessionOps DEF SavepointRollsBack, SessionInv, RunnerInv, TypeOK
  <1>4. /\ session' \in [Conns -> SessionType(Row)]
        /\ session'[conn[t]] = new
        /\ \A c \in Conns : c # conn[t] => session'[c] = session[c]
    BY <1>1, <1>2, <1>3, SetSessionEffect
  <1>5. conn' = conn /\ idle' = idle
    BY DEF SavepointRollsBack
  <1>6. SessionInv(t)'
    BY <1>2, TransactionsAssumption, <1>4, <1>5
    DEF SavepointRollsBack, RolledBackTo, Unmarked, SessionInv, RunnerInv, Session,
        InBlock, Pinned, TypeOK,
       SessionType, Errors, FoundationErrors, StatementErrors, ForeignErrors
  <1> HIDE DEF new
  <1>7. TypeOK'
    <2>1. Session(t).mark \in SUBSET Row /\ Session(t).pending \in SUBSET Row
      BY <1>2 DEF SessionType
    <2>2. QED
      BY <1>2, <1>4, <1>5, <2>1
      DEF SavepointRollsBack, storeVars, TypeOK, Labels, Errors, FoundationErrors,
          StatementErrors, ForeignErrors
  <1>8. RunnerInv(t)'
    BY <1>2, TransactionsAssumption, <1>5
    DEF SavepointRollsBack, RunnerInv, SessionInv, TypeOK, Pinned, Errors,
        FoundationErrors, StatementErrors, ForeignErrors
  <1>9. StoreInv(t)'
    BY <1>2, <1>5, TransactionsAssumption
    DEF SavepointRollsBack, storeVars, StoreInv, RunnerInv, SessionInv,
       TypeOK, InBlock, Errors, FoundationErrors, StatementErrors, ForeignErrors
  <1>10. \A u \in Tasks \ {t} : Untouched(u)
    BY <1>1, <1>2, <1>4, <1>5
    DEF SavepointRollsBack, IInv, TypeOK, Exclusivity, Untouched, storeVars
  <1>11. QED
    BY <1>2, <1>4, <1>5, <1>6, <1>7, <1>8, <1>9, <1>10, InsideStep,
       TransactionsAssumption DEF TaskInv

LEMMA StepBodyReturns ==
    ASSUME IInv, NEW t \in Tasks,
           BodyReturns(t)
    PROVE  IInv'
  <1>1. session' = session /\ conn' = conn /\ idle' = idle
    BY DEF BodyReturns, Goto, poolVars
  <1>2. TypeOK /\ RunnerInv(t) /\ StoreInv(t) /\ (pc[t] \in Pinned => SessionInv(t))
    BY DEF IInv
  <1>3. TypeOK'
    BY <1>1, <1>2
    DEF BodyReturns, Goto, storeVars, TypeOK, Labels, Errors, FoundationErrors,
        StatementErrors, ForeignErrors
  <1>4. RunnerInv(t)'
    BY <1>1, <1>2, TransactionsAssumption
    DEF BodyReturns, Goto, storeVars, RunnerInv, TypeOK, Pinned, Errors, FoundationErrors,
        StatementErrors, ForeignErrors
  <1>5. StoreInv(t)'
    BY <1>1, <1>2, TransactionsAssumption
    DEF BodyReturns, Goto, storeVars, StoreInv, RunnerInv, TypeOK, Errors,
        FoundationErrors, StatementErrors, ForeignErrors
  <1>6. pc'[t] \in Pinned => SessionInv(t)'
    BY <1>1, <1>2
    DEF BodyReturns, Goto, storeVars, SessionInv, RunnerInv, Session, InBlock, Pinned,
        TypeOK
  <1>7. \A u \in Tasks \ {t} : Untouched(u)
    BY <1>1, <1>2 DEF BodyReturns, Goto, storeVars, TypeOK, Untouched
  <1>8. QED
    BY <1>1, <1>3, <1>4, <1>5, <1>6, <1>7, InsideStep DEF TaskInv

LEMMA StepBodyRaises ==
    ASSUME IInv, NEW t \in Tasks,
           BodyRaises(t)
    PROVE  IInv'
  <1>1. session' = session /\ conn' = conn /\ idle' = idle
    BY DEF BodyRaises, Goto, Raise, UnwindTo, poolVars
  <1>2. TypeOK /\ RunnerInv(t) /\ StoreInv(t) /\ (pc[t] \in Pinned => SessionInv(t))
    BY DEF IInv
  <1>3. TypeOK'
    BY <1>1, <1>2
    DEF BodyRaises, Goto, Raise, UnwindTo, storeVars, TypeOK, Labels, Errors,
        FoundationErrors, StatementErrors, ForeignErrors
  <1>4. RunnerInv(t)'
    BY <1>1, <1>2, TransactionsAssumption
    DEF BodyRaises, Goto, Raise, UnwindTo, storeVars, RunnerInv, TypeOK, Pinned, Errors,
        FoundationErrors, StatementErrors, ForeignErrors
  <1>5. StoreInv(t)'
    BY <1>1, <1>2, TransactionsAssumption
    DEF BodyRaises, Goto, Raise, UnwindTo, storeVars, StoreInv, RunnerInv, TypeOK, Errors,
        FoundationErrors, StatementErrors, ForeignErrors
  <1>6. pc'[t] \in Pinned => SessionInv(t)'
    BY <1>1, <1>2
    DEF BodyRaises, Goto, Raise, UnwindTo, storeVars, SessionInv, RunnerInv, Session,
        InBlock, Pinned, TypeOK
  <1>7. \A u \in Tasks \ {t} : Untouched(u)
    BY <1>1, <1>2 DEF BodyRaises, Goto, Raise, UnwindTo, storeVars, TypeOK, Untouched
  <1>8. QED
    BY <1>1, <1>3, <1>4, <1>5, <1>6, <1>7, InsideStep DEF TaskInv

\* What was pending, and so acknowledged, is durable.
LEMMA StepCommitSucceeds ==
    ASSUME IInv, NEW t \in Tasks,
           CommitSucceeds(t)
    PROVE  IInv'
  <1> DEFINE new == Restored(t, Ended(Session(t)))
  <1>1. /\ pc[t] \in Pinned
        /\ SetSession(t, new)
    BY DEF CommitSucceeds, EndBlock, Goto, MakeDurable, Pinned
  <1>2. /\ TypeOK /\ RunnerInv(t) /\ StoreInv(t) /\ SessionInv(t)
        /\ conn[t] \in Conns /\ Session(t) \in SessionType(Row)
    BY <1>1, PinnedSession
  <1>3. new \in SessionType(Row)
    BY <1>1, <1>2, SessionOps
    DEF CommitSucceeds, EndBlock, Goto, MakeDurable, Restored, SessionInv, RunnerInv, TypeOK
  <1>4. /\ session' \in [Conns -> SessionType(Row)]
        /\ session'[conn[t]] = new
        /\ \A c \in Conns : c # conn[t] => session'[c] = session[c]
    BY <1>1, <1>2, <1>3, SetSessionEffect
  <1>5. conn' = conn /\ idle' = idle
    BY DEF CommitSucceeds, EndBlock, Goto, MakeDurable
  <1>6. SessionInv(t)'
    BY <1>2, TransactionsAssumption, <1>4, <1>5
    DEF CommitSucceeds, EndBlock, Goto, MakeDurable, Restored, CannotRestore, AtLevel,
        Ended, Unmarked,
        SessionInv, RunnerInv, Session, InBlock, Pinned, TypeOK,
       SessionType, Errors, FoundationErrors, StatementErrors, ForeignErrors
  <1> HIDE DEF new
  <1>7. TypeOK'
    <2>1. Session(t).mark \in SUBSET Row /\ Session(t).pending \in SUBSET Row
      BY <1>2 DEF SessionType
    <2>2. QED
      BY <1>2, <1>4, <1>5, <2>1
      DEF CommitSucceeds, EndBlock, Goto, MakeDurable, storeVars, TypeOK, Labels, Errors,
          FoundationErrors, StatementErrors, ForeignErrors
  <1>8. RunnerInv(t)'
    BY <1>2, TransactionsAssumption, <1>5
    DEF CommitSucceeds, EndBlock, Goto, MakeDurable, RunnerInv, SessionInv, TypeOK, Pinned,
        Errors, FoundationErrors, StatementErrors, ForeignErrors
  <1>9. StoreInv(t)'
    BY <1>2, <1>5, TransactionsAssumption
    DEF CommitSucceeds, EndBlock, Goto, MakeDurable, storeVars, StoreInv, RunnerInv,
        SessionInv,
       TypeOK, InBlock, Errors, FoundationErrors, StatementErrors, ForeignErrors
  <1>10. \A u \in Tasks \ {t} : Untouched(u)
    BY <1>1, <1>2, <1>4, <1>5
    DEF CommitSucceeds, EndBlock, Goto, MakeDurable, IInv, TypeOK, Exclusivity, Untouched,
        storeVars
  <1>11. QED
    BY <1>2, <1>4, <1>5, <1>6, <1>7, <1>8, <1>9, <1>10, InsideStep,
       TransactionsAssumption DEF TaskInv

\* Reached without an exception only by a body that swallows errors.
LEMMA StepCommitOfFailedBlock ==
    ASSUME IInv, NEW t \in Tasks,
           CommitOfFailedBlock(t)
    PROVE  IInv'
  <1> DEFINE new == Restored(t, Ended(Session(t)))
  <1>1. /\ pc[t] \in Pinned
        /\ SetSession(t, new)
    BY DEF CommitOfFailedBlock, EndBlock, Goto, Pinned
  <1>2. /\ TypeOK /\ RunnerInv(t) /\ StoreInv(t) /\ SessionInv(t)
        /\ conn[t] \in Conns /\ Session(t) \in SessionType(Row)
    BY <1>1, PinnedSession
  <1>3. new \in SessionType(Row)
    BY <1>1, <1>2, SessionOps
    DEF CommitOfFailedBlock, EndBlock, Goto, Restored, SessionInv, RunnerInv, TypeOK
  <1>4. /\ session' \in [Conns -> SessionType(Row)]
        /\ session'[conn[t]] = new
        /\ \A c \in Conns : c # conn[t] => session'[c] = session[c]
    BY <1>1, <1>2, <1>3, SetSessionEffect
  <1>5. conn' = conn /\ idle' = idle
    BY DEF CommitOfFailedBlock, EndBlock, Goto
  <1>6. SessionInv(t)'
    BY <1>2, TransactionsAssumption, <1>4, <1>5
    DEF CommitOfFailedBlock, EndBlock, Goto, Restored, CannotRestore, AtLevel, Ended,
        Unmarked,
        SessionInv, RunnerInv, Session, InBlock, Pinned, TypeOK,
       SessionType, Errors, FoundationErrors, StatementErrors, ForeignErrors
  <1> HIDE DEF new
  <1>7. TypeOK'
    BY <1>2, <1>4, <1>5
    DEF CommitOfFailedBlock, EndBlock, Goto, storeVars, TypeOK, Labels, Errors,
        FoundationErrors, StatementErrors, ForeignErrors
  <1>8. RunnerInv(t)'
    BY <1>2, TransactionsAssumption, <1>5
    DEF CommitOfFailedBlock, EndBlock, Goto, RunnerInv, SessionInv, TypeOK, Pinned, Errors,
        FoundationErrors, StatementErrors, ForeignErrors
  <1>9. StoreInv(t)'
    BY <1>2, <1>5, TransactionsAssumption
    DEF CommitOfFailedBlock, EndBlock, Goto, storeVars, StoreInv, RunnerInv, SessionInv,
       TypeOK, InBlock, Errors, FoundationErrors, StatementErrors, ForeignErrors
  <1>10. \A u \in Tasks \ {t} : Untouched(u)
    BY <1>1, <1>2, <1>4, <1>5
    DEF CommitOfFailedBlock, EndBlock, Goto, IInv, TypeOK, Exclusivity, Untouched, storeVars
  <1>11. QED
    BY <1>2, <1>4, <1>5, <1>6, <1>7, <1>8, <1>9, <1>10, InsideStep,
       TransactionsAssumption DEF TaskInv

LEMMA StepCommitRejected ==
    ASSUME IInv, NEW t \in Tasks, NEW e \in {"SerializationFailure", "psycopg.Error"},
           CommitRejected(t, e)
    PROVE  IInv'
  <1> DEFINE new == Restored(t, Ended(Session(t)))
  <1>1. /\ pc[t] \in Pinned
        /\ SetSession(t, new)
    BY DEF CommitRejected, EndBlock, Goto, Raise, Pinned
  <1>2. /\ TypeOK /\ RunnerInv(t) /\ StoreInv(t) /\ SessionInv(t)
        /\ conn[t] \in Conns /\ Session(t) \in SessionType(Row)
    BY <1>1, PinnedSession
  <1>3. new \in SessionType(Row)
    BY <1>1, <1>2, SessionOps
    DEF CommitRejected, EndBlock, Goto, Raise, Restored, SessionInv, RunnerInv, TypeOK
  <1>4. /\ session' \in [Conns -> SessionType(Row)]
        /\ session'[conn[t]] = new
        /\ \A c \in Conns : c # conn[t] => session'[c] = session[c]
    BY <1>1, <1>2, <1>3, SetSessionEffect
  <1>5. conn' = conn /\ idle' = idle
    BY DEF CommitRejected, EndBlock, Goto, Raise
  <1>6. SessionInv(t)'
    BY <1>2, TransactionsAssumption, <1>4, <1>5
    DEF CommitRejected, EndBlock, Goto, Raise, Restored, CannotRestore, AtLevel, Ended,
        Unmarked,
        SessionInv, RunnerInv, Session, InBlock, Pinned, TypeOK,
       SessionType, Errors, FoundationErrors, StatementErrors, ForeignErrors
  <1> HIDE DEF new
  <1>7. TypeOK'
    BY <1>2, <1>4, <1>5
    DEF CommitRejected, EndBlock, Goto, Raise, storeVars, TypeOK, Labels, Errors,
        FoundationErrors, StatementErrors, ForeignErrors
  <1>8. RunnerInv(t)'
    BY <1>2, TransactionsAssumption, <1>5
    DEF CommitRejected, EndBlock, Goto, Raise, RunnerInv, SessionInv, TypeOK, Pinned,
        Errors, FoundationErrors, StatementErrors, ForeignErrors
  <1>9. StoreInv(t)'
    BY <1>2, <1>5, TransactionsAssumption
    DEF CommitRejected, EndBlock, Goto, Raise, storeVars, StoreInv, RunnerInv, SessionInv,
       TypeOK, InBlock, Errors, FoundationErrors, StatementErrors, ForeignErrors
  <1>10. \A u \in Tasks \ {t} : Untouched(u)
    BY <1>1, <1>2, <1>4, <1>5
    DEF CommitRejected, EndBlock, Goto, Raise, IInv, TypeOK, Exclusivity, Untouched,
        storeVars
  <1>11. QED
    BY <1>2, <1>4, <1>5, <1>6, <1>7, <1>8, <1>9, <1>10, InsideStep,
       TransactionsAssumption DEF TaskInv

\* Durable, but the error is psycopg's own.
LEMMA StepCommitUnacknowledged ==
    ASSUME IInv, NEW t \in Tasks,
           CommitUnacknowledged(t)
    PROVE  IInv'
  <1> DEFINE new == Restored(t, Broken(Session(t)))
  <1>1. /\ pc[t] \in Pinned
        /\ SetSession(t, new)
    BY DEF CommitUnacknowledged, EndBlock, Goto, MakeDurable, Raise, Pinned
  <1>2. /\ TypeOK /\ RunnerInv(t) /\ StoreInv(t) /\ SessionInv(t)
        /\ conn[t] \in Conns /\ Session(t) \in SessionType(Row)
    BY <1>1, PinnedSession
  <1>3. new \in SessionType(Row)
    BY <1>1, <1>2, SessionOps
    DEF CommitUnacknowledged, EndBlock, Goto, MakeDurable, Raise, Restored, SessionInv,
        RunnerInv, TypeOK
  <1>4. /\ session' \in [Conns -> SessionType(Row)]
        /\ session'[conn[t]] = new
        /\ \A c \in Conns : c # conn[t] => session'[c] = session[c]
    BY <1>1, <1>2, <1>3, SetSessionEffect
  <1>5. conn' = conn /\ idle' = idle
    BY DEF CommitUnacknowledged, EndBlock, Goto, MakeDurable, Raise
  <1>6. SessionInv(t)'
    BY <1>2, TransactionsAssumption, <1>4, <1>5
    DEF CommitUnacknowledged, EndBlock, Goto, MakeDurable, Raise, Restored, CannotRestore,
        AtLevel,
        Broken, SessionInv, RunnerInv, Session, InBlock, Pinned, TypeOK,
       SessionType, Errors, FoundationErrors, StatementErrors, ForeignErrors
  <1> HIDE DEF new
  <1>7. TypeOK'
    <2>1. Session(t).mark \in SUBSET Row /\ Session(t).pending \in SUBSET Row
      BY <1>2 DEF SessionType
    <2>2. QED
      BY <1>2, <1>4, <1>5, <2>1
      DEF CommitUnacknowledged, EndBlock, Goto, MakeDurable, Raise, storeVars, TypeOK,
          Labels, Errors, FoundationErrors, StatementErrors, ForeignErrors
  <1>8. RunnerInv(t)'
    BY <1>2, TransactionsAssumption, <1>5
    DEF CommitUnacknowledged, EndBlock, Goto, MakeDurable, Raise, RunnerInv, SessionInv,
        TypeOK, Pinned, Errors, FoundationErrors, StatementErrors, ForeignErrors
  <1>9. StoreInv(t)'
    BY <1>2, <1>5, TransactionsAssumption
    DEF CommitUnacknowledged, EndBlock, Goto, MakeDurable, Raise, storeVars, StoreInv,
        RunnerInv, SessionInv,
       TypeOK, InBlock, Errors, FoundationErrors, StatementErrors, ForeignErrors
  <1>10. \A u \in Tasks \ {t} : Untouched(u)
    BY <1>1, <1>2, <1>4, <1>5
    DEF CommitUnacknowledged, EndBlock, Goto, MakeDurable, Raise, IInv, TypeOK,
        Exclusivity, Untouched, storeVars
  <1>11. QED
    BY <1>2, <1>4, <1>5, <1>6, <1>7, <1>8, <1>9, <1>10, InsideStep,
       TransactionsAssumption DEF TaskInv

LEMMA StepCommitOnDeadConnection ==
    ASSUME IInv, NEW t \in Tasks,
           CommitOnDeadConnection(t)
    PROVE  IInv'
  <1> DEFINE new == Restored(t, Session(t))
  <1>1. /\ pc[t] \in Pinned
        /\ SetSession(t, new)
    BY DEF CommitOnDeadConnection, EndBlock, Goto, Raise, Pinned
  <1>2. /\ TypeOK /\ RunnerInv(t) /\ StoreInv(t) /\ SessionInv(t)
        /\ conn[t] \in Conns /\ Session(t) \in SessionType(Row)
    BY <1>1, PinnedSession
  <1>3. new \in SessionType(Row)
    BY <1>1, <1>2, SessionOps
    DEF CommitOnDeadConnection, EndBlock, Goto, Raise, Restored, SessionInv, RunnerInv,
        TypeOK
  <1>4. /\ session' \in [Conns -> SessionType(Row)]
        /\ session'[conn[t]] = new
        /\ \A c \in Conns : c # conn[t] => session'[c] = session[c]
    BY <1>1, <1>2, <1>3, SetSessionEffect
  <1>5. conn' = conn /\ idle' = idle
    BY DEF CommitOnDeadConnection, EndBlock, Goto, Raise
  <1>6. SessionInv(t)'
    BY <1>2, TransactionsAssumption, <1>4, <1>5
    DEF CommitOnDeadConnection, EndBlock, Goto, Raise, Restored, CannotRestore, AtLevel,
        SessionInv,
        RunnerInv, Session, InBlock, Pinned, TypeOK,
       SessionType, Errors, FoundationErrors, StatementErrors, ForeignErrors
  <1> HIDE DEF new
  <1>7. TypeOK'
    BY <1>2, <1>4, <1>5
    DEF CommitOnDeadConnection, EndBlock, Goto, Raise, storeVars, TypeOK, Labels, Errors,
        FoundationErrors, StatementErrors, ForeignErrors
  <1>8. RunnerInv(t)'
    BY <1>2, TransactionsAssumption, <1>5
    DEF CommitOnDeadConnection, EndBlock, Goto, Raise, RunnerInv, SessionInv, TypeOK,
        Pinned, Errors, FoundationErrors, StatementErrors, ForeignErrors
  <1>9. StoreInv(t)'
    BY <1>2, <1>5, TransactionsAssumption
    DEF CommitOnDeadConnection, EndBlock, Goto, Raise, storeVars, StoreInv, RunnerInv,
        SessionInv,
       TypeOK, InBlock, Errors, FoundationErrors, StatementErrors, ForeignErrors
  <1>10. \A u \in Tasks \ {t} : Untouched(u)
    BY <1>1, <1>2, <1>4, <1>5
    DEF CommitOnDeadConnection, EndBlock, Goto, Raise, IInv, TypeOK, Exclusivity,
        Untouched, storeVars
  <1>11. QED
    BY <1>2, <1>4, <1>5, <1>6, <1>7, <1>8, <1>9, <1>10, InsideStep,
       TransactionsAssumption DEF TaskInv

LEMMA StepRollback ==
    ASSUME IInv, NEW t \in Tasks,
           Rollback(t)
    PROVE  IInv'
  <1> DEFINE new == Restored(t, Ended(Session(t)))
  <1>1. /\ pc[t] \in Pinned
        /\ SetSession(t, new)
    BY DEF Rollback, EndBlock, Goto, Raise, LeavesWith, Pinned
  <1>2. /\ TypeOK /\ RunnerInv(t) /\ StoreInv(t) /\ SessionInv(t)
        /\ conn[t] \in Conns /\ Session(t) \in SessionType(Row)
    BY <1>1, PinnedSession
  <1>3. new \in SessionType(Row)
    BY <1>1, <1>2, SessionOps
    DEF Rollback, EndBlock, Goto, Raise, LeavesWith, Restored, SessionInv, RunnerInv, TypeOK
  <1>4. /\ session' \in [Conns -> SessionType(Row)]
        /\ session'[conn[t]] = new
        /\ \A c \in Conns : c # conn[t] => session'[c] = session[c]
    BY <1>1, <1>2, <1>3, SetSessionEffect
  <1>5. conn' = conn /\ idle' = idle
    BY DEF Rollback, EndBlock, Goto, Raise, LeavesWith
  <1>6. SessionInv(t)'
    BY <1>2, TransactionsAssumption, <1>4, <1>5
    DEF Rollback, EndBlock, Goto, Raise, LeavesWith, Restored, CannotRestore, AtLevel,
        Ended, Unmarked, SessionInv,
        RunnerInv, Session, InBlock, Pinned, TypeOK,
       SessionType, Errors, FoundationErrors, StatementErrors, ForeignErrors
  <1> HIDE DEF new
  <1>7. TypeOK'
    BY <1>2, <1>4, <1>5
    DEF Rollback, EndBlock, Goto, Raise, LeavesWith, storeVars, TypeOK, Labels, Errors,
        FoundationErrors,
        StatementErrors, ForeignErrors
  <1>8. RunnerInv(t)'
    BY <1>2, TransactionsAssumption, <1>5
    DEF Rollback, EndBlock, Goto, Raise, LeavesWith, RunnerInv, SessionInv, TypeOK, Pinned,
        Errors,
        FoundationErrors, StatementErrors, ForeignErrors
  <1>9. StoreInv(t)'
    BY <1>2, <1>5, TransactionsAssumption
    DEF Rollback, EndBlock, Goto, Raise, LeavesWith, storeVars, StoreInv, RunnerInv,
        SessionInv,
       TypeOK, InBlock, Errors, FoundationErrors, StatementErrors, ForeignErrors
  <1>10. \A u \in Tasks \ {t} : Untouched(u)
    BY <1>1, <1>2, <1>4, <1>5
    DEF Rollback, EndBlock, Goto, Raise, LeavesWith, IInv, TypeOK, Exclusivity, Untouched,
        storeVars
  <1>11. QED
    BY <1>2, <1>4, <1>5, <1>6, <1>7, <1>8, <1>9, <1>10, InsideStep,
       TransactionsAssumption DEF TaskInv

LEMMA StepBackoff ==
    ASSUME IInv, NEW t \in Tasks,
           Backoff(t)
    PROVE  IInv'
  <1>1. session' = session /\ conn' = conn /\ idle' = idle
    BY DEF Backoff, Goto, poolVars
  <1>2. TypeOK /\ RunnerInv(t) /\ StoreInv(t) /\ (pc[t] \in Pinned => SessionInv(t))
    BY DEF IInv
  <1>3. TypeOK'
    BY <1>1, <1>2
    DEF Backoff, Goto, storeVars, TypeOK, Labels, Errors, FoundationErrors,
        StatementErrors, ForeignErrors
  <1>4. RunnerInv(t)'
    BY <1>1, <1>2, TransactionsAssumption
    DEF Backoff, Goto, storeVars, RunnerInv, TypeOK, Pinned, Errors, FoundationErrors,
        StatementErrors, ForeignErrors
  <1>5. StoreInv(t)'
    BY <1>1, <1>2, TransactionsAssumption
    DEF Backoff, Goto, storeVars, StoreInv, RunnerInv, TypeOK, Errors, FoundationErrors,
        StatementErrors, ForeignErrors
  <1>6. pc'[t] \in Pinned => SessionInv(t)'
    BY <1>1, <1>2
    DEF Backoff, Goto, storeVars, SessionInv, RunnerInv, Session, InBlock, Pinned, TypeOK
  <1>7. \A u \in Tasks \ {t} : Untouched(u)
    BY <1>1, <1>2 DEF Backoff, Goto, storeVars, TypeOK, Untouched
  <1>8. QED
    BY <1>1, <1>3, <1>4, <1>5, <1>6, <1>7, InsideStep DEF TaskInv

LEMMA StepCancelWait ==
    ASSUME IInv, NEW t \in Tasks,
           CancelWait(t)
    PROVE  IInv'
  <1>1. session' = session /\ conn' = conn /\ idle' = idle
    BY DEF CancelWait, Finish, poolVars
  <1>2. TypeOK /\ RunnerInv(t) /\ StoreInv(t) /\ (pc[t] \in Pinned => SessionInv(t))
    BY DEF IInv
  <1>3. TypeOK'
    BY <1>1, <1>2
    DEF CancelWait, Finish, storeVars, TypeOK, Labels, Errors, FoundationErrors,
        StatementErrors, ForeignErrors
  <1>4. RunnerInv(t)'
    BY <1>1, <1>2, TransactionsAssumption
    DEF CancelWait, Finish, storeVars, RunnerInv, TypeOK, Pinned, Errors, FoundationErrors,
        StatementErrors, ForeignErrors
  <1>5. StoreInv(t)'
    BY <1>1, <1>2, TransactionsAssumption
    DEF CancelWait, Finish, storeVars, StoreInv, RunnerInv, TypeOK, Errors,
        FoundationErrors, StatementErrors, ForeignErrors
  <1>6. pc'[t] \in Pinned => SessionInv(t)'
    BY <1>1, <1>2
    DEF CancelWait, Finish, storeVars, SessionInv, RunnerInv, Session, InBlock, Pinned,
        TypeOK
  <1>7. \A u \in Tasks \ {t} : Untouched(u)
    BY <1>1, <1>2 DEF CancelWait, Finish, storeVars, TypeOK, Untouched
  <1>8. QED
    BY <1>1, <1>3, <1>4, <1>5, <1>6, <1>7, InsideStep DEF TaskInv

LEMMA StepCancelBody ==
    ASSUME IInv, NEW t \in Tasks,
           CancelBody(t)
    PROVE  IInv'
  <1>1. session' = session /\ conn' = conn /\ idle' = idle
    BY DEF CancelBody, Raise, UnwindTo, poolVars
  <1>2. TypeOK /\ RunnerInv(t) /\ StoreInv(t) /\ (pc[t] \in Pinned => SessionInv(t))
    BY DEF IInv
  <1>3. TypeOK'
    BY <1>1, <1>2
    DEF CancelBody, Raise, UnwindTo, storeVars, TypeOK, Labels, Errors, FoundationErrors,
        StatementErrors, ForeignErrors
  <1>4. RunnerInv(t)'
    BY <1>1, <1>2, TransactionsAssumption
    DEF CancelBody, Raise, UnwindTo, storeVars, RunnerInv, TypeOK, Pinned, Errors,
        FoundationErrors, StatementErrors, ForeignErrors
  <1>5. StoreInv(t)'
    BY <1>1, <1>2, TransactionsAssumption
    DEF CancelBody, Raise, UnwindTo, storeVars, StoreInv, RunnerInv, TypeOK, Errors,
        FoundationErrors, StatementErrors, ForeignErrors
  <1>6. pc'[t] \in Pinned => SessionInv(t)'
    BY <1>1, <1>2
    DEF CancelBody, Raise, UnwindTo, storeVars, SessionInv, RunnerInv, Session, InBlock,
        Pinned, TypeOK
  <1>7. \A u \in Tasks \ {t} : Untouched(u)
    BY <1>1, <1>2 DEF CancelBody, Raise, UnwindTo, storeVars, TypeOK, Untouched
  <1>8. QED
    BY <1>1, <1>3, <1>4, <1>5, <1>6, <1>7, InsideStep DEF TaskInv

\* Durable or not, the error is a cancellation.
LEMMA StepCancelExit ==
    ASSUME IInv, NEW t \in Tasks,
           CancelExit(t)
    PROVE  IInv'
  <1> DEFINE new == Restored(t, Ended(Session(t)))
  <1>1. /\ pc[t] \in Pinned
        /\ SetSession(t, new)
    BY DEF CancelExit, EndBlock, Goto, MakeDurable, Raise, LeavesWith, Pinned
  <1>2. /\ TypeOK /\ RunnerInv(t) /\ StoreInv(t) /\ SessionInv(t)
        /\ conn[t] \in Conns /\ Session(t) \in SessionType(Row)
    BY <1>1, PinnedSession
  <1>3. new \in SessionType(Row)
    BY <1>1, <1>2, SessionOps
    DEF CancelExit, EndBlock, Goto, MakeDurable, Raise, LeavesWith, Restored, SessionInv,
        RunnerInv,
        TypeOK
  <1>4. /\ session' \in [Conns -> SessionType(Row)]
        /\ session'[conn[t]] = new
        /\ \A c \in Conns : c # conn[t] => session'[c] = session[c]
    BY <1>1, <1>2, <1>3, SetSessionEffect
  <1>5. conn' = conn /\ idle' = idle
    BY DEF CancelExit, EndBlock, Goto, MakeDurable, Raise
  <1>6. SessionInv(t)'
    BY <1>2, TransactionsAssumption, <1>4, <1>5
    DEF CancelExit, EndBlock, Goto, MakeDurable, Raise, LeavesWith, Restored,
        CannotRestore, AtLevel, Ended, Unmarked,
        SessionInv, RunnerInv, Session, InBlock, Pinned, TypeOK,
       SessionType, Errors, FoundationErrors, StatementErrors, ForeignErrors
  <1> HIDE DEF new
  <1>7. TypeOK'
    <2>1. Session(t).mark \in SUBSET Row /\ Session(t).pending \in SUBSET Row
      BY <1>2 DEF SessionType
    <2>2. QED
      BY <1>2, <1>4, <1>5, <2>1
      DEF CancelExit, EndBlock, Goto, MakeDurable, Raise, LeavesWith, storeVars, TypeOK,
          Labels,
          Errors, FoundationErrors, StatementErrors, ForeignErrors
  <1>8. RunnerInv(t)'
    BY <1>2, TransactionsAssumption, <1>5
    DEF CancelExit, EndBlock, Goto, MakeDurable, Raise, LeavesWith, RunnerInv, SessionInv,
        TypeOK,
        Pinned, Errors, FoundationErrors, StatementErrors, ForeignErrors
  <1>9. StoreInv(t)'
    <2>1. CASE exc[t] = None /\ Session(t).txn = "open" /\ MakeDurable(t)
      BY <1>2, <1>5, <2>1, TransactionsAssumption
      DEF CancelExit, EndBlock, Goto, Raise, LeavesWith, storeVars, StoreInv, RunnerInv,
         SessionInv, TypeOK, InBlock, Errors, FoundationErrors, StatementErrors, ForeignErrors, MakeDurable
    <2>2. CASE UNCHANGED storeVars
      BY <1>2, <1>5, <2>2, TransactionsAssumption
      DEF CancelExit, EndBlock, Goto, Raise, LeavesWith, storeVars, StoreInv, RunnerInv,
         SessionInv, TypeOK, InBlock, Errors, FoundationErrors, StatementErrors, ForeignErrors
    <2>3. QED  BY <2>1, <2>2 DEF CancelExit
  <1>10. \A u \in Tasks \ {t} : Untouched(u)
    BY <1>1, <1>2, <1>4, <1>5
    DEF CancelExit, EndBlock, Goto, MakeDurable, Raise, LeavesWith, IInv, TypeOK,
        Exclusivity,
        Untouched, storeVars
  <1>11. QED
    BY <1>2, <1>4, <1>5, <1>6, <1>7, <1>8, <1>9, <1>10, InsideStep,
       TransactionsAssumption DEF TaskInv

\* A step of t that takes, gives back or drops its connection.
LEMMA PoolStep ==
    ASSUME IInv, TypeOK', NEW t \in Tasks, TaskInv(t)',
           \A u \in Tasks \ {t} : Untouched(u),
           Exclusivity', IdleSessionsClean'
    PROVE  IInv'
  <1>1. ASSUME NEW u \in Tasks PROVE TaskInv(u)'
    <2>1. CASE u = t  BY <2>1
    <2>2. CASE u # t  BY <2>2, Frame DEF IInv, TaskInv
    <2>3. QED  BY <2>1, <2>2
  <1>2. QED  BY <1>1 DEF IInv, TaskInv

\* A clean connection leaves the pool and takes the level the run asked for.
LEMMA StepAcquire ==
    ASSUME IInv, NEW t \in Tasks, NEW c \in Conns, Acquire(t, c)
    PROVE  IInv'
  <1> DEFINE new == IF request[t] = ServerDefault THEN session[c]
                    ELSE AtLevel(session[c], request[t])
  <1>1. /\ TypeOK /\ RunnerInv(t) /\ StoreInv(t) /\ Exclusivity
        /\ pc[t] = "acquiring" /\ conn[t] = None /\ c \in idle
        /\ session[c] \in SessionType(Row)
        /\ Clean(session[c])
    BY DEF IInv, Acquire, Goto, RunnerInv, Pinned, TypeOK, IdleSessionsClean
  <1>2. new \in SessionType(Row)
    BY <1>1, SessionOps DEF TypeOK
  <1>3. /\ session' \in [Conns -> SessionType(Row)]
        /\ session'[c] = new
        /\ \A d \in Conns : d # c => session'[d] = session[d]
    BY <1>1, <1>2 DEF Acquire, TypeOK
  <1>4. /\ new.iso = request[t] /\ new.txn \in {"idle", "broken"} /\ new.pending = {}
        /\ ~new.savepoint /\ new.mark = {}
    BY <1>1 DEF Clean, AtLevel, SessionType
  <1>5. session[c].iso = ServerDefault
    BY <1>1 DEF Clean
  <1> HIDE DEF new
  <1>6. conn'[t] = c /\ pc'[t] = "beginning"
    BY <1>1 DEF Acquire, Goto, TypeOK
  <1>7. TypeOK'
    BY <1>1, <1>3, <1>5 DEF Acquire, Goto, storeVars, TypeOK, Labels
  <1>8. RunnerInv(t)'
    BY <1>1, <1>5, <1>6, TransactionsAssumption DEF Acquire, Goto, RunnerInv, TypeOK, Pinned
  <1>9. StoreInv(t)'
    BY <1>1, <1>6 DEF Acquire, Goto, storeVars, StoreInv, TypeOK
  <1>10. SessionInv(t)'
    BY <1>3, <1>4, <1>6 DEF Acquire, SessionInv, Session, InBlock
  <1>11. \A u \in Tasks \ {t} : Untouched(u)
    BY <1>1, <1>3 DEF Acquire, Goto, storeVars, TypeOK, Exclusivity, Untouched
  <1>12. Exclusivity'
    BY <1>1 DEF Acquire, Exclusivity, TypeOK
  <1>13. IdleSessionsClean'
    BY <1>1, <1>3 DEF Acquire, IInv, IdleSessionsClean, TypeOK
  <1>14. QED
    BY <1>7, <1>8, <1>9, <1>10, <1>11, <1>12, <1>13, PoolStep DEF TaskInv

\* The connection is lost; nothing else is.
LEMMA StepAbandon ==
    ASSUME IInv, NEW t \in Tasks, BeginFails(t) \/ CancelBegin(t)
    PROVE  IInv'
  <1>1. /\ pc[t] \in Pinned /\ pc[t] = "beginning"
        /\ \E e \in ForeignErrors : AbandonUnitOfWork(t, e)
        /\ UNCHANGED <<request, attempt, prev, tried, acked, exc, idle, storeVars>>
    BY DEF BeginFails, CancelBegin, AbandonUnitOfWork, Goto, Pinned, ForeignErrors, poolVars
  <1>2. /\ TypeOK /\ RunnerInv(t) /\ StoreInv(t)
        /\ conn[t] \in Conns /\ Session(t) \in SessionType(Row)
    BY <1>1, PinnedSession
  <1>3. /\ session' \in [Conns -> SessionType(Row)]
        /\ \A c \in Conns : c # conn[t] => session'[c] = session[c]
    BY <1>2, SessionOps, SetSessionEffect DEF BeginFails, CancelBegin, poolVars, TypeOK
  <1>4. pc'[t] = "done" /\ conn'[t] = None
    BY <1>1, <1>2 DEF AbandonUnitOfWork, Goto, TypeOK
  <1>5. outcome'[t] \in ForeignErrors
    BY <1>1, <1>2, TransactionsAssumption
    DEF AbandonUnitOfWork, Finish, TypeOK, Errors
  <1>6. TypeOK'
    BY <1>1, <1>2, <1>3, TransactionsAssumption
    DEF AbandonUnitOfWork, Goto, Finish, storeVars, TypeOK, Labels, Errors
  <1>7. RunnerInv(t)'
    BY <1>1, <1>2, <1>4, <1>5, TransactionsAssumption
    DEF RunnerInv, Pinned, Errors, ForeignErrors
  <1>8. StoreInv(t)'
    BY <1>1, <1>2, <1>4, <1>5 DEF storeVars, StoreInv, ForeignErrors
  <1>9. \A u \in Tasks \ {t} : Untouched(u)
    BY <1>1, <1>2, <1>3
    DEF AbandonUnitOfWork, Goto, Finish, storeVars, IInv, TypeOK, Exclusivity, Untouched
  <1>10. Exclusivity'
    BY <1>1, <1>2 DEF AbandonUnitOfWork, IInv, Exclusivity, TypeOK
  <1>11. IdleSessionsClean'
    BY <1>1, <1>2, <1>3, TransactionsAssumption
    DEF IInv, Exclusivity, IdleSessionsClean, TypeOK
  <1>12. TaskInv(t)'
    BY <1>4, <1>7, <1>8 DEF TaskInv, Pinned
  <1>13. QED
    BY <1>6, <1>9, <1>10, <1>11, <1>12, PoolStep

\* The connection goes back clean, and the runner decides.
LEMMA StepRelease ==
    ASSUME IInv, NEW t \in Tasks, Release(t)
    PROVE  IInv'
  <1> DEFINE new == Returned(Session(t))
  <1>1. pc[t] = "releasing" /\ pc[t] \in Pinned /\ SetSession(t, new)
    BY DEF Release, Pinned
  <1>2. /\ TypeOK /\ RunnerInv(t) /\ StoreInv(t) /\ SessionInv(t) /\ Exclusivity
        /\ conn[t] \in Conns /\ conn[t] # None /\ Session(t) \in SessionType(Row)
    BY <1>1, PinnedSession, TransactionsAssumption DEF IInv
  <1>3. new \in SessionType(Row)
    BY <1>2, SessionOps
  <1>4. /\ session' \in [Conns -> SessionType(Row)]
        /\ session'[conn[t]] = new
        /\ \A c \in Conns : c # conn[t] => session'[c] = session[c]
    BY <1>1, <1>2, <1>3, SetSessionEffect
  <1>5. new = Fresh
    BY <1>1, <1>2 DEF SessionInv, SessionType, Returned, Ended, Unmarked, Fresh
  <1> HIDE DEF new
  <1>6. conn'[t] = None /\ exc'[t] = None /\ pc'[t] \in {"backoff", "done"}
    BY <1>2 DEF Release, TypeOK
  <1>7. TypeOK'
    BY <1>2, <1>4 DEF Release, Finish, storeVars, TypeOK, Labels
  <1>8. RunnerInv(t)'
    BY <1>1, <1>2, <1>6, TransactionsAssumption
    DEF Release, Finish, Retryable, RunnerInv, TypeOK, Pinned, Errors, FoundationErrors,
        StatementErrors, ForeignErrors
  <1>9. StoreInv(t)'
    BY <1>1, <1>2, <1>6, TransactionsAssumption
    DEF Release, Finish, Retryable, RunnerInv, StoreInv, storeVars, TypeOK, Errors,
        FoundationErrors, StatementErrors, ForeignErrors
  <1>10. \A u \in Tasks \ {t} : Untouched(u)
    BY <1>2, <1>4 DEF Release, Finish, storeVars, TypeOK, Exclusivity, Untouched
  <1>11. Exclusivity'
    BY <1>2 DEF Release, Exclusivity, TypeOK
  <1>12. IdleSessionsClean'
    BY <1>2, <1>4, <1>5 DEF Release, IInv, IdleSessionsClean, TypeOK, Clean, Fresh
  <1>13. TaskInv(t)'
    BY <1>6, <1>8, <1>9 DEF TaskInv, Pinned
  <1>14. QED
    BY <1>7, <1>10, <1>11, <1>12, <1>13, PoolStep

\* A connection breaks, in the pool or in a unit of work.
LEMMA StepBreak ==
    ASSUME IInv, NEW c \in Conns, Break(c)
    PROVE  IInv'
  <1>1. /\ session' \in [Conns -> SessionType(Row)]
        /\ session'[c] = Broken(session[c])
        /\ \A d \in Conns : d # c => session'[d] = session[d]
        /\ UNCHANGED <<taskVars, idle, storeVars>>
    BY SessionOps DEF IInv, TypeOK, Break
  <1>2. TypeOK'
    BY <1>1 DEF IInv, TypeOK, taskVars, storeVars
  <1>3. ASSUME NEW t \in Tasks PROVE TaskInv(t)'
    <2>1. RunnerInv(t)' /\ StoreInv(t)'
      BY <1>1 DEF IInv, RunnerInv, StoreInv, taskVars, storeVars
    <2>2. ASSUME pc'[t] \in Pinned PROVE SessionInv(t)'
      <3>1. pc[t] \in Pinned /\ SessionInv(t) /\ conn[t] \in Conns /\ Session(t) \in SessionType(Row)
        BY <1>1, <2>2, PinnedSession DEF taskVars
      <3>2. CASE conn[t] = c
        BY <1>1, <3>1, <3>2
        DEF SessionInv, Session, InBlock, Broken, SessionType, taskVars
      <3>3. CASE conn[t] # c
        BY <1>1, <3>1, <3>3 DEF SessionInv, Session, InBlock, taskVars
      <3>4. QED  BY <3>2, <3>3
    <2>3. QED  BY <2>1, <2>2 DEF TaskInv, Pinned
  <1>4. Exclusivity'
    BY <1>1 DEF IInv, Exclusivity, taskVars
  <1>5. IdleSessionsClean'
    <2>1. ASSUME NEW d \in idle PROVE Clean(session'[d])
      <3>1. d \in Conns /\ Clean(session[d]) /\ session[d] \in SessionType(Row)
        BY DEF IInv, IdleSessionsClean, TypeOK
      <3>2. CASE d = c
        BY <1>1, <3>1, <3>2 DEF Clean, Broken, SessionType
      <3>3. CASE d # c
        BY <1>1, <3>1, <3>3
      <3>4. QED  BY <3>2, <3>3
    <2>2. QED
      BY <1>1, <2>1 DEF IdleSessionsClean
  <1>6. QED
    BY <1>2, <1>3, <1>4, <1>5 DEF IInv, TaskInv

\* Nothing happens.
LEMMA StepStutter ==
    ASSUME IInv, UNCHANGED vars
    PROVE  IInv'
  BY
  DEF IInv, TypeOK, Exclusivity, IdleSessionsClean, Clean, RunnerInv, StoreInv, SessionInv,
         Session, Pinned, InBlock, vars, taskVars, poolVars, storeVars
-------------------------------------------------------------------------------
LEMMA InitIInv == Init => IInv
  <1> SUFFICES ASSUME Init PROVE IInv
    OBVIOUS
  <1>1. Fresh \in SessionType(Row)
    BY DEF Fresh, SessionType, TxnStatus
  <1>2. TypeOK
    BY <1>1 DEF Init, TypeOK, Labels
  <1>3. Exclusivity /\ IdleSessionsClean
    BY DEF Init, Exclusivity, IdleSessionsClean, Clean, Fresh
  <1>4. ASSUME NEW t \in Tasks
        PROVE  RunnerInv(t) /\ StoreInv(t) /\ (pc[t] \in Pinned => SessionInv(t))
    BY TransactionsAssumption
    DEF Init, RunnerInv, StoreInv, Pinned, Errors, FoundationErrors, StatementErrors
  <1>5. QED  BY <1>2, <1>3, <1>4 DEF IInv

\* Every step of every task and of the environment preserves the invariant.
LEMMA NextIInv == IInv /\ [Next]_vars => IInv'
  <1> SUFFICES ASSUME IInv, [Next]_vars PROVE IInv'
    OBVIOUS
  <1>1. ASSUME NEW t \in Tasks, NEW level \in Levels \cup {ServerDefault}, Call(t, level)
        PROVE  IInv'
    BY <1>1, StepCall
  <1>2. ASSUME NEW t \in Tasks, Body(t) PROVE IInv'
    BY <1>2, StepExecute, StepExecuteFails, StepExecuteRefused, StepSavepointEnds,
       StepSavepointRollsBack, StepBodyReturns, StepBodyRaises DEF Body
  <1>3. ASSUME NEW t \in Tasks, Exit(t) PROVE IInv'
    BY <1>3, StepCommitSucceeds, StepCommitOfFailedBlock, StepCommitRejected,
       StepCommitUnacknowledged, StepCommitOnDeadConnection, StepRollback DEF Exit
  <1>4. ASSUME NEW t \in Tasks, Step(t) PROVE IInv'
    BY <1>2, <1>3, <1>4, StepAcquire, StepAcquireFails, StepBeginSucceeds, StepAbandon,
       StepRelease, StepBackoff DEF Step
  <1>5. ASSUME NEW t \in Tasks, Cancel(t) PROVE IInv'
    BY <1>5, StepCancelWait, StepAbandon, StepCancelBody, StepCancelExit DEF Cancel
  <1>6. ASSUME NEW c \in Conns, Break(c) PROVE IInv'
    BY <1>6, StepBreak
  <1>7. CASE UNCHANGED vars
    BY <1>7, StepStutter
  <1>8. QED
    BY <1>1, <1>4, <1>5, <1>6, <1>7 DEF Next

\* The inductive invariant holds in every reachable state: run_transaction, its
\* unit of work and the pool agree on who holds what and what is durable.
THEOREM Invariance == Spec => []IInv
  <1>1. QED  BY InitIInv, NextIInv, PTL DEF Spec

\* Type correctness of the runner's and the pool's state.
THEOREM TypeCorrect == Spec => []TypeOK
  <1>1. IInv => TypeOK  BY DEF IInv
  <1>2. QED  BY <1>1, Invariance, PTL

\* UnitOfWork pins its connection: never two units of work on one, whatever
\* fails or is cancelled in between.
THEOREM PinnedExclusively == Spec => []Exclusivity
  <1>1. IInv => Exclusivity  BY DEF IInv
  <1>2. QED  BY <1>1, Invariance, PTL

\* _PsycopgTransaction.__aexit__ and putconn leave a reused connection clean.
THEOREM PoolIsClean == Spec => []IdleSessionsClean
  <1>1. IInv => IdleSessionsClean  BY DEF IInv
  <1>2. QED  BY <1>1, Invariance, PTL

\* A body runs at the isolation level its caller asked for.
THEOREM IsolationHonoured == Spec => []RequestedIsolation
  <1>1. IInv => RequestedIsolation
    BY DEF IInv, RequestedIsolation, SessionInv, Pinned
  <1>2. QED  BY <1>1, Invariance, PTL

\* run_transaction returns only what it committed, once, provided no body goes
\* on after an error it caught outside a savepoint.
THEOREM ReturnIsCommit ==
    ASSUME ~BodySwallows
    PROVE  Spec => []ReturnedIsDurable
  <1>1. IInv => ReturnedIsDurable
    BY DEF IInv, ReturnedIsDurable, StoreInv, RunnerInv
  <1>2. QED  BY <1>1, Invariance, PTL

\* One of the foundation's errors out of run_transaction: nothing is durable.
THEOREM ErrorIsRollback == Spec => []ErrorMeansRolledBack
  <1>1. IInv => ErrorMeansRolledBack
    BY DEF IInv, ErrorMeansRolledBack, StoreInv
  <1>2. QED  BY <1>1, Invariance, PTL

\* The durable rows of a run are those of its last attempt alone.
THEOREM DurableFromOneAttempt == Spec => []OneAttempt
  <1>1. IInv => OneAttempt
    BY DEF IInv, OneAttempt, StoreInv
  <1>2. QED  BY <1>1, Invariance, PTL

\* The retry loop gives up exactly at max_attempts.
THEOREM RetryBound == Spec => []RetriesExhausted
  <1>1. IInv => RetriesExhausted
    BY DEF IInv, RetriesExhausted, RunnerInv
  <1>2. QED  BY <1>1, Invariance, PTL

\* A connection leaves the pool's and the tasks' hands only when BEGIN fails or
\* is cancelled (UnitOfWork.__aenter__).
THEOREM LeakOnlyThere == Spec => LeakOnlyAtBegin
  <1> DEFINE LeakStep == \A c \in Leaked' \ Leaked :
                           \E t \in Tasks : pc[t] = "beginning" /\ conn[t] = c
  <1>1. ASSUME IInv, [Next]_vars PROVE [LeakStep]_vars
    <2>1. SUFFICES ASSUME NEW c \in Conns, c \in Leaked', c \notin Leaked
                   PROVE  \E t \in Tasks : pc[t] = "beginning" /\ conn[t] = c
      BY DEF Leaked
    <2>2. TypeOK  BY <1>1 DEF IInv
    <2>3. /\ c \notin idle' /\ \A t \in Tasks : conn'[t] # c
          /\ c \in idle \/ \E t \in Tasks : conn[t] = c
      BY <2>1, TransactionsAssumption DEF Leaked, Held
    <2>4. CASE UNCHANGED <<conn, idle>>
      BY <2>3, <2>4
    <2>5. ASSUME NEW t \in Tasks, NEW d \in Conns, Acquire(t, d) PROVE FALSE
      BY <1>1, <2>2, <2>3, <2>5, TransactionsAssumption
      DEF Acquire, Goto, IInv, RunnerInv, TypeOK, Pinned
    <2>6. ASSUME NEW t \in Tasks, Release(t) PROVE FALSE
      BY <2>2, <2>3, <2>6 DEF Release, TypeOK
    <2>7. ASSUME NEW t \in Tasks, BeginFails(t) \/ CancelBegin(t)
          PROVE  pc[t] = "beginning" /\ conn[t] = c
      BY <2>2, <2>3, <2>7
      DEF BeginFails, CancelBegin, AbandonUnitOfWork, Goto, poolVars, TypeOK
    <2>8. ASSUME NEW t \in Tasks, Body(t) \/ Exit(t) PROVE UNCHANGED <<conn, idle>>
      BY <2>8
      DEF Body, Execute, ExecuteFails, ExecuteRefused, SavepointEnds, SavepointRollsBack,
          BodyReturns, BodyRaises, Exit, CommitSucceeds, CommitOfFailedBlock, CommitRejected,
          CommitUnacknowledged, CommitOnDeadConnection, Rollback, EndBlock, poolVars
    <2>9. ASSUME NEW t \in Tasks,
                 \/ \E level \in Levels \cup {ServerDefault} : Call(t, level)
                 \/ AcquireFails(t) \/ BeginSucceeds(t) \/ Backoff(t)
                 \/ CancelWait(t) \/ CancelBody(t) \/ CancelExit(t)
          PROVE  UNCHANGED <<conn, idle>>
      BY <2>9 DEF Call, AcquireFails, BeginSucceeds, Backoff, CancelWait, CancelBody,
                  CancelExit, EndBlock, poolVars
    <2>10. CASE Next
      BY <2>4, <2>5, <2>6, <2>7, <2>8, <2>9, <2>10
      DEF Next, Step, Cancel, Break, taskVars
    <2>11. CASE UNCHANGED vars
      BY <2>4, <2>11 DEF vars, taskVars, poolVars
    <2>12. QED
      BY <1>1, <2>10, <2>11
  <1>2. QED  BY <1>1, Invariance, PTL DEF Spec, LeakOnlyAtBegin
-------------------------------------------------------------------------------
\* Within the body: what a statement, or the end of a savepoint block, changes.
LEMMA BodyAdvances ==
    ASSUME IInv, NEW t \in Tasks, Body(t)
    PROVE  Advances(t)
  <1>1. TypeOK /\ (pc[t] \in {"body", "unwinding"} => conn[t] \in Conns)
    BY DEF IInv, TypeOK, RunnerInv, Pinned
  <1>2. attempt' = attempt /\ conn' = conn /\ attempt[t] \in Nat
    BY <1>1
    DEF Body, Execute, ExecuteFails, ExecuteRefused, SavepointEnds, SavepointRollsBack,
        BodyReturns, BodyRaises, TypeOK
  <1>3. ASSUME NEW s \in Stmts, s \notin tried[t], pc[t] = "body",
               tried' = [tried EXCEPT ![t] = @ \cup {s}],
               \/ UNCHANGED pc
               \/ \E l \in {"unwinding", "exiting"} : pc' = [pc EXCEPT ![t] = l]
        PROVE  Advances(t)
    <2>1. tried[t] \subseteq tried'[t] /\ tried'[t] # tried[t]
      BY <1>1, <1>3 DEF TypeOK
    <2>2. pc'[t] \in {"body", "unwinding", "exiting"}
      BY <1>1, <1>3 DEF TypeOK
    <2>3. QED  BY <1>2, <1>3, <2>1, <2>2 DEF Advances, InBody, Stage
  <1>4. ASSUME NEW s \in Stmts, NEW sp \in BOOLEAN, Execute(t, s, sp)
        PROVE  Advances(t)
    BY <1>3, <1>4 DEF Execute
  <1>5. ASSUME NEW s \in Stmts, NEW sp \in BOOLEAN, NEW swallowed \in BOOLEAN,
               NEW e \in StatementErrors, ExecuteFails(t, s, sp, e, swallowed)
        PROVE  Advances(t)
    BY <1>3, <1>5 DEF ExecuteFails, Propagate
  <1>6. ASSUME NEW s \in Stmts, NEW swallowed \in BOOLEAN, ExecuteRefused(t, s, swallowed)
        PROVE  Advances(t)
    BY <1>3, <1>6 DEF ExecuteRefused, Propagate
  <1>7. ASSUME NEW r \in SessionType(Row), ~r.savepoint, SetSession(t, r), Session(t).savepoint,
               tried' = tried, pc[t] \in {"body", "unwinding"},
               \/ UNCHANGED pc
               \/ \E l \in {"body", "exiting"} : pc' = [pc EXCEPT ![t] = l]
        PROVE  Advances(t)
    <2>1. ~Session(t)'.savepoint
      BY <1>1, <1>2, <1>7 DEF SetSession, Session, TypeOK
    <2>2. pc'[t] \in {"body", "unwinding", "exiting"}
      BY <1>1, <1>7 DEF TypeOK
    <2>3. QED  BY <1>2, <1>7, <2>1, <2>2 DEF Advances, InBody, Stage
  <1>8. ASSUME pc[t] \in {"body", "unwinding"}
        PROVE  LET s == Session(t) IN
                 /\ Unmarked(s) \in SessionType(Row) /\ ~Unmarked(s).savepoint
                 /\ RolledBackTo(s) \in SessionType(Row) /\ ~RolledBackTo(s).savepoint
    <2>1. Session(t) \in SessionType(Row)
      BY <1>1, <1>8 DEF Session, TypeOK
    <2>2. QED  BY <2>1 DEF SessionType, TxnStatus, Unmarked, RolledBackTo
  <1>9. ASSUME NEW swallowed \in BOOLEAN, SavepointEnds(t, swallowed)
        PROVE  Advances(t)
    BY <1>7, <1>8, <1>9 DEF SavepointEnds, Propagate
  <1>10. ASSUME NEW caught \in BOOLEAN, SavepointRollsBack(t, caught)
         PROVE  Advances(t)
    <2>1. Session(t).savepoint
      BY <1>10 DEF SavepointRollsBack, IInv, SessionInv, Pinned
    <2>2. QED  BY <1>7, <1>8, <1>10, <2>1 DEF SavepointRollsBack
  <1>11. CASE BodyReturns(t)
    BY <1>1, <1>11 DEF BodyReturns, Goto, TypeOK, Advances, Stage
  <1>12. CASE BodyRaises(t)
    BY <1>1, <1>2, <1>12 DEF BodyRaises, Goto, UnwindTo, TypeOK, Advances, InBody, Stage
  <1>13. QED
    BY <1>4, <1>5, <1>6, <1>9, <1>10, <1>11, <1>12 DEF Body

\* No run goes round in circles: whatever its body catches and however it is
\* interrupted, each of its steps leaves less to do, for any number of statements,
\* attempts and tasks.
THEOREM NoRunGoesInCircles == Spec => RunsAdvance
  <1>1. ASSUME IInv, NEW t \in Tasks, Step(t) \/ Cancel(t)
        PROVE  Advances(t)
    <2>1. TypeOK
      BY <1>1 DEF IInv
    <2> USE DEF Goto, TypeOK, Advances, Stage
    <2>2. ASSUME NEW c \in Conns, Acquire(t, c) PROVE Advances(t)
      BY <2>1, <2>2 DEF Acquire
    <2>3. CASE AcquireFails(t)
      BY <2>1, <2>3 DEF AcquireFails
    <2>4. CASE BeginSucceeds(t)
      BY <2>1, <2>4 DEF BeginSucceeds
    <2>5. CASE BeginFails(t) \/ CancelBegin(t)
      BY <2>1, <2>5 DEF BeginFails, CancelBegin, AbandonUnitOfWork
    <2>6. CASE Exit(t) \/ CancelExit(t)
      <3>1. pc[t] = "exiting" /\ pc' = [pc EXCEPT ![t] = "releasing"] /\ UNCHANGED attempt
        BY <2>6
        DEF Exit, CommitSucceeds, CommitOfFailedBlock, CommitRejected, CommitUnacknowledged,
            CommitOnDeadConnection, Rollback, CancelExit, EndBlock
      <3>2. QED  BY <2>1, <3>1
    <2>7. CASE Release(t)
      BY <2>1, <2>7 DEF Release
    <2>8. CASE Backoff(t)
      BY <2>1, <2>8 DEF Backoff
    <2>9. CASE CancelWait(t)
      BY <2>1, <2>9 DEF CancelWait
    <2>10. CASE CancelBody(t)
      BY <2>1, <2>10 DEF CancelBody, UnwindTo, InBody
    <2>11. QED
      BY <1>1, <2>2, <2>3, <2>4, <2>5, <2>6, <2>7, <2>8, <2>9, <2>10, BodyAdvances
      DEF Step, Cancel
  <1>2. IInv /\ [Next]_vars => [\A t \in Tasks : Step(t) \/ Cancel(t) => Advances(t)]_vars
    BY <1>1
  <1>3. QED  BY <1>2, Invariance, PTL DEF Spec, RunsAdvance
-------------------------------------------------------------------------------
\* run_transaction keeps its promise: each step is a step of AtomicRuns or
\* changes nothing the caller or another session can see.
THEOREM Atomicity ==
    ASSUME ~BodySwallows
    PROVE  Spec => RunsAreAtomic
  <1>1. Init => Promise!Init
    BY DEF Init, Promise!Init
  <1>2. ASSUME IInv, IInv', [Next]_vars
        PROVE  [Promise!Next]_(Promise!vars)
    <2>1. TypeOK /\ TypeOK'  BY <1>2 DEF IInv
    <2>2. CASE UNCHANGED <<outcome, commits, durable>>
      BY <2>2 DEF Promise!vars
    <2>3. ASSUME NEW t \in Tasks, pc[t] # "done", NEW e \in Errors,
                 Finish(t, e), UNCHANGED storeVars,
                 e \in FoundationErrors => commits[t] = 0
          PROVE  Promise!Next
      <3>1. outcome[t] = None  BY <1>2, <2>3 DEF IInv, RunnerInv
      <3>2. Promise!Raise(t, e)
        BY <2>3, <3>1, TransactionsAssumption DEF Finish, storeVars, Promise!Raise
      <3>3. QED  BY <3>2 DEF Promise!Next
    <2>4. ASSUME NEW t \in Tasks, pc[t] = "exiting", MakeDurable(t), UNCHANGED outcome
          PROVE  Promise!Next
      <3>1. outcome[t] = None /\ commits[t] = 0
        BY <1>2, <2>4 DEF IInv, RunnerInv, StoreInv
      <3>2. Promise!Commit(t)
        BY <2>1, <2>4, <3>1 DEF MakeDurable, TypeOK, Promise!Commit
      <3>3. QED  BY <3>2 DEF Promise!Next
    <2>5. ASSUME NEW t \in Tasks, AcquireFails(t) PROVE Promise!Next
      <3>1. commits[t] = 0 /\ pc[t] # "done"
        BY <1>2, <2>5 DEF AcquireFails, Goto, IInv, StoreInv
      <3>2. QED
        BY <2>3, <2>5, <3>1 DEF AcquireFails, Errors, FoundationErrors
    <2>6. ASSUME NEW t \in Tasks, BeginFails(t) \/ CancelBegin(t) \/ CancelWait(t)
          PROVE  Promise!Next
      <3>1. \E e \in {"psycopg.Error", "CancelledError"} :
               Finish(t, e) /\ UNCHANGED storeVars /\ pc[t] # "done"
        BY <2>6 DEF BeginFails, CancelBegin, CancelWait, AbandonUnitOfWork, Goto
      <3>2. QED
        BY <2>3, <3>1 DEF Errors, FoundationErrors, StatementErrors, ForeignErrors
    <2>7. ASSUME NEW t \in Tasks, Release(t)
          PROVE  Promise!Next \/ UNCHANGED <<outcome, commits, durable>>
      <3>1. pc[t] = "releasing" /\ UNCHANGED storeVars
        BY <2>7 DEF Release
      <3>2. CASE Retryable(t, exc[t])
        BY <2>7, <3>1, <3>2 DEF Release, storeVars
      <3>3. CASE ~Retryable(t, exc[t]) /\ exc[t] # None
        <4>1. exc[t] \in Errors /\ (exc[t] \in FoundationErrors => commits[t] = 0)
          BY <1>2, <2>1, <3>3 DEF IInv, TypeOK, StoreInv
        <4>2. QED
          BY <2>3, <2>7, <3>1, <3>3, <4>1 DEF Release
      <3>4. CASE exc[t] = None
        <4>1. outcome[t] = None /\ commits[t] = 1
          BY <1>2, <3>1, <3>4 DEF IInv, RunnerInv, StoreInv
        <4>2. Promise!Return(t)
          BY <2>7, <3>1, <3>4, <4>1, TransactionsAssumption
          DEF Release, Finish, Retryable, storeVars, Promise!Return, Errors,
              FoundationErrors,
              StatementErrors
        <4>3. QED  BY <4>2 DEF Promise!Next
      <3>5. QED  BY <3>2, <3>3, <3>4
    <2>8. ASSUME NEW t \in Tasks, Exit(t) \/ CancelExit(t)
          PROVE  Promise!Next \/ UNCHANGED <<outcome, commits, durable>>
      <3>1. pc[t] = "exiting" /\ UNCHANGED outcome /\ (MakeDurable(t) \/ UNCHANGED storeVars)
        BY <2>8
        DEF Exit, CommitSucceeds, CommitOfFailedBlock, CommitRejected, CommitUnacknowledged,
            CommitOnDeadConnection, Rollback, CancelExit, EndBlock, Goto
      <3>2. QED  BY <2>4, <3>1 DEF storeVars
    <2>9. ASSUME NEW t \in Tasks,
                 \/ \E level \in Levels \cup {ServerDefault} : Call(t, level)
                 \/ \E c \in Conns : Acquire(t, c)
                 \/ BeginSucceeds(t) \/ Body(t) \/ Backoff(t) \/ CancelBody(t)
          PROVE  UNCHANGED <<outcome, commits, durable>>
      BY <2>9
      DEF Call, Acquire, BeginSucceeds, Backoff, CancelBody, Body, Execute, ExecuteFails,
          ExecuteRefused, SavepointEnds, SavepointRollsBack, BodyReturns, BodyRaises, storeVars
    <2>10. CASE Next
      BY <2>2, <2>5, <2>6, <2>7, <2>8, <2>9, <2>10
      DEF Next, Step, Cancel, Break, taskVars, storeVars
    <2>11. CASE UNCHANGED vars
      BY <2>2, <2>11 DEF vars, taskVars, storeVars
    <2>12. QED
      BY <1>2, <2>10, <2>11 DEF Promise!vars
  <1>3. QED  BY <1>1, <1>2, Invariance, PTL DEF Spec, RunsAreAtomic, Promise!Spec
===============================================================================
