-------------------------------- MODULE Service --------------------------------
(***************************************************************************)
(* The service around the foundation: its lifespan (asgi.py, bootstrap.py) *)
(* opens one pool per configured data source and closes them again, one    *)
(* after the other, while requests go through the gate, the facade and the *)
(* registry to a pool and come back as an HTTP status.  The server sends   *)
(* requests once the startup is complete, and may have to stop before they *)
(* are all answered.                                                       *)
(*                                                                         *)
(* The breaker between registry and pool is left out: over PsycopgPool it  *)
(* never leaves "closed" (run pool_unmapped).                              *)
(***************************************************************************)
EXTENDS Errors, FiniteSets

CONSTANTS
    Requests,   \* requests in flight at a time
    Last,       \* the data sources are 1..Last, in the order of the configuration
    MaxSize,    \* connections that each pool has at most
    Gated       \* is the gate enabled?  (a real project registers its ports)

ASSUME ServiceAssumption ==
    Last \in Nat \ {0} /\ MaxSize \in Nat \ {0} /\ Gated \in BOOLEAN

VARIABLES
    life,       \* of the process
    next,       \* the data source that start() or aclose() comes to next
    foundation, \* was set_foundation() called?
    pool,       \* the pool of each data source
    pc,         \* where each request is
    op,         \* what it asks for
    at,         \* the data source it has come to
    status,     \* the HTTP status it is answered with
    effect,     \* did its statement take effect?
    signal,     \* what MeteredConnection emitted for it
    healthy     \* the sources that its health report calls healthy

vars == <<life, next, foundation, pool, pc, op, at, status, effect, signal, healthy>>

Sources == 1 .. Last

\* The views of one data source: a statement (of view, function, procedure, query or
\* execute) that takes effect as a whole or not at all; and, in autocommit, a CALL or a
\* raw script that commits on its way.
Statements == {"statement", "procedure"}

\* All views: the list of data sources and health, too.
Ops == Statements \cup {"list", "health"}

TypeOK ==
    /\ life \in {"off", "starting", "serving", "stopping", "stopped", "failed"}
    /\ next \in Sources
    /\ foundation \in BOOLEAN
    /\ pool \in [Sources -> {"none", "new", "open", "closed"}]
    /\ pc \in [Requests -> {"none", "gate", "waiting", "holding", "releasing", "answered"}]
    /\ op \in [Requests -> Ops]
    /\ at \in [Requests -> 0 .. Last]
    /\ status \in [Requests -> Statuses \cup {0}]
    /\ effect \in [Requests -> BOOLEAN]
    /\ signal \in [Requests -> {"none", "duration", "error"}]
    /\ healthy \in [Requests -> SUBSET Sources]

Init ==
    /\ life = "off" /\ next = 1 /\ foundation = FALSE
    /\ pool = [s \in Sources |-> "none"]
    /\ pc = [r \in Requests |-> "none"]
    /\ op = [r \in Requests |-> "list"]
    /\ at = [r \in Requests |-> 0]
    /\ status = [r \in Requests |-> 0]
    /\ effect = [r \in Requests |-> FALSE]
    /\ signal = [r \in Requests |-> "none"]
    /\ healthy = [r \in Requests |-> {}]

process == <<life, next, foundation, pool>>
request == <<pc, op, at, status, effect, signal, healthy>>

InUse(s) == {r \in Requests : pc[r] \in {"holding", "releasing"} /\ at[r] = s}
-------------------------------------------------------------------------------
\* lifespan.startup without PGF_CONFIG: the service runs without a foundation.
StartWithout ==
    /\ life = "off" /\ life' = "serving"
    /\ UNCHANGED <<next, foundation, pool, request>>

\* load_settings() or build() raises: nothing was opened.
StartRefused ==
    /\ life = "off" /\ life' = "failed"
    /\ UNCHANGED <<next, foundation, pool, request>>

\* load_settings(), and build(): register() every source, open none.
Build ==
    /\ life = "off" /\ life' = "starting"
    /\ pool' = [s \in Sources |-> "new"]
    /\ UNCHANGED <<next, foundation, request>>

\* Mutant: the foundation is set before its pools are open.
OpenNextMutant ==
    /\ life = "starting"
    /\ pool' = [pool EXCEPT ![next] = "open"]
    /\ foundation' = TRUE
    /\ life' = "serving"
    /\ next' = 1
    /\ UNCHANGED request

\* start() opens the next pool, whether its data source answers or not; after the
\* last one, set_foundation().
OpenNext ==
    /\ life = "starting"
    /\ pool' = [pool EXCEPT ![next] = "open"]
    /\ \/ /\ next < Last /\ next' = next + 1
          /\ UNCHANGED <<life, foundation>>
       \/ /\ next = Last /\ next' = 1
          /\ life' = "serving" /\ foundation' = TRUE
    /\ UNCHANGED request

\* The startup is cancelled while a pool fills up.
StartCancelled ==
    /\ life = "starting" /\ life' = "failed"
    /\ UNCHANGED <<next, foundation, pool, request>>

\* lifespan.shutdown; nobody takes the foundation back.
Stop ==
    /\ life = "serving"
    /\ life' = IF foundation THEN "stopping" ELSE "stopped"
    /\ UNCHANGED <<next, foundation, pool, request>>

\* Mutant: aclose() goes one too far.
CloseNextMutant ==
    /\ life = "stopping"
    /\ pool' = [pool EXCEPT ![next] = "closed"]
    /\ \/ next <= Last /\ next' = next + 1 /\ UNCHANGED life
       \/ next > Last /\ life' = "stopped" /\ UNCHANGED next
    /\ UNCHANGED <<foundation, request>>

\* aclose() closes the next pool and waits for nobody who has a connection.
CloseNext ==
    /\ life = "stopping"
    /\ pool' = [pool EXCEPT ![next] = "closed"]
    /\ \/ next < Last /\ next' = next + 1 /\ UNCHANGED life
       \/ next = Last /\ life' = "stopped" /\ UNCHANGED next
    /\ UNCHANGED <<foundation, request>>

\* One close() raises or is cancelled: the others are not called, and the shutdown
\* is complete all the same.
StopInterrupted ==
    /\ life = "stopping" /\ life' = "stopped"
    /\ UNCHANGED <<next, foundation, pool, request>>
-------------------------------------------------------------------------------
Goto(r, label) == pc' = [pc EXCEPT ![r] = label]

\* api(): the result of the view, or the error it raised.
Answer(r, code) == Goto(r, "answered") /\ status' = [status EXCEPT ![r] = code]

Arrive(r) ==
    /\ pc[r] \in {"none", "answered"}
    /\ life \in {"serving", "stopping", "stopped"}
    /\ \E o \in Ops : op' = [op EXCEPT ![r] = o]
    /\ at' = [at EXCEPT ![r] = 0]
    /\ status' = [status EXCEPT ![r] = 0]
    /\ effect' = [effect EXCEPT ![r] = FALSE]
    /\ signal' = [signal EXCEPT ![r] = "none"]
    /\ healthy' = [healthy EXCEPT ![r] = {}]
    /\ Goto(r, "gate")
    /\ UNCHANGED process

\* AuthGate.check() raises; health has no gate.
Refuse(r) ==
    /\ pc[r] = "gate" /\ Gated /\ op[r] # "health"
    /\ \E e \in {"AuthenticationError", "AuthorizationError"} : Answer(r, StatusFor(e))
    /\ UNCHANGED <<process, op, at, effect, signal, healthy>>

\* What can be wrong with a body: the schema refuses it, its raw SQL is empty, or a name
\* or a filter in it does not compile.
Flaws == {"none", "body", "sql", "name"}

\* What a view raises between the gate and acquire(), in this order; 0 is a name in the
\* path that is no data source.
Objection(o, source, flaw) ==
    CASE o \in Statements /\ flaw = "body" -> "ValidationError"
      [] ~foundation                       -> "OtherError"
      [] o \in Statements /\ flaw = "sql"  -> "OtherError"
      [] o \in Statements /\ source = 0    -> "ConfigError"
      [] o \in Statements /\ flaw = "name" -> "QueryError"
      [] OTHER                             -> "none"

\* From the gate to the first await behind it.
Enter(r) ==
    /\ pc[r] = "gate"
    /\ \E source \in 0 .. Last, flaw \in Flaws :
       LET e == Objection(op[r], source, flaw) IN
           \/ e # "none" /\ Answer(r, StatusFor(e)) /\ UNCHANGED at
           \/ e = "none" /\ op[r] = "list" /\ Answer(r, 200) /\ UNCHANGED at
           \/ /\ e = "none" /\ op[r] # "list"
              /\ at' = [at EXCEPT ![r] = IF op[r] = "health" THEN 1 ELSE source]
              /\ Goto(r, "waiting")
              /\ UNCHANGED status
    /\ UNCHANGED <<process, op, effect, signal, healthy>>

\* Mutant: a pool hands out connections after its close().
AcquireMutant(r) ==
    /\ pc[r] = "waiting" /\ Cardinality(InUse(at[r])) < MaxSize
    /\ Goto(r, "holding")
    /\ UNCHANGED <<process, op, at, status, effect, signal, healthy>>

Acquire(r) ==
    /\ pc[r] = "waiting" /\ pool[at[r]] = "open" /\ Cardinality(InUse(at[r])) < MaxSize
    /\ Goto(r, "holding")
    /\ UNCHANGED <<process, op, at, status, effect, signal, healthy>>

\* registry.health() goes on to the next source, or reports.
NextProbe(r) ==
    \/ /\ at[r] < Last
       /\ at' = [at EXCEPT ![r] = @ + 1]
       /\ Goto(r, "waiting") /\ UNCHANGED status
    \/ at[r] = Last /\ Answer(r, 200) /\ UNCHANGED at

\* Mutant: acquire() has no timeout.
CannotAcquireMutant(r) ==
    /\ pc[r] = "waiting" /\ pool[at[r]] = "closed"
    /\ IF op[r] = "health" THEN NextProbe(r)
       ELSE Answer(r, StatusFor("OtherError")) /\ UNCHANGED at
    /\ UNCHANGED <<process, op, effect, signal, healthy>>

\* acquire() times out, finds the pool closed or is cancelled: PsycopgPool makes an
\* AttributeError of each, which health takes for a source that is down.
CannotAcquire(r) ==
    /\ pc[r] = "waiting"
    /\ IF op[r] = "health" THEN NextProbe(r)
       ELSE Answer(r, StatusFor("OtherError")) /\ UNCHANGED at
    /\ UNCHANGED <<process, op, effect, signal, healthy>>

\* The statement succeeds.
Succeed(r) ==
    /\ pc[r] = "holding"
    /\ IF op[r] = "health"
       THEN /\ healthy' = [healthy EXCEPT ![r] = @ \cup {at[r]}]
            /\ UNCHANGED <<status, effect, signal>>
       ELSE /\ effect' = [effect EXCEPT ![r] = TRUE]
            /\ signal' = [signal EXCEPT ![r] = "duration"]
            /\ \E code \in {200, StatusFor("OtherError")} :   \* of a result that is not JSON
                   status' = [status EXCEPT ![r] = code]
            /\ UNCHANGED healthy
    /\ Goto(r, "releasing")
    /\ UNCHANGED <<process, op, at>>

\* What raised e may be in effect all the same: it was the connection that was lost, or
\* the procedure raises after its COMMIT.
MayHaveEffect(r, e) == e \in {"08006", "OperationalError"} \/ op[r] = "procedure"

\* Mutant: MeteredConnection counts what it knows as an error of the query only.
FailMutant(r) ==
    /\ pc[r] = "holding"
    /\ IF op[r] = "health" THEN UNCHANGED <<status, effect, signal>>
       ELSE \E e \in SqlStates :
            /\ status' = [status EXCEPT ![r] = StatusFor(MapError(e))]
            /\ effect' \in {effect, [effect EXCEPT ![r] = MayHaveEffect(r, e)]}
            /\ signal' = [signal EXCEPT ![r] = IF MapError(e) = "QueryError" THEN "error" ELSE @]
    /\ Goto(r, "releasing")
    /\ UNCHANGED <<process, op, at, healthy>>

\* The statement raises.
Fail(r) ==
    /\ pc[r] = "holding"
    /\ IF op[r] = "health" THEN UNCHANGED <<status, effect, signal>>
       ELSE \E e \in SqlStates :
            /\ status' = [status EXCEPT ![r] = StatusFor(MapError(e))]
            /\ effect' \in {effect, [effect EXCEPT ![r] = MayHaveEffect(r, e)]}
            /\ signal' = [signal EXCEPT ![r] = "error"]
    /\ Goto(r, "releasing")
    /\ UNCHANGED <<process, op, at, healthy>>

\* release(), in the finally.
Release(r) ==
    /\ pc[r] = "releasing"
    /\ IF op[r] = "health" /\ status[r] = 0 THEN NextProbe(r)
       ELSE Goto(r, "answered") /\ UNCHANGED <<at, status>>
    /\ UNCHANGED <<process, op, effect, signal, healthy>>

\* The client disconnects and the server cancels the view at the gate, or at its
\* statement, which may be in effect.  Nobody reads the answer (499).
Cancel(r) ==
    /\ \/ pc[r] = "gate" /\ Goto(r, "answered") /\ UNCHANGED effect
       \/ /\ pc[r] = "holding" /\ Goto(r, "releasing")
          /\ effect' \in {effect, [effect EXCEPT ![r] = op[r] # "health"]}
    /\ status' = [status EXCEPT ![r] = 499]
    /\ UNCHANGED <<process, op, at, signal, healthy>>

Next ==
    \/ StartWithout \/ StartRefused \/ Build \/ OpenNext \/ StartCancelled
    \/ Stop \/ CloseNext \/ StopInterrupted
    \/ \E r \in Requests :
           \/ Arrive(r) \/ Refuse(r) \/ Enter(r) \/ Acquire(r) \/ CannotAcquire(r)
           \/ Succeed(r) \/ Fail(r) \/ Release(r) \/ Cancel(r)

Spec == Init /\ [][Next]_vars

\* The gate answers, acquire_timeout_seconds bounds acquire(), a statement ends (with
\* statement_timeout_ms or by itself), and the event loop runs what is ready.
FairSpec ==
    /\ Spec
    /\ \A r \in Requests :
           /\ WF_vars(Refuse(r) \/ Enter(r))
           /\ WF_vars(Acquire(r) \/ CannotAcquire(r))
           /\ WF_vars(Succeed(r) \/ Fail(r))
           /\ WF_vars(Release(r))
-------------------------------------------------------------------------------
Answered(r) == pc[r] = "answered" /\ op[r] \in Statements

\* What the status tells the client is true: 200 says that the statement took effect,
\* and a 4xx that it did not, so that it can be corrected and sent again, unless a
\* procedure that commits on its way was begun and raised; otherwise only 5xx leaves it
\* open (http_errors.py over errors_map.py, after the gate in views.py).
AnswersAreTrue ==
    \A r \in Requests : Answered(r) =>
        /\ status[r] = 200 => effect[r]
        /\ status[r] \in {400, 401, 403, 404, 409} =>
               ~effect[r] \/ (op[r] = "procedure" /\ signal[r] = "error")

\* No request meets a pool that was never opened, whatever interrupts the startup:
\* the foundation is published after its last pool is open (bootstrap.py), and an
\* interrupted shutdown leaves the sources after the one it had come to.
OpenBeforeUse ==
    /\ \A r \in Requests : at[r] # 0 => pool[at[r]] \in {"open", "closed"}
    /\ life = "failed" => \A r \in Requests : pc[r] = "none"
    /\ \A s, t \in Sources : s < t /\ pool[t] = "closed" => pool[s] = "closed"

\* The metrics agree with the answers: no 409 or 503 without an error counted, and
\* nothing is counted for a request that came to no statement (metered.py).
SignalsAgree ==
    \A r \in Requests : Answered(r) =>
        /\ status[r] = 200 => signal[r] = "duration"
        /\ status[r] \in {409, 503} => signal[r] = "error"
        /\ status[r] \in {401, 403, 404} => signal[r] = "none"

\* Every request is answered, whatever the data sources and the lifespan do.
EveryRequestAnswered ==
    \A r \in Requests : pc[r] = "gate" ~> pc[r] = "answered"

\* After aclose() the process is soon without connections, for ever: the requests that
\* it did not wait for give theirs back, and later ones get none, though nobody takes
\* the foundation away from them.
Drains ==
    (\A s \in Sources : pool[s] = "closed") ~> [](\A s \in Sources : InUse(s) = {})
===============================================================================
