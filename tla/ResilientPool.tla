---------------------------- MODULE ResilientPool ----------------------------
(***************************************************************************)
(* ResilientPool (resilience/pool.py) over PsycopgPool: callers share one  *)
(* pool and its breaker.  acquire() asks the breaker and awaits the inner  *)
(* acquire(); other callers run meanwhile, so the answer reaches a breaker *)
(* that may have changed since.                                            *)
(***************************************************************************)
EXTENDS CircuitBreaker

CONSTANTS
    Callers,        \* tasks that call acquire(), one call at a time each
    IdleConns,      \* connections the inner pool holds while the source is up
    MaxMishaps,     \* bound on mishaps
    TimeoutMapped   \* does a timeout of the inner acquire() raise PoolTimeoutError?
                    \*   TRUE : what the port asks for and FakePool does
                    \*   FALSE: PsycopgPool, whose except clause names
                    \*          psycopg.pool, which does not exist, so that an
                    \*          AttributeError is raised instead

ASSUME ResilientPoolAssumption ==
    /\ IdleConns \in Nat
    /\ MaxMishaps \in Nat
    /\ TimeoutMapped \in BOOLEAN

VARIABLES
    pc,         \* "idle", or "waiting" for the inner acquire()
    answer,     \* what the caller's last call gave
    breaker,    \* the breaker of the data source
    up,         \* can the data source be reached?
    spare,      \* idle connections that the inner pool can hand out when it cannot
    mishaps     \* calls so far that were cancelled, or timed out while the source was up

vars == <<pc, answer, breaker, up, spare, mishaps>>

TypeOK ==
    /\ pc \in [Callers -> {"idle", "waiting"}]
    /\ answer \in [Callers -> {"none", "connection", "circuit open", "error", "cancelled"}]
    /\ breaker \in BreakerType
    /\ up \in BOOLEAN
    /\ spare \in 0 .. IdleConns
    /\ mishaps \in 0 .. MaxMishaps

Init ==
    /\ pc = [k \in Callers |-> "idle"]
    /\ answer = [k \in Callers |-> "none"]
    /\ breaker = NewBreaker
    /\ up = TRUE
    /\ spare = IdleConns
    /\ mishaps = 0

Answer(k, a) ==
    /\ pc' = [pc EXCEPT ![k] = "idle"]
    /\ answer' = [answer EXCEPT ![k] = a]

\* acquire(): the breaker allows the call and the inner acquire() starts.
\* Nothing limits how many calls a half-open breaker lets through.
Admit(k) ==
    /\ pc[k] = "idle"
    /\ Allows(breaker)
    /\ breaker' = Looked(breaker)
    /\ pc' = [pc EXCEPT ![k] = "waiting"]
    /\ UNCHANGED <<answer, up, spare, mishaps>>

\* acquire(): ConnectionError("circuit open").
FastFail(k) ==
    /\ pc[k] = "idle"
    /\ ~Allows(breaker)
    /\ breaker' = Looked(breaker)
    /\ Answer(k, "circuit open")
    /\ UNCHANGED <<up, spare, mishaps>>

\* Mutant: a dead connection more than the pool has.
SucceedMutant(k) ==
    /\ pc[k] = "waiting"
    /\ spare' = IF up THEN spare ELSE spare - 1
    /\ breaker' = OnSuccess(breaker)
    /\ Answer(k, "connection")
    /\ UNCHANGED <<up, mishaps>>

\* The inner acquire() answers with a connection.  While the source is down that
\* is one the pool held; its death shows only when it is used.
Succeed(k) ==
    /\ pc[k] = "waiting"
    /\ \/ up /\ UNCHANGED spare
       \/ ~up /\ spare > 0 /\ spare' = spare - 1
    /\ breaker' = OnSuccess(breaker)
    /\ Answer(k, "connection")
    /\ UNCHANGED <<up, mishaps>>

\* The inner acquire() times out, for want of the source or because every
\* connection is in use.  Only ConnectionError and PoolTimeoutError reach
\* on_failure().
Fail(k) ==
    /\ pc[k] = "waiting"
    /\ \/ ~up /\ spare = 0 /\ UNCHANGED mishaps
       \/ up /\ mishaps < MaxMishaps /\ mishaps' = mishaps + 1
    /\ breaker' = IF TimeoutMapped THEN OnFailure(breaker) ELSE breaker
    /\ Answer(k, "error")
    /\ UNCHANGED <<up, spare>>

\* The caller is cancelled: neither on_success() nor on_failure().
Cancel(k) ==
    /\ pc[k] = "waiting"
    /\ mishaps < MaxMishaps
    /\ mishaps' = mishaps + 1
    /\ Answer(k, "cancelled")
    /\ UNCHANGED <<breaker, up, spare>>

Tick ==
    /\ breaker.state = "open" /\ breaker.elapsed < Reset
    /\ breaker' = Aged(breaker)
    /\ UNCHANGED <<pc, answer, up, spare, mishaps>>

GoDown ==
    /\ up /\ up' = FALSE
    /\ UNCHANGED <<pc, answer, breaker, spare, mishaps>>

\* The pool fills up again.
GoUp ==
    /\ ~up /\ up' = TRUE
    /\ spare' = IdleConns
    /\ UNCHANGED <<pc, answer, breaker, mishaps>>

Next ==
    \/ \E k \in Callers : Admit(k) \/ FastFail(k) \/ Succeed(k) \/ Fail(k) \/ Cancel(k)
    \/ Tick
    \/ GoDown
    \/ GoUp

Spec == Init /\ [][Next]_vars

\* Traffic does not stop, acquire_timeout_seconds bounds the inner acquire(), and
\* the clock advances.
FairSpec ==
    /\ Spec
    /\ \A k \in Callers : WF_vars(Admit(k) \/ FastFail(k)) /\ WF_vars(Succeed(k) \/ Fail(k))
    /\ WF_vars(Tick)
-------------------------------------------------------------------------------
\* The two fields of the breaker tell the same story, whatever order late answers
\* arrive in: the circuit is closed exactly while fewer than Threshold failures
\* were counted since the last success.  (A failure in HALF_OPEN is not counted,
\* a success from before the trip resets, a trip does not.)
BreakerConsistent == breaker.state = "closed" <=> breaker.failures < Threshold

\* While the data source stays down the breaker keeps opening: callers are not
\* left to time out one by one ("opens the breaker on repeated connection
\* failures", resilience/pool.py).
KeepsOpening == <>[]~up => []<>(breaker.state = "open")

\* Once the data source is back for good the breaker closes for good: no probe
\* that was cancelled or failed late leaves it half-open or open.
Recovers == <>[]up => <>[](breaker.state = "closed")

\* Is an answer awaited?  On an open circuit it is one that was admitted before.
Awaited == \E k \in Callers : pc[k] = "waiting"

\* The documented diagram, with lazy half-opening; an open circuit leaves it only
\* for an answer that was admitted before it opened.
Diagram == INSTANCE BreakerDiagram
               WITH circuit <- breaker.state,
                    window  <- IF breaker.elapsed >= Reset THEN "over" ELSE "running",
                    late    <- Awaited
FollowsDiagram == Diagram!Spec
===============================================================================
