-------------------------- MODULE ResilientPoolProofs --------------------------
(***************************************************************************)
(* Proofs about ResilientPool, for any number of callers, any threshold    *)
(* and any window.                                                         *)
(***************************************************************************)
EXTENDS ResilientPool, TLAPS

\* Every operation of the breaker keeps its type and keeps its state and its
\* failure counter in step.
LEMMA BreakerOps ==
    ASSUME NEW b \in BreakerType, b.state = "closed" <=> b.failures < Threshold
    PROVE  /\ Looked(b) \in BreakerType
           /\ Looked(b).state = "closed" <=> Looked(b).failures < Threshold
           /\ OnSuccess(b) \in BreakerType
           /\ OnSuccess(b).state = "closed" <=> OnSuccess(b).failures < Threshold
           /\ OnFailure(b) \in BreakerType
           /\ OnFailure(b).state = "closed" <=> OnFailure(b).failures < Threshold
           /\ b.elapsed < Reset =>
                /\ Aged(b) \in BreakerType
                /\ Aged(b).state = "closed" <=> Aged(b).failures < Threshold
  <1>1. 0 \in 0 .. Threshold /\ 0 \in 0 .. Reset /\ 0 < Threshold
    BY BreakerAssumption
  <1>2. /\ b.state \in CircuitState
        /\ b.failures \in 0 .. Threshold
        /\ b.elapsed \in 0 .. Reset
    BY DEF BreakerType
  <1>3. /\ Looked(b) \in BreakerType
        /\ Looked(b).state = "closed" <=> Looked(b).failures < Threshold
    BY DEF Looked, BreakerType, CircuitState
  <1>4. /\ OnSuccess(b) \in BreakerType
        /\ OnSuccess(b).state = "closed" <=> OnSuccess(b).failures < Threshold
    <2>1. OnSuccess(b) \in BreakerType
      BY <1>1 DEF OnSuccess, BreakerType, CircuitState
    <2>2. OnSuccess(b).state = "closed" /\ OnSuccess(b).failures = 0
      BY DEF OnSuccess, BreakerType
    <2>3. QED  BY <1>1, <2>1, <2>2
  <1>5. ASSUME NEW a \in BreakerType
        PROVE  /\ Trip(a) \in BreakerType
               /\ Trip(a).state = "open" /\ Trip(a).failures = a.failures
    BY <1>1 DEF Trip, BreakerType, CircuitState
  <1>6. /\ Counted(b) \in BreakerType /\ Counted(b).state = b.state
        /\ Counted(b).failures = IF b.failures < Threshold THEN b.failures + 1
                                  ELSE b.failures
    <2>1. b.failures < Threshold => b.failures + 1 \in 0 .. Threshold
      BY <1>2, BreakerAssumption
    <2>2. QED  BY <1>2, <2>1 DEF Counted, BreakerType
  <1>7. /\ OnFailure(b) \in BreakerType
        /\ OnFailure(b).state = "closed" <=> OnFailure(b).failures < Threshold
    <2>1. CASE b.state = "half_open"
      BY <1>2, <1>5, <2>1 DEF OnFailure
    <2>2. CASE b.state # "half_open" /\ Counted(b).failures >= Threshold
      <3>1. OnFailure(b) = Trip(Counted(b))
        BY <2>2 DEF OnFailure
      <3>2. ~(Counted(b).failures < Threshold)
        BY <1>2, <1>6, <2>2, BreakerAssumption
      <3>3. QED  BY <1>5, <1>6, <3>1, <3>2
    <2>3. CASE b.state # "half_open" /\ ~(Counted(b).failures >= Threshold)
      <3>1. OnFailure(b) = Counted(b)
        BY <2>3 DEF OnFailure
      <3>2. Counted(b).failures < Threshold /\ b.failures < Threshold
        BY <1>2, <1>6, <2>3, BreakerAssumption
      <3>3. QED  BY <1>6, <3>1, <3>2
    <2>4. QED  BY <2>1, <2>2, <2>3
  <1>8. b.elapsed < Reset =>
          /\ Aged(b) \in BreakerType
          /\ Aged(b).state = "closed" <=> Aged(b).failures < Threshold
    <2>1. b.elapsed < Reset => b.elapsed + 1 \in 0 .. Reset
      BY <1>2, BreakerAssumption
    <2>2. QED  BY <1>2, <2>1 DEF Aged, BreakerType
  <1>9. QED  BY <1>3, <1>4, <1>7, <1>8

\* The breaker's invariant is inductive together with the types.
Inv == TypeOK /\ BreakerConsistent

LEMMA InitInv == Init => Inv
  <1> SUFFICES ASSUME Init PROVE Inv
    OBVIOUS
  <1>1. 0 \in 0 .. Threshold /\ 0 \in 0 .. Reset /\ 0 < Threshold
    BY BreakerAssumption
  <1>2. IdleConns \in 0 .. IdleConns /\ 0 \in 0 .. MaxMishaps
    BY ResilientPoolAssumption
  <1>3. breaker \in BreakerType /\ BreakerConsistent
    BY <1>1 DEF Init, NewBreaker, BreakerType, CircuitState, BreakerConsistent
  <1>4. QED
    BY <1>2, <1>3 DEF Init, Inv, TypeOK

\* The counters of the environment stay in their ranges.
LEMMA Counters ==
    ASSUME spare \in 0 .. IdleConns, mishaps \in 0 .. MaxMishaps
    PROVE  /\ spare > 0 => spare - 1 \in 0 .. IdleConns
           /\ mishaps < MaxMishaps => mishaps + 1 \in 0 .. MaxMishaps
           /\ IdleConns \in 0 .. IdleConns
  BY ResilientPoolAssumption

LEMMA NextInv == Inv /\ [Next]_vars => Inv'
  <1> SUFFICES ASSUME Inv, [Next]_vars PROVE Inv'
    OBVIOUS
  <1>0. /\ TypeOK /\ breaker \in BreakerType
        /\ breaker.state = "closed" <=> breaker.failures < Threshold
        /\ spare \in 0 .. IdleConns /\ mishaps \in 0 .. MaxMishaps
    BY DEF Inv, TypeOK, BreakerConsistent
  <1>1. ASSUME NEW k \in Callers, Admit(k) PROVE Inv'
    <2>1. breaker' \in BreakerType /\ BreakerConsistent'
      BY <1>0, <1>1, BreakerOps DEF Admit, BreakerConsistent
    <2>2. spare' \in 0 .. IdleConns /\ mishaps' \in 0 .. MaxMishaps
      BY <1>0, <1>1, Counters DEF Admit
    <2>3. QED
      BY <1>0, <1>1, <2>1, <2>2 DEF Admit, Inv, TypeOK
  <1>2. ASSUME NEW k \in Callers, FastFail(k) PROVE Inv'
    <2>1. breaker' \in BreakerType /\ BreakerConsistent'
      BY <1>0, <1>2, BreakerOps DEF FastFail, BreakerConsistent
    <2>2. spare' \in 0 .. IdleConns /\ mishaps' \in 0 .. MaxMishaps
      BY <1>0, <1>2, Counters DEF FastFail
    <2>3. QED
      BY <1>0, <1>2, <2>1, <2>2 DEF FastFail, Answer, Inv, TypeOK
  <1>3. ASSUME NEW k \in Callers, Succeed(k) PROVE Inv'
    <2>1. breaker' \in BreakerType /\ BreakerConsistent'
      BY <1>0, <1>3, BreakerOps DEF Succeed, BreakerConsistent
    <2>2. spare' \in 0 .. IdleConns /\ mishaps' \in 0 .. MaxMishaps
      BY <1>0, <1>3, Counters DEF Succeed
    <2>3. QED
      BY <1>0, <1>3, <2>1, <2>2 DEF Succeed, Answer, Inv, TypeOK
  <1>4. ASSUME NEW k \in Callers, Fail(k) PROVE Inv'
    <2>1. breaker' \in BreakerType /\ BreakerConsistent'
      BY <1>0, <1>4, BreakerOps DEF Fail, BreakerConsistent
    <2>2. spare' \in 0 .. IdleConns /\ mishaps' \in 0 .. MaxMishaps
      BY <1>0, <1>4, Counters DEF Fail
    <2>3. QED
      BY <1>0, <1>4, <2>1, <2>2 DEF Fail, Answer, Inv, TypeOK
  <1>5. ASSUME NEW k \in Callers, Cancel(k) PROVE Inv'
    <2>1. breaker' \in BreakerType /\ BreakerConsistent'
      BY <1>0, <1>5 DEF Cancel, BreakerConsistent
    <2>2. spare' \in 0 .. IdleConns /\ mishaps' \in 0 .. MaxMishaps
      BY <1>0, <1>5, Counters DEF Cancel
    <2>3. QED
      BY <1>0, <1>5, <2>1, <2>2 DEF Cancel, Answer, Inv, TypeOK
  <1>6. CASE Tick
    <2>1. breaker' \in BreakerType /\ BreakerConsistent'
      BY <1>0, <1>6, BreakerOps DEF Tick, BreakerConsistent
    <2>2. QED
      BY <1>0, <1>6, <2>1 DEF Tick, Inv, TypeOK
  <1>7. CASE GoDown \/ GoUp
    <2>1. breaker' = breaker /\ spare' \in 0 .. IdleConns
      BY <1>0, <1>7, Counters DEF GoDown, GoUp
    <2>2. QED
      BY <1>0, <1>7, <2>1 DEF GoDown, GoUp, Inv, TypeOK, BreakerConsistent
  <1>8. CASE UNCHANGED vars
    BY <1>0, <1>8 DEF vars, Inv, TypeOK, BreakerConsistent
  <1>9. QED
    BY <1>1, <1>2, <1>3, <1>4, <1>5, <1>6, <1>7, <1>8 DEF Next

\* Type correctness of the breaker and its callers.
THEOREM TypeCorrect == Spec => []TypeOK
  <1>1. Inv => TypeOK  BY DEF Inv
  <1>2. QED  BY <1>1, InitInv, NextInv, PTL DEF Spec

\* However late the answers of concurrent acquire() calls arrive, the circuit is
\* closed exactly while fewer than Threshold failures are counted.
THEOREM Consistency == Spec => []BreakerConsistent
  <1>1. Inv => BreakerConsistent  BY DEF Inv
  <1>2. QED  BY <1>1, InitInv, NextInv, PTL DEF Spec
-------------------------------------------------------------------------------
\* What only calls that do not overlap guarantee: nobody waits on an open
\* circuit, because the one caller was let through by the state it will find.
NobodyWaitsOnOpen == breaker.state = "open" => ~Awaited

\* A window that has just started, or has time left, is not over.
LEMMA WindowRunning ==
    /\ ~(0 >= Reset)
    /\ \A b \in BreakerType : b.elapsed < Reset => ~(b.elapsed >= Reset)
  BY BreakerAssumption DEF BreakerType

\* A failure opens the circuit, restarts its window, or changes neither.
LEMMA FailureEdges ==
    ASSUME NEW b \in BreakerType
    PROVE  \/ OnFailure(b).state = "open" /\ OnFailure(b).elapsed = 0
           \/ OnFailure(b).state = b.state /\ OnFailure(b).elapsed = b.elapsed
  BY BreakerAssumption DEF OnFailure, Counted, Trip, BreakerType, CircuitState

\* However many calls overlap, the breaker of a data source follows the documented
\* diagram, but for answers that were admitted before the circuit opened.
THEOREM DiagramFollowed == Spec => FollowsDiagram
  <1>1. Init => Diagram!Init
    BY BreakerAssumption DEF Init, NewBreaker, Diagram!Init
  <1>2. ASSUME Inv, [Next]_vars
        PROVE  [Diagram!Next]_(Diagram!vars)
    <2> USE <1>2, BreakerAssumption
        DEF Inv, TypeOK, BreakerType, CircuitState, Diagram!Next, Diagram!vars
    <2>1. ASSUME NEW k \in Callers, Admit(k) \/ FastFail(k)
          PROVE  [Diagram!Next]_(Diagram!vars)
      BY <2>1 DEF Admit, FastFail, Answer, Allows, Looked, Diagram!HalfOpen
    <2>2. ASSUME NEW k \in Callers, Succeed(k)
          PROVE  [Diagram!Next]_(Diagram!vars)
      BY <2>2 DEF Succeed, OnSuccess, Awaited, Diagram!Close, Diagram!LateSuccess
    <2>3. ASSUME NEW k \in Callers, Fail(k)
          PROVE  [Diagram!Next]_(Diagram!vars)
      <3>1. breaker' = breaker \/ breaker' = OnFailure(breaker)
        BY <2>3 DEF Fail
      <3>2. Awaited
        BY <2>3 DEF Fail, Awaited
      <3>3. \/ breaker'.state = "open" /\ breaker'.elapsed = 0
            \/ breaker'.state = breaker.state /\ breaker'.elapsed = breaker.elapsed
        BY <3>1, FailureEdges
      <3>4. CASE breaker'.state = "open" /\ breaker'.elapsed = 0
        <4>1. ~(breaker'.elapsed >= Reset)
          BY <3>4, WindowRunning
        <4>2. (IF breaker'.elapsed >= Reset THEN "over" ELSE "running") = "running"
          BY <4>1
        <4>3. Diagram!Open \/ Diagram!Reopen \/ Diagram!LateFailure
          BY <3>2, <3>4, <4>2 DEF Diagram!Open, Diagram!Reopen, Diagram!LateFailure
        <4>4. QED  BY <4>3
      <3>5. CASE breaker'.state = breaker.state /\ breaker'.elapsed = breaker.elapsed
        BY <3>5
      <3>6. QED  BY <3>3, <3>4, <3>5
    <2>4. CASE Tick
      <3>1. /\ breaker.state = "open" /\ breaker'.state = "open"
            /\ breaker.elapsed < Reset /\ breaker'.elapsed = breaker.elapsed + 1
        BY <2>4 DEF Tick, Aged
      <3>2. CASE breaker'.elapsed >= Reset
        BY <3>1, <3>2 DEF Diagram!Elapse
      <3>3. CASE ~(breaker'.elapsed >= Reset)
        <4>1. ~(breaker.elapsed >= Reset)
          BY <3>1, WindowRunning
        <4>2. QED  BY <3>1, <3>3, <4>1
      <3>4. QED  BY <3>2, <3>3
    <2>5. CASE \/ \E k \in Callers : Cancel(k)
               \/ GoDown \/ GoUp \/ UNCHANGED vars
      BY <2>5 DEF Cancel, GoDown, GoUp, vars
    <2>6. QED
      BY <2>1, <2>2, <2>3, <2>4, <2>5 DEF Next
  <1>3. QED
    BY <1>1, <1>2, InitInv, NextInv, PTL DEF Spec, FollowsDiagram, Diagram!Spec

\* A data source whose acquire() calls never overlap sees no late answer: its
\* breaker follows the documented diagram alone.
THEOREM SequentialNeverLate ==
    ASSUME \A k, l \in Callers : k = l
    PROVE  Spec => []NobodyWaitsOnOpen
  <1>1. Init => NobodyWaitsOnOpen
    BY DEF Init, NobodyWaitsOnOpen, Awaited
  <1>2. ASSUME Inv, NobodyWaitsOnOpen, [Next]_vars
        PROVE  NobodyWaitsOnOpen'
    <2> USE <1>2 DEF Inv, TypeOK, BreakerType, CircuitState, NobodyWaitsOnOpen, Awaited
    <2>1. ASSUME NEW k \in Callers, Admit(k)
          PROVE  NobodyWaitsOnOpen'
      BY <2>1 DEF Admit, Allows
    <2>2. ASSUME NEW k \in Callers, FastFail(k) \/ Succeed(k) \/ Fail(k) \/ Cancel(k)
          PROVE  NobodyWaitsOnOpen'
      <3>1. pc'[k] = "idle" /\ \A l \in Callers : l = k
        BY <2>2 DEF FastFail, Succeed, Fail, Cancel, Answer
      <3>2. QED  BY <3>1
    <2>3. CASE Tick \/ GoDown \/ GoUp \/ UNCHANGED vars
      BY <2>3 DEF Tick, Aged, GoDown, GoUp, vars
    <2>4. QED
      BY <2>1, <2>2, <2>3 DEF Next
  <1>3. QED
    BY <1>1, <1>2, InitInv, NextInv, PTL DEF Spec
-------------------------------------------------------------------------------
\* The breaker goes with the source, whatever answers are late and whoever is cancelled:
\* while nothing can be handed out, no step closes the circuit or takes a failure back,
\* and a timeout opens it or counts; while the source is up and no call has a mishap, no
\* step opens it or adds a failure (circuit_breaker.py under resilience/pool.py).
GoesWithSource ==
    [][/\ ~up /\ ~up' /\ spare = 0 =>
             /\ breaker'.failures >= breaker.failures
             /\ breaker'.state = "closed" => breaker.state = "closed"
             /\ \A k \in Callers : Fail(k) =>
                    breaker'.state = "open" \/ breaker'.failures = breaker.failures + 1
       /\ up /\ up' /\ mishaps' = mishaps =>
             /\ breaker'.failures <= breaker.failures
             /\ breaker'.state = "open" => breaker.state = "open"]_vars

\* What a failure does: it opens the circuit or counts, and takes no failure back.
LEMMA FailureCounts ==
    ASSUME NEW b \in BreakerType, b.state = "closed" <=> b.failures < Threshold
    PROVE  /\ OnFailure(b).failures >= b.failures
           /\ OnFailure(b).state = "closed" => b.state = "closed"
           /\ OnFailure(b).state = "open" \/ OnFailure(b).failures = b.failures + 1
  <1>1. b.failures \in Nat /\ b.failures <= Threshold /\ b.state \in CircuitState
    BY BreakerAssumption DEF BreakerType
  <1>2. /\ Counted(b).failures = IF b.failures < Threshold THEN b.failures + 1 ELSE b.failures
        /\ Counted(b).state = b.state /\ Counted(b) \in BreakerType
    <2>1. (IF b.failures < Threshold THEN b.failures + 1 ELSE b.failures) \in 0 .. Threshold
      BY <1>1, BreakerAssumption
    <2>2. QED  BY <2>1 DEF Counted, BreakerType
  <1>3. \A c \in BreakerType : Trip(c).state = "open" /\ Trip(c).failures = c.failures
    BY DEF Trip, BreakerType
  <1>4. CASE b.state = "half_open"
    BY <1>1, <1>3, <1>4 DEF OnFailure
  <1>5. CASE b.state # "half_open" /\ Counted(b).failures >= Threshold
    BY <1>1, <1>2, <1>3, <1>5 DEF OnFailure
  <1>6. CASE b.state # "half_open" /\ ~(Counted(b).failures >= Threshold)
    <2>1. OnFailure(b) = Counted(b)
      BY <1>6 DEF OnFailure
    <2>2. b.failures < Threshold
      BY <1>1, <1>2, <1>6, BreakerAssumption
    <2>3. QED  BY <1>1, <1>2, <2>1, <2>2
  <1>7. QED  BY <1>4, <1>5, <1>6

\* What looking does: it neither opens nor closes, and keeps the count.
LEMMA LookedKeeps ==
    ASSUME NEW b \in BreakerType
    PROVE  /\ Looked(b).failures = b.failures
           /\ Looked(b).state = "open" => b.state = "open"
           /\ Looked(b).state = "closed" => b.state = "closed"
  BY DEF Looked, BreakerType

\* If a timeout is mapped as the port says, the breaker goes with its source: towards
\* open in an outage, and never there while calls succeed, for any number of callers.
THEOREM SourceFollowed ==
    ASSUME TimeoutMapped
    PROVE  Spec => GoesWithSource
  <1>1. ASSUME Inv, [Next]_vars
        PROVE  /\ ~up /\ ~up' /\ spare = 0 =>
                     /\ breaker'.failures >= breaker.failures
                     /\ breaker'.state = "closed" => breaker.state = "closed"
                     /\ \A k \in Callers : Fail(k) =>
                            breaker'.state = "open" \/ breaker'.failures = breaker.failures + 1
               /\ up /\ up' /\ mishaps' = mishaps =>
                     /\ breaker'.failures <= breaker.failures
                     /\ breaker'.state = "open" => breaker.state = "open"
    <2>1. /\ breaker \in BreakerType /\ breaker.failures \in Nat
          /\ breaker.state = "closed" <=> breaker.failures < Threshold
          /\ spare \in Nat /\ mishaps \in Nat
      <3>1. /\ breaker \in BreakerType /\ spare \in 0 .. IdleConns /\ mishaps \in 0 .. MaxMishaps
            /\ breaker.state = "closed" <=> breaker.failures < Threshold
        BY <1>1 DEF Inv, TypeOK, BreakerConsistent
      <3>2. breaker.failures \in 0 .. Threshold
        BY <3>1 DEF BreakerType
      <3>3. QED  BY <3>1, <3>2, BreakerAssumption, ResilientPoolAssumption
    <2>2. ASSUME NEW k \in Callers, Fail(k)
          PROVE  /\ breaker' = OnFailure(breaker)
                 /\ up /\ up' => mishaps' # mishaps
      BY <2>1, <2>2 DEF Fail
    <2>3. ASSUME NEW k \in Callers, Succeed(k)
          PROVE  /\ up \/ spare > 0
                 /\ breaker'.failures = 0 /\ breaker'.state = "closed"
      BY <2>1, <2>3 DEF Succeed, OnSuccess, BreakerType
    <2>4. ASSUME NEW k \in Callers, Admit(k) \/ FastFail(k)
          PROVE  breaker' = Looked(breaker)
      BY <2>4 DEF Admit, FastFail
    <2>5. ASSUME Tick
          PROVE  breaker'.failures = breaker.failures /\ breaker'.state = breaker.state
      BY <2>1, <2>5 DEF Tick, Aged, BreakerType
    <2>6. ASSUME \/ \E k \in Callers : Cancel(k)
                 \/ GoDown \/ GoUp \/ UNCHANGED vars
          PROVE  breaker' = breaker
      BY <2>6 DEF Cancel, GoDown, GoUp, vars
    <2>7. ASSUME NEW k \in Callers, Fail(k), ~up
          PROVE  breaker'.state = "open" \/ breaker'.failures = breaker.failures + 1
      BY <2>1, <2>2, <2>7, FailureCounts
    <2>8. ~up /\ ~up' /\ spare = 0 =>
             /\ breaker'.failures >= breaker.failures
             /\ breaker'.state = "closed" => breaker.state = "closed"
      BY <1>1, <2>1, <2>2, <2>3, <2>4, <2>5, <2>6, FailureCounts, LookedKeeps DEF Next
    <2>9. up /\ up' /\ mishaps' = mishaps =>
             /\ breaker'.failures <= breaker.failures
             /\ breaker'.state = "open" => breaker.state = "open"
      BY <1>1, <2>1, <2>2, <2>3, <2>4, <2>5, <2>6, LookedKeeps DEF Next
    <2>10. QED  BY <2>7, <2>8, <2>9
  <1>2. QED
    BY <1>1, InitInv, NextInv, PTL DEF Spec, GoesWithSource
===============================================================================
