----------------------------- MODULE ServiceProofs -----------------------------
(***************************************************************************)
(* For any number of requests and of data sources: what a status says is   *)
(* true, no request meets a pool that was never opened, and the metrics    *)
(* agree with the answers.  The invariant adds where start() and aclose()  *)
(* are in the list of pools, that a request reaches a source only through  *)
(* the foundation, and that a request has done nothing before it holds a   *)
(* connection.                                                             *)
(***************************************************************************)
EXTENDS Service, TLAPS

\* start() and aclose() go through the pools in order, and the foundation is set once
\* all of them are open.
Lifecycle ==
    /\ life \in {"off", "starting", "failed"} => ~foundation /\ \A r \in Requests : pc[r] = "none"
    /\ life = "off" => next = 1
    /\ life = "starting" =>
           \A s \in Sources : (s < next => pool[s] = "open") /\ (s >= next => pool[s] = "new")
    /\ life = "serving" => next = 1 /\ \A s \in Sources : pool[s] # "closed"
    /\ life = "stopping" => \A s \in Sources : pool[s] = "closed" <=> s < next
    /\ life = "stopping" => foundation
    /\ foundation => \A s \in Sources : pool[s] \in {"open", "closed"}
    /\ ~foundation => \A s \in Sources : pool[s] # "closed"
    /\ \A s, t \in Sources : s < t /\ pool[t] = "closed" => pool[s] = "closed"

\* A request comes to a source only by way of the foundation, and to none at the gate.
ThroughFoundation ==
    \A r \in Requests :
        /\ pc[r] = "gate" => at[r] = 0
        /\ at[r] # 0 => foundation
        /\ pc[r] \in {"waiting", "holding"} => at[r] # 0
        /\ op[r] = "health" /\ pc[r] = "releasing" => at[r] # 0

\* Before its statement a request has neither effect nor signal; afterwards its status
\* tells the truth about them.
Truth ==
    \A r \in Requests : op[r] \in Statements =>
        /\ pc[r] \in {"none", "gate", "waiting", "holding"} => ~effect[r] /\ signal[r] = "none"
        /\ pc[r] \in {"releasing", "answered"} =>
               /\ status[r] = 200 => effect[r] /\ signal[r] = "duration"
               /\ status[r] \in {400, 401, 403, 404, 409} =>
                      ~effect[r] \/ (op[r] = "procedure" /\ signal[r] = "error")
               /\ status[r] \in {409, 503} => signal[r] = "error"
               /\ status[r] \in {401, 403, 404} => signal[r] = "none"

IInv == TypeOK /\ Lifecycle /\ ThroughFoundation /\ Truth

\* Every error is answered with one of the statuses.
LEMMA StatusType == \A e : StatusFor(e) \in Statuses
BY DEF StatusFor, Statuses

\* The statuses of what map_error() returns.
LEMMA StatementStatus ==
    ASSUME NEW e \in SqlStates
    PROVE  /\ StatusFor(MapError(e)) \in {400, 409, 503}
           /\ e \in {"08006", "OperationalError"} => StatusFor(MapError(e)) = 503
BY DEF SqlStates, MapError, StatusFor

\* The initial state satisfies the invariant.
LEMMA InitInv == Init => IInv
<1> SUFFICES ASSUME Init PROVE IInv
    OBVIOUS
<1>1. 1 \in Sources /\ 0 \in 0 .. Last
    BY ServiceAssumption DEF Sources
<1>2. TypeOK
    BY <1>1 DEF Init, TypeOK, Ops, Statements, Statuses
<1>3. Lifecycle
    BY DEF Init, Lifecycle
<1>4. ThroughFoundation /\ Truth
    BY DEF Init, ThroughFoundation, Truth
<1> QED BY <1>2, <1>3, <1>4 DEF IInv

\* The statuses of what a view raises before its statement.
LEMMA ObjectionStatus ==
    ASSUME NEW e \in {"ValidationError", "OtherError", "ConfigError", "QueryError"}
    PROVE  StatusFor(e) \in {400, 404, 500}
BY DEF StatusFor

\* What a view raises before its statement is one of four kinds, or nothing.
LEMMA ObjectionRange ==
    ASSUME NEW o, NEW source, NEW flaw
    PROVE  Objection(o, source, flaw)
              \in {"ValidationError", "OtherError", "ConfigError", "QueryError", "none"}
BY DEF Objection

\* What Enter(r) comes to: an answer without a statement, or the first acquire().
LEMMA Entered ==
    ASSUME IInv, NEW r \in Requests, Enter(r)
    PROVE  /\ pc[r] = "gate" /\ UNCHANGED <<process, op, effect, signal, healthy>>
           /\ \/ \E code \in {200, 400, 404, 500} :
                     Answer(r, code) /\ UNCHANGED at /\ (code = 200 => op[r] = "list")
              \/ \E s \in Sources : /\ foundation /\ Goto(r, "waiting") /\ UNCHANGED status
                                    /\ at' = [at EXCEPT ![r] = s]
<1>1. PICK source \in 0 .. Last, flaw \in Flaws,
           e \in {"ValidationError", "OtherError", "ConfigError", "QueryError", "none"} :
          /\ e = Objection(op[r], source, flaw)
          /\ \/ e # "none" /\ Answer(r, StatusFor(e)) /\ UNCHANGED at
             \/ e = "none" /\ op[r] = "list" /\ Answer(r, 200) /\ UNCHANGED at
             \/ /\ e = "none" /\ op[r] # "list"
                /\ at' = [at EXCEPT ![r] = IF op[r] = "health" THEN 1 ELSE source]
                /\ Goto(r, "waiting")
                /\ UNCHANGED status
    BY ObjectionRange DEF Enter
<1>2. e \in {"ValidationError", "OtherError", "ConfigError", "QueryError", "none"}
    BY <1>1
<1>3. op[r] \in Statements \cup {"list", "health"}
    BY DEF IInv, TypeOK, Ops
<1>4. e # "none" => StatusFor(e) \in {400, 404, 500}
    BY <1>2, ObjectionStatus
<1>5. e = "none" => foundation /\ (op[r] \in Statements => source # 0)
    BY <1>1 DEF Objection
<1>6. CASE e # "none"
  <2>1. PICK code \in {400, 404, 500} : code = StatusFor(e)
    BY <1>4, <1>6
  <2>2. Answer(r, code) /\ UNCHANGED at
    BY <1>1, <1>6, <2>1
  <2>3. code # 200
    OBVIOUS
  <2> QED BY <2>2, <2>3 DEF Enter
<1>7. CASE e = "none" /\ op[r] = "list"
    BY <1>1, <1>7 DEF Enter
<1>8. CASE e = "none" /\ op[r] # "list"
  <2>1. PICK s \in Sources : s = IF op[r] = "health" THEN 1 ELSE source
    BY ServiceAssumption, <1>3, <1>5, <1>8 DEF Sources
  <2>2. at' = [at EXCEPT ![r] = s] /\ Goto(r, "waiting") /\ UNCHANGED status
    BY <1>1, <1>8, <2>1
  <2> QED BY <1>5, <1>8, <2>2 DEF Enter
<1> QED BY <1>6, <1>7, <1>8

\* StartWithout preserves the invariant.
LEMMA StartWithoutInv ==
    ASSUME IInv, StartWithout
    PROVE  IInv'
<1>1. TypeOK'
    BY ServiceAssumption DEF IInv, TypeOK, Sources, Ops, Statements, Statuses, StartWithout, process, request, Goto, Answer
<1>2. Lifecycle'
    BY ServiceAssumption DEF IInv, TypeOK, Lifecycle, Sources, StartWithout, process, request, Goto, Answer
<1>3. ThroughFoundation'
    BY ServiceAssumption DEF IInv, TypeOK, ThroughFoundation, Lifecycle, Sources, StartWithout, process, request, Goto, Answer
<1>4. Truth'
    BY DEF IInv, TypeOK, Truth, StartWithout, process, request, Goto, Answer
<1> QED BY <1>1, <1>2, <1>3, <1>4 DEF IInv

\* StartRefused preserves the invariant.
LEMMA StartRefusedInv ==
    ASSUME IInv, StartRefused
    PROVE  IInv'
<1>1. TypeOK'
    BY ServiceAssumption DEF IInv, TypeOK, Sources, Ops, Statements, Statuses, StartRefused, process, request, Goto, Answer
<1>2. Lifecycle'
    BY ServiceAssumption DEF IInv, TypeOK, Lifecycle, Sources, StartRefused, process, request, Goto, Answer
<1>3. ThroughFoundation'
    BY ServiceAssumption DEF IInv, TypeOK, ThroughFoundation, Lifecycle, Sources, StartRefused, process, request, Goto, Answer
<1>4. Truth'
    BY DEF IInv, TypeOK, Truth, StartRefused, process, request, Goto, Answer
<1> QED BY <1>1, <1>2, <1>3, <1>4 DEF IInv

\* Build preserves the invariant.
LEMMA BuildInv ==
    ASSUME IInv, Build
    PROVE  IInv'
<1>1. TypeOK'
    BY ServiceAssumption DEF IInv, TypeOK, Sources, Ops, Statements, Statuses, Build, process, request, Goto, Answer
<1>2. Lifecycle'
    BY ServiceAssumption DEF IInv, TypeOK, Lifecycle, Sources, Build, process, request, Goto, Answer
<1>3. ThroughFoundation'
    BY ServiceAssumption DEF IInv, TypeOK, ThroughFoundation, Lifecycle, Sources, Build, process, request, Goto, Answer
<1>4. Truth'
    BY DEF IInv, TypeOK, Truth, Build, process, request, Goto, Answer
<1> QED BY <1>1, <1>2, <1>3, <1>4 DEF IInv

\* OpenNext preserves the invariant.
LEMMA OpenNextInv ==
    ASSUME IInv, OpenNext
    PROVE  IInv'
<1>1. TypeOK'
  <2>1. next \in Sources /\ 1 \in Sources /\ (next < Last => next + 1 \in Sources)
    BY ServiceAssumption DEF IInv, TypeOK, Sources
  <2> QED BY <2>1 DEF IInv, TypeOK, OpenNext, request
<1>2. Lifecycle'
    BY ServiceAssumption DEF IInv, TypeOK, Lifecycle, Sources, OpenNext, process, request, Goto, Answer
<1>3. ThroughFoundation'
    BY ServiceAssumption DEF IInv, TypeOK, ThroughFoundation, Lifecycle, Sources, OpenNext, process, request, Goto, Answer
<1>4. Truth'
    BY DEF IInv, TypeOK, Truth, OpenNext, process, request, Goto, Answer
<1> QED BY <1>1, <1>2, <1>3, <1>4 DEF IInv

\* StartCancelled preserves the invariant.
LEMMA StartCancelledInv ==
    ASSUME IInv, StartCancelled
    PROVE  IInv'
<1>1. TypeOK'
    BY ServiceAssumption DEF IInv, TypeOK, Sources, Ops, Statements, Statuses, StartCancelled, process, request, Goto, Answer
<1>2. Lifecycle'
    BY ServiceAssumption DEF IInv, TypeOK, Lifecycle, Sources, StartCancelled, process, request, Goto, Answer
<1>3. ThroughFoundation'
    BY ServiceAssumption DEF IInv, TypeOK, ThroughFoundation, Lifecycle, Sources, StartCancelled, process, request, Goto, Answer
<1>4. Truth'
    BY DEF IInv, TypeOK, Truth, StartCancelled, process, request, Goto, Answer
<1> QED BY <1>1, <1>2, <1>3, <1>4 DEF IInv

\* Stop preserves the invariant.
LEMMA StopInv ==
    ASSUME IInv, Stop
    PROVE  IInv'
<1>1. TypeOK'
    BY ServiceAssumption DEF IInv, TypeOK, Sources, Ops, Statements, Statuses, Stop, process, request, Goto, Answer
<1>2. Lifecycle'
    BY ServiceAssumption DEF IInv, TypeOK, Lifecycle, Sources, Stop, process, request, Goto, Answer
<1>3. ThroughFoundation'
    BY ServiceAssumption DEF IInv, TypeOK, ThroughFoundation, Lifecycle, Sources, Stop, process, request, Goto, Answer
<1>4. Truth'
    BY DEF IInv, TypeOK, Truth, Stop, process, request, Goto, Answer
<1> QED BY <1>1, <1>2, <1>3, <1>4 DEF IInv

\* CloseNext preserves the invariant.
LEMMA CloseNextInv ==
    ASSUME IInv, CloseNext
    PROVE  IInv'
<1>1. TypeOK'
  <2>1. next \in Sources /\ 1 \in Sources /\ (next < Last => next + 1 \in Sources)
    BY ServiceAssumption DEF IInv, TypeOK, Sources
  <2> QED BY <2>1 DEF IInv, TypeOK, CloseNext, request
<1>2. Lifecycle'
  <2>1. /\ life = "stopping" /\ next \in Sources /\ next \in Nat
        /\ pool' = [pool EXCEPT ![next] = "closed"] /\ UNCHANGED <<foundation, pc>>
    BY ServiceAssumption DEF IInv, TypeOK, Sources, CloseNext, request
  <2>2. \A s \in Sources : s \in Nat /\ pool'[s] = IF s = next THEN "closed" ELSE pool[s]
    BY <2>1, ServiceAssumption DEF IInv, TypeOK, Sources
  <2>3. foundation
    BY <2>1 DEF IInv, Lifecycle
  <2>4. \A s \in Sources : pool'[s] = "closed" <=> s <= next
    BY <2>1, <2>2 DEF IInv, Lifecycle
  <2>5. \A s \in Sources : pool'[s] \in {"open", "closed"}
    BY <2>1, <2>2, <2>3 DEF IInv, Lifecycle
  <2>6. life' = "stopping" => next' = next + 1
    BY <2>1 DEF CloseNext
  <2>7. life' \in {"stopping", "stopped"}
    BY <2>1 DEF CloseNext
  <2>8. life' = "stopping" => \A s \in Sources : pool'[s] = "closed" <=> s < next'
    BY <2>1, <2>2, <2>4, <2>6
  <2>9. \A s, t \in Sources : s < t /\ pool'[t] = "closed" => pool'[s] = "closed"
    BY <2>1, <2>2, <2>4
  <2> QED BY <2>1, <2>3, <2>5, <2>7, <2>8, <2>9 DEF Lifecycle, Sources
<1>3. ThroughFoundation'
    BY ServiceAssumption DEF IInv, TypeOK, ThroughFoundation, Lifecycle, Sources, CloseNext, process, request, Goto, Answer
<1>4. Truth'
    BY DEF IInv, TypeOK, Truth, CloseNext, process, request, Goto, Answer
<1> QED BY <1>1, <1>2, <1>3, <1>4 DEF IInv

\* StopInterrupted preserves the invariant.
LEMMA StopInterruptedInv ==
    ASSUME IInv, StopInterrupted
    PROVE  IInv'
<1>1. TypeOK'
    BY ServiceAssumption DEF IInv, TypeOK, Sources, Ops, Statements, Statuses, StopInterrupted, process, request, Goto, Answer
<1>2. Lifecycle'
    BY ServiceAssumption DEF IInv, TypeOK, Lifecycle, Sources, StopInterrupted, process, request, Goto, Answer
<1>3. ThroughFoundation'
    BY ServiceAssumption DEF IInv, TypeOK, ThroughFoundation, Lifecycle, Sources, StopInterrupted, process, request, Goto, Answer
<1>4. Truth'
    BY DEF IInv, TypeOK, Truth, StopInterrupted, process, request, Goto, Answer
<1> QED BY <1>1, <1>2, <1>3, <1>4 DEF IInv

\* Arrive preserves the invariant.
LEMMA ArriveInv ==
    ASSUME IInv, NEW r \in Requests, Arrive(r)
    PROVE  IInv'
<1>1. TypeOK'
    BY StatusType, ServiceAssumption DEF IInv, TypeOK, Sources, Ops, Statements, Statuses, Arrive, process, request, Goto, Answer
<1>2. Lifecycle'
    BY ServiceAssumption DEF IInv, TypeOK, Lifecycle, Sources, Arrive, process, request, Goto, Answer
<1>3. ThroughFoundation'
    BY ServiceAssumption DEF IInv, TypeOK, ThroughFoundation, Lifecycle, Sources, Arrive, process, request, Goto, Answer
<1>4. Truth'
    BY DEF IInv, TypeOK, Truth, Arrive, process, request, Goto, Answer
<1> QED BY <1>1, <1>2, <1>3, <1>4 DEF IInv

\* Refuse preserves the invariant.
LEMMA RefuseInv ==
    ASSUME IInv, NEW r \in Requests, Refuse(r)
    PROVE  IInv'
<1>1. TypeOK'
    BY StatusType, ServiceAssumption DEF IInv, TypeOK, Sources, Ops, Statements, Statuses, Refuse, process, request, Goto, Answer
<1>2. Lifecycle'
    BY ServiceAssumption DEF IInv, TypeOK, Lifecycle, Sources, Refuse, process, request, Goto, Answer
<1>3. ThroughFoundation'
    BY ServiceAssumption DEF IInv, TypeOK, ThroughFoundation, Lifecycle, Sources, Refuse, process, request, Goto, Answer
<1>4. Truth'
    BY DEF IInv, TypeOK, Truth, Refuse, process, request, Goto, Answer, StatusFor
<1> QED BY <1>1, <1>2, <1>3, <1>4 DEF IInv

\* Enter preserves the invariant.
LEMMA EnterInv ==
    ASSUME IInv, NEW r \in Requests, Enter(r)
    PROVE  IInv'
<1>0. PICK code \in Statuses, s \in Sources :
          /\ pc[r] = "gate" /\ UNCHANGED <<process, op, effect, signal, healthy>>
          /\ \/ /\ pc' = [pc EXCEPT ![r] = "answered"] /\ status' = [status EXCEPT ![r] = code]
                /\ UNCHANGED at /\ code \in {200, 400, 404, 500} /\ (code = 200 => op[r] = "list")
             \/ /\ foundation /\ pc' = [pc EXCEPT ![r] = "waiting"] /\ UNCHANGED status
                /\ at' = [at EXCEPT ![r] = s]
  <2>1. 1 \in Sources
    BY ServiceAssumption DEF Sources
  <2>2. {200, 400, 404, 500} \subseteq Statuses
    BY DEF Statuses
  <2> QED BY <2>1, <2>2, Entered DEF Answer, Goto
<1>1. TypeOK'
  <2>1. s \in 0 .. Last
    BY ServiceAssumption DEF Sources
  <2> QED BY <1>0, <2>1 DEF IInv, TypeOK, process
<1>2. Lifecycle'
    BY <1>0 DEF IInv, TypeOK, Lifecycle, process
<1>3. ThroughFoundation'
  <2>1. s # 0
    BY ServiceAssumption DEF Sources
  <2> QED BY <1>0, <2>1 DEF IInv, TypeOK, ThroughFoundation, process
<1>4. Truth'
    BY <1>0 DEF IInv, TypeOK, Truth, Statements
<1> QED BY <1>1, <1>2, <1>3, <1>4 DEF IInv

\* Acquire preserves the invariant.
LEMMA AcquireInv ==
    ASSUME IInv, NEW r \in Requests, Acquire(r)
    PROVE  IInv'
<1>1. TypeOK'
    BY StatusType, ServiceAssumption DEF IInv, TypeOK, Sources, Ops, Statements, Statuses, Acquire, process, request, Goto, Answer
<1>2. Lifecycle'
    BY ServiceAssumption DEF IInv, TypeOK, Lifecycle, Sources, Acquire, process, request, Goto, Answer
<1>3. ThroughFoundation'
    BY ServiceAssumption DEF IInv, TypeOK, ThroughFoundation, Lifecycle, Sources, Acquire, process, request, Goto, Answer
<1>4. Truth'
    BY DEF IInv, TypeOK, Truth, Acquire, process, request, Goto, Answer
<1> QED BY <1>1, <1>2, <1>3, <1>4 DEF IInv

\* CannotAcquire preserves the invariant.
LEMMA CannotAcquireInv ==
    ASSUME IInv, NEW r \in Requests, CannotAcquire(r)
    PROVE  IInv'
<1>1. TypeOK'
  <2>0. TypeOK
    BY DEF IInv
  <2>1. pc' \in [Requests -> {"none", "gate", "waiting", "holding", "releasing", "answered"}]
    BY <2>0 DEF TypeOK, CannotAcquire, Goto, Answer, NextProbe
  <2>2. at' \in [Requests -> 0 .. Last]
    <3>1. at[r] < Last => at[r] + 1 \in 0 .. Last
        BY ServiceAssumption, <2>0 DEF TypeOK
    <3>2. \/ UNCHANGED at
          \/ at[r] < Last /\ at' = [at EXCEPT ![r] = at[r] + 1]
        BY DEF CannotAcquire, NextProbe
    <3> QED BY <2>0, <3>1, <3>2 DEF TypeOK
  <2>3. status' \in [Requests -> Statuses \cup {0}]
    BY StatusType, <2>0 DEF TypeOK, CannotAcquire, NextProbe, Answer, Goto, Statuses
  <2>4. effect' \in [Requests -> BOOLEAN]
    BY <2>0 DEF TypeOK, CannotAcquire
  <2>5. signal' \in [Requests -> {"none", "duration", "error"}]
    BY <2>0 DEF TypeOK, CannotAcquire
  <2>6. healthy' \in [Requests -> SUBSET Sources]
    BY <2>0 DEF TypeOK, CannotAcquire
  <2> QED BY <2>0, <2>1, <2>2, <2>3, <2>4, <2>5, <2>6 DEF TypeOK, CannotAcquire, process
<1>2. Lifecycle'
    BY ServiceAssumption DEF IInv, TypeOK, Lifecycle, Sources, CannotAcquire, process, request, Goto, Answer, NextProbe
<1>3. ThroughFoundation'
    BY ServiceAssumption DEF IInv, TypeOK, ThroughFoundation, Lifecycle, Sources, CannotAcquire, process, request, Goto, Answer, NextProbe
<1>4. Truth'
    BY DEF IInv, TypeOK, Truth, Statements, CannotAcquire, process, request, Goto, Answer, NextProbe, StatusFor
<1> QED BY <1>1, <1>2, <1>3, <1>4 DEF IInv

\* Succeed preserves the invariant.
LEMMA SucceedInv ==
    ASSUME IInv, NEW r \in Requests, Succeed(r)
    PROVE  IInv'
<1>1. TypeOK'
  <2>0. TypeOK
    BY DEF IInv
  <2>1. pc' \in [Requests -> {"none", "gate", "waiting", "holding", "releasing", "answered"}]
    BY <2>0 DEF TypeOK, Succeed, Goto, Answer
  <2>2. at' \in [Requests -> 0 .. Last]
    BY <2>0 DEF TypeOK, Succeed
  <2>3. status' \in [Requests -> Statuses \cup {0}]
    BY StatusType, <2>0 DEF TypeOK, Succeed, Statuses
  <2>4. effect' \in [Requests -> BOOLEAN]
    BY <2>0 DEF TypeOK, Succeed
  <2>5. signal' \in [Requests -> {"none", "duration", "error"}]
    BY <2>0 DEF TypeOK, Succeed
  <2>6. healthy' \in [Requests -> SUBSET Sources]
    <3>1. at[r] \in Sources
        BY ServiceAssumption DEF IInv, TypeOK, ThroughFoundation, Sources, Succeed
    <3> QED BY <2>0, <3>1 DEF TypeOK, Succeed
  <2> QED BY <2>0, <2>1, <2>2, <2>3, <2>4, <2>5, <2>6 DEF TypeOK, Succeed, process
<1>2. Lifecycle'
    BY ServiceAssumption DEF IInv, TypeOK, Lifecycle, Sources, Succeed, process, request, Goto, Answer
<1>3. ThroughFoundation'
    BY ServiceAssumption DEF IInv, TypeOK, ThroughFoundation, Lifecycle, Sources, Succeed, process, request, Goto, Answer
<1>4. Truth'
    BY DEF IInv, TypeOK, Truth, Statements, Succeed, process, request, Goto, Answer, StatusFor
<1> QED BY <1>1, <1>2, <1>3, <1>4 DEF IInv

\* Fail preserves the invariant.
LEMMA FailInv ==
    ASSUME IInv, NEW r \in Requests, Fail(r)
    PROVE  IInv'
<1>1. TypeOK'
  <2>0. TypeOK
    BY DEF IInv
  <2>1. pc' \in [Requests -> {"none", "gate", "waiting", "holding", "releasing", "answered"}]
    BY <2>0 DEF TypeOK, Fail, Goto, Answer
  <2>2. at' \in [Requests -> 0 .. Last]
    BY <2>0 DEF TypeOK, Fail
  <2>3. status' \in [Requests -> Statuses \cup {0}]
    BY StatusType, <2>0 DEF TypeOK, Fail
  <2>4. effect' \in [Requests -> BOOLEAN]
    <3>1. CASE op[r] = "health"
        BY <2>0, <3>1 DEF TypeOK, Fail
    <3>2. CASE op[r] # "health"
      <4>1. PICK e : effect' \in {effect, [effect EXCEPT ![r] = MayHaveEffect(r, e)]}
          BY <3>2 DEF Fail
      <4>2. CASE effect' = effect
          BY <2>0, <4>2 DEF TypeOK
      <4>3. CASE effect' = [effect EXCEPT ![r] = MayHaveEffect(r, e)]
          BY <2>0, <4>3 DEF TypeOK, MayHaveEffect
      <4> QED BY <4>1, <4>2, <4>3
    <3> QED BY <3>1, <3>2
  <2>5. signal' \in [Requests -> {"none", "duration", "error"}]
    BY <2>0 DEF TypeOK, Fail
  <2>6. healthy' \in [Requests -> SUBSET Sources]
    BY <2>0 DEF TypeOK, Fail
  <2> QED BY <2>0, <2>1, <2>2, <2>3, <2>4, <2>5, <2>6 DEF TypeOK, Fail, process
<1>2. Lifecycle'
    BY ServiceAssumption DEF IInv, TypeOK, Lifecycle, Sources, Fail, process, request, Goto, Answer
<1>3. ThroughFoundation'
    BY ServiceAssumption DEF IInv, TypeOK, ThroughFoundation, Lifecycle, Sources, Fail, process, request, Goto, Answer
<1>4. Truth'
  <2>0. TypeOK /\ Truth /\ pc[r] = "holding" /\ pc' = [pc EXCEPT ![r] = "releasing"] /\ UNCHANGED op
    BY DEF IInv, Fail, Goto
  <2>1. CASE op[r] = "health"
    BY <2>0, <2>1 DEF TypeOK, Truth, Statements, Fail
  <2>2. CASE op[r] # "health"
    <3>1. PICK e \in SqlStates :
              /\ status' = [status EXCEPT ![r] = StatusFor(MapError(e))]
              /\ effect' \in {effect, [effect EXCEPT ![r] = MayHaveEffect(r, e)]}
              /\ signal' = [signal EXCEPT ![r] = "error"]
        BY <2>2 DEF Fail
    <3>2. PICK code \in {400, 409, 503} : code = StatusFor(MapError(e))
        BY StatementStatus
    <3>3. op[r] \in Statements => effect[r] = FALSE
        BY <2>0 DEF Truth
    <3>4. op[r] \in Statements /\ effect'[r] => code = 503 \/ op[r] = "procedure"
        BY <2>0, <3>1, <3>2, <3>3, StatementStatus DEF TypeOK, MayHaveEffect
    <3>5. status'[r] = code /\ signal'[r] = "error"
        BY <2>0, <3>1, <3>2 DEF TypeOK
    <3>6. \A q \in Requests : q # r =>
              pc'[q] = pc[q] /\ status'[q] = status[q] /\ effect'[q] = effect[q] /\ signal'[q] = signal[q]
        BY <2>0, <3>1 DEF TypeOK
    <3>7. pc'[r] = "releasing"
        BY <2>0 DEF TypeOK
    <3> QED BY <2>0, <3>4, <3>5, <3>6, <3>7 DEF Truth
  <2> QED BY <2>1, <2>2
<1> QED BY <1>1, <1>2, <1>3, <1>4 DEF IInv

\* Release preserves the invariant.
LEMMA ReleaseInv ==
    ASSUME IInv, NEW r \in Requests, Release(r)
    PROVE  IInv'
<1>1. TypeOK'
  <2>0. TypeOK
    BY DEF IInv
  <2>1. pc' \in [Requests -> {"none", "gate", "waiting", "holding", "releasing", "answered"}]
    BY <2>0 DEF TypeOK, Release, Goto, Answer, NextProbe
  <2>2. at' \in [Requests -> 0 .. Last]
    <3>1. at[r] < Last => at[r] + 1 \in 0 .. Last
        BY ServiceAssumption, <2>0 DEF TypeOK
    <3>2. \/ UNCHANGED at
          \/ at[r] < Last /\ at' = [at EXCEPT ![r] = at[r] + 1]
        BY DEF Release, NextProbe
    <3> QED BY <2>0, <3>1, <3>2 DEF TypeOK
  <2>3. status' \in [Requests -> Statuses \cup {0}]
    BY <2>0 DEF TypeOK, Release, NextProbe, Answer, Goto, Statuses
  <2>4. effect' \in [Requests -> BOOLEAN]
    BY <2>0 DEF TypeOK, Release
  <2>5. signal' \in [Requests -> {"none", "duration", "error"}]
    BY <2>0 DEF TypeOK, Release
  <2>6. healthy' \in [Requests -> SUBSET Sources]
    BY <2>0 DEF TypeOK, Release
  <2> QED BY <2>0, <2>1, <2>2, <2>3, <2>4, <2>5, <2>6 DEF TypeOK, Release, process
<1>2. Lifecycle'
    BY ServiceAssumption DEF IInv, TypeOK, Lifecycle, Sources, Release, process, request, Goto, Answer, NextProbe
<1>3. ThroughFoundation'
    BY ServiceAssumption DEF IInv, TypeOK, ThroughFoundation, Lifecycle, Sources, Release, process, request, Goto, Answer, NextProbe
<1>4. Truth'
    BY DEF IInv, TypeOK, Truth, Statements, Release, process, request, Goto, Answer, NextProbe
<1> QED BY <1>1, <1>2, <1>3, <1>4 DEF IInv

\* Cancel preserves the invariant.
LEMMA CancelInv ==
    ASSUME IInv, NEW r \in Requests, Cancel(r)
    PROVE  IInv'
<1>1. TypeOK'
  <2>0. TypeOK
    BY DEF IInv
  <2>1. pc' \in [Requests -> {"none", "gate", "waiting", "holding", "releasing", "answered"}]
    BY <2>0 DEF TypeOK, Cancel, Goto, Answer
  <2>2. at' \in [Requests -> 0 .. Last]
    BY <2>0 DEF TypeOK, Cancel
  <2>3. status' \in [Requests -> Statuses \cup {0}]
    BY <2>0 DEF TypeOK, Cancel, Statuses
  <2>4. effect' \in [Requests -> BOOLEAN]
    BY <2>0 DEF TypeOK, Cancel
  <2>5. signal' \in [Requests -> {"none", "duration", "error"}]
    BY <2>0 DEF TypeOK, Cancel
  <2>6. healthy' \in [Requests -> SUBSET Sources]
    BY <2>0 DEF TypeOK, Cancel
  <2> QED BY <2>0, <2>1, <2>2, <2>3, <2>4, <2>5, <2>6 DEF TypeOK, Cancel, process
<1>2. Lifecycle'
    BY ServiceAssumption DEF IInv, TypeOK, Lifecycle, Sources, Cancel, process, request, Goto, Answer
<1>3. ThroughFoundation'
    BY ServiceAssumption DEF IInv, TypeOK, ThroughFoundation, Lifecycle, Sources, Cancel, process, request, Goto, Answer
<1>4. Truth'
    BY DEF IInv, TypeOK, Truth, Cancel, process, request, Goto, Answer
<1> QED BY <1>1, <1>2, <1>3, <1>4 DEF IInv

\* Every step preserves the invariant.
LEMMA StepInv == IInv /\ [Next]_vars => IInv'
<1> SUFFICES ASSUME IInv, [Next]_vars PROVE IInv'
    OBVIOUS
<1>1. CASE Next
    BY <1>1, StartWithoutInv, StartRefusedInv, BuildInv, OpenNextInv, StartCancelledInv, StopInv, CloseNextInv, StopInterruptedInv, ArriveInv, RefuseInv, EnterInv, AcquireInv, CannotAcquireInv, SucceedInv, FailInv, ReleaseInv, CancelInv DEF Next
<1>2. CASE UNCHANGED vars
    BY <1>2 DEF vars, IInv, TypeOK, Lifecycle, ThroughFoundation, Truth
<1> QED BY <1>1, <1>2

\* The invariant holds in every reachable state.
LEMMA Invariance == Spec => []IInv
BY InitInv, StepInv, PTL DEF Spec

\* Every variable keeps its type, for any number of requests and data sources.
THEOREM TypeCorrect == Spec => []TypeOK
<1>1. IInv => TypeOK
    BY DEF IInv
<1> QED BY <1>1, Invariance, PTL

\* A 200 says that the statement took effect and a 4xx that it did not (http_errors.py,
\* errors_map.py), whatever is cancelled, closed or lost on the way, but for a procedure
\* that commits and then raises.
THEOREM AnswersTrue == Spec => []AnswersAreTrue
<1>1. IInv => AnswersAreTrue
    BY DEF IInv, Truth, AnswersAreTrue, Answered
<1> QED BY <1>1, Invariance, PTL

\* No request meets a pool that was never opened (asgi.py, bootstrap.py, registry.py).
THEOREM OpenedBeforeUse == Spec => []OpenBeforeUse
<1>1. IInv => OpenBeforeUse
    BY DEF IInv, TypeOK, Lifecycle, ThroughFoundation, OpenBeforeUse, Sources
<1> QED BY <1>1, Invariance, PTL

\* The metrics agree with the answers (metered.py).
THEOREM SignalsTrue == Spec => []SignalsAgree
<1>1. IInv => SignalsAgree
    BY DEF IInv, Truth, SignalsAgree, Answered
<1> QED BY <1>1, Invariance, PTL
-------------------------------------------------------------------------------
\* No request goes in circles: each of its steps answers it, takes it to a later data
\* source, or further at the one it has come to, which is why a health report ends even
\* if every source is down (registry.health(), views.py).
Place == [gate |-> 0, waiting |-> 1, holding |-> 2, releasing |-> 3, answered |-> 4]
Steps(r) ==
    \/ Refuse(r) \/ Enter(r) \/ Acquire(r) \/ CannotAcquire(r)
    \/ Succeed(r) \/ Fail(r) \/ Release(r) \/ Cancel(r)
Onward(r) ==
    \/ pc'[r] = "answered"
    \/ at'[r] > at[r]
    \/ at'[r] = at[r] /\ Place[pc'[r]] > Place[pc[r]]
RequestsAdvance == [][\A r \in Requests : Steps(r) => Onward(r)]_vars

\* The next source of a health report is a later one.
LEMMA ProbeAdvances ==
    ASSUME IInv, NEW r \in Requests, NextProbe(r)
    PROVE  pc'[r] = "answered" \/ at'[r] > at[r]
BY DEF NextProbe, IInv, TypeOK, Goto, Answer

\* Whatever the sources and the lifespan do, no request goes in circles, for any number
\* of data sources and of requests that compete for them.
THEOREM NoRequestInCircles == Spec => RequestsAdvance
<1>1. ASSUME IInv, NEW r \in Requests, Steps(r)
      PROVE  Onward(r)
  <2>0. /\ pc[r] \in {"none", "gate", "waiting", "holding", "releasing", "answered"}
        /\ at[r] \in 0 .. Last
        /\ pc \in [Requests -> {"none", "gate", "waiting", "holding", "releasing", "answered"}]
        /\ at \in [Requests -> 0 .. Last]
    BY <1>1 DEF IInv, TypeOK
  <2>1. CASE Refuse(r)
    BY <2>0, <2>1 DEF Refuse, Answer, Goto, Onward
  <2>2. CASE Enter(r)
    <3>1. \/ \E code \in {200, 400, 404, 500} : Answer(r, code)
          \/ Goto(r, "waiting") /\ \E t \in Sources : at' = [at EXCEPT ![r] = t]
      BY <1>1, <2>2, Entered
    <3>2. at[r] = 0
      BY <1>1, <2>2 DEF Enter, IInv, ThroughFoundation
    <3> QED BY <2>0, <3>1, <3>2 DEF Answer, Goto, Onward, Sources
  <2>3. CASE Acquire(r)
    BY <2>0, <2>3 DEF Acquire, Goto, Onward, Place
  <2>4. CASE CannotAcquire(r)
    BY <1>1, <2>0, <2>4, ProbeAdvances DEF CannotAcquire, Answer, Goto, Onward
  <2>5. CASE Succeed(r)
    BY <2>0, <2>5 DEF Succeed, Goto, Onward, Place
  <2>6. CASE Fail(r)
    BY <2>0, <2>6 DEF Fail, Goto, Onward, Place
  <2>7. CASE Release(r)
    BY <1>1, <2>0, <2>7, ProbeAdvances DEF Release, Goto, Onward
  <2>8. CASE Cancel(r)
    BY <2>0, <2>8 DEF Cancel, Goto, Onward, Place
  <2> QED BY <1>1, <2>1, <2>2, <2>3, <2>4, <2>5, <2>6, <2>7, <2>8 DEF Steps
<1>2. IInv /\ [Next]_vars => [\A r \in Requests : Steps(r) => Onward(r)]_vars
    BY <1>1
<1> QED BY <1>2, Invariance, PTL DEF Spec, RequestsAdvance

\* A pool that aclose() has closed stays closed, and no request gets one of its
\* connections any more, however late it arrives or wherever it waits: their number
\* only goes down (PsycopgPool.close() under requests that nobody waits for).
ClosedOnlyDrains ==
    [][\A s \in Sources : pool[s] = "closed" =>
           pool'[s] = "closed" /\ InUse(s)' \subseteq InUse(s)]_vars

\* What a step of the process does to a pool that is closed.
LEMMA StaysClosed ==
    ASSUME IInv, [Next]_vars, NEW s \in Sources, pool[s] = "closed"
    PROVE  pool'[s] = "closed"
<1>1. foundation /\ life \notin {"off", "starting"} /\ pool \in [Sources -> {"none", "new", "open", "closed"}]
    BY DEF IInv, TypeOK, Lifecycle
<1>2. CASE CloseNext
    BY <1>1, <1>2 DEF CloseNext
<1>3. CASE StartWithout \/ StartRefused \/ Build \/ OpenNext \/ StartCancelled
    BY <1>1, <1>3 DEF StartWithout, StartRefused, Build, OpenNext, StartCancelled
<1>4. CASE Stop \/ StopInterrupted
    BY <1>4 DEF Stop, StopInterrupted
<1>5. ASSUME NEW r \in Requests, Steps(r) \/ Arrive(r)
      PROVE  UNCHANGED pool
    BY <1>5 DEF Steps, Arrive, Refuse, Enter, Acquire, CannotAcquire, Succeed, Fail, Release, Cancel, process
<1> QED BY <1>2, <1>3, <1>4, <1>5 DEF Next, Steps, vars

\* Who uses a closed pool has used it before: only Acquire(r) begins a use.
LEMMA NoNewUse ==
    ASSUME IInv, [Next]_vars, NEW s \in Sources, pool[s] = "closed",
           NEW r \in Requests, r \in InUse(s)'
    PROVE  r \in InUse(s)
<1>1. /\ pc \in [Requests -> {"none", "gate", "waiting", "holding", "releasing", "answered"}]
      /\ at \in [Requests -> 0 .. Last]
      /\ pc'[r] \in {"holding", "releasing"} /\ at'[r] = s
    BY DEF IInv, TypeOK, InUse
<1>2. SUFFICES pc[r] \in {"holding", "releasing"} /\ at[r] = s
    BY DEF InUse
<1>3. CASE UNCHANGED request
    BY <1>1, <1>3 DEF request
<1>4. ASSUME NEW q \in Requests, q # r, Steps(q) \/ Arrive(q)
      PROVE  pc'[r] = pc[r] /\ at'[r] = at[r]
    BY <1>1, <1>4 DEF Steps, Arrive, Refuse, Enter, Acquire, CannotAcquire, Succeed, Fail, Release, Cancel,
                      NextProbe, Answer, Goto
<1>5. CASE Arrive(r) \/ Refuse(r)
    BY <1>1, <1>5 DEF Arrive, Refuse, Answer, Goto
<1>6. CASE Enter(r)
    BY <1>1, <1>6 DEF Enter, Answer, Goto
<1>7. CASE Acquire(r)
    BY <1>1, <1>7 DEF Acquire, Goto
<1>8. CASE CannotAcquire(r)
    BY <1>1, <1>8 DEF CannotAcquire, NextProbe, Answer, Goto
<1>9. CASE Succeed(r) \/ Fail(r)
    BY <1>1, <1>9 DEF Succeed, Fail, Goto
<1>10. CASE Release(r)
    BY <1>1, <1>10 DEF Release, NextProbe, Answer, Goto
<1>11. CASE Cancel(r)
    BY <1>1, <1>11 DEF Cancel, Goto
<1>12. CASE \/ StartWithout \/ StartRefused \/ Build \/ OpenNext \/ StartCancelled
            \/ Stop \/ CloseNext \/ StopInterrupted \/ UNCHANGED vars
    BY <1>3, <1>12 DEF StartWithout, StartRefused, Build, OpenNext, StartCancelled, Stop, CloseNext,
                       StopInterrupted, vars, request
<1>13. CASE \E q \in Requests : Steps(q) \/ Arrive(q)
    BY <1>1, <1>4, <1>5, <1>6, <1>7, <1>8, <1>9, <1>10, <1>11, <1>13 DEF Steps
<1> QED BY <1>12, <1>13 DEF Next, Steps

\* A closed pool only drains, for any number of requests, sources and connections,
\* wherever the requests stand when it is closed.
THEOREM ClosedForGood == Spec => ClosedOnlyDrains
<1>1. IInv /\ [Next]_vars =>
          \A s \in Sources : pool[s] = "closed" =>
              pool'[s] = "closed" /\ InUse(s)' \subseteq InUse(s)
  <2> SUFFICES ASSUME IInv, [Next]_vars, NEW s \in Sources, pool[s] = "closed"
               PROVE  pool'[s] = "closed" /\ InUse(s)' \subseteq InUse(s)
    OBVIOUS
  <2>1. InUse(s)' \subseteq Requests
    BY DEF InUse
  <2> QED BY <2>1, StaysClosed, NoNewUse
<1> QED BY <1>1, Invariance, PTL DEF Spec, ClosedOnlyDrains
===============================================================================
