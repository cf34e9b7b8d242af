---------------------------- MODULE CircuitBreaker ----------------------------
(***************************************************************************)
(* CircuitBreaker (resilience/circuit_breaker.py): what each call does to  *)
(* the breaker of one data source.  Two counters are kept only as far as   *)
(* the code compares them: the clock as the time since _opened_at, up to   *)
(* Reset, and _failures up to Threshold.                                   *)
(***************************************************************************)
EXTENDS Naturals

CONSTANTS
    Threshold,  \* failure_threshold
    Reset       \* reset_timeout_seconds, in ticks of the clock

\* CircuitBreakerSettings: ge=1 and gt=0.
ASSUME BreakerAssumption == Threshold \in Nat \ {0} /\ Reset \in Nat \ {0}

CircuitState == {"closed", "open", "half_open"}

BreakerType ==
    [state    : CircuitState,
     failures : 0 .. Threshold,
     elapsed  : 0 .. Reset]

NewBreaker == [state |-> "closed", failures |-> 0, elapsed |-> 0]

\* Mutant: the window is not looked at.
LookedMutant(b) == IF b.state = "open" THEN [b EXCEPT !.state = "half_open"] ELSE b

\* The state property: an open circuit whose window is over becomes half-open
\* when somebody looks.
Looked(b) ==
    IF b.state = "open" /\ b.elapsed >= Reset THEN [b EXCEPT !.state = "half_open"] ELSE b

\* allow(), on the breaker somebody has just looked at.
Allows(b) == Looked(b).state # "open"

\* Mutants: the counter or the circuit is forgotten.
OnSuccessUncounted(b) == [b EXCEPT !.state = "closed"]
OnSuccessUnclosed(b) == [b EXCEPT !.failures = 0]

OnSuccess(b) == [b EXCEPT !.failures = 0, !.state = "closed"]

Trip(b) == [b EXCEPT !.state = "open", !.elapsed = 0]

Counted(b) == [b EXCEPT !.failures = IF @ < Threshold THEN @ + 1 ELSE @]

\* Mutant: a failed probe changes nothing.
OnFailureMutant(b) ==
    IF b.state = "half_open" THEN b
    ELSE IF Counted(b).failures >= Threshold THEN Trip(Counted(b))
    ELSE Counted(b)

\* _failures is neither counted nor reset by a failure in HALF_OPEN.
OnFailure(b) ==
    IF b.state = "half_open" THEN Trip(b)
    ELSE IF Counted(b).failures >= Threshold THEN Trip(Counted(b))
    ELSE Counted(b)

\* A tick of the clock, which only an open circuit reads.
Aged(b) == [b EXCEPT !.elapsed = @ + 1]
===============================================================================
