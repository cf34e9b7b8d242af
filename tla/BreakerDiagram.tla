---------------------------- MODULE BreakerDiagram ----------------------------
(***************************************************************************)
(* The state diagram that                                                  *)
(* documentations/10-observability-security-resilience.md draws of the     *)
(* circuit breaker: the circuit, and whether its window (the reset timeout *)
(* since it opened) is "running" or "over".  What the diagram does not draw *)
(* is an answer that arrives while the circuit is open: late says whether  *)
(* one is still awaited, and without one there is nothing but the diagram. *)
(***************************************************************************)
VARIABLES circuit, window, late
vars == <<circuit, window>>

Init == circuit = "closed" /\ window = "running"

\* Closed --> Open: failures >= threshold
Open == circuit = "closed" /\ circuit' = "open" /\ window' = "running"

\* The reset timeout elapses.
Elapse == circuit = "open" /\ window' = "over" /\ UNCHANGED circuit

\* Open --> HalfOpen: reset_timeout elapsed
HalfOpen == circuit = "open" /\ window = "over" /\ circuit' = "half_open" /\ UNCHANGED window

\* HalfOpen --> Closed: probe succeeds
Close == circuit = "half_open" /\ circuit' = "closed" /\ UNCHANGED window

\* HalfOpen --> Open: probe fails
Reopen == circuit = "half_open" /\ circuit' = "open" /\ window' = "running"

\* When a closed circuit was last open is of no account.
Forget == circuit = "closed" /\ window' \in {"running", "over"} /\ UNCHANGED circuit

\* A call admitted before the circuit opened succeeds, or fails, after it did.
LateSuccess == circuit = "open" /\ late /\ circuit' = "closed" /\ UNCHANGED window
LateFailure == circuit = "open" /\ late /\ window' = "running" /\ UNCHANGED circuit

Next ==
    \/ Open \/ Elapse \/ HalfOpen \/ Close \/ Reopen \/ Forget
    \/ LateSuccess \/ LateFailure

Spec == Init /\ [][Next]_vars
===============================================================================
