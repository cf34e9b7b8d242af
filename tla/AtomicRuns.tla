------------------------------ MODULE AtomicRuns ------------------------------
(***************************************************************************)
(* What run_transaction promises: a run commits at most once, as one unit,  *)
(* and its answer tells what became of it.  A returned run is durable; a    *)
(* run that raises one of the foundation's errors is not; any other error   *)
(* (psycopg's own, a cancellation) leaves the caller in doubt.              *)
(***************************************************************************)
EXTENDS Naturals

CONSTANTS Tasks, Rows, None, Errors, FoundationErrors

VARIABLES outcome, commits, durable
vars == <<outcome, commits, durable>>

Init ==
    /\ outcome = [t \in Tasks |-> None]
    /\ commits = [t \in Tasks |-> 0]
    /\ durable = [t \in Tasks |-> {}]

\* All rows of the run become durable together, once.
Commit(t) ==
    /\ outcome[t] = None /\ commits[t] = 0
    /\ commits' = [commits EXCEPT ![t] = 1]
    /\ durable' \in [Tasks -> SUBSET Rows]
    /\ \A u \in Tasks \ {t} : durable'[u] = durable[u]
    /\ UNCHANGED outcome

Return(t) ==
    /\ outcome[t] = None /\ commits[t] = 1
    /\ outcome' = [outcome EXCEPT ![t] = "returned"]
    /\ UNCHANGED <<commits, durable>>

Raise(t, e) ==
    /\ outcome[t] = None
    /\ e \in FoundationErrors => commits[t] = 0
    /\ outcome' = [outcome EXCEPT ![t] = e]
    /\ UNCHANGED <<commits, durable>>

Next == \E t \in Tasks : Commit(t) \/ Return(t) \/ \E e \in Errors : Raise(t, e)

Spec == Init /\ [][Next]_vars
===============================================================================
