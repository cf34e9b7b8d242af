--------------------------------- MODULE Feed ---------------------------------
(***************************************************************************)
(* What a table with a key promises to a job that fetches what is new: a   *)
(* log of rows.  Between two marks a row is delivered at most once; what   *)
(* is settled is a beginning of the log, has been delivered, and is not    *)
(* delivered again; a job that dies loses what it had not settled.         *)
(***************************************************************************)
EXTENDS Naturals

CONSTANT Rows

VARIABLES
  log,        \* rows that are published
  earlier,    \* the rows that were published before a row
  settled,    \* rows behind the durable mark
  taken,      \* rows delivered since
  delivered   \* how often each row was delivered
vars == <<log, earlier, settled, taken, delivered>>

Init ==
  /\ log = {}
  /\ earlier = [r \in Rows |-> {}]
  /\ settled = {} /\ taken = {}
  /\ delivered = [r \in Rows |-> 0]

Publish(r) ==
  /\ r \notin log
  /\ log' = log \cup {r}
  /\ earlier' = [earlier EXCEPT ![r] = log]
  /\ UNCHANGED <<settled, taken, delivered>>

Deliver(r) ==
  /\ r \in log \ (settled \cup taken)
  /\ taken' = taken \cup {r}
  /\ delivered' = [delivered EXCEPT ![r] = @ + 1]
  /\ UNCHANGED <<log, earlier, settled>>

(* Everything taken is settled; it is a beginning of the log. *)
Settle ==
  /\ \A r \in settled \cup taken : earlier[r] \subseteq settled \cup taken
  /\ settled' = settled \cup taken
  /\ taken' = {}
  /\ UNCHANGED <<log, earlier, delivered>>

Lose ==
  /\ taken' = {}
  /\ UNCHANGED <<log, earlier, settled, delivered>>

Next == Settle \/ Lose \/ \E r \in Rows : Publish(r) \/ Deliver(r)

Spec == Init /\ [][Next]_vars
=============================================================================
