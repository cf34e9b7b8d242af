-------------------------- MODULE IncrementalFetch --------------------------
(***************************************************************************)
(* Periodic incremental pulls: jobs that load the saved watermark, call    *)
(* DataSourceHandle.fetch_since, process the page row by row and save      *)
(* Page.next_watermark, while other transactions commit rows.  fetch_since *)
(* and its keyset query are access/watermark.py; the job's loop and where  *)
(* it keeps the watermark are the caller's (docs 11 and 16 show them).     *)
(* A query that fails changes nothing and is a stuttering step.            *)
(***************************************************************************)
EXTENDS Keyset, FiniteSets

CONSTANTS
  Rows,         \* rows that may be committed
  Pollers,      \* runs of the job that may overlap
  Limit,        \* the page size
  None,         \* no watermark, no row
  InKeyOrder,   \* do rows become visible in the order of their keys?
                \*   TRUE : each commit brings a key without NULL that sorts
                \*          after every visible one
                \*   FALSE: transactions commit in any order, order_by may be
                \*          ambiguous or nullable: nothing excludes it
  MaxCrashes    \* bound: crashes of jobs

ASSUME LimitAssumption == Limit \in Nat \ {0}
ASSUME NoneAssumption == None \notin Keys
ASSUME OrderAssumption == InKeyOrder \in BOOLEAN
ASSUME CrashAssumption == MaxCrashes \in Nat

VARIABLES
  key,        \* key of each committed row, None of the others
  saved,      \* the durable watermark
  pc,         \* where each job is
  mark,       \* the WatermarkCursor a job holds: loaded, then next_watermark
  page,       \* rows of its page that it has not processed
  delivered,  \* how often each row was processed
  crashes     \* crashes so far
vars == <<key, saved, pc, mark, page, delivered, crashes>>

Marks == Keys \cup {None}
Table == {r \in Rows : key[r] # None}

TypeOK ==
  /\ key \in [Rows -> Marks]
  /\ saved \in Marks
  /\ pc \in [Pollers -> {"idle", "fetching", "processing"}]
  /\ mark \in [Pollers -> Marks]
  /\ page \in [Pollers -> SUBSET Rows]
  /\ delivered \in [Rows -> Nat]
  /\ crashes \in 0..MaxCrashes

Init ==
  /\ key = [r \in Rows |-> None]
  /\ saved = None
  /\ pc = [p \in Pollers |-> "idle"]
  /\ mark = [p \in Pollers |-> None]
  /\ page = [p \in Pollers |-> {}]
  /\ delivered = [r \in Rows |-> 0]
  /\ crashes = 0

(* A transaction commits row r with key k. *)
Commit(r, k) ==
  /\ r \notin Table
  /\ InKeyOrder => NotNull(k) /\ \A s \in Table : ~NotAfter(k, key[s])
  /\ key' = [key EXCEPT ![r] = k]
  /\ UNCHANGED <<saved, pc, mark, page, delivered, crashes>>

(* Mutants: >= for >; every column compared on its own. *)
EligibleInclusive(cursor) ==
  {r \in Table : cursor = None \/ Beyond(key[r], cursor) \/ key[r] = cursor}
EligibleColumnwise(cursor) ==
  {r \in Table : cursor = None \/ \A i \in Column : key[r][i] > cursor[i]}

(* The rows that the keyset predicate lets through. *)
Eligible(cursor) ==
  {r \in Table : cursor = None \/ Beyond(key[r], cursor)}

(* Mutant: no ORDER BY. *)
PagesUnsorted(cursor) ==
  LET E == Eligible(cursor) IN
  {P \in SUBSET E :
     Cardinality(P) = IF Cardinality(E) < Limit THEN Cardinality(E) ELSE Limit}

(* ORDER BY ... LIMIT: the rows of a page, a prefix of the sorted rows. *)
Pages(cursor) ==
  LET E == Eligible(cursor) IN
  {P \in SUBSET E :
     /\ Cardinality(P) = IF Cardinality(E) < Limit THEN Cardinality(E) ELSE Limit
     /\ \A r \in P, s \in E \ P : ~SortsBefore(key[s], key[r])}

LastRows(P) == {r \in P : \A s \in P : ~SortsBefore(key[r], key[s])}

(* Mutants: an empty page resets the watermark; it yields an empty tuple. *)
NextWatermarksReset(P, cursor) ==
  IF P = {} THEN {None} ELSE {key[r] : r \in LastRows(P)}
NextWatermarksEmpty(P, cursor) ==
  IF P = {} THEN {<<>>} ELSE {key[r] : r \in LastRows(P)}

(* The watermark after page P: the key of its last row. *)
NextWatermarks(P, cursor) ==
  IF P = {} THEN {cursor} ELSE {key[r] : r \in LastRows(P)}

(* The job starts from the durable watermark. *)
Load(p) ==
  /\ pc[p] = "idle"
  /\ pc' = [pc EXCEPT ![p] = "fetching"]
  /\ mark' = [mark EXCEPT ![p] = saved]
  /\ UNCHANGED <<key, saved, page, delivered, crashes>>

(* fetch_since: one query on one snapshot, then next_watermark. *)
Fetch(p) ==
  /\ pc[p] = "fetching"
  /\ pc' = [pc EXCEPT ![p] = "processing"]
  /\ \E P \in Pages(mark[p]) :
       /\ page' = [page EXCEPT ![p] = P]
       /\ \E m \in NextWatermarks(P, mark[p]) : mark' = [mark EXCEPT ![p] = m]
  /\ UNCHANGED <<key, saved, delivered, crashes>>

Process(p) ==
  /\ pc[p] = "processing"
  /\ \E r \in page[p] :
       /\ page' = [page EXCEPT ![p] = @ \ {r}]
       /\ delivered' = [delivered EXCEPT ![r] = @ + 1]
  /\ UNCHANGED <<key, saved, pc, mark, crashes>>

Forget(p) ==
  /\ pc' = [pc EXCEPT ![p] = "idle"]
  /\ mark' = [mark EXCEPT ![p] = None]
  /\ page' = [page EXCEPT ![p] = {}]

(* Mutant: the watermark is saved before the rows are processed. *)
SaveEarly(p) ==
  /\ pc[p] = "processing"
  /\ saved' = mark[p]
  /\ Forget(p)
  /\ UNCHANGED <<key, delivered, crashes>>

(* save(page.next_watermark), after the loop over the rows. *)
Save(p) ==
  /\ pc[p] = "processing" /\ page[p] = {}
  /\ saved' = mark[p]
  /\ Forget(p)
  /\ UNCHANGED <<key, delivered, crashes>>

(* The job dies: what it held is lost, what it processed stays processed. *)
Crash(p) ==
  /\ pc[p] # "idle" /\ crashes < MaxCrashes
  /\ crashes' = crashes + 1
  /\ Forget(p)
  /\ UNCHANGED <<key, saved, delivered>>

Job(p) == Load(p) \/ Fetch(p) \/ Process(p) \/ Save(p)

Next ==
  \/ \E r \in Rows, k \in Keys : Commit(r, k)
  \/ \E p \in Pollers : Job(p) \/ Crash(p)

Spec == Init /\ [][Next]_vars

(* The scheduler keeps starting jobs, and a job that runs goes on. *)
FairSpec == Spec /\ \A p \in Pollers : WF_vars(Job(p))
-----------------------------------------------------------------------------
(* PROPERTIES *)

(***************************************************************************)
(* No gaps: a row that the saved watermark has passed, and that no later   *)
(* fetch_since returns, has been processed; whatever overlapping jobs,     *)
(* crashes and concurrent commits do between the steps of a job.           *)
(***************************************************************************)
Passed(k, m) == m # None /\ NotAfter(k, m)
NoGaps == \A r \in Table : Passed(key[r], saved) => delivered[r] > 0

(***************************************************************************)
(* Jobs that do not overlap process a row twice only after a crash: the    *)
(* boundary of a page is half-open and an empty page keeps the watermark.  *)
(***************************************************************************)
RedeliveredOnlyByCrash == \A r \in Rows : delivered[r] <= 1 + crashes

(***************************************************************************)
(* Without overlapping jobs the saved watermark only moves forward, in the *)
(* order of the keyset predicate: an empty page never sets it back.        *)
(***************************************************************************)
WatermarkMoves ==
  [][saved' # saved => saved = None \/ (saved' # None /\ Beyond(saved', saved))]_vars

(***************************************************************************)
(* Every committed row is processed at some time, whichever page it fell   *)
(* on, even if a job crashed while it held that page.                      *)
(***************************************************************************)
EveryRowDelivered == \A r \in Rows : (r \in Table) ~> (delivered[r] > 0)

(***************************************************************************)
(* In whatever order transactions commit: as long as visible keys differ   *)
(* and hold no NULL, a row is skipped only if it becomes visible behind a  *)
(* watermark that is saved, or that a job holds.  No step of a job, and no *)
(* crash, makes one of the rows that were visible a skipped one.           *)
(***************************************************************************)
KeysDiffer ==
  /\ \A r \in Table : NotNull(key[r])
  /\ \A r, s \in Table : key[r] = key[s] => r = s
Skipped ==
  {r \in Table : /\ delivered[r] = 0
                /\ \/ Passed(key[r], saved)
                   \/ \E p \in Pollers : Passed(key[r], mark[p]) /\ r \notin page[p]}
SkippedAtCommit == [][KeysDiffer => Skipped' \subseteq Skipped \cup (Table' \ Table)]_vars

(***************************************************************************)
(* Jobs that do not overlap serve the table as a Feed, in the order of its *)
(* keys: behind the saved watermark are settled rows, between it and the   *)
(* watermark a job holds the rows of its page, of which it has taken those *)
(* that it no longer holds.                                                *)
(***************************************************************************)
Settled == {r \in Table : Passed(key[r], saved)}
Taken ==
  {r \in Table \ Settled :
     \E p \in Pollers : pc[p] = "processing" /\ Passed(key[r], mark[p]) /\ r \notin page[p]}
Before(r) == IF r \in Table THEN {s \in Table : s # r /\ NotAfter(key[s], key[r])} ELSE {}
Promise == INSTANCE Feed WITH log <- Table, earlier <- [r \in Rows |-> Before(r)],
                              settled <- Settled, taken <- Taken
ServedInOrder == Promise!Spec
=============================================================================
