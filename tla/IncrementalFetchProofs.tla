----------------------- MODULE IncrementalFetchProofs -----------------------
(***************************************************************************)
(* Proofs about IncrementalFetch: for any number of jobs, rows and columns *)
(* and any page size, keyset fetching leaves no gap, provided that rows    *)
(* become visible in the order of keys that differ and hold no NULL.       *)
(***************************************************************************)
EXTENDS IncrementalFetch, WellFoundedInduction, FiniteSetTheorems, TLAPS

(***************************************************************************)
(* Why there are no gaps: visible keys differ, a watermark is the key of a *)
(* visible row, and a job has processed, or still holds on its page, every *)
(* row that the watermark it holds has passed.                             *)
(***************************************************************************)
IsMark(m) == m # None => \E r \in Table : key[r] = m
JobInv(p) ==
  /\ IsMark(mark[p])
  /\ page[p] \subseteq Table
  /\ pc[p] # "processing" => page[p] = {}
  /\ \A r \in Table : Passed(key[r], mark[p]) => delivered[r] > 0 \/ r \in page[p]
IInv == TypeOK /\ KeysDiffer /\ IsMark(saved) /\ NoGaps /\ \A p \in Pollers : JobInv(p)

(***************************************************************************)
(* Two keys that differ differ first in some column.                       *)
(***************************************************************************)
LEMMA FirstDifference ==
  ASSUME NEW a \in Keys, NEW b \in Keys, a # b
  PROVE  \E i \in Column : a[i] # b[i] /\ SameUpTo(a, b, i)
<1> DEFINE D == {i \in Column : a[i] # b[i]}
<1>1. D # {}
  BY DEF Keys
<1>2. D \subseteq Nat
  BY ColumnsAssumption DEF Column
<1> DEFINE Less == {ss \in Nat \X Nat : ss[1] < ss[2]}
<1>3. PICK i \in D : \A j \in D : ~ (<<j, i>> \in Less)
  <2>1. IsWellFoundedOn(Less, Nat)
    BY NatLessThanWellFounded DEF OpToRel
  <2> HIDE DEF D, Less
  <2> QED BY <1>1, <1>2, <2>1, WFMin
<1>4. \A j \in D : ~ (j < i)
  BY <1>2, <1>3
<1>5. \A j \in 1..(i - 1) : j \in Column /\ j < i
  BY ColumnsAssumption DEF Column
<1>6. SameUpTo(a, b, i)
  BY <1>4, <1>5 DEF SameUpTo
<1> QED BY <1>6

(***************************************************************************)
(* Keys without NULL are totally ordered: one that does not sort before    *)
(* another, different one passes the tuple predicate.                      *)
(***************************************************************************)
LEMMA OneOrder ==
  ASSUME NEW a \in Keys, NEW b \in Keys, NotNull(a), NotNull(b)
  PROVE  a = b \/ SortsBefore(a, b) \/ Beyond(a, b)
<1> SUFFICES ASSUME a # b PROVE SortsBefore(a, b) \/ Beyond(a, b)
  OBVIOUS
<1>1. PICK i \in Column : a[i] # b[i] /\ SameUpTo(a, b, i)
  BY FirstDifference
<1>2. a[i] \in Int /\ b[i] \in Int
  BY ValuesAssumption DEF Keys, NotNull
<1>3. CASE a[i] < b[i]
  BY <1>1, <1>3 DEF SortsBefore, NotNull
<1>4. CASE a[i] > b[i]
  <2>1. \A j \in 1..i : j \in Column
    BY ColumnsAssumption DEF Column
  <2> QED BY <1>1, <1>4, <2>1 DEF Beyond, NotNull
<1> QED BY <1>1, <1>2, <1>3, <1>4

(***************************************************************************)
(* A key that is not NotAfter another is Beyond it.                        *)
(***************************************************************************)
COROLLARY NotAfterOrBeyond ==
  ASSUME NEW a \in Keys, NEW b \in Keys, NotNull(a), NotNull(b)
  PROVE  NotAfter(a, b) \/ Beyond(a, b)
BY OneOrder DEF NotAfter

-----------------------------------------------------------------------------
(***************************************************************************)
(* The watermark that fetch_since returns is the key of a row of the page, *)
(* or the cursor it was given.                                             *)
(***************************************************************************)
LEMMA NextMark ==
  ASSUME NEW c, NEW P \in Pages(c), NEW m \in NextWatermarks(P, c)
  PROVE  /\ P \subseteq Table
         /\ P = {} => m = c
         /\ P # {} => \E r \in LastRows(P) : m = key[r]
BY DEF Pages, Eligible, NextWatermarks

LEMMA TypeStep == TypeOK /\ [Next]_vars => TypeOK'
<1> SUFFICES ASSUME TypeOK, [Next]_vars PROVE TypeOK'
  OBVIOUS
<1> USE DEF TypeOK, Marks
<1>1. ASSUME NEW r \in Rows, NEW k \in Keys, Commit(r, k) PROVE TypeOK'
  BY <1>1 DEF Commit
<1>2. ASSUME NEW p \in Pollers, Load(p) PROVE TypeOK'
  BY <1>2 DEF Load
<1>3. ASSUME NEW p \in Pollers, Fetch(p) PROVE TypeOK'
  <2>1. PICK P \in Pages(mark[p]) :
          /\ page' = [page EXCEPT ![p] = P]
          /\ \E m \in NextWatermarks(P, mark[p]) : mark' = [mark EXCEPT ![p] = m]
    BY <1>3 DEF Fetch
  <2>2. PICK m \in NextWatermarks(P, mark[p]) : mark' = [mark EXCEPT ![p] = m]
    BY <2>1
  <2>3. P \subseteq Rows
    BY NextMark DEF Table
  <2>4. m \in Marks
    BY <2>3, NextMark DEF LastRows
  <2> QED BY <1>3, <2>1, <2>2, <2>3, <2>4 DEF Fetch
<1>4. ASSUME NEW p \in Pollers, Process(p) PROVE TypeOK'
  BY <1>4 DEF Process
<1>5. ASSUME NEW p \in Pollers, Save(p) PROVE TypeOK'
  BY <1>5 DEF Save, Forget
<1>6. ASSUME NEW p \in Pollers, Crash(p) PROVE TypeOK'
  BY <1>6, CrashAssumption DEF Crash, Forget
<1>7. CASE UNCHANGED vars
  BY <1>7 DEF vars
<1> QED BY <1>1, <1>2, <1>3, <1>4, <1>5, <1>6, <1>7 DEF Next, Job

(***************************************************************************)
(* Type correctness of the watermark, the jobs and their pages, whatever   *)
(* keys commit in whatever order.                                          *)
(***************************************************************************)
THEOREM TypeCorrect == Spec => []TypeOK
<1>1. Init => TypeOK
  BY CrashAssumption DEF Init, TypeOK, Marks
<1> QED BY <1>1, TypeStep, PTL DEF Spec

-----------------------------------------------------------------------------
LEMMA InvInit == Init => IInv
<1> SUFFICES ASSUME Init PROVE IInv
  OBVIOUS
<1>1. TypeOK
  BY CrashAssumption DEF Init, TypeOK, Marks
<1>2. Table = {}
  BY DEF Init, Table
<1> QED BY <1>1, <1>2
       DEF Init, IInv, KeysDiffer, IsMark, NoGaps, JobInv

(***************************************************************************)
(* A commit keeps the invariant because its key is after every watermark.  *)
(***************************************************************************)
LEMMA CommitStep ==
  ASSUME InKeyOrder, IInv,
         NEW r \in Rows, NEW k \in Keys, Commit(r, k)
  PROVE  IInv'
<1>1. TypeOK'
  BY TypeStep DEF IInv, Next
<1>2. /\ key' = [key EXCEPT ![r] = k] /\ r \notin Table
      /\ NotNull(k)
      /\ UNCHANGED <<saved, pc, mark, page, delivered>>
      /\ key \in [Rows -> Marks]
  BY DEF Commit, IInv, TypeOK
<1>3. /\ r \in Table' /\ Table' = Table \cup {r}
      /\ key'[r] = k /\ \A s \in Table : key'[s] = key[s]
  BY <1>2, NoneAssumption DEF Table
<1>4. \A s \in Table : k # key[s] /\ ~SortsBefore(k, key[s])
  BY DEF Commit, NotAfter
<1>5. KeysDiffer'
  <2>1. \A s \in Table' : NotNull(key'[s])
    BY <1>2, <1>3 DEF IInv, KeysDiffer
  <2>2. \A s, t \in Table' : key'[s] = key'[t] => s = t
    BY <1>3, <1>4 DEF IInv, KeysDiffer
  <2> QED BY <2>1, <2>2 DEF KeysDiffer
<1>6. ASSUME NEW m, IsMark(m)
      PROVE  (m # None => \E s \in Table' : key'[s] = m) /\ ~Passed(k, m)
  BY <1>3, <1>4, <1>6 DEF IsMark, Passed, NotAfter
<1>7. IsMark(saved)' /\ NoGaps'
  BY <1>2, <1>3, <1>6 DEF IInv, IsMark, NoGaps
<1>8. ASSUME NEW p \in Pollers PROVE JobInv(p)'
  <2>1. JobInv(p)
    BY DEF IInv
  <2>2. /\ mark[p] # None => \E s \in Table' : key'[s] = mark[p]
        /\ ~Passed(k, mark[p])
    BY <1>6, <2>1 DEF JobInv
  <2> QED BY <1>2, <1>3, <2>1, <2>2 DEF JobInv, IsMark
<1> QED BY <1>1, <1>5, <1>7, <1>8 DEF IInv

(***************************************************************************)
(* A page holds every row between the cursor and the next watermark.       *)
(***************************************************************************)
LEMMA PageIsComplete ==
  ASSUME TypeOK, KeysDiffer,
         NEW c \in Marks, IsMark(c),
         NEW P \in Pages(c), NEW m \in NextWatermarks(P, c),
         NEW r \in Table, Passed(key[r], m)
  PROVE  r \in P \/ Passed(key[r], c)
<1>1. CASE P = {}
  BY <1>1, NextMark
<1>2. ASSUME P # {}, r \notin P, ~Passed(key[r], c) PROVE FALSE
  <2>1. PICK l \in LastRows(P) : m = key[l]
    BY <1>2, NextMark
  <2>2. l \in P /\ l \in Table
    BY <2>1, NextMark DEF LastRows
  <2>3. /\ key[r] \in Keys /\ NotNull(key[r])
        /\ key[l] \in Keys /\ NotNull(key[l])
    BY <2>2 DEF TypeOK, Marks, Table, KeysDiffer
  <2>4. NotAfter(key[r], key[l])
    BY <2>1 DEF Passed
  <2>5. r \in Eligible(c)
    <3>1. CASE c = None
      BY <3>1 DEF Eligible
    <3>2. CASE c # None
      <4>1. PICK s \in Table : key[s] = c
        BY <3>2 DEF IsMark
      <4>2. c \in Keys /\ NotNull(c)
        BY <3>2, <4>1 DEF Marks, KeysDiffer
      <4>3. ~NotAfter(key[r], c)
        BY <1>2, <3>2 DEF Passed
      <4> QED BY <2>3, <4>2, <4>3, NotAfterOrBeyond DEF Eligible
    <3> QED BY <3>1, <3>2
  <2>6. ~SortsBefore(key[r], key[l])
    BY <1>2, <2>2, <2>5 DEF Pages
  <2>7. key[r] = key[l]
    BY <2>4, <2>6 DEF NotAfter
  <2> QED BY <1>2, <2>2, <2>7 DEF KeysDiffer
<1> QED BY <1>1, <1>2

LEMMA FetchStep ==
  ASSUME IInv, NEW p \in Pollers, Fetch(p)
  PROVE  IInv'
<1>1. TypeOK'
  BY TypeStep DEF IInv, Next, Job
<1>2. PICK P \in Pages(mark[p]) :
        /\ page' = [page EXCEPT ![p] = P]
        /\ \E m \in NextWatermarks(P, mark[p]) : mark' = [mark EXCEPT ![p] = m]
  BY DEF Fetch
<1>3. PICK m \in NextWatermarks(P, mark[p]) : mark' = [mark EXCEPT ![p] = m]
  BY <1>2
<1>4. /\ mark[p] \in Marks /\ JobInv(p) /\ page[p] = {}
      /\ pc' = [pc EXCEPT ![p] = "processing"]
      /\ UNCHANGED <<key, saved, delivered>> /\ Table' = Table
  BY DEF IInv, TypeOK, JobInv, Fetch, Table
<1>5. /\ mark'[p] = m /\ page'[p] = P /\ pc'[p] = "processing"
      /\ \A q \in Pollers \ {p} :
           mark'[q] = mark[q] /\ page'[q] = page[q] /\ pc'[q] = pc[q]
  BY <1>2, <1>3, <1>4 DEF IInv, TypeOK
<1>6. IsMark(m) /\ P \subseteq Table
  BY <1>4, NextMark DEF JobInv, IsMark, LastRows
<1>7. ASSUME NEW r \in Table, Passed(key[r], m)
      PROVE  delivered[r] > 0 \/ r \in P
  BY <1>4, <1>7, PageIsComplete DEF IInv, JobInv
<1>8. JobInv(p)'
  BY <1>4, <1>5, <1>6, <1>7 DEF JobInv, IsMark
<1>9. ASSUME NEW q \in Pollers, q # p PROVE JobInv(q)'
  BY <1>4, <1>5, <1>9 DEF IInv, JobInv, IsMark
<1>10. KeysDiffer' /\ IsMark(saved)' /\ NoGaps'
  BY <1>4 DEF IInv, KeysDiffer, IsMark, NoGaps
<1> QED BY <1>1, <1>8, <1>9, <1>10 DEF IInv

LEMMA LoadStep ==
  ASSUME IInv, NEW p \in Pollers, Load(p)
  PROVE  IInv'
<1>1. TypeOK'
  BY TypeStep DEF IInv, Next, Job
<1>2. UNCHANGED <<key, saved, page, delivered>> /\ Table' = Table
  BY DEF Load, Table
<1>3. ASSUME NEW q \in Pollers PROVE JobInv(q)'
  <2>1. /\ mark'[q] = IF q = p THEN saved ELSE mark[q]
        /\ pc'[q] = IF q = p THEN "fetching" ELSE pc[q]
    BY DEF Load, IInv, TypeOK
  <2>2. page[q] = {} \/ q # p
    BY DEF Load, IInv, JobInv
  <2>3. CASE q = p
    BY <1>2, <2>1, <2>2, <2>3 DEF IInv, JobInv, IsMark, NoGaps, Load
  <2>4. CASE q # p
    <3>1. mark'[q] = mark[q] /\ page'[q] = page[q] /\ JobInv(q)
      BY <1>2, <2>1, <2>4 DEF IInv
    <3> QED BY <1>2, <2>1, <2>4, <3>1 DEF JobInv, IsMark
  <2> QED BY <2>3, <2>4
<1> QED BY <1>1, <1>2, <1>3 DEF IInv, KeysDiffer, IsMark, NoGaps

LEMMA ProcessStep ==
  ASSUME IInv, NEW p \in Pollers, Process(p)
  PROVE  IInv'
<1>1. TypeOK'
  BY TypeStep DEF IInv, Next, Job
<1>2. PICK r \in page[p] : /\ page' = [page EXCEPT ![p] = @ \ {r}]
                           /\ delivered' = [delivered EXCEPT ![r] = @ + 1]
  BY DEF Process
<1>3. UNCHANGED <<key, saved, pc, mark>> /\ Table' = Table
  BY DEF Process, Table
<1>4. r \in Rows /\ delivered \in [Rows -> Nat] /\ page \in [Pollers -> SUBSET Rows]
  BY DEF IInv, TypeOK
<1>5. \A s \in Rows : delivered'[s] \in Nat /\ delivered[s] \in Nat
                      /\ (delivered[s] > 0 \/ s = r => delivered'[s] > 0)
  BY <1>2, <1>4
<1>6. \A s \in Table : s \in Rows
  BY DEF Table
<1>7. ASSUME NEW q \in Pollers PROVE JobInv(q)'
  <2>1. page'[q] = IF q = p THEN page[q] \ {r} ELSE page[q]
    BY <1>2, <1>4
  <2> QED BY <1>3, <1>5, <1>6, <2>1 DEF IInv, JobInv, IsMark
<1>8. KeysDiffer' /\ IsMark(saved)' /\ NoGaps'
  BY <1>3, <1>5, <1>6 DEF IInv, KeysDiffer, IsMark, NoGaps
<1> QED BY <1>1, <1>7, <1>8 DEF IInv

(***************************************************************************)
(* A job that has saved or crashed holds nothing.                          *)
(***************************************************************************)
LEMMA ForgetStep ==
  ASSUME IInv, NEW p \in Pollers, Forget(p),
         UNCHANGED <<key, delivered>>,
         NEW q \in Pollers
  PROVE  JobInv(q)'
<1>1. Table' = Table
  BY DEF Table
<1>2. CASE q = p
  <2>1. pc'[q] = "idle" /\ mark'[q] = None /\ page'[q] = {}
    BY <1>2 DEF Forget, IInv, TypeOK
  <2> QED BY <2>1 DEF JobInv, IsMark, Passed
<1>3. CASE q # p
  <2>1. pc'[q] = pc[q] /\ mark'[q] = mark[q] /\ page'[q] = page[q]
    BY <1>3 DEF Forget, IInv, TypeOK
  <2> QED BY <1>1, <2>1 DEF IInv, JobInv, IsMark
<1> QED BY <1>2, <1>3

LEMMA SaveStep ==
  ASSUME IInv, NEW p \in Pollers, Save(p)
  PROVE  IInv'
<1>1. TypeOK'
  BY TypeStep DEF IInv, Next, Job
<1>2. saved' = mark[p] /\ page[p] = {} /\ UNCHANGED <<key, delivered>> /\ Table' = Table
  BY DEF Save, Table
<1>3. IsMark(saved)' /\ NoGaps'
  BY <1>2 DEF IInv, JobInv, IsMark, NoGaps
<1> QED BY <1>1, <1>2, <1>3, ForgetStep DEF IInv, KeysDiffer, Save

LEMMA CrashStep ==
  ASSUME IInv, NEW p \in Pollers, Crash(p)
  PROVE  IInv'
<1>1. TypeOK'
  BY TypeStep DEF IInv, Next
<1>2. UNCHANGED <<key, saved, delivered>> /\ Table' = Table
  BY DEF Crash, Table
<1> QED BY <1>1, <1>2, ForgetStep DEF IInv, KeysDiffer, IsMark, NoGaps, Crash

(***************************************************************************)
(* The invariant holds if rows become visible in key order, keys differ    *)
(* and no key holds a NULL.                                                *)
(***************************************************************************)
THEOREM Invariance ==
  ASSUME InKeyOrder
  PROVE  Spec => []IInv
<1>1. IInv /\ [Next]_vars => IInv'
  <2> SUFFICES ASSUME IInv, [Next]_vars PROVE IInv'
    OBVIOUS
  <2>1. CASE UNCHANGED vars
    BY <2>1 DEF vars, IInv, TypeOK, KeysDiffer, IsMark, NoGaps, JobInv, Table
  <2> QED BY <2>1, CommitStep, LoadStep, FetchStep, ProcessStep, SaveStep, CrashStep
         DEF Next, Job
<1> QED BY <1>1, InvInit, PTL DEF Spec

(***************************************************************************)
(* Any number of overlapping and crashing jobs leave no gap behind the     *)
(* saved watermark, for every page size and every number of key columns.   *)
(***************************************************************************)
THEOREM GapFree ==
  ASSUME InKeyOrder
  PROVE  Spec => []NoGaps
<1>1. IInv => NoGaps
  BY DEF IInv
<1> QED BY <1>1, Invariance, PTL

-----------------------------------------------------------------------------
(***************************************************************************)
(* An empty page tells the truth: every row that is visible at that moment *)
(* has been processed, by whichever job, also while others hold pages or   *)
(* save older watermarks.  A job may stop for now when it gets one.        *)
(***************************************************************************)
EmptyPageMeansDone ==
  [][\A p \in Pollers :
       Fetch(p) /\ page'[p] = {} => \A r \in Table : delivered[r] > 0]_vars

(***************************************************************************)
(* At any time finitely many rows are visible.                             *)
(***************************************************************************)
LEMMA TableIsFinite == Spec => []IsFiniteSet(Table)
<1>1. Init => IsFiniteSet(Table)
  <2>1. Init => Table = {}
    BY DEF Init, Table
  <2> QED BY <2>1, FS_EmptySet
<1>2. TypeOK /\ IsFiniteSet(Table) /\ [Next]_vars => IsFiniteSet(Table)'
  <2> SUFFICES ASSUME TypeOK, IsFiniteSet(Table), [Next]_vars PROVE IsFiniteSet(Table')
    OBVIOUS
  <2>1. ASSUME NEW r \in Rows, NEW k \in Keys, Commit(r, k)
        PROVE  IsFiniteSet(Table')
    <3>1. key' = [key EXCEPT ![r] = k] /\ key \in [Rows -> Marks]
      BY <2>1 DEF Commit, TypeOK
    <3>2. Table' = Table \cup {r}
      BY <3>1, NoneAssumption DEF Table
    <3> QED BY <3>2, FS_AddElement
  <2>2. ASSUME UNCHANGED key
        PROVE  IsFiniteSet(Table')
    BY <2>2 DEF Table
  <2> QED BY <2>1, <2>2 DEF Next, Job, Load, Fetch, Process, Save, Crash, vars
<1> QED BY <1>1, <1>2, TypeCorrect, PTL DEF Spec

(***************************************************************************)
(* A page is empty only if no row is eligible.                             *)
(***************************************************************************)
LEMMA NothingEligible ==
  ASSUME IsFiniteSet(Table), NEW c, {} \in Pages(c)
  PROVE  Eligible(c) = {}
<1>1. Eligible(c) \subseteq Table
  BY DEF Eligible
<1>2. IsFiniteSet(Eligible(c))
  BY <1>1, FS_Subset
<1>3. Cardinality({}) = IF Cardinality(Eligible(c)) < Limit THEN Cardinality(Eligible(c)) ELSE Limit
  BY DEF Pages
<1>4. Cardinality({}) = 0 /\ (Cardinality(Eligible(c)) = 0 <=> Eligible(c) = {})
  BY <1>2, FS_EmptySet
<1> QED BY <1>3, <1>4, LimitAssumption

(***************************************************************************)
(* A job that gets an empty page knows that every visible row was          *)
(* processed, for any number of jobs that overlap and crash.               *)
(***************************************************************************)
THEOREM EmptyPageIsTrue ==
  ASSUME InKeyOrder
  PROVE  Spec => EmptyPageMeansDone
<1>1. ASSUME IInv, IsFiniteSet(Table), NEW p \in Pollers, Fetch(p), page'[p] = {},
             NEW r \in Table
      PROVE  delivered[r] > 0
  <2>1. /\ mark[p] \in Marks /\ IsMark(mark[p]) /\ page \in [Pollers -> SUBSET Rows]
        /\ page[p] = {}
        /\ Passed(key[r], mark[p]) => delivered[r] > 0 \/ r \in page[p]
    BY <1>1 DEF IInv, JobInv, TypeOK, Fetch
  <2>2. {} \in Pages(mark[p])
    BY <1>1, <2>1 DEF Fetch
  <2>3. r \notin Eligible(mark[p])
    BY <1>1, <2>2, NothingEligible
  <2>4. mark[p] # None /\ ~Beyond(key[r], mark[p])
    BY <1>1, <2>3 DEF Eligible
  <2>5. PICK s \in Table : key[s] = mark[p]
    BY <2>1, <2>4 DEF IsMark
  <2>6. /\ key[r] \in Keys /\ NotNull(key[r])
        /\ mark[p] \in Keys /\ NotNull(mark[p])
    BY <1>1, <2>1, <2>4, <2>5 DEF IInv, TypeOK, KeysDiffer, Marks, Table
  <2>7. NotAfter(key[r], mark[p])
    BY <2>4, <2>6, NotAfterOrBeyond
  <2> QED BY <2>1, <2>4, <2>7 DEF Passed
<1>2. IInv /\ IsFiniteSet(Table) /\ [Next]_vars
        => [\A p \in Pollers :
              Fetch(p) /\ page'[p] = {} => \A r \in Table : delivered[r] > 0]_vars
  BY <1>1
<1> QED BY <1>2, Invariance, TableIsFinite, PTL DEF Spec, EmptyPageMeansDone

-----------------------------------------------------------------------------
(***************************************************************************)
(* The tuple predicate is transitive, excludes NotAfter, and turned around *)
(* it is the order of the query.                                           *)
(***************************************************************************)
LEMMA BeyondTransitive ==
  ASSUME NEW a \in Keys, NEW b \in Keys, NEW c \in Keys, Beyond(a, b), Beyond(b, c),
         NotNull(a), NotNull(b), NotNull(c)
  PROVE  Beyond(a, c)
<1>1. PICK i \in Column : SameUpTo(a, b, i) /\ a[i] > b[i]
  BY DEF Beyond
<1>2. PICK j \in Column : SameUpTo(b, c, j) /\ b[j] > c[j]
  BY DEF Beyond
<1>3. \A l \in Column : a[l] \in Int /\ b[l] \in Int /\ c[l] \in Int
  BY ValuesAssumption DEF Keys, NotNull
<1>4. PICK l \in Column : l <= i /\ l <= j /\ (l = i \/ l = j)
  BY ColumnsAssumption DEF Column
<1>5. \A n \in 1..(l - 1) : n \in 1..(i - 1) /\ n \in 1..(j - 1) /\ n \in Column
  BY <1>4, ColumnsAssumption DEF Column
<1>6. SameUpTo(a, c, l)
  BY <1>1, <1>2, <1>5 DEF SameUpTo
<1>7. /\ l < i => a[l] = b[l]
      /\ l < j => b[l] = c[l]
  BY <1>1, <1>2, ColumnsAssumption DEF SameUpTo, Column
<1>8. a[l] > c[l]
  BY <1>1, <1>2, <1>3, <1>4, <1>7, ColumnsAssumption DEF Column
<1>9. \A n \in 1..l : n \in Column
  BY ColumnsAssumption DEF Column
<1> QED BY <1>6, <1>8, <1>9 DEF Beyond, NotNull

LEMMA BeyondIsAfter ==
  ASSUME NEW a \in Keys, NEW b \in Keys, NotNull(a), NotNull(b), Beyond(a, b)
  PROVE  ~NotAfter(a, b) /\ SortsBefore(b, a)
<1>1. PICK i \in Column : SameUpTo(a, b, i) /\ a[i] > b[i]
  BY DEF Beyond
<1>2. \A l \in Column : a[l] \in Int /\ b[l] \in Int
  BY ValuesAssumption DEF Keys, NotNull
<1>3. SortsBefore(b, a)
  BY <1>1, <1>2 DEF SortsBefore, SameUpTo, NotNull
<1>4. ASSUME SortsBefore(a, b) PROVE FALSE
  <2>1. PICK j \in Column : SameUpTo(a, b, j) /\ a[j] < b[j]
    BY <1>4 DEF SortsBefore, NotNull
  <2>2. (i < j => a[i] = b[i]) /\ (j < i => a[j] = b[j])
    BY <1>1, <2>1, ColumnsAssumption DEF SameUpTo, Column
  <2> QED BY <1>1, <1>2, <2>1, <2>2, ColumnsAssumption DEF Column
<1> QED BY <1>1, <1>2, <1>3, <1>4 DEF NotAfter

(***************************************************************************)
(* Jobs do not overlap.                                                    *)
(***************************************************************************)
OneJob == \A p, q \in Pollers : p = q

(***************************************************************************)
(* The job's watermark is the saved one or beyond it, and its page lies    *)
(* between the two.                                                        *)
(***************************************************************************)
Ahead(m, n) == m = n \/ (m # None /\ (n = None \/ Beyond(m, n)))
Forward(p) ==
  /\ pc[p] = "fetching" => mark[p] = saved
  /\ pc[p] = "processing" => Ahead(mark[p], saved)
  /\ \A r \in page[p] : Passed(key[r], mark[p]) /\ ~Passed(key[r], saved)

(***************************************************************************)
(* A row that the saved watermark has not passed was processed once per    *)
(* crash at most, and once more if the running job has processed it.       *)
(***************************************************************************)
Pending(r, p) == pc[p] # "processing" \/ r \in page[p] \/ ~Passed(key[r], mark[p])
Counted ==
  /\ RedeliveredOnlyByCrash
  /\ \A r \in Rows \ Table : delivered[r] = 0
  /\ \A p \in Pollers, r \in Table :
       ~Passed(key[r], saved) /\ Pending(r, p) => delivered[r] <= crashes

OneJobInv == IInv /\ (\A p \in Pollers : Forward(p)) /\ Counted

LEMMA OneJobInit == Init => OneJobInv
<1> SUFFICES ASSUME Init PROVE OneJobInv
  OBVIOUS
<1>1. IInv /\ Table = {}
  BY InvInit DEF Init, Table
<1> QED BY <1>1 DEF Init, OneJobInv, Forward, Counted, RedeliveredOnlyByCrash

(***************************************************************************)
(* The keys of the table, and watermarks, are comparable.                  *)
(***************************************************************************)
LEMMA Comparable ==
  ASSUME IInv
  PROVE  /\ \A r \in Table : key[r] \in Keys /\ NotNull(key[r])
         /\ saved # None => saved \in Keys /\ NotNull(saved)
         /\ \A p \in Pollers : mark[p] # None => mark[p] \in Keys /\ NotNull(mark[p])
<1>1. \A r \in Table : key[r] \in Keys /\ NotNull(key[r])
  BY DEF IInv, TypeOK, Marks, Table, KeysDiffer
<1> QED BY <1>1 DEF IInv, IsMark, JobInv

LEMMA OneJobCommit ==
  ASSUME InKeyOrder, OneJobInv, NEW r \in Rows, NEW k \in Keys, Commit(r, k)
  PROVE  OneJobInv'
<1>1. IInv'
  BY CommitStep DEF OneJobInv
<1>2. /\ key' = [key EXCEPT ![r] = k] /\ r \notin Table
      /\ UNCHANGED <<saved, pc, mark, page, delivered, crashes>>
      /\ key \in [Rows -> Marks]
  BY DEF Commit, OneJobInv, IInv, TypeOK
<1>3. Table' = Table \cup {r} /\ \A s \in Table : key'[s] = key[s]
  BY <1>2, NoneAssumption DEF Table
<1>4. \A p \in Pollers : Forward(p)'
  <2>1. \A p \in Pollers : page[p] \subseteq Table
    BY DEF OneJobInv, IInv, JobInv
  <2> QED BY <1>2, <1>3, <2>1 DEF OneJobInv, Forward, Ahead, Passed
<1>5. delivered[r] = 0 /\ crashes >= 0
  BY <1>2 DEF OneJobInv, Counted, IInv, TypeOK
<1>6. Counted'
  BY <1>2, <1>3, <1>5 DEF OneJobInv, Counted, RedeliveredOnlyByCrash, Pending, Passed
<1> QED BY <1>1, <1>4, <1>6 DEF OneJobInv

LEMMA OneJobLoad ==
  ASSUME OneJob, OneJobInv, NEW p \in Pollers, Load(p)
  PROVE  OneJobInv'
<1>1. IInv'
  BY LoadStep DEF OneJobInv
<1>2. /\ pc[p] = "idle" /\ pc'[p] = "fetching" /\ mark'[p] = saved /\ page[p] = {}
      /\ UNCHANGED <<key, saved, page, delivered, crashes>> /\ Table' = Table
  BY DEF Load, OneJobInv, IInv, TypeOK, JobInv, Table
<1>3. Forward(p)'
  BY <1>2 DEF Forward
<1>4. Counted'
  BY <1>2 DEF OneJob, OneJobInv, Counted, RedeliveredOnlyByCrash, Pending
<1> QED BY <1>1, <1>3, <1>4 DEF OneJob, OneJobInv

LEMMA OneJobFetch ==
  ASSUME OneJob, OneJobInv, NEW p \in Pollers, Fetch(p)
  PROVE  OneJobInv'
<1>1. IInv'
  BY FetchStep DEF OneJobInv
<1>2. PICK P \in Pages(mark[p]) :
        /\ page' = [page EXCEPT ![p] = P]
        /\ \E m \in NextWatermarks(P, mark[p]) : mark' = [mark EXCEPT ![p] = m]
  BY DEF Fetch
<1>3. PICK m \in NextWatermarks(P, mark[p]) : mark' = [mark EXCEPT ![p] = m]
  BY <1>2
<1>4. /\ pc[p] = "fetching" /\ pc'[p] = "processing" /\ mark[p] = saved
      /\ mark'[p] = m /\ page'[p] = P
      /\ UNCHANGED <<key, saved, delivered, crashes>> /\ Table' = Table
  BY <1>2, <1>3 DEF Fetch, OneJobInv, Forward, IInv, TypeOK, Table
<1>5. /\ P \subseteq Table
      /\ P = {} => m = saved
      /\ P # {} => \E r \in LastRows(P) : m = key[r]
  BY <1>4, NextMark
<1>6. \A r \in P : saved = None \/ Beyond(key[r], saved)
  BY <1>4 DEF Pages, Eligible
<1>7. IInv
  BY DEF OneJobInv
<1>8. \A r \in P : ~Passed(key[r], saved)
  BY <1>5, <1>6, <1>7, Comparable, BeyondIsAfter DEF Passed
<1>9. \A r \in P : Passed(key[r], m)
  <2>1. SUFFICES ASSUME NEW r \in P PROVE Passed(key[r], m)
    OBVIOUS
  <2>2. PICK l \in LastRows(P) : m = key[l]
    BY <1>5
  <2>3. /\ l \in P /\ ~SortsBefore(key[l], key[r])
        /\ key[r] \in Keys /\ NotNull(key[r]) /\ key[l] \in Keys /\ NotNull(key[l])
    BY <1>5, <1>7, Comparable DEF LastRows
  <2>4. NotAfter(key[r], key[l])
    BY <2>3, BeyondIsAfter, NotAfterOrBeyond
  <2> QED BY <2>2, <2>3, <2>4, NoneAssumption DEF Passed
<1>10. Ahead(m, saved)
  <2>1. CASE P = {}
    BY <1>5, <2>1 DEF Ahead
  <2>2. CASE P # {}
    <3>1. PICK l \in LastRows(P) : m = key[l]
      BY <1>5, <2>2
    <3>2. l \in P /\ key[l] \in Keys
      BY <1>5, <1>7, Comparable DEF LastRows
    <3> QED BY <1>6, <3>1, <3>2, NoneAssumption DEF Ahead
  <2> QED BY <2>1, <2>2
<1>11. Forward(p)'
  BY <1>4, <1>8, <1>9, <1>10 DEF Forward, Ahead, Passed
<1>12. Counted'
  BY <1>4 DEF OneJob, OneJobInv, Counted, RedeliveredOnlyByCrash, Pending, Passed
<1> QED BY <1>1, <1>11, <1>12 DEF OneJob, OneJobInv

LEMMA OneJobProcess ==
  ASSUME OneJob, OneJobInv, NEW p \in Pollers, Process(p)
  PROVE  OneJobInv'
<1>1. IInv'
  BY ProcessStep DEF OneJobInv
<1>2. PICK r \in page[p] : /\ page' = [page EXCEPT ![p] = @ \ {r}]
                           /\ delivered' = [delivered EXCEPT ![r] = @ + 1]
  BY DEF Process
<1>3. /\ pc[p] = "processing" /\ UNCHANGED <<key, saved, pc, mark, crashes>> /\ Table' = Table
      /\ page'[p] = page[p] \ {r} /\ page[p] \subseteq Table
      /\ delivered \in [Rows -> Nat] /\ crashes \in Nat
  BY <1>2 DEF Process, Table, OneJobInv, IInv, TypeOK, JobInv
<1>4. r \in Rows /\ r \in Table /\ Passed(key[r], mark[p]) /\ ~Passed(key[r], saved)
  BY <1>2, <1>3 DEF OneJobInv, Forward, Table
<1>5. delivered[r] <= crashes
  BY <1>2, <1>4 DEF OneJobInv, Counted, Pending
<1>6. \A s \in Rows : delivered'[s] = IF s = r THEN delivered[s] + 1 ELSE delivered[s]
  BY <1>2, <1>3
<1>7. Forward(p)'
  BY <1>3 DEF OneJobInv, Forward, Ahead, Passed
<1>8. RedeliveredOnlyByCrash'
  BY <1>3, <1>5, <1>6 DEF OneJobInv, Counted, RedeliveredOnlyByCrash
<1>9. \A s \in Table : ~Passed(key[s], saved) /\ Pending(s, p)' => delivered'[s] <= crashes
  <2>1. \A s \in Table : s \in Rows
    BY DEF Table
  <2>2. ~Pending(r, p)'
    BY <1>3, <1>4 DEF Pending, Passed
  <2>3. \A s \in Table : s # r /\ Pending(s, p)' => Pending(s, p)
    BY <1>3 DEF Pending, Passed
  <2> QED BY <1>3, <1>6, <2>1, <2>2, <2>3 DEF OneJobInv, Counted
<1>10. \A s \in Rows \ Table : delivered'[s] = 0
  BY <1>4, <1>6 DEF OneJobInv, Counted
<1>11. Counted'
  BY <1>3, <1>8, <1>9, <1>10 DEF OneJob, Counted, Passed
<1> QED BY <1>1, <1>7, <1>11 DEF OneJob, OneJobInv

LEMMA OneJobSave ==
  ASSUME OneJob, OneJobInv, NEW p \in Pollers, Save(p)
  PROVE  OneJobInv'
<1>1. IInv'
  BY SaveStep DEF OneJobInv
<1>2. /\ pc[p] = "processing" /\ page[p] = {} /\ saved' = mark[p]
      /\ pc'[p] = "idle" /\ page'[p] = {}
      /\ UNCHANGED <<key, delivered, crashes>> /\ Table' = Table
  BY DEF Save, Forget, OneJobInv, IInv, TypeOK, Table
<1>3. Forward(p)'
  BY <1>2 DEF Forward
<1>4. Ahead(mark[p], saved) /\ IInv
  BY <1>2 DEF OneJobInv, Forward
<1>5. ASSUME NEW r \in Table, ~Passed(key[r], mark[p])
      PROVE  ~Passed(key[r], saved)
  <2>1. CASE mark[p] = saved
    BY <1>5, <2>1
  <2>2. CASE saved = None
    BY <2>2 DEF Passed
  <2>3. CASE mark[p] # None /\ saved # None /\ Beyond(mark[p], saved)
    <3>1. /\ key[r] \in Keys /\ NotNull(key[r]) /\ mark[p] \in Keys /\ NotNull(mark[p])
          /\ saved \in Keys /\ NotNull(saved)
      BY <1>4, <2>3, Comparable
    <3>2. Beyond(key[r], mark[p])
      BY <1>5, <2>3, <3>1, NotAfterOrBeyond DEF Passed
    <3>3. Beyond(key[r], saved)
      BY <2>3, <3>1, <3>2, BeyondTransitive
    <3> QED BY <3>1, <3>3, BeyondIsAfter DEF Passed
  <2> QED BY <1>4, <2>1, <2>2, <2>3 DEF Ahead
<1>6. \A r \in Table : ~Passed(key[r], mark[p]) => delivered[r] <= crashes
  BY <1>5 DEF OneJobInv, Counted, Pending
<1>7. Counted'
  BY <1>2, <1>6 DEF OneJobInv, Counted, RedeliveredOnlyByCrash, Passed
<1> QED BY <1>1, <1>3, <1>7 DEF OneJob, OneJobInv

LEMMA OneJobCrash ==
  ASSUME OneJob, OneJobInv, NEW p \in Pollers, Crash(p)
  PROVE  OneJobInv'
<1>1. IInv'
  BY CrashStep DEF OneJobInv
<1>2. /\ pc'[p] = "idle" /\ page'[p] = {} /\ crashes' = crashes + 1
      /\ UNCHANGED <<key, saved, delivered>> /\ Table' = Table
      /\ crashes \in Nat /\ delivered \in [Rows -> Nat] /\ Table \subseteq Rows
  BY DEF Crash, Forget, OneJobInv, IInv, TypeOK, Table
<1>3. Forward(p)'
  BY <1>2 DEF Forward
<1>4. RedeliveredOnlyByCrash' /\ \A r \in Rows : delivered[r] <= crashes'
  BY <1>2 DEF OneJobInv, Counted, RedeliveredOnlyByCrash
<1>5. Counted'
  BY <1>2, <1>4 DEF OneJobInv, Counted
<1> QED BY <1>1, <1>3, <1>5 DEF OneJob, OneJobInv

(***************************************************************************)
(* The invariant of jobs that do not overlap.                              *)
(***************************************************************************)
LEMMA OneJobInvariance ==
  ASSUME InKeyOrder, OneJob
  PROVE  Spec => []OneJobInv
<1>1. OneJobInv /\ [Next]_vars => OneJobInv'
  <2> SUFFICES ASSUME OneJobInv, [Next]_vars PROVE OneJobInv'
    OBVIOUS
  <2>1. CASE UNCHANGED vars
    BY <2>1 DEF vars, OneJobInv, IInv, TypeOK, KeysDiffer, IsMark, NoGaps, JobInv, Table, Forward,
                Ahead, Passed, Counted, RedeliveredOnlyByCrash, Pending
  <2> QED BY <2>1, OneJobCommit, OneJobLoad, OneJobFetch, OneJobProcess, OneJobSave, OneJobCrash
         DEF Next, Job
<1> QED BY <1>1, OneJobInit, PTL DEF Spec

(***************************************************************************)
(* Jobs that do not overlap process a row twice only after a crash, for    *)
(* every page size, number of rows and key columns (access/watermark.py).  *)
(***************************************************************************)
THEOREM OncePerCrash ==
  ASSUME InKeyOrder, OneJob
  PROVE  Spec => []RedeliveredOnlyByCrash
<1>1. OneJobInv => RedeliveredOnlyByCrash
  BY DEF OneJobInv, Counted
<1> QED BY <1>1, OneJobInvariance, PTL

(***************************************************************************)
(* Jobs that do not overlap only move the saved watermark forward.         *)
(***************************************************************************)
THEOREM Onward ==
  ASSUME InKeyOrder, OneJob
  PROVE  Spec => WatermarkMoves
<1>1. OneJobInv /\ [Next]_vars
        => [saved' # saved => saved = None \/ (saved' # None /\ Beyond(saved', saved))]_vars
  <2> SUFFICES ASSUME OneJobInv, [Next]_vars, saved' # saved
               PROVE  saved = None \/ (saved' # None /\ Beyond(saved', saved))
    BY DEF vars
  <2>1. PICK p \in Pollers : Save(p)
    BY DEF Next, Job, vars, Commit, Load, Fetch, Process, Crash
  <2> QED BY <2>1 DEF Save, OneJobInv, Forward, Ahead
<1> QED BY <1>1, OneJobInvariance, PTL DEF Spec, WatermarkMoves

-----------------------------------------------------------------------------
(***************************************************************************)
(* A row that is not after another one, which a watermark has passed, has  *)
(* been passed too; and rows that one watermark has passed, one ahead of   *)
(* it has passed.                                                          *)
(***************************************************************************)
LEMMA NotAfterTransitive ==
  ASSUME NEW a \in Keys, NEW b \in Keys, NEW c \in Keys,
         NotNull(a), NotNull(b), NotNull(c), NotAfter(a, b), NotAfter(b, c)
  PROVE  NotAfter(a, c)
<1> SUFFICES ASSUME ~NotAfter(a, c) PROVE FALSE
  OBVIOUS
<1>1. Beyond(a, c)
  BY NotAfterOrBeyond
<1>2. a # b /\ b # c
  BY DEF NotAfter
<1>3. SortsBefore(a, b)
  BY <1>2 DEF NotAfter
<1>4. Beyond(b, a)
  <2>1. PICK i \in Column : SameUpTo(a, b, i) /\ a[i] < b[i]
    BY <1>3 DEF SortsBefore, NotNull
  <2>2. \A l \in Column : a[l] \in Int /\ b[l] \in Int
    BY ValuesAssumption DEF Keys, NotNull
  <2>3. \A l \in 1..i : l \in Column
    BY ColumnsAssumption DEF Column
  <2>4. SameUpTo(b, a, i)
    BY <2>1 DEF SameUpTo
  <2> QED BY <2>1, <2>2, <2>3, <2>4 DEF Beyond, NotNull
<1>5. Beyond(b, c)
  BY <1>1, <1>4, BeyondTransitive
<1> QED BY <1>5, BeyondIsAfter

LEMMA PassedAhead ==
  ASSUME IInv, NEW p \in Pollers, Ahead(mark[p], saved),
         NEW r \in Table, Passed(key[r], saved)
  PROVE  Passed(key[r], mark[p])
<1>1. CASE mark[p] = saved
  BY <1>1
<1>2. CASE mark[p] # None /\ Beyond(mark[p], saved)
  <2>1. /\ key[r] \in Keys /\ NotNull(key[r]) /\ mark[p] \in Keys /\ NotNull(mark[p])
        /\ saved \in Keys /\ NotNull(saved)
    BY <1>2, Comparable DEF Passed
  <2>2. NotAfter(saved, mark[p])
    BY <1>2, <2>1, BeyondIsAfter DEF NotAfter
  <2> QED BY <1>2, <2>1, <2>2, NotAfterTransitive DEF Passed
<1> QED BY <1>1, <1>2 DEF Ahead, Passed

(***************************************************************************)
(* What the one job has taken: of the rows that its watermark has passed,  *)
(* those that are not settled and not on its page; without a page, none.   *)
(***************************************************************************)
LEMMA TakenBy ==
  ASSUME OneJob, NEW p \in Pollers
  PROVE  Taken = IF pc[p] = "processing"
                 THEN {r \in Table \ Settled : Passed(key[r], mark[p]) /\ r \notin page[p]}
                 ELSE {}
BY DEF Taken, OneJob

(***************************************************************************)
(* A step that changes neither rows nor the saved watermark, nor what is   *)
(* taken, is not one of the feed.                                          *)
(***************************************************************************)
LEMMA QuietMaps ==
  ASSUME UNCHANGED <<key, saved, delivered>>, Taken' = Taken
  PROVE  /\ Table' = Table /\ Settled' = Settled
         /\ [r \in Rows |-> Before(r)]' = [r \in Rows |-> Before(r)]
         /\ UNCHANGED Promise!vars
<1>1. Table' = Table /\ Settled' = Settled
  BY DEF Table, Settled, Passed
<1>2. \A r \in Rows : Before(r)' = Before(r)
  BY <1>1 DEF Before
<1> QED BY <1>1, <1>2 DEF Promise!vars

LEMMA CommitMaps ==
  ASSUME InKeyOrder, OneJobInv, NEW r \in Rows, NEW k \in Keys, Commit(r, k)
  PROVE  Promise!Publish(r)
<1>1. /\ key' = [key EXCEPT ![r] = k] /\ r \notin Table
      /\ NotNull(k)
      /\ UNCHANGED <<saved, pc, mark, page, delivered>>
      /\ key \in [Rows -> Marks]
  BY DEF Commit, OneJobInv, IInv, TypeOK
<1>2. Table' = Table \cup {r} /\ key'[r] = k /\ \A s \in Table : key'[s] = key[s]
  BY <1>1, NoneAssumption DEF Table
<1>3. \A s \in Table : ~NotAfter(k, key[s]) /\ NotAfter(key[s], k)
  <2> SUFFICES ASSUME NEW s \in Table PROVE ~NotAfter(k, key[s]) /\ NotAfter(key[s], k)
    OBVIOUS
  <2>1. ~NotAfter(k, key[s])
    BY DEF Commit
  <2>2. key[s] \in Keys /\ NotNull(key[s])
    BY Comparable DEF OneJobInv
  <2> QED BY <1>1, <2>1, <2>2, NotAfterOrBeyond, BeyondIsAfter DEF NotAfter
<1>4. ASSUME NEW m, IsMark(m)
      PROVE  ~Passed(k, m)
  BY <1>3, <1>4 DEF IsMark, Passed
<1>5. ~Passed(k, saved) /\ \A p \in Pollers : ~Passed(k, mark[p])
  BY <1>4 DEF OneJobInv, IInv, JobInv
<1>6. Settled' = Settled
  BY <1>1, <1>2, <1>5 DEF Settled
<1>7. Taken' = Taken
  <2>1. \A s \in Table' \ Settled' : s = r \/ s \in Table \ Settled
    BY <1>2, <1>6
  <2>2. \A s \in Table \ Settled : s \in Table' \ Settled' /\ s # r
    BY <1>1, <1>2, <1>6
  <2> QED BY <1>1, <1>2, <1>5, <2>1, <2>2 DEF Taken
<1>8. Before(r)' = Table
  BY <1>1, <1>2, <1>3 DEF Before
<1>9. \A s \in Rows \ {r} : Before(s)' = Before(s)
  <2> SUFFICES ASSUME NEW s \in Rows, s # r PROVE Before(s)' = Before(s)
    OBVIOUS
  <2>1. CASE s \in Table
    BY <1>1, <1>2, <1>3, <2>1 DEF Before
  <2>2. CASE s \notin Table
    BY <1>2, <2>2 DEF Before
  <2> QED BY <2>1, <2>2
<1>10. [s \in Rows |-> Before(s)]' = [[s \in Rows |-> Before(s)] EXCEPT ![r] = Table]
  BY <1>8, <1>9
<1> QED BY <1>1, <1>2, <1>6, <1>7, <1>10 DEF Promise!Publish

LEMMA FetchMaps ==
  ASSUME OneJob, OneJobInv, NEW p \in Pollers, Fetch(p)
  PROVE  UNCHANGED Promise!vars
<1>1. PICK P \in Pages(mark[p]) :
        /\ page' = [page EXCEPT ![p] = P]
        /\ \E m \in NextWatermarks(P, mark[p]) : mark' = [mark EXCEPT ![p] = m]
  BY DEF Fetch
<1>2. PICK m \in NextWatermarks(P, mark[p]) : mark' = [mark EXCEPT ![p] = m]
  BY <1>1
<1>3. /\ pc[p] = "fetching" /\ pc'[p] = "processing" /\ mark[p] = saved
      /\ mark'[p] = m /\ page'[p] = P
      /\ UNCHANGED <<key, saved, delivered>> /\ Table' = Table
  BY <1>1, <1>2 DEF Fetch, OneJobInv, Forward, IInv, TypeOK, Table
<1>4. TypeOK /\ KeysDiffer /\ mark[p] \in Marks /\ IsMark(mark[p])
  BY DEF OneJobInv, IInv, JobInv, TypeOK
<1>5. ASSUME NEW r \in Table, Passed(key[r], m), r \notin P
      PROVE  Passed(key[r], saved)
  BY <1>3, <1>4, <1>5, PageIsComplete
<1>6. Taken = {}
  BY <1>3, TakenBy
<1>7. \A r : r \notin Taken'
  BY <1>3, <1>5 DEF OneJob, Taken, Settled, Passed
<1> QED BY <1>3, <1>6, <1>7, QuietMaps

LEMMA ProcessMaps ==
  ASSUME OneJob, OneJobInv, NEW p \in Pollers, Process(p)
  PROVE  \E r \in Rows : Promise!Deliver(r)
<1>1. PICK r \in page[p] : /\ page' = [page EXCEPT ![p] = @ \ {r}]
                           /\ delivered' = [delivered EXCEPT ![r] = @ + 1]
  BY DEF Process
<1>2. /\ pc[p] = "processing" /\ UNCHANGED <<key, saved, pc, mark>> /\ Table' = Table
      /\ page'[p] = page[p] \ {r}
  BY <1>1 DEF Process, Table, OneJobInv, IInv, TypeOK
<1>3. r \in Rows /\ r \in Table /\ Passed(key[r], mark[p]) /\ ~Passed(key[r], saved)
  BY <1>1 DEF OneJobInv, Forward, Table, IInv, JobInv
<1>4. Settled' = Settled
  BY <1>2 DEF Settled, Passed
<1>5. \A s \in Rows : Before(s)' = Before(s)
  BY <1>2 DEF Before
<1>6. r \notin Settled /\ r \notin Taken
  BY <1>1, <1>2, <1>3, TakenBy DEF Settled
<1>7. Taken' = Taken \cup {r}
  <2>1. Taken = {s \in Table \ Settled : Passed(key[s], mark[p]) /\ s \notin page[p]}
    BY <1>2, TakenBy
  <2>2. Taken' = {s \in Table \ Settled : Passed(key[s], mark[p]) /\ s \notin page[p] \ {r}}
    BY <1>2, <1>4 DEF Taken, OneJob, Passed
  <2> QED BY <1>3, <1>6, <2>1, <2>2
<1> QED BY <1>1, <1>2, <1>3, <1>4, <1>5, <1>6, <1>7 DEF Promise!Deliver

LEMMA SaveMaps ==
  ASSUME OneJob, OneJobInv, NEW p \in Pollers, Save(p)
  PROVE  Promise!Settle
<1>1. /\ pc[p] = "processing" /\ page[p] = {} /\ saved' = mark[p] /\ pc'[p] = "idle"
      /\ UNCHANGED <<key, delivered>> /\ Table' = Table
  BY DEF Save, Forget, OneJobInv, IInv, TypeOK, Table
<1>2. Ahead(mark[p], saved) /\ IInv
  BY <1>1 DEF OneJobInv, Forward
<1> DEFINE done == {r \in Table : Passed(key[r], mark[p])}
<1>3. Settled \cup Taken = done
  <2>1. Taken = {r \in Table \ Settled : Passed(key[r], mark[p])}
    BY <1>1, TakenBy
  <2>2. \A r \in Settled : r \in done
    BY <1>2, PassedAhead DEF Settled
  <2>3. Settled \subseteq Table
    BY DEF Settled
  <2> QED BY <2>1, <2>2, <2>3
<1>4. Settled' = done
  BY <1>1 DEF Settled, Passed
<1>5. Taken' = {}
  BY <1>1 DEF Taken, OneJob
<1>6. ASSUME NEW r \in done, NEW s \in Before(r)
      PROVE  s \in done
  <2>1. r \in Table /\ s \in Table /\ NotAfter(key[s], key[r]) /\ mark[p] # None
        /\ NotAfter(key[r], mark[p])
    BY DEF Before, Passed
  <2>2. /\ key[r] \in Keys /\ NotNull(key[r]) /\ key[s] \in Keys /\ NotNull(key[s])
        /\ mark[p] \in Keys /\ NotNull(mark[p])
    BY <1>2, <2>1, Comparable
  <2> QED BY <2>1, <2>2, NotAfterTransitive DEF Passed
<1>7. \A r \in Rows : Before(r)' = Before(r)
  BY <1>1 DEF Before
<1>8. \A r \in done : r \in Rows
  BY DEF Table
<1> HIDE DEF done
<1>9. \A r \in done : [x \in Rows |-> Before(x)][r] \subseteq done
  BY <1>6, <1>8
<1> QED BY <1>1, <1>3, <1>4, <1>5, <1>7, <1>9 DEF Promise!Settle

LEMMA CrashMaps ==
  ASSUME OneJob, OneJobInv, NEW p \in Pollers, Crash(p)
  PROVE  Promise!Lose
<1>1. pc'[p] = "idle" /\ UNCHANGED <<key, saved, delivered>> /\ Table' = Table
  BY DEF Crash, Forget, OneJobInv, IInv, TypeOK, Table
<1>2. Taken' = {}
  BY <1>1 DEF Taken, OneJob
<1>3. Settled' = Settled
  BY <1>1 DEF Settled, Passed
<1>4. \A r \in Rows : Before(r)' = Before(r)
  BY <1>1 DEF Before
<1> QED BY <1>1, <1>2, <1>3, <1>4 DEF Promise!Lose

(***************************************************************************)
(* Jobs that do not overlap implement Feed: whatever commits between their *)
(* steps and wherever they die, the table is served in the order of its    *)
(* keys, and no row that is settled is served again.                       *)
(***************************************************************************)
THEOREM FeedServed ==
  ASSUME InKeyOrder, OneJob
  PROVE  Spec => ServedInOrder
<1>1. Init => Promise!Init
  <2> SUFFICES ASSUME Init PROVE Promise!Init
    OBVIOUS
  <2>1. Table = {} /\ delivered = [r \in Rows |-> 0]
    BY DEF Init, Table
  <2> QED BY <2>1 DEF Promise!Init, Settled, Taken, Before
<1>2. OneJobInv /\ [Next]_vars => [Promise!Next]_Promise!vars
  <2> SUFFICES ASSUME OneJobInv, [Next]_vars PROVE [Promise!Next]_Promise!vars
    OBVIOUS
  <2>1. ASSUME NEW r \in Rows, NEW k \in Keys, Commit(r, k)
        PROVE  Promise!Next
    BY <2>1, CommitMaps DEF Promise!Next
  <2>2. ASSUME NEW p \in Pollers, Load(p)
        PROVE  UNCHANGED Promise!vars
    <3>1. /\ pc[p] = "idle" /\ pc'[p] = "fetching" /\ UNCHANGED <<key, saved, delivered>>
      BY <2>2 DEF Load, OneJobInv, IInv, TypeOK
    <3>2. Taken = {} /\ Taken' = {}
      BY <3>1 DEF Taken, OneJob
    <3> QED BY <3>1, <3>2, QuietMaps
  <2>3. ASSUME NEW p \in Pollers, Fetch(p)
        PROVE  UNCHANGED Promise!vars
    BY <2>3, FetchMaps
  <2>4. ASSUME NEW p \in Pollers, Process(p)
        PROVE  Promise!Next
    BY <2>4, ProcessMaps DEF Promise!Next
  <2>5. ASSUME NEW p \in Pollers, Save(p)
        PROVE  Promise!Next
    BY <2>5, SaveMaps DEF Promise!Next
  <2>6. ASSUME NEW p \in Pollers, Crash(p)
        PROVE  Promise!Next
    BY <2>6, CrashMaps DEF Promise!Next
  <2>7. CASE UNCHANGED vars
    <3>1. UNCHANGED <<key, saved, delivered>> /\ Taken' = Taken
      BY <2>7 DEF vars, Taken, Table, Settled, Passed
    <3> QED BY <3>1, QuietMaps
  <2> QED BY <2>1, <2>2, <2>3, <2>4, <2>5, <2>6, <2>7 DEF Next, Job
<1> QED BY <1>1, <1>2, OneJobInvariance, PTL DEF Spec, ServedInOrder, Promise!Spec

-----------------------------------------------------------------------------
(***************************************************************************)
(* What holds in whatever order keys commit: a watermark is the key of a   *)
(* visible row, and only a job that processes has rows on its page.        *)
(***************************************************************************)
HoldsPage(p) ==
  /\ IsMark(mark[p])
  /\ page[p] \subseteq Table
  /\ pc[p] # "processing" => page[p] = {}
MarksInv == TypeOK /\ IsMark(saved) /\ \A p \in Pollers : HoldsPage(p)

LEMMA MarksStep == MarksInv /\ [Next]_vars => MarksInv'
<1> SUFFICES ASSUME MarksInv, [Next]_vars PROVE MarksInv'
  OBVIOUS
<1>1. TypeOK'
  BY TypeStep DEF MarksInv
<1>2. ASSUME NEW r \in Rows, NEW k \in Keys, Commit(r, k)
      PROVE  IsMark(saved)' /\ \A p \in Pollers : HoldsPage(p)'
  <2>1. /\ key' = [key EXCEPT ![r] = k] /\ r \notin Table /\ key \in [Rows -> Marks]
        /\ UNCHANGED <<saved, pc, mark, page>>
    BY <1>2 DEF Commit, MarksInv, TypeOK
  <2>2. Table' = Table \cup {r} /\ \A s \in Table : key'[s] = key[s]
    BY <2>1, NoneAssumption DEF Table
  <2>3. \A m : IsMark(m) => (m # None => \E s \in Table' : key'[s] = m)
    BY <2>2 DEF IsMark
  <2> QED BY <2>1, <2>2, <2>3 DEF MarksInv, HoldsPage, IsMark
<1>3. ASSUME UNCHANGED key
      PROVE  Table' = Table /\ \A m : IsMark(m) => (m # None => \E s \in Table' : key'[s] = m)
  BY <1>3 DEF Table, IsMark
<1>4. ASSUME NEW p \in Pollers, Load(p)
      PROVE  IsMark(saved)' /\ \A q \in Pollers : HoldsPage(q)'
  <2>1. UNCHANGED <<key, saved, page>>
    BY <1>4 DEF Load
  <2>2. \A q \in Pollers : /\ mark'[q] = IF q = p THEN saved ELSE mark[q]
                           /\ pc'[q] = IF q = p THEN "fetching" ELSE pc[q]
    BY <1>4 DEF Load, MarksInv, TypeOK
  <2>3. page[p] = {}
    BY <1>4 DEF Load, MarksInv, HoldsPage
  <2> QED BY <1>3, <2>1, <2>2, <2>3 DEF MarksInv, HoldsPage, IsMark
<1>5. ASSUME NEW p \in Pollers, Fetch(p)
      PROVE  IsMark(saved)' /\ \A q \in Pollers : HoldsPage(q)'
  <2>1. PICK P \in Pages(mark[p]) :
          /\ page' = [page EXCEPT ![p] = P]
          /\ \E m \in NextWatermarks(P, mark[p]) : mark' = [mark EXCEPT ![p] = m]
    BY <1>5 DEF Fetch
  <2>2. PICK m \in NextWatermarks(P, mark[p]) : mark' = [mark EXCEPT ![p] = m]
    BY <2>1
  <2>3. /\ P \subseteq Table
        /\ IsMark(m)
    BY NextMark DEF MarksInv, HoldsPage, IsMark, LastRows
  <2>4. \A q \in Pollers : /\ mark'[q] = IF q = p THEN m ELSE mark[q]
                           /\ page'[q] = IF q = p THEN P ELSE page[q]
                           /\ pc'[q] = IF q = p THEN "processing" ELSE pc[q]
    BY <1>5, <2>1, <2>2 DEF Fetch, MarksInv, TypeOK
  <2>5. UNCHANGED <<key, saved>>
    BY <1>5 DEF Fetch
  <2> QED BY <1>3, <2>3, <2>4, <2>5 DEF MarksInv, HoldsPage, IsMark
<1>6. ASSUME NEW p \in Pollers, Process(p)
      PROVE  IsMark(saved)' /\ \A q \in Pollers : HoldsPage(q)'
  <2>1. UNCHANGED <<key, saved, pc, mark>>
    BY <1>6 DEF Process
  <2>2. \A q \in Pollers : page'[q] \subseteq page[q]
    BY <1>6 DEF Process, MarksInv, TypeOK
  <2> QED BY <1>3, <2>1, <2>2 DEF MarksInv, HoldsPage, IsMark
<1>7. ASSUME NEW p \in Pollers, Forget(p), UNCHANGED key
      PROVE  \A q \in Pollers : HoldsPage(q)'
  <2>1. \A q \in Pollers : /\ mark'[q] = IF q = p THEN None ELSE mark[q]
                           /\ page'[q] = IF q = p THEN {} ELSE page[q]
                           /\ pc'[q] = IF q = p THEN "idle" ELSE pc[q]
    BY <1>7 DEF Forget, MarksInv, TypeOK
  <2> QED BY <1>3, <1>7, <2>1 DEF MarksInv, HoldsPage, IsMark
<1>8. ASSUME NEW p \in Pollers, Save(p)
      PROVE  IsMark(saved)' /\ \A q \in Pollers : HoldsPage(q)'
  <2>1. Forget(p) /\ UNCHANGED key /\ saved' = mark[p]
    BY <1>8 DEF Save
  <2> QED BY <1>3, <1>7, <2>1 DEF MarksInv, HoldsPage, IsMark
<1>9. ASSUME NEW p \in Pollers, Crash(p)
      PROVE  IsMark(saved)' /\ \A q \in Pollers : HoldsPage(q)'
  <2>1. Forget(p) /\ UNCHANGED <<key, saved>>
    BY <1>9 DEF Crash
  <2> QED BY <1>3, <1>7, <2>1 DEF MarksInv, IsMark
<1>10. ASSUME UNCHANGED vars
       PROVE  IsMark(saved)' /\ \A q \in Pollers : HoldsPage(q)'
  <2>1. UNCHANGED <<key, saved, pc, mark, page>>
    BY <1>10 DEF vars
  <2> QED BY <1>3, <2>1 DEF MarksInv, HoldsPage, IsMark
<1> QED BY <1>1, <1>2, <1>4, <1>5, <1>6, <1>8, <1>9, <1>10 DEF MarksInv, Next, Job

LEMMA MarksInvariance == Spec => []MarksInv
<1>1. Init => MarksInv
  <2> SUFFICES ASSUME Init PROVE MarksInv
    OBVIOUS
  <2>1. TypeOK
    BY CrashAssumption DEF Init, TypeOK, Marks
  <2> QED BY <2>1 DEF Init, MarksInv, HoldsPage, IsMark
<1> QED BY <1>1, MarksStep, PTL DEF Spec

(***************************************************************************)
(* A row that was visible is skipped after a step of a job only if it was  *)
(* before: the page holds every row between cursor and watermark, and what *)
(* a job saves it has held.                                                *)
(***************************************************************************)
LEMMA JobSkipsNone ==
  ASSUME MarksInv, KeysDiffer, NEW p \in Pollers, Job(p) \/ Crash(p),
         NEW r \in Skipped'
  PROVE  r \in Skipped
<1>1. UNCHANGED key /\ Table' = Table
  BY DEF Job, Load, Fetch, Process, Save, Crash, Table
<1>2. r \in Table /\ r \in Rows /\ delivered'[r] = 0
  BY <1>1 DEF Skipped, Table
<1>3. delivered[r] = 0
  <2>1. CASE Process(p)
    <3>1. PICK s \in page[p] : delivered' = [delivered EXCEPT ![s] = @ + 1]
      BY <2>1 DEF Process
    <3>2. delivered \in [Rows -> Nat]
      BY DEF MarksInv, TypeOK
    <3> QED BY <1>2, <3>1, <3>2
  <2>2. CASE ~Process(p)
    BY <1>2, <2>2 DEF Job, Load, Fetch, Save, Crash
  <2> QED BY <2>1, <2>2
<1>4. \/ Passed(key[r], saved')
      \/ \E q \in Pollers : Passed(key[r], mark'[q]) /\ r \notin page'[q]
  BY <1>1 DEF Skipped, Passed
<1>5. ASSUME NEW q \in Pollers, Passed(key[r], mark[q]), r \notin page[q]
      PROVE  r \in Skipped
  BY <1>2, <1>3, <1>5 DEF Skipped
<1>6. ASSUME Passed(key[r], saved)
      PROVE  r \in Skipped
  BY <1>2, <1>3, <1>6 DEF Skipped
<1>7. CASE Load(p)
  <2>1. saved' = saved /\ \A q \in Pollers : /\ page'[q] = page[q]
                                             /\ mark'[q] = IF q = p THEN saved ELSE mark[q]
    BY <1>7 DEF Load, MarksInv, TypeOK
  <2> QED BY <1>4, <1>5, <1>6, <2>1
<1>8. CASE Fetch(p)
  <2>1. PICK P \in Pages(mark[p]) :
          /\ page' = [page EXCEPT ![p] = P]
          /\ \E m \in NextWatermarks(P, mark[p]) : mark' = [mark EXCEPT ![p] = m]
    BY <1>8 DEF Fetch
  <2>2. PICK m \in NextWatermarks(P, mark[p]) : mark' = [mark EXCEPT ![p] = m]
    BY <2>1
  <2>3. saved' = saved /\ \A q \in Pollers : /\ page'[q] = IF q = p THEN P ELSE page[q]
                                             /\ mark'[q] = IF q = p THEN m ELSE mark[q]
    BY <1>8, <2>1, <2>2 DEF Fetch, MarksInv, TypeOK
  <2>4. page[p] = {}
    BY <1>8 DEF Fetch, MarksInv, HoldsPage
  <2>5. TypeOK /\ mark[p] \in Marks /\ IsMark(mark[p])
    BY DEF MarksInv, HoldsPage, TypeOK
  <2>6. Passed(key[r], m) /\ r \notin P => Passed(key[r], mark[p])
    BY <1>2, <2>5, PageIsComplete
  <2> QED BY <1>4, <1>5, <1>6, <2>3, <2>4, <2>6
<1>9. CASE Process(p)
  <2>1. PICK s \in page[p] : /\ page' = [page EXCEPT ![p] = @ \ {s}]
                             /\ delivered' = [delivered EXCEPT ![s] = @ + 1]
    BY <1>9 DEF Process
  <2>2. s # r
    BY <1>2, <1>3, <2>1 DEF MarksInv, TypeOK
  <2>3. /\ saved' = saved /\ mark' = mark
        /\ \A q \in Pollers : r \in page'[q] <=> r \in page[q]
    BY <1>9, <2>1, <2>2 DEF Process, MarksInv, TypeOK
  <2> QED BY <1>4, <1>5, <1>6, <2>3
<1>10. ASSUME Forget(p)
       PROVE  \A q \in Pollers : /\ page'[q] = IF q = p THEN {} ELSE page[q]
                                 /\ mark'[q] = IF q = p THEN None ELSE mark[q]
  BY <1>10 DEF Forget, MarksInv, TypeOK
<1>11. CASE Save(p)
  <2>1. saved' = mark[p] /\ page[p] = {} /\ Forget(p)
    BY <1>11 DEF Save
  <2> QED BY <1>4, <1>5, <1>10, <2>1 DEF Passed
<1>12. CASE Crash(p)
  <2>1. saved' = saved /\ Forget(p)
    BY <1>12 DEF Crash
  <2> QED BY <1>4, <1>5, <1>6, <1>10, <2>1 DEF Passed
<1> QED BY <1>7, <1>8, <1>9, <1>11, <1>12 DEF Job

(***************************************************************************)
(* A row is skipped only if it commits behind a watermark in use, whatever *)
(* the order of commits, for any number of jobs, rows and columns, wherever *)
(* the jobs stand and wherever they die.                                   *)
(***************************************************************************)
THEOREM OnlyLateRowsSkipped == Spec => SkippedAtCommit
<1>1. MarksInv /\ [Next]_vars
        => [KeysDiffer => Skipped' \subseteq Skipped \cup (Table' \ Table)]_vars
  <2> SUFFICES ASSUME MarksInv, [Next]_vars, KeysDiffer, ~UNCHANGED vars, NEW r \in Skipped'
               PROVE  r \in Skipped \/ r \in Table' \ Table
    OBVIOUS
  <2>1. ASSUME NEW s \in Rows, NEW k \in Keys, Commit(s, k)
        PROVE  r \in Skipped \/ r \in Table' \ Table
    <3>1. /\ key' = [key EXCEPT ![s] = k] /\ s \notin Table /\ key \in [Rows -> Marks]
          /\ UNCHANGED <<saved, mark, page, delivered>>
      BY <2>1 DEF Commit, MarksInv, TypeOK
    <3>2. r \in Table => key'[r] = key[r]
      BY <3>1
    <3> QED BY <3>1, <3>2 DEF Skipped
  <2> QED BY <2>1, JobSkipsNone DEF Next
<1> QED BY <1>1, MarksInvariance, PTL DEF Spec, SkippedAtCommit
=============================================================================
