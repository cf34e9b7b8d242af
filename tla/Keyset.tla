------------------------------- MODULE Keyset -------------------------------
(***************************************************************************)
(* The watermark key of fetch_since (access/watermark.py): the values of   *)
(* the order_by columns of a row, how PostgreSQL sorts them and how the    *)
(* tuple predicate of build_keyset_query compares them.  The two disagree  *)
(* about NULL: ORDER BY puts it last, a comparison with it is unknown.     *)
(***************************************************************************)
EXTENDS Integers

CONSTANTS
  Columns,  \* number of order_by columns
  Values,   \* values of a column
  NULL      \* the SQL null

ASSUME ColumnsAssumption == Columns \in Nat \ {0}
ASSUME ValuesAssumption == Values \subseteq Int /\ NULL \notin Int

Column == 1..Columns
Keys == [Column -> Values \cup {NULL}]
NotNull(k) == \A i \in Column : k[i] # NULL
SameUpTo(a, b, i) == \A j \in 1..(i - 1) : a[j] = b[j]

(***************************************************************************)
(* (col_1, ..., col_n) > (%(__k0)s, ...): true only if the first pair that *)
(* differs or holds a NULL is a pair of values, the left one greater.      *)
(***************************************************************************)
Beyond(a, b) ==
  \E i \in Column :
    /\ SameUpTo(a, b, i) /\ \A j \in 1..i : a[j] # NULL /\ b[j] # NULL
    /\ a[i] > b[i]

(* ORDER BY col_1, ..., col_n: ascending, NULLs last, NULLs equal. *)
SortsBefore(a, b) ==
  \E i \in Column :
    /\ SameUpTo(a, b, i)
    /\ a[i] # NULL
    /\ b[i] = NULL \/ a[i] < b[i]

NotAfter(a, b) == a = b \/ SortsBefore(a, b)
=============================================================================
