------------------------------ MODULE Invocation ------------------------------
(***************************************************************************)
(* Calls of database objects by name (access/invocation.py): what the      *)
(* compilers make of a filter and of the page of a view, and what          *)
(* PostgreSQL makes of the result.  A compiled clause has holes, the       *)
(* placeholders of its text, and the query binds values to their names;    *)
(* the text itself is left out.  LIKE and ILIKE compile as the comparisons *)
(* do.                                                                     *)
(***************************************************************************)
EXTENDS Integers, Sequences, Functions

CONSTANT Null

\* The members of FilterOp that are told apart.
Comparisons == {"eq", "ne", "lt", "le", "gt", "ge"}
FilterOps == Comparisons \cup {"in", "not_in", "between", "is_null", "is_not_null"}

\* Filter: column, op, and the value as the list of its parts, of which a comparison
\* has one; at most `most` of them.  A part may be None, which is bound as NULL.
Filters(columns, values, most) ==
    {f \in [column : columns, op : FilterOps, value : UNION {[1..n -> values] : n \in 0..most}] :
        f.op \in Comparisons => Len(f.value) = 1}

\* "IN filter requires a non-empty list", and BETWEEN a [low, high] pair.
WellFormed(f) ==
    /\ f.op \in {"in", "not_in"} => f.value # <<>>
    /\ f.op = "between" => Len(f.value) = 2

\* Mutant: the names of the parameters do not tell the filters apart.
PlaceholdersMutant(f, i) ==
    CASE f.op \in {"in", "not_in"}           -> [j \in DOMAIN f.value |-> <<0, "item", j>>]
      [] f.op = "between"                    -> <<<<0, "lo", 0>>, <<0, "hi", 0>>>>
      [] f.op \in {"is_null", "is_not_null"} -> <<>>
      [] OTHER                               -> <<<<0, "value", 0>>>>

\* The placeholders of filter i: f{i}_{j}, f{i}_lo and f{i}_hi, or f{i}.
Placeholders(f, i) ==
    CASE f.op \in {"in", "not_in"}           -> [j \in DOMAIN f.value |-> <<i, "item", j>>]
      [] f.op = "between"                    -> <<<<i, "lo", 0>>, <<i, "hi", 0>>>>
      [] f.op \in {"is_null", "is_not_null"} -> <<>>
      [] OTHER                               -> <<<<i, "value", 0>>>>

AllPlaceholders(fs) == UNION {Range(Placeholders(fs[i], i)) : i \in DOMAIN fs}

\* params[name] = value: the last filter that has the placeholder wins.
LastWith(fs, name) ==
    CHOOSE i \in DOMAIN fs :
        /\ name \in Range(Placeholders(fs[i], i))
        /\ \A k \in DOMAIN fs : k > i => name \notin Range(Placeholders(fs[k], k))

Bound(fs, name) ==
    LET i == LastWith(fs, name)
    IN  fs[i].value[CHOOSE j \in DOMAIN fs[i].value : Placeholders(fs[i], i)[j] = name]

\* _compile_filters(): clauses in order, and one dict of parameters.
CompileFilters(fs) ==
    IF \E i \in DOMAIN fs : ~WellFormed(fs[i]) THEN [error |-> "QueryError"]
    ELSE [error   |-> "none",
          clauses |-> [i \in DOMAIN fs |-> [column |-> fs[i].column, op |-> fs[i].op,
                                            holes |-> Placeholders(fs[i], i)]],
          params  |-> [name \in AllPlaceholders(fs) |-> Bound(fs, name)]]
-------------------------------------------------------------------------------
\* PostgreSQL: a comparison with NULL is unknown.
Compare(op, x, y) ==
    IF Null \in {x, y} THEN "unknown"
    ELSE IF CASE op = "eq" -> x = y [] op = "ne" -> x # y [] op = "lt" -> x < y
              [] op = "le" -> x <= y [] op = "gt" -> x > y [] op = "ge" -> x >= y
         THEN "true" ELSE "false"

Not(t) == CASE t = "true" -> "false" [] t = "false" -> "true" [] OTHER -> "unknown"
Or(ts) == IF "true" \in ts THEN "true" ELSE IF "unknown" \in ts THEN "unknown" ELSE "false"
And(ts) == IF "false" \in ts THEN "false" ELSE IF "unknown" \in ts THEN "unknown" ELSE "true"

Evaluate(clause, params, row) ==
    LET x == row[clause.column]
        v == [j \in DOMAIN clause.holes |-> params[clause.holes[j]]]
        among == Or({Compare("eq", x, v[j]) : j \in DOMAIN v})
    IN  CASE clause.op = "in"          -> among
          [] clause.op = "not_in"      -> Not(among)
          [] clause.op = "between"     -> And({Compare("ge", x, v[1]), Compare("le", x, v[2])})
          [] clause.op = "is_null"     -> IF x = Null THEN "true" ELSE "false"
          [] clause.op = "is_not_null" -> IF x = Null THEN "false" ELSE "true"
          [] OTHER                     -> Compare(clause.op, x, v[1])

\* WHERE keeps a row for which the conjunction is true.
Where(q, row) == And({Evaluate(q.clauses[i], q.params, row) : i \in DOMAIN q.clauses}) = "true"

-------------------------------------------------------------------------------
\* By what ORDER BY sorts a row whose column holds `key`, of which NULL is the greatest;
\* without ORDER BY all rows are alike.
SortKey(order_by, key) ==
    CASE order_by = "asc" -> key [] order_by = "desc" -> -key [] OTHER -> 0

\* PostgreSQL: one query may return its rows in any order that ORDER BY allows, and the
\* next query in another one.  A row is its place in `keys`.
Orders(order_by, keys) ==
    {rows \in [DOMAIN keys -> DOMAIN keys] :
        /\ IsInjective(rows)
        /\ \A i, j \in DOMAIN keys :
               i < j => SortKey(order_by, keys[rows[i]]) <= SortKey(order_by, keys[rows[j]])}

\* Mutant: LIMIT only if q.limit, which 0 is not.
PageMutant(rows, limit, offset) ==
    LET rest == IF offset = Null THEN rows ELSE SubSeq(rows, offset + 1, Len(rows))
    IN  IF limit \in {Null, 0} THEN rest ELSE SubSeq(rest, 1, IF limit < Len(rest) THEN limit ELSE Len(rest))

\* compile_view(): LIMIT and OFFSET if they are given, of the rows in the order of this
\* query.
Page(rows, limit, offset) ==
    LET rest == IF offset = Null THEN rows ELSE SubSeq(rows, offset + 1, Len(rows))
    IN  IF limit = Null THEN rest ELSE SubSeq(rest, 1, IF limit < Len(rest) THEN limit ELSE Len(rest))
-------------------------------------------------------------------------------
\* What a caller means by a filter (FilterOp, core/models.py): a row without a value is
\* matched by is_null only, and nothing is more or less than None.
Means(f, row) ==
    LET x == row[f.column] IN
    CASE f.op = "is_null"              -> x = Null
      [] f.op = "is_not_null"          -> x # Null
      [] f.op \in {"eq", "in"}         -> x # Null /\ x \in Range(f.value)
      [] f.op \in {"ne", "not_in"}     -> x # Null /\ x \notin Range(f.value)
      [] OTHER -> /\ Null \notin Range(f.value) \cup {x}
                  /\ CASE f.op = "lt" -> x < f.value[1] [] f.op = "le" -> ~(f.value[1] < x)
                       [] f.op = "gt" -> x > f.value[1] [] f.op = "ge" -> ~(x < f.value[1])
                       [] f.op = "between" -> x \in f.value[1] .. f.value[2]

\* A None among what a filter excludes.
ExcludesNone(f) == f.op \in {"ne", "not_in"} /\ Null \in Range(f.value)
===============================================================================
