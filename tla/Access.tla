--------------------------------- MODULE Access ---------------------------------
(***************************************************************************)
(* The compilers and the configuration over their inputs: a call is given, *)
(* and compiled, or executed, in one step.                                 *)
(***************************************************************************)
EXTENDS Invocation, Interval, Configuration, FiniteSets

CONSTANTS
    Columns,    \* columns of a table
    Values,     \* values of a column
    MaxParts,   \* filters of a call, and values of a filter, at most
    Lengths,    \* how many rows a view may have
    Keys,       \* values of the column that a view is ordered by
    PageSizes,  \* the limit of a page
    Pages,      \* how many pages are read, one after the other
    Times,      \* moments
    Widths,     \* of a bucket
    Names,      \* of data sources
    PoolSizes   \* min_size and max_size of a pool

ASSUME TableAssumption == Values \subseteq Int /\ Null \notin Int /\ MaxParts \in Nat
ASSUME PagesAssumption ==
    Lengths \subseteq Nat /\ Keys \subseteq Int /\ PageSizes \subseteq Nat /\ Pages \in Nat
ASSUME WindowsAssumption == Times \subseteq Int /\ Widths \subseteq Nat \ {0}
ASSUME PoolsAssumption ==
    PoolSizes \subseteq Int /\ Absent \notin Int /\ DefaultMax \in Nat \ {0}

VARIABLES given, made, stage
vars == <<given, made, stage>>

\* What a column of a row, or a part of a filter's value, may hold.
Cells == Values \cup {Null}

Rows == [Columns -> Cells]

ViewCalls ==
    [call : {"view"},
     filters : UNION {[1..n -> Filters(Columns, Cells, MaxParts)] : n \in 0..MaxParts}]

\* The rows of a view by their keys, and pages of one size in an order that is asked for,
\* or in none.
PageCalls ==
    [call : {"page"}, keys : UNION {[1..n -> Keys] : n \in Lengths},
     order_by : {"none", "asc", "desc"}, size : PageSizes]

Windows ==
    {w \in [call : {"windows"}, events : SUBSET Times, cuts : [1..3 -> Times], every : Widths] :
        w.cuts[1] <= w.cuts[2] /\ w.cuts[2] <= w.cuts[3]}

Configs ==
    [call : {"configure"},
     sources : UNION {[1..n -> DataSources(Names, PoolSizes)] : n \in 0..MaxParts}]

Init ==
    /\ given \in ViewCalls \cup PageCalls \cup Windows \cup Configs
    /\ made = [error |-> "none"] /\ stage = "given"

CompileView ==
    /\ given.call = "view" /\ stage = "given" /\ stage' = "made"
    /\ made' = CompileFilters(given.filters)
    /\ UNCHANGED given

\* Successive pages of one size over rows that do not change, each by a query of its own.
ReadPages ==
    /\ given.call = "page" /\ stage = "given" /\ stage' = "made"
    /\ \E orders \in [1..Pages -> Orders(given.order_by, given.keys)] :
           made' = [k \in 1..Pages |-> Page(orders[k], given.size, (k - 1) * given.size)]
    /\ UNCHANGED given

\* The buckets from the i-th cut to the j-th.
Part(w, i, j) == Buckets(w.events, w.cuts[i], w.cuts[j], w.every)

\* Two windows, one after the other, and the window over both.
FetchWindows ==
    /\ given.call = "windows" /\ stage = "given" /\ stage' = "made"
    /\ made' = [first |-> Part(given, 1, 2), second |-> Part(given, 2, 3),
                whole |-> Part(given, 1, 3)]
    /\ UNCHANGED given

Configure ==
    /\ given.call = "configure" /\ stage = "given" /\ stage' = "made"
    /\ made' = IF Accepted(given.sources) THEN Registered(given.sources) ELSE [error |-> "refused"]
    /\ UNCHANGED given

Next == CompileView \/ ReadPages \/ FetchWindows \/ Configure

Spec == Init /\ [][Next]_vars

Made(call) == stage = "made" /\ given.call = call
-------------------------------------------------------------------------------
\* The compiled query keeps the rows that the filters mean, and binds exactly the
\* placeholders of its text: no two filters share a parameter, whatever their order and
\* number, and a filter that lacks its values is refused (access/invocation.py).  Only
\* None among the excluded values is more than is meant: it excludes every row.
ViewKeepsWhatFiltersMean ==
    Made("view") =>
        IF \E i \in DOMAIN given.filters : ~WellFormed(given.filters[i])
        THEN made.error = "QueryError"
        ELSE /\ \A row \in Rows :
                    Where(made, row) <=>
                        \A i \in DOMAIN given.filters :
                            Means(given.filters[i], row) /\ ~ExcludesNone(given.filters[i])
             /\ DOMAIN made.params = UNION {Range(made.clauses[i].holes) : i \in DOMAIN made.clauses}

SortedBy(row) == SortKey(given.order_by, given.keys[row])

\* The rows that sort alike with a row have the places from AheadOf(row) + 1 to UpTo(row)
\* in every order.
AheadOf(row) == Cardinality({r \in DOMAIN given.keys : SortedBy(r) < SortedBy(row)})
UpTo(row) == Cardinality({r \in DOMAIN given.keys : SortedBy(r) <= SortedBy(row)})

\* Successive pages of a view (limit and offset of compile_view()) never go back in the
\* order asked for, none has a row twice, and a row that ORDER BY tells from all others
\* is on the page of its place and on no other.  Rows that sort alike, without ORDER BY
\* all of them, are repeated or skipped only if a cut between two pages parts them.
PagesTile ==
    Made("page") =>
        /\ \A k, l \in 1..Pages : \A i \in DOMAIN made[k], j \in DOMAIN made[l] :
               k < l \/ (k = l /\ i < j) => SortedBy(made[k][i]) <= SortedBy(made[l][j])
        /\ \A k \in 1..Pages : IsInjective(made[k])
        /\ \A k \in 1..Pages, row \in DOMAIN given.keys :
               LET first == (k - 1) * given.size
                   last  == k * given.size
               IN  /\ row \in Range(made[k]) => AheadOf(row) < last /\ first < UpTo(row)
                   /\ first <= AheadOf(row) /\ UpTo(row) <= last => row \in Range(made[k])

\* Windows that follow each other count every event once, in the bucket it is in, and
\* if a whole number of buckets fits between them they give the buckets of the window
\* over both (access/interval.py: half-open, with the origin at the start).
WindowsTile ==
    Made("windows") =>
        LET rows(w) == UNION Range(w)
            within(w) == \A b \in DOMAIN w : w[b] # {} /\ w[b] \subseteq b .. (b + given.every - 1)
        IN  /\ rows(made.first) \cap rows(made.second) = {}
            /\ rows(made.first) \cup rows(made.second)
                   = {e \in given.events : given.cuts[1] <= e /\ e < given.cuts[3]}
            /\ within(made.first) /\ within(made.second)
            /\ (given.cuts[2] - given.cuts[1]) % given.every = 0 =>
                   /\ DOMAIN made.whole = DOMAIN made.first \cup DOMAIN made.second
                   /\ \A b \in DOMAIN made.first : made.whole[b] = made.first[b]
                   /\ \A b \in DOMAIN made.second : made.whole[b] = made.second[b]

\* A configuration that load_settings() accepts is built, each name with the pool of its
\* own data source and sizes that make sense; only a min_size above the default max_size
\* gets past load_settings() (config/settings.py) and is refused by the pool.
AcceptedIsBuilt ==
    Made("configure") /\ made.error # "refused" =>
        LET ds == given.sources IN
        IF made.error = "none"
        THEN \A i \in DOMAIN ds : made.pools[ds[i].name] = ds[i] /\ ds[i].min_size <= MaxSize(ds[i])
        ELSE \E i \in DOMAIN ds : ds[i].max_size = Absent /\ ds[i].min_size > DefaultMax
===============================================================================
