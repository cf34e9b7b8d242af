----------------------------- MODULE AccessProofs -----------------------------
(***************************************************************************)
(* What the compilers do, for any tables, filters, views, windows and data *)
(* sources.  Nothing here needs induction: a call is compiled in one step, *)
(* and what that step returns is described without recursion.              *)
(***************************************************************************)
EXTENDS Access, FiniteSetTheorems, FunctionTheorems, TLAPS

\* made is what was made of the call.
Compiled ==
    /\ given \in ViewCalls \cup PageCalls \cup Windows \cup Configs
    /\ Made("view") => made = CompileFilters(given.filters)
    /\ Made("page") =>
           \E orders \in [1..Pages -> Orders(given.order_by, given.keys)] :
               made = [k \in 1..Pages |-> Page(orders[k], given.size, (k - 1) * given.size)]
    /\ Made("windows") => made = [first |-> Part(given, 1, 2), second |-> Part(given, 2, 3),
                                  whole |-> Part(given, 1, 3)]
    /\ Made("configure") => made = IF Accepted(given.sources) THEN Registered(given.sources)
                                   ELSE [error |-> "refused"]

\* Every step compiles what was given.
LEMMA CompiledAlways == Spec => []Compiled
<1>1. Init => Compiled
    BY DEF Init, Compiled, Made
<1>2. Compiled /\ [Next]_vars => Compiled'
  <2> SUFFICES ASSUME Compiled, [Next]_vars
               PROVE  Compiled'
    OBVIOUS
  <2>1. CASE CompileView
    BY <2>1 DEF Compiled, Made, CompileView
  <2>2. CASE ReadPages
    <3>1. /\ given.call = "page" /\ given' = given
          /\ \E orders \in [1..Pages -> Orders(given.order_by, given.keys)] :
                 made' = [k \in 1..Pages |-> Page(orders[k], given.size, (k - 1) * given.size)]
      BY <2>2 DEF ReadPages
    <3>2. given' \in ViewCalls \cup PageCalls \cup Windows \cup Configs
      BY <3>1 DEF Compiled
    <3>3. /\ Made("page")' => \E orders \in [1..Pages -> Orders(given'.order_by, given'.keys)] :
              made' = [k \in 1..Pages |-> Page(orders[k], given'.size, (k - 1) * given'.size)]
          /\ ~Made("view")' /\ ~Made("windows")' /\ ~Made("configure")'
      BY <3>1 DEF Made
    <3> QED BY <3>2, <3>3 DEF Compiled
  <2>3. CASE FetchWindows
    BY <2>3 DEF Compiled, Made, FetchWindows
  <2>4. CASE Configure
    BY <2>4 DEF Compiled, Made, Configure
  <2>5. CASE UNCHANGED vars
    BY <2>5 DEF Compiled, Made, vars
  <2> QED BY <2>1, <2>2, <2>3, <2>4, <2>5 DEF Next
<1> QED BY <1>1, <1>2, PTL DEF Spec

\* The call tells the calls apart.
LEMMA CallTells ==
    ASSUME Compiled
    PROVE  /\ given.call = "view" => given \in ViewCalls
           /\ given.call = "page" => given \in PageCalls
           /\ given.call = "windows" => given \in Windows
           /\ given.call = "configure" => given \in Configs
BY DEF Compiled, ViewCalls, PageCalls, Windows, Configs
-------------------------------------------------------------------------------
\* Pages.  What SubSeq() leaves of a sequence after the first `offset` elements, and of
\* that the first m elements.
LEMMA RestOf ==
    ASSUME NEW rows \in Seq(Nat), NEW offset \in Nat, NEW L \in Nat,
           L = IF offset < Len(rows) THEN Len(rows) - offset ELSE 0
    PROVE  /\ SubSeq(rows, offset + 1, Len(rows)) \in Seq(Nat)
           /\ Len(SubSeq(rows, offset + 1, Len(rows))) = L
           /\ \A i \in 1..L : SubSeq(rows, offset + 1, Len(rows))[i] = rows[offset + i]
OBVIOUS

LEMMA FirstOf ==
    ASSUME NEW rest \in Seq(Nat), NEW m \in Nat, m <= Len(rest)
    PROVE  /\ DOMAIN SubSeq(rest, 1, m) = 1..m
           /\ \A i \in 1..m : SubSeq(rest, 1, m)[i] = rest[i]
OBVIOUS

\* What a page of at most `limit` rows is, after the first `offset`.
LEMMA PageOf ==
    ASSUME NEW rows \in Seq(Nat), NEW limit \in Nat, NEW offset \in Nat
    PROVE  /\ DOMAIN Page(rows, limit, offset) = {i \in 1..limit : offset + i <= Len(rows)}
           /\ \A i \in DOMAIN Page(rows, limit, offset) :
                  Page(rows, limit, offset)[i] = rows[offset + i]
<1>1. PICK N \in Nat : N = Len(rows)
    OBVIOUS
<1>2. PICK L \in Nat : L = IF offset < N THEN N - offset ELSE 0
  <2>1. (IF offset < N THEN N - offset ELSE 0) \in Nat
    OBVIOUS
  <2> QED BY <2>1, Zenon
<1>3. PICK rest \in Seq(Nat) :
          /\ rest = SubSeq(rows, offset + 1, Len(rows)) /\ Len(rest) = L
          /\ \A i \in 1..L : rest[i] = rows[offset + i]
  <2>1. L = IF offset < Len(rows) THEN Len(rows) - offset ELSE 0
    BY <1>1, <1>2, Zenon
  <2> QED BY <2>1, RestOf, Zenon
<1>4. PICK m \in Nat : m = IF limit < L THEN limit ELSE L
    OBVIOUS
<1>5. limit # Null /\ offset # Null
    BY TableAssumption
<1>6. Page(rows, limit, offset) = SubSeq(rest, 1, m)
    BY <1>3, <1>4, <1>5, Zenon DEF Page
<1>7. m <= L /\ \A i \in Int : i \in 1..m <=> i \in 1..limit /\ offset + i <= N
    BY <1>2, <1>4
<1>8. /\ DOMAIN SubSeq(rest, 1, m) = 1..m
      /\ \A i \in 1..m : SubSeq(rest, 1, m)[i] = rest[i]
    BY <1>3, <1>7, FirstOf
<1>9. \A i \in 1..m : i \in 1..L
    BY <1>7
<1>10. 1..m = {i \in 1..limit : offset + i <= N}
  <2>1. \A i : i \in 1..m => i \in Int
    BY <1>4
  <2>2. \A i : i \in 1..limit => i \in Int
    OBVIOUS
  <2> QED BY <1>7, <2>1, <2>2, Zenon
<1> QED BY <1>1, <1>3, <1>6, <1>8, <1>9, <1>10, Zenon

\* The product of two naturals is one.
LEMMA Product ==
    ASSUME NEW a \in Nat, NEW b \in Nat
    PROVE  a * b \in Nat
OBVIOUS

\* The product of a place and a size, for consecutive places.
LEMMA Multiples ==
    ASSUME NEW a \in Nat, NEW b \in Nat, NEW size \in Nat, a < b
    PROVE  a * size + size <= b * size
<1>1. a + 1 <= b
    OBVIOUS
<1>2. (a + 1) * size <= b * size
    BY <1>1
<1> QED BY <1>2

\* Quotient and remainder.
LEMMA Division ==
    ASSUME NEW n \in Nat \ {0}, NEW d \in Int
    PROVE  /\ d \div n \in Int
           /\ n * (d \div n) <= d /\ d < n * (d \div n) + n
OBVIOUS

LEMMA DivisionUnique ==
    ASSUME NEW n \in Nat \ {0}, NEW q \in Int, NEW p \in Int,
           n * q < n * p + n, n * p < n * q + n
    PROVE  p = q
<1>1. CASE p < q
  <2>1. n * (p + 1) <= n * q
    BY <1>1
  <2> QED BY <2>1
<1>2. CASE q < p
  <2>1. n * (q + 1) <= n * p
    BY <1>2
  <2> QED BY <2>1
<1> QED BY <1>1, <1>2

\* The rows from 1 to n, by their rank: those that sort before one with a rank, and those
\* that do not sort after it.
Ahead(n, rank, at) == {r \in 1..n : rank[r] < at}
NotAfter(n, rank, at) == {r \in 1..n : rank[r] <= at}

\* An order of the rows from 1 to n that goes by rank.
Sorted(n, rank, rows) ==
    /\ rows \in [1..n -> 1..n] /\ IsInjective(rows)
    /\ \A i, j \in 1..n : i < j => rank[rows[i]] <= rank[rows[j]]

\* These sets are finite.
LEMMA RanksAreFinite ==
    ASSUME NEW n \in Nat, NEW rank \in [1..n -> Int], NEW at \in Int
    PROVE  /\ IsFiniteSet(Ahead(n, rank, at)) /\ Cardinality(Ahead(n, rank, at)) \in Nat
           /\ IsFiniteSet(NotAfter(n, rank, at)) /\ Cardinality(NotAfter(n, rank, at)) \in Nat
<1>1. IsFiniteSet(1..n)
    BY FS_Interval
<1>2. Ahead(n, rank, at) \in SUBSET (1..n) /\ NotAfter(n, rank, at) \in SUBSET (1..n)
    BY DEF Ahead, NotAfter
<1>3. IsFiniteSet(Ahead(n, rank, at)) /\ IsFiniteSet(NotAfter(n, rank, at))
    BY <1>1, <1>2, FS_Subset
<1> QED BY <1>3, FS_CardinalityType

\* Every row has a place in an order.
LEMMA EveryRowPlaced ==
    ASSUME NEW n \in Nat, NEW rows \in [1..n -> 1..n], IsInjective(rows)
    PROVE  \A row \in 1..n : \E a \in 1..n : rows[a] = row
<1>1. rows \in Injection(1..n, 1..n)
    BY DEF Injection
<1>2. IsFiniteSet(1..n)
    BY FS_Interval
<1>3. rows \in Surjection(1..n, 1..n)
    BY <1>1, <1>2, FS_Injection
<1> QED BY <1>3 DEF Surjection

\* In any order a row has a place between the rows ahead of it and those not after it:
\* every row ahead of it has a place before its own, and every place up to its own has
\* a row not after it.
LEMMA PlaceByRank ==
    ASSUME NEW n \in Nat, NEW rank \in [1..n -> Int], NEW rows, Sorted(n, rank, rows),
           NEW a \in 1..n
    PROVE  /\ Cardinality(Ahead(n, rank, rank[rows[a]])) < a
           /\ a <= Cardinality(NotAfter(n, rank, rank[rows[a]]))
<1>1. rows \in [1..n -> 1..n]
    BY DEF Sorted
<1>2. PICK at \in Int : at = rank[rows[a]]
    BY <1>1
<1>3. /\ IsFiniteSet(1..(a - 1)) /\ IsFiniteSet(1..a)
      /\ Cardinality(1..(a - 1)) = a - 1 /\ Cardinality(1..a) = a
    BY FS_Interval
<1>4. PICK place \in [1..n -> 1..n] : \A r \in 1..n : rows[place[r]] = r
  <2> DEFINE p == [r \in 1..n |-> CHOOSE i \in 1..n : rows[i] = r]
  <2>1. \A r \in 1..n : \E i \in 1..n : rows[i] = r
    BY EveryRowPlaced DEF Sorted
  <2>2. p \in [1..n -> 1..n] /\ \A r \in 1..n : rows[p[r]] = r
    BY <2>1
  <2> HIDE DEF p
  <2> QED BY <2>2
<1>5. Cardinality(Ahead(n, rank, at)) <= a - 1
  <2> DEFINE g == [r \in Ahead(n, rank, at) |-> place[r]]
  <2>1. ASSUME NEW r \in Ahead(n, rank, at)
        PROVE  place[r] \in 1..(a - 1)
    <3>1. r \in 1..n /\ place[r] \in 1..n /\ rank[r] < at /\ rows[place[r]] = r
      BY <1>4 DEF Ahead
    <3>2. rank[r] \in Int
      BY <3>1
    <3>3. a < place[r] => at <= rank[r]
      BY <1>2, <3>1 DEF Sorted
    <3>4. a = place[r] => at = rank[r]
      BY <1>2, <3>1
    <3>5. ~(a < place[r]) /\ a # place[r]
      BY <3>1, <3>2, <3>3, <3>4
    <3> QED BY <3>1, <3>5
  <2>2. \A r, s \in Ahead(n, rank, at) : place[r] = place[s] => r = s
    BY <1>4 DEF Ahead
  <2>3. g \in Injection(Ahead(n, rank, at), 1..(a - 1))
    BY <2>1, <2>2, Fun_IsInj
  <2> QED BY <1>3, <2>3, FS_Injection
<1>6. a <= Cardinality(NotAfter(n, rank, at))
  <2> DEFINE g == [i \in 1..a |-> rows[i]]
  <2>1. ASSUME NEW i \in 1..a
        PROVE  rows[i] \in NotAfter(n, rank, at)
    <3>1. i \in 1..n /\ rows[i] \in 1..n
      BY <1>1
    <3>2. CASE i < a
      <4>1. rank[rows[i]] <= at
        BY <1>2, <3>1, <3>2 DEF Sorted
      <4> QED BY <3>1, <4>1 DEF NotAfter
    <3>3. CASE i = a
      <4>1. rank[rows[i]] <= at
        BY <1>2, <3>3
      <4> QED BY <3>1, <4>1 DEF NotAfter
    <3> QED BY <3>2, <3>3
  <2>2. \A i, j \in 1..a : rows[i] = rows[j] => i = j
    <3>1. DOMAIN rows = 1..n /\ \A i \in 1..a : i \in 1..n
      BY <1>1
    <3> QED BY <3>1, Zenon DEF Sorted, IsInjective
  <2>3. g \in Injection(1..a, NotAfter(n, rank, at))
    BY <2>1, <2>2, Fun_IsInj
  <2>4. Cardinality(1..a) <= Cardinality(NotAfter(n, rank, at))
    BY <2>3, RanksAreFinite, FS_Injection
  <2> QED BY <1>3, <2>4
<1>7. Cardinality(Ahead(n, rank, at)) \in Nat
    BY RanksAreFinite
<1>8. Cardinality(Ahead(n, rank, at)) < a
    BY <1>5, <1>7
<1> QED BY <1>2, <1>6, <1>8, Zenon

\* Two orders by one rank go up together, whatever each does with rows that sort alike.
LEMMA OrdersAgree ==
    ASSUME NEW n \in Nat, NEW rank \in [1..n -> Int],
           NEW rows, Sorted(n, rank, rows), NEW other, Sorted(n, rank, other),
           NEW a \in 1..n, NEW b \in 1..n, a < b
    PROVE  rank[rows[a]] <= rank[other[b]]
<1>1. PICK x \in Int, y \in Int : x = rank[rows[a]] /\ y = rank[other[b]]
    BY DEF Sorted
<1>2. Cardinality(Ahead(n, rank, x)) < a /\ b <= Cardinality(NotAfter(n, rank, y))
    BY <1>1, PlaceByRank
<1>3. CASE y < x
  <2>1. NotAfter(n, rank, y) \in SUBSET Ahead(n, rank, x)
    BY <1>3 DEF Ahead, NotAfter
  <2>2. Cardinality(NotAfter(n, rank, y)) <= Cardinality(Ahead(n, rank, x))
    BY <2>1, RanksAreFinite, FS_Subset
  <2>3. Cardinality(NotAfter(n, rank, y)) \in Nat /\ Cardinality(Ahead(n, rank, x)) \in Nat
    BY RanksAreFinite
  <2> QED BY <1>2, <2>2, <2>3
<1> QED BY <1>1, <1>3

\* Successive pages follow the order asked for, repeat no row within a page, and part
\* rows only where ORDER BY does not tell them apart, for views of any length, pages of
\* any size and any number of pages (compile_view()).
THEOREM PagesTileAlways == Spec => []PagesTile
<1>1. Compiled => PagesTile
  <2> SUFFICES ASSUME Compiled, Made("page")
               PROVE  PagesTile
    BY DEF PagesTile
  <2>1. PICK n \in Nat : given.keys \in [1..n -> Int]
    <3>1. /\ given.keys \in UNION {[1..n -> Keys] : n \in Lengths}
          /\ given.order_by \in {"none", "asc", "desc"}
      BY CallTells DEF PageCalls, Made
    <3>2. PICK n \in Nat : given.keys \in [1..n -> Keys]
      BY <3>1, PagesAssumption
    <3>3. given.keys \in [1..n -> Int]
      BY <3>2, PagesAssumption
    <3> QED BY <3>3
  <2>2. DOMAIN given.keys = 1..n
    BY <2>1
  <2>3. PICK size \in Nat : size = given.size
    BY PagesAssumption, CallTells DEF PageCalls, Made
  <2>4. PICK rank \in [1..n -> Int] : \A r \in 1..n : rank[r] = SortedBy(r)
    <3>1. ASSUME NEW r \in 1..n
          PROVE  SortedBy(r) \in Int
      <4>1. PICK key \in Int : key = given.keys[r]
        BY <2>1
      <4>2. SortKey(given.order_by, key) \in Int
        BY DEF SortKey
      <4> QED BY <4>1, <4>2 DEF SortedBy
    <3> DEFINE f == [r \in 1..n |-> SortedBy(r)]
    <3>2. f \in [1..n -> Int] /\ \A r \in 1..n : f[r] = SortedBy(r)
      BY <3>1
    <3> HIDE DEF f
    <3> QED BY <3>2
  <2>5. \A r \in 1..n : /\ AheadOf(r) = Cardinality(Ahead(n, rank, rank[r]))
                        /\ UpTo(r) = Cardinality(NotAfter(n, rank, rank[r]))
    <3>1. ASSUME NEW r \in 1..n
          PROVE  /\ {s \in DOMAIN given.keys : SortedBy(s) < SortedBy(r)} = Ahead(n, rank, rank[r])
                 /\ {s \in DOMAIN given.keys : SortedBy(s) <= SortedBy(r)} = NotAfter(n, rank, rank[r])
      BY <2>2, <2>4 DEF Ahead, NotAfter
    <3> QED BY <3>1 DEF AheadOf, UpTo
  <2>6. PICK orders :
            /\ made = [k \in 1..Pages |-> Page(orders[k], size, (k - 1) * size)]
            /\ \A k \in 1..Pages : Sorted(n, rank, orders[k])
    <3>1. PICK orders \in [1..Pages -> Orders(given.order_by, given.keys)] :
              made = [k \in 1..Pages |-> Page(orders[k], size, (k - 1) * size)]
      BY <2>3 DEF Compiled
    <3>2. ASSUME NEW k \in 1..Pages
          PROVE  Sorted(n, rank, orders[k])
      <4>1. /\ orders[k] \in [1..n -> 1..n] /\ IsInjective(orders[k])
            /\ \A i, j \in 1..n : i < j => SortKey(given.order_by, given.keys[orders[k][i]])
                                           <= SortKey(given.order_by, given.keys[orders[k][j]])
        BY <2>2, <3>1 DEF Orders
      <4>2. \A i \in 1..n : SortKey(given.order_by, given.keys[orders[k][i]]) = rank[orders[k][i]]
        BY <2>4, <4>1 DEF SortedBy
      <4> QED BY <4>1, <4>2 DEF Sorted
    <3> QED BY <3>1, <3>2
  <2>7. PICK cut : \A k \in 1..Pages : cut[k] \in Nat /\ cut[k] = (k - 1) * size
    <3>1. \A k \in 1..Pages : (k - 1) * size \in Nat
      <4>1. \A k \in 1..Pages : k - 1 \in Nat
        BY PagesAssumption
      <4> QED BY <4>1, Product, Zenon
    <3>2. WITNESS [k \in 1..Pages |-> (k - 1) * size]
    <3> QED BY <3>1
  <2>8. ASSUME NEW k \in 1..Pages
        PROVE  /\ DOMAIN made[k] = {i \in 1..size : cut[k] + i <= n}
               /\ \A i \in DOMAIN made[k] :
                      cut[k] + i \in 1..n /\ made[k][i] = orders[k][cut[k] + i]
    <3>1. PICK rows \in Seq(Nat) : rows = orders[k] /\ Len(rows) = n
      <4>1. PICK rows \in [1..n -> 1..n] : rows = orders[k]
        BY <2>6 DEF Sorted
      <4>2. rows \in Seq(Nat) /\ Len(rows) = n
        OBVIOUS
      <4> QED BY <4>1, <4>2
    <3>2. PICK offset \in Nat : offset = cut[k]
      BY <2>7
    <3>3. made[k] = Page(rows, size, offset)
      BY <2>6, <2>7, <3>1, <3>2
    <3>4. /\ DOMAIN Page(rows, size, offset) = {i \in 1..size : offset + i <= Len(rows)}
          /\ \A i \in DOMAIN Page(rows, size, offset) :
                 Page(rows, size, offset)[i] = rows[offset + i]
      BY PageOf
    <3>5. \A i \in 1..size : offset + i <= n => offset + i \in 1..n
      OBVIOUS
    <3> QED BY <3>1, <3>2, <3>3, <3>4, <3>5
  <2>9. \A k \in 1..Pages : k * size = cut[k] + size
    BY <2>7, PagesAssumption
  <2>10. ASSUME NEW k \in 1..Pages, NEW l \in 1..Pages,
                NEW i \in DOMAIN made[k], NEW j \in DOMAIN made[l],
                k < l \/ (k = l /\ i < j)
         PROVE  SortedBy(made[k][i]) <= SortedBy(made[l][j])
    <3>1. PICK a \in 1..n : a = cut[k] + i /\ made[k][i] = orders[k][a]
      BY <2>8
    <3>2. PICK b \in 1..n : b = cut[l] + j /\ made[l][j] = orders[l][b]
      BY <2>8
    <3>3. i \in 1..size /\ j \in 1..size /\ cut[k] \in Nat /\ cut[l] \in Nat
      BY <2>7, <2>8
    <3>4. k < l => cut[k] + size <= cut[l]
      <4>1. k - 1 \in Nat /\ l - 1 \in Nat /\ (k < l => k - 1 < l - 1)
        BY PagesAssumption
      <4> QED BY <2>7, <4>1, Multiples, Zenon
    <3>5. a < b
      <4>1. PICK p \in Nat, q \in Nat : p = cut[k] /\ q = cut[l]
        BY <3>3, Zenon
      <4>2. a = p + i /\ b = q + j
        BY <3>1, <3>2, <4>1, Zenon
      <4>3. CASE k < l
        <5>1. p + size <= q
          BY <3>4, <4>1, <4>3, Zenon
        <5> QED BY <3>3, <4>2, <5>1
      <4>4. CASE k = l /\ i < j
        <5>1. p = q
          BY <4>1, <4>4, Zenon
        <5> QED BY <3>3, <4>2, <4>4, <5>1
      <4> QED BY <2>10, <4>3, <4>4, Zenon
    <3>6. rank[orders[k][a]] <= rank[orders[l][b]]
      BY <2>6, <3>5, OrdersAgree
    <3>7. made[k][i] \in 1..n /\ made[l][j] \in 1..n
      BY <2>6, <3>1, <3>2 DEF Sorted
    <3> QED BY <2>4, <3>1, <3>2, <3>6, <3>7
  <2>11. ASSUME NEW k \in 1..Pages
         PROVE  IsInjective(made[k])
    <3>1. ASSUME NEW i \in DOMAIN made[k], NEW j \in DOMAIN made[k], made[k][i] = made[k][j]
          PROVE  i = j
      <4>1. PICK a \in 1..n : a = cut[k] + i /\ made[k][i] = orders[k][a]
        BY <2>8
      <4>2. PICK b \in 1..n : b = cut[k] + j /\ made[k][j] = orders[k][b]
        BY <2>8
      <4>3. a = b
        BY <2>6, <3>1, <4>1, <4>2 DEF Sorted, IsInjective
      <4> QED BY <2>7, <2>8, <4>1, <4>2, <4>3
    <3> QED BY <3>1 DEF IsInjective
  <2>12. ASSUME NEW k \in 1..Pages, NEW row \in DOMAIN given.keys
         PROVE  /\ row \in Range(made[k]) =>
                        AheadOf(row) < k * given.size /\ (k - 1) * given.size < UpTo(row)
                /\ (k - 1) * given.size <= AheadOf(row) /\ UpTo(row) <= k * given.size =>
                        row \in Range(made[k])
    <3>1. PICK c \in Nat : c = cut[k] /\ c = (k - 1) * given.size /\ c + size = k * given.size
      BY <2>3, <2>7, <2>9
    <3>2. row \in 1..n
      BY <2>2
    <3>3. PICK ahead \in Nat, upto \in Nat : ahead = AheadOf(row) /\ upto = UpTo(row)
      BY <2>4, <2>5, <3>2, RanksAreFinite
    <3>4. ASSUME NEW a \in 1..n, orders[k][a] = row
          PROVE  ahead < a /\ a <= upto
      BY <2>5, <2>6, <3>2, <3>3, <3>4, PlaceByRank
    <3>5. ASSUME row \in Range(made[k])
          PROVE  ahead < c + size /\ c < upto
      <4>1. PICK i \in DOMAIN made[k] : row = made[k][i]
        BY <3>5 DEF Range
      <4>2. i \in 1..size /\ c + i \in 1..n /\ orders[k][c + i] = row
        BY <2>8, <3>1, <4>1
      <4>3. ahead < c + i /\ c + i <= upto
        BY <3>4, <4>2
      <4> QED BY <4>2, <4>3
    <3>6. ASSUME c <= ahead, upto <= c + size
          PROVE  row \in Range(made[k])
      <4>1. PICK a \in 1..n : orders[k][a] = row
        <5>1. PICK rows \in [1..n -> 1..n] : rows = orders[k] /\ IsInjective(rows)
          BY <2>6 DEF Sorted
        <5>2. \A r \in 1..n : \E a \in 1..n : rows[a] = r
          BY <5>1, EveryRowPlaced
        <5> QED BY <3>2, <5>1, <5>2
      <4>2. c < a /\ a <= c + size
        BY <3>4, <3>6, <4>1
      <4>3. PICK i \in 1..size : a = c + i
        BY <4>2
      <4>4. i \in DOMAIN made[k]
        <5>1. c + i <= n
          BY <4>1, <4>3
        <5> QED BY <2>8, <3>1, <5>1
      <4>5. made[k][i] = row
        BY <2>8, <3>1, <4>1, <4>3, <4>4
      <4> QED BY <4>4, <4>5 DEF Range
    <3> QED BY <3>1, <3>3, <3>5, <3>6
  <2> QED BY <2>10, <2>11, <2>12 DEF PagesTile
<1> QED BY <1>1, CompiledAlways, PTL
-------------------------------------------------------------------------------
\* Windows.  The bucket of an event: the multiple of the width from the origin on that
\* is next below it.
LEMMA Bin ==
    ASSUME NEW every \in Nat \ {0}, NEW t \in Int, NEW origin \in Int
    PROVE  /\ DateBin(every, t, origin) \in Int
           /\ DateBin(every, t, origin) <= t /\ t < DateBin(every, t, origin) + every
           /\ origin <= t => origin <= DateBin(every, t, origin)
<1>1. PICK q \in Int : /\ q = (t - origin) \div every
                      /\ every * q <= t - origin /\ t - origin < every * q + every
    BY Division
<1>2. DateBin(every, t, origin) = origin + every * q
    BY <1>1 DEF DateBin
<1>3. every * q \in Int
    OBVIOUS
<1>4. ASSUME origin <= t
      PROVE  0 <= every * q
  <2>1. CASE q < 0
    <3>1. every * (q + 1) <= 0
      BY <2>1
    <3> QED BY <1>1, <1>4, <3>1
  <2>2. CASE 0 <= q
    BY <2>2
  <2> QED BY <2>1, <2>2
<1> QED BY <1>1, <1>2, <1>3, <1>4

\* Origins that differ by whole buckets give the same buckets.
LEMMA SameBin ==
    ASSUME NEW every \in Nat \ {0}, NEW t \in Int, NEW a \in Int, NEW b \in Int,
           (b - a) % every = 0
    PROVE  DateBin(every, t, a) = DateBin(every, t, b)
<1>1. PICK m \in Int : b - a = every * m
  <2>1. b - a = every * ((b - a) \div every)
    OBVIOUS
  <2> QED BY <2>1
<1>2. PICK p \in Int : /\ p = (t - a) \div every
                      /\ every * p <= t - a /\ t - a < every * p + every
    BY Division
<1>3. PICK q \in Int : /\ q = (t - b) \div every
                      /\ every * q <= t - b /\ t - b < every * q + every
    BY Division
<1>4. every * (q + m) = every * q + every * m
    OBVIOUS
<1>5. p = q + m
  <2>1. every * p < every * (q + m) + every /\ every * (q + m) < every * p + every
    BY <1>1, <1>2, <1>3, <1>4
  <2> QED BY <2>1, DivisionUnique
<1> QED BY <1>1, <1>2, <1>3, <1>4, <1>5 DEF DateBin

\* What one window gives: the events in it, each in its bucket.
LEMMA BucketsOf ==
    ASSUME NEW events \in SUBSET Int, NEW start \in Int, NEW end \in Int,
           NEW every \in Nat \ {0}, NEW w, w = Buckets(events, start, end, every)
    PROVE  /\ UNION Range(w) = {e \in events : start <= e /\ e < end}
           /\ \A b \in DOMAIN w : w[b] # {} /\ w[b] \subseteq b .. (b + every - 1)
<1> DEFINE rows == {e \in events : start <= e /\ e < end}
<1>1. /\ DOMAIN w = {DateBin(every, e, start) : e \in rows}
      /\ \A b \in DOMAIN w : w[b] = {e \in rows : DateBin(every, e, start) = b}
    BY DEF Buckets, Selected
<1>2. \A e \in rows : DateBin(every, e, start) \in DOMAIN w /\ e \in w[DateBin(every, e, start)]
    BY <1>1
<1>3. \A b \in DOMAIN w : w[b] # {} /\ w[b] \subseteq rows
    BY <1>1
<1>4. UNION Range(w) = rows
    BY <1>2, <1>3 DEF Range
<1>5. ASSUME NEW b \in DOMAIN w, NEW e \in w[b]
      PROVE  e \in b .. (b + every - 1)
  <2>1. e \in Int /\ b = DateBin(every, e, start)
    BY <1>1
  <2> QED BY <2>1, Bin
<1> QED BY <1>3, <1>4, <1>5

\* The buckets of a window are those of two others.
Merged(whole, first, second) ==
    /\ DOMAIN whole = DOMAIN first \cup DOMAIN second
    /\ \A x \in DOMAIN first : whole[x] = first[x]
    /\ \A x \in DOMAIN second : whole[x] = second[x]

\* The buckets of two windows that meet at the edge of a bucket are those of the window
\* over both.
LEMMA BucketsMerge ==
    ASSUME NEW events \in SUBSET Int, NEW a \in Int, NEW b \in Int, NEW c \in Int,
           NEW every \in Nat \ {0}, a <= b, b <= c, (b - a) % every = 0,
           NEW first, first = Buckets(events, a, b, every),
           NEW second, second = Buckets(events, b, c, every),
           NEW whole, whole = Buckets(events, a, c, every)
    PROVE  Merged(whole, first, second)
<1> DEFINE bin(e) == DateBin(every, e, a)
           early == {e \in events : a <= e /\ e < b}
           late == {e \in events : b <= e /\ e < c}
           all == {e \in events : a <= e /\ e < c}
           First == [x \in {bin(e) : e \in early} |-> {e \in early : bin(e) = x}]
           Second == [x \in {bin(e) : e \in late} |-> {e \in late : bin(e) = x}]
           Whole == [x \in {bin(e) : e \in all} |-> {e \in all : bin(e) = x}]
<1>1. Buckets(events, a, b, every) = First /\ Buckets(events, a, c, every) = Whole
    BY DEF Buckets, Selected
<1>2. \A e \in events : DateBin(every, e, b) = bin(e)
    BY SameBin
<1>3. Buckets(events, b, c, every) = Second
  <2>1. Buckets(events, b, c, every)
            = [x \in {DateBin(every, e, b) : e \in late} |->
                  {e \in late : DateBin(every, e, b) = x}]
    BY DEF Buckets, Selected
  <2>2. \A e \in late : DateBin(every, e, b) = bin(e)
    BY <1>2
  <2>3. {DateBin(every, e, b) : e \in late} = {bin(e) : e \in late}
    BY <2>2
  <2>4. \A x : {e \in late : DateBin(every, e, b) = x} = {e \in late : bin(e) = x}
    BY <2>2
  <2> QED BY <2>1, <2>3, <2>4
<1>4. all = early \cup late
  <2>1. \A e \in events : (a <= e /\ e < c) <=> (a <= e /\ e < b) \/ (b <= e /\ e < c)
    OBVIOUS
  <2> QED BY <2>1, Zenon
<1>5. \A e \in early : bin(e) < b
  <2> SUFFICES ASSUME NEW e \in Int, a <= e, e < b
               PROVE  bin(e) < b
    OBVIOUS
  <2>1. bin(e) \in Int /\ bin(e) <= e
    BY Bin
  <2> QED BY <2>1
<1>6. \A e \in late : b <= bin(e)
    BY <1>2, Bin
<1>7. \A e \in events : bin(e) \in Int
    BY Bin
<1>8. /\ DOMAIN Whole = DOMAIN First \cup DOMAIN Second
      /\ \A x \in DOMAIN First : Whole[x] = First[x]
      /\ \A x \in DOMAIN Second : Whole[x] = Second[x]
  <2> HIDE DEF bin
  <2>1. DOMAIN First \cup DOMAIN Second = DOMAIN Whole
    BY <1>4
  <2>2. ASSUME NEW x \in DOMAIN First
        PROVE  First[x] = Whole[x]
    <3>1. x \in DOMAIN Whole /\ x < b /\ x \in Int
      BY <1>5, <1>7, <2>1
    <3>2. \A e \in late : bin(e) # x
      BY <1>6, <1>7, <3>1
    <3> QED BY <1>4, <3>1, <3>2
  <2>3. ASSUME NEW x \in DOMAIN Second
        PROVE  Second[x] = Whole[x]
    <3>1. x \in DOMAIN Whole /\ b <= x /\ x \in Int
      BY <1>6, <1>7, <2>1
    <3>2. \A e \in early : bin(e) # x
      BY <1>5, <1>7, <3>1
    <3> QED BY <1>4, <3>1, <3>2
  <2> QED BY <2>1, <2>2, <2>3
<1> QED BY <1>1, <1>3, <1>8 DEF Merged

\* Windows that follow each other count every event once, and merge if they meet at the
\* edge of a bucket, for any events, windows and widths (compile_interval()).
THEOREM WindowsTileAlways == Spec => []WindowsTile
<1>1. Compiled => WindowsTile
  <2> SUFFICES ASSUME Compiled, Made("windows")
               PROVE  WindowsTile
    BY DEF WindowsTile
  <2>1. given \in Windows
    BY CallTells DEF Made
  <2>2. PICK events \in SUBSET Int, a \in Int, b \in Int, c \in Int, every \in Nat \ {0} :
            /\ events = given.events /\ every = given.every
            /\ a = given.cuts[1] /\ b = given.cuts[2] /\ c = given.cuts[3]
            /\ a <= b /\ b <= c
    <3>1. /\ given.events \in SUBSET Times /\ given.cuts \in [1..3 -> Times]
          /\ given.every \in Widths
          /\ given.cuts[1] <= given.cuts[2] /\ given.cuts[2] <= given.cuts[3]
      BY <2>1 DEF Windows
    <3>2. given.cuts[1] \in Int /\ given.cuts[2] \in Int /\ given.cuts[3] \in Int
      <4>1. given.cuts[1] \in Times /\ given.cuts[2] \in Times /\ given.cuts[3] \in Times
        BY <3>1
      <4> QED BY <4>1, WindowsAssumption, Zenon
    <3>3. given.events \in SUBSET Int /\ given.every \in Nat \ {0}
      BY <3>1, WindowsAssumption, Zenon
    <3> QED BY <3>1, <3>2, <3>3
  <2>3. PICK first, second, whole :
            /\ first = made.first /\ second = made.second /\ whole = made.whole
            /\ first = Buckets(events, a, b, every)
            /\ second = Buckets(events, b, c, every)
            /\ whole = Buckets(events, a, c, every)
    BY <2>2 DEF Compiled, Part
  <2>4. /\ UNION Range(first) = {e \in events : a <= e /\ e < b}
        /\ \A x \in DOMAIN first : first[x] # {} /\ first[x] \subseteq x .. (x + every - 1)
    BY <2>3, BucketsOf
  <2>5. /\ UNION Range(second) = {e \in events : b <= e /\ e < c}
        /\ \A x \in DOMAIN second : second[x] # {} /\ second[x] \subseteq x .. (x + every - 1)
    BY <2>3, BucketsOf
  <2>6. (UNION Range(first)) \cap (UNION Range(second)) = {}
    <3>1. \A e \in events : ~((a <= e /\ e < b) /\ (b <= e /\ e < c))
      OBVIOUS
    <3> QED BY <2>4, <2>5, <3>1, Zenon
  <2>7. (UNION Range(first)) \cup (UNION Range(second)) = {e \in events : a <= e /\ e < c}
    BY <2>2, <2>4, <2>5
  <2>8. ASSUME (b - a) % every = 0
        PROVE  Merged(whole, first, second)
    <3>1. a <= b /\ b <= c
      BY <2>2
    <3> QED BY <2>3, <2>8, <3>1, BucketsMerge
  <2> QED BY <2>2, <2>3, <2>4, <2>5, <2>6, <2>7, <2>8 DEF WindowsTile, Merged
<1> QED BY <1>1, CompiledAlways, PTL
-------------------------------------------------------------------------------
\* Configurations.  What register() builds where no two data sources share a name: a pool
\* for each that makes sense, and a failure of the pool's otherwise.
LEMMA RegisteredOf ==
    ASSUME NEW n \in Nat, NEW ds \in [1..n -> DataSources(Names, PoolSizes)],
           \A i, j \in 1..n : ds[i].name = ds[j].name => i = j
    PROVE  \/ /\ Registered(ds).error = "none"
              /\ \A i \in 1..n : PoolBuilt(ds[i]) /\ Registered(ds).pools[ds[i].name] = ds[i]
           \/ /\ Registered(ds).error = "ValueError"
              /\ \E i \in 1..n : ~PoolBuilt(ds[i])
<1> DEFINE pools == [m \in {ds[i].name : i \in DOMAIN ds} |->
                        CHOOSE d \in {ds[i] : i \in DOMAIN ds} : d.name = m]
<1>1. DOMAIN ds = 1..n
    OBVIOUS
<1>2. ~ \E i, j \in DOMAIN ds : i < j /\ ds[i].name = ds[j].name
    BY <1>1
<1>3. CASE \E i \in DOMAIN ds : ~PoolBuilt(ds[i])
  <2>1. Registered(ds) = [error |-> "ValueError"]
    BY <1>2, <1>3 DEF Registered
  <2> QED BY <1>1, <1>3, <2>1
<1>4. CASE \A i \in DOMAIN ds : PoolBuilt(ds[i])
  <2>1. Registered(ds) = [error |-> "none", pools |-> pools]
    BY <1>2, <1>4 DEF Registered
  <2>2. Registered(ds).error = "none" /\ Registered(ds).pools = pools
    BY <2>1
  <2>3. ASSUME NEW i \in 1..n
        PROVE  pools[ds[i].name] = ds[i]
    <3>1. pools[ds[i].name] = CHOOSE d \in {ds[k] : k \in DOMAIN ds} : d.name = ds[i].name
      BY <1>1
    <3>2. \A d \in {ds[k] : k \in DOMAIN ds} : d.name = ds[i].name => d = ds[i]
      BY <1>1
    <3>3. ds[i] \in {ds[k] : k \in DOMAIN ds}
      BY <1>1
    <3> QED BY <3>1, <3>2, <3>3
  <2> QED BY <1>1, <1>4, <2>2, <2>3
<1> QED BY <1>3, <1>4

\* What load_settings() accepts and the pool refuses is a min_size above the default max_size.
LEMMA OnlyTheDefault ==
    ASSUME NEW d \in DataSources(Names, PoolSizes), SizesAccepted(d)
    PROVE  /\ PoolBuilt(d) => d.min_size <= MaxSize(d)
           /\ ~PoolBuilt(d) => d.max_size = Absent /\ d.min_size > DefaultMax
<1>1. d.min_size \in Int /\ (d.max_size = Absent \/ d.max_size \in Int)
    BY PoolsAssumption DEF DataSources
<1>2. CASE d.max_size = Absent
    BY <1>1, <1>2, PoolsAssumption DEF PoolBuilt, MaxSize
<1>3. CASE d.max_size # Absent
    BY <1>1, <1>3 DEF PoolBuilt, MaxSize, SizesAccepted
<1> QED BY <1>2, <1>3

\* A configuration that load_settings() accepts is built, each name with its own pool,
\* whatever the data sources; the exception is the default (config/settings.py).
THEOREM AcceptedIsBuiltAlways == Spec => []AcceptedIsBuilt
<1>1. Compiled => AcceptedIsBuilt
  <2> SUFFICES ASSUME Compiled, Made("configure"), made.error # "refused"
               PROVE  AcceptedIsBuilt
    BY DEF AcceptedIsBuilt
  <2>1. PICK n \in Nat : given.sources \in [1..n -> DataSources(Names, PoolSizes)]
    <3>1. given \in Configs
      BY CallTells DEF Made
    <3>2. given.sources \in UNION {[1..n -> DataSources(Names, PoolSizes)] : n \in 0..MaxParts}
      BY <3>1 DEF Configs
    <3>3. 0..MaxParts \subseteq Nat
      BY TableAssumption
    <3> QED BY <3>2, <3>3
  <2>2. PICK ds \in [1..n -> DataSources(Names, PoolSizes)] :
            given.sources = ds /\ Accepted(ds) /\ made = Registered(ds)
    BY <2>1 DEF Compiled
  <2>3. /\ DOMAIN ds = 1..n
        /\ \A i \in 1..n : ds[i] \in DataSources(Names, PoolSizes) /\ SizesAccepted(ds[i])
        /\ \A i, j \in 1..n : ds[i].name = ds[j].name => i = j
    BY <2>2 DEF Accepted
  <2>4. \/ /\ made.error = "none"
           /\ \A i \in 1..n : PoolBuilt(ds[i]) /\ made.pools[ds[i].name] = ds[i]
        \/ /\ made.error = "ValueError"
           /\ \E i \in 1..n : ~PoolBuilt(ds[i])
    BY <2>2, <2>3, RegisteredOf
  <2>5. \A i \in 1..n : /\ PoolBuilt(ds[i]) => ds[i].min_size <= MaxSize(ds[i])
                        /\ ~PoolBuilt(ds[i]) => ds[i].max_size = Absent /\ ds[i].min_size > DefaultMax
    BY <2>3, OnlyTheDefault
  <2> QED BY <2>2, <2>3, <2>4, <2>5 DEF AcceptedIsBuilt
<1> QED BY <1>1, CompiledAlways, PTL
-------------------------------------------------------------------------------
\* Filters.  A filter of a call, and how many parts its value has.
LEMMA FilterOf ==
    ASSUME NEW f \in Filters(Columns, Cells, MaxParts)
    PROVE  /\ f.column \in Columns /\ f.op \in FilterOps
           /\ \E m \in Nat : f.value \in [1..m -> Cells] /\ (f.op \in Comparisons => m = 1)
<1>1. /\ f.column \in Columns /\ f.op \in FilterOps
      /\ f.value \in UNION {[1..m -> Cells] : m \in 0..MaxParts}
      /\ f.op \in Comparisons => Len(f.value) = 1
    BY DEF Filters
<1>2. PICK m \in Nat : f.value \in [1..m -> Cells]
  <2>1. 0..MaxParts \subseteq Nat
    BY TableAssumption
  <2> QED BY <1>1, <2>1
<1>3. Len(f.value) = m
    BY <1>2
<1> QED BY <1>1, <1>2, <1>3

\* A filter's placeholders carry its number and tell the parts of its value apart, and
\* there is one for each part, unless the operator takes none.
LEMMA HolesOf ==
    ASSUME NEW f \in Filters(Columns, Cells, MaxParts), NEW i \in Int, WellFormed(f)
    PROVE  /\ DOMAIN Placeholders(f, i)
                  = IF f.op \in {"is_null", "is_not_null"} THEN {} ELSE DOMAIN f.value
           /\ \A j \in DOMAIN Placeholders(f, i) : Placeholders(f, i)[j][1] = i
           /\ \A j, k \in DOMAIN Placeholders(f, i) :
                  Placeholders(f, i)[j] = Placeholders(f, i)[k] => j = k
<1>1. PICK m \in Nat : f.value \in [1..m -> Cells] /\ (f.op \in Comparisons => m = 1)
    BY FilterOf
<1>2. DOMAIN f.value = 1..m /\ Len(f.value) = m
    BY <1>1
<1>3. CASE f.op \in {"in", "not_in"}
  <2>1. Placeholders(f, i) = [j \in DOMAIN f.value |-> <<i, "item", j>>]
    BY <1>3 DEF Placeholders
  <2> QED BY <1>3, <2>1
<1>4. CASE f.op = "between"
  <2>1. Placeholders(f, i) = <<<<i, "lo", 0>>, <<i, "hi", 0>>>>
    BY <1>4 DEF Placeholders
  <2>2. m = 2
    BY <1>2, <1>4 DEF WellFormed
  <2> QED BY <1>2, <1>4, <2>1, <2>2
<1>5. CASE f.op \in {"is_null", "is_not_null"}
  <2>1. Placeholders(f, i) = <<>>
    BY <1>5 DEF Placeholders
  <2> QED BY <1>5, <2>1
<1>6. CASE f.op \in Comparisons
  <2>1. Placeholders(f, i) = <<<<i, "value", 0>>>>
    BY <1>6 DEF Placeholders, Comparisons
  <2>2. m = 1
    BY <1>1, <1>6
  <2> QED BY <1>2, <1>6, <2>1, <2>2 DEF Comparisons
<1> QED BY <1>3, <1>4, <1>5, <1>6, FilterOf DEF FilterOps

\* No other filter binds a filter's placeholders: each is bound to its own part of the
\* filter's value.
LEMMA BoundToItsPart ==
    ASSUME NEW n \in Nat, NEW fs \in [1..n -> Filters(Columns, Cells, MaxParts)],
           \A k \in 1..n : WellFormed(fs[k]),
           NEW i \in 1..n, NEW j \in DOMAIN Placeholders(fs[i], i)
    PROVE  Bound(fs, Placeholders(fs[i], i)[j]) = fs[i].value[j]
<1>1. PICK name : name = Placeholders(fs[i], i)[j]
    OBVIOUS
<1>2. ASSUME NEW k \in 1..n
      PROVE  name \in Range(Placeholders(fs[k], k)) <=> k = i
  <2>1. \A l \in DOMAIN Placeholders(fs[k], k) : Placeholders(fs[k], k)[l][1] = k
    BY HolesOf
  <2>2. name[1] = i
    BY <1>1, HolesOf
  <2> QED BY <1>1, <2>1, <2>2 DEF Range
<1>3. DOMAIN fs = 1..n
    OBVIOUS
<1>4. LastWith(fs, name) = i
    BY <1>2, <1>3 DEF LastWith
<1>5. DOMAIN Placeholders(fs[i], i) = DOMAIN fs[i].value
    BY HolesOf
<1>6. (CHOOSE k \in DOMAIN fs[i].value : Placeholders(fs[i], i)[k] = name) = j
  <2>1. \A k \in DOMAIN fs[i].value : Placeholders(fs[i], i)[k] = name => k = j
    BY <1>1, <1>5, HolesOf
  <2> QED BY <1>1, <1>5, <2>1
<1> QED BY <1>1, <1>4, <1>6 DEF Bound

Truth == {"true", "false", "unknown"}

\* A comparison is true if it holds of two values, and never of NULL.
LEMMA CompareOf ==
    ASSUME NEW op \in Comparisons, NEW x \in Cells, NEW v \in Cells
    PROVE  /\ Compare(op, x, v) \in Truth
           /\ Compare(op, x, v) = "unknown" <=> x = Null \/ v = Null
           /\ Compare(op, x, v) = "true" <=>
                  /\ x # Null /\ v # Null
                  /\ \/ op = "eq" /\ x = v
                     \/ op = "ne" /\ x # v
                     \/ op = "lt" /\ x < v
                     \/ op = "le" /\ x <= v
                     \/ op = "gt" /\ x > v
                     \/ op = "ge" /\ x >= v
<1>2. CASE x = Null \/ v = Null
    BY <1>2 DEF Compare, Truth
<1>3. CASE x # Null /\ v # Null
  <2>1. x \in Int /\ v \in Int /\ Null \notin {x, v}
    BY <1>3, TableAssumption DEF Cells
  <2>2. CASE op = "eq"
    BY <1>3, <2>1, <2>2 DEF Compare, Truth
  <2>3. CASE op = "ne"
    BY <1>3, <2>1, <2>3 DEF Compare, Truth
  <2>4. CASE op = "lt"
    BY <1>3, <2>1, <2>4 DEF Compare, Truth
  <2>5. CASE op = "le"
    BY <1>3, <2>1, <2>5 DEF Compare, Truth
  <2>6. CASE op = "gt"
    BY <1>3, <2>1, <2>6 DEF Compare, Truth
  <2>7. CASE op = "ge"
    BY <1>3, <2>1, <2>7 DEF Compare, Truth
  <2> QED BY <2>2, <2>3, <2>4, <2>5, <2>6, <2>7 DEF Comparisons
<1> QED BY <1>2, <1>3

\* The clause compiled from a filter is true of the rows that the filter means, where its
\* holes are bound to the parts of the filter's value; of none, if it excludes None.
LEMMA EvaluateMeans ==
    ASSUME NEW f \in Filters(Columns, Cells, MaxParts), WellFormed(f), NEW i \in Int,
           NEW row \in Rows, NEW clause, NEW params,
           clause = [column |-> f.column, op |-> f.op, holes |-> Placeholders(f, i)],
           \A j \in DOMAIN Placeholders(f, i) : params[Placeholders(f, i)[j]] = f.value[j]
    PROVE  /\ Evaluate(clause, params, row) \in Truth
           /\ Evaluate(clause, params, row) = "true" <=> Means(f, row) /\ ~ExcludesNone(f)
<1>1. PICK m \in Nat : f.value \in [1..m -> Cells] /\ (f.op \in Comparisons => m = 1)
    BY FilterOf
<1>2. DOMAIN f.value = 1..m /\ Len(f.value) = m
    BY <1>1
<1>3. PICK x \in Cells : x = row[f.column]
    BY FilterOf DEF Rows
<1>4. clause.column = f.column /\ clause.op = f.op /\ clause.holes = Placeholders(f, i)
    OBVIOUS
<1>5. PICK v : v = [j \in DOMAIN clause.holes |-> params[clause.holes[j]]]
    OBVIOUS
<1>6. /\ DOMAIN v = IF f.op \in {"is_null", "is_not_null"} THEN {} ELSE 1..m
      /\ \A j \in DOMAIN v : v[j] = f.value[j] /\ v[j] \in Cells
  <2>1. DOMAIN v = IF f.op \in {"is_null", "is_not_null"} THEN {} ELSE DOMAIN f.value
    BY <1>4, <1>5, HolesOf
  <2>2. \A j \in DOMAIN v : v[j] = f.value[j] /\ j \in 1..m
    BY <1>2, <1>4, <1>5, <2>1
  <2> QED BY <1>1, <1>2, <2>1, <2>2
<1>7. PICK among : among = Or({Compare("eq", x, v[j]) : j \in DOMAIN v})
    OBVIOUS
<1>8. Evaluate(clause, params, row)
          = CASE f.op = "in"          -> among
              [] f.op = "not_in"      -> Not(among)
              [] f.op = "between"     -> And({Compare("ge", x, v[1]), Compare("le", x, v[2])})
              [] f.op = "is_null"     -> IF x = Null THEN "true" ELSE "false"
              [] f.op = "is_not_null" -> IF x = Null THEN "false" ELSE "true"
              [] OTHER                -> Compare(f.op, x, v[1])
    BY <1>3, <1>4, <1>5, <1>7, Zenon DEF Evaluate
<1>9. \A j \in DOMAIN v :
          /\ Compare("eq", x, v[j]) \in Truth
          /\ Compare("eq", x, v[j]) = "unknown" <=> x = Null \/ f.value[j] = Null
          /\ Compare("eq", x, v[j]) = "true" <=> x # Null /\ x = f.value[j]
  <2>1. "eq" \in Comparisons
    BY DEF Comparisons
  <2>2. \A j \in DOMAIN v : v[j] \in Cells /\ v[j] = f.value[j]
    BY <1>6
  <2>3. ASSUME NEW w \in Cells
        PROVE  /\ Compare("eq", x, w) \in Truth
               /\ Compare("eq", x, w) = "unknown" <=> x = Null \/ w = Null
               /\ Compare("eq", x, w) = "true" <=> x # Null /\ x = w
    BY <2>1, CompareOf
  <2> QED BY <2>2, <2>3
<1>10. ASSUME f.op \in {"in", "not_in"}
       PROVE  /\ among = "true" <=> x # Null /\ x \in Range(f.value)
              /\ among = "unknown" <=>
                     x = Null \/ (x \notin Range(f.value) /\ Null \in Range(f.value))
              /\ among \in Truth
  <2>1. DOMAIN v = 1..m /\ 1 \in 1..m
    <3>1. f.value # <<>>
      BY <1>10 DEF WellFormed
    <3>2. m # 0
      BY <1>1, <3>1
    <3> QED BY <1>6, <1>10, <3>2
  <2> DEFINE ts == {Compare("eq", x, v[j]) : j \in DOMAIN v}
  <2>2. "true" \in ts <=> x # Null /\ x \in Range(f.value)
    BY <1>2, <1>9, <2>1 DEF Range
  <2>3. "unknown" \in ts <=> x = Null \/ Null \in Range(f.value)
    BY <1>2, <1>9, <2>1 DEF Range
  <2>4. among = IF "true" \in ts THEN "true" ELSE IF "unknown" \in ts THEN "unknown" ELSE "false"
    BY <1>7 DEF Or
  <2> HIDE DEF ts
  <2> QED BY <2>2, <2>3, <2>4 DEF Truth
<1>11. CASE f.op = "in"
  <2>1. Evaluate(clause, params, row) = among
    BY <1>8, <1>11
  <2>2. Means(f, row) <=> x # Null /\ x \in Range(f.value)
    BY <1>3, <1>11 DEF Means
  <2>3. ~ExcludesNone(f)
    BY <1>11 DEF ExcludesNone
  <2> QED BY <1>10, <1>11, <2>1, <2>2, <2>3
<1>12. CASE f.op = "not_in"
  <2>1. Evaluate(clause, params, row) = Not(among)
    BY <1>8, <1>12
  <2>2. Means(f, row) <=> x # Null /\ x \notin Range(f.value)
    BY <1>3, <1>12 DEF Means
  <2>3. ExcludesNone(f) <=> Null \in Range(f.value)
    BY <1>12 DEF ExcludesNone
  <2> QED BY <1>10, <1>12, <2>1, <2>2, <2>3 DEF Not, Truth
<1>13. CASE f.op = "between"
  <2>1. Evaluate(clause, params, row) = And({Compare("ge", x, v[1]), Compare("le", x, v[2])})
    BY <1>8, <1>13
  <2>2. m = 2
    BY <1>2, <1>13 DEF WellFormed
  <2>3. PICK lo \in Cells, hi \in Cells :
            v[1] = lo /\ v[2] = hi /\ f.value[1] = lo /\ f.value[2] = hi
    BY <1>6, <1>13, <2>2
  <2>4. Range(f.value) = {lo, hi}
    BY <1>2, <2>2, <2>3 DEF Range
  <2>5. Means(f, row) <=> x # Null /\ lo # Null /\ hi # Null /\ x \in lo .. hi
    BY <1>3, <1>13, <2>3, <2>4 DEF Means
  <2>6. /\ Compare("ge", x, lo) \in Truth
        /\ Compare("ge", x, lo) = "true" <=> x # Null /\ lo # Null /\ x >= lo
    BY CompareOf DEF Comparisons
  <2>7. /\ Compare("le", x, hi) \in Truth
        /\ Compare("le", x, hi) = "true" <=> x # Null /\ hi # Null /\ x <= hi
    BY CompareOf DEF Comparisons
  <2>8. And({Compare("ge", x, lo), Compare("le", x, hi)}) = "true"
            <=> Compare("ge", x, lo) = "true" /\ Compare("le", x, hi) = "true"
    BY <2>6, <2>7 DEF And, Truth
  <2>9. /\ x # Null => x \in Int
        /\ lo # Null => lo \in Int
        /\ hi # Null => hi \in Int
    BY TableAssumption DEF Cells
  <2>10. And({Compare("ge", x, lo), Compare("le", x, hi)}) \in Truth
    BY DEF And, Truth
  <2>11. ~ExcludesNone(f)
    BY <1>13 DEF ExcludesNone
  <2>12. Means(f, row) <=> Compare("ge", x, lo) = "true" /\ Compare("le", x, hi) = "true"
    BY <2>5, <2>6, <2>7, <2>9
  <2> QED BY <2>1, <2>3, <2>8, <2>10, <2>11, <2>12
<1>14. CASE f.op = "is_null"
  <2>1. (Means(f, row) <=> x = Null) /\ ~ExcludesNone(f)
    BY <1>3, <1>14 DEF Means, ExcludesNone
  <2> QED BY <1>8, <1>14, <2>1 DEF Truth
<1>15. CASE f.op = "is_not_null"
  <2>1. (Means(f, row) <=> x # Null) /\ ~ExcludesNone(f)
    BY <1>3, <1>15 DEF Means, ExcludesNone
  <2> QED BY <1>8, <1>15, <2>1 DEF Truth
<1>16. CASE f.op \in Comparisons
  <2>1. PICK w \in Cells : v[1] = w /\ f.value[1] = w
    BY <1>1, <1>6, <1>16 DEF Comparisons
  <2>2. Evaluate(clause, params, row) = Compare(f.op, x, w)
    BY <1>8, <1>16, <2>1 DEF Comparisons
  <2>3. (w # Null => w \in Int) /\ (x # Null => x \in Int)
    BY TableAssumption DEF Cells
  <2>4. Range(f.value) = {w}
    BY <1>1, <1>2, <1>16, <2>1 DEF Range
  <2>5. Means(f, row) /\ ~ExcludesNone(f) <=>
            /\ x # Null /\ w # Null
            /\ \/ f.op = "eq" /\ x = w
               \/ f.op = "ne" /\ x # w
               \/ f.op = "lt" /\ x < w
               \/ f.op = "le" /\ x <= w
               \/ f.op = "gt" /\ x > w
               \/ f.op = "ge" /\ x >= w
    <3>1. CASE f.op = "eq"
      BY <1>3, <2>4, <3>1 DEF Means, ExcludesNone
    <3>2. CASE f.op = "ne"
      BY <1>3, <2>4, <3>2 DEF Means, ExcludesNone
    <3>3. CASE f.op = "lt"
      BY <1>3, <2>1, <2>4, <3>3 DEF Means, ExcludesNone
    <3>4. CASE f.op = "le"
      BY <1>3, <2>1, <2>3, <2>4, <3>4 DEF Means, ExcludesNone
    <3>5. CASE f.op = "gt"
      BY <1>3, <2>1, <2>4, <3>5 DEF Means, ExcludesNone
    <3>6. CASE f.op = "ge"
      BY <1>3, <2>1, <2>3, <2>4, <3>6 DEF Means, ExcludesNone
    <3> QED BY <1>16, <3>1, <3>2, <3>3, <3>4, <3>5, <3>6 DEF Comparisons
  <2> QED BY <1>16, <2>2, <2>5, CompareOf
<1> QED BY <1>11, <1>12, <1>13, <1>14, <1>15, <1>16, FilterOf DEF FilterOps

\* The conjunction of truth values is true if each of them is.
LEMMA AndOf ==
    ASSUME NEW ts \in SUBSET Truth
    PROVE  And(ts) = "true" <=> \A t \in ts : t = "true"
BY DEF And, Truth

\* A compiled view keeps the rows that its filters mean and binds the placeholders of its
\* text, for any columns, values and filters, however many (_compile_filters()).
THEOREM ViewKeepsAlways == Spec => []ViewKeepsWhatFiltersMean
<1>1. Compiled => ViewKeepsWhatFiltersMean
  <2> SUFFICES ASSUME Compiled, Made("view")
               PROVE  ViewKeepsWhatFiltersMean
    BY DEF ViewKeepsWhatFiltersMean
  <2>1. PICK n \in Nat : given.filters \in [1..n -> Filters(Columns, Cells, MaxParts)]
    <3>1. given \in ViewCalls
      BY CallTells DEF Made
    <3>2. given.filters \in UNION {[1..n -> Filters(Columns, Cells, MaxParts)] : n \in 0..MaxParts}
      BY <3>1 DEF ViewCalls
    <3>3. 0..MaxParts \subseteq Nat
      BY TableAssumption
    <3> QED BY <3>2, <3>3
  <2>2. PICK fs \in [1..n -> Filters(Columns, Cells, MaxParts)] :
            given.filters = fs /\ made = CompileFilters(fs)
    BY <2>1 DEF Compiled
  <2>3. DOMAIN fs = 1..n
    OBVIOUS
  <2>4. CASE \E i \in 1..n : ~WellFormed(fs[i])
    <3>1. made = [error |-> "QueryError"]
      BY <2>2, <2>3, <2>4 DEF CompileFilters
    <3> QED BY <2>2, <2>3, <2>4, <3>1 DEF ViewKeepsWhatFiltersMean
  <2>5. CASE \A i \in 1..n : WellFormed(fs[i])
    <3>1. made = [error   |-> "none",
                  clauses |-> [i \in DOMAIN fs |-> [column |-> fs[i].column, op |-> fs[i].op,
                                                    holes |-> Placeholders(fs[i], i)]],
                  params  |-> [name \in AllPlaceholders(fs) |-> Bound(fs, name)]]
      BY <2>2, <2>3, <2>5, Zenon DEF CompileFilters
    <3>2. PICK clauses, params :
              /\ made.clauses = clauses /\ made.params = params
              /\ clauses = [i \in DOMAIN fs |-> [column |-> fs[i].column, op |-> fs[i].op,
                                                 holes |-> Placeholders(fs[i], i)]]
              /\ params = [name \in AllPlaceholders(fs) |-> Bound(fs, name)]
      BY <3>1
    <3>3. /\ DOMAIN clauses = 1..n
          /\ \A i \in 1..n : /\ clauses[i] = [column |-> fs[i].column, op |-> fs[i].op,
                                              holes |-> Placeholders(fs[i], i)]
                             /\ clauses[i].holes = Placeholders(fs[i], i)
      BY <2>3, <3>2
    <3>4. DOMAIN params = UNION {Range(clauses[i].holes) : i \in DOMAIN clauses}
      BY <2>3, <3>2, <3>3 DEF AllPlaceholders
    <3>5. ASSUME NEW i \in 1..n, NEW j \in DOMAIN Placeholders(fs[i], i)
          PROVE  params[Placeholders(fs[i], i)[j]] = fs[i].value[j]
      <4>1. Placeholders(fs[i], i)[j] \in AllPlaceholders(fs)
        BY <2>3 DEF AllPlaceholders, Range
      <4>2. Bound(fs, Placeholders(fs[i], i)[j]) = fs[i].value[j]
        BY <2>5, BoundToItsPart
      <4> QED BY <3>2, <4>1, <4>2
    <3>6. ASSUME NEW row \in Rows
          PROVE  Where(made, row) <=> \A i \in 1..n : Means(fs[i], row) /\ ~ExcludesNone(fs[i])
      <4>1. ASSUME NEW i \in 1..n
            PROVE  /\ Evaluate(clauses[i], params, row) \in Truth
                   /\ Evaluate(clauses[i], params, row) = "true"
                          <=> Means(fs[i], row) /\ ~ExcludesNone(fs[i])
        <5>1. fs[i] \in Filters(Columns, Cells, MaxParts) /\ WellFormed(fs[i]) /\ i \in Int
          BY <2>5
        <5>2. clauses[i] = [column |-> fs[i].column, op |-> fs[i].op, holes |-> Placeholders(fs[i], i)]
          BY <3>3
        <5> QED BY <3>5, <5>1, <5>2, EvaluateMeans
      <4> DEFINE ts == {Evaluate(clauses[i], params, row) : i \in 1..n}
      <4>2. Where(made, row) <=> And(ts) = "true"
        BY <3>2, <3>3 DEF Where
      <4>3. ts \in SUBSET Truth
        BY <4>1
      <4>4. And(ts) = "true" <=> \A t \in ts : t = "true"
        BY <4>3, AndOf
      <4> QED BY <4>1, <4>2, <4>4
    <3>7. /\ ~ \E i \in DOMAIN given.filters : ~WellFormed(given.filters[i])
          /\ \A row \in Rows : Where(made, row) <=>
                 \A i \in DOMAIN given.filters :
                     Means(given.filters[i], row) /\ ~ExcludesNone(given.filters[i])
      BY <2>2, <2>3, <2>5, <3>6, Zenon
    <3>8. DOMAIN made.params = UNION {Range(made.clauses[i].holes) : i \in DOMAIN made.clauses}
      BY <3>2, <3>4
    <3> QED BY <3>7, <3>8, Zenon DEF ViewKeepsWhatFiltersMean
  <2> QED BY <2>4, <2>5
<1> QED BY <1>1, CompiledAlways, PTL
===============================================================================
