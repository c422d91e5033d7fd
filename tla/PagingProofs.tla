---------------------------- MODULE PagingProofs ----------------------------
(***************************************************************************)
(* A listing that keeps its members is handed out whole: each page takes   *)
(* up where the pages before it ended.                                     *)
(***************************************************************************)
EXTENDS Paging, FiniteSetTheorems, TLAPS

\* The members on the pages before an offset.
Before(rank, listing, offset) ==
    {x \in listing : Position(rank, listing, x) <= offset}

\* Positions are those of a list, from 1 to the number of members.
LEMMA PositionType ==
    ASSUME NEW S, NEW rank, Orders(rank, S), NEW L \in SUBSET S, IsFiniteSet(L),
           NEW x \in L
    PROVE  /\ Cardinality(L) \in Nat
           /\ Position(rank, L, x) \in 1..Cardinality(L)
<1> DEFINE upTo == {y \in L : rank[y] <= rank[x]}
<1>1. upTo \in SUBSET L /\ {x} \in SUBSET upTo
  BY DEF Orders
<1>2. IsFiniteSet(upTo) /\ Cardinality(upTo) <= Cardinality(L)
  BY <1>1, FS_Subset
<1>3. Cardinality({x}) <= Cardinality(upTo) /\ Cardinality({x}) = 1
  BY <1>1, <1>2, FS_Subset, FS_Singleton
<1>4. Cardinality(L) \in Nat /\ Cardinality(upTo) \in Nat
  BY <1>2, FS_CardinalityType
<1> HIDE DEF upTo
<1>5. Cardinality(upTo) \in 1..Cardinality(L)
  BY <1>2, <1>3, <1>4
<1> QED
  BY <1>4, <1>5 DEF Position, upTo

\* Of two members the one of the higher rank comes later.
LEMMA PositionGrows ==
    ASSUME NEW S, NEW rank, Orders(rank, S), NEW L \in SUBSET S, IsFiniteSet(L),
           NEW x \in L, NEW y \in L, rank[x] < rank[y]
    PROVE  Position(rank, L, x) < Position(rank, L, y)
<1> DEFINE upTo(z) == {w \in L : rank[w] <= rank[z]}
<1>1. rank \in [S -> Nat]
  BY DEF Orders
<1>2. upTo(x) \in SUBSET upTo(y) /\ y \in upTo(y) /\ y \notin upTo(x)
  BY <1>1
<1>3. IsFiniteSet(upTo(x)) /\ IsFiniteSet(upTo(y))
  BY FS_Subset
<1>4. /\ Cardinality(upTo(x)) <= Cardinality(upTo(y))
      /\ Cardinality(upTo(x)) # Cardinality(upTo(y))
  BY <1>2, <1>3, FS_Subset
<1>5. Cardinality(upTo(x)) \in Nat /\ Cardinality(upTo(y)) \in Nat
  BY <1>3, FS_CardinalityType
<1>6. /\ Position(rank, L, x) = Cardinality(upTo(x))
      /\ Position(rank, L, y) = Cardinality(upTo(y))
  BY DEF Position
<1> HIDE DEF upTo
<1> QED
  BY <1>4, <1>5, <1>6

\* Every position is that of one member.
LEMMA PositionBijection ==
    ASSUME NEW S, NEW rank, Orders(rank, S), NEW L \in SUBSET S, IsFiniteSet(L)
    PROVE  [x \in L |-> Position(rank, L, x)] \in Bijection(L, 1..Cardinality(L))
<1> DEFINE f == [x \in L |-> Position(rank, L, x)]
           n == Cardinality(L)
<1>1. f \in [L -> 1..n] /\ n \in Nat
  BY PositionType, FS_CardinalityType
<1>2. ASSUME NEW x \in L, NEW y \in L, f[x] = f[y] PROVE x = y
  <2>1. rank \in [S -> Nat] /\ (rank[x] = rank[y] => x = y)
    BY DEF Orders
  <2>2. f[x] \in Int /\ f[y] \in Int
    BY <1>1
  <2>3. ~ rank[x] < rank[y] /\ ~ rank[y] < rank[x]
    BY <1>2, <2>2, PositionGrows
  <2> QED
    BY <2>1, <2>3
<1>3. f \in Injection(L, 1..n)
  BY <1>1, <1>2 DEF Injection, IsInjective
<1>4. IsFiniteSet(1..n) /\ Cardinality(1..n) = n
  BY <1>1, FS_Interval
<1>5. f \in Surjection(L, 1..n)
  BY <1>3, <1>4, FS_Injection
<1> QED
  BY <1>3, <1>5 DEF Bijection

\* A page is full unless the listing ends on it.
LEMMA PageCount ==
    ASSUME NEW S, NEW rank, Orders(rank, S), NEW L \in SUBSET S, IsFiniteSet(L),
           NEW offset \in Nat
    PROVE  /\ IsFiniteSet(Page(rank, L, offset))
           /\ Cardinality(Page(rank, L, offset)) =
                 IF offset + PageSize <= Cardinality(L) THEN PageSize
                 ELSE IF offset <= Cardinality(L) THEN Cardinality(L) - offset
                 ELSE 0
<1> DEFINE n == Cardinality(L)
           last == IF offset + PageSize <= n THEN offset + PageSize ELSE n
           rows == (offset + 1)..last
           page == Page(rank, L, offset)
           f == [x \in L |-> Position(rank, L, x)]
           g == [x \in page |-> f[x]]
<1>1. n \in Nat /\ PageSize \in Nat
  BY FS_CardinalityType, PageSizeAssumption
<1>2. f \in Bijection(L, 1..n)
  BY PositionBijection
<1>3. page \in SUBSET L /\ \A x \in L : x \in page <=> f[x] \in rows
  <2>1. page \in SUBSET L
    BY DEF Page
  <2>2. \A x \in L : f[x] \in 1..n
    BY <1>2 DEF Bijection, Injection
  <2>3. \A x \in L : x \in page <=> f[x] \in (offset + 1)..(offset + PageSize)
    BY DEF Page
  <2> HIDE DEF f, page, n
  <2> QED
    BY <1>1, <2>1, <2>2, <2>3
<1>4. rows \subseteq 1..n
  BY <1>1
<1> HIDE DEF f, page, rows
<1>5. g \in Bijection(page, rows)
  <2>1. g \in Injection(page, rows)
    BY <1>2, <1>3 DEF Bijection, Injection, IsInjective
  <2>2. g \in Surjection(page, rows)
    BY <1>2, <1>3, <1>4, <2>1 DEF Bijection, Surjection, Injection
  <2> QED
    BY <2>1, <2>2 DEF Bijection
<1>6. IsFiniteSet(page)
  BY <1>3, FS_Subset
<1>7. Cardinality(rows) = Cardinality(page)
  <2>1. ExistsBijection(page, rows)
    BY <1>5 DEF ExistsBijection
  <2> QED
    BY <1>6, <2>1, FS_Bijection
<1>8. Cardinality(rows) = IF offset + 1 > last THEN 0 ELSE last - (offset + 1) + 1
  <2>1. last \in Int /\ offset + 1 \in Int
    BY <1>1
  <2> HIDE DEF last
  <2> QED
    BY <2>1, FS_Interval DEF rows
<1>9. n \in Nat /\ PageSize \in Nat \ {0}
  BY <1>1, PageSizeAssumption
<1> HIDE DEF n
<1>10. Cardinality(page) =
        IF offset + PageSize <= n THEN PageSize ELSE IF offset <= n THEN n - offset ELSE 0
  BY <1>7, <1>8, <1>9
<1> QED
  BY <1>6, <1>10 DEF n, page

\* A page adds to the pages before it what comes next, and nothing twice.
LEMMA PageExtends ==
    ASSUME NEW S, NEW rank, Orders(rank, S), NEW L \in SUBSET S, IsFiniteSet(L),
           NEW offset \in Nat, offset <= Cardinality(L)
    PROVE  LET page == Page(rank, L, offset)
               next == offset + Cardinality(page)
           IN  /\ next \in Nat /\ next <= Cardinality(L)
               /\ offset < Cardinality(L) => offset < next
               /\ Before(rank, L, next) = Before(rank, L, offset) \cup page
               /\ Before(rank, L, offset) \cap page = {}
<1> DEFINE n == Cardinality(L)
           page == Page(rank, L, offset)
           next == offset + Cardinality(page)
<1>1. n \in Nat /\ PageSize \in Nat \ {0}
  BY FS_CardinalityType, PageSizeAssumption
<1>2. next = IF offset + PageSize <= n THEN offset + PageSize ELSE n
  <2>1. Cardinality(page) = IF offset + PageSize <= n THEN PageSize
                            ELSE IF offset <= n THEN n - offset ELSE 0
    BY PageCount
  <2> HIDE DEF page, n
  <2> QED
    BY <1>1, <2>1 DEF n
<1>3. \A x \in L : Position(rank, L, x) \in 1..n
  BY PositionType
<1>4. next \in Nat /\ next <= n /\ (offset < n => offset < next)
  BY <1>1, <1>2
<1>5. \A x \in L : x \in page <=>
        Position(rank, L, x) > offset /\ Position(rank, L, x) <= offset + PageSize
  BY <1>1, <1>3 DEF Page
<1>6. page \subseteq L
  BY DEF Page
<1> HIDE DEF page, n, next
<1>7. Before(rank, L, next) = Before(rank, L, offset) \cup page
  BY <1>1, <1>2, <1>3, <1>5, <1>6 DEF Before
<1>8. Before(rank, L, offset) \cap page = {}
  BY <1>1, <1>3, <1>5, <1>6 DEF Before
<1> QED
  BY <1>4, <1>7, <1>8 DEF n, page, next

\* Nothing comes before the first page, everything before the end.
LEMMA BeforeEnds ==
    ASSUME NEW S, NEW rank, Orders(rank, S), NEW L \in SUBSET S, IsFiniteSet(L)
    PROVE  /\ Before(rank, L, 0) = {}
           /\ Before(rank, L, Cardinality(L)) = L
<1>1. \A x \in L : Position(rank, L, x) \in 1..Cardinality(L)
  BY PositionType
<1>2. Cardinality(L) \in Nat
  BY FS_CardinalityType
<1> QED
  BY <1>1, <1>2 DEF Before
=============================================================================
