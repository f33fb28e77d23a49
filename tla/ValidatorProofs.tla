-------------------------- MODULE ValidatorProofs --------------------------
(***************************************************************************)
(* Theorems about the registry of swings: it is well formed, its checkpoint is    *)
(* what it holds, and what it once said of a swing stays. Then theorems about     *)
(* the live validator as a process, over its deaths and restarts: what it holds   *)
(* of the registry and of the swings it is fed; that what it offers on a side is  *)
(* the nearest live major swing of that registry; that its report, its log and    *)
(* the recorder's history tell of the same objective.                             *)
(***************************************************************************)
EXTENDS LiveValidator, SequenceTheorems, WellFoundedInduction, TLAPS

-----------------------------------------------------------------------------
(* The registry on its own.                                                 *)

\* A hierarchy as it lies between two steps: well formed, and every fragment is the
\* record it was encoded from.
Hierarchies ==
  [registry : Seq(Record), frontier : [Sides -> Seq(Nat)], fragments : Seq(Record)]
Good(h) == h \in Hierarchies /\ WellFormed(h) /\ h.fragments = h.registry

\* What became of each record of one registry in a later one.
Keeps(a, b) ==
  \A i \in DOMAIN a :
    /\ i \in DOMAIN b
    /\ Frozen(a[i], b[i])
    /\ a[i].lifecycle \in Terminal => b[i].lifecycle \in {a[i].lifecycle, "ARCHIVED"}

-----------------------------------------------------------------------------
(* Sequences, and the storing of records.                                    *)

LEMMA SequenceOf ==
  ASSUME NEW T, NEW n \in Nat, NEW f \in [1..n -> T]
  PROVE  f \in Seq(T) /\ Len(f) = n /\ DOMAIN f = 1..n
  OBVIOUS

LEMMA PutGood ==
  ASSUME NEW h, Good(h), NEW reg \in Seq(Record), Len(h.registry) <= Len(reg)
  PROVE  /\ Good(Put(h, reg))
         /\ Put(h, reg).registry = reg
         /\ Put(h, reg).frontier = h.frontier
<1>1. /\ h \in Hierarchies /\ h.fragments = h.registry /\ h.registry \in Seq(Record)
      /\ h.frontier \in [Sides -> Seq(DOMAIN h.registry)]
  BY DEF Good, WellFormed
<1> DEFINE frag == [i \in DOMAIN reg |->
                      IF i \in DOMAIN h.registry /\ reg[i] = h.registry[i]
                      THEN h.fragments[i] ELSE reg[i]]
           put == [h EXCEPT !.registry = reg, !.fragments = frag]
<1>2. frag = reg
  <2>1. \A i \in DOMAIN reg : frag[i] = reg[i]
    BY <1>1
  <2>2. reg = [i \in DOMAIN reg |-> reg[i]]
    OBVIOUS
  <2> QED
    BY <2>1, <2>2
<1>3. Put(h, reg) = put
  BY DEF Put
<1> HIDE DEF frag
<1>4. put \in Hierarchies /\ put.registry = reg /\ put.frontier = h.frontier
      /\ put.fragments = reg
  BY <1>1, <1>2 DEF Hierarchies
<1>5. h.frontier \in [Sides -> Seq(DOMAIN reg)]
  <2>1. DOMAIN h.registry \subseteq DOMAIN reg
    BY <1>1
  <2>2. Seq(DOMAIN h.registry) \subseteq Seq(DOMAIN reg)
    BY <2>1
  <2> QED
    BY <1>1, <2>2
<1> QED
  BY <1>3, <1>4, <1>5 DEF Good, WellFormed

\* A bounded set of naturals has a largest element.
LEMMA LargestExists ==
  ASSUME NEW n \in Nat, NEW K \in SUBSET (0..n), K # {}
  PROVE  \E k \in K : \A j \in K : j <= k
<1> DEFINE T == {n - k : k \in K}
           R == {ss \in Nat \X Nat : ss[1] < ss[2]}
<1>1. T \subseteq Nat /\ T # {}
  <2>1. \A k \in K : k \in Nat /\ k <= n
    OBVIOUS
  <2>2. \A k \in K : n - k \in Nat
    BY <2>1
  <2>3. PICK k \in K : TRUE
    OBVIOUS
  <2>4. n - k \in T
    BY <2>3
  <2> QED
    BY <2>2, <2>4
<1>2. IsWellFoundedOn(R, Nat)
  BY NatLessThanWellFounded DEF OpToRel
<1> HIDE DEF T, R
<1>3. PICK x \in T : \A y \in T : ~(<<y, x>> \in R)
  BY <1>1, <1>2, WFMin
<1>4. \A y \in T : x <= y
  <2> SUFFICES ASSUME NEW y \in T PROVE x <= y
    OBVIOUS
  <2>1. x \in Nat /\ y \in Nat
    BY <1>1
  <2>2. ~(<<y, x>> \in Nat \X Nat /\ y < x)
    BY <1>3 DEF R
  <2>3. <<y, x>> \in Nat \X Nat
    BY <2>1
  <2> QED
    BY <2>1, <2>2, <2>3
<1>5. PICK k \in K : x = n - k
  BY <1>3 DEF T
<1>6. \A j \in K : j <= k
  BY <1>4, <1>5 DEF T
<1> QED
  BY <1>6

-----------------------------------------------------------------------------
(* Ingestion.                                                               *)

LEMMA PrefixType ==
  ASSUME NEW S, NEW f \in Seq(S), NEW c \in 1..Len(f)
  PROVE  /\ SubSeq(f, 1, c) \in Seq(S)
         /\ DOMAIN SubSeq(f, 1, c) = 1..c
         /\ \A k \in 1..c : SubSeq(f, 1, c)[k] = f[k]
<1>1. c \in Int /\ 1 <= c /\ \A i \in 1..c : f[i] \in S
  OBVIOUS
<1> DEFINE g == SubSeq(f, 1, c)
<1>2. g \in Seq(S) /\ Len(g) = c - 1 + 1 /\ \A k \in 1..(c - 1 + 1) : g[k] = f[1 + k - 1]
  BY <1>1, SubSeqProperties
<1> HIDE DEF g
<1>3. DOMAIN g = 1..c /\ \A k \in 1..c : g[k] = f[k]
  <2>1. c - 1 + 1 = c /\ \A k \in 1..c : 1 + k - 1 = k
    BY <1>1
  <2> QED
    BY <1>2, <2>1
<1> QED
  BY <1>2, <1>3 DEF g

LEMMA KeptType ==
  ASSUME NEW h, Good(h), NEW side \in Sides, NEW price
  PROVE  Kept(h, side, price) \in Seq(DOMAIN h.registry)
<1> DEFINE f == h.frontier[side]
           K == Enclosing(h, side, price)
           c == CHOOSE k \in K : \A j \in K : j <= k
<1>1. f \in Seq(DOMAIN h.registry)
  BY DEF Good, WellFormed
<1>2. CASE K = {}
  BY <1>2 DEF Kept
<1>3. CASE K # {}
  <2>1. Len(f) \in Nat /\ K \subseteq 1..Len(f)
    BY <1>1 DEF Enclosing
  <2>2. K \in SUBSET (0..Len(f))
    BY <2>1
  <2> HIDE DEF K, f
  <2>3. \E k \in K : \A j \in K : j <= k
    BY <1>3, <2>1, <2>2, LargestExists
  <2>4. c \in 1..Len(f)
    BY <2>1, <2>3
  <2>5. SubSeq(f, 1, c) \in Seq(DOMAIN h.registry)
    <3> HIDE DEF c
    <3> QED
      BY <1>1, <2>4, PrefixType
  <2>6. Kept(h, side, price) = SubSeq(f, 1, c)
    BY <1>3 DEF Kept, K, f
  <2> QED
    BY <2>5, <2>6
<1> QED
  BY <1>2, <1>3

\* g is h with what is new, or h itself.
Grown(h, g) ==
  /\ Good(g)
  /\ Len(h.registry) <= Len(g.registry)
  /\ \A i \in DOMAIN h.registry : g.registry[i] = h.registry[i]
  /\ Len(h.registry) = Len(g.registry) => g = h

\* g is h with one swing more, whose parent is the last that is kept of its side.
Appended(h, g, side, swing, kept) ==
  LET n == Len(h.registry)
      r == g.registry[n + 1]
  IN  /\ Len(g.registry) = n + 1
      /\ g.frontier = [h.frontier EXCEPT ![side] = Append(kept, n + 1)]
      /\ r.side = side /\ r.swing = swing
      /\ r.parent = IF kept = << >> THEN Root ELSE kept[Len(kept)]
      /\ r.depth = IF r.parent = Root THEN 0 ELSE h.registry[r.parent].depth + 1

LEMMA PlacedGrows ==
  ASSUME NEW h, Good(h), NEW side \in Sides, NEW swing \in Swing,
         NEW kept \in Seq(DOMAIN h.registry)
  PROVE  /\ Grown(h, Placed(h, side, swing, kept))
         /\ Appended(h, Placed(h, side, swing, kept), side, swing, kept)
<1> DEFINE n == Len(h.registry)
           parent == IF kept = << >> THEN Root ELSE kept[Len(kept)]
           depth == IF parent = Root THEN 0 ELSE h.registry[parent].depth + 1
           record == [side |-> side, swing |-> swing, parent |-> parent, depth |-> depth,
                      category |-> "MICRO", lifecycle |-> "ACTIVE", extreme |-> None,
                      started |-> FALSE, reclaimed |-> FALSE]
           put == Put(h, Append(h.registry, record))
           placed == [put EXCEPT !.frontier[side] = Append(kept, n + 1)]
<1>1. h.registry \in Seq(Record) /\ n \in Nat /\ DOMAIN h.registry = 1..n
      /\ h.frontier \in [Sides -> Seq(DOMAIN h.registry)]
  BY DEF Good, WellFormed
<1>2. parent = Root \/ parent \in DOMAIN h.registry
  OBVIOUS
<1>3. depth \in Nat
  <2> HIDE DEF parent
  <2>1. CASE parent = Root
    BY <2>1
  <2>2. CASE parent # Root
    <3>1. h.registry[parent] \in Record
      BY <1>1, <1>2, <2>2
    <3> QED
      BY <2>2, <3>1 DEF Record
  <2> QED
    BY <2>1, <2>2
<1>4. parent \in Nat
  BY <1>1, <1>2 DEF Root
<1> HIDE DEF parent, depth
<1>5. record \in Record
  BY <1>3, <1>4 DEF Record, Categories, Lifecycles
<1> HIDE DEF record
<1>6. /\ Append(h.registry, record) \in Seq(Record)
      /\ Len(Append(h.registry, record)) = n + 1
      /\ \A i \in DOMAIN h.registry : Append(h.registry, record)[i] = h.registry[i]
  BY <1>1, <1>5
<1>7. /\ Good(put) /\ put.registry = Append(h.registry, record)
      /\ put.frontier = h.frontier
  <2> DEFINE longer == Append(h.registry, record)
  <2>1. longer \in Seq(Record) /\ Len(h.registry) <= Len(longer)
    BY <1>1, <1>6
  <2> HIDE DEF longer
  <2>2. Good(Put(h, longer)) /\ Put(h, longer).registry = longer
        /\ Put(h, longer).frontier = h.frontier
    BY <2>1, PutGood
  <2> QED
    BY <2>2 DEF longer
<1> HIDE DEF put
<1>8. placed = [put EXCEPT !.frontier = [h.frontier EXCEPT ![side] = Append(kept, n + 1)]]
  BY <1>7 DEF Good, Hierarchies
<1>9. [h.frontier EXCEPT ![side] = Append(kept, n + 1)]
        \in [Sides -> Seq(DOMAIN put.registry)]
  <2>1. DOMAIN put.registry = 1..(n + 1)
    BY <1>6, <1>7
  <2>2. 1..n \subseteq 1..(n + 1)
    BY <1>1
  <2>3. Append(kept, n + 1) \in Seq(1..(n + 1))
    <3>1. kept \in Seq(1..(n + 1))
      BY <1>1, <2>2
    <3> QED
      BY <1>1, <3>1
  <2>4. h.frontier \in [Sides -> Seq(1..(n + 1))]
    <3>1. Seq(1..n) \subseteq Seq(1..(n + 1))
      BY <2>2
    <3> QED
      BY <1>1, <3>1
  <2> QED
    BY <2>1, <2>3, <2>4
<1> DEFINE front == [h.frontier EXCEPT ![side] = Append(kept, n + 1)]
<1> HIDE DEF front
<1>10. front \in [Sides -> Seq(DOMAIN put.registry)]
  BY <1>9 DEF front
<1>11. front \in [Sides -> Seq(Nat)]
  <2>1. DOMAIN put.registry \subseteq Nat
    BY <1>6, <1>7
  <2>2. Seq(DOMAIN put.registry) \subseteq Seq(Nat)
    BY <2>1
  <2> QED
    BY <1>10, <2>2
<1>12. Good([put EXCEPT !.frontier = front])
       /\ [put EXCEPT !.frontier = front].registry = put.registry
  BY <1>7, <1>10, <1>11 DEF Good, Hierarchies, WellFormed
<1>13. Placed(h, side, swing, kept) = placed
  BY DEF Placed, put, record, parent, depth
<1>14. placed = [put EXCEPT !.frontier = front]
  BY <1>8 DEF front
<1>15. [put EXCEPT !.frontier = front].frontier = front
  BY <1>7 DEF Good, Hierarchies
<1> HIDE DEF placed
<1>16. Grown(h, placed)
  BY <1>1, <1>6, <1>7, <1>12, <1>14 DEF Grown
<1>17. Appended(h, placed, side, swing, kept)
  <2>1. /\ placed.registry = Append(h.registry, record)
        /\ placed.frontier = front
    BY <1>7, <1>12, <1>14, <1>15
  <2>2. placed.registry[n + 1] = record /\ Len(placed.registry) = n + 1
    BY <1>1, <1>5, <2>1
  <2>3. /\ record.side = side /\ record.swing = swing /\ record.parent = parent
        /\ record.depth = depth
    BY DEF record
  <2> QED
    BY <2>1, <2>2, <2>3 DEF Appended, front, parent, depth
<1> QED
  BY <1>13, <1>16, <1>17

LEMMA GrownTrans ==
  ASSUME NEW a, NEW b, NEW c, Good(a), Grown(a, b), Grown(b, c)
  PROVE  Grown(a, c)
<1>1. Len(a.registry) \in Nat /\ Len(b.registry) \in Nat /\ Len(c.registry) \in Nat
  BY DEF Grown, Good, WellFormed
<1>2. DOMAIN a.registry = 1..Len(a.registry) /\ DOMAIN b.registry = 1..Len(b.registry)
  BY DEF Grown, Good, WellFormed
<1>3. \A i \in DOMAIN a.registry : i \in DOMAIN b.registry
  BY <1>1, <1>2 DEF Grown
<1> QED
  BY <1>1, <1>3 DEF Grown

LEMMA IngestGrows ==
  ASSUME NEW h, Good(h), NEW new \in [Sides -> {None} \cup Swing]
  PROVE  Grown(h, Ingest(h, new))
<1>1. ASSUME NEW g, Good(g), NEW side \in Sides
      PROVE  Grown(g, Ingested(g, side, new[side]))
  <2>1. CASE new[side] = None
    <3>1. Ingested(g, side, new[side]) = g
      BY <2>1 DEF Ingested
    <3>2. Len(g.registry) \in Nat
      BY <1>1 DEF Good, WellFormed
    <3> QED
      BY <1>1, <3>1, <3>2 DEF Grown
  <2>2. CASE new[side] # None
    <3>1. new[side] \in Swing
      BY <1>1, <2>2
    <3>2. Kept(g, side, new[side].price) \in Seq(DOMAIN g.registry)
      BY <1>1, KeptType
    <3>3. Ingested(g, side, new[side])
            = Placed(g, side, new[side], Kept(g, side, new[side].price))
      BY <2>2 DEF Ingested
    <3> QED
      BY <1>1, <3>1, <3>2, <3>3, PlacedGrows
  <2> QED
    BY <2>1, <2>2
<1> DEFINE high == Ingested(h, "HIGH", new["HIGH"])
           low == Ingested(high, "LOW", new["LOW"])
<1>2. Grown(h, high)
  BY <1>1 DEF Sides
<1>3. Good(high)
  BY <1>2 DEF Grown
<1> HIDE DEF high
<1>4. Grown(high, low)
  BY <1>1, <1>3 DEF Sides
<1>5. Ingest(h, new) = low
  BY DEF Ingest, high
<1> HIDE DEF low
<1> QED
  BY <1>2, <1>4, <1>5, GrownTrans

-----------------------------------------------------------------------------
(* Parents: the frontier against the definition of the nearest encloser.       *)

LEMMA BeyondOrder ==
  ASSUME NEW side \in Sides, NEW p \in Int, NEW q \in Int, NEW r \in Int
  PROVE  /\ Beyond(side, p, q) /\ Beyond(side, q, r) => Beyond(side, p, r)
         /\ Beyond(side, p, q) /\ ~Beyond(side, r, q) => Beyond(side, p, r)
BY DEF Beyond, Sides

LEMMA PricesAreInt ==
  ASSUME NEW reg \in Seq(Record), NEW i \in DOMAIN reg
  PROVE  PriceOf(reg[i]) \in Int /\ reg[i].side \in Sides
<1>1. reg[i] \in Record
  OBVIOUS
<1> QED
  BY <1>1, HierarchyAssumption DEF PriceOf, Record, Swing

\* The swings of a side that are beyond a price.
Enclosers(reg, side, price) ==
  {i \in DOMAIN reg : reg[i].side = side /\ Beyond(side, PriceOf(reg[i]), price)}

\* Of the swings beyond a price the last one stands.
LEMMA LastEncloserStands ==
  ASSUME NEW reg \in Seq(Record), NEW side \in Sides, NEW price \in Int,
         NEW m \in Enclosers(reg, side, price),
         \A j \in Enclosers(reg, side, price) : j <= m
  PROVE  Unreached(reg, side, m)
<1>1. m \in DOMAIN reg /\ reg[m].side = side /\ Beyond(side, PriceOf(reg[m]), price)
  BY DEF Enclosers
<1>2. SUFFICES ASSUME NEW j \in DOMAIN reg, j > m, reg[j].side = side
               PROVE  Beyond(side, PriceOf(reg[m]), PriceOf(reg[j]))
  BY <1>1 DEF Unreached
<1>3. ~Beyond(side, PriceOf(reg[j]), price)
  <2>1. j \in Nat /\ m \in Nat
    BY <1>1
  <2>2. ~(j <= m)
    BY <1>2, <2>1
  <2> QED
    BY <1>2, <2>2 DEF Enclosers
<1>4. PriceOf(reg[m]) \in Int /\ PriceOf(reg[j]) \in Int
  BY <1>1, PricesAreInt
<1> QED
  BY <1>1, <1>3, <1>4, BeyondOrder

LEMMA LastEncloserExists ==
  ASSUME NEW reg \in Seq(Record), NEW side \in Sides, NEW price \in Int,
         Enclosers(reg, side, price) # {}
  PROVE  \E m \in Enclosers(reg, side, price) :
           \A j \in Enclosers(reg, side, price) : j <= m
<1> DEFINE n == Len(reg)
           E == Enclosers(reg, side, price)
<1>1. n \in Nat /\ E \in SUBSET (0..n)
  BY DEF Enclosers
<1> HIDE DEF n, E
<1>2. E # {} => \E m \in E : \A j \in E : j <= m
  BY <1>1, LargestExists
<1> QED
  BY <1>2 DEF E

\* What is kept of a frontier: in order, the standing swings beyond the price.
KeptIs(h, side, price, kept) ==
  /\ \A a, b \in DOMAIN kept : a < b => kept[a] < kept[b]
  /\ \A i \in DOMAIN h.registry :
       (\E k \in DOMAIN kept : kept[k] = i)
         <=> Unreached(h.registry, side, i) /\ i \in Enclosers(h.registry, side, price)

LEMMA EnclosingIsPrefix ==
  ASSUME NEW h, Good(h), Nested(h), NEW side \in Sides, NEW price \in Int,
         NEW b \in Enclosing(h, side, price), NEW a \in 1..b
  PROVE  a \in Enclosing(h, side, price)
<1> DEFINE f == h.frontier[side]
           reg == h.registry
<1>1. reg \in Seq(Record) /\ f \in Seq(DOMAIN reg)
  BY DEF Good, WellFormed
<1>2. /\ b \in 1..Len(f) /\ Beyond(side, PriceOf(reg[f[b]]), price)
  BY DEF Enclosing
<1>3. a \in 1..Len(f) /\ b \in Nat /\ a \in Nat
  BY <1>1, <1>2
<1>4. f[a] \in DOMAIN reg /\ f[b] \in DOMAIN reg
  BY <1>1, <1>2, <1>3
<1>5. CASE a = b
  BY <1>5
<1>6. CASE a # b
  <2>1. a < b
    BY <1>3, <1>6
  <2>2. f[a] < f[b] /\ Unreached(reg, side, f[a]) /\ Unreached(reg, side, f[b])
    BY <1>1, <1>2, <1>3, <1>4, <2>1 DEF Nested
  <2>3. f[a] \in Nat /\ f[b] \in Nat
    BY <1>1, <1>4
  <2>4. Beyond(side, PriceOf(reg[f[a]]), PriceOf(reg[f[b]]))
    BY <1>4, <2>2, <2>3 DEF Unreached
  <2>5. PriceOf(reg[f[a]]) \in Int /\ PriceOf(reg[f[b]]) \in Int
    BY <1>1, <1>4, PricesAreInt
  <2>6. Beyond(side, PriceOf(reg[f[a]]), price)
    BY <1>2, <2>4, <2>5, BeyondOrder
  <2> QED
    BY <1>3, <2>6 DEF Enclosing
<1> QED
  BY <1>5, <1>6

LEMMA KeptIsStanding ==
  ASSUME NEW h, Good(h), Nested(h), NEW side \in Sides, NEW price \in Int
  PROVE  KeptIs(h, side, price, Kept(h, side, price))
<1> DEFINE f == h.frontier[side]
           reg == h.registry
           K == Enclosing(h, side, price)
           c == CHOOSE k \in K : \A j \in K : j <= k
           kept == Kept(h, side, price)
<1>1. reg \in Seq(Record) /\ f \in Seq(DOMAIN reg) /\ Len(f) \in Nat
  BY DEF Good, WellFormed
<1>2. K \subseteq 1..Len(f)
  BY DEF Enclosing
<1>3. \A a, b \in DOMAIN f : a < b => f[a] < f[b]
  BY DEF Nested
<1>4. \A i \in DOMAIN reg : Unreached(reg, side, i) <=> \E k \in DOMAIN f : f[k] = i
  BY DEF Nested
<1>5. \A k \in DOMAIN f : f[k] \in DOMAIN reg /\ reg[f[k]].side = side
  BY <1>1, <1>4 DEF Unreached
<1>6. \A k \in DOMAIN f : k \in K <=> f[k] \in Enclosers(reg, side, price)
  BY <1>1, <1>5 DEF Enclosing, Enclosers
\* kept is as much of f as K says.
<1>7. /\ DOMAIN kept = K
      /\ \A k \in K : kept[k] = f[k]
  <2>1. CASE K = {}
    <3>1. kept = << >>
      BY <2>1 DEF Kept
    <3> QED
      BY <2>1, <3>1
  <2>2. CASE K # {}
    <3>1. K \in SUBSET (0..Len(f))
      BY <1>2
    <3> HIDE DEF K, f
    <3>2. \E k \in K : \A j \in K : j <= k
      BY <1>1, <2>2, <3>1, LargestExists
    <3>3. c \in K /\ \A j \in K : j <= c
      BY <3>2
    <3> HIDE DEF c
    <3>4. c \in 1..Len(f) /\ c \in Nat
      BY <1>1, <1>2, <3>3
    <3>5. \A a \in 1..c : a \in K
      BY <3>3, EnclosingIsPrefix DEF K
    <3>6. K = 1..c
      <4>1. ASSUME NEW a \in K
            PROVE  a \in 1..c
        <5>1. a \in 1..Len(f) /\ a <= c
          BY <1>2, <3>3
        <5> QED
          BY <1>1, <3>4, <5>1
      <4> QED
        BY <3>5, <4>1
    <3>7. kept = SubSeq(f, 1, c)
      BY <2>2 DEF Kept, K, f, c
    <3> HIDE DEF kept
    <3>8. DOMAIN SubSeq(f, 1, c) = 1..c /\ \A k \in 1..c : SubSeq(f, 1, c)[k] = f[k]
      BY <1>1, <3>4, PrefixType
    <3> QED
      BY <3>6, <3>7, <3>8
  <2> QED
    BY <2>1, <2>2
<1> HIDE DEF kept, K
<1>8. K \subseteq DOMAIN f
  BY <1>1, <1>2
<1>9. \A a, b \in DOMAIN kept : a < b => kept[a] < kept[b]
  BY <1>3, <1>7, <1>8
<1>10. ASSUME NEW i \in DOMAIN reg
       PROVE  (\E k \in DOMAIN kept : kept[k] = i)
                <=> Unreached(reg, side, i) /\ i \in Enclosers(reg, side, price)
  <2>1. ASSUME NEW k \in DOMAIN kept, kept[k] = i
        PROVE  Unreached(reg, side, i) /\ i \in Enclosers(reg, side, price)
    BY <1>4, <1>6, <1>7, <1>8, <2>1
  <2>2. ASSUME Unreached(reg, side, i), i \in Enclosers(reg, side, price)
        PROVE  \E k \in DOMAIN kept : kept[k] = i
    <3>1. PICK k \in DOMAIN f : f[k] = i
      BY <1>4, <2>2
    <3>2. k \in K
      BY <1>6, <2>2, <3>1
    <3> QED
      BY <1>7, <3>1, <3>2
  <2> QED
    BY <2>1, <2>2
<1> QED
  BY <1>9, <1>10 DEF KeptIs, kept

\* Each swing lies where the definition says.
Sound(h) == Good(h) /\ Nested(h) /\ NearestParents(h.registry)

\* One swing more: what of the registry before it still stands, and who encloses it.
LEMMA AppendedStands ==
  ASSUME NEW h, Good(h), NEW g, Grown(h, g), NEW side \in Sides, NEW swing \in Swing,
         NEW kept \in Seq(DOMAIN h.registry), Appended(h, g, side, swing, kept)
  PROVE  LET n == Len(h.registry)
         IN  /\ \A s \in Sides : \A i \in 1..n :
                  Unreached(g.registry, s, i)
                    <=> /\ Unreached(h.registry, s, i)
                        /\ s = side => i \in Enclosers(h.registry, side, swing.price)
             /\ \A s \in Sides : Unreached(g.registry, s, n + 1) <=> s = side
             /\ \A i \in 1..n :
                  Encloses(g.registry, i, n + 1)
                    <=> i \in Enclosers(h.registry, side, swing.price)
<1> DEFINE n == Len(h.registry)
           reg == h.registry
           new == g.registry
<1>1. /\ n \in Nat /\ DOMAIN reg = 1..n /\ reg \in Seq(Record)
      /\ DOMAIN new = 1..(n + 1) /\ new \in Seq(Record)
      /\ \A i \in 1..n : new[i] = reg[i]
  BY DEF Grown, Good, WellFormed, Appended
<1>2. new[n + 1].side = side /\ PriceOf(new[n + 1]) = swing.price
  BY DEF Appended, PriceOf
<1> HIDE DEF n, reg, new
<1>3. \A i \in 1..n : i \in 1..(n + 1) /\ i < n + 1 /\ i \in Nat
  BY <1>1
<1>4. n + 1 \in 1..(n + 1)
  BY <1>1
<1>5. \A j \in 1..(n + 1) : j \in 1..n \/ j = n + 1
  BY <1>1
<1>6. ASSUME NEW s \in Sides, NEW i \in 1..n
      PROVE  Unreached(new, s, i)
               <=> /\ Unreached(reg, s, i)
                   /\ s = side => i \in Enclosers(reg, side, swing.price)
  <2>1. ASSUME Unreached(new, s, i)
        PROVE  /\ Unreached(reg, s, i)
               /\ s = side => i \in Enclosers(reg, side, swing.price)
    <3>1. reg[i].side = s
      BY <1>1, <2>1 DEF Unreached
    <3>2. ASSUME NEW j \in 1..n, j > i, reg[j].side = s
          PROVE  Beyond(s, PriceOf(reg[i]), PriceOf(reg[j]))
      BY <1>1, <1>3, <2>1, <3>2 DEF Unreached
    <3>3. ASSUME s = side
          PROVE  i \in Enclosers(reg, side, swing.price)
      <4>1. n + 1 > i
        BY <1>1, <1>3
      <4>2. Beyond(s, PriceOf(new[i]), PriceOf(new[n + 1]))
        BY <1>1, <1>2, <1>4, <2>1, <3>3, <4>1 DEF Unreached
      <4> QED
        BY <1>1, <1>2, <3>1, <3>3, <4>2 DEF Enclosers
    <3> QED
      BY <1>1, <3>1, <3>2, <3>3 DEF Unreached
  <2>2. ASSUME Unreached(reg, s, i), s = side => i \in Enclosers(reg, side, swing.price)
        PROVE  Unreached(new, s, i)
    <3>1. new[i].side = s
      BY <1>1, <2>2 DEF Unreached
    <3>2. ASSUME NEW j \in DOMAIN new, j > i, new[j].side = s
          PROVE  Beyond(s, PriceOf(new[i]), PriceOf(new[j]))
      <4>1. CASE j \in 1..n
        BY <1>1, <2>2, <3>2, <4>1 DEF Unreached
      <4>2. CASE j = n + 1
        BY <1>1, <1>2, <2>2, <3>2, <4>2 DEF Enclosers
      <4> QED
        BY <1>1, <1>5, <4>1, <4>2
    <3> QED
      BY <3>1, <3>2 DEF Unreached
  <2> QED
    BY <2>1, <2>2
<1>7. ASSUME NEW s \in Sides
      PROVE  Unreached(new, s, n + 1) <=> s = side
  <2>1. \A j \in DOMAIN new : ~(j > n + 1)
    BY <1>1
  <2> QED
    BY <1>2, <2>1 DEF Unreached
<1>8. ASSUME NEW i \in 1..n
      PROVE  Encloses(new, i, n + 1) <=> i \in Enclosers(reg, side, swing.price)
  <2>1. i < n + 1 /\ new[i] = reg[i] /\ i \in DOMAIN reg
    BY <1>1, <1>3
  <2> QED
    BY <1>2, <2>1 DEF Encloses, Enclosers
<1> QED
  BY <1>6, <1>7, <1>8 DEF n, reg, new

LEMMA PlacedNests ==
  ASSUME NEW h, Sound(h), NEW g, Grown(h, g), NEW side \in Sides, NEW swing \in Swing,
         NEW kept \in Seq(DOMAIN h.registry), KeptIs(h, side, swing.price, kept),
         Appended(h, g, side, swing, kept)
  PROVE  Nested(g)
<1> DEFINE n == Len(h.registry)
           reg == h.registry
           new == g.registry
           f == Append(kept, n + 1)
<1>1. /\ n \in Nat /\ DOMAIN reg = 1..n /\ DOMAIN new = 1..(n + 1)
      /\ kept \in Seq(1..n)
  BY DEF Sound, Grown, Good, WellFormed, Appended
<1>2. Good(h)
  BY DEF Sound
<1>3. /\ \A s \in Sides : \A i \in 1..n :
           Unreached(new, s, i)
             <=> /\ Unreached(reg, s, i)
                 /\ s = side => i \in Enclosers(reg, side, swing.price)
      /\ \A s \in Sides : Unreached(new, s, n + 1) <=> s = side
  BY <1>2, AppendedStands
<1>4. h.frontier \in [Sides -> Seq(1..n)]
      /\ g.frontier = [h.frontier EXCEPT ![side] = f]
  BY <1>1 DEF Sound, Good, WellFormed, Appended
<1>5. \A i \in 1..(n + 1) : i \in 1..n \/ i = n + 1
  BY <1>1
<1> SUFFICES ASSUME NEW s \in Sides
             PROVE  /\ \A a, b \in DOMAIN g.frontier[s] :
                         a < b => g.frontier[s][a] < g.frontier[s][b]
                    /\ \A i \in DOMAIN new :
                         Unreached(new, s, i)
                           <=> \E k \in DOMAIN g.frontier[s] : g.frontier[s][k] = i
  BY DEF Nested
<1>6. CASE s = side
  <2>1. g.frontier[s] = f
    BY <1>4, <1>6
  <2>2. Len(kept) \in Nat /\ DOMAIN kept = 1..Len(kept)
    BY <1>1
  <2>3. /\ DOMAIN f = 1..(Len(kept) + 1) /\ f[Len(kept) + 1] = n + 1
        /\ \A k \in DOMAIN kept : f[k] = kept[k] /\ kept[k] \in 1..n
    BY <1>1
  <2>4. /\ \A a, b \in DOMAIN kept : a < b => kept[a] < kept[b]
        /\ \A i \in 1..n :
             (\E k \in DOMAIN kept : kept[k] = i)
               <=> Unreached(reg, side, i) /\ i \in Enclosers(reg, side, swing.price)
    BY <1>1 DEF KeptIs
  <2> HIDE DEF f, n, reg, new
  <2>5. ASSUME NEW a \in DOMAIN f, NEW b \in DOMAIN f, a < b
        PROVE  f[a] < f[b]
    <3>1. a \in DOMAIN kept
      BY <2>2, <2>3, <2>5
    <3>2. CASE b \in DOMAIN kept
      BY <2>3, <2>4, <2>5, <3>1, <3>2
    <3>3. CASE b = Len(kept) + 1
      BY <1>1, <2>3, <3>1, <3>3
    <3> QED
      BY <2>2, <2>3, <3>2, <3>3
  <2>6. ASSUME NEW i \in 1..n
        PROVE  Unreached(new, s, i) <=> \E k \in DOMAIN f : f[k] = i
    <3>1. (\E k \in DOMAIN f : f[k] = i) <=> (\E k \in DOMAIN kept : kept[k] = i)
      <4>1. i # n + 1
        BY <1>1
      <4>2. \A k \in DOMAIN f : k \in DOMAIN kept \/ k = Len(kept) + 1
        BY <2>2, <2>3
      <4>3. \A k \in DOMAIN kept : k \in DOMAIN f
        BY <2>2, <2>3
      <4> QED
        BY <2>3, <4>1, <4>2, <4>3
    <3> QED
      BY <1>3, <1>6, <2>4, <3>1
  <2>7. Unreached(new, s, n + 1) /\ \E k \in DOMAIN f : f[k] = n + 1
    <3>1. Len(kept) + 1 \in DOMAIN f
      BY <2>2, <2>3
    <3> QED
      BY <1>3, <1>6, <2>3, <3>1
  <2> QED
    BY <1>1, <1>5, <2>1, <2>5, <2>6, <2>7
<1>7. CASE s # side
  <2>1. g.frontier[s] = h.frontier[s] /\ h.frontier[s] \in Seq(1..n)
    BY <1>4, <1>7
  <2>2. /\ \A a, b \in DOMAIN h.frontier[s] : a < b => h.frontier[s][a] < h.frontier[s][b]
        /\ \A i \in 1..n :
             Unreached(reg, s, i) <=> \E k \in DOMAIN h.frontier[s] : h.frontier[s][k] = i
    BY <1>1 DEF Sound, Nested
  <2>3. \A k \in DOMAIN h.frontier[s] : h.frontier[s][k] # n + 1
    <3>1. \A k \in DOMAIN h.frontier[s] : h.frontier[s][k] \in 1..n
      BY <2>1
    <3> QED
      BY <1>1, <3>1
  <2> HIDE DEF f, n, reg, new
  <2> QED
    BY <1>1, <1>3, <1>5, <1>7, <2>1, <2>2, <2>3
<1> QED
  BY <1>6, <1>7

LEMMA PlacedParent ==
  ASSUME NEW h, Sound(h), NEW g, Grown(h, g), NEW side \in Sides, NEW swing \in Swing,
         NEW kept \in Seq(DOMAIN h.registry), KeptIs(h, side, swing.price, kept),
         Appended(h, g, side, swing, kept)
  PROVE  NearestParents(g.registry)
<1> DEFINE n == Len(h.registry)
           reg == h.registry
           new == g.registry
           p == new[n + 1].parent
           E == Enclosers(reg, side, swing.price)
<1>1. /\ n \in Nat /\ DOMAIN reg = 1..n /\ DOMAIN new = 1..(n + 1)
      /\ reg \in Seq(Record) /\ kept \in Seq(1..n)
      /\ \A i \in 1..n : new[i] = reg[i]
  <2>1. Good(h) /\ Good(g)
    BY DEF Sound, Grown
  <2>2. /\ reg \in Seq(Record) /\ new \in Seq(Record) /\ Len(new) = n + 1
        /\ \A i \in DOMAIN reg : new[i] = reg[i]
    BY <2>1 DEF Good, WellFormed, Grown, Appended
  <2> HIDE DEF reg, new
  <2>3. n \in Nat /\ DOMAIN reg = 1..n /\ DOMAIN new = 1..(n + 1)
    BY <2>2 DEF reg
  <2> QED
    BY <2>2, <2>3 DEF reg
<1>2. Good(h) /\ NearestParents(reg)
  BY DEF Sound
<1>3. \A i \in 1..n : Encloses(new, i, n + 1) <=> i \in E
  BY <1>2, AppendedStands
<1>4. swing.price \in Int
  BY HierarchyAssumption DEF Swing
<1>5. E \subseteq 1..n
  BY <1>1 DEF Enclosers
<1>6. ~Encloses(new, n + 1, n + 1)
  BY <1>1 DEF Encloses
\* The last that is kept is the last that encloses the new one.
<1>7. ASSUME E # {}
      PROVE  kept # << >> /\ kept[Len(kept)] \in E /\ \A j \in E : j <= kept[Len(kept)]
  <2>1. PICK m \in E : \A j \in E : j <= m
    BY <1>1, <1>4, <1>7, LastEncloserExists
  <2>2. Unreached(reg, side, m)
    BY <1>1, <1>4, <2>1, LastEncloserStands
  <2>3. PICK k \in DOMAIN kept : kept[k] = m
    BY <1>1, <1>5, <2>1, <2>2 DEF KeptIs
  <2>4. Len(kept) \in DOMAIN kept /\ k <= Len(kept) /\ Len(kept) \in Nat /\ k \in Nat
    BY <1>1, <2>3
  <2> DEFINE last == kept[Len(kept)]
  <2>5. last \in 1..n /\ last \in E
    BY <1>1, <2>4 DEF KeptIs
  <2>6. m <= last
    <3>1. CASE k = Len(kept)
      BY <1>1, <1>5, <2>3, <2>5, <3>1
    <3>2. CASE k < Len(kept)
      <4>1. kept[k] < last
        BY <2>3, <2>4, <3>2 DEF KeptIs
      <4> QED
        BY <1>1, <1>5, <2>3, <2>5, <4>1
    <3> QED
      BY <2>4, <3>1, <3>2
  <2> HIDE DEF E, last
  <2>7. \A j \in E : j <= last
    BY <1>1, <1>5, <2>1, <2>5, <2>6
  <2> QED
    BY <2>3, <2>5, <2>7 DEF last
<1>8. kept # << >> => E # {}
  <2> SUFFICES ASSUME kept # << >> PROVE E # {}
    OBVIOUS
  <2>1. Len(kept) \in DOMAIN kept /\ kept[Len(kept)] \in 1..n
    BY <1>1
  <2>2. kept[Len(kept)] \in E
    BY <1>1, <2>1 DEF KeptIs
  <2> QED
    BY <2>2
<1>9. /\ p = IF kept = << >> THEN Root ELSE kept[Len(kept)]
      /\ new[n + 1].depth = IF p = Root THEN 0 ELSE reg[p].depth + 1
  BY DEF Appended
<1> HIDE DEF n, reg, new, p, E
<1>10. \A i \in 1..(n + 1) : i \in 1..n \/ i = n + 1
  BY <1>1
<1>11. \A i \in 1..n : i \in 1..(n + 1) /\ i \in Nat /\ i # Root
  BY <1>1 DEF Root
<1>12. ASSUME NEW j \in 1..(n + 1)
       PROVE  LET q == new[j].parent
              IN  IF q = Root
                  THEN new[j].depth = 0 /\ ~\E i \in DOMAIN new : Encloses(new, i, j)
                  ELSE /\ q \in DOMAIN new /\ Encloses(new, q, j)
                       /\ ~\E i \in DOMAIN new : i > q /\ Encloses(new, i, j)
                       /\ new[j].depth = new[q].depth + 1
  <2>1. CASE j \in 1..n
    <3>1. \A i \in 1..n : Encloses(new, i, j) <=> Encloses(reg, i, j)
      BY <1>1, <2>1 DEF Encloses
    <3>2. ~Encloses(new, n + 1, j)
      BY <1>1, <2>1 DEF Encloses
    <3>3. new[j] = reg[j]
      BY <1>1, <2>1
    <3>4. LET q == reg[j].parent
          IN  IF q = Root
              THEN reg[j].depth = 0 /\ ~\E i \in 1..n : Encloses(reg, i, j)
              ELSE /\ q \in 1..n /\ Encloses(reg, q, j)
                   /\ ~\E i \in 1..n : i > q /\ Encloses(reg, i, j)
                   /\ reg[j].depth = reg[q].depth + 1
      BY <1>1, <1>2, <2>1 DEF NearestParents
    <3> QED
      BY <1>1, <1>10, <1>11, <3>1, <3>2, <3>3, <3>4
  <2>2. CASE j = n + 1
    <3>1. CASE kept = << >>
      <4>1. p = Root /\ E = {} /\ new[n + 1].depth = 0
        BY <1>7, <1>9, <3>1
      <4>2. ~\E i \in DOMAIN new : Encloses(new, i, n + 1)
        BY <1>1, <1>3, <1>6, <1>10, <4>1
      <4> QED
        BY <2>2, <4>1, <4>2 DEF p
    <3>2. CASE kept # << >>
      <4>1. p \in E /\ \A i \in E : i <= p
        BY <1>7, <1>8, <1>9, <3>2
      <4>2. p \in 1..n /\ p # Root
        BY <1>5, <1>11, <4>1
      <4>3. Encloses(new, p, n + 1) /\ p \in DOMAIN new
        BY <1>1, <1>3, <1>11, <4>1, <4>2
      <4>4. ASSUME NEW i \in DOMAIN new, i > p, Encloses(new, i, n + 1)
            PROVE  FALSE
        <5>1. i \in 1..n
          BY <1>1, <1>6, <1>10, <4>4
        <5>2. i \in E
          BY <1>3, <4>4, <5>1
        <5>3. i <= p
          BY <4>1, <5>2
        <5> QED
          BY <1>11, <4>2, <4>4, <5>1, <5>3
      <4>5. new[n + 1].depth = new[p].depth + 1
        BY <1>1, <1>9, <4>2
      <4> QED
        BY <2>2, <4>2, <4>3, <4>4, <4>5 DEF p
    <3> QED
      BY <3>1, <3>2
  <2> QED
    BY <1>10, <2>1, <2>2
<1> QED
  BY <1>1, <1>12 DEF NearestParents, new

LEMMA IngestedSound ==
  ASSUME NEW h, Sound(h), NEW side \in Sides, NEW swing \in {None} \cup Swing
  PROVE  Sound(Ingested(h, side, swing))
<1>1. CASE swing = None
  BY <1>1 DEF Ingested
<1>2. CASE swing # None
  <2> DEFINE kept == Kept(h, side, swing.price)
             g == Placed(h, side, swing, kept)
  <2>1. swing \in Swing /\ swing.price \in Int /\ Good(h) /\ Nested(h)
    <3>1. swing \in Swing
      BY <1>2
    <3> QED
      BY <3>1, HierarchyAssumption DEF Swing, Sound
  <2>2. kept \in Seq(DOMAIN h.registry) /\ KeptIs(h, side, swing.price, kept)
    BY <2>1, KeptType, KeptIsStanding
  <2> HIDE DEF kept
  <2>3. Grown(h, g) /\ Appended(h, g, side, swing, kept)
    BY <2>1, <2>2, PlacedGrows
  <2> HIDE DEF g
  <2>4. Sound(g)
    BY <2>1, <2>2, <2>3, PlacedNests, PlacedParent DEF Sound, Grown
  <2> QED
    BY <1>2, <2>4 DEF Ingested, g, kept
<1> QED
  BY <1>1, <1>2

LEMMA IngestSound ==
  ASSUME NEW h, Sound(h), NEW new \in [Sides -> {None} \cup Swing]
  PROVE  Sound(Ingest(h, new))
<1> DEFINE high == Ingested(h, "HIGH", new["HIGH"])
<1>1. \A s \in Sides : new[s] \in {None} \cup Swing
  OBVIOUS
<1>2. "HIGH" \in Sides /\ "LOW" \in Sides
  BY DEF Sides
<1>3. Sound(high)
  BY <1>1, <1>2, IngestedSound
<1> HIDE DEF high
<1>4. Sound(Ingested(high, "LOW", new["LOW"]))
  BY <1>1, <1>2, <1>3, IngestedSound
<1> QED
  BY <1>4 DEF Ingest, high

-----------------------------------------------------------------------------
(* What follows: each step rewrites the records in place.                      *)

\* What ingestion says of a swing, and classification does not touch.
SamePlace(a, b) ==
  a.side = b.side /\ a.swing = b.swing /\ a.parent = b.parent /\ a.depth = b.depth

\* g is h with its records rewritten, those up to n as Keeps allows.
Rewritten(h, g, n) ==
  /\ Good(g)
  /\ DOMAIN g.registry = DOMAIN h.registry
  /\ g.frontier = h.frontier
  /\ \A i \in DOMAIN h.registry : SamePlace(h.registry[i], g.registry[i])
  /\ \A i \in 1..n : i \in DOMAIN h.registry =>
       /\ Frozen(h.registry[i], g.registry[i])
       /\ h.registry[i].lifecycle \in Terminal =>
            g.registry[i].lifecycle \in {h.registry[i].lifecycle, "ARCHIVED"}

LEMMA RewrittenTrans ==
  ASSUME NEW a, NEW b, NEW c, NEW n \in Nat, Rewritten(a, b, n), Rewritten(b, c, n)
  PROVE  Rewritten(a, c, n)
BY DEF Rewritten, Frozen, SamePlace, Terminal

LEMMA PutRewrites ==
  ASSUME NEW h, Good(h), NEW n \in Nat,
         NEW reg, reg \in [DOMAIN h.registry -> Record],
         \A i \in DOMAIN h.registry : SamePlace(h.registry[i], reg[i]),
         \A i \in 1..n : i \in DOMAIN h.registry =>
           /\ Frozen(h.registry[i], reg[i])
           /\ h.registry[i].lifecycle \in Terminal =>
                reg[i].lifecycle \in {h.registry[i].lifecycle, "ARCHIVED"}
  PROVE  Rewritten(h, Put(h, reg), n)
<1>1. /\ h.registry \in Seq(Record) /\ Len(h.registry) \in Nat
      /\ DOMAIN h.registry = 1..Len(h.registry)
  BY DEF Good, WellFormed
<1>2. reg \in Seq(Record) /\ Len(reg) = Len(h.registry) /\ DOMAIN reg = DOMAIN h.registry
  BY <1>1, SequenceOf
<1>3. /\ Good(Put(h, reg)) /\ Put(h, reg).registry = reg
      /\ Put(h, reg).frontier = h.frontier
  BY <1>1, <1>2, PutGood
<1> QED
  BY <1>2, <1>3 DEF Rewritten

LEMMA NamesRewrites ==
  ASSUME NEW h, Good(h), NEW n \in Nat, NEW ids, \A i \in 1..n : i \notin ids
  PROVE  Rewritten(h, Names(h, ids), n)
<1> DEFINE reg == Classified(h.registry, ids)
<1>1. \A i \in DOMAIN h.registry : h.registry[i] \in Record
  BY DEF Good, WellFormed
<1>2. \A i : Category(h.registry, i) \in Categories
  BY DEF Category, Categories
<1>3. reg \in [DOMAIN h.registry -> Record]
  BY <1>1, <1>2 DEF Classified, Record
<1>4. \A i \in 1..n : i \in DOMAIN h.registry => reg[i] = h.registry[i]
  BY DEF Classified
<1>5. \A i \in DOMAIN h.registry : SamePlace(h.registry[i], reg[i])
  BY <1>1 DEF Classified, SamePlace, Record
<1> HIDE DEF reg
<1>6. Rewritten(h, Put(h, reg), n)
  BY <1>3, <1>4, <1>5, PutRewrites DEF Frozen
<1> QED
  BY <1>6 DEF Names, reg

LEMMA ResolvesRewrites ==
  ASSUME NEW h, Good(h), NEW n \in Nat, NEW ids, NEW price
  PROVE  Rewritten(h, Resolves(h, ids, price), n)
<1> DEFINE reg == Resolved(h.registry, ids, price)
<1>1. \A i \in DOMAIN h.registry : h.registry[i] \in Record
  BY DEF Good, WellFormed
<1>2. \A i \in DOMAIN h.registry :
        \/ reg[i] = h.registry[i]
        \/ /\ h.registry[i].lifecycle = "CHALLENGED"
           /\ reg[i] \in {[h.registry[i] EXCEPT !.lifecycle = "CONFIRMED_BROKEN"],
                          [h.registry[i] EXCEPT !.lifecycle = "ACTIVE", !.reclaimed = TRUE]}
  BY DEF Resolved
<1>3. \A i \in DOMAIN h.registry : reg[i] \in Record
  <2>1. ASSUME NEW r \in Record
        PROVE  /\ [r EXCEPT !.lifecycle = "CONFIRMED_BROKEN"] \in Record
               /\ [r EXCEPT !.lifecycle = "ACTIVE", !.reclaimed = TRUE] \in Record
    BY DEF Record, Lifecycles
  <2> HIDE DEF reg
  <2> QED
    BY <1>1, <1>2, <2>1
<1>4. reg \in [DOMAIN h.registry -> Record]
  BY <1>3 DEF Resolved
<1>5. \A i \in DOMAIN h.registry :
        /\ Frozen(h.registry[i], reg[i])
        /\ h.registry[i].lifecycle \in Terminal =>
             reg[i].lifecycle = h.registry[i].lifecycle
  BY <1>1, <1>2 DEF Frozen, Record, Terminal
<1> HIDE DEF reg
<1>6. Rewritten(h, Put(h, reg), n)
  BY <1>4, <1>5, PutRewrites DEF SamePlace, Frozen
<1> QED
  BY <1>6 DEF Resolves, reg

LEMMA RetiresRewrites ==
  ASSUME NEW h, Good(h), NEW n \in Nat, NEW before, NEW after
  PROVE  Rewritten(h, Retires(h, before, after), n)
<1> DEFINE reg == Superseded(before, after, h.registry)
<1>1. \A i \in DOMAIN h.registry : h.registry[i] \in Record
  BY DEF Good, WellFormed
<1>2. \A i \in DOMAIN h.registry :
        \/ reg[i] = h.registry[i]
        \/ /\ h.registry[i].lifecycle \in {"ACTIVE", "CHALLENGED"}
           /\ reg[i] = [h.registry[i] EXCEPT !.lifecycle = "SUPERSEDED"]
  BY DEF Superseded
<1>3. \A i \in DOMAIN h.registry : reg[i] \in Record
  <2>1. ASSUME NEW r \in Record
        PROVE  [r EXCEPT !.lifecycle = "SUPERSEDED"] \in Record
    BY DEF Record, Lifecycles
  <2> HIDE DEF reg
  <2> QED
    BY <1>1, <1>2, <2>1
<1>4. reg \in [DOMAIN h.registry -> Record]
  BY <1>3 DEF Superseded
<1>5. \A i \in DOMAIN h.registry :
        /\ Frozen(h.registry[i], reg[i])
        /\ h.registry[i].lifecycle \in Terminal =>
             reg[i].lifecycle = h.registry[i].lifecycle
  BY <1>1, <1>2 DEF Frozen, Record, Terminal
<1> HIDE DEF reg
<1>6. Rewritten(h, Put(h, reg), n)
  BY <1>4, <1>5, PutRewrites DEF SamePlace, Frozen
<1> QED
  BY <1>6 DEF Retires, reg

LEMMA ChallengesRewrites ==
  ASSUME NEW h, Good(h), NEW n \in Nat, NEW price \in Prices
  PROVE  Rewritten(h, Challenges(h, price), n)
<1> DEFINE reg == [i \in DOMAIN h.registry |-> ChallengedBy(h.registry[i], price)]
<1>1. \A i \in DOMAIN h.registry : h.registry[i] \in Record
  BY DEF Good, WellFormed
<1>2. ASSUME NEW r \in Record
      PROVE  \/ ChallengedBy(r, price) = r
             \/ /\ r.lifecycle = "ACTIVE"
                /\ ChallengedBy(r, price)
                     = [r EXCEPT !.lifecycle = "CHALLENGED", !.extreme = price,
                                 !.started = TRUE]
             \/ /\ r.lifecycle = "CHALLENGED"
                /\ ChallengedBy(r, price) = [r EXCEPT !.extreme = price]
  BY DEF ChallengedBy
<1>3. ASSUME NEW r \in Record
      PROVE  /\ ChallengedBy(r, price) \in Record
             /\ Frozen(r, ChallengedBy(r, price))
             /\ r.lifecycle \in Terminal => ChallengedBy(r, price).lifecycle = r.lifecycle
  BY <1>2 DEF Record, Lifecycles, Frozen, Terminal
<1>4. reg \in [DOMAIN h.registry -> Record]
  BY <1>1, <1>3
<1>5. \A i \in DOMAIN h.registry :
        /\ Frozen(h.registry[i], reg[i])
        /\ h.registry[i].lifecycle \in Terminal =>
             reg[i].lifecycle = h.registry[i].lifecycle
  BY <1>1, <1>3
<1> HIDE DEF reg
<1>6. Rewritten(h, Put(h, reg), n)
  BY <1>4, <1>5, PutRewrites DEF SamePlace, Frozen
<1> QED
  BY <1>6 DEF Challenges, reg

LEMMA RewrittenSound ==
  ASSUME NEW h, Sound(h), NEW g, NEW n, Rewritten(h, g, n)
  PROVE  Sound(g)
<1> DEFINE reg == h.registry
           new == g.registry
<1>1. /\ DOMAIN new = DOMAIN reg /\ g.frontier = h.frontier /\ Good(g)
      /\ \A i \in DOMAIN reg : /\ new[i].side = reg[i].side
                               /\ PriceOf(new[i]) = PriceOf(reg[i])
                               /\ new[i].parent = reg[i].parent
                               /\ new[i].depth = reg[i].depth
  BY DEF Rewritten, SamePlace, PriceOf
<1>2. Nested(h) /\ NearestParents(reg)
  BY DEF Sound
<1> HIDE DEF reg, new
<1>3. ASSUME NEW s \in Sides, NEW i \in DOMAIN reg
      PROVE  Unreached(new, s, i) <=> Unreached(reg, s, i)
  BY <1>1 DEF Unreached
<1>4. Nested(g)
  <2>1. \A s \in Sides :
          /\ \A a, b \in DOMAIN h.frontier[s] : a < b => h.frontier[s][a] < h.frontier[s][b]
          /\ \A i \in DOMAIN reg :
               Unreached(reg, s, i) <=> \E k \in DOMAIN h.frontier[s] : h.frontier[s][k] = i
    BY <1>2 DEF Nested, reg
  <2>2. \A s \in Sides :
          /\ \A a, b \in DOMAIN g.frontier[s] : a < b => g.frontier[s][a] < g.frontier[s][b]
          /\ \A i \in DOMAIN new :
               Unreached(new, s, i) <=> \E k \in DOMAIN g.frontier[s] : g.frontier[s][k] = i
    BY <1>1, <1>3, <2>1
  <2> QED
    BY <2>2 DEF Nested, new
<1>5. \A i, j \in DOMAIN reg : Encloses(new, i, j) <=> Encloses(reg, i, j)
  BY <1>1 DEF Encloses
<1>6. NearestParents(new)
  BY <1>1, <1>2, <1>5 DEF NearestParents
<1> QED
  BY <1>1, <1>4, <1>6 DEF Sound, new

-----------------------------------------------------------------------------
(* An evaluation.                                                             *)

LEMMA FollowsRewrites ==
  ASSUME NEW h, NEW g, Good(h), Good(g), NEW price \in Prices
  PROVE  Rewritten(g, Follows(h, g, price), Len(h.registry))
<1> DEFINE n == Len(h.registry)
           ids == NewIds(h, g)
           s1 == Names(g, ids)
           s2 == Resolves(s1, ids, price)
           s3 == Retires(s2, h, g)
           s4 == Challenges(s3, price)
<1>1. n \in Nat
  BY DEF Good, WellFormed
<1>2. \A i \in 1..n : i \notin ids
  BY <1>1 DEF NewIds
<1> HIDE DEF n, ids
<1>3. Rewritten(g, s1, n)
  BY <1>1, <1>2, NamesRewrites
<1>4. Good(s1)
  BY <1>3 DEF Rewritten
<1> HIDE DEF s1
<1>5. Rewritten(s1, s2, n)
  BY <1>1, <1>4, ResolvesRewrites
<1>6. Good(s2)
  BY <1>5 DEF Rewritten
<1> HIDE DEF s2
<1>7. Rewritten(s2, s3, n)
  BY <1>1, <1>6, RetiresRewrites
<1>8. Good(s3)
  BY <1>7 DEF Rewritten
<1> HIDE DEF s3
<1>9. Rewritten(s3, s4, n)
  BY <1>1, <1>8, ChallengesRewrites
<1> HIDE DEF s4
<1>10. Rewritten(g, s4, n)
  BY <1>1, <1>3, <1>5, <1>7, <1>9, RewrittenTrans
<1>11. Follows(h, g, price) = s4
  BY DEF Follows, Moved, s4, s3, s2, s1, ids
<1> QED
  BY <1>10, <1>11 DEF n

\* An evaluation keeps what was said, and when it leaves the records as they were
\* it leaves the frontiers too, so that the old checkpoint may stay.
LEMMA EvaluatedKeeps ==
  ASSUME NEW h, Good(h), NEW new \in [Sides -> {None} \cup Swing], NEW price \in Prices
  PROVE  /\ Good(Evaluated(h, new, price))
         /\ Keeps(h.registry, Evaluated(h, new, price).registry)
         /\ Evaluated(h, new, price).registry = h.registry => Evaluated(h, new, price) = h
<1> DEFINE g == Ingest(h, new)
           e == Follows(h, g, price)
           n == Len(h.registry)
<1>1. Grown(h, g)
  BY IngestGrows
<1>2. Good(g)
  BY <1>1 DEF Grown
<1> HIDE DEF g
<1>3. Rewritten(g, e, n)
  BY <1>2, FollowsRewrites
<1> HIDE DEF e
<1>4. n \in Nat /\ DOMAIN h.registry = 1..n /\ Len(g.registry) \in Nat
      /\ DOMAIN g.registry = 1..Len(g.registry)
  BY <1>2 DEF Good, WellFormed
<1>5. Keeps(h.registry, e.registry)
  <2> SUFFICES ASSUME NEW i \in DOMAIN h.registry
               PROVE  /\ i \in DOMAIN e.registry
                      /\ Frozen(h.registry[i], e.registry[i])
                      /\ h.registry[i].lifecycle \in Terminal =>
                           e.registry[i].lifecycle \in {h.registry[i].lifecycle, "ARCHIVED"}
    BY DEF Keeps
  <2>1. i \in DOMAIN g.registry /\ g.registry[i] = h.registry[i]
    BY <1>1, <1>4 DEF Grown
  <2> QED
    BY <1>3, <1>4, <2>1 DEF Rewritten
<1>6. ASSUME e.registry = h.registry
      PROVE  e = h
  <2>1. Good(e)
    BY <1>3 DEF Rewritten
  <2>2. Len(g.registry) = n
    <3>1. DOMAIN g.registry = DOMAIN h.registry
      BY <1>3, <1>6 DEF Rewritten
    <3> QED
      BY <1>4, <3>1
  <2>3. g = h
    BY <1>1, <2>2 DEF Grown
  <2>4. e.frontier = h.frontier /\ e.fragments = h.fragments
    BY <1>3, <1>6, <2>1, <2>3 DEF Rewritten, Good
  <2> QED
    BY <1>6, <2>1, <2>4 DEF Good, Hierarchies
<1>7. Evaluated(h, new, price) = e
  BY DEF Evaluated, e, g
<1>8. Good(e)
  BY <1>3 DEF Rewritten
<1> QED
  BY <1>5, <1>6, <1>7, <1>8

LEMMA EvaluatedSound ==
  ASSUME NEW h, Sound(h), NEW new \in [Sides -> {None} \cup Swing], NEW price \in Prices
  PROVE  Sound(Evaluated(h, new, price))
<1> DEFINE g == Ingest(h, new)
<1>1. Sound(g)
  BY IngestSound
<1>2. Good(h) /\ Good(g)
  BY <1>1 DEF Sound
<1> HIDE DEF g
<1>3. Rewritten(g, Follows(h, g, price), Len(h.registry))
  BY <1>2, FollowsRewrites
<1>4. Sound(Follows(h, g, price))
  BY <1>1, <1>3, RewrittenSound
<1> QED
  BY <1>4 DEF Evaluated, g

-----------------------------------------------------------------------------
(* A swing is registered once.                                                *)

SeenIn(reg, side, swing) ==
  \E i \in DOMAIN reg : reg[i].side = side /\ reg[i].swing = swing

LEMMA SeenIsSeenIn ==
  ASSUME NEW h, NEW side, NEW swing
  PROVE  Seen(h, side, swing) <=> SeenIn(h.registry, side, swing)
BY DEF Seen, SeenIn

\* What a swing brings to the registry.
LEMMA IngestedIsDistinct ==
  ASSUME NEW h, Good(h), NEW side \in Sides, NEW swing \in {None} \cup Swing,
         Distinct(h.registry), swing # None => ~SeenIn(h.registry, side, swing)
  PROVE  LET g == Ingested(h, side, swing)
         IN  /\ Good(g) /\ Distinct(g.registry)
             /\ swing # None => SeenIn(g.registry, side, swing)
             /\ \A s \in Sides : \A w :
                  SeenIn(g.registry, s, w)
                    <=> SeenIn(h.registry, s, w) \/ (s = side /\ w = swing /\ w # None)
<1> DEFINE g == Ingested(h, side, swing)
<1>1. CASE swing = None
  BY <1>1 DEF Ingested
<1>2. CASE swing # None
  <2> DEFINE kept == Kept(h, side, swing.price)
             n == Len(h.registry)
             reg == h.registry
             new == g.registry
  <2>1. swing \in Swing /\ kept \in Seq(DOMAIN h.registry)
    BY <1>2, KeptType
  <2>2. g = Placed(h, side, swing, kept)
    BY <1>2 DEF Ingested
  <2> HIDE DEF kept, g
  <2>3. Grown(h, g) /\ Appended(h, g, side, swing, kept)
    BY <2>1, <2>2, PlacedGrows
  <2>4. Good(g) /\ n \in Nat /\ DOMAIN reg = 1..n /\ DOMAIN new = 1..(n + 1)
        /\ \A i \in 1..n : new[i] = reg[i]
    <3>1. Good(g)
      BY <2>3 DEF Grown
    <3>2. /\ reg \in Seq(Record) /\ new \in Seq(Record) /\ Len(new) = n + 1
          /\ \A i \in DOMAIN reg : new[i] = reg[i]
      BY <2>3, <3>1 DEF Good, WellFormed, Grown, Appended
    <3> HIDE DEF reg, new
    <3>3. n \in Nat /\ DOMAIN reg = 1..n /\ DOMAIN new = 1..(n + 1)
      BY <3>2 DEF reg
    <3> QED
      BY <3>1, <3>2, <3>3 DEF reg
  <2>5. new[n + 1].side = side /\ new[n + 1].swing = swing
    BY <2>3 DEF Appended
  <2> HIDE DEF n, reg, new
  <2>6. \A i \in 1..(n + 1) : i \in 1..n \/ i = n + 1
    BY <2>4
  <2>7. \A i \in 1..n : i \in 1..(n + 1) /\ ~(reg[i].side = side /\ reg[i].swing = swing)
    <3>1. ~SeenIn(reg, side, swing)
      BY <1>2 DEF reg
    <3> QED
      BY <2>4, <3>1 DEF SeenIn
  <2>8. Distinct(new)
    <3>1. Distinct(reg)
      BY DEF reg
    <3> QED
      BY <2>4, <2>5, <2>6, <2>7, <3>1 DEF Distinct
  <2>9. n + 1 \in DOMAIN new
    BY <2>4
  <2>10. ASSUME NEW s \in Sides, NEW w
         PROVE  SeenIn(new, s, w) <=> SeenIn(reg, s, w) \/ (s = side /\ w = swing /\ w # None)
    <3>1. SeenIn(new, s, w) <=> \/ \E i \in 1..n : reg[i].side = s /\ reg[i].swing = w
                                \/ side = s /\ swing = w
      BY <2>4, <2>5, <2>6, <2>7, <2>9 DEF SeenIn
    <3> QED
      BY <1>2, <2>4, <3>1 DEF SeenIn
  <2>11. SeenIn(new, side, swing)
    BY <1>2, <2>10
  <2> QED
    BY <2>4, <2>8, <2>10, <2>11 DEF g, new, reg
<1> QED
  BY <1>1, <1>2

LEMMA RewrittenSeen ==
  ASSUME NEW h, NEW g, NEW n, Rewritten(h, g, n)
  PROVE  /\ Distinct(h.registry) => Distinct(g.registry)
         /\ \A s, w : SeenIn(g.registry, s, w) <=> SeenIn(h.registry, s, w)
BY DEF Rewritten, SamePlace, Distinct, SeenIn

\* A batch of swings the registry has not seen: nothing else becomes seen.
AllNew(reg, new) == \A s \in Sides : new[s] = None \/ ~SeenIn(reg, s, new[s])

LEMMA EvaluatedIsDistinct ==
  ASSUME NEW h, Good(h), Distinct(h.registry), NEW price \in Prices,
         NEW new \in [Sides -> {None} \cup Swing], AllNew(h.registry, new)
  PROVE  LET e == Evaluated(h, new, price)
         IN  /\ Distinct(e.registry)
             /\ \A s \in Sides : \A w :
                  SeenIn(e.registry, s, w)
                    <=> SeenIn(h.registry, s, w) \/ (w = new[s] /\ w # None)
<1> DEFINE high == Ingested(h, "HIGH", new["HIGH"])
           g == Ingested(high, "LOW", new["LOW"])
           e == Follows(h, g, price)
<1>1. "HIGH" \in Sides /\ "LOW" \in Sides /\ \A s \in Sides : s = "HIGH" \/ s = "LOW"
  BY DEF Sides
<1>2. /\ new["HIGH"] \in {None} \cup Swing /\ new["LOW"] \in {None} \cup Swing
      /\ new["HIGH"] # None => ~SeenIn(h.registry, "HIGH", new["HIGH"])
      /\ new["LOW"] # None => ~SeenIn(h.registry, "LOW", new["LOW"])
  BY <1>1 DEF AllNew
<1>3. /\ Good(high) /\ Distinct(high.registry)
      /\ \A s \in Sides : \A w :
           SeenIn(high.registry, s, w)
             <=> SeenIn(h.registry, s, w)
                   \/ (s = "HIGH" /\ w = new["HIGH"] /\ w # None)
  BY <1>1, <1>2, IngestedIsDistinct
<1> HIDE DEF high
<1>4. /\ Good(g) /\ Distinct(g.registry)
      /\ \A s \in Sides : \A w :
           SeenIn(g.registry, s, w)
             <=> SeenIn(high.registry, s, w)
                   \/ (s = "LOW" /\ w = new["LOW"] /\ w # None)
  <2>1. new["LOW"] # None => ~SeenIn(high.registry, "LOW", new["LOW"])
    BY <1>1, <1>2, <1>3
  <2>2. "LOW" \in Sides /\ new["LOW"] \in {None} \cup Swing /\ Good(high)
        /\ Distinct(high.registry)
    BY <1>1, <1>2, <1>3
  <2> DEFINE low == new["LOW"]
  <2>3. /\ low \in {None} \cup Swing
        /\ low # None => ~SeenIn(high.registry, "LOW", low)
    BY <2>1, <2>2
  <2> HIDE DEF low
  <2>4. LET l == Ingested(high, "LOW", low)
        IN  /\ Good(l) /\ Distinct(l.registry)
            /\ \A s \in Sides : \A w :
                 SeenIn(l.registry, s, w)
                   <=> SeenIn(high.registry, s, w) \/ (s = "LOW" /\ w = low /\ w # None)
    BY <2>2, <2>3, IngestedIsDistinct
  <2> QED
    BY <2>4 DEF low
<1>5. \A s \in Sides : \A w :
        SeenIn(g.registry, s, w) <=> SeenIn(h.registry, s, w) \/ (w = new[s] /\ w # None)
  BY <1>1, <1>3, <1>4
<1>6. Evaluated(h, new, price) = e
  BY DEF Evaluated, Ingest, e, g, high
<1> HIDE DEF g
<1>7. Rewritten(g, e, Len(h.registry))
  BY <1>4, FollowsRewrites
<1> HIDE DEF e
<1>8. Distinct(e.registry) /\ \A s, w : SeenIn(e.registry, s, w) <=> SeenIn(g.registry, s, w)
  BY <1>4, <1>7, RewrittenSeen
<1> QED
  BY <1>5, <1>6, <1>8

-----------------------------------------------------------------------------
(* The document an evaluation leaves.                                         *)

LEMMA LoadedDocument ==
  ASSUME NEW h, Good(h)
  PROVE  Loaded(Document(h)) = h
<1>1. h.fragments \in Seq(Record) /\ h.registry = h.fragments /\ h \in Hierarchies
  BY DEF Good, Hierarchies
<1> DEFINE d == Document(h)
           records == [i \in DOMAIN d.registry |->
                         IF d.version = 1 /\ d.registry[i].lifecycle = "BREACHED"
                         THEN [d.registry[i] EXCEPT !.lifecycle = "CHALLENGED"]
                         ELSE d.registry[i]]
<1>2. d.version = 2 /\ d.registry = h.fragments /\ d.frontier = h.frontier
  BY DEF Document, Version
<1>3. records = h.registry
  <2>1. records = [i \in DOMAIN h.fragments |-> h.fragments[i]]
    BY <1>2
  <2>2. ASSUME NEW f \in Seq(Record)
        PROVE  [i \in DOMAIN f |-> f[i]] = f
    OBVIOUS
  <2>3. [i \in DOMAIN h.fragments |-> h.fragments[i]] = h.fragments
    BY <1>1, <2>2
  <2> HIDE DEF records
  <2> QED
    BY <1>1, <2>1, <2>3
<1>4. Loaded(d) = [registry |-> records, frontier |-> d.frontier, fragments |-> records]
  BY DEF Loaded
<1> HIDE DEF records, d
<1>5. Loaded(d) = [registry |-> h.registry, frontier |-> h.frontier,
                   fragments |-> h.fragments]
  BY <1>1, <1>2, <1>3, <1>4
<1> QED
  BY <1>1, <1>5 DEF Hierarchies, d

-----------------------------------------------------------------------------
(* The invariant.                                                           *)

\* Every swing lies where the definition says, once, and the file is what memory
\* holds.
HierarchyInv == Sound(Hierarchy) /\ NoSwingTwice /\ SavedIsCurrent

LEMMA InitHierarchy == HInit => HierarchyInv
<1> SUFFICES ASSUME HInit PROVE HierarchyInv
  OBVIOUS
<1> DEFINE l == Loaded(saved)
<1>1. WellFormed(l)
  BY InheritedAssumption DEF HInit
<1>2. l = [registry |-> l.registry, frontier |-> l.frontier, fragments |-> l.registry]
  BY DEF Loaded
<1>3. Hierarchy = l
  BY <1>2 DEF HInit, Hierarchy
<1>4. l.frontier \in [Sides -> Seq(Nat)]
  <2>1. DOMAIN l.registry \subseteq Nat
    BY <1>1 DEF WellFormed
  <2>2. Seq(DOMAIN l.registry) \subseteq Seq(Nat)
    BY <2>1
  <2> QED
    BY <1>1, <2>2 DEF WellFormed
<1> HIDE DEF l
<1>5. l \in Hierarchies
  <2>1. l.registry \in Seq(Record)
    BY <1>1 DEF WellFormed
  <2> QED
    BY <1>2, <1>4, <2>1 DEF Hierarchies
<1>6. l.fragments = l.registry
  BY <1>2
<1>7. Nested(l) /\ NearestParents(l.registry) /\ Distinct(l.registry)
  BY InheritedAssumption DEF HInit, l
<1>8. NoSwingTwice
  BY <1>3, <1>7 DEF NoSwingTwice, Hierarchy
<1> QED
  BY <1>1, <1>3, <1>5, <1>6, <1>7, <1>8
  DEF HierarchyInv, Sound, Good, SavedIsCurrent, l

LEMMA KeepsItself ==
  ASSUME NEW reg
  PROVE  Keeps(reg, reg)
BY DEF Keeps, Frozen

LEMMA HierarchyIs ==
  ASSUME NEW r, NEW f, NEW g, registry = r, frontier = f, fragments = g
  PROVE  Hierarchy = [registry |-> r, frontier |-> f, fragments |-> g]
BY DEF Hierarchy

\* Sound looks at nothing but its argument.
LEMMA SoundStays ==
  ASSUME NEW h, Sound(h), Hierarchy' = h
  PROVE  Sound(Hierarchy)'
BY DEF Sound, Good, WellFormed, Nested, NearestParents, Unreached, Encloses

\* What an evaluation makes of the hierarchy, and that its checkpoint says so.
LEMMA EvaluatedHolds ==
  ASSUME HierarchyInv, NEW new \in [Sides -> {None} \cup Swing], AllNew(registry, new),
         NEW price \in Prices
  PROVE  LET after == Evaluated(Hierarchy, new, price)
         IN  /\ Sound(after) /\ Distinct(after.registry)
             /\ Keeps(registry, after.registry)
             /\ Loaded(Checkpointed(after)) = after
             /\ \A s \in Sides : \A w :
                  SeenIn(after.registry, s, w)
                    <=> SeenIn(registry, s, w) \/ (w = new[s] /\ w # None)
<1> DEFINE after == Evaluated(Hierarchy, new, price)
<1>1. /\ Sound(Hierarchy) /\ Good(Hierarchy) /\ Hierarchy.registry = registry
      /\ Distinct(registry) /\ Loaded(saved) = Hierarchy
  BY DEF HierarchyInv, Sound, Hierarchy, NoSwingTwice, SavedIsCurrent
<1>2. /\ Good(after) /\ Keeps(registry, after.registry)
      /\ after.registry = registry => after = Hierarchy
  BY <1>1, EvaluatedKeeps
<1>3. Sound(after)
  BY <1>1, EvaluatedSound
<1>4. /\ Distinct(after.registry)
      /\ \A s \in Sides : \A w :
           SeenIn(after.registry, s, w)
             <=> SeenIn(registry, s, w) \/ (w = new[s] /\ w # None)
  BY <1>1, EvaluatedIsDistinct
<1> HIDE DEF after
<1>5. Loaded(Checkpointed(after)) = after
  <2>1. CASE after.registry # registry
    BY <1>2, <2>1, LoadedDocument DEF Checkpointed
  <2>2. CASE after.registry = registry
    BY <1>1, <1>2, <2>2 DEF Checkpointed
  <2> QED
    BY <2>1, <2>2
<1> QED
  BY <1>2, <1>3, <1>4, <1>5 DEF after

LEMMA EvaluateStep ==
  ASSUME HierarchyInv, NEW new \in [Sides -> {None} \cup Swing], AllNew(registry, new),
         NEW price \in Prices, EvaluateHierarchy(new, price)
  PROVE  /\ HierarchyInv' /\ Keeps(registry, registry')
         /\ \A s \in Sides : \A w :
              SeenIn(registry', s, w) <=> SeenIn(registry, s, w) \/ (w = new[s] /\ w # None)
<1> DEFINE after == Evaluated(Hierarchy, new, price)
<1>1. /\ Sound(after) /\ Distinct(after.registry) /\ Keeps(registry, after.registry)
      /\ Loaded(Checkpointed(after)) = after
      /\ \A s \in Sides : \A w :
           SeenIn(after.registry, s, w)
             <=> SeenIn(registry, s, w) \/ (w = new[s] /\ w # None)
  BY EvaluatedHolds
<1>2. /\ registry' = after.registry /\ frontier' = after.frontier
      /\ fragments' = after.fragments /\ saved' = Checkpointed(after)
  BY DEF EvaluateHierarchy
<1> HIDE DEF after
<1>3. Hierarchy' = after
  BY <1>1, <1>2 DEF Hierarchy, Sound, Good, Hierarchies
<1>4. Sound(Hierarchy)'
  BY <1>1, <1>3, SoundStays
<1>5. SavedIsCurrent'
  BY <1>1, <1>2, <1>3 DEF SavedIsCurrent, Loaded
<1>6. NoSwingTwice'
  BY <1>1, <1>2 DEF NoSwingTwice, Distinct
<1> QED
  BY <1>1, <1>2, <1>4, <1>5, <1>6 DEF HierarchyInv

LEMMA ArchiveStep ==
  ASSUME HierarchyInv, NEW i, NEW closing, Archive(i, closing)
  PROVE  HierarchyInv' /\ Keeps(registry, registry')
<1> DEFINE reg == [registry EXCEPT ![i].lifecycle = "ARCHIVED"]
           after == Put(Hierarchy, reg)
           n == Len(registry)
<1>1. /\ Good(Hierarchy) /\ Hierarchy.registry = registry /\ Hierarchy.frontier = frontier
      /\ registry \in Seq(Record) /\ n \in Nat /\ DOMAIN registry = 1..n
  BY DEF HierarchyInv, Sound, Hierarchy, Good, WellFormed
<1>2. /\ i \in DOMAIN registry
      /\ registry' = after.registry /\ fragments' = after.fragments
      /\ saved' = Document(after) /\ frontier' = frontier
  BY DEF Archive
<1>3. reg \in [DOMAIN Hierarchy.registry -> Record]
  <2>1. ASSUME NEW r \in Record
        PROVE  [r EXCEPT !.lifecycle = "ARCHIVED"] \in Record
    BY DEF Record, Lifecycles
  <2>2. registry[i] \in Record
    BY <1>1, <1>2
  <2> QED
    BY <1>1, <1>2, <2>1, <2>2
<1>4. \A k \in 1..n :
        /\ Frozen(registry[k], reg[k])
        /\ registry[k].lifecycle \in Terminal =>
             reg[k].lifecycle \in {registry[k].lifecycle, "ARCHIVED"}
  <2>1. \A k \in 1..n : registry[k] \in Record
    BY <1>1
  <2> QED
    BY <1>1, <1>2, <2>1 DEF Frozen, Record
<1> HIDE DEF reg
<1>5. Rewritten(Hierarchy, after, n)
  BY <1>1, <1>3, <1>4, PutRewrites DEF SamePlace, Frozen
<1> HIDE DEF after
<1>6. Sound(after) /\ Good(after) /\ after.frontier = frontier
  BY <1>1, <1>5, RewrittenSound DEF HierarchyInv, Rewritten
<1>7. Hierarchy' = after
  BY <1>2, <1>6 DEF Hierarchy, Good, Hierarchies
<1>8. Keeps(registry, after.registry)
  BY <1>1, <1>5 DEF Rewritten, Keeps
<1>9. Loaded(saved') = after
  BY <1>2, <1>6, LoadedDocument
<1>10. Sound(Hierarchy)'
  BY <1>6, <1>7, SoundStays
<1>11. SavedIsCurrent'
  BY <1>7, <1>9 DEF SavedIsCurrent, Loaded
<1>12. NoSwingTwice'
  BY <1>1, <1>2, <1>5, RewrittenSeen DEF HierarchyInv, NoSwingTwice, Distinct
<1> QED
  BY <1>2, <1>8, <1>10, <1>11, <1>12 DEF HierarchyInv

\* Nothing is lost or changed by a restart: the file is what the process held.
LEMMA RestoreStep ==
  ASSUME HierarchyInv, Restore
  PROVE  HierarchyInv' /\ Keeps(registry, registry')
<1>1. /\ registry' = Loaded(saved).registry /\ frontier' = Loaded(saved).frontier
      /\ fragments' = Loaded(saved).fragments /\ saved' = saved
  BY DEF Restore
<1>2. Loaded(saved) = [registry |-> registry, frontier |-> frontier, fragments |-> fragments]
  BY DEF HierarchyInv, SavedIsCurrent, Hierarchy
<1>3. registry' = registry /\ frontier' = frontier /\ fragments' = fragments
  BY <1>1, <1>2
<1>4. Hierarchy' = Hierarchy
  BY <1>3 DEF Hierarchy
<1>5. Sound(Hierarchy)'
  BY <1>4, SoundStays DEF HierarchyInv
<1>6. SavedIsCurrent'
  BY <1>1, <1>4 DEF HierarchyInv, SavedIsCurrent, Loaded
<1>7. NoSwingTwice'
  BY <1>3 DEF HierarchyInv, NoSwingTwice, Distinct
<1> QED
  BY <1>3, <1>5, <1>6, <1>7, KeepsItself DEF HierarchyInv

LEMMA HierarchyStep ==
  ASSUME HierarchyInv, HNext
  PROVE  HierarchyInv' /\ Keeps(registry, registry')
<1>1. CASE \E high \in Unseen("HIGH"), low \in Unseen("LOW"), price \in Prices :
             EvaluateHierarchy([s \in Sides |-> IF s = "HIGH" THEN high ELSE low], price)
  <2>1. PICK high \in Unseen("HIGH"), low \in Unseen("LOW"), price \in Prices :
             EvaluateHierarchy([s \in Sides |-> IF s = "HIGH" THEN high ELSE low], price)
    BY <1>1
  <2> DEFINE new == [s \in Sides |-> IF s = "HIGH" THEN high ELSE low]
  <2>2. new \in [Sides -> {None} \cup Swing]
    BY DEF Unseen
  <2>3. AllNew(registry, new)
    <3>1. \A s \in Sides : new[s] \in Unseen(s)
      BY DEF Sides
    <3>2. Hierarchy.registry = registry
      BY DEF Hierarchy
    <3> HIDE DEF new
    <3> QED
      BY <3>1, <3>2, SeenIsSeenIn DEF AllNew, Unseen
  <2> QED
    BY <2>1, <2>2, <2>3, EvaluateStep
<1>2. CASE \E i, closing \in DOMAIN registry : Archive(i, closing)
  BY <1>2, ArchiveStep
<1>3. CASE Restore
  BY <1>3, RestoreStep
<1> QED
  BY <1>1, <1>2, <1>3 DEF HNext

LEMMA HierarchyStutter ==
  ASSUME HierarchyInv, UNCHANGED hvars
  PROVE  HierarchyInv'
<1>1. Hierarchy' = Hierarchy /\ saved' = saved
  BY DEF hvars, Hierarchy
<1>2. Sound(Hierarchy)'
  BY <1>1, SoundStays DEF HierarchyInv
<1>3. SavedIsCurrent'
  BY <1>1 DEF HierarchyInv, SavedIsCurrent, Loaded
<1>4. NoSwingTwice'
  BY DEF hvars, HierarchyInv, NoSwingTwice, Distinct
<1> QED
  BY <1>2, <1>3, <1>4 DEF HierarchyInv

-----------------------------------------------------------------------------
(* The theorems.                                                            *)

LEMMA InvariantHolds == HSpec => []HierarchyInv
<1>1. HierarchyInv /\ [HNext]_hvars => HierarchyInv'
  BY HierarchyStep, HierarchyStutter
<1> QED
  BY <1>1, InitHierarchy, PTL DEF HSpec

\* Whatever swings and prices come, and whatever was archived or restored, the
\* registry and its frontiers are well formed: every id on a frontier is that of a
\* record (evaluate, archive and restore of PersistentStructuralHierarchy).
THEOREM RegistryIsWellFormed == HSpec => []WellFormed(Hierarchy)
<1>1. HierarchyInv => WellFormed(Hierarchy)
  BY DEF HierarchyInv, Sound, Good
<1> QED
  BY <1>1, InvariantHolds, PTL

\* A restart would find exactly what the registry holds: the checkpoint is put
\* together from fragments, and none of them is older than its record.
THEOREM CheckpointFollows == HSpec => []SavedIsCurrent
<1>1. HierarchyInv => SavedIsCurrent
  BY DEF HierarchyInv
<1> QED
  BY <1>1, InvariantHolds, PTL

\* However often the lists of swings repeat one, and whatever restarts lie between,
\* no swing of a side is registered twice (the fingerprint test of _ingest).
THEOREM NoSwingTwiceHolds == HSpec => []NoSwingTwice
<1>1. HierarchyInv => NoSwingTwice
  BY DEF HierarchyInv
<1> QED
  BY <1>1, InvariantHolds, PTL

\* The stack of open swings finds the nearest encloser: for every sequence of swings,
\* evaluations, archivings and restarts, the parent of a swing is the latest earlier
\* swing of its side that is strictly further out (_assign_parent against the
\* docstring of build_hierarchy).
THEOREM ParentsHold == HSpec => []ParentsAreNearest
<1>1. HierarchyInv => ParentsAreNearest
  BY DEF HierarchyInv, Sound, Hierarchy, ParentsAreNearest
<1> QED
  BY <1>1, InvariantHolds, PTL

\* No swing leaves the registry, none gets another parent, depth or category, and
\* none comes back from a terminal lifecycle, over any restart.
THEOREM StructureHolds == HSpec => StructureIsPermanent
<1>1. HierarchyInv /\ [HNext]_hvars =>
        [\A i \in DOMAIN registry :
           /\ i \in DOMAIN registry'
           /\ Frozen(registry[i], registry'[i])
           /\ registry[i].lifecycle \in Terminal =>
                registry'[i].lifecycle \in {registry[i].lifecycle, "ARCHIVED"}]_hvars
  BY HierarchyStep DEF Keeps
<1> QED
  BY <1>1, InvariantHolds, PTL DEF HSpec, StructureIsPermanent

-----------------------------------------------------------------------------
(* The process.                                                             *)

Bar == [open : Prices, high : Prices, low : Prices, close : Prices,
        volume : Nat, at : Times]

BarsType == bars \in [closed : Seq(Bar), forming : {None} \cup Bar]
\* A pivot is at least 40 strong.
Pivots == {w \in Swing : w.strength >= 40}
SwingLists == [highs : Seq(Pivots), lows : Seq(Pivots), history : Seq(Bar)]

LEMMA LastOfType ==
  ASSUME NEW S, NEW s \in Seq(S), NEW n \in Nat
  PROVE  /\ LastOf(s, n) \in Seq(S)
         /\ \A k \in DOMAIN LastOf(s, n) : \E j \in DOMAIN s : s[j] = LastOf(s, n)[k]
<1>1. CASE ~(Len(s) > n)
  BY <1>1 DEF LastOf
<1>2. CASE Len(s) > n
  <2> DEFINE m == Len(s) - n + 1
             t == SubSeq(s, m, Len(s))
  <2>1. m \in Int /\ Len(s) \in Int /\ m >= 1 /\ m <= Len(s) + 1
    BY <1>2
  <2>2. \A i \in m..Len(s) : s[i] \in S /\ i \in DOMAIN s
    BY <2>1
  <2> HIDE DEF m
  <2>3. /\ t \in Seq(S)
        /\ Len(t) = IF m <= Len(s) THEN Len(s) - m + 1 ELSE 0
        /\ \A i \in 1..(Len(s) - m + 1) : t[i] = s[m + i - 1]
    BY <2>1, <2>2, SubSeqProperties
  <2> HIDE DEF t
  <2>4. ASSUME NEW k \in DOMAIN t
        PROVE  \E j \in DOMAIN s : s[j] = t[k]
    <3>1. k \in 1..(Len(s) - m + 1)
      BY <2>1, <2>3
    <3>2. m + k - 1 \in m..Len(s)
      BY <2>1, <3>1
    <3> QED
      BY <2>2, <2>3, <3>1, <3>2
  <2>5. LastOf(s, n) = t
    BY <1>2 DEF LastOf, t, m
  <2> QED
    BY <2>3, <2>4, <2>5
<1> QED
  BY <1>1, <1>2

LEMMA StrengthIsBounded ==
  ASSUME NEW p \in Int, p > 0, NEW r \in Int
  PROVE  PivotStrength(p, r) \in 40..100
<1> DEFINE d == Higher(r, 1)
           q == (50 * p) \div d
<1>1. d \in Int /\ d >= 1
  BY DEF Higher
<1>2. 50 * p \in Nat
  OBVIOUS
<1> HIDE DEF d
<1>3. q \in Nat
  BY <1>1, <1>2
<1> HIDE DEF q
<1>4. Lower(100, 40 + q) \in 40..100
  BY <1>3 DEF Lower
<1> QED
  BY <1>4 DEF PivotStrength, q, d
-----------------------------------------------------------------------------
(* The front: bars and the lists of swings.                                    *)

LEMMA AfterTickType ==
  ASSUME BarsType, NEW b \in Times, NEW price \in Prices
  PROVE  AfterTick(bars, b, price) \in [closed : Seq(Bar), forming : {None} \cup Bar]
<1>1. StartedBar(b, price) \in Bar
  BY DEF StartedBar, Bar
<1>2. bars.closed \in Seq(Bar) /\ bars.forming \in {None} \cup Bar
  BY DEF BarsType
<1>3. CASE Opens(bars, b)
  <2>1. Closes(bars, b) =>
          LastOf(Append(bars.closed, bars.forming), MaxBars) \in Seq(Bar)
    <3> SUFFICES ASSUME bars.forming # None
                 PROVE  LastOf(Append(bars.closed, bars.forming), MaxBars) \in Seq(Bar)
      BY DEF Closes
    <3> DEFINE longer == Append(bars.closed, bars.forming)
    <3>1. longer \in Seq(Bar) /\ MaxBars \in Nat
      BY <1>2, BarsAssumption
    <3> HIDE DEF longer
    <3>2. LastOf(longer, MaxBars) \in Seq(Bar)
      BY <3>1, LastOfType
    <3> QED
      BY <3>2 DEF longer
  <2> QED
    BY <1>1, <1>2, <1>3, <2>1 DEF AfterTick
<1>4. CASE ~Opens(bars, b)
  <2>1. bars.forming \in Bar
    BY <1>2, <1>4 DEF Opens
  <2> DEFINE f == bars.forming
             joined_ == [f EXCEPT !.high = Higher(@, price), !.low = Lower(@, price),
                                  !.close = price, !.volume = @ + 1]
  <2>2. ASSUME NEW f_ \in Bar
        PROVE  [f_ EXCEPT !.high = Higher(@, price), !.low = Lower(@, price),
                          !.close = price, !.volume = @ + 1] \in Bar
    <3>1. f_.high \in Prices /\ f_.low \in Prices /\ f_.volume \in Nat
      BY DEF Bar
    <3>2. Higher(f_.high, price) \in Prices /\ Lower(f_.low, price) \in Prices
      BY <3>1 DEF Higher, Lower
    <3>3. ASSUME NEW hi \in Prices, NEW lo \in Prices, NEW v \in Nat
          PROVE  [f_ EXCEPT !.high = hi, !.low = lo, !.close = price, !.volume = v] \in Bar
      BY DEF Bar
    <3>4. f_.volume + 1 \in Nat
      BY <3>1
    <3>5. [f_ EXCEPT !.high = Higher(f_.high, price), !.low = Lower(f_.low, price),
                     !.close = price, !.volume = f_.volume + 1] \in Bar
      BY <3>2, <3>3, <3>4
    <3> QED
      BY <3>5
  <2>3. joined_ \in Bar
    BY <2>1, <2>2
  <2>4. AfterTick(bars, b, price) = [bars EXCEPT !.forming = joined_]
    BY <1>4 DEF AfterTick, BarsType
  <2> QED
    BY <2>3, <2>4 DEF BarsType
<1> QED
  BY <1>3, <1>4

LEMMA BarsAreInt ==
  ASSUME NEW bar \in Bar
  PROVE  bar.high \in Int /\ bar.low \in Int
<1>1. bar.high \in Prices /\ bar.low \in Prices
  BY DEF Bar
<1>2. Prices \subseteq Int
  BY HierarchyAssumption
<1> QED
  BY <1>1, <1>2

LEMMA PivotType ==
  ASSUME NEW price \in Prices, NEW p \in Int, p > 0, NEW center \in Bar, NEW right \in Bar
  PROVE  Pivot(price, p, center, right) \in Pivots
<1>1. center.high - center.low \in Int
  BY BarsAreInt
<1>2. PivotStrength(p, center.high - center.low) \in Strengths \cap 40..100
  <2>1. PivotStrength(p, center.high - center.low) \in 40..100
    BY <1>1, StrengthIsBounded
  <2>2. 0..100 \subseteq Strengths
    BY ValidatorAssumption, Zenon
  <2> HIDE DEF Pivot
  <2> QED
    BY <2>1, <2>2
<1> QED
  BY <1>2 DEF Pivot, Pivots, Swing, Bar

\* The lists after a bar: what they held, and at most one swing more on each side.
LEMMA AfterBarLists ==
  ASSUME NEW lists \in SwingLists, NEW bar \in Bar
  PROVE  /\ AfterBar(lists, bar) \in SwingLists
         /\ \A s \in Sides : \E w \in Pivots \cup {None} :
              \A k \in DOMAIN Listed(AfterBar(lists, bar), s) :
                \/ Listed(AfterBar(lists, bar), s)[k] = w
                \/ \E j \in DOMAIN Listed(lists, s) :
                     Listed(lists, s)[j] = Listed(AfterBar(lists, bar), s)[k]
<1> DEFINE history == LastOf(Append(lists.history, bar), MaxSwings + 4)
           n       == Len(history)
           left    == history[n - 2]
           center  == history[n - 1]
           up_     == Lower(center.high - left.high, center.high - bar.high)
           down    == Lower(left.low - center.low, bar.low - center.low)
           high    == Pivot(center.high, up_, center, bar)
           low     == Pivot(center.low, down, center, bar)
           highs   == IF up_ > 0 THEN LastOf(Append(lists.highs, high), MaxSwings)
                      ELSE lists.highs
           lows    == IF down > 0 THEN LastOf(Append(lists.lows, low), MaxSwings)
                      ELSE lists.lows
           after   == AfterBar(lists, bar)
<1>1. /\ lists.highs \in Seq(Pivots) /\ lists.lows \in Seq(Pivots)
      /\ lists.history \in Seq(Bar) /\ MaxSwings \in Nat
  BY BarsAssumption DEF SwingLists
<1>2. history \in Seq(Bar) /\ n \in Nat
  <2>1. Append(lists.history, bar) \in Seq(Bar) /\ MaxSwings + 4 \in Nat
    BY <1>1
  <2>2. history \in Seq(Bar)
    BY <2>1, LastOfType
  <2> QED
    BY <2>2
<1> HIDE DEF history
<1>3. CASE n < 3
  <2>1. after = [lists EXCEPT !.history = history]
    BY <1>3 DEF AfterBar, history
  <2>2. after \in SwingLists /\ after.highs = lists.highs /\ after.lows = lists.lows
    BY <1>2, <2>1 DEF SwingLists
  <2> HIDE DEF after
  <2>3. \A s \in Sides : Listed(after, s) = Listed(lists, s)
    BY <2>2 DEF Listed
  <2> QED
    BY <2>2, <2>3 DEF after
<1>4. CASE ~(n < 3)
  <2>1. left \in Bar /\ center \in Bar
    BY <1>2, <1>4
  <2>2. after = [history |-> history, highs |-> highs, lows |-> lows]
    BY <1>4 DEF AfterBar, history
  <2> HIDE DEF n, left, center
  <2>3. up_ \in Int /\ down \in Int
    <3>1. /\ left.high \in Int /\ left.low \in Int /\ center.high \in Int
          /\ center.low \in Int /\ bar.high \in Int /\ bar.low \in Int
      BY <2>1, BarsAreInt
    <3> QED
      BY <3>1 DEF Lower
  <2>4. center.high \in Prices /\ center.low \in Prices
    BY <2>1 DEF Bar
  <2>5. (up_ > 0 => high \in Pivots) /\ (down > 0 => low \in Pivots)
    <3> HIDE DEF up_, down
    <3> QED
      BY <2>1, <2>3, <2>4, PivotType
  <2> HIDE DEF up_, down, high, low, after
  <2>6. ASSUME NEW list \in Seq(Pivots), NEW w \in Pivots
        PROVE  /\ LastOf(Append(list, w), MaxSwings) \in Seq(Pivots)
               /\ \A k \in DOMAIN LastOf(Append(list, w), MaxSwings) :
                    \/ LastOf(Append(list, w), MaxSwings)[k] = w
                    \/ \E j \in DOMAIN list :
                         list[j] = LastOf(Append(list, w), MaxSwings)[k]
    <3> DEFINE longer == Append(list, w)
    <3>1. longer \in Seq(Pivots)
      OBVIOUS
    <3>2. \A j \in DOMAIN longer : longer[j] = w \/ (j \in DOMAIN list /\ longer[j] = list[j])
      OBVIOUS
    <3> HIDE DEF longer
    <3>3. /\ LastOf(longer, MaxSwings) \in Seq(Pivots)
          /\ \A k \in DOMAIN LastOf(longer, MaxSwings) :
               \E j \in DOMAIN longer : longer[j] = LastOf(longer, MaxSwings)[k]
      BY <1>1, <3>1, LastOfType
    <3>4. \A k \in DOMAIN LastOf(longer, MaxSwings) :
            \/ LastOf(longer, MaxSwings)[k] = w
            \/ \E j \in DOMAIN list : list[j] = LastOf(longer, MaxSwings)[k]
      BY <3>2, <3>3
    <3> QED
      BY <3>3, <3>4 DEF longer
  <2>7. /\ highs \in Seq(Pivots)
        /\ \E w \in Pivots \cup {None} : \A k \in DOMAIN highs :
             highs[k] = w \/ \E j \in DOMAIN lists.highs : lists.highs[j] = highs[k]
    <3>1. CASE up_ > 0
      BY <1>1, <2>5, <2>6, <3>1
    <3>2. CASE ~(up_ > 0)
      BY <1>1, <3>2
    <3> QED
      BY <3>1, <3>2
  <2>8. /\ lows \in Seq(Pivots)
        /\ \E w \in Pivots \cup {None} : \A k \in DOMAIN lows :
             lows[k] = w \/ \E j \in DOMAIN lists.lows : lists.lows[j] = lows[k]
    <3>1. CASE down > 0
      BY <1>1, <2>5, <2>6, <3>1
    <3>2. CASE ~(down > 0)
      BY <1>1, <3>2
    <3> QED
      BY <3>1, <3>2
  <2> HIDE DEF highs, lows
  <2>9. after \in SwingLists /\ after.highs = highs /\ after.lows = lows
    BY <1>2, <2>2, <2>7, <2>8 DEF SwingLists
  <2>10. ASSUME NEW s \in Sides
         PROVE  \E w \in Pivots \cup {None} : \A k \in DOMAIN Listed(after, s) :
                  \/ Listed(after, s)[k] = w
                  \/ \E j \in DOMAIN Listed(lists, s) : Listed(lists, s)[j] = Listed(after, s)[k]
    <3>1. CASE s = "HIGH"
      BY <2>7, <2>9, <3>1 DEF Listed
    <3>2. CASE s # "HIGH"
      BY <2>8, <2>9, <3>2 DEF Listed
    <3> QED
      BY <3>1, <3>2
  <2> QED
    BY <2>9, <2>10 DEF after
<1> QED
  BY <1>3, <1>4

-----------------------------------------------------------------------------
(* The invariant.                                                            *)

\* The feed is no longer than the quotes, and its n-th tick lies in one of its first n
\* buckets.
FeedType ==
  /\ feed \in Seq([at : Nat, price : Prices]) /\ Len(feed) <= Len(Quotes)
  /\ \A k \in DOMAIN feed : feed[k].at <= k
  /\ cursor \in 0..Len(feed)

FrontType ==
  /\ up \in BOOLEAN /\ FeedType
  /\ BarsType /\ swings \in SwingLists /\ evaluated \in Nat

\* What a process that starts now would go on from: sound, and nothing is lost or
\* changed that the process that runs, or ran last, had said.
Resumes(reg, l) == Sound(l) /\ Distinct(l.registry) /\ Keeps(reg, l.registry)

ListsAreSeen ==
  \A s \in Sides : \A k \in DOMAIN Listed(swings, s) :
    SeenIn(registry, s, Listed(swings, s)[k])

ValidatorInv ==
  /\ FrontType
  /\ Sound(Hierarchy) /\ NoSwingTwice
  /\ Resumes(registry, Loaded(saved))
  /\ told \subseteq Entries(Loaded(saved).registry)
  /\ up => SavedIsCurrent /\ savedPhase = phase /\ ListsAreSeen

LEMMA ResumesStays ==
  ASSUME NEW r, NEW l, Resumes(r, l), registry' = r, Loaded(saved)' = l
  PROVE  Resumes(registry, Loaded(saved))'
BY DEF Resumes, Sound, Good, WellFormed, Nested, NearestParents, Unreached, Encloses,
       Distinct, Keeps, Frozen

LEMMA SameSaved ==
  ASSUME saved' = saved
  PROVE  Loaded(saved)' = Loaded(saved)
BY DEF Loaded

\* The swings of a registry keep their ids in one that keeps its records.
LEMMA EntriesKept ==
  ASSUME NEW a, NEW b, Keeps(a, b)
  PROVE  Entries(a) \subseteq Entries(b)
BY DEF Entries, Keeps, Frozen

LEMMA InitValidator == LInit => ValidatorInv
<1> SUFFICES ASSUME LInit PROVE ValidatorInv
  OBVIOUS
<1>1. Sound(Hierarchy) /\ NoSwingTwice /\ SavedIsCurrent
  BY InitHierarchy DEF LInit, HierarchyInv
<1>2. Resumes(registry, Loaded(saved))
  BY <1>1, KeepsItself DEF SavedIsCurrent, Resumes, NoSwingTwice, Hierarchy
<1>3. FrontType
  <2>1. Len(Quotes) \in Nat
    BY ValidatorAssumption
  <2>2. BarsType
    BY DEF LInit, Fresh, BarsType, NoBars
  <2>3. swings \in SwingLists
    BY DEF LInit, Fresh, SwingLists, NoSwings
  <2>4. FeedType
    BY <2>1 DEF LInit, FeedType
  <2> QED
    BY <2>2, <2>3, <2>4 DEF FrontType, LInit, Fresh
<1>4. ListsAreSeen
  BY DEF LInit, Fresh, NoSwings, ListsAreSeen, Listed
<1>5. savedPhase = phase /\ told = {}
  BY DEF LInit
<1> QED
  BY <1>1, <1>2, <1>3, <1>4, <1>5 DEF ValidatorInv

\* The lists after a tick of bucket b.
ListsAfter(b) == IF Closes(bars, b) THEN AfterBar(swings, bars.forming) ELSE swings

LEMMA ListsAfterTick ==
  ASSUME FrontType, NEW b
  PROVE  /\ ListsAfter(b) \in SwingLists
         /\ \A s \in Sides : \E w \in Pivots \cup {None} :
              \A k \in DOMAIN Listed(ListsAfter(b), s) :
                \/ Listed(ListsAfter(b), s)[k] = w
                \/ \E j \in DOMAIN Listed(swings, s) :
                     Listed(swings, s)[j] = Listed(ListsAfter(b), s)[k]
<1>1. swings \in SwingLists
  BY DEF FrontType
<1>2. CASE Closes(bars, b)
  <2>1. bars.forming \in Bar
    BY <1>2 DEF FrontType, BarsType, Closes
  <2> QED
    BY <1>1, <1>2, <2>1, AfterBarLists DEF ListsAfter
<1>3. CASE ~Closes(bars, b)
  BY <1>1, <1>3 DEF ListsAfter
<1> QED
  BY <1>2, <1>3

LEMMA ListedType ==
  ASSUME NEW lists \in SwingLists, NEW s
  PROVE  Listed(lists, s) \in Seq(Pivots)
BY DEF SwingLists, Listed

\* What a tick brings is a swing of the lists that the registry lacks, or nothing.
LEMMA ArrivalIsNew ==
  ASSUME NEW lists \in SwingLists, NEW new, new = [s \in Sides |-> Arrival(lists, s)]
  PROVE  /\ new \in [Sides -> {None} \cup Swing]
         /\ \A s \in Sides : new[s] \in {None} \cup Pivots
         /\ AllNew(registry, new)
         /\ \A s \in Sides : \A k \in DOMAIN Listed(lists, s) :
              ~SeenIn(registry, s, Listed(lists, s)[k]) =>
                \E j \in DOMAIN Listed(lists, s) : /\ new[s] = Listed(lists, s)[j]
                                                   /\ ~SeenIn(registry, s, new[s])
<1>1. ASSUME NEW s \in Sides
      PROVE  /\ new[s] \in {None} \cup Pivots
             /\ new[s] = None \/ ~SeenIn(registry, s, new[s])
             /\ \A k \in DOMAIN Listed(lists, s) :
                  ~SeenIn(registry, s, Listed(lists, s)[k]) =>
                    \E j \in DOMAIN Listed(lists, s) : /\ new[s] = Listed(lists, s)[j]
                                                       /\ ~SeenIn(registry, s, new[s])
  <2> DEFINE list == Listed(lists, s)
             U == {k \in DOMAIN list : ~Seen(Hierarchy, s, list[k])}
             c == CHOOSE k \in U : TRUE
  <2>1. list \in Seq(Pivots)
    BY ListedType
  <2>2. \A k \in DOMAIN list : list[k] \in Pivots
    BY <2>1
  <2>3. Hierarchy.registry = registry
    BY DEF Hierarchy
  <2>4. U = {k \in DOMAIN list : ~SeenIn(registry, s, list[k])}
    BY <2>3, SeenIsSeenIn
  <2>5. new[s] = IF U = {} THEN None ELSE list[c]
    BY DEF Arrival
  <2>6. U # {} => c \in U
    OBVIOUS
  <2> HIDE DEF list, U, c
  <2>7. CASE U = {}
    <3>1. new[s] = None
      BY <2>5, <2>7
    <3>2. \A k \in DOMAIN list : SeenIn(registry, s, list[k])
      BY <2>4, <2>7
    <3> QED
      BY <3>1, <3>2 DEF list
  <2>8. CASE U # {}
    <3>1. /\ new[s] = list[c] /\ c \in DOMAIN list /\ list[c] \in Pivots
          /\ ~SeenIn(registry, s, list[c])
      BY <2>2, <2>4, <2>5, <2>6, <2>8
    <3>2. \E j \in DOMAIN list : new[s] = list[j] /\ ~SeenIn(registry, s, new[s])
      BY <3>1
    <3> QED
      BY <3>1, <3>2 DEF list
  <2> QED
    BY <2>7, <2>8
<1> QED
  BY <1>1 DEF AllNew, Pivots

\* The next tick is one of the feed, or one that extends it.
LEMMA ArrivesType ==
  ASSUME FrontType, NEW b, NEW price, Arrives(b, price)
  PROVE  b \in Times /\ price \in Prices /\ FeedType'
<1> DEFINE tick == [at |-> b, price |-> price]
           n == Len(feed)
<1>1. /\ Len(Quotes) \in Nat /\ Quotes \in Seq(SUBSET Prices)
      /\ 0..Len(Quotes) \subseteq Times
  <2>1. Quotes \in Seq(SUBSET Prices) /\ 0..Len(Quotes) \subseteq Times
    BY ValidatorAssumption, Zenon
  <2> QED
    BY <2>1
<1>2. /\ feed \in Seq([at : Nat, price : Prices]) /\ n <= Len(Quotes) /\ n \in Nat
      /\ \A k \in DOMAIN feed : feed[k].at <= k
      /\ cursor \in 0..n /\ cursor' = cursor + 1
      /\ tick \in Coming /\ tick.at = b /\ tick.price = price
      /\ feed' = IF cursor < n THEN feed ELSE Append(feed, tick)
  BY DEF FrontType, FeedType, Arrives
<1> HIDE DEF tick
<1>3. \A k \in 1..n : feed[k] \in [at : Nat, price : Prices] /\ feed[k].at \in 0..k
  <2>1. feed \in Seq([at : Nat, price : Prices]) /\ DOMAIN feed = 1..n
    BY <1>2
  <2>2. \A k \in 1..n : feed[k] \in [at : Nat, price : Prices]
    BY <2>1, ElementOfSeq
  <2>3. \A k \in 1..n : feed[k].at <= k
    BY <1>2, <2>1
  <2> QED
    BY <2>2, <2>3
\* A tick that was written before.
<1>4. CASE cursor < n
  <2>1. tick = feed[cursor + 1] /\ cursor + 1 \in 1..n
    BY <1>2, <1>4 DEF Coming
  <2>2. tick.price \in Prices /\ tick.at \in 0..(cursor + 1)
    BY <1>3, <2>1
  <2>3. b \in 0..Len(Quotes) /\ price \in Prices
    BY <1>1, <1>2, <2>1, <2>2
  <2>4. FeedType'
    BY <1>2, <1>4, <2>1 DEF FeedType
  <2> QED
    BY <1>1, <2>3, <2>4
\* A new one.
<1>5. CASE ~(cursor < n)
  <2>1. Newest \in 0..n
    <3>1. CASE feed = << >>
      BY <1>2, <3>1 DEF Newest
    <3>2. CASE feed # << >>
      <4>1. n \in 1..n
        BY <1>2, <3>2
      <4> QED
        BY <1>3, <3>2, <4>1 DEF Newest
    <3> QED
      BY <3>1, <3>2
  <2>2. NewBuckets \subseteq 0..(n + 1)
    BY <1>2, <2>1 DEF NewBuckets
  <2>3. /\ n < Len(Quotes)
        /\ \E a \in NewBuckets, p \in Quotes[n + 1] : tick = [at |-> a, price |-> p]
    BY <1>2, <1>5 DEF Coming
  <2>4. Quotes[n + 1] \subseteq Prices
    BY <1>1, <1>2, <2>3
  <2>5. b \in 0..(n + 1) /\ price \in Prices /\ tick \in [at : Nat, price : Prices]
    BY <1>2, <2>2, <2>3, <2>4
  <2>6. /\ feed' \in Seq([at : Nat, price : Prices]) /\ Len(feed') = n + 1
        /\ \A k \in 1..(n + 1) : feed'[k] = IF k = n + 1 THEN tick ELSE feed[k]
    BY <1>2, <1>5, <2>5
  <2>7. \A k \in DOMAIN feed' : feed'[k].at <= k
    BY <1>2, <2>5, <2>6
  <2>8. cursor' \in 0..Len(feed')
    BY <1>2, <1>5, <2>6
  <2>9. b \in 0..Len(Quotes)
    BY <1>1, <1>2, <2>3, <2>5
  <2> QED
    BY <1>1, <1>2, <2>3, <2>5, <2>6, <2>7, <2>8, <2>9 DEF FeedType
<1> QED
  BY <1>4, <1>5

-----------------------------------------------------------------------------
(* The steps.                                                               *)

LEMMA TickStep ==
  ASSUME ValidatorInv, NEW b, NEW price, Tick(b, price)
  PROVE  ValidatorInv' /\ Keeps(registry, registry')
<1> DEFINE new == [s \in Sides |-> Arrival(swings', s)]
<1>1. /\ FrontType /\ HierarchyInv /\ ListsAreSeen /\ up
  BY DEF ValidatorInv, HierarchyInv, Tick, Arrives
<1>2. b \in Times /\ price \in Prices /\ FeedType'
  BY <1>1, ArrivesType DEF Tick
<1>3. bars' = AfterTick(bars, b, price) /\ swings' = ListsAfter(b)
  BY DEF Tick, Ingests, ListsAfter
<1>4. /\ swings' \in SwingLists
      /\ \A s \in Sides : \E w \in Pivots \cup {None} :
           \A k \in DOMAIN Listed(swings', s) :
             \/ Listed(swings', s)[k] = w
             \/ \E j \in DOMAIN Listed(swings, s) :
                  Listed(swings, s)[j] = Listed(swings', s)[k]
  BY <1>1, <1>3, ListsAfterTick
<1>5. FrontType'
  <2>1. bars' \in [closed : Seq(Bar), forming : {None} \cup Bar]
    BY <1>1, <1>2, <1>3, AfterTickType DEF FrontType
  <2>2. up' = up /\ evaluated' = evaluated + 1
    BY DEF Tick
  <2> QED
    BY <1>1, <1>2, <1>4, <2>1, <2>2 DEF FrontType, BarsType
<1>6. /\ new \in [Sides -> {None} \cup Swing]
      /\ AllNew(registry, new)
      /\ \A s \in Sides : \A k \in DOMAIN Listed(swings', s) :
           ~SeenIn(registry, s, Listed(swings', s)[k]) =>
             \E j \in DOMAIN Listed(swings', s) : /\ new[s] = Listed(swings', s)[j]
                                                  /\ ~SeenIn(registry, s, new[s])
  BY <1>4, ArrivalIsNew
<1>7. EvaluateHierarchy(new, price)
  BY DEF Tick
<1> HIDE DEF new
<1>8. /\ HierarchyInv' /\ Keeps(registry, registry')
      /\ \A s \in Sides : \A w :
           SeenIn(registry', s, w) <=> SeenIn(registry, s, w) \/ (w = new[s] /\ w # None)
  BY <1>1, <1>2, <1>6, <1>7, EvaluateStep
<1>9. ListsAreSeen'
  <2> SUFFICES ASSUME NEW s \in Sides, NEW k \in DOMAIN Listed(swings', s)
               PROVE  SeenIn(registry', s, Listed(swings', s)[k])
    BY DEF ListsAreSeen, SeenIn, Listed
  <2> DEFINE x == Listed(swings', s)[k]
  <2>1. x \in Swing /\ x # None
    <3>1. Listed(swings', s) \in Seq(Pivots)
      BY <1>4, ListedType
    <3>2. x \in Swing
      BY <3>1 DEF Pivots
    <3> QED
      BY <3>2, HierarchyAssumption DEF Swing
  <2>2. CASE SeenIn(registry, s, x)
    BY <1>8, <2>2
  \* What is new to the registry is the one swing that is new to the list.
  <2>3. CASE ~SeenIn(registry, s, x)
    <3>1. PICK w \in Pivots \cup {None} :
            \A i \in DOMAIN Listed(swings', s) :
              \/ Listed(swings', s)[i] = w
              \/ \E j \in DOMAIN Listed(swings, s) :
                   Listed(swings, s)[j] = Listed(swings', s)[i]
      BY <1>4
    <3>2. \A i \in DOMAIN Listed(swings', s) :
            ~SeenIn(registry, s, Listed(swings', s)[i]) => Listed(swings', s)[i] = w
      BY <1>1, <3>1 DEF ListsAreSeen
    <3>3. x = w
      BY <2>3, <3>2
    <3>4. new[s] = w
      BY <1>6, <2>3, <3>2
    <3> QED
      BY <1>8, <2>1, <3>3, <3>4
  <2> QED
    BY <2>2, <2>3
<1>10. Sound(Hierarchy)' /\ NoSwingTwice' /\ SavedIsCurrent'
  BY <1>8 DEF HierarchyInv
<1>11. Resumes(registry, Loaded(saved))'
  <2>1. Loaded(saved)' = Hierarchy' /\ Hierarchy'.registry = registry'
    BY <1>10 DEF SavedIsCurrent, Hierarchy
  <2>2. Sound(Hierarchy') /\ Distinct(registry')
    BY <1>10 DEF NoSwingTwice, Distinct, Sound, Good, WellFormed, Nested, NearestParents,
                 Unreached, Encloses
  <2>3. Resumes(registry', Hierarchy')
    BY <2>1, <2>2, KeepsItself DEF Resumes
  <2> QED
    BY <2>1, <2>3, ResumesStays
<1>12. savedPhase' = phase'
  BY DEF Tick, PhaseSaved
<1>13. told' \subseteq Entries(Loaded(saved)'.registry)
  <2>1. told' = told \cup Entries(registry')
    BY DEF Tick
  <2>2. told \subseteq Entries(registry)
    BY <1>1 DEF ValidatorInv, HierarchyInv, SavedIsCurrent, Hierarchy
  <2>3. Entries(registry) \subseteq Entries(registry')
    BY <1>8, EntriesKept
  <2>4. Loaded(saved)'.registry = registry'
    BY <1>10 DEF SavedIsCurrent, Hierarchy
  <2> QED
    BY <2>1, <2>2, <2>3, <2>4
<1>14. (told \subseteq Entries(Loaded(saved).registry))'
  BY <1>13 DEF Entries
<1> QED
  BY <1>5, <1>8, <1>9, <1>10, <1>11, <1>12, <1>14 DEF ValidatorInv

LEMMA GoneKeeps ==
  ASSUME ValidatorInv, Gone
  PROVE  /\ Sound(Hierarchy)' /\ NoSwingTwice' /\ ~up'
         /\ registry' = registry /\ Keeps(registry, registry')
<1>1. /\ registry' = registry /\ frontier' = frontier /\ fragments' = fragments /\ ~up'
  BY DEF Gone
<1>2. Hierarchy' = Hierarchy
  BY <1>1 DEF Hierarchy
<1>3. Sound(Hierarchy)'
  BY <1>2, SoundStays DEF ValidatorInv
<1>4. NoSwingTwice'
  BY <1>1 DEF ValidatorInv, NoSwingTwice, Distinct
<1> QED
  BY <1>1, <1>3, <1>4, KeepsItself

LEMMA DiesStep ==
  ASSUME ValidatorInv, Dies
  PROVE  ValidatorInv' /\ Keeps(registry, registry')
<1>1. /\ Gone /\ saved' = saved /\ feed' = feed /\ cursor' = cursor /\ told' = told
      /\ bars' = bars /\ swings' = swings /\ up' = FALSE /\ evaluated' = evaluated
  BY DEF Dies, Gone
<1>2. FrontType'
  BY <1>1 DEF ValidatorInv, FrontType, FeedType, BarsType
<1>3. /\ Sound(Hierarchy)' /\ NoSwingTwice' /\ ~up'
      /\ registry' = registry /\ Keeps(registry, registry')
  BY <1>1, GoneKeeps
<1>4. Resumes(registry, Loaded(saved))'
  BY <1>1, <1>3, SameSaved, ResumesStays DEF ValidatorInv
<1>5. (told \subseteq Entries(Loaded(saved).registry))'
  BY <1>1, SameSaved DEF ValidatorInv, Entries
<1> QED
  BY <1>2, <1>3, <1>4, <1>5 DEF ValidatorInv

\* A death between the two checkpoints leaves the file one evaluation ahead of the
\* registry, and that evaluation keeps what was said.
LEMMA DiesInTickStep ==
  ASSUME ValidatorInv, NEW b, NEW price, DiesInTick(b, price)
  PROVE  ValidatorInv' /\ Keeps(registry, registry')
<1> DEFINE new == [s \in Sides |-> Arrival(ListsAfter(b), s)]
           after == Evaluated(Hierarchy, new, price)
<1>1. /\ Arrives(b, price) /\ Gone /\ up /\ saved' = Checkpointed(after)
      /\ bars' = bars /\ swings' = swings /\ up' = FALSE /\ evaluated' = evaluated
      /\ told' = told
  BY DEF DiesInTick, Gone, Arrives, ListsAfter
<1>2. FrontType /\ HierarchyInv
  BY <1>1 DEF ValidatorInv, HierarchyInv
<1>3. price \in Prices /\ FeedType'
  BY <1>1, <1>2, ArrivesType
<1>4. FrontType'
  BY <1>1, <1>2, <1>3 DEF FrontType, BarsType
<1>5. /\ Sound(Hierarchy)' /\ NoSwingTwice' /\ ~up'
      /\ registry' = registry /\ Keeps(registry, registry')
  BY <1>1, GoneKeeps
<1>6. new \in [Sides -> {None} \cup Swing] /\ AllNew(registry, new)
  BY <1>2, ListsAfterTick, ArrivalIsNew
<1> HIDE DEF new
<1>7. /\ Sound(after) /\ Distinct(after.registry) /\ Keeps(registry, after.registry)
      /\ Loaded(Checkpointed(after)) = after
  BY <1>2, <1>3, <1>6, EvaluatedHolds
<1> HIDE DEF after
<1>8. Loaded(saved)' = after
  <2>1. Loaded(saved)' = Loaded(saved')
    BY DEF Loaded
  <2> QED
    BY <1>1, <1>7, <2>1
<1>9. Resumes(registry, Loaded(saved))'
  BY <1>5, <1>7, <1>8, ResumesStays DEF Resumes
<1>10. (told \subseteq Entries(Loaded(saved).registry))'
  <2>1. told \subseteq Entries(registry)
    BY <1>1 DEF ValidatorInv, SavedIsCurrent, Hierarchy
  <2>2. Entries(registry) \subseteq Entries(after.registry)
    BY <1>7, EntriesKept
  <2> QED
    BY <1>1, <1>8, <2>1, <2>2 DEF Entries
<1> QED
  BY <1>4, <1>5, <1>9, <1>10 DEF ValidatorInv

LEMMA RestartStep ==
  ASSUME ValidatorInv, Restart
  PROVE  ValidatorInv' /\ Keeps(registry, registry')
<1> DEFINE l == Loaded(saved)
<1>1. /\ registry' = l.registry /\ frontier' = l.frontier /\ fragments' = l.fragments
      /\ saved' = saved /\ phase' = savedPhase /\ savedPhase' = savedPhase
      /\ up' = TRUE /\ bars' = NoBars /\ swings' = NoSwings
      /\ feed' = feed /\ cursor' = Len(feed) /\ told' = told /\ evaluated' = 0
  BY DEF Restart, Restore, remarks
<1>2. Sound(l) /\ Distinct(l.registry) /\ Keeps(registry, l.registry) /\ l \in Hierarchies
  BY DEF ValidatorInv, Resumes, Sound, Good
<1>3. Loaded(saved)' = l
  BY <1>1, SameSaved
<1> HIDE DEF l
<1>4. Hierarchy' = l
  BY <1>1, <1>2 DEF Hierarchy, Hierarchies
<1>5. Sound(Hierarchy)'
  BY <1>2, <1>4, SoundStays
<1>6. NoSwingTwice'
  BY <1>1, <1>2 DEF NoSwingTwice, Distinct
<1>7. Resumes(registry, Loaded(saved))'
  BY <1>1, <1>2, <1>3, ResumesStays, KeepsItself DEF Resumes
<1>8. SavedIsCurrent'
  BY <1>3, <1>4 DEF SavedIsCurrent
<1>9. ListsAreSeen'
  BY <1>1 DEF ListsAreSeen, Listed, NoSwings, SeenIn
<1>10. FrontType'
  <2>1. NoBars \in [closed : Seq(Bar), forming : {None} \cup Bar]
    BY DEF NoBars
  <2>2. NoSwings \in SwingLists
    BY DEF NoSwings, SwingLists
  <2>3. FeedType'
    BY <1>1 DEF ValidatorInv, FrontType, FeedType
  <2> QED
    BY <1>1, <2>1, <2>2, <2>3 DEF ValidatorInv, FrontType, BarsType
<1>11. (told \subseteq Entries(Loaded(saved).registry))'
  BY <1>1, <1>3 DEF ValidatorInv, Entries, l
<1> QED
  BY <1>1, <1>2, <1>5, <1>6, <1>7, <1>8, <1>9, <1>10, <1>11 DEF ValidatorInv

\* What leaves the process and its files alone: the tail goes back, or nothing moves.
LEMMA ValidatorRests ==
  ASSUME ValidatorInv, FeedType',
         UNCHANGED <<hvars, up, bars, swings, phase, savedPhase, evaluated, told>>
  PROVE  ValidatorInv' /\ Keeps(registry, registry')
<1>1. /\ registry' = registry /\ frontier' = frontier /\ fragments' = fragments
      /\ saved' = saved /\ up' = up /\ bars' = bars /\ swings' = swings
      /\ phase' = phase /\ savedPhase' = savedPhase
      /\ evaluated' = evaluated /\ told' = told
  BY DEF hvars
<1>2. Hierarchy' = Hierarchy /\ Loaded(saved)' = Loaded(saved)
  BY <1>1, SameSaved DEF Hierarchy
<1>3. Sound(Hierarchy)' /\ Resumes(registry, Loaded(saved))'
  BY <1>1, <1>2, SoundStays, ResumesStays DEF ValidatorInv
<1>4. NoSwingTwice'
  BY <1>1 DEF ValidatorInv, NoSwingTwice, Distinct
<1>5. FrontType'
  BY <1>1 DEF ValidatorInv, FrontType, BarsType
<1>6. up' => SavedIsCurrent' /\ savedPhase' = phase' /\ ListsAreSeen'
  BY <1>1, <1>2 DEF ValidatorInv, SavedIsCurrent, ListsAreSeen, Listed, SeenIn
<1>7. (told \subseteq Entries(Loaded(saved).registry))'
  BY <1>1, <1>2 DEF ValidatorInv, Entries
<1>8. Keeps(registry, registry')
  BY <1>1, KeepsItself
<1> QED
  BY <1>3, <1>4, <1>5, <1>6, <1>7, <1>8 DEF ValidatorInv

LEMMA RewindStep ==
  ASSUME ValidatorInv, Rewind
  PROVE  ValidatorInv' /\ Keeps(registry, registry')
<1>1. /\ UNCHANGED <<hvars, up, bars, swings, phase, savedPhase, evaluated, told>>
      /\ feed' = feed
  BY DEF Rewind, remarks
<1>2. cursor' \in 0..cursor
  <2>1. cursor' \in Remnants /\ cursor' < cursor /\ Remnants \subseteq Nat
    BY ValidatorAssumption, Zenon DEF Rewind
  <2>2. cursor \in Nat
    BY DEF ValidatorInv, FrontType, FeedType
  <2> QED
    BY <2>1, <2>2
<1>3. FeedType'
  BY <1>1, <1>2 DEF ValidatorInv, FrontType, FeedType
<1> QED
  BY <1>1, <1>3, ValidatorRests

LEMMA ValidatorStep ==
  ASSUME ValidatorInv, LNext
  PROVE  ValidatorInv' /\ Keeps(registry, registry')
BY TickStep, DiesStep, DiesInTickStep, RestartStep, RewindStep DEF LNext

LEMMA ValidatorStutter ==
  ASSUME ValidatorInv, UNCHANGED lvars
  PROVE  ValidatorInv'
<1>1. UNCHANGED <<hvars, up, bars, swings, phase, savedPhase, evaluated, told, feed, cursor>>
  BY DEF lvars, remarks
<1>2. FeedType'
  BY <1>1 DEF ValidatorInv, FrontType, FeedType
<1> QED
  BY <1>1, <1>2, ValidatorRests

-----------------------------------------------------------------------------
(* The theorems.                                                            *)

LEMMA ValidatorInvHolds == LSpec => []ValidatorInv
<1>1. ValidatorInv /\ [LNext]_lvars => ValidatorInv'
  BY ValidatorStep, ValidatorStutter
<1> QED
  BY <1>1, InitValidator, PTL DEF LSpec

\* For any feed, and over any deaths, restarts and files that got shorter, every swing
\* the confirmer lists is registered, once, and no frame's swing loses its id: at most
\* one swing of a side is new in a tick, so taking one arrival of each side leaves none
\* behind (_ingest), and a process that dies leaves a file that lacks nothing its frames
\* had (checkpoint, restore), so an old tick that is read again brings nothing new.
THEOREM ListedAreRegisteredHolds == LSpec => []ListedAreRegistered
<1>1. ASSUME ValidatorInv
      PROVE  ListedAreRegistered
  <2>1. NoSwingTwice /\ (up => ListsAreSeen)
    BY <1>1 DEF ValidatorInv
  <2>2. up => told \subseteq Entries(registry)
    BY <1>1 DEF ValidatorInv, SavedIsCurrent, Hierarchy
  <2> QED
    BY <2>1, <2>2, SeenIsSeenIn DEF ListedAreRegistered, Current, ListsAreSeen, Hierarchy
<1> QED
  BY <1>1, ValidatorInvHolds, PTL

\* While the process runs, its two checkpoints are what it holds: a restart goes on
\* from exactly there (checkpoint of the registry and of the initiative).
THEOREM CheckpointIsCurrentHolds == LSpec => []CheckpointIsCurrent
<1>1. ValidatorInv => CheckpointIsCurrent
  BY DEF ValidatorInv, CheckpointIsCurrent
<1> QED
  BY <1>1, ValidatorInvHolds, PTL

\* For any feed the stack of open swings finds the nearest encloser (_assign_parent
\* against the docstring of build_hierarchy), deaths within a tick included.
THEOREM ParentsAreNearestHolds == LSpec => []ParentsAreNearest
<1>1. ValidatorInv => ParentsAreNearest
  BY DEF ValidatorInv, Sound, Hierarchy, ParentsAreNearest
<1> QED
  BY <1>1, ValidatorInvHolds, PTL

\* No swing leaves the registry of the validator, none gets another parent, depth or
\* category, and none comes back from a terminal lifecycle, though the process may
\* die at any point of a tick and the next one reads the file it left.
THEOREM StructureIsPermanentHolds == LSpec => StructureIsPermanent
<1>1. ValidatorInv /\ [LNext]_lvars =>
        [\A i \in DOMAIN registry :
           /\ i \in DOMAIN registry'
           /\ Frozen(registry[i], registry'[i])
           /\ registry[i].lifecycle \in Terminal =>
                registry'[i].lifecycle \in {registry[i].lifecycle, "ARCHIVED"}]_hvars
  BY ValidatorStep DEF Keeps, lvars
<1> QED
  BY <1>1, ValidatorInvHolds, PTL DEF LSpec, StructureIsPermanent

\* Without control, an initiative that has ended or never was stays without a phase.
Idle == {"NONE", "EXPIRED"}
LEMMA EndsOnce ==
  ASSUME NEW candles, NEW previous
  PROVE  LET i == Initiative(candles, previous)
         IN  /\ i.phase = "EXPIRED" => i.side = "NONE" /\ previous \notin Idle
             /\ i.side = "NONE" => i.phase \in Idle
<1> DEFINE Ends(i) == /\ i.phase = "EXPIRED" => i.side = "NONE" /\ previous \notin Idle
                      /\ i.side = "NONE" => i.phase \in Idle
<1>1. \A side, score : Ends(Phased(side, score, previous))
  BY DEF Phased, NextPhase, Idle
<1> HIDE DEF Ends
<1>2. \A buyer, seller : Ends(Led(buyer, seller, previous))
  BY <1>1 DEF Led
<1>3. \A evidence : Ends(Judged(evidence, previous))
  BY <1>2 DEF Judged
<1>4. Ends(Initiative(candles, previous))
  BY <1>3 DEF Initiative
<1> QED
  BY <1>4 DEF Ends

LEMMA StagedInitiative ==
  ASSUME NEW candles, NEW price, NEW objectives, NEW states
  PROVE  Staged(candles, price, objectives, states).initiative = Initiative(candles, phase)
<1> DEFINE f1 == Starts(candles, price, objectives, states)
           f2 == Answers(f1, candles)
           f3 == Continues(f2, candles)
<1>1. f1.initiative = Initiative(candles, phase)
  BY DEF Starts, NoFrame
<1>2. f2.initiative = f1.initiative
  BY DEF Answers, Starts, NoFrame
<1>3. f3.initiative = f2.initiative
  BY DEF Continues, Answers, Starts, NoFrame
<1>4. Breaks(f3).initiative = f3.initiative
  BY DEF Breaks, Continues, Answers, Starts, NoFrame
<1> QED
  BY <1>1, <1>2, <1>3, <1>4 DEF Staged

\* Once an end was reported, and nobody has come to control again, no process goes on
\* from a phase of control: neither the one that runs nor one that finds the file.
SpentInv == spent => savedPhase \in Idle

LEMMA SpentStep ==
  ASSUME ValidatorInv, SpentInv, [LNext]_lvars
  PROVE  /\ SpentInv'
         /\ [evaluated' = evaluated + 1 /\ frame'.initiative.phase = "EXPIRED" => ~spent]_lvars
<1> DEFINE Once == frame'.initiative.phase = "EXPIRED" => ~spent
<1>1. ASSUME NEW b, NEW price, Tick(b, price)
      PROVE  SpentInv' /\ Once
  <2> DEFINE i == Initiative(Candles(bars'), phase)
  <2>1. frame'.initiative = i
    <3>1. frame' = Staged(Candles(bars'), price, active', state')
      BY <1>1 DEF Tick
    <3> QED
      BY <3>1, StagedInitiative
  <2>2. spent => phase \in Idle
    BY <1>1 DEF ValidatorInv, SpentInv, Tick, Arrives
  <2>3. /\ i.phase = "EXPIRED" => i.side = "NONE" /\ phase \notin Idle
        /\ i.side = "NONE" => i.phase \in Idle
    BY EndsOnce
  <2> HIDE DEF i
  <2>4. savedPhase' = i.phase /\ (spent' => i.phase = "EXPIRED" \/ i.side = "NONE")
    BY <1>1, <2>1 DEF Tick, PhaseSaved, Spent
  <2> QED
    BY <2>1, <2>2, <2>3, <2>4 DEF SpentInv
<1>2. ASSUME NEW b, NEW price, DiesInTick(b, price)
      PROVE  SpentInv' /\ evaluated' = evaluated
  <2> DEFINE i == Initiative(Candles(AfterTick(bars, b, price)), phase)
  <2>1. i.side = "NONE" => i.phase \in Idle
    BY EndsOnce
  <2> HIDE DEF i
  <2>2. \/ savedPhase' = savedPhase /\ spent' = spent
        \/ savedPhase' = i.phase /\ spent' = (spent /\ i.side = "NONE")
    BY <1>2 DEF DiesInTick, PhaseSaved, i
  <2>3. evaluated' = evaluated
    BY <1>2 DEF DiesInTick, Gone
  <2>4. SpentInv'
    <3>1. CASE savedPhase' = savedPhase /\ spent' = spent
      BY <3>1 DEF SpentInv
    <3>2. CASE savedPhase' = i.phase /\ spent' = (spent /\ i.side = "NONE")
      BY <2>1, <3>2, Zenon DEF SpentInv
    <3> QED
      BY <2>2, <3>1, <3>2
  <2> QED
    BY <2>3, <2>4
<1>3. ASSUME Dies \/ Restart \/ Rewind \/ UNCHANGED lvars
      PROVE  SpentInv' /\ (lvars' = lvars \/ evaluated' = evaluated \/ evaluated' = 0)
  <2>1. savedPhase' = savedPhase /\ spent' = spent
    BY <1>3 DEF Dies, Restart, Rewind, Gone, lvars, remarks
  <2>2. lvars' = lvars \/ evaluated' = evaluated \/ evaluated' = 0
    BY <1>3 DEF Dies, Restart, Rewind, Gone
  <2> QED
    BY <2>1, <2>2 DEF SpentInv
<1>4. evaluated \in Nat
  BY DEF ValidatorInv, FrontType
<1> QED
  BY <1>1, <1>2, <1>3, <1>4 DEF LNext

\* Between two reports of an end someone was in control (advance_lifecycle), whatever
\* deaths lie between, and however much of a tick was saved: the process that follows
\* starts from the phase of the last evaluation that was reported, or from a later one
\* (InitiativeEngine.checkpoint and restore).
THEOREM ExpiresOnceHolds == LSpec => ExpiresOnce
<1>1. LInit => SpentInv
  BY DEF LInit, SpentInv
<1>2. ValidatorInv /\ SpentInv /\ [LNext]_lvars => SpentInv'
  BY SpentStep
<1>3. ValidatorInv /\ SpentInv /\ [LNext]_lvars =>
        [evaluated' = evaluated + 1 /\ frame'.initiative.phase = "EXPIRED" => ~spent]_lvars
  BY SpentStep
<1> QED
  BY <1>1, <1>2, <1>3, ValidatorInvHolds, PTL DEF LSpec, ExpiresOnce

-----------------------------------------------------------------------------
(* The objectives.                                                         *)

Alive == {"ACTIVE", "CHALLENGED"}

-----------------------------------------------------------------------------
(* The records an evaluation leaves, one by one.                               *)

LEMMA PutRegistry ==
  ASSUME NEW h, Good(h), NEW reg
  PROVE  Put(h, reg).registry = reg
BY DEF Put, Good, Hierarchies

\* The records before the price challenges them.
Unchallenged(h, g, price) ==
  Superseded(h, g, Resolved(Classified(g.registry, NewIds(h, g)), NewIds(h, g), price))

LEMMA FollowsRegistry ==
  ASSUME NEW h, NEW g, Good(h), Good(g), NEW price \in Prices
  PROVE  Follows(h, g, price).registry
           = [i \in DOMAIN g.registry |-> ChallengedBy(Unchallenged(h, g, price)[i], price)]
<1> DEFINE n == Len(h.registry)
           ids == NewIds(h, g)
           r1 == Classified(g.registry, ids)
           r2 == Resolved(r1, ids, price)
           r3 == Superseded(h, g, r2)
           s1 == Names(g, ids)
           s2 == Resolves(s1, ids, price)
           s3 == Retires(s2, h, g)
           s4 == Challenges(s3, price)
<1>1. n \in Nat /\ \A i \in 1..n : i \notin ids
  BY DEF Good, WellFormed, NewIds
<1> HIDE DEF n, ids
<1>2. Good(s1) /\ s1.registry = r1
  BY <1>1, NamesRewrites, PutRegistry DEF Rewritten, Names
<1> HIDE DEF s1
<1>3. Good(s2) /\ s2.registry = r2
  BY <1>1, <1>2, ResolvesRewrites, PutRegistry DEF Rewritten, Resolves
<1> HIDE DEF s2
<1>4. Good(s3) /\ s3.registry = r3
  BY <1>1, <1>3, RetiresRewrites, PutRegistry DEF Rewritten, Retires
<1>5. DOMAIN r3 = DOMAIN g.registry
  BY DEF Superseded, Resolved, Classified
<1> HIDE DEF s3, r3
<1>6. s4.registry = [i \in DOMAIN g.registry |-> ChallengedBy(r3[i], price)]
  BY <1>4, <1>5, PutRegistry DEF Challenges
<1>7. Follows(h, g, price) = s4
  BY DEF Follows, Moved, s3, s2, s1, ids
<1> QED
  BY <1>6, <1>7 DEF r3, ids, Unchallenged

\* What became of the record i of g: a category if it is new, a retirement if it is
\* a major one that a new governing root displaced, and a challenge if it was active
\* and the price is through it. Nothing is archived.
Fate(h, g, price, i, now) ==
  LET old == g.registry[i]
      ids == NewIds(h, g)
  IN  /\ SamePlace(old, now)
      /\ now.category = IF i \in ids THEN Category(g.registry, i) ELSE old.category
      /\ now.lifecycle = "ARCHIVED" => old.lifecycle = "ARCHIVED"
      /\ now.lifecycle = "ACTIVE" => ~Beyond(now.side, price, PriceOf(now))
      /\ \A m \in ids :
           /\ g.registry[m].side = old.side /\ g.registry[m].parent = Root
           /\ Category(g.registry, m) = "MAJOR"
           /\ now.category = "MAJOR"
           /\ i \in Displaced(h, g, old.side)
           => now.lifecycle \notin Alive

LEMMA FollowsRecord ==
  ASSUME NEW h, NEW g, Good(h), Good(g), NEW price \in Prices, NEW i \in DOMAIN g.registry
  PROVE  Fate(h, g, price, i, Follows(h, g, price).registry[i])
<1> DEFINE reg == g.registry
           ids == NewIds(h, g)
           r1 == Classified(reg, ids)
           r2 == Resolved(r1, ids, price)
           r3 == Superseded(h, g, r2)
           old == reg[i]
           now == Follows(h, g, price).registry[i]
<1>1. now = ChallengedBy(r3[i], price)
  <2> DEFINE f == Follows(h, g, price).registry
             u == Unchallenged(h, g, price)
  <2>1. f = [k \in DOMAIN g.registry |-> ChallengedBy(u[k], price)]
    BY FollowsRegistry
  <2> HIDE DEF f, u
  <2>2. f[i] = ChallengedBy(u[i], price)
    BY <2>1
  <2> QED
    BY <2>2 DEF Unchallenged, f, u
<1>2. \A k \in DOMAIN reg : reg[k] \in Record
  BY DEF Good, WellFormed
<1>3. ids \subseteq DOMAIN reg
  BY DEF NewIds, Good, WellFormed
<1>4. \A k \in DOMAIN reg :
        /\ r1[k] = IF k \in ids THEN [reg[k] EXCEPT !.category = Category(reg, k)] ELSE reg[k]
        /\ r1[k] \in Record
  <2>1. \A k : Category(reg, k) \in Categories
    BY DEF Category, Categories
  <2>2. \A k \in DOMAIN reg : \A c \in Categories : [reg[k] EXCEPT !.category = c] \in Record
    BY <1>2 DEF Record
  <2>3. \A k \in DOMAIN reg :
          r1[k] = IF k \in ids THEN [reg[k] EXCEPT !.category = Category(reg, k)] ELSE reg[k]
    BY DEF Classified
  <2> HIDE DEF r1
  <2> QED
    BY <1>2, <2>1, <2>2, <2>3
<1>5. \A k \in DOMAIN reg :
        \/ r2[k] = r1[k]
        \/ /\ r1[k].lifecycle = "CHALLENGED"
           /\ r2[k] \in {[r1[k] EXCEPT !.lifecycle = "CONFIRMED_BROKEN"],
                         [r1[k] EXCEPT !.lifecycle = "ACTIVE", !.reclaimed = TRUE]}
  <2>1. DOMAIN r1 = DOMAIN reg
    BY DEF Classified
  <2> HIDE DEF r1
  <2> QED
    BY <2>1 DEF Resolved
<1>6. \A k \in DOMAIN reg :
        /\ r2[k] \in Record /\ SamePlace(reg[k], r2[k])
        /\ r2[k].category = IF k \in ids THEN Category(reg, k) ELSE reg[k].category
        /\ r2[k].lifecycle = "ARCHIVED" => reg[k].lifecycle = "ARCHIVED"
  <2> SUFFICES ASSUME NEW k \in DOMAIN reg
               PROVE  /\ r2[k] \in Record /\ SamePlace(reg[k], r2[k])
                      /\ r2[k].category
                           = IF k \in ids THEN Category(reg, k) ELSE reg[k].category
                      /\ r2[k].lifecycle = "ARCHIVED" => reg[k].lifecycle = "ARCHIVED"
    OBVIOUS
  <2>1. ASSUME NEW r \in Record
        PROVE  /\ [r EXCEPT !.lifecycle = "CONFIRMED_BROKEN"] \in Record
               /\ [r EXCEPT !.lifecycle = "ACTIVE", !.reclaimed = TRUE] \in Record
    BY DEF Record, Lifecycles
  <2>2. /\ SamePlace(reg[k], r1[k])
        /\ r1[k].category = IF k \in ids THEN Category(reg, k) ELSE reg[k].category
        /\ r1[k].lifecycle = reg[k].lifecycle
    BY <1>2, <1>4 DEF SamePlace, Record
  <2>3. r1[k] \in Record
    BY <1>4
  <2> DEFINE a == r1[k]
             b == r2[k]
  <2>4. \/ b = a
        \/ b \in {[a EXCEPT !.lifecycle = "CONFIRMED_BROKEN"],
                  [a EXCEPT !.lifecycle = "ACTIVE", !.reclaimed = TRUE]}
    BY <1>5
  <2> HIDE DEF a, b, r1, r2, ids
  <2>5. /\ b \in Record /\ SamePlace(a, b) /\ b.category = a.category
        /\ b.lifecycle = "ARCHIVED" => a.lifecycle = "ARCHIVED"
    <3>1. a \in Record
      BY <2>3 DEF a
    <3>2. CASE b = a
      BY <3>1, <3>2 DEF SamePlace
    <3>3. CASE b = [a EXCEPT !.lifecycle = "CONFIRMED_BROKEN"]
      BY <2>1, <3>1, <3>3 DEF SamePlace, Record
    <3>4. CASE b = [a EXCEPT !.lifecycle = "ACTIVE", !.reclaimed = TRUE]
      BY <2>1, <3>1, <3>4 DEF SamePlace, Record
    <3> QED
      BY <2>4, <3>2, <3>3, <3>4
  <2> QED
    BY <2>2, <2>5 DEF a, b, SamePlace
<1> DEFINE Governs(side) == \E m \in ids : r2[m].side = side /\ r2[m].category = "MAJOR"
                                             /\ r2[m].parent = Root
           retired == /\ Governs(r2[i].side) /\ i \in Displaced(h, g, r2[i].side)
                      /\ r2[i].category = "MAJOR" /\ r2[i].lifecycle \in Alive
<1>7. r3[i] = IF retired THEN [r2[i] EXCEPT !.lifecycle = "SUPERSEDED"] ELSE r2[i]
  <2>1. DOMAIN r2 = DOMAIN reg
    BY DEF Resolved, Classified
  <2> HIDE DEF r2
  <2> QED
    BY <2>1 DEF Superseded, Alive
<1>8. ASSUME NEW m \in ids, reg[m].side = old.side, reg[m].parent = Root,
             Category(reg, m) = "MAJOR"
      PROVE  Governs(r2[i].side)
  <2>1. m \in DOMAIN reg
    BY <1>3
  <2>2. r2[m].side = reg[m].side /\ r2[m].parent = reg[m].parent
        /\ r2[m].category = "MAJOR" /\ r2[i].side = old.side
    BY <1>6, <1>8, <2>1 DEF SamePlace
  <2> QED
    BY <1>8, <2>2
<1> HIDE DEF r1, r2, ids, Governs
<1> DEFINE x == r2[i]
           y == r3[i]
<1>9. /\ x \in Record /\ SamePlace(old, x)
      /\ x.category = IF i \in ids THEN Category(reg, i) ELSE old.category
      /\ x.lifecycle = "ARCHIVED" => old.lifecycle = "ARCHIVED"
  BY <1>6
<1>10. y = IF retired THEN [x EXCEPT !.lifecycle = "SUPERSEDED"] ELSE x
  BY <1>7
<1>11. retired <=> /\ Governs(old.side) /\ i \in Displaced(h, g, old.side)
                   /\ x.category = "MAJOR" /\ x.lifecycle \in Alive
  BY <1>9 DEF SamePlace
<1> HIDE DEF x, y, r3, retired
<1>12. /\ y \in Record /\ SamePlace(x, y) /\ y.category = x.category
       /\ y.lifecycle = IF retired THEN "SUPERSEDED" ELSE x.lifecycle
  BY <1>9, <1>10 DEF Record, Lifecycles, SamePlace
<1>13. now = ChallengedBy(y, price)
  BY <1>1 DEF y
<1> HIDE DEF now
<1>14. /\ SamePlace(y, now) /\ now.category = y.category
       /\ y.lifecycle \notin Alive => now.lifecycle = y.lifecycle
       /\ y.lifecycle \in Alive => now.lifecycle \in Alive
       /\ now.lifecycle = "ACTIVE" => ~Beyond(now.side, price, PriceOf(now))
  BY <1>12, <1>13 DEF ChallengedBy, Record, SamePlace, Alive, PriceOf
<1>15. ASSUME NEW m \in ids, reg[m].side = old.side, reg[m].parent = Root,
              Category(reg, m) = "MAJOR", now.category = "MAJOR",
              i \in Displaced(h, g, old.side)
       PROVE  now.lifecycle \notin Alive
  <2>1. Governs(old.side)
    BY <1>8, <1>9, <1>15 DEF SamePlace, x
  <2>2. retired \/ x.lifecycle \notin Alive
    BY <1>11, <1>12, <1>14, <1>15, <2>1
  <2>3. y.lifecycle \notin Alive
    BY <1>12, <2>2 DEF Alive
  <2> QED
    BY <1>14, <2>3
<1>16. SamePlace(old, now)
  BY <1>9, <1>12, <1>14 DEF SamePlace
<1>17. now.lifecycle = "ARCHIVED" => old.lifecycle = "ARCHIVED"
  BY <1>9, <1>12, <1>14 DEF Alive
<1>18. now.category = IF i \in ids THEN Category(reg, i) ELSE old.category
  BY <1>9, <1>12, <1>14
<1> HIDE DEF reg, old
<1> QED
  BY <1>14, <1>15, <1>16, <1>17, <1>18 DEF now, ids, reg, old, Fate

-----------------------------------------------------------------------------
(* The choice of a side.                                                      *)

\* A total and transitive relation has a best element in a bounded set of indices.
LEMMA BestExists ==
  ASSUME NEW n \in Nat, NEW I \in SUBSET (1..n), I # {}, NEW R,
         \A i, j \in I : <<i, j>> \in R \/ <<j, i>> \in R,
         \A i, j, k \in I : <<i, j>> \in R /\ <<j, k>> \in R => <<i, k>> \in R
  PROVE  \E i \in I : \A j \in I : <<i, j>> \in R
<1> DEFINE Upto(k) == {i \in I : i <= k}
           Best(k) == \E i \in Upto(k) : \A j \in Upto(k) : <<i, j>> \in R
           K == {k \in 0..n : Upto(k) = {} \/ Best(k)}
<1>1. 0 \in K
  <2>1. \A i \in I : i \in Int /\ i >= 1
    OBVIOUS
  <2>2. Upto(0) = {}
    <3>1. \A i \in I : ~(i <= 0)
      BY <2>1
    <3> QED
      BY <3>1
  <2> QED
    BY <2>2
<1>2. PICK k \in K : \A j \in K : j <= k
  <2> HIDE DEF Upto, Best
  <2>1. K \in SUBSET (0..n) /\ K # {}
    BY <1>1
  <2> HIDE DEF K
  <2> QED
    BY <2>1, LargestExists
<1>3. k = n
  <2> SUFFICES ASSUME k # n PROVE FALSE
    OBVIOUS
  <2>1. k \in 0..n /\ k + 1 \in 0..n
    BY <1>2
  <2>2. \A i \in I : i \in Upto(k + 1) <=> i \in Upto(k) \/ i = k + 1
    BY <2>1
  <2>3. \A m : Upto(m) \subseteq I
    OBVIOUS
  <2>4. Upto(k) = {} \/ Best(k)
    BY <1>2
  <2> HIDE DEF Upto
  <2>5. Upto(k + 1) = {} \/ Best(k + 1)
    <3>1. CASE k + 1 \notin I
      <4>1. Upto(k + 1) = Upto(k)
        BY <2>2, <2>3, <3>1
      <4> QED
        BY <2>4, <4>1
    <3>2. CASE k + 1 \in I /\ Upto(k) = {}
      <4>1. \A i \in Upto(k + 1) : i = k + 1
        BY <2>2, <2>3, <3>2
      <4>2. k + 1 \in Upto(k + 1) /\ <<k + 1, k + 1>> \in R
        BY <2>2, <3>2
      <4> QED
        BY <4>1, <4>2
    <3>3. CASE k + 1 \in I /\ Upto(k) # {}
      <4>1. PICK i \in Upto(k) : \A j \in Upto(k) : <<i, j>> \in R
        BY <2>4, <3>3
      <4>2. i \in I /\ i \in Upto(k + 1) /\ k + 1 \in Upto(k + 1) /\ <<i, i>> \in R
        BY <2>2, <2>3, <3>3, <4>1
      <4>3. \A j \in Upto(k + 1) : j \in Upto(k) \/ j = k + 1
        BY <2>2, <2>3
      <4>4. CASE <<i, k + 1>> \in R
        <5>1. \A j \in Upto(k + 1) : <<i, j>> \in R
          BY <4>1, <4>3, <4>4
        <5> QED
          BY <4>2, <5>1
      <4>5. CASE <<k + 1, i>> \in R
        <5>1. \A j \in Upto(k) : <<k + 1, j>> \in R
          BY <2>3, <3>3, <4>1, <4>2, <4>5
        <5>2. <<k + 1, k + 1>> \in R
          BY <3>3
        <5>3. \A j \in Upto(k + 1) : <<k + 1, j>> \in R
          BY <4>3, <5>1, <5>2
        <5> QED
          BY <4>2, <5>3
      <4> QED
        BY <3>3, <4>2, <4>4, <4>5
    <3> QED
      BY <3>1, <3>2, <3>3
  <2>6. k + 1 \in K
    BY <2>1, <2>5
  <2> QED
    BY <1>2, <2>1, <2>6
<1>4. Upto(n) = I
  <2>1. \A i \in I : i \in Int /\ i <= n
    OBVIOUS
  <2> QED
    BY <2>1
<1>5. Upto(n) = {} \/ Best(n)
  BY <1>2, <1>3
<1> HIDE DEF Upto
<1> QED
  BY <1>4, <1>5

LEMMA DistanceType ==
  ASSUME NEW p \in Int, NEW q \in Int
  PROVE  Distance(p, q) \in Nat
BY DEF Distance

LEMMA SwingIsInt ==
  ASSUME NEW w \in Swing
  PROVE  w.price \in Int /\ w.strength \in Int /\ w.at \in Int /\ w # None
<1>1. w.price \in Prices /\ w.strength \in Strengths /\ w.at \in Times
  BY DEF Swing
<1>2. Prices \subseteq Int /\ Strengths \subseteq Int /\ Times \subseteq Int
  BY HierarchyAssumption
<1>3. w # None
  BY HierarchyAssumption DEF Swing
<1> QED
  BY <1>1, <1>2, <1>3

LEMMA PreferredOrder ==
  ASSUME NEW price \in Int, NEW a \in Swing, NEW b \in Swing, NEW c \in Swing
  PROVE  /\ Preferred(a, b, price) \/ Preferred(b, a, price)
         /\ Preferred(a, b, price) /\ Preferred(b, c, price) => Preferred(a, c, price)
         /\ Preferred(a, b, price) => Distance(a.price, price) <= Distance(b.price, price)
<1> DEFINE da == Distance(a.price, price)
           db == Distance(b.price, price)
           dc == Distance(c.price, price)
<1>1. da \in Nat /\ db \in Nat /\ dc \in Nat
  BY SwingIsInt, DistanceType
<1>2. /\ a.price \in Int /\ a.strength \in Int /\ a.at \in Int
      /\ b.price \in Int /\ b.strength \in Int /\ b.at \in Int
      /\ c.price \in Int /\ c.strength \in Int /\ c.at \in Int
  BY SwingIsInt
<1> HIDE DEF da, db, dc
<1> QED
  BY <1>1, <1>2 DEF Preferred, da, db, dc

\* The nearest candidate, if there is one.
LEMMA PickIsNearest ==
  ASSUME NEW reg \in Seq(Record), NEW side, NEW price \in Int, NEW excluded
  PROVE  LET C == Candidates(reg, side, price, excluded)
             p == Pick(reg, side, price, excluded)
         IN  /\ C = {} => p = None
             /\ C # {} => /\ p \in C
                          /\ \A d \in C : Distance(p.price, price) <= Distance(d.price, price)
<1> DEFINE I == {k \in DOMAIN reg : /\ reg[k].side = side
                                    /\ Eligible(reg[k], price)
                                    /\ reg[k].swing \notin excluded}
           C == Candidates(reg, side, price, excluded)
           p == Pick(reg, side, price, excluded)
           R == {ij \in I \X I : Preferred(reg[ij[1]].swing, reg[ij[2]].swing, price)}
<1>1. C = {reg[i].swing : i \in I}
  BY DEF Candidates
<1>2. \A i \in I : reg[i].swing \in Swing
  <2>1. \A i \in DOMAIN reg : reg[i] \in Record
    OBVIOUS
  <2> QED
    BY <2>1 DEF Record
<1>3. C # {} => \E c \in C : \A d \in C : Preferred(c, d, price)
  <2> SUFFICES ASSUME C # {}
               PROVE  \E c \in C : \A d \in C : Preferred(c, d, price)
    OBVIOUS
  <2>1. Len(reg) \in Nat /\ I \in SUBSET (1..Len(reg)) /\ I # {}
    BY <1>1
  <2> HIDE DEF I, C
  <2>2. \A i, j \in I : <<i, j>> \in R <=> Preferred(reg[i].swing, reg[j].swing, price)
    OBVIOUS
  <2> HIDE DEF R
  <2>3. \A i, j \in I : <<i, j>> \in R \/ <<j, i>> \in R
    BY <1>2, <2>2, PreferredOrder
  <2>4. \A i, j, k \in I : <<i, j>> \in R /\ <<j, k>> \in R => <<i, k>> \in R
    BY <1>2, <2>2, PreferredOrder
  <2>5. PICK i \in I : \A j \in I : <<i, j>> \in R
    BY <2>1, <2>3, <2>4, BestExists
  <2>6. reg[i].swing \in C
    BY <1>1
  <2>7. \A j \in I : Preferred(reg[i].swing, reg[j].swing, price)
    BY <2>2, <2>5
  <2>8. \A d \in C : Preferred(reg[i].swing, d, price)
    BY <1>1, <2>7
  <2> QED
    BY <2>6, <2>8
<1>4. p = IF C = {} THEN None ELSE CHOOSE c \in C : \A d \in C : Preferred(c, d, price)
  BY DEF Pick
<1>5. \A c \in C : c \in Swing
  BY <1>1, <1>2
<1> HIDE DEF C, I, p
<1>6. C # {} => p \in C /\ \A d \in C : Preferred(p, d, price)
  BY <1>3, <1>4
<1>7. C # {} => \A d \in C : Distance(p.price, price) <= Distance(d.price, price)
  BY <1>5, <1>6, PreferredOrder
<1> QED
  BY <1>4, <1>6, <1>7 DEF C, p

\* A report names the lifecycle of the one record that has the objective's values.
LEMMA LifecycleIs ==
  ASSUME NEW reg, Distinct(reg), NEW i \in DOMAIN reg,
         NEW side, reg[i].side = side, NEW objective, reg[i].swing = objective
  PROVE  DOMAIN reg \subseteq Int => LifecycleOf(reg, side, objective) = reg[i].lifecycle
<1> SUFFICES ASSUME DOMAIN reg \subseteq Int
             PROVE  LifecycleOf(reg, side, objective) = reg[i].lifecycle
  OBVIOUS
<1> DEFINE I == {k \in DOMAIN reg : reg[k].side = side /\ reg[k].swing = objective}
<1>1. \A k \in I : k = i
  BY DEF Distinct
<1>2. i \in I
  OBVIOUS
<1>3. I = {i}
  BY <1>1, <1>2
<1> HIDE DEF I
<1>4. (CHOOSE k \in I : \A j \in I : k <= j) = i
  BY <1>3
<1> QED
  BY <1>3, <1>4 DEF LifecycleOf, I

\* The swing w of a side is a live major one of the registry; one that was followed
\* and may have died since; one that is dead.
Live(reg, s, w) ==
  \E i \in DOMAIN reg : /\ reg[i].side = s /\ reg[i].swing = w
                        /\ reg[i].category = "MAJOR" /\ reg[i].lifecycle \in Alive
Tracked(reg, s, w) ==
  \E i \in DOMAIN reg : /\ reg[i].side = s /\ reg[i].swing = w
                        /\ reg[i].category = "MAJOR" /\ reg[i].lifecycle # "ARCHIVED"
Dead(reg, s, w) ==
  \E i \in DOMAIN reg : /\ reg[i].side = s /\ reg[i].swing = w
                        /\ reg[i].lifecycle \in Terminal

\* Nothing eligible of the side is nearer to the price than w.
Nearest(reg, s, w, price) ==
  \A i \in DOMAIN reg : reg[i].side = s /\ Eligible(reg[i], price) =>
    Distance(w.price, price) <= Distance(PriceOf(reg[i]), price)
Nothing(reg, s, price) ==
  ~\E i \in DOMAIN reg : reg[i].side = s /\ Eligible(reg[i], price)

\* What a side goes on with, and the state it says so in.
Follow(previous, next) ==
  /\ next[1] \in {None} \cup Swing
  /\ next[1] = None => next[2] \in {None, "BREACHED", "SUPERSEDED"}
  /\ next[1] # None => next[2] \in {"NEW", "PERSISTED", "REPLACED", "SUPERSEDED"}
  /\ previous = None => next[2] \in {None, "NEW"}
  /\ next[2] = "REPLACED" => previous # None /\ next[1].price # previous.price

LEMMA ReconciledIsNearest ==
  ASSUME NEW reg \in Seq(Record), Distinct(reg), NEW s, NEW price \in Int,
         NEW excluded, \A w \in excluded : Dead(reg, s, w),
         NEW previous \in {None} \cup Swing, previous # None => Tracked(reg, s, previous),
         NEW next, next = Reconciled(reg, s, previous, Pick(reg, s, price, excluded), price)
  PROVE  /\ Follow(previous, next)
         /\ IF next[1] = None
            THEN next[2] # "BREACHED" => Nothing(reg, s, price)
            ELSE Live(reg, s, next[1]) /\ Nearest(reg, s, next[1], price)
         /\ previous # None /\ next[2] \in {"BREACHED", "SUPERSEDED"} =>
              Dead(reg, s, previous)
<1> DEFINE C == Candidates(reg, s, price, excluded)
           pick == Pick(reg, s, price, excluded)
<1>1. /\ C = {} => pick = None
      /\ C # {} => /\ pick \in C
                   /\ \A d \in C : Distance(pick.price, price) <= Distance(d.price, price)
  BY PickIsNearest
<1>2. \A i \in DOMAIN reg : reg[i] \in Record
  OBVIOUS
<1>3. \A i \in DOMAIN reg : reg[i].side = s /\ Eligible(reg[i], price) => reg[i].swing \in C
  <2> SUFFICES ASSUME NEW i \in DOMAIN reg, reg[i].side = s, Eligible(reg[i], price)
               PROVE  reg[i].swing \notin excluded
    BY DEF Candidates
  <2> SUFFICES ASSUME reg[i].swing \in excluded PROVE FALSE
    OBVIOUS
  <2>1. PICK j \in DOMAIN reg : /\ reg[j].side = s /\ reg[j].swing = reg[i].swing
                                /\ reg[j].lifecycle \in Terminal
    BY DEF Dead
  <2>2. i = j
    BY <2>1 DEF Distinct
  <2> QED
    BY <2>1, <2>2 DEF Eligible, Terminal
<1>4. \A c \in C : c \in Swing /\ Live(reg, s, c)
  BY <1>2 DEF Candidates, Live, Eligible, Alive, Record
<1>5. \A w \in Swing : w # None /\ Distance(w.price, price) \in Nat
  BY SwingIsInt, DistanceType
<1> HIDE DEF C, pick
<1>6. pick = None => Nothing(reg, s, price)
  BY <1>1, <1>3, <1>4, <1>5 DEF Nothing
<1>7. pick # None =>
        pick \in Swing /\ Live(reg, s, pick) /\ Nearest(reg, s, pick, price)
  BY <1>1, <1>3, <1>4 DEF Nearest, PriceOf
<1>8. CASE previous = None
  <2>1. next = <<pick, IF pick = None THEN None ELSE "NEW">>
    BY <1>8 DEF Reconciled, pick
  <2> QED
    BY <1>6, <1>7, <1>8, <2>1, StatesAssumption DEF Follow, States
<1>9. CASE previous # None
  <2>1. PICK i \in DOMAIN reg : /\ reg[i].side = s /\ reg[i].swing = previous
                                /\ reg[i].category = "MAJOR"
                                /\ reg[i].lifecycle # "ARCHIVED"
    BY <1>9 DEF Tracked
  <2>2. LifecycleOf(reg, s, previous) = reg[i].lifecycle
    BY <2>1, LifecycleIs
  <2> DEFINE l == reg[i].lifecycle
  <2>3. l \in Lifecycles /\ l # "ARCHIVED"
    BY <1>2, <2>1 DEF Record
  <2> HIDE DEF l
  <2>4. CASE l = "CONFIRMED_BROKEN"
    <3>1. next = <<None, "BREACHED">>
      BY <1>9, <2>2, <2>4 DEF Reconciled, l
    <3>2. Dead(reg, s, previous)
      BY <2>1, <2>4 DEF Dead, Terminal, l
    <3> QED
      BY <1>9, <3>1, <3>2 DEF Follow, States
  <2>5. CASE l = "SUPERSEDED"
    <3>1. next = <<pick, "SUPERSEDED">>
      BY <1>9, <2>2, <2>5 DEF Reconciled, l, pick
    <3>2. Dead(reg, s, previous)
      BY <2>1, <2>5 DEF Dead, Terminal, l
    <3> QED
      BY <1>6, <1>7, <1>9, <3>1, <3>2 DEF Follow, States
  <2>6. CASE l \in Alive
    <3>1. Live(reg, s, previous)
      BY <2>1, <2>6 DEF Live, l
    <3> DEFINE nearer == /\ pick # None /\ pick # previous
                         /\ Distance(pick.price, price) < Distance(previous.price, price)
    <3>2. next = IF nearer THEN <<pick, "REPLACED">> ELSE <<previous, "PERSISTED">>
      BY <1>9, <2>2, <2>6 DEF Reconciled, l, pick, Alive
    <3>3. previous \in Swing
      BY <1>9
    <3>4. CASE nearer
      <4>1. pick.price # previous.price
        BY <1>5, <1>7, <3>3, <3>4
      <4> QED
        BY <1>7, <1>9, <3>2, <3>4, <4>1 DEF Follow, States
    <3>5. CASE ~nearer
      <4>1. Nearest(reg, s, previous, price)
        <5>1. CASE pick = None
          BY <1>6, <5>1 DEF Nothing, Nearest
        <5>2. CASE pick = previous
          BY <1>7, <1>9, <5>2
        <5>3. CASE pick # None /\ pick # previous
          <6>1. Distance(previous.price, price) <= Distance(pick.price, price)
            BY <1>5, <1>7, <3>3, <3>5, <5>3
          <6>2. ASSUME NEW k \in DOMAIN reg, reg[k].side = s, Eligible(reg[k], price)
                PROVE  Distance(previous.price, price) <= Distance(PriceOf(reg[k]), price)
            <7>1. Distance(pick.price, price) <= Distance(PriceOf(reg[k]), price)
              BY <1>7, <5>3, <6>2 DEF Nearest
            <7>2. reg[k].swing \in Swing
              BY <1>2 DEF Record
            <7>3. /\ Distance(PriceOf(reg[k]), price) \in Nat
                  /\ Distance(pick.price, price) \in Nat
                  /\ Distance(previous.price, price) \in Nat
              BY <1>5, <1>7, <3>3, <5>3, <7>2 DEF PriceOf
            <7> QED
              BY <6>1, <7>1, <7>3
          <6> QED
            BY <6>2 DEF Nearest
        <5> QED
          BY <5>1, <5>2, <5>3
      <4> QED
        BY <1>9, <3>1, <3>2, <3>3, <3>5, <4>1 DEF Follow, States
    <3> QED
      BY <3>4, <3>5
  <2> QED
    BY <2>3, <2>4, <2>5, <2>6 DEF Lifecycles, Alive
<1> QED
  BY <1>8, <1>9

-----------------------------------------------------------------------------
(* The objectives over a tick.                                                *)

LEMMA EvaluatedTracks ==
  ASSUME NEW h, Good(h), NEW new \in [Sides -> {None} \cup Swing], NEW price \in Prices,
         NEW e, e = Evaluated(h, new, price)
  PROVE  /\ \A s, w : Live(h.registry, s, w) => Tracked(e.registry, s, w)
         /\ \A s, w : Dead(h.registry, s, w) => Dead(e.registry, s, w)
         /\ \A i \in DOMAIN e.registry : e.registry[i].lifecycle = "ACTIVE" =>
              ~Beyond(e.registry[i].side, price, PriceOf(e.registry[i]))
<1> DEFINE g == Ingest(h, new)
<1>1. Grown(h, g) /\ Good(g)
  BY IngestGrows DEF Grown
<1>2. e = Follows(h, g, price)
  BY DEF Evaluated
<1> HIDE DEF g
<1>3. /\ DOMAIN h.registry \subseteq DOMAIN g.registry
      /\ \A i \in DOMAIN h.registry : g.registry[i] = h.registry[i]
  BY <1>1 DEF Grown, Good, WellFormed
<1>4. DOMAIN e.registry = DOMAIN g.registry
  <2>1. Rewritten(g, Follows(h, g, price), Len(h.registry))
    BY <1>1, FollowsRewrites
  <2> QED
    BY <1>2, <2>1 DEF Rewritten
<1>5. Keeps(h.registry, e.registry)
  BY EvaluatedKeeps
<1>6. \A i \in DOMAIN g.registry :
        /\ e.registry[i].lifecycle = "ARCHIVED" => g.registry[i].lifecycle = "ARCHIVED"
        /\ e.registry[i].lifecycle = "ACTIVE" =>
             ~Beyond(e.registry[i].side, price, PriceOf(e.registry[i]))
  <2> DEFINE f == Follows(h, g, price).registry
  <2>1. ASSUME NEW i \in DOMAIN g.registry
        PROVE  /\ f[i].lifecycle = "ARCHIVED" => g.registry[i].lifecycle = "ARCHIVED"
               /\ f[i].lifecycle = "ACTIVE" => ~Beyond(f[i].side, price, PriceOf(f[i]))
    <3>1. Fate(h, g, price, i, f[i])
      BY <1>1, FollowsRecord
    <3> HIDE DEF f
    <3> QED
      BY <3>1 DEF Fate
  <2> HIDE DEF f
  <2>2. e.registry = f
    BY <1>2 DEF f
  <2> QED
    BY <2>1, <2>2
<1>7. ASSUME NEW s, NEW w, Live(h.registry, s, w)
      PROVE  Tracked(e.registry, s, w)
  <2>1. PICK i \in DOMAIN h.registry :
          /\ h.registry[i].side = s /\ h.registry[i].swing = w
          /\ h.registry[i].category = "MAJOR" /\ h.registry[i].lifecycle \in Alive
    BY <1>7 DEF Live
  <2>2. /\ i \in DOMAIN e.registry /\ e.registry[i].side = s /\ e.registry[i].swing = w
        /\ e.registry[i].category = "MAJOR"
    BY <1>5, <2>1 DEF Keeps, Frozen
  <2>3. e.registry[i].lifecycle # "ARCHIVED"
    BY <1>3, <1>6, <2>1 DEF Alive
  <2> QED
    BY <2>2, <2>3 DEF Tracked
<1>8. ASSUME NEW s, NEW w, Dead(h.registry, s, w)
      PROVE  Dead(e.registry, s, w)
  BY <1>5, <1>8 DEF Dead, Keeps, Frozen, Terminal
<1> QED
  BY <1>4, <1>6, <1>7, <1>8

LEMMA StagedFields ==
  ASSUME NEW candles, NEW price, NEW objectives, NEW states
  PROVE  LET f == Staged(candles, price, objectives, states)
         IN  f.price = price /\ f.active = objectives /\ f.state = states
<1> DEFINE f1 == Starts(candles, price, objectives, states)
           f2 == Answers(f1, candles)
           f3 == Continues(f2, candles)
<1>1. f1.price = price /\ f1.active = objectives /\ f1.state = states
  BY DEF Starts, NoFrame
<1>2. f2.price = f1.price /\ f2.active = f1.active /\ f2.state = f1.state
  BY DEF Answers, Starts, NoFrame
<1>3. f3.price = f2.price /\ f3.active = f2.active /\ f3.state = f2.state
  BY DEF Continues, Answers, Starts, NoFrame
<1>4. Breaks(f3).price = f3.price /\ Breaks(f3).active = f3.active /\ Breaks(f3).state = f3.state
  BY DEF Breaks, Continues, Answers, Starts, NoFrame
<1> QED
  BY <1>1, <1>2, <1>3, <1>4 DEF Staged

\* What is in force is alive, what is barred is dead, and what is in force is what
\* the newest frame may offer. An active record is not traded through.
SideInv(s) ==
  /\ active[s] \in {None} \cup Swing
  /\ active[s] # None => Live(registry, s, active[s])
  /\ \A w \in barred[s] : Dead(registry, s, w)
  /\ frame.price # None =>
       IF active[s] = None THEN state[s] # "BREACHED" => Nothing(registry, s, frame.price)
       ELSE Nearest(registry, s, active[s], frame.price)

ObjectiveInv ==
  up => /\ \A s \in Sides : SideInv(s)
        /\ frame.price # None =>
             /\ frame.price \in Prices
             /\ \A i \in DOMAIN registry : registry[i].lifecycle = "ACTIVE" =>
                  ~Beyond(registry[i].side, frame.price, PriceOf(registry[i]))

LEMMA TickFollows ==
  ASSUME ValidatorInv, ObjectiveInv, NEW b, NEW price, Tick(b, price)
  PROVE  /\ price \in Prices /\ frame'.price = price
         /\ \A s \in Sides :
              /\ SideInv(s)'
              /\ Follow(active[s], <<active'[s], state'[s]>>)
         /\ \A i \in DOMAIN registry' : registry'[i].lifecycle = "ACTIVE" =>
              ~Beyond(registry'[i].side, price, PriceOf(registry'[i]))
<1> DEFINE new == [s \in Sides |-> Arrival(swings', s)]
           e == Evaluated(Hierarchy, new, price)
<1>1. /\ up /\ Good(Hierarchy) /\ FrontType /\ Hierarchy.registry = registry
      /\ \A s \in Sides : SideInv(s)
  BY DEF ValidatorInv, ObjectiveInv, Tick, Arrives, Sound, Hierarchy
<1>2. price \in Prices
  BY <1>1, ArrivesType DEF Tick
<1>3. new \in [Sides -> {None} \cup Swing]
  <2>1. swings' = ListsAfter(b)
    BY DEF Tick, Ingests, ListsAfter
  <2>2. swings' \in SwingLists
    BY <1>1, <2>1, ListsAfterTick
  <2> QED
    BY <2>2, ArrivalIsNew
<1>4. registry' = e.registry
  BY DEF Tick, EvaluateHierarchy
<1> HIDE DEF new
<1>5. /\ \A s, w : Live(registry, s, w) => Tracked(e.registry, s, w)
      /\ \A s, w : Dead(registry, s, w) => Dead(e.registry, s, w)
      /\ \A i \in DOMAIN e.registry : e.registry[i].lifecycle = "ACTIVE" =>
           ~Beyond(e.registry[i].side, price, PriceOf(e.registry[i]))
  BY <1>1, <1>2, <1>3, EvaluatedTracks
<1> HIDE DEF e
<1> DEFINE reg == e.registry
<1>6. reg \in Seq(Record) /\ Distinct(reg)
  <2>1. ValidatorInv'
    BY TickStep
  <2>2. registry' \in Seq(Record)
    <3>1. Sound(Hierarchy)'
      BY <2>1 DEF ValidatorInv
    <3> QED
      BY <3>1 DEF Sound, Good, WellFormed, Hierarchy
  <2>3. Distinct(registry')
    BY <2>1 DEF ValidatorInv, NoSwingTwice, Distinct
  <2> QED
    BY <1>4, <2>2, <2>3
<1> HIDE DEF reg
<1>7. price \in Int
  BY <1>2, HierarchyAssumption
<1>8. frame'.price = price
  <2>1. frame' = Staged(Candles(bars'), price, active', state')
    BY DEF Tick
  <2> QED
    BY <2>1, StagedFields
<1>9. price # None
  BY <1>7, HierarchyAssumption
<1>10. ASSUME NEW s \in Sides
       PROVE  SideInv(s)' /\ Follow(active[s], <<active'[s], state'[s]>>)
  <2> DEFINE next == Reconciled(reg, s, active[s], Pick(reg, s, price, barred[s]), price)
  <2>1. /\ active'[s] = next[1] /\ state'[s] = next[2]
        /\ barred'[s] = IF active[s] # None /\ next[2] \in {"BREACHED", "SUPERSEDED"}
                        THEN barred[s] \cup {active[s]} ELSE barred[s]
    BY <1>4 DEF Tick, EvaluateObjectives, reg
  <2>2. /\ active[s] \in {None} \cup Swing
        /\ active[s] # None => Tracked(reg, s, active[s])
        /\ \A w \in barred[s] : Dead(reg, s, w)
    BY <1>1, <1>5 DEF SideInv, reg
  <2>3. /\ Follow(active[s], next)
        /\ IF next[1] = None
           THEN next[2] # "BREACHED" => Nothing(reg, s, price)
           ELSE Live(reg, s, next[1]) /\ Nearest(reg, s, next[1], price)
        /\ active[s] # None /\ next[2] \in {"BREACHED", "SUPERSEDED"} =>
             Dead(reg, s, active[s])
    BY <1>6, <1>7, <2>2, ReconciledIsNearest
  <2> HIDE DEF next
  <2>4. Follow(active[s], <<active'[s], state'[s]>>)
    BY <2>1, <2>3 DEF Follow
  <2>5. \A w \in barred'[s] : Dead(reg, s, w)
    BY <2>1, <2>2, <2>3
  <2>6. /\ active'[s] \in {None} \cup Swing
        /\ active'[s] # None => Live(reg, s, active'[s])
        /\ IF active'[s] = None THEN state'[s] # "BREACHED" => Nothing(reg, s, price)
           ELSE Nearest(reg, s, active'[s], price)
    BY <2>1, <2>3 DEF Follow
  <2>7. registry' = reg
    BY <1>4 DEF reg
  <2>8. SideInv(s)'
    BY <1>8, <2>5, <2>6, <2>7 DEF SideInv, Live, Dead, Nothing, Nearest
  <2> QED
    BY <2>4, <2>8
<1> QED
  BY <1>2, <1>4, <1>5, <1>8, <1>10

LEMMA FreshObjectives ==
  ASSUME active' = [s \in Sides |-> None], barred' = [s \in Sides |-> {}],
         frame' = NoFrame
  PROVE  ObjectiveInv'
BY DEF ObjectiveInv, SideInv, NoFrame

LEMMA ObjectiveStep ==
  ASSUME ValidatorInv, ObjectiveInv, [LNext]_lvars
  PROVE  ObjectiveInv'
<1>1. ASSUME NEW b, NEW price, Tick(b, price)
      PROVE  ObjectiveInv'
  BY <1>1, TickFollows DEF ObjectiveInv
<1>2. ASSUME Dies \/ \E b, price : DiesInTick(b, price)
      PROVE  ObjectiveInv'
  BY <1>2 DEF Dies, DiesInTick, Gone, ObjectiveInv
<1>3. CASE Restart
  BY <1>3, FreshObjectives DEF Restart
<1>4. CASE Rewind \/ UNCHANGED lvars
  <2>1. UNCHANGED <<registry, active, barred, state, frame, up>>
    BY <1>4 DEF Rewind, lvars, hvars, ovars
  <2> QED
    BY <2>1 DEF ObjectiveInv, SideInv, Live, Dead, Nothing, Nearest
<1> QED
  BY <1>1, <1>2, <1>3, <1>4 DEF LNext

LEMMA ObjectiveInvHolds == LSpec => [](ValidatorInv /\ ObjectiveInv)
<1>1. LInit => ObjectiveInv
  BY DEF LInit, OInit, Fresh, NoFrame, ObjectiveInv, SideInv
<1>2. ValidatorInv /\ ObjectiveInv /\ [LNext]_lvars => ObjectiveInv'
  BY ObjectiveStep
<1> QED
  BY <1>1, <1>2, ValidatorInvHolds, PTL DEF LSpec

\* On each side the validator offers the nearest eligible swing of its registry, one
\* that is alive, and offers nothing only if there is nothing to offer or the last
\* objective was just breached: an objective the engine bars is dead for good, so
\* what it keeps by value and finds again in each report cannot hide a nearer one.
THEOREM ObjectiveIsNearestHolds == LSpec => []ObjectiveIsNearest
<1>1. ASSUME ValidatorInv, ObjectiveInv
      PROVE  ObjectiveIsNearest
  <2> SUFFICES ASSUME Current, NEW s \in Sides
               PROVE  IF active[s] = None
                      THEN state[s] # "BREACHED" => ~\E i \in DOMAIN registry : Offers(i, s)
                      ELSE /\ LifecycleOf(registry, s, active[s]) \in {"ACTIVE", "CHALLENGED"}
                           /\ \A i \in DOMAIN registry : Offers(i, s) =>
                                Distance(active[s].price, frame.price)
                                  <= Distance(PriceOf(registry[i]), frame.price)
    BY DEF ObjectiveIsNearest
  <2>1. SideInv(s) /\ frame.price # None
    BY <1>1 DEF ObjectiveInv, Current
  <2>2. Distinct(registry) /\ DOMAIN registry \subseteq Int
    BY <1>1 DEF ValidatorInv, NoSwingTwice, Sound, Good, WellFormed, Hierarchy
  <2>3. CASE active[s] = None
    BY <2>1, <2>3 DEF SideInv, Nothing, Offers
  <2>4. CASE active[s] # None
    <3>1. PICK i \in DOMAIN registry :
            /\ registry[i].side = s /\ registry[i].swing = active[s]
            /\ registry[i].lifecycle \in Alive
      BY <2>1, <2>4 DEF SideInv, Live
    <3>2. LifecycleOf(registry, s, active[s]) \in {"ACTIVE", "CHALLENGED"}
      BY <2>2, <3>1, LifecycleIs DEF Alive
    <3> QED
      BY <2>1, <2>4, <3>2 DEF SideInv, Nearest, Offers
  <2> QED
    BY <2>3, <2>4
<1> QED
  BY <1>1, ObjectiveInvHolds, PTL

-----------------------------------------------------------------------------
(* The chain of stages in one frame.                                          *)

LEMMA LedIsPhased ==
  ASSUME NEW buyer, NEW seller, NEW previous
  PROVE  LET i == Led(buyer, seller, previous)
         IN  /\ i.side \in Controls
             /\ (i.side # "NONE") = (i.phase \in {"EMERGING", "DOMINANT", "WEAKENING"})
<1>1. Controlling(buyer, seller) \in Controls
  BY DEF Controlling, Controls
<1>2. \A side \in Controls : \A score :
        /\ Phased(side, score, previous).side = side
        /\ (side # "NONE") = (Phased(side, score, previous).phase
                                \in {"EMERGING", "DOMINANT", "WEAKENING"})
  BY DEF Phased, NextPhase, Controls
<1>3. \E side \in Controls : \E score : Led(buyer, seller, previous) = Phased(side, score, previous)
  BY <1>1 DEF Led, Controls
<1> QED
  BY <1>2, <1>3

LEMMA InitiativeIsPhased ==
  ASSUME NEW candles, NEW previous
  PROVE  LET i == Initiative(candles, previous)
         IN  /\ i.side \in Controls
             /\ (i.side # "NONE") = (i.phase \in {"EMERGING", "DOMINANT", "WEAKENING"})
BY LedIsPhased DEF Initiative, Judged

LEMMA ContinuesOrNot ==
  ASSUME NEW candles, NEW initiative, NEW response
  PROVE  Continuation(candles, initiative, response).side \in {"NONE", initiative.side}
<1> DEFINE pressure == Persisting(candles, initiative, response)
           decay    == Decay(candles, initiative)
           score    == Capped((40 * pressure + 30 * (Full - decay)
                                + 30 * Supporting(candles, initiative)) \div 100)
           side     == IF score < 2000 THEN "NONE" ELSE initiative.side
           c        == Continuation(candles, initiative, response)
<1>1. c = [side |-> side, score |-> score, pressure |-> pressure, decay |-> decay,
           state |-> IF side = "NONE" \/ score < 3500 THEN "WEAK"
                     ELSE IF score < 7000 THEN "MEDIUM" ELSE "STRONG"]
  BY DEF Continuation
<1>2. side \in {"NONE", initiative.side}
  OBVIOUS
<1> HIDE DEF pressure, decay, score, side, c
<1>3. c.side = side
  BY <1>1
<1> QED
  BY <1>2, <1>3 DEF c

LEMMA BreakAims ==
  ASSUME NEW initiative, initiative.side \in Controls, NEW response, NEW continuation,
         continuation.side \in {"NONE", initiative.side}, NEW objective, NEW price,
         NEW b, b = Break(initiative, response, continuation, objective, price),
         b.target # "NONE"
  PROVE  /\ objective[b.target] # None /\ initiative.side = b.side
         /\ b.target = IF initiative.side = "BUYER" THEN "HIGH" ELSE "LOW"
<1>1. Aimed(initiative, continuation) = initiative.side
  BY DEF Aimed
<1> DEFINE side == initiative.side
           target == Target(side)
<1>2. CASE side = "NONE" \/ objective[target] = None
  <2>1. b = NoBreak
    BY <1>1, <1>2 DEF Break
  <2> QED
    BY <2>1 DEF NoBreak
<1>3. CASE ~(side = "NONE" \/ objective[target] = None)
  <2> DEFINE d == Size(objective[target].price - price)
             p == BreakProbability(
                    ObjectivePressure(initiative, response, continuation, d),
                    Resistance(response, objective[target].strength, d),
                    initiative, response, continuation)
  <2>1. b = [side |-> side, target |-> target, probability |-> p]
    BY <1>1, <1>3 DEF Break
  <2> HIDE DEF p
  <2>2. b.side = side /\ b.target = target
    BY <2>1
  <2> QED
    BY <1>3, <2>2 DEF Controls, Target
<1> QED
  BY <1>2, <1>3

LEMMA StagedIsCoherent ==
  ASSUME NEW candles, NEW price, NEW objectives, NEW states, NEW f,
         f = Staged(candles, price, objectives, states)
  PROVE  /\ f.break.target # "NONE" =>
              /\ f.active[f.break.target] # None /\ f.initiative.side = f.break.side
              /\ f.break.target = IF f.initiative.side = "BUYER" THEN "HIGH" ELSE "LOW"
         /\ (f.initiative.side # "NONE")
              = (f.initiative.phase \in {"EMERGING", "DOMINANT", "WEAKENING"})
<1> DEFINE f1 == Starts(candles, price, objectives, states)
           f2 == Answers(f1, candles)
           f3 == Continues(f2, candles)
<1>1. f1.initiative = Initiative(candles, phase)
  BY DEF Starts, NoFrame
<1>2. f2.initiative = f1.initiative
  BY DEF Answers, Starts, NoFrame
<1>3. /\ f3.initiative = f2.initiative
      /\ f3.continuation = Continuation(candles, f2.initiative, f2.response)
  BY DEF Continues, Answers, Starts, NoFrame
<1>4. /\ Breaks(f3).initiative = f3.initiative /\ Breaks(f3).active = f3.active
      /\ Breaks(f3).break
           = Break(f3.initiative, f3.response, f3.continuation, f3.active, f3.price)
  BY DEF Breaks, Continues, Answers, Starts, NoFrame
<1>5. f = Breaks(f3)
  BY DEF Staged
<1>6. /\ f3.initiative.side \in Controls
      /\ (f3.initiative.side # "NONE")
           = (f3.initiative.phase \in {"EMERGING", "DOMINANT", "WEAKENING"})
  <2> HIDE DEF f1, f2, f3
  <2> QED
    BY <1>1, <1>2, <1>3, InitiativeIsPhased
<1>7. f3.continuation.side \in {"NONE", f3.initiative.side}
  <2> HIDE DEF f1, f2, f3
  <2> QED
    BY <1>3, ContinuesOrNot
<1> HIDE DEF f3
<1> QED
  BY <1>4, <1>5, <1>6, <1>7, BreakAims

-----------------------------------------------------------------------------
(* The observer beside the engine.                                            *)

LEMMA NothingFound ==
  ASSUME NEW r, NEW before, NEW now,
         \A s \in Sides : ~InvalidNone(now[s]),
         \A s \in Sides : r.before # None => ~Impossible(before[s], now[s])
  PROVE  \A x \in Anomalies(r, before, now) :
           x.code \notin {"INVALID_NONE", "IMPOSSIBLE_TRANSITION"}
BY DEF Anomalies, Sides

\* What the engine decides of a side never breaks its contract.
LEMMA FollowIsPossible ==
  ASSUME NEW s \in Sides, NEW before, NEW now,
         before.active[s] \in {None} \cup Swing,
         Follow(before.active[s], <<now.active[s], now.state[s]>>)
  PROVE  /\ ~InvalidNone(Field(now, s))
         /\ ~Impossible(Field(before, s), Field(now, s))
         /\ (Field(now, s).price = None) = (now.active[s] = None)
         /\ Field(now, s).state = now.state[s]
         /\ Field(now, s).price = IF now.active[s] = None THEN None ELSE now.active[s].price
<1> DEFINE a == before.active[s]
           b == now.active[s]
           t == now.state[s]
           x == Field(before, s)
           y == Field(now, s)
<1>1. /\ x.price = IF a = None THEN None ELSE a.price
      /\ y.price = IF b = None THEN None ELSE b.price
      /\ y.state = t
  BY DEF Field
<1>2. /\ b \in {None} \cup Swing
      /\ b = None => t \in {None, "BREACHED", "SUPERSEDED"}
      /\ b # None => t \in {"NEW", "PERSISTED", "REPLACED", "SUPERSEDED"}
      /\ a = None => t \in {None, "NEW"}
      /\ t = "REPLACED" => a # None /\ b.price # a.price
  BY DEF Follow
<1>3. a \in {None} \cup Swing
  OBVIOUS
<1>4. \A w \in Swing : w.price # None
  BY SwingIsInt, HierarchyAssumption
<1> HIDE DEF a, b, t, x, y
<1>5. ~InvalidNone(y)
  BY <1>1, <1>2, <1>4, StatesAssumption DEF InvalidNone, States
<1>6. ~Impossible(x, y)
  BY <1>1, <1>2, <1>3, <1>4, StatesAssumption DEF Impossible, States
<1> QED
  BY <1>1, <1>2, <1>4, <1>5, <1>6 DEF a, b, t, x, y

\* The last line of a side in the file of changes, if it is complete.
LineOf(a, t) == [price |-> IF a = None THEN None ELSE a.price, state |-> t]

\* What the observer makes of one side of a snapshot that follows the one it saw.
LEMMA SideObserved ==
  ASSUME NEW first \in BOOLEAN, NEW before, NEW now, NEW s \in Sides, NEW old,
         old \in {None} \cup Swing, Follow(old, <<now.active[s], now.state[s]>>),
         first => old = None, ~first => before.active[s] = old,
         NEW line, line = IF first THEN Standing(NoField) ELSE LineOf(old, before.state[s]),
         NEW x, x = IF first THEN NoField ELSE Field(before, s),
         NEW y, y = Field(now, s)
  PROVE  /\ ~InvalidNone(y)
         /\ ~first => ~Impossible(x, y)
         /\ (IF Changes(first, x, y) THEN Standing(y) ELSE line)
              = LineOf(now.active[s], now.state[s])
<1> DEFINE b == [active |-> [z \in Sides |-> old]]
<1>1. b.active[s] = old
  OBVIOUS
<1> HIDE DEF b
<1>2. /\ ~InvalidNone(y)
      /\ (y.price = None) = (now.active[s] = None)
      /\ y.state = now.state[s]
      /\ y.price = IF now.active[s] = None THEN None ELSE now.active[s].price
  <2>1. b.active[s] \in {None} \cup Swing /\ Follow(b.active[s], <<now.active[s], now.state[s]>>)
    BY <1>1
  <2> QED
    BY <2>1, FollowIsPossible
<1>3. ~first => ~Impossible(x, y)
  <2> SUFFICES ASSUME ~first PROVE ~Impossible(x, y)
    OBVIOUS
  <2>1. /\ before.active[s] \in {None} \cup Swing
        /\ Follow(before.active[s], <<now.active[s], now.state[s]>>)
    OBVIOUS
  <2>2. ~Impossible(Field(before, s), Field(now, s))
    BY <2>1, FollowIsPossible
  <2> QED
    BY <2>2
<1>4. CASE Changes(first, x, y)
  BY <1>2, <1>3, <1>4 DEF Standing, LineOf
<1>5. CASE ~Changes(first, x, y)
  <2>1. CASE first
    <3>1. now.active[s] = None
      BY <1>2, <1>5, <2>1 DEF Changes
    <3>2. now.state[s] = None
      BY <2>1, <3>1, StatesAssumption DEF Follow, States
    <3>3. line = [price |-> None, state |-> None]
      BY <2>1 DEF Standing, NoField
    <3> QED
      BY <1>2, <1>5, <2>1, <3>1, <3>2, <3>3 DEF LineOf
  <2>2. CASE ~first
    <3>1. y.price = x.price /\ y.state = x.state /\ x = Field(before, s)
      BY <1>5, <2>2 DEF Changes
    <3>2. x.price = (IF old = None THEN None ELSE old.price) /\ x.state = before.state[s]
      BY <2>2, <3>1 DEF Field
    <3>3. line = [price |-> x.price, state |-> x.state]
      BY <2>2, <3>2 DEF LineOf
    <3> QED
      BY <1>2, <1>3, <1>5, <2>2, <3>1, <3>3 DEF LineOf
  <2> QED
    BY <2>1, <2>2
<1> QED
  BY <1>4, <1>5

\* What the observer makes of a snapshot that follows the one it saw.
LEMMA ObservedFollows ==
  ASSUME NEW r, NEW now, NEW old, old \in [Sides -> {None} \cup Swing],
         \A s \in Sides : Follow(old[s], <<now.active[s], now.state[s]>>),
         IF r.before = None THEN r = NoRecorder /\ \A s \in Sides : old[s] = None
         ELSE /\ \A s \in Sides : r.before.active[s] = old[s]
              /\ \A s \in Sides : r.changes[s] = LineOf(old[s], r.before.state[s]),
         NEW o, o = Observed(r, now)
  PROVE  /\ o.before = now
         /\ \A x \in o.found : x.code \notin {"INVALID_NONE", "IMPOSSIBLE_TRANSITION"}
         /\ \A s \in Sides : o.changes[s] = LineOf(now.active[s], now.state[s])
<1> DEFINE first == r.before = None
           fields == [s \in {"HIGH", "LOW"} |-> Field(now, s)]
           before == [s \in {"HIGH", "LOW"} |->
                        IF first THEN NoField ELSE Field(r.before, s)]
           h == [s \in {"HIGH", "LOW"} |->
                   LET l == Append(r.history[s], fields[s].price)
                   IN  IF Len(l) > Window3 THEN Tail(l) ELSE l]
           c == [s \in {"HIGH", "LOW"} |->
                   IF Changes(first, before[s], fields[s]) THEN Standing(fields[s])
                   ELSE r.changes[s]]
<1>1. o = [before |-> now, history |-> h, changes |-> c,
           found |-> Anomalies(r, before, fields)]
  BY DEF Observed
<1> HIDE DEF h
<1>2. o.before = now /\ o.changes = c /\ o.found = Anomalies(r, before, fields)
  BY <1>1
<1>3. \A s \in Sides : /\ fields[s] = Field(now, s)
                       /\ before[s] = IF first THEN NoField ELSE Field(r.before, s)
                       /\ c[s] = IF Changes(first, before[s], fields[s])
                                 THEN Standing(fields[s]) ELSE r.changes[s]
  BY DEF Sides
<1> HIDE DEF fields, before, c
<1>4. ASSUME NEW s \in Sides
      PROVE  /\ ~InvalidNone(fields[s])
             /\ ~first => ~Impossible(before[s], fields[s])
             /\ c[s] = LineOf(now.active[s], now.state[s])
  <2>1. /\ first \in BOOLEAN
        /\ old[s] \in {None} \cup Swing /\ Follow(old[s], <<now.active[s], now.state[s]>>)
        /\ first => old[s] = None
        /\ ~first => r.before.active[s] = old[s]
    OBVIOUS
  <2>2. r.changes[s] = IF first THEN Standing(NoField) ELSE LineOf(old[s], r.before.state[s])
    <3>1. first => r.changes[s] = Standing(NoField)
      BY DEF NoRecorder, Sides
    <3> QED
      BY <3>1
  <2>3. /\ fields[s] = Field(now, s)
        /\ before[s] = IF first THEN NoField ELSE Field(r.before, s)
    BY <1>3
  <2> HIDE DEF first
  <2>4. /\ ~InvalidNone(fields[s])
        /\ ~first => ~Impossible(before[s], fields[s])
        /\ (IF Changes(first, before[s], fields[s]) THEN Standing(fields[s])
            ELSE r.changes[s]) = LineOf(now.active[s], now.state[s])
    BY <2>1, <2>2, <2>3, SideObserved
  <2> QED
    BY <1>3, <2>4
<1>5. /\ \A s \in Sides : ~InvalidNone(fields[s])
      /\ \A s \in Sides : r.before # None => ~Impossible(before[s], fields[s])
  <2>1. \A s \in Sides : ~InvalidNone(fields[s])
    BY <1>4
  <2>2. \A s \in Sides : r.before # None => ~Impossible(before[s], fields[s])
    BY <1>4
  <2> QED
    BY <2>1, <2>2
<1>6. \A x \in o.found : x.code \notin {"INVALID_NONE", "IMPOSSIBLE_TRANSITION"}
  BY <1>2, <1>5, NothingFound
<1> QED
  BY <1>2, <1>4, <1>6

-----------------------------------------------------------------------------
(* The whole frame.                                                           *)

\* While a process runs, its observer saw what the engine said last, and nothing
\* as long as it said nothing.
WatchInv ==
  up => IF recorder.before = None
        THEN recorder = NoRecorder /\ frame.price = None /\ \A s \in Sides : active[s] = None
        ELSE /\ recorder.before.active = active /\ recorder.before.state = state
             /\ \A s \in Sides : recorder.changes[s] = LineOf(active[s], state[s])

CoherentInv == TargetIsOffered /\ ControlHasAPhase /\ NothingImpossible /\ WatchInv

LEMMA TickCoheres ==
  ASSUME ValidatorInv, ObjectiveInv, CoherentInv,
         NEW b, NEW price, Tick(b, price)
  PROVE  CoherentInv'
<1>1. /\ price \in Prices
      /\ \A s \in Sides : /\ active'[s] \in {None} \cup Swing
                          /\ Follow(active[s], <<active'[s], state'[s]>>)
  BY TickFollows DEF SideInv
<1>2. frame' = Staged(Candles(bars'), price, active', state')
  BY DEF Tick
<1>3. frame'.active = active'
  BY <1>2, StagedFields
<1>4. TargetIsOffered' /\ ControlHasAPhase'
  <2> DEFINE f == frame'
  <2>1. /\ f.break.target # "NONE" =>
             /\ f.active[f.break.target] # None /\ f.initiative.side = f.break.side
             /\ f.break.target = IF f.initiative.side = "BUYER" THEN "HIGH" ELSE "LOW"
        /\ (f.initiative.side # "NONE")
             = (f.initiative.phase \in {"EMERGING", "DOMINANT", "WEAKENING"})
    <3>1. f = Staged(Candles(bars'), price, active', state')
      BY <1>2
    <3> HIDE DEF f
    <3> QED
      BY <3>1, StagedIsCoherent
  <2> QED
    BY <2>1 DEF TargetIsOffered, ControlHasAPhase
<1> DEFINE now == [price |-> price, active |-> active', state |-> state']
<1>5. recorder' = Observed(recorder, now)
  BY DEF Tick
<1>6. up /\ \A s \in Sides : active[s] \in {None} \cup Swing
  BY DEF ObjectiveInv, SideInv, Tick, Arrives
<1> DEFINE old == [s \in Sides |-> active[s]]
<1>7. /\ old \in [Sides -> {None} \cup Swing]
      /\ \A s \in Sides : old[s] = active[s]
      /\ IF recorder.before = None THEN recorder = NoRecorder /\ \A s \in Sides : active[s] = None
         ELSE /\ recorder.before.active = active
              /\ \A s \in Sides : recorder.changes[s] = LineOf(active[s], recorder.before.state[s])
  BY <1>6 DEF CoherentInv, WatchInv
<1> HIDE DEF old
<1>8. now.active = active' /\ now.state = state'
  OBVIOUS
<1>9. now # None
  <2>1. active' \in [Sides -> Swing \cup {None}] /\ state' \in [Sides -> States \cup {None}]
    <3>1. \A s \in Sides : state'[s] \in States \cup {None}
      BY <1>1 DEF Follow, States
    <3>2. active' = [s \in Sides |-> active'[s]] /\ state' = [s \in Sides |-> state'[s]]
      BY DEF Tick, EvaluateObjectives
    <3> QED
      BY <1>1, <3>1, <3>2
  <2>2. now \in [price : Prices, active : [Sides -> Swing \cup {None}],
                 state : [Sides -> States \cup {None}]]
    BY <1>1, <2>1
  <2> HIDE DEF now
  <2> QED
    BY <2>2, ValidatorAssumption
<1>10. /\ recorder'.before = now
       /\ \A x \in recorder'.found : x.code \notin {"INVALID_NONE", "IMPOSSIBLE_TRANSITION"}
       /\ \A s \in Sides : recorder'.changes[s] = LineOf(now.active[s], now.state[s])
  <2>1. \A s \in Sides : Follow(old[s], <<now.active[s], now.state[s]>>)
    BY <1>1, <1>7, <1>8
  <2> HIDE DEF now
  <2> QED
    BY <1>5, <1>6, <1>7, <2>1, ObservedFollows
<1>11. NothingImpossible'
  BY <1>10 DEF NothingImpossible
<1>12. WatchInv'
  <2> HIDE DEF now
  <2> QED
    BY <1>8, <1>9, <1>10 DEF WatchInv
<1> QED
  BY <1>4, <1>11, <1>12 DEF CoherentInv

LEMMA FreshCoheres ==
  ASSUME active' = [s \in Sides |-> None], frame' = NoFrame, recorder' = NoRecorder
  PROVE  CoherentInv'
<1>1. TargetIsOffered' /\ ControlHasAPhase'
  BY DEF TargetIsOffered, ControlHasAPhase, NoFrame, NoBreak
<1>2. NothingImpossible' /\ WatchInv'
  BY DEF NothingImpossible, WatchInv, NoFrame, NoRecorder
<1> QED
  BY <1>1, <1>2 DEF CoherentInv

LEMMA CoherentStep ==
  ASSUME ValidatorInv, ObjectiveInv, CoherentInv, [LNext]_lvars
  PROVE  CoherentInv'
<1>1. ASSUME NEW b, NEW price, Tick(b, price)
      PROVE  CoherentInv'
  BY <1>1, TickCoheres
<1>2. ASSUME Dies \/ \E b, price : DiesInTick(b, price)
      PROVE  CoherentInv'
  BY <1>2 DEF Dies, DiesInTick, Gone, CoherentInv, TargetIsOffered, ControlHasAPhase,
              NothingImpossible, WatchInv
<1>3. CASE Restart
  BY <1>3, FreshCoheres DEF Restart
<1>4. CASE Rewind \/ UNCHANGED lvars
  BY <1>4 DEF Rewind, lvars, hvars, ovars, CoherentInv, TargetIsOffered, ControlHasAPhase,
              NothingImpossible, WatchInv
<1> QED
  BY <1>1, <1>2, <1>3, <1>4 DEF LNext

\* What one frame says agrees from stage to stage: the break engine speaks of an
\* objective the frame offers, on the side control pushes to; control has the phase it
\* needs; and the observer, reading snapshots alone, sees no transition the engine's
\* contract excludes and writes into its file of changes where each side stands.
THEOREM ChainIsCoherentHolds == LSpec => []ChainIsCoherent
<1>1. LInit => CoherentInv
  BY DEF LInit, OInit, Fresh, CoherentInv, TargetIsOffered, ControlHasAPhase,
         NothingImpossible, WatchInv, NoFrame, NoBreak, NoRecorder
<1>2. ValidatorInv /\ ObjectiveInv /\ CoherentInv /\ [LNext]_lvars => CoherentInv'
  BY CoherentStep
<1>3. CoherentInv => ChainIsCoherent
  BY DEF CoherentInv, WatchInv, ChainIsCoherent, ChangesAreComplete, Current, LineOf
<1> QED
  BY <1>1, <1>2, <1>3, ObjectiveInvHolds, PTL DEF LSpec

-----------------------------------------------------------------------------
(* Two major swings that share a price are not alive at once.                  *)

LEMMA SmallestExists ==
  ASSUME NEW D \in SUBSET Nat, D # {}
  PROVE  \E d \in D : \A e \in D : d <= e
<1> DEFINE R == {ss \in Nat \X Nat : ss[1] < ss[2]}
<1>1. IsWellFoundedOn(R, Nat)
  BY NatLessThanWellFounded DEF OpToRel
<1> HIDE DEF R
<1>2. PICK x \in D : \A y \in D : ~(<<y, x>> \in R)
  BY <1>1, WFMin
<1>3. ASSUME NEW y \in D
      PROVE  x <= y
  <2>1. x \in Nat /\ y \in Nat /\ <<y, x>> \in Nat \X Nat
    OBVIOUS
  <2>2. ~(<<y, x>> \in Nat \X Nat /\ y < x)
    BY <1>2 DEF R
  <2> QED
    BY <2>1, <2>2
<1> QED
  BY <1>3

LEMMA RecordTypes ==
  ASSUME NEW reg \in Seq(Record), NEW i \in DOMAIN reg, NEW j \in DOMAIN reg
  PROVE  /\ PriceOf(reg[i]) \in Int /\ Apart(reg, i, j) \in Nat
         /\ reg[i].swing.strength \in 0..100 /\ reg[i].depth \in Nat
         /\ reg[i].swing \in Swing
<1>1. \A k \in DOMAIN reg : reg[k] \in Record
  OBVIOUS
<1>2. \A k \in DOMAIN reg :
        /\ reg[k].swing \in Swing /\ reg[k].depth \in Nat
        /\ reg[k].swing.price \in Int /\ reg[k].swing.strength \in 0..100
  BY <1>1, HierarchyAssumption DEF Record, Swing
<1> QED
  BY <1>2 DEF PriceOf, Apart, Distance

\* The prominence is the distance from the nearest swing of the other side.
LEMMA ProminenceIs ==
  ASSUME NEW reg \in Seq(Record), NEW i \in DOMAIN reg, NEW p, p = Prominence(reg, i)
  PROVE  /\ Opposite(reg, i) = {} => p \in 0..10
         /\ Opposite(reg, i) # {} => \E o \in Opposite(reg, i) : p = Apart(reg, i, o)
         /\ \A o \in Opposite(reg, i) : p <= Apart(reg, i, o)
<1> DEFINE O == Opposite(reg, i)
           D == {Apart(reg, i, o) : o \in O}
           s == reg[i].swing.strength
<1>1. D = {Distance(PriceOf(reg[i]), PriceOf(reg[j])) :
             j \in {k \in DOMAIN reg : reg[k].side # reg[i].side}}
  BY DEF Apart, Opposite
<1>2. p = IF D = {} THEN s \div 10 ELSE CHOOSE d \in D : \A e \in D : d <= e
  <2> DEFINE R == {Distance(PriceOf(reg[i]), PriceOf(reg[j])) :
                     j \in {k \in DOMAIN reg : reg[k].side # reg[i].side}}
  <2>1. p = IF R = {} THEN s \div 10 ELSE CHOOSE d \in R : \A e \in R : d <= e
    BY DEF Prominence
  <2> HIDE DEF D, R
  <2>2. D = R
    BY <1>1 DEF R
  <2> QED
    BY <2>1, <2>2
<1>3. D \in SUBSET Nat
  BY RecordTypes DEF Opposite
<1>4. D = {} <=> O = {}
  OBVIOUS
<1>5. s \in 0..100
  BY RecordTypes
<1> HIDE DEF s
<1>6. CASE O = {}
  <2>1. s \div 10 \in 0..10
    BY <1>5
  <2> QED
    BY <1>2, <1>4, <1>6, <2>1
<1>7. CASE O # {}
  <2> HIDE DEF D
  <2>1. p \in D /\ \A e \in D : p <= e
    BY <1>2, <1>3, <1>4, <1>7, SmallestExists
  <2> QED
    BY <1>7, <2>1 DEF D
<1> QED
  BY <1>6, <1>7

\* A strong root is major exactly if no swing of the other side is near, and there is
\* one at all.
LEMMA MajorIs ==
  ASSUME NEW reg \in Seq(Record), NEW i \in DOMAIN reg
  PROVE  /\ Category(reg, i) = "MAJOR" =>
              /\ reg[i].depth = 0 /\ Opposite(reg, i) # {}
              /\ \A o \in Opposite(reg, i) : ~(Apart(reg, i, o) < MajorProminence)
         /\ Category(reg, i) # "MAJOR" /\ reg[i].depth = 0 /\ reg[i].swing.strength >= 40 =>
              \/ Opposite(reg, i) = {}
              \/ \E o \in Opposite(reg, i) : Apart(reg, i, o) < MajorProminence
<1> DEFINE p == Prominence(reg, i)
           M == MajorProminence
           s == reg[i].swing.strength
           q == (p * 50) \div M
<1>1. /\ Opposite(reg, i) = {} => p \in 0..10
      /\ Opposite(reg, i) # {} => \E o \in Opposite(reg, i) : p = Apart(reg, i, o)
      /\ \A o \in Opposite(reg, i) : p <= Apart(reg, i, o)
  BY ProminenceIs
<1>2. M \in Nat /\ M > 10
  BY HierarchyAssumption, ConfirmedAssumption
<1>3. \A o \in Opposite(reg, i) : Apart(reg, i, o) \in Nat
  BY RecordTypes DEF Opposite
<1>4. p \in Nat
  BY <1>1, <1>3
<1>5. s \in 0..100 /\ reg[i].depth \in Nat
  BY RecordTypes
<1>6. Category(reg, i) = "MAJOR"
        <=> reg[i].depth = 0 /\ p >= M /\ Persistence(reg[i], p) >= 55
  BY DEF Category
<1> HIDE DEF p, M, s
<1>7. ASSUME reg[i].depth = 0, p >= M, s >= 40
      PROVE  Persistence(reg[i], p) >= 55
  <2>1. q \in Int /\ q >= 50
    <3>1. p * 50 >= M * 50 /\ p * 50 \in Nat
      BY <1>2, <1>4, <1>7
    <3>2. (M * 50) \div M = 50
      BY <1>2
    <3> QED
      BY <1>2, <3>1, <3>2
  <2> HIDE DEF q
  <2>2. AtMost(50, q) = 50
    BY <2>1 DEF AtMost
  <2>3. AtMost(50, s \div 2) \in 20..50
    <3>1. s \div 2 \in 20..50
      BY <1>5, <1>7
    <3> QED
      BY <3>1 DEF AtMost
  <2>4. AtMost(40, reg[i].depth * 15) = 0
    BY <1>7 DEF AtMost
  <2> DEFINE half == AtMost(50, s \div 2)
             rest == AtMost(40, reg[i].depth * 15)
             third == AtMost(50, q)
  <2>5. Persistence(reg[i], p) = AtLeast(0, AtMost(100, half + third - rest))
    BY DEF Persistence, q, M, s
  <2>6. half \in 20..50 /\ third = 50 /\ rest = 0
    BY <2>2, <2>3, <2>4
  <2> HIDE DEF half, rest, third
  <2>7. half + third - rest \in 70..100
    BY <2>6
  <2>8. \A x \in 70..100 : AtLeast(0, AtMost(100, x)) >= 55
    BY DEF AtLeast, AtMost
  <2> QED
    BY <2>5, <2>7, <2>8
<1> QED
  BY <1>1, <1>2, <1>3, <1>4, <1>6, <1>7 DEF M, s

\* The swings a tick adds to the registry: at most one of a side, each a pivot.
Added(h, g) ==
  /\ Len(g.registry) <= Len(h.registry) + 2
  /\ \A i \in NewIds(h, g) : g.registry[i].swing.strength >= 40
  /\ \A i, j \in NewIds(h, g) : g.registry[i].side = g.registry[j].side => i = j

LEMMA IngestAdds ==
  ASSUME NEW h, Good(h), NEW new \in [Sides -> {None} \cup Swing],
         \A s \in Sides : new[s] \in {None} \cup Pivots
  PROVE  Added(h, Ingest(h, new))
<1>1. ASSUME NEW g, Good(g), NEW side \in Sides
      PROVE  LET x == Ingested(g, side, new[side])
             IN  /\ Grown(g, x)
                 /\ Len(x.registry) <= Len(g.registry) + 1
                 /\ \A i \in NewIds(g, x) : /\ x.registry[i].side = side
                                            /\ x.registry[i].swing.strength >= 40
  <2> DEFINE x == Ingested(g, side, new[side])
             n == Len(g.registry)
  <2>1. n \in Nat
    BY <1>1 DEF Good, WellFormed
  <2>2. CASE new[side] = None
    <3>1. x = g
      BY <2>2 DEF Ingested
    <3> QED
      BY <1>1, <2>1, <3>1 DEF Grown, NewIds
  <2>3. CASE new[side] # None
    <3>1. new[side] \in Swing /\ new[side].strength >= 40
      BY <1>1, <2>3 DEF Pivots
    <3>2. Kept(g, side, new[side].price) \in Seq(DOMAIN g.registry)
      BY <1>1, KeptType
    <3>3. x = Placed(g, side, new[side], Kept(g, side, new[side].price))
      BY <2>3 DEF Ingested
    <3> HIDE DEF x
    <3>4. Grown(g, x) /\ Appended(g, x, side, new[side], Kept(g, side, new[side].price))
      BY <1>1, <3>1, <3>2, <3>3, PlacedGrows
    <3>5. /\ Len(x.registry) = n + 1
          /\ x.registry[n + 1].side = side /\ x.registry[n + 1].swing = new[side]
      BY <3>4 DEF Appended
    <3>6. \A i \in NewIds(g, x) : i = n + 1
      BY <2>1, <3>5 DEF NewIds
    <3> QED
      BY <2>1, <3>1, <3>4, <3>5, <3>6 DEF x
  <2> QED
    BY <2>2, <2>3
<1> DEFINE high == Ingested(h, "HIGH", new["HIGH"])
           low == Ingested(high, "LOW", new["LOW"])
           n == Len(h.registry)
           m == Len(high.registry)
<1>2. /\ Grown(h, high) /\ m <= n + 1
      /\ \A i \in NewIds(h, high) : /\ high.registry[i].side = "HIGH"
                                    /\ high.registry[i].swing.strength >= 40
  BY <1>1 DEF Sides
<1>3. Good(high)
  BY <1>2 DEF Grown
<1> HIDE DEF high
<1>4. /\ Grown(high, low) /\ Len(low.registry) <= m + 1
      /\ \A i \in NewIds(high, low) : /\ low.registry[i].side = "LOW"
                                      /\ low.registry[i].swing.strength >= 40
  BY <1>1, <1>3 DEF Sides
<1> HIDE DEF low
<1>5. Ingest(h, new) = low
  BY DEF Ingest, high, low
<1>6. /\ n \in Nat /\ m \in Nat /\ Len(low.registry) \in Nat /\ n <= m
      /\ DOMAIN high.registry = 1..m
  BY <1>2, <1>3, <1>4 DEF Grown, Good, WellFormed
<1>7. \A i \in DOMAIN high.registry : low.registry[i] = high.registry[i]
  BY <1>4 DEF Grown
<1>8. ASSUME NEW i \in NewIds(h, low)
      PROVE  /\ low.registry[i].swing.strength >= 40
             /\ \/ i = n + 1 /\ low.registry[i].side = "HIGH"
                \/ i = m + 1 /\ low.registry[i].side = "LOW"
  <2>1. CASE i <= m
    <3>1. i \in NewIds(h, high) /\ i = n + 1 /\ i \in DOMAIN high.registry
      BY <1>2, <1>6, <2>1 DEF NewIds
    <3> QED
      BY <1>2, <1>7, <3>1
  <2>2. CASE ~(i <= m)
    <3>1. i \in NewIds(high, low) /\ i = m + 1
      BY <1>4, <1>6, <2>2 DEF NewIds
    <3> QED
      BY <1>4, <3>1
  <2> QED
    BY <2>1, <2>2
<1>9. Len(low.registry) <= n + 2
  BY <1>2, <1>4, <1>6
<1> QED
  BY <1>5, <1>8, <1>9 DEF Added

\* A root that a swing of its side and price hides from the frontier.
LEMMA HiddenByRoot ==
  ASSUME NEW h, NEW g, Sound(h), Sound(g), Grown(h, g),
         NEW i \in DOMAIN h.registry, NEW j \in NewIds(h, g),
         g.registry[i].side = g.registry[j].side,
         PriceOf(g.registry[i]) = PriceOf(g.registry[j]), g.registry[j].depth = 0,
         i \notin Displaced(h, g, g.registry[i].side)
  PROVE  \E k \in DOMAIN h.registry :
           /\ i < k /\ h.registry[k].side = h.registry[i].side /\ h.registry[k].depth = 0
           /\ PriceOf(h.registry[k]) = PriceOf(h.registry[i])
<1> DEFINE R == h.registry
           G == g.registry
           s == G[i].side
<1>1. /\ R \in Seq(Record) /\ G \in Seq(Record)
      /\ Nested(h) /\ Nested(g) /\ NearestParents(R) /\ NearestParents(G)
  BY DEF Sound, Good, WellFormed
<1>2. /\ Len(R) \in Nat /\ DOMAIN R = 1..Len(R) /\ DOMAIN G = 1..Len(G) /\ Len(R) <= Len(G)
      /\ \A k \in DOMAIN R : G[k] = R[k] /\ k \in DOMAIN G
      /\ i \in DOMAIN R /\ j \in DOMAIN G /\ \A k \in DOMAIN R : k < j
  BY <1>1 DEF Grown, NewIds
<1>3. /\ h.frontier \in [Sides -> Seq(DOMAIN R)] /\ g.frontier \in [Sides -> Seq(DOMAIN G)]
  BY DEF Sound, Good, WellFormed
<1> HIDE DEF R, G
<1>4. /\ \A k \in DOMAIN R : PriceOf(R[k]) \in Int /\ R[k].depth \in Nat
      /\ \A k \in DOMAIN G : PriceOf(G[k]) \in Int /\ G[k].depth \in Nat
  BY <1>1, RecordTypes
<1>5. s \in Sides /\ G[j].side = s /\ PriceOf(G[j]) = PriceOf(G[i]) /\ G[j].depth = 0
  <2>1. G[i] \in Record
    BY <1>1, <1>2
  <2> QED
    BY <2>1 DEF Record, G
<1>6. ~Unreached(G, s, i)
  BY <1>2, <1>4, <1>5 DEF Unreached, Beyond
<1>7. \A k \in DOMAIN g.frontier[s] : g.frontier[s][k] # i
  BY <1>1, <1>2, <1>5, <1>6 DEF Nested, G
<1>8. \A k \in DOMAIN h.frontier[s] : h.frontier[s][k] # i
  <2>1. i \notin Displaced(h, g, s)
    BY DEF G
  <2>2. DOMAIN h.frontier[s] = 1..Len(h.frontier[s]) /\ DOMAIN g.frontier[s] = 1..Len(g.frontier[s])
    BY <1>3, <1>5
  <2> HIDE DEF s
  <2> QED
    BY <1>7, <2>1, <2>2 DEF Displaced
<1>9. ~Unreached(R, s, i)
  BY <1>1, <1>5, <1>8 DEF Nested, R
<1>10. PICK k \in DOMAIN R : /\ k > i /\ R[k].side = s
                             /\ ~Beyond(s, PriceOf(R[i]), PriceOf(R[k]))
  BY <1>2, <1>9 DEF Unreached, R
<1>11. \A m \in DOMAIN G : ~Encloses(G, m, j)
  <2>1. G[j].parent = Root
    <3>1. G[j].parent # Root => /\ G[j].parent \in DOMAIN G
                                /\ G[j].depth = G[G[j].parent].depth + 1
      BY <1>1, <1>2 DEF NearestParents
    <3> QED
      BY <1>4, <1>5, <3>1
  <2> QED
    BY <1>1, <1>2, <2>1 DEF NearestParents
<1>12. PriceOf(R[k]) = PriceOf(R[i])
  <2>1. ~Beyond(s, PriceOf(G[k]), PriceOf(G[j]))
    BY <1>2, <1>5, <1>10, <1>11 DEF Encloses
  <2>2. PriceOf(G[k]) = PriceOf(R[k]) /\ PriceOf(G[j]) = PriceOf(R[i])
    BY <1>2, <1>5 DEF R
  <2>3. PriceOf(R[k]) \in Int /\ PriceOf(R[i]) \in Int
    BY <1>4 DEF R
  <2> QED
    BY <1>10, <2>1, <2>2, <2>3 DEF Beyond
<1>13. R[k].depth = 0
  <2>1. R[k].parent = Root
    <3> SUFFICES ASSUME R[k].parent # Root PROVE FALSE
      OBVIOUS
    <3> DEFINE p == R[k].parent
    <3>1. p \in DOMAIN R /\ Encloses(R, p, k)
      BY <1>1 DEF NearestParents
    <3>2. Encloses(G, p, j)
      BY <1>2, <1>5, <1>10, <1>12, <3>1 DEF Encloses, R
    <3> QED
      BY <1>2, <1>11, <3>1, <3>2
  <2> QED
    BY <1>1, <2>1 DEF NearestParents
<1> QED
  BY <1>2, <1>5, <1>10, <1>12, <1>13 DEF R

LEMMA EvaluatedConfirmed ==
  ASSUME NEW h, Sound(h), Confirmed(h.registry),
         NEW new \in [Sides -> {None} \cup Swing],
         \A s \in Sides : new[s] \in {None} \cup Pivots,
         NEW price \in Prices, NEW e, e = Evaluated(h, new, price)
  PROVE  Confirmed(e.registry)
<1> DEFINE g == Ingest(h, new)
           R == h.registry
           G == g.registry
           E == e.registry
           n == Len(R)
<1>1. Sound(g) /\ Grown(h, g) /\ Added(h, g) /\ Good(h) /\ Good(g)
  BY IngestSound, IngestGrows, IngestAdds DEF Sound
<1>2. e = Follows(h, g, price)
  BY DEF Evaluated
<1> HIDE DEF g
<1>3. Rewritten(g, e, n) /\ Keeps(R, E)
  BY <1>1, <1>2, FollowsRewrites, EvaluatedKeeps
<1>4. \A i \in DOMAIN G : Fate(h, g, price, i, E[i])
  BY <1>1, <1>2, FollowsRecord
<1>5. /\ R \in Seq(Record) /\ G \in Seq(Record) /\ E \in Seq(Record)
      /\ n \in Nat /\ DOMAIN R = 1..n /\ DOMAIN G = 1..Len(G) /\ n <= Len(G)
      /\ \A k \in DOMAIN R : G[k] = R[k] /\ k \in DOMAIN G
      /\ DOMAIN E = DOMAIN G
      /\ \A k : k \in NewIds(h, g) <=> k \in DOMAIN G /\ k \notin DOMAIN R
  BY <1>1, <1>3 DEF Grown, Good, WellFormed, Rewritten, NewIds
<1> HIDE DEF R, G, E
<1>6. \A i \in DOMAIN G :
        /\ SamePlace(G[i], E[i])
        /\ E[i].category = IF i \in DOMAIN R THEN R[i].category ELSE Category(G, i)
  BY <1>4, <1>5 DEF Fate, G
<1>7. \A i \in DOMAIN R : R[i].lifecycle \in Terminal => E[i].lifecycle \in Terminal
  BY <1>3, <1>5 DEF Keeps, Terminal
<1>8. \A i \in DOMAIN G : Opposite(E, i) = Opposite(G, i)
  BY <1>5, <1>6 DEF Opposite, SamePlace
<1>9. \A i, j \in DOMAIN G : Apart(E, i, j) = Apart(G, i, j)
  BY <1>6 DEF Apart, PriceOf, SamePlace
<1>10. \A i \in DOMAIN R : Opposite(R, i) = {o \in Opposite(G, i) : o \in DOMAIN R}
  BY <1>5 DEF Opposite
<1>11. \A i, j \in DOMAIN R : Apart(R, i, j) = Apart(G, i, j)
  BY <1>5 DEF Apart
<1>12. \A i \in DOMAIN G : Opposite(G, i) \subseteq DOMAIN G
  BY DEF Opposite
<1>13. ASSUME NEW i \in DOMAIN E, E[i].category = "MAJOR"
       PROVE  E[i].depth = 0 /\ \E o \in Opposite(E, i) : o <= i + 1
  <2>1. CASE i \in DOMAIN R
    <3>1. R[i].depth = 0 /\ \E o \in Opposite(R, i) : o <= i + 1
      BY <1>5, <1>6, <1>13, <2>1 DEF Confirmed, R
    <3> QED
      BY <1>5, <1>6, <1>8, <1>10, <2>1, <3>1 DEF SamePlace
  <2>2. CASE i \notin DOMAIN R
    <3>1. G[i].depth = 0 /\ Opposite(G, i) # {}
      BY <1>5, <1>6, <1>13, <2>2, MajorIs
    <3>2. PICK o \in Opposite(G, i) : TRUE
      BY <3>1
    <3>3. o \in DOMAIN G /\ o <= n + 2 /\ i >= n + 1
      BY <1>1, <1>5, <1>12, <2>2 DEF Added, G, R
    <3>4. o <= i + 1
      BY <1>5, <3>3
    <3> QED
      BY <1>5, <1>6, <1>8, <3>1, <3>4 DEF SamePlace
  <2> QED
    BY <2>1, <2>2
<1>14. ASSUME NEW i \in DOMAIN E, E[i].category # "MAJOR", E[i].depth = 0
       PROVE  \/ \E o \in Opposite(E, i) : Apart(E, i, o) < MajorProminence
              \/ \A o \in Opposite(E, i) : o > i
  <2>1. CASE i \in DOMAIN R
    <3>1. \/ \E o \in Opposite(R, i) : Apart(R, i, o) < MajorProminence
          \/ \A o \in Opposite(R, i) : o > i
      <4>1. R[i].category # "MAJOR" /\ R[i].depth = 0
        BY <1>5, <1>6, <1>14, <2>1 DEF SamePlace
      <4> QED
        BY <2>1, <4>1 DEF Confirmed, R
    <3>2. ASSUME NEW o \in Opposite(R, i), Apart(R, i, o) < MajorProminence
          PROVE  o \in Opposite(E, i) /\ Apart(E, i, o) < MajorProminence
      BY <1>5, <1>8, <1>9, <1>10, <1>11, <2>1, <3>2
    <3>3. ASSUME \A o \in Opposite(R, i) : o > i, NEW o \in Opposite(E, i)
          PROVE  o > i
      BY <1>5, <1>8, <1>10, <1>12, <2>1, <3>3
    <3> QED
      BY <3>1, <3>2, <3>3
  <2>2. CASE i \notin DOMAIN R
    <3>1. G[i].depth = 0 /\ G[i].swing.strength >= 40 /\ Category(G, i) # "MAJOR"
      BY <1>1, <1>5, <1>6, <1>14, <2>2 DEF SamePlace, Added, G
    <3>2. \/ Opposite(G, i) = {}
          \/ \E o \in Opposite(G, i) : Apart(G, i, o) < MajorProminence
      BY <1>5, <3>1, MajorIs
    <3> QED
      BY <1>5, <1>8, <1>9, <1>12, <3>2
  <2> QED
    BY <2>1, <2>2
<1>15. ASSUME NEW i \in DOMAIN E, NEW j \in DOMAIN E, i < j, E[i].side = E[j].side,
              PriceOf(E[i]) = PriceOf(E[j]), E[i].category = "MAJOR", E[j].category = "MAJOR"
       PROVE  E[i].lifecycle \in Terminal
  <2>1. /\ G[i].side = G[j].side /\ PriceOf(G[i]) = PriceOf(G[j])
        /\ i \in DOMAIN G /\ j \in DOMAIN G
    BY <1>5, <1>6, <1>15 DEF SamePlace, PriceOf
  <2>2. CASE j \in DOMAIN R
    <3>1. i \in DOMAIN R
      BY <1>5, <1>15, <2>2
    <3>2. R[i].category = "MAJOR" /\ R[j].category = "MAJOR"
      BY <1>5, <1>6, <1>15, <2>2, <3>1
    <3>3. R[i].lifecycle \in Terminal
      BY <1>5, <1>15, <2>1, <2>2, <3>1, <3>2 DEF Confirmed, R
    <3> QED
      BY <1>7, <3>1, <3>3
  <2>3. CASE j \notin DOMAIN R
    <3>1. j \in NewIds(h, g) /\ i \in DOMAIN R
      BY <1>1, <1>5, <1>15, <2>1, <2>3 DEF Added, G
    <3>2. Category(G, j) = "MAJOR" /\ R[i].category = "MAJOR"
      BY <1>6, <1>15, <2>1, <2>3, <3>1
    <3>3. /\ G[j].depth = 0
          /\ \A o \in Opposite(G, j) : ~(Apart(G, j, o) < MajorProminence)
      BY <1>5, <2>1, <3>2, MajorIs
    <3>4. CASE i \in Displaced(h, g, G[i].side)
      <4>1. G[j].parent = Root
        <5>1. NearestParents(G)
          BY <1>1 DEF Sound, G
        <5>2. G[j].parent # Root => /\ G[j].parent \in DOMAIN G
                                    /\ G[j].depth = G[G[j].parent].depth + 1
          BY <2>1, <5>1 DEF NearestParents
        <5>3. \A k \in DOMAIN G : G[k].depth \in Nat
          BY <1>5, RecordTypes
        <5> QED
          BY <3>3, <5>2, <5>3
      <4>2. E[i].lifecycle \notin Alive
        BY <1>4, <1>15, <2>1, <3>1, <3>2, <3>4, <4>1 DEF Fate, G
      <4>3. E[i].lifecycle \in Lifecycles
        <5>1. E[i] \in Record
          BY <1>5
        <5> QED
          BY <5>1 DEF Record
      <4> QED
        BY <4>2, <4>3 DEF Alive, Lifecycles, Terminal
    <3>5. CASE i \notin Displaced(h, g, G[i].side)
      <4>1. PICK k \in DOMAIN R :
              /\ i < k /\ R[k].side = R[i].side /\ R[k].depth = 0
              /\ PriceOf(R[k]) = PriceOf(R[i])
        BY <1>1, <2>1, <3>1, <3>3, <3>5, HiddenByRoot DEF G, R
      <4>2. CASE R[k].category = "MAJOR"
        <5>1. R[i].lifecycle \in Terminal
          BY <3>1, <3>2, <4>1, <4>2 DEF Confirmed, R
        <5> QED
          BY <1>7, <3>1, <5>1
      <4>3. CASE R[k].category # "MAJOR"
        <5>1. \/ \E o \in Opposite(R, k) : Apart(R, k, o) < MajorProminence
              \/ \A o \in Opposite(R, k) : o > k
          BY <4>1, <4>3 DEF Confirmed, R
        <5>2. PICK m \in Opposite(R, i) : m <= i + 1
          BY <3>1, <3>2 DEF Confirmed, R
        <5>3. m \in Opposite(R, k) /\ m \in DOMAIN R
          BY <4>1, <5>2 DEF Opposite
        <5>4. ~(m > k)
          BY <1>5, <3>1, <4>1, <5>2, <5>3
        <5>5. PICK o \in Opposite(R, k) : Apart(R, k, o) < MajorProminence
          BY <5>1, <5>3, <5>4
        <5>6. o \in Opposite(G, j) /\ Apart(G, j, o) = Apart(R, k, o)
          <6>1. o \in DOMAIN R /\ R[o].side # R[k].side
            BY <5>5 DEF Opposite
          <6>2. G[o] = R[o] /\ G[i] = R[i]
            BY <1>5, <3>1, <6>1
          <6>3. o \in Opposite(G, j)
            BY <1>5, <2>1, <4>1, <6>1, <6>2 DEF Opposite
          <6>4. PriceOf(G[j]) = PriceOf(R[k]) /\ PriceOf(G[o]) = PriceOf(R[o])
            BY <2>1, <4>1, <6>2
          <6> QED
            BY <6>3, <6>4 DEF Apart
        <5> QED
          BY <3>3, <5>5, <5>6
      <4> QED
        BY <4>2, <4>3
    <3> QED
      BY <3>4, <3>5
  <2> QED
    BY <2>2, <2>3
<1>16. Confirmed(E)
  BY <1>13, <1>14, <1>15 DEF Confirmed
<1> QED
  BY <1>16 DEF E

ConfirmedInv == Confirmed(registry) /\ Confirmed(Loaded(saved).registry)

LEMMA ConfirmedStays ==
  ASSUME NEW r, NEW l, Confirmed(r), Confirmed(l),
         registry' = r, Loaded(saved)'.registry = l
  PROVE  ConfirmedInv'
BY DEF ConfirmedInv, Confirmed, Opposite, Apart, PriceOf

\* What an evaluation leaves in the registry and in the file.
LEMMA CheckpointedConfirmed ==
  ASSUME ValidatorInv, ConfirmedInv, NEW b, NEW price,
         Arrives(b, price), NEW lists, lists = ListsAfter(b),
         NEW e, e = Evaluated(Hierarchy, [s \in Sides |-> Arrival(lists, s)], price)
  PROVE  Confirmed(e.registry) /\ Confirmed(Loaded(Checkpointed(e)).registry)
<1> DEFINE new == [s \in Sides |-> Arrival(lists, s)]
<1>1. FrontType /\ Sound(Hierarchy) /\ Good(Hierarchy) /\ Hierarchy.registry = registry
  BY DEF ValidatorInv, Sound, Hierarchy
<1>2. price \in Prices
  BY <1>1, ArrivesType
<1>3. lists \in SwingLists
  BY <1>1, ListsAfterTick
<1>4. new \in [Sides -> {None} \cup Swing] /\ \A s \in Sides : new[s] \in {None} \cup Pivots
  BY <1>3, ArrivalIsNew
<1> HIDE DEF new
<1>5. e = Evaluated(Hierarchy, new, price)
  BY DEF new
<1>6. Confirmed(Hierarchy.registry)
  BY <1>1 DEF ConfirmedInv
<1>7. Confirmed(e.registry)
  BY <1>1, <1>2, <1>4, <1>5, <1>6, EvaluatedConfirmed
<1>8. Loaded(Document(e)) = e
  BY <1>1, <1>2, <1>4, <1>5, EvaluatedKeeps, LoadedDocument
<1> QED
  BY <1>7, <1>8 DEF Checkpointed, ConfirmedInv

LEMMA ConfirmedStep ==
  ASSUME ValidatorInv, ConfirmedInv, [LNext]_lvars
  PROVE  ConfirmedInv'
<1>1. ASSUME NEW b, NEW price, Tick(b, price)
      PROVE  ConfirmedInv'
  <2> DEFINE e == Evaluated(Hierarchy, [s \in Sides |-> Arrival(swings', s)], price)
  <2>1. swings' = ListsAfter(b) /\ Arrives(b, price)
    BY <1>1 DEF Tick, Ingests, ListsAfter
  <2>2. registry' = e.registry /\ saved' = Checkpointed(e)
    BY <1>1 DEF Tick, EvaluateHierarchy
  <2>3. Confirmed(e.registry) /\ Confirmed(Loaded(Checkpointed(e)).registry)
    BY <2>1, CheckpointedConfirmed
  <2> HIDE DEF e
  <2>4. Loaded(saved)' = Loaded(Checkpointed(e))
    BY <2>2 DEF Loaded
  <2> QED
    BY <2>2, <2>3, <2>4, ConfirmedStays
<1>2. ASSUME NEW b, NEW price, DiesInTick(b, price)
      PROVE  ConfirmedInv'
  <2> DEFINE e == Evaluated(Hierarchy, [s \in Sides |-> Arrival(ListsAfter(b), s)], price)
  <2>1. Arrives(b, price) /\ saved' = Checkpointed(e) /\ registry' = registry
    BY <1>2 DEF DiesInTick, Gone, ListsAfter
  <2>2. Confirmed(Loaded(Checkpointed(e)).registry)
    BY <2>1, CheckpointedConfirmed
  <2> HIDE DEF e
  <2>3. Loaded(saved)' = Loaded(Checkpointed(e))
    BY <2>1 DEF Loaded
  <2> QED
    BY <2>1, <2>2, <2>3, ConfirmedStays DEF ConfirmedInv
<1>3. CASE Restart
  <2>1. registry' = Loaded(saved).registry /\ Loaded(saved)' = Loaded(saved)
    BY <1>3, SameSaved DEF Restart, Restore
  <2> QED
    BY <2>1, ConfirmedStays DEF ConfirmedInv
<1>4. ASSUME registry' = registry, saved' = saved
      PROVE  ConfirmedInv'
  BY <1>4, SameSaved, ConfirmedStays DEF ConfirmedInv
<1> QED
  BY <1>1, <1>2, <1>3, <1>4 DEF LNext, Dies, Gone, Rewind, lvars, hvars

LEMMA ConfirmedInvHolds == LSpec => []ConfirmedInv
<1>1. LInit => ConfirmedInv
  BY ConfirmedAssumption DEF LInit, HInit, ConfirmedInv
<1>2. ValidatorInv /\ ConfirmedInv /\ [LNext]_lvars => ConfirmedInv'
  BY ConfirmedStep
<1> QED
  BY <1>1, <1>2, ValidatorInvHolds, PTL DEF LSpec

\* The row the log finds for a live major swing by its side and price alone.
LEMMA LoggedIs ==
  ASSUME NEW reg \in Seq(Record), Confirmed(reg), NEW price, NEW i \in DOMAIN reg,
         reg[i].category = "MAJOR", reg[i].lifecycle \in Alive
  PROVE  LoggedAs(reg, reg[i].side, reg[i].swing, price) = Row(reg[i], price)
<1> DEFINE s == reg[i].side
           w == reg[i].swing
           I == {k \in DOMAIN reg : /\ reg[k].side = s /\ w # None
                                    /\ PriceOf(reg[k]) = w.price}
<1>1. \A k \in DOMAIN reg : /\ reg[k].lifecycle \in Lifecycles
                            /\ reg[k].category \in Categories
                            /\ reg[k].swing \in Swing /\ PriceOf(reg[k]) \in Int
                            /\ k \in Nat
  <2>1. \A k \in DOMAIN reg : reg[k] \in Record /\ k \in Nat
    OBVIOUS
  <2>2. \A k \in DOMAIN reg : reg[k].swing \in Swing /\ PriceOf(reg[k]) \in Int
    BY RecordTypes
  <2> QED
    BY <2>1, <2>2 DEF Record
<1>2. w # None /\ w.price = PriceOf(reg[i])
  BY <1>1, SwingIsInt DEF PriceOf
<1>3. i \in I
  BY <1>2
<1>4. ASSUME NEW k \in I, k # i, reg[k].category = "MAJOR"
      PROVE  reg[k].lifecycle \in Terminal
  <2>1. reg[i].lifecycle \notin Terminal
    BY DEF Alive, Terminal
  <2>2. CASE k < i
    BY <1>2, <1>4, <2>2 DEF Confirmed
  <2>3. CASE i < k
    BY <1>2, <1>4, <2>1, <2>3 DEF Confirmed
  <2> QED
    BY <1>1, <1>4, <2>2, <2>3
<1>5. \A k \in I : RowBefore(reg, i, k, price)
  <2> SUFFICES ASSUME NEW k \in I PROVE RowBefore(reg, i, k, price)
    OBVIOUS
  <2>1. CASE k = i
    BY <1>1, <2>1 DEF RowBefore
  <2>2. CASE k # i /\ reg[k].category = "MAJOR"
    BY <1>1, <1>4, <2>2 DEF RowBefore, CategoryRank, LifecycleRank, Alive, Terminal,
                             Categories, Lifecycles
  <2>3. CASE reg[k].category # "MAJOR"
    BY <1>1, <2>3 DEF RowBefore, CategoryRank, Categories
  <2> QED
    BY <2>1, <2>2, <2>3
<1>6. ASSUME NEW k \in I, RowBefore(reg, k, i, price)
      PROVE  k = i
  <2> SUFFICES ASSUME k # i PROVE FALSE
    OBVIOUS
  <2>1. CASE reg[k].category = "MAJOR"
    BY <1>1, <1>4, <1>6, <2>1 DEF RowBefore, CategoryRank, LifecycleRank, Alive, Terminal,
                                  Categories, Lifecycles
  <2>2. CASE reg[k].category # "MAJOR"
    BY <1>1, <1>6, <2>2 DEF RowBefore, CategoryRank, Categories
  <2> QED
    BY <2>1, <2>2
<1> HIDE DEF I
<1>7. (CHOOSE k \in I : \A j \in I : RowBefore(reg, k, j, price)) = i
  <2> DEFINE c == CHOOSE k \in I : \A j \in I : RowBefore(reg, k, j, price)
  <2>1. c \in I /\ \A j \in I : RowBefore(reg, c, j, price)
    BY <1>3, <1>5
  <2> HIDE DEF c
  <2>2. c = i
    BY <1>3, <1>6, <2>1
  <2> QED
    BY <2>2 DEF c
<1>8. LoggedAs(reg, s, w, price)
        = IF I = {} THEN None
          ELSE Row(reg[CHOOSE k \in I : \A j \in I : RowBefore(reg, k, j, price)], price)
  BY DEF LoggedAs, I
<1> QED
  BY <1>3, <1>7, <1>8

\* The log names the very swing that is in force, though it looks for it by price
\* alone in rows sorted for a reader: a later root at the price of a major swing either
\* retires it or is no major swing itself, so that no two are alive at one price. It is
\* still eligible, unless the price touches it.
THEOREM LogNamesTheObjectiveHolds == LSpec => []LogNamesTheObjective
<1>1. ASSUME ValidatorInv, ObjectiveInv, ConfirmedInv
      PROVE  LogNamesTheObjective
  <2> SUFFICES ASSUME Current, NEW s \in Sides
               PROVE  LET row == LoggedAs(registry, s, active[s], frame.price)
                      IN  IF active[s] = None THEN row = None
                          ELSE /\ row # None /\ row.swing = active[s]
                               /\ row.challenge \in {"NONE", "UNDER_CHALLENGE", "RECLAIMED"}
                               /\ row.eligible \/ row.swing.price = frame.price
    BY DEF LogNamesTheObjective
  <2>1. SideInv(s) /\ frame.price \in Prices /\ registry \in Seq(Record)
    BY <1>1 DEF ObjectiveInv, Current, ValidatorInv, Sound, Good, WellFormed, Hierarchy
  <2>2. CASE active[s] = None
    BY <2>2 DEF LoggedAs
  <2>3. CASE active[s] # None
    <3>1. PICK i \in DOMAIN registry :
            /\ registry[i].side = s /\ registry[i].swing = active[s]
            /\ registry[i].category = "MAJOR" /\ registry[i].lifecycle \in Alive
      BY <2>1, <2>3 DEF SideInv, Live
    <3> DEFINE r == registry[i]
               row == Row(r, frame.price)
    <3>2. LoggedAs(registry, s, active[s], frame.price) = row
      BY <1>1, <2>1, <3>1, LoggedIs DEF ConfirmedInv
    <3>3. row.swing = active[s] /\ row.eligible = Eligible(r, frame.price)
          /\ row.challenge = ChallengeState(r)
      BY <3>1 DEF Row
    <3>4. ChallengeState(r) \in {"NONE", "UNDER_CHALLENGE", "RECLAIMED"}
      BY <3>1 DEF ChallengeState, Alive
    <3>5. Eligible(r, frame.price) \/ active[s].price = frame.price
      <4>1. r.lifecycle = "ACTIVE" => ~Beyond(s, frame.price, PriceOf(r))
        BY <1>1, <3>1 DEF ObjectiveInv, Current
      <4>2. PriceOf(r) \in Int /\ frame.price \in Int /\ PriceOf(r) = active[s].price
        BY <2>1, <3>1, RecordTypes, HierarchyAssumption DEF PriceOf
      <4> QED
        BY <3>1, <4>1, <4>2 DEF Eligible, Alive, Beyond
    <3>6. row # None
      <4>1. active[s] \in Swing /\ Eligible(r, frame.price) \in BOOLEAN
        BY <2>1, <2>3 DEF SideInv, Eligible
      <4>2. row \in [swing : Swing, eligible : BOOLEAN, challenge : ChallengeStates]
        <5> DEFINE y == Eligible(r, frame.price)
                   z == ChallengeState(r)
        <5>1. y \in BOOLEAN /\ z \in ChallengeStates /\ r.swing \in Swing
          <6>1. y \in BOOLEAN
            BY <4>1
          <6>2. z \in {"NONE", "UNDER_CHALLENGE", "RECLAIMED"} /\ r.swing = active[s]
            BY <3>1, <3>4
          <6> HIDE DEF y, z, r
          <6>3. z \in ChallengeStates
            BY <6>2 DEF ChallengeStates
          <6> QED
            BY <4>1, <6>1, <6>2, <6>3
        <5>2. row = [swing |-> r.swing, eligible |-> y, challenge |-> z]
          BY DEF Row
        <5> HIDE DEF y, z, r, row
        <5> QED
          BY <5>1, <5>2
      <4>3. None \notin [swing : Swing, eligible : BOOLEAN, challenge : ChallengeStates]
        BY ValidatorAssumption, Zenon
      <4> HIDE DEF row
      <4> QED
        BY <4>2, <4>3
    <3> HIDE DEF row
    <3> QED
      BY <2>3, <3>2, <3>3, <3>4, <3>5, <3>6
  <2> QED
    BY <2>2, <2>3
<1> QED
  BY <1>1, ObjectiveInvHolds, ConfirmedInvHolds, PTL
=============================================================================
