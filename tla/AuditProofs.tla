----------------------------- MODULE AuditProofs -----------------------------
(***************************************************************************)
(* Theorems about what the dashboard remembers of its own signals, for all *)
(* prices, sides, delays and restarts: each finished signal is stored with *)
(* the extremes of its own path, every panel counts the same signals, and  *)
(* the account shows the drawdown that its trades made.                    *)
(***************************************************************************)
EXTENDS SignalAudit, FiniteSetTheorems, SequenceTheorems, WellFoundedInduction, TLAPS

-----------------------------------------------------------------------------
(* Numbers.                                                                *)

\* A nonempty set of naturals has a least member.
LEMMA LeastExists ==
  ASSUME NEW D \in SUBSET Nat, D # {}
  PROVE  \E d \in D : \A e \in D : d <= e
<1> DEFINE R == {pair \in Nat \X Nat : pair[1] < pair[2]}
<1>1. IsWellFoundedOn(R, Nat)
  BY NatLessThanWellFounded DEF OpToRel
<1> HIDE DEF R
<1>2. PICK x \in D : \A y \in D : ~(<<y, x>> \in R)
  BY <1>1, WFMin
<1>3. ASSUME NEW y \in D
      PROVE  x <= y
  <2>1. x \in Nat /\ y \in Nat /\ <<y, x>> \in Nat \X Nat
    OBVIOUS
  <2>2. ~(<<y, x>> \in Nat \X Nat /\ y < x)
    BY <1>2 DEF R
  <2> QED
    BY <2>1, <2>2
<1> QED
  BY <1>3

LEMMA LargestOf ==
  ASSUME NEW n \in Nat, NEW D \in SUBSET (0..n), D # {}
  PROVE  Max(D) \in D /\ \A x \in D : x <= Max(D)
<1> DEFINE B == {b \in Nat : \A x \in D : x <= b}
<1>1. B \in SUBSET Nat /\ n \in B
  OBVIOUS
<1>2. PICK b \in B : \A c \in B : b <= c
  BY <1>1, LeastExists
<1>3. b \in D
  <2>1. SUFFICES ASSUME b \notin D
                 PROVE  FALSE
    OBVIOUS
  <2>2. PICK x \in D : TRUE
    OBVIOUS
  <2>3. \A y \in D : y \in Nat /\ y < b
    BY <1>2, <2>1
  <2>4. b - 1 \in B
    BY <1>2, <2>2, <2>3
  <2> QED
    BY <2>2, <1>2, <2>4
<1>4. \E x \in D : \A y \in D : x >= y
  BY <1>2, <1>3
<1> QED
  BY <1>4 DEF Max

LEMMA MaxOut ==
  ASSUME NEW m \in Nat, NEW S \in SUBSET (1..m), S # {}
  PROVE  /\ Max(S) \in S /\ Max(S) \in 1..m /\ \A x \in S : x <= Max(S)
         /\ S \ {Max(S)} \in SUBSET (1..(m - 1))
<1>1. S \in SUBSET (0..m)
  OBVIOUS
<1>2. PICK a : a = Max(S)
  OBVIOUS
<1>3. a \in S /\ \A x \in S : x <= a
  BY <1>1, <1>2, LargestOf
<1>4. a \in 1..m /\ S \ {a} \in SUBSET (1..(m - 1))
  BY <1>3
<1> QED
  BY <1>2, <1>3, <1>4

LEMMA MaxesOut ==
  ASSUME NEW n \in Nat
  PROVE  \A S \in SUBSET (1..n) :
           S # {} => Max(S) \in 1..n /\ S \ {Max(S)} \in SUBSET (1..n)
<1> SUFFICES ASSUME NEW S \in SUBSET (1..n), S # {}
             PROVE  Max(S) \in 1..n /\ S \ {Max(S)} \in SUBSET (1..n)
  OBVIOUS
<1> QED
  BY MaxOut

LEMMA LastIndex ==
  ASSUME NEW n \in Nat, NEW k \in 1..n
  PROVE  /\ 1..k \in SUBSET (1..n) /\ 1..k # {} /\ Max(1..k) = k
         /\ (1..k) \ {k} = 1..(k - 1) /\ k - 1 \in 0..n
<1>1. k \in Nat /\ 1..k \in SUBSET (1..k) /\ k \in 1..k /\ 1..k # {}
  OBVIOUS
<1>2. Max(1..k) \in 1..k /\ \A x \in 1..k : x <= Max(1..k)
  BY <1>1, MaxOut
<1>3. Max(1..k) = k
  BY <1>1, <1>2
<1> QED
  BY <1>3

\* What holds of the first index, and of each index after one that it holds of, holds
\* of all.
LEMMA Climbs ==
  ASSUME NEW n \in Nat, NEW G, 0 \in G, \A k \in 1..n : k - 1 \in G => k \in G
  PROVE  \A k \in 0..n : k \in G
<1> DEFINE Bad == {k \in 0..n : k \notin G}
<1>1. SUFFICES ASSUME Bad # {}
               PROVE  FALSE
  OBVIOUS
<1>2. PICK k \in Bad : \A j \in Bad : k <= j
  <2>1. Bad \in SUBSET Nat
    OBVIOUS
  <2> HIDE DEF Bad
  <2> QED
    BY <1>1, <2>1, LeastExists
<1>3. k # 0 /\ k \in 1..n
  BY <1>2
<1>4. k - 1 \in 0..n /\ k - 1 \notin Bad
  BY <1>2, <1>3
<1> QED
  BY <1>2, <1>3, <1>4

Steps(it, n, b, step) ==
  it = [S \in SUBSET (1..n) |->
          IF S = {} THEN b ELSE step[<<it[S \ {Max(S)}], Max(S)>>]]

\* A fold from the left is defined: it goes over the sets of the indices, and takes the
\* largest index of each last.
LEMMA FoldExists ==
  ASSUME NEW n \in Nat, NEW D, NEW b \in D, NEW step \in [D \X (1..n) -> D]
  PROVE  \E it \in [SUBSET (1..n) -> D] : Steps(it, n, b, step)
<1> DEFINE G == {m \in 0..n : \E it \in [SUBSET (1..m) -> D] : Steps(it, m, b, step)}
<1>1. 0 \in G
  <2> DEFINE it == [S \in SUBSET (1..0) |-> b]
  <2>1. it \in [SUBSET (1..0) -> D]
    OBVIOUS
  <2>2. \A S \in SUBSET (1..0) : S = {}
    OBVIOUS
  <2>3. Steps(it, 0, b, step)
    BY <2>2 DEF Steps
  <2> QED
    BY <2>1, <2>3
<1>2. ASSUME NEW m \in 1..n, m - 1 \in G
      PROVE  m \in G
  <2>1. PICK g \in [SUBSET (1..(m - 1)) -> D] : Steps(g, m - 1, b, step)
    BY <1>2
  <2> DEFINE it == [S \in SUBSET (1..m) |->
                     IF S = {} THEN b ELSE step[<<g[S \ {Max(S)}], Max(S)>>]]
  <2>2. ASSUME NEW S \in SUBSET (1..m), S # {}
        PROVE  /\ Max(S) \in 1..m /\ S \ {Max(S)} \in SUBSET (1..(m - 1))
               /\ it[S] = step[<<g[S \ {Max(S)}], Max(S)>>] /\ it[S] \in D
    <3>1. Max(S) \in 1..m /\ S \ {Max(S)} \in SUBSET (1..(m - 1))
      BY <2>2, MaxOut
    <3>3. it[S] = step[<<g[S \ {Max(S)}], Max(S)>>]
      BY <2>2
    <3>4. g[S \ {Max(S)}] \in D /\ Max(S) \in 1..n
      BY <3>1
    <3> HIDE DEF it
    <3> QED
      BY <3>1, <3>3, <3>4
  <2>3. it[{}] = b
    OBVIOUS
  <2>4. it \in [SUBSET (1..m) -> D]
    <3>1. \A S \in SUBSET (1..m) : it[S] \in D
      <4> HIDE DEF it
      <4> QED BY <2>2, <2>3
    <3> QED
      BY <3>1
  <2>5. \A S \in SUBSET (1..(m - 1)) : it[S] = g[S]
    <3> SUFFICES ASSUME NEW S \in SUBSET (1..(m - 1))
                 PROVE  it[S] = g[S]
      OBVIOUS
    <3>1. g[S] = IF S = {} THEN b ELSE step[<<g[S \ {Max(S)}], Max(S)>>]
      BY <2>1 DEF Steps
    <3>2. S \in SUBSET (1..m)
      OBVIOUS
    <3> QED
      BY <3>1, <3>2
  <2>6. \A S \in SUBSET (1..m) :
          it[S] = IF S = {} THEN b ELSE step[<<it[S \ {Max(S)}], Max(S)>>]
    <3> HIDE DEF it
    <3> QED
      BY <2>2, <2>3, <2>5
  <2>7. Steps(it, m, b, step)
    <3>1. it = [S \in SUBSET (1..m) |-> it[S]]
      OBVIOUS
    <3> HIDE DEF it
    <3> QED
      BY <3>1, <2>6 DEF Steps
  <2> HIDE DEF it
  <2>8. \E h \in [SUBSET (1..m) -> D] : Steps(h, m, b, step)
    BY <2>4, <2>7
  <2> QED
    BY <2>8
<1>3. n \in G
  <2> HIDE DEF G
  <2> QED
    BY <1>1, <1>2, Climbs
<1> QED
  BY <1>3

Follows(it, n, D, b, step) ==
  /\ it[{}] = b
  /\ \A k \in 1..n : it[1..(k - 1)] \in D => it[1..k] = step[<<it[1..(k - 1)], k>>]

Running(f, it, n, D, b, step) ==
  /\ f[0] = b /\ f[n] = it[1..n]
  /\ \A k \in 1..n : f[k - 1] \in D /\ f[k] = step[<<f[k - 1], k>>]

\* What the fold makes of the indices up to k, for each k.
LEMMA FoldRuns ==
  ASSUME NEW n \in Nat, NEW D, NEW b \in D, NEW step \in [D \X (1..n) -> D], NEW it,
         Follows(it, n, D, b, step)
  PROVE  \E f \in [0..n -> D] : Running(f, it, n, D, b, step)
<1> DEFINE G == {k \in 0..n : it[1..k] \in D}
           f == [k \in 0..n |-> it[1..k]]
<1>1. 1..0 = {}
  OBVIOUS
<1>2. 0 \in G
  BY <1>1 DEF Follows
<1>3. ASSUME NEW k \in 1..n, k - 1 \in G
      PROVE  k \in G
  <2>1. /\ it[1..(k - 1)] \in D /\ <<it[1..(k - 1)], k>> \in D \X (1..n)
        /\ it[1..k] = step[<<it[1..(k - 1)], k>>]
    BY <1>3 DEF Follows
  <2>2. step[<<it[1..(k - 1)], k>>] \in D
    BY <2>1
  <2> QED
    BY <2>1, <2>2
<1>4. \A k \in 0..n : k \in G
  <2> HIDE DEF G
  <2> QED
    BY <1>2, <1>3, Climbs
<1>5. f \in [0..n -> D]
  BY <1>4
<1>6. f[0] = b /\ f[n] = it[1..n]
  BY <1>1 DEF Follows
<1>7. \A k \in 1..n : f[k - 1] \in D /\ f[k] = step[<<f[k - 1], k>>]
  BY <1>4 DEF Follows
<1>8. Running(f, it, n, D, b, step)
  BY <1>6, <1>7 DEF Running
<1> HIDE DEF f
<1> QED
  BY <1>5, <1>8

\* A sum, by its partial sums.
LEMMA TotalIs ==
  ASSUME NEW s \in Seq(Int)
  PROVE  \E f \in [0..Len(s) -> Int] :
           /\ f[0] = 0 /\ \A k \in 1..Len(s) : f[k] = f[k - 1] + s[k]
           /\ Total(s) = f[Len(s)]
<1> DEFINE n == Len(s)
           step == [x \in Int \X (1..n) |-> x[1] + s[x[2]]]
<1>1. n \in Nat /\ DOMAIN s = 1..n /\ 0 \in Int
  OBVIOUS
<1>2. step \in [Int \X (1..n) -> Int] /\ \A d \in Int, k \in 1..n : step[<<d, k>>] = d + s[k]
  OBVIOUS
<1> HIDE DEF step, n
<1>3. PICK g \in [SUBSET (1..n) -> Int] : Steps(g, n, 0, step)
  BY <1>1, <1>2, FoldExists
<1> DEFINE Eq(it) == it = [S \in SUBSET (1..n) |->
                             IF S = {} THEN 0 ELSE it[S \ {Max(S)}] + s[Max(S)]]
<1>4. Eq(g)
  BY <1>1, <1>2, <1>3, MaxesOut DEF Steps
<1>5. Total(s) = (CHOOSE it : Eq(it))[1..n]
  BY <1>1 DEF Total, FoldLeft, MapThenFoldSet
<1>6. PICK it : Eq(it) /\ Total(s) = it[1..n]
  <2> HIDE DEF Eq
  <2> QED
    BY <1>4, <1>5
<1>7. it[{}] = 0
  BY <1>1, <1>6
<1>8. ASSUME NEW k \in 1..n, it[1..(k - 1)] \in Int
      PROVE  it[1..k] = step[<<it[1..(k - 1)], k>>]
  <2>1. /\ 1..k \in SUBSET (1..n) /\ 1..k # {} /\ Max(1..k) = k
        /\ (1..k) \ {k} = 1..(k - 1)
    BY <1>1, LastIndex
  <2>2. it[1..k] = it[1..(k - 1)] + s[k]
    BY <1>6, <2>1
  <2> QED
    BY <1>2, <1>8, <2>2
<1>9. PICK f \in [0..n -> Int] :
        /\ f[0] = 0 /\ f[n] = it[1..n]
        /\ \A k \in 1..n : f[k - 1] \in Int /\ f[k] = step[<<f[k - 1], k>>]
  <2>1. \A k \in 1..n : it[1..(k - 1)] \in Int => it[1..k] = step[<<it[1..(k - 1)], k>>]
    BY <1>8
  <2>2. Follows(it, n, Int, 0, step)
    BY <1>7, <2>1 DEF Follows
  <2>3. \E f \in [0..n -> Int] : Running(f, it, n, Int, 0, step)
    BY <1>1, <1>2, <2>2, FoldRuns
  <2> QED
    BY <2>3 DEF Running
<1>10. \A k \in 1..n : f[k] = f[k - 1] + s[k]
  BY <1>2, <1>9
<1> QED
  BY <1>6, <1>9, <1>10 DEF n

\* What trades are worth, by what the first k of them are.
LEMMA PnLIs ==
  ASSUME NEW T, NEW s \in Seq(T), \A k \in DOMAIN s : s[k].points \in Int
  PROVE  \E f \in [0..Len(s) -> Int] :
           /\ f[0] = 0
           /\ \A k \in 1..Len(s) : f[k] = f[k - 1] + s[k].points
           /\ PnL(s) = f[Len(s)]
<1> DEFINE n == Len(s)
           step == [x \in Int \X (1..n) |-> x[1] + s[x[2]].points]
<1>1. n \in Nat /\ DOMAIN s = 1..n /\ 0 \in Int
  OBVIOUS
<1>2. /\ step \in [Int \X (1..n) -> Int]
      /\ \A d \in Int, k \in 1..n : step[<<d, k>>] = d + s[k].points
  OBVIOUS
<1> HIDE DEF step, n
<1>3. PICK g \in [SUBSET (1..n) -> Int] : Steps(g, n, 0, step)
  BY <1>1, <1>2, FoldExists
<1> DEFINE Eq(it) == it = [S \in SUBSET (1..n) |->
                             IF S = {} THEN 0 ELSE it[S \ {Max(S)}] + s[Max(S)].points]
<1>4. Eq(g)
  BY <1>1, <1>2, <1>3, MaxesOut DEF Steps
<1>5. PnL(s) = (CHOOSE it : Eq(it))[1..n]
  BY <1>1 DEF PnL, FoldLeft, MapThenFoldSet
<1>6. PICK it : Eq(it) /\ PnL(s) = it[1..n]
  <2> HIDE DEF Eq
  <2> QED
    BY <1>4, <1>5
<1>7. it[{}] = 0
  BY <1>1, <1>6
<1>8. ASSUME NEW k \in 1..n, it[1..(k - 1)] \in Int
      PROVE  it[1..k] = step[<<it[1..(k - 1)], k>>]
  <2>1. /\ 1..k \in SUBSET (1..n) /\ 1..k # {} /\ Max(1..k) = k
        /\ (1..k) \ {k} = 1..(k - 1)
    BY <1>1, LastIndex
  <2>2. it[1..k] = it[1..(k - 1)] + s[k].points
    BY <1>1, <1>6, <2>1
  <2> QED
    BY <1>2, <1>8, <2>2
<1>9. PICK f \in [0..n -> Int] : Running(f, it, n, Int, 0, step)
  <2>1. \A k \in 1..n : it[1..(k - 1)] \in Int => it[1..k] = step[<<it[1..(k - 1)], k>>]
    BY <1>8
  <2>2. Follows(it, n, Int, 0, step)
    BY <1>7, <2>1 DEF Follows
  <2> HIDE DEF Eq
  <2> QED
    BY <1>1, <1>2, <2>2, FoldRuns
<1>10. \A k \in 1..n : f[k] = f[k - 1] + s[k].points
  BY <1>2, <1>9 DEF Running
<1> QED
  BY <1>6, <1>9, <1>10 DEF n, Running

Gathers(f, s, K) ==
  /\ f[0] = << >> /\ Where(s, K) = f[Len(s)]
  /\ \A k \in 1..Len(s) : f[k] = IF k \in K THEN Append(f[k - 1], s[k]) ELSE f[k - 1]

\* The members at some indices, by those among the first k.
LEMMA WhereIs ==
  ASSUME NEW T, NEW s \in Seq(T), NEW K
  PROVE  \E f \in [0..Len(s) -> Seq(T)] : Gathers(f, s, K)
<1> DEFINE n == Len(s)
           at == [i \in DOMAIN s |-> i]
           step == [x \in Seq(T) \X (1..n) |->
                      IF x[2] \in K THEN Append(x[1], s[x[2]]) ELSE x[1]]
<1>1. n \in Nat /\ DOMAIN s = 1..n /\ << >> \in Seq(T)
  OBVIOUS
<1>2. /\ step \in [Seq(T) \X (1..n) -> Seq(T)]
      /\ \A d \in Seq(T), k \in 1..n : step[<<d, k>>] = IF k \in K THEN Append(d, s[k]) ELSE d
  OBVIOUS
<1> HIDE DEF step, n
<1>3. PICK g \in [SUBSET (1..n) -> Seq(T)] : Steps(g, n, << >>, step)
  BY <1>1, <1>2, FoldExists
<1> DEFINE Eq(it) == it = [S \in SUBSET (1..n) |->
                             IF S = {} THEN << >>
                             ELSE IF at[Max(S)] \in K
                                  THEN Append(it[S \ {Max(S)}], s[at[Max(S)]])
                                  ELSE it[S \ {Max(S)}]]
<1>0. \A k \in 1..n : at[k] = k
  BY <1>1
<1>4. Eq(g)
  <2> HIDE DEF at
  <2>1. ASSUME NEW S \in SUBSET (1..n)
        PROVE  g[S] = IF S = {} THEN << >>
                      ELSE IF at[Max(S)] \in K
                           THEN Append(g[S \ {Max(S)}], s[at[Max(S)]])
                           ELSE g[S \ {Max(S)}]
    <3>1. CASE S = {}
      BY <1>3, <3>1 DEF Steps
    <3>2. CASE S # {}
      <4>1. PICK m, R : m = Max(S) /\ R = S \ {Max(S)}
        OBVIOUS
      <4>2. m \in 1..n /\ R \in SUBSET (1..n)
        BY <1>1, <3>2, <4>1, MaxesOut
      <4>3. g[S] = step[<<g[R], m>>]
        BY <1>3, <3>2, <4>1 DEF Steps
      <4>4. g[S] = IF at[m] \in K THEN Append(g[R], s[at[m]]) ELSE g[R]
        BY <1>0, <1>2, <4>2, <4>3
      <4> QED
        BY <3>2, <4>1, <4>4
    <3> QED
      BY <3>1, <3>2
  <2> QED
    BY <1>3, <2>1 DEF Steps
<1>5. Where(s, K) = (CHOOSE it : Eq(it))[1..n]
  BY <1>1 DEF Where, FoldLeft, MapThenFoldSet, FoldLeftDomain
<1>6. PICK it : Eq(it) /\ Where(s, K) = it[1..n]
  <2> HIDE DEF Eq
  <2> QED
    BY <1>4, <1>5
<1> HIDE DEF at
<1>7. it[{}] = << >>
  BY <1>1, <1>6
<1>8. ASSUME NEW k \in 1..n, it[1..(k - 1)] \in Seq(T)
      PROVE  it[1..k] = step[<<it[1..(k - 1)], k>>]
  <2>1. /\ 1..k \in SUBSET (1..n) /\ 1..k # {} /\ Max(1..k) = k
        /\ (1..k) \ {k} = 1..(k - 1)
    BY <1>1, LastIndex
  <2>2. it[1..k] = IF k \in K THEN Append(it[1..(k - 1)], s[k]) ELSE it[1..(k - 1)]
    <3>1. it[1..k] = IF at[Max(1..k)] \in K
                     THEN Append(it[(1..k) \ {Max(1..k)}], s[at[Max(1..k)]])
                     ELSE it[(1..k) \ {Max(1..k)}]
      BY <1>6, <2>1
    <3> QED
      BY <1>0, <2>1, <3>1
  <2> QED
    BY <1>2, <1>8, <2>2
<1>9. PICK f \in [0..n -> Seq(T)] : Running(f, it, n, Seq(T), << >>, step)
  <2>1. \A k \in 1..n : it[1..(k - 1)] \in Seq(T) => it[1..k] = step[<<it[1..(k - 1)], k>>]
    BY <1>8
  <2>2. Follows(it, n, Seq(T), << >>, step)
    BY <1>7, <2>1 DEF Follows
  <2> HIDE DEF Eq
  <2> QED
    BY <1>1, <1>2, <2>2, FoldRuns
<1>10. \A k \in 1..n : f[k] = IF k \in K THEN Append(f[k - 1], s[k]) ELSE f[k - 1]
  BY <1>2, <1>9 DEF Running
<1> QED
  BY <1>6, <1>9, <1>10 DEF n, Running, Gathers

Curves == [balance : Int, peak : Int, worst : Int]
FirstCurve == [balance |-> Starting, peak |-> Starting, worst |-> 0]

\* The curve of an account, by that of the first k trades.
LEMMA CurveIs ==
  ASSUME NEW T, NEW s \in Seq(T), \A k \in DOMAIN s : s[k].points \in Int
  PROVE  \E f \in [0..Len(s) -> Curves] :
           /\ f[0] = FirstCurve
           /\ \A k \in 1..Len(s) : f[k] = Moved(f[k - 1], s[k])
           /\ FoldLeft(Moved, FirstCurve, s) = f[Len(s)]
<1> DEFINE n == Len(s)
           step == [x \in Curves \X (1..n) |-> Moved(x[1], s[x[2]])]
<1>1. n \in Nat /\ DOMAIN s = 1..n /\ FirstCurve \in Curves
  BY AccountAssumption DEF FirstCurve, Curves
<1>2. /\ step \in [Curves \X (1..n) -> Curves]
      /\ \A d \in Curves, k \in 1..n : step[<<d, k>>] = Moved(d, s[k])
  <2>1. \A d \in Curves, k \in 1..n : Moved(d, s[k]) \in Curves
    BY DEF Curves, Moved
  <2> QED
    BY <2>1
<1> HIDE DEF step, n
<1>3. PICK g \in [SUBSET (1..n) -> Curves] : Steps(g, n, FirstCurve, step)
  BY <1>1, <1>2, FoldExists
<1> DEFINE Eq(it) == it = [S \in SUBSET (1..n) |->
                             IF S = {} THEN FirstCurve ELSE Moved(it[S \ {Max(S)}], s[Max(S)])]
<1>4. Eq(g)
  BY <1>1, <1>2, <1>3, MaxesOut DEF Steps
<1>5. FoldLeft(Moved, FirstCurve, s) = (CHOOSE it : Eq(it))[1..n]
  BY <1>1 DEF FoldLeft, MapThenFoldSet
<1>6. PICK it : Eq(it) /\ FoldLeft(Moved, FirstCurve, s) = it[1..n]
  <2> HIDE DEF Eq
  <2> QED
    BY <1>4, <1>5
<1>7. it[{}] = FirstCurve
  BY <1>1, <1>6
<1>8. ASSUME NEW k \in 1..n, it[1..(k - 1)] \in Curves
      PROVE  it[1..k] = step[<<it[1..(k - 1)], k>>]
  <2>1. /\ 1..k \in SUBSET (1..n) /\ 1..k # {} /\ Max(1..k) = k
        /\ (1..k) \ {k} = 1..(k - 1)
    BY <1>1, LastIndex
  <2>2. it[1..k] = Moved(it[1..(k - 1)], s[k])
    BY <1>1, <1>6, <2>1
  <2> QED
    BY <1>2, <1>8, <2>2
<1>9. PICK f \in [0..n -> Curves] : Running(f, it, n, Curves, FirstCurve, step)
  <2>1. \A k \in 1..n : it[1..(k - 1)] \in Curves => it[1..k] = step[<<it[1..(k - 1)], k>>]
    BY <1>8
  <2>2. Follows(it, n, Curves, FirstCurve, step)
    BY <1>7, <2>1 DEF Follows
  <2> HIDE DEF Eq
  <2> QED
    BY <1>1, <1>2, <2>2, FoldRuns
<1>10. \A k \in 1..n : f[k] = Moved(f[k - 1], s[k])
  BY <1>2, <1>9 DEF Running
<1> QED
  BY <1>6, <1>9, <1>10 DEF n, Running

Spans(K, n, a, b) == \A k \in 1..n : k \in K <=> a <= k /\ k <= b

Piece(p, s, a, b) ==
  /\ Len(p) = b - a + 1
  /\ \A i \in 1..(b - a + 1) : p[i] = s[a + i - 1]

\* The members at an interval of indices are that part of the sequence.
LEMMA WhereRange ==
  ASSUME NEW T, NEW s \in Seq(T), NEW K, NEW a \in Nat \ {0}, NEW b \in Nat,
         a <= b + 1, b <= Len(s), Spans(K, Len(s), a, b)
  PROVE  Where(s, K) \in Seq(T) /\ Piece(Where(s, K), s, a, b)
<1>1. PICK n \in Nat : n = Len(s)
  OBVIOUS
<1>2. PICK f \in [0..n -> Seq(T)] :
        /\ f[0] = << >> /\ Where(s, K) = f[n]
        /\ \A k \in 1..n : f[k] = IF k \in K THEN Append(f[k - 1], s[k]) ELSE f[k - 1]
  <2>1. \E f \in [0..Len(s) -> Seq(T)] : Gathers(f, s, K)
    BY WhereIs
  <2> QED
    BY <1>1, <2>1 DEF Gathers
<1> USE DEF Spans
<1> DEFINE Size(k) == IF k < a THEN 0 ELSE IF k <= b THEN k - a + 1 ELSE b - a + 1
           Good(k) == Len(f[k]) = Size(k) /\ \A i \in 1..Size(k) : f[k][i] = s[a + i - 1]
           G == {k \in 0..n : Good(k)}
<1>3. 0 \in G
  BY <1>2
<1>4. ASSUME NEW k \in 1..n, k - 1 \in G
      PROVE  k \in G
  <2>1. PICK g : g = f[k - 1] /\ g \in Seq(T)
    BY <1>2
  <2>2. /\ Len(g) = Size(k - 1) /\ \A i \in 1..Size(k - 1) : g[i] = s[a + i - 1]
    BY <1>4, <2>1
  <2>3. f[k] = IF k \in K THEN Append(g, s[k]) ELSE g
    BY <1>2, <2>1
  <2>4. CASE k < a
    BY <1>1, <2>2, <2>3, <2>4
  <2>5. CASE k > b
    BY <1>1, <2>2, <2>3, <2>5
  <2>6. CASE a <= k /\ k <= b
    <3>1. f[k] = Append(g, s[k]) /\ Size(k - 1) = k - a /\ Size(k) = k - a + 1 /\ k - a \in Nat
      BY <1>1, <2>3, <2>6
    <3>0a. PICK x \in T : x = s[k]
      BY <1>1
    <3>0b. PICK h : h = Append(g, x)
      OBVIOUS
    <3>2. x = s[k] /\ h = Append(g, x)
      BY <3>0a, <3>0b
    <3>3. /\ Len(h) = Len(g) + 1 /\ h[Len(g) + 1] = x
          /\ \A i \in 1..Len(g) : h[i] = g[i]
      BY <2>1, <3>2
    <3>4. /\ f[k] = h /\ Len(h) = k - a + 1 /\ h[k - a + 1] = s[k]
          /\ \A i \in 1..(k - a) : h[i] = s[a + i - 1]
      BY <2>2, <3>1, <3>2, <3>3
    <3>5. \A i \in 1..(k - a + 1) : f[k][i] = s[a + i - 1]
      <4> SUFFICES ASSUME NEW i \in 1..(k - a + 1)
                   PROVE  f[k][i] = s[a + i - 1]
        OBVIOUS
      <4>1. i \in 1..(k - a) \/ (i = k - a + 1 /\ a + i - 1 = k)
        BY <3>1
      <4> QED
        BY <3>4, <4>1
    <3>6. Good(k)
      BY <3>1, <3>4, <3>5
    <3> QED
      BY <3>6
  <2> QED
    BY <2>4, <2>5, <2>6
<1>5. n \in G
  <2> HIDE DEF G
  <2>1. \A k \in 0..n : k \in G
    BY <1>3, <1>4, Climbs
  <2> QED
    BY <2>1
<1>6. Size(n) = b - a + 1
  BY <1>1
<1> QED
  BY <1>2, <1>5, <1>6 DEF Piece

LEMMA WhereFirst ==
  ASSUME NEW T, NEW s \in Seq(T), NEW K, NEW b \in 0..Len(s), Spans(K, Len(s), 1, b)
  PROVE  /\ Where(s, K) \in Seq(T) /\ Len(Where(s, K)) = b
         /\ \A i \in 1..b : Where(s, K)[i] = s[i]
<1>1. 1 \in Nat \ {0} /\ b \in Nat /\ 1 <= b + 1 /\ b <= Len(s) /\ b - 1 + 1 = b
  OBVIOUS
<1>2. Where(s, K) \in Seq(T) /\ Piece(Where(s, K), s, 1, b)
  BY <1>1, WhereRange
<1>3. \A i \in 1..b : 1 + i - 1 = i
  OBVIOUS
<1> QED
  BY <1>1, <1>2, <1>3 DEF Piece

Beyond(K, n, b) == \A k \in 1..n : k \in K <=> b < k

LEMMA WhereRest ==
  ASSUME NEW T, NEW s \in Seq(T), NEW K, NEW n \in Nat, n = Len(s), NEW b \in 0..n,
         Beyond(K, n, b)
  PROVE  /\ Where(s, K) \in Seq(T) /\ Len(Where(s, K)) = n - b
         /\ \A i \in 1..(n - b) : Where(s, K)[i] = s[b + i]
<1>1. PICK a : a = b + 1
  OBVIOUS
<1>2. a \in Nat \ {0} /\ a <= n + 1 /\ n <= Len(s) /\ Spans(K, Len(s), a, n)
  BY <1>1 DEF Spans, Beyond
<1>3. Where(s, K) \in Seq(T) /\ Piece(Where(s, K), s, a, n)
  BY <1>2, WhereRange
<1>4. n - a + 1 = n - b /\ \A i \in 1..(n - b) : a + i - 1 = b + i
  BY <1>1
<1> QED
  BY <1>3, <1>4 DEF Piece

\* There are as many members as indices.
LEMMA WhereCounts ==
  ASSUME NEW T, NEW s \in Seq(T), NEW K \in SUBSET (DOMAIN s)
  PROVE  /\ Where(s, K) \in Seq(T) /\ Len(Where(s, K)) = Cardinality(K)
         /\ IsFiniteSet(K) /\ Cardinality(K) \in Nat
<1>1. PICK n \in Nat : n = Len(s) /\ DOMAIN s = 1..n
  OBVIOUS
<1>2. PICK f \in [0..n -> Seq(T)] :
        /\ f[0] = << >> /\ Where(s, K) = f[n]
        /\ \A k \in 1..n : f[k] = IF k \in K THEN Append(f[k - 1], s[k]) ELSE f[k - 1]
  <2>1. \E f \in [0..Len(s) -> Seq(T)] : Gathers(f, s, K)
    BY WhereIs
  <2> QED
    BY <1>1, <2>1 DEF Gathers
<1> DEFINE G == {k \in 0..n : /\ IsFiniteSet(K \cap (1..k))
                              /\ Len(f[k]) = Cardinality(K \cap (1..k))}
<1>3. 0 \in G
  <2>1. K \cap (1..0) = {}
    OBVIOUS
  <2> QED
    BY <1>2, <2>1, FS_EmptySet
<1>4. ASSUME NEW k \in 1..n, k - 1 \in G
      PROVE  k \in G
  <2>1. PICK L : L = K \cap (1..(k - 1))
    OBVIOUS
  <2>2. IsFiniteSet(L) /\ Len(f[k - 1]) = Cardinality(L) /\ f[k - 1] \in Seq(T) /\ k \notin L
    BY <1>2, <1>4, <2>1
  <2>3. CASE k \in K
    <3>0. (1..k) = (1..(k - 1)) \cup {k}
      OBVIOUS
    <3>1. K \cap (1..k) = L \cup {k} /\ f[k] = Append(f[k - 1], s[k])
      BY <1>2, <2>1, <2>3, <3>0
    <3>0a. PICK x, g : x \in T /\ x = s[k] /\ g = f[k - 1]
      BY <1>1
    <3>0b. PICK h : h = Append(g, x)
      OBVIOUS
    <3>4. x = s[k] /\ g = f[k - 1] /\ h = Append(g, x)
      BY <3>0a, <3>0b
    <3>3. Len(f[k]) = Len(f[k - 1]) + 1
      <4>1. Len(h) = Len(g) + 1
        BY <2>2, <3>4
      <4> QED
        BY <3>1, <3>4, <4>1
    <3>2. IsFiniteSet(L \cup {k}) /\ Cardinality(L \cup {k}) = Cardinality(L) + 1
      BY <2>2, FS_AddElement
    <3>5. IsFiniteSet(K \cap (1..k)) /\ Len(f[k]) = Cardinality(K \cap (1..k))
      BY <2>2, <3>1, <3>2, <3>3
    <3> QED
      BY <3>5
  <2>4. CASE k \notin K
    <3>0. (1..k) = (1..(k - 1)) \cup {k}
      OBVIOUS
    <3>1. K \cap (1..k) = L /\ f[k] = f[k - 1]
      BY <1>2, <2>1, <2>4, <3>0
    <3>2. IsFiniteSet(K \cap (1..k)) /\ Len(f[k]) = Cardinality(K \cap (1..k))
      BY <2>2, <3>1
    <3> QED
      BY <3>2
  <2> QED
    BY <2>3, <2>4
<1>5. n \in G
  <2> HIDE DEF G
  <2>1. \A k \in 0..n : k \in G
    BY <1>3, <1>4, Climbs
  <2> QED
    BY <2>1
<1>6. K \cap (1..n) = K
  BY <1>1
<1>7. IsFiniteSet(K) /\ Len(f[n]) = Cardinality(K) /\ f[n] \in Seq(T)
  BY <1>5, <1>6
<1> QED
  BY <1>2, <1>7

\* The members of two sequences at the same indices stand side by side.
LEMMA WhereSame ==
  ASSUME NEW S, NEW s \in Seq(S), NEW T, NEW t \in Seq(T),
         Len(s) <= Len(t), NEW K \in SUBSET (DOMAIN s)
  PROVE  /\ Len(Where(s, K)) = Len(Where(t, K))
         /\ \A i \in 1..Len(Where(s, K)) :
              \E k \in K : Where(s, K)[i] = s[k] /\ Where(t, K)[i] = t[k]
<1>1. PICK n \in Nat, m \in Nat : n = Len(s) /\ m = Len(t) /\ n <= m /\ DOMAIN s = 1..n
  OBVIOUS
<1>2. PICK f \in [0..n -> Seq(S)] :
        /\ f[0] = << >> /\ Where(s, K) = f[n]
        /\ \A k \in 1..n : f[k] = IF k \in K THEN Append(f[k - 1], s[k]) ELSE f[k - 1]
  <2>1. \E f \in [0..Len(s) -> Seq(S)] : Gathers(f, s, K)
    BY WhereIs
  <2> QED
    BY <1>1, <2>1 DEF Gathers
<1>3. PICK g \in [0..m -> Seq(T)] :
        /\ g[0] = << >> /\ Where(t, K) = g[m]
        /\ \A k \in 1..m : g[k] = IF k \in K THEN Append(g[k - 1], t[k]) ELSE g[k - 1]
  <2>1. \E g \in [0..Len(t) -> Seq(T)] : Gathers(g, t, K)
    BY WhereIs
  <2> QED
    BY <1>1, <2>1 DEF Gathers
<1> DEFINE Side(p, q) == /\ Len(p) = Len(q)
                         /\ \A i \in 1..Len(p) : \E k \in K : p[i] = s[k] /\ q[i] = t[k]
           F == {k \in 0..n : Side(f[k], g[k])}
           H == {k \in 0..m : k >= n => g[k] = g[n]}
<1>4. 0 \in F
  BY <1>2, <1>3
<1>5. ASSUME NEW k \in 1..n, k - 1 \in F
      PROVE  k \in F
  <2>1. PICK p, q : p = f[k - 1] /\ q = g[k - 1] /\ p \in Seq(S) /\ q \in Seq(T)
    BY <1>1, <1>2, <1>3
  <2>2. Side(p, q)
    BY <1>5, <2>1
  <2>3. CASE k \in K
    <3>0. PICK x \in S, y \in T : x = s[k] /\ y = t[k]
      BY <1>1
    <3>9. PICK P : P = Append(p, x)
      OBVIOUS
    <3>8. PICK Q : Q = Append(q, y)
      OBVIOUS
    <3>1. x = s[k] /\ y = t[k] /\ P = Append(p, x) /\ Q = Append(q, y)
      BY <3>0, <3>8, <3>9
    <3>2. f[k] = P /\ g[k] = Q /\ Len(p) = Len(q)
      <4>1. k \in 1..m
        BY <1>1
      <4> QED
        BY <1>2, <1>3, <2>1, <2>2, <2>3, <3>1, <4>1
    <3>4. Len(P) = Len(p) + 1 /\ P[Len(p) + 1] = x /\ \A i \in 1..Len(p) : P[i] = p[i]
      BY <2>1, <3>1
    <3>5. Len(Q) = Len(q) + 1 /\ Q[Len(q) + 1] = y /\ \A i \in 1..Len(q) : Q[i] = q[i]
      BY <2>1, <3>1
    <3>6. /\ Len(P) = Len(p) + 1 /\ Len(Q) = Len(p) + 1
          /\ \A i \in 1..Len(p) : P[i] = p[i] /\ Q[i] = q[i]
          /\ P[Len(p) + 1] = s[k] /\ Q[Len(p) + 1] = t[k]
      BY <3>1, <3>2, <3>4, <3>5
    <3>3. ASSUME NEW i \in 1..Len(P)
          PROVE  \E j \in K : P[i] = s[j] /\ Q[i] = t[j]
      <4>1. CASE i \in 1..Len(p)
        BY <2>2, <3>6, <4>1
      <4>2. CASE i = Len(p) + 1
        BY <2>3, <3>6, <4>2
      <4> QED
        BY <2>1, <3>6, <4>1, <4>2
    <3>7. Side(f[k], g[k])
      BY <3>2, <3>3, <3>6
    <3>10. k \in 0..n
      OBVIOUS
    <3> HIDE DEF Side
    <3> QED
      BY <3>7, <3>10
  <2>4. CASE k \notin K
    <3>1. k \in 1..m
      BY <1>1
    <3>2. f[k] = p /\ g[k] = q
      BY <1>2, <1>3, <2>1, <2>4, <3>1
    <3>3. Side(f[k], g[k])
      BY <2>2, <3>2
    <3>4. k \in 0..n
      OBVIOUS
    <3> HIDE DEF Side
    <3> QED
      BY <3>3, <3>4
  <2> QED
    BY <2>3, <2>4
<1>6. 0 \in H
  BY <1>1
<1>7. ASSUME NEW k \in 1..m, k - 1 \in H
      PROVE  k \in H
  <2>1. CASE k > n
    <3>1. k \notin K /\ k - 1 >= n
      BY <1>1, <2>1
    <3> QED
      BY <1>3, <1>7, <3>1
  <2>2. CASE ~(k > n)
    BY <1>1, <2>2
  <2> QED
    BY <2>1, <2>2
<1>8. n \in F /\ m \in H
  <2> HIDE DEF F, H
  <2>1. \A k \in 0..n : k \in F
    BY <1>4, <1>5, Climbs
  <2>2. \A k \in 0..m : k \in H
    BY <1>6, <1>7, Climbs
  <2> QED
    BY <2>1, <2>2
<1> QED
  BY <1>1, <1>2, <1>3, <1>8

\* The delay after which a signal is judged is the last checkpoint.
LEMMA DelayIs == Delay \in Nat \ {0} /\ TimingWindow = Delay
<1> USE TimingAssumption
<1>0. PICK n \in Nat : ExistsSurjection(1..n, Offsets)
  BY FS_NatSurjection
<1>1. PICK f \in Surjection(1..n, Offsets) : TRUE
  BY <1>0 DEF ExistsSurjection
<1>2. f \in [1..n -> Offsets] /\ \A o \in Offsets : \E i \in 1..n : f[i] = o
  BY DEF Surjection
<1> DEFINE G == {k \in 0..n : \E m \in Nat : \A i \in 1..k : f[i] <= m}
<1>3. 0 \in G
  OBVIOUS
<1>4. ASSUME NEW k \in 1..n, k - 1 \in G
      PROVE  k \in G
  <2>1. PICK m \in Nat : \A i \in 1..(k - 1) : f[i] <= m
    BY <1>4
  <2>2. f[k] \in Nat
    BY <1>2
  <2>3. PICK l \in Nat : l >= m /\ l >= f[k]
    BY <2>2
  <2>4. \A i \in 1..k : f[i] <= l
    <3>1. ASSUME NEW i \in 1..k
          PROVE  f[i] <= l
      <4>1. i \in 1..(k - 1) \/ i = k
        OBVIOUS
      <4>2. i \in 1..n
        OBVIOUS
      <4>3. f[i] \in Nat
        BY <1>2, <4>2
      <4> QED
        BY <2>1, <2>3, <4>1, <4>3
    <3> QED
      BY <3>1
  <2> QED
    BY <2>4
<1>5. n \in G
  <2> HIDE DEF G
  <2>1. \A k \in 0..n : k \in G
    BY <1>3, <1>4, Climbs
  <2> QED
    BY <2>1
<1>6. PICK m \in Nat : \A i \in 1..n : f[i] <= m
  BY <1>5
<1>7. Offsets \in SUBSET (0..m)
  <2>1. ASSUME NEW o \in Offsets
        PROVE  o \in 0..m
    <3>1. PICK i \in 1..n : f[i] = o
      BY <1>2
    <3> QED
      BY <1>6, <3>1
  <2> QED
    BY <2>1
<1>8. Max(Offsets) \in Offsets
  BY <1>7, LargestOf
<1> QED
  BY <1>8 DEF TimingWindow

-----------------------------------------------------------------------------
(* The inductive invariant: time, and the signals.                         *)

Sides == {"BUY", "SELL"}

Frames == [at : Nat, price : Nat]

Signals == [id : Nat, side : Sides, entry : Nat, at : Nat,
            result : {"PENDING", "SUCCESS", "FAILED", "NEUTRAL"},
            exit : Nat \cup {None}, points : Int \cup {None}, done : Nat \cup {None}]

\* Time passes from each frame to the next, and the decision is what the streak says.
ClockInv ==
  /\ now \in Nat /\ shown \in 0..Len(Quotes) /\ opened \in 0..shown
  /\ seen \in Seq(Frames)
  /\ \A i, j \in DOMAIN seen : i < j => seen[i].at < seen[j].at
  /\ \A i \in DOMAIN seen : seen[i].at <= now
  /\ seen # << >> => price = seen[Len(seen)].price /\ now = seen[Len(seen)].at
  /\ streak \in [side : Sides \cup {"NONE"}, n : 0..StableWindow]
  /\ streak.side = "NONE" => streak.n = 0
  /\ IF seen = << >> THEN decision = None /\ streak.n = 0
                     ELSE decision = DecisionAfter(streak)

\* A frame, on time or late, and the steps of the model.
Framed(p, side, effect, at) ==
  /\ p \in Nat /\ side \in Sides \cup {"NONE"} /\ effect \in Memories
  /\ at \in Nat /\ at > now
  /\ Frame(p, side, at, effect)

LEMMA NextIs ==
  ASSUME ClockInv, ANext
  PROVE  \/ \E p \in Nat, side \in Sides \cup {"NONE"}, effect \in Memories, at \in Nat :
              Framed(p, side, effect, at)
         \/ Dies \/ Restart
<1>1. CASE Dies \/ Restart
  BY <1>1
<1>2. ASSUME NEW n \in {shown + 1} \cap DOMAIN Quotes, NEW p \in Quotes[n],
             NEW side \in Leans[n], NEW effect \in Effects,
             OnTime(p, side, effect) \/ Late(p, side, effect)
      PROVE  \E q \in Nat, s \in Sides \cup {"NONE"}, e \in Memories, at \in Nat :
               Framed(q, s, e, at)
  <2>1. p \in Nat /\ side \in Sides \cup {"NONE"} /\ effect \in Memories /\ now \in Nat
    BY AuditAssumption DEF ClockInv, Sides
  <2>2. PICK at \in {now + 1, now + 2} : Frame(p, side, at, effect)
    BY <1>2 DEF OnTime, Late
  <2>3. Framed(p, side, effect, at)
    BY <2>1, <2>2 DEF Framed
  <2> QED
    BY <2>1, <2>2, <2>3
<1> QED
  BY <1>1, <1>2 DEF ANext

LEMMA FrameIs ==
  ASSUME NEW p, NEW side, NEW effect, NEW at, Framed(p, side, effect, at)
  PROVE  /\ shown' = shown + 1 /\ shown < Len(Quotes)
         /\ now' = at /\ price' = p /\ seen' = Append(seen, [at |-> at, price |-> p])
         /\ streak' = StreakAfter(side) /\ decision' = DecisionAfter(streak')
         /\ Recorded(decision', p, at) /\ Followed(decision', p, at)
         /\ Planned(decision', p, at)
         /\ store' = SyncCompleted(Noted(decision', effect, at), records', audits')
         /\ trades' = Booked /\ views' = Panels(p, at) /\ began' = began
BY DEF Framed, Frame

\* A decision is a side or none, and a new signal has a side.
LEMMA DecisionIs ==
  ASSUME NEW side \in Sides \cup {"NONE"},
         streak \in [side : Sides \cup {"NONE"}, n : 0..StableWindow],
         streak.side = "NONE" => streak.n = 0
  PROVE  LET s == StreakAfter(side)
         IN  /\ s \in [side : Sides \cup {"NONE"}, n : 0..StableWindow]
             /\ s.side = "NONE" => s.n = 0
             /\ DecisionAfter(s) \in Decisions
<1>1. StableWindow \in Nat \ {0}
  BY AuditAssumption
<1>2. PICK s : s = StreakAfter(side)
  OBVIOUS
<1>3. s \in [side : Sides \cup {"NONE"}, n : 0..StableWindow] /\ (s.side = "NONE" => s.n = 0)
  BY <1>1, <1>2 DEF StreakAfter, Sides
<1>4. DecisionAfter(s) \in Decisions
  BY <1>1, <1>3 DEF DecisionAfter, Decisions, Sides
<1> QED
  BY <1>2, <1>3, <1>4

LEMMA ClockInit == AInit => ClockInv
BY AuditAssumption DEF AInit, Started, ClockInv, Sides, Frames

LEMMA RestartIs ==
  ASSUME Restart
  PROVE  /\ streak' = [side |-> "NONE", n |-> 0] /\ decision' = None
         /\ records' = << >> /\ paths' = << >> /\ audits' = << >>
         /\ histories' = [prices |-> << >>, moves |-> << >>] /\ price' = None
         /\ views' = NoViews /\ seen' = << >>
         /\ store' = LoadedStore(store)
         /\ began' = [store |-> store', plans |-> Len(plans), open |-> Cardinality(Active)]
         /\ planned' = [planned EXCEPT !.engine = planned.file]
         /\ UNCHANGED <<now, shown, late, plans, trades, opened>>
BY Zenon DEF Restart

LEMMA ClockRestart == ASSUME ClockInv, Restart PROVE ClockInv'
<1>1. /\ now' = now /\ shown' = shown /\ opened' = opened /\ seen' = << >>
      /\ streak' = [side |-> "NONE", n |-> 0] /\ decision' = None
  BY RestartIs
<1>2. StableWindow \in Nat \ {0}
  BY AuditAssumption
<1> QED
  BY <1>1, <1>2 DEF ClockInv, Sides, Frames, DecisionAfter

LEMMA ClockDies == ASSUME ClockInv, Dies PROVE ClockInv'
BY DEF Dies, ClockInv, DecisionAfter

LEMMA ClockFrame ==
  ASSUME ClockInv, NEW p, NEW side, NEW effect, NEW at, Framed(p, side, effect, at)
  PROVE  ClockInv' /\ decision' \in Decisions /\ opened' \in {opened, opened + 1}
<1>1. /\ p \in Nat /\ side \in Sides \cup {"NONE"} /\ at \in Nat /\ at > now /\ now \in Nat
  BY DEF Framed, ClockInv
<1>2. /\ now' = at /\ shown' \in 0..Len(Quotes) /\ opened' \in 0..shown'
      /\ opened' \in {opened, opened + 1}
  <2>1. Len(Quotes) \in Nat
    BY AuditAssumption
  <2>2. /\ now' = at /\ shown' = shown + 1 /\ shown < Len(Quotes)
        /\ opened' = opened + 1 \/ opened' = opened
    BY FrameIs DEF Recorded
  <2> QED
    BY <1>1, <2>1, <2>2 DEF ClockInv
<1>3. /\ seen' \in Seq(Frames) /\ seen' # << >>
      /\ Len(seen') = Len(seen) + 1 /\ DOMAIN seen' = 1..(Len(seen) + 1)
      /\ seen'[Len(seen')] = [at |-> at, price |-> p]
      /\ \A i \in DOMAIN seen : seen'[i] = seen[i]
      /\ Len(seen) \in Nat /\ DOMAIN seen = 1..Len(seen)
  <2>1. PICK f \in Frames : f = [at |-> at, price |-> p]
    BY <1>1 DEF Frames
  <2>2. seen' = Append(seen, f) /\ seen \in Seq(Frames)
    BY <2>1, FrameIs DEF ClockInv
  <2>3. PICK s : s = Append(seen, f)
    OBVIOUS
  <2>4. /\ s \in Seq(Frames) /\ s # << >> /\ Len(s) = Len(seen) + 1 /\ s[Len(seen) + 1] = f
        /\ DOMAIN s = 1..(Len(seen) + 1)
        /\ \A i \in 1..Len(seen) : s[i] = seen[i]
        /\ Len(seen) \in Nat /\ DOMAIN seen = 1..Len(seen)
    BY <2>2, <2>3
  <2> QED
    BY <2>1, <2>2, <2>3, <2>4
<1>4. /\ \A i, j \in DOMAIN seen' : i < j => seen'[i].at < seen'[j].at
      /\ \A i \in DOMAIN seen' : seen'[i].at <= now'
  <2>1. ASSUME NEW i \in DOMAIN seen'
        PROVE  \/ i \in DOMAIN seen /\ seen'[i] = seen[i] /\ seen[i].at \in Nat /\ seen[i].at <= now
               \/ i = Len(seen) + 1 /\ seen'[i].at = at
    <3>1. i \in DOMAIN seen \/ i = Len(seen) + 1
      BY <1>3, <2>1
    <3>2. CASE i \in DOMAIN seen
      <4>1. seen[i] \in Frames
        BY <3>2 DEF ClockInv
      <4> QED
        BY <1>3, <3>2, <4>1 DEF ClockInv, Frames
    <3> QED
      BY <1>3, <3>1, <3>2
  <2>2. ASSUME NEW i \in DOMAIN seen', NEW j \in DOMAIN seen', i < j
        PROVE  seen'[i].at < seen'[j].at
    <3>1. i \in DOMAIN seen
      BY <1>3, <2>2
    <3>2. CASE j \in DOMAIN seen
      BY <1>3, <2>2, <3>1, <3>2 DEF ClockInv
    <3>3. CASE j \notin DOMAIN seen
      BY <1>1, <2>1, <3>1, <3>3
    <3> QED
      BY <3>2, <3>3
  <2>3. ASSUME NEW i \in DOMAIN seen'
        PROVE  seen'[i].at <= now'
    BY <1>1, <1>2, <2>1
  <2> QED
    BY <2>2, <2>3
<1>5. price' = seen'[Len(seen')].price /\ now' = seen'[Len(seen')].at
  BY <1>3, FrameIs
<1>6. /\ streak' \in [side : Sides \cup {"NONE"}, n : 0..StableWindow]
      /\ (streak'.side = "NONE" => streak'.n = 0)
      /\ decision' = DecisionAfter(streak)' /\ decision' \in Decisions
  <2>1. streak' = StreakAfter(side) /\ decision' = DecisionAfter(streak')
    BY FrameIs
  <2>2. decision' = DecisionAfter(streak)'
    BY <2>1 DEF DecisionAfter
  <2> QED
    BY <1>1, <2>1, <2>2, DecisionIs DEF ClockInv
<1> QED
  BY <1>1, <1>2, <1>3, <1>4, <1>5, <1>6 DEF ClockInv

\* What a signal gained in the frames from one time to another.
GainsOf(side, entry, from, to) ==
  {Gained(side, entry, seen[k].price) : k \in {j \in DOMAIN seen : seen[j].at \in from..to}}

\* A frame adds its own gain, and leaves what was gained before as it is.
LEMMA SeenAfter ==
  ASSUME ClockInv, NEW p, NEW side, NEW effect, NEW at, Framed(p, side, effect, at)
  PROVE  \E n \in Nat, s \in Seq(Frames) :
           /\ seen' = s /\ DOMAIN seen = 1..n /\ DOMAIN s = 1..(n + 1)
           /\ s[n + 1].at = at /\ s[n + 1].price = p
           /\ \A i \in 1..n : s[i] = seen[i] /\ seen[i].at \in Nat /\ seen[i].at <= now
<1>1. p \in Nat /\ at \in Nat /\ at > now /\ now \in Nat
  BY DEF Framed, ClockInv
<1>2. PICK n \in Nat : n = Len(seen) /\ DOMAIN seen = 1..n
  BY DEF ClockInv
<1>3. PICK f \in Frames : f = [at |-> at, price |-> p]
  BY <1>1 DEF Frames
<1>4. PICK s : s = Append(seen, f) /\ seen' = s
  BY <1>3, FrameIs
<1>5. /\ s \in Seq(Frames)
      /\ DOMAIN s = 1..(n + 1) /\ s[n + 1] = f /\ \A i \in 1..n : s[i] = seen[i]
  BY <1>2, <1>4 DEF ClockInv
<1>6. s[n + 1].at = at /\ s[n + 1].price = p
  BY <1>3, <1>5
<1>7. \A i \in 1..n : seen[i] \in Frames
  BY <1>2 DEF ClockInv
<1>8. \A i \in 1..n : seen[i].at \in Nat
  BY <1>7 DEF Frames
<1>9. \A i \in 1..n : seen[i].at <= now
  BY <1>2 DEF ClockInv
<1> QED
  BY <1>2, <1>4, <1>5, <1>6, <1>8, <1>9

LEMMA GainsStay ==
  ASSUME ClockInv, NEW p, NEW side, NEW effect, NEW at, Framed(p, side, effect, at),
         NEW sd, NEW entry, NEW from \in Nat, NEW to \in Nat, to <= now
  PROVE  GainsOf(sd, entry, from, to)' = GainsOf(sd, entry, from, to)
<1>1. at \in Nat /\ at > now /\ now \in Nat
  BY DEF Framed, ClockInv
<1>2. PICK n \in Nat, s \in Seq(Frames) :
        /\ seen' = s /\ DOMAIN seen = 1..n /\ DOMAIN s = 1..(n + 1)
        /\ s[n + 1].at = at /\ s[n + 1].price = p
        /\ \A i \in 1..n : s[i] = seen[i] /\ seen[i].at \in Nat /\ seen[i].at <= now
  BY SeenAfter
<1>3. {j \in DOMAIN s : s[j].at \in from..to} = {j \in DOMAIN seen : seen[j].at \in from..to}
  BY <1>1, <1>2
<1>4. PICK K : K = {j \in DOMAIN seen : seen[j].at \in from..to}
  OBVIOUS
<1>5. {Gained(sd, entry, s[k].price) : k \in K} = {Gained(sd, entry, seen[k].price) : k \in K}
  BY <1>2, <1>4
<1> QED
  BY <1>2, <1>3, <1>4, <1>5 DEF GainsOf

LEMMA GainsGrow ==
  ASSUME ClockInv, NEW p, NEW side, NEW effect, NEW at, Framed(p, side, effect, at),
         NEW sd, NEW entry, NEW from \in Nat, from <= at
  PROVE  GainsOf(sd, entry, from, at)' = GainsOf(sd, entry, from, now) \cup {Gained(sd, entry, p)}
<1>1. at \in Nat /\ at > now /\ now \in Nat
  BY DEF Framed, ClockInv
<1>2. PICK n \in Nat, s \in Seq(Frames) :
        /\ seen' = s /\ DOMAIN seen = 1..n /\ DOMAIN s = 1..(n + 1)
        /\ s[n + 1].at = at /\ s[n + 1].price = p
        /\ \A i \in 1..n : s[i] = seen[i] /\ seen[i].at \in Nat /\ seen[i].at <= now
  BY SeenAfter
<1>3. PICK K : K = {j \in DOMAIN seen : seen[j].at \in from..now}
  OBVIOUS
<1>4. {j \in DOMAIN s : s[j].at \in from..at} = K \cup {n + 1}
  BY <1>1, <1>2, <1>3
<1>5. {Gained(sd, entry, s[k].price) : k \in K \cup {n + 1}}
        = {Gained(sd, entry, seen[k].price) : k \in K} \cup {Gained(sd, entry, p)}
  <2>1. \A k \in K : s[k] = seen[k]
    BY <1>2, <1>3
  <2> QED
    BY <1>2, <2>1
<1> QED
  BY <1>2, <1>3, <1>4, <1>5 DEF GainsOf

\* The signals of the process, in the order they were opened; each is judged when its
\* time is over, by the price of a frame.
RecordsInv ==
  /\ records \in Seq(Signals) /\ Len(records) <= opened
  /\ \A k \in DOMAIN records : records[k].id = opened - Len(records) + k
  /\ \A j, k \in DOMAIN records : j < k => records[j].at < records[k].at
  /\ \A k \in DOMAIN records :
       LET r == records[k]
       IN  /\ r.at <= now
           /\ IF now - r.at < Delay THEN r.result = "PENDING"
              ELSE /\ r.done \in Nat /\ r.done <= now /\ r.points \in Int
                   /\ r.result = ResultOf(r.points)
                   /\ r.points \in GainsOf(r.side, r.entry, r.at, r.done)

\* The records with the signal of a frame, if it is one, before they are judged.
WithNew(d, p, at) ==
  IF IsSignal(d) THEN Append(records, OpenSignal(opened + 1, d, p, at)) ELSE records

NewAt(r, d, p, at) ==
  r.id = opened + 1 /\ r.side = d /\ r.entry = p /\ r.at = at /\ r.result = "PENDING"

LEMMA WithNewIs ==
  ASSUME ClockInv, RecordsInv, NEW p, NEW side, NEW effect, NEW at,
         Framed(p, side, effect, at), NEW R, R = WithNew(decision', p, at)
  PROVE  /\ R \in Seq(Signals)
         /\ \/ Len(R) = Len(records) /\ opened' = opened
            \/ Len(R) = Len(records) + 1 /\ opened' = opened + 1
         /\ \A k \in 1..Len(records) : R[k] = records[k]
         /\ Len(R) > Len(records) =>
              IsSignal(decision') /\ NewAt(R[Len(R)], decision', p, at)
         /\ Len(R) = Len(records) => ~IsSignal(decision') /\ R = records
         /\ Len(R) \in {Len(records), Len(records) + 1}
         /\ records' = EvaluatePending(R, p, at)
<1>1. p \in Nat /\ at \in Nat /\ opened \in Nat /\ records \in Seq(Signals) /\ Len(records) \in Nat
  BY DEF Framed, ClockInv, RecordsInv
<1>2. records' = EvaluatePending(R, p, at)
  BY FrameIs DEF Recorded, WithNew
<1>3. CASE IsSignal(decision')
  <2>1. PICK r : r = OpenSignal(opened + 1, decision', p, at)
    OBVIOUS
  <2>2. r \in Signals /\ NewAt(r, decision', p, at)
    BY <1>1, <1>3, <2>1 DEF OpenSignal, Signals, IsSignal, Sides, NewAt
  <2>3. R = Append(records, r)
    BY <1>3, <2>1 DEF WithNew
  <2>4. /\ R \in Seq(Signals) /\ Len(R) = Len(records) + 1 /\ R[Len(records) + 1] = r
        /\ \A k \in 1..Len(records) : R[k] = records[k]
    BY <1>1, <2>2, <2>3
  <2>5. opened' = opened + 1
    BY <1>3, FrameIs DEF Recorded
  <2> QED
    BY <1>1, <1>2, <1>3, <2>2, <2>4, <2>5
<1>4. CASE ~IsSignal(decision')
  <2>1. R = records /\ opened' = opened
    BY <1>4, FrameIs DEF WithNew, Recorded
  <2> QED
    BY <1>1, <1>2, <1>4, <2>1
<1> QED
  BY <1>3, <1>4

Done(r) ==
  /\ r.done \in Nat /\ r.points \in Int /\ r.result = ResultOf(r.points)
  /\ r.points \in GainsOf(r.side, r.entry, r.at, r.done)

LEMMA ResultIs ==
  ASSUME NEW x \in Int
  PROVE  ResultOf(x) \in {"SUCCESS", "FAILED", "NEUTRAL"} /\ ResultOf(x) # "PENDING"
BY DEF ResultOf

\* A signal keeps what it is, and is judged once.
LEMMA JudgedOnce ==
  ASSUME ClockInv, RecordsInv, NEW p, NEW side, NEW effect, NEW at,
         Framed(p, side, effect, at), NEW R, R = WithNew(decision', p, at), NEW k \in DOMAIN R,
         NEW r, r = records'[k]
  PROVE  /\ r \in Signals
         /\ r.id = R[k].id /\ r.side = R[k].side /\ r.entry = R[k].entry /\ r.at = R[k].at
         /\ at - r.at < Delay => r = R[k] /\ Pending(r)
         /\ ~(at - r.at < Delay) => Done(r)' /\ ~Pending(r) /\ r.done <= at
         /\ ~Pending(R[k]) => r = R[k] /\ k \in DOMAIN records
         /\ ~Pending(r) /\ Pending(R[k]) => r.done = at
<1>1. /\ p \in Nat /\ at \in Nat /\ now \in Nat /\ at > now /\ opened \in Nat
      /\ records \in Seq(Signals) /\ Len(records) \in Nat /\ Delay \in Nat \ {0}
  BY DelayIs DEF Framed, ClockInv, RecordsInv
<1>2. /\ R \in Seq(Signals) /\ Len(R) \in {Len(records), Len(records) + 1}
      /\ \A j \in 1..Len(records) : R[j] = records[j]
      /\ Len(R) > Len(records) => NewAt(R[Len(R)], decision', p, at)
      /\ records' = EvaluatePending(R, p, at)
  BY WithNewIs
<1>3. PICK q : q = R[k] /\ q \in Signals
  BY <1>2
<1>4. q.at \in Nat /\ q.side \in Sides /\ q.entry \in Nat
  BY <1>3 DEF Signals
<1>5. records'[k] = IF Pending(q) /\ at - q.at >= Delay THEN Judged(q, p, at) ELSE q
  BY <1>2, <1>3 DEF EvaluatePending
<1>6. \/ k \in DOMAIN records /\ q = records[k]
      \/ k \notin DOMAIN records /\ NewAt(q, decision', p, at)
  <2>1. k \in 1..Len(R)
    BY <1>2
  <2> QED
    BY <1>1, <1>2, <1>3, <2>1
<1>7. /\ q.at <= at
      /\ ~Pending(q) => k \in DOMAIN records /\ ~(now - q.at < Delay)
      /\ ~(now - q.at < Delay) => k \in DOMAIN records /\ Done(q) /\ q.done <= now
  <2>1. CASE k \in DOMAIN records /\ q = records[k]
    BY <1>1, <1>4, <2>1 DEF RecordsInv, Pending, Done
  <2>2. CASE k \notin DOMAIN records /\ NewAt(q, decision', p, at)
    BY <1>1, <1>4, <2>2 DEF NewAt, Pending
  <2> QED
    BY <1>6, <2>1, <2>2
<1>8. CASE ~(now - q.at < Delay)
  <2>1. Done(q) /\ q.done <= now /\ k \in DOMAIN records
    BY <1>7, <1>8
  <2>2. ~Pending(q)
    BY <2>1, ResultIs DEF Done, Pending
  <2>3. r = q
    BY <1>5, <2>2
  <2>4. GainsOf(q.side, q.entry, q.at, q.done)' = GainsOf(q.side, q.entry, q.at, q.done)
    <3>1. q.done \in Nat
      BY <2>1 DEF Done
    <3> QED
      BY <1>4, <2>1, <3>1, GainsStay
  <2>5. Done(q)'
    BY <2>1, <2>4 DEF Done
  <2>6. ~(at - q.at < Delay) /\ q.done <= at
    <3>1. q.done \in Nat
      BY <2>1 DEF Done
    <3> QED
      BY <1>1, <1>4, <1>8, <2>1, <3>1
  <2> QED
    BY <1>3, <2>1, <2>2, <2>3, <2>5, <2>6
<1>9. CASE now - q.at < Delay
  <2>1. Pending(q)
    BY <1>7, <1>9
  <2>2. CASE at - q.at < Delay
    <3>1. ~(at - q.at >= Delay)
      BY <1>1, <1>4, <2>2
    <3>2. r = q
      BY <1>5, <3>1
    <3> QED
      BY <1>3, <2>1, <2>2, <3>2
  <2>3. CASE ~(at - q.at < Delay)
    <3>1. at - q.at >= Delay
      BY <1>1, <1>4, <2>3
    <3>2. PICK x : x = Gained(q.side, q.entry, p)
      OBVIOUS
    <3>3. x \in Int
      BY <1>1, <1>4, <3>2 DEF Gained
    <3>4. r = Judged(q, p, at)
      BY <1>5, <2>1, <3>1
    <3>5. /\ r \in Signals /\ r.id = q.id /\ r.side = q.side /\ r.entry = q.entry
          /\ r.at = q.at /\ r.done = at /\ r.points = x /\ r.result = ResultOf(x)
      <4>1. q \in Signals /\ x \in Int /\ at \in Nat /\ p \in Nat
        BY <1>1, <1>3, <3>3
      <4>2. PICK res : res = ResultOf(x) /\ res \in {"SUCCESS", "FAILED", "NEUTRAL"}
        BY <3>3, ResultIs
      <4>3. r = [q EXCEPT !.result = res, !.exit = p, !.points = x, !.done = at]
        BY <3>2, <3>4, <4>2 DEF Judged
      <4> QED
        BY <4>1, <4>2, <4>3 DEF Signals
    <3>7. x \in GainsOf(q.side, q.entry, q.at, at)'
      BY <1>4, <1>7, <3>2, GainsGrow
    <3>8. Done(r)' /\ ~Pending(r)
      BY <1>1, <3>3, <3>5, <3>7, ResultIs DEF Done, Pending
    <3>9. ~(at - r.at < Delay) /\ r.done <= at
      BY <1>1, <2>3, <3>5
    <3> QED
      BY <1>3, <2>1, <3>5, <3>8, <3>9
  <2> QED
    BY <2>2, <2>3
<1> QED
  BY <1>8, <1>9

\* The records of a frame, in the order of their ids and of their times.
LEMMA WithNewOrder ==
  ASSUME ClockInv, RecordsInv, NEW p, NEW side, NEW effect, NEW at,
         Framed(p, side, effect, at), NEW R, R = WithNew(decision', p, at)
  PROVE  /\ \A k \in 1..Len(R) :
              R[k].at \in Nat /\ R[k].at <= at /\ R[k].id = opened' - Len(R) + k
         /\ \A j, k \in 1..Len(R) : j < k => R[j].at < R[k].at
<1>1. /\ at \in Nat /\ now \in Nat /\ at > now /\ opened \in Nat
      /\ Len(records) \in Nat
  BY DEF Framed, ClockInv, RecordsInv
<1>2. /\ R \in Seq(Signals)
      /\ \/ Len(R) = Len(records) /\ opened' = opened
         \/ Len(R) = Len(records) + 1 /\ opened' = opened + 1
      /\ Len(R) \in {Len(records), Len(records) + 1}
      /\ \A j \in 1..Len(records) : R[j] = records[j]
      /\ Len(R) > Len(records) => NewAt(R[Len(R)], decision', p, at)
  BY WithNewIs
<1>3. ASSUME NEW k \in 1..Len(R)
      PROVE  /\ R[k].at \in Nat /\ R[k].at <= at /\ R[k].id = opened' - Len(R) + k
             /\ k \in 1..Len(records) => R[k].at = records[k].at /\ R[k].at <= now
             /\ k \notin 1..Len(records) => R[k].at = at
  <2>1. R[k].at \in Nat
    <3>1. R[k] \in Signals
      BY <1>2
    <3> QED
      BY <3>1 DEF Signals
  <2>2. CASE k \in 1..Len(records)
    <3>1. R[k] = records[k]
      BY <1>2, <2>2
    <3>2. records[k].id = opened - Len(records) + k /\ records[k].at <= now
      BY <2>2 DEF RecordsInv
    <3>3. opened' - Len(R) + k = opened - Len(records) + k
      BY <1>1, <1>2
    <3> QED
      BY <1>1, <2>1, <2>2, <3>1, <3>2, <3>3
  <2>3. CASE k \notin 1..Len(records)
    <3>1. k = Len(R) /\ Len(R) > Len(records)
      BY <1>1, <1>2, <2>3
    <3>2. NewAt(R[k], decision', p, at)
      BY <1>2, <3>1
    <3>3. R[k].id = opened + 1 /\ R[k].at = at
      BY <3>2 DEF NewAt
    <3>4. Len(R) = Len(records) + 1 /\ opened' = opened + 1
      BY <1>1, <1>2, <3>1
    <3>5. opened' - Len(R) + k = opened + 1
      BY <1>1, <1>2, <3>1, <3>4
    <3> QED
      BY <1>1, <2>3, <3>3, <3>5
  <2> QED
    BY <2>2, <2>3
<1>4. ASSUME NEW j \in 1..Len(R), NEW k \in 1..Len(R), j < k
      PROVE  R[j].at < R[k].at
  <2>1. j \in 1..Len(records)
    BY <1>1, <1>2, <1>4
  <2>2. CASE k \in 1..Len(records)
    BY <1>3, <1>4, <2>1, <2>2 DEF RecordsInv
  <2>3. CASE k \notin 1..Len(records)
    BY <1>1, <1>3, <2>1, <2>3
  <2> QED
    BY <2>2, <2>3
<1> QED
  BY <1>3, <1>4

LEMMA RecordsFrame ==
  ASSUME ClockInv, RecordsInv, NEW p, NEW side, NEW effect, NEW at,
         Framed(p, side, effect, at)
  PROVE  RecordsInv'
<1>1. PICK R : R = WithNew(decision', p, at)
  OBVIOUS
<1>2. /\ p \in Nat /\ at \in Nat /\ now \in Nat /\ at > now /\ opened \in Nat
      /\ Len(records) \in Nat /\ Delay \in Nat \ {0} /\ now' = at
      /\ opened' \in {opened, opened + 1} /\ opened' \in Nat /\ Len(records) <= opened
  <2>1. now' = at /\ opened' \in {opened, opened + 1} /\ ClockInv'
    BY FrameIs, ClockFrame
  <2>2. opened' \in Nat /\ opened \in Nat
    BY <2>1 DEF ClockInv
  <2>3. p \in Nat /\ at \in Nat /\ now \in Nat /\ at > now
    BY DEF Framed, ClockInv
  <2>4. Len(records) \in Nat /\ Len(records) <= opened
    BY DEF RecordsInv
  <2> QED
    BY <2>1, <2>2, <2>3, <2>4, DelayIs
<1>3. /\ R \in Seq(Signals)
      /\ \/ Len(R) = Len(records) /\ opened' = opened
         \/ Len(R) = Len(records) + 1 /\ opened' = opened + 1
      /\ Len(R) \in {Len(records), Len(records) + 1}
      /\ \A j \in 1..Len(records) : R[j] = records[j]
      /\ Len(R) > Len(records) => NewAt(R[Len(R)], decision', p, at)
      /\ records' = EvaluatePending(R, p, at)
  BY <1>1, WithNewIs
<1>4. DOMAIN records' = 1..Len(R) /\ Len(records') = Len(R) /\ records' \in Seq(Signals)
  <2>1. \A k \in 1..Len(R) : records'[k] \in Signals
    BY <1>1, <1>3, JudgedOnce
  <2>2. DOMAIN records' = 1..Len(R) /\ records' = [k \in 1..Len(R) |-> records'[k]]
    BY <1>3 DEF EvaluatePending
  <2>3. Len(R) \in Nat
    BY <1>3
  <2>4. records' \in Seq(Signals)
    BY <2>1, <2>2, <2>3
  <2> QED
    BY <2>2, <2>3, <2>4
<1>5. ASSUME NEW k \in 1..Len(R)
      PROVE  R[k].at \in Nat /\ R[k].at <= at /\ R[k].id = opened' - Len(R) + k
  BY <1>1, WithNewOrder
<1>6. ASSUME NEW j \in 1..Len(R), NEW k \in 1..Len(R), j < k
      PROVE  R[j].at < R[k].at
  BY <1>1, <1>6, WithNewOrder
<1>7. ASSUME NEW k \in 1..Len(R)
      PROVE  /\ records'[k].id = R[k].id /\ records'[k].at = R[k].at
             /\ IF now' - records'[k].at < Delay THEN records'[k].result = "PENDING"
                ELSE (/\ records[k].done \in Nat /\ records[k].done <= now /\ records[k].points \in Int
                      /\ records[k].result = ResultOf(records[k].points)
                      /\ records[k].points \in GainsOf(records[k].side, records[k].entry,
                                                      records[k].at, records[k].done))'
  <2>1. k \in DOMAIN R
    BY <1>3
  <2>2. PICK r : r = records'[k]
    OBVIOUS
  <2>3. r.id = R[k].id /\ r.at = R[k].at
    BY <1>1, <2>1, <2>2, JudgedOnce
  <2>4. at - r.at < Delay => r.result = "PENDING"
    BY <1>1, <2>1, <2>2, JudgedOnce DEF Pending
  <2>5. ~(at - r.at < Delay) => Done(r)' /\ r.done <= at
    BY <1>1, <2>1, <2>2, JudgedOnce
  <2> QED
    BY <1>2, <2>2, <2>3, <2>4, <2>5 DEF Done, GainsOf
<1>8. \A k \in DOMAIN records' : records'[k].id = opened' - Len(records') + k
  BY <1>4, <1>5, <1>7
<1>9. \A j, k \in DOMAIN records' : j < k => records'[j].at < records'[k].at
  BY <1>4, <1>6, <1>7
<1>10. \A k \in DOMAIN records' : records'[k].at <= now'
  BY <1>2, <1>4, <1>5, <1>7
<1>11. Len(records') <= opened'
  <2>1. Len(R) \in Nat /\ Len(R) <= opened'
    BY <1>2, <1>3
  <2> QED
    BY <1>4, <2>1
<1> QED
  BY <1>4, <1>7, <1>8, <1>9, <1>10, <1>11 DEF RecordsInv

LEMMA RecordsRestart == ASSUME ClockInv, RecordsInv, Restart PROVE RecordsInv'
<1>1. records' = << >> /\ opened' = opened /\ opened \in Nat
  BY RestartIs DEF ClockInv
<1> QED
  BY <1>1 DEF RecordsInv

LEMMA RecordsDies == ASSUME RecordsInv, Dies PROVE RecordsInv'
BY DEF Dies, RecordsInv, GainsOf

-----------------------------------------------------------------------------
(* The inductive invariant: the paths and the audits.                      *)

Samples == UNION {[S -> Int] : S \in SUBSET Offsets}
Classes == {"EARLY", "LATE", "NORMAL", "INCONCLUSIVE"}

OpenPaths  == [side : Sides, entry : Nat, at : Nat, mfe : Int, mae : Int, points : Samples]
AuditsMade == [side : Sides, entry : Nat, at : Nat, mfe : Int, mae : Int, points : Samples,
               class : Classes]

Fits(path, r) == path.side = r.side /\ path.entry = r.entry /\ path.at = r.at

\* The best and the worst of a path are those of its frames until the time given.
Extremes(path, to) ==
  LET G == GainsOf(path.side, path.entry, path.at, to)
  IN  /\ path.mfe \in G /\ path.mae \in G
      /\ \A g \in G : path.mae <= g /\ g <= path.mfe

\* The auditor follows the signals that the tracker has open, and has finished those
\* that it has judged, both in the order of the signals.
PathsInv ==
  /\ paths \in Seq(OpenPaths) /\ audits \in Seq(AuditsMade)
  /\ Len(records) = Len(audits) + Len(paths)
  /\ \A k \in 1..Len(audits) :
       /\ ~Pending(records[k]) /\ Fits(audits[k], records[k])
       /\ Extremes(audits[k], records[k].done)
  /\ \A k \in 1..Len(paths) :
       /\ Pending(records[Len(audits) + k]) /\ Fits(paths[k], records[Len(audits) + k])
       /\ Extremes(paths[k], now)

LEMMA GainsAreInts ==
  ASSUME ClockInv, NEW sd \in Sides, NEW entry \in Nat, NEW from, NEW to,
         NEW g \in GainsOf(sd, entry, from, to)
  PROVE  g \in Int
<1>1. PICK k \in DOMAIN seen : g = Gained(sd, entry, seen[k].price)
  BY DEF GainsOf
<1>2. seen[k] \in Frames
  BY DEF ClockInv
<1> QED
  BY <1>1, <1>2 DEF Frames, Gained

LEMMA SamplesGrow ==
  ASSUME NEW f \in Samples, NEW due \in SUBSET Offsets, NEW g \in Int
  PROVE  [o \in due |-> IF o \in DOMAIN f THEN f[o] ELSE g] \in Samples
<1>1. PICK S \in SUBSET Offsets : f \in [S -> Int]
  BY DEF Samples
<1>2. [o \in due |-> IF o \in DOMAIN f THEN f[o] ELSE g] \in [due -> Int]
  BY <1>1
<1> QED
  BY <1>2 DEF Samples

\* A path takes the frame's price into its extremes, a new one among them.
LEMMA AdvancedIs ==
  ASSUME ClockInv, NEW p, NEW side, NEW effect, NEW at, Framed(p, side, effect, at),
         NEW path \in OpenPaths, NEW q, q = Advanced(path, p, at),
         \/ path.at <= now /\ Extremes(path, now)
         \/ path = OpenPath(path.side, p, at)
  PROVE  /\ q \in OpenPaths /\ Fits(q, path) /\ Extremes(q, at)'
<1>1. /\ p \in Nat /\ at \in Nat /\ now \in Nat /\ at > now
      /\ path.at \in Nat /\ path.side \in Sides /\ path.entry \in Nat
      /\ path.mfe \in Int /\ path.mae \in Int /\ path.points \in Samples
  BY DEF Framed, ClockInv, OpenPaths
<1>2. PICK g : g = Gained(path.side, path.entry, p)
  OBVIOUS
<1>3. g \in Int
  BY <1>1, <1>2 DEF Gained
<1>4. PICK due \in SUBSET Offsets : due = {o \in Offsets : at - path.at >= o}
  OBVIOUS
<1>5. PICK samples \in Samples :
            samples = [o \in due |-> IF o \in DOMAIN path.points THEN path.points[o] ELSE g]
  BY <1>1, <1>3, SamplesGrow
<1>6. q = [path EXCEPT !.mfe = IF g > @ THEN g ELSE @, !.mae = IF g < @ THEN g ELSE @,
                       !.points = samples]
  BY <1>2, <1>4, <1>5 DEF Advanced
<1>7. /\ q \in OpenPaths /\ q.side = path.side /\ q.entry = path.entry /\ q.at = path.at
      /\ q.mfe = (IF g > path.mfe THEN g ELSE path.mfe)
      /\ q.mae = (IF g < path.mae THEN g ELSE path.mae)
  BY <1>3, <1>6 DEF OpenPaths
<1>8. PICK G : G = GainsOf(path.side, path.entry, path.at, now)
  OBVIOUS
<1>9. path.at <= at /\ \/ path.mfe \in G /\ path.mae \in G /\ \A x \in G : path.mae <= x /\ x <= path.mfe
                       \/ G = {} /\ path.mfe = 0 /\ path.mae = 0 /\ g = 0
  <2>1. CASE path.at <= now /\ Extremes(path, now)
    BY <1>1, <1>8, <2>1 DEF Extremes
  <2>2. CASE path = OpenPath(path.side, p, at)
    <3>1. path.at = at /\ path.entry = p /\ path.mfe = 0 /\ path.mae = 0
      BY <2>2 DEF OpenPath
    <3>2. g = 0
      BY <1>1, <1>2, <3>1 DEF Gained
    <3>3. at..now = {}
      BY <1>1
    <3>4. G = {}
      BY <1>8, <3>1, <3>3 DEF GainsOf
    <3> QED
      BY <1>1, <3>1, <3>2, <3>4
  <2> QED
    BY <2>1, <2>2
<1>10. \A x \in G : x \in Int
  BY <1>1, <1>8, GainsAreInts
<1>11. GainsOf(path.side, path.entry, path.at, at)' = G \cup {g}
  BY <1>1, <1>2, <1>8, <1>9, GainsGrow
<1>12. /\ q.mfe \in G \cup {g} /\ q.mae \in G \cup {g}
       /\ \A x \in G \cup {g} : q.mae <= x /\ x <= q.mfe
  BY <1>1, <1>3, <1>7, <1>9, <1>10
<1>13. Extremes(q, at)'
  BY <1>7, <1>11, <1>12 DEF Extremes
<1> QED
  BY <1>7, <1>13 DEF Fits

\* The paths with the path of a frame's signal, before its price.
WithPath(d, p, at) == IF IsSignal(d) THEN Append(paths, OpenPath(d, p, at)) ELSE paths

\* The paths of a frame, each with its signal.
LEMMA WithPathIs ==
  ASSUME ClockInv, RecordsInv, PathsInv, NEW p, NEW side, NEW effect, NEW at,
         Framed(p, side, effect, at),
         NEW R, R = WithNew(decision', p, at), NEW P, P = WithPath(decision', p, at)
  PROVE  /\ P \in Seq(OpenPaths) /\ Len(R) = Len(audits) + Len(P)
         /\ \A k \in 1..Len(P) :
              /\ Len(audits) + k \in 1..Len(R)
              /\ Pending(R[Len(audits) + k]) /\ Fits(P[k], R[Len(audits) + k])
              /\ \/ P[k].at <= now /\ Extremes(P[k], now)
                 \/ P[k] = OpenPath(P[k].side, p, at)
<1>1. /\ p \in Nat /\ at \in Nat /\ now \in Nat
      /\ paths \in Seq(OpenPaths) /\ Len(records) = Len(audits) + Len(paths)
      /\ Len(records) \in Nat /\ Len(paths) \in Nat /\ Len(audits) \in Nat
  BY DEF Framed, ClockInv, PathsInv, RecordsInv
<1>2. /\ R \in Seq(Signals)
      /\ \A k \in 1..Len(records) : R[k] = records[k]
      /\ Len(R) > Len(records) => IsSignal(decision') /\ NewAt(R[Len(R)], decision', p, at)
      /\ Len(R) = Len(records) => ~IsSignal(decision') /\ R = records
      /\ Len(R) \in {Len(records), Len(records) + 1}
  BY WithNewIs
<1>3. ASSUME NEW k \in 1..Len(paths)
      PROVE  /\ Len(audits) + k \in 1..Len(records)
             /\ Pending(R[Len(audits) + k]) /\ Fits(paths[k], R[Len(audits) + k])
             /\ paths[k].at <= now /\ Extremes(paths[k], now)
  <2>1. Len(audits) + k \in 1..Len(records)
    BY <1>1
  <2>2. PICK r : r = records[Len(audits) + k] /\ r = R[Len(audits) + k]
    BY <1>2, <2>1
  <2>3. Pending(r) /\ Fits(paths[k], r) /\ Extremes(paths[k], now)
    BY <2>2 DEF PathsInv
  <2>4. r.at <= now
    <3>1. Len(audits) + k \in DOMAIN records
      BY <2>1 DEF RecordsInv
    <3>2. records[Len(audits) + k].at <= now
      BY <3>1 DEF RecordsInv
    <3> QED
      BY <2>2, <3>2
  <2> QED
    BY <2>1, <2>2, <2>3, <2>4 DEF Fits
<1>4. CASE IsSignal(decision')
  <2>1. PICK q : q = OpenPath(decision', p, at)
    OBVIOUS
  <2>2. q \in OpenPaths /\ q.side = decision' /\ q.entry = p /\ q.at = at
    <3>1. decision' \in Sides
      BY <1>4 DEF IsSignal, Sides
    <3>2. << >> \in Samples
      <4>1. << >> \in [{} -> Int]
        OBVIOUS
      <4>2. {} \in SUBSET Offsets
        OBVIOUS
      <4> QED
        BY <4>1, <4>2 DEF Samples
    <3> QED
      BY <1>1, <2>1, <3>1, <3>2 DEF OpenPath, OpenPaths
  <2>3. P = Append(paths, q)
    BY <1>4, <2>1 DEF WithPath
  <2>4. /\ P \in Seq(OpenPaths) /\ Len(P) = Len(paths) + 1 /\ P[Len(paths) + 1] = q
        /\ \A k \in 1..Len(paths) : P[k] = paths[k]
    BY <1>1, <2>2, <2>3
  <2>5. Len(R) = Len(records) + 1
    BY <1>1, <1>2, <1>4
  <2>6. NewAt(R[Len(R)], decision', p, at)
    BY <1>1, <1>2, <2>5
  <2>7. Pending(R[Len(R)]) /\ Fits(q, R[Len(R)]) /\ q = OpenPath(q.side, p, at)
    BY <2>1, <2>2, <2>6 DEF NewAt, Fits, Pending
  <2>8. Len(R) = Len(audits) + Len(P) /\ Len(audits) + Len(paths) + 1 = Len(R)
    BY <1>1, <2>4, <2>5
  <2>9. ASSUME NEW k \in 1..Len(P)
        PROVE  /\ Len(audits) + k \in 1..Len(R)
               /\ Pending(R[Len(audits) + k]) /\ Fits(P[k], R[Len(audits) + k])
               /\ \/ P[k].at <= now /\ Extremes(P[k], now)
                  \/ P[k] = OpenPath(P[k].side, p, at)
    <3>1. CASE k \in 1..Len(paths)
      <4>1. P[k] = paths[k] /\ Len(audits) + k \in 1..Len(R)
        BY <1>1, <2>4, <2>8, <3>1
      <4> QED
        BY <1>3, <3>1, <4>1
    <3>2. CASE k \notin 1..Len(paths)
      <4>1. k = Len(paths) + 1 /\ Len(audits) + k = Len(R) /\ Len(R) \in 1..Len(R)
        BY <1>1, <2>4, <2>5, <2>8, <3>2
      <4> QED
        BY <2>4, <2>7, <4>1
    <3> QED
      BY <3>1, <3>2
  <2> QED
    BY <2>4, <2>8, <2>9
<1>5. CASE ~IsSignal(decision')
  <2>1. P = paths /\ Len(R) = Len(records)
    BY <1>1, <1>2, <1>5 DEF WithPath
  <2> QED
    BY <1>1, <1>3, <2>1
<1> QED
  BY <1>4, <1>5

Parted(R, at, b, done, open) ==
  /\ audits' = audits \o done /\ paths' = open
  /\ Len(done) = b /\ Len(R) = Len(audits) + b + Len(open)
  /\ \A k \in 1..b :
       /\ ~(at - R[Len(audits) + k].at < Delay)
       /\ Pending(R[Len(audits) + k])
       /\ Fits(done[k], R[Len(audits) + k]) /\ Extremes(done[k], at)'
  /\ \A k \in 1..Len(open) :
       /\ at - R[Len(audits) + b + k].at < Delay
       /\ Fits(open[k], R[Len(audits) + b + k]) /\ Extremes(open[k], at)'

\* The paths whose window is over are the oldest ones: they are audits now, in their
\* order, and the others stay.
LEMMA PathsStep ==
  ASSUME ClockInv, RecordsInv, PathsInv, NEW p, NEW side, NEW effect, NEW at,
         Framed(p, side, effect, at), NEW R, R = WithNew(decision', p, at)
  PROVE  \E b \in Nat, done \in Seq(AuditsMade), open \in Seq(OpenPaths) :
           Parted(R, at, b, done, open)
<1>1. PICK P, a : P = WithPath(decision', p, at) /\ a = Len(audits)
  OBVIOUS
<1>2. /\ P \in Seq(OpenPaths) /\ Len(R) = a + Len(P)
      /\ \A k \in 1..Len(P) :
              /\ a + k \in 1..Len(R)
              /\ Pending(R[a + k]) /\ Fits(P[k], R[a + k])
              /\ \/ P[k].at <= now /\ Extremes(P[k], now)
                 \/ P[k] = OpenPath(P[k].side, p, at)
  BY <1>1, WithPathIs
<1>3. PICK n \in Nat : n = Len(P)
  BY <1>2
<1>20. PICK next : next = [k \in DOMAIN P |-> Advanced(P[k], p, at)]
  OBVIOUS
<1>4. a \in Nat /\ DOMAIN P = 1..n /\ Delay \in Nat \ {0} /\ TimingWindow = Delay /\ at \in Nat
  BY <1>1, <1>2, <1>3, DelayIs DEF PathsInv, Framed
<1>5. ASSUME NEW k \in 1..n
      PROVE  next[k] \in OpenPaths /\ Fits(next[k], R[a + k]) /\ Extremes(next[k], at)'
  <2>1. PICK q : q = next[k] /\ q = Advanced(P[k], p, at)
    BY <1>20, <1>4
  <2>2. P[k] \in OpenPaths
    BY <1>2, <1>4
  <2>3. q \in OpenPaths /\ Fits(q, P[k]) /\ Extremes(q, at)'
    BY <1>2, <1>3, <2>1, <2>2, AdvancedIs
  <2>4. Extremes(next[k], at)'
    BY <2>1, <2>3
  <2> QED
    BY <1>2, <1>3, <2>1, <2>3, <2>4 DEF Fits
<1>6. next \in Seq(OpenPaths) /\ Len(next) = n /\ DOMAIN next = 1..n
  <2>1. DOMAIN next = 1..n /\ next = [k \in 1..n |-> next[k]]
    BY <1>20, <1>4
  <2> QED
    BY <1>5, <2>1
<1>7. ASSUME NEW k \in 1..n
      PROVE  /\ next[k].at = R[a + k].at /\ next[k].at \in Nat
             /\ Over(next[k], at) <=> ~(at - R[a + k].at < Delay)
             /\ \A j \in 1..n : j < k => next[j].at < next[k].at
  <2>1. \A j \in 1..n : next[j].at = R[a + j].at
    BY <1>5 DEF Fits
  <2>2. next[k].at \in Nat
    BY <1>5 DEF OpenPaths
  <2>3. \A j \in 1..n : j < k => R[a + j].at < R[a + k].at
    <3>1. ASSUME NEW j \in 1..n, j < k
          PROVE  R[a + j].at < R[a + k].at
      <4>1. a + j \in 1..Len(R) /\ a + k \in 1..Len(R) /\ a + j < a + k
        BY <1>2, <1>3, <1>4, <3>1
      <4> QED
        BY <4>1, WithNewOrder
    <3> QED
      BY <3>1
  <2>4. Over(next[k], at) <=> ~(at - next[k].at < Delay)
    BY <1>4, <2>2 DEF Over
  <2>5. \A j \in 1..n : j < k => next[j].at < next[k].at
    BY <2>1, <2>3
  <2> QED
    BY <2>1, <2>2, <2>4, <2>5
<1>8. PICK over : over = {k \in DOMAIN next : Over(next[k], at)}
  OBVIOUS
<1>9. PICK b \in 0..n : \A k \in 1..n : k \in over <=> k <= b
  <2>1. over \cup {0} \in SUBSET (0..n) /\ over \cup {0} # {}
    BY <1>6, <1>8
  <2>2. PICK b : b = Max(over \cup {0})
    OBVIOUS
  <2>3. b \in over \cup {0} /\ b \in 0..n /\ \A x \in over \cup {0} : x <= b
    BY <2>1, <2>2, LargestOf
  <2>4. ASSUME NEW k \in 1..n, k <= b
        PROVE  k \in over
    <3>1. b \in 1..n /\ b \in over
      BY <2>3, <2>4
    <3>2. at - next[b].at >= TimingWindow
      BY <1>8, <3>1 DEF Over
    <3>3. k = b \/ next[k].at < next[b].at
      BY <1>7, <2>4, <3>1
    <3>4. next[k].at \in Nat /\ next[b].at \in Nat
      BY <1>7, <3>1
    <3>5. Over(next[k], at)
      BY <1>4, <3>2, <3>3, <3>4 DEF Over
    <3> QED
      BY <1>6, <1>8, <3>5
  <2> QED
    BY <2>3, <2>4
<1>10. PICK W, open : W = Where(next, over) /\ open = Where(next, DOMAIN next \ over)
  OBVIOUS
<1>11. /\ W \in Seq(OpenPaths) /\ Len(W) = b /\ \A i \in 1..b : W[i] = next[i]
  <2>1. Spans(over, Len(next), 1, b) /\ b \in 0..Len(next)
    BY <1>6, <1>9 DEF Spans
  <2> QED
    BY <1>6, <1>10, <2>1, WhereFirst
<1>12. /\ open \in Seq(OpenPaths) /\ Len(open) = n - b
       /\ \A i \in 1..(n - b) : open[i] = next[b + i]
  <2>1. PICK rest : rest = DOMAIN next \ over
    OBVIOUS
  <2>2. Beyond(rest, n, b)
    BY <1>6, <1>9, <2>1 DEF Beyond
  <2>3. next \in Seq(OpenPaths) /\ n = Len(next) /\ b \in 0..n /\ open = Where(next, rest)
    BY <1>6, <1>10, <2>1
  <2> QED
    BY <2>2, <2>3, WhereRest
<1>13. PICK done : done = [k \in DOMAIN W |-> Finalized(W[k])]
  OBVIOUS
<1>14. ASSUME NEW k \in 1..b
       PROVE  /\ done[k] \in AuditsMade /\ Fits(done[k], R[a + k]) /\ Extremes(done[k], at)'
  <2>1. PICK f, q : f = done[k] /\ q = next[k] /\ f = Finalized(q)
    BY <1>11, <1>13
  <2>2. q \in OpenPaths /\ Fits(q, R[a + k]) /\ Extremes(q, at)'
    BY <1>5, <2>1
  <2>3. TimingClass(q) \in Classes
    BY DEF TimingClass, Classes
  <2>4. /\ f \in AuditsMade /\ f.side = q.side /\ f.entry = q.entry /\ f.at = q.at
        /\ f.mfe = q.mfe /\ f.mae = q.mae
    BY <2>1, <2>2, <2>3 DEF Finalized, AuditsMade, OpenPaths
  <2>5. Extremes(f, at)'
    BY <2>2, <2>4 DEF Extremes
  <2>6. Fits(f, R[a + k])
    BY <2>2, <2>4 DEF Fits
  <2> QED
    BY <2>1, <2>4, <2>5, <2>6
<1>15. done \in Seq(AuditsMade) /\ Len(done) = b
  <2>1. DOMAIN done = 1..b /\ done = [k \in 1..b |-> done[k]]
    BY <1>11, <1>13
  <2> QED
    BY <1>14, <2>1
<1>16. audits' = audits \o done /\ paths' = open
  <2>1. Audited(P, p, at).open = open /\ Audited(P, p, at).finished = done
    BY <1>20, <1>8, <1>10, <1>13 DEF Audited
  <2>2. paths' = Audited(P, p, at).open /\ audits' = audits \o Audited(P, p, at).finished
    BY <1>1, FrameIs DEF Followed, WithPath
  <2> QED
    BY <2>1, <2>2
<1>17. ASSUME NEW k \in 1..Len(open)
       PROVE  /\ at - R[a + b + k].at < Delay
              /\ Fits(open[k], R[a + b + k]) /\ Extremes(open[k], at)'
  <2>1. PICK j : j = b + k /\ j \in 1..n /\ a + j = a + b + k /\ ~(j <= b) /\ open[k] = next[j]
    BY <1>4, <1>12
  <2>2. ~Over(next[j], at)
    BY <1>6, <1>8, <1>9, <2>1
  <2>3. Extremes(next[j], at)'
    BY <1>5, <2>1
  <2>4. at - R[a + j].at < Delay /\ Fits(next[j], R[a + j])
    BY <1>5, <1>7, <2>1, <2>2
  <2> QED
    BY <2>1, <2>3, <2>4
<1>18. ASSUME NEW k \in 1..b
       PROVE  ~(at - R[a + k].at < Delay) /\ Pending(R[a + k])
  <2>1. k \in 1..n /\ k \in over
    BY <1>9
  <2> QED
    BY <1>2, <1>3, <1>7, <1>8, <2>1
<1>19. Len(R) = a + b + Len(open)
  BY <1>2, <1>3, <1>4, <1>12
<1>21. Parted(R, at, b, done, open)
  BY <1>1, <1>14, <1>15, <1>16, <1>17, <1>18, <1>19 DEF Parted
<1> QED
  BY <1>12, <1>15, <1>21

LEMMA JudgedIs ==
  ASSUME RecordsInv, ClockInv, NEW k \in DOMAIN records, ~Pending(records[k])
  PROVE  Done(records[k]) /\ records[k].done <= now /\ ~(now - records[k].at < Delay)
BY DEF RecordsInv, Pending, Done

\* What was measured is not touched by a later frame.
LEMMA MeasuredStays ==
  ASSUME ClockInv, NEW p, NEW side, NEW effect, NEW at, Framed(p, side, effect, at),
         NEW x, x.at \in Nat, NEW to \in Nat, to <= now, Extremes(x, to)
  PROVE  Extremes(x, to)'
<1>1. GainsOf(x.side, x.entry, x.at, to)' = GainsOf(x.side, x.entry, x.at, to)
  BY GainsStay
<1> QED
  BY <1>1 DEF Extremes

LEMMA PathsFrame ==
  ASSUME ClockInv, RecordsInv, PathsInv, NEW p, NEW side, NEW effect, NEW at,
         Framed(p, side, effect, at)
  PROVE  PathsInv'
<1>1. PICK R, a : R = WithNew(decision', p, at) /\ a = Len(audits)
  OBVIOUS
<1>2. PICK b \in Nat, done \in Seq(AuditsMade), open \in Seq(OpenPaths) :
        Parted(R, at, b, done, open)
  BY <1>1, PathsStep
<1>3. /\ audits \in Seq(AuditsMade) /\ a \in Nat /\ Len(open) \in Nat
      /\ audits' = audits \o done /\ paths' = open /\ now' = at /\ at \in Nat /\ now \in Nat
      /\ Len(done) = b /\ Len(R) = a + b + Len(open) /\ R \in Seq(Signals)
      /\ records \in Seq(Signals) /\ Len(records) \in Nat
      /\ Len(records) = a + Len(paths) /\ Len(paths) \in Nat
      /\ Delay \in Nat \ {0}
  <2>1. audits' = audits \o done /\ paths' = open /\ Len(done) = b /\ Len(R) = a + b + Len(open)
    BY <1>1, <1>2 DEF Parted
  <2>2. R \in Seq(Signals) /\ now' = at /\ Delay \in Nat \ {0}
    BY <1>1, FrameIs, WithNewIs, DelayIs
  <2>3. at \in Nat /\ now \in Nat /\ records \in Seq(Signals) /\ Len(records) \in Nat
    BY DEF Framed, ClockInv, RecordsInv
  <2>4. /\ audits \in Seq(AuditsMade) /\ a \in Nat /\ Len(records) = a + Len(paths)
        /\ Len(paths) \in Nat
    BY <1>1 DEF PathsInv
  <2>5. Len(open) \in Nat
    OBVIOUS
  <2> QED
    BY <2>1, <2>2, <2>3, <2>4, <2>5
<1>4. /\ audits' \in Seq(AuditsMade) /\ Len(audits') = a + b
      /\ \A k \in 1..a : audits'[k] = audits[k]
      /\ \A k \in 1..b : audits'[a + k] = done[k]
  <2>1. PICK s : s = audits \o done
    OBVIOUS
  <2>2. /\ s \in Seq(AuditsMade) /\ Len(s) = a + b
        /\ \A k \in 1..a : s[k] = audits[k]
        /\ \A k \in 1..b : s[a + k] = done[k]
    <3>1. /\ s \in Seq(AuditsMade) /\ Len(s) = a + b
          /\ \A k \in 1..(a + b) : s[k] = IF k <= a THEN audits[k] ELSE done[k - a]
      BY <1>1, <1>3, <2>1, ConcatProperties
    <3>2. \A k \in 1..b : a + k \in 1..(a + b) /\ ~(a + k <= a) /\ a + k - a = k
      BY <1>3
    <3> QED
      BY <1>3, <3>1, <3>2
  <2> QED
    BY <1>3, <2>1, <2>2
<1>5. Len(records') = Len(R) /\ DOMAIN records' = 1..Len(R) /\ DOMAIN R = 1..Len(R)
  <2>1. records' = EvaluatePending(R, p, at)
    BY <1>1, WithNewIs
  <2> QED
    BY <1>3, <2>1 DEF EvaluatePending
<1>6. ASSUME NEW k \in 1..a
      PROVE  /\ ~Pending(records'[k]) /\ Fits(audits'[k], records'[k])
             /\ Extremes(audits[k], records[k].done)'
  <2>1. k \in 1..Len(records) /\ k \in DOMAIN records /\ k \in DOMAIN R
    BY <1>3, <1>5
  <2>2. PICK r, x : r = records[k] /\ x = audits[k]
    OBVIOUS
  <2>3. ~Pending(r) /\ Fits(x, r) /\ Extremes(x, r.done)
    BY <1>1, <2>2 DEF PathsInv
  <2>4. r = R[k]
    BY <1>1, <2>1, <2>2, WithNewIs
  <2>5. records'[k] = r
    <3>1. PICK q : q = records'[k]
      OBVIOUS
    <3> QED
      BY <1>1, <2>1, <2>3, <2>4, <3>1, JudgedOnce
  <2>6. r.done \in Nat /\ r.done <= now /\ r.at \in Nat
    <3>1. Done(r) /\ r.done <= now
      BY <2>1, <2>2, <2>3, JudgedIs
    <3>2. r \in Signals
      BY <1>3, <2>1, <2>2
    <3> QED
      BY <3>1, <3>2 DEF Done, Signals
  <2>7. Extremes(x, r.done)'
    <3>1. x.at \in Nat
      BY <2>3, <2>6 DEF Fits
    <3> QED
      BY <2>3, <2>6, <3>1, MeasuredStays
  <2>8. audits'[k] = x
    BY <1>4, <2>2
  <2> QED
    BY <2>3, <2>5, <2>7, <2>8 DEF Extremes, GainsOf
<1>7. ASSUME NEW i \in 1..b
      PROVE  /\ ~Pending(records'[a + i]) /\ Fits(audits'[a + i], records'[a + i])
             /\ Extremes(audits[a + i], records[a + i].done)'
  <2>1. PICK k, x : k = a + i /\ x = done[i]
    OBVIOUS
  <2>2. k \in DOMAIN R
    BY <1>3, <1>5, <2>1
  <2>3. Pending(R[k]) /\ ~(at - R[k].at < Delay) /\ Fits(x, R[k]) /\ Extremes(x, at)'
    BY <1>1, <1>2, <1>3, <2>1 DEF Parted
  <2>4. PICK r : r = records'[k]
    OBVIOUS
  <2>5. /\ r.side = R[k].side /\ r.entry = R[k].entry /\ r.at = R[k].at
        /\ ~Pending(r) /\ r.done = at
    BY <1>1, <2>2, <2>3, <2>4, JudgedOnce
  <2>6. audits'[a + i] = x /\ records'[a + i] = r
    BY <1>4, <2>1, <2>4
  <2>7. Fits(x, r)
    BY <2>3, <2>5 DEF Fits
  <2> QED
    BY <2>3, <2>5, <2>6, <2>7 DEF Extremes, GainsOf
<1>8. ASSUME NEW i \in 1..Len(open)
      PROVE  /\ Pending(records'[a + b + i]) /\ Fits(paths'[i], records'[a + b + i])
             /\ Extremes(paths[i], now)'
  <2>1. PICK k, x : k = a + b + i /\ x = open[i]
    OBVIOUS
  <2>2. k \in DOMAIN R
    BY <1>3, <1>5, <2>1
  <2>3. at - R[k].at < Delay /\ Fits(x, R[k]) /\ Extremes(x, at)'
    BY <1>1, <1>2, <1>3, <2>1 DEF Parted
  <2>4. PICK r : r = records'[k]
    OBVIOUS
  <2>5. r = R[k] /\ Pending(r)
    BY <1>1, <2>2, <2>3, <2>4, JudgedOnce
  <2>6. paths'[i] = x /\ records'[a + b + i] = r
    BY <1>3, <2>1, <2>4
  <2> QED
    BY <1>3, <2>3, <2>5, <2>6 DEF Extremes, GainsOf
<1>9. ASSUME NEW k \in 1..Len(audits')
      PROVE  /\ ~Pending(records'[k]) /\ Fits(audits'[k], records'[k])
             /\ Extremes(audits[k], records[k].done)'
  <2>1. CASE k \in 1..a
    BY <1>6, <2>1
  <2>2. CASE k \notin 1..a
    <3>1. PICK i \in 1..b : k = a + i
      <4>1. k - a \in 1..b /\ k = a + (k - a)
        BY <1>3, <1>4, <2>2
      <4> QED
        BY <4>1
    <3> QED
      BY <1>7, <3>1
  <2> QED
    BY <2>1, <2>2
<1>10. Len(records') = Len(audits') + Len(paths')
  BY <1>3, <1>4, <1>5
<1>11. paths' \in Seq(OpenPaths)
  BY <1>3
<1> QED
  BY <1>3, <1>4, <1>8, <1>9, <1>10, <1>11 DEF PathsInv

LEMMA PathsRestart == ASSUME Restart PROVE PathsInv'
<1>1. records' = << >> /\ paths' = << >> /\ audits' = << >>
  BY RestartIs
<1> QED
  BY <1>1 DEF PathsInv

LEMMA PathsDies == ASSUME PathsInv, Dies PROVE PathsInv'
BY DEF Dies, PathsInv, Extremes, GainsOf

-----------------------------------------------------------------------------
(* The inductive invariant: the store.                                     *)

Days   == {TradingDay(t) : t \in Nat}
Labels == {"WIN", "LOSS", "BREAKEVEN"}
Stored == [id : Nat, day : Days, side : Sides, at : Nat, done : Nat, entry : Nat,
           label : Labels, points : Int, memory : Memories,
           mfe : Int \cup {None}, mae : Int \cup {None}]
Dicts(X, V) == UNION {[S -> V] : S \in SUBSET X}
Stores == [signals : Seq(Stored), ids : SUBSET Nat, noTrade : Dicts(Days, Nat),
           memory : Dicts(Nat, Memories)]

LEMMA DictIs ==
  ASSUME NEW X, NEW V, NEW f
  PROVE  f \in Dicts(X, V) <=> DOMAIN f \in SUBSET X /\ f \in [DOMAIN f -> V]
BY DEF Dicts

LEMMA AssignedIs ==
  ASSUME NEW X, NEW V, NEW f \in Dicts(X, V), NEW x \in X, NEW v \in V
  PROVE  Assigned(f, x, v) \in Dicts(X, V)
<1>1. DOMAIN f \in SUBSET X /\ f \in [DOMAIN f -> V]
  BY DictIs
<1>2. PICK S \in SUBSET X : S = DOMAIN f \cup {x}
  BY <1>1
<1>3. Assigned(f, x, v) \in [S -> V]
  BY <1>1, <1>2 DEF Assigned
<1> QED
  BY <1>3 DEF Dicts

LEMMA RestrictIs ==
  ASSUME NEW X, NEW V, NEW f \in Dicts(X, V), NEW S \in SUBSET (DOMAIN f)
  PROVE  Restrict(f, S) \in Dicts(X, V)
<1>1. DOMAIN f \in SUBSET X /\ f \in [DOMAIN f -> V]
  BY DictIs
<1>2. Restrict(f, S) \in [S -> V] /\ S \in SUBSET X
  BY <1>1 DEF Restrict
<1> QED
  BY <1>2 DEF Dicts

\* What a frame notes of its signal: the effect of memory, and a day without a trade.
LEMMA NotedIs ==
  ASSUME store \in Stores, opened \in Nat, NEW d, NEW effect \in Memories, NEW at \in Nat,
         NEW N, N = Noted(d, effect, at)
  PROVE  N \in Stores /\ N.signals = store.signals /\ N.ids = store.ids
<1>1. PICK M : M = IF IsSignal(d) THEN NoteOpen(store, opened + 1, effect) ELSE store
  OBVIOUS
<1>2. M \in Stores /\ M.signals = store.signals /\ M.ids = store.ids
  <2>1. PICK memory : memory = Assigned(store.memory, opened + 1, effect)
    OBVIOUS
  <2>2. memory \in Dicts(Nat, Memories)
    <3>1. store.memory \in Dicts(Nat, Memories)
      BY DEF Stores
    <3>2. PICK id \in Nat : id = opened + 1
      OBVIOUS
    <3> QED
      BY <2>1, <3>1, <3>2, AssignedIs
  <2>3. NoteOpen(store, opened + 1, effect) = [store EXCEPT !.memory = memory]
    BY <2>1 DEF NoteOpen
  <2> QED
    BY <1>1, <2>2, <2>3 DEF Stores
<1>3. N = IF d = "NO_TRADE" /\ decision # "NO_TRADE" THEN RecordNoTrade(M, at) ELSE M
  BY <1>1 DEF Noted
<1>4. PICK days : days = Assigned(M.noTrade, TradingDay(at), Counted(M.noTrade, TradingDay(at)) + 1)
  OBVIOUS
<1>5. days \in Dicts(Days, Nat)
  <2>1. M.noTrade \in Dicts(Days, Nat) /\ TradingDay(at) \in Days
    BY <1>2 DEF Stores, Days
  <2>2. Counted(M.noTrade, TradingDay(at)) + 1 \in Nat
    BY <2>1, DictIs DEF Counted
  <2> QED
    BY <1>4, <2>1, <2>2, AssignedIs
<1>6. RecordNoTrade(M, at) = [M EXCEPT !.noTrade = days]
  BY <1>4 DEF RecordNoTrade
<1> QED
  BY <1>2, <1>3, <1>5, <1>6 DEF Stores

LEMMA FirstOf ==
  ASSUME NEW K \in SUBSET Nat, K # {}
  PROVE  Min(K) \in K /\ \A k \in K : Min(K) <= k
<1>1. \E x \in K : \A y \in K : x <= y
  BY LeastExists
<1> QED
  BY <1>1 DEF Min

\* A signal that is judged, as it is stored.
LEMMA PersistedIs ==
  ASSUME NEW r \in Signals, ~Pending(r), r.done \in Nat, r.points \in Int,
         NEW A \in Seq(AuditsMade), NEW memory \in Dicts(Nat, Memories),
         NEW s, s = Persisted(r, A, memory)
  PROVE  /\ s \in Stored
         /\ s.id = r.id /\ s.side = r.side /\ s.entry = r.entry /\ s.at = r.at
         /\ s.done = r.done /\ s.points = r.points /\ s.day = TradingDay(r.at)
         /\ s.label = LabelOf(r.result)
         /\ s.mfe = AuditOf(A, r).mfe /\ s.mae = AuditOf(A, r).mae
<1>1. PICK m : m = AuditOf(A, r)
  OBVIOUS
<1>2. m.mfe \in Int \cup {None} /\ m.mae \in Int \cup {None}
  <2>1. PICK K : K = {k \in DOMAIN A : Matches(A[k], r)}
    OBVIOUS
  <2>2. CASE K = {}
    BY <1>1, <2>1, <2>2 DEF AuditOf
  <2>3. CASE K # {}
    <3>1. Min(K) \in DOMAIN A
      BY <2>1, <2>3, FirstOf
    <3>2. A[Min(K)].mfe \in Int /\ A[Min(K)].mae \in Int
      <4>1. A[Min(K)] \in AuditsMade
        BY <3>1
      <4> QED
        BY <4>1 DEF AuditsMade
    <3> QED
      BY <1>1, <2>1, <2>3, <3>2 DEF AuditOf
  <2> QED
    BY <2>2, <2>3
<1>3. LabelOf(r.result) \in Labels
  BY DEF Signals, Pending, LabelOf, Labels
<1>4. PICK effect : effect = IF r.id \in DOMAIN memory THEN memory[r.id] ELSE "NO_EFFECT"
  OBVIOUS
<1>5. effect \in Memories
  BY <1>4, DictIs DEF Memories
<1>6. TradingDay(r.at) \in Days
  BY DEF Days, Signals
<1>7. s = [id |-> r.id, day |-> TradingDay(r.at), side |-> r.side, at |-> r.at,
           done |-> r.done, entry |-> r.entry, label |-> LabelOf(r.result),
           points |-> r.points, memory |-> effect, mfe |-> m.mfe, mae |-> m.mae]
  BY <1>1, <1>4 DEF Persisted
<1> QED
  BY <1>1, <1>2, <1>3, <1>5, <1>6, <1>7 DEF Stored, Signals

Unstored(N, R) == {k \in DOMAIN R : ~Pending(R[k]) /\ R[k].id \notin N.ids}
Fresh(N, R, A) ==
  LET new == Where(R, Unstored(N, R))
  IN  [k \in DOMAIN new |-> Persisted(new[k], A, N.memory)]

Known(R) == \A k \in DOMAIN R : ~Pending(R[k]) => R[k].done \in Nat /\ R[k].points \in Int

LEMMA FreshIs ==
  ASSUME NEW N \in Stores, NEW R \in Seq(Signals), NEW A \in Seq(AuditsMade),
         Known(R)
  PROVE  /\ Fresh(N, R, A) \in Seq(Stored)
         /\ \A k \in DOMAIN Fresh(N, R, A) :
              \E j \in Unstored(N, R) : Fresh(N, R, A)[k] = Persisted(R[j], A, N.memory)
<1>1. PICK K, new : K = Unstored(N, R) /\ new = Where(R, K)
  OBVIOUS
<1>2. PICK F : F = [k \in DOMAIN new |-> Persisted(new[k], A, N.memory)] /\ F = Fresh(N, R, A)
  BY <1>1 DEF Fresh
<1>3. K \in SUBSET (DOMAIN R) /\ new \in Seq(Signals)
  BY <1>1, WhereCounts DEF Unstored
<1>4. \A i \in 1..Len(new) : \E k \in K : new[i] = R[k]
  BY <1>1, <1>3, WhereSame
<1>5. ASSUME NEW i \in 1..Len(new)
      PROVE  \E j \in K : F[i] = Persisted(R[j], A, N.memory) /\ F[i] \in Stored
  <2>1. PICK j \in K : new[i] = R[j]
    BY <1>4
  <2>2. PICK s : s = Persisted(R[j], A, N.memory)
    OBVIOUS
  <2>3. F[i] = s
    BY <1>2, <1>3, <2>1, <2>2
  <2>4. s \in Stored
    <3>1. R[j] \in Signals /\ ~Pending(R[j]) /\ R[j].done \in Nat /\ R[j].points \in Int
      BY <1>1, <1>3 DEF Unstored, Known
    <3>2. N.memory \in Dicts(Nat, Memories)
      BY DEF Stores
    <3> QED
      BY <2>2, <3>1, <3>2, PersistedIs
  <2> QED
    BY <2>2, <2>3, <2>4
<1>6. DOMAIN F = 1..Len(new) /\ F = [i \in 1..Len(new) |-> F[i]]
  BY <1>2, <1>3
<1>7. F \in Seq(Stored)
  BY <1>3, <1>5, <1>6
<1> QED
  BY <1>1, <1>2, <1>5, <1>6, <1>7

Spill(all) == IF Len(all) > MaxStored THEN Len(all) - MaxStored ELSE 0

Kept(all)  == SubSeq(all, Spill(all) + 1, Len(all))
Grown(N, R, A) == N.signals \o Fresh(N, R, A)
Spilt(all) == {all[k].id : k \in 1..Spill(all)}
Taken(N, R) ==
  LET new == Where(R, Unstored(N, R)) IN {new[k].id : k \in DOMAIN new}

LEMMA SyncIs ==
  ASSUME NEW N \in Stores, NEW R \in Seq(Signals), NEW A \in Seq(AuditsMade),
         Known(R),
         NEW all, all = Grown(N, R, A)
  PROVE  /\ SyncCompleted(N, R, A) \in Stores
         /\ SyncCompleted(N, R, A).noTrade = N.noTrade /\ all \in Seq(Stored)
         /\ SyncCompleted(N, R, A).signals = Kept(all)
         /\ SyncCompleted(N, R, A).ids = (N.ids \cup Taken(N, R)) \ Spilt(all)
<1>1. PICK new, F : new = Where(R, Unstored(N, R)) /\ F = Fresh(N, R, A)
  OBVIOUS
<1>2. F \in Seq(Stored) /\ new \in Seq(Signals) /\ N.signals \in Seq(Stored)
  <2>1. Unstored(N, R) \in SUBSET (DOMAIN R)
    BY DEF Unstored
  <2> QED
    BY <1>1, <2>1, FreshIs, WhereCounts DEF Stores
<1>3. all \in Seq(Stored) /\ Len(all) \in Nat
  BY <1>1, <1>2, ConcatProperties DEF Grown
<1>4. PICK o : o = Spill(all)
  OBVIOUS
<1>5. o \in 0..Len(all)
  BY <1>3, <1>4, StoreAssumption DEF Spill
<1>6. SubSeq(all, o + 1, Len(all)) \in Seq(Stored)
  BY <1>3, <1>5
<1>7. PICK taken, lost : taken = {new[k].id : k \in DOMAIN new} /\ lost = {all[k].id : k \in 1..o}
  OBVIOUS
<1>8. taken \in SUBSET Nat
  <2>1. \A k \in DOMAIN new : new[k] \in Signals
    BY <1>2
  <2>2. \A k \in DOMAIN new : new[k].id \in Nat
    BY <2>1 DEF Signals
  <2> QED
    BY <1>7, <2>2
<1>9. PICK memory : memory = Restrict(N.memory, DOMAIN N.memory \ taken)
  OBVIOUS
<1>10. memory \in Dicts(Nat, Memories)
  <2>1. N.memory \in Dicts(Nat, Memories) /\ DOMAIN N.memory \ taken \in SUBSET (DOMAIN N.memory)
    BY DEF Stores
  <2> QED
    BY <1>9, <2>1, RestrictIs
<1>20. PICK T : T = SyncCompleted(N, R, A)
  OBVIOUS
<1>11. T = [N EXCEPT !.signals = SubSeq(all, o + 1, Len(all)),
                     !.ids = (N.ids \cup taken) \ lost, !.memory = memory]
  BY <1>1, <1>20, <1>4, <1>7, <1>9 DEF SyncCompleted, Spill, Fresh, Unstored, Grown
<1>12. /\ T \in Stores /\ T.noTrade = N.noTrade
       /\ T.signals = SubSeq(all, o + 1, Len(all))
       /\ T.ids = (N.ids \cup taken) \ lost
  BY <1>6, <1>8, <1>10, <1>11 DEF Stores
<1>13. taken = Taken(N, R) /\ lost = Spilt(all) /\ SubSeq(all, o + 1, Len(all)) = Kept(all)
  BY <1>1, <1>4, <1>7 DEF Taken, Spilt, Kept
<1> QED
  BY <1>20, <1>3, <1>4, <1>12, <1>13

\* Every signal that is stored was stored before, or is one that is judged.
LEMMA StoredIs ==
  ASSUME NEW N \in Stores, NEW R \in Seq(Signals), NEW A \in Seq(AuditsMade),
         Known(R),
         NEW T, T = SyncCompleted(N, R, A), NEW k \in DOMAIN T.signals
  PROVE  \/ \E j \in DOMAIN N.signals : T.signals[k] = N.signals[j]
         \/ \E j \in DOMAIN R : ~Pending(R[j]) /\ T.signals[k] = Persisted(R[j], A, N.memory)
<1>1. PICK F, all : F = Fresh(N, R, A) /\ all = Grown(N, R, A) /\ all = N.signals \o F
  BY DEF Grown
<1>2. all \in Seq(Stored) /\ T.signals = Kept(all)
  <2>1. Grown(N, R, A) \in Seq(Stored) /\ SyncCompleted(N, R, A).signals = Kept(Grown(N, R, A))
    BY SyncIs
  <2> QED
    BY <1>1, <2>1
<1>3. Spill(all) \in 0..Len(all)
  BY <1>2, StoreAssumption DEF Spill
<1>4. PICK i \in 1..Len(all) : T.signals[k] = all[i]
  <2>1. PICK o, n : o = Spill(all) /\ n = Len(all)
    OBVIOUS
  <2>2. T.signals = [x \in 1..(n - (o + 1) + 1) |-> all[x + (o + 1) - 1]]
    BY <1>2, <1>3, <2>1 DEF Kept
  <2>3. k \in 1..(n - (o + 1) + 1) /\ T.signals[k] = all[k + (o + 1) - 1]
    BY <2>2
  <2>4. k + (o + 1) - 1 \in 1..n
    BY <1>2, <1>3, <2>1, <2>3
  <2> QED
    BY <2>1, <2>3, <2>4
<1>5. F \in Seq(Stored) /\ N.signals \in Seq(Stored)
  BY <1>1, FreshIs DEF Stores
<1>6. all[i] = (IF i <= Len(N.signals) THEN N.signals[i] ELSE F[i - Len(N.signals)])
      /\ Len(all) = Len(N.signals) + Len(F)
  BY <1>1, <1>5, ConcatProperties
<1>7. CASE i <= Len(N.signals)
  <2>1. i \in DOMAIN N.signals /\ T.signals[k] = N.signals[i]
    BY <1>4, <1>5, <1>6, <1>7
  <2> QED
    BY <2>1
<1>8. CASE ~(i <= Len(N.signals))
  <2>1. PICK m : m = i - Len(N.signals)
    OBVIOUS
  <2>2. m \in DOMAIN F /\ T.signals[k] = F[m]
    BY <1>4, <1>5, <1>6, <1>8, <2>1
  <2>3. PICK j \in Unstored(N, R) : F[m] = Persisted(R[j], A, N.memory)
    BY <1>1, <2>2, FreshIs
  <2> QED
    BY <2>2, <2>3 DEF Unstored
<1> QED
  BY <1>7, <1>8

\* A stored signal is one that this process has judged.
Recalls(s, r) ==
  /\ ~Pending(r) /\ s.id = r.id /\ s.side = r.side /\ s.entry = r.entry
  /\ s.at = r.at /\ s.done = r.done /\ s.points = r.points

Measured(s) == /\ s.mfe = Max(Gains(s)) /\ s.mae = Min(Gains(s)) /\ s.points \in Gains(s)
HasTwin(s) == \E j \in DOMAIN records : Twin(records[j], s)

StoreInv ==
  /\ store \in Stores /\ began.store \in Stores
  /\ \A k \in DOMAIN store.signals :
       \/ store.signals[k].id \in began.store.ids
       \/ /\ \E j \in DOMAIN records : Recalls(store.signals[k], records[j])
          /\ Measured(store.signals[k]) \/ HasTwin(store.signals[k])

LEMMA GainsAre ==
  ASSUME NEW s
  PROVE  Gains(s) = GainsOf(s.side, s.entry, s.at, s.done)
BY DEF Gains, GainsOf

\* The extremes of an audit are those of the signal.
LEMMA ExtremesAre ==
  ASSUME ClockInv, NEW x, x.side \in Sides, x.entry \in Nat, NEW to, Extremes(x, to),
         NEW G, G = GainsOf(x.side, x.entry, x.at, to)
  PROVE  x.mfe = Max(G) /\ x.mae = Min(G)
<1>1. \A g \in G : g \in Int
  BY GainsAreInts
<1>2. x.mfe \in G /\ x.mae \in G /\ \A g \in G : x.mae <= g /\ g <= x.mfe
  BY DEF Extremes
<1>3. Max(G) \in G /\ \A y \in G : Max(G) >= y
  <2>1. \E g \in G : \A y \in G : g >= y
    BY <1>1, <1>2
  <2> QED
    BY <2>1 DEF Max
<1>4. Min(G) \in G /\ \A y \in G : Min(G) <= y
  <2>1. \E g \in G : \A y \in G : g <= y
    BY <1>2
  <2> QED
    BY <2>1 DEF Min
<1> QED
  BY <1>1, <1>2, <1>3, <1>4

\* The store finds the signal's own audit, or that of a twin.
LEMMA OwnOrTwin ==
  ASSUME ClockInv, RecordsInv, PathsInv, NEW k \in DOMAIN records, ~Pending(records[k]),
         NEW memory, NEW s, s = Persisted(records[k], audits, memory),
         Recalls(s, records[k])
  PROVE  Measured(s) \/ HasTwin(s)
<1>1. PICK r : r = records[k]
  OBVIOUS
<1>2. /\ r \in Signals /\ k \in 1..Len(audits)
      /\ audits \in Seq(AuditsMade) /\ records \in Seq(Signals)
      /\ Len(records) \in Nat /\ Len(audits) \in Nat /\ Len(paths) \in Nat
      /\ Len(records) = Len(audits) + Len(paths) /\ DOMAIN records = 1..Len(records)
      /\ DOMAIN audits = 1..Len(audits)
  <2>1. /\ records \in Seq(Signals) /\ audits \in Seq(AuditsMade) /\ paths \in Seq(OpenPaths)
        /\ Len(records) = Len(audits) + Len(paths)
    BY DEF RecordsInv, PathsInv
  <2>2. k \in 1..Len(records) /\ r \in Signals
    BY <1>1, <2>1
  <2>3. CASE k \notin 1..Len(audits)
    <3>1. PICK i : i = k - Len(audits)
      OBVIOUS
    <3>2. i \in 1..Len(paths) /\ k = Len(audits) + i
      BY <2>1, <2>2, <2>3, <3>1
    <3>3. Pending(records[k])
      BY <3>2 DEF PathsInv
    <3> QED
      BY <3>3
  <2> QED
    BY <2>1, <2>2, <2>3
<1>3. PICK K : K = {j \in DOMAIN audits : Matches(audits[j], r)}
  OBVIOUS
<1>4. Fits(audits[k], r) /\ Extremes(audits[k], r.done)
  BY <1>1, <1>2 DEF PathsInv
<1>5. r.at \in Nat /\ r.entry \in Nat /\ r.side \in Sides /\ Near \in Nat
  BY <1>2, StoreAssumption DEF Signals
<1>6. k \in K
  BY <1>2, <1>3, <1>4, <1>5 DEF Matches, Fits
<1>7. PICK m : m = Min(K)
  OBVIOUS
<1>8. m \in K
  <2>1. K \in SUBSET Nat
    BY <1>2, <1>3
  <2> QED
    BY <1>6, <1>7, <2>1, FirstOf
<1>9. s.mfe = audits[m].mfe /\ s.mae = audits[m].mae
  <2>1. AuditOf(audits, r).mfe = audits[m].mfe /\ AuditOf(audits, r).mae = audits[m].mae
    BY <1>3, <1>6, <1>7 DEF AuditOf
  <2> QED
    BY <1>1, <2>1 DEF Persisted
<1>10. /\ s.id = r.id /\ s.side = r.side /\ s.entry = r.entry /\ s.at = r.at /\ s.done = r.done
       /\ s.points = r.points
  BY <1>1 DEF Recalls
<1>11. CASE m = k
  <2>1. PICK x : x = audits[k]
    OBVIOUS
  <2>2. /\ x.side = r.side /\ x.entry = r.entry /\ x.at = r.at
        /\ x.side \in Sides /\ x.entry \in Nat /\ Extremes(x, r.done)
    BY <1>4, <1>5, <2>1 DEF Fits
  <2>3. Gains(s) = GainsOf(x.side, x.entry, x.at, r.done)
    BY <1>10, <2>2, GainsAre
  <2>4. x.mfe = Max(Gains(s)) /\ x.mae = Min(Gains(s))
    BY <2>2, <2>3, ExtremesAre
  <2>5. s.points \in Gains(s)
    <3>1. Done(r)
      BY <1>1, JudgedIs
    <3> QED
      BY <1>10, <3>1, GainsAre DEF Done
  <2> QED
    BY <1>9, <1>11, <2>1, <2>4, <2>5 DEF Measured
<1>12. CASE m # k
  <2>1. m \in DOMAIN audits /\ Matches(audits[m], r) /\ m \in DOMAIN records
    BY <1>2, <1>3, <1>8
  <2>2. Fits(audits[m], records[m])
    BY <1>2, <2>1 DEF PathsInv
  <2>3. records[m].id # r.id
    BY <1>1, <1>2, <1>12, <2>1 DEF RecordsInv, ClockInv
  <2>4. Twin(records[m], s)
    BY <1>10, <2>1, <2>2, <2>3 DEF Twin, Matches, Fits
  <2> QED
    BY <2>1, <2>4 DEF HasTwin
<1> QED
  BY <1>11, <1>12

\* A judged signal stays as it was judged.
LEMMA JudgedStays ==
  ASSUME ClockInv, RecordsInv, NEW p, NEW side, NEW effect, NEW at,
         Framed(p, side, effect, at), NEW j \in DOMAIN records
  PROVE  /\ j \in DOMAIN records'
         /\ ~Pending(records[j]) => records'[j] = records[j]
         /\ records'[j].id = records[j].id /\ records'[j].side = records[j].side
         /\ records'[j].entry = records[j].entry /\ records'[j].at = records[j].at
<1>1. PICK R, r : R = WithNew(decision', p, at) /\ r = records'[j]
  OBVIOUS
<1>2. R[j] = records[j] /\ j \in DOMAIN R /\ j \in DOMAIN records'
  <2>1. /\ R \in Seq(Signals) /\ Len(R) \in {Len(records), Len(records) + 1}
        /\ \A k \in 1..Len(records) : R[k] = records[k]
        /\ records' = EvaluatePending(R, p, at)
    BY <1>1, WithNewIs
  <2>2. j \in 1..Len(records) /\ Len(records) \in Nat
    BY DEF RecordsInv
  <2>3. j \in DOMAIN R
    BY <2>1, <2>2
  <2> QED
    BY <2>1, <2>2, <2>3 DEF EvaluatePending
<1> QED
  BY <1>1, <1>2, JudgedOnce

LEMMA OwnOrTwinNext ==
  ASSUME NEW k, NEW memory, NEW s
  PROVE  /\ (ClockInv /\ RecordsInv /\ PathsInv)'
         /\ (k \in DOMAIN records /\ ~Pending(records[k]))'
         /\ (s = Persisted(records[k], audits, memory) /\ Recalls(s, records[k]))'
         => (Measured(s) \/ HasTwin(s))'
<1>1. /\ ClockInv /\ RecordsInv /\ PathsInv
      /\ k \in DOMAIN records /\ ~Pending(records[k])
      /\ s = Persisted(records[k], audits, memory) /\ Recalls(s, records[k])
      => Measured(s) \/ HasTwin(s)
  BY OwnOrTwin
<1> QED
  BY <1>1, PTL

LEMMA StoreFrame ==
  ASSUME ClockInv, RecordsInv, PathsInv, StoreInv, NEW p, NEW side, NEW effect, NEW at,
         Framed(p, side, effect, at)
  PROVE  StoreInv'
<1>1. ClockInv' /\ RecordsInv' /\ PathsInv' /\ began' = began
  BY ClockFrame, RecordsFrame, PathsFrame, FrameIs
<1>2. PICK N : N = Noted(decision', effect, at)
  OBVIOUS
<1>3. N \in Stores /\ N.signals = store.signals
  <2>1. effect \in Memories /\ at \in Nat /\ opened \in Nat /\ store \in Stores
    BY DEF Framed, ClockInv, StoreInv
  <2> QED
    BY <1>2, <2>1, NotedIs
<1>4. PICK R, A, T : R = records' /\ A = audits' /\ T = SyncCompleted(N, R, A)
  OBVIOUS
<1>5. store' = T
  BY <1>2, <1>4, FrameIs
<1>6. R \in Seq(Signals) /\ A \in Seq(AuditsMade) /\ Known(R)
  <2>1. R \in Seq(Signals) /\ A \in Seq(AuditsMade)
    BY <1>1, <1>4 DEF RecordsInv, PathsInv
  <2>2. ASSUME NEW k \in DOMAIN R, ~Pending(R[k])
        PROVE  R[k].done \in Nat /\ R[k].points \in Int
    <3>1. (k \in DOMAIN records /\ ~Pending(records[k]))'
      BY <1>4, <2>2
    <3>2. (RecordsInv /\ ClockInv)' /\ (k \in DOMAIN records /\ ~Pending(records[k]))'
          => (records[k].done \in Nat /\ records[k].points \in Int)'
      BY DEF RecordsInv, Pending
    <3> QED
      BY <1>1, <1>4, <3>1, <3>2
  <2> QED
    BY <2>1, <2>2 DEF Known
<1>7. T \in Stores
  BY <1>4, <1>6, <1>3, SyncIs
<1>8. ASSUME NEW k \in DOMAIN T.signals
      PROVE  \/ T.signals[k].id \in began.store.ids
             \/ /\ \E j \in DOMAIN R : Recalls(T.signals[k], R[j])
                /\ (Measured(T.signals[k]) \/ HasTwin(T.signals[k]))'
  <2>1. PICK s : s = T.signals[k]
    OBVIOUS
  <2>2. CASE \E j \in DOMAIN store.signals : s = store.signals[j]
    <3>1. CASE s.id \in began.store.ids
      BY <2>1, <3>1
    <3>2. CASE s.id \notin began.store.ids
      <4>1. PICK j \in DOMAIN records : Recalls(s, records[j])
        BY <2>2, <3>2 DEF StoreInv
      <4>2. Measured(s) \/ HasTwin(s)
        BY <2>2, <3>2 DEF StoreInv
      <4>3. j \in DOMAIN R /\ R[j] = records[j]
        BY <1>4, <4>1, JudgedStays DEF Recalls
      <4>4. ASSUME Measured(s)
            PROVE  Measured(s)'
        <5>1. s.at \in Nat /\ s.done \in Nat /\ s.done <= now
          <6>1. Done(records[j]) /\ records[j].done <= now /\ records[j] \in Signals
            BY <4>1, JudgedIs DEF Recalls, RecordsInv
          <6> QED
            BY <4>1, <6>1 DEF Recalls, Done, Signals
        <5>2. GainsOf(s.side, s.entry, s.at, s.done)' = GainsOf(s.side, s.entry, s.at, s.done)
          BY <5>1, GainsStay
        <5>3. Gains(s)' = Gains(s)
          BY <5>2 DEF Gains, GainsOf
        <5> QED
          BY <4>4, <5>3 DEF Measured
      <4>5. ASSUME HasTwin(s)
            PROVE  HasTwin(s)'
        <5>1. PICK i \in DOMAIN records : Twin(records[i], s)
          BY <4>5 DEF HasTwin
        <5>2. i \in DOMAIN records' /\ Twin(records'[i], s)
          BY <5>1, JudgedStays DEF Twin
        <5> QED
          BY <5>2 DEF HasTwin, Twin
      <4>6. (Measured(s) \/ HasTwin(s))'
        BY <4>2, <4>4, <4>5
      <4> QED
        BY <2>1, <4>1, <4>3, <4>6
    <3> QED
      BY <3>1, <3>2
  <2>3. CASE \E j \in DOMAIN R : ~Pending(R[j]) /\ s = Persisted(R[j], A, N.memory)
    <3>1. PICK j \in DOMAIN R : ~Pending(R[j]) /\ s = Persisted(R[j], A, N.memory)
      BY <2>3
    <3>2. Recalls(s, R[j])
      <4>1. R[j] \in Signals /\ R[j].done \in Nat /\ R[j].points \in Int
        BY <1>6, <3>1 DEF Known
      <4>2. N.memory \in Dicts(Nat, Memories)
        BY <1>3 DEF Stores
      <4> QED
        BY <1>6, <3>1, <4>1, <4>2, PersistedIs DEF Recalls
    <3>3. PICK memory : memory = N.memory
      OBVIOUS
    <3>4. /\ (ClockInv /\ RecordsInv /\ PathsInv)'
          /\ (j \in DOMAIN records /\ ~Pending(records[j]))'
          /\ (s = Persisted(records[j], audits, memory) /\ Recalls(s, records[j]))'
      BY <1>1, <1>4, <3>1, <3>2, <3>3
    <3>6. (Measured(s) \/ HasTwin(s))'
      BY <3>4, OwnOrTwinNext
    <3> QED
      BY <2>1, <3>1, <3>2, <3>6
  <2>4. \/ \E j \in DOMAIN store.signals : s = store.signals[j]
        \/ \E j \in DOMAIN R : ~Pending(R[j]) /\ s = Persisted(R[j], A, N.memory)
    BY <1>3, <1>4, <1>6, <2>1, StoredIs
  <2> QED
    BY <2>2, <2>3, <2>4
<1> QED
  BY <1>1, <1>4, <1>5, <1>7, <1>8 DEF StoreInv

LEMMA StoreRestart == ASSUME StoreInv, Restart PROVE StoreInv'
<1>1. PICK S : S = LoadedStore(store)
  OBVIOUS
<1>2. store' = S /\ began'.store = S
  BY <1>1, RestartIs
<1>3. S = [store EXCEPT !.ids = {store.signals[k].id : k \in DOMAIN store.signals}]
  BY <1>1 DEF LoadedStore
<1>4. S \in Stores /\ S.signals = store.signals
      /\ \A k \in DOMAIN S.signals : S.signals[k].id \in S.ids
  <2>1. store.signals \in Seq(Stored)
    BY DEF StoreInv, Stores
  <2>2. PICK ids : ids = {store.signals[k].id : k \in DOMAIN store.signals}
    OBVIOUS
  <2>3. \A k \in DOMAIN store.signals : store.signals[k].id \in Nat
    <3>1. \A k \in DOMAIN store.signals : store.signals[k] \in Stored
      BY <2>1
    <3> QED
      BY <3>1 DEF Stored
  <2>4. ids \in SUBSET Nat
    BY <2>2, <2>3
  <2>5. S = [store EXCEPT !.ids = ids] /\ store \in Stores
    BY <1>3, <2>2 DEF StoreInv
  <2>6. S \in Stores /\ S.signals = store.signals /\ S.ids = ids
    BY <2>4, <2>5 DEF Stores
  <2> QED
    BY <2>2, <2>6
<1> QED
  BY <1>2, <1>4 DEF StoreInv

LEMMA StoreSame ==
  ASSUME StoreInv, store' = store, began' = began, records' = records, seen' = seen
  PROVE  StoreInv'
BY DEF StoreInv, Measured, HasTwin, Gains, Twin

LEMMA StoreDies == ASSUME StoreInv, Dies PROVE StoreInv'
BY StoreSame DEF Dies

MeasuredInv == ClockInv /\ RecordsInv /\ PathsInv /\ StoreInv

LEMMA MeasuredInit == AInit => MeasuredInv
<1> SUFFICES ASSUME AInit PROVE MeasuredInv
  OBVIOUS
<1>1. ClockInv
  BY ClockInit
<1>2. /\ records = << >> /\ paths = << >> /\ audits = << >> /\ store = NoStore
      /\ began.store = NoStore /\ opened = 0
  BY DEF AInit, Started
<1>3. NoStore \in Stores /\ NoStore.signals = << >>
  <2>1. \A X, V : << >> \in Dicts(X, V)
    <3>1. ASSUME NEW X, NEW V
          PROVE  << >> \in Dicts(X, V)
      <4>1. << >> \in [{} -> V] /\ {} \in SUBSET X
        OBVIOUS
      <4> QED
        BY <4>1 DEF Dicts
    <3> QED
      BY <3>1
  <2> QED
    BY <2>1 DEF NoStore, Stores
<1>4. RecordsInv /\ PathsInv
  BY <1>2 DEF RecordsInv, PathsInv
<1>5. StoreInv
  BY <1>2, <1>3 DEF StoreInv
<1> QED
  BY <1>1, <1>4, <1>5 DEF MeasuredInv

LEMMA MeasuredNext == MeasuredInv /\ [ANext]_avars => MeasuredInv'
<1> SUFFICES ASSUME MeasuredInv, [ANext]_avars PROVE MeasuredInv'
  OBVIOUS
<1>1. ClockInv /\ RecordsInv /\ PathsInv /\ StoreInv
  BY DEF MeasuredInv
<1>2. ASSUME NEW p, NEW side, NEW effect, NEW at, Framed(p, side, effect, at)
      PROVE  MeasuredInv'
  BY <1>1, <1>2, ClockFrame, RecordsFrame, PathsFrame, StoreFrame DEF MeasuredInv
<1>3. CASE Dies
  BY <1>1, <1>3, ClockDies, RecordsDies, PathsDies, StoreDies DEF MeasuredInv
<1>4. CASE Restart
  BY <1>1, <1>4, ClockRestart, RecordsRestart, PathsRestart, StoreRestart DEF MeasuredInv
<1>5. CASE UNCHANGED avars
  <2>1. ClockInv'
    BY <1>1, <1>5 DEF avars, ClockInv, DecisionAfter
  <2>2. RecordsInv'
    BY <1>1, <1>5 DEF avars, RecordsInv, GainsOf
  <2>3. PathsInv'
    BY <1>1, <1>5 DEF avars, PathsInv, Extremes, GainsOf
  <2>4. StoreInv'
    BY <1>1, <1>5, StoreSame DEF avars
  <2> QED
    BY <2>1, <2>2, <2>3, <2>4 DEF MeasuredInv
<1> QED
  BY <1>1, <1>2, <1>3, <1>4, <1>5, NextIs

\* Every signal that a process finishes is stored with the best and the worst it met
\* between its entry and its exit, for all prices, delays, checkpoints and restarts:
\* sync_completed takes the audit that _match_mfe_mae finds by side, price and time,
\* and it is the signal's own unless a twin of the signal was open beside it.
THEOREM SignalsAreMeasuredHolds == ASpec => []SignalsAreMeasured
<1>1. MeasuredInv => SignalsAreMeasured
  BY DEF MeasuredInv, StoreInv, SignalsAreMeasured, Measured, HasTwin
<1> QED
  BY <1>1, MeasuredInit, MeasuredNext, PTL DEF ASpec
-----------------------------------------------------------------------------
(* The inductive invariant: the plans and the lock.                        *)

Locks == [opened : Nat \cup {None}, blockedAt : Nat \cup {None}, buys : Nat, sells : Nat,
          closedFor : Seq(Nat)]

HistoriesInv ==
  histories \in [prices : Seq(Nat), moves : Seq(Int)] /\ price \in Nat \cup {None}

\* An open plan has the price strictly between its levels.
Inside(plan, p) == Standing(plan, p).toStop > 0 /\ Standing(plan, p).toTarget > 0

Open(plan) == plan.result = "NONE"

\* Only the newest plan is open, and the lock knows it.
PlansInv ==
  /\ plans \in Seq(Plans)
  /\ \A k \in 1..Len(plans) : Open(plans[k]) => k = Len(plans)
  /\ \A k \in 1..Len(plans) : plans[k].at <= now /\ plans[k].closed <= now
  /\ seen # << >> => \A k \in 1..Len(plans) : Open(plans[k]) => Inside(plans[k], price)
  /\ lock \in Locks
  /\ lock.opened = IF plans # << >> /\ Open(plans[Len(plans)]) THEN plans[Len(plans)].at
                   ELSE None

LEMMA NoneFolds ==
  ASSUME NEW l, NEW s, DOMAIN s = {}
  PROVE  FoldLeft(OnPlanClosed, l, s) = l /\ FoldLeft(OnPlanActivated, l, s) = l
<1>1. FoldLeft(OnPlanClosed, l, s) = l
  <2> DEFINE Eq(it) == it = [S \in SUBSET {} |->
                               IF S = {} THEN l
                               ELSE OnPlanClosed(it[S \ {Max(S)}], s[Max(S)])]
             g == [S \in SUBSET {} |-> l]
  <2>1. FoldLeft(OnPlanClosed, l, s) = (CHOOSE it : Eq(it))[{}]
    BY DEF FoldLeft, MapThenFoldSet
  <2>2. Eq(g)
    OBVIOUS
  <2> HIDE DEF g
  <2>3. PICK it : Eq(it) /\ FoldLeft(OnPlanClosed, l, s) = it[{}]
    <3> HIDE DEF Eq
    <3> QED
      BY <2>1, <2>2
  <2> QED
    BY <2>3
<1>2. FoldLeft(OnPlanActivated, l, s) = l
  <2> DEFINE Eq(it) == it = [S \in SUBSET {} |->
                               IF S = {} THEN l
                               ELSE OnPlanActivated(it[S \ {Max(S)}], s[Max(S)])]
             g == [S \in SUBSET {} |-> l]
  <2>1. FoldLeft(OnPlanActivated, l, s) = (CHOOSE it : Eq(it))[{}]
    BY DEF FoldLeft, MapThenFoldSet
  <2>2. Eq(g)
    OBVIOUS
  <2> HIDE DEF g
  <2>3. PICK it : Eq(it) /\ FoldLeft(OnPlanActivated, l, s) = it[{}]
    <3> HIDE DEF Eq
    <3> QED
      BY <2>1, <2>2
  <2> QED
    BY <2>3
<1> QED
  BY <1>1, <1>2

LEMMA OneOf == \A S \in SUBSET {1} : S = {} \/ S = {1}
OBVIOUS

LEMMA MaxOne == Max({1}) = 1
<1>1. {1} \in SUBSET (1..1) /\ 1 \in Nat
  OBVIOUS
<1> QED
  BY <1>1, MaxOut

LEMMA OneFolds ==
  ASSUME NEW l, NEW s, DOMAIN s = {1}
  PROVE  /\ FoldLeft(OnPlanClosed, l, s) = OnPlanClosed(l, s[1])
         /\ FoldLeft(OnPlanActivated, l, s) = OnPlanActivated(l, s[1])
<1>1. FoldLeft(OnPlanClosed, l, s) = OnPlanClosed(l, s[1])
  <2> DEFINE Eq(it) == it = [S \in SUBSET {1} |->
                               IF S = {} THEN l
                               ELSE OnPlanClosed(it[S \ {Max(S)}], s[Max(S)])]
             g == [S \in SUBSET {1} |-> IF S = {} THEN l ELSE OnPlanClosed(l, s[1])]
  <2>1. FoldLeft(OnPlanClosed, l, s) = (CHOOSE it : Eq(it))[{1}]
    BY DEF FoldLeft, MapThenFoldSet
  <2>2. {1} \ {1} = {} /\ {} \in SUBSET {1} /\ {1} \in SUBSET {1} /\ {1} # {}
    OBVIOUS
  <2>3. g[{}] = l /\ g[{1}] = OnPlanClosed(l, s[1])
    BY <2>2
  <2>4. \A S \in SUBSET {1} : g[S] = IF S = {} THEN l
                              ELSE OnPlanClosed(g[S \ {Max(S)}], s[Max(S)])
    <3> SUFFICES ASSUME NEW S \in SUBSET {1}
                 PROVE  g[S] = IF S = {} THEN l
                               ELSE OnPlanClosed(g[S \ {Max(S)}], s[Max(S)])
      OBVIOUS
    <3> HIDE DEF g
    <3>1. CASE S = {}
      BY <2>3, <3>1
    <3>2. CASE S = {1}
      <4>1. S \ {Max(S)} = {} /\ Max(S) = 1
        BY <3>2, MaxOne
      <4> QED
        BY <2>2, <2>3, <3>2, <4>1
    <3> QED
      BY <3>1, <3>2, OneOf
  <2>5. Eq(g)
    BY <2>4
  <2> HIDE DEF g
  <2>6. PICK it : Eq(it) /\ FoldLeft(OnPlanClosed, l, s) = it[{1}]
    <3> HIDE DEF Eq
    <3> QED
      BY <2>1, <2>5
  <2>7. it[{1}] = OnPlanClosed(it[{1} \ {Max({1})}], s[Max({1})])
    BY <2>2, <2>6
  <2>8. it[{}] = l
    BY <2>2, <2>6
  <2> HIDE DEF Eq
  <2> QED
    BY <2>2, <2>6, <2>7, <2>8, MaxOne
<1>2. FoldLeft(OnPlanActivated, l, s) = OnPlanActivated(l, s[1])
  <2> DEFINE Eq(it) == it = [S \in SUBSET {1} |->
                               IF S = {} THEN l
                               ELSE OnPlanActivated(it[S \ {Max(S)}], s[Max(S)])]
             g == [S \in SUBSET {1} |-> IF S = {} THEN l ELSE OnPlanActivated(l, s[1])]
  <2>1. FoldLeft(OnPlanActivated, l, s) = (CHOOSE it : Eq(it))[{1}]
    BY DEF FoldLeft, MapThenFoldSet
  <2>2. {1} \ {1} = {} /\ {} \in SUBSET {1} /\ {1} \in SUBSET {1} /\ {1} # {}
    OBVIOUS
  <2>3. g[{}] = l /\ g[{1}] = OnPlanActivated(l, s[1])
    BY <2>2
  <2>4. \A S \in SUBSET {1} : g[S] = IF S = {} THEN l
                              ELSE OnPlanActivated(g[S \ {Max(S)}], s[Max(S)])
    <3> SUFFICES ASSUME NEW S \in SUBSET {1}
                 PROVE  g[S] = IF S = {} THEN l
                               ELSE OnPlanActivated(g[S \ {Max(S)}], s[Max(S)])
      OBVIOUS
    <3> HIDE DEF g
    <3>1. CASE S = {}
      BY <2>3, <3>1
    <3>2. CASE S = {1}
      <4>1. S \ {Max(S)} = {} /\ Max(S) = 1
        BY <3>2, MaxOne
      <4> QED
        BY <2>2, <2>3, <3>2, <4>1
    <3> QED
      BY <3>1, <3>2, OneOf
  <2>5. Eq(g)
    BY <2>4
  <2> HIDE DEF g
  <2>6. PICK it : Eq(it) /\ FoldLeft(OnPlanActivated, l, s) = it[{1}]
    <3> HIDE DEF Eq
    <3> QED
      BY <2>1, <2>5
  <2>7. it[{1}] = OnPlanActivated(it[{1} \ {Max({1})}], s[Max({1})])
    BY <2>2, <2>6
  <2>8. it[{}] = l
    BY <2>2, <2>6
  <2> HIDE DEF Eq
  <2> QED
    BY <2>2, <2>6, <2>7, <2>8, MaxOne
<1> QED
  BY <1>1, <1>2
\* A nonempty sequence of prices has a lowest and a highest.
LEMMA SeenIs ==
  ASSUME NEW h \in Seq(Nat), h # << >>
  PROVE  /\ Seen(h) \in SUBSET Nat /\ Seen(h) # {}
         /\ LowestOf(Seen(h)) \in Seen(h) /\ HighestOf(Seen(h)) \in Seen(h)
<1>1. Len(h) \in Nat \ {0} /\ DOMAIN h = 1..Len(h)
  OBVIOUS
<1>2. Seen(h) \in SUBSET Nat /\ Seen(h) # {}
  BY <1>1 DEF Seen
<1>3. LowestOf(Seen(h)) \in Seen(h)
  <2>1. PICK S \in SUBSET Nat : S = Seen(h) /\ S # {}
    BY <1>2
  <2>2. \E d \in S : \A e \in S : d <= e
    BY <2>1, LeastExists
  <2>3. LowestOf(S) \in S
    BY <2>2 DEF LowestOf
  <2> QED
    BY <2>1, <2>3
<1>4. HighestOf(Seen(h)) \in Seen(h)
  <2> DEFINE Top(k) == \E m \in 1..k : \A j \in 1..k : h[j] <= h[m]
             G == {k \in 0..Len(h) : k = 0 \/ Top(k)}
  <2>1. 0 \in G
    OBVIOUS
  <2>2. ASSUME NEW k \in 1..Len(h), k - 1 \in G
        PROVE  k \in G
    <3>1. CASE k = 1
      <4>1. h[1] \in Nat
        BY <1>1
      <4>2. \A j \in 1..1 : h[j] <= h[1]
        BY <4>1
      <4> QED
        BY <3>1, <4>2
    <3>2. CASE k # 1
      <4>1. PICK m \in 1..(k - 1) : \A j \in 1..(k - 1) : h[j] <= h[m]
        BY <2>2, <3>2
      <4>2. h[m] \in Nat /\ h[k] \in Nat /\ \A j \in 1..k : h[j] \in Nat
        BY <1>1
      <4>3. CASE h[k] <= h[m]
        <5>1. m \in 1..k /\ \A j \in 1..k : h[j] <= h[m]
          BY <4>1, <4>2, <4>3
        <5>2. Top(k)
          BY <5>1
        <5> QED
          BY <5>2
      <4>4. CASE h[m] <= h[k]
        <5>1. \A j \in 1..k : j = k \/ j \in 1..(k - 1)
          OBVIOUS
        <5>2. k \in 1..k /\ \A j \in 1..k : h[j] <= h[k]
          BY <4>1, <4>2, <4>4, <5>1
        <5>3. Top(k)
          BY <5>2
        <5> QED
          BY <5>3
      <4>5. h[k] <= h[m] \/ h[m] <= h[k]
        BY <4>2
      <4> HIDE DEF G
      <4> QED
        BY <4>3, <4>4, <4>5
    <3> QED
      BY <3>1, <3>2
  <2>3. \A k \in 0..Len(h) : k \in G
    <3> HIDE DEF G
    <3> QED
      BY <1>1, <2>1, <2>2, Climbs
  <2>4. PICK m \in 1..Len(h) : \A j \in 1..Len(h) : h[j] <= h[m]
    <3>1. Len(h) \in G /\ Len(h) # 0
      <4> HIDE DEF G
      <4> QED
        BY <1>1, <2>3
    <3>2. Top(Len(h))
      BY <3>1
    <3> QED
      BY <3>2
  <2>5. h[m] \in Seen(h) /\ \A q \in Seen(h) : h[m] >= q
    BY <1>1, <2>4 DEF Seen
  <2> QED
    BY <2>5 DEF HighestOf
<1> QED
  BY <1>2, <1>3, <1>4

\* The walk back ends at a price.
LEMMA WalkIs ==
  ASSUME NEW side, NEW moves \in Seq(Int), NEW n \in Nat \ {0}
  PROVE  WalkedTo(side, moves, n) \in 1..n
<1> DEFINE A == {k \in DOMAIN moves : Against(side, moves[k])}
<1>1. CASE A = {}
  BY <1>1 DEF WalkedTo
<1>2. CASE A # {}
  <2>1. Len(moves) \in Nat /\ A \in SUBSET (0..Len(moves)) /\ A \in SUBSET (1..Len(moves))
    OBVIOUS
  <2>2. HighestOf(A) = Max(A)
    BY DEF HighestOf, Max
  <2> HIDE DEF A
  <2>3. PICK m : m = HighestOf(A)
    OBVIOUS
  <2>4. m \in A
    BY <1>2, <2>1, <2>2, <2>3, LargestOf
  <2>5. m \in 1..Len(moves)
    BY <2>1, <2>4
  <2> QED
    BY <1>2, <2>3, <2>5 DEF WalkedTo, A
<1> QED
  BY <1>1, <1>2

LEMMA OriginIs ==
  ASSUME NEW side, NEW prices \in Seq(Nat), NEW moves \in Seq(Int)
  PROVE  LET origin == OriginPrices(side, prices, moves)
         IN  \/ origin = {}
             \/ LowestOf(origin) \in Nat /\ HighestOf(origin) \in Nat
<1>1. CASE prices = << >>
  BY <1>1 DEF OriginPrices, Seen
<1>2. CASE prices # << >>
  <2>1. PICK n, w : n = Len(prices) /\ w = WalkedTo(side, moves, n)
    OBVIOUS
  <2>2. n \in Nat \ {0} /\ w \in 1..n
    BY <1>2, <2>1, WalkIs
  <2>3. PICK h : h = SubSeq(prices, w, n)
    OBVIOUS
  <2>4. h \in Seq(Nat) /\ h # << >>
    <3>1. \A i \in w..n : prices[i] \in Nat
      BY <2>1, <2>2
    <3>2. w \in Int /\ n \in Int /\ w <= n /\ n - w + 1 # 0
      BY <2>2
    <3>3. SubSeq(prices, w, n) \in Seq(Nat) /\ Len(SubSeq(prices, w, n)) = n - w + 1
      BY <3>1, <3>2, SubSeqProperties
    <3> QED
      BY <2>3, <3>2, <3>3
  <2>5. OriginPrices(side, prices, moves) = Seen(prices)
        \/ OriginPrices(side, prices, moves) = Seen(h)
    BY <2>1, <2>3 DEF OriginPrices
  <2> QED
    BY <1>2, <2>4, <2>5, SeenIs
<1> QED
  BY <1>1, <1>2

\* A stop is on the losing side of the entry.
LEMMA StopIs ==
  ASSUME NEW prices \in Seq(Nat), NEW moves \in Seq(Int), NEW entry \in Nat
  PROVE  /\ BuyStop(prices, moves, entry) \in Int /\ BuyStop(prices, moves, entry) < entry
         /\ SellStop(prices, moves, entry) \in Int /\ SellStop(prices, moves, entry) > entry
<1>1. MinStop \in Nat \ {0}
  BY PlanAssumption
<1>2. BuyStop(prices, moves, entry) \in Int /\ BuyStop(prices, moves, entry) < entry
  <2>1. PICK o : o = OriginPrices("BUY", prices, moves)
    OBVIOUS
  <2>2. o = {} \/ LowestOf(o) \in Nat
    BY <2>1, OriginIs
  <2>3. prices # << >> => LowestOf(Seen(prices)) \in Nat
    BY SeenIs
  <2> QED
    BY <1>1, <2>1, <2>2, <2>3 DEF BuyStop
<1>3. SellStop(prices, moves, entry) \in Int /\ SellStop(prices, moves, entry) > entry
  <2>1. PICK o : o = OriginPrices("SELL", prices, moves)
    OBVIOUS
  <2>2. o = {} \/ HighestOf(o) \in Nat
    BY <2>1, OriginIs
  <2>3. prices # << >> => HighestOf(Seen(prices)) \in Nat
    BY SeenIs
  <2> QED
    BY <1>1, <2>1, <2>2, <2>3 DEF SellStop
<1> QED
  BY <1>2, <1>3

LEMMA Scaled == \A r \in Nat \ {0}, x \in Int :
                  r * x \in Int /\ (x > 0 => r * x > 0) /\ (x < 0 => r * x < 0)
OBVIOUS

\* A new plan is open, and its entry is strictly between its levels.
LEMMA PlanForIs ==
  ASSUME NEW side \in Sides, NEW prices \in Seq(Nat), NEW moves \in Seq(Int),
         NEW entry \in Nat, NEW at \in Nat
  PROVE  LET plan == PlanFor(side, prices, moves, entry, at)
         IN  /\ plan \in Plans /\ Open(plan) /\ plan.at = at /\ plan.closed = 0
             /\ Inside(plan, entry)
<1>1. PICK stop : stop = IF side = "BUY" THEN BuyStop(prices, moves, entry)
                         ELSE SellStop(prices, moves, entry)
  OBVIOUS
<1>2. stop \in Int /\ IF side = "BUY" THEN stop < entry ELSE stop > entry
  BY <1>1, StopIs
<1>3. PICK x, g : x = entry - stop /\ g = RewardRatio * x
  OBVIOUS
<1>4. g \in Int /\ (x > 0 => g > 0) /\ (x < 0 => g < 0) /\ x \in Int
  BY <1>2, <1>3, PlanAssumption, Scaled
<1>5. PICK plan : plan = PlanFor(side, prices, moves, entry, at)
  OBVIOUS
<1>6. plan = [side |-> side, entry |-> entry, stop |-> stop, target |-> entry + g, at |-> at,
              result |-> "NONE", points |-> 0, closed |-> 0]
  BY <1>1, <1>3, <1>5 DEF PlanFor
<1>7. plan \in Plans /\ Open(plan) /\ plan.at = at /\ plan.closed = 0
  BY <1>2, <1>4, <1>6 DEF Plans, Open, Sides
<1>8. Inside(plan, entry)
  BY <1>2, <1>3, <1>4, <1>6 DEF Inside, Standing, Sides
<1> QED
  BY <1>5, <1>7, <1>8

\* A price closes an open plan, or is strictly between its levels.
LEMMA ClosedAtIs ==
  ASSUME NEW plan \in Plans, Open(plan), NEW p \in Nat, NEW at \in Nat
  PROVE  LET after == ClosedAt(plan, p, at)
         IN  /\ after \in Plans /\ after.at = plan.at
             /\ IF Open(after) THEN after = plan /\ Inside(plan, p)
                ELSE after.closed = at
<1>1. PICK after, result : after = ClosedAt(plan, p, at) /\ result = ExitAt(plan, p)
  OBVIOUS
<1>2. PICK points : points = IF result = "WIN" THEN RewardRatio * Risk(plan) ELSE -Risk(plan)
  OBVIOUS
<1>3. points \in Int
  BY <1>2, PlanAssumption, Scaled DEF Risk, Plans
<1>4. result \in {"NONE", "WIN", "LOSS"}
  BY <1>1 DEF ExitAt
<1>5. after = IF result = "NONE" THEN plan
              ELSE [plan EXCEPT !.result = result, !.closed = at, !.points = points]
  BY <1>1, <1>2 DEF ClosedAt
<1>6. after \in Plans /\ after.at = plan.at /\ (result # "NONE" => after.closed = at)
      /\ after.result = result
  BY <1>3, <1>4, <1>5 DEF Plans, Open
<1>7. result = "NONE" => Inside(plan, p)
  BY <1>1 DEF ExitAt, Inside, Standing, Plans, Sides
<1> QED
  BY <1>1, <1>5, <1>6, <1>7 DEF Open
LEMMA HistoriesStep ==
  ASSUME HistoriesInv, NEW p \in Nat, histories' = RecordPrice(RecordPrice(histories, p), p),
         price' = p
  PROVE  HistoriesInv'
<1>1. HistorySize \in Nat \ {0, 1}
  BY PlanAssumption
<1>2. ASSUME NEW T, NEW h \in Seq(T), NEW x \in T
      PROVE  Remembered(h, x) \in Seq(T)
  <2>1. PICK all : all = Append(h, x)
    OBVIOUS
  <2>2. all \in Seq(T) /\ all # << >>
    BY <2>1
  <2>3. Tail(all) \in Seq(T)
    BY <2>2
  <2> QED
    BY <2>1, <2>2, <2>3 DEF Remembered
<1>3. ASSUME NEW h \in [prices : Seq(Nat), moves : Seq(Int)]
      PROVE  RecordPrice(h, p) \in [prices : Seq(Nat), moves : Seq(Int)]
  <2>1. h.prices \in Seq(Nat) /\ h.moves \in Seq(Int)
    OBVIOUS
  <2>2. Remembered(h.prices, p) \in Seq(Nat)
    BY <1>2, <2>1
  <2>3. price # None => Remembered(h.moves, p - price) \in Seq(Int)
    <3>1. SUFFICES ASSUME price # None
                   PROVE  Remembered(h.moves, p - price) \in Seq(Int)
      OBVIOUS
    <3>2. PICK v \in Int : v = p - price
      BY <3>1 DEF HistoriesInv
    <3>3. Remembered(h.moves, v) \in Seq(Int)
      BY <1>2, <2>1
    <3> QED
      BY <3>2, <3>3
  <2> QED
    BY <2>1, <2>2, <2>3 DEF RecordPrice
<1>4. RecordPrice(histories, p) \in [prices : Seq(Nat), moves : Seq(Int)]
  BY <1>3 DEF HistoriesInv
<1>5. PICK h : h = RecordPrice(histories, p)
  OBVIOUS
<1>6. RecordPrice(h, p) \in [prices : Seq(Nat), moves : Seq(Int)]
  BY <1>3, <1>4, <1>5
<1> QED
  BY <1>5, <1>6 DEF HistoriesInv

\* The plans when the tick has closed what its price closes, and the lock that is told.
After(p, at) ==
  [k \in DOMAIN plans |-> IF k \in Active THEN ClosedAt(plans[k], p, at) ELSE plans[k]]
Ended(p, at) == {k \in Active : After(p, at)[k].result # "NONE"}
Released(p, at) == FoldLeft(OnPlanClosed, lock, Where(After(p, at), Ended(p, at)))

Changed(was, is, p, at) ==
  /\ is \in Seq(Plans) /\ Len(is) = Len(was)
  /\ \A k \in 1..Len(was) :
       /\ is[k].at = was[k].at /\ is[k].closed <= at
       /\ ~Open(was[k]) => is[k] = was[k]
       /\ Open(is[k]) => Open(was[k]) /\ is[k] = was[k] /\ Inside(is[k], p)
       /\ Open(was[k]) /\ ~Open(is[k]) => is[k].closed = at

LEMMA AfterIs ==
  ASSUME PlansInv, now \in Nat, NEW p \in Nat, NEW at \in Nat, at > now
  PROVE  Changed(plans, After(p, at), p, at)
<1>1. plans \in Seq(Plans) /\ Len(plans) \in Nat /\ DOMAIN plans = 1..Len(plans)
  BY DEF PlansInv
<1>2. ASSUME NEW k \in 1..Len(plans)
      PROVE  /\ After(p, at)[k] \in Plans /\ After(p, at)[k].at = plans[k].at
             /\ After(p, at)[k].closed <= at
             /\ ~Open(plans[k]) => After(p, at)[k] = plans[k]
             /\ Open(After(p, at)[k]) =>
                  /\ Open(plans[k]) /\ After(p, at)[k] = plans[k]
                  /\ Inside(After(p, at)[k], p)
             /\ Open(plans[k]) /\ ~Open(After(p, at)[k]) => After(p, at)[k].closed = at
  <2>1. PICK plan, is : plan = plans[k] /\ is = After(p, at)[k]
    OBVIOUS
  <2>2. is = IF Open(plan) THEN ClosedAt(plan, p, at) ELSE plan
    BY <1>1, <2>1 DEF After, Active, Open
  <2>3. plan \in Plans /\ plan.closed \in Nat /\ plan.closed <= at
    <3>1. plan \in Plans
      BY <1>1, <2>1
    <3>2. plan.closed <= now
      BY <2>1 DEF PlansInv
    <3> QED
      BY <3>1, <3>2 DEF Plans
  <2>4. CASE Open(plan)
    BY <2>1, <2>2, <2>3, <2>4, ClosedAtIs
  <2>5. CASE ~Open(plan)
    BY <2>1, <2>2, <2>3, <2>5
  <2> QED
    BY <2>4, <2>5
<1>3. After(p, at) \in Seq(Plans) /\ Len(After(p, at)) = Len(plans)
  <2>1. PICK a : a = After(p, at)
    OBVIOUS
  <2>2. a = [k \in 1..Len(plans) |-> a[k]]
    BY <1>1, <2>1 DEF After
  <2>3. \A k \in 1..Len(plans) : a[k] \in Plans
    BY <1>2, <2>1
  <2> QED
    BY <1>1, <2>1, <2>2, <2>3
<1> QED
  BY <1>2, <1>3 DEF Changed

LEMMA ReleasedIs ==
  ASSUME PlansInv, now \in Nat, NEW p \in Nat, NEW at \in Nat, at > now
  PROVE  IF plans # << >> /\ Open(plans[Len(plans)]) /\ ~Open(After(p, at)[Len(plans)])
         THEN Released(p, at) = OnPlanClosed(lock, After(p, at)[Len(plans)])
         ELSE Released(p, at) = lock
<1>1. PICK a, n, E : a = After(p, at) /\ n = Len(plans) /\ E = Ended(p, at)
  OBVIOUS
<1>2. n \in Nat /\ DOMAIN plans = 1..n /\ \A k \in 1..n : Open(plans[k]) => k = n
  BY <1>1 DEF PlansInv
<1>3. a \in Seq(Plans) /\ Len(a) = n /\ DOMAIN a = 1..n
  BY <1>1, AfterIs DEF Changed
<1>4. E = {k \in 1..n : Open(plans[k]) /\ ~Open(a[k])}
  BY <1>1, <1>2 DEF Ended, Active, Open
<1>5. CASE n # 0 /\ Open(plans[n]) /\ ~Open(a[n])
  <2>1. n \in Nat \ {0} /\ n <= n + 1 /\ n <= Len(a) /\ n - n + 1 = 1
    BY <1>2, <1>3, <1>5
  <2>2. Spans(E, Len(a), n, n)
    BY <1>2, <1>3, <1>4, <1>5 DEF Spans
  <2>3. PICK w : w = Where(a, E)
    OBVIOUS
  <2>4. w \in Seq(Plans) /\ Len(w) = 1 /\ w[1] = a[n]
    <3>1. Where(a, E) \in Seq(Plans) /\ Piece(Where(a, E), a, n, n)
      BY <1>3, <2>1, <2>2, WhereRange
    <3>2. n + 1 - 1 = n /\ 1 \in 1..(n - n + 1)
      BY <2>1
    <3> QED
      BY <2>1, <2>3, <3>1, <3>2 DEF Piece
  <2>5. DOMAIN w = {1}
    BY <2>4
  <2>6. FoldLeft(OnPlanClosed, lock, w) = OnPlanClosed(lock, w[1])
    BY <2>5, OneFolds
  <2>7. Released(p, at) = FoldLeft(OnPlanClosed, lock, w)
    BY <1>1, <2>3 DEF Released
  <2> QED
    BY <1>1, <1>2, <1>5, <2>4, <2>6, <2>7
<1>6. CASE ~(n # 0 /\ Open(plans[n]) /\ ~Open(a[n]))
  <2>1. Spans(E, Len(a), 1, 0)
    BY <1>2, <1>3, <1>4, <1>6 DEF Spans
  <2>2. PICK w : w = Where(a, E)
    OBVIOUS
  <2>3. w \in Seq(Plans) /\ Len(w) = 0
    <3>1. 0 \in 0..Len(a)
      BY <1>2, <1>3
    <3> QED
      BY <1>3, <2>1, <2>2, <3>1, WhereFirst
  <2>4. DOMAIN w = {}
    BY <2>3
  <2>5. FoldLeft(OnPlanClosed, lock, w) = lock
    BY <2>4, NoneFolds
  <2>6. Released(p, at) = FoldLeft(OnPlanClosed, lock, w)
    BY <1>1, <2>2 DEF Released
  <2> QED
    BY <1>1, <1>2, <1>6, <2>5, <2>6
<1> QED
  BY <1>5, <1>6
\* The lock after the tick: it knows the plan that is still open.
LEMMA ReleasedKnows ==
  ASSUME PlansInv, now \in Nat, NEW p \in Nat, NEW at \in Nat, at > now
  PROVE  /\ Released(p, at) \in Locks
         /\ Released(p, at).buys = lock.buys /\ Released(p, at).sells = lock.sells
         /\ Released(p, at).opened =
              IF plans # << >> /\ Open(After(p, at)[Len(plans)])
              THEN After(p, at)[Len(plans)].at ELSE None
<1>1. PICK a, n, r : a = After(p, at) /\ n = Len(plans) /\ r = Released(p, at)
  OBVIOUS
<1>2. /\ n \in Nat /\ (plans # << >> <=> n # 0) /\ plans \in Seq(Plans) /\ lock \in Locks
      /\ lock.opened = IF n # 0 /\ Open(plans[n]) THEN plans[n].at ELSE None
  BY <1>1 DEF PlansInv
<1>3. IF n # 0 /\ Open(plans[n]) /\ ~Open(a[n]) THEN r = OnPlanClosed(lock, a[n]) ELSE r = lock
  BY <1>1, <1>2, ReleasedIs
<1>4. /\ a \in Seq(Plans) /\ Len(a) = n
      /\ n # 0 => /\ a[n].at = plans[n].at
                  /\ Open(a[n]) => Open(plans[n]) /\ a[n] = plans[n]
                  /\ ~Open(plans[n]) => a[n] = plans[n]
  <2>1. Changed(plans, a, p, at)
    BY <1>1, AfterIs
  <2> QED
    BY <1>1, <1>2, <2>1 DEF Changed
<1>5. CASE n # 0 /\ Open(plans[n]) /\ ~Open(a[n])
  <2>1. PICK plan \in Plans : plan = a[n]
    BY <1>2, <1>4, <1>5
  <2>2. PICK o : o = IF Locked(lock) THEN lock.opened ELSE plan.at
    OBVIOUS
  <2>3. PICK held : held = IF plan.closed > o THEN plan.closed - o ELSE 0
    OBVIOUS
  <2>4. o \in Nat
    BY <1>2, <2>2 DEF Locked, Locks, Plans
  <2>5. held \in Nat
    BY <2>1, <2>3, <2>4 DEF Plans
  <2>6. r = [lock EXCEPT !.closedFor = Append(@, held), !.opened = None, !.blockedAt = None]
    BY <1>3, <1>5, <2>1, <2>2, <2>3 DEF OnPlanClosed
  <2>7. PICK c : c = Append(lock.closedFor, held)
    OBVIOUS
  <2>8. c \in Seq(Nat)
    BY <1>2, <2>5, <2>7 DEF Locks
  <2>9. r = [lock EXCEPT !.closedFor = c, !.opened = None, !.blockedAt = None]
    BY <2>6, <2>7
  <2>10. r \in Locks /\ r.buys = lock.buys /\ r.sells = lock.sells /\ r.opened = None
    BY <1>2, <2>8, <2>9 DEF Locks
  <2> QED
    BY <1>1, <1>2, <1>5, <2>10
<1>6. CASE ~(n # 0 /\ Open(plans[n]) /\ ~Open(a[n]))
  BY <1>1, <1>2, <1>3, <1>4, <1>6
<1> QED
  BY <1>5, <1>6

Entered(d, p, at) == PlanFor(d, histories'.prices, histories'.moves, p, at)

\* The plans and the lock of a frame: a new plan, a stopped signal, or neither.
LEMMA PlannedIs ==
  ASSUME NEW d, NEW p, NEW at, Planned(d, p, at)
  PROVE  LET free == ~Locked(Released(p, at))
         IN  \/ /\ IsSignal(d) /\ free /\ d # planned.engine
                /\ plans' = Append(After(p, at), Entered(d, p, at))
                /\ lock' = OnPlanActivated(Released(p, at), plans'[Len(plans')])
             \/ /\ IsSignal(d) /\ free /\ d = planned.engine
                /\ plans' = After(p, at) /\ lock' = Released(p, at)
             \/ /\ IsSignal(d) /\ ~free
                /\ plans' = After(p, at) /\ lock' = RecordBlocked(Released(p, at), d, at)
             \/ /\ ~IsSignal(d)
                /\ plans' = After(p, at) /\ lock' = Released(p, at)
BY DEF Planned, After, Released, Ended, Entered

LEMMA PlansStep ==
  ASSUME PlansInv, HistoriesInv', now \in Nat, NEW d, NEW p \in Nat, NEW at \in Nat, at > now,
         now' = at, price' = p, Planned(d, p, at)
  PROVE  PlansInv'
<1>1. PICK a, n, r : a = After(p, at) /\ n = Len(plans) /\ r = Released(p, at)
  OBVIOUS
<1>2. n \in Nat /\ (plans # << >> <=> n # 0) /\ plans \in Seq(Plans)
      /\ \A k \in 1..n : plans[k].at <= now /\ (Open(plans[k]) => k = n)
  BY <1>1 DEF PlansInv
<1>3. Changed(plans, a, p, at)
  BY <1>1, AfterIs
<1>4. r \in Locks /\ r.opened = IF n # 0 /\ Open(a[n]) THEN a[n].at ELSE None
  BY <1>1, <1>2, ReleasedKnows
<1>5. /\ a \in Seq(Plans) /\ Len(a) = n
      /\ \A k \in 1..n : /\ a[k].at <= at /\ a[k].closed <= at
                         /\ Open(a[k]) => k = n /\ Inside(a[k], p)
  <2>1. /\ a \in Seq(Plans) /\ Len(a) = n
        /\ \A k \in 1..n : /\ a[k].at = plans[k].at /\ a[k].closed <= at
                           /\ Open(a[k]) => Open(plans[k]) /\ Inside(a[k], p)
    BY <1>1, <1>3 DEF Changed
  <2>2. \A k \in 1..n : plans[k].at \in Nat
    <3>1. \A k \in 1..n : plans[k] \in Plans
      BY <1>1, <1>2
    <3> QED
      BY <3>1 DEF Plans
  <2> QED
    BY <1>2, <2>1, <2>2
<1>6. CASE plans' = a /\ lock' \in Locks /\ lock'.opened = r.opened
  <2>1. plans' # << >> <=> n # 0
    BY <1>5, <1>6
  <2> QED
    BY <1>4, <1>5, <1>6, <2>1 DEF PlansInv
<1>7. CASE /\ d \in Sides /\ ~Locked(r) /\ plans' = Append(a, Entered(d, p, at))
           /\ lock' = OnPlanActivated(r, plans'[Len(plans')])
  <2>1. PICK plan : plan = Entered(d, p, at)
    OBVIOUS
  <2>2. plan \in Plans /\ Open(plan) /\ plan.at = at /\ plan.closed = 0 /\ Inside(plan, p)
    <3>1. histories'.prices \in Seq(Nat) /\ histories'.moves \in Seq(Int)
      BY DEF HistoriesInv
    <3> QED
      BY <1>7, <2>1, <3>1, PlanForIs DEF Entered
  <2>3. n # 0 => ~Open(a[n])
    <3>1. n # 0 => a[n] \in Plans
      BY <1>2, <1>5
    <3> QED
      BY <1>4, <1>7, <3>1, AuditAssumption DEF Locked, Plans
  <2>4. PICK s : s = Append(a, plan)
    OBVIOUS
  <2>5. /\ s \in Seq(Plans) /\ Len(s) = n + 1 /\ s[n + 1] = plan /\ s # << >>
        /\ \A k \in 1..n : s[k] = a[k]
    BY <1>2, <1>5, <2>2, <2>4
  <2>6. plans' = s /\ lock' = [r EXCEPT !.opened = at, !.blockedAt = None]
    BY <1>7, <2>1, <2>2, <2>4, <2>5 DEF OnPlanActivated
  <2>7. lock' \in Locks /\ lock'.opened = at
    BY <1>4, <2>6 DEF Locks
  <2>8. \A k \in 1..(n + 1) : /\ s[k].at <= at /\ s[k].closed <= at
                              /\ Open(s[k]) => k = n + 1 /\ Inside(s[k], p)
    <3>1. \A k \in 1..(n + 1) : k \in 1..n \/ k = n + 1
      BY <1>2
    <3>2. \A k \in 1..n : ~Open(a[k])
      BY <1>5, <2>3
    <3> QED
      BY <1>5, <2>2, <2>5, <3>1, <3>2
  <2> QED
    BY <1>2, <2>2, <2>5, <2>6, <2>7, <2>8 DEF PlansInv
<1>8. CASE plans' = a /\ lock' = RecordBlocked(r, d, at)
  <2>1. lock' \in Locks /\ lock'.opened = r.opened
    <3>1. PICK b, s : /\ b = IF d = "BUY" THEN r.buys + 1 ELSE r.buys
                      /\ s = IF d = "SELL" THEN r.sells + 1 ELSE r.sells
      OBVIOUS
    <3>2. b \in Nat /\ s \in Nat
      BY <1>4, <3>1 DEF Locks
    <3>3. lock' = [r EXCEPT !.buys = b, !.sells = s, !.blockedAt = at]
      BY <1>8, <3>1 DEF RecordBlocked
    <3> QED
      BY <1>4, <3>2, <3>3 DEF Locks
  <2> QED
    BY <1>6, <1>8, <2>1
<1> QED
  BY <1>1, <1>4, <1>6, <1>7, <1>8, PlannedIs DEF IsSignal, Sides

LEMMA PlansDies == ASSUME PlansInv, HistoriesInv, Dies PROVE PlansInv' /\ HistoriesInv'
BY DEF Dies, PlansInv, HistoriesInv

LEMMA LastOnly ==
  ASSUME NEW T, NEW s \in Seq(T), NEW n \in Nat \ {0}, n = Len(s), NEW K, Spans(K, Len(s), n, n)
  PROVE  Where(s, K) \in Seq(T) /\ Len(Where(s, K)) = 1 /\ Where(s, K)[1] = s[n]
<1>1. PICK b \in Nat : b = n
  OBVIOUS
<1>2. n <= b + 1 /\ b <= Len(s) /\ Spans(K, Len(s), n, b)
  BY <1>1
<1>3. Where(s, K) \in Seq(T) /\ Piece(Where(s, K), s, n, b)
  BY <1>2, WhereRange
<1>4. b - n + 1 = 1 /\ n + 1 - 1 = n /\ 1 \in 1..(b - n + 1)
  BY <1>1
<1> QED
  BY <1>3, <1>4 DEF Piece

\* A new process locks for the plan that it finds open.
LEMMA LockRestart ==
  ASSUME PlansInv, Restart
  PROVE  IF plans # << >> /\ Open(plans[Len(plans)])
         THEN lock' = OnPlanActivated(Unlocked, plans[Len(plans)]) ELSE lock' = Unlocked
<1>1. lock' = FoldLeft(OnPlanActivated, Unlocked, Where(plans, Active))
  BY Zenon DEF Restart
<1>2. PICK s, n, A, w : s = plans /\ n = Len(plans) /\ A = Active /\ w = Where(s, A)
  OBVIOUS
<1>3. /\ n \in Nat /\ n = Len(s) /\ DOMAIN s = 1..n /\ s \in Seq(Plans)
      /\ (plans # << >> <=> n # 0) /\ \A k \in 1..n : Open(s[k]) => k = n
  BY <1>2 DEF PlansInv
<1>4. A = {k \in 1..n : Open(s[k])}
  BY <1>2, <1>3 DEF Active, Open
<1>5. CASE n # 0 /\ Open(s[n])
  <2>1. n \in Nat \ {0} /\ Spans(A, Len(s), n, n)
    BY <1>3, <1>4, <1>5 DEF Spans
  <2>2. w \in Seq(Plans) /\ Len(w) = 1 /\ w[1] = s[n]
    BY <1>2, <1>3, <2>1, LastOnly
  <2>3. DOMAIN w = {1}
    BY <2>2
  <2> QED
    BY <1>1, <1>2, <1>3, <1>5, <2>2, <2>3, OneFolds
<1>6. CASE ~(n # 0 /\ Open(s[n]))
  <2>1. Spans(A, Len(s), 1, 0) /\ 0 \in 0..Len(s)
    BY <1>3, <1>4, <1>6 DEF Spans
  <2>2. w \in Seq(Plans) /\ Len(w) = 0
    BY <1>2, <1>3, <2>1, WhereFirst
  <2>3. DOMAIN w = {}
    BY <2>2
  <2> QED
    BY <1>1, <1>2, <1>3, <1>6, <2>3, NoneFolds
<1> QED
  BY <1>5, <1>6

LEMMA PlansRestart ==
  ASSUME PlansInv, now \in Nat, Restart
  PROVE  PlansInv' /\ HistoriesInv'
<1>1. /\ plans' = plans /\ now' = now /\ seen' = << >> /\ price' = None
      /\ histories' = [prices |-> << >>, moves |-> << >>]
  BY RestartIs
<1>2. PICK n : n = Len(plans)
  OBVIOUS
<1>3. /\ n \in Nat /\ plans \in Seq(Plans) /\ (plans # << >> <=> n # 0)
  BY <1>2 DEF PlansInv
<1>4. Unlocked \in Locks /\ Unlocked.opened = None
  BY DEF Unlocked, Locks
<1>5. lock' \in Locks
      /\ lock'.opened = IF n # 0 /\ Open(plans[n]) THEN plans[n].at ELSE None
  <2>1. CASE n # 0 /\ Open(plans[n])
    <3>1. plans[n] \in Plans
      BY <1>2, <1>3, <2>1
    <3>2. lock' = OnPlanActivated(Unlocked, plans[n])
      BY <1>2, <1>3, <2>1, LockRestart
    <3> QED
      BY <1>4, <2>1, <3>1, <3>2 DEF OnPlanActivated, Locks, Plans
  <2>2. CASE ~(n # 0 /\ Open(plans[n]))
    BY <1>2, <1>3, <1>4, <2>2, LockRestart
  <2> QED
    BY <2>1, <2>2
<1>6. PlansInv'
  BY <1>1, <1>2, <1>3, <1>5 DEF PlansInv
<1>7. HistoriesInv'
  BY <1>1 DEF HistoriesInv
<1> QED
  BY <1>6, <1>7

-----------------------------------------------------------------------------
(* The inductive invariant: the trades of the account.                     *)

Weeks  == {Week(t) : t \in Nat}
Months == {Month(t) : t \in Nat}
Trades == [id : Nat, day : Days, week : Weeks, month : Months, opened : Nat, closed : Nat,
           points : Int, label : {"NONE", "WIN", "LOSS"}]

\* The trades are the closed plans, in their order, which is that of the exits.
TradesInv ==
  /\ trades \in Seq(Trades) /\ Len(trades) <= Len(plans)
  /\ \A k \in 1..Len(plans) : Open(plans[k]) <=> Len(trades) < k
  /\ \A k \in 1..Len(trades) : trades[k].id = k /\ trades[k].closed <= now
  /\ \A j, k \in 1..Len(trades) : j < k => trades[j].closed < trades[k].closed

LEMMA TradeOfIs ==
  ASSUME NEW plan \in Plans, NEW k \in Nat
  PROVE  LET trade == TradeOf(k, plan, TradingDay(plan.at))
         IN  trade \in Trades /\ trade.id = k /\ trade.closed = plan.closed
<1>1. PICK d, w, m : d = TradingDay(plan.at) /\ w = Week(plan.at) /\ m = Month(plan.at)
  OBVIOUS
<1>2. plan.at \in Nat
  BY DEF Plans
<1>3. d \in Days /\ w \in Weeks /\ m \in Months
  BY <1>1, <1>2 DEF Days, Weeks, Months
<1>4. TradeOf(k, plan, TradingDay(plan.at)) =
        [id |-> k, day |-> d, week |-> w, month |-> m, opened |-> plan.at,
         closed |-> plan.closed, points |-> plan.points, label |-> plan.result]
  BY <1>1 DEF TradeOf
<1> QED
  BY <1>3, <1>4 DEF Plans, Trades

Unbooked == {k \in DOMAIN plans' : plans'[k].result # "NONE"
                                    /\ \A t \in DOMAIN trades : trades[t].id # k}

\* A frame books the plan that it closed, if it closed one.
LEMMA BookedIs ==
  ASSUME TradesInv, PlansInv', NEW m, m = Len(trades),
         NEW b \in Nat, m <= b, b <= m + 1, b <= Len(plans'),
         \A k \in 1..Len(plans') : Open(plans'[k]) <=> b < k
  PROVE  /\ Booked \in Seq(Trades) /\ Len(Booked) = b
         /\ \A k \in 1..m : Booked[k] = trades[k]
         /\ b = m + 1 => Booked[b].id = b /\ Booked[b].closed = plans'[b].closed
<1>1. PICK s, K : s = plans' /\ K = Unbooked
  OBVIOUS
<1>2. PICK n \in Nat : n = Len(s) /\ DOMAIN s = 1..n /\ s \in Seq(Plans)
  BY <1>1 DEF PlansInv
<1>3. m \in Nat /\ DOMAIN trades = 1..m /\ trades \in Seq(Trades)
      /\ \A k \in 1..m : trades[k].id = k
  BY DEF TradesInv
<1>4. PICK index : index = [k \in DOMAIN s |-> k]
  OBVIOUS
<1>5. index \in Seq(Nat) /\ Len(index) = n /\ \A k \in 1..n : index[k] = k
  BY <1>2, <1>4
<1>6. \A k \in 1..n : k \in K <=> m + 1 <= k /\ k <= b
  <2>1. \A k \in 1..n : k \in K <=> ~Open(s[k]) /\ \A t \in 1..m : t # k
    BY <1>1, <1>2, <1>3 DEF Unbooked, Open
  <2>2. \A k \in 1..n : Open(s[k]) <=> b < k
    BY <1>1, <1>2
  <2>3. \A k \in 1..n : (\A t \in 1..m : t # k) <=> m < k
    BY <1>3
  <2> QED
    BY <1>2, <1>3, <2>1, <2>2, <2>3
<1>7. PICK a, new : a \in Nat \ {0} /\ a = m + 1 /\ new = Where(index, K)
  BY <1>3
<1>8. new \in Seq(Nat) /\ Len(new) = b - m /\ (b = m + 1 => new[1] = b)
  <2>1. Spans(K, Len(index), a, b) /\ a <= b + 1 /\ b <= Len(index)
    BY <1>1, <1>2, <1>3, <1>5, <1>6, <1>7 DEF Spans
  <2>2. /\ Where(index, K) \in Seq(Nat) /\ Len(Where(index, K)) = b - a + 1
        /\ \A i \in 1..(b - a + 1) : Where(index, K)[i] = index[a + i - 1]
    BY <1>5, <1>7, <2>1, WhereRange DEF Piece
  <2>3. b - a + 1 = b - m
    BY <1>3, <1>7
  <2>4. ASSUME b = m + 1
        PROVE  new[1] = b
    <3>1. 1 \in 1..(b - a + 1) /\ a + 1 - 1 = b /\ b \in 1..n
      BY <1>1, <1>2, <1>3, <1>7, <2>4
    <3> QED
      BY <1>5, <1>7, <2>2, <3>1
  <2> QED
    BY <1>7, <2>2, <2>3, <2>4
<1>9. PICK add : add = [i \in DOMAIN new |-> TradeOf(new[i], s[new[i]], TradingDay(s[new[i]].at))]
  OBVIOUS
<1>10. Booked = trades \o add
  <2>1. Booked = trades \o [i \in DOMAIN Where(index, K) |->
           TradeOf(Where(index, K)[i], s[Where(index, K)[i]],
                   TradingDay(s[Where(index, K)[i]].at))]
    BY <1>1, <1>4 DEF Booked, Unbooked
  <2> QED
    BY <1>7, <1>9, <2>1
<1>11. CASE b = m
  <2>1. Len(new) = 0 /\ DOMAIN new = {}
    BY <1>8, <1>11
  <2>2. add = << >>
    BY <1>9, <2>1
  <2> QED
    BY <1>3, <1>10, <1>11, <2>2
<1>12. CASE b = m + 1
  <2>1. Len(new) = 1 /\ DOMAIN new = 1..1 /\ new[1] = b
    BY <1>3, <1>8, <1>12
  <2>2. b \in 1..n /\ s[b] \in Plans
    BY <1>1, <1>2, <1>3, <1>12
  <2>3. PICK t : t = TradeOf(b, s[b], TradingDay(s[b].at))
    OBVIOUS
  <2>4. t \in Trades /\ t.id = b /\ t.closed = s[b].closed
    BY <2>2, <2>3, TradeOfIs
  <2>5. add = << t >>
    <3>1. DOMAIN add = 1..1 /\ add[1] = t
      BY <1>9, <2>1, <2>3
    <3>2. add = [i \in 1..1 |-> add[i]]
      BY <1>9, <2>1
    <3> QED
      BY <3>1, <3>2
  <2>6. Booked = Append(trades, t)
    BY <1>3, <1>10, <2>4, <2>5
  <2> QED
    BY <1>1, <1>3, <1>12, <2>4, <2>6
<1> QED
  BY <1>3, <1>11, <1>12

LEMMA TradesStep ==
  ASSUME TradesInv, PlansInv, PlansInv', now \in Nat,
         NEW d, NEW p \in Nat, NEW at \in Nat, at > now,
         now' = at, Planned(d, p, at), trades' = Booked
  PROVE  TradesInv'
<1>1. PICK a, n, m : a = After(p, at) /\ n = Len(plans) /\ m = Len(trades)
  OBVIOUS
<1>2. /\ n \in Nat /\ m \in Nat /\ m <= n /\ n <= m + 1
      /\ \A k \in 1..n : Open(plans[k]) <=> m < k
  <2>1. /\ n \in Nat /\ m \in Nat /\ m <= n /\ \A k \in 1..n : Open(plans[k]) <=> m < k
    BY <1>1 DEF PlansInv, TradesInv
  <2>2. \A k \in 1..n : Open(plans[k]) => k = n
    BY <1>1 DEF PlansInv
  <2>3. SUFFICES ASSUME n > m + 1
                 PROVE  FALSE
    BY <2>1
  <2>4. m + 1 \in 1..n /\ Open(plans[m + 1])
    BY <2>1, <2>3
  <2> QED
    BY <2>1, <2>2, <2>3, <2>4
<1>3. Changed(plans, a, p, at)
  BY <1>1, AfterIs
<1>4. /\ a \in Seq(Plans) /\ Len(a) = n
      /\ \A k \in 1..n : /\ k <= m => ~Open(a[k])
                         /\ m < k /\ ~Open(a[k]) => a[k].closed = at
  BY <1>1, <1>2, <1>3 DEF Changed
<1>5. \E b \in Nat : /\ m <= b /\ b <= n /\ \A k \in 1..n : Open(a[k]) <=> b < k
                     /\ b = m + 1 => a[b].closed = at
  <2>1. CASE n = m
    BY <1>2, <1>4, <2>1
  <2>2. CASE n = m + 1 /\ Open(a[n])
    <3>1. \A k \in 1..n : k <= m \/ k = n
      BY <1>2, <2>2
    <3> QED
      BY <1>2, <1>4, <2>2, <3>1
  <2>3. CASE n = m + 1 /\ ~Open(a[n])
    <3>1. \A k \in 1..n : k <= m \/ k = n
      BY <1>2, <2>3
    <3>2. n \in 1..n /\ a[n].closed = at
      BY <1>2, <1>4, <2>3
    <3> QED
      BY <1>2, <1>4, <2>3, <3>1, <3>2
  <2> QED
    BY <1>2, <2>1, <2>2, <2>3
<1>6. PICK b \in Nat : /\ m <= b /\ b <= n /\ \A k \in 1..n : Open(a[k]) <=> b < k
                       /\ b = m + 1 => a[b].closed = at
  BY <1>5
<1>7. PICK e : e = Entered(d, p, at)
  OBVIOUS
<1>8. Open(e)
  BY <1>7 DEF Entered, PlanFor, Open
<1>9. plans' = a \/ plans' = Append(a, e)
  BY <1>1, <1>7, PlannedIs
<1>10. PICK s : s = plans'
  OBVIOUS
<1>11. /\ Len(s) \in Nat /\ n <= Len(s) /\ \A k \in 1..n : s[k] = a[k]
       /\ \A k \in 1..Len(s) : k \in 1..n \/ (k = n + 1 /\ Open(s[k]))
  <2>1. CASE s = a
    BY <1>2, <1>4, <2>1
  <2>2. CASE s = Append(a, e)
    <3>1. Len(s) = n + 1 /\ s[n + 1] = e /\ \A k \in 1..n : s[k] = a[k]
      BY <1>2, <1>4, <2>2
    <3> QED
      BY <1>2, <1>8, <3>1
  <2> QED
    BY <1>9, <1>10, <2>1, <2>2
<1>12. \A k \in 1..Len(s) : Open(s[k]) <=> b < k
  BY <1>2, <1>6, <1>11
<1>13. b <= m + 1 /\ b <= Len(s)
  BY <1>2, <1>6, <1>11
<1>14. PICK t : t = trades'
  OBVIOUS
<1>15. /\ t \in Seq(Trades) /\ Len(t) = b /\ \A k \in 1..m : t[k] = trades[k]
       /\ b = m + 1 => t[b].id = b /\ t[b].closed = s[b].closed
  BY <1>1, <1>6, <1>10, <1>12, <1>13, <1>14, BookedIs
<1>16. /\ trades \in Seq(Trades)
       /\ \A k \in 1..m : trades[k].id = k /\ trades[k].closed <= now
       /\ \A j, k \in 1..m : j < k => trades[j].closed < trades[k].closed
  BY <1>1 DEF TradesInv
<1>17. \A k \in 1..m : trades[k].closed \in Nat
  <2>1. \A k \in 1..m : trades[k] \in Trades
    BY <1>1, <1>2, <1>16
  <2> QED
    BY <2>1 DEF Trades
<1>18. b = m + 1 => t[b].closed = at
  <2>1. b = m + 1 => b \in 1..n
    BY <1>2, <1>6
  <2> QED
    BY <1>6, <1>11, <1>15, <2>1
<1>19. \A k \in 1..b : t[k].id = k /\ t[k].closed <= at
  <2>1. \A k \in 1..b : k \in 1..m \/ (k = b /\ b = m + 1)
    BY <1>2, <1>6, <1>13
  <2> QED
    BY <1>15, <1>16, <1>17, <1>18, <2>1
<1>20. \A j, k \in 1..b : j < k => t[j].closed < t[k].closed
  <2>1. \A j, k \in 1..b : j < k => j \in 1..m /\ (k \in 1..m \/ (k = b /\ b = m + 1))
    BY <1>2, <1>6, <1>13
  <2> QED
    BY <1>15, <1>16, <1>17, <1>18, <2>1
<1> QED
  BY <1>10, <1>12, <1>13, <1>14, <1>15, <1>19, <1>20 DEF TradesInv

LEMMA TradesRestart == ASSUME TradesInv, Restart PROVE TradesInv'
<1>1. plans' = plans /\ trades' = trades /\ now' = now
  BY RestartIs
<1> QED
  BY <1>1 DEF TradesInv

LEMMA TradesDies == ASSUME TradesInv, Dies PROVE TradesInv'
BY DEF Dies, TradesInv

\* What the panels show is of the state after the frame.
ViewsInv ==
  views # None =>
    LET open == {k \in DOMAIN plans : plans[k].result = "NONE"}
    IN  /\ seen # << >>
        /\ views =
             [lifetime    |-> BuildViews(store, records, now),
              account     |-> SnapshotAt(trades, TradingDay(now), now),
              performance |-> PerformancePanel(records, TimingSummary(audits)),
              statistics  |-> [d \in Decisions |-> Frequency(statistics, d)],
              position    |-> PositionOf(lock, IF open = {} THEN None ELSE ViewPlan(plans),
                                         price, now),
              plan        |-> TradePlanPanel(ViewPlan(plans), price, now),
              signal      |-> LastSignal(records, lastEffect)]

LEMMA ViewsFrame ==
  ASSUME ClockInv, NEW p, NEW side, NEW effect, NEW at, Framed(p, side, effect, at)
  PROVE  ViewsInv'
<1>1. /\ views' = Panels(p, at) /\ now' = at /\ price' = p
  BY FrameIs
<1>2. seen' # << >>
  <2>1. seen' = Append(seen, [at |-> at, price |-> p]) /\ seen \in Seq(Frames)
    BY FrameIs DEF ClockInv
  <2>2. p \in Nat /\ at \in Nat
    BY DEF Framed
  <2>3. [at |-> at, price |-> p] \in Frames
    BY <2>2 DEF Frames
  <2> QED
    BY <2>1, <2>3
<1> QED
  BY <1>1, <1>2 DEF ViewsInv, Panels

LEMMA ViewsRestart == ASSUME Restart PROVE ViewsInv'
BY RestartIs DEF ViewsInv, NoViews

LEMMA ViewsDies == ASSUME ViewsInv, Dies PROVE ViewsInv'
BY DEF ViewsInv, Dies
-----------------------------------------------------------------------------
(* The account.                                                            *)

LEMMA MaxIs ==
  ASSUME NEW S \in SUBSET Int, NEW x \in S, \A y \in S : y <= x
  PROVE  Max(S) = x
<1>1. \A y \in S : x >= y
  OBVIOUS
<1>2. \A z \in S : (\A y \in S : z >= y) => z = x
  <2>1. SUFFICES ASSUME NEW z \in S, \A y \in S : z >= y
                 PROVE  z = x
    OBVIOUS
  <2>2. z >= x /\ z <= x /\ z \in Int /\ x \in Int
    BY <2>1
  <2> QED
    BY <2>2
<1> QED
  BY <1>1, <1>2 DEF Max

\* The trades are in the order of their exits already.
LEMMA ExitOrder == TradesInv => InExitOrder(trades) = trades
<1> SUFFICES ASSUME TradesInv
             PROVE  InExitOrder(trades) = trades
  OBVIOUS
<1>1. PICK s, n : s = trades /\ n = Len(trades)
  OBVIOUS
<1>2. /\ n \in Nat /\ DOMAIN s = 1..n /\ s \in Seq(Trades)
      /\ \A j, k \in 1..n : j < k => s[j].closed < s[k].closed
  BY <1>1 DEF TradesInv
<1>3. \A k \in 1..n : s[k].closed \in Nat
  <2>1. \A k \in 1..n : s[k] \in Trades
    BY <1>2
  <2> QED
    BY <2>1 DEF Trades
<1> DEFINE Before(x, y) == x.closed < y.closed \/ (x.closed = y.closed /\ x.id < y.id)
<1>4. \A j, k \in 1..n : Before(s[j], s[k]) <=> j < k
  <2>1. SUFFICES ASSUME NEW j \in 1..n, NEW k \in 1..n
                 PROVE  Before(s[j], s[k]) <=> j < k
    OBVIOUS
  <2>2. CASE j < k
    BY <1>2, <1>3, <2>2
  <2>3. CASE k < j
    <3>1. s[k].closed < s[j].closed
      BY <1>2, <2>3
    <3> QED
      BY <1>3, <2>3, <3>1
  <2>4. CASE j = k
    <3>1. s[k] \in Trades
      BY <1>2
    <3>2. s[k].id \in Nat /\ s[k].closed \in Nat
      BY <3>1 DEF Trades
    <3> QED
      BY <2>4, <3>2
  <2> QED
    BY <2>2, <2>3, <2>4
<1> DEFINE place == [k \in DOMAIN s |->
                       1 + Cardinality({j \in DOMAIN s : Before(s[j], s[k])})]
<1>5. \A k \in 1..n : place[k] = k
  <2>1. SUFFICES ASSUME NEW k \in 1..n
                 PROVE  place[k] = k
    OBVIOUS
  <2>2. {j \in DOMAIN s : Before(s[j], s[k])} = 1..(k - 1)
    <3>1. \A j \in 1..n : Before(s[j], s[k]) <=> j \in 1..(k - 1)
      BY <1>4
    <3>2. 1..(k - 1) \in SUBSET (1..n)
      <4>1. \A i \in 1..(k - 1) : i \in 1..n
        BY <1>2
      <4> QED
        BY <4>1
    <3> HIDE DEF Before
    <3> QED
      BY <1>2, <3>1, <3>2
  <2>3. PICK K : K = {j \in DOMAIN s : Before(s[j], s[k])}
    OBVIOUS
  <2>4. Cardinality(K) = k - 1
    <3>1. PICK c \in Int : c = k - 1
      OBVIOUS
    <3>2. Cardinality(1..c) = IF 1 > c THEN 0 ELSE c - 1 + 1
      BY <3>1, FS_Interval
    <3>3. K = 1..c
      BY <2>2, <2>3, <3>1
    <3> QED
      BY <3>1, <3>2, <3>3
  <2>5. place[k] = 1 + Cardinality(K)
    BY <1>2, <2>3
  <2> QED
    BY <2>4, <2>5
<1>6. InExitOrder(s) = [m \in DOMAIN s |-> s[CHOOSE k \in DOMAIN s : place[k] = m]]
  BY Zenon DEF InExitOrder
<1> HIDE DEF place
<1>7. \A m \in 1..n : (CHOOSE k \in DOMAIN s : place[k] = m) = m
  BY <1>2, <1>5
<1>8. InExitOrder(s) = [m \in 1..n |-> s[m]]
  BY <1>2, <1>6, <1>7
<1>9. s = [m \in 1..n |-> s[m]]
  BY <1>2
<1> QED
  BY <1>1, <1>8, <1>9

Sums(P, s) ==
  /\ P[0] = 0 /\ \A k \in 1..Len(s) : P[k] = P[k - 1] + s[k].points
  /\ \A k \in 0..Len(s) : PnL(SubSeq(s, 1, k)) = P[k]

\* What the first k trades are worth, for each k.
LEMMA SumsAre ==
  ASSUME NEW T, NEW s \in Seq(T), \A k \in DOMAIN s : s[k].points \in Int
  PROVE  \E P \in [0..Len(s) -> Int] : Sums(P, s)
<1>1. PICK n \in Nat : n = Len(s) /\ DOMAIN s = 1..n
  OBVIOUS
<1>2. PICK P \in [0..n -> Int] : P[0] = 0 /\ \A k \in 1..n : P[k] = P[k - 1] + s[k].points
  BY <1>1, PnLIs
<1>3. ASSUME NEW k \in 0..n
      PROVE  PnL(SubSeq(s, 1, k)) = P[k]
  <2>1. PICK u : u = SubSeq(s, 1, k)
    OBVIOUS
  <2>2. u \in Seq(T) /\ Len(u) = k /\ \A i \in 1..k : u[i] = s[i]
    <3>1. /\ SubSeq(s, 1, k) \in Seq(T)
          /\ Len(SubSeq(s, 1, k)) = IF 1 <= k THEN k - 1 + 1 ELSE 0
          /\ \A i \in 1..(k - 1 + 1) : SubSeq(s, 1, k)[i] = s[1 + i - 1]
      <4>1. \A i \in 1..k : s[i] \in T
        BY <1>1
      <4>2. 1 \in Int /\ k \in Int
        OBVIOUS
      <4> QED
        BY <4>1, <4>2, SubSeqProperties
    <3>2. k - 1 + 1 = k /\ \A i \in 1..k : 1 + i - 1 = i
      OBVIOUS
    <3> QED
      BY <2>1, <3>1, <3>2
  <2>3. \A i \in DOMAIN u : u[i].points \in Int
    BY <1>1, <2>2
  <2>4. PICK Q \in [0..Len(u) -> Int] :
          /\ Q[0] = 0 /\ \A i \in 1..Len(u) : Q[i] = Q[i - 1] + u[i].points
          /\ PnL(u) = Q[Len(u)]
    BY <2>2, <2>3, PnLIs
  <2> DEFINE G == {i \in 0..k : Q[i] = P[i]}
  <2>5. 0 \in G
    BY <1>2, <2>4
  <2>6. ASSUME NEW i \in 1..k, i - 1 \in G
        PROVE  i \in G
    <3>1. i \in 1..n /\ i \in 1..Len(u) /\ i \in 0..k
      BY <1>1, <2>2
    <3>2. Q[i] = Q[i - 1] + s[i].points /\ Q[i - 1] = P[i - 1] /\ P[i] = P[i - 1] + s[i].points
      BY <1>2, <2>2, <2>4, <2>6, <3>1
    <3> QED
      BY <3>1, <3>2
  <2>7. \A i \in 0..k : i \in G
    <3>1. k \in Nat
      BY <1>1
    <3> HIDE DEF G
    <3> QED
      BY <2>5, <2>6, <3>1, Climbs
  <2> QED
    BY <2>1, <2>2, <2>4, <2>7
<1>4. Sums(P, s)
  BY <1>1, <1>2, <1>3 DEF Sums
<1> QED
  BY <1>1, <1>4
\* A peak is the highest balance so far, and the worst is the deepest fall so far.
Peaks(peak, b, k) ==
  /\ \E i \in 0..k : peak = b[i]
  /\ \A i \in 0..k : b[i] <= peak
Falls(worst, b, k) ==
  /\ \E i \in 0..k : \E j \in i..k : worst = b[i] - b[j]
  /\ \A i \in 0..k : \A j \in i..k : b[i] - b[j] <= worst
Traces(curve, b, k) ==
  curve.balance = b[k] /\ Peaks(curve.peak, b, k) /\ Falls(curve.worst, b, k)

LEMMA MovedTraces ==
  ASSUME NEW k \in Nat \ {0}, NEW n \in Nat, k <= n, NEW b \in [0..n -> Int],
         NEW curve \in Curves, Traces(curve, b, k - 1), NEW trade, trade.points \in Int,
         b[k] = b[k - 1] + trade.points
  PROVE  Traces(Moved(curve, trade), b, k)
<1>1. PICK balance, peak, drop, worst, new :
        /\ balance = curve.balance + trade.points
        /\ peak = IF balance > curve.peak THEN balance ELSE curve.peak
        /\ drop = peak - balance /\ worst = IF drop > curve.worst THEN drop ELSE curve.worst
        /\ new = Moved(curve, trade)
  OBVIOUS
<1>2. new.balance = balance /\ new.peak = peak /\ new.worst = worst
  BY <1>1 DEF Moved
<1>3. curve.balance \in Int /\ curve.peak \in Int /\ curve.worst \in Int
  BY DEF Curves
<1>4. k - 1 \in 0..n /\ k \in 0..n /\ \A i \in 0..k : b[i] \in Int
  OBVIOUS
<1>5. balance = b[k] /\ balance \in Int /\ peak \in Int /\ drop \in Int /\ worst \in Int
  BY <1>1, <1>3, <1>4 DEF Traces
<1>6. \A i \in 0..k : i = k \/ i \in 0..(k - 1)
  OBVIOUS
<1>7. Peaks(peak, b, k)
  <2>1. \E i \in 0..k : peak = b[i]
    <3>1. CASE peak = balance
      BY <1>5, <3>1
    <3>2. CASE peak = curve.peak
      <4>1. PICK i \in 0..(k - 1) : curve.peak = b[i]
        BY DEF Traces, Peaks
      <4> QED
        BY <3>2, <4>1
    <3> QED
      BY <1>1, <3>1, <3>2
  <2>2. \A i \in 0..k : b[i] <= peak
    <3>1. \A i \in 0..(k - 1) : b[i] <= curve.peak
      BY DEF Traces, Peaks
    <3>2. curve.peak <= peak /\ b[k] <= peak
      BY <1>1, <1>3, <1>5
    <3> QED
      BY <1>3, <1>4, <1>5, <1>6, <3>1, <3>2
  <2> QED
    BY <2>1, <2>2 DEF Peaks
<1>8. Falls(worst, b, k)
  <2>1. \E i \in 0..k : \E j \in i..k : worst = b[i] - b[j]
    <3>1. CASE worst = drop
      <4>1. PICK i \in 0..k : peak = b[i]
        BY <1>7 DEF Peaks
      <4>2. worst = b[i] - b[k] /\ k \in i..k
        BY <1>1, <1>5, <3>1, <4>1
      <4> QED
        BY <4>2
    <3>2. CASE worst = curve.worst
      <4>0. PICK i \in 0..(k - 1) : \E j \in i..(k - 1) : curve.worst = b[i] - b[j]
        BY DEF Traces, Falls
      <4>1. PICK j \in i..(k - 1) : curve.worst = b[i] - b[j]
        BY <4>0
      <4>2. i \in 0..k /\ j \in i..k
        BY <4>1
      <4> QED
        BY <3>2, <4>1, <4>2
    <3> QED
      BY <1>1, <3>1, <3>2
  <2>2. ASSUME NEW i \in 0..k, NEW j \in i..k
        PROVE  b[i] - b[j] <= worst
    <3>1. CASE j = k
      <4>1. b[i] <= peak
        BY <1>7 DEF Peaks
      <4>2. drop <= worst
        BY <1>1, <1>3, <1>5
      <4>3. drop = peak - b[k] /\ b[i] \in Int /\ b[k] \in Int
        BY <1>1, <1>4, <1>5
      <4> QED
        BY <1>5, <3>1, <4>1, <4>2, <4>3
    <3>2. CASE j # k
      <4>1. i \in 0..(k - 1) /\ j \in i..(k - 1) /\ j \in 0..k
        BY <3>2
      <4>2. b[i] - b[j] <= curve.worst
        BY <4>1 DEF Traces, Falls
      <4>3. curve.worst <= worst
        BY <1>1, <1>3, <1>5
      <4>4. b[i] - b[j] \in Int
        BY <1>4, <4>1
      <4> QED
        BY <1>3, <1>5, <4>2, <4>3, <4>4
    <3> QED
      BY <3>1, <3>2
  <2> QED
    BY <2>1, <2>2 DEF Falls
<1> QED
  BY <1>1, <1>2, <1>5, <1>7, <1>8 DEF Traces

\* The curve of an account is that of its balances.
LEMMA CurveTraces ==
  ASSUME TradesInv
  PROVE  /\ Balances(trades) \in [0..Len(trades) -> Int] /\ Len(trades) \in Nat
         /\ Traces(Curve(trades), Balances(trades), Len(trades))
<1>1. PICK s, n, b : s = trades /\ n = Len(trades) /\ b = Balances(trades)
  OBVIOUS
<1>2. n \in Nat /\ DOMAIN s = 1..n /\ s \in Seq(Trades)
  BY <1>1 DEF TradesInv
<1>3. \A k \in DOMAIN s : s[k].points \in Int
  <2>1. \A k \in 1..n : s[k] \in Trades
    BY <1>2
  <2> QED
    BY <1>2, <2>1 DEF Trades
<1>4. PICK P \in [0..n -> Int] :
        /\ P[0] = 0 /\ \A k \in 1..n : P[k] = P[k - 1] + s[k].points
        /\ \A k \in 0..n : PnL(SubSeq(s, 1, k)) = P[k]
  <2>1. PICK P \in [0..Len(s) -> Int] : Sums(P, s)
    BY <1>2, <1>3, SumsAre
  <2> QED
    BY <1>1, <2>1 DEF Sums
<1>5. Starting \in Nat
  BY AccountAssumption
<1>6. b = [k \in 0..n |-> Starting + PnL(SubSeq(s, 1, k))]
  BY <1>1, ExitOrder DEF Balances
<1>7. b = [k \in 0..n |-> Starting + P[k]]
  BY <1>4, <1>6
<1>8. /\ b \in [0..n -> Int] /\ b[0] = Starting
      /\ \A k \in 1..n : b[k] = b[k - 1] + s[k].points
  <2>1. \A k \in 0..n : b[k] = Starting + P[k] /\ P[k] \in Int
    BY <1>7
  <2>2. \A k \in 1..n : s[k].points \in Int
    BY <1>2, <1>3
  <2>3. \A k \in 1..n : b[k] = b[k - 1] + s[k].points
    <3>1. SUFFICES ASSUME NEW k \in 1..n
                   PROVE  b[k] = b[k - 1] + s[k].points
      OBVIOUS
    <3>2. k \in 0..n /\ k - 1 \in 0..n
      BY <1>2
    <3>3. P[k] = P[k - 1] + s[k].points /\ P[k] \in Int /\ P[k - 1] \in Int
      BY <1>4, <2>1, <3>2
    <3>4. b[k] = Starting + P[k] /\ b[k - 1] = Starting + P[k - 1]
      BY <2>1, <3>2
    <3> QED
      BY <1>5, <2>2, <3>3, <3>4
  <2>4. b[0] = Starting
    <3>1. 0 \in 0..n
      BY <1>2
    <3> QED
      BY <1>4, <1>5, <2>1, <3>1
  <2>5. b \in [0..n -> Int]
    BY <1>5, <1>7, <2>1
  <2> QED
    BY <2>3, <2>4, <2>5
<1>9. PICK f \in [0..n -> Curves] :
        /\ f[0] = FirstCurve /\ \A k \in 1..n : f[k] = Moved(f[k - 1], s[k])
        /\ FoldLeft(Moved, FirstCurve, s) = f[n]
  BY <1>1, <1>2, <1>3, CurveIs
<1>10. Curve(trades) = f[n]
  BY <1>1, <1>9, ExitOrder DEF Curve, FirstCurve
<1> DEFINE G == {k \in 0..n : Traces(f[k], b, k)}
<1>11. 0 \in G
  <2>1. \A i \in 0..0 : i = 0
    OBVIOUS
  <2>2. f[0].balance = b[0] /\ f[0].peak = b[0] /\ f[0].worst = 0 /\ b[0] \in Int
    BY <1>5, <1>8, <1>9 DEF FirstCurve
  <2>3. Peaks(f[0].peak, b, 0) /\ Falls(f[0].worst, b, 0)
    BY <2>1, <2>2 DEF Peaks, Falls
  <2> QED
    BY <1>2, <2>2, <2>3 DEF Traces
<1>12. ASSUME NEW k \in 1..n, k - 1 \in G
       PROVE  k \in G
  <2>1. k \in Nat \ {0} /\ k <= n /\ f[k - 1] \in Curves /\ Traces(f[k - 1], b, k - 1)
        /\ s[k].points \in Int /\ b[k] = b[k - 1] + s[k].points
    BY <1>2, <1>3, <1>8, <1>12
  <2>2. Traces(Moved(f[k - 1], s[k]), b, k)
    BY <1>2, <1>8, <2>1, MovedTraces
  <2> QED
    BY <1>9, <2>2
<1>13. \A k \in 0..n : k \in G
  <2> HIDE DEF G
  <2> QED
    BY <1>2, <1>11, <1>12, Climbs
<1>14. Traces(f[n], b, n)
  BY <1>2, <1>13
<1> QED
  BY <1>1, <1>2, <1>8, <1>10, <1>14

LEMMA DrawdownIs ==
  ASSUME NEW n \in Nat, NEW b \in [0..n -> Int], NEW curve, Traces(curve, b, n)
  PROVE  /\ curve.balance = b[n]
         /\ curve.peak - curve.balance = Max({b[k] - b[n] : k \in DOMAIN b})
         /\ curve.worst = WorstFall(b)
<1>1. curve.balance = b[n] /\ n \in 0..n /\ b[n] \in Int
  BY DEF Traces
<1>2. PICK p, w : p = curve.peak /\ w = curve.worst
  OBVIOUS
<1>3. PICK i \in 0..n : p = b[i]
  BY <1>2 DEF Traces, Peaks
<1>4. p - b[n] = Max({b[k] - b[n] : k \in DOMAIN b})
  <2>1. PICK S : S = {b[k] - b[n] : k \in DOMAIN b}
    OBVIOUS
  <2>2. S \in SUBSET Int
    BY <1>1, <2>1
  <2>3. p - b[n] \in S
    BY <1>3, <2>1
  <2>4. \A y \in S : y <= p - b[n]
    <3>1. \A k \in 0..n : b[k] <= p /\ b[k] \in Int
      BY <1>2 DEF Traces, Peaks
    <3>2. p \in Int
      BY <1>3
    <3> QED
      BY <1>1, <2>1, <3>1, <3>2
  <2>5. PICK x : x = p - b[n]
    OBVIOUS
  <2>6. Max(S) = x
    BY <2>2, <2>3, <2>4, <2>5, MaxIs
  <2> QED
    BY <2>1, <2>5, <2>6
<1>5. w = WorstFall(b)
  <2>1. PICK S : S = UNION {{b[j] - b[k] : k \in {h \in DOMAIN b : h >= j}} : j \in DOMAIN b}
    OBVIOUS
  <2>2. \A x : x \in S <=> \E j \in 0..n : \E k \in j..n : x = b[j] - b[k]
    <3>1. \A x : x \in S <=> \E j \in 0..n : \E k \in 0..n : k >= j /\ x = b[j] - b[k]
      BY <2>1
    <3>2. \A j \in 0..n : \A k \in 0..n : k >= j <=> k \in j..n
      OBVIOUS
    <3>3. \A j \in 0..n : \A k \in j..n : k \in 0..n
      OBVIOUS
    <3> QED
      BY <3>1, <3>2, <3>3
  <2>3. \A j \in 0..n : \A k \in j..n : b[j] - b[k] \in Int /\ b[j] - b[k] <= w
    <3>1. \A j \in 0..n : \A k \in j..n : k \in 0..n
      OBVIOUS
    <3> QED
      BY <1>2, <3>1 DEF Traces, Falls
  <2>4. S \in SUBSET Int /\ \A y \in S : y <= w
    BY <2>2, <2>3
  <2>5. w \in S
    BY <1>2, <2>2 DEF Traces, Falls
  <2>6. Max(S) = w
    BY <2>4, <2>5, MaxIs
  <2> QED
    BY <2>1, <2>6 DEF WorstFall
<1> QED
  BY <1>1, <1>2, <1>4, <1>5

LEMMA AccountIs ==
  ASSUME NEW t
  PROVE  LET account == AccountOf(t)
             curve == Curve(t)
         IN  /\ account.maxDrawdown = curve.worst /\ account.balance = curve.balance
             /\ account.drawdown = curve.peak - curve.balance
BY DEF AccountOf
AccountInv == ClockInv /\ HistoriesInv /\ PlansInv /\ TradesInv /\ ViewsInv

LEMMA AccountInit == AInit => AccountInv
<1> SUFFICES ASSUME AInit PROVE AccountInv
  OBVIOUS
<1>1. ClockInv
  BY ClockInit
<1>2. /\ plans = << >> /\ trades = << >> /\ views = None /\ price = None /\ lock = Unlocked
      /\ histories = [prices |-> << >>, moves |-> << >>]
  BY DEF AInit, Started, NoViews
<1>3. HistoriesInv
  BY <1>2 DEF HistoriesInv
<1>4. PlansInv
  <2>1. Unlocked \in Locks /\ Unlocked.opened = None
    BY DEF Unlocked, Locks
  <2> QED
    BY <1>2, <2>1 DEF PlansInv
<1>5. TradesInv
  BY <1>2 DEF TradesInv
<1>6. ViewsInv
  BY <1>2 DEF ViewsInv
<1> QED
  BY <1>1, <1>3, <1>4, <1>5, <1>6 DEF AccountInv

LEMMA AccountFrame ==
  ASSUME AccountInv, NEW p, NEW side, NEW effect, NEW at, Framed(p, side, effect, at)
  PROVE  AccountInv'
<1>1. ClockInv /\ HistoriesInv /\ PlansInv /\ TradesInv
  BY DEF AccountInv
<1>2. p \in Nat /\ at \in Nat /\ at > now /\ now \in Nat
  BY <1>1 DEF Framed, ClockInv
<1>3. now' = at /\ price' = p /\ Planned(decision', p, at) /\ trades' = Booked
  BY FrameIs
<1>4. PICK d : d = decision'
  OBVIOUS
<1>5. Planned(d, p, at)
  BY <1>3, <1>4
<1>6. histories' = RecordPrice(RecordPrice(histories, p), p)
  BY <1>5 DEF Planned
<1>7. HistoriesInv'
  BY <1>1, <1>2, <1>3, <1>6, HistoriesStep
<1>8. PlansInv'
  BY <1>1, <1>2, <1>3, <1>5, <1>7, PlansStep
<1>9. TradesInv'
  BY <1>1, <1>2, <1>3, <1>5, <1>8, TradesStep
<1>10. ClockInv' /\ ViewsInv'
  BY <1>1, ClockFrame, ViewsFrame
<1> QED
  BY <1>7, <1>8, <1>9, <1>10 DEF AccountInv

LEMMA AccountNext == AccountInv /\ [ANext]_avars => AccountInv'
<1> SUFFICES ASSUME AccountInv, [ANext]_avars PROVE AccountInv'
  OBVIOUS
<1>1. ClockInv /\ HistoriesInv /\ PlansInv /\ TradesInv /\ ViewsInv
  BY DEF AccountInv
<1>2. now \in Nat
  BY <1>1 DEF ClockInv
<1>3. CASE Dies
  BY <1>1, <1>3, ClockDies, PlansDies, TradesDies, ViewsDies DEF AccountInv
<1>4. CASE Restart
  BY <1>1, <1>2, <1>4, ClockRestart, PlansRestart, TradesRestart, ViewsRestart DEF AccountInv
<1>5. CASE UNCHANGED avars
  <2>1. ClockInv'
    BY <1>1, <1>5 DEF avars, ClockInv, DecisionAfter
  <2>2. HistoriesInv' /\ PlansInv' /\ TradesInv'
    BY <1>1, <1>5 DEF avars, HistoriesInv, PlansInv, TradesInv
  <2>3. ViewsInv'
    BY <1>1, <1>5 DEF avars, ViewsInv
  <2> QED
    BY <2>1, <2>2, <2>3 DEF AccountInv
<1> QED
  BY <1>1, <1>3, <1>4, <1>5, NextIs, AccountFrame

\* The drawdown that the account shows is the deepest fall of its balance, and the present
\* one is the fall from its highest balance, for all trades, wins, losses and restarts:
\* _equity_curve walks the trades once, in the order of their exits, and keeps a peak.
THEOREM DrawdownIsRealHolds == ASpec => []DrawdownIsReal
<1>1. AccountInv => DrawdownIsReal
  <2> SUFFICES ASSUME AccountInv, Current
               PROVE  LET account == views.account.all
                          b == Balances(trades)
                      IN  /\ account.maxDrawdown = WorstFall(b)
                          /\ account.drawdown = Max({b[k] - b[Len(trades)] : k \in DOMAIN b})
                          /\ account.balance = b[Len(trades)]
    BY DEF DrawdownIsReal
  <2>1. views.account.all = AccountOf(trades)
    <3>1. views.account = SnapshotAt(trades, TradingDay(now), now)
      BY DEF AccountInv, ViewsInv, Current
    <3> QED
      BY <3>1 DEF SnapshotAt
  <2>2. PICK n, b, curve : n = Len(trades) /\ b = Balances(trades) /\ curve = Curve(trades)
    OBVIOUS
  <2>3. n \in Nat /\ b \in [0..n -> Int] /\ Traces(curve, b, n)
    BY <2>2, CurveTraces DEF AccountInv
  <2>4. /\ curve.balance = b[n] /\ curve.worst = WorstFall(b)
        /\ curve.peak - curve.balance = Max({b[k] - b[n] : k \in DOMAIN b})
    BY <2>3, DrawdownIs
  <2>5. PICK t, account : t = trades /\ account = AccountOf(t)
    OBVIOUS
  <2>6. /\ account.maxDrawdown = curve.worst /\ account.balance = curve.balance
        /\ account.drawdown = curve.peak - curve.balance
    BY <2>2, <2>5, AccountIs
  <2> QED
    BY <2>1, <2>2, <2>4, <2>5, <2>6
<1> QED
  BY <1>1, AccountInit, AccountNext, PTL DEF ASpec
-----------------------------------------------------------------------------
(* The inductive invariant: what the lock counts.                          *)

\* A window of several frames: a new signal comes after a frame without a decision, and
\* the first frame of a process has none.
LEMMA EdgesAre ==
  ASSUME ClockInv, StableWindow # 1,
         NEW p, NEW side, NEW effect, NEW at, Framed(p, side, effect, at)
  PROVE  /\ IsSignal(decision') => decision = "NO_TRADE"
         /\ decision' \in Sides /\ ~IsSignal(decision') => decision = decision'
         /\ decision = None => decision' = "NO_TRADE"
         /\ decision' \in Decisions /\ decision' # None
<1>1. side \in Sides \cup {"NONE"}
  BY DEF Framed
<1>2. StableWindow \in Nat \ {0, 1}
  BY AuditAssumption
<1>3. decision' = DecisionAfter(StreakAfter(side))
  BY FrameIs
<1>4. /\ streak \in [side : Sides \cup {"NONE"}, n : 0..StableWindow]
      /\ IF seen = << >> THEN decision = None /\ streak.n = 0
                         ELSE decision = DecisionAfter(streak)
      /\ streak.side = "NONE" => streak.n = 0
  BY DEF ClockInv
<1>5. PICK s : s = StreakAfter(side)
  OBVIOUS
<1>6. s.n = StableWindow => streak.side = s.side /\ streak.n >= 1 /\ s.side = side
  BY <1>1, <1>2, <1>4, <1>5 DEF StreakAfter
<1>7. decision' = IF s.n = StableWindow THEN s.side ELSE "NO_TRADE"
  BY <1>3, <1>5 DEF DecisionAfter
<1>8. streak.side \in Sides \cup {"NONE"} /\ streak.n \in Nat
  BY <1>2, <1>4
<1>9. s.n = StableWindow => seen # << >> /\ decision \in {"NO_TRADE", s.side} /\ s.side \in Sides
  BY <1>4, <1>6, <1>8 DEF DecisionAfter
<1>10. None \notin Decisions
  BY AuditAssumption DEF Decisions
<1>11. decision' \in Decisions
  BY ClockFrame
<1>12. decision = None => decision' = "NO_TRADE"
  BY <1>7, <1>9, <1>10 DEF Decisions, Sides
<1>13. IsSignal(decision') => decision = "NO_TRADE"
  BY <1>7, <1>9 DEF IsSignal, Sides
<1>14. decision' \in Sides /\ ~IsSignal(decision') => decision = decision'
  BY DEF IsSignal, Sides
<1> QED
  BY <1>10, <1>11, <1>12, <1>13, <1>14

\* A frame adds the record of its signal, if it has one.
LEMMA RecordsGrow ==
  ASSUME ClockInv, RecordsInv, NEW p, NEW side, NEW effect, NEW at,
         Framed(p, side, effect, at)
  PROVE  /\ Len(records) \in Nat
         /\ Len(records') = IF IsSignal(decision') THEN Len(records) + 1 ELSE Len(records)
         /\ opened' = IF IsSignal(decision') THEN opened + 1 ELSE opened
         /\ \A k \in 1..Len(records) : records'[k].at = records[k].at
         /\ IsSignal(decision') => records'[Len(records) + 1].at = at
<1>1. PICK R : R = WithNew(decision', p, at)
  OBVIOUS
<1>2. /\ R \in Seq(Signals)
      /\ \/ Len(R) = Len(records) /\ opened' = opened
         \/ Len(R) = Len(records) + 1 /\ opened' = opened + 1
      /\ \A k \in 1..Len(records) : R[k] = records[k]
      /\ Len(R) > Len(records) => IsSignal(decision') /\ NewAt(R[Len(R)], decision', p, at)
      /\ Len(R) = Len(records) => ~IsSignal(decision')
      /\ records' = EvaluatePending(R, p, at)
  BY <1>1, WithNewIs
<1>3. Len(records) \in Nat
  BY DEF RecordsInv
<1>4. \A k \in 1..Len(R) : records'[k].at = R[k].at
  <2>1. SUFFICES ASSUME NEW k \in 1..Len(R)
                 PROVE  records'[k].at = R[k].at
    OBVIOUS
  <2>2. PICK r : r = records'[k]
    OBVIOUS
  <2>3. k \in DOMAIN R
    BY <1>2
  <2>4. r.at = R[k].at
    BY <1>1, <2>2, <2>3, JudgedOnce
  <2> QED
    BY <2>2, <2>4
<1>5. Len(records') = Len(R)
  <2>1. DOMAIN records' = 1..Len(R) /\ Len(R) \in Nat
    BY <1>2 DEF EvaluatePending
  <2>2. records' \in Seq(Signals)
    BY RecordsFrame DEF RecordsInv
  <2> QED
    BY <2>1, <2>2
<1>6. IsSignal(decision') => NewAt(R[Len(records) + 1], decision', p, at)
  BY <1>2, <1>3
<1> QED
  BY <1>2, <1>3, <1>4, <1>5, <1>6 DEF NewAt

\* The plan that ends in a frame, if one does, is the newest.
Ends(p, at) ==
  plans # << >> /\ Open(plans[Len(plans)]) /\ ~Open(After(p, at)[Len(plans)])

LEMMA TradesGrow ==
  ASSUME PlansInv, TradesInv, TradesInv', PlansInv', now \in Nat,
         NEW d, NEW p \in Nat, NEW at \in Nat, at > now, Planned(d, p, at)
  PROVE  /\ Len(trades) \in Nat /\ Len(plans) <= Len(trades) + 1
         /\ Len(trades') = IF Ends(p, at) THEN Len(trades) + 1 ELSE Len(trades)
<1>1. PICK a, n, m, c, s : /\ a = After(p, at) /\ n = Len(plans) /\ m = Len(trades)
                           /\ c = Len(trades') /\ s = plans'
  OBVIOUS
<1>2. /\ n \in Nat /\ m \in Nat /\ m <= n /\ (plans # << >> <=> n # 0)
      /\ \A k \in 1..n : Open(plans[k]) <=> m < k
      /\ \A k \in 1..n : Open(plans[k]) => k = n
  BY <1>1 DEF PlansInv, TradesInv
<1>3. n <= m + 1
  <2>1. SUFFICES ASSUME n > m + 1
                 PROVE  FALSE
    BY <1>2
  <2>2. m + 1 \in 1..n
    BY <1>2, <2>1
  <2> QED
    BY <1>2, <2>1, <2>2
<1>4. c \in Nat /\ c <= Len(s) /\ \A k \in 1..Len(s) : Open(s[k]) <=> c < k
  BY <1>1 DEF TradesInv
<1>5. /\ a \in Seq(Plans) /\ Len(a) = n
      /\ \A k \in 1..n : ~Open(plans[k]) => ~Open(a[k])
  <2>1. Changed(plans, a, p, at)
    BY <1>1, AfterIs
  <2> QED
    BY <1>1, <2>1 DEF Changed
<1>6. PICK e : e = Entered(d, p, at)
  OBVIOUS
<1>7. Open(e)
  BY <1>6 DEF Entered, PlanFor, Open
<1>8. s = a \/ s = Append(a, e)
  BY <1>1, <1>6, PlannedIs
<1>9. /\ \A k \in 1..n : Open(a[k]) <=> c < k
      /\ c <= n
  <2>1. CASE s = a
    BY <1>4, <1>5, <2>1
  <2>2. CASE s = Append(a, e)
    <3>1. Len(s) = n + 1 /\ s[n + 1] = e /\ \A k \in 1..n : s[k] = a[k]
      BY <1>2, <1>5, <2>2
    <3>2. \A k \in 1..n : k \in 1..(n + 1)
      BY <1>2
    <3>3. n + 1 \in 1..(n + 1)
      BY <1>2
    <3> QED
      BY <1>2, <1>4, <1>7, <3>1, <3>2, <3>3
  <2> QED
    BY <1>8, <2>1, <2>2
<1>10. CASE m = n
  <2>1. n # 0 => n \in 1..n /\ ~Open(plans[n]) /\ ~Open(a[n])
    BY <1>2, <1>5, <1>10
  <2>2. c = n
    BY <1>2, <1>4, <1>9, <2>1
  <2> QED
    BY <1>1, <1>2, <1>10, <2>1, <2>2 DEF Ends
<1>11. CASE n = m + 1
  <2>1. n \in 1..n /\ Open(plans[n]) /\ n # 0
    BY <1>2, <1>11
  <2>2. m # 0 => m \in 1..n /\ ~Open(a[m])
    BY <1>2, <1>5, <1>11
  <2>3. m <= c
    BY <1>2, <1>4, <1>9, <2>2
  <2>4. Open(a[n]) <=> c < n
    BY <1>9, <2>1
  <2> QED
    BY <1>1, <1>2, <1>4, <1>9, <1>11, <2>1, <2>3, <2>4 DEF Ends
<1> QED
  BY <1>1, <1>2, <1>3, <1>10, <1>11
\* Each signal of this process opened a plan or was stopped, and each plan that it saw
\* close is counted; a plan is blocked when a signal came after it.
CountInv ==
  /\ began.plans \in Nat /\ began.open \in Nat
  /\ Len(records) = Len(plans) - began.plans + lock.buys + lock.sells
  /\ Len(lock.closedFor) = Len(trades) - began.plans + began.open
  /\ Len(trades) < Len(plans) =>
       (lock.blockedAt # None <=> \E k \in 1..Len(records) : records[k].at > lock.opened)
  /\ decision # None => planned.engine = decision

LEMMA ReleasedCounts ==
  ASSUME PlansInv, now \in Nat, NEW p \in Nat, NEW at \in Nat, at > now
  PROVE  IF Ends(p, at) THEN Len(Released(p, at).closedFor) = Len(lock.closedFor) + 1
                        ELSE Released(p, at) = lock
<1>1. CASE ~Ends(p, at)
  BY <1>1, ReleasedIs DEF Ends
<1>2. CASE Ends(p, at)
  <2>1. PICK plan, r : plan = After(p, at)[Len(plans)] /\ r = Released(p, at)
    OBVIOUS
  <2>2. r = OnPlanClosed(lock, plan)
    BY <1>2, <2>1, ReleasedIs DEF Ends
  <2>3. PICK held : r.closedFor = Append(lock.closedFor, held)
    <3>1. lock \in Locks
      BY DEF PlansInv
    <3>2. PICK held, c : /\ held = LET opened_ == IF Locked(lock) THEN lock.opened ELSE plan.at
                                   IN  IF plan.closed > opened_ THEN plan.closed - opened_ ELSE 0
                         /\ c = Append(lock.closedFor, held)
      OBVIOUS
    <3>3. r = [lock EXCEPT !.closedFor = c, !.opened = None, !.blockedAt = None]
      BY <2>2, <3>2 DEF OnPlanClosed
    <3>4. r.closedFor = c
      BY <3>1, <3>3 DEF Locks
    <3> QED
      BY <3>2, <3>4
  <2>4. lock.closedFor \in Seq(Nat)
    BY DEF PlansInv, Locks
  <2>5. Len(Append(lock.closedFor, held)) = Len(lock.closedFor) + 1
    BY <2>4
  <2> QED
    BY <1>2, <2>1, <2>3, <2>5
<1> QED
  BY <1>1, <1>2

LEMMA CountFrame ==
  ASSUME AccountInv, RecordsInv, CountInv, StableWindow # 1,
         NEW p, NEW side, NEW effect, NEW at, Framed(p, side, effect, at)
  PROVE  CountInv'
<1>1. /\ p \in Nat /\ at \in Nat /\ at > now /\ now \in Nat
      /\ ClockInv /\ PlansInv /\ TradesInv
  BY DEF Framed, ClockInv, AccountInv
<1>2. AccountInv' /\ RecordsInv'
  BY <1>1, AccountFrame, RecordsFrame
<1>3. PlansInv' /\ TradesInv'
  BY <1>2 DEF AccountInv
<1>4. PICK d, r, a : d = decision' /\ r = Released(p, at) /\ a = After(p, at)
  OBVIOUS
<1>5. Planned(d, p, at) /\ began' = began /\ now' = at
  BY <1>4, FrameIs
<1>6. /\ IsSignal(d) => decision = "NO_TRADE"
      /\ d # None /\ "NO_TRADE" \notin Sides
      /\ IsSignal(d) => d \in Sides /\ d # "NO_TRADE"
      /\ "NO_TRADE" # None
  <2>1. "NO_TRADE" # None
    BY AuditAssumption
  <2> QED
    BY <1>1, <1>4, <2>1, EdgesAre DEF IsSignal, Sides
<1>7. PICK n, m, l : n = Len(plans) /\ m = Len(trades) /\ l = Len(records)
  OBVIOUS
<1>8. /\ n \in Nat /\ m \in Nat /\ l \in Nat /\ m <= n
      /\ Len(trades') = IF Ends(p, at) THEN m + 1 ELSE m
      /\ n <= m + 1
  <2>1. n \in Nat /\ m <= n /\ l \in Nat
    BY <1>1, <1>7 DEF PlansInv, TradesInv, RecordsInv
  <2> QED
    BY <1>1, <1>3, <1>5, <1>7, <2>1, TradesGrow
<1>9. /\ Len(records') = IF IsSignal(d) THEN l + 1 ELSE l
      /\ \A k \in 1..l : records'[k].at = records[k].at
      /\ IsSignal(d) => records'[l + 1].at = at
  BY <1>1, <1>4, <1>7, RecordsGrow
<1>10. /\ r \in Locks /\ r.buys = lock.buys /\ r.sells = lock.sells
       /\ IF Ends(p, at) THEN Len(r.closedFor) = Len(lock.closedFor) + 1 ELSE r = lock
       /\ lock \in Locks
  <2>1. r \in Locks /\ r.buys = lock.buys /\ r.sells = lock.sells
    BY <1>1, <1>4, ReleasedKnows
  <2>2. IF Ends(p, at) THEN Len(r.closedFor) = Len(lock.closedFor) + 1 ELSE r = lock
    BY <1>1, <1>4, ReleasedCounts
  <2> QED
    BY <1>1, <2>1, <2>2 DEF PlansInv
<1>11. a \in Seq(Plans) /\ Len(a) = n
  <2>1. Changed(plans, a, p, at)
    BY <1>1, <1>4, AfterIs
  <2> QED
    BY <1>7, <2>1 DEF Changed
<1>12. planned'.engine = d
  BY <1>5 DEF Planned
<1>13. /\ began.plans \in Nat /\ began.open \in Nat
       /\ l = n - began.plans + lock.buys + lock.sells
       /\ Len(lock.closedFor) = m - began.plans + began.open
       /\ m < n => (lock.blockedAt # None <=> \E k \in 1..l : records[k].at > lock.opened)
       /\ decision # None => planned.engine = decision
  BY <1>7 DEF CountInv
<1>14. /\ r.buys \in Nat /\ r.sells \in Nat /\ Len(r.closedFor) \in Nat
       /\ Len(lock.closedFor) \in Nat
  <2>1. r.closedFor \in Seq(Nat) /\ lock.closedFor \in Seq(Nat)
    BY <1>10 DEF Locks
  <2> QED
    BY <1>10, <2>1 DEF Locks
<1>15. Len(r.closedFor) = Len(trades') - began.plans + began.open
  BY <1>8, <1>10, <1>13, <1>14
<1>16. /\ l = n - began.plans + r.buys + r.sells
       /\ l + 1 = (n + 1) - began.plans + r.buys + r.sells
       /\ \A b, s \in Nat : b + s = r.buys + r.sells + 1 => l + 1 = n - began.plans + b + s
  <2>1. PICK g \in Nat, x \in Nat, y \in Nat : g = began.plans /\ x = r.buys /\ y = r.sells
    BY <1>13, <1>14
  <2>2. l = n - g + x + y
    BY <1>10, <1>13, <2>1
  <2>3. l \in Nat /\ n \in Nat
    BY <1>8
  <2>4. l + 1 = (n + 1) - g + x + y
    BY <2>2, <2>3
  <2>5. \A b, s \in Nat : b + s = x + y + 1 => l + 1 = n - g + b + s
    BY <2>2, <2>3
  <2> QED
    BY <2>1, <2>2, <2>4, <2>5
<1>17. CASE /\ IsSignal(d) /\ ~Locked(r) /\ d # planned.engine
            /\ plans' = Append(a, Entered(d, p, at))
            /\ lock' = OnPlanActivated(r, plans'[Len(plans')])
  <2>1. Len(plans') = n + 1
    BY <1>11, <1>17
  <2>2. PICK t : t = plans'[Len(plans')].at
    OBVIOUS
  <2>3. t = at
    <3>1. plans'[Len(plans')] = Entered(d, p, at)
      BY <1>8, <1>11, <1>17
    <3> QED
      BY <2>2, <3>1 DEF Entered, PlanFor
  <2>4. lock' = [r EXCEPT !.opened = t, !.blockedAt = None]
    BY <1>17, <2>2 DEF OnPlanActivated
  <2>5. /\ lock'.buys = r.buys /\ lock'.sells = r.sells /\ lock'.closedFor = r.closedFor
        /\ lock'.blockedAt = None /\ lock'.opened = at
    BY <1>10, <2>3, <2>4 DEF Locks
  <2>6. Len(records') = Len(plans') - began.plans + lock'.buys + lock'.sells
    <3>1. Len(records') = l + 1 /\ Len(plans') = n + 1
      BY <1>9, <1>17, <2>1
    <3>2. l + 1 = (n + 1) - began.plans + r.buys + r.sells
      BY <1>16
    <3> QED
      BY <2>5, <3>1, <3>2
  <2>7. \A k \in 1..Len(records') : ~(records'[k].at > lock'.opened)
    <3>1. \A k \in 1..Len(records') : records'[k].at <= now' /\ records'[k].at \in Nat
      <4>1. \A k \in 1..Len(records') : records'[k] \in Signals
        BY <1>2 DEF RecordsInv
      <4>2. \A k \in 1..Len(records') : records'[k].at <= now'
        BY <1>2 DEF RecordsInv
      <4> QED
        BY <4>1, <4>2 DEF Signals
    <3> QED
      BY <1>1, <1>5, <2>5, <3>1
  <2> QED
    BY <1>5, <1>12, <1>4, <1>13, <1>15, <2>5, <2>6, <2>7 DEF CountInv
<1>18. CASE IsSignal(d) /\ d = planned.engine
  BY <1>6, <1>13, <1>18
<1>19. CASE IsSignal(d) /\ Locked(r) /\ plans' = a /\ lock' = RecordBlocked(r, d, at)
  <2>1. PICK b, s : /\ b = IF d = "BUY" THEN r.buys + 1 ELSE r.buys
                    /\ s = IF d = "SELL" THEN r.sells + 1 ELSE r.sells
    OBVIOUS
  <2>2. lock' = [r EXCEPT !.buys = b, !.sells = s, !.blockedAt = at]
    BY <1>19, <2>1 DEF RecordBlocked
  <2>3. /\ lock'.buys = b /\ lock'.sells = s /\ lock'.closedFor = r.closedFor
        /\ lock'.blockedAt = at /\ lock'.opened = r.opened
    BY <1>10, <2>2 DEF Locks
  <2>4. b + s = r.buys + r.sells + 1 /\ b \in Nat /\ s \in Nat
    BY <1>6, <1>14, <1>19, <2>1 DEF Sides
  <2>5. Len(records') = Len(plans') - began.plans + lock'.buys + lock'.sells
    <3>1. Len(records') = l + 1 /\ Len(plans') = n
      BY <1>9, <1>11, <1>19
    <3>2. l + 1 = n - began.plans + b + s
      BY <1>16, <2>4
    <3> QED
      BY <2>3, <3>1, <3>2
  <2>6. at # None
    BY <1>1, AuditAssumption
  <2>7. r.opened \in Nat /\ r.opened <= now
    <3>1. PICK plan : plan = a[n]
      OBVIOUS
    <3>2. r.opened = IF n # 0 /\ Open(plan) THEN plan.at ELSE None
      BY <1>1, <1>4, <1>7, <1>8, <3>1, ReleasedKnows DEF PlansInv
    <3>3. n # 0 /\ r.opened = plan.at
      BY <1>19, <3>2 DEF Locked
    <3>4. plan \in Plans /\ plan.at = plans[n].at /\ plans[n].at <= now
      <4>1. Changed(plans, a, p, at) /\ n \in 1..n
        BY <1>1, <1>4, <1>8, <3>3, AfterIs
      <4> QED
        BY <1>1, <1>7, <1>8, <1>11, <3>1, <4>1 DEF Changed, PlansInv
    <3> QED
      BY <3>3, <3>4 DEF Plans
  <2>8. \E k \in 1..Len(records') : records'[k].at > lock'.opened
    <3>1. l + 1 \in 1..Len(records') /\ records'[l + 1].at = at
      BY <1>8, <1>9, <1>19
    <3> QED
      BY <1>1, <2>3, <2>7, <3>1
  <2> QED
    BY <1>4, <1>5, <1>12, <1>13, <1>15, <2>3, <2>5, <2>6, <2>8 DEF CountInv
<1>20. CASE ~IsSignal(d) /\ plans' = a /\ lock' = r
  <2>1. Len(records') = l /\ Len(plans') = n
    BY <1>9, <1>11, <1>20
  <2>2. Len(trades') < Len(plans') => r = lock /\ m < n
    BY <1>8, <1>10, <2>1
  <2>3. Len(records') = Len(plans') - began.plans + lock'.buys + lock'.sells
    BY <1>10, <1>13, <1>20, <2>1
  <2>4. Len(trades') < Len(plans') =>
          (lock'.blockedAt # None <=> \E k \in 1..Len(records') : records'[k].at > lock'.opened)
    BY <1>9, <1>13, <1>20, <2>1, <2>2
  <2> QED
    BY <1>4, <1>5, <1>12, <1>13, <1>15, <1>20, <2>3, <2>4 DEF CountInv
<1> QED
  BY <1>4, <1>5, <1>17, <1>18, <1>19, <1>20, PlannedIs

LEMMA CountInit == AInit => CountInv
<1> SUFFICES ASSUME AInit PROVE CountInv
  OBVIOUS
<1>1. /\ plans = << >> /\ trades = << >> /\ records = << >> /\ lock = Unlocked
      /\ began = [store |-> NoStore, plans |-> 0, open |-> 0] /\ decision = None
  BY DEF AInit, Started
<1>2. Unlocked.buys = 0 /\ Unlocked.sells = 0 /\ Unlocked.closedFor = << >>
  BY DEF Unlocked
<1> QED
  BY <1>1, <1>2 DEF CountInv

\* The plans that are open are those that the account does not hold.
LEMMA ActiveCount ==
  ASSUME PlansInv, TradesInv
  PROVE  /\ Len(plans) \in Nat /\ Len(trades) \in Nat
         /\ Cardinality(Active) = Len(plans) - Len(trades)
         /\ Active # {} <=> Len(trades) < Len(plans)
         /\ Active = {k \in 1..Len(plans) : Open(plans[k])}
<1>1. PICK n, m, A : n = Len(plans) /\ m = Len(trades) /\ A = Active
  OBVIOUS
<1>2. n \in Nat /\ m \in Nat /\ m <= n /\ DOMAIN plans = 1..n
  BY <1>1 DEF PlansInv, TradesInv
<1>3. A = {k \in 1..n : Open(plans[k])}
  BY <1>1, <1>2 DEF Active, Open
<1>4. A = (m + 1)..n
  BY <1>1, <1>2, <1>3 DEF TradesInv
<1>5. Cardinality((m + 1)..n) = IF m + 1 > n THEN 0 ELSE n - (m + 1) + 1
  BY <1>2, FS_Interval
<1>6. Cardinality(A) = n - m
  BY <1>2, <1>4, <1>5
<1>7. A # {} <=> m < n
  BY <1>2, <1>4
<1> QED
  BY <1>1, <1>2, <1>3, <1>6, <1>7

LEMMA CountRestart ==
  ASSUME PlansInv, TradesInv, Restart
  PROVE  CountInv'
<1>1. /\ records' = << >> /\ decision' = None /\ plans' = plans /\ trades' = trades
      /\ began' = [store |-> store', plans |-> Len(plans), open |-> Cardinality(Active)]
  BY RestartIs
<1>2. /\ Len(plans) \in Nat /\ Len(trades) \in Nat
      /\ Cardinality(Active) = Len(plans) - Len(trades)
      /\ Len(trades) <= Len(plans)
  BY ActiveCount DEF TradesInv
<1>3. /\ lock'.buys = 0 /\ lock'.sells = 0 /\ lock'.closedFor = << >>
      /\ lock'.blockedAt = None
  <2>1. PICK plan : lock' = Unlocked \/ lock' = OnPlanActivated(Unlocked, plan)
    BY LockRestart
  <2>2. PICK t : lock' = Unlocked \/ lock' = [Unlocked EXCEPT !.opened = t, !.blockedAt = None]
    BY <2>1 DEF OnPlanActivated
  <2>3. /\ Unlocked \in Locks /\ Unlocked.buys = 0 /\ Unlocked.sells = 0
        /\ Unlocked.closedFor = << >> /\ Unlocked.blockedAt = None
    BY DEF Unlocked, Locks
  <2> QED
    BY <2>2, <2>3 DEF Locks
<1>4. began'.plans = Len(plans) /\ began'.open = Len(plans) - Len(trades)
  BY <1>1, <1>2
<1>5. Len(records') = Len(plans') - began'.plans + lock'.buys + lock'.sells
  BY <1>1, <1>2, <1>3, <1>4
<1>6. Len(lock'.closedFor) = Len(trades') - began'.plans + began'.open
  BY <1>1, <1>2, <1>3, <1>4
<1>7. ~ \E k \in 1..Len(records') : records'[k].at > lock'.opened
  BY <1>1
<1> QED
  BY <1>1, <1>2, <1>3, <1>4, <1>5, <1>6, <1>7 DEF CountInv

LEMMA CountSame ==
  ASSUME CountInv, UNCHANGED <<began, records, plans, trades, lock, decision, planned>>
  PROVE  CountInv'
BY DEF CountInv

PlanCountsInv == AccountInv /\ RecordsInv /\ CountInv

LEMMA PlanCountsInit == AInit => PlanCountsInv
<1>1. AInit => RecordsInv
  BY DEF AInit, Started, RecordsInv
<1> QED
  BY <1>1, AccountInit, CountInit DEF PlanCountsInv

LEMMA PlanCountsNext ==
  ASSUME StableWindow # 1
  PROVE  PlanCountsInv /\ [ANext]_avars => PlanCountsInv'
<1> SUFFICES ASSUME PlanCountsInv, [ANext]_avars PROVE PlanCountsInv'
  OBVIOUS
<1>1. AccountInv /\ RecordsInv /\ CountInv /\ ClockInv /\ PlansInv /\ TradesInv
  BY DEF PlanCountsInv, AccountInv
<1>2. AccountInv'
  BY <1>1, AccountNext
<1>3. CASE Dies
  <2>1. RecordsInv'
    BY <1>1, <1>3, RecordsDies
  <2>2. CountInv'
    BY <1>1, <1>3, CountSame DEF Dies
  <2> QED
    BY <1>2, <2>1, <2>2 DEF PlanCountsInv
<1>4. CASE Restart
  BY <1>1, <1>2, <1>4, RecordsRestart, CountRestart DEF PlanCountsInv
<1>5. CASE UNCHANGED avars
  <2>1. RecordsInv'
    BY <1>1, <1>5 DEF avars, RecordsInv, GainsOf, Pending
  <2>2. CountInv'
    BY <1>1, <1>5, CountSame DEF avars
  <2> QED
    BY <1>2, <2>1, <2>2 DEF PlanCountsInv
<1>6. ASSUME NEW p \in Nat, NEW side \in Sides \cup {"NONE"}, NEW effect \in Memories,
             NEW at \in Nat, Framed(p, side, effect, at)
      PROVE  PlanCountsInv'
  BY <1>1, <1>2, <1>6, RecordsFrame, CountFrame DEF PlanCountsInv
<1> QED
  BY <1>1, <1>3, <1>4, <1>5, <1>6, NextIs

\* The panels of the lock and of the plan, by what is open.
LEMMA PositionIs ==
  ASSUME NEW l, NEW plan, NEW p, NEW t
  PROVE  LET position == PositionOf(l, plan, p, t)
         IN  /\ position.status = IF ~Locked(l) THEN "IDLE"
                                  ELSE IF l.blockedAt # None THEN "BLOCKED" ELSE "ACTIVE"
             /\ position.stopped.buys = l.buys /\ position.stopped.sells = l.sells
             /\ position.closed = Len(l.closedFor)
             /\ position.standing = IF Locked(l) /\ plan # None THEN Standing(plan, p)
                                    ELSE None
BY DEF PositionOf

LEMMA ViewPlanIs ==
  ASSUME PlansInv, TradesInv, Len(trades) < Len(plans)
  PROVE  /\ ViewPlan(plans) = plans[Len(plans)] /\ plans[Len(plans)] \in Plans
         /\ Open(plans[Len(plans)]) /\ Len(plans) \in 1..Len(plans)
         /\ plans[Len(plans)] # None
<1>1. PICK s, n : s = plans /\ n = Len(plans)
  OBVIOUS
<1>2. /\ n \in Nat /\ n = Len(s) /\ DOMAIN s = 1..n /\ s \in Seq(Plans)
      /\ \A k \in 1..n : Open(s[k]) => k = n
  BY <1>1 DEF PlansInv
<1>3. n \in 1..n /\ Open(s[n])
  BY <1>1, <1>2 DEF TradesInv
<1>4. {k \in DOMAIN s : s[k].result = "NONE"} = {n}
  BY <1>2, <1>3 DEF Open
<1>5. (CHOOSE k \in {n} : TRUE) = n
  OBVIOUS
<1>6. ViewPlan(s) = s[n]
  BY <1>4, <1>5 DEF ViewPlan
<1>7. s[n] \in Plans
  BY <1>2, <1>3
<1>8. s[n] # None
  BY <1>7, AuditAssumption
<1> QED
  BY <1>1, <1>3, <1>6, <1>7, <1>8

LEMMA PlansAreCounted == ASSUME PlanCountsInv, Current PROVE PlansAddUp
<1>1. /\ ClockInv /\ PlansInv /\ TradesInv /\ ViewsInv /\ RecordsInv /\ CountInv
  BY DEF PlanCountsInv, AccountInv
<1>2. PICK n, m, l, A : n = Len(plans) /\ m = Len(trades) /\ l = Len(records) /\ A = Active
  OBVIOUS
<1>3. /\ n \in Nat /\ m \in Nat /\ Cardinality(A) = n - m /\ (A # {} <=> m < n)
      /\ A = {k \in 1..n : Open(plans[k])} /\ m <= n
  BY <1>1, <1>2, ActiveCount DEF TradesInv
<1>4. PICK plan, view, position, panel :
        /\ plan = IF A = {} THEN None ELSE ViewPlan(plans)
        /\ view = ViewPlan(plans)
        /\ position = PositionOf(lock, plan, price, now)
        /\ panel = TradePlanPanel(view, price, now)
  OBVIOUS
<1>5. views.position = position /\ views.plan = panel /\ seen # << >>
  <2>1. A = {k \in DOMAIN plans : plans[k].result = "NONE"}
    BY <1>2 DEF Active
  <2>2. views # None
    BY DEF Current
  <2> DEFINE open == {k \in DOMAIN plans : plans[k].result = "NONE"}
               life == BuildViews(store, records, now)
               account == SnapshotAt(trades, TradingDay(now), now)
               perf == PerformancePanel(records, TimingSummary(audits))
               frequencies == [d \in Decisions |-> Frequency(statistics, d)]
               lockPanel == PositionOf(lock, IF open = {} THEN None ELSE ViewPlan(plans),
                                       price, now)
               planPanel == TradePlanPanel(ViewPlan(plans), price, now)
               last == LastSignal(records, lastEffect)
  <2>4. seen # << >> /\ views = [lifetime |-> life, account |-> account, performance |-> perf,
                    statistics |-> frequencies, position |-> lockPanel, plan |-> planPanel,
                    signal |-> last]
    BY <1>1, <2>2 DEF ViewsInv
  <2>5. views.position = lockPanel /\ views.plan = planPanel
    <3> HIDE DEF life, account, perf, frequencies, lockPanel, planPanel, last
    <3> QED
      BY <2>4
  <2>6. lockPanel = position /\ planPanel = panel
    <3>1. open = A
      BY <2>1
    <3> HIDE DEF open
    <3> QED
      BY <1>4, <3>1
  <2> QED
    BY <2>4, <2>5, <2>6
<1>6. /\ position.status = IF ~Locked(lock) THEN "IDLE"
                           ELSE IF lock.blockedAt # None THEN "BLOCKED" ELSE "ACTIVE"
      /\ position.stopped.buys = lock.buys /\ position.stopped.sells = lock.sells
      /\ position.closed = Len(lock.closedFor)
      /\ position.standing = IF Locked(lock) /\ plan # None THEN Standing(plan, price) ELSE None
  BY <1>4, PositionIs
<1>7. Locked(lock) <=> m < n
  <2>1. lock.opened = IF plans # << >> /\ Open(plans[n]) THEN plans[n].at ELSE None
    BY <1>1, <1>2 DEF PlansInv
  <2>2. plans # << >> <=> n # 0
    BY <1>1, <1>2 DEF PlansInv
  <2>3. n # 0 => n \in 1..n /\ plans[n] \in Plans /\ (Open(plans[n]) <=> m < n)
    BY <1>1, <1>2, <1>3 DEF PlansInv, TradesInv
  <2>4. n # 0 => plans[n].at # None
    BY <2>3, AuditAssumption DEF Plans
  <2> QED
    BY <1>3, <2>1, <2>2, <2>3, <2>4 DEF Locked
<1>8. /\ l = n - began.plans + lock.buys + lock.sells
      /\ Len(lock.closedFor) = m - began.plans + began.open
      /\ m < n => (lock.blockedAt # None <=> \E k \in 1..l : records[k].at > lock.opened)
      /\ began.plans \in Nat /\ began.open \in Nat /\ lock.buys \in Nat /\ lock.sells \in Nat
  BY <1>1, <1>2 DEF CountInv, PlansInv, Locks
<1>9. l = n - began.plans + (position.stopped.buys + position.stopped.sells)
  BY <1>3, <1>6, <1>8
<1>10. (position.status # "IDLE") <=> (A # {})
  BY <1>3, <1>6, <1>7
<1>11. position.closed = n - began.plans + began.open - Cardinality(A)
  BY <1>3, <1>6, <1>8
<1>12. ASSUME m < n
       PROVE  /\ panel.mode = "ACTIVE" /\ panel.standing = position.standing
              /\ position.standing.toStop > 0 /\ position.standing.toTarget > 0
  <2>1. /\ view = plans[n] /\ plan = view /\ Open(view) /\ view # None /\ n \in 1..n
    <3>1. Len(trades) < Len(plans)
      BY <1>2, <1>12
    <3>2. /\ ViewPlan(plans) = plans[Len(plans)] /\ Open(plans[Len(plans)])
          /\ Len(plans) \in 1..Len(plans) /\ plans[Len(plans)] # None
      BY <1>1, <3>1, ViewPlanIs
    <3>3. view = plans[n] /\ Open(plans[n]) /\ n \in 1..n /\ plans[n] # None
      BY <1>2, <1>4, <3>2
    <3>4. A # {}
      BY <1>3, <1>12
    <3>5. plan = view
      BY <1>4, <3>4
    <3> QED
      BY <3>3, <3>5
  <2>2. panel.mode = "ACTIVE" /\ panel.standing = Standing(view, price)
    <3>1. panel = [mode |-> "ACTIVE", standing |-> Standing(view, price),
                   risk |-> Risk(view), held |-> now - view.at]
      BY <1>4, <2>1, Zenon DEF TradePlanPanel, Open
    <3> QED
      BY <3>1
  <2>3. position.standing = Standing(view, price)
    BY <1>6, <1>7, <1>12, <2>1
  <2>4. Inside(view, price)
    BY <1>1, <1>2, <1>5, <2>1 DEF PlansInv
  <2> QED
    BY <2>2, <2>3, <2>4 DEF Inside
<1>13. ASSUME m < n
       PROVE  (position.status = "BLOCKED")
                <=> Cardinality({k \in DOMAIN records : records[k].at > lock.opened}) > 0
  <2>1. PICK S : S = {k \in DOMAIN records : records[k].at > lock.opened}
    OBVIOUS
  <2>2. l \in Nat /\ DOMAIN records = 1..l
    BY <1>1, <1>2 DEF RecordsInv
  <2>3. IsFiniteSet(S) /\ Cardinality(S) \in Nat
    <3>1. IsFiniteSet(1..l) /\ S \subseteq 1..l
      BY <2>1, <2>2, FS_Interval
    <3> QED
      BY <3>1, FS_Subset, FS_CardinalityType
  <2>4. Cardinality(S) > 0 <=> S # {}
    BY <2>3, FS_EmptySet
  <2>5. S # {} <=> \E k \in 1..l : records[k].at > lock.opened
    BY <2>1, <2>2
  <2> QED
    BY <1>6, <1>7, <1>8, <1>13, <2>1, <2>4, <2>5
<1> QED
  BY <1>2, <1>3, <1>5, <1>9, <1>10, <1>11, <1>12, <1>13 DEF PlansAddUp

\* Every signal opened a plan or was stopped by the one that was open, and the panels of
\* the lock and of the plan agree on what is open, on what closed, and on whether a signal
\* was stopped since: for all prices, restarts and windows of several frames.
THEOREM PlansAddUpHolds ==
  ASSUME StableWindow # 1
  PROVE  ASpec => [](Current => PlansAddUp)
<1>1. PlanCountsInv => (Current => PlansAddUp)
  BY PlansAreCounted
<1>2. PlanCountsInv /\ [ANext]_avars => PlanCountsInv'
  BY PlanCountsNext
<1> QED
  BY <1>1, <1>2, PlanCountsInit, PTL DEF ASpec

-----------------------------------------------------------------------------
(* The inductive invariant: what the store holds, while it has room.       *)

\* A signal of this process, as it is stored.
Files(s, r) ==
  /\ s.id = r.id /\ s.side = r.side /\ s.at = r.at /\ s.day = TradingDay(r.at)
  /\ s.label = LabelOf(r.result) /\ s.points = r.points

\* The store holds the signals that it was found with, and after them the judged ones of
\* this process in their order.
FoundInv ==
  /\ Len(began.store.signals) <= opened - Len(records)
  /\ \A k \in 1..Len(began.store.signals) :
       /\ began.store.signals[k].id <= opened - Len(records)
       /\ began.store.signals[k].day = TradingDay(began.store.signals[k].at)
  /\ Len(store.signals) = Len(began.store.signals) + Len(audits)
  /\ \A k \in 1..Len(began.store.signals) : store.signals[k] = began.store.signals[k]
  /\ \A k \in 1..Len(audits) :
       /\ Files(store.signals[Len(began.store.signals) + k], records[k])
       /\ \/ store.signals[Len(began.store.signals) + k].mfe = audits[k].mfe
          \/ Confused
  /\ store.ids = {store.signals[k].id : k \in 1..Len(store.signals)}

\* The judged signals are the oldest ones.
LEMMA JudgedAre ==
  ASSUME RecordsInv, PathsInv
  PROVE  /\ Len(records) \in Nat /\ Len(audits) \in Nat /\ Len(audits) <= Len(records)
         /\ \A k \in 1..Len(records) : Pending(records[k]) <=> Len(audits) < k
<1>1. PICK n, a, b : n = Len(records) /\ a = Len(audits) /\ b = Len(paths)
  OBVIOUS
<1>2. n \in Nat /\ a \in Nat /\ b \in Nat /\ n = a + b
  BY <1>1 DEF RecordsInv, PathsInv
<1>3. ASSUME NEW k \in 1..n, a < k
      PROVE  Pending(records[k])
  <2>1. PICK i : i = k - a
    OBVIOUS
  <2>2. i \in 1..b /\ a + i = k
    BY <1>2, <1>3, <2>1
  <2> QED
    BY <1>1, <2>2 DEF PathsInv
<1>4. \A k \in 1..a : ~Pending(records[k])
  BY <1>1 DEF PathsInv
<1> QED
  BY <1>1, <1>2, <1>3, <1>4

LEMMA AuditsGrow ==
  ASSUME ClockInv, RecordsInv, PathsInv, NEW p, NEW side, NEW effect, NEW at,
         Framed(p, side, effect, at)
  PROVE  /\ Len(audits) <= Len(audits')
         /\ \A k \in 1..Len(audits) : audits'[k] = audits[k]
<1>1. PICK R, a : R = WithNew(decision', p, at) /\ a = Len(audits)
  OBVIOUS
<1>2. PICK b \in Nat, done \in Seq(AuditsMade), open \in Seq(OpenPaths) :
        Parted(R, at, b, done, open)
  BY <1>1, PathsStep
<1>3. /\ audits \in Seq(AuditsMade) /\ a \in Nat /\ audits' = audits \o done /\ Len(done) = b
  BY <1>1, <1>2 DEF Parted, PathsInv
<1>4. PICK s : s = audits \o done
  OBVIOUS
<1>5. /\ Len(s) = a + b
      /\ \A k \in 1..(a + b) : s[k] = IF k <= a THEN audits[k] ELSE done[k - a]
  BY <1>1, <1>3, <1>4, ConcatProperties
<1> QED
  BY <1>1, <1>3, <1>4, <1>5

\* The audit that the store finds is the signal's own, if two signals are never confused.
OwnAudit(k) ==
  k \in 1..Len(audits) => AuditOf(audits, records[k]).mfe = audits[k].mfe \/ Confused

LEMMA OwnAuditIs ==
  ASSUME NEW k
  PROVE  ClockInv /\ RecordsInv /\ PathsInv => OwnAudit(k)
<1>1. SUFFICES ASSUME ClockInv, RecordsInv, PathsInv, k \in 1..Len(audits)
               PROVE  AuditOf(audits, records[k]).mfe = audits[k].mfe \/ Confused
  BY DEF OwnAudit
<1>2. /\ Len(audits) \in Nat /\ Len(records) \in Nat /\ Len(audits) <= Len(records)
      /\ DOMAIN audits = 1..Len(audits) /\ DOMAIN records = 1..Len(records)
      /\ records[k] \in Signals
  BY <1>1, JudgedAre DEF PathsInv, RecordsInv
<1>3. PICK r, K, m : /\ r = records[k] /\ K = {j \in DOMAIN audits : Matches(audits[j], r)}
                     /\ m = Min(K)
  OBVIOUS
<1>4. k \in K
  <2>1. Fits(audits[k], r) /\ r.at \in Nat /\ Near \in Nat
    BY <1>1, <1>2, <1>3, StoreAssumption DEF PathsInv, Signals
  <2> QED
    BY <1>1, <1>2, <1>3, <2>1 DEF Matches, Fits
<1>5. m \in K
  <2>1. K \in SUBSET Nat
    BY <1>2, <1>3
  <2> QED
    BY <1>3, <1>4, <2>1, FirstOf
<1>6. AuditOf(audits, r).mfe = audits[m].mfe
  BY <1>3, <1>4 DEF AuditOf
<1>7. ASSUME m # k
      PROVE  Confused
  <2>1. m \in DOMAIN audits /\ Matches(audits[m], r) /\ m \in DOMAIN records
    BY <1>2, <1>3, <1>5
  <2>2. Fits(audits[m], records[m])
    BY <1>1, <1>2, <2>1 DEF PathsInv
  <2>3. records[m].id # r.id
    BY <1>1, <1>2, <1>3, <1>7, <2>1 DEF RecordsInv, ClockInv
  <2>4. Twin(records[m], r)
    BY <2>1, <2>2, <2>3 DEF Twin, Matches, Fits
  <2> QED
    BY <1>1, <1>2, <1>3, <2>1, <2>4 DEF Confused
<1> QED
  BY <1>3, <1>6, <1>7

LEMMA OwnAuditNext ==
  ASSUME NEW k
  PROVE  (ClockInv /\ RecordsInv /\ PathsInv)' => OwnAudit(k)'
<1>1. ClockInv /\ RecordsInv /\ PathsInv => OwnAudit(k)
  BY OwnAuditIs
<1> QED
  BY <1>1, PTL

JudgedFirst ==
  /\ Len(records) \in Nat /\ Len(audits) \in Nat /\ Len(audits) <= Len(records)
  /\ \A k \in 1..Len(records) : Pending(records[k]) <=> Len(audits) < k

LEMMA JudgedAreNext == (RecordsInv /\ PathsInv)' => JudgedFirst'
<1>1. RecordsInv /\ PathsInv => JudgedFirst
  BY JudgedAre DEF JudgedFirst
<1> QED
  BY <1>1, PTL

LEMMA ConfusedStays ==
  ASSUME ClockInv, RecordsInv, NEW p, NEW side, NEW effect, NEW at,
         Framed(p, side, effect, at), Confused
  PROVE  Confused'
<1>1. PICK j, k \in DOMAIN records : Twin(records[j], records[k])
  BY DEF Confused
<1>2. PICK x, y : x = records'[j] /\ y = records'[k]
  OBVIOUS
<1>3. /\ j \in DOMAIN records' /\ k \in DOMAIN records'
      /\ x.id = records[j].id /\ x.side = records[j].side
      /\ x.entry = records[j].entry /\ x.at = records[j].at
      /\ y.id = records[k].id /\ y.side = records[k].side
      /\ y.entry = records[k].entry /\ y.at = records[k].at
  BY <1>1, <1>2, JudgedStays
<1>4. Twin(x, y)
  BY <1>1, <1>3 DEF Twin
<1> QED
  BY <1>2, <1>3, <1>4 DEF Confused, Twin

Filed(x, i, N, R, A, a) == x[Len(N.signals) + i] = Persisted(R[a + i], A, N.memory)
NewFrom(N, R, a, b) == \A k \in 1..Len(R) : k \in Unstored(N, R) <=> a + 1 <= k /\ k <= a + b
IdsFrom(R, a, b) == {R[a + i].id : i \in 1..b}

Filled(T, N, R, A, a, b) ==
  /\ Len(T.signals) = Len(N.signals) + b /\ T.signals \in Seq(Stored)
  /\ \A k \in 1..Len(N.signals) : T.signals[k] = N.signals[k]
  /\ \A i \in 1..b : Filed(T.signals, i, N, R, A, a)
  /\ T.ids = N.ids \cup IdsFrom(R, a, b)

\* A store with room for the new signals takes them all, after those it has.
LEMMA SyncGrows ==
  ASSUME NEW N \in Stores, NEW R \in Seq(Signals), NEW A \in Seq(AuditsMade), Known(R),
         NEW a \in Nat, NEW b \in Nat, a + b <= Len(R),
         NewFrom(N, R, a, b),
         Len(N.signals) + b <= MaxStored,
         NEW T, T = SyncCompleted(N, R, A)
  PROVE  Filled(T, N, R, A, a, b)
<1>1. PICK K, new, F, all, n : /\ K = Unstored(N, R) /\ new = Where(R, K)
                               /\ F = Fresh(N, R, A) /\ all = Grown(N, R, A)
                               /\ n = Len(N.signals)
  OBVIOUS
<1>2. N.signals \in Seq(Stored) /\ n \in Nat
  BY <1>1 DEF Stores
<1>3. new \in Seq(Signals) /\ Len(new) = b /\ \A i \in 1..b : new[i] = R[a + i]
  <2>1. PICK c \in Nat \ {0}, d \in Nat : c = a + 1 /\ d = a + b
    OBVIOUS
  <2>2. c <= d + 1 /\ d <= Len(R) /\ Spans(K, Len(R), c, d)
    BY <1>1, <2>1 DEF Spans, NewFrom
  <2>3. new \in Seq(Signals) /\ Piece(new, R, c, d)
    BY <1>1, <2>2, WhereRange
  <2>4. d - c + 1 = b /\ \A i \in 1..b : c + i - 1 = a + i
    BY <2>1
  <2> QED
    BY <2>3, <2>4 DEF Piece
<1>4. /\ F \in Seq(Stored) /\ Len(F) = b
      /\ \A i \in 1..b : F[i] = Persisted(R[a + i], A, N.memory)
  <2>1. F \in Seq(Stored)
    BY <1>1, FreshIs
  <2>2. F = [k \in DOMAIN new |-> Persisted(new[k], A, N.memory)]
    BY <1>1 DEF Fresh
  <2>3. DOMAIN new = 1..b
    BY <1>3
  <2>4. DOMAIN F = 1..b /\ Len(F) \in Nat /\ DOMAIN F = 1..Len(F)
    BY <2>1, <2>2, <2>3
  <2>5. Len(F) = b
    BY <2>4
  <2>6. \A i \in 1..b : F[i] = Persisted(new[i], A, N.memory)
    BY <2>2, <2>3
  <2> QED
    BY <1>3, <2>1, <2>5, <2>6
<1>5. /\ all \in Seq(Stored) /\ Len(all) = n + b
      /\ \A k \in 1..(n + b) : all[k] = IF k <= n THEN N.signals[k] ELSE F[k - n]
  <2>1. PICK g : g = N.signals
    OBVIOUS
  <2>2. all = g \o F /\ g \in Seq(Stored) /\ Len(g) = n
    BY <1>1, <1>2, <2>1 DEF Grown
  <2>3. /\ g \o F \in Seq(Stored) /\ Len(g \o F) = Len(g) + Len(F)
        /\ \A k \in 1..(Len(g) + Len(F)) :
             (g \o F)[k] = IF k <= Len(g) THEN g[k] ELSE F[k - Len(g)]
    BY <1>4, <2>2, ConcatProperties
  <2> QED
    BY <1>4, <2>1, <2>2, <2>3
<1>6. /\ T.signals = Kept(all)
      /\ T.ids = (N.ids \cup Taken(N, R)) \ Spilt(all)
  BY <1>1, SyncIs
<1>7. Spill(all) = 0
  BY <1>1, <1>2, <1>5, StoreAssumption DEF Spill
<1>8. T.signals = all
  <2>1. Kept(all) = SubSeq(all, 0 + 1, Len(all))
    BY <1>7 DEF Kept
  <2>2. SubSeq(all, 0 + 1, Len(all)) = all
    BY <1>5
  <2> QED
    BY <1>6, <2>1, <2>2
<1>9. T.ids = N.ids \cup {R[a + i].id : i \in 1..b}
  <2>1. Spilt(all) = {}
    BY <1>7 DEF Spilt
  <2>2. Taken(N, R) = {new[k].id : k \in 1..b}
    <3>1. DOMAIN new = 1..b
      BY <1>3
    <3> QED
      BY <1>1, <3>1 DEF Taken
  <2>3. {new[k].id : k \in 1..b} = {R[a + i].id : i \in 1..b}
    BY <1>3
  <2> QED
    BY <1>6, <2>1, <2>2, <2>3
<1>10. ASSUME NEW i \in 1..b
       PROVE  Filed(all, i, N, R, A, a)
  <2>2. PICK c : c = n + i
    OBVIOUS
  <2>3. c \in 1..(n + b) /\ ~(c <= n) /\ c - n = i
    BY <1>2, <2>2
  <2>4. all[c] = F[c - n]
    BY <1>5, <2>3
  <2>5. all[n + i] = F[i]
    BY <2>2, <2>3, <2>4
  <2> QED
    BY <1>1, <1>4, <2>5 DEF Filed
<1>11. \A k \in 1..n : all[k] = N.signals[k]
  BY <1>2, <1>5
<1>12. T.ids = N.ids \cup IdsFrom(R, a, b)
  BY <1>9 DEF IdsFrom
<1> QED
  BY <1>1, <1>5, <1>8, <1>10, <1>11, <1>12 DEF Filled

\* The store has room for all the signals that were ever opened: none was dropped.
Room == opened <= MaxStored

\* What the store knows, and what it is to take.
LEMMA StoredFirst ==
  ASSUME ClockInv, RecordsInv, PathsInv, StoreInv, FoundInv,
         NEW p, NEW side, NEW effect, NEW at, Framed(p, side, effect, at),
         NEW k \in 1..Len(records')
  PROVE  /\ records'[k].id = opened - Len(records) + k
         /\ records'[k].id \in store.ids <=> k <= Len(audits)
<1>1. PICK g, a, l, h : /\ g = Len(began.store.signals) /\ a = Len(audits)
                        /\ l = Len(records) /\ h = Len(records')
  OBVIOUS
<1>2. /\ g \in Nat /\ a \in Nat /\ l \in Nat /\ h \in Nat /\ a <= l /\ l <= h
      /\ opened \in Nat /\ opened' = opened + (h - l)
      /\ DOMAIN records = 1..l
  <2>1. began.store.signals \in Seq(Stored)
    BY DEF StoreInv, Stores
  <2>2. a \in Nat /\ l \in Nat /\ a <= l
    BY <1>1, JudgedAre
  <2>3. opened \in Nat /\ DOMAIN records = 1..l
    BY <1>1 DEF ClockInv, RecordsInv
  <2>4. h \in Nat /\ l <= h /\ opened' = opened + (h - l)
    <3>1. /\ Len(records') = IF IsSignal(decision') THEN Len(records) + 1 ELSE Len(records)
          /\ opened' = IF IsSignal(decision') THEN opened + 1 ELSE opened
      BY RecordsGrow
    <3> QED
      BY <1>1, <2>2, <2>3, <3>1
  <2> QED
    BY <1>1, <2>1, <2>2, <2>3, <2>4
<1>3. records'[k].id = opened - l + k
  <2>1. RecordsInv' /\ records' \in Seq(Signals)
    BY RecordsFrame DEF RecordsInv
  <2>2. k \in DOMAIN records'
    BY <2>1
  <2>3. records'[k].id = opened' - h + k
    BY <1>1, <2>1, <2>2 DEF RecordsInv
  <2> QED
    BY <1>2, <2>3
<1>4. ASSUME NEW i \in 1..a
      PROVE  store.signals[g + i].id = opened - l + i
  <2>1. Files(store.signals[g + i], records[i])
    BY <1>1 DEF FoundInv
  <2>2. records[i].id = opened - l + i
    BY <1>1, <1>2 DEF RecordsInv
  <2> QED
    BY <2>1, <2>2 DEF Files
<1>5. store.ids = {store.signals[j].id : j \in 1..(g + a)}
  BY <1>1 DEF FoundInv
<1>6. k \in 1..h
  BY <1>1
<1>7. ASSUME k <= a
      PROVE  records'[k].id \in store.ids
  <2>1. k \in 1..a /\ g + k \in 1..(g + a)
    BY <1>2, <1>6, <1>7
  <2>2. store.signals[g + k].id = records'[k].id
    BY <1>3, <1>4, <2>1
  <2> QED
    BY <1>5, <2>1, <2>2
<1>8. ASSUME records'[k].id \in store.ids
      PROVE  k <= a
  <2>1. PICK j \in 1..(g + a) : store.signals[j].id = opened - l + k
    BY <1>3, <1>5, <1>8
  <2>2. CASE j <= g
    <3>1. j \in 1..g
      BY <1>2, <2>2
    <3>2. store.signals[j].id <= opened - l
      BY <1>1, <3>1 DEF FoundInv
    <3> QED
      BY <1>2, <1>6, <2>1, <3>2
  <2>3. CASE ~(j <= g)
    <3>1. PICK i : i = j - g
      OBVIOUS
    <3>2. i \in 1..a /\ g + i = j
      BY <1>2, <2>3, <3>1
    <3>3. opened - l + i = opened - l + k
      BY <1>4, <2>1, <3>2
    <3> QED
      BY <1>2, <1>6, <3>2, <3>3
  <2> QED
    BY <2>2, <2>3
<1> QED
  BY <1>1, <1>3, <1>7, <1>8

LEMMA FoundFrame ==
  ASSUME ClockInv, RecordsInv, PathsInv, StoreInv, FoundInv, Room',
         NEW p, NEW side, NEW effect, NEW at, Framed(p, side, effect, at)
  PROVE  FoundInv'
<1>1. /\ ClockInv' /\ RecordsInv' /\ PathsInv' /\ StoreInv' /\ began' = began
      /\ JudgedFirst' /\ JudgedFirst
  <2>1. ClockInv' /\ RecordsInv' /\ PathsInv' /\ StoreInv' /\ began' = began
    BY ClockFrame, RecordsFrame, PathsFrame, StoreFrame, FrameIs
  <2>2. JudgedFirst
    BY JudgedAre DEF JudgedFirst
  <2> QED
    BY <2>1, <2>2, JudgedAreNext
<1>2. PICK N, R, A, T, found : /\ N = Noted(decision', effect, at) /\ R = records'
                               /\ A = audits' /\ T = store' /\ found = began.store.signals
  OBVIOUS
<1>3. N \in Stores /\ N.signals = store.signals /\ N.ids = store.ids
  <2>1. effect \in Memories /\ at \in Nat /\ opened \in Nat /\ store \in Stores
    BY DEF Framed, ClockInv, StoreInv
  <2> QED
    BY <1>2, <2>1, NotedIs
<1>4. T = SyncCompleted(N, R, A)
  BY <1>2, FrameIs
<1>5. PICK g, a, c, l, h : /\ g = Len(found) /\ a = Len(audits) /\ c = Len(A)
                           /\ l = Len(records) /\ h = Len(R)
  OBVIOUS
<1>6. /\ g \in Nat /\ a \in Nat /\ c \in Nat /\ l \in Nat /\ h \in Nat
      /\ a <= l /\ c <= h /\ a <= c /\ l <= h
  <2>1. found \in Seq(Stored)
    BY <1>2 DEF StoreInv, Stores
  <2>2. a \in Nat /\ l \in Nat /\ a <= l /\ c \in Nat /\ h \in Nat /\ c <= h
    BY <1>1, <1>2, <1>5 DEF JudgedFirst
  <2>3. a <= c
    BY <1>2, <1>5, AuditsGrow
  <2>4. h = IF IsSignal(decision') THEN l + 1 ELSE l
    BY <1>2, <1>5, RecordsGrow
  <2> QED
    BY <1>5, <2>1, <2>2, <2>3, <2>4
<1>7. /\ opened \in Nat /\ opened' = opened + (h - l) /\ opened' <= MaxStored
  <2>1. opened \in Nat
    BY DEF ClockInv
  <2>2. /\ h = IF IsSignal(decision') THEN l + 1 ELSE l
        /\ opened' = IF IsSignal(decision') THEN opened + 1 ELSE opened
    BY <1>2, <1>5, RecordsGrow
  <2>3. opened' <= MaxStored
    BY DEF Room
  <2> QED
    BY <1>6, <2>1, <2>2, <2>3 DEF Room
<1>8. R \in Seq(Signals) /\ A \in Seq(AuditsMade) /\ Known(R)
  <2>1. R \in Seq(Signals) /\ A \in Seq(AuditsMade)
    BY <1>1, <1>2 DEF RecordsInv, PathsInv
  <2>2. ASSUME NEW k \in DOMAIN R, ~Pending(R[k])
        PROVE  R[k].done \in Nat /\ R[k].points \in Int
    <3>1. (k \in DOMAIN records /\ ~Pending(records[k]))'
      BY <1>2, <2>2
    <3>2. (RecordsInv /\ ClockInv)' /\ (k \in DOMAIN records /\ ~Pending(records[k]))'
          => (records[k].done \in Nat /\ records[k].points \in Int)'
      BY DEF RecordsInv, Pending
    <3> QED
      BY <1>1, <1>2, <3>1, <3>2
  <2> QED
    BY <2>1, <2>2 DEF Known
<1>9. \A k \in 1..h : (R[k].id \in N.ids <=> k <= a) /\ (Pending(R[k]) <=> c < k)
  <2>1. \A k \in 1..h : R[k].id \in N.ids <=> k <= a
    BY <1>2, <1>3, <1>5, StoredFirst
  <2>2. \A k \in 1..h : Pending(R[k]) <=> c < k
    BY <1>1, <1>2, <1>5 DEF JudgedFirst
  <2> QED
    BY <2>1, <2>2
<1>10. PICK b \in Nat : b = c - a
  BY <1>6
<1>11. \A k \in 1..h : k \in Unstored(N, R) <=> a + 1 <= k /\ k <= a + b
  <2>1. DOMAIN R = 1..h
    BY <1>5, <1>8
  <2>2. \A k \in 1..h : k \in Unstored(N, R) <=> ~Pending(R[k]) /\ R[k].id \notin N.ids
    BY <2>1 DEF Unstored
  <2> QED
    BY <1>6, <1>9, <1>10, <2>2
<1>12. /\ g <= opened - l
       /\ \A k \in 1..g : found[k].id <= opened - l /\ found[k].day = TradingDay(found[k].at)
       /\ Len(store.signals) = g + a
       /\ \A k \in 1..g : store.signals[k] = found[k]
       /\ \A k \in 1..a : /\ Files(store.signals[g + k], records[k])
                          /\ store.signals[g + k].mfe = audits[k].mfe \/ Confused
       /\ store.ids = {store.signals[k].id : k \in 1..(g + a)}
  BY <1>2, <1>5 DEF FoundInv
<1>13. Len(N.signals) = g + a /\ Len(N.signals) + b <= MaxStored /\ a + b <= Len(R) /\ a + b = c
  <2>1. Len(N.signals) = g + a /\ g <= opened - l
    BY <1>3, <1>12
  <2> QED
    BY <1>5, <1>6, <1>7, <1>10, <2>1, StoreAssumption
<1>14. /\ Len(T.signals) = g + c /\ T.signals \in Seq(Stored)
       /\ \A k \in 1..(g + a) : T.signals[k] = store.signals[k]
       /\ \A i \in 1..b : Filed(T.signals, i, N, R, A, a)
       /\ T.ids = store.ids \cup IdsFrom(R, a, b)
  <2>1. NewFrom(N, R, a, b)
    BY <1>5, <1>11 DEF NewFrom
  <2>2. /\ Len(T.signals) = Len(N.signals) + b /\ T.signals \in Seq(Stored)
        /\ \A k \in 1..Len(N.signals) : T.signals[k] = N.signals[k]
        /\ \A i \in 1..b : Filed(T.signals, i, N, R, A, a)
        /\ T.ids = N.ids \cup IdsFrom(R, a, b)
    <3>1. Filled(T, N, R, A, a, b)
      BY <1>3, <1>4, <1>6, <1>8, <1>10, <1>13, <2>1, SyncGrows
    <3> QED
      BY <3>1 DEF Filled
  <2>3. Len(N.signals) + b = g + c
    BY <1>6, <1>10, <1>13
  <2> QED
    BY <1>3, <1>13, <2>2, <2>3
<1>15. \A k \in 1..g : T.signals[k] = found[k]
  <2>1. ASSUME NEW k \in 1..g
        PROVE  T.signals[k] = found[k]
    <3>1. k \in 1..(g + a)
      BY <1>6
    <3>2. T.signals[k] = store.signals[k]
      BY <1>14, <3>1
    <3>3. store.signals[k] = found[k]
      BY <1>12
    <3> QED
      BY <3>2, <3>3
  <2> QED
    BY <2>1
<1>16. ASSUME NEW k \in 1..c
       PROVE  /\ Files(T.signals[g + k], R[k])
              /\ T.signals[g + k].mfe = A[k].mfe \/ Confused'
  <2>1. CASE k <= a
    <3>1. k \in 1..a /\ g + k \in 1..(g + a) /\ k \in 1..l
      BY <1>6, <2>1
    <3>2. T.signals[g + k] = store.signals[g + k]
      BY <1>14, <3>1
    <3>3. R[k] = records[k]
      <4>1. k \in DOMAIN records /\ ~Pending(records[k])
        BY <1>1, <1>5, <1>6, <2>1, <3>1 DEF JudgedFirst, RecordsInv
      <4> QED
        BY <1>2, <4>1, JudgedStays
    <3>4. A[k] = audits[k]
      BY <1>2, <1>5, <3>1, AuditsGrow
    <3>5. Confused => Confused'
      BY ConfusedStays
    <3> QED
      BY <1>12, <3>1, <3>2, <3>3, <3>4, <3>5
  <2>2. CASE ~(k <= a)
    <3>1. PICK i : i = k - a
      OBVIOUS
    <3>2. i \in 1..b /\ a + i = k /\ (g + a) + i = g + k /\ k \in 1..h
      BY <1>6, <1>10, <2>2, <3>1
    <3>3. PICK s : s = T.signals[g + k]
      OBVIOUS
    <3>4. s = Persisted(R[k], A, N.memory)
      BY <1>13, <1>14, <3>2, <3>3 DEF Filed
    <3>5. /\ R[k] \in Signals /\ ~Pending(R[k]) /\ R[k].done \in Nat /\ R[k].points \in Int
          /\ N.memory \in Dicts(Nat, Memories)
      <4>1. k \in DOMAIN R /\ ~Pending(R[k])
        BY <1>5, <1>6, <1>8, <1>9, <3>2
      <4> QED
        BY <1>3, <1>8, <4>1 DEF Known, Stores
    <3>6. /\ s.id = R[k].id /\ s.side = R[k].side /\ s.at = R[k].at
          /\ s.points = R[k].points /\ s.day = TradingDay(R[k].at)
          /\ s.label = LabelOf(R[k].result) /\ s.mfe = AuditOf(A, R[k]).mfe
      BY <1>8, <3>4, <3>5, PersistedIs
    <3>7. AuditOf(A, R[k]).mfe = A[k].mfe \/ Confused'
      <4>1. OwnAudit(k)'
        BY <1>1, OwnAuditNext
      <4> QED
        BY <1>2, <1>5, <4>1 DEF OwnAudit
    <3> QED
      BY <3>3, <3>6, <3>7 DEF Files
  <2> QED
    BY <2>1, <2>2
<1>17. T.ids = {T.signals[k].id : k \in 1..(g + c)}
  <2>1. store.ids = {T.signals[k].id : k \in 1..(g + a)}
    BY <1>12, <1>14
  <2>2. ASSUME NEW i \in 1..b
        PROVE  T.signals[(g + a) + i].id = R[a + i].id
    <3>1. PICK k : k = a + i
      OBVIOUS
    <3>2. k \in 1..c /\ g + k = (g + a) + i
      BY <1>6, <1>10, <3>1
    <3>3. T.signals[g + k].id = R[k].id
      BY <1>16, <3>2 DEF Files
    <3> QED
      BY <3>1, <3>2, <3>3
  <2>3. {R[a + i].id : i \in 1..b} = {T.signals[k].id : k \in (g + a + 1)..(g + c)}
    <3>1. ASSUME NEW k \in (g + a + 1)..(g + c)
          PROVE  \E i \in 1..b : R[a + i].id = T.signals[k].id
      <4>1. PICK i : i = k - (g + a)
        OBVIOUS
      <4>2. i \in 1..b /\ (g + a) + i = k
        BY <1>6, <1>10, <4>1
      <4> QED
        BY <2>2, <4>2
    <3>2. ASSUME NEW i \in 1..b
          PROVE  \E k \in (g + a + 1)..(g + c) : T.signals[k].id = R[a + i].id
      <4>1. PICK k : k = (g + a) + i
        OBVIOUS
      <4>2. k \in (g + a + 1)..(g + c)
        BY <1>6, <1>10, <4>1
      <4> QED
        BY <2>2, <4>1, <4>2
    <3> QED
      BY <3>1, <3>2
  <2>4. 1..(g + c) = (1..(g + a)) \cup ((g + a + 1)..(g + c))
    BY <1>6
  <2> QED
    BY <1>14, <2>1, <2>3, <2>4 DEF IdsFrom
<1>18. /\ g <= opened' - h
       /\ \A k \in 1..g : found[k].id <= opened' - h /\ found[k].day = TradingDay(found[k].at)
  <2>1. opened' - h = opened - l
    BY <1>6, <1>7
  <2> QED
    BY <1>12, <2>1
<1>19. /\ began'.store.signals = found /\ records' = R /\ audits' = A /\ store' = T
       /\ Len(found) = g /\ Len(A) = c /\ Len(R) = h
  BY <1>1, <1>2, <1>5
<1> QED
  BY <1>14, <1>15, <1>16, <1>17, <1>18, <1>19 DEF FoundInv

LEMMA FoundInit == AInit => FoundInv
<1> SUFFICES ASSUME AInit PROVE FoundInv
  OBVIOUS
<1>1. /\ records = << >> /\ audits = << >> /\ store = NoStore /\ opened = 0
      /\ began = [store |-> NoStore, plans |-> 0, open |-> 0]
  BY DEF AInit, Started
<1>2. NoStore.signals = << >> /\ NoStore.ids = {}
  BY DEF NoStore
<1>3. began.store.signals = << >> /\ store.signals = << >> /\ store.ids = {}
  BY <1>1, <1>2
<1>4. {store.signals[k].id : k \in 1..Len(store.signals)} = {}
  BY <1>3
<1> QED
  BY <1>1, <1>3, <1>4 DEF FoundInv

\* A process finds what the one before it had stored.
LEMMA FoundRestart ==
  ASSUME ClockInv, RecordsInv, PathsInv, StoreInv, FoundInv, Restart
  PROVE  FoundInv'
<1>1. PICK S, found, g, a, l : /\ S = LoadedStore(store) /\ found = began.store.signals
                               /\ g = Len(found) /\ a = Len(audits) /\ l = Len(records)
  OBVIOUS
<1>2. /\ store' = S /\ began'.store = S /\ records' = << >> /\ audits' = << >>
      /\ opened' = opened
  BY <1>1, RestartIs
<1>3. /\ g \in Nat /\ a \in Nat /\ l \in Nat /\ a <= l /\ opened \in Nat /\ g <= opened - l
      /\ store.signals \in Seq(Stored) /\ Len(store.signals) = g + a
  <2>1. found \in Seq(Stored) /\ store.signals \in Seq(Stored)
    BY <1>1 DEF StoreInv, Stores
  <2>2. a \in Nat /\ l \in Nat /\ a <= l
    BY <1>1, JudgedAre
  <2>3. opened \in Nat /\ g <= opened - l /\ Len(store.signals) = g + a
    BY <1>1 DEF ClockInv, FoundInv
  <2> QED
    BY <1>1, <2>1, <2>2, <2>3
<1>4. S.signals = store.signals
      /\ S.ids = {store.signals[k].id : k \in 1..Len(store.signals)}
  <2>1. PICK ids : ids = {store.signals[k].id : k \in DOMAIN store.signals}
    OBVIOUS
  <2>2. S = [store EXCEPT !.ids = ids]
    BY <1>1, <2>1 DEF LoadedStore
  <2>3. S.signals = store.signals /\ S.ids = ids
    BY <2>2 DEF StoreInv, Stores
  <2>4. DOMAIN store.signals = 1..Len(store.signals)
    BY <1>3
  <2> QED
    BY <2>1, <2>3, <2>4
<1>5. ASSUME NEW k \in 1..(g + a)
      PROVE  store.signals[k].id <= opened
             /\ store.signals[k].day = TradingDay(store.signals[k].at)
  <2>1. CASE k <= g
    <3>1. k \in 1..g
      BY <1>3, <2>1
    <3>2. /\ store.signals[k] = found[k] /\ found[k].id <= opened - l
          /\ found[k].day = TradingDay(found[k].at)
      BY <1>1, <3>1 DEF FoundInv
    <3>3. found[k].id \in Nat
      <4>1. store.signals[k] \in Stored
        BY <1>3
      <4> QED
        BY <3>2, <4>1 DEF Stored
    <3> QED
      BY <1>3, <3>2, <3>3
  <2>2. CASE ~(k <= g)
    <3>1. PICK i : i = k - g
      OBVIOUS
    <3>2. i \in 1..a /\ g + i = k /\ i \in 1..l
      BY <1>3, <2>2, <3>1
    <3>3. Files(store.signals[g + i], records[i])
      BY <1>1, <3>2 DEF FoundInv
    <3>4. records[i].id = opened - l + i
      BY <1>1, <3>2 DEF RecordsInv
    <3> QED
      BY <1>3, <3>2, <3>3, <3>4 DEF Files
  <2> QED
    BY <2>1, <2>2
<1>6. Len(S.signals) = g + a /\ S.signals = store.signals
  BY <1>3, <1>4
<1>7. Len(S.signals) <= opened' - Len(records')
  BY <1>2, <1>3, <1>6
<1>8. \A k \in 1..Len(S.signals) : /\ S.signals[k].id <= opened' - Len(records')
                                   /\ S.signals[k].day = TradingDay(S.signals[k].at)
  <2>1. opened' - Len(records') = opened
    BY <1>2, <1>3
  <2> QED
    BY <1>5, <1>6, <2>1
<1>9. Len(S.signals) = Len(S.signals) + Len(audits')
  BY <1>2, <1>3, <1>6
<1>10. 1..Len(audits') = {}
  BY <1>2
<1> QED
  BY <1>2, <1>4, <1>7, <1>8, <1>9, <1>10 DEF FoundInv

LEMMA FoundSame ==
  ASSUME FoundInv, UNCHANGED <<began, records, audits, store, opened>>
  PROVE  FoundInv'
<1>1. Confused' <=> Confused
  BY DEF Confused, Twin
<1> QED
  BY <1>1 DEF FoundInv

-----------------------------------------------------------------------------
(* The sum of a dict.                                                      *)

Rises(D, G) == \A S \in SUBSET D : (\A y \in S : S \ {y} \in G) => S \in G

\* What holds of a set when it holds of the set without any one of its members, holds of
\* all subsets of a finite set.
LEMMA SubsetsRise ==
  ASSUME NEW D, IsFiniteSet(D), NEW G, Rises(D, G)
  PROVE  \A S \in SUBSET D : S \in G
<1> DEFINE Bad == {n \in Nat : \E S \in SUBSET D : S \notin G /\ Cardinality(S) = n}
<1>1. SUFFICES ASSUME NEW S \in SUBSET D, S \notin G
               PROVE  FALSE
  OBVIOUS
<1>2. \A T \in SUBSET D : IsFiniteSet(T) /\ Cardinality(T) \in Nat
  BY FS_Subset, FS_CardinalityType
<1>3. Cardinality(S) \in Bad /\ Bad \in SUBSET Nat
  BY <1>1, <1>2
<1>4. PICK n \in Bad : \A m \in Bad : n <= m
  <2> HIDE DEF Bad
  <2> QED
    BY <1>3, LeastExists
<1>5. PICK T \in SUBSET D : T \notin G /\ Cardinality(T) = n
  BY <1>4
<1>6. ASSUME NEW y \in T
      PROVE  T \ {y} \in G
  <2>1. T \ {y} \in SUBSET D /\ IsFiniteSet(T)
    BY <1>2
  <2>2. Cardinality(T \ {y}) = n - 1 /\ n - 1 \in Nat
    <3>1. Cardinality(T \ {y}) = Cardinality(T) - 1
      BY <2>1, FS_RemoveElement
    <3>2. Cardinality(T \ {y}) \in Nat
      BY <1>2, <2>1
    <3> QED
      BY <1>5, <3>1, <3>2
  <2>3. n - 1 \notin Bad
    <3>1. n \in Nat
      OBVIOUS
    <3> HIDE DEF Bad
    <3> QED
      BY <1>4, <3>1
  <2> QED
    BY <2>1, <2>2, <2>3
<1> QED
  BY <1>5, <1>6 DEF Rises

AnyOf(S) == CHOOSE x \in S : TRUE

Adds(it, f, D) ==
  it = [S \in SUBSET D |-> IF S = {} THEN 0 ELSE f[AnyOf(S)] + it[S \ {AnyOf(S)}]]

LEMMA AnyIs == \A S : S # {} => AnyOf(S) \in S
BY DEF AnyOf

Small(D, k) == {S \in SUBSET D : Cardinality(S) <= k}
AddsTo(it, f, L) ==
  \A S \in L : it[S] = IF S = {} THEN 0 ELSE f[AnyOf(S)] + it[S \ {AnyOf(S)}]

\* The sum over all subsets of a finite set is defined.
LEMMA AddsExist ==
  ASSUME NEW D, IsFiniteSet(D), NEW f \in [D -> Int]
  PROVE  \E it \in [SUBSET D -> Int] : Adds(it, f, D)
<1>1. PICK n : n = Cardinality(D)
  OBVIOUS
<1>2. n \in Nat
  BY <1>1, FS_CardinalityType
<1>3. \A S \in SUBSET D : IsFiniteSet(S) /\ Cardinality(S) \in Nat /\ Cardinality(S) <= n
  BY <1>1, FS_Subset, FS_CardinalityType
<1>4. \A S \in SUBSET D : \A y \in S : S \ {y} \in SUBSET D
                                       /\ Cardinality(S \ {y}) = Cardinality(S) - 1
  BY <1>3, FS_RemoveElement
<1> DEFINE G == {k \in 0..n : \E it \in [Small(D, k) -> Int] : AddsTo(it, f, Small(D, k))}
<1>5. 0 \in G
  <2> DEFINE it == [S \in Small(D, 0) |-> 0]
  <2>1. \A S \in Small(D, 0) : S = {}
    BY <1>3, FS_EmptySet DEF Small
  <2>2. it \in [Small(D, 0) -> Int] /\ AddsTo(it, f, Small(D, 0))
    BY <2>1 DEF AddsTo
  <2> HIDE DEF it
  <2> QED
    BY <1>2, <2>2
<1>6. ASSUME NEW k \in 1..n, k - 1 \in G
      PROVE  k \in G
  <2>1. PICK g \in [Small(D, k - 1) -> Int] : AddsTo(g, f, Small(D, k - 1))
    BY <1>6
  <2> DEFINE it == [S \in Small(D, k) |->
                      IF S = {} THEN 0 ELSE f[AnyOf(S)] + g[S \ {AnyOf(S)}]]
  <2>2. ASSUME NEW S \in Small(D, k), S # {}
        PROVE  /\ S \ {AnyOf(S)} \in Small(D, k - 1) /\ f[AnyOf(S)] \in Int
               /\ it[S] = f[AnyOf(S)] + g[S \ {AnyOf(S)}]
    <3>1. AnyOf(S) \in S /\ S \in SUBSET D /\ Cardinality(S) <= k
      BY <2>2, AnyIs DEF Small
    <3>2. S \ {AnyOf(S)} \in Small(D, k - 1)
      BY <1>3, <1>4, <3>1 DEF Small
    <3> QED
      BY <2>2, <3>1, <3>2
  <2>3. it[{}] = 0 \/ {} \notin Small(D, k)
    OBVIOUS
  <2>4. it \in [Small(D, k) -> Int]
    <3>1. \A S \in Small(D, k) : it[S] \in Int
      <4>1. \A S \in Small(D, k - 1) : g[S] \in Int
        OBVIOUS
      <4> HIDE DEF it
      <4>2. ASSUME NEW S \in Small(D, k)
            PROVE  it[S] \in Int
        <5>1. CASE S = {}
          BY <2>3, <5>1
        <5>2. CASE S # {}
          <6>1. /\ S \ {AnyOf(S)} \in Small(D, k - 1) /\ f[AnyOf(S)] \in Int
                /\ it[S] = f[AnyOf(S)] + g[S \ {AnyOf(S)}]
            BY <2>2, <5>2
          <6> QED
            BY <4>1, <6>1
        <5> QED
          BY <5>1, <5>2
      <4> QED
        BY <4>2
    <3> QED
      BY <3>1
  <2>5. \A S \in Small(D, k - 1) : S \in Small(D, k) /\ it[S] = g[S]
    <3> SUFFICES ASSUME NEW S \in Small(D, k - 1)
                 PROVE  S \in Small(D, k) /\ it[S] = g[S]
      OBVIOUS
    <3>1. g[S] = IF S = {} THEN 0 ELSE f[AnyOf(S)] + g[S \ {AnyOf(S)}]
      BY <2>1 DEF AddsTo
    <3>2. S \in Small(D, k)
      BY <1>3 DEF Small
    <3> QED
      BY <3>1, <3>2
  <2>6. AddsTo(it, f, Small(D, k))
    <3> HIDE DEF it
    <3> QED
      BY <2>2, <2>3, <2>5 DEF AddsTo
  <2> HIDE DEF it
  <2> QED
    BY <2>4, <2>6
<1>7. n \in G
  <2> HIDE DEF G
  <2>1. \A k \in 0..n : k \in G
    BY <1>2, <1>5, <1>6, Climbs
  <2> QED
    BY <1>2, <2>1
<1>8. PICK it \in [Small(D, n) -> Int] : AddsTo(it, f, Small(D, n))
  BY <1>7
<1>9. Small(D, n) = SUBSET D
  BY <1>3 DEF Small
<1>10. it \in [SUBSET D -> Int] /\ AddsTo(it, f, SUBSET D)
  BY <1>8, <1>9
<1>11. Adds(it, f, D)
  <2>1. it = [S \in SUBSET D |-> it[S]]
    BY <1>10
  <2>2. [S \in SUBSET D |-> it[S]]
          = [S \in SUBSET D |-> IF S = {} THEN 0 ELSE f[AnyOf(S)] + it[S \ {AnyOf(S)}]]
    BY <1>10 DEF AddsTo
  <2> QED
    BY <2>1, <2>2 DEF Adds
<1> QED
  BY <1>10, <1>11

LEMMA SumIs ==
  ASSUME NEW D, IsFiniteSet(D), NEW f \in [D -> Int]
  PROVE  \E it \in [SUBSET D -> Int] :
           AddsTo(it, f, SUBSET D) /\ FoldFunction(+, 0, f) = it[D]
<1> DEFINE Eq(it) == it = [S \in SUBSET D |->
                             IF S = {} THEN 0
                             ELSE f[CHOOSE x \in S : TRUE] + it[S \ {CHOOSE x \in S : TRUE}]]
<1>1. \A it : Eq(it) <=> Adds(it, f, D)
  BY DEF Adds, AnyOf
<1>2. PICK g \in [SUBSET D -> Int] : Adds(g, f, D)
  BY AddsExist
<1>3. DOMAIN f = D
  OBVIOUS
<1>4. FoldFunction(+, 0, f) = (CHOOSE it : Eq(it))[D]
  BY <1>3 DEF FoldFunction, FoldFunctionOnSet, MapThenFoldSet
<1>5. PICK it : Eq(it) /\ FoldFunction(+, 0, f) = it[D]
  <2>1. Eq(g)
    BY <1>1, <1>2
  <2> HIDE DEF Eq
  <2> QED
    BY <1>4, <2>1
<1>6. Adds(it, f, D)
  BY <1>1, <1>5
<1>7. AddsTo(it, f, SUBSET D)
  BY <1>6 DEF Adds, AddsTo
<1>8. \A S \in SUBSET D : it[S] \in Int
  <2> DEFINE G == {S \in SUBSET D : it[S] \in Int}
  <2>1. ASSUME NEW S \in SUBSET D, \A y \in S : S \ {y} \in G
        PROVE  S \in G
    <3>1. CASE S = {}
      <4>1. it[S] = 0
        BY <1>7, <3>1 DEF AddsTo
      <4> QED
        BY <4>1
    <3>2. CASE S # {}
      <4>1. AnyOf(S) \in S /\ f[AnyOf(S)] \in Int
        BY <3>2, AnyIs
      <4>2. it[S \ {AnyOf(S)}] \in Int
        BY <2>1, <4>1
      <4>3. it[S] = f[AnyOf(S)] + it[S \ {AnyOf(S)}]
        BY <1>7, <3>2 DEF AddsTo
      <4> QED
        BY <4>1, <4>2, <4>3
    <3> QED
      BY <3>1, <3>2
  <2> HIDE DEF G
  <2>2. Rises(D, G)
    BY <2>1 DEF Rises
  <2>3. \A S \in SUBSET D : S \in G
    BY <2>2, SubsetsRise
  <2> QED
    BY <2>3 DEF G
<1>9. it \in [SUBSET D -> Int]
  BY <1>6, <1>8 DEF Adds
<1> QED
  BY <1>5, <1>7, <1>9

SumsUp(it, f, D) == AddsTo(it, f, SUBSET D)
AnyFirst(it, f, D) == \A S \in SUBSET D : \A y \in S : it[S] = f[y] + it[S \ {y}]
Agree(f, g, B) == \A y \in B : f[y] = g[y]

\* Whichever member is taken first, the sum is the same.
LEMMA TakenFirst ==
  ASSUME NEW D, IsFiniteSet(D), NEW f \in [D -> Int], NEW it \in [SUBSET D -> Int],
         SumsUp(it, f, D)
  PROVE  AnyFirst(it, f, D)
<1> DEFINE G == {S \in SUBSET D : \A y \in S : it[S] = f[y] + it[S \ {y}]}
<1>1. ASSUME NEW S \in SUBSET D, \A y \in S : S \ {y} \in G
      PROVE  S \in G
  <2>1. ASSUME NEW y \in S
        PROVE  it[S] = f[y] + it[S \ {y}]
    <3>1. PICK z : z = AnyOf(S)
      OBVIOUS
    <3>2. z \in S /\ it[S] = f[z] + it[S \ {z}]
      BY <3>1, AnyIs DEF AddsTo, SumsUp
    <3>3. CASE z = y
      BY <3>2, <3>3
    <3>4. CASE z # y
      <4>1. S \ {z} \in G /\ S \ {y} \in G /\ y \in S \ {z} /\ z \in S \ {y}
        BY <1>1, <3>2, <3>4
      <4>2. it[S \ {z}] = f[y] + it[(S \ {z}) \ {y}]
        BY <4>1
      <4>3. it[S \ {y}] = f[z] + it[(S \ {y}) \ {z}]
        BY <4>1
      <4>4. (S \ {z}) \ {y} = (S \ {y}) \ {z} /\ (S \ {y}) \ {z} \in SUBSET D
        OBVIOUS
      <4>5. f[y] \in Int /\ f[z] \in Int /\ it[(S \ {y}) \ {z}] \in Int
        BY <3>2, <4>4
      <4>6. PICK c : c = it[(S \ {y}) \ {z}]
        OBVIOUS
      <4>7. it[S] = f[z] + (f[y] + c) /\ it[S \ {y}] = f[z] + c /\ c \in Int
        BY <3>2, <4>2, <4>3, <4>4, <4>5, <4>6
      <4> QED
        BY <4>5, <4>7
    <3> QED
      BY <3>3, <3>4
  <2> QED
    BY <2>1
<1>2. Rises(D, G)
  <2> HIDE DEF G
  <2> QED
    BY <1>1 DEF Rises
<1>3. \A S \in SUBSET D : S \in G
  <2> HIDE DEF G
  <2> QED
    BY <1>2, SubsetsRise
<1> QED
  BY <1>3 DEF AnyFirst

Summing(it, f, D) ==
  IsFiniteSet(D) /\ f \in [D -> Int] /\ it \in [SUBSET D -> Int] /\ SumsUp(it, f, D)

\* Two functions have the same sum over what they agree on.
LEMMA SameSum ==
  ASSUME NEW D, NEW f, NEW it, Summing(it, f, D), NEW E, NEW g, NEW jt, Summing(jt, g, E),
         NEW B, B \in SUBSET D, B \in SUBSET E, Agree(f, g, B)
  PROVE  it[B] = jt[B]
<1> USE DEF Summing
<1> DEFINE G == {S \in SUBSET B : it[S] = jt[S]}
<1>1. ASSUME NEW S \in SUBSET B, \A y \in S : S \ {y} \in G
      PROVE  S \in G
  <2>1. S \in SUBSET D /\ S \in SUBSET E
    OBVIOUS
  <2>2. CASE S = {}
    <3>1. it[S] = 0 /\ jt[S] = 0
      BY <2>1, <2>2 DEF AddsTo, SumsUp
    <3> QED
      BY <3>1
  <2>3. CASE S # {}
    <3>1. PICK z : z = AnyOf(S)
      OBVIOUS
    <3>2. z \in S /\ it[S] = f[z] + it[S \ {z}] /\ jt[S] = g[z] + jt[S \ {z}]
      BY <2>1, <2>3, <3>1, AnyIs DEF AddsTo, SumsUp
    <3>3. f[z] = g[z] /\ it[S \ {z}] = jt[S \ {z}]
      BY <1>1, <3>2 DEF Agree
    <3> QED
      BY <3>2, <3>3
  <2> QED
    BY <2>2, <2>3
<1>2. IsFiniteSet(B)
  <2>1. B \in SUBSET D
    OBVIOUS
  <2> QED
    BY <2>1, FS_Subset
<1>3. Rises(B, G)
  <2> HIDE DEF G
  <2> QED
    BY <1>1 DEF Rises
<1>4. B \in G
  <2> HIDE DEF G
  <2>1. \A S \in SUBSET B : S \in G
    BY <1>2, <1>3, SubsetsRise
  <2> QED
    BY <2>1
<1> QED
  BY <1>4

\* One more on one day is one more in all.
LEMMA SumGrows ==
  ASSUME NEW D, IsFiniteSet(D), NEW f \in [D -> Nat], NEW x,
         NEW g, g = Assigned(f, x, Counted(f, x) + 1)
  PROVE  /\ FoldFunction(+, 0, g) = FoldFunction(+, 0, f) + 1
         /\ FoldFunction(+, 0, f) \in Int /\ IsFiniteSet(DOMAIN g)
<1>1. PICK E : E = D \cup {x}
  OBVIOUS
<1>2. /\ IsFiniteSet(E) /\ DOMAIN f = D /\ f \in [D -> Int]
      /\ E \in SUBSET E /\ D \in SUBSET D /\ x \in E
  BY <1>1, FS_AddElement
<1>3. Counted(f, x) \in Nat
  BY <1>2 DEF Counted
<1>4. PICK v \in Nat : v = Counted(f, x) + 1
  BY <1>3
<1>5. g = [y \in E |-> IF y = x THEN v ELSE f[y]]
  BY <1>1, <1>2, <1>4 DEF Assigned
<1>6. g \in [E -> Int] /\ g[x] = v /\ \A y \in E \ {x} : g[y] = f[y]
  BY <1>1, <1>2, <1>5
<1>7. PICK it \in [SUBSET D -> Int] : SumsUp(it, f, D) /\ FoldFunction(+, 0, f) = it[D]
  BY <1>2, SumIs DEF SumsUp
<1>8. PICK jt \in [SUBSET E -> Int] : SumsUp(jt, g, E) /\ FoldFunction(+, 0, g) = jt[E]
  BY <1>2, <1>6, SumIs DEF SumsUp
<1>9. PICK B : B = D \ {x}
  OBVIOUS
<1>10. B = E \ {x} /\ B \in SUBSET D /\ B \in SUBSET E /\ Agree(f, g, B)
  BY <1>1, <1>6, <1>9 DEF Agree
<1>11. it[B] = jt[B]
  <2>1. Summing(it, f, D) /\ Summing(jt, g, E)
    BY <1>2, <1>6, <1>7, <1>8 DEF Summing
  <2> QED
    BY <1>10, <2>1, SameSum
<1>12. jt[E] = v + jt[B]
  <2>1. AnyFirst(jt, g, E)
    BY <1>2, <1>6, <1>8, TakenFirst
  <2> QED
    BY <1>2, <1>6, <1>10, <2>1 DEF AnyFirst
<1>13. it[D] = Counted(f, x) + it[B]
  <2>1. CASE x \in D
    <3>1. AnyFirst(it, f, D)
      BY <1>2, <1>7, TakenFirst
    <3> QED
      BY <1>2, <1>9, <2>1, <3>1 DEF Counted, AnyFirst
  <2>2. CASE x \notin D
    <3>1. B = D /\ Counted(f, x) = 0
      BY <1>2, <1>9, <2>2 DEF Counted
    <3>2. it[D] \in Int
      BY <1>2, <1>7
    <3> QED
      BY <3>1, <3>2
  <2> QED
    BY <2>1, <2>2
<1>14. it[B] \in Int /\ it[D] \in Int
  BY <1>2, <1>7, <1>9
<1>15. jt[E] = it[D] + 1
  BY <1>3, <1>4, <1>11, <1>12, <1>13, <1>14
<1>16. DOMAIN g = E
  BY <1>5
<1> QED
  BY <1>2, <1>7, <1>8, <1>14, <1>15, <1>16

Summed(f) == FoldFunction(+, 0, f)

LEMMA SummedGrows ==
  ASSUME NEW D, IsFiniteSet(D), NEW f \in [D -> Nat], NEW x,
         NEW g, g = Assigned(f, x, Counted(f, x) + 1)
  PROVE  Summed(g) = Summed(f) + 1 /\ Summed(f) \in Int /\ IsFiniteSet(DOMAIN g)
BY SumGrows DEF Summed

LEMMA SummedIs == ASSUME NEW D, IsFiniteSet(D), NEW f \in [D -> Int] PROVE Summed(f) \in Int
<1>1. D \in SUBSET D
  OBVIOUS
<1>2. PICK it \in [SUBSET D -> Int] : FoldFunction(+, 0, f) = it[D]
  BY SumIs
<1>3. it[D] \in Int
  BY <1>1
<1>4. Summed(f) = FoldFunction(+, 0, f)
  BY DEF Summed
<1> QED
  BY <1>2, <1>3, <1>4, Zenon

\* The frames that ended a signal are counted like the signals that they ended.
NoTradesInv ==
  /\ IsFiniteSet(DOMAIN store.noTrade)
  /\ Summed(began.store.noTrade) \in Int
  /\ Summed(store.noTrade) - Summed(began.store.noTrade) =
       Len(records) + (IF decision = "NO_TRADE" THEN 1 ELSE 0)

LEMMA NotedDays ==
  ASSUME store \in Stores, opened \in Nat, NEW d, NEW effect \in Memories, NEW at \in Nat,
         NEW N, N = Noted(d, effect, at)
  PROVE  N.noTrade = IF d = "NO_TRADE" /\ decision # "NO_TRADE"
                     THEN Assigned(store.noTrade, TradingDay(at),
                                   Counted(store.noTrade, TradingDay(at)) + 1)
                     ELSE store.noTrade
<1>1. PICK M : M = IF IsSignal(d) THEN NoteOpen(store, opened + 1, effect) ELSE store
  OBVIOUS
<1>2. M \in Stores /\ M.noTrade = store.noTrade
  <2>1. PICK memory : memory = Assigned(store.memory, opened + 1, effect)
    OBVIOUS
  <2>2. memory \in Dicts(Nat, Memories)
    <3>1. store.memory \in Dicts(Nat, Memories)
      BY DEF Stores
    <3>2. PICK id \in Nat : id = opened + 1
      OBVIOUS
    <3> QED
      BY <2>1, <3>1, <3>2, AssignedIs
  <2>3. NoteOpen(store, opened + 1, effect) = [store EXCEPT !.memory = memory]
    BY <2>1 DEF NoteOpen
  <2> QED
    BY <1>1, <2>2, <2>3 DEF Stores
<1>3. N = IF d = "NO_TRADE" /\ decision # "NO_TRADE" THEN RecordNoTrade(M, at) ELSE M
  BY <1>1 DEF Noted
<1>4. PICK days : days = Assigned(M.noTrade, TradingDay(at), Counted(M.noTrade, TradingDay(at)) + 1)
  OBVIOUS
<1>5. RecordNoTrade(M, at) = [M EXCEPT !.noTrade = days]
  BY <1>4 DEF RecordNoTrade
<1>6. RecordNoTrade(M, at).noTrade = days
  BY <1>2, <1>5 DEF Stores
<1> QED
  BY <1>2, <1>3, <1>4, <1>6

LEMMA NoTradesFrame ==
  ASSUME ClockInv, RecordsInv, PathsInv, StoreInv, NoTradesInv, StableWindow # 1,
         NEW p, NEW side, NEW effect, NEW at, Framed(p, side, effect, at)
  PROVE  NoTradesInv'
<1>1. /\ effect \in Memories /\ at \in Nat /\ opened \in Nat /\ store \in Stores
      /\ began' = began
  <2>1. effect \in Memories /\ at \in Nat
    BY DEF Framed
  <2>2. began' = began
    BY FrameIs
  <2>3. opened \in Nat
    <3>1. opened \in 0..shown
      BY DEF ClockInv
    <3> QED
      BY <3>1
  <2>4. store \in Stores
    BY DEF StoreInv
  <2> QED
    BY <2>1, <2>2, <2>3, <2>4
<1>2. PICK d, N, R, A, T : /\ d = decision' /\ N = Noted(d, effect, at) /\ R = records'
                           /\ A = audits' /\ T = store'
  OBVIOUS
<1>3. N \in Stores
  BY <1>1, <1>2, NotedIs
<1>4. R \in Seq(Signals) /\ A \in Seq(AuditsMade) /\ Known(R)
  <2>1. (RecordsInv /\ ClockInv /\ PathsInv)'
    BY ClockFrame, RecordsFrame, PathsFrame
  <2>2. R \in Seq(Signals) /\ A \in Seq(AuditsMade)
    BY <1>2, <2>1 DEF RecordsInv, PathsInv
  <2>3. ASSUME NEW k \in DOMAIN R, ~Pending(R[k])
        PROVE  R[k].done \in Nat /\ R[k].points \in Int
    <3>1. (k \in DOMAIN records /\ ~Pending(records[k]))'
      BY <1>2, <2>3
    <3>2. (RecordsInv /\ ClockInv)' /\ (k \in DOMAIN records /\ ~Pending(records[k]))'
          => (records[k].done \in Nat /\ records[k].points \in Int)'
      BY DEF RecordsInv, Pending
    <3> QED
      BY <1>2, <2>1, <3>1, <3>2
  <2> QED
    BY <2>2, <2>3 DEF Known
<1>5. T.noTrade = N.noTrade
  <2>1. T = SyncCompleted(N, R, A)
    BY <1>2, FrameIs
  <2>2. PICK all : all = Grown(N, R, A)
    OBVIOUS
  <2> QED
    BY <1>3, <1>4, <2>1, <2>2, SyncIs
<1>6. PICK f, g, s, t, u, l, h :
        /\ f = store.noTrade /\ g = N.noTrade /\ l = Len(records) /\ h = Len(R)
        /\ s = Summed(f) /\ t = Summed(g)
        /\ u = Summed(began.store.noTrade)
  OBVIOUS
<1>7. PICK D, day : D = DOMAIN f /\ day = TradingDay(at)
  OBVIOUS
<1>8. IsFiniteSet(D) /\ f \in [D -> Nat]
  <2>1. f \in Dicts(Days, Nat)
    BY <1>1, <1>6 DEF Stores
  <2> QED
    BY <1>6, <1>7, <2>1, DictIs DEF NoTradesInv
<1>9. g = IF d = "NO_TRADE" /\ decision # "NO_TRADE"
          THEN Assigned(f, day, Counted(f, day) + 1) ELSE f
  BY <1>1, <1>2, <1>6, <1>7, NotedDays
<1>10. /\ IsFiniteSet(DOMAIN g) /\ s \in Int
       /\ t = IF d = "NO_TRADE" /\ decision # "NO_TRADE" THEN s + 1 ELSE s
  <2>1. PICK x : x = Assigned(f, day, Counted(f, day) + 1)
    OBVIOUS
  <2>2. /\ Summed(x) = Summed(f) + 1
        /\ Summed(f) \in Int /\ IsFiniteSet(DOMAIN x)
    BY <1>8, <2>1, SummedGrows
  <2> QED
    BY <1>6, <1>7, <1>8, <1>9, <2>1, <2>2
<1>11. /\ u \in Int /\ l \in Nat
       /\ s - u = l + (IF decision = "NO_TRADE" THEN 1 ELSE 0)
  BY <1>6 DEF NoTradesInv, RecordsInv
<1>12. /\ h = IF IsSignal(d) THEN l + 1 ELSE l
       /\ IsSignal(d) => decision = "NO_TRADE" /\ d # "NO_TRADE"
       /\ d \in Sides /\ ~IsSignal(d) => decision = d
       /\ d \in Sides \cup {"NO_TRADE"} /\ "NO_TRADE" \notin Sides
  <2>1. h = IF IsSignal(d) THEN l + 1 ELSE l
    BY <1>2, <1>6, RecordsGrow
  <2>2. /\ IsSignal(d) => decision = "NO_TRADE"
        /\ d \in Sides /\ ~IsSignal(d) => decision = d
        /\ d \in Decisions
    BY <1>2, EdgesAre
  <2> QED
    BY <2>1, <2>2 DEF IsSignal, Decisions, Sides
<1>13. t - u = h + (IF d = "NO_TRADE" THEN 1 ELSE 0)
  BY <1>10, <1>11, <1>12
<1> QED
  BY <1>1, <1>2, <1>5, <1>6, <1>10, <1>11, <1>13 DEF NoTradesInv

LEMMA NoTradesInit == AInit => NoTradesInv
<1> SUFFICES ASSUME AInit PROVE NoTradesInv
  OBVIOUS
<1>1. /\ records = << >> /\ decision = None /\ store = NoStore
      /\ began = [store |-> NoStore, plans |-> 0, open |-> 0]
  BY DEF AInit, Started
<1>2. PICK f, u : f = NoStore.noTrade /\ u = Summed(f)
  OBVIOUS
<1>3. store.noTrade = f /\ began.store.noTrade = f /\ DOMAIN f = {} /\ f \in [{} -> Int]
  BY <1>1, <1>2 DEF NoStore
<1>4. IsFiniteSet({}) /\ {} \in SUBSET {}
  BY FS_EmptySet
<1>5. u \in Int
  BY <1>2, <1>3, <1>4, SummedIs
<1>6. None # "NO_TRADE"
  BY AuditAssumption
<1> QED
  BY <1>1, <1>2, <1>3, <1>4, <1>5, <1>6 DEF NoTradesInv

LEMMA NoTradesRestart == ASSUME StoreInv, NoTradesInv, Restart PROVE NoTradesInv'
<1>1. PICK S, f, s, u : /\ S = LoadedStore(store) /\ f = store.noTrade
                        /\ s = Summed(f)
                        /\ u = Summed(began.store.noTrade)
  OBVIOUS
<1>2. store' = S /\ began'.store = S /\ records' = << >> /\ decision' = None
  BY <1>1, RestartIs
<1>3. S.noTrade = f
  <2>1. PICK ids : ids = {store.signals[k].id : k \in DOMAIN store.signals}
    OBVIOUS
  <2>2. S = [store EXCEPT !.ids = ids]
    BY <1>1, <2>1 DEF LoadedStore
  <2> QED
    BY <1>1, <2>2 DEF StoreInv, Stores
<1>4. IsFiniteSet(DOMAIN f) /\ s \in Int
  <2>1. IsFiniteSet(DOMAIN f) /\ f \in [DOMAIN f -> Nat]
    <3>1. f \in Dicts(Days, Nat)
      BY <1>1 DEF StoreInv, Stores
    <3> QED
      BY <1>1, <3>1, DictIs DEF NoTradesInv
  <2>2. f \in [DOMAIN f -> Int]
    BY <2>1
  <2>3. Summed(f) \in Int
    BY <2>1, <2>2, SummedIs
  <2> QED
    BY <1>1, <2>1, <2>3
<1>5. None # "NO_TRADE"
  BY AuditAssumption
<1> QED
  BY <1>1, <1>2, <1>3, <1>4, <1>5 DEF NoTradesInv

LEMMA NoTradesSame ==
  ASSUME NoTradesInv, UNCHANGED <<began, records, store, decision>>
  PROVE  NoTradesInv'
BY DEF NoTradesInv

-----------------------------------------------------------------------------
(* Counting.                                                               *)

Splits(K, A, B) == A \cup B = K /\ A \cap B = {}

\* What is in two parts is counted part by part.
LEMMA PartsCount ==
  ASSUME NEW K, IsFiniteSet(K), NEW A, NEW B, Splits(K, A, B)
  PROVE  /\ Cardinality(A) \in Nat /\ Cardinality(B) \in Nat /\ IsFiniteSet(A) /\ IsFiniteSet(B)
         /\ Cardinality(K) = Cardinality(A) + Cardinality(B)
<1>1. A \in SUBSET K /\ B \in SUBSET K /\ A \cup B = K /\ A \cap B = {}
  BY DEF Splits
<1>2. IsFiniteSet(A) /\ IsFiniteSet(B)
  BY <1>1, FS_Subset
<1>3. Cardinality(A) \in Nat /\ Cardinality(B) \in Nat
  BY <1>2, FS_CardinalityType
<1>4. Cardinality(A \cup B) = Cardinality(A) + Cardinality(B) - Cardinality(A \cap B)
  BY <1>2, FS_Union
<1>5. Cardinality(A \cap B) = 0
  BY <1>1, FS_EmptySet
<1> QED
  BY <1>1, <1>2, <1>3, <1>4, <1>5

Paired(f, S, T) ==
  /\ f \in [S -> T]
  /\ \A x, y \in S : f[x] = f[y] => x = y
  /\ \A t \in T : \E x \in S : f[x] = t

\* There are as many of the one as of the other.
LEMMA PairsCount ==
  ASSUME NEW S, IsFiniteSet(S), NEW T, NEW f, Paired(f, S, T)
  PROVE  IsFiniteSet(T) /\ Cardinality(T) = Cardinality(S)
<1>1. f \in Bijection(S, T)
  BY DEF Paired, Bijection, Injection, Surjection, IsInjective
<1>2. ExistsBijection(S, T)
  BY <1>1 DEF ExistsBijection
<1> QED
  BY <1>2, FS_Bijection

Moves(T, K, g) == \A x : x \in T <=> \E k \in K : x = g + k
Turns(T, K) == \A x : x \in T <=> \E k \in K : x = -k

\* A set of numbers is moved, or turned around, and has as many members as before.
LEMMA MovedCounts ==
  ASSUME NEW K \in SUBSET Int, IsFiniteSet(K), NEW g \in Int,
         NEW T, Moves(T, K, g)
  PROVE  IsFiniteSet(T) /\ Cardinality(T) = Cardinality(K)
<1>1. PICK f : f = [k \in K |-> g + k]
  OBVIOUS
<1>2. Paired(f, K, T)
  BY <1>1 DEF Paired, Moves
<1> QED
  BY <1>2, PairsCount

LEMMA TurnedCounts ==
  ASSUME NEW K \in SUBSET Int, IsFiniteSet(K),
         NEW T, Turns(T, K)
  PROVE  IsFiniteSet(T) /\ Cardinality(T) = Cardinality(K)
<1>1. PICK f : f = [k \in K |-> -k]
  OBVIOUS
<1>2. Paired(f, K, T)
  BY <1>1 DEF Paired, Turns
<1> QED
  BY <1>2, PairsCount

OfSide(R, K, side) == {k \in K : R[k].side = side}

\* The signals are of the one side and of the other.
LEMMA SidesCount ==
  ASSUME NEW R \in Seq(Signals), NEW K \in SUBSET (DOMAIN R), IsFiniteSet(K),
         NEW buys, buys = OfSide(R, K, "BUY"), NEW sells, sells = OfSide(R, K, "SELL")
  PROVE  /\ Cardinality(buys) \in Nat /\ Cardinality(sells) \in Nat
         /\ Cardinality(K) = Cardinality(buys) + Cardinality(sells)
<1>1. \A k \in K : R[k].side \in {"BUY", "SELL"}
  <2>1. ASSUME NEW k \in K
        PROVE  R[k].side \in {"BUY", "SELL"}
    <3>1. R[k] \in Signals
      OBVIOUS
    <3> QED
      BY <3>1 DEF Signals, Sides
  <2> QED
    BY <2>1
<1>2. Splits(K, buys, sells)
  BY <1>1 DEF Splits, OfSide
<1> QED
  BY <1>2, PartsCount

Resulting(R, result) == {k \in DOMAIN R : R[k].result = result}
LabelledAs(s, label) == {k \in DOMAIN s : s[k].label = label}
Gaining(s) == {k \in DOMAIN s : s[k].points > 0}
Losing(s) == {k \in DOMAIN s : s[k].points < 0}
Following(s) == {k \in DOMAIN s : s[k].mfe # None}
OnDay(s, day) == {k \in DOMAIN s : s[k].day = day}
PointsOf(s) == Total([k \in DOMAIN s |-> s[k].points])
BestOf(s) == Total([k \in DOMAIN s |-> s[k].mfe])

\* The results are won, lost, or neither; or there is none yet.
LEMMA ResultsCount ==
  ASSUME NEW R \in Seq(Signals),
         NEW won, won = Resulting(R, "SUCCESS"), NEW lost, lost = Resulting(R, "FAILED"),
         NEW even, even = Resulting(R, "NEUTRAL"), NEW open, open = Resulting(R, "PENDING")
  PROVE  /\ Cardinality(won) \in Nat /\ Cardinality(lost) \in Nat /\ Cardinality(even) \in Nat
         /\ Cardinality(open) \in Nat
         /\ Cardinality(won) + Cardinality(lost) + Cardinality(even) + Cardinality(open) = Len(R)
<1>0. PICK K : K = DOMAIN R
  OBVIOUS
<1>1. \A k \in K : R[k].result \in {"PENDING", "SUCCESS", "FAILED", "NEUTRAL"}
  <2>1. ASSUME NEW k \in K
        PROVE  R[k].result \in {"PENDING", "SUCCESS", "FAILED", "NEUTRAL"}
    <3>1. R[k] \in Signals
      BY <1>0
    <3> QED
      BY <3>1 DEF Signals
  <2> QED
    BY <2>1
<1>2. PICK n \in Nat : n = Len(R) /\ K = 1..n
  BY <1>0
<1>3. IsFiniteSet(K) /\ Cardinality(K) = n
  <2>1. IsFiniteSet(1..n) /\ Cardinality(1..n) = IF 1 > n THEN 0 ELSE n - 1 + 1
    BY FS_Interval
  <2> QED
    BY <1>2, <2>1
<1>4. PICK L, M : L = won \cup lost /\ M = even \cup open
  OBVIOUS
<1>5. Splits(K, L, M) /\ Splits(L, won, lost) /\ Splits(M, even, open)
  BY <1>0, <1>1, <1>4 DEF Splits, Resulting
<1>6. IsFiniteSet(L) /\ IsFiniteSet(M) /\ n = Cardinality(L) + Cardinality(M)
  BY <1>3, <1>5, PartsCount
<1>7. /\ Cardinality(won) \in Nat /\ Cardinality(lost) \in Nat
      /\ Cardinality(L) = Cardinality(won) + Cardinality(lost)
  BY <1>5, <1>6, PartsCount
<1>8. /\ Cardinality(even) \in Nat /\ Cardinality(open) \in Nat
      /\ Cardinality(M) = Cardinality(even) + Cardinality(open)
  BY <1>5, <1>6, PartsCount
<1> QED
  BY <1>2, <1>6, <1>7, <1>8

\* The finished signals are won, lost or neither.
LEMMA LabelsCount ==
  ASSUME NEW S \in Seq(Stored), NEW won, won = LabelledAs(S, "WIN"),
         NEW lost, lost = LabelledAs(S, "LOSS"), NEW even, even = LabelledAs(S, "BREAKEVEN")
  PROVE  /\ Cardinality(won) \in Nat /\ Cardinality(lost) \in Nat /\ Cardinality(even) \in Nat
         /\ Cardinality(won) + Cardinality(lost) + Cardinality(even) = Len(S)
<1>0. PICK K : K = DOMAIN S
  OBVIOUS
<1>1. \A k \in K : S[k].label \in {"WIN", "LOSS", "BREAKEVEN"}
  <2>1. ASSUME NEW k \in K
        PROVE  S[k].label \in {"WIN", "LOSS", "BREAKEVEN"}
    <3>1. S[k] \in Stored
      BY <1>0
    <3> QED
      BY <3>1 DEF Stored, Labels
  <2> QED
    BY <2>1
<1>2. PICK n \in Nat : n = Len(S) /\ K = 1..n
  BY <1>0
<1>3. IsFiniteSet(K) /\ Cardinality(K) = n
  <2>1. IsFiniteSet(1..n) /\ Cardinality(1..n) = IF 1 > n THEN 0 ELSE n - 1 + 1
    BY FS_Interval
  <2> QED
    BY <1>2, <2>1
<1>4. PICK L : L = won \cup lost
  OBVIOUS
<1>5. Splits(K, L, even) /\ Splits(L, won, lost)
  BY <1>0, <1>1, <1>4 DEF Splits, LabelledAs
<1>6. /\ IsFiniteSet(L) /\ n = Cardinality(L) + Cardinality(even) /\ Cardinality(even) \in Nat
  BY <1>3, <1>5, PartsCount
<1>7. /\ Cardinality(won) \in Nat /\ Cardinality(lost) \in Nat
      /\ Cardinality(L) = Cardinality(won) + Cardinality(lost)
  BY <1>5, <1>6, PartsCount
<1> QED
  BY <1>2, <1>6, <1>7

-----------------------------------------------------------------------------
(* What the panels count.                                                  *)

LEMMA AggregateIs ==
  ASSUME NEW s, NEW noTrade, NEW buys, NEW sells,
         NEW view, view = Aggregate(s, noTrade, buys, sells)
  PROVE  /\ view.signals = Len(s) + buys + sells /\ view.noTrade = noTrade
         /\ view.wins = Len(Where(s, LabelledAs(s, "WIN")))
         /\ view.losses = Len(Where(s, LabelledAs(s, "LOSS")))
         /\ view.breakeven = Len(Where(s, LabelledAs(s, "BREAKEVEN")))
         /\ view.grossProfit = PointsOf(Where(s, Gaining(s)))
         /\ view.grossLoss = -PointsOf(Where(s, Losing(s)))
         /\ view.averageMfe.sum = BestOf(Where(s, Following(s)))
BY DEF Aggregate, Mean, SumOf, Points, LabelledAs, Gaining, Losing, Following, PointsOf, BestOf


LEMMA PerformanceIs ==
  ASSUME NEW R, NEW timing, NEW panel, panel = PerformancePanel(R, timing)
  PROVE  /\ panel.counts.success = Cardinality(Resulting(R, "SUCCESS"))
         /\ panel.counts.failed = Cardinality(Resulting(R, "FAILED"))
         /\ panel.counts.neutral = Cardinality(Resulting(R, "NEUTRAL"))
         /\ panel.counts.pending = Cardinality(Resulting(R, "PENDING"))
         /\ panel.wins.sum = PointsOf(Where(R, Resulting(R, "SUCCESS")))
         /\ panel.losses.sum = PointsOf(Where(R, Resulting(R, "FAILED")))
         /\ panel.timing = timing
BY DEF PerformancePanel, PerformanceOf, Mean, SumOf, Points, Resulting, PointsOf

LEMMA TimingIs ==
  ASSUME NEW A, NEW timing, timing = TimingSummary(A)
  PROVE  timing.signals = Len(A) /\ timing.mfe = BestOf(A)
BY DEF TimingSummary, BestOf

\* The signals of a process that are still open, on some days.
OpenOn(R, side, days) ==
  {k \in {j \in DOMAIN R : Pending(R[j])} : R[k].side = side /\ TradingDay(R[k].at) \in days}

DaysOpen(R, today) ==
  {today} \cup {TradingDay(R[k].at) : k \in {j \in DOMAIN R : Pending(R[j])}}

\* The lifetime panel and the panel of the day.
LifeIs(life, N, R, at) ==
  life = Aggregate(N.signals, Summed(N.noTrade),
                   Cardinality(OpenOn(R, "BUY", DaysOpen(R, TradingDay(at)))),
                   Cardinality(OpenOn(R, "SELL", DaysOpen(R, TradingDay(at)))))
DayIs(today, N, R, at) ==
  today = Aggregate(Where(N.signals, OnDay(N.signals, TradingDay(at))),
                    Counted(N.noTrade, TradingDay(at)),
                    Cardinality(OpenOn(R, "BUY", {TradingDay(at)})),
                    Cardinality(OpenOn(R, "SELL", {TradingDay(at)})))

LEMMA BuildViewsIs ==
  ASSUME NEW N, NEW R, NEW at
  PROVE  /\ LifeIs(BuildViews(N, R, at).lifetime, N, R, at)
         /\ DayIs(BuildViews(N, R, at).today, N, R, at)
BY DEF BuildViews, LifeIs, DayIs, OpenOn, DaysOpen, OnDay, Summed

\* The signals that are open on some days, of both sides.
LEMMA OpenCounts ==
  ASSUME RecordsInv, NEW days,
         NEW K, K = {k \in DOMAIN records : Pending(records[k]) /\ TradingDay(records[k].at) \in days}
  PROVE  /\ IsFiniteSet(K)
         /\ Cardinality(OpenOn(records, "BUY", days)) \in Nat
         /\ Cardinality(OpenOn(records, "SELL", days)) \in Nat
         /\ Cardinality(OpenOn(records, "BUY", days)) + Cardinality(OpenOn(records, "SELL", days))
              = Cardinality(K)
<1>1. PICK R : R = records
  OBVIOUS
<1>2. PICK buys, sells : buys = OpenOn(R, "BUY", days) /\ sells = OpenOn(R, "SELL", days)
  OBVIOUS
<1>3. R \in Seq(Signals)
  BY <1>1 DEF RecordsInv
<1>4. K \in SUBSET (DOMAIN R) /\ IsFiniteSet(DOMAIN R)
  <2>1. PICK n \in Nat : DOMAIN R = 1..n
    BY <1>3
  <2> QED
    BY <1>1, <2>1, FS_Interval
<1>5. IsFiniteSet(K)
  BY <1>4, FS_Subset
<1>6. buys = OfSide(R, K, "BUY") /\ sells = OfSide(R, K, "SELL")
  BY <1>1, <1>2 DEF OpenOn, OfSide
<1>7. /\ Cardinality(buys) \in Nat /\ Cardinality(sells) \in Nat
      /\ Cardinality(K) = Cardinality(buys) + Cardinality(sells)
  BY <1>3, <1>4, <1>5, <1>6, SidesCount
<1> QED
  BY <1>1, <1>2, <1>5, <1>7

\* The signals that are not judged yet are the newest.
LEMMA PendingCount ==
  ASSUME RecordsInv, PathsInv, NEW K, K = {k \in DOMAIN records : Pending(records[k])}
  PROVE  /\ K = (Len(audits) + 1)..Len(records)
         /\ Cardinality(K) = Len(records) - Len(audits)
         /\ IsFiniteSet(K)
<1>1. PICK a, l : a = Len(audits) /\ l = Len(records)
  OBVIOUS
<1>2. a \in Nat /\ l \in Nat /\ a <= l /\ \A k \in 1..l : Pending(records[k]) <=> a < k
  BY <1>1, JudgedAre
<1>3. DOMAIN records = 1..l
  BY <1>1 DEF RecordsInv
<1>4. K = (a + 1)..l
  BY <1>2, <1>3
<1>5. /\ Cardinality((a + 1)..l) = IF a + 1 > l THEN 0 ELSE l - (a + 1) + 1
      /\ IsFiniteSet((a + 1)..l)
  <2>1. a + 1 \in Int /\ l \in Int
    BY <1>2
  <2> QED
    BY <2>1, FS_Interval
<1>6. Cardinality(K) = l - a
  <2>1. (IF a + 1 > l THEN 0 ELSE l - (a + 1) + 1) = l - a
    BY <1>2
  <2> QED
    BY <1>4, <1>5, <2>1
<1> QED
  BY <1>1, <1>4, <1>5, <1>6

\* The signals of a panel are those of the store, each with one label, and those that are
\* open.
LEMMA LifetimeCounts ==
  ASSUME RecordsInv, PathsInv, StoreInv, FoundInv,
         NEW life, life = BuildViews(store, records, now).lifetime
  PROVE  /\ life.signals = Len(began.store.signals) + Len(records)
         /\ life.wins + life.losses + life.breakeven + (Len(records) - Len(audits)) = life.signals
         /\ life.noTrade = Summed(store.noTrade)
<1>1. PICK S, today, R, g, a, l :
        /\ S = store.signals /\ today = TradingDay(now) /\ R = records
        /\ g = Len(began.store.signals) /\ a = Len(audits) /\ l = Len(records)
  OBVIOUS
<1>2. PICK days : days = DaysOpen(R, today)
  OBVIOUS
<1>3. PICK n, b, s : /\ n = Summed(store.noTrade)
                     /\ b = Cardinality(OpenOn(R, "BUY", days))
                     /\ s = Cardinality(OpenOn(R, "SELL", days))
  OBVIOUS
<1>4. life = Aggregate(S, n, b, s)
  <2>1. PICK N, at : N = store /\ at = now
    OBVIOUS
  <2>2. LifeIs(BuildViews(N, R, at).lifetime, N, R, at) /\ today = TradingDay(at)
    BY <1>1, <2>1, BuildViewsIs
  <2>3. BuildViews(N, R, at).lifetime = life
    BY <1>1, <2>1
  <2> QED
    BY <1>1, <1>2, <1>3, <2>1, <2>2, <2>3 DEF LifeIs
<1>5. b \in Nat /\ s \in Nat /\ b + s = l - a
  <2>1. PICK K : K = {k \in DOMAIN R : Pending(R[k])}
    OBVIOUS
  <2>2. K = {k \in DOMAIN R : Pending(R[k]) /\ TradingDay(R[k].at) \in days}
    BY <1>2, <2>1 DEF DaysOpen
  <2>3. Cardinality(K) = l - a
    BY <1>1, <2>1, PendingCount
  <2> QED
    BY <1>1, <1>3, <2>2, <2>3, OpenCounts
<1>6. g \in Nat /\ a \in Nat /\ l \in Nat /\ S \in Seq(Stored) /\ Len(S) = g + a
  <2>1. began.store.signals \in Seq(Stored) /\ S \in Seq(Stored)
    BY <1>1 DEF StoreInv, Stores
  <2>2. Len(S) = g + a
    BY <1>1 DEF FoundInv
  <2>3. a \in Nat /\ l \in Nat
    BY <1>1, JudgedAre
  <2> QED
    BY <1>1, <2>1, <2>2, <2>3
<1>7. PICK won, lost, even : /\ won = LabelledAs(S, "WIN") /\ lost = LabelledAs(S, "LOSS")
                             /\ even = LabelledAs(S, "BREAKEVEN")
  OBVIOUS
<1>8. /\ life.signals = Len(S) + b + s /\ life.noTrade = n
      /\ life.wins = Len(Where(S, won)) /\ life.losses = Len(Where(S, lost))
      /\ life.breakeven = Len(Where(S, even))
  BY <1>4, <1>7, AggregateIs
<1>9. won \in SUBSET (DOMAIN S) /\ lost \in SUBSET (DOMAIN S) /\ even \in SUBSET (DOMAIN S)
  BY <1>7 DEF LabelledAs
<1>10. /\ Len(Where(S, won)) = Cardinality(won) /\ Len(Where(S, lost)) = Cardinality(lost)
       /\ Len(Where(S, even)) = Cardinality(even)
  BY <1>6, <1>9, WhereCounts
<1>11. /\ Cardinality(won) \in Nat /\ Cardinality(lost) \in Nat /\ Cardinality(even) \in Nat
       /\ Cardinality(won) + Cardinality(lost) + Cardinality(even) = Len(S)
  BY <1>6, <1>7, LabelsCount
<1>12. PICK x, y, z : x = Cardinality(won) /\ y = Cardinality(lost) /\ z = Cardinality(even)
  OBVIOUS
<1>13. /\ x \in Nat /\ y \in Nat /\ z \in Nat /\ x + y + z = g + a
       /\ life.signals = g + a + b + s
       /\ life.wins = x /\ life.losses = y /\ life.breakeven = z
  BY <1>6, <1>8, <1>10, <1>11, <1>12
<1>14. life.signals = g + l
  <2>1. g + a + b + s = g + l
    BY <1>5, <1>6
  <2> QED
    BY <1>13, <2>1
<1>15. life.wins + life.losses + life.breakeven + (l - a) = g + l
  BY <1>6, <1>13
<1> QED
  BY <1>1, <1>3, <1>8, <1>14, <1>15

\* The signals of a session have a result, or are not judged yet.
LEMMA SessionCounts ==
  ASSUME RecordsInv, PathsInv, NEW timing, timing = TimingSummary(audits),
         NEW panel, panel = PerformancePanel(records, timing)
  PROVE  /\ panel.counts.pending = Len(records) - Len(audits)
         /\ panel.counts.success + panel.counts.failed + panel.counts.neutral
              + panel.counts.pending = Len(records)
         /\ panel.timing.signals = Len(records) - panel.counts.pending
<1>1. PICK R, a, l : R = records /\ a = Len(audits) /\ l = Len(records)
  OBVIOUS
<1>2. PICK won, lost, even, open :
        /\ won = Resulting(R, "SUCCESS") /\ lost = Resulting(R, "FAILED")
        /\ even = Resulting(R, "NEUTRAL") /\ open = Resulting(R, "PENDING")
  OBVIOUS
<1>3. /\ panel.counts.success = Cardinality(won) /\ panel.counts.failed = Cardinality(lost)
      /\ panel.counts.neutral = Cardinality(even) /\ panel.counts.pending = Cardinality(open)
      /\ panel.timing = timing
  BY <1>1, <1>2, PerformanceIs
<1>4. timing.signals = a
  BY <1>1, TimingIs
<1>5. Cardinality(open) = l - a
  <2>1. open = {k \in DOMAIN records : Pending(records[k])}
    BY <1>1, <1>2 DEF Pending, Resulting
  <2> QED
    BY <1>1, <2>1, PendingCount
<1>6. R \in Seq(Signals)
  BY <1>1 DEF RecordsInv
<1>7. Cardinality(won) + Cardinality(lost) + Cardinality(even) + Cardinality(open) = l
  BY <1>1, <1>2, <1>6, ResultsCount
<1>8. a \in Nat /\ l \in Nat
  BY <1>1, JudgedAre
<1> QED
  BY <1>1, <1>3, <1>4, <1>5, <1>7, <1>8

Alike(S, R, K) == \A k \in K : S[k].points = R[k].points

LEMMA SamePoints ==
  ASSUME NEW S \in Seq(Stored), NEW R \in Seq(Signals), Len(S) <= Len(R),
         NEW K, K \in SUBSET (DOMAIN S), Alike(S, R, K)
  PROVE  PointsOf(Where(S, K)) = PointsOf(Where(R, K))
<1>1. PICK p, q : p = Where(S, K) /\ q = Where(R, K)
  OBVIOUS
<1>2. /\ Len(p) = Len(q)
      /\ \A i \in 1..Len(p) : \E k \in K : p[i] = S[k] /\ q[i] = R[k]
  BY <1>1, WhereSame
<1>3. p \in Seq(Stored) /\ q \in Seq(Signals)
  <2>1. K \in SUBSET (DOMAIN R)
    <3>1. PICK n \in Nat, m \in Nat : n = Len(S) /\ m = Len(R) /\ n <= m
      OBVIOUS
    <3>2. DOMAIN S = 1..n /\ DOMAIN R = 1..m
      BY <3>1
    <3> QED
      BY <3>1, <3>2
  <2>2. p \in Seq(Stored)
    BY <1>1, WhereCounts
  <2>3. q \in Seq(Signals)
    BY <1>1, <2>1, WhereCounts
  <2> QED
    BY <2>2, <2>3
<1>4. PICK n \in Nat : n = Len(p) /\ DOMAIN p = 1..n /\ DOMAIN q = 1..n
  BY <1>2, <1>3
<1>5. ASSUME NEW i \in 1..n
      PROVE  p[i].points = q[i].points
  <2>1. PICK k \in K : p[i] = S[k] /\ q[i] = R[k]
    BY <1>2, <1>4
  <2> QED
    BY <2>1 DEF Alike
<1>6. [i \in 1..n |-> p[i].points] = [i \in 1..n |-> q[i].points]
  BY <1>5
<1>7. PICK f : f = [i \in 1..n |-> p[i].points]
  OBVIOUS
<1>8. PointsOf(p) = Total(f)
  BY <1>4, <1>7 DEF PointsOf
<1>9. PointsOf(q) = Total(f)
  BY <1>4, <1>6, <1>7 DEF PointsOf
<1> QED
  BY <1>1, <1>8, <1>9

\* A signal that gains is won, and one that loses is lost.
LEMMA WonOrLost ==
  ASSUME RecordsInv, PathsInv, NEW k \in 1..Len(audits)
  PROVE  /\ records[k].points \in Int
         /\ records[k].result = "SUCCESS" <=> records[k].points > 0
         /\ records[k].result = "FAILED" <=> records[k].points < 0
<1>1. k \in DOMAIN records /\ ~Pending(records[k])
  <2>1. PICK a, l : a = Len(audits) /\ l = Len(records)
    OBVIOUS
  <2>2. a \in Nat /\ l \in Nat /\ a <= l /\ \A j \in 1..l : Pending(records[j]) <=> a < j
    BY <2>1, JudgedAre
  <2>3. DOMAIN records = 1..l
    BY <2>1 DEF RecordsInv
  <2> QED
    BY <2>1, <2>2, <2>3
<1>2. PICK r : r = records[k]
  OBVIOUS
<1>3. r.points \in Int /\ r.result = ResultOf(r.points)
  BY <1>1, <1>2 DEF RecordsInv, Pending
<1> QED
  BY <1>2, <1>3 DEF ResultOf

\* With nothing before, the panel of the session has the sums of the lifetime panel.
LEMMA SumsAgree ==
  ASSUME RecordsInv, PathsInv, StoreInv, FoundInv, began.store.signals = << >>,
         NEW S, S = store.signals, NEW R, R = records
  PROVE  /\ PointsOf(Where(S, Gaining(S))) = PointsOf(Where(R, Resulting(R, "SUCCESS")))
         /\ PointsOf(Where(S, Losing(S))) = PointsOf(Where(R, Resulting(R, "FAILED")))
<1>1. PICK a, l : a = Len(audits) /\ l = Len(R)
  OBVIOUS
<1>2. /\ a \in Nat /\ l \in Nat /\ a <= l /\ \A k \in 1..l : Pending(R[k]) <=> a < k
      /\ R \in Seq(Signals) /\ DOMAIN R = 1..l
  BY <1>1, JudgedAre DEF RecordsInv
<1>3. S \in Seq(Stored) /\ Len(S) = a /\ DOMAIN S = 1..a
  <2>1. S \in Seq(Stored)
    BY DEF StoreInv, Stores
  <2>2. Len(S) = Len(began.store.signals) + a /\ Len(began.store.signals) = 0
    BY <1>1 DEF FoundInv
  <2> QED
    BY <1>2, <2>1, <2>2
<1>4. \A k \in 1..a : S[k].points = R[k].points
  <2>1. PICK g : g = Len(began.store.signals)
    OBVIOUS
  <2>2. g = 0 /\ \A k \in 1..a : Files(S[g + k], R[k])
    BY <1>1, <2>1 DEF FoundInv
  <2>3. \A k \in 1..a : g + k = k
    BY <1>2, <2>2
  <2> QED
    BY <2>2, <2>3 DEF Files
<1>5. \A k \in 1..a : /\ R[k].points \in Int
                      /\ R[k].result = "SUCCESS" <=> R[k].points > 0
                      /\ R[k].result = "FAILED" <=> R[k].points < 0
  BY <1>1, WonOrLost
<1>6. PICK G, L : G = Gaining(S) /\ L = Losing(S)
  OBVIOUS
<1>7. G = Resulting(R, "SUCCESS") /\ L = Resulting(R, "FAILED")
  <2>1. \A k \in 1..l : a < k => R[k].result = "PENDING"
    BY <1>2 DEF Pending
  <2>2. \A k \in 1..l : k <= a => k \in 1..a
    BY <1>2
  <2>3. \A k \in 1..a : k \in 1..l /\ k <= a
    BY <1>2
  <2>4. \A k : k \in G <=> k \in 1..l /\ R[k].result = "SUCCESS"
    BY <1>2, <1>3, <1>4, <1>5, <1>6, <2>1, <2>2, <2>3 DEF Gaining
  <2>5. \A k : k \in L <=> k \in 1..l /\ R[k].result = "FAILED"
    BY <1>2, <1>3, <1>4, <1>5, <1>6, <2>1, <2>2, <2>3 DEF Losing
  <2> QED
    BY <1>2, <2>4, <2>5 DEF Resulting
<1>8. /\ G \in SUBSET (DOMAIN S) /\ Alike(S, R, G) /\ L \in SUBSET (DOMAIN S) /\ Alike(S, R, L)
  BY <1>3, <1>4, <1>6 DEF Gaining, Losing, Alike
<1>9. PointsOf(Where(S, G)) = PointsOf(Where(R, G)) /\ PointsOf(Where(S, L)) = PointsOf(Where(R, L))
  BY <1>2, <1>3, <1>8, SamePoints
<1> QED
  BY <1>6, <1>7, <1>9

LEMMA BestsAgree ==
  ASSUME RecordsInv, PathsInv, StoreInv, FoundInv, began.store.signals = << >>, ~Confused,
         NEW S, S = store.signals
  PROVE  BestOf(Where(S, Following(S))) = BestOf(audits)
<1>1. PICK A, a : A = audits /\ a = Len(A)
  OBVIOUS
<1>2. a \in Nat /\ A \in Seq(AuditsMade) /\ DOMAIN A = 1..a
  BY <1>1 DEF PathsInv
<1>3. S \in Seq(Stored) /\ Len(S) = a /\ DOMAIN S = 1..a
  <2>1. S \in Seq(Stored)
    BY DEF StoreInv, Stores
  <2>2. Len(S) = Len(began.store.signals) + a /\ Len(began.store.signals) = 0
    BY <1>1 DEF FoundInv
  <2> QED
    BY <1>2, <2>1, <2>2
<1>4. \A k \in 1..a : S[k].mfe = A[k].mfe
  <2>1. PICK g : g = Len(began.store.signals)
    OBVIOUS
  <2>2. g = 0 /\ \A k \in 1..a : S[g + k].mfe = A[k].mfe
    BY <1>1, <2>1 DEF FoundInv
  <2>3. \A k \in 1..a : g + k = k
    BY <1>2, <2>2
  <2> QED
    BY <2>2, <2>3
<1>5. \A k \in 1..a : S[k].mfe # None
  <2>1. ASSUME NEW k \in 1..a
        PROVE  S[k].mfe # None
    <3>1. A[k] \in AuditsMade
      BY <1>2
    <3>2. A[k].mfe \in Int
      BY <3>1 DEF AuditsMade
    <3> QED
      BY <1>4, <3>2, AuditAssumption
  <2> QED
    BY <2>1
<1>6. PICK K : K = Following(S)
  OBVIOUS
<1>7. Spans(K, Len(S), 1, a)
  BY <1>2, <1>3, <1>5, <1>6 DEF Following, Spans
<1>8. PICK p : p = Where(S, K)
  OBVIOUS
<1>9. p \in Seq(Stored) /\ Len(p) = a /\ \A i \in 1..a : p[i] = S[i]
  <2>1. a \in 0..Len(S)
    BY <1>2, <1>3
  <2> QED
    BY <1>3, <1>7, <1>8, <2>1, WhereFirst
<1>10. DOMAIN p = 1..a
  BY <1>9
<1>11. [k \in 1..a |-> p[k].mfe] = [k \in 1..a |-> A[k].mfe]
  BY <1>4, <1>9
<1>12. PICK f : f = [k \in 1..a |-> p[k].mfe]
  OBVIOUS
<1>13. BestOf(p) = Total(f)
  BY <1>10, <1>12 DEF BestOf
<1>14. BestOf(A) = Total(f)
  BY <1>2, <1>11, <1>12 DEF BestOf
<1> QED
  BY <1>1, <1>6, <1>8, <1>13, <1>14

\* The indices up to n at which the time of opening is on a day, and those of a part.
OpenedOn(s, a, b, day) == {k \in a..b : TradingDay(s[k].at) = day}

LEMMA OpenedFinite ==
  ASSUME NEW s, NEW a \in Int, NEW b \in Int, NEW day
  PROVE  IsFiniteSet(OpenedOn(s, a, b, day)) /\ OpenedOn(s, a, b, day) \in SUBSET (a..b)
<1>1. IsFiniteSet(a..b)
  BY FS_Interval
<1>2. OpenedOn(s, a, b, day) \in SUBSET (a..b)
  BY DEF OpenedOn
<1> QED
  BY <1>1, <1>2, FS_Subset

\* What the panel of the day counts: what the store was found with, what was judged and
\* stored since, and what is open.
LEMMA TodayCounts ==
  ASSUME RecordsInv, PathsInv, StoreInv, FoundInv,
         NEW today, today = BuildViews(store, records, now).today,
         NEW X, X = {k \in DOMAIN records : TradingDay(records[k].at) = TradingDay(now)},
         NEW Y, Y = {-k : k \in {j \in DOMAIN began.store.signals :
                              TradingDay(began.store.signals[j].at) = TradingDay(now)}}
  PROVE  today.signals = Cardinality(X \cup Y)
<1>1. PICK S, F, R, day, g, a, l :
        /\ S = store.signals /\ F = began.store.signals /\ R = records
        /\ day = TradingDay(now)
        /\ g = Len(F) /\ a = Len(audits) /\ l = Len(R)
  OBVIOUS
<1>2. /\ g \in Nat /\ a \in Nat /\ l \in Nat /\ a <= l
      /\ S \in Seq(Stored) /\ DOMAIN S = 1..(g + a) /\ DOMAIN R = 1..l /\ DOMAIN F = 1..g
  <2>1. F \in Seq(Stored) /\ S \in Seq(Stored)
    BY <1>1 DEF StoreInv, Stores
  <2>2. Len(S) = g + a
    BY <1>1 DEF FoundInv
  <2>3. a \in Nat /\ l \in Nat /\ a <= l
    BY <1>1, JudgedAre
  <2>4. R \in Seq(Signals)
    BY <1>1 DEF RecordsInv
  <2> QED
    BY <1>1, <2>1, <2>2, <2>3, <2>4
<1>3. PICK old, judged, open :
        /\ old = OpenedOn(F, 1, g, day) /\ judged = OpenedOn(R, 1, a, day)
        /\ open = OpenedOn(R, a + 1, l, day)
  OBVIOUS
<1>4. /\ IsFiniteSet(old) /\ IsFiniteSet(judged) /\ IsFiniteSet(open)
      /\ old \in SUBSET (1..g) /\ judged \in SUBSET (1..a) /\ open \in SUBSET ((a + 1)..l)
  <2>1. 1 \in Int /\ g \in Int /\ a \in Int /\ a + 1 \in Int /\ l \in Int
    BY <1>2
  <2>2. IsFiniteSet(old) /\ old \in SUBSET (1..g)
    BY <1>3, <2>1, OpenedFinite
  <2>3. IsFiniteSet(judged) /\ judged \in SUBSET (1..a)
    BY <1>3, <2>1, OpenedFinite
  <2>4. IsFiniteSet(open) /\ open \in SUBSET ((a + 1)..l)
    BY <1>3, <2>1, OpenedFinite
  <2> QED
    BY <2>2, <2>3, <2>4
<1>5. PICK T : T = OnDay(S, day)
  OBVIOUS
<1>6. PICK moved : moved = {g + k : k \in judged}
  OBVIOUS
<1>7. Cardinality(T) = Cardinality(old) + Cardinality(judged) /\ T \in SUBSET (DOMAIN S)
  <2>1. ASSUME NEW k \in 1..g
        PROVE  S[k].day = day <=> TradingDay(F[k].at) = day
    BY <1>1, <2>1 DEF FoundInv
  <2>2. ASSUME NEW k \in 1..a
        PROVE  S[g + k].day = day <=> TradingDay(R[k].at) = day
    BY <1>1, <2>2 DEF FoundInv, Files
  <2>3. \A k \in (g + 1)..(g + a) : k - g \in 1..a /\ g + (k - g) = k
    BY <1>2
  <2>4. \A k : k \in T <=> k \in 1..(g + a) /\ S[k].day = day
    BY <1>2, <1>5 DEF OnDay
  <2>5. \A k : k \in old <=> k \in 1..g /\ S[k].day = day
    BY <1>3, <2>1 DEF OpenedOn
  <2>6. \A k : k \in moved <=> k \in (g + 1)..(g + a) /\ S[k].day = day
    <3>1. ASSUME NEW k \in moved
          PROVE  k \in (g + 1)..(g + a) /\ S[k].day = day
      <4>1. PICK i \in judged : k = g + i
        BY <1>6
      <4>2. i \in 1..a /\ TradingDay(R[i].at) = day
        BY <1>3, <4>1 DEF OpenedOn
      <4> QED
        BY <1>2, <2>2, <4>1, <4>2
    <3>2. ASSUME NEW k \in (g + 1)..(g + a), S[k].day = day
          PROVE  k \in moved
      <4>1. PICK i \in 1..a : k = g + i
        BY <2>3
      <4>2. i \in judged
        BY <1>3, <2>2, <3>2, <4>1 DEF OpenedOn
      <4> QED
        BY <1>6, <4>1, <4>2
    <3> QED
      BY <3>1, <3>2
  <2>7. Splits(T, old, moved)
    <3>1. \A k : k \in 1..(g + a) <=> k \in 1..g \/ k \in (g + 1)..(g + a)
      BY <1>2
    <3>2. \A k : ~(k \in 1..g /\ k \in (g + 1)..(g + a))
      BY <1>2
    <3> QED
      BY <2>4, <2>5, <2>6, <3>1, <3>2 DEF Splits
  <2>8. IsFiniteSet(T) /\ T \in SUBSET (DOMAIN S)
    <3>1. T \in SUBSET (1..(g + a))
      BY <2>4
    <3>2. IsFiniteSet(1..(g + a))
      BY <1>2, FS_Interval
    <3> QED
      BY <1>2, <3>1, <3>2, FS_Subset
  <2>9. Cardinality(moved) = Cardinality(judged)
    <3>1. judged \in SUBSET Int
      BY <1>4
    <3>2. Moves(moved, judged, g)
      BY <1>6 DEF Moves
    <3> QED
      BY <1>2, <1>4, <3>1, <3>2, MovedCounts
  <2> QED
    BY <2>7, <2>8, <2>9, PartsCount
<1>8. PICK b, s : /\ b = Cardinality(OpenOn(R, "BUY", {day}))
                  /\ s = Cardinality(OpenOn(R, "SELL", {day}))
  OBVIOUS
<1>9. b \in Nat /\ s \in Nat /\ b + s = Cardinality(open)
  <2>1. PICK K : K = {k \in DOMAIN R : Pending(R[k]) /\ TradingDay(R[k].at) \in {day}}
    OBVIOUS
  <2>2. b \in Nat /\ s \in Nat /\ b + s = Cardinality(K)
    BY <1>1, <1>8, <2>1, OpenCounts
  <2>3. \A k \in 1..l : Pending(R[k]) <=> a < k
    BY <1>1, JudgedAre
  <2>4. K = open
    BY <1>2, <1>3, <2>1, <2>3 DEF OpenedOn
  <2> QED
    BY <2>2, <2>4
<1>10. today.signals = Len(Where(S, T)) + b + s
  <2>1. PICK N, Q, at : N = store /\ Q = records /\ at = now
    OBVIOUS
  <2>2. DayIs(BuildViews(N, Q, at).today, N, Q, at)
    BY BuildViewsIs
  <2>3. today = Aggregate(Where(S, T), Counted(N.noTrade, day), b, s)
    BY <1>1, <1>5, <1>8, <2>1, <2>2 DEF DayIs
  <2> QED
    BY <2>3, AggregateIs
<1>11. Len(Where(S, T)) = Cardinality(T)
  BY <1>2, <1>7, WhereCounts
<1>12. X \in SUBSET (1..l) /\ Splits(X, judged, open) /\ IsFiniteSet(X)
  <2>1. \A k : k \in X <=> k \in 1..l /\ TradingDay(R[k].at) = day
    BY <1>1, <1>2
  <2>2. \A k : k \in 1..l <=> k \in 1..a \/ k \in (a + 1)..l
    BY <1>2
  <2>3. \A k : ~(k \in 1..a /\ k \in (a + 1)..l)
    BY <1>2
  <2>4. Splits(X, judged, open)
    BY <1>3, <2>1, <2>2, <2>3 DEF Splits, OpenedOn
  <2>5. X \in SUBSET (1..l)
    BY <2>1
  <2>6. IsFiniteSet(1..l)
    BY <1>2, FS_Interval
  <2> QED
    BY <2>4, <2>5, <2>6, FS_Subset
<1>13. Cardinality(X) = Cardinality(judged) + Cardinality(open)
  BY <1>12, PartsCount
<1>14. \A x : x \in Y <=> \E k \in old : x = -k
  BY <1>1, <1>2, <1>3 DEF OpenedOn
<1>15. IsFiniteSet(Y) /\ Cardinality(Y) = Cardinality(old)
  <2>1. old \in SUBSET Int
    BY <1>4
  <2>2. Turns(Y, old)
    BY <1>14 DEF Turns
  <2> QED
    BY <1>4, <2>1, <2>2, TurnedCounts
<1>16. Cardinality(X \cup Y) = Cardinality(X) + Cardinality(Y)
  <2>1. PICK Z : Z = X \cup Y
    OBVIOUS
  <2>2. X \cap Y = {}
    BY <1>2, <1>4, <1>12, <1>14
  <2>3. Splits(Z, X, Y) /\ IsFiniteSet(Z)
    BY <1>12, <1>15, <2>1, <2>2, FS_Union DEF Splits
  <2> QED
    BY <2>1, <2>3, PartsCount
<1>17. /\ Cardinality(old) \in Nat /\ Cardinality(judged) \in Nat /\ Cardinality(open) \in Nat
  BY <1>4, FS_CardinalityType
<1> QED
  BY <1>7, <1>9, <1>10, <1>11, <1>13, <1>15, <1>16, <1>17

-----------------------------------------------------------------------------
(* The inductive invariant: what all the panels count.                     *)

CountedInv ==
  /\ PlanCountsInv /\ PathsInv /\ StoreInv /\ NoTradesInv
  /\ Room => FoundInv

LEMMA CountedInit == AInit => CountedInv
<1>1. AInit => MeasuredInv
  BY MeasuredInit
<1> QED
  BY <1>1, PlanCountsInit, NoTradesInit, FoundInit DEF CountedInv, MeasuredInv

LEMMA CountedNext ==
  ASSUME StableWindow # 1
  PROVE  CountedInv /\ [ANext]_avars => CountedInv'
<1> SUFFICES ASSUME CountedInv, [ANext]_avars PROVE CountedInv'
  OBVIOUS
<1>1. /\ PlanCountsInv /\ PathsInv /\ StoreInv /\ NoTradesInv /\ (Room => FoundInv)
      /\ ClockInv /\ RecordsInv
  BY DEF CountedInv, PlanCountsInv, AccountInv
<1>2. PlanCountsInv'
  BY <1>1, PlanCountsNext
<1>3. PathsInv' /\ StoreInv'
  BY <1>1, MeasuredNext DEF MeasuredInv
<1>4. CASE Dies
  <2>1. NoTradesInv'
    BY <1>1, <1>4, NoTradesSame DEF Dies
  <2>2. (Room => FoundInv)'
    BY <1>1, <1>4, FoundSame DEF Dies, Room
  <2> QED
    BY <1>2, <1>3, <2>1, <2>2 DEF CountedInv
<1>5. CASE Restart
  <2>1. NoTradesInv'
    BY <1>1, <1>5, NoTradesRestart
  <2>2. (Room => FoundInv)'
    <3>1. opened' = opened
      BY <1>5, RestartIs
    <3> QED
      BY <1>1, <1>5, <3>1, FoundRestart DEF Room
  <2> QED
    BY <1>2, <1>3, <2>1, <2>2 DEF CountedInv
<1>6. CASE UNCHANGED avars
  <2>1. NoTradesInv'
    BY <1>1, <1>6, NoTradesSame DEF avars
  <2>2. (Room => FoundInv)'
    BY <1>1, <1>6, FoundSame DEF avars, Room
  <2> QED
    BY <1>2, <1>3, <2>1, <2>2 DEF CountedInv
<1>7. ASSUME NEW p \in Nat, NEW side \in Sides \cup {"NONE"}, NEW effect \in Memories,
             NEW at \in Nat, Framed(p, side, effect, at)
      PROVE  CountedInv'
  <2>1. NoTradesInv'
    BY <1>1, <1>7, NoTradesFrame
  <2>2. ASSUME Room'
        PROVE  FoundInv'
    <3>1. Room
      <4>1. opened' = IF IsSignal(decision') THEN opened + 1 ELSE opened
        BY <1>1, <1>7, RecordsGrow
      <4>2. opened \in Nat
        BY <1>1 DEF ClockInv
      <4>3. MaxStored \in Nat
        BY StoreAssumption
      <4> QED
        BY <2>2, <4>1, <4>2, <4>3 DEF Room
    <3> QED
      BY <1>1, <1>7, <2>2, <3>1, FoundFrame
  <2> QED
    BY <1>2, <1>3, <2>1, <2>2 DEF CountedInv
<1> QED
  BY <1>1, <1>4, <1>5, <1>6, <1>7, NextIs

LEMMA SignalsAreCounted ==
  ASSUME CountedInv, Room, Current
  PROVE  SignalsAddUp
<1>1. ClockInv /\ RecordsInv /\ PathsInv /\ StoreInv /\ FoundInv /\ NoTradesInv /\ ViewsInv
  BY DEF CountedInv, PlanCountsInv, AccountInv
<1>2. PICK built, panel, timing : /\ built = BuildViews(store, records, now)
                                  /\ timing = TimingSummary(audits)
                                  /\ panel = PerformancePanel(records, timing)
  OBVIOUS
<1>3. views.lifetime = built /\ views.performance = panel
  <2>1. views # None
    BY DEF Current
  <2> QED
    BY <1>1, <1>2, <2>1 DEF ViewsInv
<1>4. PICK life, today : life = built.lifetime /\ today = built.today
  OBVIOUS
<1>5. /\ life.signals = Len(began.store.signals) + Len(records)
      /\ life.wins + life.losses + life.breakeven + (Len(records) - Len(audits)) = life.signals
      /\ life.noTrade = Summed(store.noTrade)
  BY <1>1, <1>2, <1>4, LifetimeCounts
<1>6. /\ panel.counts.pending = Len(records) - Len(audits)
      /\ panel.counts.success + panel.counts.failed + panel.counts.neutral
           + panel.counts.pending = Len(records)
      /\ panel.timing.signals = Len(records) - panel.counts.pending
  BY <1>1, <1>2, SessionCounts
<1>7. ASSUME began.store.signals = << >>
      PROVE  /\ panel.wins.sum = life.grossProfit /\ -panel.losses.sum = life.grossLoss
             /\ panel.timing.mfe = life.averageMfe.sum \/ Confused
  <2>1. PICK N, R, at, A : N = store /\ R = records /\ at = now /\ A = audits
    OBVIOUS
  <2>2. LifeIs(BuildViews(N, R, at).lifetime, N, R, at)
    BY BuildViewsIs
  <2>3. PICK S, n, b, s : S = N.signals /\ life = Aggregate(S, n, b, s)
    BY <1>2, <1>4, <2>1, <2>2 DEF LifeIs
  <2>4. /\ life.grossProfit = PointsOf(Where(S, Gaining(S)))
        /\ life.grossLoss = -PointsOf(Where(S, Losing(S)))
        /\ life.averageMfe.sum = BestOf(Where(S, Following(S)))
    BY <2>3, AggregateIs
  <2>5. /\ panel.wins.sum = PointsOf(Where(R, Resulting(R, "SUCCESS")))
        /\ panel.losses.sum = PointsOf(Where(R, Resulting(R, "FAILED")))
        /\ panel.timing = timing
    BY <1>2, <2>1, PerformanceIs
  <2>6. timing.mfe = BestOf(A)
    BY <1>2, <2>1, TimingIs
  <2>7. /\ PointsOf(Where(S, Gaining(S))) = PointsOf(Where(R, Resulting(R, "SUCCESS")))
        /\ PointsOf(Where(S, Losing(S))) = PointsOf(Where(R, Resulting(R, "FAILED")))
    BY <1>1, <1>7, <2>1, <2>3, SumsAgree
  <2>8. BestOf(Where(S, Following(S))) = BestOf(A) \/ Confused
    BY <1>1, <1>7, <2>1, <2>3, BestsAgree
  <2> QED
    BY <2>4, <2>5, <2>6, <2>7, <2>8
<1>8. PICK X, Y :
        /\ X = {k \in DOMAIN records : TradingDay(records[k].at) = TradingDay(now)}
        /\ Y = {-k : k \in {j \in DOMAIN began.store.signals :
                        TradingDay(began.store.signals[j].at) = TradingDay(now)}}
  OBVIOUS
<1>9. today.signals = Cardinality(X \cup Y)
  BY <1>1, <1>2, <1>4, <1>8, TodayCounts
<1>10. life.noTrade - FoldFunction(+, 0, began.store.noTrade) =
         Len(records) + (IF decision = "NO_TRADE" THEN 1 ELSE 0)
  <2>1. Summed(store.noTrade) - Summed(began.store.noTrade) =
          Len(records) + (IF decision = "NO_TRADE" THEN 1 ELSE 0)
    BY <1>1 DEF NoTradesInv
  <2>2. life.noTrade - Summed(began.store.noTrade) =
          Len(records) + (IF decision = "NO_TRADE" THEN 1 ELSE 0)
    BY <1>5, <2>1
  <2> QED
    BY <2>2 DEF Summed
<1>11. /\ life.signals = Len(began.store.signals) + Len(records)
       /\ life.wins + life.losses + life.breakeven + panel.counts.pending = life.signals
  BY <1>5, <1>6
<1> QED
  BY <1>3, <1>4, <1>6, <1>7, <1>8, <1>9, <1>10, <1>11 DEF SignalsAddUp

\* Whatever panel the operator looks at counts the same signals, for all prices, delays,
\* checkpoints, days and restarts, as long as no more signals were ever opened than the
\* store holds (MAX_STORED_SIGNALS), and the window of the stability filter
\* (SIGNAL_STABILITY_WINDOW) is more than one frame.
THEOREM CountsAddUpWithRoom ==
  ASSUME StableWindow # 1
  PROVE  ASpec => [](Room => CountsAddUp)
<1>1. CountedInv => (Room => CountsAddUp)
  BY SignalsAreCounted, PlansAreCounted DEF CountedInv, CountsAddUp
<1>2. CountedInv /\ [ANext]_avars => CountedInv'
  BY CountedNext
<1> QED
  BY <1>1, <1>2, CountedInit, PTL DEF ASpec

\* When there are no more frames than the store holds signals, it always has room.
THEOREM CountsAddUpHolds ==
  ASSUME StableWindow # 1, Len(Quotes) <= MaxStored
  PROVE  ASpec => []CountsAddUp
<1>1. CountedInv => CountsAddUp
  <2> SUFFICES ASSUME CountedInv PROVE CountsAddUp
    OBVIOUS
  <2>1. opened \in 0..shown /\ shown \in 0..Len(Quotes)
    BY DEF CountedInv, PlanCountsInv, AccountInv, ClockInv
  <2>2. Len(Quotes) \in Nat /\ MaxStored \in Nat
    BY AuditAssumption, StoreAssumption
  <2>3. Room
    BY <2>1, <2>2 DEF Room
  <2> QED
    BY <2>3, SignalsAreCounted, PlansAreCounted DEF CountedInv, CountsAddUp
<1>2. CountedInv /\ [ANext]_avars => CountedInv'
  BY CountedNext
<1> QED
  BY <1>1, <1>2, CountedInit, PTL DEF ASpec

=============================================================================
