----------------------------- MODULE TailProofs -----------------------------
(***************************************************************************)
(* Theorems about the journal of live ticks, for any readers, sizes and bounds:  *)
(* the validator is given the lines in order, and what a trim can lose or         *)
(* replay is what was unread when it began or was written while it ran.           *)
(***************************************************************************)
EXTENDS LiveTail, SequenceTheorems, FiniteSetTheorems, WellFoundedInduction, TLAPS

-----------------------------------------------------------------------------
(* Numbers: least, largest, and in order.                                     *)

LEMMA LeastExists ==
  ASSUME NEW D \in SUBSET Nat, D # {}
  PROVE  \E d \in D : \A e \in D : d <= e
<1> DEFINE R == {pair \in Nat \X Nat : pair[1] < pair[2]}
<1>1. IsWellFoundedOn(R, Nat)
  BY NatLessThanWellFounded DEF OpToRel
<1> HIDE DEF R
<1>2. PICK x \in D : \A y \in D : ~(<<y, x>> \in R)
  BY <1>1, WFMin
<1>3. ASSUME NEW y \in D
      PROVE  x <= y
  <2>1. x \in Nat /\ y \in Nat /\ <<y, x>> \in Nat \X Nat
    OBVIOUS
  <2>2. ~(<<y, x>> \in Nat \X Nat /\ y < x)
    BY <1>2 DEF R
  <2> QED
    BY <2>1, <2>2
<1> QED
  BY <1>3

LEMMA LargestOf ==
  ASSUME NEW n \in Nat, NEW D \in SUBSET (0..n), D # {}
  PROVE  Max(D) \in D /\ \A x \in D : x <= Max(D)
<1> DEFINE B == {b \in Nat : \A x \in D : x <= b}
<1>1. B \in SUBSET Nat /\ n \in B
  OBVIOUS
<1>2. PICK b \in B : \A c \in B : b <= c
  BY <1>1, LeastExists
<1>3. b \in D
  <2>1. SUFFICES ASSUME b \notin D
                 PROVE  FALSE
    OBVIOUS
  <2>2. PICK x \in D : TRUE
    OBVIOUS
  <2>3. \A y \in D : y \in Nat /\ y < b
    BY <1>2, <2>1
  <2>4. b - 1 \in B
    BY <1>2, <2>2, <2>3
  <2> QED
    BY <1>2, <2>4
<1>4. \E x \in D : \A y \in D : x >= y
  BY <1>2, <1>3
<1> QED
  BY <1>4 DEF Max

LEMMA SmallerOf ==
  ASSUME NEW a \in Nat, NEW b \in Nat
  PROVE  Min({a, b}) = IF a <= b THEN a ELSE b
<1> DEFINE m == IF a <= b THEN a ELSE b
<1>1. m \in {a, b} /\ \A y \in {a, b} : m <= y
  OBVIOUS
<1>2. \A x \in {a, b} : (\A y \in {a, b} : x <= y) => x = m
  OBVIOUS
<1> QED
  BY <1>1, <1>2 DEF Min

Enumerates(q, S) ==
  /\ q \in [1..Cardinality(S) -> S]
  /\ \A i, j \in DOMAIN q : i < j => q[i] < q[j]
  /\ \A x \in S : \E i \in DOMAIN q : q[i] = x

\* The members of a set below n, one after the other: by induction on n.
LEMMA EnumerationExists ==
  ASSUME NEW n \in Nat, NEW S \in SUBSET (1..n)
  PROVE  IsFiniteSet(S) /\ Cardinality(S) \in Nat /\ \E q : Enumerates(q, S)
<1> DEFINE Good(m) == \A U \in SUBSET (1..m) :
                        IsFiniteSet(U) /\ Cardinality(U) \in Nat /\ \E q : Enumerates(q, U)
           Bad == {m \in Nat : ~Good(m)}
<1>1. SUFFICES ASSUME Bad # {}
               PROVE  FALSE
  OBVIOUS
<1>2. PICK m \in Bad : \A k \in Bad : m <= k
  BY <1>1, LeastExists
<1>3. Good(0)
  <2> SUFFICES ASSUME NEW U \in SUBSET (1..0)
               PROVE  IsFiniteSet(U) /\ Cardinality(U) \in Nat /\ \E q : Enumerates(q, U)
    OBVIOUS
  <2>1. U = {}
    OBVIOUS
  <2>2. IsFiniteSet(U) /\ Cardinality(U) = 0
    BY <2>1, FS_EmptySet
  <2>3. Enumerates(<< >>, U)
    BY <2>1, <2>2 DEF Enumerates
  <2> QED
    BY <2>2, <2>3
<1>4. m \in Nat /\ m # 0 /\ m - 1 \in Nat /\ m - 1 \notin Bad
  BY <1>2, <1>3
<1>5. Good(m - 1)
  BY <1>4
<1>6. ASSUME NEW U \in SUBSET (1..m)
      PROVE  IsFiniteSet(U) /\ Cardinality(U) \in Nat /\ \E q : Enumerates(q, U)
  <2>1. CASE m \notin U
    <3>1. U \in SUBSET (1..(m - 1))
      BY <1>4, <2>1
    <3> QED
      BY <1>5, <3>1
  <2>2. CASE m \in U
    <3>1. PICK V : V = U \ {m}
      OBVIOUS
    <3>2. V \in SUBSET (1..(m - 1)) /\ m \notin V /\ U = V \cup {m}
      BY <1>4, <2>2, <3>1
    <3>3. PICK c, q : c \in Nat /\ IsFiniteSet(V) /\ c = Cardinality(V) /\ Enumerates(q, V)
      BY <1>5, <3>2
    <3>4. IsFiniteSet(U) /\ Cardinality(U) = c + 1
      BY <3>2, <3>3, FS_AddElement
    <3>5. q \in [1..c -> V] /\ \A i \in 1..c : q[i] \in 1..(m - 1)
      BY <3>2, <3>3 DEF Enumerates
    <3>6. PICK r : r = [i \in 1..(c + 1) |-> IF i = c + 1 THEN m ELSE q[i]]
      OBVIOUS
    <3>7. /\ DOMAIN r = 1..(c + 1) /\ r[c + 1] = m
          /\ \A i \in 1..c : r[i] = q[i] /\ i \in DOMAIN r
      BY <3>3, <3>6
    <3>8. r \in [1..(c + 1) -> U]
      BY <3>2, <3>3, <3>5, <3>6
    <3>9. \A i, j \in DOMAIN r : i < j => r[i] < r[j]
      <4> SUFFICES ASSUME NEW i \in 1..(c + 1), NEW j \in 1..(c + 1), i < j
                   PROVE  r[i] < r[j]
        BY <3>7
      <4>1. i \in 1..c /\ r[i] = q[i] /\ q[i] < m
        BY <1>4, <3>3, <3>5, <3>7
      <4>2. CASE j = c + 1
        BY <3>3, <3>7, <4>1, <4>2
      <4>3. CASE j \in 1..c
        BY <3>3, <3>5, <3>7, <4>1, <4>3 DEF Enumerates
      <4> QED
        BY <3>3, <4>2, <4>3
    <3>10. \A x \in U : \E i \in DOMAIN r : r[i] = x
      <4> SUFFICES ASSUME NEW x \in U
                   PROVE  \E i \in DOMAIN r : r[i] = x
        OBVIOUS
      <4>1. CASE x = m
        BY <3>3, <3>7, <4>1
      <4>2. CASE x \in V
        <5>1. PICK i \in 1..c : q[i] = x
          BY <3>3, <3>5, <4>2 DEF Enumerates
        <5> QED
          BY <3>3, <3>7, <5>1
      <4> QED
        BY <3>2, <4>1, <4>2
    <3>11. Enumerates(r, U)
      BY <3>4, <3>8, <3>9, <3>10 DEF Enumerates
    <3> QED
      BY <3>3, <3>4, <3>11
  <2> QED
    BY <2>1, <2>2
<1> QED
  BY <1>2, <1>6

LEMMA InOrderEnumerates ==
  ASSUME NEW n \in Nat, NEW S \in SUBSET (1..n)
  PROVE  Enumerates(InOrder(S), S) /\ Cardinality(S) \in Nat
<1>1. PICK q : Enumerates(q, S)
  BY EnumerationExists
<1>2. \E r \in [1..Cardinality(S) -> S] :
        /\ \A i, j \in DOMAIN r : i < j => r[i] < r[j]
        /\ \A x \in S : \E i \in DOMAIN r : r[i] = x
  BY <1>1 DEF Enumerates
<1> QED
  BY <1>2, EnumerationExists DEF Enumerates, InOrder

-----------------------------------------------------------------------------
(* Pieces: what a poll finds in what it reads.                              *)

\* The writer puts the pieces in this order, and a trim leaves some of them out.
Before(p, q) == p.line < q.line \/ (p.line = q.line /\ ~p.end /\ q.end)

Ordered(s) == \A i, j \in 1..Len(s) : i < j => Before(s[i], s[j])

\* The position of the last newline.
LEMMA LastEndIs ==
  ASSUME NEW s \in Seq(Pieces)
  PROVE  /\ LastEnd(s) \in 0..Len(s)
         /\ LastEnd(s) > 0 => s[LastEnd(s)].end
         /\ \A i \in 1..Len(s) : s[i].end => i <= LastEnd(s)
<1>1. PICK n \in Nat : n = Len(s)
  OBVIOUS
<1>2. PICK D : D = {0} \cup {i \in 1..n : s[i].end}
  OBVIOUS
<1>3. D \in SUBSET (0..n) /\ 0 \in D
  BY <1>2
<1>4. Max(D) \in D /\ \A x \in D : x <= Max(D)
  BY <1>3, LargestOf
<1>5. LastEnd(s) = Max(D)
  BY <1>1, <1>2 DEF LastEnd
<1> QED
  BY <1>1, <1>2, <1>3, <1>4, <1>5

\* The lines given are those of the whole pairs, in the order of their positions.
LEMMA LinesAre ==
  ASSUME NEW s \in Seq(Pieces)
  PROVE  /\ LinesIn(s) \in Seq(Nat)
         /\ \A k \in 1..Len(LinesIn(s)) :
              \E i \in 1..LastEnd(s) : WholeAt(s, i) /\ LinesIn(s)[k] = s[i].line
         /\ \A i \in 1..Len(s) : WholeAt(s, i) =>
              \E k \in 1..Len(LinesIn(s)) : LinesIn(s)[k] = s[i].line
         /\ Ordered(s) => \A k, l \in 1..Len(LinesIn(s)) :
                            k < l => LinesIn(s)[k] < LinesIn(s)[l]
<1>1. PICK n \in Nat, e \in Nat : n = Len(s) /\ e = LastEnd(s) /\ e <= n
  BY LastEndIs
<1>2. PICK S : S = {i \in 1..e : WholeAt(s, i)}
  OBVIOUS
<1>3. PICK at, c : at = InOrder(S) /\ c = Cardinality(S)
  OBVIOUS
<1>4. /\ c \in Nat /\ at \in [1..c -> S] /\ DOMAIN at = 1..c
      /\ \A i, j \in 1..c : i < j => at[i] < at[j]
      /\ \A x \in S : \E i \in 1..c : at[i] = x
  <2>1. S \in SUBSET (1..e)
    BY <1>2
  <2>2. Enumerates(at, S) /\ c \in Nat
    BY <1>3, <2>1, InOrderEnumerates
  <2> QED
    BY <1>3, <2>2 DEF Enumerates
<1>5. PICK q : q = [k \in 1..c |-> s[at[k]].line]
  OBVIOUS
<1>6. LinesIn(s) = q
  BY <1>1, <1>2, <1>3, <1>4, <1>5 DEF LinesIn
<1>7. \A k \in 1..c : at[k] \in 1..n /\ WholeAt(s, at[k]) /\ at[k] \in 1..e
  BY <1>1, <1>2, <1>4
<1>8. \A i \in 1..n : s[i] \in Pieces
  BY <1>1
<1>9. \A k \in 1..c : q[k] = s[at[k]].line /\ q[k] \in Nat
  BY <1>5, <1>7, <1>8 DEF Pieces
<1>10. q \in Seq(Nat) /\ Len(q) = c
  BY <1>4, <1>5, <1>9
<1>11. \A i \in 1..n : WholeAt(s, i) => i \in S
  BY <1>1, <1>2, LastEndIs DEF WholeAt
<1>12. ASSUME Ordered(s), NEW k \in 1..c, NEW l \in 1..c, k < l
       PROVE  q[k] < q[l]
  <2>1. at[k] < at[l] /\ at[k] \in 1..n /\ at[l] \in 1..n
    BY <1>4, <1>7, <1>12
  <2>2. Before(s[at[k]], s[at[l]])
    BY <1>1, <1>12, <2>1 DEF Ordered
  <2>3. s[at[k]].end
    BY <1>7 DEF WholeAt
  <2> QED
    BY <1>9, <2>2, <2>3 DEF Before
<1>13. \A k \in 1..c : \E i \in 1..e : WholeAt(s, i) /\ q[k] = s[i].line
  BY <1>7, <1>9
<1>14. \A i \in 1..n : WholeAt(s, i) => \E k \in 1..c : q[k] = s[i].line
  BY <1>4, <1>9, <1>11
<1>15. Ordered(s) => \A k, l \in 1..c : k < l => q[k] < q[l]
  BY <1>12
<1> QED
  BY <1>1, <1>6, <1>10, <1>13, <1>14, <1>15

\* What lies behind an offset.
LEMMA ContentIs ==
  ASSUME NEW s \in Seq(Pieces), NEW off \in Nat
  PROVE  /\ SubSeq(s, off + 1, Len(s)) \in Seq(Pieces)
         /\ Len(SubSeq(s, off + 1, Len(s))) = IF off <= Len(s) THEN Len(s) - off ELSE 0
         /\ \A i \in 1..Len(SubSeq(s, off + 1, Len(s))) :
              off + i \in 1..Len(s) /\ SubSeq(s, off + 1, Len(s))[i] = s[off + i]
         /\ Ordered(s) => Ordered(SubSeq(s, off + 1, Len(s)))
<1>1. PICK n \in Nat : n = Len(s)
  OBVIOUS
<1>2. PICK t : t = SubSeq(s, off + 1, n)
  OBVIOUS
<1>3. /\ t \in Seq(Pieces) /\ Len(t) = IF off <= n THEN n - off ELSE 0
      /\ \A i \in 1..Len(t) : t[i] = s[off + i]
  <2>1. CASE off <= n
    <3>1. off + 1 \in 1..(n + 1) /\ n \in off..n
      BY <2>1
    <3>2. /\ t \in Seq(Pieces) /\ Len(t) = n - off
          /\ \A i \in 1..(n - off) : t[i] = s[off + 1 + i - 1]
      BY <1>1, <1>2, <2>1
    <3>3. \A i \in 1..(n - off) : off + 1 + i - 1 = off + i
      OBVIOUS
    <3> QED
      BY <2>1, <3>2, <3>3
  <2>2. CASE off > n
    <3>1. t = << >>
      BY <1>1, <1>2, <2>2
    <3> QED
      BY <2>2, <3>1
  <2> QED
    BY <2>1, <2>2
<1>4. \A i \in 1..Len(t) : off + i \in 1..n
  BY <1>3
<1>5. Ordered(s) => Ordered(t)
  <2>1. \A i, j \in 1..Len(t) : i < j => off + i < off + j
    BY <1>3
  <2> QED
    BY <1>1, <1>3, <1>4, <2>1 DEF Ordered
<1> QED
  BY <1>1, <1>2, <1>3, <1>4, <1>5

-----------------------------------------------------------------------------
(* Types.                                                                  *)

LEMMA InitTyped == Init => TypeOK
<1> SUFFICES ASSUME Init
             PROVE  TypeOK
  OBVIOUS
<1>1. << >> \in Seq(Pieces) /\ << >> \in Seq(Nat)
  OBVIOUS
<1>2. tail \in [Readers -> [armed : BOOLEAN, offset : Nat]]
  BY DEF Init, Unarmed
<1>3. pc \in [Readers -> {"idle", "read", "polled", "swap", "park"}]
      /\ \A r \in Readers \ {Owner} : pc[r] \in {"idle", "read"}
  BY DEF Init
<1>4. got \in [Readers -> Seq(Nat)] /\ since \in [Readers -> Nat]
  BY <1>1 DEF Init
<1> QED
  BY <1>1, <1>2, <1>3, <1>4 DEF Init, TypeOK

\* What the writer appends.
LEMMA Appends ==
  ASSUME TypeOK, BeginLine \/ EndLine
  PROVE  \E p \in Pieces :
           /\ p = First(lines') \/ p = Second(lines')
           /\ file' = Append(file, p) /\ Len(file') = Len(file) + 1 /\ file' \in Seq(Pieces)
           /\ file'[Len(file) + 1] = p /\ \A i \in 1..Len(file) : file'[i] = file[i]
           /\ exposed' = IF InTrim THEN exposed \cup {p.line} ELSE exposed
           /\ p.line = lines'
           /\ UNCHANGED <<pc, tail, proven, kept, got, since, restarts>>
<1>1. lines' \in Nat
  BY DEF TypeOK, BeginLine, EndLine
<1>2. PICK p : /\ p = (IF EndLine THEN Second(lines') ELSE First(lines'))
  OBVIOUS
<1>3. p \in Pieces /\ p.line = lines'
  BY <1>1, <1>2 DEF Pieces, First, Second
<1>4. Put(p)
  BY <1>2 DEF BeginLine, EndLine
<1>5. file \in Seq(Pieces) /\ file' = Append(file, p)
  BY <1>4 DEF Put, TypeOK
<1>6. /\ Len(file') = Len(file) + 1 /\ file' \in Seq(Pieces)
      /\ file'[Len(file) + 1] = p /\ \A i \in 1..Len(file) : file'[i] = file[i]
  BY <1>3, <1>5
<1> QED
  BY <1>2, <1>3, <1>4, <1>5, <1>6 DEF Put

\* What a poll of the file returns.
LEMMA ReadReturns ==
  ASSUME TypeOK, NEW r \in Readers, Read(r)
  PROVE  \E s \in Seq(Pieces), n \in Nat :
           /\ s = SubSeq(file, tail[r].offset + 1, Len(file)) /\ n = tail[r].offset + LastEnd(s)
           /\ tail' = [tail EXCEPT ![r].offset = n]
           /\ got' = [got EXCEPT ![r] = @ \o LinesIn(s)]
           /\ proven' = IF r = Owner /\ LastEnd(s) > 0 THEN n ELSE proven
<1>1. PICK off \in Nat : off = tail[r].offset
  BY DEF TypeOK
<1>2. PICK s : s = SubSeq(file, off + 1, Len(file))
  OBVIOUS
<1>3. s \in Seq(Pieces)
  BY <1>2, ContentIs DEF TypeOK
<1>4. LastEnd(s) \in Nat
  BY <1>3, LastEndIs
<1>5. PICK n \in Nat : n = off + LastEnd(s)
  BY <1>4
<1>6. /\ tail' = [tail EXCEPT ![r].offset = n]
      /\ got' = [got EXCEPT ![r] = @ \o LinesIn(s)]
      /\ proven' = IF r = Owner /\ LastEnd(s) > 0 THEN tail'[r].offset ELSE proven
  BY <1>1, <1>2, <1>5 DEF Read, Advanced
<1>7. tail'[r].offset = n
  BY <1>6 DEF TypeOK
<1> QED
  BY <1>1, <1>2, <1>3, <1>5, <1>6, <1>7

LEMMA DropThroughIs ==
  ASSUME TypeOK
  PROVE  DropThrough = IF proven <= Len(file) THEN proven ELSE Len(file)
<1>1. proven \in Nat /\ Len(file) \in Nat
  BY DEF TypeOK
<1> QED
  BY <1>1, SmallerOf DEF DropThrough

\* What a trim keeps.
LEMMA Retains ==
  ASSUME TypeOK, ReadRetained
  PROVE  /\ kept' \in Seq(Pieces) /\ (Ordered(file) => Ordered(kept'))
         /\ \A i \in 1..Len(kept') : \E k \in 1..Len(file) : kept'[i] = file[k]
         /\ \A k \in (proven + 1)..Len(file) : \E i \in 1..Len(kept') : kept'[i] = file[k]
         /\ exposed' = exposed \cup {kept'[i].line : i \in 1..Len(kept')}
<1>1. PICK off \in Nat, n \in Nat : off = DropThrough /\ n = Len(file)
  BY DropThroughIs DEF TypeOK
<1>2. file \in Seq(Pieces) /\ proven \in Nat /\ off <= proven /\ off <= n
  BY <1>1, DropThroughIs DEF TypeOK
<1>3. kept' = SubSeq(file, off + 1, Len(file))
  BY <1>1 DEF ReadRetained
<1>4. /\ kept' \in Seq(Pieces) /\ (Ordered(file) => Ordered(kept'))
      /\ Len(kept') = n - off
      /\ \A i \in 1..Len(kept') : off + i \in 1..n /\ kept'[i] = file[off + i]
  BY <1>1, <1>2, <1>3, ContentIs
<1>5. ASSUME NEW k \in (proven + 1)..n
      PROVE  \E i \in 1..Len(kept') : kept'[i] = file[k]
  <2>1. k - off \in 1..(n - off) /\ off + (k - off) = k
    BY <1>2
  <2> QED
    BY <1>4, <2>1
<1> QED
  BY <1>1, <1>4, <1>5 DEF ReadRetained

LEMMA TypeStep ==
  ASSUME TypeOK, [Next]_vars
  PROVE  TypeOK'
<1> USE TailAssumption
<1>1. ASSUME BeginLine \/ EndLine PROVE TypeOK'
  <2>1. PICK p \in Pieces :
          /\ file' \in Seq(Pieces) /\ p.line = lines'
          /\ exposed' = IF InTrim THEN exposed \cup {p.line} ELSE exposed
          /\ UNCHANGED <<pc, tail, proven, kept, got, since, restarts>>
    BY <1>1, Appends
  <2>2. exists' = TRUE /\ lines' \in Nat /\ partial' \in BOOLEAN
    <3>1. CASE BeginLine
      BY <3>1 DEF BeginLine, Put, TypeOK
    <3>2. CASE EndLine
      BY <3>2 DEF EndLine, Put, TypeOK
    <3> QED
      BY <1>1, <3>1, <3>2
  <2> QED
    BY <2>1, <2>2 DEF TypeOK
<1>2. ASSUME NEW r \in Readers, Arm(r) PROVE TypeOK'
  <2>1. Len(file) \in Nat
    BY DEF TypeOK
  <2> QED
    BY <1>2, <2>1 DEF Arm, ArmAt, AfterPoll, TypeOK
<1>3. ASSUME NEW r \in Readers, Stat(r) PROVE TypeOK'
  <2>1. OffsetFor(r) \in Nat
    BY DEF TypeOK, OffsetFor
  <2> QED
    BY <1>3, <2>1 DEF Stat, AfterPoll, TypeOK
<1>4. ASSUME NEW r \in Readers, Read(r) PROVE TypeOK'
  <2>1. PICK s \in Seq(Pieces), n \in Nat :
           /\ tail' = [tail EXCEPT ![r].offset = n]
           /\ got' = [got EXCEPT ![r] = @ \o LinesIn(s)]
           /\ proven' = IF r = Owner /\ LastEnd(s) > 0 THEN n ELSE proven
    BY <1>4, ReadReturns
  <2>2. tail' \in [Readers -> [armed : BOOLEAN, offset : Nat]] /\ proven' \in Nat
    BY <2>1 DEF TypeOK
  <2>3. got' \in [Readers -> Seq(Nat)]
    <3>1. LinesIn(s) \in Seq(Nat) /\ got[r] \in Seq(Nat)
      BY LinesAre DEF TypeOK
    <3>2. got[r] \o LinesIn(s) \in Seq(Nat)
      BY <3>1
    <3> QED
      BY <2>1, <3>2 DEF TypeOK
  <2>4. pc' = [pc EXCEPT ![r] = AfterPoll(r)]
        /\ UNCHANGED <<exists, file, lines, partial, kept, since, restarts, exposed>>
    BY <1>4 DEF Read
  <2> QED
    BY <2>2, <2>3, <2>4 DEF TypeOK, AfterPoll
<1>5. ASSUME NoTrim \/ SwapFails PROVE TypeOK'
  <2>1. CASE NoTrim
    BY <2>1 DEF NoTrim, TypeOK
  <2>2. CASE SwapFails
    <3>1. << >> \in Seq(Pieces)
      OBVIOUS
    <3> QED
      BY <2>2, <3>1 DEF SwapFails, TypeOK
  <2> QED
    BY <1>5, <2>1, <2>2
<1>6. ASSUME ReadRetained PROVE TypeOK'
  <2>1. kept' \in Seq(Pieces) /\ exposed' = exposed \cup {kept'[i].line : i \in 1..Len(kept')}
    BY <1>6, Retains
  <2>2. exposed' \in SUBSET Nat
    <3>1. \A i \in 1..Len(kept') : kept'[i] \in Pieces
      BY <2>1
    <3>2. {kept'[i].line : i \in 1..Len(kept')} \subseteq Nat
      BY <3>1 DEF Pieces
    <3> QED
      BY <2>1, <3>2 DEF TypeOK
  <2> QED
    BY <1>6, <2>1, <2>2 DEF ReadRetained, TypeOK
<1>7. ASSUME Swap PROVE TypeOK'
  BY <1>7 DEF Swap, TypeOK
<1>8. ASSUME Park PROVE TypeOK'
  <2>1. Len(file) \in Nat
    BY DEF TypeOK
  <2> QED
    BY <1>8, <2>1 DEF Park, ProvenAfterTrim, TypeOK
<1>9. ASSUME NEW r \in Readers, Restart(r) PROVE TypeOK'
  BY <1>9 DEF Restart, Unarmed, TypeOK
<1>10. ASSUME UNCHANGED vars PROVE TypeOK'
  BY <1>10 DEF vars, TypeOK
<1> QED
  BY <1>1, <1>2, <1>3, <1>4, <1>5, <1>6, <1>7, <1>8, <1>9, <1>10 DEF Next, Poll, Trim

-----------------------------------------------------------------------------
(* The file and what was read of it: the pieces are in the order of the writer, and only *)
(* complete lines were given.                                               *)

Complete(l) == l \in 1..lines /\ (l = lines => ~partial)
PieceWritten(p) == p.line \in 1..lines /\ (p.end => Complete(p.line))

FileInv ==
  /\ TypeOK
  /\ partial => lines >= 1
  /\ Ordered(file) /\ \A i \in 1..Len(file) : PieceWritten(file[i])
  /\ Ordered(kept) /\ \A i \in 1..Len(kept) : PieceWritten(kept[i]) /\ kept[i].line \in exposed
  /\ \A r \in Readers : \A i \in 1..Len(got[r]) : Complete(got[r][i])

\* A new piece comes after all that was written, and makes no complete line incomplete.
LEMMA NewPiece ==
  ASSUME FileInv, BeginLine \/ EndLine
  PROVE  /\ lines' >= 1 /\ lines' \in Nat
         /\ \A l : Complete(l) => Complete(l)' /\ l < lines'
         /\ \A q \in Pieces : PieceWritten(q) => PieceWritten(q)'
         /\ \A p \in Pieces : p = (IF EndLine THEN Second(lines') ELSE First(lines')) =>
              PieceWritten(p)' /\ \A q \in Pieces : PieceWritten(q) => Before(q, p)
<1>1. PICK n : n = lines'
  OBVIOUS
<1>2. CASE BeginLine
  <2>1. lines \in Nat /\ n = lines + 1 /\ partial' = TRUE /\ ~EndLine
    BY <1>1, <1>2 DEF BeginLine, EndLine, FileInv, TypeOK
  <2>2. \A l : Complete(l) => Complete(l)' /\ l < n
    BY <1>1, <2>1 DEF Complete
  <2>3. \A q \in Pieces : PieceWritten(q) => PieceWritten(q)' /\ Before(q, First(n))
    BY <1>1, <2>1, <2>2 DEF PieceWritten, Before, First, Pieces
  <2>4. \A p : p = First(n) => PieceWritten(p)'
    BY <1>1, <2>1 DEF PieceWritten, First
  <2> QED
    BY <1>1, <2>1, <2>2, <2>3, <2>4
<1>3. CASE EndLine
  <2>1. lines \in Nat /\ n = lines /\ partial' = FALSE /\ partial /\ n >= 1
    BY <1>1, <1>3 DEF EndLine, FileInv, TypeOK
  <2>2. \A l : Complete(l) => Complete(l)' /\ l < n
    BY <1>1, <2>1 DEF Complete
  <2>3. \A q \in Pieces : PieceWritten(q) => PieceWritten(q)'
    BY <1>1, <2>1 DEF PieceWritten, Complete
  <2>4. \A q \in Pieces : PieceWritten(q) => Before(q, Second(n))
    <3> SUFFICES ASSUME NEW q \in Pieces, PieceWritten(q)
                 PROVE  Before(q, Second(n))
      OBVIOUS
    <3>1. q.line \in 1..n /\ (q.end => q.line < n) /\ q.end \in BOOLEAN
      BY <2>1, <2>2 DEF PieceWritten, Pieces
    <3> QED
      BY <2>1, <3>1 DEF Before, Second, Pieces
  <2>5. \A p : p = Second(n) => PieceWritten(p)'
    BY <1>1, <2>1 DEF PieceWritten, Second, Complete
  <2> QED
    BY <1>1, <1>3, <2>1, <2>2, <2>3, <2>4, <2>5
<1> QED
  BY <1>2, <1>3

LEMMA OrderedAppend ==
  ASSUME NEW s \in Seq(Pieces), NEW t \in Seq(Pieces), NEW p, Ordered(s),
         Len(t) = Len(s) + 1, t[Len(s) + 1] = p, \A i \in 1..Len(s) : t[i] = s[i],
         \A i \in 1..Len(s) : Before(s[i], p)
  PROVE  Ordered(t)
<1>1. PICK n \in Nat : n = Len(s)
  OBVIOUS
<1>2. \A i, j \in 1..(n + 1) : i < j => i \in 1..n /\ (j = n + 1 \/ j \in 1..n)
  OBVIOUS
<1> QED
  BY <1>1, <1>2 DEF Ordered

LEMMA FileInit == Init => FileInv
<1>1. Init => TypeOK
  BY InitTyped
<1>2. Init => Ordered(file) /\ Ordered(kept) /\ file = << >> /\ kept = << >>
  BY DEF Init, Ordered
<1> QED
  BY <1>1, <1>2 DEF Init, FileInv

\* What was given by a poll are complete lines.
LEMMA GivenAreComplete ==
  ASSUME FileInv, NEW r \in Readers, NEW s \in Seq(Pieces),
         s = SubSeq(file, tail[r].offset + 1, Len(file))
  PROVE  \A i \in 1..Len(LinesIn(s)) : Complete(LinesIn(s)[i])
<1>1. PICK off \in Nat : off = tail[r].offset
  BY DEF FileInv, TypeOK
<1>2. file \in Seq(Pieces)
  BY DEF FileInv, TypeOK
<1>3. \A i \in 1..Len(s) : off + i \in 1..Len(file) /\ s[i] = file[off + i]
  BY <1>1, <1>2, ContentIs
<1>4. ASSUME NEW k \in 1..Len(LinesIn(s))
      PROVE  Complete(LinesIn(s)[k])
  <2>1. PICK i \in 1..LastEnd(s) : WholeAt(s, i) /\ LinesIn(s)[k] = s[i].line
    BY LinesAre
  <2>2. i \in 1..Len(s) /\ s[i].end
    <3>1. LastEnd(s) \in 0..Len(s)
      BY LastEndIs
    <3>2. PICK n \in Nat : n = Len(s)
      OBVIOUS
    <3> QED
      BY <2>1, <3>1, <3>2 DEF WholeAt
  <2>3. PieceWritten(s[i])
    BY <1>3, <2>2 DEF FileInv
  <2> QED
    BY <2>1, <2>2, <2>3 DEF PieceWritten
<1> QED
  BY <1>4

\* The lines given so far, and those of this poll.
LEMMA Longer ==
  ASSUME TypeOK, NEW r \in Readers, NEW s \in Seq(Pieces),
         got' = [got EXCEPT ![r] = @ \o LinesIn(s)]
  PROVE  /\ \A q \in Readers \ {r} : got'[q] = got[q]
         /\ got[r] \in Seq(Nat) /\ LinesIn(s) \in Seq(Nat)
         /\ Len(got'[r]) = Len(got[r]) + Len(LinesIn(s))
         /\ \A i \in 1..Len(got[r]) : i \in 1..Len(got'[r]) /\ got'[r][i] = got[r][i]
         /\ \A i \in 1..Len(LinesIn(s)) : /\ Len(got[r]) + i \in 1..Len(got'[r])
                                          /\ got'[r][Len(got[r]) + i] = LinesIn(s)[i]
         /\ \A i \in 1..Len(got'[r]) : \/ i \in 1..Len(got[r])
                                       \/ \E k \in 1..Len(LinesIn(s)) : i = Len(got[r]) + k
<1>1. PICK t, g : t = LinesIn(s) /\ g = got[r]
  OBVIOUS
<1>2. t \in Seq(Nat) /\ g \in Seq(Nat)
  BY <1>1, LinesAre DEF TypeOK
<1>3. PICK n \in Nat, m \in Nat : n = Len(g) /\ m = Len(t)
  BY <1>2
<1>4. got'[r] = g \o t /\ \A q \in Readers \ {r} : got'[q] = got[q]
  BY <1>1 DEF TypeOK
<1>5. /\ Len(g \o t) = n + m /\ \A i \in 1..n : (g \o t)[i] = g[i]
      /\ \A i \in 1..m : (g \o t)[n + i] = t[i]
  BY <1>2, <1>3
<1>6. /\ \A i \in 1..n : i \in 1..(n + m) /\ \A k \in 1..m : n + k \in 1..(n + m)
      /\ \A i \in 1..(n + m) : i \in 1..n \/ (i - n \in 1..m /\ i = n + (i - n))
  OBVIOUS
<1>7. \A i \in 1..m : n + i \in 1..(n + m)
  OBVIOUS
<1>8. \A i \in 1..(n + m) : i \in 1..n \/ \E k \in 1..m : i = n + k
  BY <1>6
<1> QED
  BY <1>1, <1>2, <1>3, <1>4, <1>5, <1>6, <1>7, <1>8

LEMMA FileStep ==
  ASSUME FileInv, [Next]_vars
  PROVE  FileInv'
<1>1. TypeOK /\ TypeOK'
  BY TypeStep DEF FileInv
<1>2. ASSUME BeginLine \/ EndLine PROVE FileInv'
  <2>1. PICK p \in Pieces :
          /\ p = (IF EndLine THEN Second(lines') ELSE First(lines'))
          /\ file' \in Seq(Pieces) /\ Len(file') = Len(file) + 1
          /\ file'[Len(file) + 1] = p /\ \A i \in 1..Len(file) : file'[i] = file[i]
          /\ exposed \subseteq exposed' /\ UNCHANGED <<kept, got>>
    <3>1. PICK p : p = (IF EndLine THEN Second(lines') ELSE First(lines'))
      OBVIOUS
    <3>2. Put(p)
      BY <1>2, <3>1 DEF BeginLine, EndLine
    <3>3. p \in Pieces
      BY <1>1, <3>1 DEF TypeOK, Pieces, First, Second
    <3>4. file \in Seq(Pieces) /\ file' = Append(file, p)
      BY <1>1, <3>2 DEF TypeOK, Put
    <3> QED
      BY <3>1, <3>2, <3>3, <3>4 DEF Put
  <2>2. PICK n \in Nat : n = Len(file)
    BY <1>1 DEF TypeOK
  <2>3. /\ \A q \in Pieces : PieceWritten(q) => PieceWritten(q)' /\ Before(q, p)
        /\ PieceWritten(p)' /\ lines' >= 1 /\ \A l : Complete(l) => Complete(l)'
    BY <1>2, <2>1, NewPiece
  <2>4. /\ \A i \in 1..n : file[i] \in Pieces /\ PieceWritten(file[i])
        /\ \A i \in 1..Len(kept) : kept[i] \in Pieces /\ PieceWritten(kept[i])
    BY <1>1, <2>2 DEF FileInv, TypeOK
  <2>5. Ordered(file')
    <3>1. \A i \in 1..Len(file) : Before(file[i], p)
      BY <2>2, <2>3, <2>4
    <3> QED
      BY <1>1, <2>1, <3>1, OrderedAppend DEF FileInv, TypeOK
  <2>6. (\A i \in 1..Len(file) : PieceWritten(file[i]))'
    <3> SUFFICES ASSUME NEW i \in 1..Len(file')
                 PROVE  PieceWritten(file[i])'
      OBVIOUS
    <3>1. PICK q : q = file'[i]
      OBVIOUS
    <3>2. q = p \/ (i \in 1..n /\ q = file[i])
      BY <2>1, <2>2, <3>1
    <3>3. PieceWritten(q)'
      BY <2>3, <2>4, <3>2
    <3> QED
      BY <3>1, <3>3 DEF PieceWritten, Complete
  <2>7. (\A i \in 1..Len(kept) : PieceWritten(kept[i]) /\ kept[i].line \in exposed)'
    <3> SUFFICES ASSUME NEW i \in 1..Len(kept')
                 PROVE  (PieceWritten(kept[i]) /\ kept[i].line \in exposed)'
      OBVIOUS
    <3>1. PICK q : q = kept[i]
      OBVIOUS
    <3>2. i \in 1..Len(kept) /\ kept'[i] = q /\ q.line \in exposed'
      BY <2>1, <3>1 DEF FileInv
    <3>3. PieceWritten(q)'
      BY <2>3, <2>4, <3>1, <3>2
    <3> QED
      BY <3>2, <3>3 DEF PieceWritten, Complete
  <2>8. (\A r \in Readers : \A i \in 1..Len(got[r]) : Complete(got[r][i]))'
    BY <2>1, <2>3 DEF FileInv, Complete
  <2> QED
    BY <1>1, <2>1, <2>3, <2>5, <2>6, <2>7, <2>8 DEF FileInv
<1>3. ASSUME NEW r \in Readers, Read(r) PROVE FileInv'
  <2>1. PICK s \in Seq(Pieces) : /\ s = SubSeq(file, tail[r].offset + 1, Len(file))
                                /\ got' = [got EXCEPT ![r] = @ \o LinesIn(s)]
    BY <1>1, <1>3, ReadReturns
  <2>2. UNCHANGED <<file, lines, partial, kept, exposed>>
    BY <1>3 DEF Read
  <2>3. \A i \in 1..Len(LinesIn(s)) : Complete(LinesIn(s)[i])
    BY <2>1, GivenAreComplete
  <2>4. ASSUME NEW q \in Readers, NEW i \in 1..Len(got'[q])
        PROVE  Complete(got'[q][i])
    <3>1. CASE q # r
      BY <1>1, <2>1, <2>4, <3>1, Longer DEF FileInv
    <3>2. CASE q = r /\ i \in 1..Len(got[r])
      BY <1>1, <2>1, <3>2, Longer DEF FileInv
    <3>3. CASE q = r /\ \E k \in 1..Len(LinesIn(s)) : i = Len(got[r]) + k
      BY <1>1, <2>1, <2>3, <3>3, Longer
    <3>4. \A j \in 1..Len(got'[r]) : \/ j \in 1..Len(got[r])
                                      \/ \E k \in 1..Len(LinesIn(s)) : j = Len(got[r]) + k
      BY <1>1, <2>1, Longer
    <3> QED
      BY <2>4, <3>1, <3>2, <3>3, <3>4
  <2> QED
    BY <1>1, <2>2, <2>4 DEF FileInv, PieceWritten, Complete
<1>4. ASSUME ReadRetained PROVE FileInv'
  <2>1. /\ Ordered(kept') /\ kept' \in Seq(Pieces)
        /\ \A i \in 1..Len(kept') : \E k \in 1..Len(file) : kept'[i] = file[k]
        /\ exposed' = exposed \cup {kept'[i].line : i \in 1..Len(kept')}
    BY <1>1, <1>4, Retains DEF FileInv
  <2>2. UNCHANGED <<file, lines, partial, got>>
    BY <1>4 DEF ReadRetained
  <2>3. \A i \in 1..Len(kept') : PieceWritten(kept'[i]) /\ kept'[i].line \in exposed'
    BY <2>1 DEF FileInv
  <2> QED
    BY <1>1, <2>1, <2>2, <2>3 DEF FileInv, PieceWritten, Complete
<1>5. ASSUME Swap PROVE FileInv'
  <2>1. file' = kept /\ kept' = << >> /\ UNCHANGED <<lines, partial, got, exposed>>
    BY <1>5 DEF Swap
  <2>2. Ordered(kept') /\ Len(kept') = 0
    BY <2>1 DEF Ordered
  <2> QED
    BY <1>1, <2>1, <2>2 DEF FileInv, PieceWritten, Complete
<1>6. ASSUME SwapFails PROVE FileInv'
  <2>1. kept' = << >> /\ UNCHANGED <<file, lines, partial, got, exposed>>
    BY <1>6 DEF SwapFails
  <2>2. Ordered(kept') /\ Len(kept') = 0
    BY <2>1 DEF Ordered
  <2> QED
    BY <1>1, <2>1, <2>2 DEF FileInv, PieceWritten, Complete
<1>7. ASSUME NEW r \in Readers, Restart(r) PROVE FileInv'
  <2>1. (kept' = kept \/ kept' = << >>) /\ UNCHANGED <<file, lines, partial, got, exposed>>
    BY <1>7 DEF Restart
  <2>2. CASE kept' = kept
    BY <1>1, <2>1, <2>2 DEF FileInv, PieceWritten, Complete
  <2>3. CASE kept' = << >>
    <3>1. Ordered(kept') /\ Len(kept') = 0
      BY <2>3 DEF Ordered
    <3> QED
      BY <1>1, <2>1, <3>1 DEF FileInv, PieceWritten, Complete
  <2> QED
    BY <2>1, <2>2, <2>3
<1>8. ASSUME UNCHANGED <<file, lines, partial, kept, got, exposed>> PROVE FileInv'
  BY <1>1, <1>8 DEF FileInv, PieceWritten, Complete
<1> QED
  BY <1>2, <1>3, <1>4, <1>5, <1>6, <1>7, <1>8
     DEF Next, Poll, Trim, Arm, Stat, NoTrim, Park, vars

-----------------------------------------------------------------------------
(* The Owner: where it stands, what it was given, and what awaits it.          *)

Armed == tail[Owner].armed
Offset == tail[Owner].offset

\* The offset lies in the file, but for the moment between a swap and the parking.
PlaceInv ==
  /\ ~Armed => Offset = 0 /\ proven = 0 /\ pc[Owner] = "idle"
  /\ Armed /\ pc[Owner] # "park" => Offset <= Len(file)
  /\ proven \in {0, Offset}

\* What lies behind the offset comes after all that was given.
OrderInv ==
  /\ OwnerInOrder
  /\ Armed /\ pc[Owner] # "park" =>
       \A k \in 1..Len(got[Owner]), i \in (Offset + 1)..Len(file) :
         got[Owner][k] < file[i].line

\* The two pieces of the line lie behind the offset side by side, or the first is the last
\* piece and the writer is between the two; and the poll will find a line begin there.
Awaits(l) ==
  \E i \in (Offset + 1)..Len(file) :
    /\ file[i] = First(l)
    /\ i > Offset + 1 => file[i - 1].end
    /\ i < Len(file) => file[i + 1] = Second(l)
    /\ i = Len(file) => l = lines /\ partial

\* The next line will begin after a newline, or where the Owner reads on.
AtLineStart == partial \/ Len(file) = Offset \/ file[Len(file)].end

\* A line begun since the Owner was armed was given, awaits it, or was exposed to a trim;
\* once a trim holds the rest of the file, only what was exposed was not given.
LossInv ==
  Armed =>
    /\ \A l \in (since[Owner] + 1)..lines :
         Given(Owner, l) \/ l \in exposed \/ (~InTrim /\ Awaits(l))
    /\ pc[Owner] # "park" => AtLineStart

OwnerInv == PlaceInv /\ OrderInv /\ LossInv

LEMMA OffsetTyped ==
  ASSUME TypeOK
  PROVE  Offset \in Nat /\ Len(file) \in Nat /\ Armed \in BOOLEAN /\ proven \in Nat
  BY TailAssumption DEF TypeOK, Offset, Armed

LEMMA OwnerInit == Init => OwnerInv
  BY TailAssumption
     DEF Init, OwnerInv, PlaceInv, OrderInv, OwnerInOrder, LossInv, Armed, Offset, Unarmed

\* A reader that is not the Owner leaves alone what the Owner has.
LEMMA OthersLeave ==
  ASSUME TypeOK, NEW r \in Readers \ {Owner}, Poll(r) \/ Restart(r)
  PROVE  /\ tail'[Owner] = tail[Owner] /\ pc'[Owner] = pc[Owner]
         /\ got'[Owner] = got[Owner] /\ since'[Owner] = since[Owner]
         /\ UNCHANGED <<file, lines, partial, proven, kept, exposed>>
<1> USE TailAssumption
<1>1. CASE Arm(r)
  BY <1>1 DEF Arm, TypeOK
<1>2. CASE Stat(r)
  BY <1>2 DEF Stat, TypeOK
<1>3. CASE Read(r)
  BY <1>3 DEF Read, TypeOK
<1>4. CASE Restart(r)
  BY <1>4 DEF Restart, TypeOK
<1> QED
  BY <1>1, <1>2, <1>3, <1>4 DEF Poll

LEMMA OwnerLeft ==
  ASSUME OwnerInv, tail'[Owner] = tail[Owner], pc'[Owner] = pc[Owner],
         got'[Owner] = got[Owner], since'[Owner] = since[Owner],
         UNCHANGED <<file, lines, partial, proven, kept, exposed>>
  PROVE  OwnerInv'
<1>1. PlaceInv' /\ OrderInv'
  BY DEF OwnerInv, PlaceInv, OrderInv, OwnerInOrder, Armed, Offset
<1>2. /\ Armed' = Armed /\ Offset' = Offset /\ InTrim' = InTrim
      /\ AtLineStart' = AtLineStart /\ \A l : Given(Owner, l)' <=> Given(Owner, l)
      /\ \A l : Awaits(l)' <=> Awaits(l)
  BY DEF Armed, Offset, InTrim, AtLineStart, Given, Awaits
<1>3. LossInv'
  BY <1>2 DEF OwnerInv, LossInv
<1> QED
  BY <1>1, <1>3 DEF OwnerInv

\* The writer appends.
LEMMA OwnerAppends ==
  ASSUME FileInv, OwnerInv, BeginLine \/ EndLine
  PROVE  OwnerInv'
<1> USE TailAssumption
<1>1. PICK p \in Pieces :
        /\ p = First(lines') \/ p = Second(lines')
        /\ file' = Append(file, p) /\ Len(file') = Len(file) + 1 /\ file' \in Seq(Pieces)
        /\ file'[Len(file) + 1] = p /\ \A i \in 1..Len(file) : file'[i] = file[i]
        /\ exposed' = IF InTrim THEN exposed \cup {p.line} ELSE exposed
        /\ p.line = lines'
        /\ UNCHANGED <<pc, tail, proven, kept, got, since, restarts>>
  BY Appends DEF FileInv
<1>2. PICK n \in Nat, off \in Nat : n = Len(file) /\ off = Offset
  BY OffsetTyped DEF FileInv
<1>3. /\ Armed' = Armed /\ Offset' = off /\ InTrim' = InTrim
      /\ \A l : Given(Owner, l)' <=> Given(Owner, l)
  BY <1>1, <1>2 DEF Armed, Offset, InTrim, Given
<1>4. PlaceInv'
  BY <1>1, <1>2, <1>3 DEF OwnerInv, PlaceInv
<1>5. \A k \in 1..Len(got[Owner]) : got[Owner][k] < p.line
  <2>1. \A l : Complete(l) => l < p.line
    BY <1>1, NewPiece
  <2> QED
    BY <2>1 DEF FileInv
<1>6. OrderInv'
  <2>1. OwnerInOrder'
    BY <1>1 DEF OwnerInv, OrderInv, OwnerInOrder
  <2>2. ASSUME Armed', pc'[Owner] # "park", NEW k \in 1..Len(got'[Owner]),
               NEW i \in (off + 1)..Len(file')
        PROVE  got'[Owner][k] < file'[i].line
    <3>1. k \in 1..Len(got[Owner]) /\ got'[Owner][k] = got[Owner][k]
      BY <1>1, <2>2
    <3>2. CASE i \in (off + 1)..n
      <4>1. file'[i] = file[i]
        BY <1>1, <1>2, <3>2
      <4>2. got[Owner][k] < file[i].line
        BY <1>1, <1>2, <1>3, <2>2, <3>1, <3>2 DEF OwnerInv, OrderInv
      <4> QED
        BY <3>1, <4>1, <4>2
    <3>3. CASE i = n + 1
      BY <1>1, <1>2, <1>5, <3>1, <3>3
    <3> QED
      BY <1>1, <1>2, <2>2, <3>2, <3>3
  <2> QED
    BY <1>3, <2>1, <2>2 DEF OrderInv
<1>7. AtLineStart'
  <2>1. CASE BeginLine
    BY <2>1 DEF BeginLine, AtLineStart
  <2>2. CASE EndLine
    <3>1. p = Second(lines')
      BY <1>1, <2>2 DEF EndLine, Put, FileInv, TypeOK
    <3>2. file'[Len(file')].end
      BY <1>1, <1>2, <3>1 DEF Second
    <3> QED
      BY <3>2 DEF AtLineStart
  <2> QED
    BY <2>1, <2>2
<1>8. ASSUME Armed, ~InTrim
      PROVE  /\ off <= n
             /\ \A l \in (since[Owner] + 1)..lines' :
                  Given(Owner, l) \/ l \in exposed \/ Awaits(l)'
  <2>1. off <= n
    BY <1>2, <1>8 DEF InTrim, OwnerInv, PlaceInv
  <2>2. ASSUME NEW l \in (since[Owner] + 1)..lines, Awaits(l)
        PROVE  Awaits(l)'
    <3>1. PICK i \in (off + 1)..n :
            /\ file[i] = First(l)
            /\ i > off + 1 => file[i - 1].end
            /\ i < n => file[i + 1] = Second(l)
            /\ i = n => l = lines /\ partial
      BY <1>2, <2>2 DEF Awaits
    <3>2. /\ i \in (off + 1)..(n + 1) /\ file'[i] = First(l)
          /\ i > off + 1 => file'[i - 1].end
          /\ i < n => file'[i + 1] = Second(l)
      BY <1>1, <1>2, <3>1
    <3>3. i = n => file'[i + 1] = Second(l)
      <4>1. CASE BeginLine
        BY <3>1, <4>1 DEF BeginLine
      <4>2. CASE EndLine
        BY <1>2, <3>1, <4>2 DEF EndLine, Put, FileInv, TypeOK
      <4> QED
        BY <4>1, <4>2
    <3>4. i < n + 1 /\ (i < n + 1 => file'[i + 1] = Second(l))
      BY <3>1, <3>2, <3>3
    <3> QED
      BY <1>1, <1>2, <1>3, <3>2, <3>4 DEF Awaits
  <2>3. ASSUME BeginLine, NEW l, l = lines'
        PROVE  Awaits(l)'
    <3>1. ~partial /\ partial' = TRUE /\ file'[n + 1] = First(l) /\ Len(file') = n + 1
      BY <1>1, <1>2, <2>3 DEF BeginLine, Put, FileInv, TypeOK
    <3>2. n = off \/ file[n].end
      BY <1>2, <1>8, <3>1 DEF OwnerInv, LossInv, AtLineStart, InTrim
    <3>3. n + 1 > off + 1 => file'[n + 1 - 1].end
      BY <1>1, <1>2, <2>1, <3>2
    <3>4. n + 1 \in (off + 1)..(n + 1)
      BY <2>1
    <3> QED
      BY <1>3, <2>3, <3>1, <3>3, <3>4 DEF Awaits
  <2>4. since[Owner] \in Nat /\ lines \in Nat
    BY DEF FileInv, TypeOK
  <2>5. ASSUME NEW l \in (since[Owner] + 1)..lines'
        PROVE  Given(Owner, l) \/ l \in exposed \/ Awaits(l)'
    <3>1. CASE l \in (since[Owner] + 1)..lines
      BY <1>8, <2>2, <3>1 DEF OwnerInv, LossInv
    <3>2. CASE ~(l \in (since[Owner] + 1)..lines)
      <4>1. BeginLine /\ l = lines'
        <5>1. CASE BeginLine
          BY <2>4, <2>5, <3>2, <5>1 DEF BeginLine
        <5>2. CASE EndLine
          BY <2>5, <3>2, <5>2 DEF EndLine
        <5> QED
          BY <5>1, <5>2
      <4> QED
        BY <2>3, <4>1
    <3> QED
      BY <3>1, <3>2
  <2> QED
    BY <2>1, <2>5
<1>9. ASSUME Armed, InTrim, NEW l \in (since[Owner] + 1)..lines'
      PROVE  Given(Owner, l) \/ l \in exposed'
  <2>1. since[Owner] \in Nat /\ lines \in Nat /\ lines' \in {lines, lines + 1}
    BY DEF FileInv, TypeOK, BeginLine, EndLine
  <2>2. CASE l \in (since[Owner] + 1)..lines
    BY <1>1, <1>9, <2>2 DEF OwnerInv, LossInv
  <2>3. CASE l = lines'
    BY <1>1, <1>9, <2>3
  <2> QED
    BY <1>9, <2>1, <2>2, <2>3
<1>10. LossInv'
  <2>1. exposed \subseteq exposed' /\ since' = since
    BY <1>1
  <2> QED
    BY <1>3, <1>7, <1>8, <1>9, <2>1 DEF LossInv
<1> QED
  BY <1>4, <1>6, <1>10 DEF OwnerInv

\* Arming and parking leave nothing of the file to be read.
LEMMA OwnerAtEnd ==
  ASSUME FileInv, OwnerInv, Arm(Owner) \/ Park
  PROVE  OwnerInv'
<1> USE TailAssumption
<1>1. PICK n \in Nat : n = Len(file)
  BY OffsetTyped DEF FileInv
<1>2. UNCHANGED <<file, lines, partial, got, exposed>> /\ (Arm(Owner) => proven' = proven)
  BY DEF Arm, Park
<1>3. Armed' = TRUE /\ Offset' = n /\ pc'[Owner] \in {"idle", "polled"}
  BY <1>1 DEF Arm, ArmAt, AfterPoll, Park, Armed, Offset, FileInv, TypeOK
<1>4. proven' = 0
  BY DEF Arm, Park, ProvenAfterTrim, OwnerInv, PlaceInv, Armed
<1>5. ~InTrim'
  BY <1>3 DEF InTrim
<1>6. PlaceInv'
  BY <1>1, <1>2, <1>3, <1>4 DEF PlaceInv
<1>7. OrderInv'
  <2>1. (Offset' + 1)..Len(file') = {}
    BY <1>1, <1>2, <1>3
  <2> QED
    BY <1>2, <2>1 DEF OwnerInv, OrderInv, OwnerInOrder
<1>8. AtLineStart'
  BY <1>1, <1>2, <1>3 DEF AtLineStart
<1>9. \A l : Given(Owner, l)' <=> Given(Owner, l)
  BY <1>2 DEF Given
<1>10. ASSUME NEW l \in (since'[Owner] + 1)..lines
       PROVE  Given(Owner, l) \/ l \in exposed
  <2>1. CASE Arm(Owner)
    <3>1. since'[Owner] = lines /\ lines \in Nat
      BY <2>1 DEF Arm, FileInv, TypeOK
    <3> QED
      BY <1>10, <3>1
  <2>2. CASE Park
    <3>1. since' = since /\ InTrim /\ Armed
      BY <2>2 DEF Park, InTrim, OwnerInv, PlaceInv
    <3> QED
      BY <1>10, <3>1 DEF OwnerInv, LossInv
  <2> QED
    BY <2>1, <2>2
<1>11. LossInv'
  BY <1>2, <1>8, <1>9, <1>10 DEF LossInv
<1> QED
  BY <1>6, <1>7, <1>11 DEF OwnerInv

\* A restart forgets the offset, and with it what was due.
LEMMA OwnerRestarts ==
  ASSUME FileInv, OwnerInv, Restart(Owner)
  PROVE  OwnerInv'
<1> USE TailAssumption
<1>1. Armed' = FALSE /\ Offset' = 0 /\ pc'[Owner] = "idle" /\ proven' = 0 /\ got' = got
  BY DEF Restart, Armed, Offset, Unarmed, FileInv, TypeOK
<1> QED
  BY <1>1 DEF OwnerInv, PlaceInv, OrderInv, OwnerInOrder, LossInv

\* Looking at the size moves nothing: the Owner's offset is in the file.
LEMMA OwnerLooks ==
  ASSUME FileInv, OwnerInv, Stat(Owner) \/ NoTrim
  PROVE  OwnerInv'
<1> USE TailAssumption
<1>1. UNCHANGED <<file, lines, partial, proven, kept, got, since, exposed>>
  BY DEF Stat, NoTrim
<1>2. /\ Armed' = Armed /\ Offset' = Offset
      /\ pc'[Owner] \in {"idle", "read", "polled"} /\ pc[Owner] \in {"idle", "polled"} /\ Armed
  <2>1. CASE Stat(Owner)
    <3>1. OffsetFor(Owner) = Offset
      BY <2>1, OffsetTyped DEF Stat, OffsetFor, Offset, OwnerInv, PlaceInv, Armed, FileInv
    <3> QED
      BY <2>1, <3>1 DEF Stat, AfterPoll, Armed, Offset, FileInv, TypeOK
  <2>2. CASE NoTrim
    BY <2>2 DEF NoTrim, OwnerInv, PlaceInv, Armed, Offset, FileInv, TypeOK
  <2> QED
    BY <2>1, <2>2
<1>3. PlaceInv' /\ OrderInv'
  BY <1>1, <1>2 DEF OwnerInv, PlaceInv, OrderInv, OwnerInOrder
<1>4. /\ InTrim' = FALSE /\ InTrim = FALSE
      /\ AtLineStart' = AtLineStart /\ \A l : Given(Owner, l)' <=> Given(Owner, l)
      /\ \A l : Awaits(l)' <=> Awaits(l)
  BY <1>1, <1>2 DEF InTrim, AtLineStart, Given, Awaits
<1>5. LossInv'
  BY <1>1, <1>2, <1>4 DEF OwnerInv, LossInv
<1> QED
  BY <1>3, <1>5 DEF OwnerInv

\* The rest of the file is retained, and exposed: all that the Owner was not given.
LEMMA OwnerRetains ==
  ASSUME FileInv, OwnerInv, ReadRetained
  PROVE  OwnerInv'
<1> USE TailAssumption
<1>1. UNCHANGED <<file, lines, partial, tail, proven, got, since>>
  BY DEF ReadRetained
<1>2. /\ Armed' = Armed /\ Offset' = Offset /\ pc[Owner] = "polled" /\ pc'[Owner] = "swap"
      /\ Armed /\ proven = Offset
  BY DEF ReadRetained, OwnerInv, PlaceInv, Armed, Offset, FileInv, TypeOK
<1>3. PlaceInv' /\ OrderInv'
  BY <1>1, <1>2 DEF OwnerInv, PlaceInv, OrderInv, OwnerInOrder
<1>4. /\ ~InTrim /\ AtLineStart' = AtLineStart /\ \A l : Given(Owner, l)' <=> Given(Owner, l)
  BY <1>1, <1>2 DEF InTrim, AtLineStart, Given
<1>5. /\ \A k \in (proven + 1)..Len(file) : \E i \in 1..Len(kept') : kept'[i] = file[k]
      /\ exposed' = exposed \cup {kept'[i].line : i \in 1..Len(kept')}
  BY Retains DEF FileInv
<1>6. ASSUME NEW l, Awaits(l)
      PROVE  l \in exposed'
  <2>1. PICK k \in (Offset + 1)..Len(file) : file[k] = First(l)
    BY <1>6 DEF Awaits
  <2>2. PICK i \in 1..Len(kept') : kept'[i] = First(l)
    BY <1>2, <1>5, <2>1
  <2> QED
    BY <1>5, <2>2 DEF First
<1>7. LossInv'
  BY <1>1, <1>2, <1>4, <1>5, <1>6 DEF OwnerInv, LossInv
<1> QED
  BY <1>3, <1>7 DEF OwnerInv

\* Whatever becomes of the swap, what was not given is exposed.
LEMMA OwnerSwaps ==
  ASSUME FileInv, OwnerInv, Swap \/ SwapFails
  PROVE  OwnerInv'
<1> USE TailAssumption
<1>1. UNCHANGED <<lines, partial, tail, proven, got, since, exposed>>
  BY DEF Swap, SwapFails
<1>2. /\ Armed' = Armed /\ Offset' = Offset /\ Armed /\ pc[Owner] = "swap" /\ InTrim
      /\ pc'[Owner] = "park" \/ (pc'[Owner] = "idle" /\ file' = file)
  BY DEF Swap, SwapFails, OwnerInv, PlaceInv, Armed, Offset, InTrim, FileInv, TypeOK
<1>3. PlaceInv' /\ OrderInv'
  BY <1>1, <1>2 DEF OwnerInv, PlaceInv, OrderInv, OwnerInOrder
<1>4. \A l : Given(Owner, l)' <=> Given(Owner, l)
  BY <1>1 DEF Given
<1>5. pc'[Owner] # "park" => AtLineStart'
  BY <1>1, <1>2 DEF AtLineStart, OwnerInv, LossInv
<1>6. LossInv'
  BY <1>1, <1>2, <1>4, <1>5 DEF OwnerInv, LossInv
<1> QED
  BY <1>3, <1>6 DEF OwnerInv

\* What the Owner reads comes after what it was given, and before what it leaves.
LEMMA OwnerReads ==
  ASSUME FileInv, OwnerInv, Read(Owner)
  PROVE  OwnerInv'
<1> USE TailAssumption
<1>1. /\ UNCHANGED <<file, lines, partial, since, exposed>>
      /\ Armed /\ pc[Owner] = "read" /\ pc'[Owner] = "polled"
  BY DEF Read, AfterPoll, OwnerInv, PlaceInv, FileInv, TypeOK
<1>2. PICK off \in Nat, n \in Nat : off = Offset /\ n = Len(file)
  BY OffsetTyped DEF FileInv
<1>3. PICK s \in Seq(Pieces), e \in Nat :
        /\ s = SubSeq(file, off + 1, Len(file)) /\ e = off + LastEnd(s)
        /\ tail' = [tail EXCEPT ![Owner].offset = e]
        /\ got' = [got EXCEPT ![Owner] = @ \o LinesIn(s)]
        /\ proven' = IF LastEnd(s) > 0 THEN e ELSE proven
  BY <1>2, ReadReturns DEF FileInv, Offset
<1>4. PICK m \in Nat : m = LastEnd(s)
  BY LastEndIs
<1>5. off <= n /\ e = off + m
  BY <1>1, <1>2, <1>3, <1>4 DEF OwnerInv, PlaceInv
<1>6. /\ Len(s) = n - off /\ Ordered(s)
      /\ \A i \in 1..(n - off) : s[i] = file[off + i]
  BY <1>2, <1>3, <1>5, ContentIs DEF FileInv, TypeOK
<1>7. m <= n - off /\ (m > 0 => s[m].end)
  BY <1>4, <1>6, LastEndIs
<1>8. Armed' = TRUE /\ Offset' = e
  BY <1>1, <1>3 DEF Armed, Offset, FileInv, TypeOK
<1>9. PlaceInv'
  <2>1. proven' = e \/ (proven' = proven /\ e = off)
    BY <1>3, <1>4, <1>5
  <2>2. e <= n /\ proven' \in {0, e}
    BY <1>2, <1>5, <1>7, <2>1 DEF OwnerInv, PlaceInv
  <2> QED
    BY <1>1, <1>2, <1>8, <2>2 DEF PlaceInv
<1>10. PICK t, g : t = LinesIn(s) /\ g = got[Owner] /\ t \in Seq(Nat) /\ g \in Seq(Nat)
  BY LinesAre DEF FileInv, TypeOK
<1>11. PICK c \in Nat : c = Len(g)
  BY <1>10
<1>12. PICK d \in Nat : d = Len(t)
  BY <1>10
<1>13. PICK h : h = got'[Owner]
  OBVIOUS
<1>14. /\ \A i \in 1..c : i \in 1..Len(h) /\ h[i] = g[i]
       /\ \A i \in 1..d : c + i \in 1..Len(h) /\ h[c + i] = t[i]
       /\ \A i \in 1..Len(h) : i \in 1..c \/ \E k \in 1..d : i = c + k
  <2>1. TypeOK
    BY DEF FileInv
  <2>2. /\ \A i \in 1..Len(got[Owner]) : i \in 1..Len(got'[Owner])
                                         /\ got'[Owner][i] = got[Owner][i]
        /\ \A i \in 1..Len(LinesIn(s)) : /\ Len(got[Owner]) + i \in 1..Len(got'[Owner])
                                         /\ got'[Owner][Len(got[Owner]) + i] = LinesIn(s)[i]
        /\ \A i \in 1..Len(got'[Owner]) : \/ i \in 1..Len(got[Owner])
                     \/ \E k \in 1..Len(LinesIn(s)) : i = Len(got[Owner]) + k
    BY <1>3, <2>1, Longer
  <2> QED
    BY <1>10, <1>11, <1>12, <1>13, <2>2
<1>15. /\ \A k \in 1..d : \E j \in 1..m : s[j].end /\ t[k] = s[j].line
       /\ \A k, l \in 1..d : k < l => t[k] < t[l]
  BY <1>4, <1>6, <1>10, <1>12, LinesAre DEF WholeAt
<1>16. \A j \in 1..(n - off) : off + j \in (off + 1)..n /\ \A k \in 1..c : g[k] < s[j].line
  <2>1. \A j \in 1..(n - off) : off + j \in (off + 1)..n
    BY <1>5
  <2>2. \A i \in (off + 1)..n : \A k \in 1..c : g[k] < file[i].line
    BY <1>1, <1>2, <1>10, <1>11 DEF OwnerInv, OrderInv
  <2> QED
    BY <1>6, <2>1, <2>2
<1>17. \A k \in 1..c, l \in 1..d : g[k] < t[l]
  <2> SUFFICES ASSUME NEW k \in 1..c, NEW l \in 1..d
               PROVE  g[k] < t[l]
    OBVIOUS
  <2>1. PICK j \in 1..m : t[l] = s[j].line
    BY <1>15
  <2>2. j \in 1..(n - off)
    BY <1>5, <1>7
  <2> QED
    BY <1>16, <2>1, <2>2
<1>18. OwnerInOrder'
  <2> SUFFICES ASSUME NEW i \in 1..Len(h), NEW j \in 1..Len(h), i < j
               PROVE  h[i] < h[j]
    BY <1>13 DEF OwnerInOrder
  <2>1. CASE j \in 1..c
    <3>1. i \in 1..c
      BY <1>11, <2>1
    <3>2. g[i] < g[j]
      BY <1>10, <1>11, <2>1, <3>1 DEF OwnerInv, OrderInv, OwnerInOrder
    <3> QED
      BY <1>14, <2>1, <3>1, <3>2
  <2>2. CASE i \in 1..c /\ ~(j \in 1..c)
    <3>1. PICK k \in 1..d : j = c + k
      BY <1>14, <2>2
    <3> QED
      BY <1>14, <1>17, <2>2, <3>1
  <2>3. CASE ~(i \in 1..c) /\ ~(j \in 1..c)
    <3>1. PICK k \in 1..d : i = c + k
      BY <1>14, <2>3
    <3>2. PICK l \in 1..d : j = c + l
      BY <1>14, <2>3
    <3>3. k < l
      BY <3>1, <3>2
    <3> QED
      BY <1>14, <1>15, <3>1, <3>2, <3>3
  <2> QED
    BY <2>1, <2>2, <2>3
<1>19. ASSUME NEW k \in 1..Len(h), NEW i \in (e + 1)..n
       PROVE  h[k] < file[i].line
  <2>1. i - off \in 1..(n - off) /\ off + (i - off) = i /\ i - off > m
    BY <1>5
  <2>2. s[i - off] = file[i]
    BY <1>6, <2>1
  <2>3. CASE k \in 1..c
    BY <1>14, <1>16, <2>1, <2>2, <2>3
  <2>4. CASE ~(k \in 1..c)
    <3>1. PICK q \in 1..d : k = c + q
      BY <1>14, <2>4
    <3>2. PICK j \in 1..m : s[j].end /\ t[q] = s[j].line
      BY <1>15
    <3>3. Before(s[j], s[i - off])
      <4>1. j \in 1..Len(s) /\ i - off \in 1..Len(s) /\ j < i - off
        BY <1>6, <1>7, <2>1
      <4> QED
        BY <1>6, <4>1 DEF Ordered
    <3> QED
      BY <1>14, <2>2, <3>1, <3>2, <3>3 DEF Before
  <2> QED
    BY <2>3, <2>4
<1>20. OrderInv'
  BY <1>1, <1>2, <1>8, <1>13, <1>18, <1>19 DEF OrderInv
<1>21. AtLineStart'
  <2>1. partial \/ n = off \/ file[n].end
    BY <1>1, <1>2 DEF OwnerInv, LossInv, AtLineStart
  <2>2. n = off => n = e
    BY <1>5, <1>7
  <2> QED
    BY <1>1, <1>2, <1>8, <2>1, <2>2 DEF AtLineStart
<1>22. ASSUME NEW l, Given(Owner, l)
       PROVE  Given(Owner, l)'
  BY <1>10, <1>11, <1>13, <1>14, <1>22 DEF Given
<1>23. ASSUME NEW l, Awaits(l)
       PROVE  Given(Owner, l)' \/ Awaits(l)'
  <2>1. PICK i \in (off + 1)..n :
          /\ file[i] = First(l)
          /\ i > off + 1 => file[i - 1].end
          /\ i < n => file[i + 1] = Second(l)
          /\ i = n => l = lines /\ partial
    BY <1>2, <1>23 DEF Awaits
  <2>2. PICK p \in 1..(n - off) : i = off + p
    <3>1. i - off \in 1..(n - off) /\ i = off + (i - off)
      BY <1>5
    <3> QED
      BY <3>1
  <2>3. s[p] = First(l)
    BY <1>6, <2>1, <2>2
  <2>4. CASE p < m
    <3>1. i < n /\ p + 1 \in 1..(n - off) /\ off + (p + 1) = i + 1
      BY <1>5, <1>7, <2>2, <2>4
    <3>2. s[p + 1] = Second(l)
      BY <1>6, <2>1, <3>1
    <3>3. p + 1 > 2 => s[p - 1].end
      <4>1. SUFFICES ASSUME p > 1
                     PROVE  s[p - 1].end
        OBVIOUS
      <4>2. p - 1 \in 1..(n - off) /\ off + (p - 1) = i - 1 /\ i > off + 1
        BY <2>2, <4>1
      <4> QED
        BY <1>6, <2>1, <4>2
    <3>4. WholeAt(s, p + 1)
      <4>1. s[p + 1].end /\ s[p + 1].line = l
        BY <3>2 DEF Second
      <4>2. p + 1 > 1 /\ p + 1 - 1 = p /\ p + 1 - 2 = p - 1
        OBVIOUS
      <4> QED
        BY <2>3, <3>3, <4>1, <4>2 DEF WholeAt
    <3>5. PICK k \in 1..d : t[k] = s[p + 1].line
      BY <1>6, <1>10, <1>12, <3>1, <3>4, LinesAre
    <3>6. t[k] = l
      BY <3>2, <3>5 DEF Second
    <3> QED
      BY <1>13, <1>14, <3>6 DEF Given
  <2>5. p # m
    BY <1>7, <2>3 DEF First
  <2>6. CASE p > m
    <3>1. i \in (e + 1)..n /\ (i > e + 1 => i > off + 1)
      BY <1>5, <2>2, <2>6
    <3> QED
      BY <1>1, <1>2, <1>8, <2>1, <3>1 DEF Awaits
  <2> QED
    BY <2>4, <2>5, <2>6
<1>24. ~InTrim /\ ~InTrim'
  BY <1>1 DEF InTrim
<1>25. LossInv'
  <2>1. since'[Owner] = since[Owner] /\ lines' = lines /\ exposed' = exposed
    BY <1>1
  <2>2. \A l \in (since[Owner] + 1)..lines : Given(Owner, l) \/ l \in exposed \/ Awaits(l)
    BY <1>1, <1>24 DEF OwnerInv, LossInv
  <2> QED
    BY <1>21, <1>22, <1>23, <1>24, <2>1, <2>2 DEF LossInv
<1> QED
  BY <1>9, <1>20, <1>25 DEF OwnerInv

LEMMA OwnerStep ==
  ASSUME FileInv, OwnerInv, [Next]_vars
  PROVE  OwnerInv'
<1> USE TailAssumption
<1>1. CASE BeginLine \/ EndLine
  BY <1>1, OwnerAppends
<1>2. CASE \E r \in Readers \ {Owner} : Poll(r) \/ Restart(r)
  <2>1. PICK r \in Readers \ {Owner} : Poll(r) \/ Restart(r)
    BY <1>2
  <2>2. /\ tail'[Owner] = tail[Owner] /\ pc'[Owner] = pc[Owner]
        /\ got'[Owner] = got[Owner] /\ since'[Owner] = since[Owner]
        /\ UNCHANGED <<file, lines, partial, proven, kept, exposed>>
    BY <2>1, OthersLeave DEF FileInv
  <2> QED
    BY <2>2, OwnerLeft
<1>3. CASE Arm(Owner) \/ Park
  BY <1>3, OwnerAtEnd
<1>4. CASE Stat(Owner) \/ NoTrim
  BY <1>4, OwnerLooks
<1>5. CASE Read(Owner)
  BY <1>5, OwnerReads
<1>6. CASE Restart(Owner)
  BY <1>6, OwnerRestarts
<1>7. CASE ReadRetained
  BY <1>7, OwnerRetains
<1>8. CASE Swap \/ SwapFails
  BY <1>8, OwnerSwaps
<1>9. CASE UNCHANGED vars
  <2>1. /\ tail'[Owner] = tail[Owner] /\ pc'[Owner] = pc[Owner]
        /\ got'[Owner] = got[Owner] /\ since'[Owner] = since[Owner]
        /\ UNCHANGED <<file, lines, partial, proven, kept, exposed>>
    BY <1>9 DEF vars
  <2> QED
    BY <2>1, OwnerLeft
<1> QED
  BY <1>1, <1>2, <1>3, <1>4, <1>5, <1>6, <1>7, <1>8, <1>9 DEF Next, Poll, Trim

-----------------------------------------------------------------------------
(* Any reader: what it has still to read comes after what it was given, or was exposed.  *)

\* A reader whose offset is behind the end of the file reads the file from its start.
Behind(r, k) ==
  k \in 1..Len(file) /\ (tail[r].offset > Len(file) \/ k > tail[r].offset)

Fresh(r) ==
  tail[r].armed =>
    \A k \in 1..Len(file) : Behind(r, k) =>
      \A i \in 1..Len(got[r]) : got[r][i] < file[k].line \/ file[k].line \in exposed

InOrderOrExposed(r) ==
  \A i, j \in 1..Len(got[r]) : i < j /\ got[r][i] >= got[r][j] => got[r][j] \in exposed

ReplayInv ==
  \A r \in Readers :
    Fresh(r) /\ InOrderOrExposed(r) /\ (pc[r] = "read" => tail[r].armed)

LEMMA ReplayInit == Init => ReplayInv
  BY DEF Init, ReplayInv, Fresh, InOrderOrExposed, Unarmed

\* The reader is where it was, in the same file.
LEMMA ReplayLeft ==
  ASSUME NEW r \in Readers, Fresh(r), InOrderOrExposed(r), got'[r] = got[r],
         exposed \subseteq exposed'
  PROVE  /\ InOrderOrExposed(r)'
         /\ tail'[r] = tail[r] /\ file' = file => Fresh(r)'
<1>1. InOrderOrExposed(r)'
  BY DEF InOrderOrExposed
<1>2. ASSUME tail'[r] = tail[r], file' = file
      PROVE  Fresh(r)'
  BY <1>2 DEF Fresh, Behind
<1> QED
  BY <1>1, <1>2

\* The writer appends a line after all that was given.
LEMMA ReplayAppends ==
  ASSUME FileInv, ReplayInv, BeginLine \/ EndLine, NEW r \in Readers
  PROVE  Fresh(r)' /\ InOrderOrExposed(r)'
<1>1. PICK p \in Pieces :
        /\ Len(file') = Len(file) + 1
        /\ file'[Len(file) + 1] = p /\ \A i \in 1..Len(file) : file'[i] = file[i]
        /\ exposed' = IF InTrim THEN exposed \cup {p.line} ELSE exposed
        /\ p.line = lines' /\ UNCHANGED <<tail, got>>
  BY Appends DEF FileInv
<1>2. PICK n \in Nat : n = Len(file)
  BY DEF FileInv, TypeOK
<1>3. PICK off \in Nat : off = tail[r].offset
  BY DEF FileInv, TypeOK
<1>4. Fresh(r) /\ InOrderOrExposed(r) /\ exposed \subseteq exposed'
  BY <1>1 DEF ReplayInv
<1>5. \A i \in 1..Len(got[r]) : got[r][i] < p.line
  <2>1. \A l : Complete(l) => l < p.line
    BY <1>1, NewPiece
  <2> QED
    BY <2>1 DEF FileInv
<1>6. ASSUME tail[r].armed, NEW k \in 1..(n + 1), off > n + 1 \/ k > off,
             NEW i \in 1..Len(got[r])
      PROVE  got[r][i] < file'[k].line \/ file'[k].line \in exposed'
  <2>1. CASE k = n + 1
    BY <1>1, <1>2, <1>5, <2>1
  <2>2. CASE k \in 1..n
    <3>1. Behind(r, k) /\ file'[k] = file[k]
      BY <1>1, <1>2, <1>3, <1>6, <2>2 DEF Behind
    <3> QED
      BY <1>2, <1>4, <1>6, <2>2, <3>1 DEF Fresh
  <2> QED
    BY <2>1, <2>2
<1>7. Fresh(r)'
  BY <1>1, <1>2, <1>3, <1>6 DEF Fresh, Behind
<1> QED
  BY <1>1, <1>4, <1>7, ReplayLeft

\* What is read was behind the offset, in order, and what stays behind comes after it.
LEMMA ReplayReads ==
  ASSUME FileInv, ReplayInv, NEW r \in Readers, Read(r)
  PROVE  Fresh(r)' /\ InOrderOrExposed(r)'
<1>1. tail[r].offset \in Nat /\ file \in Seq(Pieces) /\ Len(file) \in Nat
  BY DEF FileInv, TypeOK
<1>2. PICK off \in Nat : off = tail[r].offset
  BY <1>1
<1>3. PICK n \in Nat : n = Len(file)
  BY <1>1
<1>4. PICK s \in Seq(Pieces), e \in Nat :
        /\ s = SubSeq(file, off + 1, Len(file)) /\ e = off + LastEnd(s)
        /\ tail' = [tail EXCEPT ![r].offset = e]
        /\ got' = [got EXCEPT ![r] = @ \o LinesIn(s)]
  BY <1>2, ReadReturns DEF FileInv
<1>5. PICK m \in Nat : m = LastEnd(s)
  BY LastEndIs
<1>6. UNCHANGED <<file, exposed>> /\ tail'[r].armed = tail[r].armed /\ tail'[r].offset = e
  BY <1>4 DEF Read, FileInv, TypeOK
<1>7. PICK w \in Nat : w = Len(s)
  OBVIOUS
<1>8. /\ w = (IF off <= n THEN n - off ELSE 0) /\ Ordered(s)
      /\ \A i \in 1..w : off + i \in 1..n /\ s[i] = file[off + i]
  <2>1. Ordered(file)
    BY DEF FileInv
  <2>2. /\ Len(s) = IF off <= Len(file) THEN Len(file) - off ELSE 0
        /\ \A i \in 1..Len(s) : off + i \in 1..Len(file) /\ s[i] = file[off + i]
        /\ Ordered(s)
    BY <1>1, <1>4, <2>1, ContentIs
  <2> QED
    BY <1>3, <1>7, <2>2
<1>9. m <= w /\ e = off + m /\ (m > 0 => s[m].end)
  <2>1. LastEnd(s) \in 0..Len(s) /\ (LastEnd(s) > 0 => s[LastEnd(s)].end)
    BY LastEndIs
  <2> QED
    BY <1>4, <1>5, <1>7, <2>1
<1>10. PICK t, g : t = LinesIn(s) /\ g = got[r] /\ t \in Seq(Nat) /\ g \in Seq(Nat)
  BY LinesAre DEF FileInv, TypeOK
<1>11. PICK c \in Nat : c = Len(g)
  BY <1>10
<1>12. PICK d \in Nat : d = Len(t)
  BY <1>10
<1>13. PICK h : h = got'[r]
  OBVIOUS
<1>14. /\ \A i \in 1..c : i \in 1..Len(h) /\ h[i] = g[i]
       /\ \A i \in 1..d : c + i \in 1..Len(h) /\ h[c + i] = t[i]
       /\ \A i \in 1..Len(h) : i \in 1..c \/ \E k \in 1..d : i = c + k
  <2>1. TypeOK
    BY DEF FileInv
  <2>2. /\ \A i \in 1..Len(got[r]) : i \in 1..Len(got'[r]) /\ got'[r][i] = got[r][i]
        /\ \A i \in 1..Len(LinesIn(s)) : /\ Len(got[r]) + i \in 1..Len(got'[r])
                                         /\ got'[r][Len(got[r]) + i] = LinesIn(s)[i]
        /\ \A i \in 1..Len(got'[r]) : \/ i \in 1..Len(got[r])
                                      \/ \E k \in 1..Len(LinesIn(s)) : i = Len(got[r]) + k
    BY <1>4, <2>1, Longer
  <2> QED
    BY <1>10, <1>11, <1>12, <1>13, <2>2
<1>15. /\ \A k \in 1..d : \E j \in 1..m : s[j].end /\ t[k] = s[j].line
       /\ \A k, l \in 1..d : k < l => t[k] < t[l]
  BY <1>5, <1>8, <1>10, <1>12, LinesAre DEF WholeAt
<1>16. \A j \in 1..w, k \in 1..c : g[k] < s[j].line \/ s[j].line \in exposed
  <2> SUFFICES ASSUME NEW j \in 1..w, NEW k \in 1..c
               PROVE  g[k] < s[j].line \/ s[j].line \in exposed
    OBVIOUS
  <2>1. off + j \in 1..n /\ s[j] = file[off + j] /\ off + j > off
    BY <1>8
  <2>2. Behind(r, off + j) /\ tail[r].armed
    BY <1>2, <1>3, <2>1 DEF Behind, ReplayInv, Read
  <2> QED
    BY <1>3, <1>10, <1>11, <2>1, <2>2 DEF ReplayInv, Fresh
<1>17. \A k \in 1..c, l \in 1..d : g[k] < t[l] \/ t[l] \in exposed
  <2> SUFFICES ASSUME NEW k \in 1..c, NEW l \in 1..d
               PROVE  g[k] < t[l] \/ t[l] \in exposed
    OBVIOUS
  <2>1. PICK j \in 1..m : t[l] = s[j].line
    BY <1>15
  <2>2. j \in 1..w
    BY <1>9
  <2> QED
    BY <1>16, <2>1, <2>2
<1>18. ASSUME NEW i \in 1..Len(h), NEW j \in 1..Len(h), i < j, h[i] >= h[j]
       PROVE  h[j] \in exposed
  <2>1. CASE j \in 1..c
    <3>1. i \in 1..c
      BY <1>18, <2>1
    <3>2. g[i] >= g[j]
      BY <1>14, <1>18, <2>1, <3>1
    <3>3. g[j] \in exposed
      BY <1>10, <1>11, <1>18, <2>1, <3>1, <3>2 DEF ReplayInv, InOrderOrExposed
    <3> QED
      BY <1>14, <2>1, <3>3
  <2>2. CASE i \in 1..c /\ ~(j \in 1..c)
    <3>1. PICK l \in 1..d : j = c + l
      BY <1>14, <2>2
    <3>2. g[i] < t[l] \/ t[l] \in exposed
      BY <1>17, <2>2
    <3>3. h[i] = g[i] /\ h[j] = t[l]
      BY <1>14, <2>2, <3>1
    <3>4. g[i] \in Nat
      BY <1>10, <1>11, <2>2
    <3>5. t[l] \in Nat
      BY <1>10, <1>12
    <3> QED
      BY <1>18, <3>2, <3>3, <3>4, <3>5
  <2>3. CASE ~(i \in 1..c) /\ ~(j \in 1..c)
    <3>1. PICK k \in 1..d : i = c + k
      BY <1>14, <2>3
    <3>2. PICK l \in 1..d : j = c + l
      BY <1>14, <2>3
    <3>3. k < l
      BY <1>18, <3>1, <3>2
    <3>4. t[k] < t[l] /\ h[i] = t[k] /\ h[j] = t[l] /\ t[k] \in Nat /\ t[l] \in Nat
      BY <1>10, <1>12, <1>14, <1>15, <3>1, <3>2, <3>3
    <3> QED
      BY <1>18, <3>4
  <2> QED
    BY <2>1, <2>2, <2>3
<1>19. ASSUME NEW i \in 1..Len(h), NEW k \in 1..n, e > n \/ k > e, tail[r].armed
       PROVE  h[i] < file[k].line \/ file[k].line \in exposed
  <2>1. CASE i \in 1..c
    <3>1. off > n \/ k > off
      BY <1>8, <1>9, <1>19
    <3>2. Behind(r, k)
      BY <1>2, <1>3, <3>1 DEF Behind
    <3> QED
      BY <1>3, <1>10, <1>11, <1>14, <1>19, <2>1, <3>2 DEF ReplayInv, Fresh
  <2>2. CASE ~(i \in 1..c)
    <3>1. PICK q \in 1..d : i = c + q
      BY <1>14, <2>2
    <3>2. PICK j \in 1..m : s[j].end /\ t[q] = s[j].line
      BY <1>15
    <3>3. w = n - off /\ off <= n /\ e <= n /\ k > e /\ j \in 1..w
      BY <1>8, <1>9, <1>19, <3>2
    <3>4. k - off \in 1..w /\ j < k - off /\ off + (k - off) = k
      BY <1>9, <3>3
    <3>5. Before(s[j], s[k - off])
      BY <1>7, <1>8, <3>3, <3>4 DEF Ordered
    <3>6. s[k - off] = file[k] /\ h[i] = s[j].line
      BY <1>8, <1>14, <3>1, <3>2, <3>4
    <3> QED
      BY <3>2, <3>5, <3>6 DEF Before
  <2> QED
    BY <2>1, <2>2
<1>20. InOrderOrExposed(r)'
  BY <1>6, <1>13, <1>18 DEF InOrderOrExposed
<1>21. Fresh(r)'
  BY <1>3, <1>6, <1>13, <1>19 DEF Fresh, Behind
<1> QED
  BY <1>20, <1>21

LEMMA ReplayStep ==
  ASSUME FileInv, ReplayInv, [Next]_vars
  PROVE  ReplayInv'
<1> USE TailAssumption
<1>1. SUFFICES ASSUME NEW r \in Readers
               PROVE  Fresh(r)' /\ InOrderOrExposed(r)' /\ (pc'[r] = "read" => tail'[r].armed)
  BY DEF ReplayInv
<1>2. Fresh(r) /\ InOrderOrExposed(r) /\ (pc[r] = "read" => tail[r].armed)
  BY DEF ReplayInv
<1>3. /\ tail \in [Readers -> [armed : BOOLEAN, offset : Nat]] /\ Len(file) \in Nat
      /\ pc \in [Readers -> {"idle", "read", "polled", "swap", "park"}]
  BY DEF FileInv, TypeOK
<1>4. CASE BeginLine \/ EndLine
  <2>1. UNCHANGED <<pc, tail>>
    BY <1>4 DEF BeginLine, EndLine, Put
  <2> QED
    BY <1>2, <1>4, <2>1, ReplayAppends
<1>5. CASE Read(r)
  <2>1. pc'[r] # "read"
    BY <1>3, <1>5 DEF Read, AfterPoll
  <2> QED
    BY <1>5, <2>1, ReplayReads
<1>6. CASE Arm(r) \/ (Park /\ r = Owner)
  <2>1. /\ got' = got /\ exposed' = exposed /\ file' = file
        /\ tail'[r].armed /\ tail'[r].offset = Len(file)
    BY <1>3, <1>6 DEF Arm, ArmAt, Park
  <2>2. Fresh(r)'
    BY <1>3, <2>1 DEF Fresh, Behind
  <2> QED
    BY <1>2, <2>1, <2>2, ReplayLeft
<1>7. CASE Stat(r)
  <2>1. got' = got /\ exposed' = exposed /\ file' = file /\ tail[r].armed /\ tail'[r].armed
    BY <1>3, <1>7 DEF Stat
  <2>2. tail'[r].offset = IF Len(file) < tail[r].offset THEN 0 ELSE tail[r].offset
    BY <1>3, <1>7 DEF Stat, OffsetFor
  <2>3. \A k \in 1..Len(file) : Behind(r, k)' => Behind(r, k)
    BY <1>3, <2>1, <2>2 DEF Behind
  <2>4. Fresh(r)'
    BY <1>2, <2>1, <2>3 DEF Fresh
  <2> QED
    BY <1>2, <2>1, <2>4, ReplayLeft
<1>8. CASE Restart(r)
  <2>1. got' = got /\ exposed' = exposed /\ ~tail'[r].armed /\ pc'[r] = "idle"
    BY <1>3, <1>8 DEF Restart, Unarmed
  <2>2. Fresh(r)'
    BY <2>1 DEF Fresh
  <2> QED
    BY <1>2, <2>1, <2>2, ReplayLeft
<1>9. CASE Swap
  <2>1. file' = kept /\ UNCHANGED <<tail, got, exposed>> /\ (pc'[r] = pc[r] \/ pc'[r] = "park")
    BY <1>3, <1>9 DEF Swap
  <2>2. \A k \in 1..Len(file') : file'[k].line \in exposed'
    BY <2>1 DEF FileInv
  <2>3. Fresh(r)'
    BY <2>2 DEF Fresh
  <2> QED
    BY <1>2, <2>1, <2>3, ReplayLeft
<1>10. CASE \/ \E q \in Readers \ {r} : Poll(q) \/ Restart(q)
            \/ NoTrim \/ ReadRetained \/ SwapFails \/ (Park /\ r # Owner) \/ UNCHANGED vars
  <2>1. /\ tail'[r] = tail[r] /\ file' = file /\ exposed \subseteq exposed'
        /\ pc'[r] = pc[r] \/ pc'[r] \in {"idle", "swap"}
    <3>1. CASE \E q \in Readers \ {r} : Poll(q) \/ Restart(q)
      BY <1>3, <3>1 DEF Poll, Arm, Stat, Read, Restart
    <3>2. CASE NoTrim \/ ReadRetained \/ SwapFails \/ (Park /\ r # Owner) \/ UNCHANGED vars
      BY <1>3, <3>2 DEF NoTrim, ReadRetained, SwapFails, Park, vars
    <3> QED
      BY <1>10, <3>1, <3>2
  <2>2. got'[r] = got[r]
    <3>1. got \in [Readers -> Seq(Nat)]
      BY DEF FileInv, TypeOK
    <3>2. CASE \E q \in Readers \ {r} : Poll(q) \/ Restart(q)
      BY <3>1, <3>2 DEF Poll, Arm, Stat, Read, Restart
    <3>3. CASE NoTrim \/ ReadRetained \/ SwapFails \/ Park \/ UNCHANGED vars
      BY <3>3 DEF NoTrim, ReadRetained, SwapFails, Park, vars
    <3> QED
      BY <1>10, <3>2, <3>3
  <2> QED
    BY <1>2, <2>1, <2>2, ReplayLeft
<1> QED
  BY <1>4, <1>5, <1>6, <1>7, <1>8, <1>9, <1>10 DEF Next, Poll, Trim

-----------------------------------------------------------------------------
(* The theorems.                                                            *)

TailInv == FileInv /\ OwnerInv /\ ReplayInv

LEMMA TailHolds == Spec => []TailInv
<1>1. Init => TailInv
  BY FileInit, OwnerInit, ReplayInit DEF TailInv
<1>2. TailInv /\ [Next]_vars => TailInv'
  BY FileStep, OwnerStep, ReplayStep DEF TailInv
<1> QED
  BY <1>1, <1>2, PTL DEF Spec

\* The ticks reach the live validator once and in the order they were written: poll
\* (live_data/ndjson_tail.py) takes whole lines from its offset on, and the trim
\* (retention/files.py) with mark_prefix_removed (ndjson_tail.py) never moves the offset
\* back over a line that was given, whenever the writer, the trim and a restart interleave.
THEOREM OwnerIsInOrder == Spec => []OwnerInOrder
<1>1. TailInv => OwnerInOrder
  BY DEF TailInv, OwnerInv, OrderInv
<1> QED
  BY <1>1, TailHolds, PTL

\* What no trim may do: remove a byte that was not consumed, lose the Owner a line that was
\* read before the trim or is written after it, or give another reader a line twice that
\* the trim had not retained.  enforce_ndjson_size_limit (retention/files.py) may lose or
\* repeat only the lines that lay unread when it began or were written while it ran.
THEOREM TrimIsExposedHolds == Spec => []TrimIsExposed
<1>1. ASSUME TailInv
      PROVE  ProvenIsCurrent
  BY <1>1 DEF TailInv, OwnerInv, PlaceInv, ProvenIsCurrent, Offset
<1>2. ASSUME TailInv, NEW l \in 1..lines, Lost(Owner, l), l \notin exposed
      PROVE  FALSE
  <2>1. Armed /\ l \in (since[Owner] + 1)..lines /\ (l = lines => ~partial) /\ ~Given(Owner, l)
    BY <1>2 DEF Lost, Due, Armed
  <2>2. Awaits(l)
    BY <1>2, <2>1 DEF TailInv, OwnerInv, LossInv
  <2>3. Offset \in Nat /\ Len(file) \in Nat
    BY <1>2, OffsetTyped DEF TailInv, FileInv
  <2>4. PICK i \in (Offset + 1)..Len(file) :
          /\ i < Len(file) => file[i + 1] = Second(l)
          /\ i = Len(file) => l = lines /\ partial
    BY <2>2 DEF Awaits
  <2>5. i + 1 \in (Offset + 1)..Len(file) /\ file[i + 1] = Second(l)
    BY <2>1, <2>3, <2>4
  <2> QED
    BY <1>2, <2>5 DEF Lost, InFileBehind, Offset
<1>3. ASSUME TailInv
      PROVE  ReplayIsExposed
  BY <1>3 DEF TailInv, ReplayInv, InOrderOrExposed, ReplayIsExposed
<1>4. TailInv => TrimIsExposed
  BY <1>1, <1>2, <1>3 DEF TrimIsExposed, LossIsExposed
<1> QED
  BY <1>4, TailHolds, PTL
=============================================================================
