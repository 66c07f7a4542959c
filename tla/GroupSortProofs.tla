--------------------------- MODULE GroupSortProofs ---------------------------
(***************************************************************************)
(* Proofs about GroupSort, for any parameters, limits, strides and blocks, *)
(* and any stream. Sorting column by column, the last parameter first, is  *)
(* sorting by all of them (SortByAllIs); what is cut off after a chunk is  *)
(* never missed (TopOfTop); so what the sort keeps is what the query would *)
(* give for the rows so far (SInv). The numbers that the group-by gives to *)
(* strings tell keys apart as the strings do (CodeTellsApart), so its maps,*)
(* its aggregates and its result number the same groups, those of the rows *)
(* so far (GInv). And the rows that the sort gets are those that the       *)
(* group-by has returned (Grouped).                                        *)
(*                                                                         *)
(* An order is a set of pairs here, and the n-th row in an order is the    *)
(* one with n - 1 rows below it.                                           *)
(***************************************************************************)
EXTENDS GroupSort, SequenceTheorems, FiniteSetTheorems, WellFoundedInduction, TLAPS

-----------------------------------------------------------------------------
(* FlattenSeq, of sequences of any kind.                                   *)

\* Every nonempty set of natural numbers has a least element.
LEMMA LeastNat ==
    ASSUME NEW T, T \subseteq Nat, T # {}
    PROVE  \E x \in T : \A y \in T : x <= y
  <1>1. PICK x \in T : \A y \in T : ~(<<y, x>> \in OpToRel(<, Nat))
    BY NatLessThanWellFounded, WFMin, Zenon
  <1>2. ASSUME NEW y \in T PROVE x <= y
    <2>1. ~(y < x)
      BY <1>1 DEF OpToRel
    <2> QED BY <2>1
  <1> QED BY <1>2

\* f[k] is the first k of the sequences, one behind the other.
IsFlat(f, seqs, n) ==
    /\ f = [k \in 0..n |-> f[k]]
    /\ f[0] = <<>>
    /\ \A k \in 1..n : f[k] = f[k - 1] \o seqs[k]

Flat(seqs) == CHOOSE f : IsFlat(f, seqs, Len(seqs))

\* One more sequence.
LEMMA FlatStep ==
    ASSUME NEW seqs, NEW m \in Nat, NEW f, IsFlat(f, seqs, m)
    PROVE  \E g : IsFlat(g, seqs, m + 1)
  <1> DEFINE g == [k \in 0..(m + 1) |-> IF k = m + 1 THEN f[m] \o seqs[m + 1] ELSE f[k]]
  <1>1. g[0] = <<>>
    BY DEF IsFlat
  <1>2. ASSUME NEW k \in 1..(m + 1) PROVE g[k] = g[k - 1] \o seqs[k]
    <2>1. k - 1 \in 0..(m + 1) /\ k - 1 # m + 1 /\ k \in 0..(m + 1)
      OBVIOUS
    <2>2. g[k - 1] = f[k - 1]
      BY <2>1
    <2>3. CASE k = m + 1
      <3>1. g[m + 1] = f[m] \o seqs[m + 1]
        BY <2>1, <2>3
      <3>2. k - 1 = m
        BY <2>3
      <3> HIDE DEF g
      <3> QED BY <2>2, <2>3, <3>1, <3>2
    <2>4. CASE k # m + 1
      <3>1. k \in 1..m /\ g[k] = f[k]
        BY <2>1, <2>4
      <3> HIDE DEF g
      <3> QED BY <2>2, <3>1 DEF IsFlat
    <2> QED BY <2>3, <2>4
  <1>3. g = [k \in 0..(m + 1) |-> g[k]]
    OBVIOUS
  <1> HIDE DEF g
  <1> QED BY <1>1, <1>2, <1>3 DEF IsFlat

LEMMA FlatExists ==
    ASSUME NEW seqs, NEW n \in Nat
    PROVE  \E f : IsFlat(f, seqs, n)
  <1> DEFINE Bad == {m \in Nat : ~\E f : IsFlat(f, seqs, m)}
  <1>1. SUFFICES ASSUME Bad # {} PROVE FALSE
    OBVIOUS
  <1>2. PICK m \in Bad : \A k \in Bad : m <= k
    <2>1. Bad \subseteq Nat
      OBVIOUS
    <2> HIDE DEF Bad
    <2> QED BY <1>1, <2>1, LeastNat
  <1>3. m # 0
    <2> DEFINE f == [k \in 0..0 |-> <<>>]
    <2>1. IsFlat(f, seqs, 0)
      BY DEF IsFlat
    <2> QED BY <1>2, <2>1
  <1>4. m \in Nat /\ m - 1 \in Nat /\ m = (m - 1) + 1 /\ ~(m <= m - 1)
    BY <1>2, <1>3
  <1>5. PICK f : IsFlat(f, seqs, m - 1)
    BY <1>2, <1>4
  <1>6. \E g : IsFlat(g, seqs, m)
    BY <1>4, <1>5, FlatStep
  <1> QED BY <1>2, <1>6

LEMMA FlatDef ==
    ASSUME NEW S, NEW seqs \in Seq(Seq(S))
    PROVE  /\ Flat(seqs) \in [0..Len(seqs) -> Seq(S)]
           /\ Flat(seqs)[0] = <<>>
           /\ \A k \in 1..Len(seqs) : Flat(seqs)[k] = Flat(seqs)[k - 1] \o seqs[k]
  <1> DEFINE g == Flat(seqs)
             n == Len(seqs)
  <1>0. n \in Nat /\ (\A k \in 1..n : seqs[k] \in Seq(S)) /\ <<>> \in Seq(S)
    OBVIOUS
  <1>1. IsFlat(g, seqs, n)
    BY <1>0, FlatExists DEF Flat
  <1> HIDE DEF g, n
  <1>2. g = [k \in 0..n |-> g[k]] /\ g[0] = <<>> /\ \A k \in 1..n : g[k] = g[k - 1] \o seqs[k]
    BY <1>1 DEF IsFlat
  <1>3. \A k \in 0..n : g[k] \in Seq(S)
    <2> DEFINE Bad == {m \in 0..n : g[m] \notin Seq(S)}
    <2>1. SUFFICES ASSUME Bad # {} PROVE FALSE
      OBVIOUS
    <2>2. PICK m \in Bad : \A k \in Bad : m <= k
      <3>1. Bad \subseteq Nat
        BY <1>0
      <3> HIDE DEF Bad
      <3> QED BY <2>1, <3>1, LeastNat
    <2>3. m \in 0..n /\ g[m] \notin Seq(S)
      BY <2>2
    <2>4. m # 0
      BY <1>0, <1>2, <2>3
    <2>5. m \in 1..n /\ m - 1 \in 0..n /\ ~(m <= m - 1)
      BY <1>0, <2>3, <2>4
    <2>6. g[m - 1] \in Seq(S)
      BY <2>2, <2>5
    <2>7. g[m - 1] \o seqs[m] \in Seq(S)
      BY <1>0, <2>5, <2>6
    <2> QED BY <1>2, <2>3, <2>5, <2>7
  <1>4. g \in [0..n -> Seq(S)]
    BY <1>2, <1>3
  <1> QED BY <1>2, <1>4 DEF g, n

\* What FlattenSeq makes of them.
LEMMA FlattenIsFlat ==
    ASSUME NEW S, NEW seqs \in Seq(Seq(S))
    PROVE  FlattenSeq(seqs) = Flat(seqs)[Len(seqs)] /\ FlattenSeq(seqs) \in Seq(S)
  <1> DEFINE n == Len(seqs)
             IsIt(f) == f = [k \in 1..n |-> IF k = 1 THEN seqs[k] ELSE f[k - 1] \o seqs[k]]
             h == CHOOSE f : IsIt(f)
             g == Flat(seqs)
  <1>0. n \in Nat /\ \A k \in 1..n : seqs[k] \in Seq(S)
    OBVIOUS
  <1>1. g \in [0..n -> Seq(S)] /\ g[0] = <<>> /\ \A k \in 1..n : g[k] = g[k - 1] \o seqs[k]
    BY FlatDef
  <1>2. FlattenSeq(seqs) = IF n = 0 THEN seqs ELSE h[n]
    BY DEF FlattenSeq
  <1> HIDE DEF g
  <1>3. CASE n = 0
    <2>1. seqs = <<>>
      BY <1>3
    <2> QED BY <1>1, <1>2, <1>3, <2>1 DEF g
  <1>4. CASE n # 0
    <2>1. n \in 1..n /\ 1 \in 1..n /\ 0 \in 0..n
      BY <1>0, <1>4
    <2> HIDE DEF n
    <2>2. g[1] = seqs[1]
      <3>1. seqs[1] \in Seq(S) /\ g[1] = g[1 - 1] \o seqs[1]
        BY <1>0, <1>1, <2>1
      <3>2. g[1 - 1] = <<>>
        BY <1>1
      <3> QED BY <3>1, <3>2, ConcatEmptySeq
    <2> DEFINE f0 == [k \in 1..n |-> g[k]]
    <2>3. IsIt(f0)
      <3>1. ASSUME NEW k \in 1..n PROVE f0[k] = IF k = 1 THEN seqs[k] ELSE f0[k - 1] \o seqs[k]
        <4>1. CASE k = 1
          BY <2>2, <4>1
        <4>2. CASE k # 1
          <5>1. k - 1 \in 1..n
            BY <1>0, <4>2
          <5> QED BY <1>1, <4>2, <5>1
        <4> QED BY <4>1, <4>2
      <3>2. f0 = [k \in 1..n |-> f0[k]]
        OBVIOUS
      <3> HIDE DEF f0
      <3> QED BY <3>1, <3>2
    <2>4. IsIt(h)
      BY <2>3
    <2> HIDE DEF h
    <2>5. \A k \in 1..n : h[k] = IF k = 1 THEN seqs[k] ELSE h[k - 1] \o seqs[k]
      BY <2>4
    <2>6. \A k \in 1..n : h[k] = g[k]
      <3> DEFINE Bad == {m \in 1..n : h[m] # g[m]}
      <3>1. SUFFICES ASSUME Bad # {} PROVE FALSE
        OBVIOUS
      <3>2. PICK m \in Bad : \A k \in Bad : m <= k
        <4>1. Bad \subseteq Nat
          BY <1>0
        <4> HIDE DEF Bad
        <4> QED BY <3>1, <4>1, LeastNat
      <3>3. m \in 1..n /\ h[m] # g[m]
        BY <3>2
      <3>4. m # 1
        BY <2>1, <2>2, <2>5, <3>3
      <3>5. m - 1 \in 1..n /\ ~(m <= m - 1)
        BY <1>0, <3>3, <3>4
      <3>6. h[m - 1] = g[m - 1]
        BY <3>2, <3>5
      <3> QED BY <1>1, <2>5, <3>3, <3>4, <3>6
    <2>7. g[n] \in Seq(S)
      BY <1>0, <1>1
    <2> QED BY <1>2, <1>4, <2>1, <2>6, <2>7 DEF g, n
  <1> QED BY <1>3, <1>4

\* One sequence behind another.
LEMMA Joined ==
    ASSUME NEW S, NEW s \in Seq(S), NEW t \in Seq(S)
    PROVE  /\ s \o t \in Seq(S)
           /\ Len(s) \in Nat /\ Len(t) \in Nat /\ Len(s \o t) = Len(s) + Len(t)
           /\ \A j \in 1..Len(s) : (s \o t)[j] = s[j]
           /\ \A j \in 1..Len(t) : (s \o t)[Len(s) + j] = t[j]
  <1>1. s \o t \in Seq(S) /\ Len(s \o t) = Len(s) + Len(t) /\ Len(s) \in Nat /\ Len(t) \in Nat
    OBVIOUS
  <1>2. \A j \in 1..Len(s) : (s \o t)[j] = s[j]
    BY <1>1
  <1>3. ASSUME NEW j \in 1..Len(t) PROVE (s \o t)[Len(s) + j] = t[j]
    <2>1. Len(s) + j \in 1..(Len(s) + Len(t)) /\ ~(Len(s) + j <= Len(s)) /\ Len(s) + j - Len(s) = j
      BY <1>1
    <2> QED BY <1>1, <2>1
  <1> QED BY <1>1, <1>2, <1>3

Associates(s, t, u) == (s \o t) \o u = s \o (t \o u)

LEMMA JoinedTwice ==
    ASSUME NEW S, NEW s \in Seq(S), NEW t \in Seq(S), NEW u \in Seq(S)
    PROVE  Associates(s, t, u)
  BY ConcatAssociative DEF Associates

LEMMA JoinedSet ==
    ASSUME NEW S, NEW A \in Seq(S), NEW B \in Seq(S)
    PROVE  ToSet(A \o B) = ToSet(A) \cup ToSet(B)
  <1> DEFINE M == Len(A)
             P == Len(B)
             SA == ToSet(A)
             SB == ToSet(B)
             ab == A \o B
  <1>1. M \in Nat /\ P \in Nat /\ Len(ab) = M + P /\ DOMAIN ab = 1..(M + P) /\ DOMAIN A = 1..M /\ DOMAIN B = 1..P
    OBVIOUS
  <1>2. (\A n \in 1..M : ab[n] = A[n]) /\ \A n \in 1..P : ab[M + n] = B[n]
    BY Joined
  <1> HIDE DEF ab, M, P
  <1>3. SA = {A[n] : n \in 1..M} /\ SB = {B[n] : n \in 1..P} /\ ToSet(ab) = {ab[n] : n \in 1..(M + P)}
    BY <1>1 DEF ToSet
  <1> HIDE DEF SA, SB
  <1>4. ASSUME NEW n \in 1..(M + P) PROVE ab[n] \in SA \cup SB
    <2>1. CASE n <= M
      BY <1>1, <1>2, <1>3, <2>1
    <2>2. CASE ~(n <= M)
      <3>1. n - M \in 1..P /\ M + (n - M) = n
        BY <1>1, <2>2
      <3> QED BY <1>2, <1>3, <3>1
    <2> QED BY <2>1, <2>2
  <1>5. ASSUME NEW n \in 1..M PROVE A[n] \in ToSet(ab)
    <2>1. n \in 1..(M + P) /\ ab[n] = A[n]
      BY <1>1, <1>2
    <2> QED BY <1>3, <2>1
  <1>6. ASSUME NEW n \in 1..P PROVE B[n] \in ToSet(ab)
    <2>1. M + n \in 1..(M + P) /\ ab[M + n] = B[n]
      BY <1>1, <1>2
    <2> QED BY <1>3, <2>1
  <1> QED BY <1>3, <1>4, <1>5, <1>6 DEF ab, SA, SB

\* Where two sequences of sequences agree, so do those they make.
LEMMA FlatAgrees ==
    ASSUME NEW S, NEW a \in Seq(Seq(S)), NEW b \in Seq(Seq(S)),
           NEW n \in Nat, n <= Len(a), n <= Len(b), \A k \in 1..n : a[k] = b[k]
    PROVE  Flat(a)[n] = Flat(b)[n]
  <1> DEFINE f == Flat(a)
             g == Flat(b)
             Bad == {m \in 0..n : f[m] # g[m]}
  <1>1. f[0] = <<>> /\ \A k \in 1..Len(a) : f[k] = f[k - 1] \o a[k]
    BY FlatDef
  <1>2. g[0] = <<>> /\ \A k \in 1..Len(b) : g[k] = g[k - 1] \o b[k]
    BY FlatDef
  <1>3. Len(a) \in Nat /\ Len(b) \in Nat
    OBVIOUS
  <1> HIDE DEF f, g
  <1>4. SUFFICES ASSUME Bad # {} PROVE FALSE
    BY DEF f, g
  <1>5. PICK m \in Bad : \A k \in Bad : m <= k
    <2>1. Bad \subseteq Nat
      OBVIOUS
    <2> HIDE DEF Bad
    <2> QED BY <1>4, <2>1, LeastNat
  <1>6. m \in 0..n /\ f[m] # g[m]
    BY <1>5
  <1>7. m # 0
    BY <1>1, <1>2, <1>6
  <1>8. m \in 1..n /\ m \in 1..Len(a) /\ m \in 1..Len(b) /\ m - 1 \in 0..n /\ ~(m <= m - 1)
    BY <1>3, <1>6, <1>7
  <1>9. f[m - 1] = g[m - 1]
    BY <1>5, <1>8
  <1> QED BY <1>1, <1>2, <1>6, <1>8, <1>9

\* One more sequence goes to the end.
LEMMA FlattenAppend ==
    ASSUME NEW S, NEW a \in Seq(Seq(S)), NEW s \in Seq(S)
    PROVE  FlattenSeq(Append(a, s)) = FlattenSeq(a) \o s
  <1> DEFINE b == Append(a, s)
             n == Len(a)
  <1>1. b \in Seq(Seq(S)) /\ n \in Nat /\ Len(b) = n + 1 /\ b[n + 1] = s /\ \A k \in 1..n : b[k] = a[k]
    OBVIOUS
  <1>2. FlattenSeq(a) = Flat(a)[n]
    BY FlattenIsFlat
  <1> HIDE DEF b, n
  <1>3. FlattenSeq(b) = Flat(b)[n + 1]
    BY <1>1, FlattenIsFlat
  <1>4. Flat(b)[n + 1] = Flat(b)[n] \o s
    <2>1. n + 1 \in 1..Len(b) /\ (n + 1) - 1 = n
      BY <1>1
    <2> QED BY <1>1, <2>1, FlatDef
  <1>5. Flat(a)[n] = Flat(b)[n]
    <2>1. n <= Len(a) /\ n <= Len(b)
      BY <1>1 DEF n
    <2> QED BY <1>1, <2>1, FlatAgrees
  <1> QED BY <1>2, <1>3, <1>4, <1>5 DEF b

LEMMA FlattenNone == FlattenSeq(<<>>) = <<>>
  BY DEF FlattenSeq

-----------------------------------------------------------------------------
(* Orders and places.                                                      *)

\* R puts any two members of S in an order.
IsOrder(R, S) ==
    /\ \A a \in S : <<a, a>> \notin R
    /\ \A a, b, c \in S : <<a, b>> \in R /\ <<b, c>> \in R => <<a, c>> \in R
    /\ \A a, b \in S : a = b \/ <<a, b>> \in R \/ <<b, a>> \in R

Below(R, S, x) == {y \in S : <<y, x>> \in R}

\* Member n of S is the one with n - 1 others below it.
Listed(R, S) == [n \in 1..Cardinality(S) |-> CHOOSE x \in S : Cardinality(Below(R, S, x)) = n - 1]

LEMMA BelowIsFinite ==
    ASSUME NEW S, IsFiniteSet(S), NEW R, IsOrder(R, S), NEW x \in S
    PROVE  /\ IsFiniteSet(Below(R, S, x))
           /\ Cardinality(S) \in Nat
           /\ Cardinality(Below(R, S, x)) \in 0..(Cardinality(S) - 1)
  <1> DEFINE B == Below(R, S, x)
             T == S \ {x}
  <1>1. IsFiniteSet(T) /\ Cardinality(T) = Cardinality(S) - 1
    BY FS_RemoveElement
  <1>2. B \in SUBSET T
    BY DEF Below, IsOrder
  <1> HIDE DEF B, T
  <1>3. IsFiniteSet(B) /\ Cardinality(B) <= Cardinality(T)
    BY <1>1, <1>2, FS_Subset
  <1>4. Cardinality(B) \in Nat /\ Cardinality(S) \in Nat
    BY <1>3, FS_CardinalityType
  <1>5. Cardinality(B) \in 0..(Cardinality(S) - 1)
    BY <1>1, <1>3, <1>4
  <1> QED BY <1>3, <1>4, <1>5 DEF B

LEMMA BelowRises ==
    ASSUME NEW S, IsFiniteSet(S), NEW R, IsOrder(R, S), NEW x \in S, NEW y \in S, <<x, y>> \in R
    PROVE  Cardinality(Below(R, S, x)) < Cardinality(Below(R, S, y))
  <1> DEFINE A == Below(R, S, x)
             B == Below(R, S, y)
  <1>1. A \in SUBSET B
    BY DEF Below, IsOrder
  <1>2. x \in B /\ x \notin A
    BY DEF Below, IsOrder
  <1>3. IsFiniteSet(A) /\ IsFiniteSet(B)
    BY BelowIsFinite
  <1> HIDE DEF A, B
  <1>4. Cardinality(A) <= Cardinality(B) /\ Cardinality(A) # Cardinality(B)
    BY <1>1, <1>2, <1>3, FS_Subset
  <1>5. Cardinality(A) \in Nat /\ Cardinality(B) \in Nat
    BY <1>3, FS_CardinalityType
  <1>6. Cardinality(A) < Cardinality(B)
    BY <1>4, <1>5
  <1> QED BY <1>6 DEF A, B

\* No two members have the same number below them.
LEMMA BelowTellsApart ==
    ASSUME NEW S, IsFiniteSet(S), NEW R, IsOrder(R, S), NEW x \in S, NEW y \in S,
           Cardinality(Below(R, S, x)) = Cardinality(Below(R, S, y))
    PROVE  x = y
  <1> DEFINE m == Cardinality(Below(R, S, x))
             n == Cardinality(Below(R, S, y))
  <1>1. m \in Nat /\ n \in Nat /\ m = n
    BY BelowIsFinite
  <1>2. <<x, y>> \in R => m < n
    BY BelowRises
  <1>3. <<y, x>> \in R => n < m
    BY BelowRises
  <1> HIDE DEF m, n
  <1>4. <<x, y>> \notin R /\ <<y, x>> \notin R
    BY <1>1, <1>2, <1>3
  <1> QED BY <1>4 DEF IsOrder

\* For every number there is one.
LEMMA BelowReaches ==
    ASSUME NEW S, IsFiniteSet(S), NEW R, IsOrder(R, S), NEW n \in 0..(Cardinality(S) - 1)
    PROVE  \E x \in S : Cardinality(Below(R, S, x)) = n
  <1> DEFINE N == Cardinality(S)
             T == 0..(N - 1)
             f == [x \in S |-> Cardinality(Below(R, S, x))]
  <1>1. N \in Nat
    BY FS_CardinalityType
  <1>2. f \in [S -> T]
    BY BelowIsFinite
  <1>3. \A x, y \in S : f[x] = f[y] => x = y
    BY BelowTellsApart
  <1>4. f \in Injection(S, T)
    <2> HIDE DEF f, T
    <2> QED BY <1>2, <1>3 DEF Injection, IsInjective
  <1>5. IsFiniteSet(T) /\ Cardinality(T) = N
    <2>1. 0 \in Int /\ N - 1 \in Int
      BY <1>1
    <2>2. IsFiniteSet(T) /\ Cardinality(T) = IF 0 > N - 1 THEN 0 ELSE (N - 1) - 0 + 1
      BY <2>1, FS_Interval
    <2> HIDE DEF N
    <2> QED BY <1>1, <2>2
  <1>6. f \in Surjection(S, T)
    <2> HIDE DEF f, T
    <2> QED BY <1>4, <1>5, FS_Injection
  <1>7. PICK x \in S : f[x] = n
    <2> HIDE DEF f
    <2> QED BY <1>6 DEF Surjection
  <1> QED BY <1>7

\* What Listed is.
LEMMA ListedIs ==
    ASSUME NEW S, IsFiniteSet(S), NEW R, IsOrder(R, S)
    PROVE  /\ Cardinality(S) \in Nat
           /\ Listed(R, S) \in [1..Cardinality(S) -> S]
           /\ \A n \in 1..Cardinality(S) : Cardinality(Below(R, S, Listed(R, S)[n])) = n - 1
           /\ \A x \in S : \E n \in 1..Cardinality(S) : Listed(R, S)[n] = x
           /\ \A m, n \in 1..Cardinality(S) : m < n => <<Listed(R, S)[m], Listed(R, S)[n]>> \in R
  <1> DEFINE N == Cardinality(S)
             f == Listed(R, S)
             C(x) == Cardinality(Below(R, S, x))
  <1>1. N \in Nat
    BY FS_CardinalityType
  <1>2. ASSUME NEW n \in 1..N PROVE f[n] \in S /\ C(f[n]) = n - 1
    <2>1. f[n] = CHOOSE x \in S : Cardinality(Below(R, S, x)) = n - 1
      BY DEF Listed
    <2>2. n - 1 \in 0..(N - 1)
      <3> HIDE DEF N
      <3> QED BY <1>1
    <2>3. \E x \in S : Cardinality(Below(R, S, x)) = n - 1
      BY <2>2, BelowReaches
    <2> HIDE DEF f
    <2> QED BY <2>1, <2>3
  <1>3. f \in [1..N -> S]
    <2>1. f = [n \in 1..N |-> f[n]]
      BY DEF Listed
    <2> HIDE DEF f, N
    <2> QED BY <1>2, <2>1
  <1>4. ASSUME NEW x \in S PROVE \E n \in 1..N : f[n] = x
    <2>1. C(x) \in 0..(N - 1)
      BY BelowIsFinite
    <2> DEFINE n == C(x) + 1
    <2>2. n \in 1..N /\ n - 1 = C(x)
      <3> HIDE DEF C, N
      <3> QED BY <1>1, <2>1
    <2>3. f[n] \in S /\ C(f[n]) = C(x)
      <3> HIDE DEF n, f, N, C
      <3> QED BY <1>2, <2>2
    <2>4. f[n] = x
      <3> HIDE DEF n, f
      <3> QED BY <2>3, BelowTellsApart
    <2> QED BY <2>2, <2>4
  <1>5. ASSUME NEW m \in 1..N, NEW n \in 1..N, m < n PROVE <<f[m], f[n]>> \in R
    <2> DEFINE a == f[m]
               b == f[n]
    <2>1. a \in S /\ b \in S /\ C(a) = m - 1 /\ C(b) = n - 1
      BY <1>2
    <2>2. m \in Int /\ n \in Int
      <3> HIDE DEF N
      <3> QED BY <1>1
    <2> HIDE DEF a, b, f
    <2>3. C(a) < C(b)
      <3> HIDE DEF C
      <3> QED BY <1>5, <2>1, <2>2
    <2>4. a # b
      BY <2>3, <2>1, <2>2
    <2>5. ASSUME <<b, a>> \in R PROVE FALSE
      <3>1. C(b) < C(a)
        BY <2>1, <2>5, BelowRises
      <3>2. C(a) \in Int /\ C(b) \in Int
        <4> HIDE DEF C
        <4> QED BY <2>1, <2>2
      <3> HIDE DEF C
      <3> QED BY <2>3, <3>1, <3>2
    <2>6. <<a, b>> \in R
      BY <2>1, <2>4, <2>5 DEF IsOrder
    <2> QED BY <2>6 DEF a, b
  <1> QED BY <1>1, <1>2, <1>3, <1>4, <1>5

\* Who lists the members in their order has this list.
IsListing(g, N, R, S) ==
    /\ g \in [1..N -> S]
    /\ \A x \in S : \E n \in 1..N : g[n] = x
    /\ \A m, n \in 1..N : m < n => <<g[m], g[n]>> \in R

LEMMA OnlyListing ==
    ASSUME NEW S, IsFiniteSet(S), NEW R, IsOrder(R, S), NEW N \in Nat, NEW g, IsListing(g, N, R, S)
    PROVE  N = Cardinality(S) /\ g = Listed(R, S)
  <1> USE DEF IsListing
  <1>1. \A m, n \in 1..N : g[m] = g[n] => m = n
    <2> SUFFICES ASSUME NEW m \in 1..N, NEW n \in 1..N, m # n PROVE g[m] # g[n]
      OBVIOUS
    <2>1. m < n \/ n < m
      OBVIOUS
    <2> QED BY <2>1 DEF IsOrder
  <1>2. N = Cardinality(S)
    <2>1. g \in Bijection(1..N, S)
      BY <1>1 DEF Bijection, Injection, Surjection, IsInjective
    <2>2. ExistsBijection(1..N, S)
      BY <2>1 DEF ExistsBijection
    <2> QED BY <2>2, FS_CountingElements
  <1>3. ASSUME NEW n \in 1..N PROVE Cardinality(Below(R, S, g[n])) = n - 1
    <2> DEFINE B == Below(R, S, g[n])
               h == [k \in 1..(n - 1) |-> g[k]]
    <2>1. ASSUME NEW k \in 1..(n - 1) PROVE h[k] \in B
      <3>1. k \in 1..N /\ k < n
        OBVIOUS
      <3> QED BY <3>1 DEF Below
    <2>2. ASSUME NEW y \in B PROVE \E k \in 1..(n - 1) : h[k] = y
      <3>1. y \in S /\ <<y, g[n]>> \in R /\ g[n] \in S
        BY DEF Below
      <3>2. PICK k \in 1..N : g[k] = y
        BY <3>1
      <3>3. k # n
        BY <3>1, <3>2 DEF IsOrder
      <3>4. ~(n < k)
        <4>1. SUFFICES ASSUME n < k PROVE FALSE
          OBVIOUS
        <4>2. <<g[n], y>> \in R
          BY <3>2, <4>1
        <4> QED BY <3>1, <4>2 DEF IsOrder
      <3>5. k \in 1..(n - 1)
        BY <3>3, <3>4
      <3> QED BY <3>2, <3>5
    <2>3. \A j, k \in 1..(n - 1) : h[j] = h[k] => j = k
      BY <1>1
    <2> HIDE DEF B
    <2>4. h \in Bijection(1..(n - 1), B)
      <3>1. h \in [1..(n - 1) -> B]
        BY <2>1
      <3> HIDE DEF h
      <3> QED BY <2>2, <2>3, <3>1 DEF Bijection, Injection, Surjection, IsInjective
    <2>5. ExistsBijection(1..(n - 1), B) /\ n - 1 \in Nat
      BY <2>4 DEF ExistsBijection
    <2>6. Cardinality(B) = n - 1
      BY <2>5, FS_CountingElements
    <2> QED BY <2>6 DEF B
  <1>4. ASSUME NEW n \in 1..N PROVE g[n] = Listed(R, S)[n]
    <2>1. Listed(R, S)[n] \in S /\ Cardinality(Below(R, S, Listed(R, S)[n])) = n - 1
      BY <1>2, ListedIs
    <2> QED BY <1>3, <2>1, BelowTellsApart
  <1>5. Listed(R, S) = [n \in 1..N |-> Listed(R, S)[n]]
    BY <1>2 DEF Listed
  <1> QED BY <1>2, <1>4, <1>5

\* The first L of A.
FirstOf(R, A, L) == {Listed(R, A)[n] : n \in 1..Least(Cardinality(A), L)}

\* To find the first L of A and B together, the first L of A are enough.
SameFirst(R, U, T, L) ==
    /\ Cardinality(T) \in Nat /\ Cardinality(U) \in Nat
    /\ Least(Cardinality(U), L) = Least(Cardinality(T), L)
    /\ \A n \in 1..Least(Cardinality(T), L) : Listed(R, U)[n] = Listed(R, T)[n]

LEMMA TopOfTop ==
    ASSUME NEW A, NEW B, IsFiniteSet(A), IsFiniteSet(B), NEW R, IsOrder(R, A \cup B), NEW L \in Nat
    PROVE  FirstOf(R, A, L) \subseteq A /\ SameFirst(R, FirstOf(R, A, L) \cup B, A \cup B, L)
  <1> DEFINE K == FirstOf(R, A, L)
             T == A \cup B
             U == K \cup B
             f == Listed(R, A)
             N == Cardinality(A)
  <1>1. IsFiniteSet(T) /\ IsOrder(R, T)
    BY FS_Union
  <1>2. IsOrder(R, A)
    BY DEF IsOrder
  <1>3. /\ N \in Nat /\ f \in [1..N -> A]
        /\ \A x \in A : \E n \in 1..N : f[n] = x
        /\ \A m, n \in 1..N : m < n => <<f[m], f[n]>> \in R
    BY <1>2, ListedIs
  <1>4. K = {f[n] : n \in 1..Least(N, L)} /\ Least(N, L) <= N /\ Least(N, L) <= L /\ Least(N, L) \in Nat
    <2>1. K = {f[n] : n \in 1..Least(N, L)}
      BY DEF FirstOf
    <2> HIDE DEF K, N, f
    <2> QED BY <1>3, <2>1 DEF Least
  <1> HIDE DEF K, N, f
  <1>5. K \subseteq A
    BY <1>3, <1>4
  <1>6. U \subseteq T
    BY <1>5
  <1>7. IsFiniteSet(U) /\ Cardinality(U) <= Cardinality(T) /\ IsOrder(R, U)
    <2>1. IsFiniteSet(U) /\ Cardinality(U) <= Cardinality(T)
      <3> HIDE DEF U, T
      <3> QED BY <1>1, <1>6, FS_Subset
    <2>2. IsOrder(R, U)
      BY <1>1, <1>6 DEF IsOrder
    <2> QED BY <2>1, <2>2
  <1>8. Cardinality(T) \in Nat /\ Cardinality(U) \in Nat
    <2> HIDE DEF U, T
    <2> QED BY <1>1, <1>7, FS_CardinalityType
  <1>9. CASE N <= L
    <2>1. K = A
      <3>1. Least(N, L) = N
        BY <1>3, <1>9 DEF Least
      <3> QED BY <1>3, <1>4, <3>1
    <2> QED BY <1>5, <1>8, <2>1 DEF K, SameFirst
  <1>10. CASE ~(N <= L)
    <2>1. Least(N, L) = L /\ L < N
      BY <1>3, <1>10 DEF Least
    <2>2. IsFiniteSet(K) /\ Cardinality(K) = L
      <3> DEFINE h == [n \in 1..L |-> f[n]]
      <3>1. h \in [1..L -> K] /\ \A x \in K : \E n \in 1..L : h[n] = x
        BY <1>4, <2>1
      <3>2. \A m, n \in 1..L : h[m] = h[n] => m = n
        <4> SUFFICES ASSUME NEW m \in 1..L, NEW n \in 1..L, m # n PROVE f[m] # f[n]
          OBVIOUS
        <4>1. m < n \/ n < m
          OBVIOUS
        <4>2. m \in 1..N /\ n \in 1..N
          BY <1>3, <2>1
        <4>3. f[m] \in A /\ f[n] \in A /\ (<<f[m], f[n]>> \in R \/ <<f[n], f[m]>> \in R)
          BY <1>3, <4>1, <4>2
        <4> QED BY <1>2, <4>3 DEF IsOrder
      <3> HIDE DEF h
      <3>3. h \in Bijection(1..L, K)
        BY <3>1, <3>2 DEF Bijection, Injection, Surjection, IsInjective
      <3>4. ExistsBijection(1..L, K)
        BY <3>3 DEF ExistsBijection
      <3> QED BY <1>4, <1>5, <3>4, FS_CountingElements, FS_Subset
    <2>3. L <= Cardinality(U)
      <3>1. K \in SUBSET U
        OBVIOUS
      <3> HIDE DEF U
      <3> QED BY <1>7, <2>2, <3>1, FS_Subset
    <2>4. Least(Cardinality(U), L) = L /\ Least(Cardinality(T), L) = L
      <3> HIDE DEF U, T
      <3> QED BY <1>7, <1>8, <2>3 DEF Least
    <2>5. ASSUME NEW a \in A \ K, NEW k \in K PROVE <<k, a>> \in R
      <3>1. PICK m \in 1..N : f[m] = a
        BY <1>3
      <3>2. PICK n \in 1..L : f[n] = k
        BY <1>4, <2>1
      <3>3. ~(m \in 1..L)
        BY <1>4, <2>1, <2>5, <3>1
      <3>4. n \in 1..N /\ n < m
        BY <1>3, <2>1, <3>3
      <3> QED BY <1>3, <3>1, <3>2, <3>4
    <2>6. ASSUME NEW n \in 1..L PROVE Listed(R, U)[n] = Listed(R, T)[n]
      <3> DEFINE x == Listed(R, U)[n]
                 y == Listed(R, T)[n]
      <3>0. n \in 1..Cardinality(U) /\ n \in 1..Cardinality(T) /\ n - 1 < L
        <4> HIDE DEF U, T
        <4> QED BY <1>7, <1>8, <2>3
      <3>1. x \in U /\ Cardinality(Below(R, U, x)) = n - 1
        <4> HIDE DEF U, T
        <4> QED BY <1>7, <3>0, ListedIs
      <3>2. y \in T /\ Cardinality(Below(R, T, y)) = n - 1
        <4> HIDE DEF U, T
        <4> QED BY <1>1, <3>0, ListedIs
      <3> HIDE DEF x, y
      <3>3. ASSUME NEW a \in A \ K, <<a, x>> \in R PROVE FALSE
        <4>1. K \in SUBSET Below(R, U, x)
          <5> SUFFICES ASSUME NEW k \in K PROVE k \in U /\ <<k, x>> \in R
            BY DEF Below
          <5>1. <<k, a>> \in R
            BY <2>5
          <5>2. k \in T /\ a \in T /\ x \in T
            BY <1>5, <1>6, <3>1
          <5> QED BY <1>1, <3>3, <5>1, <5>2 DEF IsOrder
        <4>2. IsFiniteSet(Below(R, U, x))
          <5> HIDE DEF U
          <5> QED BY <1>7, <3>1, BelowIsFinite
        <4>3. L <= n - 1
          BY <2>2, <3>1, <4>1, <4>2, FS_Subset
        <4> QED BY <3>0, <4>3
      <3>4. Below(R, T, x) = Below(R, U, x)
        BY <1>6, <3>3 DEF Below
      <3>5. x \in T /\ Cardinality(Below(R, T, x)) = Cardinality(Below(R, T, y))
        BY <1>6, <3>1, <3>2, <3>4
      <3>6. x = y
        <4> HIDE DEF T
        <4> QED BY <1>1, <3>2, <3>5, BelowTellsApart
      <3> QED BY <3>6 DEF x, y
    <2> QED BY <1>5, <1>8, <2>4, <2>6 DEF K, SameFirst
  <1> QED BY <1>9, <1>10

-----------------------------------------------------------------------------
(* Sorting by several parameters.                                          *)

\* The rows have integers where the parameters look.
Fits(ps, S) ==
    /\ ps \in Seq([col : Nat, rev : BOOLEAN])
    /\ \A a \in S, m \in 1..Len(ps) : a.key[ps[m].col] \in Int

\* a comes before b by the last k parameters or, if none of these tells them apart, by
\* their weights.
Comes(ps, w, k, a, b) ==
    LET differ == {m \in (Len(ps) + 1 - k)..Len(ps) : a.key[ps[m].col] # b.key[ps[m].col]}
    IN  IF differ = {} THEN w[a] < w[b]
        ELSE Before(ps[CHOOSE m \in differ : \A n \in differ : m <= n], a, b)

By(ps, w, k, S) == {p \in S \X S : Comes(ps, w, k, p[1], p[2])}

LEMMA InBy ==
    ASSUME NEW ps, NEW w, NEW k, NEW S, NEW a \in S, NEW b \in S
    PROVE  <<a, b>> \in By(ps, w, k, S) <=> Comes(ps, w, k, a, b)
  BY DEF By

\* One parameter.
LEMMA BeforeIs ==
    ASSUME NEW ps, NEW S, Fits(ps, S), NEW m \in 1..Len(ps), NEW a \in S, NEW b \in S
    PROVE  LET x == a.key[ps[m].col]
               y == b.key[ps[m].col]
           IN  /\ x \in Int /\ y \in Int
               /\ Before(ps[m], a, b) <=> IF ps[m].rev THEN y < x ELSE x < y
               /\ Before(ps[m], b, a) <=> IF ps[m].rev THEN x < y ELSE y < x
  BY DEF Fits, Before

\* The first of the last k parameters, and then the others.
LEMMA ComesStep ==
    ASSUME NEW ps, NEW S, Fits(ps, S), NEW w, NEW k \in 1..Len(ps), NEW a \in S, NEW b \in S
    PROVE  Comes(ps, w, k, a, b) <=>
             LET p == ps[Len(ps) + 1 - k]
             IN  Before(p, a, b) \/ (~Before(p, b, a) /\ Comes(ps, w, k - 1, a, b))
  <1> DEFINE N == Len(ps)
             f == N + 1 - k
             x(m) == a.key[ps[m].col]
             y(m) == b.key[ps[m].col]
             D1 == {m \in (N + 1 - k)..N : x(m) # y(m)}
             D0 == {m \in (N + 1 - (k - 1))..N : x(m) # y(m)}
             least(D) == CHOOSE m \in D : \A n \in D : m <= n
  <1>1. N \in Nat /\ k \in 1..N
    BY DEF Fits
  <1>2. f \in 1..N /\ f \in (N + 1 - k)..N /\ f \notin (N + 1 - (k - 1))..N
    <2> HIDE DEF N
    <2> QED BY <1>1
  <1>3. /\ x(f) \in Int /\ y(f) \in Int
        /\ Before(ps[f], a, b) <=> IF ps[f].rev THEN y(f) < x(f) ELSE x(f) < y(f)
        /\ Before(ps[f], b, a) <=> IF ps[f].rev THEN x(f) < y(f) ELSE y(f) < x(f)
    <2> HIDE DEF f
    <2> QED BY <1>2, BeforeIs
  <1>4. /\ Comes(ps, w, k, a, b) <=> IF D1 = {} THEN w[a] < w[b] ELSE Before(ps[least(D1)], a, b)
        /\ Comes(ps, w, k - 1, a, b) <=> IF D0 = {} THEN w[a] < w[b] ELSE Before(ps[least(D0)], a, b)
    BY DEF Comes
  <1>5. \A m : m \in (N + 1 - k)..N <=> m = f \/ m \in (N + 1 - (k - 1))..N
    <2> HIDE DEF N
    <2> QED BY <1>1
  <1>6. \A m \in (N + 1 - k)..N : f <= m
    <2> HIDE DEF N
    <2> QED BY <1>1
  <1>7. CASE x(f) = y(f)
    <2>1. D1 = D0
      <3> HIDE DEF f, x, y
      <3> QED BY <1>5, <1>7
    <2>2. ~Before(ps[f], a, b) /\ ~Before(ps[f], b, a)
      <3> HIDE DEF f, x, y
      <3> QED BY <1>3, <1>7
    <2> QED BY <1>4, <2>1, <2>2
  <1>8. CASE x(f) # y(f)
    <2>1. f \in D1 /\ \A n \in D1 : f <= n
      <3> HIDE DEF f
      <3> QED BY <1>2, <1>6, <1>8
    <2>2. D1 \subseteq Int
      <3> HIDE DEF x, y, N
      <3> QED BY <1>1
    <2>3. least(D1) = f
      <3> DEFINE c == least(D1)
      <3> HIDE DEF D1, f
      <3>1. c \in D1 /\ \A n \in D1 : c <= n
        BY <2>1, Zenon
      <3>2. c \in Int /\ f \in Int /\ c <= f /\ f <= c
        BY <2>1, <2>2, <3>1
      <3> HIDE DEF c
      <3>3. c = f
        BY <3>2
      <3> QED BY <3>3 DEF c
    <2>4. Before(ps[f], b, a) <=> ~Before(ps[f], a, b)
      <3> HIDE DEF f, x, y
      <3> QED BY <1>3, <1>8
    <2>5. D1 # {}
      BY <2>1
    <2> HIDE DEF D1, D0, least, f
    <2> QED BY <1>4, <2>3, <2>4, <2>5 DEF f, N
  <1> QED BY <1>7, <1>8

LEMMA ComesLast ==
    ASSUME NEW ps, NEW S, Fits(ps, S), NEW w, NEW a \in S, NEW b \in S
    PROVE  Comes(ps, w, 0, a, b) <=> w[a] < w[b]
  <1>1. Len(ps) \in Nat
    BY DEF Fits
  <1>2. (Len(ps) + 1 - 0)..Len(ps) = {}
    BY <1>1
  <1> QED BY <1>2 DEF Comes

\* The parameters put the rows in an order if the weights do.
LEMMA ByIsOrder ==
    ASSUME NEW ps, NEW S, Fits(ps, S), NEW w \in [S -> Int], \A a, b \in S : w[a] = w[b] => a = b,
           NEW n \in 0..Len(ps)
    PROVE  IsOrder(By(ps, w, n, S), S)
  <1> DEFINE Bad == {k \in 0..Len(ps) : ~IsOrder(By(ps, w, k, S), S)}
  <1>1. SUFFICES ASSUME Bad # {} PROVE FALSE
    OBVIOUS
  <1>2. PICK k \in Bad : \A j \in Bad : k <= j
    <2>1. Bad \subseteq Nat
      OBVIOUS
    <2> HIDE DEF Bad
    <2> QED BY <1>1, <2>1, LeastNat
  <1>3. Len(ps) \in Nat
    BY DEF Fits
  <1>4. k \in 0..Len(ps) /\ ~IsOrder(By(ps, w, k, S), S)
    BY <1>2
  <1>5. CASE k = 0
    <2>1. \A a, b \in S : <<a, b>> \in By(ps, w, 0, S) <=> w[a] < w[b]
      BY InBy, ComesLast
    <2>2. \A a \in S : w[a] \in Int
      OBVIOUS
    <2>3. IsOrder(By(ps, w, 0, S), S)
      BY <2>1, <2>2 DEF IsOrder
    <2> QED BY <1>4, <1>5, <2>3
  <1>6. CASE k # 0
    <2> DEFINE m == Len(ps) + 1 - k
               p == ps[m]
               R1 == By(ps, w, k, S)
               R0 == By(ps, w, k - 1, S)
               x(a) == a.key[p.col]
    <2>1. k \in 1..Len(ps) /\ k - 1 \in 0..Len(ps) /\ ~(k <= k - 1) /\ m \in 1..Len(ps)
      BY <1>3, <1>4, <1>6
    <2>2. IsOrder(R0, S)
      BY <1>2, <2>1
    <2>3. \A a, b \in S : <<a, b>> \in R1 <=> Before(p, a, b) \/ (~Before(p, b, a) /\ <<a, b>> \in R0)
      BY <2>1, InBy, ComesStep
    <2>4. \A a, b \in S : /\ x(a) \in Int /\ x(b) \in Int
                          /\ Before(p, a, b) <=> IF p.rev THEN x(b) < x(a) ELSE x(a) < x(b)
      <3> HIDE DEF m
      <3> QED BY <2>1, BeforeIs
    <2> HIDE DEF R1, R0, p, x
    <2>5. ASSUME NEW a \in S PROVE <<a, a>> \notin R1
      <3>1. <<a, a>> \notin R0
        BY <2>2 DEF IsOrder
      <3>2. ~Before(p, a, a)
        BY <2>4
      <3> QED BY <2>3, <3>1, <3>2
    <2>6. \A a, b \in S : a = b \/ <<a, b>> \in R1 \/ <<b, a>> \in R1
      BY <2>2, <2>3, <2>4 DEF IsOrder
    <2>7. ASSUME NEW a \in S, NEW b \in S, NEW c \in S, <<a, b>> \in R1, <<b, c>> \in R1
          PROVE  <<a, c>> \in R1
      <3>1. <<a, b>> \in R0 /\ <<b, c>> \in R0 => <<a, c>> \in R0
        BY <2>2 DEF IsOrder
      <3>2. Before(p, a, b) \/ (~Before(p, b, a) /\ <<a, b>> \in R0)
        BY <2>3, <2>7
      <3>3. Before(p, b, c) \/ (~Before(p, c, b) /\ <<b, c>> \in R0)
        BY <2>3, <2>7
      <3>4. Before(p, a, c) \/ (~Before(p, c, a) /\ <<a, c>> \in R0)
        BY <2>4, <3>1, <3>2, <3>3
      <3> QED BY <2>3, <3>4
    <2>8. IsOrder(R1, S)
      BY <2>5, <2>6, <2>7 DEF IsOrder
    <2> QED BY <1>4, <2>8 DEF R1
  <1> QED BY <1>5, <1>6

\* One more parameter: what was sorted by the last k - 1 is sorted by the last k.
LEMMA SortByIs ==
    ASSUME NEW ps, NEW S, Fits(ps, S), NEW w \in [S -> Int], \A a, b \in S : w[a] = w[b] => a = b,
           NEW k \in 1..Len(ps), NEW s \in Seq(S),
           \A m, n \in 1..Len(s) : m < n => <<s[m], s[n]>> \in By(ps, w, k - 1, S)
    PROVE  LET t == SortBy(ps[Len(ps) + 1 - k], s)
           IN  /\ t \in Seq(S) /\ Len(t) = Len(s) /\ ToSet(t) = ToSet(s)
               /\ \A m, n \in 1..Len(t) : m < n => <<t[m], t[n]>> \in By(ps, w, k, S)
  <1> DEFINE N == Len(s)
             D == 1..N
             p == ps[Len(ps) + 1 - k]
             R1 == By(ps, w, k, S)
             R0 == By(ps, w, k - 1, S)
             RI == {c \in D \X D : <<s[c[1]], s[c[2]]>> \in R1}
             f == Listed(RI, D)
             t == SortBy(p, s)
  <1>1. N \in Nat /\ \A m \in D : s[m] \in S
    OBVIOUS
  <1>2. k - 1 \in 0..Len(ps) /\ k \in 0..Len(ps)
    BY DEF Fits
  <1>3. IsOrder(R1, S) /\ IsOrder(R0, S)
    BY <1>2, ByIsOrder
  <1>4. \A a, b \in S : <<a, b>> \in R1 <=> Before(p, a, b) \/ (~Before(p, b, a) /\ <<a, b>> \in R0)
    BY InBy, ComesStep
  <1>5. \A m, n \in D : m < n => <<s[m], s[n]>> \in R0
    OBVIOUS
  <1> HIDE DEF R1, R0, p, N
  <1>6. \A m, n \in D : m < n <=> <<s[m], s[n]>> \in R0
    <2> SUFFICES ASSUME NEW m \in D, NEW n \in D, <<s[m], s[n]>> \in R0 PROVE m < n
      BY <1>5
    <2>1. m # n
      BY <1>1, <1>3 DEF IsOrder
    <2>2. ~(n < m)
      BY <1>1, <1>3, <1>5 DEF IsOrder
    <2> QED BY <1>1, <2>1, <2>2
  <1>7. \A m, n \in D : <<m, n>> \in RI <=> <<s[m], s[n]>> \in R1
    OBVIOUS
  <1> HIDE DEF RI
  <1>8. IsOrder(RI, D)
    <2>1. \A m \in D : <<m, m>> \notin RI
      BY <1>1, <1>3, <1>7 DEF IsOrder
    <2>2. ASSUME NEW l \in D, NEW m \in D, NEW n \in D, <<l, m>> \in RI, <<m, n>> \in RI
          PROVE  <<l, n>> \in RI
      BY <1>1, <1>3, <1>7, <2>2 DEF IsOrder
    <2>3. ASSUME NEW m \in D, NEW n \in D, m # n PROVE <<m, n>> \in RI \/ <<n, m>> \in RI
      <3>1. m < n \/ n < m
        BY <1>1, <2>3
      <3>2. s[m] # s[n] /\ s[m] \in S /\ s[n] \in S
        BY <1>1, <1>3, <1>5, <3>1 DEF IsOrder
      <3>3. <<s[m], s[n]>> \in R1 \/ <<s[n], s[m]>> \in R1
        BY <1>3, <3>2 DEF IsOrder
      <3> QED BY <1>7, <3>3
    <2> QED BY <2>1, <2>2, <2>3 DEF IsOrder
  <1>9. IsFiniteSet(D) /\ Cardinality(D) = N
    <2>1. IsFiniteSet(D) /\ Cardinality(D) = IF 1 > N THEN 0 ELSE N - 1 + 1
      BY <1>1, FS_Interval
    <2> QED BY <1>1, <2>1
  <1>10. /\ f \in [1..N -> D]
         /\ \A x \in D : \E n \in 1..N : f[n] = x
         /\ \A m, n \in 1..N : m < n => <<f[m], f[n]>> \in RI
    <2> HIDE DEF D
    <2> QED BY <1>8, <1>9, ListedIs
  <1>11. t = [r \in D |-> s[f[r]]]
    <2>1. DOMAIN s = D
      BY DEF N
    <2>2. ASSUME NEW j \in D
          PROVE {m \in D : Before(p, s[m], s[j]) \/ (m < j /\ ~Before(p, s[j], s[m]))} = Below(RI, D, j)
      <3>1. \A m \in D : Before(p, s[m], s[j]) \/ (m < j /\ ~Before(p, s[j], s[m])) <=> <<m, j>> \in RI
        BY <1>1, <1>4, <1>6, <1>7
      <3> HIDE DEF D
      <3> QED BY <3>1 DEF Below
    <2>3. \A r : (CHOOSE j \in D : Cardinality({m \in D : Before(p, s[m], s[j]) \/ (m < j /\ ~Before(p, s[j], s[m]))}) = r - 1)
               = (CHOOSE j \in D : Cardinality(Below(RI, D, j)) = r - 1)
      <3> DEFINE M(j) == {m \in D : Before(p, s[m], s[j]) \/ (m < j /\ ~Before(p, s[j], s[m]))}
      <3>1. \A j \in D : M(j) = Below(RI, D, j)
        BY <2>2
      <3> HIDE DEF M, D
      <3>2. \A r : \A j : j \in D /\ Cardinality(M(j)) = r - 1 <=> j \in D /\ Cardinality(Below(RI, D, j)) = r - 1
        BY <3>1
      <3>3. \A r : (CHOOSE j \in D : Cardinality(M(j)) = r - 1) = (CHOOSE j \in D : Cardinality(Below(RI, D, j)) = r - 1)
        BY <3>2
      <3> QED BY <3>3 DEF M
    <2>4. \A r \in D : f[r] = CHOOSE j \in D : Cardinality(Below(RI, D, j)) = r - 1
      <3>1. 1..Cardinality(D) = D
        BY <1>9
      <3> DEFINE c(r) == CHOOSE j \in D : Cardinality(Below(RI, D, j)) = r - 1
      <3>2. f = [r \in 1..Cardinality(D) |-> c(r)]
        BY DEF Listed
      <3> HIDE DEF D, c, f
      <3>3. f = [r \in D |-> c(r)]
        BY <3>1, <3>2
      <3>4. \A r \in D : f[r] = c(r)
        BY <3>3
      <3> QED BY <3>4 DEF c
    <2>5. t = [r \in D |-> s[CHOOSE j \in D : Cardinality({m \in D : Before(p, s[m], s[j]) \/ (m < j /\ ~Before(p, s[j], s[m]))}) = r - 1]]
      BY <2>1 DEF SortBy
    <2> DEFINE c(r) == CHOOSE j \in D : Cardinality({m \in D : Before(p, s[m], s[j]) \/ (m < j /\ ~Before(p, s[j], s[m]))}) = r - 1
    <2> HIDE DEF D, f, t
    <2>6. \A r \in D : c(r) = f[r]
      BY <2>3, <2>4
    <2>7. t = [r \in D |-> s[c(r)]]
      BY <2>5
    <2> HIDE DEF c
    <2> QED BY <2>6, <2>7
  <1> HIDE DEF f, t
  <1>12. t \in Seq(S) /\ Len(t) = N /\ DOMAIN t = D
    <2>1. t \in [1..N -> S]
      BY <1>1, <1>10, <1>11
    <2> QED BY <1>1, <2>1
  <1>13. ToSet(t) = ToSet(s)
    <2>1. \A x : x \in ToSet(t) <=> \E r \in D : x = s[f[r]]
      BY <1>11, <1>12 DEF ToSet
    <2>2. \A x : x \in ToSet(s) <=> \E m \in D : x = s[m]
      <3>1. DOMAIN s = D
        BY DEF N
      <3> QED BY <3>1 DEF ToSet
    <2>3. \A r \in D : f[r] \in D
      BY <1>10
    <2>4. \A m \in D : \E r \in D : f[r] = m
      BY <1>10
    <2> HIDE DEF D
    <2>5. ASSUME NEW x \in ToSet(t) PROVE x \in ToSet(s)
      <3>1. PICK r \in D : x = s[f[r]]
        BY <2>1
      <3> QED BY <2>2, <2>3, <3>1
    <2>6. ASSUME NEW x \in ToSet(s) PROVE x \in ToSet(t)
      <3>1. PICK m \in D : x = s[m]
        BY <2>2
      <3>2. PICK r \in D : f[r] = m
        BY <2>4
      <3> QED BY <2>1, <3>1, <3>2
    <2> QED BY <2>5, <2>6
  <1>14. ASSUME NEW m \in 1..N, NEW n \in 1..N, m < n PROVE <<t[m], t[n]>> \in R1
    BY <1>7, <1>10, <1>11, <1>14
  <1> QED BY <1>12, <1>13, <1>14 DEF t, p, N, R1

\* The recursion of SortByAll.
IsSorting(f, ps, s, n) ==
    f = [k \in 0..n |-> IF k = 0 THEN s ELSE SortBy(ps[Len(ps) + 1 - k], f[k - 1])]

LEMMA SortingExists ==
    ASSUME NEW ps, NEW s, NEW n \in Nat
    PROVE  \E f : IsSorting(f, ps, s, n)
  <1> DEFINE Bad == {m \in Nat : ~\E f : IsSorting(f, ps, s, m)}
  <1>1. SUFFICES ASSUME Bad # {} PROVE FALSE
    OBVIOUS
  <1>2. PICK m \in Bad : \A k \in Bad : m <= k
    <2>1. Bad \subseteq Nat
      OBVIOUS
    <2> HIDE DEF Bad
    <2> QED BY <1>1, <2>1, LeastNat
  <1>3. m # 0
    <2> DEFINE f == [k \in 0..0 |-> s]
    <2>1. IsSorting(f, ps, s, 0)
      BY DEF IsSorting
    <2> QED BY <1>2, <2>1
  <1>4. m \in Nat /\ m - 1 \in Nat /\ ~(m <= m - 1)
    BY <1>2, <1>3
  <1>5. PICK f : IsSorting(f, ps, s, m - 1)
    BY <1>2, <1>4
  <1> DEFINE Step(k, x) == SortBy(ps[Len(ps) + 1 - k], x)
             g == [k \in 0..m |-> IF k = m THEN Step(m, f[m - 1]) ELSE f[k]]
  <1>6. ASSUME NEW k \in 0..m PROVE g[k] = IF k = 0 THEN s ELSE Step(k, g[k - 1])
    <2>1. \A j \in 0..(m - 1) : f[j] = IF j = 0 THEN s ELSE Step(j, f[j - 1])
      BY <1>5 DEF IsSorting
    <2> HIDE DEF Step
    <2>2. CASE k = 0
      BY <1>3, <1>4, <2>1, <2>2
    <2>3. CASE k # 0 /\ k # m
      <3>1. k \in 0..(m - 1) /\ k - 1 \in 0..m /\ k - 1 # m
        BY <1>4, <2>3
      <3>2. g[k] = f[k] /\ g[k - 1] = f[k - 1]
        BY <2>3, <3>1
      <3> QED BY <2>1, <2>3, <3>1, <3>2
    <2>4. CASE k = m
      <3>1. k - 1 \in 0..m /\ k - 1 # m
        BY <1>3, <1>4, <2>4
      <3> QED BY <1>3, <2>4, <3>1
    <2> QED BY <2>2, <2>3, <2>4
  <1>7. g = [k \in 0..m |-> g[k]]
    OBVIOUS
  <1> HIDE DEF g
  <1>8. g = [k \in 0..m |-> IF k = 0 THEN s ELSE Step(k, g[k - 1])]
    <2> HIDE DEF Step
    <2> QED BY <1>6, <1>7
  <1>9. IsSorting(g, ps, s, m)
    BY <1>8 DEF IsSorting
  <1> QED BY <1>2, <1>9

\* The last k parameters have been sorted by.
ByLast(ps, s) == CHOOSE f : IsSorting(f, ps, s, Len(ps))

LEMMA SortByAllDef ==
    ASSUME NEW ps, Len(ps) \in Nat, NEW s
    PROVE  /\ SortByAll(ps, s) = ByLast(ps, s)[Len(ps)]
           /\ ByLast(ps, s)[0] = s
           /\ \A k \in 1..Len(ps) : ByLast(ps, s)[k] = SortBy(ps[Len(ps) + 1 - k], ByLast(ps, s)[k - 1])
  <1> DEFINE f == ByLast(ps, s)
             n == Len(ps)
  <1>1. IsSorting(f, ps, s, n)
    BY SortingExists DEF ByLast
  <1>2. SortByAll(ps, s) = f[n]
    BY DEF SortByAll, ByLast, IsSorting
  <1> HIDE DEF f
  <1> DEFINE Step(k, x) == SortBy(ps[Len(ps) + 1 - k], x)
  <1>3. f = [k \in 0..n |-> IF k = 0 THEN s ELSE Step(k, f[k - 1])]
    BY <1>1 DEF IsSorting
  <1> HIDE DEF Step, n
  <1>4. f[0] = s /\ \A k \in 1..n : f[k] = Step(k, f[k - 1])
    <2>1. n \in Nat
      BY DEF n
    <2>2. \A k \in 0..n : f[k] = IF k = 0 THEN s ELSE Step(k, f[k - 1])
      BY <1>3
    <2>3. 0 \in 0..n /\ \A k \in 1..n : k \in 0..n /\ k # 0
      BY <2>1
    <2> QED BY <2>2, <2>3
  <1> QED BY <1>2, <1>4 DEF f, Step, n

\* Sorting by all parameters, stably and the last one first, lists the rows by the
\* first parameter that tells two of them apart, and then by what grew along s.
Ties(ps, id, s) ==
    \A m, n \in 1..Len(s) : m < n =>
        \/ id[s[m]] < id[s[n]]
        \/ \E q \in 1..Len(ps) : s[m].key[ps[q].col] # s[n].key[ps[q].col]

LEMMA SortByAllIs ==
    ASSUME NEW ps, NEW S, Fits(ps, S), NEW s \in Seq(S), ToSet(s) = S,
           \A m, n \in 1..Len(s) : m # n => s[m] # s[n],
           NEW id \in [S -> Int], \A a, b \in S : id[a] = id[b] => a = b,
           Ties(ps, id, s)
    PROVE  IsFiniteSet(S) /\ SortByAll(ps, s) = Listed(By(ps, id, Len(ps), S), S)
  <1> DEFINE D == 1..Len(s)
             N == Len(ps)
             w == [a \in S |-> CHOOSE m \in D : s[m] = a]
             f == ByLast(ps, s)
             Good(t, k) == /\ t \in Seq(S) /\ Len(t) = Len(s) /\ ToSet(t) = S
                           /\ \A m, n \in D : m < n => <<t[m], t[n]>> \in By(ps, w, k, S)
             Bad == {k \in 0..N : ~Good(f[k], k)}
  <1>1. N \in Nat /\ Len(s) \in Nat /\ DOMAIN s = D /\ \A m \in D : s[m] \in S
    BY DEF Fits
  <1>2. \A a \in S : \E m \in D : s[m] = a
    BY <1>1 DEF ToSet
  <1>3. ASSUME NEW a \in S PROVE w[a] \in D /\ s[w[a]] = a
    BY <1>2
  <1>4. \A m \in D : w[s[m]] = m
    <2> SUFFICES ASSUME NEW m \in D PROVE w[s[m]] = m
      OBVIOUS
    <2>1. s[m] \in S
      BY <1>1
    <2>2. w[s[m]] \in D /\ s[w[s[m]]] = s[m]
      BY <1>3, <2>1
    <2> HIDE DEF w, D
    <2> QED BY <2>2 DEF D
  <1>5. w \in [S -> Int] /\ \A a, b \in S : w[a] = w[b] => a = b
    <2>1. w = [a \in S |-> w[a]] /\ D \subseteq Int
      OBVIOUS
    <2> HIDE DEF w, D
    <2> QED BY <1>3, <2>1
  <1> HIDE DEF w
  <1>6. /\ SortByAll(ps, s) = f[N]
        /\ f[0] = s
        /\ \A k \in 1..N : f[k] = SortBy(ps[N + 1 - k], f[k - 1])
    BY <1>1, SortByAllDef
  <1> HIDE DEF f, N
  <1>7. Good(f[0], 0)
    <2>1. ASSUME NEW m \in D, NEW n \in D, m < n PROVE <<s[m], s[n]>> \in By(ps, w, 0, S)
      <3>1. s[m] \in S /\ s[n] \in S /\ w[s[m]] < w[s[n]]
        BY <1>1, <1>4, <2>1
      <3> QED BY <3>1, InBy, ComesLast
    <2> QED BY <1>6, <2>1
  <1>8. ASSUME NEW k \in 1..N, Good(f[k - 1], k - 1) PROVE Good(f[k], k)
    <2> DEFINE u == f[k - 1]
               t == SortBy(ps[Len(ps) + 1 - k], u)
    <2>1. u \in Seq(S) /\ Len(u) = Len(s) /\ ToSet(u) = S
      BY <1>8
    <2>2. \A m, n \in 1..Len(u) : m < n => <<u[m], u[n]>> \in By(ps, w, k - 1, S)
      BY <1>8, <2>1
    <2>3. k \in 1..Len(ps)
      BY DEF N
    <2> HIDE DEF u
    <2>4. /\ t \in Seq(S) /\ Len(t) = Len(u) /\ ToSet(t) = ToSet(u)
          /\ \A m, n \in 1..Len(t) : m < n => <<t[m], t[n]>> \in By(ps, w, k, S)
      BY <1>5, <2>1, <2>2, <2>3, SortByIs
    <2>5. f[k] = t
      BY <1>6 DEF u, N
    <2> HIDE DEF t
    <2> QED BY <2>1, <2>4, <2>5
  <1>9. Good(f[N], N)
    <2> HIDE DEF Good
    <2> SUFFICES ASSUME Bad # {} PROVE FALSE
      BY <1>1
    <2>1. PICK k \in Bad : \A j \in Bad : k <= j
      <3>1. Bad \subseteq Nat
        OBVIOUS
      <3> HIDE DEF Bad
      <3> QED BY <3>1, LeastNat
    <2>2. k \in 0..N /\ ~Good(f[k], k)
      BY <2>1
    <2>3. k # 0
      BY <1>7, <2>2
    <2>4. k \in 1..N /\ k - 1 \in 0..N /\ ~(k <= k - 1)
      BY <1>1, <2>2, <2>3
    <2>5. Good(f[k - 1], k - 1)
      BY <2>1, <2>4
    <2> QED BY <1>8, <2>2, <2>4, <2>5
  <1> DEFINE R == By(ps, id, N, S)
             t == f[N]
  <1>10. \A m, n \in D : m < n => <<t[m], t[n]>> \in R
    <2> SUFFICES ASSUME NEW m \in D, NEW n \in D, m < n PROVE <<t[m], t[n]>> \in R
      OBVIOUS
    <2> DEFINE a == t[m]
               b == t[n]
    <2>1. a \in S /\ b \in S
      BY <1>9
    <2>2. <<a, b>> \in By(ps, w, N, S)
      BY <1>9
    <2> HIDE DEF a, b, t
    <2>3. Comes(ps, w, N, a, b)
      BY <2>1, <2>2, InBy
    <2> DEFINE differ == {q \in (Len(ps) + 1 - N)..Len(ps) : a.key[ps[q].col] # b.key[ps[q].col]}
    <2>4. differ = {} => w[a] < w[b]
      BY <2>3 DEF Comes
    <2>5. differ = {q \in 1..Len(ps) : a.key[ps[q].col] # b.key[ps[q].col]}
      <3>1. (Len(ps) + 1 - N)..Len(ps) = 1..Len(ps)
        BY <1>1 DEF N
      <3> QED BY <3>1
    <2>6. differ = {} => id[a] < id[b]
      <3> SUFFICES ASSUME differ = {} PROVE id[a] < id[b]
        OBVIOUS
      <3> DEFINE x == w[a]
                 y == w[b]
      <3>1. x \in D /\ y \in D /\ s[x] = a /\ s[y] = b /\ x < y
        BY <1>3, <2>1, <2>4
      <3>2. ~\E q \in 1..Len(ps) : a.key[ps[q].col] # b.key[ps[q].col]
        BY <2>5
      <3> HIDE DEF x, y, differ
      <3>3. x \in 1..Len(s) /\ y \in 1..Len(s)
        BY <3>1
      <3>4. \/ id[s[x]] < id[s[y]]
            \/ \E q \in 1..Len(ps) : s[x].key[ps[q].col] # s[y].key[ps[q].col]
        BY <3>1, <3>3 DEF Ties
      <3> QED BY <3>1, <3>2, <3>4
    <2>7. Comes(ps, id, N, a, b)
      BY <2>3, <2>6 DEF Comes
    <2>8. <<a, b>> \in R
      BY <2>1, <2>7, InBy
    <2> QED BY <2>8 DEF a, b
  <1>11. IsFiniteSet(S)
    <2>1. s \in Surjection(D, S)
      <3>1. s \in [D -> S]
        BY <1>1
      <3> QED BY <1>2, <3>1 DEF Surjection
    <2>2. IsFiniteSet(D)
      BY <1>1, FS_Interval
    <2> HIDE DEF D
    <2> QED BY <2>1, <2>2, FS_Surjection
  <1>12. IsOrder(R, S)
    <2>1. N \in 0..Len(ps)
      BY <1>1 DEF N
    <2> QED BY <2>1, ByIsOrder
  <1>13. t = Listed(R, S)
    <2>1. t \in [D -> S] /\ \A x \in S : \E n \in D : t[n] = x
      <3>1. t \in Seq(S) /\ Len(t) = Len(s) /\ ToSet(t) = S
        BY <1>9
      <3> HIDE DEF t
      <3> QED BY <3>1 DEF ToSet
    <2> DEFINE M == Len(s)
    <2> HIDE DEF t, R
    <2>2. M \in Nat /\ t \in [1..M -> S] /\ \A x \in S : \E n \in 1..M : t[n] = x
      BY <1>1, <2>1
    <2>3. \A m, n \in 1..M : m < n => <<t[m], t[n]>> \in R
      BY <1>10
    <2> HIDE DEF M
    <2>4. IsListing(t, M, R, S)
      BY <2>2, <2>3 DEF IsListing
    <2> QED BY <1>11, <1>12, <2>2, <2>4, OnlyListing
  <1> QED BY <1>6, <1>11, <1>13 DEF N

-----------------------------------------------------------------------------
(* What the query asks for.                                                *)

\* The order of the query: its parameters, and then the order of arrival.
Order(ps) == {p \in Row \X Row : Comes(ps, [a \in Row |-> a.id], Len(ps), p[1], p[2])}

\* No two rows have the same number.
Told(S) == S \subseteq Row /\ \A a, b \in S : a.id = b.id => a = b

LEMMA InOrderPair ==
    ASSUME NEW ps, Len(ps) \in Nat, NEW a \in Row, NEW b \in Row
    PROVE  <<a, b>> \in Order(ps) <=>
             LET differ == {m \in 1..Len(ps) : a.key[ps[m].col] # b.key[ps[m].col]}
             IN  IF differ = {} THEN a.id < b.id
                 ELSE Before(ps[CHOOSE m \in differ : \A n \in differ : m <= n], a, b)
  <1>1. <<a, b>> \in Order(ps) <=> Comes(ps, [r \in Row |-> r.id], Len(ps), a, b)
    BY DEF Order
  <1>2. (Len(ps) + 1 - Len(ps))..Len(ps) = 1..Len(ps)
    OBVIOUS
  <1> QED BY <1>1, <1>2 DEF Comes

\* Between the rows of S, the order is that of By.
LEMMA OrderIsBy ==
    ASSUME NEW ps, Len(ps) \in Nat, NEW S, S \subseteq Row, NEW a \in S, NEW b \in S
    PROVE  <<a, b>> \in Order(ps) <=> <<a, b>> \in By(ps, [r \in S |-> r.id], Len(ps), S)
  <1> DEFINE v == [r \in Row |-> r.id]
             w == [r \in S |-> r.id]
  <1>1. <<a, b>> \in Order(ps) <=> Comes(ps, v, Len(ps), a, b)
    BY DEF Order
  <1>2. <<a, b>> \in By(ps, w, Len(ps), S) <=> Comes(ps, w, Len(ps), a, b)
    BY InBy
  <1>3. v[a] = w[a] /\ v[b] = w[b]
    OBVIOUS
  <1> HIDE DEF v, w
  <1>4. Comes(ps, v, Len(ps), a, b) <=> Comes(ps, w, Len(ps), a, b)
    BY <1>3 DEF Comes
  <1> QED BY <1>1, <1>2, <1>4 DEF w

LEMMA Numbers ==
    ASSUME NEW S, Told(S)
    PROVE  /\ [r \in S |-> r.id] \in [S -> Int]
           /\ \A a, b \in S : [r \in S |-> r.id][a] = [r \in S |-> r.id][b] => a = b
  <1>1. \A r \in S : r.id \in Int
    BY DEF Told, Row
  <1> QED BY <1>1 DEF Told

LEMMA ListedAgrees ==
    ASSUME NEW S, NEW Q, NEW R, \A a, b \in S : <<a, b>> \in Q <=> <<a, b>> \in R
    PROVE  Listed(Q, S) = Listed(R, S) /\ (IsOrder(Q, S) => IsOrder(R, S))
  <1>1. \A x \in S : Below(Q, S, x) = Below(R, S, x)
    BY DEF Below
  <1> DEFINE c(T, n) == CHOOSE x \in S : Cardinality(Below(T, S, x)) = n - 1
  <1>2. ASSUME NEW n PROVE c(Q, n) = c(R, n)
    <2>1. \A x : x \in S /\ Cardinality(Below(Q, S, x)) = n - 1 <=> x \in S /\ Cardinality(Below(R, S, x)) = n - 1
      BY <1>1
    <2> QED BY <2>1
  <1>3. Listed(Q, S) = [n \in 1..Cardinality(S) |-> c(Q, n)]
    BY DEF Listed
  <1>4. Listed(R, S) = [n \in 1..Cardinality(S) |-> c(R, n)]
    BY DEF Listed
  <1> HIDE DEF c
  <1>5. Listed(Q, S) = Listed(R, S)
    BY <1>2, <1>3, <1>4
  <1>6. IsOrder(Q, S) => IsOrder(R, S)
    BY DEF IsOrder
  <1> QED BY <1>5, <1>6

LEMMA OrderIsOrder ==
    ASSUME NEW ps, NEW S, Fits(ps, S), Told(S)
    PROVE  IsOrder(Order(ps), S)
  <1> DEFINE R == By(ps, [r \in S |-> r.id], Len(ps), S)
  <1>1. Len(ps) \in Nat
    BY DEF Fits
  <1>2. IsOrder(R, S)
    <2>1. Len(ps) \in 0..Len(ps)
      BY <1>1
    <2> QED BY <2>1, Numbers, ByIsOrder
  <1>3. \A a, b \in S : <<a, b>> \in R <=> <<a, b>> \in Order(ps)
    BY <1>1, OrderIsBy DEF Told
  <1> HIDE DEF R
  <1> QED BY <1>2, <1>3, ListedAgrees

LEMMA PrecedesIs ==
    ASSUME NEW S, S \subseteq Row, Fits(query.params, S), NEW a \in S, NEW b \in S
    PROVE  Precedes(a, b) <=> <<a, b>> \in Order(query.params)
  <1> DEFINE ps == query.params
             D1 == {m \in 1..Len(ps) : a.key[ps[m].col] # b.key[ps[m].col]}
             D2 == {m \in DOMAIN ps : a.key[ps[m].col] # b.key[ps[m].col]}
             least(D) == CHOOSE m \in D : \A n \in D : m <= n
  <1>1. Len(ps) \in Nat /\ DOMAIN ps = 1..Len(ps)
    BY DEF Fits
  <1>2. D1 = D2
    BY <1>1
  <1>3. <<a, b>> \in Order(ps) <=> IF D1 = {} THEN a.id < b.id ELSE Before(ps[least(D1)], a, b)
    <2>1. a \in Row /\ b \in Row
      OBVIOUS
    <2> HIDE DEF ps
    <2> QED BY <1>1, <2>1, InOrderPair
  <1>4. Precedes(a, b) <=> IF D2 = {} THEN a.id < b.id ELSE Before(ps[least(D2)], a, b)
    BY DEF Precedes
  <1> HIDE DEF D1, D2, least
  <1> QED BY <1>2, <1>3, <1>4

\* What InOrder is.
LEMMA InOrderIs ==
    ASSUME NEW S, S \subseteq Row, Fits(query.params, S)
    PROVE  InOrder(S) = Listed(Order(query.params), S)
  <1> DEFINE R == Order(query.params)
             c(n) == CHOOSE x \in S : Cardinality({r \in S : Precedes(r, x)}) = n - 1
             d(n) == CHOOSE x \in S : Cardinality(Below(R, S, x)) = n - 1
  <1>1. ASSUME NEW x \in S PROVE {r \in S : Precedes(r, x)} = Below(R, S, x)
    <2>1. \A r \in S : Precedes(r, x) <=> <<r, x>> \in R
      BY PrecedesIs
    <2> HIDE DEF R
    <2> QED BY <2>1 DEF Below
  <1>2. ASSUME NEW n PROVE c(n) = d(n)
    <2> HIDE DEF R
    <2>1. \A x : x \in S /\ Cardinality({r \in S : Precedes(r, x)}) = n - 1
                <=> x \in S /\ Cardinality(Below(R, S, x)) = n - 1
      BY <1>1
    <2> QED BY <2>1
  <1>3. InOrder(S) = [n \in 1..Cardinality(S) |-> c(n)]
    BY DEF InOrder
  <1>4. Listed(R, S) = [n \in 1..Cardinality(S) |-> d(n)]
    BY DEF Listed
  <1> HIDE DEF c, d, R
  <1>5. InOrder(S) = Listed(R, S)
    BY <1>2, <1>3, <1>4
  <1> QED BY <1>5 DEF R

\* The rows of a stream in the order of their arrival.
Rising(s) == s \in Seq(Row) /\ \A m, n \in 1..Len(s) : m < n => s[m].id < s[n].id

LEMMA RisingIs ==
    ASSUME NEW s, Rising(s)
    PROVE  /\ s \in Seq(Row) /\ Len(s) \in Nat /\ \A n \in 1..Len(s) : s[n] \in ToSet(s) /\ s[n].id \in Int
           /\ \A x \in ToSet(s) : \E n \in 1..Len(s) : s[n] = x
           /\ Told(ToSet(s)) /\ IsFiniteSet(ToSet(s)) /\ Cardinality(ToSet(s)) = Len(s)
           /\ \A m, n \in 1..Len(s) : m # n => s[m] # s[n]
  <1> DEFINE D == 1..Len(s)
             S == ToSet(s)
  <1>1. s \in Seq(Row) /\ Len(s) \in Nat /\ DOMAIN s = D /\ \A n \in D : s[n] \in Row
    BY DEF Rising
  <1>2. \A n \in D : s[n] \in S /\ s[n].id \in Int
    <2>1. \A n \in D : s[n] \in S
      BY <1>1 DEF ToSet
    <2>2. \A r \in Row : r.id \in Int
      BY DEF Row
    <2> QED BY <1>1, <2>1, <2>2
  <1>3. \A x \in S : \E n \in D : s[n] = x
    BY <1>1 DEF ToSet
  <1>4. \A m, n \in D : m < n => s[m].id < s[n].id
    BY DEF Rising
  <1> HIDE DEF S
  <1>5. \A m, n \in D : s[m].id = s[n].id => m = n
    <2> SUFFICES ASSUME NEW m \in D, NEW n \in D, m # n PROVE s[m].id # s[n].id
      OBVIOUS
    <2>1. m < n \/ n < m
      BY <1>1
    <2> DEFINE x == s[m].id
               y == s[n].id
    <2>2. x \in Int /\ y \in Int /\ (x < y \/ y < x)
      BY <1>2, <1>4, <2>1
    <2> HIDE DEF x, y
    <2>3. x # y
      BY <2>2
    <2> QED BY <2>3 DEF x, y
  <1>6. Told(S)
    <2>1. S \subseteq Row
      BY <1>1, <1>3
    <2>2. ASSUME NEW a \in S, NEW b \in S, a.id = b.id PROVE a = b
      <3>1. PICK m \in D : s[m] = a
        BY <1>3
      <3>2. PICK n \in D : s[n] = b
        BY <1>3
      <3> QED BY <1>5, <2>2, <3>1, <3>2
    <2> QED BY <2>1, <2>2 DEF Told
  <1>7. s \in Bijection(D, S)
    <2>1. s \in [D -> S] /\ \A m, n \in D : s[m] = s[n] => m = n
      BY <1>1, <1>2, <1>5
    <2> HIDE DEF D
    <2> QED BY <1>3, <2>1 DEF Bijection, Injection, Surjection, IsInjective
  <1>8. IsFiniteSet(S) /\ Cardinality(S) = Len(s)
    <2>1. ExistsBijection(1..Len(s), S)
      BY <1>7 DEF ExistsBijection
    <2> QED BY <1>1, <2>1, FS_CountingElements, FS_NatBijection
  <1> QED BY <1>1, <1>2, <1>3, <1>5, <1>6, <1>8 DEF S

\* Sorting rows that are told apart, whose equals come in the order of arrival.
LEMMA SortAllIs ==
    ASSUME NEW ps, NEW s \in Seq(Row), Fits(ps, ToSet(s)), Told(ToSet(s)),
           \A m, n \in 1..Len(s) : m # n => s[m] # s[n],
           \A m, n \in 1..Len(s) : m < n => s[m].id < s[n].id \/ <<s[m], s[n]>> \in Order(ps)
    PROVE  SortByAll(ps, s) = Listed(Order(ps), ToSet(s))
  <1> DEFINE S == ToSet(s)
             id == [r \in S |-> r.id]
             R == By(ps, id, Len(ps), S)
  <1>1. Len(s) \in Nat /\ s \in Seq(S) /\ \A m \in 1..Len(s) : s[m] \in S /\ s[m] \in Row
    <2>1. Len(s) \in Nat /\ DOMAIN s = 1..Len(s) /\ \A m \in 1..Len(s) : s[m] \in S /\ s[m] \in Row
      BY DEF ToSet
    <2>2. s \in [1..Len(s) -> S]
      BY <2>1
    <2> HIDE DEF S
    <2> QED BY <2>1, <2>2
  <1>2. id \in [S -> Int] /\ \A a, b \in S : id[a] = id[b] => a = b
    BY Numbers
  <1>3. Len(ps) \in Nat
    BY DEF Fits
  <1>4. ASSUME NEW m \in 1..Len(s), NEW n \in 1..Len(s), m < n
        PROVE  \/ id[s[m]] < id[s[n]]
               \/ \E q \in 1..Len(ps) : s[m].key[ps[q].col] # s[n].key[ps[q].col]
    <2> DEFINE a == s[m]
               b == s[n]
               differ == {q \in 1..Len(ps) : a.key[ps[q].col] # b.key[ps[q].col]}
    <2>1. id[a] = a.id /\ id[b] = b.id
      <3> HIDE DEF S
      <3> QED BY <1>1
    <2>2. CASE a.id < b.id
      BY <2>1, <2>2
    <2>3. CASE <<a, b>> \in Order(ps)
      <3>1. differ = {} => a.id < b.id
        <4> DEFINE least == CHOOSE q \in differ : \A r \in differ : q <= r
        <4>1. a \in Row /\ b \in Row
          BY <1>1
        <4> HIDE DEF a, b
        <4>2. <<a, b>> \in Order(ps) <=> IF differ = {} THEN a.id < b.id ELSE Before(ps[least], a, b)
          BY <1>3, <4>1, InOrderPair
        <4> QED BY <2>3, <4>2
      <3> HIDE DEF id
      <3> QED BY <2>1, <3>1
    <2> QED BY <1>4, <2>2, <2>3
  <1>5. SortByAll(ps, s) = Listed(R, S)
    <2> HIDE DEF S, id
    <2>1. Fits(ps, S) /\ ToSet(s) = S
      BY DEF S
    <2>2. Ties(ps, id, s)
      BY <1>4 DEF Ties
    <2> QED BY <1>1, <1>2, <2>1, <2>2, SortByAllIs DEF R
  <1>6. Listed(R, S) = Listed(Order(ps), S)
    <2>1. \A a, b \in S : <<a, b>> \in R <=> <<a, b>> \in Order(ps)
      BY <1>3, OrderIsBy DEF Told
    <2> HIDE DEF R, S
    <2> QED BY <2>1, ListedAgrees
  <1> QED BY <1>5, <1>6

\* The query can sort these rows.
Sortable(q, s) ==
    /\ Rising(s)
    /\ Fits(q.params, ToSet(s))
    /\ q.limit # NoLimit => q.limit \in Nat

\* What it makes of them.
Best(q, s) ==
    LET f == Listed(Order(q.params), ToSet(s))
    IN  IF q.limit # NoLimit THEN SubSeq(f, 1, Least(Len(f), q.limit)) ELSE f

\* The rows of the first n batches.
Upto(seqs, n) == FlattenSeq(SubSeq(seqs, 1, n))

\* What Top is.
LEMMA TopIs ==
    ASSUME NEW s, Sortable(query, s)
    PROVE  LET S == ToSet(s)
               R == Order(query.params)
               N == IF Limited THEN Least(Len(s), query.limit) ELSE Len(s)
           IN  /\ N \in Nat /\ N <= Len(s) /\ Len(s) = Cardinality(S)
               /\ Listed(R, S) \in Seq(S) /\ Len(Listed(R, S)) = Len(s) /\ IsFiniteSet(S) /\ IsOrder(R, S)
               /\ Top(s) = Cut(Listed(R, S)) /\ Top(s) = Best(query, s)
               /\ Top(s) \in Seq(S) /\ Len(Top(s)) = N
               /\ \A n \in 1..N : Top(s)[n] = Listed(R, S)[n]
               /\ \A m, n \in 1..N : m < n => <<Top(s)[m], Top(s)[n]>> \in R
               /\ \A m, n \in 1..N : m # n => Top(s)[m] # Top(s)[n]
               /\ Limited => ToSet(Top(s)) = FirstOf(R, S, query.limit)
  <1> DEFINE S == ToSet(s)
             R == Order(query.params)
             N == IF Limited THEN Least(Len(s), query.limit) ELSE Len(s)
             f == Listed(R, S)
             t == Top(s)
             M == Len(s)
  <1>1. Rising(s) /\ Fits(query.params, S) /\ (Limited => query.limit \in Nat)
    BY DEF Sortable, Limited
  <1>2. M \in Nat /\ IsFiniteSet(S) /\ Cardinality(S) = M /\ Told(S) /\ S \subseteq Row
    BY <1>1, RisingIs DEF Told
  <1>3. IsOrder(R, S)
    <2> HIDE DEF S
    <2> QED BY <1>1, <1>2, OrderIsOrder
  <1>4. /\ f \in [1..M -> S]
        /\ \A m, n \in 1..M : m < n => <<f[m], f[n]>> \in R
    <2> HIDE DEF S, R, M
    <2> QED BY <1>2, <1>3, ListedIs
  <1>5. N \in Nat /\ N <= M
    <2> HIDE DEF M
    <2> QED BY <1>1, <1>2 DEF Least, M
  <1>6. t = Cut(f)
    <2>1. InOrder(S) = f
      BY <1>1, <1>2, InOrderIs
    <2> QED BY <2>1 DEF Top
  <1> HIDE DEF f, t, R, S
  <1>7. f \in Seq(S) /\ Len(f) = M
    BY <1>2, <1>4
  <1>8. t \in Seq(S) /\ Len(t) = N /\ \A n \in 1..N : t[n] = f[n]
    <2>1. CASE Limited
      <3>1. t = SubSeq(f, 1, N)
        BY <1>6, <1>7, <2>1 DEF Cut
      <3> HIDE DEF N, M
      <3>2. 1..N \subseteq 1..M
        BY <1>2, <1>5
      <3>3. t = [n \in 1..N |-> f[n]]
        BY <3>1, <1>5, <1>7 DEF M
      <3>4. t \in [1..N -> S]
        BY <1>4, <3>2, <3>3
      <3> QED BY <1>5, <3>3, <3>4
    <2>2. CASE ~Limited
      <3>1. t = f /\ N = M
        BY <1>6, <2>2 DEF Cut
      <3> HIDE DEF N, M
      <3> QED BY <1>7, <3>1
    <2> QED BY <2>1, <2>2
  <1>9. \A m, n \in 1..N : m < n => <<t[m], t[n]>> \in R
    <2> HIDE DEF N, M
    <2>1. 1..N \subseteq 1..M
      BY <1>2, <1>5
    <2> QED BY <1>4, <1>8, <2>1
  <1>10. ASSUME NEW m \in 1..N, NEW n \in 1..N, m # n PROVE t[m] # t[n]
    <2> HIDE DEF N, M
    <2>1. m < n \/ n < m
      BY <1>5, <1>10
    <2>2. t[m] \in S /\ t[n] \in S
      BY <1>8
    <2> QED BY <1>3, <1>9, <2>1, <2>2 DEF IsOrder
  <1>11. ASSUME Limited PROVE ToSet(t) = FirstOf(R, S, query.limit)
    <2>1. N = Least(Cardinality(S), query.limit)
      BY <1>2, <1>11
    <2> HIDE DEF N, M
    <2>2. FirstOf(R, S, query.limit) = {f[n] : n \in 1..N}
      BY <2>1 DEF FirstOf, f
    <2>3. ToSet(t) = {t[n] : n \in 1..N}
      BY <1>8 DEF ToSet
    <2>4. {t[n] : n \in 1..N} = {f[n] : n \in 1..N}
      BY <1>8
    <2> QED BY <2>2, <2>3, <2>4
  <1> HIDE DEF N
  <1>12. /\ N \in Nat /\ N <= M /\ M = Cardinality(S)
         /\ f \in Seq(S) /\ Len(f) = M /\ IsFiniteSet(S) /\ IsOrder(R, S)
         /\ t = Cut(f) /\ t = Best(query, s) /\ t \in Seq(S) /\ Len(t) = N
    <2>1. t = Best(query, s)
      BY <1>6 DEF Cut, Best, Limited, f, S, R
    <2> QED BY <1>2, <1>3, <1>5, <1>6, <1>7, <1>8, <2>1
  <1> QED BY <1>8, <1>9, <1>10, <1>11, <1>12 DEF f, t, R, S, N

\* The rows of a whole stream, sorted by the parameters one after the other.
LEMMA WholeSorted ==
    ASSUME NEW s, Sortable(query, s)
    PROVE  SortColumns(s) = Top(s)
  <1>1. /\ s \in Seq(Row) /\ Fits(query.params, ToSet(s)) /\ Told(ToSet(s))
        /\ \A m, n \in 1..Len(s) : m # n => s[m] # s[n]
        /\ \A m, n \in 1..Len(s) : m < n => s[m].id < s[n].id
    BY RisingIs DEF Sortable, Rising
  <1>2. SortByAll(query.params, s) = Listed(Order(query.params), ToSet(s))
    BY <1>1, SortAllIs
  <1> QED BY <1>2, TopIs DEF SortColumns

\* Sorting the first rows of A with B behind them gives what sorting A and B would.
LEMMA ChunkKept ==
    ASSUME NEW A \in Seq(Row), NEW B \in Seq(Row), Sortable(query, A \o B), Sortable(query, A), Limited
    PROVE  SortColumns(Top(A) \o B) = Top(A \o B)
  <1> DEFINE ps == query.params
             L == query.limit
             R == Order(ps)
             SA == ToSet(A)
             SB == ToSet(B)
             K == FirstOf(R, SA, L)
             c == Top(A)
             s == c \o B
             M == Len(A)
             N == Len(c)
             P == Len(B)
             U == K \cup SB
             T == SA \cup SB
  <1>1. /\ c \in Seq(SA) /\ N \in Nat /\ N <= M /\ IsFiniteSet(SA) /\ ToSet(c) = K
        /\ \A m, n \in 1..N : m < n => <<c[m], c[n]>> \in R
        /\ \A m, n \in 1..N : m # n => c[m] # c[n]
        /\ L \in Nat
    <2>1. L \in Nat
      BY DEF Sortable, Limited
    <2> QED BY <2>1, TopIs
  <1>2. ToSet(A \o B) = T
    BY JoinedSet
  <1>3. /\ T \subseteq Row /\ Told(T) /\ Fits(ps, T) /\ IsFiniteSet(SB) /\ IsFiniteSet(T)
        /\ IsOrder(R, T)
    <2>1. Told(T) /\ Fits(ps, T) /\ IsFiniteSet(T) /\ IsOrder(R, T)
      BY <1>2, RisingIs, OrderIsOrder DEF Sortable
    <2>2. T \subseteq Row
      BY <2>1 DEF Told
    <2>3. SB \in SUBSET T
      OBVIOUS
    <2> HIDE DEF SB, T
    <2> QED BY <2>1, <2>2, <2>3, FS_Subset
  <1>4. /\ \A m, n \in 1..P : m < n => B[m].id < B[n].id
        /\ \A m, n \in 1..P : m # n => B[m] # B[n]
        /\ \A a \in SA, n \in 1..P : a.id < B[n].id /\ a # B[n]
    <2> DEFINE ab == A \o B
    <2>1. M \in Nat /\ P \in Nat /\ Len(ab) = M + P /\ DOMAIN A = 1..M
      OBVIOUS
    <2>2. (\A n \in 1..M : ab[n] = A[n]) /\ \A n \in 1..P : ab[M + n] = B[n]
      BY Joined
    <2>3. /\ \A m, n \in 1..Len(ab) : m < n => ab[m].id < ab[n].id
          /\ \A m, n \in 1..Len(ab) : m # n => ab[m] # ab[n]
      BY RisingIs DEF Sortable, Rising
    <2> HIDE DEF ab, M, P
    <2>4. ASSUME NEW m \in 1..P, NEW n \in 1..P
          PROVE  (m < n => B[m].id < B[n].id) /\ (m # n => B[m] # B[n])
      <3>1. M + m \in 1..Len(ab) /\ M + n \in 1..Len(ab) /\ (m < n => M + m < M + n) /\ (m # n => M + m # M + n)
        BY <2>1
      <3> QED BY <2>2, <2>3, <3>1
    <2>5. ASSUME NEW a \in SA, NEW n \in 1..P PROVE a.id < B[n].id /\ a # B[n]
      <3>1. PICK m \in 1..M : A[m] = a
        BY <2>1 DEF ToSet
      <3>2. m \in 1..Len(ab) /\ M + n \in 1..Len(ab) /\ m < M + n /\ m # M + n
        BY <2>1
      <3> QED BY <2>2, <2>3, <3>1, <3>2
    <2> QED BY <2>4, <2>5 DEF P
  <1>5. K \subseteq SA /\ U \subseteq T
    <2> HIDE DEF SB, SA, K, R
    <2>1. IsOrder(R, SA \cup SB)
      BY <1>3
    <2>2. K \subseteq SA
      BY <1>1, <1>3, <2>1, TopOfTop DEF K
    <2> QED BY <2>2
  <1> HIDE DEF R, SA, SB, K, c, M, N, P
  <1>6. /\ s \in Seq(Row) /\ Len(s) = N + P /\ P \in Nat
        /\ \A n \in 1..N : s[n] = c[n] /\ c[n] \in SA
        /\ \A n \in 1..P : s[N + n] = B[n] /\ B[n] \in SB
        /\ DOMAIN c = 1..N /\ DOMAIN B = 1..P
    <2>1. c \in Seq(Row) /\ \A n \in 1..N : c[n] \in SA
      <3>1. SA \subseteq Row
        BY <1>3
      <3>2. c \in Seq(SA) /\ Len(c) = N
        BY <1>1 DEF N
      <3> QED BY <3>1, <3>2
    <2>2. P \in Nat /\ P = Len(B) /\ DOMAIN B = 1..P /\ \A n \in 1..P : B[n] \in SB
      BY DEF P, SB, ToSet
    <2>3. s \in Seq(Row) /\ Len(s) = Len(c) + Len(B) /\ (\A n \in 1..Len(c) : s[n] = c[n]) /\ \A n \in 1..Len(B) : s[Len(c) + n] = B[n]
      BY <2>1, Joined
    <2>4. N = Len(c) /\ DOMAIN c = 1..N
      BY <2>1 DEF N
    <2> HIDE DEF s
    <2> QED BY <2>1, <2>2, <2>3, <2>4
  <1>7. ASSUME NEW k \in 1..Len(s)
        PROVE  \/ k \in 1..N /\ s[k] = c[k] /\ c[k] \in SA
               \/ ~(k <= N) /\ k - N \in 1..P /\ s[k] = B[k - N] /\ B[k - N] \in SB
    <2> HIDE DEF s
    <2>1. CASE k <= N
      BY <1>1, <1>6, <2>1
    <2>2. CASE ~(k <= N)
      <3>1. k - N \in 1..P /\ N + (k - N) = k
        BY <1>1, <1>6, <2>2
      <3> QED BY <1>6, <2>2, <3>1
    <2> QED BY <2>1, <2>2
  <1>8. ToSet(s) = U
    <2> HIDE DEF s
    <2>1. ToSet(c) = {c[n] : n \in 1..N} /\ SB = {B[n] : n \in 1..P} /\ ToSet(s) = {s[n] : n \in 1..Len(s)}
      BY <1>6 DEF ToSet, SB
    <2>2. ASSUME NEW x \in ToSet(s) PROVE x \in U
      <3>1. PICK k \in 1..Len(s) : x = s[k]
        BY <2>1
      <3> QED BY <1>1, <1>7, <2>1, <3>1
    <2>3. ASSUME NEW x \in U PROVE x \in ToSet(s)
      <3>1. CASE x \in K
        <4>1. PICK n \in 1..N : x = c[n]
          BY <1>1, <2>1, <3>1
        <4>2. n \in 1..Len(s)
          BY <1>1, <1>6
        <4> QED BY <1>6, <2>1, <4>1, <4>2
      <3>2. CASE x \in SB
        <4>1. PICK n \in 1..P : x = B[n]
          BY <2>1, <3>2
        <4>2. N + n \in 1..Len(s)
          BY <1>1, <1>6
        <4> QED BY <1>6, <2>1, <4>1, <4>2
      <3> QED BY <3>1, <3>2
    <2> QED BY <2>2, <2>3
  <1>9. \A m, n \in 1..Len(s) : m < n => s[m].id < s[n].id \/ <<s[m], s[n]>> \in R
    <2> SUFFICES ASSUME NEW m \in 1..Len(s), NEW n \in 1..Len(s), m < n
                 PROVE  s[m].id < s[n].id \/ <<s[m], s[n]>> \in R
      OBVIOUS
    <2> HIDE DEF s
    <2>1. CASE n <= N
      <3>1. m \in 1..N /\ n \in 1..N
        BY <1>1, <1>6, <2>1
      <3> QED BY <1>1, <1>6, <3>1
    <2>2. CASE ~(n <= N) /\ m <= N
      BY <1>4, <1>7, <2>2
    <2>3. CASE ~(n <= N) /\ ~(m <= N)
      <3>1. m - N < n - N
        BY <1>1, <1>6
      <3> QED BY <1>4, <1>7, <2>3, <3>1
    <2> QED BY <2>1, <2>2, <2>3
  <1>10. \A m, n \in 1..Len(s) : m # n => s[m] # s[n]
    <2> SUFFICES ASSUME NEW m \in 1..Len(s), NEW n \in 1..Len(s), m < n
                 PROVE  s[m] # s[n]
      BY <1>1, <1>6
    <2> HIDE DEF s
    <2>1. CASE n <= N
      <3>1. m \in 1..N /\ n \in 1..N /\ m # n
        BY <1>1, <1>6, <2>1
      <3> QED BY <1>1, <1>6, <3>1
    <2>2. CASE ~(n <= N) /\ m <= N
      BY <1>4, <1>7, <2>2
    <2>3. CASE ~(n <= N) /\ ~(m <= N)
      <3>1. m - N # n - N
        BY <1>1, <1>6
      <3> QED BY <1>4, <1>7, <2>3, <3>1
    <2> QED BY <2>1, <2>2, <2>3
  <1>11. Fits(ps, U) /\ Told(U)
    <2> HIDE DEF U, T
    <2> QED BY <1>3, <1>5 DEF Fits, Told
  <1>12. SortByAll(ps, s) = Listed(R, U)
    <2> HIDE DEF s, U
    <2> QED BY <1>6, <1>8, <1>9, <1>10, <1>11, SortAllIs DEF R
  <1>13. /\ Cardinality(T) \in Nat /\ Cardinality(U) \in Nat
         /\ Least(Cardinality(U), L) = Least(Cardinality(T), L)
         /\ \A n \in 1..Least(Cardinality(T), L) : Listed(R, U)[n] = Listed(R, T)[n]
    <2>1. IsFiniteSet(SA) /\ IsFiniteSet(SB) /\ IsOrder(R, SA \cup SB) /\ L \in Nat
      BY <1>1, <1>3
    <2> HIDE DEF L
    <2>2. SameFirst(R, FirstOf(R, SA, L) \cup SB, SA \cup SB, L)
      BY <2>1, TopOfTop
    <2> HIDE DEF U, T
    <2>3. SameFirst(R, U, T, L)
      BY <2>2 DEF U, T, K
    <2> QED BY <2>3 DEF SameFirst
  <1> HIDE DEF U, T
  <1>14. Listed(R, U) \in Seq(U) /\ Len(Listed(R, U)) = Cardinality(U)
         /\ Listed(R, T) \in Seq(T) /\ Len(Listed(R, T)) = Cardinality(T)
    <2>1. IsFiniteSet(U) /\ IsOrder(R, U)
      BY <1>3, <1>5, FS_Subset DEF IsOrder
    <2>2. Listed(R, U) \in [1..Cardinality(U) -> U] /\ Listed(R, T) \in [1..Cardinality(T) -> T]
      BY <1>3, <2>1, ListedIs
    <2> DEFINE a == Listed(R, U)
               b == Listed(R, T)
               x == Cardinality(U)
               y == Cardinality(T)
    <2> HIDE DEF a, b, x, y
    <2>3. a \in [1..x -> U] /\ b \in [1..y -> T] /\ x \in Nat /\ y \in Nat
      BY <1>13, <2>2 DEF a, b, x, y
    <2>4. a \in Seq(U) /\ Len(a) = x /\ b \in Seq(T) /\ Len(b) = y
      BY <2>3
    <2> QED BY <2>4 DEF a, b, x, y
  <1>15. Cut(Listed(R, U)) = Cut(Listed(R, T))
    <2> DEFINE m == Least(Cardinality(T), L)
               x == Cardinality(U)
               y == Cardinality(T)
    <2>1. Cut(Listed(R, U)) = SubSeq(Listed(R, U), 1, m) /\ Cut(Listed(R, T)) = SubSeq(Listed(R, T), 1, m)
      BY <1>13, <1>14 DEF Cut
    <2>2. m \in Nat /\ m <= x /\ m <= y
      <3> HIDE DEF x, y
      <3> QED BY <1>1, <1>13 DEF Least, x, y
    <2> HIDE DEF m
    <2>3. SubSeq(Listed(R, U), 1, m) = [n \in 1..m |-> Listed(R, U)[n]]
      BY <1>14, <2>2
    <2>4. SubSeq(Listed(R, T), 1, m) = [n \in 1..m |-> Listed(R, T)[n]]
      BY <1>14, <2>2
    <2>5. \A n \in 1..m : Listed(R, U)[n] = Listed(R, T)[n]
      BY <1>13 DEF m
    <2> QED BY <2>1, <2>3, <2>4, <2>5
  <1>16. Top(A \o B) = Cut(Listed(R, T))
    BY <1>2, TopIs DEF R
  <1> QED BY <1>12, <1>15, <1>16 DEF SortColumns, s, ps, c

-----------------------------------------------------------------------------
(* The sort and its state.                                                 *)

\* They come batch after batch.
LEMMA UptoIs ==
    ASSUME NEW S, NEW seqs \in Seq(Seq(S))
    PROVE  /\ Upto(seqs, 0) = <<>>
           /\ Upto(seqs, Len(seqs)) = FlattenSeq(seqs)
           /\ \A n \in 0..Len(seqs) : Upto(seqs, n) \in Seq(S)
           /\ \A n \in 1..Len(seqs) :
                Upto(seqs, n) = Upto(seqs, n - 1) \o seqs[n]
  <1> DEFINE M == Len(seqs)
             u(n) == Upto(seqs, n)
  <1>1. M \in Nat /\ SubSeq(seqs, 1, 0) = <<>>
    OBVIOUS
  <1>2. u(M) = FlattenSeq(seqs)
    BY SubSeqFull DEF Upto
  <1>3. ASSUME NEW n \in 0..M PROVE u(n) = Flat(seqs)[n] /\ u(n) \in Seq(S)
    <2> DEFINE a == SubSeq(seqs, 1, n)
    <2>1. /\ a \in Seq(Seq(S)) /\ Len(a) = n /\ n \in Nat /\ \A k \in 1..n : a[k] = seqs[k]
          /\ n <= Len(a) /\ n <= Len(seqs)
      OBVIOUS
    <2> HIDE DEF a, M
    <2>2. Flat(a)[n] = Flat(seqs)[n]
      BY <2>1, FlatAgrees
    <2>3. FlattenSeq(a) = Flat(a)[n] /\ FlattenSeq(a) \in Seq(S)
      BY <2>1, FlattenIsFlat
    <2> QED BY <2>2, <2>3 DEF a, Upto
  <1>4. ASSUME NEW n \in 1..M PROVE u(n) = u(n - 1) \o seqs[n]
    <2>1. n \in 0..M /\ n - 1 \in 0..M
      OBVIOUS
    <2>2. Flat(seqs)[n] = Flat(seqs)[n - 1] \o seqs[n]
      BY FlatDef
    <2> HIDE DEF u
    <2> QED BY <1>3, <2>1, <2>2
  <1>5. u(0) = <<>>
    BY <1>1, FlattenNone DEF Upto
  <1> HIDE DEF u
  <1> QED BY <1>2, <1>3, <1>4, <1>5 DEF u

\* What comes first of rows that can be sorted can be sorted.
LEMMA SortablePrefix ==
    ASSUME NEW a \in Seq(Row), NEW b \in Seq(Row), Sortable(query, a \o b)
    PROVE  Sortable(query, a)
  <1> DEFINE s == a \o b
  <1>1. s \in Seq(Row) /\ Len(a) \in Nat /\ Len(s) \in Nat /\ Len(a) <= Len(s) /\ \A j \in 1..Len(a) : s[j] = a[j]
    BY Joined
  <1> HIDE DEF s
  <1>2. Rising(s) /\ Fits(query.params, ToSet(s)) /\ (Limited => query.limit \in Nat)
    BY DEF Sortable, Limited, s
  <1>3. Rising(a)
    BY <1>1, <1>2 DEF Rising
  <1>4. ToSet(a) \subseteq ToSet(s)
    BY <1>1 DEF ToSet
  <1>5. Fits(query.params, ToSet(a))
    BY <1>2, <1>4 DEF Fits
  <1> QED BY <1>2, <1>3, <1>5 DEF Sortable, Limited

\* The first batches are a prefix of the stream.
LEMMA UptoPrefix ==
    ASSUME NEW S, NEW seqs \in Seq(Seq(S)), NEW n \in 0..Len(seqs)
    PROVE  Upto(seqs, n) \in Seq(S) /\ \E r \in Seq(S) : FlattenSeq(seqs) = Upto(seqs, n) \o r
  <1> DEFINE M == Len(seqs)
             u(k) == Upto(seqs, k)
             Good(k) == \E r \in Seq(S) : u(M) = u(k) \o r
             Bad == {d \in 0..M : ~Good(M - d)}
  <1>1. M \in Nat
    OBVIOUS
  <1>2. /\ u(M) = FlattenSeq(seqs)
        /\ \A k \in 0..M : u(k) \in Seq(S)
        /\ \A k \in 1..M : u(k) = u(k - 1) \o seqs[k] /\ seqs[k] \in Seq(S)
    <2>1. \A k \in 1..M : seqs[k] \in Seq(S)
      OBVIOUS
    <2> QED BY <2>1, UptoIs
  <1> HIDE DEF u
  <1>3. Good(M)
    <2>1. u(M) \in Seq(S) /\ <<>> \in Seq(S)
      BY <1>1, <1>2
    <2>2. u(M) \o <<>> = u(M)
      BY <2>1
    <2> QED BY <2>1, <2>2
  <1>4. ASSUME NEW k \in 1..M, Good(k) PROVE Good(k - 1)
    <2>1. PICK r \in Seq(S) : u(M) = u(k) \o r
      BY <1>4
    <2> DEFINE x == u(k - 1)
               y == seqs[k]
    <2>2. k - 1 \in 0..M
      BY <1>1
    <2>3. x \in Seq(S) /\ y \in Seq(S) /\ u(k) = x \o y
      BY <1>2, <2>2
    <2> HIDE DEF x, y
    <2>4. (x \o y) \o r = x \o (y \o r) /\ y \o r \in Seq(S)
      <3>1. x \in Seq(S) /\ y \in Seq(S) /\ r \in Seq(S)
        BY <2>3
      <3>2. (x \o y) \o r = x \o (y \o r)
        <4>1. Associates(x, y, r)
          BY <3>1, JoinedTwice
        <4> QED BY <4>1 DEF Associates
      <3>3. y \o r \in Seq(S)
        BY <3>1
      <3> QED BY <3>2, <3>3
    <2> QED BY <2>1, <2>3, <2>4 DEF x
  <1> HIDE DEF Good
  <1>5. Bad = {}
    <2> SUFFICES ASSUME Bad # {} PROVE FALSE
      OBVIOUS
    <2>1. PICK d \in Bad : \A e \in Bad : d <= e
      <3>1. Bad \subseteq Nat
        OBVIOUS
      <3> HIDE DEF Bad
      <3> QED BY <3>1, LeastNat
    <2>2. d \in 0..M /\ ~Good(M - d)
      BY <2>1
    <2>3. d # 0
      <3>1. d = 0 => M - d = M
        BY <1>1
      <3> QED BY <1>3, <2>2, <3>1
    <2> DEFINE k == M - (d - 1)
    <2>4. d - 1 \in 0..M /\ ~(d <= d - 1) /\ k \in 1..M /\ k - 1 = M - d
      BY <1>1, <2>2, <2>3
    <2>5. Good(k)
      BY <2>1, <2>4
    <2> HIDE DEF k
    <2>6. Good(k - 1)
      BY <1>4, <2>4, <2>5
    <2> QED BY <2>2, <2>4, <2>6
  <1>6. M - n \in 0..M /\ M - (M - n) = n
    OBVIOUS
  <1>7. Good(n)
    BY <1>5, <1>6
  <1> QED BY <1>2, <1>7 DEF Good, u

LEMMA UptoSortable ==
    ASSUME NEW seqs \in Seq(Seq(Row)), Sortable(query, FlattenSeq(seqs)), NEW n \in 0..Len(seqs)
    PROVE  Sortable(query, Upto(seqs, n))
  BY UptoPrefix, SortablePrefix

LEMMA BestIs ==
    ASSUME NEW s, Sortable(query, s)
    PROVE  /\ s \in Seq(Row) /\ Len(s) \in Nat
           /\ SortColumns(s) = Best(query, s) /\ Top(s) = Best(query, s)
           /\ Best(query, s) \in Seq(ToSet(s)) /\ Best(query, s) \in Seq(Row)
           /\ Len(Best(query, s)) = IF Limited THEN Least(Len(s), query.limit) ELSE Len(s)
           /\ Limited => query.limit \in Nat /\ Len(Best(query, s)) <= query.limit
  <1> DEFINE b == Best(query, s)
             N == IF Limited THEN Least(Len(s), query.limit) ELSE Len(s)
  <1>1. s \in Seq(Row) /\ Len(s) \in Nat /\ ToSet(s) \subseteq Row
    BY RisingIs DEF Sortable, Told
  <1>2. Limited => query.limit \in Nat
    BY DEF Sortable, Limited
  <1>3. SortColumns(s) = b /\ Top(s) = b /\ b \in Seq(ToSet(s)) /\ Len(b) = N
    BY TopIs, WholeSorted
  <1>4. b \in Seq(Row)
    <2> HIDE DEF b
    <2> QED BY <1>1, <1>3
  <1>5. Limited => N <= query.limit
    <2> DEFINE L == query.limit
               M == Len(s)
    <2> HIDE DEF L, M
    <2>1. Limited => L \in Nat /\ M \in Nat
      BY <1>1, <1>2 DEF L, M
    <2>2. Limited => Least(M, L) <= L
      BY <2>1 DEF Least
    <2> QED BY <2>2 DEF L, M
  <1> HIDE DEF N
  <1> QED BY <1>1, <1>2, <1>3, <1>4, <1>5 DEF N

LEMMA BestOfNone ==
    ASSUME Sortable(query, <<>>)
    PROVE  Best(query, <<>>) = <<>>
  <1> DEFINE b == Best(query, <<>>)
  <1>1. b \in Seq(ToSet(<<>>)) /\ ToSet(<<>>) = {}
    BY BestIs DEF ToSet
  <1> HIDE DEF b
  <1>2. b = <<>>
    BY <1>1
  <1> QED BY <1>2 DEF b

LEMMA BestOfMore ==
    ASSUME NEW A \in Seq(Row), NEW B \in Seq(Row), Sortable(query, A \o B), Limited
    PROVE  SortColumns(Best(query, A) \o B) = Best(query, A \o B)
  <1>1. Sortable(query, A)
    BY SortablePrefix
  <1>2. Top(A) = Best(query, A) /\ Top(A \o B) = Best(query, A \o B)
    BY <1>1, BestIs
  <1>3. SortColumns(Top(A) \o B) = Top(A \o B)
    BY <1>1, ChunkKept
  <1> QED BY <1>2, <1>3

LEMMA BestAgain ==
    ASSUME NEW s, Sortable(query, s), Limited
    PROVE  SortColumns(Best(query, s)) = Best(query, s)
  <1>1. s \in Seq(Row) /\ <<>> \in Seq(Row) /\ s \o <<>> = s /\ Best(query, s) \in Seq(Row)
    BY BestIs
  <1> DEFINE b == Best(query, s)
  <1>2. SortColumns(b \o <<>>) = Best(query, s \o <<>>)
    BY <1>1, BestOfMore
  <1> HIDE DEF b
  <1>3. b \o <<>> = b
    BY <1>1 DEF b
  <1> QED BY <1>1, <1>2, <1>3 DEF b

-----------------------------------------------------------------------------
\* The rows that have been in vec when n rows of the batch have.
Held(n) == Upto(input, taken - 1) \o SubSeq(cols, 1, n)

InputInv ==
    /\ query.cols \in Nat
    /\ input \in Seq(Seq(Row))
    /\ Sortable(query, FlattenSeq(input))

ControlInv ==
    /\ live \in BOOLEAN
    /\ count \in Nat
    /\ taken \in 0..Len(input)
    /\ cols \in Seq(Row)
    /\ i \in 0..Len(cols)
    /\ pc \in {"idle", "pull", "chunk", "sort", "ended"}
    /\ pc = "ended" <=> ~live
    /\ pc = "idle" => taken = 0
    /\ live => out = <<>>

Largest == IF MinStride < query.limit THEN query.limit ELSE MinStride

\* What is in vec, at each place.
VecInv ==
    /\ pc = "idle" \/ query.cols = 0 => vec = <<>>
    /\ pc = "pull" => IF query.cols = 0
                      THEN count = Len(Upto(input, taken))
                      ELSE vec = IF query.limit # NoLimit THEN Best(query, Upto(input, taken))
                                                          ELSE Upto(input, taken)
    /\ pc \in {"chunk", "sort"} => /\ query.cols # 0 /\ query.limit # NoLimit
                                   /\ taken # 0 /\ cols = input[taken]
    /\ pc = "chunk" => vec = Best(query, Held(i))
    /\ pc = "sort" => \E d \in 0..i : d <= Largest /\ vec = Best(query, Held(i - d)) \o SubSeq(cols, i - d + 1, i)
    /\ pc = "ended" => /\ taken = Len(input)
                       /\ query.cols # 0 => vec = Best(query, Upto(input, taken))
                       /\ out = <<[n    |-> Len(Best(query, Upto(input, taken))),
                                   rows |-> IF query.cols = 0 THEN <<>> ELSE Best(query, Upto(input, taken))]>>

SInv == InputInv /\ ControlInv /\ VecInv

\* The rows taken, and those of the next batch.
LEMMA PullRows ==
    ASSUME InputInv, ControlInv
    PROVE  LET P == Upto(input, taken)
           IN  /\ P \in Seq(Row) /\ Sortable(query, P)
               /\ taken = 0 => P = <<>>
               /\ taken # Len(input) => /\ taken + 1 \in 0..Len(input) /\ input[taken + 1] \in Seq(Row)
                                        /\ Upto(input, taken + 1) = P \o input[taken + 1]
                                        /\ Sortable(query, P \o input[taken + 1])
  <1>1. /\ input \in Seq(Seq(Row)) /\ taken \in 0..Len(input) /\ Len(input) \in Nat
        /\ Sortable(query, FlattenSeq(input))
    BY DEF InputInv, ControlInv
  <1>2. Upto(input, taken) \in Seq(Row) /\ Sortable(query, Upto(input, taken)) /\ Upto(input, 0) = <<>>
    BY <1>1, UptoIs, UptoSortable
  <1>3. ASSUME taken # Len(input)
        PROVE  /\ taken + 1 \in 0..Len(input) /\ input[taken + 1] \in Seq(Row)
               /\ Upto(input, taken + 1) = Upto(input, taken) \o input[taken + 1]
               /\ Sortable(query, Upto(input, taken + 1))
    <2>1. taken + 1 \in 0..Len(input) /\ taken + 1 \in 1..Len(input) /\ (taken + 1) - 1 = taken
      BY <1>1, <1>3
    <2>2. input[taken + 1] \in Seq(Row)
      BY <1>1, <2>1
    <2>3. Upto(input, taken + 1) = Upto(input, (taken + 1) - 1) \o input[taken + 1]
      BY <1>1, <2>1, UptoIs
    <2>4. Sortable(query, Upto(input, taken + 1))
      BY <1>1, <2>1, UptoSortable
    <2> QED BY <2>1, <2>2, <2>3, <2>4
  <1> QED BY <1>2, <1>3

\* The rows of the batches before, and those of this one.
LEMMA ChunkRows ==
    ASSUME InputInv, ControlInv, taken # 0, cols = input[taken]
    PROVE  /\ \A n \in 0..Len(cols) : Held(n) \in Seq(Row) /\ Sortable(query, Held(n))
           /\ \A m, n \in 0..Len(cols) : m <= n => /\ SubSeq(cols, m + 1, n) \in Seq(Row)
                                                  /\ Len(SubSeq(cols, m + 1, n)) = n - m
                                                  /\ Held(m) \o SubSeq(cols, m + 1, n) = Held(n)
           /\ Held(0) = Upto(input, taken - 1)
           /\ Held(Len(cols)) = Upto(input, taken)
  <1> DEFINE P == Upto(input, taken - 1)
             M == Len(cols)
  <1>1. /\ input \in Seq(Seq(Row)) /\ taken \in 1..Len(input) /\ taken - 1 \in 0..Len(input)
        /\ taken \in 0..Len(input)
        /\ Sortable(query, FlattenSeq(input))
    BY DEF InputInv, ControlInv
  <1>2. cols \in Seq(Row) /\ M \in Nat
    BY <1>1
  <1>3. P \in Seq(Row) /\ Upto(input, taken) = P \o cols /\ Sortable(query, P \o cols)
    <2>1. P \in Seq(Row)
      BY <1>1, UptoIs
    <2>2. Upto(input, taken) = P \o cols
      BY <1>1, UptoIs
    <2>3. Sortable(query, Upto(input, taken))
      BY <1>1, UptoSortable
    <2> QED BY <2>1, <2>2, <2>3
  <1> HIDE DEF P, M
  <1>4. \A n \in 0..M : Held(n) = P \o SubSeq(cols, 1, n)
    BY DEF Held, P
  <1>5. ASSUME NEW m \in 0..M, NEW n \in 0..M, m <= n
        PROVE  /\ SubSeq(cols, m + 1, n) \in Seq(Row) /\ Len(SubSeq(cols, m + 1, n)) = n - m
               /\ SubSeq(cols, 1, m) \in Seq(Row)
               /\ SubSeq(cols, 1, m) \o SubSeq(cols, m + 1, n) = SubSeq(cols, 1, n)
    <2>1. \A j \in (m + 1)..n : cols[j] \in Row
      BY <1>2 DEF M
    <2>2. \A j \in 1..m : cols[j] \in Row
      BY <1>2 DEF M
    <2>3. SubSeq(cols, m + 1, n) \in Seq(Row) /\ Len(SubSeq(cols, m + 1, n)) = IF m + 1 <= n THEN n - (m + 1) + 1 ELSE 0
      <3>1. m + 1 \in Int /\ n \in Int
        BY <1>2
      <3> QED BY <2>1, <3>1, SubSeqProperties
    <2>4. SubSeq(cols, 1, m) \in Seq(Row)
      <3>1. 1 \in Int /\ m \in Int
        BY <1>2
      <3> QED BY <2>2, <3>1, SubSeqProperties
    <2>5. SubSeq(cols, 1, m) \o SubSeq(cols, m + 1, n) = SubSeq(cols, 1, n)
      <3>1. 1 \in 1..(Len(cols) + 1) /\ m \in (1 - 1)..Len(cols) /\ n \in m..Len(cols)
        BY <1>2, <1>5 DEF M
      <3> QED BY <1>2, <3>1, ConcatAdjacentSubSeq
    <2>6. (IF m + 1 <= n THEN n - (m + 1) + 1 ELSE 0) = n - m
      BY <1>2, <1>5
    <2> QED BY <2>3, <2>4, <2>5, <2>6
  <1>6. ASSUME NEW m \in 0..M, NEW n \in 0..M, m <= n
        PROVE  Held(m) \in Seq(Row) /\ Held(m) \o SubSeq(cols, m + 1, n) = Held(n)
    <2> DEFINE x == SubSeq(cols, 1, m)
               y == SubSeq(cols, m + 1, n)
    <2>1. x \in Seq(Row) /\ y \in Seq(Row) /\ x \o y = SubSeq(cols, 1, n)
      BY <1>5, <1>6
    <2>2. Held(m) = P \o x /\ Held(n) = P \o SubSeq(cols, 1, n)
      BY <1>4
    <2> HIDE DEF x, y
    <2>3. P \o x \in Seq(Row)
      BY <1>3, <2>1
    <2>4. (P \o x) \o y = P \o (x \o y)
      <3>1. P \in Seq(Row) /\ x \in Seq(Row) /\ y \in Seq(Row)
        BY <1>3, <2>1
      <3> QED BY <3>1, ConcatAssociative
    <2> QED BY <2>1, <2>2, <2>3, <2>4 DEF y
  <1>7. Held(M) = P \o cols
    <2>1. SubSeq(cols, 1, M) = cols
      BY <1>2, SubSeqFull DEF M
    <2> QED BY <1>2, <1>4, <2>1
  <1>8. Held(0) = P
    <2>1. SubSeq(cols, 1, 0) = <<>> /\ 0 \in 0..M
      BY <1>2, SubSeqEmpty
    <2>2. P \o <<>> = P
      BY <1>3
    <2> QED BY <1>4, <2>1, <2>2
  <1>9. ASSUME NEW n \in 0..M PROVE Held(n) \in Seq(Row) /\ Sortable(query, Held(n))
    <2> DEFINE x == Held(n)
               y == SubSeq(cols, n + 1, M)
    <2>1. M \in 0..M /\ n <= M
      BY <1>2
    <2>2. x \in Seq(Row) /\ y \in Seq(Row) /\ x \o y = P \o cols
      BY <1>5, <1>6, <1>7, <2>1
    <2>3. Sortable(query, x)
      <3> HIDE DEF x, y
      <3>1. Sortable(query, x \o y)
        BY <1>3, <2>2
      <3> QED BY <2>2, <3>1, SortablePrefix
    <2> QED BY <2>2, <2>3
  <1> QED BY <1>3, <1>5, <1>6, <1>7, <1>8, <1>9 DEF M, P

\* What has no part in the sort's state does not change it.
SortVars == <<query, input, taken, live, pc, cols, i, vec, count, out>>

LEMMA SortStays ==
    ASSUME SInv, UNCHANGED SortVars
    PROVE  SInv'
  BY DEF SInv, InputInv, ControlInv, VecInv, SortVars, Held, Largest

LEMMA CallKeeps ==
    ASSUME SInv, Call
    PROVE  SInv'
  <1> USE DEF Call
  <1>1. InputInv' /\ (ControlInv /\ live /\ pc = "idle" /\ taken = 0 => Upto(input, taken) = <<>>)
    <2>1. InputInv'
      BY DEF SInv, InputInv
    <2> QED BY <2>1, PullRows DEF SInv
  <1>2. CASE live
    <2>1. pc = "idle" /\ taken = 0
      BY <1>2 DEF SInv, ControlInv
    <2>2. ControlInv'
      BY <1>2, <2>1 DEF SInv, ControlInv
    <2>3. Upto(input, taken) = <<>> /\ Sortable(query, <<>>)
      BY <1>1, <1>2, <2>1, PullRows DEF SInv
    <2>4. Best(query, <<>>) = <<>>
      BY <2>3, BestOfNone
    <2>5. VecInv'
      BY <1>2, <2>1, <2>3, <2>4 DEF VecInv
    <2> QED BY <1>1, <2>2, <2>5 DEF SInv
  <1>3. CASE ~live
    <2>1. pc = "ended" /\ UNCHANGED SortVars
      BY <1>3 DEF SInv, ControlInv, SortVars
    <2> QED BY <2>1, SortStays
  <1> QED BY <1>2, <1>3

LEMMA PullCountKeeps ==
    ASSUME SInv, PullCount
    PROVE  SInv'
  <1> USE DEF PullCount
  <1>1. InputInv'
    BY DEF SInv, InputInv
  <1> DEFINE P == Upto(input, taken)
             B == input[taken + 1]
  <1>2. taken \in 0..Len(input) /\ Len(input) \in Nat /\ taken # Len(input)
    BY DEF SInv, InputInv, ControlInv
  <1>3. P \in Seq(Row) /\ B \in Seq(Row) /\ Upto(input, taken + 1) = P \o B /\ taken + 1 \in 0..Len(input)
    BY <1>2, PullRows DEF SInv
  <1>4. Len(P) \in Nat /\ Len(B) \in Nat /\ Len(P \o B) = Len(P) + Len(B) /\ count = Len(P)
    <2>1. count = Len(P)
      BY DEF SInv, VecInv
    <2> HIDE DEF P, B
    <2> QED BY <1>3, <2>1
  <1>5. count' = count + Len(B) /\ taken' = taken + 1
    OBVIOUS
  <1> HIDE DEF P, B
  <1>6. count' \in Nat /\ count' = Len(Upto(input', taken'))
    BY <1>3, <1>4, <1>5
  <1>7. ControlInv'
    BY <1>3, <1>6 DEF SInv, ControlInv
  <1>8. VecInv'
    BY <1>6 DEF SInv, VecInv
  <1> QED BY <1>1, <1>7, <1>8 DEF SInv

LEMMA PullKeeps ==
    ASSUME SInv, Pull
    PROVE  SInv'
  <1> USE DEF Pull
  <1>1. InputInv'
    BY DEF SInv, InputInv
  <1> DEFINE P == Upto(input, taken)
             B == input[taken + 1]
  <1>2. taken \in 0..Len(input) /\ Len(input) \in Nat /\ taken # Len(input) /\ query.cols # 0
    BY DEF SInv, InputInv, ControlInv
  <1>3. /\ P \in Seq(Row) /\ B \in Seq(Row) /\ Upto(input, taken + 1) = P \o B /\ taken + 1 \in 0..Len(input)
    BY <1>2, PullRows DEF SInv
  <1>4. cols' = B /\ taken' = taken + 1
    OBVIOUS
  <1>5. vec = IF query.limit # NoLimit THEN Best(query, P) ELSE P
    BY <1>2 DEF SInv, VecInv
  <1> HIDE DEF P, B
  <1>6. Len(B) \in Nat /\ i' \in 0..Len(cols')
    BY <1>3, <1>4
  <1>7. ControlInv'
    <2>1. cols' \in Seq(Row) /\ taken' \in 0..Len(input')
      BY <1>3, <1>4
    <2>2. pc' \in {"pull", "chunk"}
      OBVIOUS
    <2> QED BY <1>6, <2>1, <2>2 DEF SInv, ControlInv
  <1>8. CASE Limited
    <2>1. Held(i)' = P
      <3>1. taken' - 1 = taken /\ SubSeq(cols', 1, 0) = <<>>
        BY <1>2, <1>4, SubSeqEmpty
      <3>2. Held(i)' = Upto(input, taken) \o <<>>
        BY <1>8, <3>1 DEF Held
      <3> QED BY <1>3, <3>2 DEF P
    <2>2. vec' = Best(query', Held(i)')
      BY <1>5, <1>8, <2>1 DEF Limited
    <2>3. taken' # 0 /\ cols' = input'[taken'] /\ pc' = "chunk" /\ query'.cols # 0 /\ query'.limit # NoLimit
      BY <1>2, <1>4, <1>8 DEF Limited
    <2>4. VecInv'
      BY <2>2, <2>3 DEF VecInv
    <2> QED BY <1>1, <1>7, <2>4 DEF SInv
  <1>9. CASE ~Limited
    <2>1. vec' = Upto(input', taken') /\ pc' = "pull"
      BY <1>3, <1>4, <1>5, <1>9 DEF Limited
    <2>2. query'.cols # 0 /\ ~(query'.limit # NoLimit)
      BY <1>2, <1>9 DEF Limited
    <2>3. VecInv'
      BY <2>1, <2>2 DEF VecInv
    <2> QED BY <1>1, <1>7, <2>3 DEF SInv
  <1> QED BY <1>8, <1>9

LEMMA AppendChunkKeeps ==
    ASSUME SInv, AppendChunk
    PROVE  SInv'
  <1> USE DEF AppendChunk
  <1> DEFINE d == Least(Stride, Len(cols) - i)
  <1>1. InputInv'
    BY DEF SInv, InputInv
  <1>2. /\ Len(cols) \in Nat /\ i \in 0..Len(cols) /\ i < Len(cols) /\ Limited
        /\ vec = Best(query, Held(i)) /\ query.limit \in Nat
    <2>1. Len(cols) \in Nat /\ i \in 0..Len(cols) /\ i < Len(cols) /\ vec = Best(query, Held(i)) /\ Limited
      BY DEF SInv, ControlInv, VecInv, Limited
    <2>2. query.limit \in Nat
      BY <2>1 DEF SInv, InputInv, Sortable, Limited
    <2> QED BY <2>1, <2>2
  <1>3. d \in Nat /\ d <= Largest /\ i + d \in 0..Len(cols)
    <2> DEFINE M == Len(cols)
               L == query.limit
    <2> HIDE DEF M, L
    <2>1. L \in Nat /\ M \in Nat /\ i \in 0..M /\ i < M /\ MinStride \in Nat
      BY <1>2, StrideAssumption DEF L, M
    <2>2. Largest = IF MinStride < L THEN L ELSE MinStride
      BY DEF Largest, L
    <2>3. d = Least(IF MinStride < L THEN L ELSE MinStride, M - i)
      BY DEF Stride, L, M
    <2> HIDE DEF d
    <2> QED BY <2>1, <2>2, <2>3 DEF Least, M
  <1>4. vec' = vec \o SubSeq(cols, i + 1, i + d) /\ i' = i + d
    OBVIOUS
  <1> HIDE DEF d
  <1>5. ControlInv'
    BY <1>3, <1>4 DEF SInv, ControlInv
  <1>6. d \in 0..i' /\ i' - d = i /\ i' - d + 1 = i + 1
    <2> DEFINE j == i'
    <2>1. j = i + d /\ i \in Nat
      BY <1>2, <1>4
    <2> HIDE DEF j
    <2>2. d \in 0..j /\ j - d = i /\ j - d + 1 = i + 1
      BY <1>3, <2>1
    <2> QED BY <2>2 DEF j
  <1> DEFINE OneMore(e, j) ==
               vec' = Best(query', Upto(input', taken' - 1) \o SubSeq(cols', 1, j - e)) \o SubSeq(cols', j - e + 1, j)
  <1>7. OneMore(d, i')
    <2>1. Held(i) = Upto(input', taken' - 1) \o SubSeq(cols', 1, i' - d)
      BY <1>6 DEF Held
    <2>2. vec' = Best(query', Held(i)) \o SubSeq(cols', i' - d + 1, i')
      BY <1>2, <1>4, <1>6
    <2> QED BY <2>1, <2>2
  <1>8. Largest' = Largest
    BY DEF Largest
  <1> HIDE DEF OneMore
  <1>9. \E e \in 0..i' : e <= Largest' /\ OneMore(e, i')
    BY <1>3, <1>6, <1>7, <1>8
  <1>10. VecInv'
    <2>1. pc' = "sort" /\ query'.cols # 0 /\ query'.limit # NoLimit /\ taken' # 0 /\ cols' = input'[taken']
      BY DEF SInv, VecInv
    <2>2. (\E e \in 0..i : e <= Largest /\ vec = Best(query, Held(i - e)) \o SubSeq(cols, i - e + 1, i))'
      BY <1>9 DEF Held, OneMore
    <2> QED BY <2>1, <2>2 DEF VecInv
  <1> QED BY <1>1, <1>5, <1>10 DEF SInv

LEMMA SortChunkKeeps ==
    ASSUME SInv, SortChunk
    PROVE  SInv'
  <1> USE DEF SortChunk
  <1>1. InputInv' /\ ControlInv'
    BY DEF SInv, InputInv, ControlInv
  <1>2. Limited /\ taken # 0 /\ cols = input[taken]
    BY DEF SInv, VecInv, Limited
  <1>3. PICK d \in 0..i : vec = Best(query, Held(i - d)) \o SubSeq(cols, i - d + 1, i)
    BY DEF SInv, VecInv
  <1>4. i - d \in 0..Len(cols) /\ i \in 0..Len(cols) /\ i - d <= i
    BY DEF SInv, ControlInv
  <1> DEFINE A == Held(i - d)
             B == SubSeq(cols, i - d + 1, i)
  <1>5. A \in Seq(Row) /\ B \in Seq(Row) /\ A \o B = Held(i) /\ Sortable(query, Held(i))
    BY <1>2, <1>4, ChunkRows DEF SInv
  <1> HIDE DEF A, B
  <1>6. SortColumns(Best(query, A) \o B) = Best(query, A \o B)
    BY <1>2, <1>5, BestOfMore
  <1>7. vec' = Best(query, Held(i))
    BY <1>3, <1>5, <1>6 DEF A, B
  <1>8. Held(i)' = Held(i)
    BY DEF Held
  <1>9. VecInv'
    BY <1>7, <1>8 DEF SInv, VecInv
  <1> QED BY <1>1, <1>9 DEF SInv

LEMMA EndBatchKeeps ==
    ASSUME SInv, EndBatch
    PROVE  SInv'
  <1> USE DEF EndBatch
  <1>1. InputInv' /\ ControlInv'
    BY DEF SInv, InputInv, ControlInv
  <1>2. Limited /\ taken # 0 /\ cols = input[taken] /\ vec = Best(query, Held(i))
    BY DEF SInv, VecInv, Limited
  <1>3. i = Len(cols) /\ i \in 0..Len(cols)
    BY DEF SInv, ControlInv
  <1>4. Held(i) = Upto(input, taken) /\ Sortable(query, Held(i))
    BY <1>2, <1>3, ChunkRows DEF SInv
  <1>5. SortColumns(vec) = vec
    BY <1>2, <1>4, BestAgain
  <1>6. vec' = Best(query, Upto(input, taken))
    BY <1>2, <1>4, <1>5
  <1>7. VecInv'
    BY <1>2, <1>6 DEF SInv, VecInv, Limited
  <1> QED BY <1>1, <1>7 DEF SInv

LEMMA FinishKeeps ==
    ASSUME SInv, Finish
    PROVE  SInv'
  <1> USE DEF Finish
  <1>1. InputInv' /\ ControlInv'
    BY DEF SInv, InputInv, ControlInv
  <1> DEFINE s == Upto(input, taken)
             b == Best(query, s)
  <1>2. s \in Seq(Row) /\ Sortable(query, s)
    BY PullRows DEF SInv
  <1>3. out = <<>>
    BY DEF SInv, ControlInv
  <1> HIDE DEF s
  <1>4. /\ SortColumns(s) = b
        /\ Len(b) = IF Limited THEN Least(Len(s), query.limit) ELSE Len(s)
    BY <1>2, BestIs
  <1>5. CASE query.cols = 0
    <2>1. count = Len(s)
      BY <1>5 DEF SInv, VecInv, s
    <2>2. out' = <<[n |-> Len(b), rows |-> <<>>]>>
      <3>1. out' = Append(out, [n |-> IF Limited THEN Least(count, query.limit) ELSE count, rows |-> <<>>])
        BY <1>5
      <3> HIDE DEF b
      <3> QED BY <1>3, <1>4, <2>1, <3>1
    <2>3. vec' = <<>>
      BY <1>5 DEF SInv, VecInv
    <2>4. VecInv'
      BY <1>5, <2>2, <2>3 DEF VecInv, s
    <2> QED BY <1>1, <2>4 DEF SInv
  <1>6. CASE query.cols # 0
    <2>1. vec = IF query.limit # NoLimit THEN b ELSE s
      BY <1>6 DEF SInv, VecInv, s
    <2>2. SortColumns(vec) = b
      <3>1. Limited => SortColumns(b) = b
        BY <1>2, BestAgain
      <3> HIDE DEF b
      <3> QED BY <1>4, <2>1, <3>1 DEF Limited
    <2>3. vec' = b /\ out' = <<[n |-> Len(b), rows |-> b]>>
      <3> HIDE DEF b
      <3> QED BY <1>3, <1>6, <2>2
    <2>4. VecInv'
      BY <1>6, <2>3 DEF VecInv, s
    <2> QED BY <1>1, <2>4 DEF SInv
  <1> QED BY <1>5, <1>6

LEMMA SortKeeps ==
    ASSUME SInv, Next
    PROVE  SInv'
  BY CallKeeps, PullCountKeeps, PullKeeps, AppendChunkKeeps, SortChunkKeeps, EndBatchKeeps, FinishKeeps
  DEF Next

-----------------------------------------------------------------------------
\* What this says of the properties.
LEMMA SInvGives ==
    ASSUME SInv
    PROVE  KeepsTheTop /\ ResultIsSorted
  <1> DEFINE s == Upto(input, taken)
             F == FlattenSeq(input)
  <1>1. s \in Seq(Row) /\ Sortable(query, s) /\ Rows = s
    BY PullRows DEF SInv, Rows, Upto
  <1>2. Top(s) = Best(query, s) /\ Best(query, s) \in Seq(ToSet(s))
    BY <1>1, BestIs
  <1>3. ToSet(s) \subseteq ToSet(F)
    <2>1. input \in Seq(Seq(Row)) /\ taken \in 0..Len(input)
      BY DEF SInv, InputInv, ControlInv
    <2>2. PICK r \in Seq(Row) : F = s \o r
      BY <2>1, UptoPrefix
    <2>3. ToSet(s \o r) = ToSet(s) \cup ToSet(r)
      BY <1>1, JoinedSet
    <2> QED BY <2>2, <2>3
  <1> HIDE DEF s, F
  <1>4. \A b : b \in Seq(ToSet(s)) => ToSet(b) \subseteq ToSet(s)
    BY DEF ToSet
  <1>5. pc \in {"chunk", "sort"} =>
          \A n \in 0..Len(cols) : /\ Held(n) \in Seq(Row) /\ Sortable(query, Held(n))
                                  /\ ToSet(Held(n)) \subseteq ToSet(s)
                                  /\ ToSet(Best(query, Held(n))) \subseteq ToSet(s)
                                  /\ Best(query, Held(n)) \in Seq(Row)
                                  /\ Len(Best(query, Held(n))) <= query.limit /\ query.limit \in Nat
    <2> SUFFICES ASSUME pc \in {"chunk", "sort"}, NEW n \in 0..Len(cols)
                 PROVE  /\ Held(n) \in Seq(Row) /\ Sortable(query, Held(n))
                        /\ ToSet(Held(n)) \subseteq ToSet(s)
                        /\ ToSet(Best(query, Held(n))) \subseteq ToSet(s)
                        /\ Best(query, Held(n)) \in Seq(Row)
                        /\ Len(Best(query, Held(n))) <= query.limit /\ query.limit \in Nat
      OBVIOUS
    <2>1. taken # 0 /\ cols = input[taken] /\ Limited
      BY DEF SInv, VecInv, Limited
    <2> DEFINE h == Held(n)
               y == SubSeq(cols, n + 1, Len(cols))
    <2>2. Len(cols) \in 0..Len(cols) /\ n <= Len(cols)
      BY DEF SInv, ControlInv
    <2>3. h \in Seq(Row) /\ Sortable(query, h) /\ y \in Seq(Row) /\ h \o y = s
      BY <2>1, <2>2, ChunkRows DEF SInv, s
    <2> HIDE DEF h, y
    <2>4. ToSet(h) \subseteq ToSet(s)
      <3>1. ToSet(h \o y) = ToSet(h) \cup ToSet(y)
        <4>1. h \in Seq(Row) /\ y \in Seq(Row)
          BY <2>3
        <4> QED BY <4>1, JoinedSet
      <3> QED BY <2>3, <3>1
    <2>5. /\ Best(query, h) \in Seq(ToSet(h)) /\ Best(query, h) \in Seq(Row)
          /\ Len(Best(query, h)) <= query.limit /\ query.limit \in Nat
      BY <2>1, <2>3, BestIs
    <2>6. ToSet(Best(query, h)) \subseteq ToSet(h)
      <3> DEFINE b == Best(query, h)
      <3> HIDE DEF b
      <3>1. b \in Seq(ToSet(h))
        BY <2>5 DEF b
      <3>2. \A k \in DOMAIN b : b[k] \in ToSet(h)
        BY <3>1
      <3> QED BY <3>2 DEF ToSet, b
    <2> QED BY <2>3, <2>4, <2>5, <2>6 DEF h
  <1>6. CASE pc = "sort"
    <2>1. PICK d \in 0..i : d <= Largest /\ vec = Best(query, Held(i - d)) \o SubSeq(cols, i - d + 1, i)
      BY <1>6 DEF SInv, VecInv
    <2>2. /\ i - d \in 0..Len(cols) /\ i \in 0..Len(cols) /\ i - d <= i /\ i - (i - d) = d
          /\ taken # 0 /\ cols = input[taken] /\ d \in Nat
      BY <1>6 DEF SInv, ControlInv, VecInv
    <2> DEFINE A == Best(query, Held(i - d))
               B == SubSeq(cols, i - d + 1, i)
               L == query.limit
    <2>3. A \in Seq(Row) /\ ToSet(A) \subseteq ToSet(s) /\ Len(A) <= L /\ L \in Nat
      BY <1>5, <1>6, <2>2
    <2>4. B \in Seq(Row) /\ Len(B) = d /\ Held(i - d) \o B = Held(i)
      BY <2>2, ChunkRows DEF SInv
    <2>5. ToSet(B) \subseteq ToSet(s)
      <3> DEFINE h == Held(i - d)
      <3>1. h \in Seq(Row) /\ ToSet(Held(i)) \subseteq ToSet(s)
        BY <1>5, <1>6, <2>2
      <3> HIDE DEF h, B
      <3>2. ToSet(h \o B) = ToSet(h) \cup ToSet(B)
        BY <2>4, <3>1, JoinedSet
      <3> QED BY <2>4, <3>1, <3>2 DEF h
    <2> HIDE DEF A, B
    <2>6. vec = A \o B
      BY <2>1 DEF A, B
    <2>7. ToSet(vec) \subseteq ToSet(s)
      BY <2>3, <2>4, <2>5, <2>6, JoinedSet
    <2>8. Len(vec) <= L + Largest
      <3>1. Len(vec) = Len(A) + d /\ Len(A) \in Nat
        BY <2>3, <2>4, <2>6
      <3>2. Largest \in Nat
        BY <2>3, StrideAssumption DEF Largest
      <3> HIDE DEF L
      <3> QED BY <2>1, <2>2, <2>3, <3>1, <3>2
    <2> HIDE DEF L
    <2>9. TypeOK
      BY <1>3, <1>6, <2>7 DEF TypeOK, SInv, ControlInv, F
    <2>10. KeepsTheTop
      BY <1>6, <2>8, <2>9 DEF KeepsTheTop, Largest, L
    <2>11. ResultIsSorted
      BY <1>6 DEF ResultIsSorted, SInv, ControlInv
    <2> QED BY <2>10, <2>11
  <1>7. CASE pc # "sort"
    <2>1. ToSet(vec) \subseteq ToSet(s)
      <3>1. ToSet(<<>>) \subseteq ToSet(s)
        BY DEF ToSet
      <3>2. CASE pc = "idle" \/ query.cols = 0
        BY <3>1, <3>2 DEF SInv, VecInv
      <3>3. CASE pc = "chunk"
        <4>1. i \in 0..Len(cols)
          BY DEF SInv, ControlInv
        <4> QED BY <1>5, <3>3, <4>1 DEF SInv, VecInv
      <3>4. CASE pc \in {"pull", "ended"} /\ query.cols # 0
        <4>1. vec = Best(query, s) \/ vec = s
          BY <3>4 DEF SInv, VecInv, s
        <4> QED BY <1>2, <1>4, <4>1
      <3>5. pc \in {"idle", "pull", "chunk", "sort", "ended"}
        BY DEF SInv, ControlInv
      <3> QED BY <1>7, <3>2, <3>3, <3>4, <3>5
    <2>2. Len(out) <= 1
      <3>1. out = <<>> \/ \E r : out = <<r>>
        BY DEF SInv, ControlInv, VecInv
      <3>2. CASE out = <<>>
        BY <3>2
      <3>3. ASSUME NEW r, out = <<r>> PROVE Len(out) <= 1
        BY <3>3
      <3> QED BY <3>1, <3>2, <3>3
    <2>3. TypeOK
      BY <1>3, <2>1, <2>2 DEF TypeOK, SInv, ControlInv, F
    <2>4. pc = "pull" /\ query.cols > 0 /\ Limited => vec = Top(Rows)
      <3>1. query.cols > 0 => query.cols # 0
        BY DEF SInv, InputInv
      <3> QED BY <1>1, <1>2, <3>1 DEF SInv, VecInv, Limited, s
    <2>5. KeepsTheTop
      BY <1>7, <2>3, <2>4 DEF KeepsTheTop
    <2>6. ResultIsSorted
      <3>1. out # <<>> => pc = "ended"
        BY DEF SInv, ControlInv
      <3>2. pc = "ended" => /\ taken = Len(input)
                            /\ out = <<[n |-> Len(Best(query, s)), rows |-> IF query.cols = 0 THEN <<>> ELSE Best(query, s)]>>
        BY DEF SInv, VecInv, s
      <3> QED BY <1>1, <1>2, <3>1, <3>2 DEF ResultIsSorted
    <2> QED BY <2>5, <2>6
  <1> QED BY <1>6, <1>7

-----------------------------------------------------------------------------
(* The maps of the group-by: sequences without repetition.                 *)

Distinct(map) == \A m, n \in 1..Len(map) : map[m] = map[n] => m = n

LEMMA InsertIs ==
    ASSUME NEW S, NEW map \in Seq(S), NEW x \in S, Distinct(map)
    PROVE  LET t == G!Insert(map, x)
           IN  /\ t \in Seq(S) /\ Distinct(t) /\ ToSet(t) = ToSet(map) \cup {x}
               /\ Len(map) <= Len(t) /\ \A n \in 1..Len(map) : t[n] = map[n]
               /\ x \in ToSet(map) => t = map
               /\ x \notin ToSet(map) => Len(t) = Len(map) + 1 /\ t[Len(map) + 1] = x
  <1> DEFINE t == G!Insert(map, x)
             N == Len(map)
  <1>1. N \in Nat /\ DOMAIN map = 1..N
    OBVIOUS
  <1>2. CASE x \in ToSet(map)
    <2>1. t = map
      BY <1>2 DEF G!Insert, G!Has, G!ToSet, ToSet
    <2>2. ToSet(map) = ToSet(map) \cup {x}
      BY <1>2
    <2> HIDE DEF t
    <2>3. /\ t \in Seq(S) /\ Distinct(t) /\ ToSet(t) = ToSet(map) \cup {x}
          /\ Len(map) <= Len(t) /\ \A n \in 1..Len(map) : t[n] = map[n]
      BY <1>1, <2>1, <2>2
    <2> QED BY <1>2, <2>1, <2>3 DEF t
  <1>3. CASE x \notin ToSet(map)
    <2>1. t = Append(map, x)
      BY <1>3 DEF G!Insert, G!Has, G!ToSet, ToSet
    <2> HIDE DEF t
    <2>2. t \in Seq(S) /\ Len(t) = N + 1 /\ DOMAIN t = 1..(N + 1) /\ t[N + 1] = x /\ \A n \in 1..N : t[n] = map[n]
      BY <2>1
    <2>3. \A n \in 1..N : map[n] # x
      BY <1>1, <1>3 DEF ToSet
    <2> HIDE DEF N
    <2>4. Distinct(t)
      <3> SUFFICES ASSUME NEW m \in 1..(N + 1), NEW n \in 1..(N + 1), t[m] = t[n] PROVE m = n
        BY <2>2 DEF Distinct
      <3>1. CASE m = N + 1 /\ n = N + 1
        BY <3>1
      <3>2. CASE m # N + 1 /\ n # N + 1
        <4>1. m \in 1..N /\ n \in 1..N
          BY <1>1, <3>2
        <4>2. map[m] = map[n]
          BY <2>2, <4>1
        <4> QED BY <4>1, <4>2 DEF Distinct, N
      <3>3. CASE m = N + 1 /\ n # N + 1
        <4>1. n \in 1..N
          BY <1>1, <3>3
        <4> QED BY <2>2, <2>3, <3>3, <4>1
      <3>4. CASE m # N + 1 /\ n = N + 1
        <4>1. m \in 1..N
          BY <1>1, <3>4
        <4> QED BY <2>2, <2>3, <3>4, <4>1
      <3> QED BY <3>1, <3>2, <3>3, <3>4
    <2>5. ToSet(t) = {t[n] : n \in 1..(N + 1)} /\ ToSet(map) = {map[n] : n \in 1..N}
      BY <1>1, <2>2 DEF ToSet
    <2>6. \A n \in 1..(N + 1) : n \in 1..N \/ n = N + 1
      BY <1>1
    <2>7. \A n \in 1..N : n \in 1..(N + 1)
      BY <1>1
    <2>8. N + 1 \in 1..(N + 1)
      BY <1>1
    <2>9. ToSet(t) = ToSet(map) \cup {x}
      <3>1. ASSUME NEW y \in ToSet(t) PROVE y \in ToSet(map) \cup {x}
        BY <2>2, <2>5, <2>6
      <3>2. ASSUME NEW y \in ToSet(map) \cup {x} PROVE y \in ToSet(t)
        BY <2>2, <2>5, <2>7, <2>8
      <3> QED BY <3>1, <3>2
    <2>10. N <= Len(t)
      BY <1>1, <2>2
    <2> QED BY <1>3, <2>2, <2>4, <2>9, <2>10 DEF N, t
  <1> QED BY <1>2, <1>3

IsInserting(f, map, values, n) ==
    f = [k \in 0..n |-> IF k = 0 THEN map ELSE G!Insert(f[k - 1], values[k])]

LEMMA InsertingExists ==
    ASSUME NEW map, NEW values, NEW n \in Nat
    PROVE  \E f : IsInserting(f, map, values, n)
  <1> DEFINE Bad == {m \in Nat : ~\E f : IsInserting(f, map, values, m)}
  <1>1. SUFFICES ASSUME Bad # {} PROVE FALSE
    OBVIOUS
  <1>2. PICK m \in Bad : \A k \in Bad : m <= k
    <2>1. Bad \subseteq Nat
      OBVIOUS
    <2> HIDE DEF Bad
    <2> QED BY <1>1, <2>1, LeastNat
  <1>3. m # 0
    <2> DEFINE f == [k \in 0..0 |-> map]
    <2>1. IsInserting(f, map, values, 0)
      BY DEF IsInserting
    <2> QED BY <1>2, <2>1
  <1>4. m \in Nat /\ m - 1 \in Nat /\ ~(m <= m - 1)
    BY <1>2, <1>3
  <1>5. PICK f : IsInserting(f, map, values, m - 1)
    BY <1>2, <1>4
  <1> DEFINE Step(k, x) == G!Insert(x, values[k])
             g == [k \in 0..m |-> IF k = m THEN Step(m, f[m - 1]) ELSE f[k]]
  <1>6. ASSUME NEW k \in 0..m PROVE g[k] = IF k = 0 THEN map ELSE Step(k, g[k - 1])
    <2>1. \A j \in 0..(m - 1) : f[j] = IF j = 0 THEN map ELSE Step(j, f[j - 1])
      BY <1>5 DEF IsInserting
    <2> HIDE DEF Step
    <2>2. CASE k = 0
      BY <1>3, <1>4, <2>1, <2>2
    <2>3. CASE k # 0 /\ k # m
      <3>1. k \in 0..(m - 1) /\ k - 1 \in 0..m /\ k - 1 # m
        BY <1>4, <2>3
      <3>2. g[k] = f[k] /\ g[k - 1] = f[k - 1]
        BY <2>3, <3>1
      <3> QED BY <2>1, <2>3, <3>1, <3>2
    <2>4. CASE k = m
      <3>1. k - 1 \in 0..m /\ k - 1 # m
        BY <1>3, <1>4, <2>4
      <3> QED BY <1>3, <2>4, <3>1
    <2> QED BY <2>2, <2>3, <2>4
  <1>7. g = [k \in 0..m |-> g[k]]
    OBVIOUS
  <1> HIDE DEF g
  <1>8. g = [k \in 0..m |-> IF k = 0 THEN map ELSE Step(k, g[k - 1])]
    <2> HIDE DEF Step
    <2> QED BY <1>6, <1>7
  <1>9. IsInserting(g, map, values, m)
    BY <1>8 DEF IsInserting
  <1> QED BY <1>2, <1>9

\* The map when the first k of the values have been inserted.
Inserted(map, values) == CHOOSE f : IsInserting(f, map, values, Len(values))

LEMMA InsertAllDef ==
    ASSUME NEW map, NEW values, Len(values) \in Nat
    PROVE  LET f == Inserted(map, values)
           IN  /\ G!InsertAll(map, values) = f[Len(values)]
               /\ f[0] = map
               /\ \A k \in 1..Len(values) : f[k] = G!Insert(f[k - 1], values[k])
  <1> DEFINE f == Inserted(map, values)
             n == Len(values)
  <1>1. IsInserting(f, map, values, n)
    BY InsertingExists DEF Inserted
  <1>2. G!InsertAll(map, values) = f[n]
    BY DEF G!InsertAll, Inserted, IsInserting
  <1> HIDE DEF f
  <1> DEFINE Step(k, x) == G!Insert(x, values[k])
  <1>3. f = [k \in 0..n |-> IF k = 0 THEN map ELSE Step(k, f[k - 1])]
    BY <1>1 DEF IsInserting
  <1> HIDE DEF Step, n
  <1>4. f[0] = map /\ \A k \in 1..n : f[k] = Step(k, f[k - 1])
    <2>1. n \in Nat
      BY DEF n
    <2>2. \A k \in 0..n : f[k] = IF k = 0 THEN map ELSE Step(k, f[k - 1])
      BY <1>3
    <2>3. 0 \in 0..n /\ \A k \in 1..n : k \in 0..n /\ k # 0
      BY <2>1
    <2> QED BY <2>2, <2>3
  <1> QED BY <1>2, <1>4 DEF f, Step, n

LEMMA GFlatten == \A seqs : G!FlattenSeq(seqs) = FlattenSeq(seqs)
  BY DEF G!FlattenSeq, FlattenSeq

LEMMA GToSet == \A s : G!ToSet(s) = ToSet(s)
  BY DEF G!ToSet, ToSet

\* A map after insertions has the values and keeps its numbers.
Extends(map, t) == Len(map) \in Nat /\ Len(t) \in Nat /\ Len(map) <= Len(t) /\ \A n \in 1..Len(map) : t[n] = map[n]

LEMMA InsertAllIs ==
    ASSUME NEW S, NEW map \in Seq(S), NEW values \in Seq(S), Distinct(map)
    PROVE  LET t == G!InsertAll(map, values)
           IN  t \in Seq(S) /\ Distinct(t) /\ ToSet(t) = ToSet(map) \cup ToSet(values) /\ Extends(map, t)
  <1> DEFINE N == Len(values)
             f == Inserted(map, values)
             Good(k) == /\ f[k] \in Seq(S) /\ Distinct(f[k]) /\ Extends(map, f[k])
                        /\ ToSet(f[k]) = ToSet(map) \cup {values[j] : j \in 1..k}
             Bad == {k \in 0..N : ~Good(k)}
  <1>1. N \in Nat /\ \A k \in 1..N : values[k] \in S
    OBVIOUS
  <1>2. G!InsertAll(map, values) = f[N] /\ f[0] = map /\ \A k \in 1..N : f[k] = G!Insert(f[k - 1], values[k])
    BY <1>1, InsertAllDef
  <1>3. ToSet(values) = {values[j] : j \in 1..N}
    BY DEF ToSet
  <1> HIDE DEF f, N
  <1>4. Good(0)
    <2>1. Extends(map, map)
      BY DEF Extends
    <2>2. {values[j] : j \in 1..0} = {}
      OBVIOUS
    <2> QED BY <1>2, <2>1, <2>2
  <1>5. ASSUME NEW k \in 1..N, Good(k - 1) PROVE Good(k)
    <2> DEFINE u == f[k - 1]
               t == f[k]
               x == values[k]
               V(m) == {values[j] : j \in 1..m}
    <2>1. u \in Seq(S) /\ Distinct(u) /\ Extends(map, u) /\ ToSet(u) = ToSet(map) \cup V(k - 1) /\ x \in S
      BY <1>1, <1>5
    <2>2. t = G!Insert(u, x)
      BY <1>2
    <2> HIDE DEF u, t
    <2>3. /\ t \in Seq(S) /\ Distinct(t) /\ ToSet(t) = ToSet(u) \cup {x}
          /\ Len(u) <= Len(t) /\ \A n \in 1..Len(u) : t[n] = u[n]
      <3> HIDE DEF x, V
      <3>1. u \in Seq(S) /\ Distinct(u) /\ x \in S
        BY <2>1
      <3> DEFINE v == G!Insert(u, x)
      <3>2. /\ v \in Seq(S) /\ Distinct(v) /\ ToSet(v) = ToSet(u) \cup {x}
            /\ Len(u) <= Len(v) /\ \A n \in 1..Len(u) : v[n] = u[n]
        BY <3>1, InsertIs
      <3> HIDE DEF v
      <3>3. t = v
        BY <2>2 DEF v
      <3> QED BY <3>2, <3>3
    <2>4. Extends(map, t)
      <3>1. Len(u) \in Nat /\ Len(t) \in Nat /\ Len(map) \in Nat /\ Len(map) <= Len(u)
        BY <2>1, <2>3 DEF Extends
      <3>2. Len(map) <= Len(t) /\ \A n \in 1..Len(map) : n \in 1..Len(u)
        BY <2>3, <3>1
      <3> QED BY <2>1, <2>3, <3>1, <3>2 DEF Extends
    <2>5. V(k) = V(k - 1) \cup {x}
      <3>1. \A j : j \in 1..k <=> j \in 1..(k - 1) \/ j = k
        BY <1>1
      <3> QED BY <3>1
    <2> HIDE DEF V, x
    <2>6. ToSet(t) = ToSet(map) \cup V(k)
      BY <2>1, <2>3, <2>5
    <2> QED BY <2>3, <2>4, <2>6 DEF t, V
  <1> HIDE DEF Good
  <1>6. Bad = {}
    <2> SUFFICES ASSUME Bad # {} PROVE FALSE
      OBVIOUS
    <2>1. PICK k \in Bad : \A j \in Bad : k <= j
      <3>1. Bad \subseteq Nat
        BY <1>1
      <3> HIDE DEF Bad
      <3> QED BY <3>1, LeastNat
    <2>2. k \in 0..N /\ ~Good(k)
      BY <2>1
    <2>3. k # 0
      BY <1>4, <2>2
    <2>4. k \in 1..N /\ k - 1 \in 0..N /\ ~(k <= k - 1)
      BY <1>1, <2>2, <2>3
    <2>5. Good(k - 1)
      BY <2>1, <2>4
    <2> QED BY <1>5, <2>2, <2>4, <2>5
  <1>7. Good(N)
    BY <1>1, <1>6
  <1> DEFINE t == f[N]
  <1>8. t \in Seq(S) /\ Distinct(t) /\ ToSet(t) = ToSet(map) \cup ToSet(values) /\ Extends(map, t)
    BY <1>3, <1>7 DEF Good
  <1> HIDE DEF t
  <1>9. G!InsertAll(map, values) = t
    BY <1>2 DEF t
  <1> QED BY <1>8, <1>9

\* One more value.
LEMMA InsertAllAppend ==
    ASSUME NEW map, NEW values, NEW more, NEW n \in Nat, Len(values) = n, Len(more) = n + 1,
           \A k \in 1..n : more[k] = values[k]
    PROVE  G!InsertAll(map, more) = G!Insert(G!InsertAll(map, values), more[n + 1])
  <1> DEFINE f == Inserted(map, values)
             g == Inserted(map, more)
             Bad == {k \in 0..n : f[k] # g[k]}
  <1>1. G!InsertAll(map, values) = f[n] /\ f[0] = map /\ \A k \in 1..n : f[k] = G!Insert(f[k - 1], values[k])
    BY InsertAllDef
  <1>2. /\ G!InsertAll(map, more) = g[n + 1] /\ g[0] = map
        /\ \A k \in 1..(n + 1) : g[k] = G!Insert(g[k - 1], more[k])
    <2>1. Len(more) \in Nat
      OBVIOUS
    <2> QED BY <2>1, InsertAllDef
  <1> HIDE DEF f, g
  <1>3. Bad = {}
    <2> SUFFICES ASSUME Bad # {} PROVE FALSE
      OBVIOUS
    <2>1. PICK k \in Bad : \A j \in Bad : k <= j
      <3>1. Bad \subseteq Nat
        OBVIOUS
      <3> HIDE DEF Bad
      <3> QED BY <3>1, LeastNat
    <2>2. k \in 0..n /\ f[k] # g[k]
      BY <2>1
    <2>3. k # 0
      BY <1>1, <1>2, <2>2
    <2>4. k \in 1..n /\ k \in 1..(n + 1) /\ k - 1 \in 0..n /\ ~(k <= k - 1)
      BY <2>2, <2>3
    <2>5. f[k - 1] = g[k - 1]
      BY <2>1, <2>4
    <2> QED BY <1>1, <1>2, <2>2, <2>4, <2>5
  <1>4. f[n] = g[n] /\ n + 1 \in 1..(n + 1) /\ (n + 1) - 1 = n
    BY <1>3
  <1> QED BY <1>1, <1>2, <1>4

LEMMA InsertAllNone ==
    ASSUME NEW map, NEW values, Len(values) = 0
    PROVE  G!InsertAll(map, values) = map
  BY InsertAllDef

\* The number of a value is its place.
LEMMA NumberIs ==
    ASSUME NEW map, Len(map) \in Nat, DOMAIN map = 1..Len(map), Distinct(map), NEW x
    PROVE  /\ x \in ToSet(map) <=> \E n \in 1..Len(map) : map[n] = x
           /\ \A n \in 1..Len(map) : map[n] = x => G!NumberOf(x, map) = n
  <1>1. x \in ToSet(map) <=> \E n \in 1..Len(map) : map[n] = x
    BY DEF ToSet
  <1>2. ASSUME NEW n \in 1..Len(map), map[n] = x PROVE G!NumberOf(x, map) = n
    <2> DEFINE c == CHOOSE m \in 1..Len(map) : map[m] = x
    <2>1. G!NumberOf(x, map) = c
      BY DEF G!NumberOf
    <2>2. c \in 1..Len(map) /\ map[c] = x
      BY <1>2
    <2> HIDE DEF c
    <2>3. c = n
      BY <1>2, <2>2 DEF Distinct
    <2> QED BY <2>1, <2>3
  <1> QED BY <1>1, <1>2

LEMMA NumberStays ==
    ASSUME NEW S, NEW map \in Seq(S), NEW t \in Seq(S), Distinct(map), Distinct(t), Extends(map, t),
           NEW x \in ToSet(map)
    PROVE  x \in ToSet(t) /\ G!NumberOf(x, t) = G!NumberOf(x, map)
  <1>1. /\ Len(map) \in Nat /\ DOMAIN map = 1..Len(map)
        /\ Len(t) \in Nat /\ DOMAIN t = 1..Len(t)
    OBVIOUS
  <1>2. PICK n \in 1..Len(map) : map[n] = x
    BY <1>1, NumberIs
  <1>3. n \in 1..Len(t) /\ t[n] = x
    <2>1. t[n] = x /\ Len(map) <= Len(t)
      BY <1>2 DEF Extends
    <2>2. n \in 1..Len(t)
      BY <1>1, <2>1
    <2> QED BY <2>1, <2>2
  <1> QED BY <1>1, <1>2, <1>3, NumberIs

LEMMA FlattenJoin ==
    ASSUME NEW S, NEW a \in Seq(Seq(S)), NEW b \in Seq(Seq(S))
    PROVE  a \o b \in Seq(Seq(S)) /\ FlattenSeq(a \o b) = FlattenSeq(a) \o FlattenSeq(b)
  <1> DEFINE M == Len(a)
             N == Len(b)
             ab == a \o b
             f == Flat(a)
             g == Flat(b)
             h == Flat(ab)
             Bad == {k \in 0..N : h[M + k] # f[M] \o g[k]}
  <1>1. /\ ab \in Seq(Seq(S)) /\ M \in Nat /\ N \in Nat /\ Len(ab) = M + N
        /\ (\A j \in 1..M : ab[j] = a[j]) /\ \A j \in 1..N : ab[M + j] = b[j]
    BY Joined
  <1>2. f \in [0..M -> Seq(S)] /\ FlattenSeq(a) = f[M]
    BY FlatDef, FlattenIsFlat
  <1>3. /\ g \in [0..N -> Seq(S)] /\ g[0] = <<>> /\ (\A k \in 1..N : g[k] = g[k - 1] \o b[k])
        /\ FlattenSeq(b) = g[N]
    BY FlatDef, FlattenIsFlat
  <1> HIDE DEF ab
  <1>4. (\A k \in 1..Len(ab) : h[k] = h[k - 1] \o ab[k]) /\ FlattenSeq(ab) = h[Len(ab)]
    BY <1>1, FlatDef, FlattenIsFlat
  <1>5. h[M] = f[M]
    <2>1. M \in Nat /\ M <= Len(ab) /\ M <= Len(a) /\ \A k \in 1..M : ab[k] = a[k]
      BY <1>1
    <2> QED BY <1>1, <2>1, FlatAgrees
  <1>6. \A k \in 1..N : b[k] \in Seq(S)
    OBVIOUS
  <1>n. M \in Nat /\ N \in Nat
    OBVIOUS
  <1> HIDE DEF f, g, h, M, N
  <1>7. Bad = {}
    <2> SUFFICES ASSUME Bad # {} PROVE FALSE
      OBVIOUS
    <2>1. PICK k \in Bad : \A j \in Bad : k <= j
      <3>0. \A k \in 0..N : k \in Nat
        BY <1>n
      <3>1. Bad \subseteq Nat
        BY <3>0
      <3> HIDE DEF Bad
      <3> QED BY <3>1, LeastNat
    <2>2. k \in 0..N /\ h[M + k] # f[M] \o g[k]
      BY <2>1
    <2>3. f[M] \in Seq(S)
      BY <1>1, <1>2
    <2>4. k # 0
      <3>1. M + 0 = M /\ f[M] \o <<>> = f[M]
        BY <1>1, <2>3
      <3> QED BY <1>3, <1>5, <2>2, <3>1
    <2>5. /\ k \in 1..N /\ k - 1 \in 0..N /\ ~(k <= k - 1)
          /\ M + k \in 1..Len(ab) /\ (M + k) - 1 = M + (k - 1)
      BY <1>1, <2>2, <2>4
    <2>6. h[M + (k - 1)] = f[M] \o g[k - 1]
      BY <2>1, <2>5
    <2> DEFINE x == f[M]
               y == g[k - 1]
               z == b[k]
    <2>7. x \in Seq(S) /\ y \in Seq(S) /\ z \in Seq(S)
      BY <1>3, <1>6, <2>3, <2>5
    <2>8. h[M + k] = (x \o y) \o z /\ g[k] = y \o z
      <3>1. g[k] = y \o z
        BY <1>3, <2>5
      <3>2. h[M + k] = h[(M + k) - 1] \o ab[M + k]
        BY <1>4, <2>5
      <3>3. ab[M + k] = z
        BY <1>1, <2>5
      <3>4. h[(M + k) - 1] = x \o y
        BY <2>5, <2>6
      <3> QED BY <3>1, <3>2, <3>3, <3>4
    <2> HIDE DEF x, y, z
    <2>9. Associates(x, y, z)
      BY <2>7, JoinedTwice
    <2> QED BY <2>2, <2>8, <2>9 DEF Associates, x
  <1>8. h[M + N] = f[M] \o g[N]
    <2>1. N \in 0..N
      BY <1>1
    <2> QED BY <1>7, <2>1
  <1> QED BY <1>1, <1>2, <1>3, <1>4, <1>8 DEF ab

LEMMA FlattenBlank ==
    ASSUME NEW seqs, Len(seqs) \in Nat, DOMAIN seqs = 1..Len(seqs), seqs = [n \in 1..Len(seqs) |-> <<>>]
    PROVE  FlattenSeq(seqs) = <<>>
  <1> DEFINE f == Flat(seqs)
             N == Len(seqs)
             Bad == {k \in 0..N : f[k] # <<>>}
  <1>1. seqs \in Seq(Seq({})) /\ N \in Nat /\ \A k \in 1..N : seqs[k] = <<>>
    <2>1. <<>> \in Seq({})
      OBVIOUS
    <2>2. seqs \in [1..Len(seqs) -> Seq({})]
      BY <2>1
    <2> QED BY <2>2
  <1>2. f[0] = <<>> /\ (\A k \in 1..N : f[k] = f[k - 1] \o seqs[k]) /\ FlattenSeq(seqs) = f[N]
    BY <1>1, FlatDef, FlattenIsFlat
  <1> HIDE DEF f, N
  <1>3. Bad = {}
    <2> SUFFICES ASSUME Bad # {} PROVE FALSE
      OBVIOUS
    <2>1. PICK k \in Bad : \A j \in Bad : k <= j
      <3>1. Bad \subseteq Nat
        BY <1>1
      <3> HIDE DEF Bad
      <3> QED BY <3>1, LeastNat
    <2>2. k \in 0..N /\ f[k] # <<>>
      BY <2>1
    <2>3. k # 0
      BY <1>2, <2>2
    <2>4. k \in 1..N /\ k - 1 \in 0..N /\ ~(k <= k - 1)
      BY <1>1, <2>2, <2>3
    <2>5. f[k - 1] = <<>>
      BY <2>1, <2>4
    <2>6. <<>> \o <<>> = <<>>
      OBVIOUS
    <2> QED BY <1>1, <1>2, <2>2, <2>4, <2>5, <2>6
  <1>4. N \in 0..N
    BY <1>1
  <1> QED BY <1>2, <1>3, <1>4

-----------------------------------------------------------------------------
(* What is asked of the group-by.                                          *)

\* The rows that have the columns of the operator q.
GRows(q) == {r \in Seq(Int) : ToSet(q.keys) \cup ToSet(q.aggs) \subseteq DOMAIN r}

KeyOf(q, row) == [n \in DOMAIN q.keys |-> row[q.keys[n]]]

GKey(q) == [DOMAIN q.keys -> Int]

KeySeq(q, s) == [n \in DOMAIN s |-> KeyOf(q, s[n])]

CutTo(q, s) == IF q.limit # NoLimit /\ q.limit < Len(s) THEN SubSeq(s, 1, q.limit) ELSE s

KeysBy(q, s) == CutTo(q, G!InsertAll(<<>>, KeySeq(q, s)))

ValuesBy(q, s, key, c) == FlattenSeq([n \in DOMAIN s |-> IF KeyOf(q, s[n]) = key THEN <<s[n][c]>> ELSE <<>>])

\* The operator is one that there may be.
Grouping(q) == q.keys \in Seq(Nat) /\ q.aggs \in Seq(Nat) /\ (q.limit # NoLimit => q.limit \in Nat)

\* The groups are all taken.
Full(q, s) == q.limit # NoLimit /\ ~(Len(s) < q.limit)

LEMMA KeyOfIs ==
    ASSUME NEW q, Grouping(q), NEW r \in GRows(q)
    PROVE  /\ KeyOf(q, r) \in GKey(q)
           /\ \A n \in DOMAIN q.keys : KeyOf(q, r)[n] = r[q.keys[n]]
           /\ \A a \in DOMAIN q.aggs : r[q.aggs[a]] \in Int
  <1>1. r \in Seq(Int) /\ ToSet(q.keys) \subseteq DOMAIN r /\ ToSet(q.aggs) \subseteq DOMAIN r
    BY DEF GRows
  <1>2. \A c \in DOMAIN r : r[c] \in Int
    BY <1>1
  <1>3. \A n \in DOMAIN q.keys : r[q.keys[n]] \in Int
    BY <1>1, <1>2 DEF ToSet
  <1>4. \A a \in DOMAIN q.aggs : r[q.aggs[a]] \in Int
    BY <1>1, <1>2 DEF ToSet
  <1> QED BY <1>3, <1>4 DEF KeyOf, GKey

LEMMA KeySeqIs ==
    ASSUME NEW q, Grouping(q), NEW s \in Seq(GRows(q))
    PROVE  /\ Len(s) \in Nat /\ KeySeq(q, s) \in Seq(GKey(q)) /\ Len(KeySeq(q, s)) = Len(s)
           /\ \A n \in 1..Len(s) : KeySeq(q, s)[n] = KeyOf(q, s[n]) /\ s[n] \in GRows(q)
  <1> DEFINE t == KeySeq(q, s)
             N == Len(s)
  <1>1. N \in Nat /\ DOMAIN s = 1..N /\ \A n \in 1..N : s[n] \in GRows(q)
    OBVIOUS
  <1>2. t = [n \in 1..N |-> KeyOf(q, s[n])]
    BY <1>1 DEF KeySeq
  <1>3. \A n \in 1..N : KeyOf(q, s[n]) \in GKey(q)
    BY <1>1, KeyOfIs
  <1> HIDE DEF t, N
  <1>4. t \in [1..N -> GKey(q)]
    BY <1>2, <1>3
  <1>5. t \in Seq(GKey(q)) /\ Len(t) = N
    BY <1>1, <1>4
  <1> QED BY <1>1, <1>2, <1>5 DEF t, N

LEMMA CutIs ==
    ASSUME NEW q, Grouping(q), NEW S, NEW s \in Seq(S), Distinct(s)
    PROVE  /\ CutTo(q, s) \in Seq(S) /\ Distinct(CutTo(q, s)) /\ Len(CutTo(q, s)) \in Nat
           /\ q.limit # NoLimit => Len(CutTo(q, s)) <= q.limit
           /\ ~Full(q, CutTo(q, s)) => CutTo(q, s) = s
           /\ Full(q, CutTo(q, s)) => /\ q.limit \in Nat /\ q.limit <= Len(s) /\ Len(CutTo(q, s)) = q.limit
                                      /\ \A n \in 1..q.limit : CutTo(q, s)[n] = s[n]
  <1> DEFINE t == CutTo(q, s)
             N == Len(s)
             L == q.limit
  <1>1. N \in Nat /\ (L # NoLimit => L \in Nat)
    BY DEF Grouping
  <1>2. CASE L # NoLimit /\ L < N
    <2>1. t = SubSeq(s, 1, L)
      BY <1>2 DEF CutTo
    <2>2. 1..L \subseteq 1..N /\ \A n \in 1..N : s[n] \in S
      BY <1>1, <1>2
    <2> HIDE DEF t, N, L
    <2>3. t \in Seq(S) /\ Len(t) = L /\ \A n \in 1..L : t[n] = s[n]
      <3>1. t = [n \in 1..L |-> s[n]]
        BY <1>1, <1>2, <2>1
      <3>2. t \in [1..L -> S]
        BY <2>2, <3>1
      <3> QED BY <1>1, <1>2, <3>1, <3>2
    <2>4. Distinct(t)
      BY <2>2, <2>3 DEF Distinct, N
    <2>5. Full(q, t) /\ L <= N
      BY <1>1, <1>2, <2>3 DEF Full, L
    <2> QED BY <1>1, <1>2, <2>3, <2>4, <2>5 DEF t, N, L
  <1>3. CASE ~(L # NoLimit /\ L < N)
    <2>1. t = s
      BY <1>3 DEF CutTo
    <2> HIDE DEF t, N, L
    <2>2. L # NoLimit => N <= L
      BY <1>1, <1>3
    <2>3. Full(q, t) => L \in Nat /\ L <= N /\ N = L
      BY <1>1, <2>1, <2>2 DEF Full, N, L
    <2> QED BY <1>1, <2>1, <2>2, <2>3 DEF t, N, L
  <1> QED BY <1>2, <1>3

\* The keys of the groups.
LEMMA KeysIs ==
    ASSUME NEW q, Grouping(q), NEW s \in Seq(GRows(q))
    PROVE  LET K == KeysBy(q, s)
           IN  /\ K \in Seq(GKey(q)) /\ Distinct(K) /\ Len(K) \in Nat
               /\ q.limit # NoLimit => Len(K) <= q.limit
               /\ ~Full(q, K) => ToSet(K) = {KeyOf(q, s[n]) : n \in 1..Len(s)}
  <1> DEFINE v == KeySeq(q, s)
             A == G!InsertAll(<<>>, v)
             K == CutTo(q, A)
  <1>1. v \in Seq(GKey(q)) /\ Len(v) = Len(s) /\ Len(s) \in Nat /\ \A n \in 1..Len(s) : v[n] = KeyOf(q, s[n])
    BY KeySeqIs
  <1> HIDE DEF v
  <1>2. A \in Seq(GKey(q)) /\ Distinct(A) /\ ToSet(A) = ToSet(v)
    <2>1. <<>> \in Seq(GKey(q)) /\ Distinct(<<>>) /\ ToSet(<<>>) = {}
      BY DEF Distinct, ToSet
    <2> DEFINE none == <<>>
    <2> HIDE DEF none
    <2>2. none \in Seq(GKey(q)) /\ Distinct(none) /\ ToSet(none) = {}
      BY <2>1 DEF none
    <2> DEFINE t == G!InsertAll(none, v)
    <2>3. t \in Seq(GKey(q)) /\ Distinct(t) /\ ToSet(t) = ToSet(none) \cup ToSet(v)
      <3> DEFINE T == GKey(q)
      <3>1. none \in Seq(T) /\ v \in Seq(T) /\ Distinct(none)
        BY <1>1, <2>2
      <3> HIDE DEF T
      <3>2. t \in Seq(T) /\ Distinct(t) /\ ToSet(t) = ToSet(none) \cup ToSet(v)
        BY <3>1, InsertAllIs
      <3> QED BY <3>2 DEF T
    <2>4. t = A
      BY DEF none
    <2> HIDE DEF t, A
    <2> QED BY <2>2, <2>3, <2>4
  <1> HIDE DEF A
  <1>3. ToSet(v) = {KeyOf(q, s[n]) : n \in 1..Len(s)}
    <2>1. DOMAIN v = 1..Len(s)
      BY <1>1
    <2> QED BY <1>1, <2>1 DEF ToSet
  <1>4. /\ K \in Seq(GKey(q)) /\ Distinct(K) /\ Len(K) \in Nat
        /\ q.limit # NoLimit => Len(K) <= q.limit
        /\ ~Full(q, K) => K = A
    BY <1>2, CutIs
  <1>5. K = KeysBy(q, s)
    BY DEF KeysBy, A, v
  <1> HIDE DEF K
  <1> QED BY <1>2, <1>3, <1>4, <1>5

LEMMA KeysNone ==
    ASSUME NEW q, Grouping(q)
    PROVE  KeysBy(q, <<>>) = <<>>
  <1>1. KeySeq(q, <<>>) = <<>>
    BY DEF KeySeq
  <1>2. G!InsertAll(<<>>, <<>>) = <<>>
    BY InsertAllNone
  <1>3. CutTo(q, <<>>) = <<>>
    BY DEF CutTo, Grouping
  <1> QED BY <1>1, <1>2, <1>3 DEF KeysBy

\* One more row opens a group or does not.
LEMMA KeysStep ==
    ASSUME NEW q, Grouping(q), NEW s \in Seq(GRows(q)), NEW r \in GRows(q)
    PROVE  KeysBy(q, Append(s, r)) = IF Full(q, KeysBy(q, s)) THEN KeysBy(q, s)
                                     ELSE G!Insert(KeysBy(q, s), KeyOf(q, r))
  <1> DEFINE v == KeySeq(q, s)
             A == G!InsertAll(<<>>, v)
             K == CutTo(q, A)
             x == KeyOf(q, r)
             t == Append(s, r)
             w == KeySeq(q, t)
             B == G!InsertAll(<<>>, w)
  <1>0. t \in Seq(GRows(q)) /\ Len(t) = Len(s) + 1 /\ t[Len(s) + 1] = r /\ \A n \in 1..Len(s) : t[n] = s[n]
    OBVIOUS
  <1> HIDE DEF t
  <1>1. v \in Seq(GKey(q)) /\ Len(v) = Len(s) /\ Len(s) \in Nat /\ \A n \in 1..Len(s) : v[n] = KeyOf(q, s[n])
    BY KeySeqIs
  <1>2. w \in Seq(GKey(q)) /\ Len(w) = Len(s) + 1 /\ \A n \in 1..(Len(s) + 1) : w[n] = KeyOf(q, t[n])
    BY <1>0, KeySeqIs
  <1>3. (\A n \in 1..Len(s) : w[n] = v[n]) /\ w[Len(s) + 1] = x
    <2>1. Len(s) + 1 \in 1..(Len(s) + 1) /\ \A n \in 1..Len(s) : n \in 1..(Len(s) + 1)
      BY <1>1
    <2> QED BY <1>0, <1>1, <1>2, <2>1
  <1> HIDE DEF v, w
  <1>4. A \in Seq(GKey(q)) /\ Distinct(A)
    <2>1. <<>> \in Seq(GKey(q)) /\ Distinct(<<>>)
      BY DEF Distinct
    <2> QED BY <1>1, <2>1, InsertAllIs
  <1>5. B = G!Insert(A, x)
    <2> DEFINE n == Len(s)
               none == <<>>
    <2> HIDE DEF n, none
    <2>1. n \in Nat /\ Len(v) = n /\ Len(w) = n + 1 /\ (\A k \in 1..n : w[k] = v[k]) /\ w[n + 1] = x
      BY <1>1, <1>2, <1>3 DEF n
    <2> HIDE DEF x
    <2>2. G!InsertAll(none, w) = G!Insert(G!InsertAll(none, v), w[n + 1])
      BY <2>1, InsertAllAppend
    <2> QED BY <2>1, <2>2 DEF none
  <1> HIDE DEF A, B
  <1>6. x \in GKey(q)
    BY KeyOfIs
  <1> HIDE DEF x
  <1>7. /\ B \in Seq(GKey(q)) /\ Distinct(B) /\ Len(A) <= Len(B)
        /\ \A n \in 1..Len(A) : B[n] = A[n]
        /\ Len(B) = Len(A) \/ Len(B) = Len(A) + 1
    <2> DEFINE C == G!Insert(A, x)
    <2>1. /\ C \in Seq(GKey(q)) /\ Distinct(C) /\ Len(A) <= Len(C)
          /\ \A n \in 1..Len(A) : C[n] = A[n]
          /\ x \in ToSet(A) => C = A
          /\ x \notin ToSet(A) => Len(C) = Len(A) + 1
      BY <1>4, <1>6, InsertIs
    <2> HIDE DEF C
    <2>2. B = C
      BY <1>5 DEF C
    <2> QED BY <2>1, <2>2
  <1>8. KeysBy(q, s) = K /\ KeysBy(q, t) = CutTo(q, B)
    BY DEF KeysBy, A, B, v, w
  <1>9. CASE Full(q, K)
    <2> DEFINE L == q.limit
               D == CutTo(q, B)
    <2>1. L \in Nat /\ L <= Len(A) /\ Len(K) = L /\ (\A n \in 1..L : K[n] = A[n]) /\ K \in Seq(GKey(q))
      BY <1>4, <1>9, CutIs
    <2>2. L <= Len(B) /\ Len(A) \in Nat /\ Len(B) \in Nat /\ L # NoLimit
      BY <1>4, <1>7, <1>9, <2>1 DEF Full
    <2>3. /\ D \in Seq(GKey(q))
          /\ ~Full(q, D) => D = B
          /\ Full(q, D) => Len(D) = L /\ \A n \in 1..L : D[n] = B[n]
      BY <1>7, CutIs
    <2>4. Full(q, D)
      BY <2>1, <2>2, <2>3 DEF Full
    <2>5. D = K
      <3> HIDE DEF D, K, L
      <3>1. Len(D) = Len(K) /\ \A n \in 1..Len(D) : D[n] = K[n]
        <4>1. Len(D) = L /\ Len(K) = L /\ \A n \in 1..L : D[n] = B[n] /\ K[n] = A[n]
          BY <2>1, <2>3, <2>4
        <4>2. \A n \in 1..L : n \in 1..Len(A)
          BY <2>1, <2>2
        <4> QED BY <1>7, <4>1, <4>2
      <3>2. D \in Seq(GKey(q)) /\ K \in Seq(GKey(q))
        BY <2>1, <2>3
      <3> QED BY <3>1, <3>2, SeqEqual
    <2> QED BY <1>8, <1>9, <2>5 DEF t, x
  <1>10. CASE ~Full(q, K)
    <2> DEFINE L == q.limit
    <2>1. K = A
      BY <1>4, <1>10, CutIs
    <2>2. L # NoLimit => ~(L < Len(B))
      <3>1. L # NoLimit => L \in Nat /\ Len(A) < L
        BY <1>10, <2>1 DEF Full, Grouping
      <3> QED BY <1>4, <1>7, <3>1
    <2>3. CutTo(q, B) = B
      BY <2>2 DEF CutTo
    <2> HIDE DEF K
    <2> QED BY <1>5, <1>8, <1>10, <2>1, <2>3 DEF t, x
  <1> QED BY <1>9, <1>10

LEMMA ValuesNone ==
    ASSUME NEW q, Grouping(q), NEW s \in Seq(GRows(q)), NEW key, \A n \in 1..Len(s) : KeyOf(q, s[n]) # key, NEW c
    PROVE  ValuesBy(q, s, key, c) = <<>>
  <1> DEFINE t == [n \in DOMAIN s |-> IF KeyOf(q, s[n]) = key THEN <<s[n][c]>> ELSE <<>>]
             N == Len(s)
  <1>1. N \in Nat /\ DOMAIN s = 1..N
    OBVIOUS
  <1>2. t = [n \in 1..N |-> <<>>]
    BY <1>1
  <1> HIDE DEF t, N
  <1>3. Len(t) = N /\ DOMAIN t = 1..N
    BY <1>1, <1>2
  <1>4. FlattenSeq(t) = <<>>
    BY <1>1, <1>2, <1>3, FlattenBlank
  <1> QED BY <1>4 DEF t, ValuesBy

LEMMA ValuesJoin ==
    ASSUME NEW q, Grouping(q), NEW s \in Seq(GRows(q)), NEW t \in Seq(GRows(q)), NEW key,
           NEW a \in DOMAIN q.aggs
    PROVE  /\ ValuesBy(q, s, key, q.aggs[a]) \in Seq(Int) /\ ValuesBy(q, t, key, q.aggs[a]) \in Seq(Int)
           /\ ValuesBy(q, s \o t, key, q.aggs[a]) = ValuesBy(q, s, key, q.aggs[a]) \o ValuesBy(q, t, key, q.aggs[a])
  <1> DEFINE c == q.aggs[a]
             V(r) == IF KeyOf(q, r) = key THEN <<r[c]>> ELSE <<>>
             M == Len(s)
             N == Len(t)
             st == s \o t
             fs == [n \in DOMAIN s |-> V(s[n])]
             ft == [n \in DOMAIN t |-> V(t[n])]
             fst == [n \in DOMAIN st |-> V(st[n])]
  <1>1. \A r \in GRows(q) : V(r) \in Seq(Int)
    <2> SUFFICES ASSUME NEW r \in GRows(q) PROVE V(r) \in Seq(Int)
      OBVIOUS
    <2> DEFINE x == r[c]
    <2>1. x \in Int
      BY KeyOfIs
    <2> HIDE DEF x
    <2>2. <<x>> \in Seq(Int) /\ <<>> \in Seq(Int)
      BY <2>1
    <2> QED BY <2>2 DEF x
  <1>2. /\ M \in Nat /\ N \in Nat /\ DOMAIN s = 1..M /\ DOMAIN t = 1..N /\ DOMAIN st = 1..(M + N) /\ Len(st) = M + N
        /\ (\A n \in 1..M : st[n] = s[n] /\ s[n] \in GRows(q))
        /\ (\A n \in 1..N : st[M + n] = t[n] /\ t[n] \in GRows(q))
    <2>1. M \in Nat /\ N \in Nat /\ DOMAIN s = 1..M /\ DOMAIN t = 1..N /\ DOMAIN st = 1..(M + N) /\ Len(st) = M + N
      OBVIOUS
    <2>2. (\A n \in 1..M : st[n] = s[n]) /\ \A n \in 1..N : st[M + n] = t[n]
      BY Joined
    <2>3. (\A n \in 1..M : s[n] \in GRows(q)) /\ \A n \in 1..N : t[n] \in GRows(q)
      OBVIOUS
    <2> QED BY <2>1, <2>2, <2>3
  <1> HIDE DEF V, M, N, st
  <1>3. fs \in Seq(Seq(Int)) /\ ft \in Seq(Seq(Int)) /\ Len(fs) = M /\ Len(ft) = N
    <2>1. fs \in [1..M -> Seq(Int)]
      BY <1>1, <1>2
    <2>2. ft \in [1..N -> Seq(Int)]
      BY <1>1, <1>2
    <2> HIDE DEF fs, ft
    <2> QED BY <1>2, <2>1, <2>2
  <1>4. fst = fs \o ft
    <2> DEFINE u == fs \o ft
    <2>1. u \in Seq(Seq(Int)) /\ Len(u) = M + N /\ (\A n \in 1..M : u[n] = fs[n]) /\ \A n \in 1..N : u[M + n] = ft[n]
      <3> HIDE DEF fs, ft
      <3>1. fs \in Seq(Seq(Int)) /\ ft \in Seq(Seq(Int)) /\ Len(fs) = M /\ Len(ft) = N
        BY <1>3
      <3>2. /\ u \in Seq(Seq(Int)) /\ Len(u) = Len(fs) + Len(ft)
            /\ (\A n \in 1..Len(fs) : u[n] = fs[n])
            /\ \A n \in 1..Len(ft) : u[Len(fs) + n] = ft[n]
        <4> DEFINE T == Seq(Int)
        <4>1. fs \in Seq(T) /\ ft \in Seq(T)
          BY <3>1
        <4> HIDE DEF T
        <4>2. /\ u \in Seq(T) /\ Len(u) = Len(fs) + Len(ft)
              /\ (\A n \in 1..Len(fs) : u[n] = fs[n])
              /\ \A n \in 1..Len(ft) : u[Len(fs) + n] = ft[n]
          BY <4>1, Joined
        <4> QED BY <4>2 DEF T
      <3> HIDE DEF u
      <3> QED BY <3>1, <3>2
    <2> HIDE DEF u
    <2>2. ASSUME NEW n \in 1..(M + N) PROVE fst[n] = u[n]
      <3>1. fst[n] = V(st[n])
        BY <1>2
      <3>2. CASE n <= M
        <4>1. n \in 1..M
          BY <1>2, <3>2
        <4>2. fs[n] = V(s[n])
          BY <1>2, <4>1
        <4> QED BY <1>2, <2>1, <3>1, <4>1, <4>2
      <3>3. CASE ~(n <= M)
        <4>1. n - M \in 1..N /\ M + (n - M) = n
          BY <1>2, <3>3
        <4>2. ft[n - M] = V(t[n - M])
          BY <1>2, <4>1
        <4>3. st[n] = t[n - M]
          BY <1>2, <4>1
        <4>4. u[n] = ft[n - M]
          BY <2>1, <4>1
        <4> QED BY <3>1, <4>2, <4>3, <4>4
      <3> QED BY <3>2, <3>3
    <2>3. u = [n \in 1..(M + N) |-> u[n]]
      BY <2>1
    <2>4. fst = [n \in 1..(M + N) |-> fst[n]]
      BY <1>2
    <2> HIDE DEF fst
    <2> QED BY <2>2, <2>3, <2>4 DEF u
  <1>5. ValuesBy(q, s, key, c) = FlattenSeq(fs) /\ ValuesBy(q, t, key, c) = FlattenSeq(ft)
        /\ ValuesBy(q, s \o t, key, c) = FlattenSeq(fst)
    BY DEF ValuesBy, V, st
  <1> HIDE DEF fs, ft, fst, c
  <1>6. FlattenSeq(fs) \in Seq(Int) /\ FlattenSeq(ft) \in Seq(Int) /\ FlattenSeq(fs \o ft) = FlattenSeq(fs) \o FlattenSeq(ft)
    BY <1>3, FlattenJoin, FlattenIsFlat
  <1> QED BY <1>4, <1>5, <1>6 DEF c

-----------------------------------------------------------------------------
(* The codes of the keys.                                                  *)

\* An order in which the key columns are gone through.
GoodOrder(q, o) ==
    /\ o \in [1..Len(q.keys) -> 1..Len(q.keys)]
    /\ \A m, n \in 1..Len(q.keys) : o[m] = o[n] => m = n
    /\ \A c \in 1..Len(q.keys) : \E n \in 1..Len(q.keys) : o[n] = c

MapsOK(q, m1) ==
    /\ m1 = [c \in 1..Len(q.keys) |-> m1[c]]
    /\ \A c \in 1..Len(q.keys) : m1[c] \in Seq(Int) /\ Distinct(m1[c])

MapsGrow(q, m1, m2) == \A c \in 1..Len(q.keys) : Extends(m1[c], m2[c])

\* What the n-th column in the order puts into the code of a key.
Part(q, o, m1, key, n) ==
    IF q.keys[o[n]] \in q.strings THEN G!NumberOf(key[o[n]], m1[o[n]]) ELSE key[o[n]]

\* The code when d columns have been gone through, and whether it is final.
Code(q, o, m1, key, d) == [n \in 1..d |-> Part(q, o, m1, key, n)]
Known(q, o, m1, key, d) == \A n \in 1..d : q.keys[o[n]] \in q.strings => key[o[n]] \in ToSet(m1[o[n]])

LEMMA CodeStays ==
    ASSUME NEW q, Grouping(q), NEW o, GoodOrder(q, o), NEW m1, MapsOK(q, m1), NEW m2, MapsOK(q, m2),
           MapsGrow(q, m1, m2), NEW key, NEW d \in 0..Len(q.keys), Known(q, o, m1, key, d)
    PROVE  Known(q, o, m2, key, d) /\ Code(q, o, m2, key, d) = Code(q, o, m1, key, d)
  <1> DEFINE N == Len(q.keys)
  <1>1. N \in Nat
    BY DEF Grouping
  <1>2. ASSUME NEW n \in 1..d
        PROVE  /\ q.keys[o[n]] \in q.strings => key[o[n]] \in ToSet(m2[o[n]])
               /\ Part(q, o, m2, key, n) = Part(q, o, m1, key, n)
    <2> DEFINE c == o[n]
    <2>1. n \in 1..N
      BY <1>1
    <2>2. c \in 1..N
      BY <2>1 DEF GoodOrder
    <2> DEFINE a == m1[c]
               b == m2[c]
    <2>3. a \in Seq(Int) /\ b \in Seq(Int) /\ Distinct(a) /\ Distinct(b) /\ Extends(a, b)
      BY <2>2 DEF MapsOK, MapsGrow
    <2>4. CASE q.keys[c] \in q.strings
      <3>1. key[c] \in ToSet(a)
        BY <2>4 DEF Known
      <3> HIDE DEF a, b
      <3>2. key[c] \in ToSet(b) /\ G!NumberOf(key[c], b) = G!NumberOf(key[c], a)
        BY <2>3, <3>1, NumberStays
      <3> QED BY <3>2 DEF Part, a, b
    <2>5. CASE q.keys[c] \notin q.strings
      BY <2>5 DEF Part
    <2> QED BY <2>4, <2>5
  <1>3. Known(q, o, m2, key, d)
    BY <1>2 DEF Known
  <1>4. Code(q, o, m2, key, d) = Code(q, o, m1, key, d)
    BY <1>2 DEF Code
  <1> QED BY <1>3, <1>4

\* Keys with the same code are the same.
LEMMA CodeTellsApart ==
    ASSUME NEW q, Grouping(q), NEW o, GoodOrder(q, o), NEW m1, MapsOK(q, m1),
           NEW x \in GKey(q), NEW y \in GKey(q),
           Known(q, o, m1, x, Len(q.keys)), Known(q, o, m1, y, Len(q.keys)),
           Code(q, o, m1, x, Len(q.keys)) = Code(q, o, m1, y, Len(q.keys))
    PROVE  x = y
  <1> DEFINE N == Len(q.keys)
  <1>1. N \in Nat /\ DOMAIN q.keys = 1..N
    BY DEF Grouping
  <1>2. ASSUME NEW c \in 1..N PROVE x[c] = y[c]
    <2>1. PICK n \in 1..N : o[n] = c
      BY DEF GoodOrder
    <2>2. Part(q, o, m1, x, n) = Part(q, o, m1, y, n)
      BY <2>1 DEF Code
    <2>3. CASE q.keys[c] \in q.strings
      <3> DEFINE a == m1[c]
      <3>1. x[c] \in ToSet(a) /\ y[c] \in ToSet(a)
        BY <2>1, <2>3 DEF Known
      <3>2. G!NumberOf(x[c], a) = G!NumberOf(y[c], a)
        BY <2>1, <2>2, <2>3 DEF Part
      <3>0. a \in Seq(Int) /\ Distinct(a)
        BY DEF MapsOK
      <3> HIDE DEF a
      <3>3. Len(a) \in Nat /\ DOMAIN a = 1..Len(a) /\ Distinct(a)
        BY <3>0
      <3>4. PICK i1 \in 1..Len(a) : a[i1] = x[c]
        BY <3>1, <3>3, NumberIs
      <3>5. PICK i2 \in 1..Len(a) : a[i2] = y[c]
        BY <3>1, <3>3, NumberIs
      <3>6. G!NumberOf(x[c], a) = i1 /\ G!NumberOf(y[c], a) = i2
        BY <3>3, <3>4, <3>5, NumberIs
      <3> QED BY <3>2, <3>4, <3>5, <3>6
    <2>4. CASE q.keys[c] \notin q.strings
      BY <2>1, <2>2, <2>4 DEF Part
    <2> QED BY <2>3, <2>4
  <1> QED BY <1>1, <1>2 DEF GKey

\* The codes of a sequence of keys.
Coded(q, o, m1, K) == [g \in 1..Len(K) |-> Code(q, o, m1, K[g], Len(q.keys))]

\* The code is inserted where the key is.
LEMMA CodedInsert ==
    ASSUME NEW q, Grouping(q), NEW o, GoodOrder(q, o), NEW m1, MapsOK(q, m1),
           NEW K \in Seq(GKey(q)), Distinct(K), \A g \in 1..Len(K) : Known(q, o, m1, K[g], Len(q.keys)),
           NEW x \in GKey(q), Known(q, o, m1, x, Len(q.keys))
    PROVE  LET M == Coded(q, o, m1, K)
               c == Code(q, o, m1, x, Len(q.keys))
           IN  /\ G!Has(c, M) <=> x \in ToSet(K)
               /\ \A g \in 1..Len(K) : K[g] = x => G!NumberOf(c, M) = g
               /\ G!Insert(M, c) = Coded(q, o, m1, G!Insert(K, x))
  <1> DEFINE M == Coded(q, o, m1, K)
             C(key) == Code(q, o, m1, key, Len(q.keys))
             c == C(x)
             N == Len(K)
  <1>1. N \in Nat /\ DOMAIN K = 1..N /\ \A g \in 1..N : K[g] \in GKey(q)
    OBVIOUS
  <1>2. M = [g \in 1..N |-> C(K[g])]
    BY DEF Coded
  <1>3. \A g \in 1..N : C(K[g]) = c <=> K[g] = x
    BY <1>1, CodeTellsApart
  <1>4. \A g, h \in 1..N : C(K[g]) = C(K[h]) => g = h
    <2> SUFFICES ASSUME NEW g \in 1..N, NEW h \in 1..N, C(K[g]) = C(K[h]) PROVE g = h
      OBVIOUS
    <2> DEFINE a == K[g]
               b == K[h]
    <2>1. a \in GKey(q) /\ b \in GKey(q) /\ Known(q, o, m1, a, Len(q.keys)) /\ Known(q, o, m1, b, Len(q.keys))
      BY <1>1
    <2>2. C(a) = C(b)
      OBVIOUS
    <2> HIDE DEF a, b
    <2>3. a = b
      BY <2>1, <2>2, CodeTellsApart
    <2> QED BY <2>3 DEF Distinct, a, b
  <1> HIDE DEF M, C, N
  <1>5. Len(M) = N /\ DOMAIN M = 1..N /\ Distinct(M) /\ \A g \in 1..N : M[g] = C(K[g])
    <2>1. DOMAIN M = 1..N /\ \A g \in 1..N : M[g] = C(K[g])
      BY <1>2
    <2>2. Len(M) = N
      BY <1>1, <1>2
    <2>3. Distinct(M)
      BY <1>4, <2>1, <2>2 DEF Distinct
    <2> QED BY <2>1, <2>2, <2>3
  <1>6. x \in ToSet(K) <=> \E g \in 1..N : K[g] = x
    BY <1>1 DEF ToSet
  <1>7. G!Has(c, M) <=> x \in ToSet(K)
    <2>1. G!Has(c, M) <=> \E g \in 1..N : M[g] = c
      BY <1>5 DEF G!Has, G!ToSet
    <2> QED BY <1>3, <1>5, <1>6, <2>1
  <1>8. ASSUME NEW g \in 1..N, K[g] = x PROVE G!NumberOf(c, M) = g
    <2>1. Len(M) \in Nat /\ DOMAIN M = 1..Len(M) /\ g \in 1..Len(M) /\ M[g] = c
      BY <1>1, <1>3, <1>5, <1>8
    <2> QED BY <1>5, <2>1, NumberIs
  <1>9. G!Insert(M, c) = Coded(q, o, m1, G!Insert(K, x))
    <2>1. CASE x \in ToSet(K)
      <3>1. G!Insert(M, c) = M
        BY <1>7, <2>1 DEF G!Insert
      <3>2. G!Insert(K, x) = K
        BY <2>1 DEF G!Insert, G!Has, G!ToSet, ToSet
      <3> QED BY <3>1, <3>2 DEF M
    <2>2. CASE x \notin ToSet(K)
      <3> DEFINE t == G!Insert(K, x)
                 u == Coded(q, o, m1, t)
      <3>1. G!Insert(M, c) = Append(M, c)
        BY <1>7, <2>2 DEF G!Insert
      <3>2. t = Append(K, x)
        BY <2>2 DEF G!Insert, G!Has, G!ToSet, ToSet
      <3> HIDE DEF t
      <3>3. Len(t) = N + 1 /\ t[N + 1] = x /\ \A g \in 1..N : t[g] = K[g]
        BY <3>2 DEF N
      <3>4. u = [g \in 1..(N + 1) |-> C(t[g])]
        BY <3>3 DEF Coded, C
      <3>5. Append(M, c) = [g \in 1..(N + 1) |-> IF g = N + 1 THEN c ELSE M[g]]
        <4>1. M \in Seq({C(K[g]) : g \in 1..N} \cup {c})
          <5> DEFINE S == {C(K[g]) : g \in 1..N} \cup {c}
          <5>1. \A g \in 1..N : M[g] \in S
            BY <1>5
          <5>2. M = [g \in 1..N |-> M[g]]
            BY <1>2, <1>5
          <5> HIDE DEF S
          <5>3. M \in [1..N -> S]
            BY <5>1, <5>2
          <5>4. M \in Seq(S)
            BY <1>1, <5>3
          <5> QED BY <5>4 DEF S
        <4> DEFINE S == {C(K[g]) : g \in 1..N} \cup {c}
        <4>2. M \in Seq(S) /\ c \in S
          BY <4>1
        <4> HIDE DEF S, c
        <4> DEFINE w == Append(M, c)
        <4>3. w \in Seq(S) /\ Len(w) = Len(M) + 1 /\ w[Len(M) + 1] = c /\ \A g \in 1..Len(M) : w[g] = M[g]
          BY <4>2
        <4> HIDE DEF w
        <4>4. w = [g \in 1..(N + 1) |-> w[g]]
          BY <1>5, <4>3
        <4>5. \A g \in 1..(N + 1) : w[g] = IF g = N + 1 THEN c ELSE M[g]
          <5>1. \A g \in 1..(N + 1) : g # N + 1 => g \in 1..N
            BY <1>1
          <5> QED BY <1>5, <4>3, <5>1
        <4>6. w = [g \in 1..(N + 1) |-> IF g = N + 1 THEN c ELSE M[g]]
          BY <4>4, <4>5
        <4> QED BY <4>6 DEF w
      <3>6. ASSUME NEW g \in 1..(N + 1) PROVE C(t[g]) = IF g = N + 1 THEN c ELSE M[g]
        <4>1. CASE g = N + 1
          BY <3>3, <4>1
        <4>2. CASE g # N + 1
          <5>1. g \in 1..N
            BY <1>1, <4>2
          <5> QED BY <1>5, <3>3, <4>2, <5>1
        <4> QED BY <4>1, <4>2
      <3> HIDE DEF u, c
      <3>7. u = Append(M, c)
        BY <3>4, <3>5, <3>6
      <3> QED BY <3>1, <3>7 DEF u, t
    <2> QED BY <2>1, <2>2
  <1> QED BY <1>7, <1>8, <1>9 DEF M, C, N

-----------------------------------------------------------------------------
\* Strides.
LEMMA StridesIs ==
    ASSUME NEW y \in Nat, NEW size \in Nat, size # 0
    PROVE  (y \div size) \in Nat /\ (y \div size) * size \in Nat /\ y < (y \div size) * size + size
  <1>1. (y \div size) \in Nat
    OBVIOUS
  <1>2. y < (y \div size) * size + size
    OBVIOUS
  <1> DEFINE d == y \div size
  <1> HIDE DEF d
  <1>3. d \in Nat => d * size \in Nat
    OBVIOUS
  <1> QED BY <1>1, <1>2, <1>3 DEF d

LEMMA WholeStrides ==
    ASSUME NEW z \in Nat, NEW size \in Nat, size # 0
    PROVE  (size * z) % size = 0
  OBVIOUS

LEMMA StridesMore ==
    ASSUME NEW y \in Nat, NEW n \in Nat, NEW size \in Nat, size # 0, y % size = 0
    PROVE  (y + n * size) % size = 0
  <1> DEFINE d == y \div size
             e == d + n
  <1>1. d \in Nat
    OBVIOUS
  <1>2. y = size * d + (y % size)
    OBVIOUS
  <1> HIDE DEF d
  <1>3. y = size * d
    <2>1. size * d \in Nat
      BY <1>1
    <2> QED BY <1>2, <2>1
  <1>4. e \in Nat /\ size * e = size * d + n * size
    BY <1>1
  <1> HIDE DEF e
  <1>5. (size * e) % size = 0
    BY <1>4, WholeStrides
  <1> QED BY <1>3, <1>4, <1>5

\* extend_aggrs: the deque grows to at least n groups, in strides.
Longer(s, n) ==
    LET missing == IF Len(s) >= n THEN 0 ELSE n - Len(s)
        strides == (missing + Growth - 1) \div Growth
    IN  s \o [x \in 1..(strides * Growth) |-> <<>>]

LEMMA LongerIs ==
    ASSUME NEW S, NEW s \in Seq(Seq(S)), Len(s) % Growth = 0, NEW n \in Nat
    PROVE  LET t == Longer(s, n)
           IN  /\ t \in Seq(Seq(S)) /\ Len(t) % Growth = 0 /\ n <= Len(t) /\ Len(s) <= Len(t)
               /\ \A g \in 1..Len(t) : t[g] = IF g <= Len(s) THEN s[g] ELSE <<>>
  <1> DEFINE t == Longer(s, n)
             N == Len(s)
             missing == IF N >= n THEN 0 ELSE n - N
             strides == (missing + Growth - 1) \div Growth
             M == strides * Growth
             more == [x \in 1..M |-> <<>>]
  <1>1. N \in Nat /\ missing \in Nat /\ Growth \in Nat /\ Growth # 0 /\ n <= N + missing
    BY SizesAssumption
  <1> HIDE DEF N, missing
  <1>2. strides \in Nat /\ M \in Nat /\ missing <= M
    <2> DEFINE y == missing + Growth - 1
    <2>1. y \in Nat /\ missing = y - Growth + 1
      BY <1>1
    <2> HIDE DEF y
    <2>2. (y \div Growth) \in Nat /\ (y \div Growth) * Growth \in Nat /\ y < (y \div Growth) * Growth + Growth
      BY <1>1, <2>1, StridesIs
    <2> DEFINE d == y \div Growth
    <2>3. strides = d
      BY DEF y
    <2> HIDE DEF d, strides
    <2>4. d \in Nat /\ d * Growth \in Nat /\ y < d * Growth + Growth
      BY <2>2 DEF d
    <2> DEFINE z == d * Growth
    <2>5. M = z
      BY <2>3
    <2> HIDE DEF z
    <2>6. missing <= z /\ z \in Nat
      BY <1>1, <2>1, <2>4 DEF z
    <2> QED BY <2>3, <2>4, <2>5, <2>6
  <1>3. (N + M) % Growth = 0
    <2> HIDE DEF strides
    <2>1. N % Growth = 0
      BY DEF N
    <2> QED BY <1>1, <1>2, <2>1, StridesMore
  <1> HIDE DEF strides, M
  <1>4. more \in Seq(Seq(S)) /\ Len(more) = M /\ \A g \in 1..M : more[g] = <<>>
    <2>1. <<>> \in Seq(S)
      OBVIOUS
    <2>2. more \in [1..M -> Seq(S)]
      BY <2>1
    <2> QED BY <1>2, <2>2
  <1>5. t = s \o more
    BY DEF Longer, N, missing, strides, M
  <1> HIDE DEF t, more
  <1>6. /\ t \in Seq(Seq(S)) /\ Len(t) = N + M /\ (\A g \in 1..N : t[g] = s[g])
        /\ \A g \in 1..M : t[N + g] = more[g]
    <2> DEFINE T == Seq(S)
    <2> HIDE DEF T
    <2>1. s \in Seq(T) /\ more \in Seq(T)
      BY <1>4 DEF T
    <2>2. /\ s \o more \in Seq(T) /\ Len(s \o more) = Len(s) + Len(more)
          /\ (\A g \in 1..Len(s) : (s \o more)[g] = s[g])
          /\ \A g \in 1..Len(more) : (s \o more)[Len(s) + g] = more[g]
      BY <2>1, Joined
    <2> QED BY <1>4, <1>5, <2>2 DEF N, T
  <1>7. ASSUME NEW g \in 1..(N + M) PROVE t[g] = IF g <= N THEN s[g] ELSE <<>>
    <2>1. CASE g <= N
      BY <1>1, <1>6, <2>1
    <2>2. CASE ~(g <= N)
      <3>1. g - N \in 1..M /\ N + (g - N) = g
        BY <1>1, <1>2, <2>2
      <3> QED BY <1>4, <1>6, <2>2, <3>1
    <2> QED BY <2>1, <2>2
  <1>8. n <= Len(t) /\ N <= Len(t)
    BY <1>1, <1>2, <1>6
  <1> QED BY <1>3, <1>6, <1>7, <1>8 DEF t, N

-----------------------------------------------------------------------------
(* The invariant of the group-by.                                          *)

InBatch == gPc \in {"intern", "insert", "update", "append"}

\* The rows that have been through map2, and those that have been through the aggregates.
GSoFar   == IF InBatch THEN Upto(gInput, gTaken - 1) \o SubSeq(gRows, 1, Len(gInds)) ELSE Upto(gInput, gTaken)
GCounted == IF gPc \in {"intern", "insert", "update"} THEN Upto(gInput, gTaken - 1) ELSE Upto(gInput, gTaken)

GGroups == KeysBy(gQuery, GSoFar)

GInputInv == Grouping(gQuery) /\ gInput \in Seq(Seq(GRows(gQuery)))

GControlInv ==
    /\ gTaken \in 0..Len(gInput)
    /\ gPc \in {"idle", "pull", "intern", "insert", "update", "append", "ended"}
    /\ gPc = "ended" <=> ~gLive
    /\ gLive => gOut = <<>>
    /\ gPc = "ended" => gTaken = Len(gInput)
    /\ gL \in Nat /\ gK \in 1..(Len(gQuery.keys) + 1)
    /\ gPc = "idle" => gTaken = 0 /\ gMap2 = <<>> /\ gAggrs = <<>> /\ gResult = <<>> /\ gInds = <<>>
    /\ gPc # "idle" => GoodOrder(gQuery, gOrder) /\ MapsOK(gQuery, gMaps1)
    /\ InBatch => gTaken # 0 /\ gRows = gInput[gTaken]
    /\ gRows \in Seq(GRows(gQuery))
    /\ gInds \in Seq(Nat) /\ Len(gInds) <= Len(gRows)
    /\ gPc = "intern" => gInds = <<>>
    /\ gPc \in {"update", "append"} => Len(gInds) = Len(gRows)
    /\ gAppend \subseteq 1..Len(gInds)

\* map2 has the codes of the groups' keys.
GMapInv ==
    /\ gMap2 = Coded(gQuery, gOrder, gMaps1, GGroups)
    /\ gPc # "idle" => \A g \in 1..Len(GGroups) : Known(gQuery, gOrder, gMaps1, GGroups[g], Len(gQuery.keys))

\* The columns of row j that are in its code.
Done(pcs, n, ls, ks, j) == IF pcs = "insert" \/ j <= ls THEN n ELSE IF j <= ls + BlockSize THEN ks - 1 ELSE 0

GKeysInv ==
    gPc \in {"intern", "insert"} =>
        LET d(j) == Done(gPc, Len(gQuery.keys), gL, gK, j)
        IN  /\ gKeys = [j \in 1..Len(gRows) |-> Code(gQuery, gOrder, gMaps1, KeyOf(gQuery, gRows[j]), d(j))]
            /\ \A j \in 1..Len(gRows) : Known(gQuery, gOrder, gMaps1, KeyOf(gQuery, gRows[j]), d(j))

\* A row has the number of the group with its key, or none.
GIndsInv ==
    /\ \A j \in 1..Len(gInds) : gInds[j] \in 0..Len(GGroups)
    /\ gPc \in {"insert", "update"} =>
         \A j \in 1..Len(gInds), g \in 1..Len(GGroups) : gInds[j] = g <=> GGroups[g] = KeyOf(gQuery, gRows[j])

GAggrsInv ==
    gPc # "idle" =>
        /\ gAggrs = [a \in 1..Len(gQuery.aggs) |-> gAggrs[a]]
        /\ \A a \in 1..Len(gQuery.aggs) :
             /\ gAggrs[a] \in Seq(Seq(Int)) /\ Len(gAggrs[a]) % Growth = 0 /\ Len(GGroups) <= Len(gAggrs[a])
             /\ \A g \in 1..Len(gAggrs[a]) :
                  gAggrs[a][g] = IF g <= Len(GGroups) THEN ValuesBy(gQuery, GCounted, GGroups[g], gQuery.aggs[a]) ELSE <<>>

\* The keys of the rows that have opened groups.
Opened(q, rs, app, m) == FlattenSeq([n \in 1..m |-> IF n \in app THEN <<KeyOf(q, rs[n])>> ELSE <<>>])

GResultInv ==
    /\ gResult \in Seq(GKey(gQuery))
    /\ GGroups = IF InBatch THEN gResult \o Opened(gQuery, gRows, gAppend, Len(gInds)) ELSE gResult

GOutInv ==
    gPc = "ended" => gOut = <<[keys |-> gResult,
                               aggs |-> [a \in 1..Len(gQuery.aggs) |-> SubSeq(gAggrs[a], 1, Len(GGroups))]]>>

GInv == GInputInv /\ GControlInv /\ GMapInv /\ GKeysInv /\ GIndsInv /\ GAggrsInv /\ GResultInv /\ GOutInv

\* An order of all the columns goes through each of them.
LEMMA OrderIsGood ==
    ASSUME Grouping(gQuery), NEW o \in G!Orders
    PROVE  GoodOrder(gQuery, o)
  <1> DEFINE N == Len(gQuery.keys)
             S == 1..N
  <1>1. N \in Nat
    BY DEF Grouping
  <1>2. o \in [S -> S] /\ \A m, n \in S : o[m] = o[n] => m = n
    BY DEF G!Orders, G!KeyCols, G!IsInjective
  <1>3. IsFiniteSet(S)
    BY <1>1, FS_Interval
  <1> HIDE DEF S
  <1>4. o \in Injection(S, S)
    BY <1>2 DEF Injection, IsInjective
  <1>5. o \in Surjection(S, S)
    BY <1>3, <1>4, FS_Injection
  <1>6. \A c \in S : \E n \in S : o[n] = c
    BY <1>5 DEF Surjection
  <1> QED BY <1>2, <1>6 DEF GoodOrder, S

\* The streams are ones that there may be.
LEMMA TableIs ==
    ASSUME NEW q \in Groupings, NEW table \in Tables
    PROVE  Grouping(q) /\ table \in Seq(Seq(GRows(q)))
  <1> DEFINE C == ToSet(q.keys) \cup ToSet(q.aggs)
             M == Len(table)
  <1>1. /\ Grouping(q)
        /\ table \in Seq(Seq(Seq(Int)))
        /\ \A b \in DOMAIN table : \A n \in DOMAIN table[b] : C \subseteq DOMAIN table[b][n]
    BY GroupingsAssumption DEF Grouping
  <1> DEFINE T == {r \in Seq(Int) : C \subseteq DOMAIN r}
  <1>2. T = GRows(q)
    BY DEF GRows
  <1> HIDE DEF C
  <1>3. ASSUME NEW b \in 1..M PROVE table[b] \in Seq(T)
    <2> DEFINE s == table[b]
    <2>1. s \in Seq(Seq(Int)) /\ \A n \in DOMAIN s : C \subseteq DOMAIN s[n]
      BY <1>1
    <2> HIDE DEF s
    <2>2. \A n \in 1..Len(s) : s[n] \in T
      BY <2>1
    <2> HIDE DEF T
    <2>3. s \in [1..Len(s) -> T] /\ Len(s) \in Nat
      BY <2>1, <2>2
    <2>4. s \in Seq(T)
      BY <2>3
    <2> QED BY <2>4 DEF s
  <1>4. M \in Nat /\ table = [b \in 1..M |-> table[b]]
    BY <1>1
  <1> HIDE DEF T, M
  <1>5. table \in [1..M -> Seq(T)]
    BY <1>3, <1>4
  <1>6. table \in Seq(Seq(T))
    BY <1>4, <1>5
  <1> QED BY <1>1, <1>2, <1>6

\* The rows.
LEMMA SoFarIs ==
    ASSUME GInputInv, GControlInv
    PROVE  /\ GSoFar \in Seq(GRows(gQuery)) /\ GCounted \in Seq(GRows(gQuery))
           /\ gTaken = 0 => Upto(gInput, gTaken) = <<>>
           /\ InBatch => /\ Upto(gInput, gTaken - 1) \in Seq(GRows(gQuery))
                         /\ Upto(gInput, gTaken) = Upto(gInput, gTaken - 1) \o gRows
           /\ gTaken # Len(gInput) => gTaken + 1 \in 0..Len(gInput) /\ gInput[gTaken + 1] \in Seq(GRows(gQuery))
  <1> DEFINE T == GRows(gQuery)
  <1>1. gInput \in Seq(Seq(T)) /\ gTaken \in 0..Len(gInput) /\ Len(gInput) \in Nat /\ gRows \in Seq(T)
    BY DEF GInputInv, GControlInv
  <1> HIDE DEF T
  <1>2. /\ \A n \in 0..Len(gInput) : Upto(gInput, n) \in Seq(T)
        /\ \A n \in 1..Len(gInput) : Upto(gInput, n) = Upto(gInput, n - 1) \o gInput[n]
        /\ Upto(gInput, 0) = <<>>
    BY <1>1, UptoIs
  <1>3. InBatch => /\ gTaken \in 1..Len(gInput) /\ gTaken - 1 \in 0..Len(gInput)
                   /\ gRows = gInput[gTaken]
    BY <1>1 DEF GControlInv
  <1>4. SubSeq(gRows, 1, Len(gInds)) \in Seq(T)
    <2>1. Len(gInds) \in Nat /\ Len(gInds) <= Len(gRows)
      BY DEF GControlInv
    <2> DEFINE n == Len(gInds)
    <2> HIDE DEF n
    <2>2. n \in 0..Len(gRows)
      BY <1>1, <2>1 DEF n
    <2>3. 1 \in Int /\ n \in Int /\ \A j \in 1..n : gRows[j] \in T
      BY <1>1, <2>2
    <2>4. SubSeq(gRows, 1, n) \in Seq(T)
      BY <2>3, SubSeqProperties
    <2> QED BY <2>4 DEF n
  <1>5. InBatch => Upto(gInput, gTaken - 1) \in Seq(T) /\ Upto(gInput, gTaken) = Upto(gInput, gTaken - 1) \o gRows
    BY <1>2, <1>3
  <1>6. Upto(gInput, gTaken) \in Seq(T)
    BY <1>1, <1>2
  <1>7. GSoFar \in Seq(T)
    <2> DEFINE s == Upto(gInput, gTaken - 1)
               r == SubSeq(gRows, 1, Len(gInds))
    <2>1. InBatch => s \in Seq(T) /\ r \in Seq(T)
      BY <1>4, <1>5
    <2>2. GSoFar = IF InBatch THEN s \o r ELSE Upto(gInput, gTaken)
      BY DEF GSoFar
    <2> HIDE DEF s, r
    <2>3. InBatch => s \o r \in Seq(T)
      BY <2>1
    <2> QED BY <1>6, <2>2, <2>3
  <1>8. GCounted \in Seq(T)
    BY <1>5, <1>6 DEF GCounted, InBatch
  <1>9. gTaken # Len(gInput) => gTaken + 1 \in 0..Len(gInput) /\ gInput[gTaken + 1] \in Seq(T)
    <2> SUFFICES ASSUME gTaken # Len(gInput)
                 PROVE  gTaken + 1 \in 0..Len(gInput) /\ gInput[gTaken + 1] \in Seq(T)
      OBVIOUS
    <2>1. gTaken + 1 \in 0..Len(gInput) /\ gTaken + 1 \in 1..Len(gInput)
      BY <1>1
    <2> QED BY <1>1, <2>1
  <1> QED BY <1>2, <1>5, <1>7, <1>8, <1>9 DEF T

\* The groups.
LEMMA GroupsAre ==
    ASSUME GInputInv, GControlInv
    PROVE  /\ GGroups \in Seq(GKey(gQuery)) /\ Distinct(GGroups) /\ Len(GGroups) \in Nat
           /\ gQuery.limit # NoLimit => Len(GGroups) <= gQuery.limit
           /\ ~Full(gQuery, GGroups) => ToSet(GGroups) = {KeyOf(gQuery, GSoFar[n]) : n \in 1..Len(GSoFar)}
           /\ \A g \in 1..Len(GGroups) : GGroups[g] \in GKey(gQuery)
  <1>1. Grouping(gQuery) /\ GSoFar \in Seq(GRows(gQuery))
    BY SoFarIs DEF GInputInv
  <1> DEFINE s == GSoFar
             q == gQuery
             K == KeysBy(q, s)
  <1> HIDE DEF s, q
  <1>2. /\ K \in Seq(GKey(q)) /\ Distinct(K) /\ Len(K) \in Nat
        /\ q.limit # NoLimit => Len(K) <= q.limit
        /\ ~Full(q, K) => ToSet(K) = {KeyOf(q, s[n]) : n \in 1..Len(s)}
    <2>1. Grouping(q) /\ s \in Seq(GRows(q))
      BY <1>1 DEF q, s
    <2> QED BY <2>1, KeysIs
  <1>3. K = GGroups
    BY DEF GGroups, s, q
  <1> HIDE DEF K
  <1>4. \A g \in 1..Len(K) : K[g] \in GKey(q)
    BY <1>2
  <1> QED BY <1>2, <1>3, <1>4 DEF s, q

-----------------------------------------------------------------------------
(* The steps of the group-by.                                              *)

LEMMA GCallKeeps ==
    ASSUME GInv, gLive, G!Call
    PROVE  GInv'
  <1> DEFINE q == gQuery
             N == Len(gQuery.keys)
             A == Len(gQuery.aggs)
  <1>1. gPc = "idle" /\ gTaken = 0 /\ gOut = <<>> /\ Grouping(q) /\ gInds = <<>> /\ gResult = <<>>
    BY DEF GInv, GControlInv, GInputInv, G!Call
  <1>2. N \in Nat /\ A \in Nat /\ DOMAIN gQuery.keys = 1..N /\ DOMAIN gQuery.aggs = 1..A
    BY <1>1 DEF Grouping
  <1>3. /\ gPc' = "pull" /\ gOrder' \in G!Orders
        /\ gMaps1' = [c \in 1..N |-> <<>>]
        /\ gMap2' = <<>> /\ gAggrs' = [a \in 1..A |-> <<>>] /\ gResult' = <<>>
        /\ UNCHANGED <<gQuery, gInput, gTaken, gLive, gRows, gL, gK, gKeys, gInds, gAppend, gOut>>
    BY <1>2 DEF G!Call, G!batchVars, G!KeyCols, G!AggCols
  <1>4. GInputInv'
    BY <1>3 DEF GInv, GInputInv
  <1>5. GGroups' = <<>> /\ ~InBatch'
    <2>1. ~InBatch'
      BY <1>3 DEF InBatch
    <2>2. GSoFar' = Upto(gInput, 0)
      BY <1>1, <1>3, <2>1 DEF GSoFar
    <2>3. Upto(gInput, 0) = <<>>
      BY <1>1, SoFarIs DEF GInv
    <2>4. GGroups' = KeysBy(gQuery, <<>>)
      BY <1>3, <2>2, <2>3 DEF GGroups
    <2> QED BY <1>1, <2>1, <2>4, KeysNone
  <1>6. GControlInv'
    <2>1. GoodOrder(gQuery, gOrder')
      BY <1>1, <1>3, OrderIsGood
    <2>2. MapsOK(gQuery, gMaps1')
      <3>1. <<>> \in Seq(Int) /\ Distinct(<<>>)
        BY DEF Distinct
      <3> QED BY <1>3, <3>1 DEF MapsOK
    <2> QED BY <1>3, <1>5, <2>1, <2>2 DEF GInv, GControlInv
  <1>7. GMapInv'
    <2>1. Coded(gQuery', gOrder', gMaps1', <<>>) = <<>>
      BY DEF Coded
    <2> QED BY <1>3, <1>5, <2>1 DEF GMapInv
  <1>8. GKeysInv'
    BY <1>3 DEF GKeysInv
  <1>9. GIndsInv'
    BY <1>1, <1>3 DEF GIndsInv
  <1>10. GAggrsInv'
    <2>1. <<>> \in Seq(Seq(Int)) /\ Len(<<>>) = 0 /\ 0 % Growth = 0
      BY SizesAssumption
    <2> QED BY <1>3, <1>5, <2>1 DEF GAggrsInv
  <1>11. GResultInv'
    BY <1>3, <1>5 DEF GResultInv
  <1>12. GOutInv'
    BY <1>3 DEF GOutInv
  <1> QED BY <1>4, <1>6, <1>7, <1>8, <1>9, <1>10, <1>11, <1>12 DEF GInv

LEMMA GPullKeeps ==
    ASSUME GInv, G!Pull
    PROVE  GInv'
  <1> DEFINE N == Len(gQuery.keys)
             B == gInput[gTaken + 1]
  <1>1. /\ gPc = "pull" /\ gTaken < Len(gInput) /\ gTaken' = gTaken + 1 /\ gRows' = B
        /\ gL' = 0 /\ gK' = 1 /\ gKeys' = [j \in DOMAIN B |-> <<>>] /\ gInds' = <<>> /\ gAppend' = {} /\ gPc' = "intern"
        /\ UNCHANGED <<gQuery, gInput, gLive, gOrder, gMaps1, gMap2, gAggrs, gResult, gOut>>
    BY DEF G!Pull, G!tables
  <1>2. N \in Nat /\ gTaken \in Nat /\ Len(gInput) \in Nat /\ gTaken # Len(gInput) /\ GInputInv /\ GControlInv /\ Grouping(gQuery)
    <2>1. GInputInv /\ GControlInv /\ Grouping(gQuery) /\ gInput \in Seq(Seq(GRows(gQuery)))
      BY DEF GInv, GInputInv
    <2>2. N \in Nat /\ Len(gInput) \in Nat
      BY <2>1 DEF Grouping
    <2>3. gTaken \in Nat
      BY <2>1, <2>2 DEF GControlInv
    <2> QED BY <1>1, <2>1, <2>2, <2>3
  <1>3. gTaken + 1 \in 0..Len(gInput) /\ B \in Seq(GRows(gQuery)) /\ Upto(gInput, gTaken) \in Seq(GRows(gQuery))
    <2>1. gTaken + 1 \in 0..Len(gInput) /\ B \in Seq(GRows(gQuery))
      BY <1>2, SoFarIs
    <2>2. GSoFar = Upto(gInput, gTaken)
      BY <1>1 DEF GSoFar, InBatch
    <2> QED BY <1>2, <2>1, <2>2, SoFarIs
  <1> HIDE DEF B
  <1>4. GInputInv'
    BY <1>1 DEF GInv, GInputInv
  <1>5. InBatch' /\ ~InBatch /\ GGroups' = GGroups
    <2>1. InBatch' /\ ~InBatch
      BY <1>1 DEF InBatch
    <2>2. GSoFar = Upto(gInput, gTaken)
      BY <2>1 DEF GSoFar
    <2>3. GSoFar' = Upto(gInput, gTaken) \o SubSeq(B, 1, 0)
      <3>1. gTaken' - 1 = gTaken /\ Len(gInds') = 0
        BY <1>1, <1>2
      <3> QED BY <1>1, <2>1, <3>1 DEF GSoFar
    <2>4. GSoFar' = GSoFar
      <3>1. SubSeq(B, 1, 0) = <<>>
        BY <1>3, SubSeqEmpty
      <3> DEFINE u == Upto(gInput, gTaken)
      <3> HIDE DEF u
      <3>2. u \o <<>> = u
        BY <1>3 DEF u
      <3> QED BY <2>2, <2>3, <3>1, <3>2 DEF u
    <2> QED BY <1>1, <2>1, <2>4 DEF GGroups
  <1>6. GControlInv'
    <2>1. gTaken' # 0 /\ gRows' = gInput'[gTaken'] /\ Len(gInds') = 0 /\ gInds' \in Seq(Nat)
      BY <1>1, <1>2 DEF B
    <2>2. gRows' \in Seq(GRows(gQuery')) /\ Len(gInds') <= Len(gRows') /\ gTaken' \in 0..Len(gInput')
      BY <1>1, <1>3, <2>1
    <2>3. gL' \in Nat /\ gK' \in 1..(Len(gQuery'.keys) + 1)
      BY <1>1, <1>2
    <2>4. GoodOrder(gQuery', gOrder') /\ MapsOK(gQuery', gMaps1')
      BY <1>1, <1>2 DEF GControlInv
    <2> QED BY <1>1, <1>2, <2>1, <2>2, <2>3, <2>4 DEF GControlInv
  <1>7. GMapInv'
    BY <1>1, <1>5 DEF GInv, GMapInv
  <1>8. GKeysInv'
    <2>1. DOMAIN B = 1..Len(B)
      BY <1>3
    <2> DEFINE d(j) == Done(gPc', Len(gQuery.keys), gL', gK', j)
    <2>2. \A j \in 1..Len(B) : d(j) = 0
      <3>1. \A j \in 1..Len(B) : ~(j <= 0) /\ 1 - 1 = 0
        BY <1>3
      <3> QED BY <1>1, <3>1 DEF Done
    <2> HIDE DEF d
    <2>3. \A j \in 1..Len(B) : /\ Code(gQuery, gOrder, gMaps1, KeyOf(gQuery, B[j]), d(j)) = <<>>
                               /\ Known(gQuery, gOrder, gMaps1, KeyOf(gQuery, B[j]), d(j))
      BY <2>2 DEF Code, Known
    <2> QED BY <1>1, <2>1, <2>3 DEF GKeysInv, d
  <1>9. GIndsInv'
    BY <1>1 DEF GIndsInv
  <1>10. GAggrsInv'
    <2>1. GCounted' = GCounted
      <3>1. gTaken' - 1 = gTaken
        BY <1>1, <1>2
      <3> QED BY <1>1, <3>1 DEF GCounted
    <2> QED BY <1>1, <1>5, <2>1 DEF GInv, GAggrsInv
  <1>11. GResultInv'
    <2>1. Opened(gQuery', gRows', gAppend', Len(gInds')) = <<>>
      <3>1. Len(gInds') = 0
        BY <1>1
      <3>2. [n \in 1..0 |-> IF n \in gAppend' THEN <<KeyOf(gQuery', gRows'[n])>> ELSE <<>>] = <<>>
        OBVIOUS
      <3> QED BY <3>1, <3>2, FlattenNone DEF Opened
    <2>2. gResult \in Seq(GKey(gQuery)) /\ GGroups = gResult
      BY <1>5 DEF GInv, GResultInv
    <2>3. gResult \o <<>> = gResult
      BY <2>2
    <2> QED BY <1>1, <1>5, <2>1, <2>2, <2>3 DEF GResultInv
  <1>12. GOutInv'
    BY <1>1 DEF GOutInv
  <1> QED BY <1>4, <1>6, <1>7, <1>8, <1>9, <1>10, <1>11, <1>12 DEF GInv

LEMMA NextBlockKeeps ==
    ASSUME GInv, G!NextBlock
    PROVE  GInv'
  <1> DEFINE N == Len(gQuery.keys)
             M == Len(gRows)
  <1>1. /\ gPc = "intern" /\ (gL < M => gK > Len(gOrder)) /\ gL' = gL + BlockSize /\ gK' = 1
        /\ gPc' = IF gL + BlockSize < M THEN "intern" ELSE "insert"
        /\ UNCHANGED <<gQuery, gInput, gTaken, gLive, gOrder, gMaps1, gMap2, gAggrs, gResult, gRows, gKeys, gInds,
                       gAppend, gOut>>
    BY DEF G!NextBlock, G!tables
  <1>2. /\ N \in Nat /\ M \in Nat /\ gL \in Nat /\ gK \in 1..(N + 1) /\ BlockSize \in Nat /\ BlockSize # 0
        /\ GInputInv /\ GControlInv /\ GoodOrder(gQuery, gOrder)
    BY <1>1, SizesAssumption DEF GInv, GControlInv, GInputInv, Grouping
  <1>3. Len(gOrder) = N
    BY <1>2 DEF GoodOrder
  <1>4. GInputInv'
    BY <1>1, <1>2 DEF GInputInv
  <1>5. InBatch' /\ InBatch /\ GGroups' = GGroups /\ GCounted' = GCounted
    <2>1. gPc' \in {"intern", "insert"}
      BY <1>1
    <2>2. InBatch' /\ InBatch
      BY <1>1, <2>1 DEF InBatch
    <2>3. GSoFar' = GSoFar
      BY <1>1, <2>2 DEF GSoFar
    <2> QED BY <1>1, <2>1, <2>2, <2>3 DEF GGroups, GCounted
  <1>6. GControlInv'
    <2>1. gL' \in Nat /\ gK' \in 1..(Len(gQuery'.keys) + 1) /\ gPc' \in {"intern", "insert"}
      BY <1>1, <1>2
    <2> QED BY <1>1, <1>2, <1>5, <2>1 DEF GControlInv, InBatch
  <1>7. GMapInv'
    BY <1>1, <1>5 DEF GInv, GMapInv
  <1>8. GKeysInv'
    <2> HIDE DEF N, M
    <2>1. \A j \in 1..M : Done(gPc', N, gL', gK', j) = Done(gPc, N, gL, gK, j)
      <3> SUFFICES ASSUME NEW j \in 1..M PROVE Done(gPc', N, gL', gK', j) = Done(gPc, N, gL, gK, j)
        OBVIOUS
      <3>1. CASE j <= gL
        <4>1. j <= gL + BlockSize
          BY <1>2, <3>1
        <4> QED BY <1>1, <3>1, <4>1 DEF Done
      <3>2. CASE ~(j <= gL) /\ j <= gL + BlockSize
        <4>1. gL < M
          BY <1>2, <3>2
        <4>2. gK - 1 = N
          BY <1>1, <1>2, <1>3, <4>1
        <4> QED BY <1>1, <3>2, <4>2 DEF Done
      <3>3. CASE ~(j <= gL + BlockSize)
        <4>1. gL + BlockSize < M /\ ~(j <= gL)
          BY <1>2, <3>3
        <4>2. gPc' = "intern" /\ gK' - 1 = 0
          BY <1>1, <4>1
        <4> QED BY <1>1, <3>3, <4>1, <4>2 DEF Done
      <3> QED BY <3>1, <3>2, <3>3
    <2>2. /\ gKeys = [j \in 1..M |-> Code(gQuery, gOrder, gMaps1, KeyOf(gQuery, gRows[j]), Done(gPc, N, gL, gK, j))]
          /\ \A j \in 1..M : Known(gQuery, gOrder, gMaps1, KeyOf(gQuery, gRows[j]), Done(gPc, N, gL, gK, j))
      BY <1>1 DEF GInv, GKeysInv, N, M
    <2>3. /\ gKeys = [j \in 1..M |-> Code(gQuery, gOrder, gMaps1, KeyOf(gQuery, gRows[j]), Done(gPc', N, gL', gK', j))]
          /\ \A j \in 1..M : Known(gQuery, gOrder, gMaps1, KeyOf(gQuery, gRows[j]), Done(gPc', N, gL', gK', j))
      BY <2>1, <2>2
    <2> QED BY <1>1, <2>3 DEF GKeysInv, N, M
  <1>9. GIndsInv'
    <2>1. gInds' = <<>>
      BY <1>1, <1>2 DEF GControlInv
    <2> QED BY <2>1 DEF GIndsInv
  <1>10. GAggrsInv'
    <2>1. gPc # "idle" /\ gPc' # "idle"
      BY <1>1
    <2> QED BY <1>1, <1>5, <2>1 DEF GInv, GAggrsInv
  <1>11. GResultInv'
    BY <1>1, <1>5 DEF GInv, GResultInv
  <1>12. GOutInv'
    BY <1>1 DEF GOutInv
  <1> QED BY <1>4, <1>6, <1>7, <1>8, <1>9, <1>10, <1>11, <1>12 DEF GInv

LEMMA RowsInsertedKeeps ==
    ASSUME GInv, G!RowsInserted
    PROVE  GInv'
  <1>1. /\ gPc = "insert" /\ Len(gInds) = Len(gRows) /\ gPc' = "update"
        /\ UNCHANGED <<gQuery, gInput, gTaken, gLive, gOrder, gMaps1, gMap2, gAggrs, gResult, gRows, gL, gK, gKeys, gInds,
                       gAppend, gOut>>
    BY DEF G!RowsInserted, G!tables, G!batchVars
  <1>2. GInputInv'
    BY <1>1 DEF GInv, GInputInv
  <1>3. InBatch' /\ InBatch /\ GGroups' = GGroups /\ GCounted' = GCounted
    <2>1. InBatch' /\ InBatch
      BY <1>1 DEF InBatch
    <2>2. GSoFar' = GSoFar
      BY <1>1, <2>1 DEF GSoFar
    <2> QED BY <1>1, <2>1, <2>2 DEF GGroups, GCounted
  <1>4. GControlInv'
    BY <1>1, <1>3 DEF GInv, GControlInv
  <1>5. GMapInv'
    BY <1>1, <1>3 DEF GInv, GMapInv
  <1>6. GKeysInv'
    BY <1>1 DEF GKeysInv
  <1>7. GIndsInv'
    BY <1>1, <1>3 DEF GInv, GIndsInv
  <1>8. GAggrsInv'
    BY <1>1, <1>3 DEF GInv, GAggrsInv
  <1>9. GResultInv'
    BY <1>1, <1>3 DEF GInv, GResultInv
  <1>10. GOutInv'
    BY <1>1 DEF GOutInv
  <1> QED BY <1>2, <1>4, <1>5, <1>6, <1>7, <1>8, <1>9, <1>10 DEF GInv

\* The values of column c in one block, in their order.
LEMMA BlockIs ==
    ASSUME GInv, gPc = "intern", gL < Len(gRows), NEW c, \A j \in 1..Len(gRows) : gRows[j][c] \in Int
    PROVE  LET b == [n \in 1..(G!BlockEnd - gL) |-> gRows[gL + n][c]]
           IN  /\ b \in Seq(Int)
               /\ \A j \in 1..Len(gRows) : (j \in G!Block <=> ~(j <= gL) /\ j <= gL + BlockSize)
               /\ \A j \in 1..Len(gRows) : j \in G!Block => gRows[j][c] \in ToSet(b)
  <1> DEFINE M == Len(gRows)
             E == G!BlockEnd
             b == [n \in 1..(E - gL) |-> gRows[gL + n][c]]
             v(j) == gRows[j][c]
  <1>1. M \in Nat /\ gL \in Nat /\ gL < M /\ BlockSize \in Nat /\ BlockSize # 0
    BY SizesAssumption DEF GInv, GControlInv
  <1>2. E = (IF gL + BlockSize < M THEN gL + BlockSize ELSE M) /\ G!Block = (gL + 1)..E
    BY DEF G!BlockEnd, G!Block
  <1>3. \A j \in 1..M : v(j) \in Int
    OBVIOUS
  <1> HIDE DEF M, E, v
  <1>4. E \in Nat /\ E - gL \in Nat /\ E <= M /\ gL < E
    BY <1>1, <1>2
  <1>5. b = [n \in 1..(E - gL) |-> v(gL + n)]
    BY DEF v
  <1> HIDE DEF b
  <1>6. \A n \in 1..(E - gL) : gL + n \in 1..M
    BY <1>1, <1>4
  <1>7. b \in [1..(E - gL) -> Int]
    BY <1>3, <1>5, <1>6
  <1>8. b \in Seq(Int) /\ Len(b) = E - gL /\ DOMAIN b = 1..(E - gL)
    BY <1>4, <1>7
  <1>9. \A j \in 1..M : (j \in G!Block <=> ~(j <= gL) /\ j <= gL + BlockSize)
    BY <1>1, <1>2, <1>4
  <1>10. ASSUME NEW j \in 1..M, j \in G!Block PROVE v(j) \in ToSet(b)
    <2>1. j - gL \in 1..(E - gL) /\ gL + (j - gL) = j
      BY <1>1, <1>2, <1>4, <1>10
    <2>2. b[j - gL] = v(j)
      BY <1>5, <2>1
    <2> QED BY <1>8, <2>1, <2>2 DEF ToSet
  <1> QED BY <1>8, <1>9, <1>10 DEF M, E, b, v

LEMMA InternKeeps ==
    ASSUME GInv, G!Intern
    PROVE  GInv'
  <1> DEFINE q == gQuery
             o == gOrder
             N == Len(gQuery.keys)
             M == Len(gRows)
             kc == gOrder[gK]
             c == gQuery.keys[gOrder[gK]]
             b == [n \in 1..(G!BlockEnd - gL) |-> gRows[gL + n][c]]
             map == G!InsertAll(gMaps1[kc], b)
             new(j) == IF c \in gQuery.strings THEN G!NumberOf(gRows[j][c], map) ELSE gRows[j][c]
             x(j) == KeyOf(gQuery, gRows[j])
             d(j) == Done(gPc, N, gL, gK, j)
  <1>1. /\ gPc = "intern" /\ gL < M /\ gK <= Len(gOrder) /\ gK' = gK + 1
        /\ gMaps1' = IF c \in gQuery.strings THEN [gMaps1 EXCEPT ![kc] = map] ELSE gMaps1
        /\ gKeys' = [j \in DOMAIN gRows |-> IF j \in G!Block THEN Append(gKeys[j], new(j)) ELSE gKeys[j]]
        /\ UNCHANGED <<gQuery, gInput, gTaken, gLive, gPc, gOrder, gMap2, gAggrs, gResult, gRows, gL, gInds, gAppend, gOut>>
    BY DEF G!Intern, G!KeyCols, G!Strings
  <1>2. /\ GInputInv /\ GControlInv /\ Grouping(q) /\ GoodOrder(q, o) /\ MapsOK(q, gMaps1)
        /\ N \in Nat /\ M \in Nat /\ gL \in Nat /\ DOMAIN gRows = 1..M /\ gRows \in Seq(GRows(q)) /\ DOMAIN gQuery.keys = 1..N
    <2>1. GInputInv /\ GControlInv /\ Grouping(q) /\ GoodOrder(q, o) /\ MapsOK(q, gMaps1) /\ gRows \in Seq(GRows(q)) /\ gL \in Nat
      BY <1>1 DEF GInv, GInputInv, GControlInv
    <2>2. N \in Nat /\ DOMAIN gQuery.keys = 1..N
      BY <2>1 DEF Grouping
    <2> QED BY <2>1, <2>2
  <1>3. gK \in 1..N /\ kc \in 1..N /\ gK - 1 \in 0..N
    <2>1. Len(gOrder) = N /\ gK \in 1..(N + 1)
      BY <1>2 DEF GoodOrder, GControlInv
    <2>2. gK \in 1..N /\ gK - 1 \in 0..N
      BY <1>1, <1>2, <2>1
    <2>3. gOrder \in [1..N -> 1..N]
      BY <1>2 DEF GoodOrder
    <2>4. kc \in 1..N
      BY <2>2, <2>3
    <2> QED BY <2>2, <2>4
  <1>4. ASSUME NEW j \in 1..M PROVE x(j) \in GKey(q) /\ x(j)[kc] = gRows[j][c] /\ gRows[j][c] \in Int
    <2>1. gRows[j] \in GRows(q)
      BY <1>2
    <2>2. KeyOf(q, gRows[j]) \in GKey(q) /\ KeyOf(q, gRows[j])[kc] = gRows[j][q.keys[kc]]
      BY <1>2, <1>3, <2>1, KeyOfIs
    <2> QED BY <1>2, <1>3, <2>2 DEF GKey
  <1>5. /\ b \in Seq(Int)
        /\ \A j \in 1..M : (j \in G!Block <=> ~(j <= gL) /\ j <= gL + BlockSize)
        /\ \A j \in 1..M : j \in G!Block => gRows[j][c] \in ToSet(b)
    BY <1>1, <1>4, BlockIs
  <1>6. map \in Seq(Int) /\ Distinct(map) /\ ToSet(map) = ToSet(gMaps1[kc]) \cup ToSet(b) /\ Extends(gMaps1[kc], map)
    <2> DEFINE a == gMaps1[kc]
    <2>1. a \in Seq(Int) /\ Distinct(a)
      BY <1>2, <1>3 DEF MapsOK
    <2> HIDE DEF a, b
    <2>2. LET t == G!InsertAll(a, b)
          IN  t \in Seq(Int) /\ Distinct(t) /\ ToSet(t) = ToSet(a) \cup ToSet(b) /\ Extends(a, t)
      BY <1>5, <2>1, InsertAllIs
    <2> QED BY <2>2 DEF a
  <1> HIDE DEF b, map
  <1>7. MapsOK(q, gMaps1') /\ MapsGrow(q, gMaps1, gMaps1') /\ (c \in gQuery.strings => gMaps1'[kc] = map)
    <2>1. \A a \in Seq(Int) : Extends(a, a)
      BY DEF Extends
    <2>2. gMaps1 = [e \in 1..N |-> gMaps1[e]] /\ \A e \in 1..N : gMaps1[e] \in Seq(Int) /\ Distinct(gMaps1[e])
      BY <1>2 DEF MapsOK
    <2>3. CASE c \in gQuery.strings
      <3>1. gMaps1' = [gMaps1 EXCEPT ![kc] = map]
        BY <1>1, <2>3
      <3> HIDE DEF kc, N, c
      <3>2. gMaps1' = [e \in 1..N |-> gMaps1'[e]] /\ \A e \in 1..N : gMaps1'[e] = IF e = kc THEN map ELSE gMaps1[e]
        BY <2>2, <3>1
      <3>3. \A e \in 1..N : gMaps1'[e] \in Seq(Int) /\ Distinct(gMaps1'[e]) /\ Extends(gMaps1[e], gMaps1'[e])
        BY <1>6, <2>1, <2>2, <3>2
      <3>4. gMaps1'[kc] = map
        BY <1>3, <3>2
      <3> QED BY <3>2, <3>3, <3>4 DEF MapsOK, MapsGrow, N
    <2>4. CASE c \notin gQuery.strings
      <3>1. gMaps1' = gMaps1
        BY <1>1, <2>4
      <3> QED BY <1>2, <2>1, <2>2, <2>4, <3>1 DEF MapsGrow
    <2> QED BY <2>3, <2>4
  <1>8. ASSUME NEW key, NEW n \in 0..N, Known(q, o, gMaps1, key, n)
        PROVE  Known(q, o, gMaps1', key, n) /\ Code(q, o, gMaps1', key, n) = Code(q, o, gMaps1, key, n)
    <2> DEFINE m1 == gMaps1
               m2 == gMaps1'
    <2> HIDE DEF m1, m2
    <2>1. /\ Grouping(q) /\ GoodOrder(q, o) /\ MapsOK(q, m1) /\ MapsOK(q, m2) /\ MapsGrow(q, m1, m2)
          /\ Known(q, o, m1, key, n) /\ n \in 0..Len(q.keys)
      BY <1>2, <1>7, <1>8 DEF m1, m2
    <2> HIDE DEF q, o
    <2>2. Known(q, o, m2, key, n) /\ Code(q, o, m2, key, n) = Code(q, o, m1, key, n)
      BY <2>1, CodeStays
    <2> QED BY <2>2 DEF m1, m2
  <1>9. GInputInv'
    BY <1>1, <1>2 DEF GInputInv
  <1>10. InBatch' /\ InBatch /\ GGroups' = GGroups /\ GCounted' = GCounted
    <2>1. InBatch' /\ InBatch
      BY <1>1 DEF InBatch
    <2>2. GSoFar' = GSoFar
      BY <1>1, <2>1 DEF GSoFar
    <2> QED BY <1>1, <2>1, <2>2 DEF GGroups, GCounted
  <1>11. GControlInv'
    <2>1. gK' \in 1..(N + 1)
      BY <1>1, <1>2, <1>3
    <2> HIDE DEF N
    <2> QED BY <1>1, <1>2, <1>7, <1>10, <2>1 DEF GControlInv, N
  <1>12. GMapInv'
    <2>1. /\ gMap2 = [g \in 1..Len(GGroups) |-> Code(q, o, gMaps1, GGroups[g], N)]
          /\ \A g \in 1..Len(GGroups) : Known(q, o, gMaps1, GGroups[g], N)
      BY <1>1 DEF GInv, GMapInv, Coded
    <2>2. N \in 0..N
      BY <1>2
    <2> HIDE DEF N
    <2>3. \A g \in 1..Len(GGroups) : /\ Known(q, o, gMaps1', GGroups[g], N)
                                     /\ Code(q, o, gMaps1', GGroups[g], N) = Code(q, o, gMaps1, GGroups[g], N)
      BY <1>8, <2>1, <2>2
    <2>4. /\ gMap2 = [g \in 1..Len(GGroups) |-> Code(q, o, gMaps1', GGroups[g], N)]
          /\ \A g \in 1..Len(GGroups) : Known(q, o, gMaps1', GGroups[g], N)
      BY <2>1, <2>3
    <2> QED BY <1>1, <1>10, <2>4 DEF GMapInv, Coded, N
  <1>13. GKeysInv'
    <2> DEFINE e(j) == Done(gPc, N, gL, gK + 1, j)
    <2>1. ASSUME NEW j \in 1..M
          PROVE  /\ gKeys'[j] = Code(q, o, gMaps1', x(j), e(j))
                 /\ Known(q, o, gMaps1', x(j), e(j))
      <3>1. gKeys[j] = Code(q, o, gMaps1, x(j), d(j)) /\ Known(q, o, gMaps1, x(j), d(j))
        BY <1>1 DEF GInv, GKeysInv
      <3>2. gKeys'[j] = IF j \in G!Block THEN Append(gKeys[j], new(j)) ELSE gKeys[j]
        BY <1>1, <1>2
      <3> DEFINE y == x(j)
      <3>3. CASE j \notin G!Block
        <4>1. d(j) = e(j) /\ d(j) \in 0..N
          <5>1. ~(~(j <= gL) /\ j <= gL + BlockSize)
            BY <1>5, <3>3
          <5> QED BY <1>1, <1>2, <5>1 DEF Done
        <4> HIDE DEF x, d, e
        <4> QED BY <1>8, <3>1, <3>2, <3>3, <4>1
      <3>4. CASE j \in G!Block
        <4>1. d(j) = gK - 1 /\ e(j) = gK
          <5>1. ~(j <= gL) /\ j <= gL + BlockSize
            BY <1>5, <3>4
          <5>2. (gK + 1) - 1 = gK
            BY <1>3
          <5> QED BY <1>1, <5>1, <5>2 DEF Done
        <4>2. Known(q, o, gMaps1', y, gK - 1) /\ Code(q, o, gMaps1', y, gK - 1) = gKeys[j]
          <5> HIDE DEF x, d, e
          <5> QED BY <1>3, <1>8, <3>1, <4>1
        <4>3. y[kc] = gRows[j][c] /\ gRows[j][c] \in ToSet(b)
          BY <1>4, <1>5, <3>4
        <4>4. Part(q, o, gMaps1', y, gK) = new(j) /\ (c \in q.strings => y[kc] \in ToSet(gMaps1'[kc]))
          BY <1>6, <1>7, <4>3 DEF Part
        <4>5. Known(q, o, gMaps1', y, gK)
          <5>1. \A n \in 1..gK : n \in 1..(gK - 1) \/ n = gK
            BY <1>3
          <5> QED BY <4>2, <4>4, <5>1 DEF Known
        <4>6. Code(q, o, gMaps1', y, gK) = Append(gKeys[j], new(j))
          <5> DEFINE p(n) == Part(q, o, gMaps1', y, n)
                     u == gK - 1
          <5>1. gKeys[j] = [n \in 1..u |-> p(n)] /\ u \in Nat /\ u + 1 = gK
            BY <1>3, <4>2 DEF Code
          <5> HIDE DEF p, u
          <5>2. Append([n \in 1..u |-> p(n)], p(u + 1)) = [n \in 1..(u + 1) |-> p(n)]
            <6> DEFINE S == {p(n) : n \in 1..(u + 1)}
                       s == [n \in 1..u |-> p(n)]
                       t == Append(s, p(u + 1))
            <6>1. \A n \in 1..(u + 1) : p(n) \in S
              OBVIOUS
            <6> HIDE DEF S
            <6>2. s \in [1..u -> S] /\ p(u + 1) \in S
              BY <5>1, <6>1
            <6>3. s \in Seq(S) /\ Len(s) = u /\ \A n \in 1..u : s[n] = p(n)
              BY <5>1, <6>2
            <6> HIDE DEF s
            <6>4. t \in Seq(S) /\ Len(t) = u + 1 /\ t[u + 1] = p(u + 1) /\ \A n \in 1..u : t[n] = s[n]
              BY <6>2, <6>3
            <6> HIDE DEF t
            <6>5. t = [n \in 1..(u + 1) |-> t[n]]
              BY <6>4
            <6>6. \A n \in 1..(u + 1) : t[n] = p(n)
              <7>1. \A n \in 1..(u + 1) : n \in 1..u \/ n = u + 1
                BY <5>1
              <7> QED BY <6>3, <6>4, <7>1
            <6> QED BY <6>5, <6>6 DEF s, t
          <5>3. Code(q, o, gMaps1', y, gK) = [n \in 1..gK |-> p(n)]
            BY DEF Code, p
          <5>4. p(gK) = new(j)
            BY <4>4 DEF p
          <5> HIDE DEF new, y
          <5> QED BY <5>1, <5>2, <5>3, <5>4
        <4> HIDE DEF x, d, e, new
        <4> QED BY <3>2, <3>4, <4>1, <4>5, <4>6
      <3> QED BY <3>3, <3>4
    <2>2. gKeys' = [j \in 1..M |-> gKeys'[j]]
      BY <1>1, <1>2
    <2> HIDE DEF N, M, e
    <2>3. /\ gKeys' = [j \in 1..M |-> Code(q, o, gMaps1', x(j), e(j))]
          /\ \A j \in 1..M : Known(q, o, gMaps1', x(j), e(j))
      <3> HIDE DEF x, q, o
      <3> QED BY <2>1, <2>2
    <2> QED BY <1>1, <2>3 DEF GKeysInv, N, M, e
  <1>14. GIndsInv'
    BY <1>1, <1>10 DEF GInv, GIndsInv
  <1>15. GAggrsInv'
    BY <1>1, <1>10 DEF GInv, GAggrsInv
  <1>16. GResultInv'
    BY <1>1, <1>10 DEF GInv, GResultInv
  <1>17. GOutInv'
    BY <1>1 DEF GOutInv
  <1> QED BY <1>9, <1>11, <1>12, <1>13, <1>14, <1>15, <1>16, <1>17 DEF GInv

\* One more row of the batch has been through map2.
LEMMA OneMoreRow ==
    ASSUME GInv, InBatch, InBatch', UNCHANGED <<gQuery, gInput, gTaken, gRows>>,
           NEW j \in 1..Len(gRows), Len(gInds) = j - 1, Len(gInds') = j
    PROVE  /\ gRows[j] \in GRows(gQuery) /\ KeyOf(gQuery, gRows[j]) \in GKey(gQuery)
           /\ \A n \in 1..(j - 1) : \E m \in 1..Len(GSoFar) : GSoFar[m] = gRows[n]
           /\ \A n \in 1..Len(Upto(gInput, gTaken - 1)) :
                \E m \in 1..Len(GSoFar) : GSoFar[m] = Upto(gInput, gTaken - 1)[n]
           /\ GGroups' = IF Full(gQuery, GGroups) THEN GGroups
                         ELSE G!Insert(GGroups, KeyOf(gQuery, gRows[j]))
  <1> DEFINE T == GRows(gQuery)
             r == gRows[j]
             M == Len(gRows)
             P == Upto(gInput, gTaken - 1)
             y == SubSeq(gRows, 1, j - 1)
             z == SubSeq(gRows, 1, j)
  <1>1. GInputInv /\ GControlInv /\ Grouping(gQuery) /\ gRows \in Seq(T) /\ GSoFar \in Seq(T) /\ P \in Seq(T)
    BY SoFarIs DEF GInv, GInputInv, GControlInv
  <1>2. r \in T /\ KeyOf(gQuery, r) \in GKey(gQuery)
    <2>1. r \in T
      <3> HIDE DEF T
      <3> QED BY <1>1
    <2> QED BY <1>1, <2>1, KeyOfIs
  <1>3. GSoFar = P \o y /\ GSoFar' = P \o z
    BY DEF GSoFar
  <1>0. Grouping(gQuery) /\ M \in Nat /\ j \in 1..M
    BY <1>1
  <1> HIDE DEF T, P, M
  <1>4. /\ y \in Seq(T) /\ z \in Seq(T) /\ Len(y) = j - 1 /\ (\A n \in 1..(j - 1) : y[n] = gRows[n])
        /\ z = Append(y, r)
    <2>1. y = [n \in 1..(j - 1) |-> gRows[n]] /\ z = [n \in 1..j |-> gRows[n]]
      BY <1>0, <1>1 DEF M
    <2>2. \A n \in 1..M : gRows[n] \in T
      BY <1>1 DEF M
    <2> HIDE DEF y, z
    <2>3. y \in [1..(j - 1) -> T] /\ z \in [1..j -> T]
      BY <1>0, <2>1, <2>2
    <2>4. /\ y \in Seq(T) /\ z \in Seq(T) /\ Len(y) = j - 1 /\ Len(z) = j /\ \A n \in 1..(j - 1) : y[n] = gRows[n]
          /\ \A n \in 1..j : z[n] = gRows[n]
      BY <1>0, <2>1, <2>3
    <2> DEFINE w == Append(y, r)
    <2>5. w \in Seq(T) /\ Len(w) = j /\ w[j] = r /\ \A n \in 1..(j - 1) : w[n] = y[n]
      <3>1. y \in Seq(T) /\ r \in T /\ Len(y) + 1 = j
        BY <1>0, <1>2, <2>4
      <3>2. w \in Seq(T) /\ Len(w) = Len(y) + 1 /\ w[Len(y) + 1] = r /\ \A n \in 1..Len(y) : w[n] = y[n]
        BY <3>1
      <3> HIDE DEF w
      <3> QED BY <2>4, <3>1, <3>2
    <2> HIDE DEF w
    <2>6. z = w
      <3>1. \A n \in 1..j : z[n] = w[n]
        <4>1. \A n \in 1..j : n = j \/ n \in 1..(j - 1)
          BY <1>0
        <4> QED BY <2>4, <2>5, <4>1
      <3> QED BY <2>4, <2>5, <3>1, SeqEqual
    <2> QED BY <2>4, <2>6 DEF w
  <1> HIDE DEF y, z
  <1>5. /\ Len(P) \in Nat /\ Len(GSoFar) = Len(P) + (j - 1)
        /\ (\A n \in 1..Len(P) : GSoFar[n] = P[n])
        /\ \A n \in 1..(j - 1) : GSoFar[Len(P) + n] = y[n]
    <2>1. P \in Seq(T) /\ y \in Seq(T)
      BY <1>1, <1>4
    <2>2. /\ Len(P) \in Nat /\ Len(P \o y) = Len(P) + Len(y)
          /\ (\A n \in 1..Len(P) : (P \o y)[n] = P[n])
          /\ \A n \in 1..Len(y) : (P \o y)[Len(P) + n] = y[n]
      BY <2>1, Joined
    <2> QED BY <1>3, <1>4, <2>2
  <1>6. /\ \A n \in 1..(j - 1) : \E m \in 1..Len(GSoFar) : GSoFar[m] = gRows[n]
        /\ \A n \in 1..Len(P) : \E m \in 1..Len(GSoFar) : GSoFar[m] = P[n]
    <2>1. \A n \in 1..(j - 1) : Len(P) + n \in 1..Len(GSoFar)
      BY <1>0, <1>5
    <2>2. \A n \in 1..Len(P) : n \in 1..Len(GSoFar)
      BY <1>0, <1>5
    <2> QED BY <1>4, <1>5, <2>1, <2>2
  <1>7. GSoFar' = Append(GSoFar, r)
    <2>1. P \o Append(y, r) = Append(P \o y, r)
      BY <1>1, <1>2, <1>4
    <2> QED BY <1>3, <1>4, <2>1
  <1>8. GGroups' = IF Full(gQuery, GGroups) THEN GGroups ELSE G!Insert(GGroups, KeyOf(gQuery, r))
    <2> DEFINE q == gQuery
               s == GSoFar
    <2>1. Grouping(q) /\ s \in Seq(GRows(q)) /\ r \in GRows(q)
      BY <1>1, <1>2 DEF T
    <2> HIDE DEF q, s, r
    <2>2. KeysBy(q, Append(s, r)) = IF Full(q, KeysBy(q, s)) THEN KeysBy(q, s) ELSE G!Insert(KeysBy(q, s), KeyOf(q, r))
      BY <2>1, KeysStep
    <2>3. GGroups' = KeysBy(q, Append(s, r)) /\ GGroups = KeysBy(q, s)
      BY <1>7 DEF GGroups, q, s
    <2> QED BY <2>2, <2>3 DEF q
  <1> QED BY <1>2, <1>6, <1>8 DEF P, T

\* A row of a group that there is, or that is one too many.
OldRow(j, x) ==
    /\ GGroups' = GGroups /\ gMap2' = gMap2 /\ gAggrs' = gAggrs /\ gAppend' = gAppend

\* A row that opens a group.
NewRow(j, x) ==
    /\ ~Full(gQuery, GGroups) /\ x \notin ToSet(GGroups)
    /\ GGroups' = G!Insert(GGroups, x) /\ gMap2' = G!Insert(gMap2, gKeys[j])
    /\ gAppend' = gAppend \cup {j}
    /\ gAggrs' = [a \in DOMAIN gAggrs |-> Longer(gAggrs[a], Len(gMap2'))]

LEMMA InsertRowIs ==
    ASSUME GInv, G!InsertRow
    PROVE  LET j == Len(gInds) + 1
               x == KeyOf(gQuery, gRows[j])
           IN  /\ j \in 1..Len(gRows)
               /\ gKeys[j] = Code(gQuery, gOrder, gMaps1, x, Len(gQuery.keys))
               /\ Known(gQuery, gOrder, gMaps1, x, Len(gQuery.keys))
               /\ x \in GKey(gQuery)
               /\ OldRow(j, x) \/ NewRow(j, x)
               /\ \E k \in Nat : /\ gInds' = Append(gInds, k)
                                 /\ k = IF G!Has(gKeys[j], gMap2') THEN G!NumberOf(gKeys[j], gMap2') ELSE 0
  <1> DEFINE j == Len(gInds) + 1
             x == KeyOf(gQuery, gRows[j])
             c == gKeys[j]
             K == GGroups
             N == Len(gQuery.keys)
             code(key) == Code(gQuery, gOrder, gMaps1, key, N)
  <1>1. /\ gPc = "insert" /\ j <= Len(gRows)
        /\ IF ~G!Limited \/ Len(gMap2) < gQuery.limit
           THEN /\ gMap2' = G!Insert(gMap2, c)
                /\ gInds' = Append(gInds, G!NumberOf(c, gMap2'))
                /\ gAppend' = IF G!Has(c, gMap2) THEN gAppend ELSE gAppend \cup {j}
                /\ gAggrs' = IF G!Has(c, gMap2) THEN gAggrs ELSE G!Extended(Len(gMap2'))
           ELSE /\ gInds' = Append(gInds, IF G!Has(c, gMap2) THEN G!NumberOf(c, gMap2) ELSE 0)
                /\ UNCHANGED <<gMap2, gAppend, gAggrs>>
        /\ UNCHANGED <<gQuery, gInput, gTaken, gLive, gPc, gOrder, gMaps1, gResult, gRows, gL, gK, gKeys, gOut>>
    BY DEF G!InsertRow, G!NoGroup
  <1>2. /\ GInputInv /\ GControlInv /\ Grouping(gQuery) /\ GoodOrder(gQuery, gOrder) /\ MapsOK(gQuery, gMaps1)
        /\ Len(gRows) \in Nat /\ Len(gInds) \in Nat /\ gInds \in Seq(Nat)
    BY <1>1 DEF GInv, GInputInv, GControlInv
  <1>3. j \in 1..Len(gRows) /\ Len(gInds) = j - 1
    BY <1>1, <1>2
  <1>4. c = code(x) /\ Known(gQuery, gOrder, gMaps1, x, N)
    BY <1>1, <1>3 DEF GInv, GKeysInv, Done
  <1>5. InBatch /\ InBatch' /\ Len(gInds') = j
    <2>1. \E k : gInds' = Append(gInds, k)
      BY <1>1
    <2> QED BY <1>1, <1>2, <2>1 DEF InBatch
  <1>6. /\ x \in GKey(gQuery)
        /\ GGroups' = IF Full(gQuery, K) THEN K ELSE G!Insert(K, x)
    BY <1>1, <1>3, <1>5, OneMoreRow
  <1> HIDE DEF j, x, c
  <1>7. /\ K \in Seq(GKey(gQuery)) /\ Distinct(K) /\ Len(K) \in Nat
        /\ gMap2 = Coded(gQuery, gOrder, gMaps1, K)
        /\ \A g \in 1..Len(K) : Known(gQuery, gOrder, gMaps1, K[g], N)
    BY <1>1, <1>2, GroupsAre DEF GInv, GMapInv
  <1>8. Len(gMap2) = Len(K)
    <2> DEFINE n == Len(K)
    <2> HIDE DEF n
    <2>1. gMap2 = [g \in 1..n |-> code(K[g])] /\ n \in Nat
      BY <1>7 DEF Coded, n
    <2>2. Len(gMap2) = n
      BY <2>1
    <2> QED BY <2>2 DEF n
  <1>9. /\ G!Has(c, gMap2) <=> x \in ToSet(K)
        /\ \A g \in 1..Len(K) : K[g] = x => G!NumberOf(c, gMap2) = g
    BY <1>2, <1>4, <1>6, <1>7, CodedInsert
  <1>10. (~G!Limited \/ Len(gMap2) < gQuery.limit) <=> ~Full(gQuery, K)
    BY <1>8 DEF G!Limited, Full
  <1>11. OldRow(j, x) \/ NewRow(j, x)
    <2>1. CASE Full(gQuery, K)
      BY <1>1, <1>6, <1>10, <2>1 DEF OldRow
    <2>2. CASE ~Full(gQuery, K) /\ x \in ToSet(K)
      <3>1. G!Insert(K, x) = K /\ G!Insert(gMap2, c) = gMap2
        BY <1>9, <2>2 DEF G!Insert, G!Has, G!ToSet, ToSet
      <3> QED BY <1>1, <1>6, <1>9, <1>10, <2>2, <3>1 DEF OldRow
    <2>3. CASE ~Full(gQuery, K) /\ x \notin ToSet(K)
      <3>1. G!Extended(Len(gMap2')) = [a \in DOMAIN gAggrs |-> Longer(gAggrs[a], Len(gMap2'))]
        BY DEF G!Extended, Longer
      <3> QED BY <1>1, <1>6, <1>9, <1>10, <2>3, <3>1 DEF NewRow, c
    <2> QED BY <2>1, <2>2, <2>3
  <1>12. \E k \in Nat : gInds' = Append(gInds, k) /\ k = IF G!Has(c, gMap2') THEN G!NumberOf(c, gMap2') ELSE 0
    <2>1. CASE Full(gQuery, K)
      <3> DEFINE k == IF G!Has(c, gMap2) THEN G!NumberOf(c, gMap2) ELSE 0
      <3>1. k \in Nat
        <4>1. CASE x \in ToSet(K)
          <5>1. PICK g \in 1..Len(K) : K[g] = x
            BY <1>7, <4>1 DEF ToSet
          <5> QED BY <1>9, <4>1, <5>1
        <4>2. CASE x \notin ToSet(K)
          BY <1>9, <4>2
        <4> QED BY <4>1, <4>2
      <3>2. gInds' = Append(gInds, k) /\ gMap2' = gMap2
        BY <1>1, <1>10, <2>1
      <3> QED BY <3>1, <3>2
    <2>2. CASE ~Full(gQuery, K)
      <3> DEFINE k == G!NumberOf(c, gMap2')
      <3>1. gInds' = Append(gInds, k) /\ gMap2' = G!Insert(gMap2, c)
        BY <1>1, <1>10, <2>2
      <3>2. G!Has(c, gMap2') /\ k \in Nat
        <4>1. Len(gMap2') \in Nat /\ DOMAIN gMap2' = 1..Len(gMap2') /\ \E n \in 1..Len(gMap2') : gMap2'[n] = c
          <5>1. Len(gMap2) \in Nat /\ DOMAIN gMap2 = 1..Len(gMap2)
            BY <1>7, <1>8 DEF Coded
          <5>2. CASE G!Has(c, gMap2)
            <6>1. gMap2' = gMap2
              BY <3>1, <5>2 DEF G!Insert
            <6> QED BY <5>1, <5>2, <6>1 DEF G!Has, G!ToSet
          <5>3. CASE ~G!Has(c, gMap2)
            <6>1. gMap2' = Append(gMap2, c)
              BY <3>1, <5>3 DEF G!Insert
            <6> DEFINE n == Len(gMap2)
                       S == {gMap2[g] : g \in 1..n} \cup {c}
            <6>2. gMap2 = [g \in 1..n |-> gMap2[g]] /\ c \in S /\ \A g \in 1..n : gMap2[g] \in S
              BY <1>7, <1>8 DEF Coded
            <6> HIDE DEF S
            <6>3. gMap2 \in Seq(S)
              <7>1. gMap2 \in [1..n -> S]
                BY <6>2
              <7> QED BY <5>1, <7>1
            <6>4. Len(gMap2') = n + 1 /\ DOMAIN gMap2' = 1..(n + 1) /\ gMap2'[n + 1] = c
              BY <6>1, <6>2, <6>3
            <6>5. n + 1 \in 1..(n + 1) /\ n + 1 \in Nat
              BY <5>1
            <6> QED BY <6>4, <6>5
          <5> QED BY <5>2, <5>3
        <4>2. G!Has(c, gMap2')
          BY <4>1 DEF G!Has, G!ToSet
        <4>3. k \in 1..Len(gMap2')
          BY <4>1 DEF G!NumberOf
        <4> QED BY <4>1, <4>2, <4>3
      <3> HIDE DEF k
      <3> QED BY <3>1, <3>2 DEF k
    <2> QED BY <2>1, <2>2
  <1> QED BY <1>3, <1>4, <1>6, <1>11, <1>12 DEF j, x, c

SameUpto(app, app2, m) == \A n \in 1..m : n \in app2 <=> n \in app

\* The keys that the next row adds.
LEMMA OpenedStep ==
    ASSUME NEW q, Grouping(q), NEW rs \in Seq(GRows(q)), NEW app, NEW app2, NEW m \in Nat, m + 1 <= Len(rs),
           SameUpto(app, app2, m)
    PROVE  /\ Opened(q, rs, app, m) \in Seq(GKey(q))
           /\ Opened(q, rs, app2, m + 1) = Opened(q, rs, app, m)
                                             \o (IF m + 1 \in app2 THEN <<KeyOf(q, rs[m + 1])>> ELSE <<>>)
  <1> DEFINE T == GKey(q)
             one(n) == <<KeyOf(q, rs[n])>>
             s == [n \in 1..m |-> IF n \in app THEN one(n) ELSE <<>>]
             t == [n \in 1..(m + 1) |-> IF n \in app2 THEN one(n) ELSE <<>>]
             z == IF m + 1 \in app2 THEN one(m + 1) ELSE <<>>
             u == Append(s, z)
  <1>1. \A n \in 1..(m + 1) : one(n) \in Seq(T)
    <2> SUFFICES ASSUME NEW n \in 1..(m + 1) PROVE one(n) \in Seq(T)
      OBVIOUS
    <2>1. rs[n] \in GRows(q)
      BY Len(rs) \in Nat
    <2> DEFINE x == KeyOf(q, rs[n])
    <2>2. x \in T
      BY <2>1, KeyOfIs
    <2> HIDE DEF x, T
    <2>3. <<x>> \in Seq(T)
      BY <2>2
    <2> QED BY <2>3 DEF x
  <1> HIDE DEF T, one
  <1>2. <<>> \in Seq(T) /\ m + 1 \in 1..(m + 1) /\ \A n \in 1..m : n \in 1..(m + 1)
    OBVIOUS
  <1>3. s \in [1..m -> Seq(T)] /\ z \in Seq(T)
    BY <1>1, <1>2
  <1>4. \A n \in 1..m : s[n] = t[n]
    BY <1>2 DEF SameUpto
  <1>5. t[m + 1] = z /\ t = [n \in 1..(m + 1) |-> t[n]]
    BY <1>2
  <1> HIDE DEF s, t, z
  <1>6. s \in Seq(Seq(T)) /\ Len(s) = m
    BY <1>3
  <1>7. u \in Seq(Seq(T)) /\ Len(u) = m + 1 /\ u[m + 1] = z /\ \A n \in 1..m : u[n] = s[n]
    <2> DEFINE S == Seq(T)
    <2> HIDE DEF S, u
    <2>1. s \in Seq(S) /\ z \in S
      BY <1>3, <1>6 DEF S
    <2>2. u \in Seq(S) /\ Len(u) = Len(s) + 1 /\ u[Len(s) + 1] = z /\ \A n \in 1..Len(s) : u[n] = s[n]
      BY <2>1 DEF u
    <2> QED BY <1>6, <2>2 DEF S
  <1>8. t = u
    <2> HIDE DEF u
    <2>1. u = [n \in 1..(m + 1) |-> u[n]]
      BY <1>7
    <2>2. \A n \in 1..(m + 1) : t[n] = u[n]
      <3>1. \A n \in 1..(m + 1) : n \in 1..m \/ n = m + 1
        OBVIOUS
      <3> QED BY <1>4, <1>5, <1>7, <3>1
    <2> QED BY <1>5, <2>1, <2>2
  <1>9. FlattenSeq(u) = FlattenSeq(s) \o z /\ FlattenSeq(s) \in Seq(T)
    <2>1. FlattenSeq(s) \in Seq(T)
      BY <1>6, FlattenIsFlat
    <2> QED BY <1>3, <1>6, <2>1, FlattenAppend
  <1>10. Opened(q, rs, app, m) = FlattenSeq(s) /\ Opened(q, rs, app2, m + 1) = FlattenSeq(t)
    BY DEF Opened, s, t, one
  <1> QED BY <1>8, <1>9, <1>10 DEF z, one, T

LEMMA InsertRowGives ==
    ASSUME GInv, G!InsertRow
    PROVE  LET j == Len(gInds) + 1
               x == KeyOf(gQuery, gRows[j])
           IN  /\ GGroups' \in Seq(GKey(gQuery)) /\ Distinct(GGroups') /\ Extends(GGroups, GGroups')
               /\ gMap2' = Coded(gQuery, gOrder, gMaps1, GGroups')
               /\ \A g \in 1..Len(GGroups') : Known(gQuery, gOrder, gMaps1, GGroups'[g], Len(gQuery.keys))
               /\ Len(gMap2') = Len(GGroups')
               /\ NewRow(j, x) => Len(GGroups') = Len(GGroups) + 1 /\ GGroups'[Len(GGroups) + 1] = x
                                  /\ GGroups' = GGroups \o <<x>>
               /\ \E k \in 0..Len(GGroups') : /\ gInds' = Append(gInds, k)
                                              /\ \A g \in 1..Len(GGroups') : k = g <=> GGroups'[g] = x
  <1> DEFINE j == Len(gInds) + 1
             x == KeyOf(gQuery, gRows[j])
             c == gKeys[j]
             K == GGroups
             L == GGroups'
             N == Len(gQuery.keys)
             T == GKey(gQuery)
  <1>1. /\ j \in 1..Len(gRows) /\ c = Code(gQuery, gOrder, gMaps1, x, N) /\ Known(gQuery, gOrder, gMaps1, x, N) /\ x \in T
        /\ OldRow(j, x) \/ NewRow(j, x)
        /\ \E k \in Nat : gInds' = Append(gInds, k) /\ k = IF G!Has(c, gMap2') THEN G!NumberOf(c, gMap2') ELSE 0
    BY InsertRowIs
  <1>2. gPc = "insert" /\ GInputInv /\ GControlInv /\ Grouping(gQuery) /\ GoodOrder(gQuery, gOrder) /\ MapsOK(gQuery, gMaps1)
    BY DEF GInv, GInputInv, GControlInv, G!InsertRow
  <1> HIDE DEF j, x
  <1>3. /\ K \in Seq(T) /\ Distinct(K) /\ Len(K) \in Nat
        /\ gMap2 = Coded(gQuery, gOrder, gMaps1, K)
        /\ \A g \in 1..Len(K) : Known(gQuery, gOrder, gMaps1, K[g], N)
    BY <1>2, GroupsAre DEF GInv, GMapInv
  <1> HIDE DEF c, N, T
  <1>4. /\ L \in Seq(T) /\ Distinct(L) /\ Extends(K, L) /\ gMap2' = Coded(gQuery, gOrder, gMaps1, L)
        /\ \A g \in 1..Len(L) : Known(gQuery, gOrder, gMaps1, L[g], N)
        /\ NewRow(j, x) => Len(L) = Len(K) + 1 /\ L[Len(K) + 1] = x /\ L = K \o <<x>>
    <2>1. CASE OldRow(j, x)
      <3>1. L = K /\ gMap2' = gMap2
        BY <2>1 DEF OldRow
      <3>2. ~NewRow(j, x)
        <4>1. NewRow(j, x) => gAppend' = gAppend \cup {j} /\ j \notin gAppend
          <5>1. Len(gInds) \in Nat /\ gAppend \subseteq 1..Len(gInds)
            BY <1>2 DEF GControlInv
          <5>2. j \notin 1..Len(gInds)
            BY <5>1 DEF j
          <5> QED BY <5>1, <5>2 DEF NewRow
        <4> QED BY <2>1, <4>1 DEF OldRow
      <3>3. Extends(K, K)
        BY <1>3 DEF Extends
      <3> QED BY <1>3, <3>1, <3>2, <3>3
    <2>2. CASE NewRow(j, x)
      <3>1. L = G!Insert(K, x) /\ gMap2' = G!Insert(gMap2, c) /\ x \notin ToSet(K)
        BY <2>2 DEF NewRow, c
      <3>2. LET t == G!Insert(K, x)
            IN  /\ t \in Seq(T) /\ Distinct(t) /\ Len(K) <= Len(t) /\ \A n \in 1..Len(K) : t[n] = K[n]
                /\ Len(t) = Len(K) + 1 /\ t[Len(K) + 1] = x
        <4> DEFINE k == K
                   t == G!Insert(k, x)
        <4> HIDE DEF k
        <4>1. k \in Seq(T) /\ Distinct(k) /\ x \in T /\ x \notin ToSet(k)
          BY <1>1, <1>3, <3>1 DEF k
        <4>2. /\ t \in Seq(T) /\ Distinct(t) /\ Len(k) <= Len(t) /\ \A n \in 1..Len(k) : t[n] = k[n]
              /\ x \notin ToSet(k) => Len(t) = Len(k) + 1 /\ t[Len(k) + 1] = x
          BY <4>1, InsertIs
        <4> QED BY <4>1, <4>2 DEF k
      <3>3. G!Insert(gMap2, c) = Coded(gQuery, gOrder, gMaps1, G!Insert(K, x))
        BY <1>1, <1>2, <1>3, CodedInsert DEF N, T
      <3> DEFINE t == L
                 k == K
      <3> HIDE DEF t, k
      <3>4. t \in Seq(T) /\ Distinct(t) /\ Len(t) = Len(k) + 1 /\ t[Len(k) + 1] = x /\ Len(k) <= Len(t) /\ \A n \in 1..Len(k) : t[n] = k[n]
        BY <3>1, <3>2 DEF t, k
      <3>5. Extends(k, t)
        BY <1>3, <3>4 DEF Extends, k
      <3>6. \A g \in 1..Len(t) : Known(gQuery, gOrder, gMaps1, t[g], N)
        <4>1. \A g \in 1..Len(t) : g \in 1..Len(k) \/ g = Len(k) + 1
          BY <1>3, <3>4 DEF k
        <4> QED BY <1>1, <1>3, <3>4, <4>1 DEF k
      <3>7. t = k \o <<x>>
        <4>1. t = Append(k, x)
          BY <3>1 DEF G!Insert, G!Has, G!ToSet, ToSet, t, k
        <4>2. k \in Seq(T) /\ x \in T
          BY <1>1, <1>3 DEF k
        <4> QED BY <4>1, <4>2
      <3> QED BY <3>1, <3>3, <3>4, <3>5, <3>6, <3>7 DEF t, k
    <2> QED BY <1>1, <2>1, <2>2
  <1> HIDE DEF L
  <1>5. Len(gMap2') = Len(L)
    <2> DEFINE n == Len(L)
               code(key) == Code(gQuery, gOrder, gMaps1, key, Len(gQuery.keys))
    <2>1. n \in Nat
      BY <1>4
    <2>2. gMap2' = [g \in 1..n |-> code(L[g])]
      BY <1>4 DEF Coded
    <2> HIDE DEF n, code
    <2>3. Len(gMap2') = n
      BY <2>1, <2>2
    <2> QED BY <2>3 DEF n
  <1>6. \E k \in 0..Len(L) : gInds' = Append(gInds, k) /\ \A g \in 1..Len(L) : k = g <=> L[g] = x
    <2> DEFINE m == gMap2'
    <2>1. m = Coded(gQuery, gOrder, gMaps1, L)
      BY <1>4
    <2> HIDE DEF m
    <2>2. /\ G!Has(c, m) <=> x \in ToSet(L)
          /\ \A g \in 1..Len(L) : L[g] = x => G!NumberOf(c, m) = g
      BY <1>1, <1>2, <1>4, <2>1, CodedInsert DEF N, T
    <2>3. PICK k \in Nat : gInds' = Append(gInds, k) /\ k = IF G!Has(c, m) THEN G!NumberOf(c, m) ELSE 0
      BY <1>1 DEF m
    <2>4. x \in ToSet(L) <=> \E g \in 1..Len(L) : L[g] = x
      BY <1>4 DEF ToSet
    <2>5. CASE x \in ToSet(L)
      <3>1. PICK h \in 1..Len(L) : L[h] = x
        BY <2>4, <2>5
      <3>2. k = h
        BY <2>2, <2>3, <2>5, <3>1
      <3>3. \A g \in 1..Len(L) : k = g <=> L[g] = x
        BY <1>4, <3>1, <3>2 DEF Distinct
      <3> QED BY <2>3, <3>1, <3>2, <3>3
    <2>6. CASE x \notin ToSet(L)
      <3>1. k = 0 /\ \A g \in 1..Len(L) : L[g] # x
        BY <2>2, <2>3, <2>4, <2>6
      <3>2. Len(L) \in Nat
        BY <1>4
      <3>3. 0 \in 0..Len(L) /\ \A g \in 1..Len(L) : 0 # g
        BY <3>2
      <3> QED BY <2>3, <3>1, <3>3
    <2> QED BY <2>5, <2>6
  <1> QED BY <1>4, <1>5, <1>6 DEF j, x, L, N, T

LEMMA InsertRowKeeps ==
    ASSUME GInv, G!InsertRow
    PROVE  GInv'
  <1> DEFINE j == Len(gInds) + 1
             x == KeyOf(gQuery, gRows[j])
             K == GGroups
             P == Upto(gInput, gTaken - 1)
             N == Len(gQuery.keys)
             A == Len(gQuery.aggs)
             T == GKey(gQuery)
  <1>1. /\ gPc = "insert" /\ gPc' = "insert"
        /\ UNCHANGED <<gQuery, gInput, gTaken, gLive, gOrder, gMaps1, gResult, gRows, gL, gK, gKeys, gOut>>
    BY DEF G!InsertRow
  <1>2. /\ j \in 1..Len(gRows) /\ x \in T
        /\ OldRow(j, x) \/ NewRow(j, x)
    BY InsertRowIs
  <1>3. /\ GGroups' \in Seq(T) /\ Distinct(GGroups') /\ Extends(K, GGroups')
        /\ gMap2' = Coded(gQuery, gOrder, gMaps1, GGroups')
        /\ \A g \in 1..Len(GGroups') : Known(gQuery, gOrder, gMaps1, GGroups'[g], N)
        /\ Len(gMap2') = Len(GGroups')
        /\ NewRow(j, x) => Len(GGroups') = Len(K) + 1 /\ GGroups'[Len(K) + 1] = x /\ GGroups' = K \o <<x>>
        /\ \E k \in 0..Len(GGroups') : gInds' = Append(gInds, k) /\ \A g \in 1..Len(GGroups') : k = g <=> GGroups'[g] = x
    BY InsertRowGives
  <1>4. PICK k \in 0..Len(GGroups') : gInds' = Append(gInds, k) /\ \A g \in 1..Len(GGroups') : k = g <=> GGroups'[g] = x
    BY <1>3
  <1>5. /\ GInputInv /\ GControlInv /\ Grouping(gQuery) /\ gInds \in Seq(Nat) /\ Len(gInds) = j - 1 /\ Len(gInds) \in Nat
        /\ A \in Nat /\ DOMAIN gQuery.aggs = 1..A
    <2>1. GInputInv /\ GControlInv /\ Grouping(gQuery) /\ gInds \in Seq(Nat)
      BY DEF GInv, GInputInv, GControlInv
    <2>2. A \in Nat /\ DOMAIN gQuery.aggs = 1..A
      BY <2>1 DEF Grouping
    <2>3. Len(gInds) \in Nat /\ Len(gInds) = j - 1
      BY <2>1
    <2> QED BY <2>1, <2>2, <2>3
  <1>6. Len(GGroups') \in Nat /\ Len(K) \in Nat /\ Len(K) <= Len(GGroups') /\ \A g \in 1..Len(K) : GGroups'[g] = K[g]
    BY <1>3 DEF Extends
  <1>7. gInds' \in Seq(Nat) /\ Len(gInds') = j /\ gInds'[j] = k /\ \A n \in 1..(j - 1) : gInds'[n] = gInds[n]
    <2>1. k \in Nat
      BY <1>6
    <2> QED BY <1>4, <1>5, <2>1
  <1> HIDE DEF j, x, K, P, N, A, T
  <1>8. InBatch /\ InBatch' /\ GCounted' = GCounted /\ GCounted = P
    BY <1>1 DEF InBatch, GCounted, P
  <1>9. /\ \A n \in 1..(j - 1) : \E m \in 1..Len(GSoFar) : GSoFar[m] = gRows[n]
        /\ \A n \in 1..Len(P) : \E m \in 1..Len(GSoFar) : GSoFar[m] = P[n]
    BY <1>1, <1>2, <1>5, <1>7, <1>8, OneMoreRow DEF P
  <1>10. NewRow(j, x) => /\ \A n \in 1..(j - 1) : KeyOf(gQuery, gRows[n]) # x
                         /\ \A n \in 1..Len(P) : KeyOf(gQuery, P[n]) # x
    <2> SUFFICES ASSUME NewRow(j, x)
                 PROVE  /\ \A n \in 1..(j - 1) : KeyOf(gQuery, gRows[n]) # x
                        /\ \A n \in 1..Len(P) : KeyOf(gQuery, P[n]) # x
      OBVIOUS
    <2>1. x \notin {KeyOf(gQuery, GSoFar[n]) : n \in 1..Len(GSoFar)}
      BY <1>5, GroupsAre DEF NewRow
    <2> QED BY <1>9, <2>1
  <1>11. GInputInv'
    BY <1>1, <1>5 DEF GInputInv
  <1>12. GControlInv'
    <2>1. Len(gInds') <= Len(gRows')
      <3>1. Len(gRows) \in Nat
        BY <1>5 DEF GControlInv
      <3> QED BY <1>1, <1>2, <1>7, <3>1
    <2>2. gAppend' \subseteq 1..Len(gInds')
      <3>1. gAppend \subseteq 1..(j - 1) /\ j \in Nat /\ j # 0
        BY <1>2, <1>5 DEF GControlInv
      <3>2. gAppend' \subseteq gAppend \cup {j}
        BY <1>2 DEF OldRow, NewRow
      <3>3. 1..(j - 1) \subseteq 1..j /\ j \in 1..j
        BY <3>1
      <3> QED BY <1>7, <3>1, <3>2, <3>3
    <2> QED BY <1>1, <1>5, <1>7, <1>8, <2>1, <2>2 DEF GControlInv
  <1>13. GMapInv'
    BY <1>1, <1>3 DEF GMapInv, N
  <1>14. GKeysInv'
    BY <1>1 DEF GInv, GKeysInv, Done
  <1>15. GIndsInv'
    <2>1. /\ \A n \in 1..(j - 1) : gInds[n] \in 0..Len(K)
          /\ \A n \in 1..(j - 1), g \in 1..Len(K) : gInds[n] = g <=> K[g] = KeyOf(gQuery, gRows[n])
      BY <1>1, <1>5 DEF GInv, GIndsInv, K
    <2>2. \A n \in 1..j : n = j \/ n \in 1..(j - 1)
      BY <1>2
    <2>3. ASSUME NEW n \in 1..j PROVE gInds'[n] \in 0..Len(GGroups')
      <3>1. CASE n = j
        BY <1>7, <3>1
      <3>2. CASE n \in 1..(j - 1)
        BY <1>6, <1>7, <2>1, <3>2
      <3> QED BY <2>2, <3>1, <3>2
    <2>4. ASSUME NEW n \in 1..j, NEW g \in 1..Len(GGroups') PROVE gInds'[n] = g <=> GGroups'[g] = KeyOf(gQuery, gRows[n])
      <3>1. CASE n = j
        BY <1>4, <1>7, <3>1 DEF x
      <3>2. CASE n \in 1..(j - 1) /\ g \in 1..Len(K)
        <4>1. gInds[n] = g <=> K[g] = KeyOf(gQuery, gRows[n])
          BY <2>1, <3>2
        <4>2. gInds'[n] = gInds[n] /\ GGroups'[g] = K[g]
          BY <1>6, <1>7, <3>2
        <4> QED BY <4>1, <4>2
      <3>3. CASE n \in 1..(j - 1) /\ g \notin 1..Len(K)
        <4>1. NewRow(j, x)
          BY <1>2, <3>3 DEF OldRow, K
        <4>2. g = Len(K) + 1
          BY <1>3, <1>6, <3>3, <4>1
        <4>3. gInds[n] # g
          BY <1>6, <2>1, <3>3, <4>2
        <4> QED BY <1>3, <1>7, <1>10, <3>3, <4>1, <4>2, <4>3
      <3> QED BY <2>2, <3>1, <3>2, <3>3
    <2> QED BY <1>1, <1>7, <2>3, <2>4 DEF GIndsInv
  <1>16. GAggrsInv'
    <2> DEFINE V(key, a) == ValuesBy(gQuery, P, key, gQuery.aggs[a])
    <2>1. /\ gAggrs = [a \in 1..A |-> gAggrs[a]]
          /\ \A a \in 1..A : /\ gAggrs[a] \in Seq(Seq(Int)) /\ Len(gAggrs[a]) % Growth = 0 /\ Len(K) <= Len(gAggrs[a])
                             /\ \A g \in 1..Len(gAggrs[a]) :
                                  gAggrs[a][g] = IF g <= Len(K) THEN V(K[g], a) ELSE <<>>
      BY <1>1, <1>8 DEF GInv, GAggrsInv, A, K
    <2> HIDE DEF V
    <2>2. /\ gAggrs' = [a \in 1..A |-> gAggrs'[a]]
          /\ \A a \in 1..A : /\ gAggrs'[a] \in Seq(Seq(Int)) /\ Len(gAggrs'[a]) % Growth = 0 /\ Len(GGroups') <= Len(gAggrs'[a])
                             /\ \A g \in 1..Len(gAggrs'[a]) :
                                  gAggrs'[a][g] = IF g <= Len(GGroups') THEN V(GGroups'[g], a) ELSE <<>>
      <3>1. CASE OldRow(j, x)
        BY <2>1, <3>1 DEF OldRow, K
      <3>2. CASE NewRow(j, x)
        <4>1. gAggrs' = [a \in 1..A |-> Longer(gAggrs[a], Len(GGroups'))]
          BY <1>3, <2>1, <3>2 DEF NewRow
        <4>2. ASSUME NEW a \in 1..A
              PROVE  /\ gAggrs'[a] \in Seq(Seq(Int)) /\ Len(gAggrs'[a]) % Growth = 0 /\ Len(GGroups') <= Len(gAggrs'[a])
                     /\ \A g \in 1..Len(gAggrs'[a]) :
                          gAggrs'[a][g] = IF g <= Len(GGroups') THEN V(GGroups'[g], a) ELSE <<>>
          <5> DEFINE s == gAggrs[a]
                     n == Len(GGroups')
                     t == Longer(s, n)
          <5>1. s \in Seq(Seq(Int)) /\ Len(s) % Growth = 0 /\ n \in Nat
            BY <1>6, <2>1
          <5>2. Len(K) <= Len(s) /\ Len(s) \in Nat /\ \A g \in 1..Len(s) : s[g] = IF g <= Len(K) THEN V(K[g], a) ELSE <<>>
            BY <2>1
          <5>3. gAggrs'[a] = t
            BY <4>1
          <5>4. n = Len(K) + 1 /\ GGroups'[n] = x
            BY <1>3, <3>2
          <5> HIDE DEF s, n
          <5>5. /\ t \in Seq(Seq(Int)) /\ Len(t) % Growth = 0 /\ n <= Len(t) /\ Len(s) <= Len(t)
                /\ \A g \in 1..Len(t) : t[g] = IF g <= Len(s) THEN s[g] ELSE <<>>
            BY <5>1, LongerIs
          <5> HIDE DEF t
          <5>6. V(x, a) = <<>>
            <6> DEFINE q == gQuery
                       c == gQuery.aggs[a]
            <6>1. Grouping(q) /\ P \in Seq(GRows(q)) /\ \A m \in 1..Len(P) : KeyOf(q, P[m]) # x
              BY <1>5, <1>8, <1>10, <3>2, SoFarIs
            <6> HIDE DEF q, c
            <6>2. ValuesBy(q, P, x, c) = <<>>
              BY <6>1, ValuesNone
            <6> QED BY <6>2 DEF V, q, c
          <5>7. ASSUME NEW g \in 1..Len(t) PROVE t[g] = IF g <= n THEN V(GGroups'[g], a) ELSE <<>>
            <6>1. CASE g <= Len(K)
              <7>1. g \in 1..Len(s) /\ g \in 1..Len(K) /\ g <= n
                BY <1>6, <5>2, <5>4, <6>1
              <7> QED BY <1>6, <5>2, <5>5, <6>1, <7>1
            <6>2. CASE ~(g <= Len(K))
              <7>1. t[g] = <<>>
                <8>1. CASE g <= Len(s)
                  <9>1. g \in 1..Len(s)
                    BY <5>2, <8>1
                  <9> QED BY <5>2, <5>5, <6>2, <8>1, <9>1
                <8>2. CASE ~(g <= Len(s))
                  BY <5>5, <8>2
                <8> QED BY <8>1, <8>2
              <7>2. g <= n => g = n
                BY <1>6, <5>4, <6>2
              <7> QED BY <5>4, <5>6, <7>1, <7>2
            <6> QED BY <6>1, <6>2
          <5> QED BY <5>3, <5>5, <5>7 DEF n
        <4> HIDE DEF A
        <4>3. gAggrs' = [a \in 1..A |-> gAggrs'[a]]
          BY <4>1
        <4> QED BY <4>2, <4>3
      <3> QED BY <1>2, <3>1, <3>2
    <2> QED BY <1>1, <1>8, <2>2 DEF GAggrsInv, A, V
  <1>17. GResultInv'
    <2> DEFINE O(app, m) == Opened(gQuery, gRows, app, m)
    <2>1. gResult \in Seq(T) /\ K = gResult \o O(gAppend, j - 1) /\ gAppend \subseteq 1..(j - 1)
      BY <1>5, <1>8 DEF GInv, GResultInv, GControlInv, T, K
    <2>2. /\ O(gAppend, j - 1) \in Seq(T)
          /\ O(gAppend', j) = O(gAppend, j - 1) \o (IF j \in gAppend' THEN <<x>> ELSE <<>>)
      <3> DEFINE m == j - 1
                 q == gQuery
                 app == gAppend
                 app2 == gAppend'
      <3>1. m \in Nat /\ m + 1 = j /\ m + 1 <= Len(gRows)
        <4>1. Len(gRows) \in Nat
          BY <1>5 DEF GControlInv
        <4> QED BY <1>2, <4>1
      <3>2. SameUpto(app, app2, m)
        <4>1. gAppend' = gAppend \/ gAppend' = gAppend \cup {j}
          BY <1>2 DEF OldRow, NewRow
        <4>2. \A n \in 1..(j - 1) : n # j
          BY <1>2
        <4> QED BY <4>1, <4>2 DEF SameUpto
      <3>3. Grouping(q) /\ gRows \in Seq(GRows(q))
        BY <1>5 DEF GControlInv
      <3> HIDE DEF m, q, app, app2
      <3>4. /\ Opened(q, gRows, app, m) \in Seq(GKey(q))
            /\ Opened(q, gRows, app2, m + 1) = Opened(q, gRows, app, m)
                                             \o (IF m + 1 \in app2 THEN <<KeyOf(q, gRows[m + 1])>> ELSE <<>>)
        BY <3>1, <3>2, <3>3, OpenedStep
      <3> QED BY <3>1, <3>4 DEF m, q, app, app2, x, T
    <2> DEFINE y == O(gAppend, j - 1)
               z == IF j \in gAppend' THEN <<x>> ELSE <<>>
               r == gResult
    <2>3. z \in Seq(T)
      <3>1. <<x>> \in Seq(T) /\ <<>> \in Seq(T)
        BY <1>2
      <3> QED BY <3>1
    <2>4. GGroups' = K \o z
      <3>1. CASE OldRow(j, x)
        <4>1. z = <<>>
          <5>1. j \notin 1..(j - 1)
            BY <1>2
          <5> QED BY <2>1, <3>1, <5>1 DEF OldRow
        <4>2. K \in Seq(T)
          BY <1>5, GroupsAre DEF K, T
        <4>3. K \o <<>> = K
          BY <4>2
        <4> QED BY <3>1, <4>1, <4>3 DEF OldRow, K
      <3>2. CASE NewRow(j, x)
        <4>1. z = <<x>>
          BY <3>2 DEF NewRow
        <4> QED BY <1>3, <3>2, <4>1
      <3> QED BY <1>2, <3>1, <3>2
    <2> HIDE DEF y, z, r
    <2>5. (r \o y) \o z = r \o (y \o z)
      <3>1. r \in Seq(T) /\ y \in Seq(T) /\ z \in Seq(T)
        BY <2>1, <2>2, <2>3 DEF r, y
      <3>2. Associates(r, y, z)
        BY <3>1, JoinedTwice
      <3> QED BY <3>2 DEF Associates
    <2>6. GGroups' = r \o O(gAppend', j)
      BY <2>1, <2>2, <2>4, <2>5 DEF r, y, z
    <2> QED BY <1>1, <1>7, <1>8, <2>1, <2>6 DEF GResultInv, r, T
  <1>18. GOutInv'
    BY <1>1 DEF GOutInv
  <1> QED BY <1>11, <1>12, <1>13, <1>14, <1>15, <1>16, <1>17, <1>18 DEF GInv

LEMMA UpdateAggregatesKeeps ==
    ASSUME GInv, G!UpdateAggregates
    PROVE  GInv'
  <1> DEFINE K == GGroups
             P == Upto(gInput, gTaken - 1)
             A == Len(gQuery.aggs)
             T == GRows(gQuery)
             c(a) == gQuery.aggs[a]
             of(g, a) == [n \in DOMAIN gRows |-> IF gInds[n] = g THEN <<gRows[n][c(a)]>> ELSE <<>>]
  <1>1. /\ gPc = "update" /\ gPc' = "append"
        /\ gAggrs' = [a \in DOMAIN gAggrs |-> [g \in DOMAIN gAggrs[a] |-> gAggrs[a][g] \o FlattenSeq(of(g, a))]]
        /\ UNCHANGED <<gQuery, gInput, gTaken, gLive, gOrder, gMaps1, gMap2, gResult, gRows, gL, gK, gKeys, gInds,
                       gAppend, gOut>>
    BY GFlatten DEF G!UpdateAggregates, G!batchVars, G!OfGroup, G!AggCols
  <1>2. /\ GInputInv /\ GControlInv /\ Grouping(gQuery) /\ gRows \in Seq(T) /\ Len(gInds) = Len(gRows)
        /\ Len(gRows) \in Nat /\ DOMAIN gRows = 1..Len(gRows)
        /\ A \in Nat /\ DOMAIN gQuery.aggs = 1..A
    <2>1. GInputInv /\ GControlInv /\ Grouping(gQuery) /\ gRows \in Seq(T) /\ Len(gInds) = Len(gRows)
      BY <1>1 DEF GInv, GInputInv, GControlInv
    <2>2. A \in Nat /\ DOMAIN gQuery.aggs = 1..A
      BY <2>1 DEF Grouping
    <2>3. Len(gRows) \in Nat /\ DOMAIN gRows = 1..Len(gRows)
      BY <2>1
    <2> QED BY <2>1, <2>2, <2>3
  <1>3. InBatch /\ InBatch' /\ GGroups' = GGroups
    <2>1. InBatch /\ InBatch'
      BY <1>1 DEF InBatch
    <2>2. GSoFar' = GSoFar
      BY <1>1, <2>1 DEF GSoFar
    <2> QED BY <1>1, <2>1, <2>2 DEF GGroups
  <1>4. GCounted = P /\ GCounted' = P \o gRows /\ P \in Seq(T)
    BY <1>1, <1>2, <1>3, SoFarIs DEF GCounted
  <1>5. GInputInv'
    BY <1>1, <1>2 DEF GInputInv
  <1>6. GControlInv'
    BY <1>1, <1>2, <1>3 DEF GControlInv
  <1>7. GMapInv'
    BY <1>1, <1>3 DEF GInv, GMapInv
  <1>8. GKeysInv'
    BY <1>1 DEF GKeysInv
  <1>9. GIndsInv'
    BY <1>1, <1>3 DEF GInv, GIndsInv
  <1>10. GAggrsInv'
    <2> DEFINE M == Len(gRows)
               V(s, key, a) == ValuesBy(gQuery, s, key, gQuery.aggs[a])
    <2>1. /\ gAggrs = [a \in 1..A |-> gAggrs[a]]
          /\ \A a \in 1..A : /\ gAggrs[a] \in Seq(Seq(Int)) /\ Len(gAggrs[a]) % Growth = 0 /\ Len(K) <= Len(gAggrs[a])
                             /\ \A g \in 1..Len(gAggrs[a]) :
                                  gAggrs[a][g] = IF g <= Len(K) THEN V(P, K[g], a) ELSE <<>>
      BY <1>1, <1>4 DEF GInv, GAggrsInv
    <2>2. /\ \A n \in 1..M : gInds[n] \in 0..Len(K)
          /\ \A n \in 1..M, g \in 1..Len(K) : gInds[n] = g <=> K[g] = KeyOf(gQuery, gRows[n])
      BY <1>1, <1>2 DEF GInv, GIndsInv
    <2>3. Len(K) \in Nat
      BY <1>2, GroupsAre
    <2>4. ASSUME NEW a \in 1..A, NEW g \in 1..Len(gAggrs[a])
          PROVE  /\ gAggrs'[a][g] = IF g <= Len(K) THEN V(P \o gRows, K[g], a) ELSE <<>>
                 /\ gAggrs'[a][g] \in Seq(Int)
      <3>1. gAggrs'[a][g] = gAggrs[a][g] \o FlattenSeq(of(g, a))
        <4>1. a \in DOMAIN gAggrs /\ g \in DOMAIN gAggrs[a]
          BY <2>1
        <4> HIDE DEF of
        <4> QED BY <1>1, <4>1
      <3>2. CASE g <= Len(K)
        <4>1. g \in 1..Len(K)
          BY <2>1, <2>3, <3>2
        <4> DEFINE key == K[g]
        <4>2. of(g, a) = [n \in DOMAIN gRows |-> IF KeyOf(gQuery, gRows[n]) = key THEN <<gRows[n][c(a)]>> ELSE <<>>]
          <5>1. \A n \in 1..M : gInds[n] = g <=> KeyOf(gQuery, gRows[n]) = key
            BY <2>2, <4>1
          <5> HIDE DEF key
          <5> QED BY <1>2, <5>1
        <4>3. FlattenSeq(of(g, a)) = V(gRows, key, a)
          <5> HIDE DEF key
          <5> QED BY <4>2 DEF ValuesBy
        <4>4. gAggrs[a][g] = V(P, key, a)
          BY <2>1, <3>2
        <4>5. /\ V(P, key, a) \in Seq(Int) /\ V(gRows, key, a) \in Seq(Int)
              /\ V(P \o gRows, key, a) = V(P, key, a) \o V(gRows, key, a)
          <5> DEFINE q == gQuery
                     p == P
          <5> HIDE DEF key, q, p
          <5>1. Grouping(q) /\ p \in Seq(GRows(q)) /\ gRows \in Seq(GRows(q)) /\ a \in DOMAIN q.aggs
            BY <1>2, <1>4 DEF q, p
          <5>2. /\ ValuesBy(q, p, key, q.aggs[a]) \in Seq(Int) /\ ValuesBy(q, gRows, key, q.aggs[a]) \in Seq(Int)
                /\ ValuesBy(q, p \o gRows, key, q.aggs[a]) = ValuesBy(q, p, key, q.aggs[a]) \o ValuesBy(q, gRows, key, q.aggs[a])
            BY <5>1, ValuesJoin
          <5> QED BY <5>2 DEF q, p
        <4> DEFINE y == V(P, key, a)
                   z == V(gRows, key, a)
        <4> HIDE DEF key, y, z, of, V
        <4>6. y \o z \in Seq(Int)
          BY <4>5 DEF y, z
        <4> QED BY <3>1, <3>2, <4>3, <4>4, <4>5, <4>6 DEF y, z, key
      <3>3. CASE ~(g <= Len(K))
        <4> DEFINE s == of(g, a)
        <4>1. s = [n \in 1..M |-> <<>>]
          <5>1. \A n \in 1..M : gInds[n] # g
            BY <2>2, <2>3, <3>3
          <5> QED BY <1>2, <5>1
        <4> HIDE DEF s, of
        <4>2. Len(s) = M /\ DOMAIN s = 1..M
          BY <1>2, <4>1
        <4>3. FlattenSeq(s) = <<>>
          BY <1>2, <4>1, <4>2, FlattenBlank
        <4>4. gAggrs[a][g] = <<>>
          BY <2>1, <3>3
        <4>5. <<>> \o <<>> = <<>> /\ <<>> \in Seq(Int)
          OBVIOUS
        <4> QED BY <3>1, <3>3, <4>3, <4>4, <4>5 DEF s
      <3> QED BY <3>2, <3>3
    <2> HIDE DEF V, of
    <2>5. gAggrs' = [a \in 1..A |-> gAggrs'[a]]
      BY <1>1, <2>1
    <2>6. ASSUME NEW a \in 1..A
          PROVE  gAggrs'[a] \in Seq(Seq(Int)) /\ Len(gAggrs'[a]) = Len(gAggrs[a])
      <3> DEFINE s == gAggrs[a]
                 t == gAggrs'[a]
      <3>1. s \in Seq(Seq(Int)) /\ t = [g \in DOMAIN s |-> s[g] \o FlattenSeq(of(g, a))]
        BY <1>1, <2>1
      <3>2. \A g \in 1..Len(s) : t[g] \in Seq(Int)
        BY <2>4
      <3> HIDE DEF s, t
      <3>3. DOMAIN s = 1..Len(s) /\ Len(s) \in Nat
        BY <3>1
      <3>4. t = [g \in 1..Len(s) |-> t[g]]
        BY <3>1, <3>3
      <3>5. t \in [1..Len(s) -> Seq(Int)]
        BY <3>2, <3>4
      <3>6. t \in Seq(Seq(Int)) /\ Len(t) = Len(s)
        BY <3>3, <3>5
      <3> QED BY <3>6 DEF s, t
    <2>7. \A a \in 1..A : /\ gAggrs'[a] \in Seq(Seq(Int)) /\ Len(gAggrs'[a]) % Growth = 0 /\ Len(K) <= Len(gAggrs'[a])
                          /\ \A g \in 1..Len(gAggrs'[a]) :
                               gAggrs'[a][g] = IF g <= Len(K) THEN V(P \o gRows, K[g], a) ELSE <<>>
      BY <2>1, <2>4, <2>6
    <2>8. \A a \in 1..A : \A g \in 1..Len(gAggrs'[a]) :
             gAggrs'[a][g] = IF g <= Len(GGroups') THEN ValuesBy(gQuery, GCounted', GGroups'[g], gQuery.aggs[a]) ELSE <<>>
      <3> HIDE DEF A
      <3> QED BY <1>3, <1>4, <2>7 DEF V
    <2>9. \A a \in 1..A : gAggrs'[a] \in Seq(Seq(Int)) /\ Len(gAggrs'[a]) % Growth = 0 /\ Len(GGroups') <= Len(gAggrs'[a])
      BY <1>3, <2>7
    <2>10. gQuery' = gQuery
      BY <1>1
    <2> HIDE DEF K, P, T, of, M
    <2> QED BY <2>5, <2>8, <2>9, <2>10 DEF GAggrsInv
  <1>11. GResultInv'
    BY <1>1, <1>3 DEF GInv, GResultInv
  <1>12. GOutInv'
    BY <1>1 DEF GOutInv
  <1> QED BY <1>5, <1>6, <1>7, <1>8, <1>9, <1>10, <1>11, <1>12 DEF GInv

LEMMA AppendKeysKeeps ==
    ASSUME GInv, G!AppendKeys
    PROVE  GInv'
  <1> DEFINE K == GGroups
             P == Upto(gInput, gTaken - 1)
             N == Len(gQuery.keys)
             M == Len(gRows)
             T == GKey(gQuery)
             O == Opened(gQuery, gRows, gAppend, Len(gInds))
  <1>1. /\ gPc = "append" /\ gPc' = "pull"
        /\ gResult' = gResult \o FlattenSeq([n \in DOMAIN gRows |->
                                    IF n \in gAppend THEN <<KeyOf(gQuery, gRows[n])>> ELSE <<>>])
        /\ UNCHANGED <<gQuery, gInput, gTaken, gLive, gOrder, gMaps1, gMap2, gAggrs, gRows, gL, gK, gKeys, gInds,
                       gAppend, gOut>>
    BY GFlatten DEF G!AppendKeys, G!batchVars, G!KeysOf, KeyOf, G!KeyCols
  <1>2. /\ GInputInv /\ GControlInv /\ Grouping(gQuery) /\ gRows \in Seq(GRows(gQuery)) /\ Len(gInds) = M /\ M \in Nat
        /\ DOMAIN gRows = 1..M
    <2>1. GInputInv /\ GControlInv /\ Grouping(gQuery) /\ gRows \in Seq(GRows(gQuery)) /\ Len(gInds) = M
      BY <1>1 DEF GInv, GInputInv, GControlInv
    <2> QED BY <2>1
  <1>3. gResult' = gResult \o O
    BY <1>1, <1>2 DEF Opened
  <1>4. InBatch /\ ~InBatch' /\ GGroups' = GGroups /\ GCounted' = GCounted
    <2>1. InBatch /\ ~InBatch'
      BY <1>1 DEF InBatch
    <2>2. GSoFar = P \o gRows
      <3>1. SubSeq(gRows, 1, M) = gRows
        BY <1>2, SubSeqFull
      <3> QED BY <1>2, <2>1, <3>1 DEF GSoFar
    <2>3. GSoFar' = Upto(gInput, gTaken)
      BY <1>1, <2>1 DEF GSoFar
    <2>4. GSoFar' = GSoFar
      BY <1>2, <2>1, <2>2, <2>3, SoFarIs
    <2>5. GCounted' = GCounted
      BY <1>1 DEF GCounted
    <2> QED BY <1>1, <2>1, <2>4, <2>5 DEF GGroups
  <1>5. K \in Seq(T) /\ K = gResult \o O
    BY <1>2, <1>4, GroupsAre DEF GInv, GResultInv
  <1> HIDE DEF K, O, T
  <1>6. GResultInv'
    <2>1. gResult' = K
      BY <1>3, <1>5
    <2> QED BY <1>1, <1>4, <1>5, <2>1 DEF GResultInv, K, T
  <1>7. GInputInv'
    BY <1>1, <1>2 DEF GInputInv
  <1>8. GControlInv'
    BY <1>1, <1>2, <1>4 DEF GControlInv
  <1>9. GMapInv'
    BY <1>1, <1>4 DEF GInv, GMapInv
  <1>10. GKeysInv'
    BY <1>1 DEF GKeysInv
  <1>11. GIndsInv'
    BY <1>1, <1>4 DEF GInv, GIndsInv
  <1>12. GAggrsInv'
    BY <1>1, <1>4 DEF GInv, GAggrsInv
  <1>13. GOutInv'
    BY <1>1 DEF GOutInv
  <1> QED BY <1>6, <1>7, <1>8, <1>9, <1>10, <1>11, <1>12, <1>13 DEF GInv

LEMMA GFinishKeeps ==
    ASSUME GInv, G!Finish
    PROVE  GInv'
  <1> DEFINE A == Len(gQuery.aggs)
  <1>1. /\ gPc = "pull" /\ gPc' = "ended" /\ gTaken = Len(gInput) /\ gLive' = FALSE
        /\ gOut' = Append(gOut, [keys |-> gResult,
                                 aggs |-> [a \in DOMAIN gAggrs |-> SubSeq(gAggrs[a], 1, Len(gMap2))]])
        /\ UNCHANGED <<gQuery, gInput, gTaken, gOrder, gMaps1, gMap2, gAggrs, gResult, gRows, gL, gK, gKeys, gInds, gAppend>>
    BY DEF G!Finish, G!batchVars, G!tables
  <1>2. /\ GInputInv /\ GControlInv /\ Grouping(gQuery) /\ gOut = <<>>
    <2>1. GInputInv /\ GControlInv /\ Grouping(gQuery)
      BY DEF GInv, GInputInv
    <2>2. gLive
      BY <1>1, <2>1 DEF GControlInv
    <2> QED BY <2>1, <2>2 DEF GControlInv
  <1>3. ~InBatch /\ ~InBatch' /\ GGroups' = GGroups /\ GCounted' = GCounted
    <2>1. ~InBatch /\ ~InBatch'
      BY <1>1 DEF InBatch
    <2>2. GSoFar' = GSoFar /\ GCounted' = GCounted
      BY <1>1, <2>1 DEF GSoFar, GCounted
    <2> QED BY <1>1, <2>1, <2>2 DEF GGroups
  <1>4. Len(gMap2) = Len(GGroups)
    <2> DEFINE n == Len(GGroups)
               code(key) == Code(gQuery, gOrder, gMaps1, key, Len(gQuery.keys))
    <2>1. n \in Nat
      BY <1>2, GroupsAre
    <2>2. gMap2 = [g \in 1..n |-> code(GGroups[g])]
      BY DEF GInv, GMapInv, Coded
    <2> HIDE DEF n, code
    <2>3. Len(gMap2) = n
      BY <2>1, <2>2
    <2> QED BY <2>3 DEF n
  <1>5. DOMAIN gAggrs = 1..A
    BY <1>1 DEF GInv, GAggrsInv
  <1>6. GOutInv'
    <2>1. gOut' = <<[keys |-> gResult, aggs |-> [a \in 1..A |-> SubSeq(gAggrs[a], 1, Len(GGroups))]]>>
      <3> DEFINE b == [keys |-> gResult, aggs |-> [a \in DOMAIN gAggrs |-> SubSeq(gAggrs[a], 1, Len(gMap2))]]
      <3>1. gOut' = Append(gOut, b)
        BY <1>1
      <3>2. b = [keys |-> gResult, aggs |-> [a \in 1..A |-> SubSeq(gAggrs[a], 1, Len(GGroups))]]
        BY <1>4, <1>5
      <3> HIDE DEF b
      <3>3. gOut' = <<b>>
        BY <1>2, <3>1
      <3> QED BY <3>2, <3>3
    <2> QED BY <1>1, <1>3, <2>1 DEF GOutInv
  <1>7. GInputInv'
    BY <1>1, <1>2 DEF GInputInv
  <1>8. GControlInv'
    BY <1>1, <1>2, <1>3 DEF GControlInv
  <1>9. GMapInv'
    BY <1>1, <1>3 DEF GInv, GMapInv
  <1>10. GKeysInv'
    BY <1>1 DEF GKeysInv
  <1>11. GIndsInv'
    BY <1>1, <1>3 DEF GInv, GIndsInv
  <1>12. GAggrsInv'
    BY <1>1, <1>3 DEF GInv, GAggrsInv
  <1>13. GResultInv'
    BY <1>1, <1>3 DEF GInv, GResultInv
  <1> QED BY <1>6, <1>7, <1>8, <1>9, <1>10, <1>11, <1>12, <1>13 DEF GInv

LEMMA GKeeps ==
    ASSUME GInv, gLive, G!Next
    PROVE  GInv'
  BY GCallKeeps, GPullKeeps, InternKeeps, NextBlockKeeps, InsertRowKeeps, RowsInsertedKeeps, UpdateAggregatesKeeps,
     AppendKeysKeeps, GFinishKeeps DEF G!Next

-----------------------------------------------------------------------------
\* What is asked, in the words of the group-by.
LEMMA AskedIs ==
    /\ G!Seen = Upto(gInput, gTaken)
    /\ \A s : G!Keys(s) = KeysBy(gQuery, s)
    /\ \A s, key, c : G!ValuesOf(s, key, c) = ValuesBy(gQuery, s, key, c)
  <1>1. G!Seen = Upto(gInput, gTaken)
    BY GFlatten DEF G!Seen, Upto
  <1>2. ASSUME NEW s PROVE G!Keys(s) = KeysBy(gQuery, s)
    <2> DEFINE v == [n \in DOMAIN s |-> G!KeysOf(s[n])]
               w == KeySeq(gQuery, s)
    <2>1. v = w
      BY DEF G!KeysOf, G!KeyCols, KeySeq, KeyOf
    <2>2. G!Keys(s) = CutTo(gQuery, G!InsertAll(<<>>, v))
      <3> HIDE DEF v
      <3> DEFINE all == G!InsertAll(<<>>, v)
      <3>1. G!Keys(s) = IF G!Limited /\ gQuery.limit < Len(all) THEN SubSeq(all, 1, gQuery.limit) ELSE all
        BY DEF G!Keys, v
      <3> HIDE DEF all
      <3>2. G!Keys(s) = CutTo(gQuery, all)
        BY <3>1 DEF CutTo, G!Limited
      <3> QED BY <3>2 DEF all
    <2> HIDE DEF v, w
    <2> QED BY <2>1, <2>2 DEF KeysBy, w
  <1>3. ASSUME NEW s, NEW key, NEW c PROVE G!ValuesOf(s, key, c) = ValuesBy(gQuery, s, key, c)
    <2> DEFINE v == [n \in DOMAIN s |-> IF G!KeysOf(s[n]) = key THEN <<s[n][c]>> ELSE <<>>]
               w == [n \in DOMAIN s |-> IF KeyOf(gQuery, s[n]) = key THEN <<s[n][c]>> ELSE <<>>]
    <2>1. v = w
      BY DEF G!KeysOf, G!KeyCols, KeyOf
    <2>2. G!ValuesOf(s, key, c) = G!FlattenSeq(v)
      BY DEF G!ValuesOf
    <2>3. ValuesBy(gQuery, s, key, c) = FlattenSeq(w)
      BY DEF ValuesBy
    <2> HIDE DEF v, w
    <2> QED BY <2>1, <2>2, <2>3, GFlatten
  <1> QED BY <1>1, <1>2, <1>3

LEMMA MapSize ==
    ASSUME GInv
    PROVE  Len(gMap2) = Len(GGroups) /\ Len(GGroups) \in Nat
  <1> DEFINE n == Len(GGroups)
             code(key) == Code(gQuery, gOrder, gMaps1, key, Len(gQuery.keys))
  <1>1. n \in Nat
    BY GroupsAre DEF GInv
  <1>2. gMap2 = [g \in 1..n |-> code(GGroups[g])]
    BY DEF GInv, GMapInv, Coded
  <1> HIDE DEF n, code
  <1>3. Len(gMap2) = n
    BY <1>1, <1>2
  <1> QED BY <1>1, <1>3 DEF n

LEMMA GInvGives ==
    ASSUME GInv
    PROVE  G!GroupsExact
  <1> DEFINE N == Len(gQuery.keys)
             A == Len(gQuery.aggs)
  <1>1. /\ GInputInv /\ GControlInv /\ Grouping(gQuery) /\ N \in Nat /\ A \in Nat
        /\ DOMAIN gQuery.keys = 1..N /\ DOMAIN gQuery.aggs = 1..A
    <2>1. GInputInv /\ GControlInv /\ Grouping(gQuery)
      BY DEF GInv, GInputInv
    <2> QED BY <2>1 DEF Grouping
  <1>2. Len(gMap2) = Len(GGroups) /\ Len(GGroups) \in Nat
    BY MapSize
  <1>3. gPc # "idle" => /\ gAggrs = [a \in 1..A |-> gAggrs[a]]
                        /\ \A a \in 1..A : gAggrs[a] \in Seq(Seq(Int)) /\ Len(gAggrs[a]) % Growth = 0 /\ Len(GGroups) <= Len(gAggrs[a])
    BY DEF GInv, GAggrsInv
  <1>4. gPc = "idle" => DOMAIN gAggrs = {} /\ gInds = <<>>
    BY <1>1 DEF GControlInv
  <1>5. \A a \in DOMAIN gAggrs : Len(gAggrs[a]) \in Nat /\ Len(gAggrs[a]) % Growth = 0 /\ Len(gMap2) <= Len(gAggrs[a])
    BY <1>2, <1>3, <1>4
  <1>6. DOMAIN gInds = 1..Len(gInds) /\ DOMAIN gRows = 1..Len(gRows) /\ Len(gInds) \in Nat /\ Len(gRows) \in Nat /\ Len(gInds) <= Len(gRows)
    BY <1>1 DEF GControlInv
  <1>7. \A a \in DOMAIN gAggrs : \A j \in DOMAIN gInds : gInds[j] <= Len(gAggrs[a])
    <2>1. \A j \in DOMAIN gInds : gInds[j] \in 0..Len(GGroups)
      BY <1>6 DEF GInv, GIndsInv
    <2> QED BY <1>2, <1>5, <2>1
  <1>8. G!TypeOK
    <2>1. gTaken \in 0..Len(gInput) /\ gPc \in {"idle", "pull", "intern", "insert", "update", "append", "ended"}
          /\ gL \in Nat /\ gK \in 1..(N + 1) /\ gAppend \subseteq DOMAIN gInds
      BY <1>1, <1>6 DEF GControlInv
    <2>2. gPc # "idle" => G!ToSet(gOrder) = DOMAIN gQuery.keys
      <3> SUFFICES ASSUME gPc # "idle" PROVE G!ToSet(gOrder) = 1..N
        BY <1>1
      <3>1. gOrder \in [1..N -> 1..N] /\ \A c \in 1..N : \E n \in 1..N : gOrder[n] = c
        BY <1>1 DEF GControlInv, GoodOrder
      <3> HIDE DEF N
      <3> QED BY <3>1 DEF G!ToSet
    <2>3. G!Limited => Len(gMap2) <= gQuery.limit
      BY <1>1, <1>2, GroupsAre DEF G!Limited
    <2>4. DOMAIN gInds \subseteq DOMAIN gRows
      BY <1>6
    <2>5. Len(gOut) <= 1
      <3>1. CASE gLive
        <4>1. gOut = <<>>
          BY <1>1, <3>1 DEF GControlInv
        <4> QED BY <4>1
      <3>2. CASE ~gLive
        <4> DEFINE b == [keys |-> gResult, aggs |-> [a \in 1..A |-> SubSeq(gAggrs[a], 1, Len(GGroups))]]
        <4>1. gOut = <<b>>
          BY <1>1, <3>2 DEF GInv, GControlInv, GOutInv
        <4> HIDE DEF b
        <4> QED BY <4>1
      <3> QED BY <3>1, <3>2
    <2> QED BY <1>5, <2>1, <2>2, <2>3, <2>4, <2>5 DEF G!TypeOK, G!KeyCols
  <1>9. ASSUME gPc = "pull"
        PROVE  /\ gResult = G!Keys(G!Seen) /\ Len(gMap2) = Len(gResult)
               /\ \A a \in DOMAIN gAggrs : \A g \in DOMAIN gResult :
                    gAggrs[a][g] = G!ValuesOf(G!Seen, gResult[g], gQuery.aggs[a])
    <2>1. GSoFar = Upto(gInput, gTaken) /\ GCounted = Upto(gInput, gTaken) /\ gResult = GGroups /\ gResult \in Seq(GKey(gQuery))
      BY <1>9 DEF InBatch, GSoFar, GCounted, GInv, GResultInv
    <2>2. gResult = G!Keys(G!Seen)
      BY <2>1, AskedIs DEF GGroups
    <2>3. ASSUME NEW a \in DOMAIN gAggrs, NEW g \in DOMAIN gResult
          PROVE  gAggrs[a][g] = G!ValuesOf(G!Seen, gResult[g], gQuery.aggs[a])
      <3>1. a \in 1..A /\ g \in 1..Len(GGroups) /\ g <= Len(GGroups)
        BY <1>2, <1>3, <1>9, <2>1
      <3>2. g \in 1..Len(gAggrs[a])
        BY <1>2, <1>5, <3>1
      <3>3. gAggrs[a][g] = ValuesBy(gQuery, GCounted, GGroups[g], gQuery.aggs[a])
        BY <1>9, <3>1, <3>2 DEF GInv, GAggrsInv
      <3> QED BY <2>1, <3>3, AskedIs
    <2> QED BY <1>2, <2>1, <2>2, <2>3
  <1> QED BY <1>5, <1>7, <1>8, <1>9 DEF G!GroupsExact, G!AggCols

LEMMA GInitGives ==
    ASSUME G!Init
    PROVE  GInv
  <1>1. /\ gQuery \in Groupings /\ gInput \in Tables /\ gTaken = 0 /\ gLive = TRUE /\ gPc = "idle" /\ gOrder = <<>>
        /\ gMaps1 = <<>> /\ gMap2 = <<>> /\ gAggrs = <<>> /\ gResult = <<>> /\ gRows = <<>> /\ gL = 0 /\ gK = 1
        /\ gInds = <<>> /\ gAppend = {} /\ gOut = <<>>
    BY DEF G!Init
  <1>2. GInputInv /\ Grouping(gQuery)
    BY <1>1, TableIs DEF GInputInv
  <1>3. ~InBatch
    BY <1>1 DEF InBatch
  <1>4. GControlInv
    <2>1. Len(gQuery.keys) \in Nat /\ Len(gInput) \in Nat
      BY <1>2 DEF Grouping, GInputInv
    <2>2. gTaken \in 0..Len(gInput) /\ gK \in 1..(Len(gQuery.keys) + 1) /\ gL \in Nat
      BY <1>1, <2>1
    <2>3. gRows \in Seq(GRows(gQuery)) /\ gInds \in Seq(Nat) /\ Len(gInds) <= Len(gRows) /\ gAppend \subseteq 1..Len(gInds)
      BY <1>1
    <2> QED BY <1>1, <1>3, <2>2, <2>3 DEF GControlInv
  <1>5. GGroups = <<>>
    <2>1. GSoFar = <<>>
      BY <1>1, <1>2, <1>3, <1>4, SoFarIs DEF GSoFar
    <2> QED BY <1>2, <2>1, KeysNone DEF GGroups
  <1>6. GMapInv
    <2>1. Coded(gQuery, gOrder, gMaps1, <<>>) = <<>>
      BY DEF Coded
    <2> QED BY <1>1, <1>5, <2>1 DEF GMapInv
  <1>7. GKeysInv /\ GIndsInv /\ GAggrsInv /\ GOutInv
    BY <1>1 DEF GKeysInv, GIndsInv, GAggrsInv, GOutInv
  <1>8. GResultInv
    BY <1>1, <1>3, <1>5 DEF GResultInv
  <1> QED BY <1>2, <1>4, <1>6, <1>7, <1>8 DEF GInv

-----------------------------------------------------------------------------
(* The sort over the group-by.                                             *)

\* A sort of a stream of its own.
Alone == gQuery = NoGroupBy /\ ~gLive

\* A sort of groups: what the sort knows is what the group-by has returned.
Grouped ==
    /\ gQuery # NoGroupBy
    /\ GInv
    /\ query.cols = Len(gQuery.keys) + Len(gQuery.aggs) /\ query.cols # 0
    /\ query.params \in Seq([col : 1..query.cols, rev : BOOLEAN])
    /\ query.limit # NoLimit => query.limit \in Nat
    /\ input = IF gLive THEN <<>> ELSE <<GroupRows(gOut[1])>>
    /\ pc = "ended" => ~gLive

\* The inductive invariant.
GSInv == SInv /\ (Alone \/ Grouped)

LEMMA FlattenOne ==
    ASSUME NEW S, NEW s \in Seq(S)
    PROVE  FlattenSeq(<<s>>) = s
  <1> DEFINE none == <<>>
             one == <<s>>
  <1>1. Append(none, s) = one /\ none \in Seq(Seq(S)) /\ none \o s = s
    OBVIOUS
  <1>2. FlattenSeq(none) = none
    BY FlattenNone
  <1> HIDE DEF none, one
  <1>3. FlattenSeq(Append(none, s)) = FlattenSeq(none) \o s
    BY <1>1, FlattenAppend
  <1> QED BY <1>1, <1>2, <1>3 DEF one

\* What the group-by has returned.
LEMMA ReturnedIs ==
    ASSUME GInv, ~gLive
    PROVE  /\ gOut[1] = [keys |-> GGroups,
                         aggs |-> [a \in 1..Len(gQuery.aggs) |-> SubSeq(gAggrs[a], 1, Len(GGroups))]]
           /\ gOut # <<>>
           /\ GGroups \in Seq(GKey(gQuery)) /\ Len(GGroups) \in Nat
           /\ GGroups = KeysBy(gQuery, FlattenSeq(gInput))
           /\ \A a \in 1..Len(gQuery.aggs), g \in 1..Len(GGroups) :
                /\ SubSeq(gAggrs[a], 1, Len(GGroups))[g] = ValuesBy(gQuery, FlattenSeq(gInput), GGroups[g], gQuery.aggs[a])
                /\ SubSeq(gAggrs[a], 1, Len(GGroups))[g] \in Seq(Int)
  <1> DEFINE K == GGroups
             A == Len(gQuery.aggs)
             F == FlattenSeq(gInput)
  <1>1. gPc = "ended" /\ gTaken = Len(gInput) /\ GInputInv /\ GControlInv
    BY DEF GInv, GControlInv
  <1>2. K \in Seq(GKey(gQuery)) /\ Len(K) \in Nat
    BY <1>1, GroupsAre
  <1>3. gOut[1] = [keys |-> K, aggs |-> [a \in 1..A |-> SubSeq(gAggrs[a], 1, Len(K))]] /\ gOut # <<>>
    <2> DEFINE b == [keys |-> gResult, aggs |-> [a \in 1..A |-> SubSeq(gAggrs[a], 1, Len(K))]]
    <2>1. gOut = <<b>>
      BY <1>1 DEF GInv, GOutInv
    <2>2. gResult = K
      BY <1>1 DEF GInv, GResultInv, InBatch
    <2>3. b = [keys |-> K, aggs |-> [a \in 1..A |-> SubSeq(gAggrs[a], 1, Len(K))]]
      BY <2>2
    <2> HIDE DEF b
    <2>4. gOut[1] = b /\ gOut # <<>>
      BY <2>1
    <2> QED BY <2>3, <2>4
  <1>4. Upto(gInput, gTaken) = F
    <2> DEFINE T == GRows(gQuery)
    <2>1. gInput \in Seq(Seq(T))
      BY <1>1 DEF GInputInv
    <2> HIDE DEF T
    <2>2. Upto(gInput, Len(gInput)) = F
      BY <2>1, UptoIs
    <2> QED BY <1>1, <2>2
  <1>5. K = KeysBy(gQuery, F) /\ GCounted = F
    BY <1>1, <1>4 DEF GGroups, GSoFar, InBatch, GCounted
  <1>6. ASSUME NEW a \in 1..A, NEW g \in 1..Len(K)
        PROVE  /\ SubSeq(gAggrs[a], 1, Len(K))[g] = ValuesBy(gQuery, F, K[g], gQuery.aggs[a])
               /\ SubSeq(gAggrs[a], 1, Len(K))[g] \in Seq(Int)
    <2> DEFINE s == gAggrs[a]
               n == Len(K)
               v == ValuesBy(gQuery, GCounted, K[g], gQuery.aggs[a])
    <2>1. /\ s \in Seq(Seq(Int)) /\ n <= Len(s)
          /\ \A h \in 1..Len(s) : s[h] = IF h <= n THEN ValuesBy(gQuery, GCounted, K[h], gQuery.aggs[a]) ELSE <<>>
      BY <1>1 DEF GInv, GAggrsInv
    <2>2. g \in 1..Len(s) /\ g <= n
      BY <1>2, <2>1
    <2>3. s[g] = v /\ s[g] \in Seq(Int)
      BY <2>1, <2>2
    <2>4. SubSeq(s, 1, n)[g] = s[g]
      <3> HIDE DEF s, n
      <3>1. SubSeq(s, 1, n) = [h \in 1..n |-> s[h]]
        BY <1>2, <2>1 DEF n
      <3> QED BY <3>1 DEF n
    <2> HIDE DEF s, n, v
    <2>5. SubSeq(s, 1, n)[g] = v /\ v \in Seq(Int)
      BY <2>3, <2>4
    <2> QED BY <1>5, <2>5 DEF s, n, v
  <1> QED BY <1>2, <1>3, <1>5, <1>6

\* The rows that the sort gets, one for each group.
LEMMA GroupRowsAre ==
    ASSUME GInv, ~gLive
    PROVE  LET R == GroupRows(gOut[1])
           IN  /\ R \in Seq(Row) /\ Len(R) = Len(GGroups)
               /\ \A g \in 1..Len(R) : /\ R[g].id = g
                                       /\ R[g].key \in Seq(Int) /\ Len(R[g].key) = Len(gQuery.keys) + Len(gQuery.aggs)
               /\ Asked = Top(R)
  <1> DEFINE K == GGroups
             N == Len(gQuery.keys)
             A == Len(gQuery.aggs)
             F == FlattenSeq(gInput)
             v(g, a) == ValuesBy(gQuery, F, K[g], gQuery.aggs[a])
             counts(g) == [a \in 1..A |-> Len(v(g, a))]
             R == [g \in 1..Len(K) |-> [key |-> K[g] \o counts(g), id |-> g]]
  <1>1. Grouping(gQuery) /\ N \in Nat /\ A \in Nat /\ DOMAIN gQuery.keys = 1..N /\ DOMAIN gQuery.aggs = 1..A
    <2>1. Grouping(gQuery)
      BY DEF GInv, GInputInv
    <2> QED BY <2>1 DEF Grouping
  <1>2. /\ K \in Seq(GKey(gQuery)) /\ Len(K) \in Nat /\ K = KeysBy(gQuery, F)
        /\ gOut[1] = [keys |-> K, aggs |-> [a \in 1..A |-> SubSeq(gAggrs[a], 1, Len(K))]]
        /\ \A a \in 1..A, g \in 1..Len(K) : /\ SubSeq(gAggrs[a], 1, Len(K))[g] = v(g, a)
                                            /\ v(g, a) \in Seq(Int)
    <2>1. \A a \in 1..A, g \in 1..Len(K) : /\ SubSeq(gAggrs[a], 1, Len(K))[g] = v(g, a)
                                           /\ SubSeq(gAggrs[a], 1, Len(K))[g] \in Seq(Int)
      BY ReturnedIs
    <2>2. K \in Seq(GKey(gQuery)) /\ Len(K) \in Nat /\ K = KeysBy(gQuery, F)
          /\ gOut[1] = [keys |-> K, aggs |-> [a \in 1..A |-> SubSeq(gAggrs[a], 1, Len(K))]]
      BY ReturnedIs
    <2> HIDE DEF v
    <2>3. \A a \in 1..A, g \in 1..Len(K) : v(g, a) \in Seq(Int)
      BY <2>1
    <2> QED BY <2>1, <2>2, <2>3
  <1>3. \A g \in 1..Len(K) : K[g] \in Seq(Int) /\ Len(K[g]) = N
    <2> SUFFICES ASSUME NEW g \in 1..Len(K) PROVE K[g] \in Seq(Int) /\ Len(K[g]) = N
      OBVIOUS
    <2> DEFINE key == K[g]
    <2>1. key \in [1..N -> Int]
      BY <1>1, <1>2 DEF GKey
    <2> HIDE DEF key, N
    <2>2. key \in Seq(Int) /\ Len(key) = N
      BY <1>1, <2>1
    <2> QED BY <2>2 DEF key
  <1> HIDE DEF v, K, F, N, A
  <1>4. ASSUME NEW g \in 1..Len(K) PROVE counts(g) \in Seq(Int) /\ Len(counts(g)) = A
    <2>1. \A a \in 1..A : Len(v(g, a)) \in Int
      BY <1>2
    <2>2. counts(g) \in [1..A -> Int]
      BY <2>1
    <2> HIDE DEF counts
    <2> QED BY <1>1, <2>2
  <1>5. ASSUME NEW g \in 1..Len(K)
        PROVE  K[g] \o counts(g) \in Seq(Int) /\ Len(K[g] \o counts(g)) = N + A
    <2> DEFINE x == K[g]
               y == counts(g)
    <2>1. x \in Seq(Int) /\ y \in Seq(Int) /\ Len(x) = N /\ Len(y) = A
      BY <1>3, <1>4
    <2> HIDE DEF x, y
    <2>2. x \o y \in Seq(Int) /\ Len(x \o y) = Len(x) + Len(y)
      BY <2>1, Joined
    <2>3. Len(x \o y) = N + A
      BY <2>1, <2>2
    <2> QED BY <2>2, <2>3 DEF x, y
  <1>6. GroupRows(gOut[1]) = R
    <2> DEFINE b == gOut[1]
               agg(a) == SubSeq(gAggrs[a], 1, Len(K))
    <2> HIDE DEF b
    <2>1. b.keys = K /\ b.aggs = [a \in 1..A |-> agg(a)]
      BY <1>2 DEF b
    <2>2. DOMAIN b.aggs = 1..A /\ \A a \in 1..A : b.aggs[a] = agg(a)
      BY <2>1
    <2>3. \A a \in 1..A, g \in 1..Len(K) : agg(a)[g] = v(g, a)
      BY <1>2
    <2>4. DOMAIN b.keys = 1..Len(K)
      BY <1>2, <2>1
    <2> HIDE DEF agg
    <2>5. \A g \in 1..Len(K) : [a \in DOMAIN b.aggs |-> Len(b.aggs[a][g])] = counts(g)
      BY <2>2, <2>3
    <2> DEFINE row(g) == [key |-> b.keys[g] \o [a \in DOMAIN b.aggs |-> Len(b.aggs[a][g])], id |-> g]
    <2>6. \A g \in 1..Len(K) : row(g) = [key |-> K[g] \o counts(g), id |-> g]
      BY <2>1, <2>5
    <2>7. GroupRows(b) = [g \in 1..Len(K) |-> row(g)]
      BY <2>4 DEF GroupRows
    <2> HIDE DEF row, counts
    <2> QED BY <2>6, <2>7 DEF b
  <1>7. Asked = Top(R)
    <2> DEFINE keys == G!Keys(F)
               C(g) == [a \in DOMAIN gQuery.aggs |-> Len(G!ValuesOf(F, keys[g], gQuery.aggs[a]))]
               S == [g \in DOMAIN keys |-> [key |-> keys[g] \o C(g), id |-> g]]
    <2>1. keys = K
      BY <1>2, AskedIs
    <2>2. Asked = Top(S)
      BY DEF Asked, F
    <2>3. DOMAIN K = 1..Len(K)
      BY <1>2
    <2> HIDE DEF keys
    <2>4. \A g \in 1..Len(K) : C(g) = counts(g)
      BY <1>1, <2>1, AskedIs DEF v
    <2> HIDE DEF C, counts
    <2>5. S = R
      BY <2>1, <2>3, <2>4
    <2> HIDE DEF S
    <2> QED BY <2>2, <2>5
  <1> HIDE DEF counts
  <1>8. R \in Seq(Row) /\ Len(R) = Len(K) /\ \A g \in 1..Len(K) : R[g].id = g /\ R[g].key = K[g] \o counts(g)
    <2>1. \A g \in 1..Len(K) : R[g] \in Row
      <3> SUFFICES ASSUME NEW g \in 1..Len(K) PROVE R[g] \in Row
        OBVIOUS
      <3>1. K[g] \o counts(g) \in Seq(Int) /\ g \in Nat
        BY <1>2, <1>5
      <3> QED BY <3>1 DEF Row
    <2>2. R \in [1..Len(K) -> Row]
      BY <2>1
    <2>3. \A g \in 1..Len(K) : R[g].id = g /\ R[g].key = K[g] \o counts(g)
      OBVIOUS
    <2> HIDE DEF R
    <2>4. R \in Seq(Row) /\ Len(R) = Len(K)
      BY <1>2, <2>2
    <2> QED BY <2>3, <2>4
  <1> HIDE DEF R
  <1>9. \A g \in 1..Len(R) : R[g].id = g /\ R[g].key \in Seq(Int) /\ Len(R[g].key) = N + A
    BY <1>5, <1>8
  <1> QED BY <1>6, <1>7, <1>8, <1>9 DEF K, N, A

\* Once the group-by has ended, its batch is rows for the sort, and these, sorted and
\* cut, are what is asked for.
RowsReturned ==
    LET R == GroupRows(gOut[1])
    IN  /\ gOut # <<>>
        /\ R \in Seq(Row) /\ Len(R) = Len(GGroups)
        /\ \A g \in 1..Len(R) : /\ R[g].id = g
                                /\ R[g].key \in Seq(Int) /\ Len(R[g].key) = Len(gQuery.keys) + Len(gQuery.aggs)
        /\ Asked = Top(R)

LEMMA RowsAreReturned == GInv /\ ~gLive => RowsReturned
  BY GroupRowsAre, ReturnedIs DEF RowsReturned

LEMMA RowsThen == (GInv /\ ~gLive => RowsReturned)'
  BY RowsAreReturned, PTL

-----------------------------------------------------------------------------
\* Parameters that name columns fit rows that have them.
LEMMA ParamsFit ==
    ASSUME NEW q, q.cols \in Nat, q.params \in Seq([col : 1..q.cols, rev : BOOLEAN]),
           NEW S, \A a \in S : a.key \in Seq(Int) /\ Len(a.key) = q.cols
    PROVE  Fits(q.params, S)
  <1> DEFINE ps == q.params
             c == q.cols
             P == [col : 1..c, rev : BOOLEAN]
  <1>1. c \in Nat /\ ps \in Seq(P) /\ \A a \in S : a.key \in Seq(Int) /\ Len(a.key) = c
    OBVIOUS
  <1> HIDE DEF c, ps
  <1>2. \A p \in P : p \in [col : Nat, rev : BOOLEAN] /\ p.col \in 1..c
    BY <1>1
  <1> HIDE DEF P
  <1>3. \A m \in 1..Len(ps) : ps[m] \in P
    BY <1>1
  <1>4. ps \in Seq([col : Nat, rev : BOOLEAN])
    <2> DEFINE Q == [col : Nat, rev : BOOLEAN]
    <2>1. Len(ps) \in Nat /\ ps = [m \in 1..Len(ps) |-> ps[m]]
      BY <1>1
    <2>2. \A m \in 1..Len(ps) : ps[m] \in Q
      BY <1>2, <1>3
    <2> HIDE DEF Q
    <2>3. ps \in [1..Len(ps) -> Q]
      BY <2>1, <2>2
    <2>4. ps \in Seq(Q)
      BY <2>1, <2>3
    <2> QED BY <2>4 DEF Q
  <1>5. ASSUME NEW a \in S, NEW m \in 1..Len(ps) PROVE a.key[ps[m].col] \in Int
    <2>1. ps[m].col \in 1..Len(a.key) /\ a.key \in Seq(Int)
      BY <1>1, <1>2, <1>3
    <2> QED BY <2>1
  <1> QED BY <1>4, <1>5 DEF Fits, ps

\* Rows that are numbered from 1 can be sorted.
LEMMA NumberedRows ==
    ASSUME NEW q, q.cols \in Nat, q.params \in Seq([col : 1..q.cols, rev : BOOLEAN]),
           q.limit # NoLimit => q.limit \in Nat,
           NEW R \in Seq(Row),
           \A g \in 1..Len(R) : R[g].id = g /\ R[g].key \in Seq(Int) /\ Len(R[g].key) = q.cols
    PROVE  Sortable(q, R)
  <1>1. Rising(R)
    <2>1. \A m, n \in 1..Len(R) : m < n => R[m].id < R[n].id
      OBVIOUS
    <2> QED BY <2>1 DEF Rising
  <1>2. \A a \in ToSet(R) : a.key \in Seq(Int) /\ Len(a.key) = q.cols
    BY DEF ToSet
  <1>3. Fits(q.params, ToSet(R))
    BY <1>2, ParamsFit
  <1> QED BY <1>1, <1>3 DEF Sortable

\* The first no batches have no rows.
LEMMA NoneYet ==
    ASSUME NEW s \in Seq(Seq(Row))
    PROVE  Upto(s, 0) = <<>>
  <1>1. SubSeq(s, 1, 0) = <<>>
    OBVIOUS
  <1> QED BY <1>1, FlattenNone DEF Upto

\* A step of the group-by below the sort.
LEMMA GroupStepKeeps ==
    ASSUME GSInv, GroupStep
    PROVE  GSInv'
  <1>1. /\ pc = "pull" /\ taken = Len(input) /\ gLive /\ G!Next
        /\ input' = IF gOut' = gOut THEN input ELSE Append(input, GroupRows(gOut'[1]))
        /\ UNCHANGED <<query, taken, live, pc, cols, i, vec, count, out>>
    BY DEF GroupStep
  <1>2. SInv /\ Grouped
    BY <1>1 DEF GSInv, Alone
  <1>3. GInv /\ gQuery # NoGroupBy /\ input = <<>> /\ taken = 0 /\ gOut = <<>>
    BY <1>1, <1>2 DEF Grouped, GInv, GControlInv
  <1>4. GInv'
    BY <1>1, <1>3, GKeeps
  <1>5. gQuery' = gQuery
    BY <1>1 DEF G!Next, G!Call, G!Pull, G!Intern, G!NextBlock, G!InsertRow, G!RowsInserted, G!UpdateAggregates,
                G!AppendKeys, G!Finish
  <1>6. gLive' => gOut' = <<>>
    BY <1>4 DEF GInv, GControlInv
  <1>7. ~gLive' => gOut' # <<>>
    BY <1>4, RowsThen DEF RowsReturned
  <1>8. CASE gLive'
    <2>1. input' = input
      BY <1>1, <1>3, <1>6, <1>8
    <2>2. SInv'
      BY <1>1, <1>2, <2>1, SortStays DEF SortVars
    <2>3. Grouped'
      BY <1>1, <1>2, <1>4, <1>5, <1>8, <2>1 DEF Grouped
    <2> QED BY <2>2, <2>3 DEF GSInv
  <1>9. CASE ~gLive'
    <2> DEFINE R == GroupRows(gOut[1])'
    <2>1. input' = <<R>>
      <3>1. input' = Append(<<>>, R)
        BY <1>1, <1>3, <1>7, <1>9 DEF GroupRows
      <3> HIDE DEF R
      <3> QED BY <3>1
    <2>2. /\ R \in Seq(Row)
          /\ \A g \in 1..Len(R) : /\ R[g].id = g
                                  /\ R[g].key \in Seq(Int) /\ Len(R[g].key) = Len(gQuery.keys) + Len(gQuery.aggs)
      BY <1>4, <1>5, <1>9, RowsThen DEF RowsReturned, GroupRows
    <2> HIDE DEF R
    <2>3. /\ query.cols \in Nat /\ query.cols # 0 /\ query.params \in Seq([col : 1..query.cols, rev : BOOLEAN])
          /\ query.limit # NoLimit => query.limit \in Nat
          /\ query.cols = Len(gQuery.keys) + Len(gQuery.aggs)
      BY <1>2 DEF SInv, InputInv, Grouped
    <2>4. Sortable(query, R)
      BY <2>2, <2>3, NumberedRows
    <2>5. FlattenSeq(input') = R /\ input' \in Seq(Seq(Row)) /\ Len(input') = 1
      <3>1. FlattenSeq(<<R>>) = R
        BY <2>2, FlattenOne
      <3> QED BY <2>1, <2>2, <3>1
    <2>6. InputInv'
      BY <1>1, <2>3, <2>4, <2>5 DEF InputInv
    <2>7. ControlInv'
      <3>1. taken' \in 0..Len(input')
        BY <1>1, <1>3, <2>5
      <3> QED BY <1>1, <1>2, <3>1 DEF SInv, ControlInv
    <2>8. VecInv'
      <3>1. Upto(input, taken) = <<>> /\ Upto(input', taken) = <<>>
        BY <1>2, <1>3, <2>5, NoneYet DEF SInv, InputInv
      <3>2. vec = IF query.limit # NoLimit THEN Best(query, <<>>) ELSE <<>>
        BY <1>1, <1>2, <2>3, <3>1 DEF SInv, VecInv
      <3>3. Upto(input', taken') = <<>>
        BY <1>1, <3>1
      <3> QED BY <1>1, <2>3, <3>2, <3>3 DEF VecInv
    <2>9. Grouped'
      <3>1. input' = IF gLive' THEN <<>> ELSE <<GroupRows(gOut[1])'>>
        BY <1>9, <2>1 DEF R
      <3> QED BY <1>1, <1>2, <1>4, <1>5, <1>9, <3>1 DEF Grouped
    <2> QED BY <2>6, <2>7, <2>8, <2>9 DEF SInv, GSInv
  <1> QED BY <1>8, <1>9

\* What the group-by knows is about its own variables.
LEMMA GStays ==
    ASSUME GInv, UNCHANGED gVars
    PROVE  GInv'
  <1> USE DEF gVars
  <1>1. GSoFar' = GSoFar /\ GCounted' = GCounted /\ InBatch' = InBatch
    BY DEF GSoFar, GCounted, InBatch, Upto
  <1>2. GGroups' = GGroups
    BY <1>1 DEF GGroups
  <1>3. GInputInv' /\ GControlInv'
    BY <1>1 DEF GInv, GInputInv, GControlInv
  <1>4. GMapInv' /\ GKeysInv'
    BY <1>1, <1>2 DEF GInv, GMapInv, GKeysInv, Done
  <1>5. GIndsInv'
    BY <1>1, <1>2 DEF GInv, GIndsInv
  <1>6. GAggrsInv'
    BY <1>1, <1>2 DEF GInv, GAggrsInv
  <1>7. GResultInv' /\ GOutInv'
    BY <1>1, <1>2 DEF GInv, GResultInv, GOutInv, Opened
  <1> QED BY <1>3, <1>4, <1>5, <1>6, <1>7 DEF GInv

\* A step of the sort.
LEMMA SortStepKeeps ==
    ASSUME GSInv, SortStep
    PROVE  GSInv'
  <1>1. Next /\ (pc = "pull" /\ taken = Len(input) => ~gLive) /\ UNCHANGED gVars
    BY DEF SortStep
  <1>2. SInv'
    BY <1>1, SortKeeps DEF GSInv
  <1>3. query' = query /\ input' = input
    BY <1>1 DEF Next, Call, PullCount, Pull, AppendChunk, SortChunk, EndBatch, Finish
  <1>4. pc' = "ended" => pc = "ended" \/ ~live \/ (pc = "pull" /\ taken = Len(input))
    BY <1>1 DEF Next, Call, PullCount, Pull, AppendChunk, SortChunk, EndBatch, Finish
  <1>5. ~live => pc = "ended"
    BY DEF GSInv, SInv, ControlInv
  <1>6. CASE Alone
    <2>1. Alone'
      BY <1>1, <1>6 DEF Alone, gVars
    <2> QED BY <1>2, <2>1 DEF GSInv
  <1>7. CASE Grouped
    <2>1. GInv'
      BY <1>1, <1>7, GStays DEF Grouped
    <2>2. pc' = "ended" => ~gLive'
      BY <1>1, <1>4, <1>5, <1>7 DEF Grouped, gVars
    <2>3. Grouped'
      BY <1>1, <1>3, <1>7, <2>1, <2>2 DEF Grouped, gVars, GroupRows
    <2> QED BY <1>2, <2>3 DEF GSInv
  <1> QED BY <1>6, <1>7 DEF GSInv

\* The start of a sort of a stream of its own.
LEMMA SortAloneGives ==
    ASSUME SortAlone
    PROVE  GSInv
  <1>1. /\ query \in Queries /\ input \in Inputs /\ taken = 0 /\ live = TRUE /\ pc = "idle"
        /\ cols = <<>> /\ i = 0 /\ vec = <<>> /\ count = 0 /\ out = <<>>
        /\ gQuery = NoGroupBy /\ gLive = FALSE
        /\ query.cols > 0 => \A row \in ToSet(FlattenSeq(input)) : Len(row.key) = query.cols
    BY DEF SortAlone, Init
  <1>2. query.cols \in Nat /\ query.params \in Seq([col : 1..query.cols, rev : BOOLEAN])
        /\ (query.limit # NoLimit => query.limit \in Nat)
    BY <1>1, QueriesAssumption
  <1> DEFINE F == FlattenSeq(input)
             S == ToSet(F)
  <1>3. input \in Seq(Seq(Row)) /\ F \in Seq(Row) /\ \A m, n \in DOMAIN F : m < n => F[m].id < F[n].id
    BY <1>1, InputsAssumption, FlattenIsFlat
  <1>4. query.cols > 0 => \A a \in S : Len(a.key) = query.cols
    BY <1>1
  <1> HIDE DEF F
  <1>5. Rising(F)
    BY <1>3 DEF Rising
  <1>6. \A a \in S : a.key \in Seq(Int)
    <2>1. \A n \in DOMAIN F : F[n] \in Row
      BY <1>3
    <2>2. \A a \in Row : a.key \in Seq(Int)
      BY DEF Row
    <2> QED BY <2>1, <2>2 DEF ToSet
  <1> HIDE DEF S
  <1>7. Fits(query.params, S)
    <2>1. CASE query.cols = 0
      <3> DEFINE ps == query.params
                 P == [col : 1..query.cols, rev : BOOLEAN]
      <3>1. ps \in Seq(P) /\ \A p \in P : FALSE
        BY <1>2, <2>1
      <3> HIDE DEF ps, P
      <3>2. ps = <<>>
        BY <3>1
      <3>3. ps \in Seq([col : Nat, rev : BOOLEAN]) /\ \A m \in 1..Len(ps) : FALSE
        BY <3>2
      <3> QED BY <3>3 DEF Fits, ps
    <2>2. CASE query.cols # 0
      <3>1. \A a \in S : a.key \in Seq(Int) /\ Len(a.key) = query.cols
        BY <1>2, <1>4, <1>6, <2>2
      <3> QED BY <1>2, <3>1, ParamsFit
    <2> QED BY <2>1, <2>2
  <1>8. InputInv
    BY <1>2, <1>3, <1>5, <1>7 DEF InputInv, Sortable, S, F
  <1>9. ControlInv
    <2>1. Len(input) \in Nat
      BY <1>3
    <2> QED BY <1>1, <2>1 DEF ControlInv
  <1>10. VecInv
    BY <1>1 DEF VecInv
  <1>11. Alone
    BY <1>1 DEF Alone
  <1> QED BY <1>8, <1>9, <1>10, <1>11 DEF GSInv, SInv

\* The start of a sort of groups.
LEMMA SortOfGroupsGives ==
    ASSUME SortOfGroups
    PROVE  GSInv
  <1>1. /\ G!Init /\ query \in Queries /\ query.cols = Len(gQuery.keys) + Len(gQuery.aggs)
        /\ input = <<>> /\ taken = 0 /\ live = TRUE /\ pc = "idle"
        /\ cols = <<>> /\ i = 0 /\ vec = <<>> /\ count = 0 /\ out = <<>>
    BY DEF SortOfGroups
  <1>2. query.cols \in Nat /\ query.params \in Seq([col : 1..query.cols, rev : BOOLEAN])
        /\ (query.limit # NoLimit => query.limit \in Nat)
    BY <1>1, QueriesAssumption
  <1>3. GInv /\ gLive = TRUE /\ gQuery \in Groupings
    BY <1>1, GInitGives DEF G!Init
  <1>4. query.cols # 0
    <2>1. Len(gQuery.keys) + Len(gQuery.aggs) > 0
      BY <1>3, GroupingsAssumption
    <2>2. query.cols > 0
      BY <1>1, <2>1
    <2> QED BY <1>2, <2>2
  <1>5. gQuery # NoGroupBy
    <2>1. Len(NoGroupBy.keys) + Len(NoGroupBy.aggs) = 0
      BY DEF NoGroupBy
    <2> QED BY <1>1, <1>4, <2>1
  <1>6. Grouped
    BY <1>1, <1>2, <1>3, <1>4, <1>5 DEF Grouped
  <1>7. Sortable(query, <<>>) /\ FlattenSeq(input) = <<>>
    <2>1. FlattenSeq(input) = <<>>
      BY <1>1, FlattenNone
    <2> DEFINE none == <<>>
    <2>2. none \in Seq(Row) /\ \A g \in 1..Len(none) : FALSE
      OBVIOUS
    <2> HIDE DEF none
    <2>3. Sortable(query, none)
      BY <1>2, <2>2, NumberedRows
    <2> QED BY <2>1, <2>3 DEF none
  <1>8. InputInv
    <2>1. input \in Seq(Seq(Row))
      BY <1>1
    <2> QED BY <1>2, <1>7, <2>1 DEF InputInv
  <1>9. ControlInv
    BY <1>1 DEF ControlInv
  <1>10. VecInv
    BY <1>1 DEF VecInv
  <1> QED BY <1>6, <1>8, <1>9, <1>10 DEF GSInv, SInv

\* Nothing changes.
LEMMA GSStays ==
    ASSUME GSInv, UNCHANGED <<vars, gVars>>
    PROVE  GSInv'
  <1>1. UNCHANGED SortVars /\ UNCHANGED gVars
    BY DEF vars, SortVars
  <1>2. SInv'
    BY <1>1, SortStays DEF GSInv
  <1>3. Alone => Alone'
    BY <1>1 DEF Alone, gVars
  <1>4. ASSUME Grouped PROVE Grouped'
    <2>1. GInv'
      BY <1>1, <1>4, GStays DEF Grouped
    <2>2. UNCHANGED <<gQuery, gLive, gOut, query, input, pc>>
      BY <1>1 DEF gVars, SortVars
    <2> QED BY <1>4, <2>1, <2>2 DEF Grouped, GroupRows
  <1> QED BY <1>2, <1>3, <1>4 DEF GSInv

\* The result of a sort of groups is what the SELECT asks for.
LEMMA AnswerIs ==
    ASSUME GSInv, Grouped, out # <<>>
    PROVE  out[1].rows = Asked
  <1>1. SInv /\ GInv /\ query.cols # 0
    BY DEF GSInv, Grouped
  <1>2. pc = "ended"
    BY <1>1 DEF SInv, ControlInv
  <1>3. ~gLive
    BY <1>2 DEF Grouped
  <1> DEFINE R == GroupRows(gOut[1])
  <1>4. input = <<R>> /\ R \in Seq(Row) /\ Asked = Top(R)
    BY <1>1, <1>3, RowsAreReturned DEF Grouped, RowsReturned
  <1> HIDE DEF R
  <1>5. FlattenSeq(input) = R /\ Upto(input, taken) = R
    <2>1. FlattenSeq(<<R>>) = R
      BY <1>4, FlattenOne
    <2>2. taken = 1
      BY <1>1, <1>2, <1>4 DEF SInv, VecInv
    <2>3. SubSeq(input, 1, 1) = input
      <3>1. Len(input) = 1 /\ input \in Seq(Seq(Row))
        BY <1>4
      <3> QED BY <3>1
    <2> QED BY <1>4, <2>1, <2>2, <2>3 DEF Upto
  <1>6. Sortable(query, R)
    BY <1>1, <1>5 DEF SInv, InputInv
  <1>7. Top(R) = Best(query, R)
    BY <1>6, BestIs
  <1> DEFINE b == Best(query, R)
  <1>8. out = <<[n |-> Len(b), rows |-> IF query.cols = 0 THEN <<>> ELSE b]>>
    BY <1>1, <1>2, <1>5 DEF SInv, VecInv
  <1> HIDE DEF b
  <1>9. out[1].rows = b
    BY <1>1, <1>8
  <1> QED BY <1>4, <1>7, <1>9 DEF b

-----------------------------------------------------------------------------
(* The theorems.                                                           *)

\* The inductive invariant holds: the sort has the first rows of those that it has
\* seen, the group-by has the groups of those that it has seen, and the stream of a sort
\* of groups is what the group-by has returned.
THEOREM GSInvHolds == GSSpec => []GSInv
  <1>1. GSInit => GSInv
    BY SortAloneGives, SortOfGroupsGives DEF GSInit
  <1>2. GSInv /\ [GSNext]_<<vars, gVars>> => GSInv'
    BY GroupStepKeeps, SortStepKeeps, GSStays DEF GSNext
  <1> QED BY <1>1, <1>2, PTL DEF GSSpec

\* Forgetting rows after every chunk (SortOperatorStream::Next) loses none that the query
\* asks for, wherever the batches and the chunks are cut and however large a limit, a
\* stride or a stream is, and at most one chunk stands beside the rows to keep.
THEOREM TopIsKept == GSSpec => []KeepsTheTop
  <1>1. GSInv => KeepsTheTop
    BY SInvGives DEF GSInv
  <1> QED BY <1>1, GSInvHolds, PTL

\* The three numberings of the groups in GroupByOperatorStream::Next agree, with each other
\* and with what the query asks for, whatever the order of the key columns, the size of a
\* block, the strides of the aggregates, the batches and the limit; and no place of a
\* deque is used before it is there.
THEOREM GroupsAreExact == GSSpec => []GroupsExact
  <1>1. GSInv => GroupsExact
    <2> SUFFICES ASSUME GSInv, gQuery # NoGroupBy PROVE G!GroupsExact
      BY DEF GroupsExact
    <2>1. GInv
      BY DEF GSInv, Alone, Grouped
    <2> QED BY <2>1, GInvGives
  <1> QED BY <1>1, GSInvHolds, PTL

\* The result of a sort has the rows of its stream, sorted and cut, and as many of them when
\* there are no columns; that of a sort over a group-by is the answer to the SELECT:
\* the groups of the whole table with their counts, sorted and cut, and the limit of the one
\* operator does not get in the way of the other's.
THEOREM AnswerIsExact == GSSpec => []ResultExact
  <1>1. GSInv => ResultExact
    <2> SUFFICES ASSUME GSInv PROVE ResultExact
      OBVIOUS
    <2>1. ResultIsSorted
      BY SInvGives DEF GSInv
    <2>2. gQuery # NoGroupBy /\ out # <<>> => out[1].rows = Asked
      BY AnswerIs DEF GSInv, Alone
    <2> QED BY <2>1, <2>2 DEF ResultExact
  <1> QED BY <1>1, GSInvHolds, PTL

====
