-------------------------- MODULE StringColumnProofs --------------------------
(***************************************************************************)
(* Proofs about StringColumn, for any block size, any slack, any columns   *)
(* and any bytes: looking at token's size once in a block is enough, the   *)
(* byte behind a kEscape is always there, FromBytes refuses just the bytes *)
(* that are no column, and it reads back every column that was written.    *)
(*                                                                         *)
(* FlattenSeq and Escapes are recursive functions, CHOOSE to the provers:  *)
(* FlattenIsFlat, FlatAt and EscapesDef say once what they are.            *)
(***************************************************************************)
EXTENDS StringColumn, SequenceTheorems, WellFoundedInduction, TLAPS

-----------------------------------------------------------------------------
(* FlattenSeq, of sequences of any kind.                                   *)

\* Every nonempty set of natural numbers has a least element.
LEMMA LeastNat ==
    ASSUME NEW T, T \subseteq Nat, T # {}
    PROVE  \E x \in T : \A y \in T : x <= y
  <1>1. PICK x \in T : \A y \in T : ~(<<y, x>> \in OpToRel(<, Nat))
    BY NatLessThanWellFounded, WFMin, Zenon
  <1>2. ASSUME NEW y \in T PROVE x <= y
    <2>1. ~(y < x)
      BY <1>1 DEF OpToRel
    <2> QED BY <2>1
  <1> QED BY <1>2

\* f[k] is the first k of the sequences, one behind the other.
IsFlat(f, seqs, n) ==
    /\ f = [k \in 0..n |-> f[k]]
    /\ f[0] = <<>>
    /\ \A k \in 1..n : f[k] = f[k - 1] \o seqs[k]

Flat(seqs) == CHOOSE f : IsFlat(f, seqs, Len(seqs))

\* One more sequence.
LEMMA FlatStep ==
    ASSUME NEW seqs, NEW m \in Nat, NEW f, IsFlat(f, seqs, m)
    PROVE  \E g : IsFlat(g, seqs, m + 1)
  <1> DEFINE g == [k \in 0..(m + 1) |-> IF k = m + 1 THEN f[m] \o seqs[m + 1] ELSE f[k]]
  <1>1. g[0] = <<>>
    BY DEF IsFlat
  <1>2. ASSUME NEW k \in 1..(m + 1) PROVE g[k] = g[k - 1] \o seqs[k]
    <2>1. k - 1 \in 0..(m + 1) /\ k - 1 # m + 1 /\ k \in 0..(m + 1)
      OBVIOUS
    <2>2. g[k - 1] = f[k - 1]
      BY <2>1
    <2>3. CASE k = m + 1
      <3>1. g[m + 1] = f[m] \o seqs[m + 1]
        BY <2>1, <2>3
      <3>2. k - 1 = m
        BY <2>3
      <3> HIDE DEF g
      <3> QED BY <2>2, <2>3, <3>1, <3>2
    <2>4. CASE k # m + 1
      <3>1. k \in 1..m /\ g[k] = f[k]
        BY <2>1, <2>4
      <3> HIDE DEF g
      <3> QED BY <2>2, <3>1 DEF IsFlat
    <2> QED BY <2>3, <2>4
  <1>3. g = [k \in 0..(m + 1) |-> g[k]]
    OBVIOUS
  <1> HIDE DEF g
  <1> QED BY <1>1, <1>2, <1>3 DEF IsFlat

LEMMA FlatExists ==
    ASSUME NEW seqs, NEW n \in Nat
    PROVE  \E f : IsFlat(f, seqs, n)
  <1> DEFINE Bad == {m \in Nat : ~\E f : IsFlat(f, seqs, m)}
  <1>1. SUFFICES ASSUME Bad # {} PROVE FALSE
    OBVIOUS
  <1>2. PICK m \in Bad : \A k \in Bad : m <= k
    <2>1. Bad \subseteq Nat
      OBVIOUS
    <2> HIDE DEF Bad
    <2> QED BY <1>1, <2>1, LeastNat
  <1>3. m # 0
    <2> DEFINE f == [k \in 0..0 |-> <<>>]
    <2>1. IsFlat(f, seqs, 0)
      BY DEF IsFlat
    <2> QED BY <1>2, <2>1
  <1>4. m \in Nat /\ m - 1 \in Nat /\ m = (m - 1) + 1 /\ ~(m <= m - 1)
    BY <1>2, <1>3
  <1>5. PICK f : IsFlat(f, seqs, m - 1)
    BY <1>2, <1>4
  <1>6. \E g : IsFlat(g, seqs, m)
    BY <1>4, <1>5, FlatStep
  <1> QED BY <1>2, <1>6

LEMMA FlatDef ==
    ASSUME NEW S, NEW seqs \in Seq(Seq(S))
    PROVE  /\ Flat(seqs) \in [0..Len(seqs) -> Seq(S)]
           /\ Flat(seqs)[0] = <<>>
           /\ \A k \in 1..Len(seqs) : Flat(seqs)[k] = Flat(seqs)[k - 1] \o seqs[k]
  <1> DEFINE g == Flat(seqs)
             n == Len(seqs)
  <1>0. n \in Nat /\ (\A k \in 1..n : seqs[k] \in Seq(S)) /\ <<>> \in Seq(S)
    OBVIOUS
  <1>1. IsFlat(g, seqs, n)
    BY <1>0, FlatExists DEF Flat
  <1> HIDE DEF g, n
  <1>2. g = [k \in 0..n |-> g[k]] /\ g[0] = <<>> /\ \A k \in 1..n : g[k] = g[k - 1] \o seqs[k]
    BY <1>1 DEF IsFlat
  <1>3. \A k \in 0..n : g[k] \in Seq(S)
    <2> DEFINE Bad == {m \in 0..n : g[m] \notin Seq(S)}
    <2>1. SUFFICES ASSUME Bad # {} PROVE FALSE
      OBVIOUS
    <2>2. PICK m \in Bad : \A k \in Bad : m <= k
      <3>1. Bad \subseteq Nat
        BY <1>0
      <3> HIDE DEF Bad
      <3> QED BY <2>1, <3>1, LeastNat
    <2>3. m \in 0..n /\ g[m] \notin Seq(S)
      BY <2>2
    <2>4. m # 0
      BY <1>0, <1>2, <2>3
    <2>5. m \in 1..n /\ m - 1 \in 0..n /\ ~(m <= m - 1)
      BY <1>0, <2>3, <2>4
    <2>6. g[m - 1] \in Seq(S)
      BY <2>2, <2>5
    <2>7. g[m - 1] \o seqs[m] \in Seq(S)
      BY <1>0, <2>5, <2>6
    <2> QED BY <1>2, <2>3, <2>5, <2>7
  <1>4. g \in [0..n -> Seq(S)]
    BY <1>2, <1>3
  <1> QED BY <1>2, <1>4 DEF g, n

\* What FlattenSeq makes of them.
LEMMA FlattenIsFlat ==
    ASSUME NEW S, NEW seqs \in Seq(Seq(S))
    PROVE  FlattenSeq(seqs) = Flat(seqs)[Len(seqs)] /\ FlattenSeq(seqs) \in Seq(S)
  <1> DEFINE n == Len(seqs)
             IsIt(f) == f = [k \in 1..n |-> IF k = 1 THEN seqs[k] ELSE f[k - 1] \o seqs[k]]
             h == CHOOSE f : IsIt(f)
             g == Flat(seqs)
  <1>0. n \in Nat /\ \A k \in 1..n : seqs[k] \in Seq(S)
    OBVIOUS
  <1>1. g \in [0..n -> Seq(S)] /\ g[0] = <<>> /\ \A k \in 1..n : g[k] = g[k - 1] \o seqs[k]
    BY FlatDef
  <1>2. FlattenSeq(seqs) = IF n = 0 THEN seqs ELSE h[n]
    BY DEF FlattenSeq
  <1> HIDE DEF g
  <1>3. CASE n = 0
    <2>1. seqs = <<>>
      BY <1>3
    <2> QED BY <1>1, <1>2, <1>3, <2>1 DEF g
  <1>4. CASE n # 0
    <2>1. n \in 1..n /\ 1 \in 1..n /\ 0 \in 0..n
      BY <1>0, <1>4
    <2> HIDE DEF n
    <2>2. g[1] = seqs[1]
      <3>1. seqs[1] \in Seq(S) /\ g[1] = g[1 - 1] \o seqs[1]
        BY <1>0, <1>1, <2>1
      <3>2. g[1 - 1] = <<>>
        BY <1>1
      <3> QED BY <3>1, <3>2, ConcatEmptySeq
    <2> DEFINE f0 == [k \in 1..n |-> g[k]]
    <2>3. IsIt(f0)
      <3>1. ASSUME NEW k \in 1..n PROVE f0[k] = IF k = 1 THEN seqs[k] ELSE f0[k - 1] \o seqs[k]
        <4>1. CASE k = 1
          BY <2>2, <4>1
        <4>2. CASE k # 1
          <5>1. k - 1 \in 1..n
            BY <1>0, <4>2
          <5> QED BY <1>1, <4>2, <5>1
        <4> QED BY <4>1, <4>2
      <3>2. f0 = [k \in 1..n |-> f0[k]]
        OBVIOUS
      <3> HIDE DEF f0
      <3> QED BY <3>1, <3>2
    <2>4. IsIt(h)
      BY <2>3
    <2> HIDE DEF h
    <2>5. \A k \in 1..n : h[k] = IF k = 1 THEN seqs[k] ELSE h[k - 1] \o seqs[k]
      BY <2>4
    <2>6. \A k \in 1..n : h[k] = g[k]
      <3> DEFINE Bad == {m \in 1..n : h[m] # g[m]}
      <3>1. SUFFICES ASSUME Bad # {} PROVE FALSE
        OBVIOUS
      <3>2. PICK m \in Bad : \A k \in Bad : m <= k
        <4>1. Bad \subseteq Nat
          BY <1>0
        <4> HIDE DEF Bad
        <4> QED BY <3>1, <4>1, LeastNat
      <3>3. m \in 1..n /\ h[m] # g[m]
        BY <3>2
      <3>4. m # 1
        BY <2>1, <2>2, <2>5, <3>3
      <3>5. m - 1 \in 1..n /\ ~(m <= m - 1)
        BY <1>0, <3>3, <3>4
      <3>6. h[m - 1] = g[m - 1]
        BY <3>2, <3>5
      <3> QED BY <1>1, <2>5, <3>3, <3>4, <3>6
    <2>7. g[n] \in Seq(S)
      BY <1>0, <1>1
    <2> QED BY <1>2, <1>4, <2>1, <2>6, <2>7 DEF g, n
  <1> QED BY <1>3, <1>4

\* One sequence behind another.
LEMMA Joined ==
    ASSUME NEW S, NEW s \in Seq(S), NEW t \in Seq(S)
    PROVE  /\ s \o t \in Seq(S)
           /\ Len(s) \in Nat /\ Len(t) \in Nat /\ Len(s \o t) = Len(s) + Len(t)
           /\ \A j \in 1..Len(s) : (s \o t)[j] = s[j]
           /\ \A j \in 1..Len(t) : (s \o t)[Len(s) + j] = t[j]
  <1>1. s \o t \in Seq(S) /\ Len(s \o t) = Len(s) + Len(t) /\ Len(s) \in Nat /\ Len(t) \in Nat
    OBVIOUS
  <1>2. \A j \in 1..Len(s) : (s \o t)[j] = s[j]
    BY <1>1
  <1>3. ASSUME NEW j \in 1..Len(t) PROVE (s \o t)[Len(s) + j] = t[j]
    <2>1. Len(s) + j \in 1..(Len(s) + Len(t)) /\ ~(Len(s) + j <= Len(s)) /\ Len(s) + j - Len(s) = j
      BY <1>1
    <2> QED BY <1>1, <2>1
  <1> QED BY <1>1, <1>2, <1>3

\* Where the k-th of the sequences is.
LEMMA FlatAt ==
    ASSUME NEW S, NEW seqs \in Seq(Seq(S)), NEW k \in 1..Len(seqs)
    PROVE  /\ Len(Flat(seqs)[k - 1]) \in Nat /\ Len(seqs[k]) \in Nat
           /\ Len(Flat(seqs)[k]) = Len(Flat(seqs)[k - 1]) + Len(seqs[k])
           /\ Len(FlattenSeq(seqs)) \in Nat
           /\ Len(Flat(seqs)[k]) <= Len(FlattenSeq(seqs))
           /\ \A j \in 1..Len(seqs[k]) : FlattenSeq(seqs)[Len(Flat(seqs)[k - 1]) + j] = seqs[k][j]
  <1> DEFINE n == Len(seqs)
             g == Flat(seqs)
             from == Len(g[k - 1])
             size == Len(seqs[k])
             Good(m) == /\ Len(g[m]) \in Nat
                        /\ from + size <= Len(g[m])
                        /\ \A j \in 1..size : g[m][from + j] = seqs[k][j]
  <1>0. n \in Nat /\ k \in 1..n /\ n \in k..n /\ \A m \in 1..n : seqs[m] \in Seq(S)
    OBVIOUS
  <1>1. /\ g \in [0..n -> Seq(S)]
        /\ \A m \in 1..n : g[m] = g[m - 1] \o seqs[m]
    BY FlatDef
  <1>2. FlattenSeq(seqs) = g[n]
    BY FlattenIsFlat
  <1> HIDE DEF g, n
  <1>3. \A m \in 0..n : g[m] \in Seq(S)
    BY <1>1
  <1>4. ASSUME NEW m \in 1..n
        PROVE  /\ Len(g[m - 1]) \in Nat /\ Len(seqs[m]) \in Nat /\ Len(g[m]) \in Nat
               /\ Len(g[m]) = Len(g[m - 1]) + Len(seqs[m])
               /\ \A j \in 1..Len(g[m - 1]) : g[m][j] = g[m - 1][j]
               /\ \A j \in 1..Len(seqs[m]) : g[m][Len(g[m - 1]) + j] = seqs[m][j]
    <2>1. g[m - 1] \in Seq(S) /\ seqs[m] \in Seq(S) /\ g[m] = g[m - 1] \o seqs[m]
      <3>1. m - 1 \in 0..n
        BY <1>0
      <3> QED BY <1>0, <1>1, <1>3, <3>1
    <2> DEFINE s == g[m - 1]
               t == seqs[m]
    <2> HIDE DEF s, t
    <2>2. s \in Seq(S) /\ t \in Seq(S) /\ g[m] = s \o t
      BY <2>1 DEF s, t
    <2>3. /\ Len(s) \in Nat /\ Len(t) \in Nat /\ Len(s \o t) = Len(s) + Len(t)
          /\ \A j \in 1..Len(s) : (s \o t)[j] = s[j]
          /\ \A j \in 1..Len(t) : (s \o t)[Len(s) + j] = t[j]
      BY <2>2, Joined
    <2>4. Len(s \o t) \in Nat
      BY <2>3
    <2> HIDE DEF s, t
    <2>5. /\ Len(g[m]) \in Nat /\ Len(g[m]) = Len(s) + Len(t)
          /\ \A j \in 1..Len(s) : g[m][j] = s[j]
          /\ \A j \in 1..Len(t) : g[m][Len(s) + j] = t[j]
      BY <2>2, <2>3, <2>4, Zenon
    <2> QED BY <2>3, <2>5 DEF s, t
  <1>5. from \in Nat /\ size \in Nat /\ Len(g[k]) = from + size
    BY <1>0, <1>4
  <1>6. \A j \in 1..size : g[k][from + j] = seqs[k][j]
    BY <1>0, <1>4
  <1> HIDE DEF from, size
  <1>7. Good(k)
    BY <1>5, <1>6
  <1>8. \A m \in k..n : Good(m)
    <2> DEFINE Bad == {m \in k..n : ~Good(m)}
    <2>1. SUFFICES ASSUME Bad # {} PROVE FALSE
      OBVIOUS
    <2>2. PICK m \in Bad : \A x \in Bad : m <= x
      <3>1. Bad \subseteq Nat
        OBVIOUS
      <3> HIDE DEF Bad
      <3> QED BY <2>1, <3>1, LeastNat
    <2>3. m \in k..n /\ ~Good(m)
      BY <2>2
    <2>4. m # k
      BY <1>7, <2>3
    <2>5. m \in 1..n /\ m - 1 \in k..n /\ ~(m <= m - 1)
      BY <1>0, <2>3, <2>4
    <2>6. Good(m - 1)
      BY <2>2, <2>5
    <2>7. /\ Len(g[m - 1]) \in Nat /\ Len(seqs[m]) \in Nat /\ Len(g[m]) \in Nat
          /\ Len(g[m]) = Len(g[m - 1]) + Len(seqs[m])
          /\ \A j \in 1..Len(g[m - 1]) : g[m][j] = g[m - 1][j]
      BY <1>4, <2>5
    <2> DEFINE a == Len(g[m - 1])
               b == Len(seqs[m])
    <2>8. a \in Nat /\ b \in Nat /\ Len(g[m]) = a + b /\ from + size <= a
      BY <2>6, <2>7
    <2> HIDE DEF a, b
    <2>9. ASSUME NEW j \in 1..size PROVE g[m][from + j] = seqs[k][j]
      <3>1. from + j \in 1..a
        BY <1>5, <2>8
      <3>2. g[m][from + j] = g[m - 1][from + j]
        BY <2>7, <3>1 DEF a
      <3> QED BY <2>6, <3>2
    <2>10. from + size <= a + b
      BY <1>5, <2>8
    <2> HIDE DEF Bad
    <2> QED BY <2>3, <2>7, <2>8, <2>9, <2>10
  <1>9. Good(n)
    BY <1>0, <1>8
  <1> QED BY <1>2, <1>5, <1>9 DEF g, from, size
-----------------------------------------------------------------------------
(* The bytes that escape the one after them.                               *)

\* Escapes, of any bytes.
EscapesIn(s) == CHOOSE f : f = [n \in Nat |-> n > 0 /\ s[n] = kEscape /\ ~f[n - 1]]

\* Where the run of kEscape that ends at the n-th byte begins.
RunFrom(s, k, n) ==
    /\ k \in 0..n
    /\ k = 0 \/ s[k] # kEscape
    /\ \A j \in (k + 1)..n : s[j] = kEscape

LEMMA RunExists ==
    ASSUME NEW s, NEW n \in Nat
    PROVE  \E k \in 0..n : RunFrom(s, k, n)
  <1> DEFINE Starts == {d \in 0..n : n - d = 0 \/ s[n - d] # kEscape}
  <1>1. n \in Starts /\ Starts \subseteq Nat
    OBVIOUS
  <1>2. PICK d \in Starts : \A e \in Starts : d <= e
    <2> HIDE DEF Starts
    <2> QED BY <1>1, LeastNat
  <1>3. d \in 0..n /\ n - d \in 0..n /\ (n - d = 0 \/ s[n - d] # kEscape)
    BY <1>2
  <1>4. ASSUME NEW j \in (n - d + 1)..n PROVE s[j] = kEscape
    <2>1. n - j \in 0..n /\ n - (n - j) = j /\ ~(d <= n - j)
      BY <1>3
    <2>2. n - j \notin Starts
      BY <1>2, <2>1
    <2> QED BY <2>1, <2>2
  <1> QED BY <1>3, <1>4 DEF RunFrom

LEMMA RunUnique ==
    ASSUME NEW s, NEW n \in Nat, NEW k \in 0..n, NEW l \in 0..n,
           RunFrom(s, k, n), RunFrom(s, l, n)
    PROVE  k = l
  <1>1. ~(k < l)
    <2> SUFFICES ASSUME k < l PROVE FALSE
      OBVIOUS
    <2>1. l \in (k + 1)..n /\ l # 0
      OBVIOUS
    <2> QED BY <2>1 DEF RunFrom
  <1>2. ~(l < k)
    <2> SUFFICES ASSUME l < k PROVE FALSE
      OBVIOUS
    <2>1. k \in (l + 1)..n /\ k # 0
      OBVIOUS
    <2> QED BY <2>1 DEF RunFrom
  <1> QED BY <1>1, <1>2

\* A byte escapes the next one when the run that ends with it is odd.
OddRun(s, n) == \E k \in 0..n : RunFrom(s, k, n) /\ (n - k) % 2 = 1

LEMMA OddRunStep ==
    ASSUME NEW s, NEW n \in Nat
    PROVE  OddRun(s, n) <=> n > 0 /\ s[n] = kEscape /\ ~OddRun(s, n - 1)
  <1>1. CASE n = 0
    <2>1. ~OddRun(s, 0)
      BY DEF OddRun
    <2> QED BY <1>1, <2>1
  <1>2. CASE n > 0
    <2>0. n - 1 \in Nat
      BY <1>2
    <2>1. ASSUME s[n] # kEscape PROVE ~OddRun(s, n)
      <3>1. n \in 0..n /\ RunFrom(s, n, n)
        BY <2>1 DEF RunFrom
      <3>2. \A k \in 0..n : RunFrom(s, k, n) => k = n
        BY <3>1, RunUnique
      <3> QED BY <3>2 DEF OddRun
    <2>2. ASSUME s[n] = kEscape PROVE OddRun(s, n) <=> ~OddRun(s, n - 1)
      <3>1. PICK k \in 0..(n - 1) : RunFrom(s, k, n - 1)
        BY <2>0, RunExists
      <3>2. k \in 0..n /\ RunFrom(s, k, n)
        BY <1>2, <2>2, <3>1 DEF RunFrom
      <3>3. \A l \in 0..n : RunFrom(s, l, n) => l = k
        BY <3>2, RunUnique
      <3>4. \A l \in 0..(n - 1) : RunFrom(s, l, n - 1) => l = k
        BY <2>0, <3>1, RunUnique
      <3>5. OddRun(s, n) <=> (n - k) % 2 = 1
        BY <3>2, <3>3 DEF OddRun
      <3>6. OddRun(s, n - 1) <=> (n - 1 - k) % 2 = 1
        BY <3>1, <3>4 DEF OddRun
      <3>7. (n - k) % 2 = 1 <=> (n - 1 - k) % 2 # 1
        BY <1>2, <3>1
      <3> QED BY <3>5, <3>6, <3>7
    <2> QED BY <1>2, <2>1, <2>2
  <1> QED BY <1>1, <1>2

LEMMA EscapesDef ==
    ASSUME NEW s
    PROVE  /\ EscapesIn(s) \in [Nat -> BOOLEAN]
           /\ \A n \in Nat : EscapesIn(s)[n] <=> n > 0 /\ s[n] = kEscape /\ ~EscapesIn(s)[n - 1]
  <1> DEFINE f == [n \in Nat |-> OddRun(s, n)]
             g == EscapesIn(s)
  <1>1. f = [n \in Nat |-> n > 0 /\ s[n] = kEscape /\ ~f[n - 1]]
    <2>1. ASSUME NEW n \in Nat PROVE OddRun(s, n) = (n > 0 /\ s[n] = kEscape /\ ~f[n - 1])
      <3>1. n > 0 => n - 1 \in Nat
        OBVIOUS
      <3>2. n > 0 => f[n - 1] = OddRun(s, n - 1)
        BY <3>1
      <3>3. OddRun(s, n) <=> n > 0 /\ s[n] = kEscape /\ ~OddRun(s, n - 1)
        BY OddRunStep
      <3>4. OddRun(s, n) \in BOOLEAN
        BY DEF OddRun
      <3> QED BY <3>2, <3>3, <3>4
    <2> QED BY <2>1, Zenon
  <1>2. g = [n \in Nat |-> n > 0 /\ s[n] = kEscape /\ ~g[n - 1]]
    BY <1>1 DEF EscapesIn
  <1> HIDE DEF g
  <1>3. \A n \in Nat : g[n] = (n > 0 /\ s[n] = kEscape /\ ~g[n - 1])
    BY <1>2, Zenon
  <1>4. g \in [Nat -> BOOLEAN]
    BY <1>2, Zenon
  <1> QED BY <1>3, <1>4, Zenon DEF g
-----------------------------------------------------------------------------
(* What stands where in the bytes of a column.                             *)

LEMMA Chars == kDelim \in Char /\ kEscape \in Char /\ kDelim = 0 /\ kEscape = 1 /\ Char \subseteq Nat
  BY CharAssumption DEF kDelim, kEscape
\* The bytes of a row, one sequence for each character; of a column, one for each row.
Codes(row) == [n \in DOMAIN row |-> Escaped(row[n])]
Lines(col) == [r \in DOMAIN col |-> Append(FlattenSeq(Codes(col[r])), kDelim)]

\* How many bytes are before the n-th character of a row, and before the row.
Off(row, n)    == Len(Flat(Codes(row))[n])
Pos(col, r, n) == Len(Flat(Lines(col))[r - 1]) + Off(col[r], n)

LEMMA CodesType ==
    ASSUME NEW row \in Seq(Char)
    PROVE  Codes(row) \in Seq(Seq(Char)) /\ Len(Codes(row)) = Len(row)
  <1>1. \A n \in 1..Len(row) : Escaped(row[n]) \in Seq(Char)
    <2> SUFFICES ASSUME NEW n \in 1..Len(row) PROVE Escaped(row[n]) \in Seq(Char)
      OBVIOUS
    <2>1. row[n] \in Char
      OBVIOUS
    <2>2. <<kEscape, row[n]>> \in Seq(Char) /\ <<row[n]>> \in Seq(Char)
      BY <2>1, Chars
    <2> QED BY <2>2 DEF Escaped
  <1>2. Codes(row) = [n \in 1..Len(row) |-> Escaped(row[n])] /\ Len(row) \in Nat
    BY DEF Codes
  <1> QED BY <1>1, <1>2

\* The bytes of a row.
LEMMA RowBytes ==
    ASSUME NEW row \in Seq(Char)
    PROVE  /\ FlattenSeq(Codes(row)) \in Seq(Char)
           /\ Off(row, 0) = 0
           /\ Off(row, Len(row)) = Len(FlattenSeq(Codes(row)))
           /\ \A n \in 0..(Len(row) - 1) :
                 /\ Off(row, n) \in Nat
                 /\ Off(row, n + 1) = Off(row, n) + Len(Escaped(row[n + 1]))
                 /\ Off(row, n + 1) <= Len(FlattenSeq(Codes(row)))
                 /\ \A j \in 1..Len(Escaped(row[n + 1])) :
                       FlattenSeq(Codes(row))[Off(row, n) + j] = Escaped(row[n + 1])[j]
  <1> DEFINE c == Codes(row)
  <1>1. c \in Seq(Seq(Char)) /\ Len(c) = Len(row) /\ Len(row) \in Nat
    BY CodesType
  <1>2. \A n \in 1..Len(row) : c[n] = Escaped(row[n])
    BY DEF Codes
  <1> HIDE DEF c
  <1>3. FlattenSeq(c) \in Seq(Char) /\ FlattenSeq(c) = Flat(c)[Len(row)]
    BY <1>1, FlattenIsFlat
  <1>4. Flat(c)[0] = <<>>
    BY <1>1, FlatDef
  <1>5. Off(row, 0) = 0
    BY <1>4 DEF Off, c
  <1>6. Off(row, Len(row)) = Len(FlattenSeq(c))
    BY <1>3 DEF Off, c
  <1>7. ASSUME NEW n \in 0..(Len(row) - 1)
        PROVE  /\ Off(row, n) \in Nat
               /\ Off(row, n + 1) = Off(row, n) + Len(Escaped(row[n + 1]))
               /\ Off(row, n + 1) <= Len(FlattenSeq(c))
               /\ \A j \in 1..Len(Escaped(row[n + 1])) :
                     FlattenSeq(c)[Off(row, n) + j] = Escaped(row[n + 1])[j]
    <2>1. n + 1 \in 1..Len(c) /\ n + 1 \in 1..Len(row) /\ (n + 1) - 1 = n
      BY <1>1
    <2>2. c[n + 1] = Escaped(row[n + 1])
      BY <1>2, <2>1
    <2>3. /\ Len(Flat(c)[(n + 1) - 1]) \in Nat
          /\ Len(Flat(c)[n + 1]) = Len(Flat(c)[(n + 1) - 1]) + Len(c[n + 1])
          /\ Len(Flat(c)[n + 1]) <= Len(FlattenSeq(c))
          /\ \A j \in 1..Len(c[n + 1]) :
                FlattenSeq(c)[Len(Flat(c)[(n + 1) - 1]) + j] = c[n + 1][j]
      BY <1>1, <2>1, FlatAt, Zenon
    <2>4. Off(row, n) = Len(Flat(c)[(n + 1) - 1]) /\ Off(row, n + 1) = Len(Flat(c)[n + 1])
      BY <2>1 DEF Off, c
    <2> QED BY <2>2, <2>3, <2>4, Zenon
  <1> QED BY <1>3, <1>5, <1>6, <1>7 DEF c

LEMMA LinesType ==
    ASSUME NEW col \in Seq(Seq(Char))
    PROVE  /\ Lines(col) \in Seq(Seq(Char)) /\ Len(Lines(col)) = Len(col)
           /\ ToBytes(col) \in Seq(Char)
  <1>1. \A r \in 1..Len(col) : Append(FlattenSeq(Codes(col[r])), kDelim) \in Seq(Char)
    <2> SUFFICES ASSUME NEW r \in 1..Len(col)
                 PROVE  Append(FlattenSeq(Codes(col[r])), kDelim) \in Seq(Char)
      OBVIOUS
    <2>1. col[r] \in Seq(Char)
      OBVIOUS
    <2>2. FlattenSeq(Codes(col[r])) \in Seq(Char)
      BY <2>1, RowBytes
    <2> QED BY <2>2, Chars
  <1>2. Lines(col) = [r \in 1..Len(col) |-> Append(FlattenSeq(Codes(col[r])), kDelim)] /\ Len(col) \in Nat
    BY DEF Lines
  <1>3. Lines(col) \in Seq(Seq(Char)) /\ Len(Lines(col)) = Len(col)
    BY <1>1, <1>2
  <1>4. ToBytes(col) = FlattenSeq(Lines(col))
    BY DEF ToBytes, Lines, Codes
  <1>5. ToBytes(col) \in Seq(Char)
    BY <1>3, <1>4, FlattenIsFlat
  <1> QED BY <1>3, <1>5

\* The bytes of a column: what stands at the n-th character of its r-th row, and at
\* the row's end.
LEMMA ColumnBytes ==
    ASSUME NEW col \in Seq(Seq(Char)), NEW r \in 1..Len(col), NEW n \in 0..Len(col[r])
    PROVE  /\ Pos(col, r, n) \in Nat
           /\ Pos(col, r, n) < Len(ToBytes(col))
           /\ n < Len(col[r]) =>
                 IF col[r][n + 1] \in {kDelim, kEscape}
                 THEN /\ ToBytes(col)[Pos(col, r, n) + 1] = kEscape
                      /\ ToBytes(col)[Pos(col, r, n) + 2] = col[r][n + 1]
                      /\ Pos(col, r, n + 1) = Pos(col, r, n) + 2
                 ELSE /\ ToBytes(col)[Pos(col, r, n) + 1] = col[r][n + 1]
                      /\ Pos(col, r, n + 1) = Pos(col, r, n) + 1
           /\ n = Len(col[r]) =>
                 /\ ToBytes(col)[Pos(col, r, n) + 1] = kDelim
                 /\ IF r < Len(col)
                    THEN Pos(col, r + 1, 0) = Pos(col, r, n) + 1
                    ELSE Len(ToBytes(col)) = Pos(col, r, n) + 1
  <1> DEFINE b    == ToBytes(col)
             row  == col[r]
             code == FlattenSeq(Codes(row))
             line == Append(code, kDelim)
             L    == Lines(col)
             from == Len(Flat(L)[r - 1])
             len  == Len(code)
  <1>1. row \in Seq(Char) /\ Len(row) \in Nat /\ Len(col) \in Nat
    OBVIOUS
  <1>2. L \in Seq(Seq(Char)) /\ Len(L) = Len(col) /\ L[r] = line
    <2>1. L[r] = line
      BY DEF Lines
    <2> QED BY <2>1, LinesType
  <1>3. code \in Seq(Char) /\ len \in Nat
    BY <1>1, RowBytes
  <1>4. /\ Len(line) = len + 1
        /\ \A j \in 1..len : line[j] = code[j]
        /\ line[len + 1] = kDelim
    BY <1>3
  <1>5. b = FlattenSeq(L)
    BY DEF ToBytes, Lines, Codes
  <1>6. /\ from \in Nat
        /\ Len(Flat(L)[r]) = from + len + 1
        /\ Len(b) \in Nat /\ from + len + 1 <= Len(b)
        /\ \A j \in 1..(len + 1) : b[from + j] = line[j]
    <2> HIDE DEF L, line, b
    <2>1. /\ Len(Flat(L)[r - 1]) \in Nat /\ Len(L[r]) \in Nat
          /\ Len(Flat(L)[r]) = Len(Flat(L)[r - 1]) + Len(L[r])
          /\ Len(FlattenSeq(L)) \in Nat
          /\ Len(Flat(L)[r]) <= Len(FlattenSeq(L))
          /\ \A j \in 1..Len(L[r]) : FlattenSeq(L)[Len(Flat(L)[r - 1]) + j] = L[r][j]
      <3>1. r \in 1..Len(L)
        BY <1>2
      <3> QED BY <1>2, <3>1, FlatAt, Zenon
    <2>2. L[r] = line /\ Len(L[r]) = len + 1
      BY <1>2, <1>4
    <2> HIDE DEF from, len
    <2>3. /\ from \in Nat
          /\ Len(Flat(L)[r]) = from + (len + 1)
          /\ Len(b) \in Nat /\ Len(Flat(L)[r]) <= Len(b)
          /\ \A j \in 1..(len + 1) : b[from + j] = line[j]
      BY <1>5, <2>1, <2>2, Zenon DEF from
    <2> QED BY <1>3, <2>3
  <1>7. Off(row, Len(row)) = len /\ Off(row, 0) = 0
    BY <1>1, RowBytes
  <1>8. n < Len(row) => /\ Off(row, n) \in Nat
                        /\ Off(row, n + 1) = Off(row, n) + Len(Escaped(row[n + 1]))
                        /\ Off(row, n + 1) <= len
                        /\ \A j \in 1..Len(Escaped(row[n + 1])) :
                              code[Off(row, n) + j] = Escaped(row[n + 1])[j]
    <2> SUFFICES ASSUME n < Len(row)
                 PROVE  /\ Off(row, n) \in Nat
                        /\ Off(row, n + 1) = Off(row, n) + Len(Escaped(row[n + 1]))
                        /\ Off(row, n + 1) <= len
                        /\ \A j \in 1..Len(Escaped(row[n + 1])) :
                              code[Off(row, n) + j] = Escaped(row[n + 1])[j]
      OBVIOUS
    <2>1. n \in 0..(Len(row) - 1)
      BY <1>1
    <2> HIDE DEF row
    <2> QED BY <1>1, <2>1, RowBytes, Zenon
  <1>9. Pos(col, r, n) = from + Off(row, n) /\ Pos(col, r, n + 1) = from + Off(row, n + 1)
    BY DEF Pos
  <1>10. r < Len(col) => Pos(col, r + 1, 0) = from + len + 1
    <2> SUFFICES ASSUME r < Len(col) PROVE Pos(col, r + 1, 0) = from + len + 1
      OBVIOUS
    <2>1. Off(col[r + 1], 0) = 0
      <3>1. col[r + 1] \in Seq(Char)
        OBVIOUS
      <3> QED BY <3>1, RowBytes
    <2>2. (r + 1) - 1 = r
      OBVIOUS
    <2> HIDE DEF from, len, L
    <2> QED BY <1>3, <1>6, <2>1, <2>2 DEF Pos, L
  <1>11. r = Len(col) => Len(b) = from + len + 1
    <2>1. FlattenSeq(L) = Flat(L)[Len(L)]
      BY <1>2, FlattenIsFlat
    <2> HIDE DEF L, b, from, len
    <2> QED BY <1>2, <1>5, <1>6, <2>1
  <1>12. ASSUME n < Len(row)
         PROVE  /\ Pos(col, r, n) \in Nat /\ Pos(col, r, n) < Len(b)
                /\ IF row[n + 1] \in {kDelim, kEscape}
                   THEN /\ b[Pos(col, r, n) + 1] = kEscape
                        /\ b[Pos(col, r, n) + 2] = row[n + 1]
                        /\ Pos(col, r, n + 1) = Pos(col, r, n) + 2
                   ELSE /\ b[Pos(col, r, n) + 1] = row[n + 1]
                        /\ Pos(col, r, n + 1) = Pos(col, r, n) + 1
    <2> DEFINE o == Off(row, n)
               e == Escaped(row[n + 1])
               ch == row[n + 1]
    <2>1. /\ o \in Nat /\ Off(row, n + 1) = o + Len(e) /\ o + Len(e) <= len
          /\ \A j \in 1..Len(e) : code[o + j] = e[j]
      BY <1>8, <1>12
    <2>2. IF ch \in {kDelim, kEscape} THEN Len(e) = 2 /\ e[1] = kEscape /\ e[2] = ch
                                      ELSE Len(e) = 1 /\ e[1] = ch
      <3> HIDE DEF ch
      <3> QED BY DEF Escaped, ch
    <2> HIDE DEF o, e, ch, row, code, line, L, from, len, b
    <2>3. Pos(col, r, n) = from + o /\ Pos(col, r, n + 1) = from + Off(row, n + 1)
      BY <1>9 DEF o
    <2>4. from \in Nat /\ len \in Nat /\ o \in Nat /\ Len(b) \in Nat /\ from + len + 1 <= Len(b)
      BY <1>3, <1>6, <2>1
    <2>5. CASE ch \in {kDelim, kEscape}
      <3>1. Len(e) = 2 /\ e[1] = kEscape /\ e[2] = ch
        BY <2>2, <2>5
      <3>2. code[o + 1] = kEscape /\ code[o + 2] = ch /\ o + 2 <= len
        BY <2>1, <3>1
      <3>3. o + 1 \in 1..len /\ o + 2 \in 1..len /\ o + 1 \in 1..(len + 1) /\ o + 2 \in 1..(len + 1)
        BY <1>3, <2>1, <3>2
      <3>4. b[from + (o + 1)] = kEscape /\ b[from + (o + 2)] = ch
        BY <1>4, <1>6, <3>2, <3>3
      <3>5. from + (o + 1) = from + o + 1 /\ from + (o + 2) = from + o + 2
        BY <1>6, <2>1
      <3>6. Off(row, n + 1) = o + 2
        BY <2>1, <3>1
      <3>7. from + o \in Nat /\ from + o < Len(b)
        BY <2>4, <3>2
      <3> QED BY <2>3, <2>5, <3>4, <3>5, <3>6, <3>7 DEF ch
    <2>6. CASE ch \notin {kDelim, kEscape}
      <3>1. Len(e) = 1 /\ e[1] = ch
        BY <2>2, <2>6
      <3>2. code[o + 1] = ch /\ o + 1 <= len
        BY <2>1, <3>1
      <3>3. o + 1 \in 1..len /\ o + 1 \in 1..(len + 1)
        BY <1>3, <2>1, <3>2
      <3>4. b[from + (o + 1)] = ch
        BY <1>4, <1>6, <3>2, <3>3
      <3>5. from + (o + 1) = from + o + 1
        BY <1>6, <2>1
      <3>6. Off(row, n + 1) = o + 1
        BY <2>1, <3>1
      <3>7. o + 1 <= len /\ from + o \in Nat /\ from + o < Len(b)
        BY <2>4, <3>2
      <3> QED BY <2>3, <2>6, <3>4, <3>5, <3>6, <3>7 DEF ch
    <2> QED BY <2>5, <2>6
  <1>13. ASSUME n = Len(row)
         PROVE  /\ Pos(col, r, n) \in Nat /\ Pos(col, r, n) < Len(b)
                /\ b[Pos(col, r, n) + 1] = kDelim
                /\ IF r < Len(col) THEN Pos(col, r + 1, 0) = Pos(col, r, n) + 1
                                   ELSE Len(b) = Pos(col, r, n) + 1
    <2>1. Pos(col, r, n) = from + len
      BY <1>7, <1>9, <1>13
    <2>2. r \in Nat /\ r <= Len(col)
      BY <1>1
    <2> HIDE DEF row, code, line, L, from, len, b
    <2>3. b[from + (len + 1)] = kDelim /\ from + (len + 1) = from + len + 1
      BY <1>3, <1>4, <1>6
    <2>4. from + len \in Nat /\ from + len < Len(b)
      BY <1>3, <1>6
    <2>5. r < Len(col) \/ r = Len(col)
      BY <1>1, <2>2
    <2> QED BY <1>1, <1>10, <1>11, <2>1, <2>2, <2>3, <2>4, <2>5
  <1> HIDE DEF row, code, line, L, from, len, b
  <1>14. n < Len(row) \/ n = Len(row)
    BY <1>1 DEF row
  <1> QED BY <1>12, <1>13, <1>14 DEF row, b
-----------------------------------------------------------------------------
(* The inductive invariant.                                                *)

\* What the variables hold.
Types ==
    /\ pc \in {"start", "block", "char", "done", "threw"}
    /\ bytes \in Seq(Char)
    /\ i \in Nat /\ beg \in Nat /\ dlt \in Nat /\ sz \in Nat
    /\ token \in Seq(Char)
    /\ m_data \in Seq(Char)

\* A block ends before the last byte of all; the loop overshoots it by at most the
\* character that its last byte escapes.
InBlock ==
    /\ i <= Len(bytes)
    /\ beg <= i /\ i <= beg + dlt + 1 /\ dlt <= Block
    /\ pc = "char" => beg + dlt < Len(bytes)

\* What is left of the block fits into what is left of token.
Room ==
    /\ sz <= Len(token)
    /\ pc = "char" => sz + (beg + dlt - i) <= Len(token)

\* The rows lie one behind the other.
Offsets ==
    /\ m_offsets \in Seq(Nat) /\ m_offsets # <<>>
    /\ m_offsets[1] = 0 /\ m_offsets[Len(m_offsets)] = Len(m_data)

Inv == Types /\ InBlock /\ Room /\ Offsets

\* token grows to at least what was asked for and keeps what it has.
LEMMA GrownProperties ==
    ASSUME NEW n \in Nat, token \in Seq(Char), sz \in Nat
    PROVE  /\ Grown(n) \in Seq(Char) /\ Len(Grown(n)) >= sz + n + Slack
           /\ \A k \in 1..Len(token) : Grown(n)[k] = token[k]
  <1> DEFINE minSz == sz + n + Slack
             m     == Larger(2 * Len(token) + Slack, minSz + Spare) - Len(token)
             zeros == [k \in 1..m |-> 0]
  <1>1. Slack \in Nat /\ Spare \in Nat /\ Len(token) \in Nat /\ minSz \in Nat
    BY BlockAssumption
  <1>2. CASE Len(token) >= minSz
    <2>1. Grown(n) = token
      BY <1>2 DEF Grown
    <2> QED BY <2>1, <1>2
  <1>3. CASE ~(Len(token) >= minSz)
    <2>1. m \in Nat /\ Len(token) + m >= minSz
      BY <1>1, <1>3 DEF Larger
    <2>2. zeros \in Seq(Char) /\ Len(zeros) = m
      <3> HIDE DEF m
      <3> QED BY <2>1, Chars
    <2>3. Grown(n) = token \o zeros
      BY <1>3 DEF Grown
    <2> HIDE DEF zeros, m, minSz
    <2>4. /\ token \o zeros \in Seq(Char) /\ Len(token \o zeros) = Len(token) + m
          /\ \A k \in 1..Len(token) : (token \o zeros)[k] = token[k]
      BY <2>2, Joined
    <2> QED BY <2>1, <2>3, <2>4 DEF minSz
  <1> QED BY <1>2, <1>3

\* A row joins the column.
LEMMA AppendTokenProperties ==
    ASSUME Types, Room, Offsets, AppendToken
    PROVE  m_data' \in Seq(Char) /\ Offsets'
  <1> DEFINE row == SubSeq(token, 1, sz)
  <1>1. row \in Seq(Char) /\ Len(row) = sz
    BY DEF Types, Room
  <1>2. m_data' = m_data \o row
    BY DEF AppendToken
  <1>3. m_offsets' = Append(m_offsets, m_offsets[Len(m_offsets)] + sz)
    BY DEF AppendToken, Last
  <1> HIDE DEF row
  <1>4. m_data' \in Seq(Char) /\ Len(m_data') = Len(m_data) + sz
    <2>1. m_data \in Seq(Char)
      BY DEF Types
    <2>2. m_data \o row \in Seq(Char) /\ Len(m_data \o row) = Len(m_data) + Len(row)
      BY <1>1, <2>1
    <2> QED BY <1>1, <1>2, <2>2
  <1>5. Len(m_data) \in Nat /\ Len(m_offsets) \in Nat /\ Len(m_offsets) >= 1 /\ sz \in Nat
    BY DEF Types, Offsets
  <1>6. m_offsets[Len(m_offsets)] = Len(m_data) /\ m_offsets[1] = 0 /\ m_offsets \in Seq(Nat)
    BY DEF Offsets
  <1>7. /\ m_offsets' \in Seq(Nat) /\ Len(m_offsets') = Len(m_offsets) + 1
        /\ m_offsets'[Len(m_offsets) + 1] = Len(m_data) + sz
        /\ m_offsets'[1] = m_offsets[1]
    BY <1>3, <1>5, <1>6
  <1>8. m_offsets' # <<>>
    BY <1>5, <1>7
  <1> QED BY <1>4, <1>5, <1>6, <1>7, <1>8 DEF Offsets

LEMMA InitInv == Init => Inv
  <1> SUFFICES ASSUME Init PROVE Inv
    OBVIOUS
  <1>1. bytes \in Seq(Char)
    <2>1. CASE column = Null /\ bytes \in Files
      BY <2>1, InputAssumption
    <2>2. CASE column \in Columns /\ bytes = ToBytes(column)
      BY <2>2, InputAssumption, LinesType
    <2> QED BY <2>1, <2>2 DEF Init
  <1>2. Len(bytes) \in Nat /\ Block \in Nat
    BY <1>1, BlockAssumption
  <1>3. Types
    BY <1>1 DEF Init, Types
  <1>4. InBlock /\ Room
    BY <1>2 DEF Init, InBlock, Room
  <1>5. m_offsets \in Seq(Nat) /\ Len(m_offsets) = 1 /\ m_offsets[1] = 0
    BY DEF Init
  <1>6. Offsets
    BY <1>5 DEF Init, Offsets
  <1> QED BY <1>3, <1>4, <1>6 DEF Inv

LEMMA NextInv == Inv /\ [Next]_vars => Inv'
  <1> SUFFICES ASSUME Inv, [Next]_vars PROVE Inv'
    OBVIOUS
  <1> USE DEF Inv
  <1>0. /\ Len(bytes) \in Nat /\ Block \in Nat \ {0} /\ Slack \in Nat
        /\ Len(token) \in Nat
    BY BlockAssumption DEF Types
  <1>1. CASE Start
    <2>1. Types'
      BY <1>1 DEF Start, Types
    <2>2. InBlock' /\ Room' /\ Offsets'
      BY <1>1, <1>0 DEF Start, Types, InBlock, Room, Offsets
    <2> QED BY <2>1, <2>2
  <1>2. CASE StartBlock
    <2> DEFINE n == Smaller(Len(bytes) - i - 1, Block)
    <2>1. n \in Nat /\ i + n < Len(bytes) /\ n <= Block
      BY <1>2, <1>0 DEF StartBlock, Smaller, Types
    <2>2. /\ dlt' = n /\ beg' = i /\ pc' = "char" /\ token' = Grown(n)
          /\ UNCHANGED <<bytes, i, sz, m_data, m_offsets>>
      BY <1>2 DEF StartBlock
    <2> HIDE DEF n
    <2>3. token' \in Seq(Char) /\ Len(token') >= sz + n + Slack
      BY <2>1, <2>2, GrownProperties DEF Types
    <2>4. Len(token') \in Nat
      BY <2>3
    <2>5. Types'
      BY <2>1, <2>2, <2>3 DEF Types
    <2>6. InBlock'
      BY <2>1, <2>2, <1>0 DEF Types, InBlock
    <2>7. Room'
      BY <2>1, <2>2, <2>3, <2>4, <1>0 DEF Types, Room
    <2>8. Offsets'
      BY <2>2 DEF Offsets
    <2> QED BY <2>5, <2>6, <2>7, <2>8
  <1>3. CASE TakeChar
    <2>0. /\ pc = "char" /\ i - beg < dlt /\ i < Len(bytes) /\ i + 1 < Len(bytes)
          /\ sz < Len(token)
          /\ UNCHANGED <<bytes, pc, beg, dlt>>
      BY <1>3, <1>0 DEF TakeChar, Types, InBlock, Room
    <2>1. CASE Byte(i) = kDelim
      <3>1. AppendToken /\ sz' = 0 /\ i' = i + 1 /\ token' = token
        BY <1>3, <2>1 DEF TakeChar
      <3>2. m_data' \in Seq(Char) /\ Offsets'
        BY <3>1, AppendTokenProperties
      <3>3. Types'
        BY <2>0, <3>1, <3>2 DEF Types
      <3>4. InBlock' /\ Room'
        BY <2>0, <3>1, <1>0 DEF Types, InBlock, Room
      <3> QED BY <3>2, <3>3, <3>4
    <2>2. CASE Byte(i) # kDelim
      <3> DEFINE ch == IF Byte(i) = kEscape THEN Byte(i + 1) ELSE Byte(i)
      <3>1. /\ token' = [token EXCEPT ![sz + 1] = ch] /\ sz' = sz + 1
            /\ i' \in {i + 1, i + 2} /\ UNCHANGED <<m_data, m_offsets>>
        BY <1>3, <2>2 DEF TakeChar
      <3>2. ch \in Char
        BY <2>0 DEF Byte, Types
      <3> HIDE DEF ch
      <3>3. token' \in Seq(Char) /\ Len(token') = Len(token)
        BY <3>1, <3>2, <2>0 DEF Types
      <3>4. Types'
        BY <2>0, <3>1, <3>3 DEF Types
      <3>5. InBlock' /\ Room'
        BY <2>0, <3>1, <3>3, <1>0, SMTT(30) DEF Types, InBlock, Room
      <3>6. Offsets'
        BY <3>1 DEF Offsets
      <3> QED BY <3>4, <3>5, <3>6
    <2> QED BY <2>1, <2>2
  <1>4. CASE EndBlock
    <2>1. Types'
      BY <1>4 DEF EndBlock, Types
    <2>2. InBlock' /\ Room' /\ Offsets'
      BY <1>4, <1>0 DEF EndBlock, Types, InBlock, Room, Offsets
    <2> QED BY <2>1, <2>2
  <1>5. CASE Finish
    <2>1. /\ pc' \in {"done", "threw"}
          /\ UNCHANGED <<bytes, i, beg, dlt, token, sz>>
          /\ AppendToken \/ UNCHANGED <<m_data, m_offsets>>
      BY <1>5 DEF Finish
    <2>2. m_data' \in Seq(Char) /\ Offsets'
      <3>1. CASE AppendToken
        BY <3>1, AppendTokenProperties
      <3>2. CASE UNCHANGED <<m_data, m_offsets>>
        BY <3>2 DEF Types, Offsets
      <3> QED BY <2>1, <3>1, <3>2
    <2>3. Types'
      BY <2>1, <2>2 DEF Types
    <2>4. InBlock' /\ Room'
      BY <2>1 DEF InBlock, Room
    <2> QED BY <2>2, <2>3, <2>4
  <1>6. CASE UNCHANGED vars
    BY <1>6 DEF vars, Types, InBlock, Room, Offsets
  <1> QED BY <1>1, <1>2, <1>3, <1>4, <1>5, <1>6 DEF Next

LEMMA Invariant == Spec => []Inv
  BY InitInv, NextInv, PTL DEF Spec

-----------------------------------------------------------------------------
(* What is refused.                                                        *)

\* The bytes are those of a column.
IsColumn == bytes = <<>> \/ (Last(bytes) = kDelim /\ ~EscapesIn(bytes)[Len(bytes) - 1])

\* The loop is never between a kEscape and the byte it escapes; when it has gone past
\* the last byte, that one was escaped.
Refusal ==
    /\ pc = "start" => i = 0
    /\ pc \in {"block", "char"} =>
          /\ bytes # <<>> /\ Last(bytes) = kDelim
          /\ i < Len(bytes) => ~EscapesIn(bytes)[i]
          /\ i = Len(bytes) => EscapesIn(bytes)[Len(bytes) - 1]
    /\ pc = "done"  => IsColumn
    /\ pc = "threw" => ~IsColumn

LEMMA InitRefusal == Init => Refusal
  BY DEF Init, Refusal

LEMMA NextRefusal == Inv /\ Refusal /\ [Next]_vars => Refusal'
  <1> SUFFICES ASSUME Inv, Refusal, [Next]_vars PROVE Refusal'
    OBVIOUS
  <1> DEFINE esc == EscapesIn(bytes)
             len == Len(bytes)
  <1>0. bytes \in Seq(Char) /\ len \in Nat /\ i \in Nat /\ i <= len
    BY DEF Inv, Types, InBlock
  <1>1. /\ esc \in [Nat -> BOOLEAN]
        /\ \A n \in Nat : esc[n] <=> n > 0 /\ bytes[n] = kEscape /\ ~esc[n - 1]
    BY EscapesDef
  <1>2. bytes' = bytes
    BY DEF Next, vars, Start, StartBlock, TakeChar, EndBlock, Finish
  <1>3. EscapesIn(bytes)' = esc /\ IsColumn' = IsColumn
    BY <1>2 DEF EscapesIn, IsColumn
  <1>4. IsColumn <=> bytes = <<>> \/ (Last(bytes) = kDelim /\ ~esc[len - 1])
    BY DEF IsColumn
  <1> HIDE DEF esc, len
  <1>5. CASE Start
    <2>1. CASE bytes = <<>>
      BY <1>2, <1>3, <1>4, <1>5, <2>1 DEF Start, Refusal
    <2>2. CASE bytes # <<>> /\ Last(bytes) = kDelim
      <3>1. pc' = "block" /\ i' = 0
        BY <1>5, <2>2 DEF Start, Refusal
      <3>2. len > 0
        BY <1>0, <2>2 DEF len
      <3>3. ~esc[0]
        BY <1>1
      <3>4. Len(bytes') = len /\ EscapesIn(bytes') = esc
        BY <1>2, <1>3 DEF len
      <3> QED BY <1>2, <2>2, <3>1, <3>2, <3>3, <3>4 DEF Refusal
    <2>3. CASE bytes # <<>> /\ Last(bytes) # kDelim
      BY <1>2, <1>3, <1>4, <1>5, <2>3 DEF Start, Refusal
    <2> QED BY <2>1, <2>2, <2>3
  <1>6. CASE StartBlock \/ EndBlock
    <2>1. pc \in {"block", "char"} /\ pc' \in {"block", "char"} /\ i' = i
      BY <1>6 DEF StartBlock, EndBlock
    <2>2. Len(bytes') = Len(bytes) /\ EscapesIn(bytes') = EscapesIn(bytes) /\ Last(bytes') = Last(bytes)
      BY <1>2
    <2> QED BY <1>2, <2>1, <2>2 DEF Refusal
  <1>7. CASE TakeChar
    <2>0. /\ pc = "char" /\ pc' = "char" /\ i + 1 < len
      BY <1>0, <1>7 DEF TakeChar, Inv, Types, InBlock, len
    <2>1. ~esc[i] /\ bytes # <<>> /\ Last(bytes) = kDelim
      BY <1>0, <2>0 DEF Refusal, esc, len
    <2>2. CASE bytes[i + 1] # kEscape
      <3>1. i' = i + 1
        BY <1>7, <2>2 DEF TakeChar, Byte
      <3>2. ~esc[i + 1]
        <4>1. i + 1 \in Nat
          BY <1>0
        <4> QED BY <1>1, <2>2, <4>1
      <3>3. ~(i' = len)
        BY <1>0, <2>0, <3>1
      <3> QED BY <1>2, <1>3, <2>0, <2>1, <3>1, <3>2, <3>3 DEF Refusal, esc, len
    <2>3. CASE bytes[i + 1] = kEscape
      <3>1. i' = i + 2
        BY <1>7, <2>3, Chars DEF TakeChar, Byte
      <3>2. esc[i + 1]
        <4>1. i + 1 \in Nat /\ i + 1 > 0 /\ (i + 1) - 1 = i
          BY <1>0
        <4> QED BY <1>1, <2>1, <2>3, <4>1
      <3>3. ~esc[i + 2]
        <4>1. i + 2 \in Nat /\ (i + 2) - 1 = i + 1
          BY <1>0
        <4> QED BY <1>1, <3>2, <4>1
      <3>4. i' = len => esc[len - 1]
        <4>1. i + 2 = len => len - 1 = i + 1
          BY <1>0
        <4> QED BY <3>1, <3>2, <4>1
      <3> QED BY <1>2, <1>3, <2>0, <2>1, <3>1, <3>3, <3>4 DEF Refusal, esc, len
    <2> QED BY <2>2, <2>3
  <1>8. CASE Finish
    <2>1. /\ pc = "block" /\ i + 1 >= len /\ bytes # <<>> /\ Last(bytes) = kDelim
          /\ pc' = IF i + 1 = len THEN "done" ELSE "threw"
      BY <1>8 DEF Finish, Refusal, len
    <2>2. CASE i + 1 = len
      <3>1. ~esc[i] /\ i = len - 1
        BY <1>0, <2>1, <2>2 DEF Refusal, esc, len
      <3> QED BY <1>3, <1>4, <2>1, <2>2, <3>1 DEF Refusal
    <2>3. CASE i + 1 # len
      <3>1. i = len
        BY <1>0, <2>1, <2>3
      <3>2. esc[len - 1]
        BY <2>1, <3>1 DEF Refusal, esc, len
      <3> QED BY <1>3, <1>4, <2>1, <2>3, <3>2 DEF Refusal
    <2> QED BY <2>2, <2>3
  <1>9. CASE UNCHANGED vars
    BY <1>3, <1>9 DEF vars, Refusal
  <1> QED BY <1>5, <1>6, <1>7, <1>8, <1>9 DEF Next

-----------------------------------------------------------------------------
(* What is read of a column that was written.                              *)

\* The first k rows of the column are what the offsets find in the characters.
RowsRead(col, offsets, data, k) ==
    \A q \in 1..k :
        /\ offsets[q + 1] = offsets[q] + Len(col[q])
        /\ offsets[q + 1] <= Len(data)
        /\ \A j \in 1..Len(col[q]) : data[offsets[q] + j] = col[q][j]

\* The loop is at the character of a row whose predecessors are in token, or at the
\* row's end, and the rows before are read.
Reading ==
    LET r == Len(m_offsets)
    IN  /\ r \in 1..Len(column)
        /\ sz \in 0..Len(column[r])
        /\ i = Pos(column, r, sz)
        /\ \A n \in 1..sz : token[n] = column[r][n]

Written ==
    column # Null =>
        /\ column \in Columns /\ bytes = ToBytes(column)
        /\ RowsRead(column, m_offsets, m_data, Len(m_offsets) - 1)
        /\ pc = "start" => i = 0 /\ sz = 0 /\ Len(m_offsets) = 1
        /\ pc \in {"block", "char"} => Reading
        /\ pc = "done" => Len(m_offsets) = Len(column) + 1
        /\ pc # "threw"

\* The row in token joins those that are read.
LEMMA RowJoins ==
    ASSUME Types, Room, Offsets, AppendToken,
           column \in Seq(Seq(Char)),
           RowsRead(column, m_offsets, m_data, Len(m_offsets) - 1),
           Len(m_offsets) \in 1..Len(column), sz = Len(column[Len(m_offsets)]),
           \A n \in 1..sz : token[n] = column[Len(m_offsets)][n]
    PROVE  /\ Len(m_offsets') = Len(m_offsets) + 1
           /\ RowsRead(column, m_offsets', m_data', Len(m_offsets))
  <1> DEFINE row == SubSeq(token, 1, sz)
             r   == Len(m_offsets)
             end == Len(m_data)
  <1>1. row \in Seq(Char) /\ Len(row) = sz /\ \A n \in 1..sz : row[n] = token[n]
    BY DEF Types, Room
  <1>2. m_data' = m_data \o row
    BY DEF AppendToken
  <1>3. m_offsets' = Append(m_offsets, m_offsets[r] + sz)
    BY DEF AppendToken, Last
  <1>4. m_offsets \in Seq(Nat) /\ m_offsets[r] = end /\ r \in Nat \ {0} /\ end \in Nat /\ sz \in Nat
    BY DEF Offsets, Types
  <1> HIDE DEF row
  <1>5. /\ Len(m_data') = end + sz
        /\ \A j \in 1..end : m_data'[j] = m_data[j]
        /\ \A j \in 1..sz : m_data'[end + j] = row[j]
    <2>1. m_data \in Seq(Char)
      BY DEF Types
    <2> QED BY <1>1, <1>2, <2>1, Joined
  <1>6. /\ Len(m_offsets') = r + 1
        /\ \A q \in 1..r : m_offsets'[q] = m_offsets[q]
        /\ m_offsets'[r + 1] = end + sz
    BY <1>3, <1>4
  <1> HIDE DEF r, end
  <1>7. ASSUME NEW q \in 1..r
        PROVE  /\ m_offsets'[q + 1] = m_offsets'[q] + Len(column[q])
               /\ m_offsets'[q + 1] <= Len(m_data')
               /\ \A j \in 1..Len(column[q]) : m_data'[m_offsets'[q] + j] = column[q][j]
    <2>1. CASE q = r
      <3>1. m_offsets'[q] = end /\ m_offsets'[q + 1] = end + sz /\ sz = Len(column[q])
        BY <1>4, <1>6, <2>1 DEF r
      <3>2. \A j \in 1..sz : m_data'[end + j] = column[q][j]
        BY <1>1, <1>5, <2>1 DEF r
      <3>3. end + sz <= Len(m_data')
        BY <1>4, <1>5
      <3> QED BY <3>1, <3>2, <3>3
    <2>2. CASE q # r
      <3>1. q \in 1..(r - 1) /\ q + 1 \in 1..r /\ q \in Nat
        BY <1>4, <2>2
      <3>2. m_offsets'[q] = m_offsets[q] /\ m_offsets'[q + 1] = m_offsets[q + 1]
        BY <1>6, <3>1
      <3>3. /\ m_offsets[q + 1] = m_offsets[q] + Len(column[q])
            /\ m_offsets[q + 1] <= end
            /\ \A j \in 1..Len(column[q]) : m_data[m_offsets[q] + j] = column[q][j]
        BY <3>1 DEF RowsRead, r, end
      <3>4. m_offsets[q] \in Nat /\ m_offsets[q + 1] \in Nat /\ Len(column[q]) \in Nat
        <4>1. q \in 1..Len(column) /\ column[q] \in Seq(Char)
          BY <3>1 DEF r
        <4>2. q \in 1..Len(m_offsets) /\ q + 1 \in 1..Len(m_offsets)
          BY <1>4, <3>1 DEF r
        <4>3. m_offsets[q] \in Nat /\ m_offsets[q + 1] \in Nat
          BY <1>4, <4>2, ElementOfSeq
        <4> QED BY <4>1, <4>3
      <3>5. m_offsets[q + 1] <= Len(m_data')
        <4> DEFINE p == m_offsets[q + 1]
                   e == Len(m_data')
        <4>1. p \in Nat /\ p <= end /\ e = end + sz
          BY <1>5, <3>3, <3>4
        <4> HIDE DEF p, e
        <4>2. p <= e
          BY <1>4, <4>1
        <4> QED BY <4>2 DEF p, e
      <3>6. ASSUME NEW j \in 1..Len(column[q]) PROVE m_data'[m_offsets[q] + j] = column[q][j]
        <4> DEFINE o == m_offsets[q]
                   p == m_offsets[q + 1]
                   l == Len(column[q])
        <4>0. o \in Nat /\ p \in Nat /\ l \in Nat /\ p = o + l /\ p <= end /\ j \in 1..l
          BY <3>3, <3>4
        <4> HIDE DEF o, p, l
        <4>1. o + j \in 1..end
          BY <1>4, <4>0
        <4> USE DEF o
        <4> QED BY <1>5, <3>3, <4>1
      <3> QED BY <3>2, <3>3, <3>5, <3>6
    <2> QED BY <2>1, <2>2
  <1> QED BY <1>6, <1>7 DEF r, RowsRead

LEMMA InitWritten == Init => Written
  <1> SUFFICES ASSUME Init, column # Null PROVE Written
    BY DEF Written
  <1>1. Len(m_offsets) = 1 /\ column \in Columns /\ bytes = ToBytes(column)
    BY DEF Init
  <1>2. RowsRead(column, m_offsets, m_data, Len(m_offsets) - 1)
    BY <1>1 DEF RowsRead
  <1> QED BY <1>1, <1>2 DEF Init, Written

LEMMA NextWritten == Inv /\ Written /\ [Next]_vars => Written'
  <1> SUFFICES ASSUME Inv, Written, [Next]_vars, column' # Null PROVE Written'
    BY DEF Written
  <1> DEFINE r   == Len(m_offsets)
             row == column[r]
             len == Len(bytes)
             at(q, n) == Pos(column, q, n)
  <1>0. column' = column /\ bytes' = bytes
    BY DEF Next, vars, Start, StartBlock, TakeChar, EndBlock, Finish
  <1>1. /\ column \in Columns /\ bytes = ToBytes(column)
        /\ RowsRead(column, m_offsets, m_data, r - 1)
        /\ pc = "start" => i = 0 /\ sz = 0 /\ r = 1
        /\ pc \in {"block", "char"} => Reading
        /\ pc = "done" => r = Len(column) + 1
        /\ pc # "threw"
    BY <1>0 DEF Written
  <1>2. column \in Seq(Seq(Char)) /\ Len(column) \in Nat /\ \A q \in 1..Len(column) : column[q] \in Seq(Char)
    BY <1>1, InputAssumption
  <1>3. /\ bytes \in Seq(Char) /\ len \in Nat /\ i \in Nat /\ sz \in Nat /\ i <= len
        /\ token \in Seq(Char) /\ sz <= Len(token) /\ r \in Nat /\ Types /\ Room /\ Offsets
    BY DEF Inv, Types, InBlock, Room, Offsets
  \* ColumnBytes at the place the loop has come to.
  <1>4. ASSUME NEW q \in 1..Len(column), NEW n \in 0..Len(column[q])
        PROVE  /\ at(q, n) \in Nat
               /\ at(q, n) < len
               /\ n < Len(column[q]) =>
                     IF column[q][n + 1] \in {kDelim, kEscape}
                     THEN /\ bytes[at(q, n) + 1] = kEscape
                          /\ bytes[at(q, n) + 2] = column[q][n + 1]
                          /\ at(q, n + 1) = at(q, n) + 2
                     ELSE /\ bytes[at(q, n) + 1] = column[q][n + 1]
                          /\ at(q, n + 1) = at(q, n) + 1
               /\ n = Len(column[q]) =>
                     /\ bytes[at(q, n) + 1] = kDelim
                     /\ IF q < Len(column) THEN at(q + 1, 0) = at(q, n) + 1
                                           ELSE len = at(q, n) + 1
    <2> HIDE DEF at, len
    <2> DEFINE b == ToBytes(column)
    <2>1. /\ at(q, n) \in Nat
          /\ at(q, n) < Len(b)
          /\ n < Len(column[q]) =>
                IF column[q][n + 1] \in {kDelim, kEscape}
                THEN /\ b[at(q, n) + 1] = kEscape
                     /\ b[at(q, n) + 2] = column[q][n + 1]
                     /\ at(q, n + 1) = at(q, n) + 2
                ELSE /\ b[at(q, n) + 1] = column[q][n + 1]
                     /\ at(q, n + 1) = at(q, n) + 1
          /\ n = Len(column[q]) =>
                /\ b[at(q, n) + 1] = kDelim
                /\ IF q < Len(column) THEN at(q + 1, 0) = at(q, n) + 1
                                      ELSE Len(b) = at(q, n) + 1
      BY <1>2, ColumnBytes DEF at
    <2>2. b = bytes /\ Len(b) = len
      BY <1>1 DEF len
    <2> HIDE DEF b
    <2> QED BY <2>1, <2>2
  \* The rest of the invariant, where the rows read stay as they are.
  <1>5. ASSUME UNCHANGED <<m_data, m_offsets>>, pc' # "threw", pc' # "start",
               pc' \in {"block", "char"} => Reading', pc' = "done" => r = Len(column) + 1
        PROVE  Written'
    BY <1>0, <1>1, <1>5 DEF Written
  <1> HIDE DEF at, len
  <1>6. CASE Start
    <2>0. i = 0 /\ sz = 0 /\ r = 1 /\ UNCHANGED <<i, sz, token, m_data, m_offsets>>
      BY <1>1, <1>6 DEF Start
    <2>1. CASE Len(column) = 0
      <3>1. bytes = <<>>
        <4>0. Lines(column) \in Seq(Seq(Char)) /\ Len(Lines(column)) = 0
          BY <1>2, <2>1, LinesType
        <4>1. Lines(column) = <<>>
          BY <4>0, EmptySeq
        <4>2. ToBytes(column) = FlattenSeq(Lines(column))
          BY DEF ToBytes, Lines, Codes
        <4>3. FlattenSeq(<<>>) = <<>>
          BY DEF FlattenSeq
        <4> QED BY <1>1, <4>1, <4>2, <4>3
      <3>2. pc' = "done"
        BY <1>6, <3>1 DEF Start
      <3> QED BY <1>5, <2>0, <2>1, <3>2
    <2>2. CASE Len(column) # 0
      <3>1. 1 \in 1..Len(column) /\ Len(column) \in 1..Len(column)
        BY <1>2, <2>2
      <3>2. at(1, 0) = 0
        <4>1. Flat(Lines(column))[0] = <<>>
          BY <1>2, LinesType, FlatDef
        <4>2. Off(column[1], 0) = 0
          BY <1>2, <3>1, RowBytes
        <4>3. Len(Flat(Lines(column))[1 - 1]) = 0
          BY <4>1
        <4> QED BY <4>2, <4>3 DEF at, Pos
      <3>3. bytes # <<>> /\ Last(bytes) = kDelim
        <4> DEFINE q == Len(column)
                   n == Len(column[q])
        <4>1. n \in 0..n /\ n \in Nat
          BY <1>2, <3>1
        <4>2. at(q, n) \in Nat /\ len = at(q, n) + 1 /\ bytes[at(q, n) + 1] = kDelim
          <5>1. q \in 1..q /\ ~(q < q)
            BY <3>1
          <5> HIDE DEF q, n
          <5> QED BY <1>4, <3>1, <4>1, <5>1 DEF q, n
        <4> QED BY <1>3, <4>2 DEF Last, len
      <3>4. pc' = "block"
        BY <1>6, <3>3 DEF Start
      <3>5. Reading'
        <4>1. Len(column[1]) \in Nat
          BY <1>2, <3>1
        <4>2. Len(m_offsets') = 1 /\ sz' = 0 /\ i' = 0 /\ token' = token
          BY <2>0
        <4>3. 0 \in 0..Len(column[1]) /\ 0 = Pos(column, 1, 0) /\ \A n \in 1..0 : token[n] = column[1][n]
          BY <3>2, <4>1 DEF at
        <4> QED BY <1>0, <3>1, <4>2, <4>3 DEF Reading
      <3> QED BY <1>5, <2>0, <3>4, <3>5
    <2> QED BY <2>1, <2>2
  <1>7. CASE StartBlock
    <2> DEFINE d == Smaller(len - i - 1, Block)
    <2>0. /\ pc = "block" /\ pc' = "char" /\ UNCHANGED <<i, sz, m_data, m_offsets>>
          /\ i + 1 < len /\ token' = Grown(d)
      BY <1>7 DEF StartBlock, len
    <2>1. d \in Nat
      BY <1>3, <2>0, BlockAssumption DEF Smaller
    <2> HIDE DEF d
    <2>2. \A n \in 1..sz : token'[n] = token[n]
      <3>1. \A n \in 1..Len(token) : Grown(d)[n] = token[n]
        BY <1>3, <2>1, GrownProperties
      <3> QED BY <1>3, <2>0, <3>1
    <2>3. Reading
      BY <1>1, <2>0
    <2>4. Reading'
      BY <1>0, <2>0, <2>2, <2>3 DEF Reading
    <2> QED BY <1>5, <2>0, <2>4
  <1>8. CASE TakeChar
    <2>0. /\ pc = "char" /\ pc' = "char" /\ i + 1 < len
          /\ sz < Len(token) /\ Len(token) \in Nat
      BY <1>3, <1>8 DEF TakeChar, Inv, Types, InBlock, Room, len
    <2>1. /\ r \in 1..Len(column) /\ sz \in 0..Len(row) /\ i = at(r, sz)
          /\ \A n \in 1..sz : token[n] = row[n]
          /\ Len(row) \in Nat
      BY <1>1, <1>2, <2>0 DEF Reading, at
    <2>2. CASE sz = Len(row)
      <3>1. bytes[i + 1] = kDelim /\ (IF r < Len(column) THEN at(r + 1, 0) = i + 1 ELSE len = i + 1)
        BY <1>4, <2>1, <2>2
      <3>2. r < Len(column) /\ at(r + 1, 0) = i + 1
        BY <1>3, <2>0, <3>1
      <3>3. AppendToken /\ sz' = 0 /\ i' = i + 1
        BY <1>8, <3>1 DEF TakeChar, Byte
      <3>4. Len(m_offsets') = r + 1 /\ RowsRead(column, m_offsets', m_data', r)
        BY <1>1, <1>2, <1>3, <2>1, <2>2, <3>3, RowJoins
      <3>5. Reading'
        <4>1. r + 1 \in 1..Len(column) /\ column[r + 1] \in Seq(Char)
          BY <1>2, <1>3, <3>2
        <4>2. 0 \in 0..Len(column[r + 1])
          BY <4>1
        <4> QED BY <1>0, <3>2, <3>3, <3>4, <4>1, <4>2 DEF Reading, at
      <3>6. Len(m_offsets') - 1 = r
        BY <1>3, <3>4
      <3> QED BY <1>0, <1>1, <2>0, <3>4, <3>5, <3>6 DEF Written
    <2>3. CASE sz # Len(row)
      <3> DEFINE c == row[sz + 1]
      <3>0. sz < Len(row) /\ sz + 1 \in 1..Len(row) /\ sz + 1 \in 0..Len(row)
        BY <1>3, <2>1, <2>3
      <3>1. IF c \in {kDelim, kEscape}
            THEN bytes[i + 1] = kEscape /\ bytes[i + 2] = c /\ at(r, sz + 1) = i + 2
            ELSE bytes[i + 1] = c /\ at(r, sz + 1) = i + 1
        BY <1>4, <2>1, <3>0
      <3>2. Byte(i) = bytes[i + 1] /\ Byte(i + 1) = bytes[i + 2]
        <4>1. (i + 1) + 1 = i + 2
          BY <1>3
        <4> QED BY <4>1 DEF Byte
      <3> HIDE DEF c
      <3>3. /\ sz' = sz + 1 /\ i' = at(r, sz + 1) /\ token' = [token EXCEPT ![sz + 1] = c]
            /\ UNCHANGED <<m_data, m_offsets>>
        <4>1. CASE c \in {kDelim, kEscape}
          BY <1>8, <3>1, <3>2, <4>1, Chars DEF TakeChar
        <4>2. CASE c \notin {kDelim, kEscape}
          BY <1>8, <3>1, <3>2, <4>2 DEF TakeChar
        <4> QED BY <4>1, <4>2
      <3>4. \A n \in 1..sz' : token'[n] = row[n]
        <4> SUFFICES ASSUME NEW n \in 1..(sz + 1) PROVE token'[n] = row[n]
          BY <3>3
        <4>1. n \in DOMAIN token
          BY <1>3, <2>0
        <4>2. CASE n = sz + 1
          BY <3>3, <4>1, <4>2 DEF c
        <4>3. CASE n # sz + 1
          <5>1. n \in 1..sz
            BY <1>3, <4>3
          <5> QED BY <2>1, <3>3, <4>1, <4>3, <5>1
        <4> QED BY <4>2, <4>3
      <3>5. Reading'
        BY <1>0, <2>1, <3>0, <3>3, <3>4 DEF Reading, at
      <3> QED BY <1>5, <2>0, <3>3, <3>5
    <2> QED BY <2>2, <2>3
  <1>9. CASE EndBlock
    <2>1. pc = "char" /\ pc' = "block" /\ UNCHANGED <<i, sz, token, m_data, m_offsets>>
      BY <1>9 DEF EndBlock
    <2>2. Reading'
      BY <1>0, <1>1, <2>1 DEF Reading
    <2> QED BY <1>5, <2>1, <2>2
  <1>10. CASE Finish
    <2>0. pc = "block" /\ i + 1 >= len
      BY <1>10 DEF Finish, len
    <2>1. /\ r \in 1..Len(column) /\ sz \in 0..Len(row) /\ i = at(r, sz)
          /\ \A n \in 1..sz : token[n] = row[n]
          /\ Len(row) \in Nat
      BY <1>1, <1>2, <2>0 DEF Reading, at
    <2>2. i < len /\ i + 1 = len
      <3>1. i < len
        BY <1>4, <2>1
      <3> QED BY <1>3, <2>0, <3>1
    <2>3. sz = Len(row)
      <3> SUFFICES ASSUME sz # Len(row) PROVE FALSE
        OBVIOUS
      <3>1. sz < Len(row) /\ sz + 1 \in 0..Len(row)
        BY <1>3, <2>1
      <3>2. at(r, sz + 1) \in {i + 1, i + 2}
        BY <1>4, <2>1, <3>1
      <3>3. at(r, sz + 1) < len
        BY <1>4, <2>1, <3>1
      <3> QED BY <1>3, <2>2, <3>2, <3>3
    <2>4. r = Len(column)
      <3> SUFFICES ASSUME r # Len(column) PROVE FALSE
        OBVIOUS
      <3>1. r < Len(column) /\ r + 1 \in 1..Len(column)
        BY <1>2, <1>3, <2>1
      <3>2. at(r + 1, 0) = i + 1
        BY <1>4, <2>1, <2>3, <3>1
      <3>3. at(r + 1, 0) < len
        <4>1. column[r + 1] \in Seq(Char)
          BY <1>2, <3>1
        <4>2. 0 \in 0..Len(column[r + 1])
          BY <4>1
        <4> QED BY <1>4, <3>1, <4>2
      <3> QED BY <1>3, <2>2, <3>2, <3>3
    <2>5. AppendToken /\ pc' = "done"
      BY <1>10, <2>2 DEF Finish, len
    <2>6. Len(m_offsets') = r + 1 /\ RowsRead(column, m_offsets', m_data', r)
      BY <1>1, <1>2, <1>3, <2>1, <2>3, <2>5, RowJoins
    <2>7. Len(m_offsets') - 1 = r
      BY <1>3, <2>6
    <2> QED BY <1>0, <1>1, <2>4, <2>5, <2>6, <2>7 DEF Written
  <1>11. CASE UNCHANGED vars
    BY <1>0, <1>11 DEF vars, Written, Reading
  <1> QED BY <1>6, <1>7, <1>8, <1>9, <1>10, <1>11 DEF Next

\* What the rows are when the offsets find all rows of the column.
LEMMA RowsAreColumn ==
    ASSUME Types, Offsets, column \in Seq(Seq(Char)),
           Len(m_offsets) = Len(column) + 1,
           RowsRead(column, m_offsets, m_data, Len(column))
    PROVE  Rows = column
  <1>1. Len(column) \in Nat /\ column = [q \in 1..Len(column) |-> column[q]]
    OBVIOUS
  <1>2. ASSUME NEW q \in 1..Len(column)
        PROVE  SubSeq(m_data, m_offsets[q] + 1, m_offsets[q + 1]) = column[q]
    <2> DEFINE from == m_offsets[q]
               size == Len(column[q])
               till == m_offsets[q + 1]
               got  == SubSeq(m_data, from + 1, till)
    <2>1. column[q] \in Seq(Char) /\ size \in Nat
      OBVIOUS
    <2>2. from \in Nat /\ till \in Nat
      <3>1. q \in 1..Len(m_offsets) /\ q + 1 \in 1..Len(m_offsets) /\ m_offsets \in Seq(Nat)
        BY <1>1 DEF Offsets
      <3> QED BY <3>1, ElementOfSeq
    <2>3. till = from + size /\ till <= Len(m_data) /\ \A j \in 1..size : m_data[from + j] = column[q][j]
      BY DEF RowsRead
    <2>4. m_data \in Seq(Char) /\ Len(m_data) \in Nat
      BY DEF Types
    <2> HIDE DEF from, size, till
    <2>5. got \in Seq(Char) /\ Len(got) = size /\ \A j \in 1..size : got[j] = m_data[from + j]
      <3>1. \A j \in (from + 1)..till : m_data[j] \in Char
        BY <2>2, <2>3, <2>4
      <3>2. from + 1 \in Int /\ till \in Int
        BY <2>2
      <3>3. /\ got \in Seq(Char)
            /\ Len(got) = IF from + 1 <= till THEN till - (from + 1) + 1 ELSE 0
            /\ \A j \in 1..(till - (from + 1) + 1) : got[j] = m_data[(from + 1) + j - 1]
        BY <3>1, <3>2, SubSeqProperties, SMTT(30)
      <3> HIDE DEF got
      <3>4. till - (from + 1) + 1 = size /\ (~(from + 1 <= till) => size = 0)
        BY <2>1, <2>2, <2>3
      <3>5. Len(got) = size
        BY <3>3, <3>4
      <3>6. \A j \in 1..size : (from + 1) + j - 1 = from + j
        BY <2>1, <2>2
      <3>7. \A j \in 1..size : got[j] = m_data[(from + 1) + j - 1]
        BY <3>3, <3>4
      <3> QED BY <3>3, <3>5, <3>6, <3>7
    <2> HIDE DEF got
    <2>6. got = column[q]
      BY <2>1, <2>3, <2>5, SeqEqual DEF size
    <2> QED BY <2>6 DEF got, from, till
  <1>3. Rows = [q \in 1..Len(column) |-> column[q]]
    <2>1. Len(m_offsets) - 1 = Len(column)
      BY <1>1
    <2> QED BY <1>2, <2>1 DEF Rows
  <1> QED BY <1>1, <1>3

-----------------------------------------------------------------------------
(* The theorems.                                                           *)

\* FromBytes keeps its counters within the bytes and the blocks, and the offsets of
\* the column it builds in step with its characters.
THEOREM TypeCorrect == Spec => []TypeOK
  <1>1. Inv => TypeOK
    <2> SUFFICES ASSUME Inv PROVE TypeOK
      OBVIOUS
    <2>1. Block \in Nat
      BY BlockAssumption
    <2>2. i \in Nat /\ beg \in 0..i /\ dlt \in 0..Block /\ i - beg <= dlt + 1
      BY <2>1 DEF Inv, Types, InBlock
    <2>3. Last(m_offsets) = Len(m_data)
      BY DEF Inv, Offsets, Last
    <2> QED BY <2>2, <2>3 DEF Inv, Types, Offsets, TypeOK
  <1> QED BY <1>1, Invariant, PTL

\* The decoder (convert.hpp:310-337) never writes behind the end of token, although
\* it looks at its size once in a block, and never reads behind the end of its input,
\* although it reads the byte behind a kEscape without looking.
THEOREM DecoderInBounds == Spec => []StaysInBounds
  <1>1. Inv => StaysInBounds
    <2> SUFFICES ASSUME Inv PROVE StaysInBounds
      OBVIOUS
    <2>1. Len(bytes) \in Nat /\ Len(token) \in Nat
      BY DEF Inv, Types
    <2> QED BY <2>1 DEF Inv, Types, InBlock, Room, StaysInBounds
  <1> QED BY <1>1, Invariant, PTL

\* What FromBytes accepts (convert.hpp:318-340) is what ToBytes makes: nothing, or bytes
\* whose last one is a kDelim that nothing escapes; it throws for everything else.
THEOREM RefusesJustTheOthers == Spec => []RefusesExactly
  <1>1. Refusal => RefusesExactly
    <2>1. EscapesIn(bytes) = Escapes
      BY DEF EscapesIn, Escapes
    <2> QED BY <2>1 DEF Refusal, IsColumn, RefusesExactly
  <1> QED BY <1>1, Invariant, InitRefusal, NextRefusal, PTL DEF Spec

\* Every column that ToBytes has written is read back by FromBytes, row by row
\* (convert.hpp:283-345), whatever its strings contain and however long a block is.
THEOREM WrittenIsRead == Spec => []RoundTrip
  <1>1. Inv /\ Written => RoundTrip
    <2> SUFFICES ASSUME Inv, Written, column # Null
                 PROVE  pc # "threw" /\ (pc = "done" => Rows = column)
      BY DEF RoundTrip
    <2>1. pc # "threw" /\ column \in Seq(Seq(Char))
      BY InputAssumption DEF Written
    <2>2. ASSUME pc = "done" PROVE Rows = column
      <3>1. Len(m_offsets) = Len(column) + 1 /\ RowsRead(column, m_offsets, m_data, Len(m_offsets) - 1)
        BY <2>2 DEF Written
      <3>2. Len(m_offsets) - 1 = Len(column)
        BY <2>1, <3>1
      <3> QED BY <2>1, <3>1, <3>2, RowsAreColumn DEF Inv
    <2> QED BY <2>1, <2>2
  <1> QED BY <1>1, Invariant, InitWritten, NextWritten, PTL DEF Spec
=============================================================================
