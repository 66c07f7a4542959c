----------------------------- MODULE QueryProofs -----------------------------
(***************************************************************************)
(* Proofs about Query, for any queries, plans, rows and batches: what the  *)
(* caller of a chain is given when it is told the end, and what the        *)
(* skipper below it has read.                                              *)
(*                                                                         *)
(* Rows are sequences whose elements have no set in common, so everything  *)
(* is said of what is Listed: a finite sequence, whatever it holds.        *)
(* ChainInv has the rows that each stream was given and returned so far as *)
(* sequences A and E that exist; they are nobody's variables. SkipInv says *)
(* what a skipper knows of a view between two selectors.                   *)
(***************************************************************************)
EXTENDS Query, SequenceTheorems, WellFoundedInduction, TLAPS

-----------------------------------------------------------------------------
(* Sequences, of whatever kind.                                            *)

\* s is a finite sequence.
Listed(s) == Len(s) \in Nat /\ s = [j \in 1..Len(s) |-> s[j]]

\* a is a sequence of them: batches of rows, or the pointers that a stream has given.
Tables(a) == Listed(a) /\ \A n \in 1..Len(a) : Listed(a[n])

\* Every nonempty set of natural numbers has a least element.
LEMMA LeastNat ==
    ASSUME NEW T, T \subseteq Nat, T # {}
    PROVE  \E x \in T : \A y \in T : x <= y
  <1>1. PICK x \in T : \A y \in T : ~(<<y, x>> \in OpToRel(<, Nat))
    BY NatLessThanWellFounded, WFMin, Zenon
  <1>2. ASSUME NEW y \in T PROVE x <= y
    <2>1. ~(y < x)
      BY <1>1 DEF OpToRel
    <2> QED BY <2>1
  <1> QED BY <1>2

\* A sequence of elements of T is one of Seq(T).
LEMMA ListedIn ==
    ASSUME NEW s, Listed(s), NEW T, \A j \in 1..Len(s) : s[j] \in T
    PROVE  s \in Seq(T)
  <1>1. s \in [1..Len(s) -> T] /\ Len(s) \in Nat
    BY DEF Listed
  <1> QED BY <1>1, SeqDef

\* The places of a sequence are counted from 1.
LEMMA ListedDomain ==
    ASSUME NEW s, Listed(s)
    PROVE  Len(s) \in Nat /\ DOMAIN s = 1..Len(s) /\ s \in Seq(ToSet(s))
  <1>1. DOMAIN s = 1..Len(s) /\ Len(s) \in Nat
    BY DEF Listed
  <1>2. \A j \in 1..Len(s) : s[j] \in ToSet(s)
    BY <1>1 DEF ToSet
  <1> QED BY <1>1, <1>2, ListedIn

\* What Seq has are sequences.
LEMMA SeqIsListed ==
    ASSUME NEW T, NEW s \in Seq(T)
    PROVE  Listed(s)
  BY DEF Listed

\* What is given element by element.
LEMMA FunctionIsListed ==
    ASSUME NEW n \in Nat, NEW s, s = [j \in 1..n |-> s[j]]
    PROVE  Listed(s) /\ Len(s) = n
  <1> DEFINE T == {s[j] : j \in 1..n}
  <1>1. s \in [1..n -> T]
    OBVIOUS
  <1>2. s \in Seq(T) /\ Len(s) = n
    <2> HIDE DEF T
    <2> QED BY <1>1
  <1> QED BY <1>2, SeqIsListed

\* Sequences are equal when they are as long and agree at every place.
LEMMA ListedEqual ==
    ASSUME NEW s, NEW t, Listed(s), Listed(t), Len(s) = Len(t), \A j \in 1..Len(s) : s[j] = t[j]
    PROVE  s = t
  BY DEF Listed

\* One sequence behind another.
LEMMA ListedJoin ==
    ASSUME NEW s, NEW t, Listed(s), Listed(t)
    PROVE  /\ Listed(s \o t)
           /\ Len(s \o t) = Len(s) + Len(t)
           /\ Len(s) \in Nat /\ Len(t) \in Nat
           /\ \A j \in 1..Len(s) : (s \o t)[j] = s[j]
           /\ \A j \in 1..Len(t) : (s \o t)[Len(s) + j] = t[j]
  <1> DEFINE T == ToSet(s) \cup ToSet(t)
  <1>1. s \in Seq(T) /\ t \in Seq(T)
    <2>1. s \in Seq(ToSet(s)) /\ t \in Seq(ToSet(t))
      BY ListedDomain
    <2>2. ToSet(s) \subseteq T /\ ToSet(t) \subseteq T
      OBVIOUS
    <2> HIDE DEF T
    <2> QED BY <2>1, <2>2, SeqMonotonic
  <1> HIDE DEF T
  <1>2. s \o t \in Seq(T) /\ Len(s \o t) = Len(s) + Len(t) /\ Len(s) \in Nat /\ Len(t) \in Nat
    BY <1>1
  <1>3. \A i \in 1..(Len(s) + Len(t)) : (s \o t)[i] = IF i <= Len(s) THEN s[i] ELSE t[i - Len(s)]
    BY <1>1, ConcatProperties
  <1>4. ASSUME NEW j \in 1..Len(s) PROVE (s \o t)[j] = s[j]
    BY <1>2, <1>3
  <1>5. ASSUME NEW j \in 1..Len(t) PROVE (s \o t)[Len(s) + j] = t[j]
    <2>1. Len(s) + j \in 1..(Len(s) + Len(t)) /\ ~(Len(s) + j <= Len(s)) /\ Len(s) + j - Len(s) = j
      BY <1>2
    <2> QED BY <1>3, <2>1
  <1> QED BY <1>2, <1>4, <1>5, SeqIsListed

\* The empty sequence.
LEMMA ListedEmpty ==
    /\ Listed(<<>>)
    /\ Len(<<>>) = 0
    /\ \A s : Listed(s) => s \o <<>> = s /\ <<>> \o s = s
  <1>1. ASSUME NEW s, Listed(s) PROVE s \o <<>> = s /\ <<>> \o s = s
    <2>1. s \in Seq(ToSet(s))
      BY <1>1, ListedDomain
    <2> QED BY <2>1, ConcatEmptySeq
  <1>2. Listed(<<>>)
    <2>1. <<>> \in Seq({})
      OBVIOUS
    <2> QED BY <2>1, SeqIsListed
  <1> QED BY <1>1, <1>2

\* A sequence of one.
LEMMA ListedOne ==
    ASSUME NEW x
    PROVE  Listed(<<x>>) /\ Len(<<x>>) = 1 /\ <<x>>[1] = x /\ <<x>> # <<>>
  <1>1. <<x>> \in Seq({x})
    OBVIOUS
  <1> QED BY <1>1, SeqIsListed

Associates(s, t, u) == (s \o t) \o u = s \o (t \o u)

\* It does not matter which of three sequences are joined first.
LEMMA ListedThrice ==
    ASSUME NEW s, NEW t, NEW u, Listed(s), Listed(t), Listed(u)
    PROVE  Associates(s, t, u)
  <1> DEFINE T == ToSet(s) \cup ToSet(t) \cup ToSet(u)
  <1>1. s \in Seq(ToSet(s)) /\ t \in Seq(ToSet(t)) /\ u \in Seq(ToSet(u))
    BY ListedDomain
  <1>2. ToSet(s) \subseteq T /\ ToSet(t) \subseteq T /\ ToSet(u) \subseteq T
    OBVIOUS
  <1> HIDE DEF T
  <1>3. s \in Seq(T) /\ t \in Seq(T) /\ u \in Seq(T)
    BY <1>1, <1>2, SeqMonotonic
  <1> QED BY <1>3, ConcatAssociative DEF Associates

\* One more element.
LEMMA ListedAppend ==
    ASSUME NEW s, NEW x, Listed(s)
    PROVE  /\ Append(s, x) = s \o <<x>>
           /\ Listed(Append(s, x))
           /\ Len(Append(s, x)) = Len(s) + 1
           /\ Append(s, x)[Len(s) + 1] = x
           /\ \A j \in 1..Len(s) : Append(s, x)[j] = s[j]
  <1> DEFINE T == ToSet(s) \cup {x}
  <1>1. s \in Seq(T)
    <2>1. s \in Seq(ToSet(s)) /\ ToSet(s) \subseteq T
      BY ListedDomain
    <2> HIDE DEF T
    <2> QED BY <2>1, SeqMonotonic
  <1>2. x \in T
    OBVIOUS
  <1> HIDE DEF T
  <1>3. Append(s, x) \in Seq(T) /\ Len(Append(s, x)) = Len(s) + 1 /\ Len(s) \in Nat
    BY <1>1, <1>2
  <1>4. Append(s, x)[Len(s) + 1] = x /\ \A j \in 1..Len(s) : Append(s, x)[j] = s[j]
    BY <1>1, <1>2
  <1>5. Append(s, x) = s \o <<x>>
    BY <1>1, <1>2, AppendIsConcat
  <1> QED BY <1>3, <1>4, <1>5, SeqIsListed

\* A part of a sequence.
LEMMA ListedPart ==
    ASSUME NEW s, Listed(s), NEW m \in Nat, NEW n \in Nat, 1 <= m, n <= Len(s)
    PROVE  /\ Listed(SubSeq(s, m, n))
           /\ Len(SubSeq(s, m, n)) = IF m <= n THEN n - m + 1 ELSE 0
           /\ \A j \in 1..(n - m + 1) : SubSeq(s, m, n)[j] = s[m + j - 1]
  <1>1. s \in Seq(ToSet(s)) /\ Len(s) \in Nat /\ DOMAIN s = 1..Len(s)
    BY ListedDomain
  <1>2. \A i \in m..n : s[i] \in ToSet(s)
    BY <1>1 DEF ToSet
  <1>3. SubSeq(s, m, n) \in Seq(ToSet(s))
    BY <1>2, SubSeqProperties
  <1>4. Len(SubSeq(s, m, n)) = IF m <= n THEN n - m + 1 ELSE 0
    BY <1>2, SubSeqProperties
  <1>5. \A j \in 1..(n - m + 1) : SubSeq(s, m, n)[j] = s[m + j - 1]
    BY <1>2, SubSeqProperties
  <1> QED BY <1>3, <1>4, <1>5, SeqIsListed

-----------------------------------------------------------------------------
(* FlattenSeq.                                                             *)

\* f[k] is the first k of the sequences, one behind the other.
IsFlat(f, seqs, n) ==
    /\ f = [k \in 0..n |-> f[k]]
    /\ f[0] = <<>>
    /\ \A k \in 1..n : f[k] = f[k - 1] \o seqs[k]

JoinUpTo(seqs) == CHOOSE f : IsFlat(f, seqs, Len(seqs))

\* One more sequence.
LEMMA FlatStep ==
    ASSUME NEW seqs, NEW m \in Nat, NEW f, IsFlat(f, seqs, m)
    PROVE  \E g : IsFlat(g, seqs, m + 1)
  <1> DEFINE g == [k \in 0..(m + 1) |-> IF k = m + 1 THEN f[m] \o seqs[m + 1] ELSE f[k]]
  <1>1. g[0] = <<>>
    BY DEF IsFlat
  <1>2. ASSUME NEW k \in 1..(m + 1) PROVE g[k] = g[k - 1] \o seqs[k]
    <2>1. k - 1 \in 0..(m + 1) /\ k - 1 # m + 1 /\ k \in 0..(m + 1)
      OBVIOUS
    <2>2. g[k - 1] = f[k - 1]
      BY <2>1
    <2>3. CASE k = m + 1
      <3>1. g[m + 1] = f[m] \o seqs[m + 1]
        BY <2>1, <2>3
      <3>2. k - 1 = m
        BY <2>3
      <3> HIDE DEF g
      <3> QED BY <2>2, <2>3, <3>1, <3>2
    <2>4. CASE k # m + 1
      <3>1. k \in 1..m /\ g[k] = f[k]
        BY <2>1, <2>4
      <3> HIDE DEF g
      <3> QED BY <2>2, <3>1 DEF IsFlat
    <2> QED BY <2>3, <2>4
  <1>3. g = [k \in 0..(m + 1) |-> g[k]]
    OBVIOUS
  <1> HIDE DEF g
  <1> QED BY <1>1, <1>2, <1>3 DEF IsFlat

\* There is such an f for any number of sequences.
LEMMA FlatExists ==
    ASSUME NEW seqs, NEW n \in Nat
    PROVE  \E f : IsFlat(f, seqs, n)
  <1> DEFINE Bad == {m \in Nat : ~\E f : IsFlat(f, seqs, m)}
  <1>1. SUFFICES ASSUME Bad # {} PROVE FALSE
    OBVIOUS
  <1>2. PICK m \in Bad : \A k \in Bad : m <= k
    <2>1. Bad \subseteq Nat
      OBVIOUS
    <2> HIDE DEF Bad
    <2> QED BY <1>1, <2>1, LeastNat
  <1>3. m # 0
    <2> DEFINE f == [k \in 0..0 |-> <<>>]
    <2>1. IsFlat(f, seqs, 0)
      BY DEF IsFlat
    <2> QED BY <1>2, <2>1
  <1>4. m \in Nat /\ m - 1 \in Nat /\ m = (m - 1) + 1 /\ ~(m <= m - 1)
    BY <1>2, <1>3
  <1>5. PICK f : IsFlat(f, seqs, m - 1)
    BY <1>2, <1>4
  <1>6. \E g : IsFlat(g, seqs, m)
    BY <1>4, <1>5, FlatStep
  <1> QED BY <1>2, <1>6

\* JoinUpTo is one.
LEMMA FlatDef ==
    ASSUME NEW seqs, Tables(seqs)
    PROVE  /\ JoinUpTo(seqs) = [k \in 0..Len(seqs) |-> JoinUpTo(seqs)[k]]
           /\ JoinUpTo(seqs)[0] = <<>>
           /\ \A k \in 1..Len(seqs) : JoinUpTo(seqs)[k] = JoinUpTo(seqs)[k - 1] \o seqs[k]
           /\ \A k \in 0..Len(seqs) : Listed(JoinUpTo(seqs)[k])
  <1> DEFINE g == JoinUpTo(seqs)
             n == Len(seqs)
  <1>0. n \in Nat /\ (\A k \in 1..n : Listed(seqs[k]))
    BY DEF Tables, Listed
  <1>1. IsFlat(g, seqs, n)
    BY <1>0, FlatExists DEF JoinUpTo
  <1> HIDE DEF g, n
  <1>2. g = [k \in 0..n |-> g[k]] /\ g[0] = <<>> /\ \A k \in 1..n : g[k] = g[k - 1] \o seqs[k]
    BY <1>1 DEF IsFlat
  <1>3. \A k \in 0..n : Listed(g[k])
    <2> DEFINE Bad == {m \in 0..n : ~Listed(g[m])}
    <2>1. SUFFICES ASSUME Bad # {} PROVE FALSE
      OBVIOUS
    <2>2. PICK m \in Bad : \A k \in Bad : m <= k
      <3>1. Bad \subseteq Nat
        BY <1>0
      <3> HIDE DEF Bad
      <3> QED BY <2>1, <3>1, LeastNat
    <2>3. m \in 0..n /\ ~Listed(g[m])
      BY <2>2
    <2>4. m # 0
      BY <1>2, <2>3, ListedEmpty
    <2>5. m \in 1..n /\ m - 1 \in 0..n /\ ~(m <= m - 1)
      BY <1>0, <2>3, <2>4
    <2>6. Listed(g[m - 1])
      BY <2>2, <2>5
    <2>7. Listed(g[m - 1] \o seqs[m])
      BY <1>0, <2>5, <2>6, ListedJoin
    <2> QED BY <1>2, <2>3, <2>5, <2>7
  <1> QED BY <1>2, <1>3 DEF g, n

\* What FlattenSeq makes of them.
LEMMA FlattenIsFlat ==
    ASSUME NEW seqs, Tables(seqs)
    PROVE  FlattenSeq(seqs) = JoinUpTo(seqs)[Len(seqs)] /\ Listed(FlattenSeq(seqs))
  <1> DEFINE n == Len(seqs)
             IsIt(f) == f = [k \in 1..n |-> IF k = 1 THEN seqs[k] ELSE f[k - 1] \o seqs[k]]
             h == CHOOSE f : IsIt(f)
             g == JoinUpTo(seqs)
  <1>0. n \in Nat /\ \A k \in 1..n : Listed(seqs[k])
    BY DEF Tables, Listed
  <1>1. /\ g[0] = <<>>
        /\ \A k \in 1..n : g[k] = g[k - 1] \o seqs[k]
        /\ \A k \in 0..n : Listed(g[k])
    BY FlatDef
  <1>2. FlattenSeq(seqs) = IF n = 0 THEN seqs ELSE h[n]
    BY DEF FlattenSeq
  <1> HIDE DEF g
  <1>3. CASE n = 0
    <2>1. seqs = <<>>
      BY <1>3, ListedEmpty, ListedEqual DEF Tables
    <2> QED BY <1>1, <1>2, <1>3, <2>1, ListedEmpty DEF g
  <1>4. CASE n # 0
    <2>1. n \in 1..n /\ 1 \in 1..n /\ 0 \in 0..n
      BY <1>0, <1>4
    <2> HIDE DEF n
    <2>2. g[1] = seqs[1]
      <3>1. Listed(seqs[1]) /\ g[1] = g[1 - 1] \o seqs[1]
        BY <1>0, <1>1, <2>1
      <3>2. g[1 - 1] = <<>>
        BY <1>1
      <3> QED BY <3>1, <3>2, ListedEmpty
    <2> DEFINE f0 == [k \in 1..n |-> g[k]]
    <2>3. IsIt(f0)
      <3>1. ASSUME NEW k \in 1..n PROVE f0[k] = IF k = 1 THEN seqs[k] ELSE f0[k - 1] \o seqs[k]
        <4>1. CASE k = 1
          BY <2>2, <4>1
        <4>2. CASE k # 1
          <5>1. k - 1 \in 1..n
            BY <1>0, <4>2
          <5> QED BY <1>1, <4>2, <5>1
        <4> QED BY <4>1, <4>2
      <3>2. f0 = [k \in 1..n |-> f0[k]]
        OBVIOUS
      <3> HIDE DEF f0
      <3> QED BY <3>1, <3>2
    <2>4. IsIt(h)
      BY <2>3
    <2> HIDE DEF h
    <2>5. \A k \in 1..n : h[k] = IF k = 1 THEN seqs[k] ELSE h[k - 1] \o seqs[k]
      BY <2>4
    <2>6. \A k \in 1..n : h[k] = g[k]
      <3> DEFINE Bad == {m \in 1..n : h[m] # g[m]}
      <3>1. SUFFICES ASSUME Bad # {} PROVE FALSE
        OBVIOUS
      <3>2. PICK m \in Bad : \A k \in Bad : m <= k
        <4>1. Bad \subseteq Nat
          BY <1>0
        <4> HIDE DEF Bad
        <4> QED BY <3>1, <4>1, LeastNat
      <3>3. m \in 1..n /\ h[m] # g[m]
        BY <3>2
      <3>4. m # 1
        BY <2>1, <2>2, <2>5, <3>3
      <3>5. m - 1 \in 1..n /\ ~(m <= m - 1)
        BY <1>0, <3>3, <3>4
      <3>6. h[m - 1] = g[m - 1]
        BY <3>2, <3>5
      <3> QED BY <1>1, <2>5, <3>3, <3>4, <3>6
    <2>7. Listed(g[n])
      BY <1>0, <1>1
    <2> QED BY <1>2, <1>4, <2>1, <2>6, <2>7 DEF g, n
  <1> QED BY <1>3, <1>4

\* One sequence of sequences behind another.
LEMMA TablesJoin ==
    ASSUME NEW a, NEW b, Tables(a), Tables(b)
    PROVE  Tables(a \o b)
  <1>1. /\ Listed(a \o b) /\ Len(a \o b) = Len(a) + Len(b) /\ Len(a) \in Nat /\ Len(b) \in Nat
        /\ \A j \in 1..Len(a) : (a \o b)[j] = a[j]
        /\ \A j \in 1..Len(b) : (a \o b)[Len(a) + j] = b[j]
    BY ListedJoin DEF Tables
  <1>2. ASSUME NEW n \in 1..Len(a \o b) PROVE Listed((a \o b)[n])
    <2>1. CASE n <= Len(a)
      BY <1>1, <2>1 DEF Tables
    <2>2. CASE ~(n <= Len(a))
      <3>1. n - Len(a) \in 1..Len(b) /\ Len(a) + (n - Len(a)) = n
        BY <1>1, <2>2
      <3>2. (a \o b)[n] = b[n - Len(a)]
        BY <1>1, <3>1
      <3> QED BY <3>1, <3>2 DEF Tables
    <2> QED BY <2>1, <2>2
  <1> QED BY <1>1, <1>2 DEF Tables

\* What both make is what the first makes, and behind it what the second makes.
LEMMA FlattenJoin ==
    ASSUME NEW a, NEW b, Tables(a), Tables(b)
    PROVE  /\ FlattenSeq(a \o b) = FlattenSeq(a) \o FlattenSeq(b)
           /\ Listed(FlattenSeq(a)) /\ Listed(FlattenSeq(b))
  <1> DEFINE ab == a \o b
             M == Len(a)
             P == Len(b)
             f == JoinUpTo(a)
             g == JoinUpTo(b)
             h == JoinUpTo(ab)
  <1>1. /\ Len(ab) = M + P /\ M \in Nat /\ P \in Nat
        /\ \A j \in 1..M : ab[j] = a[j]
        /\ \A j \in 1..P : ab[M + j] = b[j]
    BY ListedJoin DEF Tables
  <1>2. Tables(ab)
    BY TablesJoin
  <1>3. f[0] = <<>> /\ (\A k \in 1..M : f[k] = f[k - 1] \o a[k]) /\ \A k \in 0..M : Listed(f[k])
    BY FlatDef
  <1>4. g[0] = <<>> /\ (\A k \in 1..P : g[k] = g[k - 1] \o b[k]) /\ \A k \in 0..P : Listed(g[k])
    BY FlatDef
  <1>5. \A k \in 1..P : Listed(b[k])
    BY DEF Tables
  <1>6. h[0] = <<>> /\ \A k \in 1..(M + P) : h[k] = h[k - 1] \o ab[k]
    <2> HIDE DEF ab
    <2> QED BY <1>1, <1>2, FlatDef
  <1>7. FlattenSeq(a) = f[M] /\ FlattenSeq(b) = g[P] /\ FlattenSeq(ab) = h[M + P]
    <2> HIDE DEF ab
    <2> QED BY <1>1, <1>2, FlattenIsFlat
  <1>8. Listed(FlattenSeq(a)) /\ Listed(FlattenSeq(b))
    BY FlattenIsFlat
  <1> HIDE DEF f, g, h, ab, M, P
  <1>9. \A k \in 0..M : h[k] = f[k]
    <2> DEFINE Bad == {m \in 0..M : h[m] # f[m]}
    <2>1. SUFFICES ASSUME Bad # {} PROVE FALSE
      OBVIOUS
    <2>2. PICK m \in Bad : \A k \in Bad : m <= k
      <3>1. Bad \subseteq Nat
        BY <1>1
      <3> HIDE DEF Bad
      <3> QED BY <2>1, <3>1, LeastNat
    <2>3. m \in 0..M /\ h[m] # f[m]
      BY <2>2
    <2>4. m # 0
      BY <1>3, <1>6, <2>3
    <2>5. m \in 1..M /\ m \in 1..(M + P) /\ m - 1 \in 0..M /\ ~(m <= m - 1)
      BY <1>1, <2>3, <2>4
    <2>6. h[m - 1] = f[m - 1]
      BY <2>2, <2>5
    <2> QED BY <1>1, <1>3, <1>6, <2>3, <2>5, <2>6
  <1>10. \A k \in 0..P : h[M + k] = f[M] \o g[k]
    <2> DEFINE Bad == {m \in 0..P : h[M + m] # f[M] \o g[m]}
    <2>1. SUFFICES ASSUME Bad # {} PROVE FALSE
      OBVIOUS
    <2>2. PICK m \in Bad : \A k \in Bad : m <= k
      <3>1. Bad \subseteq Nat
        <4>1. Bad \subseteq 0..P
          BY Zenon
        <4>2. 0..P \subseteq Nat
          OBVIOUS
        <4> HIDE DEF Bad
        <4> QED BY <4>1, <4>2
      <3> HIDE DEF Bad
      <3> QED BY <2>1, <3>1, LeastNat
    <2>3. m \in 0..P /\ h[M + m] # f[M] \o g[m]
      BY <2>2
    <2>4. M \in 0..M /\ Listed(f[M]) /\ M + 0 = M
      BY <1>1, <1>3
    <2>5. m # 0
      <3>1. f[M] \o g[0] = f[M]
        BY <1>4, <2>4, ListedEmpty
      <3> QED BY <1>9, <2>3, <2>4, <3>1
    <2>6. m \in 1..P /\ M + m \in 1..(M + P) /\ m - 1 \in 0..P /\ ~(m <= m - 1) /\ (M + m) - 1 = M + (m - 1)
      BY <1>1, <2>3, <2>5
    <2>7. h[M + (m - 1)] = f[M] \o g[m - 1]
      BY <2>2, <2>6
    <2>8. h[M + m] = (f[M] \o g[m - 1]) \o b[m]
      BY <1>1, <1>6, <2>6, <2>7
    <2>9. (f[M] \o g[m - 1]) \o b[m] = f[M] \o (g[m - 1] \o b[m])
      <3>1. Listed(g[m - 1]) /\ Listed(b[m])
        BY <1>4, <1>5, <2>6
      <3>2. Associates(f[M], g[m - 1], b[m])
        BY <2>4, <3>1, ListedThrice
      <3> QED BY <3>2 DEF Associates
    <2> QED BY <1>4, <2>3, <2>6, <2>8, <2>9
  <1>11. P \in 0..P
    BY <1>1
  <1> QED BY <1>7, <1>8, <1>10, <1>11 DEF ab

\* One sequence alone.
LEMMA FlattenOne ==
    ASSUME NEW s, Listed(s)
    PROVE  Tables(<<s>>) /\ FlattenSeq(<<s>>) = s
  <1> DEFINE a == <<s>>
  <1>1. Listed(a) /\ Len(a) = 1 /\ a[1] = s
    BY ListedOne
  <1> HIDE DEF a
  <1>2. Tables(a)
    BY <1>1 DEF Tables
  <1>3. FlattenSeq(a) = JoinUpTo(a)[1]
    BY <1>1, <1>2, FlattenIsFlat
  <1>4. JoinUpTo(a)[1] = JoinUpTo(a)[1 - 1] \o a[1] /\ JoinUpTo(a)[0] = <<>>
    <2>1. 1 \in 1..Len(a)
      BY <1>1
    <2>2. \A k \in 1..Len(a) : JoinUpTo(a)[k] = JoinUpTo(a)[k - 1] \o a[k]
      BY <1>2, FlatDef
    <2>3. JoinUpTo(a)[0] = <<>>
      BY <1>2, FlatDef
    <2> QED BY <2>1, <2>2, <2>3
  <1>5. 1 - 1 = 0
    OBVIOUS
  <1>6. JoinUpTo(a)[1] = <<>> \o s
    BY <1>1, <1>4, <1>5
  <1> QED BY <1>2, <1>3, <1>6, ListedEmpty DEF a

\* One more sequence goes to the end.
LEMMA FlattenAppend ==
    ASSUME NEW a, NEW s, Tables(a), Listed(s)
    PROVE  /\ Tables(Append(a, s))
           /\ FlattenSeq(Append(a, s)) = FlattenSeq(a) \o s
           /\ Listed(FlattenSeq(a))
  <1>1. Append(a, s) = a \o <<s>>
    BY ListedAppend DEF Tables
  <1>2. Tables(<<s>>) /\ FlattenSeq(<<s>>) = s
    BY FlattenOne
  <1> QED BY <1>1, <1>2, TablesJoin, FlattenJoin

\* No sequences at all.
LEMMA FlattenNone == Tables(<<>>) /\ FlattenSeq(<<>>) = <<>>
  <1>1. FlattenSeq(<<>>) = <<>>
    BY DEF FlattenSeq
  <1>2. Tables(<<>>)
    BY ListedEmpty DEF Tables
  <1> QED BY <1>1, <1>2

-----------------------------------------------------------------------------
(* What the operators make of rows.                                        *)

\* The rows that a filter keeps, one by one.
Pieces(c, rows) == [j \in 1..Len(rows) |-> IF rows[j][c] # 0 THEN <<rows[j]>> ELSE <<>>]

\* They are sequences of one row or none.
LEMMA PiecesAreTables ==
    ASSUME NEW c, NEW rows, Listed(rows)
    PROVE  Tables(Pieces(c, rows)) /\ Len(Pieces(c, rows)) = Len(rows)
  <1> DEFINE p == Pieces(c, rows)
             n == Len(rows)
  <1>1. n \in Nat /\ p = [j \in 1..n |-> IF rows[j][c] # 0 THEN <<rows[j]>> ELSE <<>>]
    BY DEF Pieces, Listed
  <1> HIDE DEF p, n
  <1>2. p = [j \in 1..n |-> p[j]]
    BY <1>1
  <1>3. Listed(p) /\ Len(p) = n
    BY <1>1, <1>2, FunctionIsListed
  <1>4. ASSUME NEW j \in 1..n PROVE Listed(p[j])
    <2>1. p[j] = <<rows[j]>> \/ p[j] = <<>>
      BY <1>1
    <2> QED BY <2>1, ListedOne, ListedEmpty
  <1> QED BY <1>3, <1>4 DEF Tables, p, n

\* A filter takes the rows one by one; what it keeps are these pieces.
LEMMA FilteredIs ==
    ASSUME NEW c, NEW rows, Listed(rows)
    PROVE  Filtered(c, rows) = FlattenSeq(Pieces(c, rows))
  <1> DEFINE n == Len(rows)
             p == Pieces(c, rows)
             g == JoinUpTo(p)
             IsIt(f) == f = [j \in 0..n |-> IF j = 0 THEN <<>>
                                            ELSE IF rows[j][c] # 0 THEN Append(f[j - 1], rows[j]) ELSE f[j - 1]]
             h == CHOOSE f : IsIt(f)
  <1>1. n \in Nat
    BY DEF Listed
  <1>2. Filtered(c, rows) = h[n]
    BY DEF Filtered
  <1>3. Tables(p) /\ Len(p) = n
    BY PiecesAreTables
  <1>4. \A j \in 1..n : p[j] = IF rows[j][c] # 0 THEN <<rows[j]>> ELSE <<>>
    BY DEF Pieces
  <1> HIDE DEF p
  <1>5. FlattenSeq(p) = g[n]
    BY <1>3, FlattenIsFlat
  <1>6. g = [k \in 0..n |-> g[k]] /\ g[0] = <<>>
    BY <1>3, FlatDef
  <1>7. (\A k \in 1..n : g[k] = g[k - 1] \o p[k]) /\ \A k \in 0..n : Listed(g[k])
    BY <1>3, FlatDef
  <1> HIDE DEF g, n
  <1>8. ASSUME NEW j \in 1..n
        PROVE  g[j] = IF rows[j][c] # 0 THEN Append(g[j - 1], rows[j]) ELSE g[j - 1]
    <2>1. j - 1 \in 0..n
      BY <1>1
    <2>2. Listed(g[j - 1]) /\ g[j] = g[j - 1] \o p[j]
      BY <1>7, <2>1
    <2>3. Append(g[j - 1], rows[j]) = g[j - 1] \o <<rows[j]>> /\ g[j - 1] \o <<>> = g[j - 1]
      BY <2>2, ListedAppend, ListedEmpty
    <2>4. CASE rows[j][c] # 0
      BY <1>4, <2>2, <2>3, <2>4
    <2>5. CASE ~(rows[j][c] # 0)
      BY <1>4, <2>2, <2>3, <2>5
    <2> QED BY <2>4, <2>5
  <1>9. IsIt(g)
    <2> DEFINE Next(j) == IF j = 0 THEN <<>>
                          ELSE IF rows[j][c] # 0 THEN Append(g[j - 1], rows[j]) ELSE g[j - 1]
    <2>1. ASSUME NEW j \in 0..n PROVE g[j] = Next(j)
      <3>1. CASE j = 0
        BY <1>6, <3>1
      <3>2. CASE j # 0
        <4>1. j \in 1..n
          BY <1>1, <3>2
        <4> QED BY <1>8, <3>2, <4>1
      <3> QED BY <3>1, <3>2
    <2>2. [j \in 0..n |-> g[j]] = [j \in 0..n |-> Next(j)]
      <3> HIDE DEF Next
      <3> QED BY <2>1
    <2> QED BY <1>6, <2>2
  <1>10. IsIt(h)
    <2> HIDE DEF IsIt
    <2> QED BY <1>9
  <1> HIDE DEF h
  <1>11. \A j \in 0..n : h[j] = IF j = 0 THEN <<>>
                                ELSE IF rows[j][c] # 0 THEN Append(h[j - 1], rows[j]) ELSE h[j - 1]
    BY <1>10
  <1> HIDE DEF IsIt
  <1>12. \A k \in 0..n : h[k] = g[k]
    <2> DEFINE Bad == {m \in 0..n : h[m] # g[m]}
    <2>1. SUFFICES ASSUME Bad # {} PROVE FALSE
      OBVIOUS
    <2>2. PICK m \in Bad : \A k \in Bad : m <= k
      <3>1. Bad \subseteq Nat
        BY <1>1
      <3> HIDE DEF Bad
      <3> QED BY <2>1, <3>1, LeastNat
    <2>3. m \in 0..n /\ h[m] # g[m]
      BY <2>2
    <2>4. m # 0
      <3>1. 0 \in 0..n
        BY <1>1
      <3>2. h[0] = <<>>
        BY <1>11, <3>1
      <3> QED BY <1>6, <2>3, <3>2
    <2>5. m \in 1..n /\ m - 1 \in 0..n /\ ~(m <= m - 1)
      BY <1>1, <2>3, <2>4
    <2>6. h[m - 1] = g[m - 1]
      BY <2>2, <2>5
    <2> QED BY <1>8, <1>11, <2>3, <2>4, <2>5, <2>6
  <1>13. n \in 0..n
    BY <1>1
  <1> QED BY <1>2, <1>5, <1>12, <1>13 DEF p

\* What is picked of a sequence is one.
LEMMA PickedIsListed ==
    ASSUME NEW s, NEW marked, Listed(s)
    PROVE  Listed(Picked(s, marked))
  <1> DEFINE p == [j \in DOMAIN s |-> IF marked[j] THEN <<s[j]>> ELSE <<>>]
             n == Len(s)
  <1>1. n \in Nat /\ p = [j \in 1..n |-> IF marked[j] THEN <<s[j]>> ELSE <<>>]
    BY ListedDomain
  <1>2. Picked(s, marked) = FlattenSeq(p)
    BY DEF Picked
  <1> HIDE DEF p, n
  <1>3. p = [j \in 1..n |-> p[j]]
    BY <1>1
  <1>4. Listed(p) /\ Len(p) = n
    BY <1>1, <1>3, FunctionIsListed
  <1>5. ASSUME NEW j \in 1..n PROVE Listed(p[j])
    <2>1. p[j] = <<s[j]>> \/ p[j] = <<>>
      BY <1>1
    <2> QED BY <2>1, ListedOne, ListedEmpty
  <1>6. Tables(p)
    BY <1>4, <1>5 DEF Tables
  <1> QED BY <1>2, <1>6, FlattenIsFlat

\* What a limit leaves is a sequence.
LEMMA CutIsListed ==
    ASSUME NEW s, Listed(s), NEW limit, limit # NoLimit => limit \in Nat
    PROVE  Listed(Cut(limit, s))
  <1>1. CASE limit = NoLimit
    BY <1>1 DEF Cut
  <1>2. CASE limit # NoLimit
    <2>1. Least(limit, Len(s)) \in Nat /\ Least(limit, Len(s)) <= Len(s)
      BY <1>2 DEF Least, Listed
    <2>2. Listed(SubSeq(s, 1, Least(limit, Len(s))))
      BY <2>1, ListedPart
    <2> QED BY <1>2, <2>2 DEF Cut
  <1> QED BY <1>1, <1>2

\* A function on the places of a sequence is a sequence.
LEMMA OnPlaces ==
    ASSUME NEW s, Listed(s), NEW f, f = [j \in DOMAIN s |-> f[j]]
    PROVE  Listed(f) /\ Len(f) = Len(s)
  <1>1. Len(s) \in Nat /\ DOMAIN s = 1..Len(s)
    BY ListedDomain
  <1> QED BY <1>1, FunctionIsListed

\* Every operator makes rows of rows.
LEMMA ApplyIsListed ==
    ASSUME NEW o, IsOperator(o), NEW rows, Listed(rows)
    PROVE  Listed(Apply(o, rows))
  <1> DEFINE r == Apply(o, rows)
  <1>1. CASE o.op = "skip"
    <2>1. r = SubSeq(rows, o.n + 1, Len(rows))
      BY <1>1 DEF Apply
    <2>2. o.n + 1 \in Nat /\ 1 <= o.n + 1 /\ Len(rows) \in Nat /\ Len(rows) <= Len(rows)
      BY <1>1 DEF IsOperator, Listed
    <2> QED BY <2>1, <2>2, ListedPart
  <1>2. CASE o.op = "enumerate"
    <2>1. r = [j \in DOMAIN rows |-> Append(rows[j], o.start + j - 1)]
      BY <1>2 DEF Apply
    <2> HIDE DEF r
    <2>2. r = [j \in DOMAIN rows |-> r[j]]
      BY <2>1
    <2> QED BY <2>2, OnPlaces DEF r
  <1>3. CASE o.op = "filter"
    <2>1. r = Filtered(o.col, rows)
      BY <1>3 DEF Apply
    <2> QED BY <2>1, FilteredIs, PiecesAreTables, FlattenIsFlat
  <1>4. CASE o.op \in {"select", "drop"}
    <2>1. r = [j \in DOMAIN rows |-> Part(rows[j], o.cols)]
      BY <1>4 DEF Apply
    <2> HIDE DEF r
    <2>2. r = [j \in DOMAIN rows |-> r[j]]
      BY <2>1
    <2> QED BY <2>2, OnPlaces DEF r
  <1>5. CASE o.op = "transform"
    <2>1. r = [j \in DOMAIN rows |-> Transformed(o.ops, rows[j])]
      BY <1>5 DEF Apply
    <2> HIDE DEF r
    <2>2. r = [j \in DOMAIN rows |-> r[j]]
      BY <2>1
    <2> QED BY <2>2, OnPlaces DEF r
  <1>6. CASE o.op = "count"
    <2>1. r = <<<<Len(rows)>>>>
      BY <1>6 DEF Apply
    <2> QED BY <2>1, ListedOne
  <1>7. CASE o.op = "aggregation"
    <2>1. r = <<AggregatesOf(o, rows)>>
      BY <1>7 DEF Apply
    <2> QED BY <2>1, ListedOne
  <1>8. CASE o.op = "sort"
    <2> DEFINE order == SetToSortSeq(DOMAIN rows, LAMBDA i, j : Precedes(o.params, rows, i, j))
               f == [n \in DOMAIN rows |-> rows[order[n]]]
    <2>1. r = Cut(o.limit, f)
      BY <1>8 DEF Apply, Sorted
    <2>2. f = [n \in DOMAIN rows |-> f[n]]
      OBVIOUS
    <2> HIDE DEF f
    <2>3. Listed(f)
      BY <2>2, OnPlaces
    <2>4. o.limit # NoLimit => o.limit \in Nat
      BY <1>8 DEF IsOperator
    <2> QED BY <2>1, <2>3, <2>4, CutIsListed
  <1>9. CASE o.op = "groups"
    <2> DEFINE all  == [j \in DOMAIN rows |-> Part(rows[j], o.keys)]
               keys == Cut(o.limit, Distinct(all))
               RowsOfKey(k) == Picked(rows, [j \in DOMAIN rows |-> Part(rows[j], o.keys) = k])
    <2>1. r = [g \in DOMAIN keys |-> keys[g] \o AggregatesOf(o, RowsOfKey(keys[g]))]
      BY <1>9 DEF Apply, Groups
    <2>2. all = [j \in DOMAIN rows |-> all[j]]
      OBVIOUS
    <2> HIDE DEF all
    <2>3. Listed(all)
      BY <2>2, OnPlaces
    <2>4. Listed(Distinct(all))
      BY <2>3, PickedIsListed DEF Distinct
    <2>5. o.limit # NoLimit => o.limit \in Nat
      BY <1>9 DEF IsOperator
    <2>6. Listed(keys)
      BY <2>4, <2>5, CutIsListed
    <2> HIDE DEF keys, RowsOfKey, r
    <2>7. r = [g \in DOMAIN keys |-> r[g]]
      BY <2>1
    <2> QED BY <2>6, <2>7, OnPlaces DEF r
  <1>10. o.op \in Passing \cup Draining
    BY DEF IsOperator
  <1> QED BY <1>1, <1>2, <1>3, <1>4, <1>5, <1>6, <1>7, <1>8, <1>9, <1>10 DEF Passing, Draining

\* The state of a stream that passes batches on, after these rows.
After(o, rows) ==
    CASE o.op = "skip"      -> o.n - Least(o.n, Len(rows))
      [] o.op = "enumerate" -> o.start + Len(rows)
      [] OTHER              -> <<>>

\* A stream that has been given nothing is as it was made.
LEMMA AfterNothing ==
    ASSUME NEW o, IsOperator(o), o.op \in Passing
    PROVE  After(o, <<>>) = Start(o) /\ Apply(o, <<>>) = <<>>
  <1> DEFINE none == <<>>
  <1>1. Len(none) = 0 /\ Listed(none) /\ DOMAIN none = {}
    BY ListedEmpty
  <1> HIDE DEF none
  <1>2. After(o, none) = Start(o)
    <2>1. CASE o.op = "skip"
      BY <1>1, <2>1 DEF After, Start, Least, IsOperator
    <2>2. CASE o.op = "enumerate"
      BY <1>1, <2>2 DEF After, Start, IsOperator
    <2>3. CASE o.op \notin {"skip", "enumerate"}
      <3>1. o.op # "count"
        BY DEF Passing
      <3> QED BY <2>3, <3>1 DEF After, Start
    <2> QED BY <2>1, <2>2, <2>3
  <1>3. Apply(o, none) = <<>>
    <2>1. Listed(Apply(o, none))
      BY <1>1, ApplyIsListed
    <2>2. Len(Apply(o, none)) = 0
      <3>1. CASE o.op = "skip"
        <4>1. Apply(o, none) = SubSeq(none, o.n + 1, 0)
          BY <1>1, <3>1 DEF Apply
        <4>2. o.n + 1 \in Nat /\ 1 <= o.n + 1 /\ 0 \in Nat /\ 0 <= Len(none) /\ ~(o.n + 1 <= 0)
          BY <1>1, <3>1 DEF IsOperator
        <4> QED BY <1>1, <4>1, <4>2, ListedPart
      <3>2. CASE o.op \in {"enumerate", "select", "drop", "transform"}
        <4>1. Apply(o, none) = [j \in DOMAIN none |-> Apply(o, none)[j]]
          <5>1. CASE o.op = "enumerate"
            BY <5>1 DEF Apply
          <5>2. CASE o.op \in {"select", "drop"}
            BY <5>2 DEF Apply
          <5>3. CASE o.op = "transform"
            BY <5>3 DEF Apply
          <5> QED BY <3>2, <5>1, <5>2, <5>3
        <4> QED BY <1>1, <4>1, OnPlaces
      <3>3. CASE o.op = "filter"
        <4>1. Apply(o, none) = FlattenSeq(Pieces(o.col, none))
          BY <1>1, <3>3, FilteredIs DEF Apply
        <4>2. Tables(Pieces(o.col, none)) /\ Len(Pieces(o.col, none)) = 0
          BY <1>1, PiecesAreTables
        <4>3. Pieces(o.col, none) = <<>>
          BY <4>2, ListedEmpty, ListedEqual DEF Tables
        <4> QED BY <4>1, <4>3, FlattenNone, ListedEmpty
      <3> QED BY <3>1, <3>2, <3>3 DEF Passing
    <2> QED BY <2>1, <2>2, ListedEmpty, ListedEqual
  <1> QED BY <1>2, <1>3 DEF none

Joins(f, g, h) == f = g \o h

\* Place by place, one sequence behind another.
LEMMA JoinEqual ==
    ASSUME NEW f, NEW g, NEW h, Listed(f), Listed(g), Listed(h),
           Len(f) = Len(g) + Len(h),
           \A j \in 1..Len(g) : f[j] = g[j],
           \A j \in 1..Len(h) : f[Len(g) + j] = h[j]
    PROVE  Joins(f, g, h)
  <1> DEFINE gh == g \o h
             G == Len(g)
             H == Len(h)
  <1>1. /\ Listed(gh) /\ Len(gh) = G + H /\ G \in Nat /\ H \in Nat
        /\ \A j \in 1..G : gh[j] = g[j]
        /\ \A j \in 1..H : gh[G + j] = h[j]
    BY ListedJoin
  <1>2. \A j \in 1..G : f[j] = g[j]
    OBVIOUS
  <1>3. \A j \in 1..H : f[G + j] = h[j]
    OBVIOUS
  <1> HIDE DEF gh, G, H
  <1>4. ASSUME NEW j \in 1..(G + H) PROVE f[j] = gh[j]
    <2>1. CASE j <= G
      <3>1. j \in 1..G
        BY <1>1, <2>1
      <3> QED BY <1>1, <1>2, <3>1
    <2>2. CASE ~(j <= G)
      <3>1. j - G \in 1..H /\ G + (j - G) = j
        BY <1>1, <2>2
      <3>2. f[j] = h[j - G]
        BY <1>3, <3>1
      <3>3. gh[j] = h[j - G]
        BY <1>1, <3>1
      <3> QED BY <3>2, <3>3
    <2> QED BY <2>1, <2>2
  <1>5. Len(f) = G + H
    BY DEF G, H
  <1>6. f = gh
    BY <1>1, <1>4, <1>5, ListedEqual
  <1> QED BY <1>6 DEF gh, Joins

\* What is kept of both is what is kept of each.
LEMMA PiecesJoin ==
    ASSUME NEW c, NEW s, NEW t, Listed(s), Listed(t)
    PROVE  Pieces(c, s \o t) = Pieces(c, s) \o Pieces(c, t)
  <1> DEFINE st == s \o t
             f == Pieces(c, st)
             g == Pieces(c, s)
             h == Pieces(c, t)
             L == Len(s)
             P == Len(t)
  <1>1. /\ Listed(st) /\ Len(st) = L + P /\ L \in Nat /\ P \in Nat
        /\ \A j \in 1..L : st[j] = s[j]
        /\ \A j \in 1..P : st[L + j] = t[j]
    BY ListedJoin
  <1>2. g = [j \in 1..L |-> IF s[j][c] # 0 THEN <<s[j]>> ELSE <<>>]
    BY DEF Pieces
  <1>3. h = [j \in 1..P |-> IF t[j][c] # 0 THEN <<t[j]>> ELSE <<>>]
    BY DEF Pieces
  <1> HIDE DEF st
  <1>4. f = [j \in 1..(L + P) |-> IF st[j][c] # 0 THEN <<st[j]>> ELSE <<>>]
    BY <1>1 DEF Pieces
  <1>5. Listed(f) /\ Len(f) = L + P /\ Listed(g) /\ Len(g) = L /\ Listed(h) /\ Len(h) = P
    BY <1>1, PiecesAreTables DEF Tables
  <1> HIDE DEF f, g, h, L, P
  <1>6. ASSUME NEW j \in 1..L PROVE f[j] = g[j]
    <2>1. j \in 1..(L + P)
      BY <1>1
    <2> QED BY <1>1, <1>2, <1>4, <2>1
  <1>7. ASSUME NEW j \in 1..P PROVE f[L + j] = h[j]
    <2>1. L + j \in 1..(L + P)
      BY <1>1
    <2> QED BY <1>1, <1>3, <1>4, <2>1
  <1>8. \A j \in 1..Len(g) : f[j] = g[j]
    BY <1>5, <1>6
  <1>9. \A j \in 1..Len(h) : f[Len(g) + j] = h[j]
    BY <1>5, <1>7
  <1>10. Joins(f, g, h)
    BY <1>5, <1>8, <1>9, JoinEqual
  <1> QED BY <1>10 DEF f, g, h, st, Joins

\* A stream that passes batches on: what it has made of the rows before and makes of a
\* batch is what the operator makes of them all, and its state counts them all.
LEMMA Passes ==
    ASSUME NEW o, IsOperator(o), o.op \in Passing, NEW s, NEW t, Listed(s), Listed(t)
    PROVE  /\ Joins(Apply(o, s \o t), Apply(o, s), Made(o, After(o, s), t))
           /\ Advanced(o, After(o, s), t) = After(o, s \o t)
           /\ Listed(Made(o, After(o, s), t))
  <1> DEFINE st == s \o t
             f == Apply(o, st)
             g == Apply(o, s)
             h == Made(o, After(o, s), t)
             L == Len(s)
             P == Len(t)
  <1>1. /\ Listed(st) /\ Len(st) = L + P /\ L \in Nat /\ P \in Nat
        /\ \A j \in 1..L : st[j] = s[j]
        /\ \A j \in 1..P : st[L + j] = t[j]
    BY ListedJoin
  <1>2. DOMAIN st = 1..(L + P) /\ DOMAIN s = 1..L /\ DOMAIN t = 1..P
    <2>1. DOMAIN st = 1..Len(st)
      BY <1>1, ListedDomain
    <2> QED BY <1>1, <2>1, ListedDomain
  <1> SUFFICES Joins(f, g, h) /\ Advanced(o, After(o, s), t) = After(o, st) /\ Listed(h)
    OBVIOUS
  <1> HIDE DEF st
  <1>3. CASE o.op = "skip"
    <2> DEFINE n == o.n
               a == After(o, s)
               b == Least(a, P)
    <2>1. n \in Nat
      BY <1>3 DEF IsOperator
    <2>2. a = n - Least(n, L) /\ a \in Nat /\ a = IF n < L THEN 0 ELSE n - L
      BY <1>1, <1>3, <2>1 DEF After, Least
    <2>3. After(o, st) = n - Least(n, L + P)
      BY <1>1, <1>3 DEF After
    <2>4. Advanced(o, a, t) = a - Least(a, P)
      BY <1>3 DEF Advanced
    <2>5. f = SubSeq(st, n + 1, L + P) /\ g = SubSeq(s, n + 1, L)
      BY <1>1, <1>3 DEF Apply
    <2>6. h = SubSeq(t, b + 1, P)
      BY <1>3 DEF Made
    <2> HIDE DEF n, a, f, g, h, L, P
    <2>7. b \in Nat /\ b = IF a < P THEN a ELSE P
      BY <1>1, <2>2 DEF Least
    <2> HIDE DEF b
    <2>8. Advanced(o, a, t) = After(o, st)
      BY <1>1, <2>1, <2>2, <2>3, <2>4 DEF Least
    <2>9. n + 1 \in Nat /\ 1 <= n + 1 /\ L + P \in Nat /\ L <= L /\ P <= P /\ b + 1 \in Nat /\ 1 <= b + 1
      BY <1>1, <2>1, <2>7
    <2>10. /\ Listed(f) /\ Len(f) = (IF n + 1 <= L + P THEN (L + P) - (n + 1) + 1 ELSE 0)
           /\ \A j \in 1..((L + P) - (n + 1) + 1) : f[j] = st[(n + 1) + j - 1]
      <3> DEFINE all == L + P
      <3>1. all <= Len(st) /\ all \in Nat
        BY <1>1
      <3>2. f = SubSeq(st, n + 1, all)
        BY <2>5
      <3> HIDE DEF all
      <3>3. Listed(f) /\ Len(f) = (IF n + 1 <= all THEN all - (n + 1) + 1 ELSE 0)
        BY <1>1, <2>9, <3>1, <3>2, ListedPart
      <3>4. \A j \in 1..(all - (n + 1) + 1) : f[j] = st[(n + 1) + j - 1]
        BY <1>1, <2>9, <3>1, <3>2, ListedPart
      <3> QED BY <3>3, <3>4 DEF all
    <2>11. /\ Listed(g) /\ Len(g) = (IF n + 1 <= L THEN L - (n + 1) + 1 ELSE 0)
           /\ \A j \in 1..(L - (n + 1) + 1) : g[j] = s[(n + 1) + j - 1]
      <3>1. L <= Len(s)
        BY <2>9 DEF L
      <3> QED BY <1>1, <2>5, <2>9, <3>1, ListedPart
    <2>12. /\ Listed(h) /\ Len(h) = (IF b + 1 <= P THEN P - (b + 1) + 1 ELSE 0)
           /\ \A j \in 1..(P - (b + 1) + 1) : h[j] = t[(b + 1) + j - 1]
      <3>1. P <= Len(t)
        BY <2>9 DEF P
      <3>2. Listed(h) /\ Len(h) = (IF b + 1 <= P THEN P - (b + 1) + 1 ELSE 0)
        BY <1>1, <2>6, <2>9, <3>1, ListedPart
      <3> DEFINE m == b + 1
      <3>3. m \in Nat /\ 1 <= m /\ h = SubSeq(t, m, P)
        BY <2>6, <2>9
      <3> HIDE DEF m
      <3>4. \A j \in 1..(P - m + 1) : h[j] = t[m + j - 1]
        BY <1>1, <3>1, <3>3, ListedPart
      <3> QED BY <3>2, <3>4 DEF m
    <2>13. Len(f) = Len(g) + Len(h)
      BY <1>1, <2>1, <2>2, <2>7, <2>10, <2>11, <2>12
    <2>14. ASSUME NEW j \in 1..Len(g) PROVE f[j] = g[j]
      <3>1. /\ n + 1 <= L /\ j \in 1..(L - (n + 1) + 1) /\ j \in 1..((L + P) - (n + 1) + 1)
            /\ (n + 1) + j - 1 \in 1..L
        BY <1>1, <2>1, <2>11
      <3> QED BY <1>1, <2>10, <2>11, <3>1
    <2>15. ASSUME NEW j \in 1..Len(h) PROVE f[Len(g) + j] = h[j]
      <3>1. /\ j \in 1..(P - (b + 1) + 1)
            /\ (b + 1) + j - 1 \in 1..P
            /\ Len(g) + j \in 1..((L + P) - (n + 1) + 1)
            /\ (n + 1) + (Len(g) + j) - 1 = L + ((b + 1) + j - 1)
        BY <1>1, <2>1, <2>2, <2>7, <2>11, <2>12
      <3>2. f[Len(g) + j] = st[(n + 1) + (Len(g) + j) - 1] /\ h[j] = t[(b + 1) + j - 1]
        BY <2>10, <2>12, <3>1
      <3> QED BY <1>1, <3>1, <3>2
    <2>16. Joins(f, g, h)
      BY <2>10, <2>11, <2>12, <2>13, <2>14, <2>15, JoinEqual
    <2> QED BY <2>8, <2>12, <2>16 DEF a
  <1>4. CASE o.op = "enumerate"
    <2> DEFINE a == After(o, s)
    <2>1. o.start \in Int
      BY <1>4 DEF IsOperator
    <2>2. a = o.start + L
      BY <1>4 DEF After
    <2>3. After(o, st) = o.start + (L + P) /\ Advanced(o, a, t) = a + P
      BY <1>1, <1>4 DEF After, Advanced
    <2>4. f = [j \in 1..(L + P) |-> Append(st[j], o.start + j - 1)]
      BY <1>2, <1>4 DEF Apply
    <2>5. g = [j \in 1..L |-> Append(s[j], o.start + j - 1)]
      BY <1>2, <1>4 DEF Apply
    <2>6. h = [j \in 1..P |-> Append(t[j], a + j - 1)]
      BY <1>2, <1>4 DEF Made
    <2> HIDE DEF a, f, g, h, L, P
    <2>7. f = [j \in 1..(L + P) |-> f[j]] /\ g = [j \in 1..L |-> g[j]] /\ h = [j \in 1..P |-> h[j]]
      BY <2>4, <2>5, <2>6
    <2>8. Listed(f) /\ Len(f) = L + P /\ Listed(g) /\ Len(g) = L /\ Listed(h) /\ Len(h) = P
      <3>1. L + P \in Nat
        BY <1>1
      <3> QED BY <1>1, <2>7, <3>1, FunctionIsListed
    <2>9. ASSUME NEW j \in 1..L PROVE f[j] = g[j]
      <3>1. j \in 1..(L + P)
        BY <1>1
      <3> QED BY <1>1, <2>4, <2>5, <3>1
    <2>10. ASSUME NEW j \in 1..P PROVE f[L + j] = h[j]
      <3>1. L + j \in 1..(L + P) /\ o.start + (L + j) - 1 = a + j - 1
        BY <1>1, <2>1, <2>2
      <3>2. f[L + j] = Append(st[L + j], o.start + (L + j) - 1) /\ st[L + j] = t[j]
        BY <1>1, <2>4, <3>1
      <3> QED BY <2>6, <3>1, <3>2
    <2>11. Joins(f, g, h)
      <3>1. \A j \in 1..Len(g) : f[j] = g[j]
        BY <2>8, <2>9
      <3>2. \A j \in 1..Len(h) : f[Len(g) + j] = h[j]
        BY <2>8, <2>10
      <3> QED BY <2>8, <3>1, <3>2, JoinEqual
    <2>12. Advanced(o, a, t) = After(o, st)
      BY <1>1, <2>1, <2>2, <2>3
    <2> QED BY <2>8, <2>11, <2>12 DEF a
  <1>5. CASE o.op = "filter"
    <2>1. After(o, st) = <<>> /\ Advanced(o, After(o, s), t) = <<>>
      BY <1>5 DEF After, Advanced
    <2>2. h = Apply(o, t)
      BY <1>5 DEF Made
    <2>3. Listed(h)
      BY <2>2, ApplyIsListed
    <2>4. f = FlattenSeq(Pieces(o.col, st)) /\ g = FlattenSeq(Pieces(o.col, s)) /\ h = FlattenSeq(Pieces(o.col, t))
      BY <1>1, <1>5, <2>2, FilteredIs DEF Apply
    <2> HIDE DEF f, g, h
    <2>5. Joins(f, g, h)
      <3> DEFINE p == Pieces(o.col, s)
                 q == Pieces(o.col, t)
      <3>1. Tables(p) /\ Tables(q)
        BY PiecesAreTables
      <3>2. Pieces(o.col, st) = p \o q
        BY PiecesJoin DEF st
      <3> HIDE DEF p, q
      <3>3. Joins(FlattenSeq(p \o q), FlattenSeq(p), FlattenSeq(q))
        BY <3>1, FlattenJoin DEF Joins
      <3> QED BY <2>4, <3>2, <3>3 DEF p, q
    <2> QED BY <2>1, <2>3, <2>5
  <1>6. CASE o.op \in {"select", "drop", "transform"}
    <2>1. After(o, st) = <<>> /\ Advanced(o, After(o, s), t) = <<>>
      BY <1>6 DEF After, Advanced
    <2>2. h = Apply(o, t)
      BY <1>6 DEF Made
    <2> DEFINE F(row) == IF o.op = "transform" THEN Transformed(o.ops, row) ELSE Part(row, o.cols)
    <2>3. ASSUME NEW r PROVE Apply(o, r) = [j \in DOMAIN r |-> F(r[j])]
      <3>1. CASE o.op \in {"select", "drop"}
        BY <3>1 DEF Apply
      <3>2. CASE o.op = "transform"
        BY <3>2 DEF Apply
      <3> QED BY <1>6, <3>1, <3>2
    <2>4. f = [j \in 1..(L + P) |-> F(st[j])] /\ g = [j \in 1..L |-> F(s[j])] /\ h = [j \in 1..P |-> F(t[j])]
      BY <1>2, <2>2, <2>3
    <2> HIDE DEF f, g, h, L, P, F
    <2>5. f = [j \in 1..(L + P) |-> f[j]] /\ g = [j \in 1..L |-> g[j]] /\ h = [j \in 1..P |-> h[j]]
      BY <2>4
    <2>6. Listed(f) /\ Len(f) = L + P /\ Listed(g) /\ Len(g) = L /\ Listed(h) /\ Len(h) = P
      <3>1. L + P \in Nat
        BY <1>1
      <3> QED BY <1>1, <2>5, <3>1, FunctionIsListed
    <2>7. ASSUME NEW j \in 1..L PROVE f[j] = g[j]
      <3>1. j \in 1..(L + P)
        BY <1>1
      <3> QED BY <1>1, <2>4, <3>1
    <2>8. ASSUME NEW j \in 1..P PROVE f[L + j] = h[j]
      <3>1. L + j \in 1..(L + P)
        BY <1>1
      <3> QED BY <1>1, <2>4, <3>1
    <2>9. Joins(f, g, h)
      <3>1. \A j \in 1..Len(g) : f[j] = g[j]
        BY <2>6, <2>7
      <3>2. \A j \in 1..Len(h) : f[Len(g) + j] = h[j]
        BY <2>6, <2>8
      <3> QED BY <2>6, <3>1, <3>2, JoinEqual
    <2> QED BY <2>1, <2>6, <2>9
  <1> QED BY <1>3, <1>4, <1>5, <1>6 DEF Passing

-----------------------------------------------------------------------------
(* The invariant of a chain.                                               *)

IsPtr(p) == p = Null \/ \E b : Listed(b) /\ p = Ptr(b)

\* The rows of the batch, if there is one.
RowsIn(p) == IF p = Null THEN <<>> ELSE p[1]

Shape ==
    /\ IsChain(chain)
    /\ Tables(input) /\ taken \in 0..Len(input)
    /\ live \in [Stages -> BOOLEAN]
    /\ state = [k \in Stages |-> state[k]]
    /\ at \in 0..Caller
    /\ moving \in {"down", "up", "threw"}
    /\ calls \in 0..MaxCalls
    /\ ended \in BOOLEAN
    /\ IsPtr(carry)
    /\ Tables(out) /\ Tables(FlattenSeq(out))

\* Every call of the caller has been answered but the one that is under way.
Answered ==
    /\ at = Caller => moving = "up" /\ Len(out) = calls
    /\ at # Caller => Len(out) + 1 = calls
    /\ at = 0 => moving # "up"

\* Stream `at` is given what the stream before it has returned.
Came == at \in Stages /\ moving # "down"

\* Streams end one after the other, the source first, and no call passes one that has.
InTurn ==
    /\ at # Caller => \A k \in Stages : k > at => live[k]
    /\ Came => live[at]
    /\ \A k \in Stages : ~live[k] => ended /\ \A j \in Stages : j < k => ~live[j]
    /\ Came /\ carry = Null => ended /\ \A j \in Stages : j < at => ~live[j]
    /\ ended /\ chain # <<>> => ~live[1] \/ (at = 1 /\ moving # "down" /\ carry = Null)
    /\ chain # <<>> => asked = 0

LastEnded == IF chain = <<>> THEN ended ELSE ~live[Len(chain)]

\* The caller has been told the end only if there was one, and then nothing else.
Told ==
    /\ Null \in ToSet(out) => LastEnded
    /\ \A m, n \in DOMAIN out : m < n /\ out[m] = Null => out[n] = Null

\* The rows a were given to a stream with operator o that lives or not and has the
\* state st, and it has returned the rows e.
StageMeans(o, lives, st, a, e) ==
    /\ Listed(a)
    /\ Listed(e)
    /\ o.op \in Passing => e = Apply(o, a) /\ st = After(o, a)
    /\ o.op \in Draining =>
         /\ e = IF lives THEN <<>> ELSE Apply(o, a)
         /\ st = IF o.op = "count" THEN Len(a) ELSE a

\* The rows that are on their way to stream k.
Pending(k) == IF at = k /\ moving # "down" THEN RowsIn(carry) ELSE <<>>

\* A[k] are the rows that stream k was given so far, E[k] those that it has returned.
Means(A, E) ==
    /\ A = [k \in Stages |-> A[k]]
    /\ E = [k \in 0..Len(chain) |-> E[k]]
    /\ E[0] = FlattenSeq(SubSeq(input, 1, taken))
    /\ Listed(E[0])
    /\ \A k \in Stages : StageMeans(chain[k], live[k], state[k], A[k], E[k])
    /\ \A k \in Stages : E[k - 1] = A[k] \o Pending(k)
    /\ FlattenSeq(FlattenSeq(out)) = E[Len(chain)]

ChainInv == Shape /\ Answered /\ InTurn /\ Told /\ \E A, E : Means(A, E)

\* The streams of a chain, by their numbers.
LEMMA ChainFacts ==
    ASSUME IsChain(chain)
    PROVE  /\ Len(chain) \in Nat /\ DOMAIN chain = 1..Len(chain) /\ Stages = 1..Len(chain)
           /\ Caller = Len(chain) + 1
           /\ \A k \in Stages : IsOperator(chain[k])
           /\ chain = <<>> <=> Len(chain) = 0
  <1>1. Len(chain) \in Nat /\ Listed(chain)
    BY DEF IsChain, Listed
  <1>2. DOMAIN chain = 1..Len(chain)
    BY <1>1, ListedDomain
  <1>3. \A k \in Stages : IsOperator(chain[k])
    BY <1>2 DEF IsChain, Stages
  <1>4. chain = <<>> <=> Len(chain) = 0
    <2>1. Len(chain) = 0 => chain = <<>>
      BY <1>1, ListedEmpty, ListedEqual
    <2>2. chain = <<>> => Len(chain) = 0
      BY ListedEmpty
    <2> QED BY <2>1, <2>2
  <1> QED BY <1>1, <1>2, <1>3, <1>4 DEF Stages, Caller

\* A pointer is the sequence of the batches behind it, which is one or none.
LEMMA PtrFacts ==
    ASSUME NEW p, IsPtr(p)
    PROVE  /\ Listed(p) /\ Tables(p) /\ Listed(RowsIn(p))
           /\ FlattenSeq(p) = RowsIn(p)
           /\ p # Null => p = Ptr(p[1]) /\ Listed(p[1])
  <1>1. CASE p = Null
    <2>1. Tables(<<>>) /\ FlattenSeq(<<>>) = <<>> /\ Listed(<<>>)
      BY FlattenNone, ListedEmpty
    <2> QED BY <1>1, <2>1 DEF Null, RowsIn
  <1>2. CASE p # Null
    <2>1. PICK b : Listed(b) /\ p = <<b>>
      BY <1>2 DEF IsPtr, Ptr
    <2>2. Listed(<<b>>) /\ <<b>>[1] = b /\ Tables(<<b>>) /\ FlattenSeq(<<b>>) = b
      BY <2>1, ListedOne, FlattenOne
    <2> QED BY <1>2, <2>1, <2>2 DEF Ptr, RowsIn
  <1> QED BY <1>1, <1>2

\* A pointer to a batch.
LEMMA PtrOf ==
    ASSUME NEW b, Listed(b)
    PROVE  IsPtr(Ptr(b)) /\ Ptr(b) # Null /\ RowsIn(Ptr(b)) = b
  <1>1. <<b>> # <<>> /\ <<b>>[1] = b
    BY ListedOne
  <1> QED BY <1>1 DEF IsPtr, Ptr, Null, RowsIn

\* What the caller has been given, after one more pointer.
LEMMA OneMore ==
    ASSUME NEW s, Tables(s), Tables(FlattenSeq(s)), NEW p, IsPtr(p)
    PROVE  /\ Tables(Append(s, p)) /\ Tables(FlattenSeq(Append(s, p)))
           /\ Joins(FlattenSeq(FlattenSeq(Append(s, p))), FlattenSeq(FlattenSeq(s)), RowsIn(p))
           /\ Listed(FlattenSeq(FlattenSeq(s)))
  <1>1. Listed(p) /\ Tables(p) /\ FlattenSeq(p) = RowsIn(p)
    BY PtrFacts
  <1> DEFINE all == FlattenSeq(s)
             more == FlattenSeq(Append(s, p))
  <1>2. Tables(Append(s, p)) /\ more = all \o p
    BY <1>1, FlattenAppend
  <1> HIDE DEF all, more
  <1>3. Tables(all)
    BY DEF all
  <1>4. Tables(all \o p)
    BY <1>1, <1>3, TablesJoin
  <1>5. Joins(FlattenSeq(all \o p), FlattenSeq(all), FlattenSeq(p)) /\ Listed(FlattenSeq(all))
    BY <1>1, <1>3, FlattenJoin DEF Joins
  <1> QED BY <1>1, <1>2, <1>4, <1>5 DEF all, more

\* A pointer that a stream returns goes on, to the next stream or to the caller.
LEMMA Returns ==
    ASSUME Shape, Answered, Told, at # Caller, NEW ptr, IsPtr(ptr), ReturnFrom(at, ptr),
           UNCHANGED <<chain, calls>>,
           LastEnded => LastEnded',
           at = Len(chain) /\ Null \in ToSet(out) => ptr = Null,
           at = Len(chain) /\ ptr = Null => LastEnded'
    PROVE  /\ IsPtr(carry') /\ at' = at + 1 /\ at' \in 0..Caller' /\ moving' = "up"
           /\ (Tables(out) /\ Tables(FlattenSeq(out)))'
           /\ Answered' /\ Told'
  <1>1. carry' = ptr /\ at' = at + 1 /\ moving' = "up" /\ out' = IF at = Len(chain) THEN Append(out, ptr) ELSE out
    BY DEF ReturnFrom
  <1>2. Len(chain) \in Nat /\ Caller = Len(chain) + 1 /\ at \in 0..Len(chain)
    BY ChainFacts DEF Shape
  <1>3. Caller' = Caller
    BY DEF Caller
  <1>4. Tables(out) /\ Tables(FlattenSeq(out))
    BY DEF Shape
  <1>5. Listed(out) /\ Len(out) \in Nat
    BY <1>4 DEF Tables, Listed
  <1>6. CASE at = Len(chain)
    <2> DEFINE more == Append(out, ptr)
    <2>1. out' = more
      BY <1>1, <1>6
    <2>2. Tables(more) /\ Tables(FlattenSeq(more))
      BY <1>4, OneMore
    <2>3. Listed(more) /\ Len(more) = Len(out) + 1 /\ more[Len(out) + 1] = ptr /\ \A j \in 1..Len(out) : more[j] = out[j]
      <3>1. Listed(more) /\ Len(more) = Len(out) + 1
        BY <1>5, ListedAppend
      <3>2. more[Len(out) + 1] = ptr
        BY <1>5, ListedAppend
      <3>3. \A j \in 1..Len(out) : more[j] = out[j]
        BY <1>5, ListedAppend
      <3> QED BY <3>1, <3>2, <3>3
    <2>4. DOMAIN out = 1..Len(out) /\ DOMAIN more = 1..(Len(out) + 1)
      BY <1>5, <2>3, ListedDomain
    <2> HIDE DEF more
    <2>5. Answered'
      <3>1. Len(out)' = Len(out) + 1
        BY <2>1, <2>3
      <3>2. Len(out) + 1 = calls
        BY DEF Answered
      <3> QED BY <1>1, <1>2, <1>3, <1>6, <3>1, <3>2 DEF Answered
    <2>6. Null \in ToSet(out)' => LastEnded'
      <3>1. ASSUME Null \in ToSet(more) PROVE LastEnded'
        <4>1. PICK n \in 1..(Len(out) + 1) : more[n] = Null
          BY <2>4, <3>1 DEF ToSet
        <4>2. CASE n = Len(out) + 1
          BY <1>6, <2>3, <4>1, <4>2
        <4>3. CASE n # Len(out) + 1
          <5>1. n \in 1..Len(out)
            BY <1>5, <4>3
          <5>2. Null \in ToSet(out)
            BY <2>3, <2>4, <4>1, <5>1 DEF ToSet
          <5> QED BY <5>2 DEF Told
        <4> QED BY <4>2, <4>3
      <3> QED BY <2>1, <3>1
    <2>7. ASSUME NEW m \in 1..(Len(out) + 1), NEW n \in 1..(Len(out) + 1), m < n, more[m] = Null
          PROVE  more[n] = Null
      <3>1. m \in 1..Len(out) /\ out[m] = Null
        BY <1>5, <2>3, <2>7
      <3>2. CASE n = Len(out) + 1
        <4>1. Null \in ToSet(out)
          BY <2>4, <3>1 DEF ToSet
        <4> QED BY <1>6, <2>3, <3>2, <4>1
      <3>3. CASE n # Len(out) + 1
        <4>1. n \in 1..Len(out)
          BY <1>5, <3>3
        <4>2. out[n] = Null
          BY <2>4, <2>7, <3>1, <4>1 DEF Told
        <4> QED BY <2>3, <4>1, <4>2
      <3> QED BY <3>2, <3>3
    <2>8. Told'
      <3>1. Null' = Null
        BY DEF Null
      <3>2. \A m, n \in DOMAIN more : m < n /\ more[m] = Null => more[n] = Null
        BY <2>4, <2>7
      <3> QED BY <2>1, <2>6, <3>1, <3>2 DEF Told
    <2>9. (Tables(out) /\ Tables(FlattenSeq(out)))'
      BY <2>1, <2>2
    <2> QED BY <1>1, <1>2, <1>3, <2>5, <2>8, <2>9
  <1>7. CASE at # Len(chain)
    <2>1. out' = out
      BY <1>1, <1>7
    <2>2. Answered'
      <3>1. Len(out) + 1 = calls
        BY DEF Answered
      <3> QED BY <1>1, <1>2, <1>3, <1>7, <2>1, <3>1 DEF Answered
    <2>3. Told'
      BY <2>1 DEF Told, Null
    <2>4. (Tables(out) /\ Tables(FlattenSeq(out)))'
      BY <1>4, <2>1
    <2> QED BY <1>1, <1>2, <1>3, <2>2, <2>3, <2>4
  <1> QED BY <1>6, <1>7

\* The rows given and returned are sequences.
LEMMA MeansFacts ==
    ASSUME Shape, NEW A, NEW E, Means(A, E)
    PROVE  /\ \A k \in Stages : Listed(A[k])
           /\ \A k \in 0..Len(chain) : Listed(E[k])
           /\ \A k \in Stages : Pending(k) = <<>> => E[k - 1] = A[k]
  <1>1. Len(chain) \in Nat /\ Stages = 1..Len(chain)
    BY ChainFacts DEF Shape
  <1>2. \A k \in Stages : Listed(A[k]) /\ Listed(E[k])
    BY DEF Means, StageMeans
  <1>3. ASSUME NEW k \in 0..Len(chain) PROVE Listed(E[k])
    <2>1. CASE k = 0
      BY <2>1 DEF Means
    <2>2. CASE k # 0
      <3>1. k \in Stages
        BY <1>1, <2>2
      <3> QED BY <1>2, <3>1
    <2> QED BY <2>1, <2>2
  <1>4. ASSUME NEW k \in Stages, Pending(k) = <<>> PROVE E[k - 1] = A[k]
    <2>1. E[k - 1] = A[k] \o Pending(k)
      BY DEF Means
    <2>2. A[k] \o <<>> = A[k]
      BY <1>2, ListedEmpty
    <2> QED BY <1>4, <2>1, <2>2
  <1> QED BY <1>2, <1>3, <1>4

\* The stream that runs returns a pointer: A are the rows that the streams have been
\* given then, E1 those that they had returned, and E2 those that they have now.
Giving(ptr, A, E1, E2) ==
    /\ at # Caller /\ IsPtr(ptr) /\ ReturnFrom(at, ptr) /\ chain' = chain
    /\ A = [k \in Stages |-> A[k]]
    /\ E2 = [k \in 0..Len(chain) |-> E2[k]]
    /\ E2[0] = FlattenSeq(SubSeq(input', 1, taken'))
    /\ Listed(E2[0])
    /\ \A k \in Stages : StageMeans(chain[k], live'[k], state'[k], A[k], E2[k])
    /\ \A k \in Stages : E1[k - 1] = A[k]
    /\ \A k \in 0..Len(chain) : k # at => E2[k] = E1[k]
    /\ Joins(E2[at], E1[at], RowsIn(ptr))
    /\ FlattenSeq(FlattenSeq(out)) = E1[Len(chain)]

\* What is returned has then been returned, and is on its way.
LEMMA MeansAfter ==
    ASSUME Shape, NEW ptr, NEW A, NEW E1, NEW E2, Giving(ptr, A, E1, E2)
    PROVE  Means(A, E2)'
  <1>0. /\ at # Caller /\ IsPtr(ptr) /\ ReturnFrom(at, ptr) /\ chain' = chain
        /\ A = [k \in Stages |-> A[k]]
        /\ E2 = [k \in 0..Len(chain) |-> E2[k]]
        /\ E2[0] = FlattenSeq(SubSeq(input', 1, taken'))
        /\ Listed(E2[0])
        /\ \A k \in Stages : StageMeans(chain[k], live'[k], state'[k], A[k], E2[k])
        /\ \A k \in Stages : E1[k - 1] = A[k]
        /\ \A k \in 0..Len(chain) : k # at => E2[k] = E1[k]
        /\ Joins(E2[at], E1[at], RowsIn(ptr))
        /\ FlattenSeq(FlattenSeq(out)) = E1[Len(chain)]
    BY Zenon DEF Giving
  <1>1. carry' = ptr /\ at' = at + 1 /\ moving' = "up" /\ out' = IF at = Len(chain) THEN Append(out, ptr) ELSE out
    BY <1>0 DEF ReturnFrom
  <1>2. /\ Len(chain) \in Nat /\ Stages = 1..Len(chain) /\ at \in 0..Len(chain)
        /\ \A k \in Stages : k - 1 \in 0..Len(chain)
    BY <1>0, ChainFacts DEF Shape
  <1>3. Stages' = Stages
    BY <1>0 DEF Stages
  <1>4. ASSUME NEW k \in Stages PROVE E2[k - 1] = A[k] \o Pending(k)'
    <2>1. Pending(k)' = IF k = at + 1 THEN RowsIn(ptr) ELSE <<>>
      BY <1>1 DEF Pending, RowsIn, Null
    <2>2. Listed(A[k]) /\ E1[k - 1] = A[k]
      BY <1>0 DEF StageMeans
    <2>3. CASE k = at + 1
      <3>1. k - 1 = at
        BY <1>2, <2>3
      <3> QED BY <1>0, <2>1, <2>2, <2>3, <3>1 DEF Joins
    <2>4. CASE k # at + 1
      <3>1. k - 1 # at /\ k - 1 \in 0..Len(chain)
        BY <1>2, <2>4
      <3>2. E2[k - 1] = A[k] /\ A[k] \o <<>> = A[k]
        BY <1>0, <2>2, <3>1, ListedEmpty
      <3> QED BY <2>1, <2>4, <3>2
    <2> QED BY <2>3, <2>4
  <1>5. FlattenSeq(FlattenSeq(out')) = E2[Len(chain)]
    <2>1. CASE at = Len(chain)
      <3>1. Joins(FlattenSeq(FlattenSeq(Append(out, ptr))), FlattenSeq(FlattenSeq(out)), RowsIn(ptr))
        BY <1>0, OneMore DEF Shape
      <3> QED BY <1>0, <1>1, <2>1, <3>1 DEF Joins
    <2>2. CASE at # Len(chain)
      <3>1. Len(chain) \in 0..Len(chain)
        BY <1>2
      <3> QED BY <1>0, <1>1, <2>2, <3>1
    <2> QED BY <2>1, <2>2
  <1> QED BY <1>0, <1>3, <1>4, <1>5 DEF Means, StageMeans

-----------------------------------------------------------------------------
(* The steps of a chain.                                                   *)

\* The caller calls: what was on its way has arrived.
LEMMA CallNextKeeps ==
    ASSUME ChainInv, CallNext
    PROVE  ChainInv'
  <1>1. PICK A, E : Means(A, E)
    BY DEF ChainInv
  <1>2. Shape /\ Answered /\ InTurn /\ Told
    BY DEF ChainInv
  <1>3. /\ at = Caller /\ moving = "up" /\ calls < MaxCalls /\ calls' = calls + 1
        /\ at' = Len(chain) /\ moving' = "down"
        /\ UNCHANGED <<chain, input, taken, asked, ended, live, state, carry, out>>
    BY DEF CallNext
  <1>4. Len(chain) \in Nat /\ Stages = 1..Len(chain) /\ Caller = Len(chain) + 1 /\ (chain = <<>> <=> Len(chain) = 0)
    BY <1>2, ChainFacts DEF Shape
  <1>5. Stages' = Stages /\ Caller' = Caller /\ LastEnded' = LastEnded
    BY <1>3 DEF Stages, Caller, LastEnded
  <1>6. Shape'
    <2>1. calls' \in 0..MaxCalls
      BY <1>2, <1>3, CallsAssumption DEF Shape
    <2>2. at' \in 0..Caller'
      BY <1>3, <1>4, <1>5
    <2>3. IsPtr(carry)'
      BY <1>2, <1>3 DEF Shape, IsPtr, Null, Ptr
    <2> QED BY <1>2, <1>3, <1>5, <2>1, <2>2, <2>3 DEF Shape, IsChain
  <1>7. Answered'
    <2>1. Len(out) = calls
      BY <1>2, <1>3 DEF Answered
    <2>2. at' # Caller'
      BY <1>3, <1>4, <1>5
    <2>3. Len(out)' + 1 = calls'
      BY <1>3, <2>1
    <2> QED BY <1>3, <2>2, <2>3 DEF Answered
  <1>8. InTurn'
    <2>1. Came' = FALSE
      BY <1>3 DEF Came
    <2>2. \A k \in Stages' : ~(k > at')
      BY <1>3, <1>4, <1>5
    <2>3. chain # <<>> => at # 1
      BY <1>3, <1>4
    <2>4. ended /\ chain # <<>> => ~live[1]
      BY <1>2, <2>3 DEF InTurn
    <2>5. \A k \in Stages : ~live[k] => ended /\ \A j \in Stages : j < k => ~live[j]
      BY <1>2 DEF InTurn
    <2>6. chain # <<>> => asked = 0
      BY <1>2 DEF InTurn
    <2> QED BY <1>3, <1>5, <2>1, <2>2, <2>4, <2>5, <2>6 DEF InTurn
  <1>9. Told'
    BY <1>2, <1>3, <1>5 DEF Told, Null
  <1>10. Means(A, E)'
    <2>1. ASSUME NEW k \in Stages PROVE E[k - 1] = A[k] \o Pending(k)'
      <3>1. Pending(k) = Pending(k)'
        BY <1>3, <1>4 DEF Pending
      <3> QED BY <1>1, <3>1 DEF Means
    <2> QED BY <1>1, <1>3, <1>5, <2>1 DEF Means
  <1> QED BY <1>6, <1>7, <1>8, <1>9, <1>10 DEF ChainInv

\* The first n of a sequence.
LEMMA PrefixIs ==
    ASSUME NEW s, Listed(s), NEW n \in 0..Len(s)
    PROVE  /\ Listed(SubSeq(s, 1, n)) /\ Len(SubSeq(s, 1, n)) = n
           /\ \A j \in 1..n : SubSeq(s, 1, n)[j] = s[j]
  <1>1. n \in Nat /\ n <= Len(s) /\ 1 \in Nat /\ 1 <= 1
    BY DEF Listed
  <1>2. Listed(SubSeq(s, 1, n)) /\ Len(SubSeq(s, 1, n)) = IF 1 <= n THEN n - 1 + 1 ELSE 0
    BY <1>1, ListedPart
  <1>3. \A j \in 1..(n - 1 + 1) : SubSeq(s, 1, n)[j] = s[1 + j - 1]
    BY <1>1, ListedPart
  <1>4. n - 1 + 1 = n /\ \A j \in 1..n : 1 + j - 1 = j
    BY <1>1
  <1> QED BY <1>1, <1>2, <1>3, <1>4

\* The source gives its next batch, or null.
LEMMA SourceNextKeeps ==
    ASSUME ChainInv, SourceNext, ended => taken = Len(input)
    PROVE  ChainInv'
  <1>1. PICK A, E : Means(A, E)
    BY DEF ChainInv
  <1>2. Shape /\ Answered /\ InTurn /\ Told
    BY DEF ChainInv
  <1>3. at = 0 /\ moving = "down" /\ UNCHANGED <<chain, input, live, state, calls>>
    BY DEF SourceNext
  <1>4. /\ Len(chain) \in Nat /\ Stages = 1..Len(chain) /\ Caller = Len(chain) + 1
        /\ chain = <<>> <=> Len(chain) = 0
    BY <1>2, ChainFacts DEF Shape
  <1>5. Stages' = Stages /\ Caller' = Caller
    BY <1>3 DEF Stages, Caller
  <1>6. at # Caller /\ ~Came /\ \A k \in Stages : live[k]
    BY <1>2, <1>3, <1>4 DEF InTurn, Came
  <1>7. \A k \in Stages : Pending(k) = <<>>
    BY <1>3 DEF Pending
  <1>8. /\ \A k \in Stages : Listed(A[k])
        /\ \A k \in 0..Len(chain) : Listed(E[k])
        /\ \A k \in Stages : E[k - 1] = A[k]
    BY <1>1, <1>2, <1>7, MeansFacts
  <1>9. Listed(input) /\ Tables(input) /\ Len(input) \in Nat /\ taken \in 0..Len(input)
    BY <1>2 DEF Shape, Tables, Listed
  <1>10. chain # <<>> => ~ended /\ asked = 0
    <2>1. ASSUME chain # <<>> PROVE ~ended
      <3>1. 1 \in Stages
        BY <1>4, <2>1
      <3>2. live[1] /\ at # 1
        BY <1>3, <1>6, <3>1
      <3> QED BY <1>2, <2>1, <3>2 DEF InTurn
    <2> QED BY <1>2, <2>1 DEF InTurn
  <1>0. chain' = chain
    BY <1>3
  <1>11. CASE taken < Len(input)
    <2> DEFINE b == input[taken + 1]
    <2>1. taken' = taken + 1 /\ ReturnFrom(at, Ptr(b)) /\ UNCHANGED <<asked, ended>>
      BY <1>3, <1>11 DEF SourceNext
    <2>2. ~ended
      BY <1>9, <1>11
    <2>3. Listed(b)
      BY <1>9, <1>11 DEF Tables
    <2> HIDE DEF b
    <2>4. IsPtr(Ptr(b)) /\ Ptr(b) # Null /\ RowsIn(Ptr(b)) = b
      BY <2>3, PtrOf
    <2>5. LastEnded' = LastEnded
      BY <1>3, <2>1 DEF LastEnded
    <2>6. at = Len(chain) /\ Null \in ToSet(out) => Ptr(b) = Null
      BY <1>2, <1>3, <1>4, <2>2 DEF Told, LastEnded
    <2>7. /\ IsPtr(carry') /\ at' = at + 1 /\ at' \in 0..Caller' /\ moving' = "up"
          /\ (Tables(out) /\ Tables(FlattenSeq(out)))'
          /\ Answered' /\ Told'
      BY <1>2, <1>3, <1>6, <2>1, <2>4, <2>5, <2>6, Returns
    <2>8. Shape'
      <3>1. taken' \in 0..Len(input')
        BY <1>3, <1>9, <1>11, <2>1
      <3>2. IsPtr(carry)'
        BY <2>7 DEF IsPtr, Null, Ptr
      <3> QED BY <1>2, <1>3, <1>5, <2>1, <2>7, <3>1, <3>2 DEF Shape, IsChain
    <2>9. InTurn'
      <3>1. carry' # Null
        BY <2>1, <2>4 DEF ReturnFrom
      <3>2. ~ended' /\ (chain' # <<>> => asked' = 0)
        BY <1>3, <1>10, <2>1, <2>2
      <3>3. \A k \in Stages' : live'[k]
        BY <1>3, <1>5, <1>6
      <3> QED BY <1>3, <1>5, <3>1, <3>2, <3>3 DEF InTurn, Came, Null
    <2>19. PICK E2 : E2 = [E EXCEPT ![0] = E[0] \o b]
      OBVIOUS
    <2>10. /\ E2 = [k \in 0..Len(chain) |-> E2[k]]
           /\ E2[0] = E[0] \o b
           /\ \A k \in 0..Len(chain) : k # 0 => E2[k] = E[k]
      <3>1. 0 \in 0..Len(chain) /\ E = [k \in 0..Len(chain) |-> E[k]]
        BY <1>1, <1>4 DEF Means
      <3> QED BY <2>19, <3>1
    <2>11. E2[0] = FlattenSeq(SubSeq(input', 1, taken'))
      <3> DEFINE p == SubSeq(input, 1, taken)
                 q == SubSeq(input, 1, taken + 1)
      <3>1. E[0] = FlattenSeq(p)
        BY <1>1 DEF Means
      <3>2. Listed(p) /\ Len(p) = taken /\ \A j \in 1..taken : p[j] = input[j]
        BY <1>9, PrefixIs
      <3>3. Listed(q) /\ Len(q) = taken + 1 /\ \A j \in 1..(taken + 1) : q[j] = input[j]
        <4>1. taken + 1 \in 0..Len(input)
          BY <1>9, <1>11
        <4> QED BY <1>9, <4>1, PrefixIs
      <3> HIDE DEF p, q
      <3>4. Tables(p)
        BY <1>9, <3>2 DEF Tables
      <3>5. Listed(Append(p, b)) /\ Len(Append(p, b)) = taken + 1 /\ Append(p, b)[taken + 1] = b
        BY <3>2, ListedAppend
      <3>6. \A j \in 1..taken : Append(p, b)[j] = p[j]
        BY <3>2, ListedAppend
      <3>7. ASSUME NEW j \in 1..(taken + 1) PROVE q[j] = Append(p, b)[j]
        <4>1. CASE j = taken + 1
          BY <3>3, <3>5, <4>1 DEF b
        <4>2. CASE j # taken + 1
          <5>1. j \in 1..taken
            BY <1>9, <4>2
          <5> QED BY <3>2, <3>3, <3>6, <5>1
        <4> QED BY <4>1, <4>2
      <3>8. q = Append(p, b)
        BY <3>3, <3>5, <3>7, ListedEqual
      <3>9. Joins(FlattenSeq(Append(p, b)), FlattenSeq(p), b)
        BY <2>3, <3>4, FlattenAppend DEF Joins
      <3>10. FlattenSeq(q) = E[0] \o b
        BY <3>1, <3>8, <3>9 DEF Joins
      <3> QED BY <1>3, <2>1, <2>10, <3>10 DEF q
    <2>12. Listed(E2[0])
      <3>1. Listed(E[0])
        BY <1>1 DEF Means
      <3>2. Listed(E[0] \o b)
        BY <2>3, <3>1, ListedJoin
      <3> QED BY <2>10, <3>2
    <2>13. \A k \in Stages : StageMeans(chain[k], live'[k], state'[k], A[k], E2[k])
      <3>1. \A k \in Stages : E2[k] = E[k]
        BY <1>4, <2>10
      <3> QED BY <1>1, <1>3, <3>1 DEF Means
    <2>14. Joins(E2[at], E[at], RowsIn(Ptr(b)))
      BY <1>3, <2>4, <2>10 DEF Joins
    <2>15. A = [k \in Stages |-> A[k]] /\ FlattenSeq(FlattenSeq(out)) = E[Len(chain)]
      BY <1>1 DEF Means
    <2>16. \A k \in 0..Len(chain) : k # at => E2[k] = E[k]
      BY <1>3, <2>10
    <2>17. E2 = [k \in 0..Len(chain) |-> E2[k]]
      BY <2>10
    <2>18. Means(A, E2)'
      <3>1. ReturnFrom(at, Ptr(b)) /\ IsPtr(Ptr(b)) /\ Shape /\ at # Caller
        BY <1>2, <1>6, <2>1, <2>4
      <3>2. \A k \in Stages : E[k - 1] = A[k]
        BY <1>8
      <3>3. Giving(Ptr(b), A, E, E2)
        BY <1>0, <2>11, <2>12, <2>13, <2>14, <2>15, <2>16, <2>17, <3>1, <3>2, Zenon DEF Giving
      <3> QED BY <3>1, <3>3, MeansAfter
    <2> QED BY <2>7, <2>8, <2>9, <2>18 DEF ChainInv
  <1>12. CASE ~(taken < Len(input))
    <2>1. ReturnFrom(at, Null) /\ ended' = TRUE /\ taken' = taken /\ asked' = IF ended THEN asked + 1 ELSE asked
      BY <1>3, <1>12 DEF SourceNext
    <2>2. IsPtr(Null) /\ RowsIn(Null) = <<>>
      BY DEF IsPtr, RowsIn
    <2>3. LastEnded => LastEnded'
      BY <1>3, <2>1 DEF LastEnded
    <2>4. at = Len(chain) => LastEnded'
      BY <1>3, <1>4, <2>1 DEF LastEnded
    <2>5. /\ IsPtr(carry') /\ at' = at + 1 /\ at' \in 0..Caller' /\ moving' = "up"
          /\ (Tables(out) /\ Tables(FlattenSeq(out)))'
          /\ Answered' /\ Told'
      BY <1>2, <1>3, <1>6, <2>1, <2>2, <2>3, <2>4, Returns
    <2>6. Shape'
      <3>1. IsPtr(carry)'
        BY <2>5 DEF IsPtr, Null, Ptr
      <3> QED BY <1>2, <1>3, <1>5, <2>1, <2>5, <3>1 DEF Shape, IsChain
    <2>7. InTurn'
      <3>1. carry' = Null /\ at' = 1
        BY <1>3, <2>1, <2>5 DEF ReturnFrom
      <3>2. ended' /\ (chain' # <<>> => asked' = 0)
        BY <1>3, <1>10, <2>1
      <3>3. \A k \in Stages' : live'[k]
        BY <1>3, <1>5, <1>6
      <3>4. \A j \in Stages' : ~(j < at')
        BY <1>4, <1>5, <3>1
      <3> QED BY <1>3, <1>5, <2>5, <3>1, <3>2, <3>3, <3>4 DEF InTurn, Came, Null
    <2>8. Joins(E[at], E[at], RowsIn(Null))
      <3>1. Listed(E[at])
        BY <1>3, <1>4, <1>8
      <3> QED BY <2>2, <3>1, ListedEmpty DEF Joins
    <2>9. /\ A = [k \in Stages |-> A[k]] /\ E = [k \in 0..Len(chain) |-> E[k]]
          /\ FlattenSeq(FlattenSeq(out)) = E[Len(chain)]
          /\ E[0] = FlattenSeq(SubSeq(input', 1, taken')) /\ Listed(E[0])
          /\ \A k \in Stages : StageMeans(chain[k], live'[k], state'[k], A[k], E[k])
      BY <1>1, <1>3, <2>1 DEF Means
    <2>10. Means(A, E)'
      <3>1. ReturnFrom(at, Null) /\ IsPtr(Null) /\ Shape /\ at # Caller
        BY <1>2, <1>6, <2>1, <2>2
      <3>2. \A k \in Stages : E[k - 1] = A[k]
        BY <1>8
      <3>3. Giving(Null, A, E, E)
        BY <1>0, <2>8, <2>9, <3>1, <3>2, Zenon DEF Giving
      <3> QED BY <3>1, <3>3, MeansAfter
    <2> QED BY <2>5, <2>6, <2>7, <2>10 DEF ChainInv
  <1> QED BY <1>11, <1>12

\* A call goes on to the stream before, or a stream that has ended answers it.
LEMMA StageNextKeeps ==
    ASSUME ChainInv, StageNext
    PROVE  ChainInv'
  <1>1. PICK A, E : Means(A, E)
    BY DEF ChainInv
  <1>2. Shape /\ Answered /\ InTurn /\ Told
    BY DEF ChainInv
  <1>3. /\ at \in Stages /\ moving = "down"
        /\ UNCHANGED <<chain, input, taken, asked, ended, live, state, calls>>
    BY DEF StageNext
  <1>4. /\ Len(chain) \in Nat /\ Stages = 1..Len(chain) /\ Caller = Len(chain) + 1
        /\ chain = <<>> <=> Len(chain) = 0
    BY <1>2, ChainFacts DEF Shape
  <1>5. Stages' = Stages /\ Caller' = Caller /\ LastEnded' = LastEnded
    BY <1>3 DEF Stages, Caller, LastEnded
  <1>6. at # Caller /\ ~Came /\ at \in Nat /\ chain # <<>>
    BY <1>3, <1>4 DEF Came
  <1>7. \A k \in Stages : Pending(k) = <<>>
    BY <1>3 DEF Pending
  <1>8. /\ \A k \in 0..Len(chain) : Listed(E[k])
        /\ \A k \in Stages : E[k - 1] = A[k]
    BY <1>1, <1>2, <1>7, MeansFacts
  <1>9. ended => ~live[1]
    BY <1>2, <1>3, <1>6 DEF InTurn
  <1>10. CASE live[at]
    <2>1. at' = at - 1 /\ moving' = "down" /\ UNCHANGED <<carry, out>>
      BY <1>3, <1>10 DEF StageNext
    <2>2. Shape'
      <3>1. at' \in 0..Caller'
        BY <1>3, <1>4, <1>5, <2>1
      <3>2. IsPtr(carry)'
        BY <1>2, <2>1 DEF Shape, IsPtr, Null, Ptr
      <3> QED BY <1>2, <1>3, <1>5, <2>1, <3>1, <3>2 DEF Shape, IsChain
    <2>3. Answered'
      <3>1. Len(out) + 1 = calls /\ at' # Caller'
        BY <1>2, <1>3, <1>4, <1>5, <1>6, <2>1 DEF Answered
      <3> QED BY <1>3, <2>1, <3>1 DEF Answered
    <2>4. InTurn'
      <3>1. ~Came'
        BY <2>1 DEF Came
      <3>2. ASSUME NEW k \in Stages, k > at - 1 PROVE live[k]
        <4>1. k = at \/ k > at
          BY <1>3, <1>4, <3>2
        <4> QED BY <1>2, <1>6, <1>10, <4>1 DEF InTurn
      <3>3. \A k \in Stages' : k > at' => live'[k]
        BY <1>3, <1>5, <2>1, <3>2
      <3>4. \A k \in Stages : ~live[k] => ended /\ \A j \in Stages : j < k => ~live[j]
        BY <1>2 DEF InTurn
      <3>5. asked = 0
        BY <1>2, <1>6 DEF InTurn
      <3> QED BY <1>3, <1>5, <1>9, <3>1, <3>3, <3>4, <3>5 DEF InTurn
    <2>5. Told'
      BY <1>2, <1>5, <2>1 DEF Told, Null
    <2>6. Means(A, E)'
      <3>1. \A k \in Stages : Pending(k)' = Pending(k)
        BY <1>7, <2>1 DEF Pending
      <3> QED BY <1>1, <1>3, <1>5, <2>1, <3>1 DEF Means
    <2> QED BY <2>2, <2>3, <2>4, <2>5, <2>6 DEF ChainInv
  <1>11. CASE ~live[at]
    <2>1. ReturnFrom(at, Null)
      BY <1>3, <1>11 DEF StageNext
    <2>2. IsPtr(Null) /\ RowsIn(Null) = <<>>
      BY DEF IsPtr, RowsIn
    <2>3. at = Len(chain) => LastEnded'
      BY <1>5, <1>6, <1>11 DEF LastEnded
    <2>4. /\ IsPtr(carry') /\ at' = at + 1 /\ at' \in 0..Caller' /\ moving' = "up"
          /\ (Tables(out) /\ Tables(FlattenSeq(out)))'
          /\ Answered' /\ Told'
      BY <1>2, <1>3, <1>5, <1>6, <2>1, <2>2, <2>3, Returns
    <2>5. Shape'
      <3>1. IsPtr(carry)'
        BY <2>4 DEF IsPtr, Null, Ptr
      <3> QED BY <1>2, <1>3, <1>5, <2>4, <3>1 DEF Shape, IsChain
    <2>6. InTurn'
      <3>1. \A k \in Stages : k > at => live[k]
        BY <1>2, <1>6 DEF InTurn
      <3>2. ended /\ \A j \in Stages : j < at => ~live[j]
        BY <1>2, <1>3, <1>11 DEF InTurn
      <3>3. \A j \in Stages : j < at + 1 => ~live[j]
        <4>1. ASSUME NEW j \in Stages, j < at + 1 PROVE j < at \/ j = at
          BY <1>4, <1>6, <4>1
        <4> QED BY <1>11, <3>2, <4>1
      <3>4. Came' => live[at + 1]
        BY <1>5, <1>6, <2>4, <3>1 DEF Came
      <3>5. \A k \in Stages : k > at + 1 => live[k]
        BY <1>4, <1>6, <3>1
      <3>6. \A k \in Stages : ~live[k] => ended /\ \A j \in Stages : j < k => ~live[j]
        BY <1>2 DEF InTurn
      <3>7. asked = 0
        BY <1>2, <1>6 DEF InTurn
      <3> QED BY <1>3, <1>5, <1>9, <2>4, <3>2, <3>3, <3>4, <3>5, <3>6, <3>7 DEF InTurn
    <2>7. Joins(E[at], E[at], RowsIn(Null))
      <3>1. Listed(E[at])
        BY <1>3, <1>4, <1>8
      <3> QED BY <2>2, <3>1, ListedEmpty DEF Joins
    <2>8. /\ A = [k \in Stages |-> A[k]] /\ E = [k \in 0..Len(chain) |-> E[k]]
          /\ FlattenSeq(FlattenSeq(out)) = E[Len(chain)]
          /\ E[0] = FlattenSeq(SubSeq(input', 1, taken')) /\ Listed(E[0])
          /\ \A k \in Stages : StageMeans(chain[k], live'[k], state'[k], A[k], E[k])
      BY <1>1, <1>3 DEF Means
    <2>9. Giving(Null, A, E, E)
      BY <1>3, <1>6, <1>8, <2>1, <2>2, <2>7, <2>8, Zenon DEF Giving
    <2>10. Means(A, E)'
      BY <1>2, <2>9, MeansAfter
    <2> QED BY <2>4, <2>5, <2>6, <2>10 DEF ChainInv
  <1> QED BY <1>10, <1>11

\* A batch comes to a stream that passes batches on.
LEMMA PassOnKeeps ==
    ASSUME ChainInv, PassOn
    PROVE  ChainInv'
  <1>1. PICK A, E : Means(A, E)
    BY DEF ChainInv
  <1>2. Shape /\ Answered /\ InTurn /\ Told
    BY DEF ChainInv
  <1> DEFINE o == chain[at]
             b == Given
             made == Made(o, state[at], b)
  <1>3. /\ at \in Stages /\ moving = "up" /\ carry # Null
        /\ o.op \notin Draining
        /\ state' = [state EXCEPT ![at] = Advanced(o, state[at], b)]
        /\ ReturnFrom(at, Ptr(made))
        /\ UNCHANGED <<chain, input, taken, asked, ended, live, calls>>
    BY DEF PassOn
  <1>4. /\ Len(chain) \in Nat /\ Stages = 1..Len(chain) /\ Caller = Len(chain) + 1
        /\ chain = <<>> <=> Len(chain) = 0
        /\ IsOperator(o)
    BY <1>2, <1>3, ChainFacts DEF Shape
  <1>5. Stages' = Stages /\ Caller' = Caller /\ LastEnded' = LastEnded
    BY <1>3 DEF Stages, Caller, LastEnded
  <1>6. at # Caller /\ Came /\ at \in Nat /\ chain # <<>> /\ live[at]
    BY <1>2, <1>3, <1>4 DEF InTurn, Came
  <1>7. o.op \in Passing
    BY <1>3, <1>4 DEF IsOperator
  <1>8. Listed(b) /\ RowsIn(carry) = b
    BY <1>2, <1>3, PtrFacts DEF Shape, Given, RowsIn
  <1>9. Listed(A[at]) /\ E[at] = Apply(o, A[at]) /\ state[at] = After(o, A[at])
    BY <1>1, <1>3, <1>7 DEF Means, StageMeans
  <1>10. /\ Joins(Apply(o, A[at] \o b), Apply(o, A[at]), made)
         /\ Advanced(o, state[at], b) = After(o, A[at] \o b)
         /\ Listed(made)
    <2> DEFINE a == A[at]
    <2>1. Listed(a) /\ IsOperator(o) /\ o.op \in Passing /\ Listed(b)
      BY <1>4, <1>7, <1>8, <1>9
    <2>2. made = Made(o, After(o, a), b) /\ state[at] = After(o, a)
      BY <1>9
    <2> HIDE DEF a, b, o, made
    <2>3. Joins(Apply(o, a \o b), Apply(o, a), Made(o, After(o, a), b))
      BY <2>1, Passes
    <2>4. Advanced(o, After(o, a), b) = After(o, a \o b) /\ Listed(Made(o, After(o, a), b))
      BY <2>1, Passes
    <2> QED BY <2>2, <2>3, <2>4 DEF a
  <1>11. Listed(A[at] \o b)
    BY <1>8, <1>9, ListedJoin
  <1>12. Listed(Apply(o, A[at] \o b))
    BY <1>4, <1>11, ApplyIsListed
  <1>13. E[at - 1] = A[at] \o b
    <2>1. Pending(at) = b
      BY <1>3, <1>8 DEF Pending
    <2> QED BY <1>1, <1>3, <2>1 DEF Means
  <1>14. ASSUME NEW k \in Stages, k # at PROVE E[k - 1] = A[k]
    <2>1. Pending(k) = <<>>
      BY <1>14 DEF Pending
    <2> QED BY <1>1, <1>2, <2>1, MeansFacts
  <1> HIDE DEF made, b, o
  <1>15. IsPtr(Ptr(made)) /\ Ptr(made) # Null /\ RowsIn(Ptr(made)) = made
    BY <1>10, PtrOf
  <1>16. at = Len(chain) => ~(Null \in ToSet(out))
    BY <1>2, <1>6 DEF Told, LastEnded
  <1>17. /\ IsPtr(carry') /\ at' = at + 1 /\ at' \in 0..Caller' /\ moving' = "up"
         /\ (Tables(out) /\ Tables(FlattenSeq(out)))'
         /\ Answered' /\ Told'
    BY <1>2, <1>3, <1>5, <1>6, <1>15, <1>16, Returns
  <1>18. Shape'
    <2>1. IsPtr(carry)'
      BY <1>17 DEF IsPtr, Null, Ptr
    <2>2. state' = [k \in Stages |-> state'[k]]
      BY <1>2, <1>3 DEF Shape
    <2> QED BY <1>2, <1>3, <1>5, <1>17, <2>1, <2>2 DEF Shape, IsChain
  <1>19. InTurn'
    <2>1. \A k \in Stages : k > at => live[k]
      BY <1>2, <1>6 DEF InTurn
    <2>2. Came' => live[at + 1]
      BY <1>5, <1>6, <1>17, <2>1 DEF Came
    <2>3. \A k \in Stages : k > at + 1 => live[k]
      BY <1>4, <1>6, <2>1
    <2>4. \A k \in Stages : ~live[k] => ended /\ \A j \in Stages : j < k => ~live[j]
      BY <1>2 DEF InTurn
    <2>5. asked = 0 /\ (ended => ~live[1])
      BY <1>2, <1>3, <1>6 DEF InTurn
    <2>6. carry' # Null
      BY <1>3, <1>15 DEF ReturnFrom
    <2> QED BY <1>3, <1>5, <1>17, <2>2, <2>3, <2>4, <2>5, <2>6 DEF InTurn, Null
  <1>20. PICK A2 : A2 = [A EXCEPT ![at] = A[at] \o b]
    OBVIOUS
  <1>21. PICK E2 : E2 = [E EXCEPT ![at] = Apply(o, A[at] \o b)]
    OBVIOUS
  <1>22. /\ A2 = [k \in Stages |-> A2[k]]
         /\ A2[at] = A[at] \o b
         /\ \A k \in Stages : k # at => A2[k] = A[k]
    <2>1. A = [k \in Stages |-> A[k]]
      BY <1>1 DEF Means
    <2> QED BY <1>3, <1>20, <2>1
  <1>23. /\ E2 = [k \in 0..Len(chain) |-> E2[k]]
         /\ E2[at] = Apply(o, A[at] \o b)
         /\ \A k \in 0..Len(chain) : k # at => E2[k] = E[k]
    <2>1. E = [k \in 0..Len(chain) |-> E[k]] /\ at \in 0..Len(chain)
      BY <1>1, <1>3, <1>4 DEF Means
    <2> QED BY <1>21, <2>1
  <1>24. \A k \in Stages : E[k - 1] = A2[k]
    BY <1>13, <1>14, <1>22
  <1>25. Joins(E2[at], E[at], RowsIn(Ptr(made)))
    BY <1>9, <1>10, <1>15, <1>23
  <1>26. E2[0] = FlattenSeq(SubSeq(input', 1, taken')) /\ Listed(E2[0])
    <2>1. E2[0] = E[0]
      BY <1>3, <1>4, <1>23
    <2> QED BY <1>1, <1>3, <2>1 DEF Means
  <1>27. ASSUME NEW k \in Stages PROVE StageMeans(chain[k], live'[k], state'[k], A2[k], E2[k])
    <2>1. CASE k = at
      <3>1. state'[at] = After(o, A2[at])
        BY <1>2, <1>3, <1>10, <1>22 DEF Shape
      <3>2. o.op \notin Draining
        BY <1>3 DEF o
      <3>3. StageMeans(o, live'[at], state'[at], A2[at], E2[at])
        BY <1>11, <1>12, <1>22, <1>23, <3>1, <3>2 DEF StageMeans
      <3> QED BY <2>1, <3>3 DEF o
    <2>2. CASE k # at
      <3>1. state'[k] = state[k] /\ live'[k] = live[k] /\ A2[k] = A[k] /\ E2[k] = E[k]
        <4>1. k \in 0..Len(chain)
          BY <1>4
        <4> QED BY <1>2, <1>3, <1>22, <1>23, <2>2, <4>1 DEF Shape
      <3> QED BY <1>1, <3>1 DEF Means
    <2> QED BY <2>1, <2>2
  <1>28. FlattenSeq(FlattenSeq(out)) = E[Len(chain)]
    BY <1>1 DEF Means
  <1>29. ReturnFrom(at, Ptr(made)) /\ chain' = chain
    BY <1>3
  <1>30. Giving(Ptr(made), A2, E, E2)
    BY <1>6, <1>15, <1>22, <1>23, <1>24, <1>25, <1>26, <1>27, <1>28, <1>29, Zenon DEF Giving
  <1>31. Means(A2, E2)'
    BY <1>2, <1>30, MeansAfter
  <1> QED BY <1>17, <1>18, <1>19, <1>31 DEF ChainInv

\* A batch comes to a stream that drains.
LEMMA AbsorbKeeps ==
    ASSUME ChainInv, Absorb
    PROVE  ChainInv'
  <1>1. PICK A, E : Means(A, E)
    BY DEF ChainInv
  <1>2. Shape /\ Answered /\ InTurn /\ Told
    BY DEF ChainInv
  <1> DEFINE o == chain[at]
             b == Given
             st == IF o.op = "count" THEN state[at] + Len(b) ELSE state[at] \o b
  <1>3. /\ at \in Stages /\ moving = "up" /\ carry # Null
        /\ o.op \in Draining
        /\ state' = [state EXCEPT ![at] = st]
        /\ at' = at - 1
        /\ moving' = "down"
        /\ UNCHANGED <<chain, input, taken, asked, ended, live, carry, calls, out>>
    BY DEF Absorb
  <1>4. /\ Len(chain) \in Nat /\ Stages = 1..Len(chain) /\ Caller = Len(chain) + 1
        /\ chain = <<>> <=> Len(chain) = 0
    BY <1>2, ChainFacts DEF Shape
  <1>5. Stages' = Stages /\ Caller' = Caller /\ LastEnded' = LastEnded
    BY <1>3 DEF Stages, Caller, LastEnded
  <1>6. at # Caller /\ Came /\ at \in Nat /\ chain # <<>> /\ live[at]
    BY <1>2, <1>3, <1>4 DEF InTurn, Came
  <1>8. Listed(b) /\ RowsIn(carry) = b
    BY <1>2, <1>3, PtrFacts DEF Shape, Given, RowsIn
  <1>9. Listed(A[at]) /\ E[at] = <<>> /\ state[at] = IF o.op = "count" THEN Len(A[at]) ELSE A[at]
    BY <1>1, <1>3, <1>6 DEF Means, StageMeans
  <1>10. Listed(A[at] \o b) /\ Len(A[at] \o b) = Len(A[at]) + Len(b)
    BY <1>8, <1>9, ListedJoin
  <1>13. E[at - 1] = A[at] \o b
    <2>1. Pending(at) = b
      BY <1>3, <1>8 DEF Pending
    <2> QED BY <1>1, <1>3, <2>1 DEF Means
  <1>14. ASSUME NEW k \in Stages, k # at PROVE E[k - 1] = A[k]
    <2>1. Pending(k) = <<>>
      BY <1>14 DEF Pending
    <2> QED BY <1>1, <1>2, <2>1, MeansFacts
  <1>15. st = IF o.op = "count" THEN Len(A[at] \o b) ELSE A[at] \o b
    BY <1>9, <1>10
  <1> HIDE DEF b, o, st
  <1>16. Shape'
    <2>1. at' \in 0..Caller'
      BY <1>3, <1>4, <1>5
    <2>2. IsPtr(carry)'
      BY <1>2, <1>3 DEF Shape, IsPtr, Null, Ptr
    <2>3. state' = [k \in Stages |-> state'[k]]
      BY <1>2, <1>3 DEF Shape
    <2> QED BY <1>2, <1>3, <1>5, <2>1, <2>2, <2>3 DEF Shape, IsChain
  <1>17. Answered'
    <2>1. Len(out) + 1 = calls /\ at' # Caller'
      BY <1>2, <1>3, <1>4, <1>5, <1>6 DEF Answered
    <2> QED BY <1>3, <2>1 DEF Answered
  <1>18. InTurn'
    <2>1. ~Came'
      BY <1>3 DEF Came
    <2>2. ASSUME NEW k \in Stages, k > at - 1 PROVE live[k]
      <3>1. k = at \/ k > at
        BY <1>4, <1>6, <2>2
      <3> QED BY <1>2, <1>6, <3>1 DEF InTurn
    <2>3. \A k \in Stages' : k > at' => live'[k]
      BY <1>3, <1>5, <2>2
    <2>4. \A k \in Stages : ~live[k] => ended /\ \A j \in Stages : j < k => ~live[j]
      BY <1>2 DEF InTurn
    <2>5. asked = 0 /\ (ended => ~live[1])
      BY <1>2, <1>3, <1>6 DEF InTurn
    <2> QED BY <1>3, <1>5, <2>1, <2>3, <2>4, <2>5 DEF InTurn
  <1>19. Told'
    BY <1>2, <1>3, <1>5 DEF Told, Null
  <1>20. PICK A2 : A2 = [A EXCEPT ![at] = A[at] \o b]
    OBVIOUS
  <1>22. /\ A2 = [k \in Stages |-> A2[k]]
         /\ A2[at] = A[at] \o b
         /\ \A k \in Stages : k # at => A2[k] = A[k]
    <2>1. A = [k \in Stages |-> A[k]]
      BY <1>1 DEF Means
    <2> QED BY <1>3, <1>20, <2>1
  <1>23. ASSUME NEW k \in Stages PROVE E[k - 1] = A2[k] \o Pending(k)'
    <2>1. Pending(k)' = <<>>
      BY <1>3 DEF Pending
    <2>2. E[k - 1] = A2[k]
      BY <1>13, <1>14, <1>22
    <2>3. k - 1 \in 0..Len(chain)
      BY <1>4
    <2>4. Listed(E[k - 1])
      BY <1>1, <1>2, <2>3, MeansFacts
    <2>5. E[k - 1] \o <<>> = E[k - 1]
      BY <2>4, ListedEmpty
    <2> QED BY <2>1, <2>2, <2>5
  <1>27. ASSUME NEW k \in Stages PROVE StageMeans(chain[k], live'[k], state'[k], A2[k], E[k])
    <2>1. CASE k = at
      <3>1. state'[at] = st
        BY <1>2, <1>3 DEF Shape
      <3>2. o.op \in Draining /\ o.op \notin Passing
        BY <1>3 DEF o, Draining, Passing
      <3>3. Listed(E[at])
        BY <1>9, ListedEmpty
      <3>4. live'[at]
        BY <1>3, <1>6
      <3>5. StageMeans(o, live'[at], state'[at], A2[at], E[at])
        BY <1>9, <1>10, <1>15, <1>22, <3>1, <3>2, <3>3, <3>4 DEF StageMeans
      <3> QED BY <2>1, <3>5 DEF o
    <2>2. CASE k # at
      <3>1. state'[k] = state[k] /\ live'[k] = live[k] /\ A2[k] = A[k]
        BY <1>2, <1>3, <1>22, <2>2 DEF Shape
      <3> QED BY <1>1, <3>1 DEF Means
    <2> QED BY <2>1, <2>2
  <1>28. Means(A2, E)'
    BY <1>1, <1>3, <1>5, <1>22, <1>23, <1>27 DEF Means
  <1> QED BY <1>16, <1>17, <1>18, <1>19, <1>28 DEF ChainInv

\* Null comes to a stream: it ends too, and a stream that drains gives its one batch.
LEMMA EndOfStreamKeeps ==
    ASSUME ChainInv, EndOfStream
    PROVE  ChainInv'
  <1>1. PICK A, E : Means(A, E)
    BY DEF ChainInv
  <1>2. Shape /\ Answered /\ InTurn /\ Told
    BY DEF ChainInv
  <1> DEFINE o == chain[at]
             ptr == IF o.op \in Draining THEN Ptr(Result(at)) ELSE Null
  <1>3. /\ at \in Stages /\ moving = "up" /\ carry = Null
        /\ live' = [live EXCEPT ![at] = FALSE]
        /\ ReturnFrom(at, ptr)
        /\ UNCHANGED <<chain, input, taken, asked, ended, state, calls>>
    BY DEF EndOfStream
  <1>4. /\ Len(chain) \in Nat /\ Stages = 1..Len(chain) /\ Caller = Len(chain) + 1
        /\ chain = <<>> <=> Len(chain) = 0
        /\ IsOperator(o)
    BY <1>2, <1>3, ChainFacts DEF Shape
  <1>5. Stages' = Stages /\ Caller' = Caller
    BY <1>3 DEF Stages, Caller
  <1>6. at # Caller /\ Came /\ at \in Nat /\ chain # <<>> /\ live[at]
    BY <1>2, <1>3, <1>4 DEF InTurn, Came
  <1>7. \A k \in Stages : Pending(k) = <<>>
    BY <1>3 DEF Pending, RowsIn
  <1>8. /\ \A k \in Stages : Listed(A[k])
        /\ \A k \in 0..Len(chain) : Listed(E[k])
        /\ \A k \in Stages : E[k - 1] = A[k]
    BY <1>1, <1>2, <1>7, MeansFacts
  <1>9. StageMeans(o, live[at], state[at], A[at], E[at])
    BY <1>1, <1>3 DEF Means
  <1>10. at \in 0..Len(chain)
    BY <1>3, <1>4
  <1> DEFINE e == IF o.op \in Draining THEN Apply(o, A[at]) ELSE E[at]
  <1>11. Listed(Apply(o, A[at])) /\ Listed(e)
    BY <1>3, <1>4, <1>8, <1>10, ApplyIsListed
  <1>12. IsPtr(ptr) /\ Joins(e, E[at], RowsIn(ptr)) /\ (ptr = Null <=> o.op \notin Draining)
    <2>1. CASE o.op \in Draining
      <3>1. Result(at) = Apply(o, A[at])
        <4>1. state[at] = IF o.op = "count" THEN Len(A[at]) ELSE A[at]
          BY <1>9, <2>1 DEF StageMeans
        <4>2. CASE o.op = "count"
          <5>1. Apply(o, A[at]) = <<<<Len(A[at])>>>>
            BY <4>2 DEF Apply
          <5> QED BY <4>1, <4>2, <5>1 DEF Result
        <4>3. CASE o.op # "count"
          BY <4>1, <4>3 DEF Result
        <4> QED BY <4>2, <4>3
      <3>2. E[at] = <<>>
        BY <1>6, <1>9, <2>1 DEF StageMeans
      <3>3. IsPtr(Ptr(Result(at))) /\ Ptr(Result(at)) # Null /\ RowsIn(Ptr(Result(at))) = Result(at)
        BY <1>11, <3>1, PtrOf
      <3>4. Joins(Result(at), <<>>, Result(at))
        BY <1>11, <3>1, ListedEmpty DEF Joins
      <3> QED BY <2>1, <3>1, <3>2, <3>3, <3>4
    <2>2. CASE o.op \notin Draining
      <3>1. IsPtr(Null) /\ RowsIn(Null) = <<>>
        BY DEF IsPtr, RowsIn
      <3>2. Joins(E[at], E[at], <<>>)
        BY <1>8, <1>10, ListedEmpty DEF Joins
      <3> QED BY <2>2, <3>1, <3>2
    <2> QED BY <2>1, <2>2
  <1>13. /\ live' \in [Stages -> BOOLEAN] /\ live'[at] = FALSE
         /\ \A k \in Stages : k # at => live'[k] = live[k]
    BY <1>2, <1>3 DEF Shape
  <1>14. LastEnded => LastEnded'
    <2>1. ASSUME LastEnded PROVE ~live'[Len(chain)]
      <3>1. ~live[Len(chain)] /\ Len(chain) \in Stages
        BY <1>4, <1>6, <2>1 DEF LastEnded
      <3> QED BY <1>13, <3>1
    <2> QED BY <1>3, <1>6, <2>1 DEF LastEnded
  <1>15. at = Len(chain) => LastEnded'
    BY <1>3, <1>6, <1>13 DEF LastEnded
  <1>16. at = Len(chain) => ~(Null \in ToSet(out))
    BY <1>2, <1>6 DEF Told, LastEnded
  <1> HIDE DEF e, ptr
  <1>17. /\ IsPtr(carry') /\ at' = at + 1 /\ at' \in 0..Caller' /\ moving' = "up"
         /\ (Tables(out) /\ Tables(FlattenSeq(out)))'
         /\ Answered' /\ Told'
    BY <1>2, <1>3, <1>6, <1>12, <1>14, <1>15, <1>16, Returns
  <1>18. Shape'
    <2>1. IsPtr(carry)'
      BY <1>17 DEF IsPtr, Null, Ptr
    <2> QED BY <1>2, <1>3, <1>5, <1>13, <1>17, <2>1 DEF Shape, IsChain
  <1>19. InTurn'
    <2>1. \A k \in Stages : k > at => live[k]
      BY <1>2, <1>6 DEF InTurn
    <2>2. \A k \in Stages : k > at => live'[k]
      BY <1>4, <1>6, <1>13, <2>1
    <2>3. Came' => live'[at + 1]
      <3>1. ASSUME at + 1 \in Stages PROVE live'[at + 1]
        <4>1. at + 1 > at
          BY <1>6
        <4> QED BY <2>2, <3>1, <4>1
      <3> QED BY <1>5, <1>17, <3>1 DEF Came
    <2>4. \A k \in Stages : k > at + 1 => live'[k]
      BY <1>4, <1>6, <2>2
    <2>5. ended /\ \A j \in Stages : j < at => ~live[j]
      BY <1>2, <1>3, <1>6 DEF InTurn
    <2>6. ASSUME NEW j \in Stages, j < at + 1 PROVE ~live'[j]
      <3>1. j < at \/ j = at
        BY <1>4, <1>6, <2>6
      <3> QED BY <1>13, <2>5, <3>1
    <2>7. ASSUME NEW k \in Stages, ~live'[k] PROVE \A j \in Stages : j < k => ~live'[j]
      <3>1. ~(k > at)
        BY <2>2, <2>7
      <3> QED BY <1>4, <1>6, <2>6, <3>1
    <2>8. asked = 0
      BY <1>2, <1>6 DEF InTurn
    <2>9. ~live'[1]
      <3>1. 1 \in Stages /\ 1 < at + 1
        BY <1>3, <1>4
      <3> QED BY <2>6, <3>1
    <2>10. \A k \in Stages' : k > at' => live'[k]
      BY <1>5, <1>17, <2>4
    <2>11. Came' => live'[at']
      BY <1>17, <2>3
    <2>12. \A j \in Stages' : j < at' => ~live'[j]
      BY <1>5, <1>17, <2>6
    <2>13. \A k \in Stages' : ~live'[k] => ended' /\ \A j \in Stages' : j < k => ~live'[j]
      BY <1>3, <1>5, <2>5, <2>7
    <2>14. ended' /\ asked' = 0
      BY <1>3, <2>5, <2>8
    <2> QED BY <2>9, <2>10, <2>11, <2>12, <2>13, <2>14 DEF InTurn
  <1>20. PICK E2 : E2 = [E EXCEPT ![at] = e]
    OBVIOUS
  <1>21. /\ E2 = [k \in 0..Len(chain) |-> E2[k]]
         /\ E2[at] = e
         /\ \A k \in 0..Len(chain) : k # at => E2[k] = E[k]
    <2>1. E = [k \in 0..Len(chain) |-> E[k]]
      BY <1>1 DEF Means
    <2> QED BY <1>10, <1>20, <2>1
  <1>22. Joins(E2[at], E[at], RowsIn(ptr))
    BY <1>12, <1>21
  <1>23. E2[0] = FlattenSeq(SubSeq(input', 1, taken')) /\ Listed(E2[0])
    <2>1. E2[0] = E[0]
      BY <1>3, <1>4, <1>21
    <2> QED BY <1>1, <1>3, <2>1 DEF Means
  <1>24. ASSUME NEW k \in Stages PROVE StageMeans(chain[k], live'[k], state'[k], A[k], E2[k])
    <2>1. CASE k = at
      <3>1. state'[at] = state[at] /\ ~live'[at]
        BY <1>3, <1>13
      <3>2. StageMeans(o, live'[at], state'[at], A[at], E2[at])
        <4>1. o.op \in Passing => o.op \notin Draining
          BY DEF Passing, Draining
        <4> QED BY <1>8, <1>9, <1>11, <1>21, <3>1, <4>1 DEF StageMeans, e
      <3> QED BY <2>1, <3>2 DEF o
    <2>2. CASE k # at
      <3>1. state'[k] = state[k] /\ live'[k] = live[k] /\ E2[k] = E[k]
        <4>1. k \in 0..Len(chain)
          BY <1>4
        <4> QED BY <1>3, <1>13, <1>21, <2>2, <4>1
      <3> QED BY <1>1, <3>1 DEF Means
    <2> QED BY <2>1, <2>2
  <1>25. A = [k \in Stages |-> A[k]] /\ FlattenSeq(FlattenSeq(out)) = E[Len(chain)]
    BY <1>1 DEF Means
  <1>26. ReturnFrom(at, ptr) /\ chain' = chain
    BY <1>3
  <1>27. Giving(ptr, A, E, E2)
    BY <1>6, <1>8, <1>12, <1>21, <1>22, <1>23, <1>24, <1>25, <1>26, Zenon DEF Giving
  <1>28. Means(A, E2)'
    BY <1>2, <1>27, MeansAfter
  <1> QED BY <1>17, <1>18, <1>19, <1>28 DEF ChainInv

\* An operator throws.
LEMMA ThrowKeeps ==
    ASSUME ChainInv, Throw
    PROVE  ChainInv'
  <1>1. PICK A, E : Means(A, E)
    BY DEF ChainInv
  <1>2. Shape /\ Answered /\ InTurn /\ Told
    BY DEF ChainInv
  <1>3. /\ at \in Stages /\ moving = "up" /\ moving' = "threw"
        /\ UNCHANGED <<chain, input, taken, asked, ended, live, state, at, carry, calls, out>>
    BY DEF Throw
  <1>4. Stages' = Stages /\ Caller' = Caller /\ LastEnded' = LastEnded
    BY <1>3 DEF Stages, Caller, LastEnded
  <1>5. at # Caller /\ at # 0
    BY <1>2, <1>3, ChainFacts DEF Shape
  <1>6. Shape'
    <2>1. IsPtr(carry)'
      BY <1>2, <1>3 DEF Shape, IsPtr, Null, Ptr
    <2> QED BY <1>2, <1>3, <1>4, <2>1 DEF Shape, IsChain
  <1>7. Answered' /\ Told'
    BY <1>2, <1>3, <1>4, <1>5 DEF Answered, Told, Null
  <1>8. InTurn'
    BY <1>2, <1>3, <1>4 DEF InTurn, Came, Null
  <1>9. Means(A, E)'
    <2>1. \A k \in Stages : Pending(k)' = Pending(k)
      BY <1>3 DEF Pending, RowsIn, Null
    <2> QED BY <1>1, <1>3, <1>4, <2>1 DEF Means
  <1> QED BY <1>6, <1>7, <1>8, <1>9 DEF ChainInv

\* Before the first call.
LEMMA InitHolds ==
    ASSUME NEW c, IsChain(c), NEW batches, Tables(batches), InitWith(c, batches)
    PROVE  ChainInv
  <1>1. /\ chain = c /\ input = batches /\ taken = 0 /\ asked = 0 /\ ended = FALSE
        /\ live = [k \in Stages |-> TRUE]
        /\ state = [k \in Stages |-> Start(chain[k])]
        /\ at = Caller /\ moving = "up" /\ carry = Null /\ calls = 0 /\ out = <<>>
    BY DEF InitWith
  <1>2. IsChain(chain)
    BY <1>1
  <1>3. /\ Len(chain) \in Nat /\ Stages = 1..Len(chain) /\ Caller = Len(chain) + 1
        /\ chain = <<>> <=> Len(chain) = 0
        /\ \A k \in Stages : IsOperator(chain[k])
    BY <1>2, ChainFacts
  <1>4. Tables(out) /\ FlattenSeq(out) = <<>> /\ Tables(FlattenSeq(out)) /\ FlattenSeq(FlattenSeq(out)) = <<>>
    BY <1>1, FlattenNone
  <1>5. Listed(input) /\ Len(input) \in Nat
    BY <1>1 DEF Tables, Listed
  <1>6. Shape
    <2>1. taken \in 0..Len(input) /\ at \in 0..Caller /\ calls \in 0..MaxCalls
      BY <1>1, <1>3, <1>5, CallsAssumption
    <2>2. live \in [Stages -> BOOLEAN] /\ state = [k \in Stages |-> state[k]]
      BY <1>1
    <2> QED BY <1>1, <1>2, <1>4, <2>1, <2>2 DEF Shape, IsPtr
  <1>7. ToSet(out) = {} /\ DOMAIN out = {} /\ Len(out) = 0
    BY <1>1 DEF ToSet
  <1>8. Answered
    BY <1>1, <1>3, <1>7 DEF Answered
  <1>9. Told
    BY <1>7 DEF Told
  <1>10. at \notin Stages
    BY <1>1, <1>3
  <1>11. InTurn
    BY <1>1, <1>10 DEF InTurn, Came
  <1> DEFINE A == [k \in Stages |-> <<>>]
             E == [k \in 0..Len(chain) |-> <<>>]
  <1>12. (\A k \in Stages : A[k] = <<>>) /\ (\A k \in 0..Len(chain) : E[k] = <<>>)
    OBVIOUS
  <1>13. A = [k \in Stages |-> A[k]] /\ E = [k \in 0..Len(chain) |-> E[k]]
    OBVIOUS
  <1> HIDE DEF A, E
  <1>14. E[0] = FlattenSeq(SubSeq(input, 1, taken)) /\ Listed(E[0])
    <2>1. SubSeq(input, 1, 0) = <<>>
      <3>1. 0 \in 0..Len(input)
        BY <1>5
      <3>2. Listed(SubSeq(input, 1, 0)) /\ Len(SubSeq(input, 1, 0)) = 0
        BY <1>5, <3>1, PrefixIs
      <3> QED BY <3>2, ListedEmpty, ListedEqual
    <2>2. E[0] = <<>>
      BY <1>3, <1>12
    <2> QED BY <1>1, <2>1, <2>2, FlattenNone, ListedEmpty
  <1>15. ASSUME NEW k \in Stages PROVE StageMeans(chain[k], live[k], state[k], A[k], E[k])
    <2>1. A[k] = <<>> /\ E[k] = <<>> /\ live[k] = TRUE /\ state[k] = Start(chain[k])
      BY <1>1, <1>3, <1>12
    <2>2. chain[k].op \in Passing => <<>> = Apply(chain[k], <<>>) /\ state[k] = After(chain[k], <<>>)
      BY <1>3, <2>1, AfterNothing
    <2>3. ASSUME chain[k].op \in Draining PROVE state[k] = IF chain[k].op = "count" THEN Len(<<>>) ELSE <<>>
      <3>1. chain[k].op \in {"count", "aggregation", "sort", "groups"}
        BY <2>3 DEF Draining
      <3>2. CASE chain[k].op = "count"
        <4>1. Start(chain[k]) = 0
          BY <3>2 DEF Start
        <4> QED BY <2>1, <3>2, <4>1, ListedEmpty
      <3>3. CASE chain[k].op # "count"
        <4>1. Start(chain[k]) = <<>>
          BY <3>1, <3>3 DEF Start
        <4> QED BY <2>1, <3>3, <4>1
      <3> QED BY <3>2, <3>3
    <2> QED BY <2>1, <2>2, <2>3, ListedEmpty DEF StageMeans
  <1>16. ASSUME NEW k \in Stages PROVE E[k - 1] = A[k] \o Pending(k)
    <2>1. Pending(k) = <<>>
      BY <1>10 DEF Pending
    <2>2. k - 1 \in 0..Len(chain)
      BY <1>3
    <2>3. <<>> \o <<>> = <<>>
      BY ListedEmpty
    <2>4. E[k - 1] = <<>> /\ A[k] = <<>>
      BY <1>12, <2>2
    <2> QED BY <2>1, <2>3, <2>4
  <1>17. FlattenSeq(FlattenSeq(out)) = E[Len(chain)]
    <2>1. Len(chain) \in 0..Len(chain)
      BY <1>3
    <2> QED BY <1>4, <1>12, <2>1
  <1>18. Means(A, E)
    BY <1>13, <1>14, <1>15, <1>16, <1>17 DEF Means
  <1> QED BY <1>6, <1>8, <1>9, <1>11, <1>18 DEF ChainInv

\* Before the first call of a new chain.
LEMMA RestartHolds ==
    ASSUME NEW c, IsChain(c), NEW batches, Tables(batches), Restart(c, batches)
    PROVE  ChainInv'
  <1>1. /\ chain' = c /\ input' = batches /\ taken' = 0 /\ asked' = 0 /\ ended' = FALSE
        /\ live' = [k \in DOMAIN c |-> TRUE]
        /\ state' = [k \in DOMAIN c |-> Start(c[k])]
        /\ at' = Len(c) + 1 /\ moving' = "up" /\ carry' = Null /\ calls' = 0 /\ out' = <<>>
    BY DEF Restart
  <1>2. Listed(c)
    BY DEF IsChain, Listed
  <1>3. /\ Len(c) \in Nat /\ DOMAIN c = 1..Len(c)
        /\ c = <<>> => Len(c) = 0
        /\ \A k \in 1..Len(c) : IsOperator(c[k])
    <2>1. Len(c) \in Nat /\ DOMAIN c = 1..Len(c)
      BY <1>2, ListedDomain
    <2>2. c = <<>> => Len(c) = 0
      BY ListedEmpty
    <2> QED BY <2>1, <2>2 DEF IsChain
  <1>20. Stages' = 1..Len(c) /\ Caller' = Len(c) + 1
    BY <1>1 DEF Stages, Caller
  <1>21. IsChain(chain)'
    BY <1>1 DEF IsChain
  <1>4. (Tables(out) /\ FlattenSeq(out) = <<>> /\ Tables(FlattenSeq(out)) /\ FlattenSeq(FlattenSeq(out)) = <<>>)'
    BY <1>1, FlattenNone
  <1>5. Listed(batches) /\ Len(batches) \in Nat
    BY DEF Tables, Listed
  <1>6. Shape'
    <2>1. taken' \in 0..Len(input') /\ at' \in 0..Caller' /\ calls' \in 0..MaxCalls
      BY <1>1, <1>3, <1>5, <1>20, CallsAssumption
    <2>2. live' \in [Stages' -> BOOLEAN] /\ state' = [k \in Stages' |-> state'[k]]
      BY <1>1, <1>3, <1>20
    <2>3. Tables(input)' /\ IsPtr(carry)'
      BY <1>1 DEF IsPtr, Null
    <2> QED BY <1>1, <1>4, <1>21, <2>1, <2>2, <2>3 DEF Shape
  <1>7. ToSet(out)' = {} /\ (DOMAIN out)' = {} /\ Len(out)' = 0
    BY <1>1 DEF ToSet
  <1>8. Answered'
    BY <1>1, <1>3, <1>7, <1>20 DEF Answered
  <1>9. Told'
    BY <1>7 DEF Told
  <1>10. at' \notin Stages'
    BY <1>1, <1>3, <1>20
  <1>11. InTurn'
    <2>1. \A k \in Stages' : live'[k]
      BY <1>1, <1>3, <1>20
    <2>2. ~Came'
      BY <1>10 DEF Came
    <2> QED BY <1>1, <1>10, <2>1, <2>2 DEF InTurn
  <1> DEFINE A == [k \in 1..Len(c) |-> <<>>]
             E == [k \in 0..Len(c) |-> <<>>]
  <1>12. (\A k \in 1..Len(c) : A[k] = <<>>) /\ (\A k \in 0..Len(c) : E[k] = <<>>)
    OBVIOUS
  <1>13. A = [k \in 1..Len(c) |-> A[k]] /\ E = [k \in 0..Len(c) |-> E[k]]
    OBVIOUS
  <1> HIDE DEF A, E
  <1>14. E[0] = FlattenSeq(SubSeq(batches, 1, 0)) /\ Listed(E[0])
    <2>1. SubSeq(batches, 1, 0) = <<>>
      <3>1. 0 \in 0..Len(batches)
        BY <1>5
      <3>2. Listed(SubSeq(batches, 1, 0)) /\ Len(SubSeq(batches, 1, 0)) = 0
        BY <1>5, <3>1, PrefixIs
      <3> QED BY <3>2, ListedEmpty, ListedEqual
    <2>2. E[0] = <<>>
      BY <1>3, <1>12
    <2> QED BY <2>1, <2>2, FlattenNone, ListedEmpty
  <1>15. ASSUME NEW k \in 1..Len(c) PROVE StageMeans(c[k], TRUE, Start(c[k]), A[k], E[k])
    <2>1. A[k] = <<>> /\ E[k] = <<>>
      BY <1>3, <1>12
    <2>2. c[k].op \in Passing => <<>> = Apply(c[k], <<>>) /\ Start(c[k]) = After(c[k], <<>>)
      BY <1>3, <2>1, AfterNothing
    <2>3. ASSUME c[k].op \in Draining PROVE Start(c[k]) = IF c[k].op = "count" THEN Len(<<>>) ELSE <<>>
      <3>1. c[k].op \in {"count", "aggregation", "sort", "groups"}
        BY <2>3 DEF Draining
      <3>2. CASE c[k].op = "count"
        <4>1. Start(c[k]) = 0
          BY <3>2 DEF Start
        <4> QED BY <3>2, <4>1, ListedEmpty
      <3>3. CASE c[k].op # "count"
        <4>1. Start(c[k]) = <<>>
          BY <3>1, <3>3 DEF Start
        <4> QED BY <3>3, <4>1
      <3> QED BY <3>2, <3>3
    <2> QED BY <2>1, <2>2, <2>3, ListedEmpty DEF StageMeans
  <1>16. ASSUME NEW k \in 1..Len(c) PROVE E[k - 1] = A[k] \o Pending(k)'
    <2>1. Pending(k)' = <<>>
      BY <1>10, <1>20 DEF Pending
    <2>2. k - 1 \in 0..Len(c)
      BY <1>3
    <2>3. <<>> \o <<>> = <<>>
      BY ListedEmpty
    <2>4. E[k - 1] = <<>> /\ A[k] = <<>>
      BY <1>12, <2>2
    <2> QED BY <2>1, <2>3, <2>4
  <1>17. FlattenSeq(FlattenSeq(out'))  = E[Len(c)]
    <2>1. Len(c) \in 0..Len(c)
      BY <1>3
    <2> QED BY <1>4, <1>12, <2>1
  <1>18. \A k \in 1..Len(c) : live'[k] = TRUE /\ state'[k] = Start(c[k]) /\ chain'[k] = c[k]
    BY <1>1, <1>3
  <1>19. Means(A, E)'
    BY <1>1, <1>13, <1>14, <1>15, <1>16, <1>17, <1>18, <1>20 DEF Means, StageMeans
  <1> QED BY <1>6, <1>8, <1>9, <1>11, <1>19 DEF ChainInv

\* The data of SetContains makes of a chain another.
LEMMA WithDataKeeps ==
    ASSUME NEW data, NEW o, IsOperator(o)
    PROVE  IsOperator(WithData(data, o))
  <1>1. CASE o.op # "transform"
    BY <1>1 DEF WithData
  <1>2. CASE o.op = "transform"
    <2>1. PICK ops : WithData(data, o) = [o EXCEPT !.ops = ops]
      BY <1>2 DEF WithData
    <2> DEFINE p == [o EXCEPT !.ops = ops]
    <2>2. DOMAIN p = DOMAIN o
      OBVIOUS
    <2>3. "op" \in DOMAIN o /\ "op" # "ops"
      BY DEF IsOperator
    <2>4. p.op = o.op
      BY <2>3
    <2> HIDE DEF p
    <2>5. IsOperator(p)
      BY <1>2, <2>2, <2>3, <2>4 DEF IsOperator, Passing
    <2> QED BY <2>1, <2>5 DEF p
  <1> QED BY <1>1, <1>2

\* The same for all of its operators.
LEMMA FilledIsChain ==
    ASSUME NEW data, NEW c, IsChain(c)
    PROVE  IsChain(Filled(data, c))
  <1> DEFINE f == Filled(data, c)
  <1>1. Listed(c) /\ DOMAIN c = 1..Len(c) /\ Len(c) \in Nat
    BY ListedDomain DEF IsChain, Listed
  <1>2. f = [k \in DOMAIN c |-> WithData(data, c[k])]
    BY DEF Filled
  <1> HIDE DEF f
  <1>3. f = [k \in DOMAIN c |-> f[k]]
    BY <1>2
  <1>4. Listed(f) /\ Len(f) = Len(c)
    BY <1>1, <1>3, OnPlaces
  <1>5. ASSUME NEW k \in DOMAIN f PROVE IsOperator(f[k])
    <2>1. k \in DOMAIN c /\ f[k] = WithData(data, c[k])
      BY <1>2
    <2>2. IsOperator(c[k])
      BY <2>1 DEF IsChain
    <2> QED BY <2>1, <2>2, WithDataKeeps
  <1>6. f = [k \in 1..Len(f) |-> f[k]] /\ Len(f) \in Nat
    BY <1>4 DEF Listed
  <1>7. IsChain(f)
    BY <1>5, <1>6 DEF IsChain
  <1> QED BY <1>7 DEF f

-----------------------------------------------------------------------------
(* The invariant of a skipper.                                             *)

\* The rows that the first n selectors mark.
Survivors(sels, rows, n) == {j \in DOMAIN rows : \A m \in 1..n : Sk!Marks(sels[m], rows)[j] = 1}

\* The number of selectors that find that no row is left.
Needed(sels, rows) ==
    CHOOSE n \in DOMAIN sels : Survivors(sels, rows, n) = {} /\ \A m \in 1..(n - 1) : Survivors(sels, rows, m) # {}

\* The columns that the first n selectors look at.
Looked(sels, n) == UNION {Sk!ColsOf(sels[m]) : m \in 1..n}

\* A view has been taken, and not been answered.
Viewing == sPc \in {"select", "subset", "threw"}

SkipShape ==
    /\ AreSelectors(sWidth, sSelectors)
    /\ Tables(sInput) /\ sTaken \in 0..Len(sInput)
    /\ sLive \in BOOLEAN
    /\ sPc \in {"idle", "select", "subset", "ended", "threw"}
    /\ ~sLive => sPc = "ended"
    /\ sMask \in Seq({0, 1})
    /\ sNext \in 1..(Len(sSelectors) + 1)
    /\ sLoaded \subseteq 1..sWidth
    /\ Tables(sOut) /\ Listed(sReads) /\ Len(sReads) = Len(sOut)
    /\ sTaken = IF Viewing THEN Len(sOut) + 1 ELSE Len(sOut)

\* What is known of a view between two selectors.
Marked ==
    /\ sSelectors # <<>>
    /\ IF sPc = "select" THEN sNext <= Len(sSelectors) ELSE sNext = Len(sSelectors) + 1
    /\ DOMAIN sMask = DOMAIN sInput[sTaken]
    /\ {j \in DOMAIN sMask : sMask[j] = 1} = Survivors(sSelectors, sInput[sTaken], sNext - 1)
    /\ \A m \in 1..(sNext - 1) : Survivors(sSelectors, sInput[sTaken], m) # {}
    /\ sLoaded = Looked(sSelectors, sNext - 1)

\* What was read for each batch that was returned.
ReadFor(b) ==
    sReads[b] = IF sOut[b] # <<>> \/ sSelectors = <<>> THEN 1..sWidth
                ELSE Looked(sSelectors, Needed(sSelectors, sInput[b]))

SkipInv ==
    /\ SkipShape
    /\ sPc \in {"select", "subset"} => Marked
    /\ \A b \in 1..Len(sOut) : ReadFor(b)

\* What the invariant says was read is what the property asks for.
LEMMA SkipInvImplies == SkipInv => NothingReadInVain
  <1> SUFFICES ASSUME SkipInv PROVE NothingReadInVain
    OBVIOUS
  <1>1. SkipShape /\ \A b \in 1..Len(sOut) : ReadFor(b)
    BY DEF SkipInv
  <1>2. Sk!TypeOK
    BY <1>1 DEF SkipShape, Sk!TypeOK
  <1>3. DOMAIN sOut = 1..Len(sOut)
    BY <1>1, ListedDomain DEF SkipShape, Tables
  <1>4. ASSUME NEW b \in DOMAIN sOut
        PROVE  sReads[b] = IF sOut[b] # <<>> \/ sSelectors = <<>> THEN 1..sWidth
                           ELSE LET Left(n) == {j \in DOMAIN sInput[b] :
                                                  \A m \in 1..n : Sk!Marks(sSelectors[m], sInput[b])[j] = 1}
                                    needed  == CHOOSE n \in DOMAIN sSelectors :
                                                  Left(n) = {} /\ \A m \in 1..(n - 1) : Left(m) # {}
                                IN  UNION {Sk!ColsOf(sSelectors[n]) : n \in 1..needed}
    <2>1. ReadFor(b)
      BY <1>1, <1>3
    <2> QED BY <2>1, Zenon DEF ReadFor, Looked, Needed, Survivors
  <1> QED BY <1>2, <1>4, Zenon DEF NothingReadInVain, Sk!NothingReadInVain

\* A selector marks rows with 1, and others with 0.
LEMMA MarksAreBits ==
    ASSUME NEW s, s.kind = "transform" => s.f.fn \in {"compare", "search"}, NEW rows
    PROVE  DOMAIN Sk!Marks(s, rows) = DOMAIN rows /\ \A j \in DOMAIN rows : Sk!Marks(s, rows)[j] \in {0, 1}
  <1>1. CASE s.kind = "transform"
    <2>1. Sk!Marks(s, rows) = [j \in DOMAIN rows |-> Sk!Computed(s.f, <<rows[j][s.col]>>)]
      BY <1>1 DEF Sk!Marks
    <2>2. ASSUME NEW v PROVE Sk!Computed(s.f, v) \in {0, 1}
      <3>1. CASE s.f.fn = "compare"
        BY <3>1 DEF Sk!Computed, Sk!Bit
      <3>2. CASE s.f.fn = "search"
        BY <3>2 DEF Sk!Computed, Sk!Bit
      <3> QED BY <1>1, <3>1, <3>2
    <2> QED BY <2>1, <2>2
  <1>2. CASE s.kind # "transform"
    <2>1. PICK kept : Sk!Marks(s, rows) = [j \in DOMAIN rows |-> Sk!Bit(\E row \in Sk!ToSet(kept) : row[s.marker] = j - 1)]
      BY <1>2 DEF Sk!Marks
    <2>2. ASSUME NEW j \in DOMAIN rows PROVE Sk!Marks(s, rows)[j] \in {0, 1}
      BY <2>1 DEF Sk!Bit
    <2> QED BY <2>1, <2>2
  <1> QED BY <1>1, <1>2

\* The skipper picks rows as the operators do.
LEMMA SkPicked ==
    ASSUME NEW s, NEW marked
    PROVE  Sk!Picked(s, marked) = Picked(s, marked)
  BY DEF Sk!Picked, Picked, Sk!FlattenSeq, FlattenSeq

\* One sequence that is not empty is enough.
LEMMA FlattenSome ==
    ASSUME NEW a, Tables(a), NEW i \in 1..Len(a), a[i] # <<>>
    PROVE  FlattenSeq(a) # <<>>
  <1> DEFINE n == Len(a)
             g == JoinUpTo(a)
  <1>1. n \in Nat /\ i \in 1..n /\ \A k \in 1..n : Listed(a[k])
    BY DEF Tables, Listed
  <1>2. FlattenSeq(a) = g[n] /\ \A k \in 0..n : Listed(g[k])
    BY FlattenIsFlat, FlatDef
  <1>3. \A k \in 1..n : g[k] = g[k - 1] \o a[k]
    BY FlatDef
  <1>4. Len(a[i]) \in Nat /\ Len(a[i]) # 0
    <2>1. Listed(a[i])
      BY <1>1
    <2> QED BY <2>1, ListedEmpty, ListedEqual DEF Listed
  <1> HIDE DEF n, g
  <1>5. ASSUME NEW k \in 1..n
        PROVE  Len(g[k]) = Len(g[k - 1]) + Len(a[k]) /\ Len(g[k - 1]) \in Nat /\ Len(a[k]) \in Nat
    <2>1. k - 1 \in 0..n
      BY <1>1
    <2>2. Listed(g[k - 1]) /\ Listed(a[k])
      BY <1>1, <1>2, <2>1
    <2>3. Len(g[k - 1] \o a[k]) = Len(g[k - 1]) + Len(a[k])
      BY <2>2, ListedJoin
    <2>4. g[k] = g[k - 1] \o a[k]
      BY <1>3
    <2> QED BY <2>2, <2>3, <2>4 DEF Listed
  <1>6. \A k \in i..n : Len(g[k]) # 0
    <2> DEFINE Bad == {m \in i..n : Len(g[m]) = 0}
    <2>1. SUFFICES ASSUME Bad # {} PROVE FALSE
      OBVIOUS
    <2>2. PICK m \in Bad : \A k \in Bad : m <= k
      <3>1. Bad \subseteq Nat
        BY <1>1
      <3> HIDE DEF Bad
      <3> QED BY <2>1, <3>1, LeastNat
    <2>3. m \in i..n /\ Len(g[m]) = 0 /\ m \in 1..n
      BY <1>1, <2>2
    <2>7. Len(g[m]) = Len(g[m - 1]) + Len(a[m]) /\ Len(g[m - 1]) \in Nat /\ Len(a[m]) \in Nat
      BY <1>5, <2>3
    <2> DEFINE before == Len(g[m - 1])
               more   == Len(a[m])
    <2>8. before = 0 /\ more = 0
      <3>1. before \in Nat /\ more \in Nat /\ before + more = 0
        BY <2>3, <2>7
      <3> HIDE DEF before, more
      <3> QED BY <3>1
    <2>4. m # i
      BY <1>4, <2>8
    <2>5. m - 1 \in i..n /\ ~(m <= m - 1)
      BY <1>1, <2>3, <2>4
    <2>6. Len(g[m - 1]) # 0
      BY <2>2, <2>5
    <2> QED BY <2>6, <2>8
  <1>7. n \in i..n
    BY <1>1
  <1>8. Len(FlattenSeq(a)) # 0
    BY <1>2, <1>6, <1>7
  <1> QED BY <1>8, ListedEmpty

\* What is picked is not empty if something is marked.
LEMMA PickedSome ==
    ASSUME NEW s, NEW marked, Listed(s), NEW i \in DOMAIN s, marked[i]
    PROVE  Picked(s, marked) # <<>>
  <1> DEFINE p == [j \in DOMAIN s |-> IF marked[j] THEN <<s[j]>> ELSE <<>>]
             n == Len(s)
  <1>1. n \in Nat /\ DOMAIN s = 1..n /\ p = [j \in 1..n |-> IF marked[j] THEN <<s[j]>> ELSE <<>>]
    BY ListedDomain
  <1>2. Picked(s, marked) = FlattenSeq(p)
    BY DEF Picked
  <1> HIDE DEF p, n
  <1>3. p = [j \in 1..n |-> p[j]]
    BY <1>1
  <1>4. Listed(p) /\ Len(p) = n
    BY <1>1, <1>3, FunctionIsListed
  <1>5. ASSUME NEW j \in 1..n PROVE Listed(p[j])
    <2>1. p[j] = <<s[j]>> \/ p[j] = <<>>
      BY <1>1
    <2> QED BY <2>1, ListedOne, ListedEmpty
  <1>6. Tables(p)
    BY <1>4, <1>5 DEF Tables
  <1>7. i \in 1..n /\ p[i] = <<s[i]>>
    BY <1>1
  <1>8. <<s[i]>> # <<>>
    BY ListedOne
  <1> QED BY <1>2, <1>4, <1>6, <1>7, <1>8, FlattenSome

\* What one more selector leaves, and what it looks at.
LEMMA KeptFacts ==
    ASSUME NEW sels, NEW rows, NEW n \in Nat
    PROVE  /\ Survivors(sels, rows, 0) = DOMAIN rows
           /\ \A j : j \in Survivors(sels, rows, n + 1) <=> j \in Survivors(sels, rows, n) /\ Sk!Marks(sels[n + 1], rows)[j] = 1
           /\ Looked(sels, n + 1) = Looked(sels, n) \cup Sk!ColsOf(sels[n + 1])
           /\ Looked(sels, 0) = {}
  <1>1. 1..(n + 1) = 1..n \cup {n + 1} /\ 1..0 = {}
    OBVIOUS
  <1>2. Survivors(sels, rows, 0) = DOMAIN rows /\ Looked(sels, 0) = {}
    BY <1>1 DEF Survivors, Looked
  <1>3. ASSUME NEW j
        PROVE  j \in Survivors(sels, rows, n + 1) <=> j \in Survivors(sels, rows, n) /\ Sk!Marks(sels[n + 1], rows)[j] = 1
    BY <1>1 DEF Survivors
  <1>4. Looked(sels, n + 1) = Looked(sels, n) \cup Sk!ColsOf(sels[n + 1])
    BY <1>1 DEF Looked
  <1> QED BY <1>2, <1>3, <1>4

\* The selector that finds no row is the one that was needed.
LEMMA NeededIs ==
    ASSUME NEW sels, NEW rows, NEW n, n \in DOMAIN sels, DOMAIN sels \subseteq Nat,
           Survivors(sels, rows, n) = {}, \A m \in 1..(n - 1) : Survivors(sels, rows, m) # {},
           0 \notin DOMAIN sels
    PROVE  Needed(sels, rows) = n
  <1> DEFINE Is(m) == Survivors(sels, rows, m) = {} /\ \A k \in 1..(m - 1) : Survivors(sels, rows, k) # {}
             c == CHOOSE m \in DOMAIN sels : Is(m)
  <1>1. Is(n)
    OBVIOUS
  <1>2. Needed(sels, rows) = c
    BY DEF Needed
  <1> HIDE DEF Is
  <1>3. c \in DOMAIN sels /\ Is(c)
    BY <1>1
  <1> HIDE DEF c
  <1>4. c \in Nat /\ n \in Nat /\ c # 0 /\ n # 0
    BY <1>3
  <1>5. ~(c < n)
    <2>1. c < n => c \in 1..(n - 1)
      BY <1>4
    <2> QED BY <1>3, <2>1 DEF Is
  <1>6. ~(n < c)
    <2>1. n < c => n \in 1..(c - 1)
      BY <1>4
    <2> QED BY <1>3, <2>1 DEF Is
  <1> QED BY <1>2, <1>4, <1>5, <1>6

\* A batch is returned, for which these columns were read.
LEMMA Answers ==
    ASSUME SkipInv, NEW batch, Listed(batch), NEW cols, Sk!Return(batch, cols),
           UNCHANGED <<sWidth, sSelectors, sInput>>,
           cols = IF batch # <<>> \/ sSelectors = <<>> THEN 1..sWidth
                  ELSE Looked(sSelectors, Needed(sSelectors, sInput[Len(sOut) + 1]))
    PROVE  /\ Tables(sOut)' /\ Listed(sReads)' /\ Len(sReads)' = Len(sOut)'
           /\ Len(sOut)' = Len(sOut) + 1 /\ sOut' # sOut
           /\ sPc' = "idle" /\ ~Viewing'
           /\ \A b \in 1..Len(sOut)' : ReadFor(b)'
  <1>1. sOut' = Append(sOut, batch) /\ sReads' = Append(sReads, cols) /\ sPc' = "idle"
    BY DEF Sk!Return
  <1>2. Tables(sOut) /\ Listed(sOut) /\ Listed(sReads) /\ Len(sReads) = Len(sOut) /\ Len(sOut) \in Nat
    BY DEF SkipInv, SkipShape, Tables, Listed
  <1>3. /\ Listed(sOut') /\ Len(sOut') = Len(sOut) + 1 /\ sOut'[Len(sOut) + 1] = batch
        /\ Listed(sReads') /\ Len(sReads') = Len(sOut) + 1 /\ sReads'[Len(sOut) + 1] = cols
    <2>1. Listed(sOut') /\ Len(sOut') = Len(sOut) + 1 /\ sOut'[Len(sOut) + 1] = batch
      BY <1>1, <1>2, ListedAppend
    <2>2. Listed(sReads') /\ Len(sReads') = Len(sReads) + 1 /\ sReads'[Len(sReads) + 1] = cols
      BY <1>1, <1>2, ListedAppend
    <2> QED BY <1>2, <2>1, <2>2
  <1>4. \A b \in 1..Len(sOut) : sOut'[b] = sOut[b]
    BY <1>1, <1>2, ListedAppend
  <1>5. \A b \in 1..Len(sOut) : sReads'[b] = sReads[b]
    BY <1>1, <1>2, ListedAppend
  <1>6. Tables(sOut)'
    <2>1. Tables(Append(sOut, batch))
      BY <1>2, FlattenAppend
    <2> QED BY <1>1, <2>1
  <1>7. ASSUME NEW b \in 1..(Len(sOut) + 1) PROVE ReadFor(b)'
    <2>1. CASE b = Len(sOut) + 1
      BY <1>3, <2>1 DEF ReadFor
    <2>2. CASE b # Len(sOut) + 1
      <3>1. b \in 1..Len(sOut)
        BY <1>2, <2>2
      <3>2. ReadFor(b)
        BY <3>1 DEF SkipInv
      <3> QED BY <1>4, <1>5, <3>1, <3>2 DEF ReadFor
    <2> QED BY <2>1, <2>2
  <1>8. sOut' # sOut
    BY <1>2, <1>3
  <1> QED BY <1>1, <1>2, <1>3, <1>6, <1>7, <1>8 DEF Viewing

\* The selectors and batches of a skipper, by their numbers.
LEMMA SkipFacts ==
    ASSUME SkipInv
    PROVE  /\ Len(sSelectors) \in Nat /\ DOMAIN sSelectors = 1..Len(sSelectors) /\ Listed(sSelectors)
           /\ sSelectors = <<>> <=> Len(sSelectors) = 0
           /\ \A n \in 1..Len(sSelectors) :
                /\ sSelectors[n].kind = "transform" => sSelectors[n].f.fn \in {"compare", "search"}
                /\ Sk!ColsOf(sSelectors[n]) \subseteq 1..sWidth
           /\ Len(sInput) \in Nat /\ \A b \in 1..Len(sInput) : Listed(sInput[b])
           /\ Len(sOut) \in Nat
  <1>1. Len(sSelectors) \in Nat /\ Listed(sSelectors) /\ AreSelectors(sWidth, sSelectors)
    BY DEF SkipInv, SkipShape, AreSelectors, Listed
  <1>2. DOMAIN sSelectors = 1..Len(sSelectors)
    BY <1>1, ListedDomain
  <1>3. sSelectors = <<>> <=> Len(sSelectors) = 0
    BY <1>1, ListedEmpty, ListedEqual
  <1>4. Len(sInput) \in Nat /\ (\A b \in 1..Len(sInput) : Listed(sInput[b])) /\ Len(sOut) \in Nat
    BY DEF SkipInv, SkipShape, Tables, Listed
  <1> QED BY <1>1, <1>2, <1>3, <1>4 DEF AreSelectors

\* Without selectors the next batch is returned as it is.
LEMMA NextAllKeeps ==
    ASSUME SkipInv, Sk!NextAll
    PROVE  SkipInv' /\ Len(sOut)' = Len(sOut) + 1
  <1>1. /\ sPc = "idle" /\ sLive /\ sTaken < Len(sInput) /\ sSelectors = <<>> /\ sTaken' = sTaken + 1
        /\ Sk!Return(sInput[sTaken'], 1..sWidth)
        /\ UNCHANGED <<sWidth, sSelectors, sInput, sLive, sMask, sNext, sLoaded>>
    BY DEF Sk!NextAll
  <1>2. SkipShape /\ sTaken = Len(sOut)
    BY <1>1 DEF SkipInv, SkipShape, Viewing
  <1>3. sTaken + 1 \in 1..Len(sInput) /\ Listed(sInput[sTaken + 1])
    BY <1>1, <1>2, SkipFacts
  <1>4. /\ Tables(sOut)' /\ Listed(sReads)' /\ Len(sReads)' = Len(sOut)'
        /\ Len(sOut)' = Len(sOut) + 1
        /\ sPc' = "idle" /\ ~Viewing'
        /\ \A b \in 1..Len(sOut)' : ReadFor(b)'
    BY <1>1, <1>3, Answers
  <1>5. SkipShape'
    <2>1. sTaken' \in 0..Len(sInput') /\ sTaken' = Len(sOut)'
      BY <1>1, <1>2, <1>3, <1>4
    <2>2. AreSelectors(sWidth, sSelectors)'
      BY <1>1, <1>2 DEF SkipShape, AreSelectors
    <2> QED BY <1>1, <1>2, <1>4, <2>1, <2>2 DEF SkipShape
  <1> QED BY <1>4, <1>5 DEF SkipInv

\* With selectors a view is taken, of which every row may be kept.
LEMMA NextViewKeeps ==
    ASSUME SkipInv, Sk!NextView
    PROVE  SkipInv' /\ sOut' = sOut
  <1>1. /\ sPc = "idle" /\ sLive /\ sTaken < Len(sInput) /\ sSelectors # <<>> /\ sTaken' = sTaken + 1
        /\ sMask' = [j \in DOMAIN sInput[sTaken'] |-> 1] /\ sNext' = 1 /\ sLoaded' = {} /\ sPc' = "select"
        /\ UNCHANGED <<sWidth, sSelectors, sInput, sLive, sOut, sReads>>
    BY DEF Sk!NextView
  <1>2. SkipShape /\ sTaken = Len(sOut)
    BY <1>1 DEF SkipInv, SkipShape, Viewing
  <1>3. /\ sTaken + 1 \in 1..Len(sInput) /\ Listed(sInput[sTaken + 1])
        /\ Len(sSelectors) \in Nat /\ Len(sSelectors) # 0
    BY <1>1, <1>2, SkipFacts
  <1> DEFINE view == sInput[sTaken + 1]
             ones == [j \in DOMAIN view |-> 1]
  <1>4. DOMAIN view = 1..Len(view) /\ Len(view) \in Nat
    BY <1>3, ListedDomain
  <1>5. sMask' = ones /\ ones \in Seq({0, 1})
    <2>1. ones \in [1..Len(view) -> {0, 1}]
      BY <1>4
    <2> HIDE DEF ones
    <2> QED BY <1>1, <1>4, <2>1, SeqDef DEF ones
  <1>6. SkipShape'
    <2>1. sTaken' \in 0..Len(sInput') /\ sTaken' = Len(sOut)' + 1 /\ Viewing'
      BY <1>1, <1>2, <1>3 DEF Viewing
    <2>2. AreSelectors(sWidth, sSelectors)'
      BY <1>1, <1>2 DEF SkipShape, AreSelectors
    <2>3. sNext' \in 1..(Len(sSelectors)' + 1)
      BY <1>1, <1>3
    <2>4. Tables(sOut)' /\ Listed(sReads)' /\ Tables(sInput)'
      BY <1>1, <1>2 DEF SkipShape
    <2> QED BY <1>1, <1>2, <1>5, <2>1, <2>2, <2>3, <2>4 DEF SkipShape
  <1>7. Marked'
    <2>1. Survivors(sSelectors, view, 0) = DOMAIN view /\ Looked(sSelectors, 0) = {} /\ sNext' - 1 = 0
      BY <1>1, KeptFacts
    <2>2. {j \in DOMAIN ones : ones[j] = 1} = DOMAIN view /\ DOMAIN ones = DOMAIN view
      OBVIOUS
    <2> HIDE DEF ones, view
    <2>3. sInput'[sTaken'] = view
      BY <1>1 DEF view
    <2>4. \A m \in 1..0 : FALSE
      OBVIOUS
    <2> QED BY <1>1, <1>3, <1>5, <2>1, <2>2, <2>3, <2>4 DEF Marked
  <1>8. \A b \in 1..Len(sOut)' : ReadFor(b)'
    BY <1>1 DEF SkipInv, ReadFor
  <1> QED BY <1>1, <1>6, <1>7, <1>8 DEF SkipInv

\* The end of the file.
LEMMA NextEndKeeps ==
    ASSUME SkipInv, Sk!NextEnd
    PROVE  SkipInv' /\ sOut' = sOut
  <1>1. /\ sPc \in {"idle", "ended"} /\ sLive' = FALSE /\ sPc' = "ended"
        /\ UNCHANGED <<sWidth, sSelectors, sInput, sTaken, sMask, sNext, sLoaded, sOut, sReads>>
    BY DEF Sk!NextEnd
  <1>2. SkipShape
    BY DEF SkipInv
  <1>3. ~Viewing /\ ~Viewing'
    BY <1>1 DEF Viewing
  <1>4. SkipShape'
    <2>1. AreSelectors(sWidth, sSelectors)' /\ Tables(sOut)' /\ Listed(sReads)' /\ Tables(sInput)'
      BY <1>1, <1>2 DEF SkipShape, AreSelectors
    <2> QED BY <1>1, <1>2, <1>3, <2>1 DEF SkipShape
  <1>5. \A b \in 1..Len(sOut)' : ReadFor(b)'
    BY <1>1 DEF SkipInv, ReadFor
  <1> QED BY <1>1, <1>4, <1>5 DEF SkipInv

\* A selector throws.
LEMMA SelectorThrowsKeeps ==
    ASSUME SkipInv, Sk!SelectorThrows
    PROVE  SkipInv' /\ sOut' = sOut
  <1>1. /\ sPc = "select" /\ sNext <= Len(sSelectors)
        /\ sLoaded' = sLoaded \cup Sk!ColsOf(sSelectors[sNext]) /\ sPc' = "threw"
        /\ UNCHANGED <<sWidth, sSelectors, sInput, sTaken, sLive, sMask, sNext, sOut, sReads>>
    BY DEF Sk!SelectorThrows
  <1>2. SkipShape
    BY DEF SkipInv
  <1>3. Viewing /\ Viewing'
    BY <1>1 DEF Viewing
  <1>4. sNext \in 1..Len(sSelectors)
    BY <1>1, <1>2, SkipFacts DEF SkipShape
  <1>5. sLoaded' \subseteq 1..sWidth
    BY <1>1, <1>2, <1>4, SkipFacts DEF SkipShape
  <1>6. SkipShape'
    <2>1. AreSelectors(sWidth, sSelectors)' /\ Tables(sOut)' /\ Listed(sReads)' /\ Tables(sInput)'
      BY <1>1, <1>2 DEF SkipShape, AreSelectors
    <2>2. sLive
      BY <1>1, <1>2 DEF SkipShape
    <2> QED BY <1>1, <1>2, <1>3, <1>5, <2>1, <2>2 DEF SkipShape
  <1>7. \A b \in 1..Len(sOut)' : ReadFor(b)'
    BY <1>1 DEF SkipInv, ReadFor
  <1> QED BY <1>1, <1>6, <1>7 DEF SkipInv

\* What is known of a view tells what its next selector leaves.
LEMMA Processed ==
    ASSUME SkipInv, Marked, sPc = "select"
    PROVE  LET n == sNext
               m == Sk!Process(sSelectors[n], sInput[sTaken])
               left == Survivors(sSelectors, sInput[sTaken], n)
           IN  /\ DOMAIN m = DOMAIN sInput[sTaken] /\ m \in Seq({0, 1})
               /\ {j \in DOMAIN m : m[j] = 1} = left
               /\ Sk!AllZero(m) <=> left = {}
  <1> DEFINE view == sInput[sTaken]
             s    == sSelectors[sNext]
             mk   == Sk!Marks(s, view)
             m    == Sk!Process(s, view)
             left == Survivors(sSelectors, view, sNext)
  <1>1. /\ sNext \in 1..Len(sSelectors) /\ DOMAIN sMask = DOMAIN view
        /\ {j \in DOMAIN sMask : sMask[j] = 1} = Survivors(sSelectors, view, sNext - 1)
    BY SkipFacts DEF Marked, SkipInv, SkipShape
  <1>2. sTaken \in 1..Len(sInput) /\ Listed(view)
    BY SkipFacts DEF SkipInv, SkipShape, Viewing
  <1>3. m = [j \in DOMAIN view |-> IF sMask[j] = 1 THEN mk[j] % 2 ELSE 0]
    BY DEF Sk!Process
  <1>4. \A j \in DOMAIN view : mk[j] \in {0, 1}
    <2>1. s.kind = "transform" => s.f.fn \in {"compare", "search"}
      BY <1>1, SkipFacts
    <2> QED BY <2>1, MarksAreBits
  <1>5. DOMAIN view = 1..Len(view) /\ Len(view) \in Nat
    BY <1>2, ListedDomain
  <1>6. left = {j \in Survivors(sSelectors, view, sNext - 1) : mk[j] = 1}
    <2>1. sNext - 1 \in Nat /\ (sNext - 1) + 1 = sNext
      BY <1>1, SkipFacts
    <2>2. PICK n \in Nat : n = sNext - 1 /\ n + 1 = sNext
      BY <2>1
    <2> HIDE DEF view
    <2>3. \A j : j \in Survivors(sSelectors, view, n + 1) <=> j \in Survivors(sSelectors, view, n) /\ Sk!Marks(sSelectors[n + 1], view)[j] = 1
      BY KeptFacts
    <2> QED BY <2>2, <2>3
  <1> HIDE DEF mk, m, left
  <1>7. ASSUME NEW j \in DOMAIN view PROVE m[j] \in {0, 1} /\ (m[j] = 1 <=> sMask[j] = 1 /\ mk[j] = 1)
    <2>1. 0 % 2 = 0 /\ 1 % 2 = 1
      OBVIOUS
    <2>2. mk[j] % 2 = mk[j]
      BY <1>4, <2>1
    <2>3. m[j] = IF sMask[j] = 1 THEN mk[j] ELSE 0
      BY <1>3, <2>2
    <2> QED BY <1>4, <2>3
  <1>8. DOMAIN m = DOMAIN view
    BY <1>3
  <1>9. m \in Seq({0, 1})
    <2>1. m \in [1..Len(view) -> {0, 1}]
      <3>1. m = [j \in 1..Len(view) |-> m[j]]
        BY <1>3, <1>5
      <3> QED BY <1>5, <1>7, <3>1
    <2> QED BY <1>5, <2>1, SeqDef
  <1>10. {j \in DOMAIN m : m[j] = 1} = left
    BY <1>1, <1>6, <1>7, <1>8
  <1>11. Sk!AllZero(m) <=> left = {}
    BY <1>7, <1>8, <1>10 DEF Sk!AllZero
  <1> QED BY <1>8, <1>9, <1>10, <1>11 DEF m, left

\* A selector runs: it leaves no row, or hands the view on.
LEMMA RunSelectorKeeps ==
    ASSUME SkipInv, Sk!RunSelector
    PROVE  SkipInv' /\ (sOut' = sOut \/ Len(sOut)' = Len(sOut) + 1)
  <1>1. /\ sPc = "select" /\ sNext <= Len(sSelectors)
        /\ sLoaded' = sLoaded \cup Sk!ColsOf(sSelectors[sNext])
        /\ sMask' = Sk!Process(sSelectors[sNext], sInput[sTaken])
        /\ sNext' = sNext + 1
        /\ IF Sk!AllZero(sMask')
           THEN Sk!Return(<<>>, sLoaded')
           ELSE /\ sPc' = IF sNext = Len(sSelectors) THEN "subset" ELSE "select"
                /\ UNCHANGED <<sOut, sReads>>
        /\ UNCHANGED <<sWidth, sSelectors, sInput, sTaken, sLive>>
    BY DEF Sk!RunSelector, Sk!View
  <1>2. SkipShape /\ Marked /\ sTaken = Len(sOut) + 1 /\ Viewing
    BY <1>1 DEF SkipInv, SkipShape, Viewing
  <1>3. sNext \in 1..Len(sSelectors) /\ Len(sSelectors) \in Nat /\ sSelectors # <<>> /\ DOMAIN sSelectors = 1..Len(sSelectors)
    <2>1. Len(sSelectors) \in Nat /\ DOMAIN sSelectors = 1..Len(sSelectors)
      BY SkipFacts
    <2>2. sNext \in 1..(Len(sSelectors) + 1) /\ sSelectors # <<>>
      BY <1>2 DEF SkipShape, Marked
    <2>3. sNext <= Len(sSelectors)
      BY <1>1
    <2> QED BY <2>1, <2>2, <2>3
  <1>10. sNext' = sNext + 1 /\ sSelectors' = sSelectors /\ Len(sSelectors)' = Len(sSelectors)
    BY <1>1
  <1> DEFINE view == sInput[sTaken]
             left == Survivors(sSelectors, view, sNext)
  <1>4. /\ DOMAIN sMask' = DOMAIN view /\ sMask' \in Seq({0, 1})
        /\ {j \in DOMAIN sMask' : sMask'[j] = 1} = left
        /\ Sk!AllZero(sMask') <=> left = {}
    BY <1>1, <1>2, Processed
  <1>5. sLoaded' = Looked(sSelectors, sNext) /\ sLoaded' \subseteq 1..sWidth
    <2>1. sNext - 1 \in Nat /\ (sNext - 1) + 1 = sNext
      BY <1>3
    <2>2. Looked(sSelectors, (sNext - 1) + 1) = Looked(sSelectors, sNext - 1) \cup Sk!ColsOf(sSelectors[(sNext - 1) + 1])
      BY <2>1, KeptFacts
    <2>3. sLoaded = Looked(sSelectors, sNext - 1)
      BY <1>2 DEF Marked
    <2>4. sLoaded' = Looked(sSelectors, sNext)
      BY <1>1, <2>1, <2>2, <2>3
    <2>5. sLoaded' \subseteq 1..sWidth
      BY <1>1, <1>2, <1>3, SkipFacts DEF SkipShape
    <2> QED BY <2>4, <2>5
  <1>6. \A m \in 1..(sNext - 1) : Survivors(sSelectors, view, m) # {}
    BY <1>2 DEF Marked
  <1>7. /\ AreSelectors(sWidth, sSelectors)' /\ Tables(sInput)' /\ sTaken' \in 0..Len(sInput')
        /\ sLive' /\ sNext' \in 1..(Len(sSelectors)' + 1)
    <2>1. sLive
      BY <1>1, <1>2 DEF SkipShape
    <2>2. sNext' \in 1..(Len(sSelectors)' + 1)
      BY <1>3, <1>10
    <2> QED BY <1>1, <1>2, <2>1, <2>2 DEF SkipShape, AreSelectors
  <1> HIDE DEF view, left
  <1>8. CASE left = {}
    <2>1. Sk!Return(<<>>, sLoaded')
      BY <1>1, <1>4, <1>8
    <2>2. Needed(sSelectors, view) = sNext
      <3>1. sNext \in DOMAIN sSelectors /\ DOMAIN sSelectors \subseteq Nat /\ 0 \notin DOMAIN sSelectors
        BY <1>3
      <3> QED BY <1>6, <1>8, <3>1, NeededIs DEF left
    <2>3. Needed(sSelectors, sInput[Len(sOut) + 1]) = sNext
      BY <1>2, <2>2 DEF view
    <2>4. PICK cols : cols = sLoaded'
      OBVIOUS
    <2>5. cols = IF <<>> # <<>> \/ sSelectors = <<>> THEN 1..sWidth
                 ELSE Looked(sSelectors, Needed(sSelectors, sInput[Len(sOut) + 1]))
      BY <1>3, <1>5, <2>3, <2>4
    <2>6. Sk!Return(<<>>, cols)
      BY <2>1, <2>4
    <2>7. /\ Tables(sOut)' /\ Listed(sReads)' /\ Len(sReads)' = Len(sOut)'
          /\ Len(sOut)' = Len(sOut) + 1
          /\ sPc' = "idle" /\ ~Viewing'
          /\ \A b \in 1..Len(sOut)' : ReadFor(b)'
      BY <1>1, <2>5, <2>6, ListedEmpty, Answers
    <2>8. SkipShape'
      BY <1>1, <1>2, <1>4, <1>5, <1>7, <2>7 DEF SkipShape
    <2> QED BY <2>7, <2>8 DEF SkipInv
  <1>9. CASE left # {}
    <2>1. /\ sPc' = IF sNext = Len(sSelectors) THEN "subset" ELSE "select"
          /\ UNCHANGED <<sOut, sReads>>
      BY <1>1, <1>4, <1>9
    <2>2. SkipShape'
      <3>1. Viewing'
        BY <2>1 DEF Viewing
      <3>2. Tables(sOut)' /\ Listed(sReads)' /\ Len(sReads)' = Len(sOut)'
        BY <1>2, <2>1 DEF SkipShape
      <3> QED BY <1>1, <1>2, <1>4, <1>5, <1>7, <2>1, <3>1, <3>2 DEF SkipShape
    <2>3. Marked'
      <3>1. sInput'[sTaken'] = view /\ sSelectors' = sSelectors /\ sNext' - 1 = sNext
        <4>1. sInput'[sTaken'] = view
          BY <1>1 DEF view
        <4> QED BY <1>3, <1>10, <4>1
      <3>2. IF sPc' = "select" THEN sNext' <= Len(sSelectors)' ELSE sNext' = Len(sSelectors)' + 1
        <4>1. sNext = Len(sSelectors) => sPc' = "subset" /\ sNext' = Len(sSelectors)' + 1
          BY <1>10, <2>1
        <4>2. sNext # Len(sSelectors) => sPc' = "select" /\ sNext' <= Len(sSelectors)'
          <5>1. sNext # Len(sSelectors) => sNext + 1 <= Len(sSelectors)
            <6>1. Len(sSelectors) \in Nat /\ sNext \in 1..Len(sSelectors)
              BY <1>3
            <6> DEFINE m == Len(sSelectors)
            <6>2. m \in Nat /\ sNext \in 1..m
              BY <6>1
            <6> HIDE DEF m
            <6>3. sNext # m => sNext + 1 <= m
              BY <6>2
            <6> QED BY <6>3 DEF m
          <5>2. sNext # Len(sSelectors) => sPc' = "select"
            BY <2>1
          <5>3. sNext' = sNext + 1 /\ Len(sSelectors)' = Len(sSelectors)
            BY <1>10
          <5> QED BY <5>1, <5>2, <5>3
        <4> QED BY <4>1, <4>2
      <3>3. \A m \in 1..sNext : Survivors(sSelectors, view, m) # {}
        BY <1>3, <1>6, <1>9 DEF left
      <3> QED BY <1>3, <1>4, <1>5, <3>1, <3>2, <3>3 DEF Marked, left
    <2>4. \A b \in 1..Len(sOut)' : ReadFor(b)'
      BY <1>1, <2>1 DEF SkipInv, ReadFor
    <2> QED BY <2>1, <2>2, <2>3, <2>4 DEF SkipInv
  <1> QED BY <1>8, <1>9

\* The rows that are left are returned, and there are some.
LEMMA ReadSubsetKeeps ==
    ASSUME SkipInv, Sk!ReadSubset
    PROVE  SkipInv' /\ Len(sOut)' = Len(sOut) + 1
  <1> DEFINE view == sInput[sTaken]
             marked == [j \in DOMAIN sMask |-> sMask[j] = 1]
             rows == Picked(view, marked)
  <1>1. /\ sPc = "subset" /\ Sk!Return(rows, 1..sWidth)
        /\ UNCHANGED <<sWidth, sSelectors, sInput, sTaken, sLive, sMask, sNext, sLoaded>>
    BY SkPicked DEF Sk!ReadSubset, Sk!View
  <1>2. SkipShape /\ Marked /\ sTaken = Len(sOut) + 1
    BY <1>1 DEF SkipInv, SkipShape, Viewing
  <1>3. Len(sSelectors) \in Nat /\ sSelectors # <<>> /\ Len(sSelectors) # 0 /\ sTaken \in 1..Len(sInput) /\ Listed(view)
    BY <1>2, SkipFacts DEF SkipShape, Marked
  <1>4. rows # <<>>
    <2>1. Survivors(sSelectors, view, Len(sSelectors)) # {}
      <3>1. sNext - 1 = Len(sSelectors)
        BY <1>1, <1>2, <1>3 DEF Marked
      <3> QED BY <1>2, <1>3, <3>1 DEF Marked
    <2>2. PICK i \in DOMAIN sMask : sMask[i] = 1
      BY <1>1, <1>2, <1>3, <2>1 DEF Marked
    <2>3. i \in DOMAIN view /\ marked[i]
      BY <1>2, <2>2 DEF Marked
    <2> QED BY <1>3, <2>3, PickedSome
  <1>5. Listed(rows)
    BY <1>3, PickedIsListed
  <1> HIDE DEF rows
  <1>6. /\ Tables(sOut)' /\ Listed(sReads)' /\ Len(sReads)' = Len(sOut)'
        /\ Len(sOut)' = Len(sOut) + 1
        /\ sPc' = "idle" /\ ~Viewing'
        /\ \A b \in 1..Len(sOut)' : ReadFor(b)'
    BY <1>1, <1>4, <1>5, Answers
  <1>7. SkipShape'
    <2>1. AreSelectors(sWidth, sSelectors)' /\ Tables(sInput)'
      BY <1>1, <1>2 DEF SkipShape, AreSelectors
    <2>2. sLive' /\ sTaken' = Len(sOut)'
      BY <1>1, <1>2, <1>6 DEF SkipShape
    <2> QED BY <1>1, <1>2, <1>6, <2>1, <2>2 DEF SkipShape
  <1> QED BY <1>6, <1>7 DEF SkipInv

\* Every step of a skipper keeps its invariant, and returns at most one batch.
LEMMA SkipperKeeps ==
    ASSUME SkipInv, Sk!SkipperNext
    PROVE  SkipInv' /\ (sOut' = sOut \/ Len(sOut)' = Len(sOut) + 1)
  BY NextAllKeeps, NextViewKeeps, NextEndKeeps, RunSelectorKeeps, SelectorThrowsKeeps, ReadSubsetKeeps
     DEF Sk!SkipperNext

\* What a skipper leaves alone.
LEMMA SkipperLeaves ==
    ASSUME Sk!SkipperNext
    PROVE  UNCHANGED <<sWidth, sSelectors, sInput>>
  BY DEF Sk!SkipperNext, Sk!NextAll, Sk!NextView, Sk!NextEnd, Sk!RunSelector, Sk!SelectorThrows, Sk!ReadSubset

\* Before the first batch.
LEMMA SkipInitHolds ==
    ASSUME NEW columns, NEW sels, AreSelectors(columns, sels), NEW batches, Tables(batches),
           Sk!InitWith(columns, sels, batches)
    PROVE  SkipInv
  <1>1. /\ sWidth = columns /\ sSelectors = sels /\ sInput = batches /\ sTaken = 0 /\ sLive = TRUE
        /\ sPc = "idle" /\ sMask = <<>> /\ sNext = 1 /\ sLoaded = {} /\ sOut = <<>> /\ sReads = <<>>
    BY DEF Sk!InitWith
  <1>2. Len(sSelectors) \in Nat /\ Len(sInput) \in Nat
    BY <1>1 DEF AreSelectors, Tables, Listed
  <1>3. Tables(<<>>) /\ Listed(<<>>) /\ Len(<<>>) = 0 /\ <<>> \in Seq({0, 1})
    BY FlattenNone, ListedEmpty
  <1>4. sTaken \in 0..Len(sInput) /\ sNext \in 1..(Len(sSelectors) + 1)
    BY <1>1, <1>2
  <1>5. SkipShape
    BY <1>1, <1>3, <1>4 DEF SkipShape, Viewing
  <1> QED BY <1>1, <1>3, <1>5 DEF SkipInv

\* Before the first batch of a new reader.
LEMMA SkipRestartHolds ==
    ASSUME NEW columns, NEW sels, AreSelectors(columns, sels), NEW batches, Tables(batches),
           Sk!Restart(columns, sels, batches)
    PROVE  SkipInv'
  <1>1. /\ sWidth' = columns /\ sSelectors' = sels /\ sInput' = batches /\ sTaken' = 0 /\ sLive' = TRUE
        /\ sPc' = "idle" /\ sMask' = <<>> /\ sNext' = 1 /\ sLoaded' = {} /\ sOut' = <<>> /\ sReads' = <<>>
    BY DEF Sk!Restart
  <1>2. Len(sSelectors') \in Nat /\ Len(sInput') \in Nat
    BY <1>1 DEF AreSelectors, Tables, Listed
  <1>3. Tables(<<>>) /\ Listed(<<>>) /\ Len(<<>>) = 0 /\ <<>> \in Seq({0, 1})
    BY FlattenNone, ListedEmpty
  <1>4. sTaken' \in 0..Len(sInput') /\ sNext' \in 1..(Len(sSelectors') + 1)
    BY <1>1, <1>2
  <1>5. AreSelectors(sWidth, sSelectors)' /\ Tables(sInput)' /\ Tables(sOut)' /\ Listed(sReads)'
    BY <1>1, <1>3 DEF AreSelectors
  <1>6. SkipShape'
    BY <1>1, <1>3, <1>4, <1>5 DEF SkipShape, Viewing
  <1> QED BY <1>1, <1>3, <1>6 DEF SkipInv

\* The data of SetContains makes of selectors others, that look at the same columns.
LEMMA FilledAreSelectors ==
    ASSUME NEW data, NEW columns, NEW sels, AreSelectors(columns, sels)
    PROVE  AreSelectors(columns, FilledSelectors(data, sels))
  <1> DEFINE f == FilledSelectors(data, sels)
  <1>1. Listed(sels) /\ DOMAIN sels = 1..Len(sels) /\ Len(sels) \in Nat
    BY ListedDomain DEF AreSelectors, Listed
  <1>2. f = [n \in DOMAIN sels |-> IF sels[n].kind = "operator"
                                   THEN [sels[n] EXCEPT !.ops = Filled(data, sels[n].ops)] ELSE sels[n]]
    BY DEF FilledSelectors
  <1> HIDE DEF f
  <1>3. f = [n \in DOMAIN sels |-> f[n]]
    BY <1>2
  <1>4. Listed(f) /\ Len(f) = Len(sels) /\ DOMAIN f = DOMAIN sels
    BY <1>1, <1>3, OnPlaces
  <1>5. ASSUME NEW n \in DOMAIN sels
        PROVE  /\ "kind" \in DOMAIN f[n]
               /\ f[n].kind = "transform" => f[n].f.fn \in {"compare", "search"}
               /\ f[n].kind = "operator" => "cols" \in DOMAIN f[n]
               /\ Sk!ColsOf(f[n]) \subseteq 1..columns
    <2> DEFINE s == sels[n]
    <2>1. /\ "kind" \in DOMAIN s
          /\ s.kind = "transform" => s.f.fn \in {"compare", "search"}
          /\ s.kind = "operator" => "cols" \in DOMAIN s
          /\ Sk!ColsOf(s) \subseteq 1..columns
      BY DEF AreSelectors
    <2>2. CASE s.kind # "operator"
      <3>1. f[n] = s
        BY <1>2, <2>2
      <3> QED BY <2>1, <3>1
    <2>3. CASE s.kind = "operator"
      <3>1. f[n] = [s EXCEPT !.ops = Filled(data, s.ops)]
        BY <1>2, <2>3
      <3> HIDE DEF s
      <3>2. DOMAIN f[n] = DOMAIN s
        BY <3>1
      <3>3. f[n].kind = s.kind /\ f[n].cols = s.cols
        BY <2>1, <2>3, <3>1
      <3>4. Sk!ColsOf(f[n]) = Sk!ColsOf(s)
        BY <2>3, <3>3 DEF Sk!ColsOf
      <3> QED BY <2>1, <2>3, <3>2, <3>3, <3>4
    <2> QED BY <2>2, <2>3
  <1>6. f = [n \in 1..Len(f) |-> f[n]] /\ Len(f) \in Nat
    BY <1>4 DEF Listed
  <1>7. AreSelectors(columns, f)
    BY <1>4, <1>5, <1>6 DEF AreSelectors
  <1> QED BY <1>7 DEF f

\* The batches of a file, as they are read.
LEMMA ReadIsTables ==
    ASSUME NEW file, Tables(file), NEW cs
    PROVE  Tables(Read(file, cs))
  <1> DEFINE r == Read(file, cs)
  <1>1. Listed(file) /\ DOMAIN file = 1..Len(file) /\ \A b \in 1..Len(file) : Listed(file[b])
    BY ListedDomain DEF Tables
  <1>2. r = [b \in DOMAIN file |-> [j \in DOMAIN file[b] |-> Columns(file[b][j], cs)]]
    BY DEF Read
  <1> HIDE DEF r
  <1>3. r = [b \in DOMAIN file |-> r[b]]
    BY <1>2
  <1>4. Listed(r) /\ Len(r) = Len(file)
    BY <1>1, <1>3, OnPlaces
  <1>5. ASSUME NEW b \in 1..Len(r) PROVE Listed(r[b])
    <2>1. Listed(file[b]) /\ r[b] = [j \in DOMAIN file[b] |-> Columns(file[b][j], cs)]
      BY <1>1, <1>2, <1>4
    <2>2. r[b] = [j \in DOMAIN file[b] |-> r[b][j]]
      BY <2>1
    <2> QED BY <2>1, <2>2, OnPlaces
  <1>6. Tables(r)
    BY <1>4, <1>5 DEF Tables
  <1> QED BY <1>6 DEF r

\* What a plan reads by itself, and what its skipper does.
LEMMA SourcesAreTables ==
    ASSUME NEW plan, NEW file, Tables(file)
    PROVE  /\ Tables(SourceOf(plan, file)) /\ Tables(SkippedOf(plan, file))
           /\ ~Skips(plan) => SkippedOf(plan, file) = <<>>
  BY ReadIsTables, FlattenNone DEF SourceOf, SkippedOf

\* A sequence of two.
LEMMA AppendedToOne ==
    ASSUME NEW a, NEW b
    PROVE  Append(<<a>>, b) = <<a, b>>
  <1> DEFINE one  == <<a>>
             more == Append(one, b)
             two  == <<a, b>>
  <1>1. Listed(one) /\ Len(one) = 1 /\ one[1] = a
    BY ListedOne
  <1>2. Listed(two) /\ Len(two) = 2 /\ two[1] = a /\ two[2] = b
    <2>1. two \in Seq({a, b})
      OBVIOUS
    <2>2. Listed(two)
      <3> HIDE DEF two
      <3> QED BY <2>1, SeqIsListed
    <2> QED BY <2>2
  <1> HIDE DEF one, two
  <1>3. Listed(more) /\ Len(more) = Len(one) + 1 /\ more[Len(one) + 1] = b
    BY <1>1, ListedAppend
  <1>4. \A j \in 1..Len(one) : more[j] = one[j]
    BY <1>1, ListedAppend
  <1> HIDE DEF more
  <1>5. Len(more) = 2 /\ more[2] = b /\ more[1] = a
    BY <1>1, <1>3, <1>4
  <1>6. \A j \in 1..2 : j = 1 \/ j = 2
    OBVIOUS
  <1>7. more = two
    BY <1>2, <1>3, <1>5, <1>6, ListedEqual
  <1> QED BY <1>7 DEF one, two, more

\* A file of rows is a sequence of batches.
LEMMA FileIsTables ==
    ASSUME NEW n \in Nat, NEW R, NEW table \in [1..n -> R], NEW first \in 0..Least(1, n)
    PROVE  Tables(FileOf(table, first))
  <1>1. Listed(table) /\ Len(table) = n
    <2>1. table = [j \in 1..n |-> table[j]]
      OBVIOUS
    <2> QED BY <2>1, FunctionIsListed
  <1>2. CASE table = <<>>
    BY <1>2, FlattenNone DEF FileOf
  <1>3. CASE table # <<>>
    <2> DEFINE a == SubSeq(table, 1, first)
               b == SubSeq(table, first + 1, Len(table))
    <2>1. first \in Nat /\ first <= n
      BY DEF Least
    <2>2. Listed(a)
      BY <1>1, <2>1, ListedPart
    <2>3. Listed(b)
      <3>1. first + 1 \in Nat /\ 1 <= first + 1 /\ Len(table) \in Nat /\ Len(table) <= Len(table)
        BY <1>1, <2>1
      <3> QED BY <1>1, <3>1, ListedPart
    <2> HIDE DEF a, b
    <2>4. Tables(<<a>>) /\ Append(<<a>>, b) = <<a, b>>
      <3>1. Tables(<<a>>)
        BY <2>2, FlattenOne
      <3>2. Append(<<a>>, b) = <<a, b>>
        BY AppendedToOne
      <3> QED BY <3>1, <3>2
    <2>5. Tables(Append(<<a>>, b))
      BY <2>3, <2>4, FlattenAppend
    <2>6. FileOf(table, first) = <<a, b>>
      BY <1>3 DEF FileOf, a, b
    <2> QED BY <2>4, <2>5, <2>6
  <1> QED BY <1>2, <1>3

-----------------------------------------------------------------------------
(* The invariant of a query.                                               *)

\* The plan that runs.
Now == IF pass = 1 THEN FirstPlan(query) ELSE PlanOf(query)

QueryInv ==
    /\ ChainInv
    /\ SkipInv
    /\ query \in Names /\ pass \in {1, 2} /\ Tables(hits)
    /\ ended => taken = Len(input) /\ (~sLive \/ sInput = <<>>)
    /\ ~Skips(Now) => sInput = <<>>

\* The first plan before its first call.
LEMMA QueryInitHolds == QInit => QueryInv
  <1> SUFFICES ASSUME QInit PROVE QueryInv
    OBVIOUS
  <1>10. PICK q \in Names :
          \E n \in 0..MaxRows[q] :
          \E table \in [1..n -> RowsOf[q]], first \in 0..Least(1, n) :
            /\ query = q
            /\ hits = FileOf(table, first)
            /\ pass = 1
            /\ InitWith(FirstChain[q], SourceOf(FirstPlan(q), hits))
            /\ Sk!InitWith(Len(FirstPlan(q).cols), FirstSelectors[q], SkippedOf(FirstPlan(q), hits))
    BY Zenon DEF QInit
  <1>11. PICK n \in 0..MaxRows[q] :
          \E table \in [1..n -> RowsOf[q]], first \in 0..Least(1, n) :
            /\ query = q
            /\ hits = FileOf(table, first)
            /\ pass = 1
            /\ InitWith(FirstChain[q], SourceOf(FirstPlan(q), hits))
            /\ Sk!InitWith(Len(FirstPlan(q).cols), FirstSelectors[q], SkippedOf(FirstPlan(q), hits))
    BY <1>10, Zenon
  <1>1. PICK table \in [1..n -> RowsOf[q]], first \in 0..Least(1, n) :
          /\ query = q
          /\ hits = FileOf(table, first)
          /\ pass = 1
          /\ InitWith(FirstChain[q], SourceOf(FirstPlan(q), hits))
          /\ Sk!InitWith(Len(FirstPlan(q).cols), FirstSelectors[q], SkippedOf(FirstPlan(q), hits))
    BY <1>11, Zenon
  <1>2. n \in Nat
    BY RowsAssumption
  <1>3. Tables(hits)
    BY <1>1, <1>2, FileIsTables
  <1>4. Tables(SourceOf(FirstPlan(q), hits)) /\ Tables(SkippedOf(FirstPlan(q), hits))
    BY <1>3, SourcesAreTables
  <1>5. IsChain(FirstChain[q]) /\ AreSelectors(Len(FirstPlan(q).cols), FirstSelectors[q])
    BY PlansAssumption
  <1>6. ChainInv
    BY <1>1, <1>4, <1>5, InitHolds
  <1>7. SkipInv
    BY <1>1, <1>4, <1>5, SkipInitHolds
  <1>8. ~ended
    BY <1>1 DEF InitWith
  <1>9. ~Skips(Now) => sInput = <<>>
    <2>1. Now = FirstPlan(q)
      BY <1>1 DEF Now
    <2>2. sInput = SkippedOf(FirstPlan(q), hits)
      BY <1>1 DEF Sk!InitWith
    <2> QED BY <1>3, <2>1, <2>2, SourcesAreTables
  <1> QED BY <1>1, <1>3, <1>6, <1>7, <1>8, <1>9 DEF QueryInv

\* What a step does with the chain it does not undo of the skipper, if it leaves that alone.
LEMMA SkipStays ==
    ASSUME SkipInv, UNCHANGED sVars
    PROVE  SkipInv'
  <1>1. UNCHANGED <<sWidth, sSelectors, sInput, sTaken, sLive, sPc, sMask, sNext, sLoaded, sOut, sReads>>
    BY DEF sVars
  <1>2. SkipShape'
    <2>1. AreSelectors(sWidth, sSelectors)' /\ Tables(sOut)' /\ Listed(sReads)' /\ Tables(sInput)'
      BY <1>1 DEF SkipInv, SkipShape, AreSelectors
    <2> QED BY <1>1, <2>1 DEF SkipInv, SkipShape, Viewing
  <1>3. \A b \in 1..Len(sOut)' : ReadFor(b)'
    BY <1>1 DEF SkipInv, ReadFor
  <1>4. sPc' \in {"select", "subset"} => Marked'
    BY <1>1 DEF SkipInv, Marked
  <1> QED BY <1>2, <1>3, <1>4 DEF SkipInv

\* The plan changes only between passes.
LEMMA NowStays ==
    ASSUME UNCHANGED <<query, pass>>
    PROVE  Now' = Now
  BY DEF Now

\* The program asks for the next batch.
LEMMA PullKeeps ==
    ASSUME QueryInv, Pull
    PROVE  QueryInv'
  <1>1. CallNext /\ UNCHANGED sVars /\ UNCHANGED <<query, hits, pass>>
    BY DEF Pull
  <1>2. ChainInv' /\ SkipInv' /\ Now' = Now
    BY <1>1, CallNextKeeps, SkipStays, NowStays DEF QueryInv
  <1>3. UNCHANGED <<ended, taken, input, sLive, sInput>>
    BY <1>1 DEF CallNext, sVars
  <1>4. Tables(hits)'
    BY <1>1 DEF QueryInv
  <1> QED BY <1>1, <1>2, <1>3, <1>4 DEF QueryInv

\* A stream runs.
LEMMA ChainStepKeeps ==
    ASSUME QueryInv, ChainStep
    PROVE  QueryInv'
  <1>1. StreamsNext /\ UNCHANGED sVars /\ UNCHANGED <<query, hits, pass>>
    BY DEF ChainStep
  <1>2. ChainInv
    BY DEF QueryInv
  <1>3. ChainInv' /\ UNCHANGED <<ended, taken, input>>
    <2>1. CASE StageNext
      BY <1>2, <2>1, StageNextKeeps DEF StageNext
    <2>2. CASE PassOn
      BY <1>2, <2>2, PassOnKeeps DEF PassOn
    <2>3. CASE Absorb
      BY <1>2, <2>3, AbsorbKeeps DEF Absorb
    <2>4. CASE EndOfStream
      BY <1>2, <2>4, EndOfStreamKeeps DEF EndOfStream
    <2>5. CASE Throw
      BY <1>2, <2>5, ThrowKeeps DEF Throw
    <2> QED BY <1>1, <2>1, <2>2, <2>3, <2>4, <2>5 DEF StreamsNext
  <1>4. SkipInv' /\ Now' = Now
    BY <1>1, SkipStays, NowStays DEF QueryInv
  <1>5. UNCHANGED <<sLive, sInput>>
    BY <1>1 DEF sVars
  <1>6. Tables(hits)'
    BY <1>1 DEF QueryInv
  <1> QED BY <1>1, <1>3, <1>4, <1>5, <1>6 DEF QueryInv

\* The source gives a batch, or ends: with a skipper, when that has ended.
LEMMA SourceStepKeeps ==
    ASSUME QueryInv, SourceStep
    PROVE  QueryInv'
  <1>1. at = 0 /\ (Asked => ~sLive \/ ~Skips(Now)) /\ SourceNext /\ UNCHANGED sVars /\ UNCHANGED <<query, hits, pass>>
    BY DEF SourceStep, Now
  <1>2. ChainInv' /\ SkipInv' /\ Now' = Now
    BY <1>1, SourceNextKeeps, SkipStays, NowStays DEF QueryInv
  <1>3. UNCHANGED <<sLive, sInput>>
    BY <1>1 DEF sVars
  <1>4. Tables(hits)'
    BY <1>1 DEF QueryInv
  <1>5. taken \in Nat /\ Len(input) \in Nat /\ taken <= Len(input)
    BY DEF QueryInv, ChainInv, Shape, Tables, Listed
  <1>6. ended' => taken' = Len(input') /\ (~sLive' \/ sInput' = <<>>)
    <2>1. input' = input
      BY <1>1 DEF SourceNext
    <2>2. CASE taken < Len(input)
      <3>1. ended' = ended
        BY <1>1, <2>2 DEF SourceNext
      <3>2. ~ended
        BY <1>5, <2>2 DEF QueryInv
      <3> QED BY <3>1, <3>2
    <2>3. CASE ~(taken < Len(input))
      <3>1. taken' = taken /\ moving = "down"
        BY <1>1, <2>3 DEF SourceNext
      <3>2. taken = Len(input)
        BY <1>5, <2>3
      <3>3. ~sLive \/ sInput = <<>>
        BY <1>1, <3>1, <3>2 DEF Asked, QueryInv
      <3> QED BY <1>3, <2>1, <3>1, <3>2, <3>3
    <2> QED BY <2>2, <2>3
  <1> QED BY <1>1, <1>2, <1>3, <1>4, <1>6 DEF QueryInv

\* A batch more in the source changes nothing of the first ones.
LEMMA PrefixStays ==
    ASSUME NEW s, Listed(s), NEW x, NEW n \in 0..Len(s)
    PROVE  SubSeq(Append(s, x), 1, n) = SubSeq(s, 1, n)
  <1> DEFINE more == Append(s, x)
             p == SubSeq(s, 1, n)
             q == SubSeq(more, 1, n)
  <1>1. Listed(more) /\ Len(more) = Len(s) + 1 /\ Len(s) \in Nat
    BY ListedAppend DEF Listed
  <1>2. \A j \in 1..Len(s) : more[j] = s[j]
    BY ListedAppend
  <1>3. Listed(p) /\ Len(p) = n /\ \A j \in 1..n : p[j] = s[j]
    BY PrefixIs
  <1> HIDE DEF more
  <1>4. n \in 0..Len(more)
    BY <1>1
  <1>5. Listed(q) /\ Len(q) = n /\ \A j \in 1..n : q[j] = more[j]
    BY <1>1, <1>4, PrefixIs
  <1>6. \A j \in 1..n : j \in 1..Len(s)
    BY <1>1
  <1> HIDE DEF p, q
  <1>7. q = p
    BY <1>2, <1>3, <1>5, <1>6, ListedEqual
  <1> QED BY <1>7 DEF more, p, q

\* The skipper works while the source is asked: for the chain, batches come later.
LEMMA SourceGrows ==
    ASSUME ChainInv, at = 0, moving = "down", moving' \in {"down", "threw"},
           input' = input \/ \E b : Listed(b) /\ input' = Append(input, b),
           UNCHANGED <<chain, taken, asked, ended, live, state, at, carry, calls, out>>
    PROVE  ChainInv'
  <1>1. PICK A, E : Means(A, E)
    BY DEF ChainInv
  <1>2. Shape /\ Answered /\ InTurn /\ Told
    BY DEF ChainInv
  <1>3. Stages' = Stages /\ Caller' = Caller /\ LastEnded' = LastEnded
    BY DEF Stages, Caller, LastEnded
  <1>4. at \notin Stages /\ at # Caller
    BY <1>2, ChainFacts DEF Shape
  <1>5. Tables(input) /\ Listed(input) /\ taken \in 0..Len(input) /\ Len(input) \in Nat
    BY <1>2 DEF Shape, Tables, Listed
  <1>6. /\ Tables(input') /\ taken \in 0..Len(input')
        /\ SubSeq(input', 1, taken) = SubSeq(input, 1, taken)
    <2>1. CASE input' = input
      BY <1>5, <2>1
    <2>2. CASE \E b : Listed(b) /\ input' = Append(input, b)
      <3>1. PICK b : Listed(b) /\ input' = Append(input, b)
        BY <2>2
      <3>2. Tables(Append(input, b))
        BY <1>5, <3>1, FlattenAppend
      <3>3. Len(Append(input, b)) = Len(input) + 1
        BY <1>5, ListedAppend
      <3>4. SubSeq(Append(input, b), 1, taken) = SubSeq(input, 1, taken)
        BY <1>5, PrefixStays
      <3>5. taken \in 0..(Len(input) + 1)
        BY <1>5
      <3> QED BY <3>1, <3>2, <3>3, <3>4, <3>5
    <2> QED BY <2>1, <2>2
  <1>7. Shape'
    <2>1. IsPtr(carry)'
      BY <1>2 DEF Shape, IsPtr, Null, Ptr
    <2> QED BY <1>2, <1>3, <1>6, <2>1 DEF Shape, IsChain
  <1>8. Answered' /\ Told'
    BY <1>2, <1>3, <1>4 DEF Answered, Told, Null
  <1>9. InTurn'
    BY <1>2, <1>3, <1>4 DEF InTurn, Came, Null
  <1>10. Means(A, E)'
    <2>1. \A k \in Stages : Pending(k)' = Pending(k)
      BY <1>4 DEF Pending, RowsIn, Null
    <2> QED BY <1>1, <1>3, <1>6, <2>1 DEF Means
  <1> QED BY <1>7, <1>8, <1>9, <1>10 DEF ChainInv

\* The skipper runs. It has a batch to return only while the source has not ended.
LEMMA SkipperStepKeeps ==
    ASSUME QueryInv, SkipperStep
    PROVE  QueryInv'
  <1>1. /\ at = 0 /\ moving = "down" /\ taken = Len(input) /\ sLive /\ Sk!SkipperNext
        /\ input' = IF sOut' = sOut THEN input ELSE Append(input, sOut'[Len(sOut')])
        /\ moving' = IF sPc' = "threw" THEN "threw" ELSE moving
        /\ UNCHANGED <<query, hits, pass>>
        /\ UNCHANGED <<chain, taken, asked, ended, live, state, at, carry, calls, out>>
    BY DEF SkipperStep, Asked
  <1>2. SkipInv' /\ (sOut' = sOut \/ Len(sOut)' = Len(sOut) + 1)
    BY <1>1, SkipperKeeps DEF QueryInv
  <1>3. sInput' = sInput
    BY <1>1, SkipperLeaves
  <1>4. Len(sOut) \in Nat /\ Len(sOut) <= Len(sInput) /\ Len(sInput) \in Nat
    BY DEF QueryInv, SkipInv, SkipShape, Tables, Listed, Viewing
  <1>5. sOut' # sOut => Listed(sOut'[Len(sOut')]) /\ sInput # <<>>
    <2>1. ASSUME sOut' # sOut PROVE Listed(sOut'[Len(sOut')]) /\ sInput # <<>>
      <3>1. Len(sOut') = Len(sOut) + 1
        BY <1>2, <2>1
      <3>2. Tables(sOut') /\ sTaken' \in 0..Len(sInput') /\ sTaken' >= Len(sOut')
        <4>1. SkipShape'
          BY <1>2 DEF SkipInv
        <4>2. Tables(sOut') /\ sTaken' \in 0..Len(sInput')
          BY <4>1 DEF SkipShape
        <4>3. Len(sOut') \in Nat
          BY <1>4, <3>1
        <4>4. sTaken' = Len(sOut') + 1 \/ sTaken' = Len(sOut')
          BY <4>1 DEF SkipShape
        <4> QED BY <4>2, <4>3, <4>4
      <3>3. Len(sOut') \in 1..Len(sOut')
        BY <1>4, <3>1
      <3>4. Listed(sOut'[Len(sOut')])
        BY <3>2, <3>3 DEF Tables
      <3>5. Len(sInput) # 0
        BY <1>3, <1>4, <3>1, <3>2
      <3> QED BY <3>4, <3>5, ListedEmpty
    <2> QED BY <2>1
  <1>6. ChainInv'
    <2>1. input' = input \/ \E b : Listed(b) /\ input' = Append(input, b)
      BY <1>1, <1>5
    <2>2. moving' \in {"down", "threw"}
      BY <1>1
    <2> QED BY <1>1, <2>1, <2>2, SourceGrows DEF QueryInv
  <1>7. ended' => taken' = Len(input') /\ (~sLive' \/ sInput' = <<>>)
    <2>1. ASSUME ended PROVE taken' = Len(input') /\ sInput' = <<>>
      <3>1. sInput = <<>>
        BY <1>1, <2>1 DEF QueryInv
      <3>2. input' = input
        BY <1>1, <1>5, <3>1
      <3> QED BY <1>1, <1>3, <3>1, <3>2
    <2> QED BY <1>1, <2>1
  <1>8. Now' = Now /\ Tables(hits)' /\ query' \in Names /\ pass' \in {1, 2}
    BY <1>1, NowStays DEF QueryInv
  <1>9. ~Skips(Now)' => sInput' = <<>>
    BY <1>3, <1>8 DEF QueryInv
  <1> QED BY <1>2, <1>6, <1>7, <1>8, <1>9 DEF QueryInv

\* The first plan has been drained, and the second begins.
LEMMA SecondPassKeeps ==
    ASSUME QueryInv, SecondPass
    PROVE  QueryInv'
  <1>1. pass' = 2 /\ UNCHANGED <<query, hits>>
    BY DEF SecondPass
  <1>2. PICK data :
          /\ Restart(Filled(data, Chain[query]), SourceOf(PlanOf(query), hits))
          /\ Sk!Restart(Len(PlanOf(query).cols), FilledSelectors(data, Selectors[query]), SkippedOf(PlanOf(query), hits))
    BY Zenon DEF SecondPass
  <1>3. query \in Names /\ Tables(hits)
    BY DEF QueryInv
  <1>4. IsChain(Chain[query]) /\ AreSelectors(Len(PlanOf(query).cols), Selectors[query])
    BY <1>3, PlansAssumption
  <1>5. PICK c, sels, columns, batches, skipped :
          /\ c = Filled(data, Chain[query]) /\ sels = FilledSelectors(data, Selectors[query])
          /\ columns = Len(PlanOf(query).cols)
          /\ batches = SourceOf(PlanOf(query), hits) /\ skipped = SkippedOf(PlanOf(query), hits)
    OBVIOUS
  <1>6. IsChain(c) /\ AreSelectors(columns, sels)
    BY <1>4, <1>5, FilledIsChain, FilledAreSelectors
  <1>7. Tables(batches) /\ Tables(skipped) /\ (~Skips(PlanOf(query)) => skipped = <<>>)
    BY <1>3, <1>5, SourcesAreTables
  <1>8. Restart(c, batches) /\ Sk!Restart(columns, sels, skipped)
    BY <1>2, <1>5
  <1>9. ChainInv'
    BY <1>6, <1>7, <1>8, RestartHolds
  <1>10. SkipInv'
    BY <1>6, <1>7, <1>8, SkipRestartHolds
  <1>11. ended' = FALSE /\ sInput' = skipped
    BY <1>8 DEF Restart, Sk!Restart
  <1>12. Now' = PlanOf(query)
    BY <1>1 DEF Now
  <1>13. Tables(hits)'
    BY <1>1, <1>3
  <1> QED BY <1>1, <1>3, <1>7, <1>9, <1>10, <1>11, <1>12, <1>13 DEF QueryInv

\* Nothing happens.
LEMMA NothingKeeps ==
    ASSUME QueryInv, UNCHANGED allVars
    PROVE  QueryInv'
  <1>1. UNCHANGED vars /\ UNCHANGED sVars /\ UNCHANGED <<query, hits, pass>>
    BY DEF allVars
  <1>2. SkipInv' /\ Now' = Now
    BY <1>1, SkipStays, NowStays DEF QueryInv
  <1>3. UNCHANGED <<chain, input, taken, asked, ended, live, state, at, moving, carry, calls, out>>
    BY <1>1 DEF vars
  <1>4. ChainInv'
    <2>1. PICK A, E : Means(A, E)
      BY DEF QueryInv, ChainInv
    <2>2. Shape'
      <3>1. IsPtr(carry)'
        BY <1>3 DEF QueryInv, ChainInv, Shape, IsPtr, Null, Ptr
      <3> QED BY <1>3, <3>1 DEF QueryInv, ChainInv, Shape, IsChain, Stages, Caller
    <2>3. Answered' /\ InTurn' /\ Told'
      BY <1>3 DEF QueryInv, ChainInv, Answered, InTurn, Came, Told, LastEnded, Stages, Caller, Null
    <2>4. Means(A, E)'
      <3>1. \A k \in Stages : Pending(k)' = Pending(k)
        BY <1>3 DEF Pending, RowsIn, Null
      <3> QED BY <1>3, <2>1, <3>1 DEF Means, Stages
    <2> QED BY <2>2, <2>3, <2>4 DEF ChainInv
  <1>5. Tables(hits)' /\ UNCHANGED <<sLive, sInput>>
    BY <1>1 DEF QueryInv, sVars
  <1> QED BY <1>1, <1>2, <1>3, <1>4, <1>5 DEF QueryInv

\* The invariant holds of every query.
THEOREM QueryInvHolds == QSpec => []QueryInv
  <1>1. QInit => QueryInv
    BY QueryInitHolds
  <1>2. QueryInv /\ [QNext]_allVars => QueryInv'
    BY PullKeeps, SourceStepKeeps, SkipperStepKeeps, ChainStepKeeps, SecondPassKeeps, NothingKeeps DEF QNext
  <1> QED BY <1>1, <1>2, PTL DEF QSpec

-----------------------------------------------------------------------------
(* What the invariant says of the caller.                                  *)

\* After null comes null, and nobody is asked in vain.
LEMMA EndIsLast == ChainInv => NullIsLast
  <1> SUFFICES ASSUME ChainInv PROVE NullIsLast
    OBVIOUS
  <1>1. PICK A, E : Means(A, E)
    BY DEF ChainInv
  <1>2. Shape /\ Answered /\ InTurn /\ Told
    BY DEF ChainInv
  <1>3. Len(chain) \in Nat /\ \A k \in Stages : IsOperator(chain[k])
    BY <1>2, ChainFacts DEF Shape
  <1>4. ASSUME NEW k \in Stages, chain[k].op = "skip" PROVE state[k] \in 0..chain[k].n
    <2>1. chain[k].n \in Nat
      BY <1>3, <1>4 DEF IsOperator
    <2>2. state[k] = After(chain[k], A[k]) /\ Len(A[k]) \in Nat
      BY <1>1, <1>4 DEF Means, StageMeans, Passing, Listed
    <2>3. state[k] = chain[k].n - Least(chain[k].n, Len(A[k]))
      BY <1>4, <2>2 DEF After
    <2> QED BY <2>1, <2>2, <2>3 DEF Least
  <1>5. Len(out) <= calls
    <2>1. Len(out) \in Nat /\ calls \in Nat
      BY <1>2, CallsAssumption DEF Shape, Tables, Listed
    <2> QED BY <1>2, <2>1 DEF Answered
  <1>6. TypeOK
    BY <1>2, <1>4, <1>5 DEF TypeOK, Shape
  <1> QED BY <1>2, <1>6 DEF NullIsLast, Told, InTurn

\* One operator after the other, as ApplyAll has it.
LEMMA AllApplied ==
    ASSUME NEW c, Len(c) \in Nat, NEW rows, NEW E, E[0] = rows,
           \A k \in 1..Len(c) : E[k] = Apply(c[k], E[k - 1])
    PROVE  ApplyAll(c, rows) = E[Len(c)]
  <1> DEFINE n == Len(c)
             IsIt(f) == f = [k \in 0..n |-> IF k = 0 THEN rows ELSE Apply(c[k], f[k - 1])]
             h == CHOOSE f : IsIt(f)
             g == [k \in 0..n |-> E[k]]
  <1>1. n \in Nat
    OBVIOUS
  <1>2. ApplyAll(c, rows) = h[n]
    BY DEF ApplyAll
  <1> HIDE DEF n
  <1>3. IsIt(g)
    <2>1. ASSUME NEW k \in 0..n PROVE E[k] = IF k = 0 THEN rows ELSE Apply(c[k], g[k - 1])
      <3>1. CASE k = 0
        BY <3>1
      <3>2. CASE k # 0
        <4>1. k \in 1..n /\ k - 1 \in 0..n
          BY <1>1, <3>2
        <4>2. g[k - 1] = E[k - 1]
          BY <4>1
        <4>3. E[k] = Apply(c[k], E[k - 1])
          BY <4>1 DEF n
        <4> QED BY <3>2, <4>2, <4>3
      <3> QED BY <3>1, <3>2
    <2> QED BY <2>1
  <1>4. IsIt(h)
    <2> HIDE DEF IsIt, g
    <2> QED BY <1>3
  <1> HIDE DEF h
  <1>5. \A k \in 0..n : h[k] = IF k = 0 THEN rows ELSE Apply(c[k], h[k - 1])
    BY <1>4
  <1> HIDE DEF IsIt, g
  <1>6. \A k \in 0..n : h[k] = E[k]
    <2> DEFINE Bad == {m \in 0..n : h[m] # E[m]}
    <2>1. SUFFICES ASSUME Bad # {} PROVE FALSE
      OBVIOUS
    <2>2. PICK m \in Bad : \A k \in Bad : m <= k
      <3>1. Bad \subseteq Nat
        BY <1>1
      <3> HIDE DEF Bad
      <3> QED BY <2>1, <3>1, LeastNat
    <2>3. m \in 0..n /\ h[m] # E[m]
      BY <2>2
    <2>4. m # 0
      BY <1>5, <2>3
    <2>5. m \in 1..n /\ m - 1 \in 0..n /\ ~(m <= m - 1)
      BY <1>1, <2>3, <2>4
    <2>6. h[m - 1] = E[m - 1]
      BY <2>2, <2>5
    <2>7. E[m] = Apply(c[m], E[m - 1])
      BY <2>5 DEF n
    <2> QED BY <1>5, <2>3, <2>4, <2>6, <2>7
  <1>7. n \in 0..n
    BY <1>1
  <1> QED BY <1>2, <1>6, <1>7 DEF n

\* When the caller has been told the end every stream has ended, and given all it had.
LEMMA EndIsMeaning ==
    ASSUME ChainInv, ended => taken = Len(input)
    PROVE  EndMeansAll
  <1> SUFFICES ASSUME Null \in ToSet(out) PROVE FlattenSeq(Batches(out)) = Meaning
    BY DEF EndMeansAll
  <1>1. PICK A, E : Means(A, E)
    BY DEF ChainInv
  <1>2. Shape /\ Answered /\ InTurn /\ Told
    BY DEF ChainInv
  <1>3. /\ Len(chain) \in Nat /\ Stages = 1..Len(chain) /\ (chain = <<>> <=> Len(chain) = 0)
        /\ \A k \in Stages : IsOperator(chain[k])
    BY <1>2, ChainFacts DEF Shape
  <1>4. LastEnded
    BY <1>2 DEF Told
  <1>5. ended /\ \A k \in Stages : ~live[k]
    <2>1. CASE chain = <<>>
      BY <1>3, <1>4, <2>1 DEF LastEnded
    <2>2. CASE chain # <<>>
      <3>1. Len(chain) \in Stages /\ ~live[Len(chain)]
        BY <1>3, <1>4, <2>2 DEF LastEnded
      <3>2. ended /\ \A j \in Stages : j < Len(chain) => ~live[j]
        BY <1>2, <3>1 DEF InTurn
      <3>3. \A j \in Stages : j < Len(chain) \/ j = Len(chain)
        BY <1>3
      <3> QED BY <3>1, <3>2, <3>3
    <2> QED BY <2>1, <2>2
  <1>6. ~Came
    BY <1>2, <1>5 DEF InTurn, Came
  <1>7. \A k \in Stages : Pending(k) = <<>>
    BY <1>6 DEF Pending, Came
  <1>8. E[0] = FlattenSeq(input)
    <2>1. Listed(input) /\ taken = Len(input)
      BY <1>2, <1>5 DEF Shape, Tables
    <2>2. SubSeq(input, 1, taken) = input
      <3>1. taken \in 0..Len(input)
        BY <1>2 DEF Shape
      <3>2. Listed(SubSeq(input, 1, taken)) /\ Len(SubSeq(input, 1, taken)) = taken
        BY <2>1, <3>1, PrefixIs
      <3>3. \A j \in 1..taken : SubSeq(input, 1, taken)[j] = input[j]
        BY <2>1, <3>1, PrefixIs
      <3> QED BY <2>1, <3>2, <3>3, ListedEqual
    <2> QED BY <1>1, <2>2 DEF Means
  <1>9. ASSUME NEW k \in 1..Len(chain) PROVE E[k] = Apply(chain[k], E[k - 1])
    <2>1. k \in Stages /\ ~live[k]
      BY <1>3, <1>5
    <2>2. E[k - 1] = A[k]
      BY <1>1, <1>2, <1>7, <2>1, MeansFacts
    <2>3. StageMeans(chain[k], live[k], state[k], A[k], E[k])
      BY <1>1, <2>1 DEF Means
    <2>4. chain[k].op \in Passing \cup Draining
      BY <1>3, <2>1 DEF IsOperator
    <2> QED BY <2>1, <2>2, <2>3, <2>4 DEF StageMeans
  <1>10. ApplyAll(chain, FlattenSeq(input)) = E[Len(chain)]
    BY <1>3, <1>8, <1>9, AllApplied
  <1>11. FlattenSeq(Batches(out)) = E[Len(chain)]
    BY <1>1 DEF Means, Batches
  <1> QED BY <1>10, <1>11 DEF Meaning

\* Null is the caller's last word, and no stream is asked again that has told its
\* end, however the source cuts its rows into batches and however often Next is called.
THEOREM NullEnds == QSpec => []NullIsLast
  <1>1. QueryInv => NullIsLast
    BY EndIsLast DEF QueryInv
  <1> QED BY <1>1, QueryInvHolds, PTL

\* What the caller has got when it is told the end is what the operators mean, one
\* after the other, of all the rows of the source.
THEOREM EndIsWhole == QSpec => []EndMeansAll
  <1>1. QueryInv => EndMeansAll
    BY EndIsMeaning DEF QueryInv
  <1> QED BY <1>1, QueryInvHolds, PTL

\* The skipper reads what is needed, and nothing else.
THEOREM ReadForAReason == QSpec => []NothingReadInVain
  <1>1. QueryInv => NothingReadInVain
    BY SkipInvImplies DEF QueryInv
  <1> QED BY <1>1, QueryInvHolds, PTL

-----------------------------------------------------------------------------
(* What a query answers.                                                   *)

\* What is picked depends on what is marked, and on nothing else.
LEMMA PickedSame ==
    ASSUME NEW s, NEW marked, NEW others, \A j \in DOMAIN s : marked[j] <=> others[j]
    PROVE  Picked(s, marked) = Picked(s, others)
  <1>1. [j \in DOMAIN s |-> IF marked[j] THEN <<s[j]>> ELSE <<>>] =
        [j \in DOMAIN s |-> IF others[j] THEN <<s[j]>> ELSE <<>>]
    OBVIOUS
  <1> QED BY <1>1, Zenon DEF Picked

\* If nothing is marked nothing is picked.
LEMMA PickedNone ==
    ASSUME NEW s, NEW marked, Listed(s), \A j \in DOMAIN s : ~marked[j]
    PROVE  Picked(s, marked) = <<>>
  <1> DEFINE p == [j \in DOMAIN s |-> IF marked[j] THEN <<s[j]>> ELSE <<>>]
             n == Len(s)
             g == JoinUpTo(p)
  <1>1. n \in Nat /\ DOMAIN s = 1..n
    BY ListedDomain
  <1>2. p = [j \in 1..n |-> <<>>]
    BY <1>1
  <1>3. Picked(s, marked) = FlattenSeq(p)
    BY DEF Picked
  <1> HIDE DEF p, n
  <1>4. p = [j \in 1..n |-> p[j]]
    BY <1>2
  <1>5. Tables(p) /\ Len(p) = n
    BY <1>1, <1>2, <1>4, FunctionIsListed, ListedEmpty DEF Tables
  <1>6. FlattenSeq(p) = g[n] /\ g[0] = <<>> /\ \A k \in 1..n : g[k] = g[k - 1] \o p[k]
    BY <1>5, FlattenIsFlat, FlatDef
  <1> HIDE DEF g
  <1>7. \A k \in 0..n : g[k] = <<>>
    <2> DEFINE Bad == {m \in 0..n : g[m] # <<>>}
    <2>1. SUFFICES ASSUME Bad # {} PROVE FALSE
      OBVIOUS
    <2>2. PICK m \in Bad : \A k \in Bad : m <= k
      <3>1. Bad \subseteq Nat
        BY <1>1
      <3> HIDE DEF Bad
      <3> QED BY <2>1, <3>1, LeastNat
    <2>3. m \in 0..n /\ g[m] # <<>>
      BY <2>2
    <2>4. m \in 1..n /\ m - 1 \in 0..n /\ ~(m <= m - 1)
      BY <1>1, <1>6, <2>3
    <2>5. g[m - 1] = <<>> /\ p[m] = <<>> /\ g[m] = g[m - 1] \o p[m]
      BY <1>2, <1>6, <2>2, <2>4
    <2>6. <<>> \o <<>> = <<>>
      BY ListedEmpty
    <2> QED BY <2>3, <2>5, <2>6
  <1>8. n \in 0..n
    BY <1>1
  <1> QED BY <1>3, <1>6, <1>7, <1>8

\* If everything is marked everything is picked.
LEMMA PickedAll ==
    ASSUME NEW s, NEW marked, Listed(s), \A j \in DOMAIN s : marked[j]
    PROVE  Picked(s, marked) = s
  <1> DEFINE p == [j \in DOMAIN s |-> IF marked[j] THEN <<s[j]>> ELSE <<>>]
             n == Len(s)
             g == JoinUpTo(p)
             Is(k) == Listed(g[k]) /\ Len(g[k]) = k /\ \A j \in 1..k : g[k][j] = s[j]
  <1>1. n \in Nat /\ DOMAIN s = 1..n
    BY ListedDomain
  <1>2. p = [j \in 1..n |-> <<s[j]>>]
    BY <1>1
  <1>3. Picked(s, marked) = FlattenSeq(p)
    BY DEF Picked
  <1> HIDE DEF p, n
  <1>4. p = [j \in 1..n |-> p[j]]
    BY <1>2
  <1>5. Tables(p) /\ Len(p) = n
    BY <1>1, <1>2, <1>4, FunctionIsListed, ListedOne DEF Tables
  <1>6. FlattenSeq(p) = g[n] /\ g[0] = <<>> /\ \A k \in 1..n : g[k] = g[k - 1] \o p[k]
    BY <1>5, FlattenIsFlat, FlatDef
  <1> HIDE DEF g
  <1>7. Is(0)
    BY <1>6, ListedEmpty
  <1>8. ASSUME NEW m \in 1..n, Is(m - 1) PROVE Is(m)
    <2>1. PICK before, x : before = g[m - 1] /\ x = s[m]
      OBVIOUS
    <2>2. Listed(before) /\ Len(before) = m - 1 /\ g[m] = before \o <<x>>
      BY <1>2, <1>6, <1>8, <2>1
    <2>3. g[m] = Append(before, x)
      BY <2>2, ListedAppend
    <2>4. Listed(g[m]) /\ Len(g[m]) = Len(before) + 1 /\ g[m][Len(before) + 1] = x
      BY <2>2, <2>3, ListedAppend
    <2>5. \A j \in 1..Len(before) : g[m][j] = before[j]
      BY <2>2, <2>3, ListedAppend
    <2>6. (m - 1) + 1 = m /\ \A j \in 1..m : j \in 1..(m - 1) \/ j = m
      BY <1>1
    <2> QED BY <1>8, <2>1, <2>2, <2>4, <2>5, <2>6
  <1>9. \A k \in 0..n : Is(k)
    <2> DEFINE Bad == {m \in 0..n : ~Is(m)}
    <2> HIDE DEF Is
    <2>1. SUFFICES ASSUME Bad # {} PROVE FALSE
      OBVIOUS
    <2>2. PICK m \in Bad : \A k \in Bad : m <= k
      <3>1. Bad \subseteq Nat
        BY <1>1
      <3> HIDE DEF Bad
      <3> QED BY <2>1, <3>1, LeastNat
    <2>3. m \in 0..n /\ ~Is(m)
      BY <2>2
    <2>4. m \in 1..n /\ m - 1 \in 0..n /\ ~(m <= m - 1)
      BY <1>1, <1>7, <2>3
    <2>5. Is(m - 1)
      BY <2>2, <2>4
    <2> QED BY <1>8, <2>3, <2>4, <2>5
  <1>10. Listed(g[n]) /\ Len(g[n]) = Len(s) /\ \A j \in 1..Len(s) : g[n][j] = s[j]
    BY <1>1, <1>9 DEF n
  <1> QED BY <1>3, <1>6, <1>10, ListedEqual

\* What is wanted of a batch is what its selectors leave.
LEMMA WantedIs ==
    ASSUME NEW sels, NEW batch, Listed(batch), Len(sels) \in Nat, DOMAIN sels = 1..Len(sels)
    PROVE  /\ Wanted(sels, batch) = Picked(batch, [j \in DOMAIN batch |-> j \in Survivors(sels, batch, Len(sels))])
           /\ Len(sels) = 0 => Wanted(sels, batch) = batch
           /\ \A n \in 0..Len(sels) : Survivors(sels, batch, n) = {} => Wanted(sels, batch) = <<>>
  <1> DEFINE marked == [j \in DOMAIN batch |-> \A n \in DOMAIN sels : Sk!Marks(sels[n], batch)[j] = 1]
             left   == [j \in DOMAIN batch |-> j \in Survivors(sels, batch, Len(sels))]
  <1>1. \A j \in DOMAIN batch : marked[j] <=> left[j]
    BY DEF Survivors
  <1>2. Wanted(sels, batch) = Picked(batch, marked)
    BY DEF Wanted
  <1>3. ASSUME Len(sels) = 0 PROVE \A j \in DOMAIN batch : marked[j]
    BY <1>3
  <1>4. ASSUME NEW n \in 0..Len(sels), Survivors(sels, batch, n) = {}
        PROVE  \A j \in DOMAIN batch : ~marked[j]
    <2>1. \A m \in 1..n : m \in DOMAIN sels
      OBVIOUS
    <2>2. ASSUME NEW j \in DOMAIN batch, marked[j] PROVE j \in Survivors(sels, batch, n)
      BY <2>1, <2>2 DEF Survivors
    <2> QED BY <1>4, <2>2
  <1> HIDE DEF marked
  <1>5. Picked(batch, marked) = Picked(batch, left)
    <2> HIDE DEF left
    <2> QED BY <1>1, PickedSame
  <1>6. Len(sels) = 0 => Wanted(sels, batch) = batch
    BY <1>2, <1>3, PickedAll
  <1>7. \A n \in 0..Len(sels) : Survivors(sels, batch, n) = {} => Wanted(sels, batch) = <<>>
    BY <1>2, <1>4, PickedNone
  <1> QED BY <1>2, <1>5, <1>6, <1>7

-----------------------------------------------------------------------------
\* A skipper has returned of each batch what its selectors want.
SkipKept == \A b \in 1..Len(sOut) : sOut[b] = Wanted(sSelectors, sInput[b])

\* One batch more is what is wanted of the view.
LEMMA OneMoreKept ==
    ASSUME SkipInv, SkipKept, NEW batch, NEW cols, Sk!Return(batch, cols),
           UNCHANGED <<sSelectors, sInput>>, batch = Wanted(sSelectors, sInput[Len(sOut) + 1])
    PROVE  SkipKept' /\ sOut' = Append(sOut, sOut'[Len(sOut')])
  <1>1. sOut' = Append(sOut, batch)
    BY DEF Sk!Return
  <1>2. Listed(sOut) /\ Len(sOut) \in Nat
    BY DEF SkipInv, SkipShape, Tables, Listed
  <1>3. Len(sOut') = Len(sOut) + 1 /\ sOut'[Len(sOut) + 1] = batch /\ \A b \in 1..Len(sOut) : sOut'[b] = sOut[b]
    BY <1>1, <1>2, ListedAppend
  <1>4. \A b \in 1..Len(sOut') : b \in 1..Len(sOut) \/ b = Len(sOut) + 1
    BY <1>2, <1>3
  <1> QED BY <1>1, <1>3, <1>4 DEF SkipKept

\* Every step of a skipper keeps that.
LEMMA SkipperKeepsKept ==
    ASSUME SkipInv, SkipKept, Sk!SkipperNext
    PROVE  SkipKept' /\ (sOut' = sOut \/ sOut' = Append(sOut, sOut'[Len(sOut')]))
  <1>1. UNCHANGED <<sSelectors, sInput>>
    BY SkipperLeaves
  <1>2. /\ Len(sSelectors) \in Nat /\ DOMAIN sSelectors = 1..Len(sSelectors)
        /\ sSelectors = <<>> <=> Len(sSelectors) = 0
        /\ \A b \in 1..Len(sInput) : Listed(sInput[b])
    BY SkipFacts
  <1>3. SkipShape
    BY DEF SkipInv
  <1>4. CASE sOut' = sOut
    BY <1>1, <1>4 DEF SkipKept
  <1>5. CASE Sk!NextAll
    <2>1. /\ sPc = "idle" /\ sTaken < Len(sInput) /\ sSelectors = <<>> /\ sTaken' = sTaken + 1
          /\ Sk!Return(sInput[sTaken'], 1..sWidth)
      BY <1>5 DEF Sk!NextAll
    <2>2. sTaken = Len(sOut) /\ sTaken + 1 \in 1..Len(sInput)
      BY <1>3, <2>1, SkipFacts DEF SkipShape, Viewing
    <2>3. sInput[Len(sOut) + 1] = Wanted(sSelectors, sInput[Len(sOut) + 1])
      BY <1>2, <2>1, <2>2, WantedIs
    <2> QED BY <1>1, <2>1, <2>2, <2>3, OneMoreKept
  <1>6. CASE Sk!RunSelector
    <2>1. /\ sPc = "select" /\ sNext <= Len(sSelectors)
          /\ sMask' = Sk!Process(sSelectors[sNext], sInput[sTaken])
          /\ IF Sk!AllZero(sMask') THEN Sk!Return(<<>>, sLoaded') ELSE UNCHANGED sOut
      BY <1>6 DEF Sk!RunSelector, Sk!View
    <2>2. Marked /\ sTaken = Len(sOut) + 1 /\ sTaken \in 1..Len(sInput)
      BY <1>3, <2>1, SkipFacts DEF SkipInv, SkipShape, Viewing
    <2>3. CASE Sk!AllZero(sMask')
      <3>1. Survivors(sSelectors, sInput[sTaken], sNext) = {}
        BY <2>1, <2>2, <2>3, Processed
      <3>2. sNext \in 0..Len(sSelectors)
        BY <1>2, <1>3, <2>1 DEF SkipShape
      <3>3. Wanted(sSelectors, sInput[sTaken]) = <<>>
        BY <1>2, <2>2, <3>1, <3>2, WantedIs
      <3>4. PICK cols : cols = sLoaded'
        OBVIOUS
      <3> QED BY <1>1, <2>1, <2>2, <2>3, <3>3, <3>4, OneMoreKept
    <2> QED BY <1>4, <2>1, <2>3
  <1>7. CASE Sk!ReadSubset
    <2> DEFINE view == sInput[sTaken]
               marked == [j \in DOMAIN sMask |-> sMask[j] = 1]
               left == [j \in DOMAIN view |-> j \in Survivors(sSelectors, view, Len(sSelectors))]
    <2>1. sPc = "subset" /\ Sk!Return(Picked(view, marked), 1..sWidth)
      BY <1>7, SkPicked DEF Sk!ReadSubset, Sk!View
    <2>2. Marked /\ sTaken = Len(sOut) + 1 /\ sTaken \in 1..Len(sInput) /\ Listed(view)
      BY <1>2, <1>3, <2>1, SkipFacts DEF SkipInv, SkipShape, Viewing
    <2>3. /\ DOMAIN sMask = DOMAIN view /\ sNext - 1 = Len(sSelectors)
          /\ {j \in DOMAIN sMask : sMask[j] = 1} = Survivors(sSelectors, view, sNext - 1)
      BY <1>2, <2>1, <2>2 DEF Marked
    <2>4. \A j \in DOMAIN view : marked[j] <=> left[j]
      BY <2>3
    <2>5. Picked(view, marked) = Picked(view, left)
      <3> HIDE DEF marked, left
      <3> QED BY <2>4, PickedSame
    <2>6. Wanted(sSelectors, view) = Picked(view, left)
      BY <1>2, <2>2, WantedIs
    <2> HIDE DEF marked, left
    <2>7. PICK batch : batch = Picked(view, marked)
      OBVIOUS
    <2> QED BY <1>1, <2>1, <2>2, <2>5, <2>6, <2>7, OneMoreKept
  <1>8. CASE Sk!NextView \/ Sk!NextEnd \/ Sk!SelectorThrows
    BY <1>4, <1>8 DEF Sk!NextView, Sk!NextEnd, Sk!SelectorThrows
  <1> QED BY <1>5, <1>6, <1>7, <1>8 DEF Sk!SkipperNext

-----------------------------------------------------------------------------
(* The rows on their way from the file to the program.                     *)

\* The operators and selectors of the plan that runs.
NowChain     == IF pass = 1 THEN FirstChain[query] ELSE Filled(LookedUp, Chain[query])
NowSelectors == IF pass = 1 THEN FirstSelectors[query] ELSE FilledSelectors(LookedUp, Selectors[query])

\* Reader, skipper and chain are those of the plan that runs, and work on the file.
Linked ==
    /\ pass = 1 \/ query \in TwoPass
    /\ chain = NowChain
    /\ sSelectors = NowSelectors
    /\ IF Skips(Now) THEN sInput = Read(hits, Now.cols) /\ input = sOut
                     ELSE input = Read(hits, Now.cols)
    /\ SkipKept
    /\ ~sLive => sTaken = Len(sInput)

\* What is the same as long as the pass is.
LEMMA PassStays ==
    ASSUME UNCHANGED <<query, hits, pass>>
    PROVE  UNCHANGED <<Now, NowChain, NowSelectors>>
  <1>1. UNCHANGED FirstAnswer
    BY DEF FirstAnswer, RowsWanted
  <1>2. UNCHANGED LookedUp
    BY <1>1 DEF LookedUp
  <1> QED BY <1>2, NowStays DEF NowChain, NowSelectors

\* Neither the chain nor the program nor the source touches any of that.
LEMMA LinkStays ==
    ASSUME Linked, UNCHANGED sVars, UNCHANGED <<query, hits, pass>>, UNCHANGED <<chain, input>>
    PROVE  Linked'
  <1>1. UNCHANGED <<Now, NowChain, NowSelectors>>
    BY PassStays
  <1>2. UNCHANGED <<sSelectors, sInput, sTaken, sLive, sOut>>
    BY DEF sVars
  <1>3. SkipKept'
    BY <1>2 DEF Linked, SkipKept
  <1>4. Read(hits, Now.cols)' = Read(hits, Now.cols)
    BY <1>1
  <1> QED BY <1>1, <1>2, <1>3, <1>4 DEF Linked

\* The first plan before its first call.
LEMMA LinkInit == QInit => Linked
  <1> SUFFICES ASSUME QInit PROVE Linked
    OBVIOUS
  <1>1. PICK q \in Names :
          \E n \in 0..MaxRows[q] :
          \E table \in [1..n -> RowsOf[q]], first \in 0..Least(1, n) :
            /\ query = q
            /\ hits = FileOf(table, first)
            /\ pass = 1
            /\ InitWith(FirstChain[q], SourceOf(FirstPlan(q), hits))
            /\ Sk!InitWith(Len(FirstPlan(q).cols), FirstSelectors[q], SkippedOf(FirstPlan(q), hits))
    BY Zenon DEF QInit
  <1>2. /\ query = q /\ pass = 1
        /\ InitWith(FirstChain[q], SourceOf(FirstPlan(q), hits))
        /\ Sk!InitWith(Len(FirstPlan(q).cols), FirstSelectors[q], SkippedOf(FirstPlan(q), hits))
    BY <1>1, Zenon
  <1>3. chain = FirstChain[q] /\ input = SourceOf(FirstPlan(q), hits)
    BY <1>2 DEF InitWith
  <1>4. /\ sSelectors = FirstSelectors[q] /\ sInput = SkippedOf(FirstPlan(q), hits)
        /\ sOut = <<>> /\ sLive = TRUE
    BY <1>2 DEF Sk!InitWith
  <1>5. Now = FirstPlan(q) /\ NowChain = FirstChain[q] /\ NowSelectors = FirstSelectors[q]
    BY <1>2 DEF Now, NowChain, NowSelectors
  <1>6. SkipKept
    BY <1>4, ListedEmpty DEF SkipKept
  <1> QED BY <1>2, <1>3, <1>4, <1>5, <1>6 DEF Linked, SourceOf, SkippedOf

\* A skipper hands on what it returns, and ends when it has seen the whole file.
LEMMA SkipperLinks ==
    ASSUME QueryInv, Linked, SkipperStep
    PROVE  Linked'
  <1>1. /\ sLive /\ Sk!SkipperNext
        /\ input' = IF sOut' = sOut THEN input ELSE Append(input, sOut'[Len(sOut')])
        /\ UNCHANGED <<query, hits, pass>> /\ UNCHANGED chain
    BY DEF SkipperStep
  <1>2. SkipInv /\ SkipKept
    BY DEF QueryInv, Linked
  <1>3. UNCHANGED <<sSelectors, sInput>>
    BY <1>1, SkipperLeaves
  <1>4. SkipKept' /\ (sOut' = sOut \/ sOut' = Append(sOut, sOut'[Len(sOut')]))
    BY <1>1, <1>2, SkipperKeepsKept
  <1>5. SkipInv' /\ (sOut' = sOut \/ Len(sOut)' = Len(sOut) + 1)
    BY <1>1, <1>2, SkipperKeeps
  <1>6. UNCHANGED <<Now, NowChain, NowSelectors>>
    BY <1>1, PassStays
  <1>7. ~sLive' => sTaken' = Len(sInput')
    <2>1. CASE Sk!NextEnd
      BY <1>1, <2>1 DEF Sk!NextEnd
    <2>2. CASE ~Sk!NextEnd
      BY <1>1, <2>2
         DEF Sk!SkipperNext, Sk!NextAll, Sk!NextView, Sk!RunSelector, Sk!SelectorThrows, Sk!ReadSubset
    <2> QED BY <2>1, <2>2
  <1>8. IF Skips(Now) THEN sInput' = Read(hits, Now.cols) /\ input' = sOut'
                      ELSE input' = Read(hits, Now.cols)
    <2>1. CASE Skips(Now)
      <3>1. sInput = Read(hits, Now.cols) /\ input = sOut
        BY <2>1 DEF Linked
      <3> QED BY <1>1, <1>3, <1>4, <2>1, <3>1
    <2>2. CASE ~Skips(Now)
      <3>1. input = Read(hits, Now.cols) /\ sInput = <<>>
        BY <2>2 DEF Linked, QueryInv
      <3>2. Len(sInput') = 0
        BY <1>3, <3>1, ListedEmpty
      <3>3. SkipShape' /\ Len(sOut) \in Nat
        BY <1>2, <1>5 DEF SkipInv, SkipShape, Tables, Listed
      <3>4. Len(sOut)' # Len(sOut) + 1
        <4>1. sTaken' \in 0..Len(sInput') /\ (sTaken' = Len(sOut)' + 1 \/ sTaken' = Len(sOut)')
          BY <3>3 DEF SkipShape
        <4> QED BY <3>2, <3>3, <4>1
      <3> QED BY <1>1, <1>5, <2>2, <3>1, <3>4
    <2> QED BY <2>1, <2>2
  <1>9. Skips(Now)' = Skips(Now) /\ Read(hits, Now.cols)' = Read(hits, Now.cols)
    BY <1>1, <1>6 DEF Skips
  <1>10. pass' = 1 \/ query' \in TwoPass
    BY <1>1 DEF Linked
  <1>11. chain' = NowChain' /\ sSelectors' = NowSelectors'
    BY <1>1, <1>3, <1>6 DEF Linked
  <1> QED BY <1>4, <1>7, <1>8, <1>9, <1>10, <1>11 DEF Linked

\* A plan without a skipper has no selectors.
LEMMA NoSelectors ==
    ASSUME query \in Names, ~Skips(Now)
    PROVE  NowSelectors = <<>>
  <1>1. SelectorsOf(Now) = <<>>
    BY DEF Skips, SelectorsOf
  <1>2. CASE pass = 1
    BY <1>1, <1>2 DEF Now, NowSelectors, FirstSelectors
  <1>3. CASE pass # 1
    <2>1. Selectors[query] = <<>>
      BY <1>1, <1>3 DEF Now, Selectors
    <2>2. FilledSelectors(LookedUp, <<>>) = <<>>
      BY DEF FilledSelectors
    <2> QED BY <1>3, <2>1, <2>2 DEF NowSelectors
  <1> QED BY <1>2, <1>3

\* When the source has ended it has given what is wanted of the file.
LEMMA WholeFile ==
    ASSUME QueryInv, Linked, ended
    PROVE  FlattenSeq(input) = RowsWanted(Now, NowSelectors)
  <1> DEFINE batches == Read(hits, Now.cols)
             wanted  == [b \in DOMAIN batches |-> Wanted(sSelectors, batches[b])]
  <1>1. query \in Names /\ Tables(hits) /\ SkipInv /\ sSelectors = NowSelectors /\ SkipKept
    BY DEF QueryInv, Linked
  <1>2. Tables(batches)
    BY <1>1, ReadIsTables
  <1> HIDE DEF batches
  <1>3. Len(batches) \in Nat /\ DOMAIN batches = 1..Len(batches) /\ \A b \in 1..Len(batches) : Listed(batches[b])
    BY <1>2, ListedDomain DEF Tables, Listed
  <1>4. input = wanted
    <2>1. CASE Skips(Now)
      <3>1. sInput = batches /\ input = sOut
        BY <2>1 DEF Linked, batches
      <3>2. ~sLive \/ sInput = <<>>
        BY DEF QueryInv
      <3>3. SkipShape /\ Len(sOut) \in Nat /\ Tables(sOut)
        BY <1>1 DEF SkipInv, SkipShape, Tables, Listed
      <3>4. Len(sOut) = Len(batches)
        <4>1. CASE ~sLive
          <5>1. sTaken = Len(sInput) /\ ~Viewing
            BY <3>3, <4>1 DEF Linked, SkipShape, Viewing
          <5> QED BY <3>1, <3>3, <5>1 DEF SkipShape
        <4>2. CASE sInput = <<>>
          <5>1. Len(sInput) = 0
            BY <4>2, ListedEmpty
          <5>2. sTaken = 0 /\ (sTaken = Len(sOut) \/ sTaken = Len(sOut) + 1)
            BY <3>3, <5>1 DEF SkipShape
          <5> QED BY <3>1, <3>3, <5>1, <5>2
        <4> QED BY <3>2, <4>1, <4>2
      <3>5. \A b \in 1..Len(batches) : sOut[b] = Wanted(sSelectors, batches[b])
        BY <1>1, <3>1, <3>4 DEF SkipKept
      <3>6. sOut = [b \in 1..Len(batches) |-> sOut[b]]
        BY <3>3, <3>4 DEF Tables, Listed
      <3> QED BY <1>3, <3>1, <3>5, <3>6
    <2>2. CASE ~Skips(Now)
      <3>1. input = batches
        BY <2>2 DEF Linked, batches
      <3>2. sSelectors = <<>> /\ Len(sSelectors) = 0 /\ DOMAIN sSelectors = 1..Len(sSelectors)
        BY <1>1, <2>2, NoSelectors, SkipFacts
      <3>3. \A b \in 1..Len(batches) : Wanted(sSelectors, batches[b]) = batches[b]
        BY <1>3, <3>2, WantedIs
      <3>4. batches = [b \in 1..Len(batches) |-> batches[b]]
        BY <1>2 DEF Tables, Listed
      <3> QED BY <1>3, <3>1, <3>3, <3>4
    <2> QED BY <2>1, <2>2
  <1> QED BY <1>1, <1>4 DEF RowsWanted, batches

\* Null comes to the program when the source has ended.
LEMMA NullIsEnd ==
    ASSUME ChainInv, Drained
    PROVE  ended
  <1>1. Shape /\ InTurn /\ Told
    BY DEF ChainInv
  <1>2. Len(chain) \in Nat /\ Stages = 1..Len(chain) /\ (chain = <<>> <=> Len(chain) = 0)
    BY <1>1, ChainFacts DEF Shape
  <1>3. LastEnded
    BY <1>1 DEF Told, Drained
  <1>4. CASE chain = <<>>
    BY <1>3, <1>4 DEF LastEnded
  <1>5. CASE chain # <<>>
    <2>1. Len(chain) \in Stages /\ ~live[Len(chain)]
      BY <1>2, <1>3, <1>5 DEF LastEnded
    <2> QED BY <1>1, <2>1 DEF InTurn
  <1> QED BY <1>4, <1>5

\* A pass answers by its plan.
LEMMA PassAnswers ==
    ASSUME QueryInv, Linked, Drained
    PROVE  FlattenSeq(Batches(out)) = ApplyAll(NowChain, RowsWanted(Now, NowSelectors))
  <1>1. ChainInv /\ (ended => taken = Len(input)) /\ chain = NowChain
    BY DEF QueryInv, Linked
  <1>2. EndMeansAll
    BY <1>1, EndIsMeaning
  <1>3. FlattenSeq(Batches(out)) = ApplyAll(chain, FlattenSeq(input))
    BY <1>2 DEF EndMeansAll, Meaning, Drained
  <1>4. ended
    BY <1>1, NullIsEnd
  <1>5. FlattenSeq(input) = RowsWanted(Now, NowSelectors)
    BY <1>4, WholeFile
  <1> QED BY <1>1, <1>3, <1>5

\* The second pass looks up in what the first has answered.
LEMMA SecondPassLinks ==
    ASSUME QueryInv, Linked, SecondPass
    PROVE  Linked'
  <1>1. /\ pass = 1 /\ query \in TwoPass /\ Drained /\ pass' = 2 /\ UNCHANGED <<query, hits>>
    BY DEF SecondPass
  <1>2. PICK data :
          /\ data = DataOf(FirstWidth[query], FlattenSeq(Batches(out)))
          /\ Restart(Filled(data, Chain[query]), SourceOf(PlanOf(query), hits))
          /\ Sk!Restart(Len(PlanOf(query).cols), FilledSelectors(data, Selectors[query]), SkippedOf(PlanOf(query), hits))
    BY Zenon DEF SecondPass
  <1>3. data = LookedUp
    <2>1. FlattenSeq(Batches(out)) = ApplyAll(NowChain, RowsWanted(Now, NowSelectors))
      BY <1>1, PassAnswers
    <2>2. NowChain = FirstChain[query] /\ Now = FirstPlan(query) /\ NowSelectors = FirstSelectors[query]
      BY <1>1 DEF NowChain, Now, NowSelectors
    <2>3. FlattenSeq(Batches(out)) = FirstAnswer
      BY <2>1, <2>2 DEF FirstAnswer
    <2> QED BY <1>2, <2>3 DEF LookedUp
  <1>4. chain' = Filled(data, Chain[query]) /\ input' = SourceOf(PlanOf(query), hits)
    BY <1>2 DEF Restart
  <1>5. /\ sSelectors' = FilledSelectors(data, Selectors[query]) /\ sInput' = SkippedOf(PlanOf(query), hits)
        /\ sOut' = <<>> /\ sLive' = TRUE
    BY <1>2 DEF Sk!Restart
  <1>6. UNCHANGED LookedUp
    <2>1. UNCHANGED FirstAnswer
      BY <1>1 DEF FirstAnswer, RowsWanted
    <2> QED BY <1>1, <2>1 DEF LookedUp
  <1>7. Now' = PlanOf(query) /\ NowChain' = chain' /\ NowSelectors' = sSelectors'
    BY <1>1, <1>3, <1>4, <1>5, <1>6 DEF Now, NowChain, NowSelectors
  <1>8. SkipKept'
    BY <1>5, ListedEmpty DEF SkipKept
  <1>9. IF Skips(PlanOf(query)) THEN sInput' = Read(hits, PlanOf(query).cols) /\ input' = sOut'
                                ELSE input' = Read(hits, PlanOf(query).cols)
    BY <1>4, <1>5 DEF SourceOf, SkippedOf
  <1>10. Skips(Now)' = Skips(PlanOf(query)) /\ Read(hits, Now.cols)' = Read(hits, PlanOf(query).cols)
    BY <1>1, <1>7 DEF Skips
  <1> QED BY <1>1, <1>5, <1>7, <1>8, <1>9, <1>10 DEF Linked

\* Every step keeps it.
LEMMA LinkKept ==
    ASSUME QueryInv, Linked, [QNext]_allVars
    PROVE  Linked'
  <1>1. CASE Pull
    BY <1>1, LinkStays DEF Pull, CallNext
  <1>2. CASE SourceStep
    BY <1>2, LinkStays DEF SourceStep, SourceNext
  <1>3. CASE SkipperStep
    BY <1>3, SkipperLinks
  <1>4. CASE ChainStep
    <2>1. StreamsNext /\ UNCHANGED sVars /\ UNCHANGED <<query, hits, pass>>
      BY <1>4 DEF ChainStep
    <2>2. UNCHANGED <<chain, input>>
      BY <2>1 DEF StreamsNext, StageNext, PassOn, Absorb, EndOfStream, Throw
    <2> QED BY <2>1, <2>2, LinkStays
  <1>5. CASE SecondPass
    BY <1>5, SecondPassLinks
  <1>6. CASE UNCHANGED allVars
    BY <1>6, LinkStays DEF allVars, vars
  <1> QED BY <1>1, <1>2, <1>3, <1>4, <1>5, <1>6 DEF QNext

\* What the program is given is a function of the file: what the operators of the plan
\* make of the rows that its selectors want, and what a second pass looks up is the whole
\* of what the first has answered; for any plans, rows, batches and numbers of calls.
THEOREM AnswerIsItsPlans == QSpec => []AnswersItsPlan
  <1>1. QInit => QueryInv /\ Linked
    BY QueryInitHolds, LinkInit
  <1>2. QueryInv /\ Linked /\ [QNext]_allVars => Linked'
    BY LinkKept
  <1>3. QueryInv /\ Linked => AnswersItsPlan
    <2> SUFFICES ASSUME QueryInv, Linked, Drained
                 PROVE  FlattenSeq(Batches(out)) = IF pass = 1 THEN FirstAnswer ELSE SecondAnswer
      BY DEF AnswersItsPlan
    <2>1. FlattenSeq(Batches(out)) = ApplyAll(NowChain, RowsWanted(Now, NowSelectors))
      BY PassAnswers
    <2>2. CASE pass = 1
      BY <2>1, <2>2 DEF NowChain, Now, NowSelectors, FirstAnswer
    <2>3. CASE pass # 1
      BY <2>1, <2>3 DEF NowChain, Now, NowSelectors, SecondAnswer
    <2> QED BY <2>2, <2>3
  <1> QED BY <1>1, <1>2, <1>3, QueryInvHolds, PTL DEF QSpec
=============================================================================
