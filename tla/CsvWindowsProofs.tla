-------------------------- MODULE CsvWindowsProofs --------------------------
(***************************************************************************)
(* Proofs about CsvWindows: for every text in which quotes enclose fields, *)
(* every chunk size, any number of threads and whatever is guessed, the    *)
(* rows of the reader are those of the text (RowsOfText); and no thread is *)
(* left in a window that is over (NoStraggler).                            *)
(*                                                                         *)
(* The text is read once, byte by byte, by the reader of CsvGrammar, which *)
(* looks at nothing but the next byte. Everything else is compared with    *)
(* it. In the order of this module:                                        *)
(*   - what the reader does with a byte, and that behind every byte its    *)
(*     rows are the beginning of the rows of the text;                     *)
(*   - a parser beside the reader (Sim): with its bytes taken from the     *)
(*     chunk, its looking ahead and its compaction of quotes, it has the   *)
(*     fields the reader has, from the first row that begins in its chunk, *)
(*     and ends in the state the reader is in (ParseEnds);                 *)
(*   - the pool: a task that was not taken is ahead of some thread until   *)
(*     parallel_for returns (Drained);                                     *)
(*   - the chunks of a window cover it; a chunk parsed from the state of   *)
(*     the reader in front of it begins with a row, is within one, or has  *)
(*     the rest of one (ChunkParsed), and what is known of the text in     *)
(*     front of it is known behind it when it is released (ReleasedIs);    *)
(*   - the windows: where each of them is in the text, and what the rows,  *)
(*     what is left over and what is pending are of it (WindowsInv).       *)
(***************************************************************************)
EXTENDS CsvWindows, FiniteSetTheorems, SequenceTheorems, WellFoundedInduction, TLAPS

-----------------------------------------------------------------------------
(* Natural numbers, and functions that go through them.                    *)

\* Every nonempty set of natural numbers has a least element.
LEMMA LeastNat ==
    ASSUME NEW T, T \subseteq Nat, T # {}
    PROVE  \E x \in T : \A y \in T : x <= y
  <1>1. PICK x \in T : \A y \in T : ~(<<y, x>> \in OpToRel(<, Nat))
    BY NatLessThanWellFounded, WFMin, Zenon
  <1>2. ASSUME NEW y \in T PROVE x <= y
    <2>1. ~(y < x)
      BY <1>1 DEF OpToRel
    <2> QED BY <2>1
  <1> QED BY <1>2

\* Induction up to N, over a set.
LEMMA UpTo ==
    ASSUME NEW N \in Nat, NEW T, 0 \in T, \A n \in 1..N : n - 1 \in T => n \in T
    PROVE  \A n \in 0..N : n \in T
  <1> DEFINE Bad == {n \in 0..N : n \notin T}
  <1>1. SUFFICES ASSUME Bad # {} PROVE FALSE
    OBVIOUS
  <1>2. PICK n \in Bad : \A k \in Bad : n <= k
    <2>1. Bad \subseteq Nat
      OBVIOUS
    <2> HIDE DEF Bad
    <2> QED BY <1>1, <2>1, LeastNat
  <1>3. n \in 1..N /\ n - 1 \in 0..N /\ ~(n <= n - 1)
    BY <1>2
  <1>4. n - 1 \in T
    BY <1>2, <1>3
  <1> QED BY <1>2, <1>3, <1>4

\* f begins with x and takes a step for each number.
Iterates(f, N, S, x, step) ==
    /\ f \in [0..N -> S]
    /\ f[0] = x
    /\ \A n \in 1..N : f[n] = step[n][f[n - 1]]

\* A function that is defined step by step exists, and stays where its steps stay.
LEMMA Iterated ==
    ASSUME NEW N \in Nat, NEW S, NEW x \in S, NEW step \in [1..N -> [S -> S]]
    PROVE  \E f : Iterates(f, N, S, x, step)
  <1> DEFINE Good(n) == \E f \in [0..n -> S] : f[0] = x /\ \A k \in 1..n : f[k] = step[k][f[k - 1]]
             T == {n \in 0..N : Good(n)}
  <1>1. Good(0)
    <2> DEFINE f == [k \in 0..0 |-> x]
    <2>1. f \in [0..0 -> S] /\ f[0] = x /\ \A k \in 1..0 : FALSE
      OBVIOUS
    <2> QED BY <2>1
  <1>2. ASSUME NEW n \in 1..N, Good(n - 1) PROVE Good(n)
    <2>1. PICK f \in [0..(n - 1) -> S] : f[0] = x /\ \A k \in 1..(n - 1) : f[k] = step[k][f[k - 1]]
      BY <1>2
    <2> DEFINE g == [k \in 0..n |-> IF k = n THEN step[n][f[n - 1]] ELSE f[k]]
    <2>2. step[n][f[n - 1]] \in S
      BY <2>1
    <2>3. g \in [0..n -> S]
      BY <2>1, <2>2
    <2>4. g[0] = x
      BY <2>1
    <2>5. ASSUME NEW k \in 1..n PROVE g[k] = step[k][g[k - 1]]
      <3>1. g[k - 1] = f[k - 1]
        OBVIOUS
      <3>2. CASE k = n
        BY <3>1, <3>2
      <3>3. CASE k # n
        <4>1. k \in 1..(n - 1) /\ g[k] = f[k]
          BY <3>3
        <4> HIDE DEF g
        <4> QED BY <2>1, <3>1, <4>1
      <3> QED BY <3>2, <3>3
    <2> HIDE DEF g
    <2> QED BY <2>3, <2>4, <2>5
  <1>3. \A n \in 0..N : n \in T
    <2>1. 0 \in T
      BY <1>1
    <2>2. ASSUME NEW n \in 1..N, n - 1 \in T PROVE n \in T
      <3>1. Good(n - 1)
        BY <2>2
      <3>2. Good(n)
        BY <1>2, <3>1
      <3> HIDE DEF Good
      <3> QED BY <3>2
    <2> HIDE DEF T
    <2> QED BY <2>1, <2>2, UpTo
  <1> QED BY <1>3 DEF Iterates

\* And so does any that takes such steps.
LEMMA Stays ==
    ASSUME NEW N \in Nat, NEW S, NEW f, f = [n \in 0..N |-> f[n]], f[0] \in S,
           \A n \in 1..N : f[n - 1] \in S => f[n] \in S
    PROVE  f \in [0..N -> S]
  <1> DEFINE T == {n \in 0..N : f[n] \in S}
  <1>1. 0 \in T
    OBVIOUS
  <1>2. \A n \in 1..N : n - 1 \in T => n \in T
    OBVIOUS
  <1> HIDE DEF T
  <1>3. \A n \in 0..N : n \in T
    BY <1>1, <1>2, UpTo
  <1> QED BY <1>3 DEF T

-----------------------------------------------------------------------------
(* Bytes, fields, rows.                                                    *)

Value == Seq(Bytes)
Row   == Seq(Value)

Modes == {"row", "return", "field", "plain", "quoted", "quote"}

Reader == [mode : Modes, from : Nat, value : Value, fields : Row, rows : Seq(Row)]

\* The bytes that mean something are bytes, and differ.
LEMMA SpecialBytes ==
    /\ QuoteChar \in Bytes /\ Delimiter \in Bytes /\ CarriageReturn \in Bytes /\ NewLine \in Bytes
    /\ QuoteChar \notin FieldEnds /\ QuoteChar \notin RowEnds /\ Delimiter \notin RowEnds
    /\ CarriageReturn # NewLine
  <1>1. QuoteChar \in Bytes /\ Delimiter \in Bytes /\ CarriageReturn \in Bytes /\ NewLine \in Bytes
    BY BytesAssumption DEF FieldEnds, RowEnds
  <1>2. QuoteChar \notin FieldEnds /\ QuoteChar \notin RowEnds /\ Delimiter \notin RowEnds
    BY DEF QuoteChar, Delimiter, CarriageReturn, NewLine, FieldEnds, RowEnds
  <1>3. CarriageReturn # NewLine
    BY DEF CarriageReturn, NewLine
  <1> QED BY <1>1, <1>2, <1>3

\* The reader stays one.
LEMMA PastType ==
    ASSUME NEW g \in Reader, NEW b \in Bytes, NEW n \in Nat
    PROVE  Past(g, b, n) \in Reader
  <1>1. /\ g.mode \in Modes /\ g.from \in Nat /\ g.value \in Value
        /\ g.fields \in Row /\ g.rows \in Seq(Row)
    BY DEF Reader
  <1>2. <<>> \in Value /\ <<>> \in Row
    BY DEF Value, Row
  <1>3. Append(g.fields, g.value) \in Row
    BY <1>1, AppendProperties DEF Row
  <1>4. Closed(g) \in Seq(Row)
    BY <1>1, <1>3, AppendProperties DEF Closed
  <1>5. ASSUME NEW m \in Modes, NEW bytes \in Value PROVE Gain(g, m, bytes) \in Reader
    <2>1. g.value \o bytes \in Value
      BY <1>1, ConcatProperties DEF Value
    <2> QED BY <1>1, <2>1 DEF Gain, Reader
  <1>6. EndField(g) \in Reader
    BY <1>1, <1>2, <1>3 DEF EndField, Reader, Modes
  <1>7. ASSUME NEW m \in Modes PROVE EndRow(g, m, n) \in Reader
    BY <1>1, <1>2, <1>4 DEF EndRow, Reader
  <1>8. <<b>> \in Value /\ <<QuoteChar, b>> \in Value
    BY SpecialBytes DEF Value
  <1>9. Unquoted(g, b, n) \in Reader
    <2>1. [g EXCEPT !.mode = "row", !.from = n] \in Reader /\ [g EXCEPT !.mode = "quoted"] \in Reader
      BY DEF Reader, Modes
    <2> QED BY <1>5, <1>6, <1>7, <1>8, <2>1 DEF Unquoted, Modes
  <1> QED
    <2>1. [g EXCEPT !.mode = "quote"] \in Reader
      BY DEF Reader, Modes
    <2> QED BY <1>5, <1>8, <1>9, <2>1 DEF Past, Modes

\* What Reading is.
LEMMA ReadingDef ==
    ASSUME NEW text \in Seq(Bytes)
    PROVE  /\ Reading(text) \in [0..Len(text) -> Reader]
           /\ Reading(text)[0] = Beginning
           /\ \A n \in 1..Len(text) : Reading(text)[n] = Past(Reading(text)[n - 1], text[n], n)
  <1> DEFINE N == Len(text)
             step == [n \in 1..N |-> [g \in Reader |-> Past(g, text[n], n)]]
  <1>1. N \in Nat /\ \A n \in 1..N : text[n] \in Bytes
    OBVIOUS
  <1>2. Beginning \in Reader
    BY DEF Beginning, Reader, Modes, Value, Row
  <1>3. step \in [1..N -> [Reader -> Reader]]
    <2>1. \A n \in 1..N : \A g \in Reader : Past(g, text[n], n) \in Reader
      BY <1>1, PastType
    <2> QED BY <2>1
  <1>4. \A n \in 1..N : \A g \in Reader : step[n][g] = Past(g, text[n], n)
    OBVIOUS
  <1> HIDE DEF step
  <1>5. PICK f : Iterates(f, N, Reader, Beginning, step)
    <2>1. N \in Nat
      BY <1>1
    <2> HIDE DEF N
    <2> QED BY <2>1, <1>2, <1>3, Iterated
  <1>i. /\ f \in [0..N -> Reader]
        /\ f[0] = Beginning
        /\ \A n \in 1..N : f[n] = Past(f[n - 1], text[n], n)
    <2>1. f \in [0..N -> Reader] /\ f[0] = Beginning /\ \A n \in 1..N : f[n] = step[n][f[n - 1]]
      BY <1>5 DEF Iterates
    <2>2. ASSUME NEW n \in 1..N PROVE f[n - 1] \in Reader
      BY <2>1
    <2> QED BY <1>4, <2>1, <2>2
  <1>6. f = [n \in 0..N |-> IF n = 0 THEN Beginning ELSE Past(f[n - 1], text[n], n)]
    <2>1. ASSUME NEW n \in 0..N PROVE f[n] = IF n = 0 THEN Beginning ELSE Past(f[n - 1], text[n], n)
      <3>1. n # 0 => n \in 1..N
        BY <1>1
      <3> HIDE DEF N
      <3> QED BY <1>i, <3>1
    <2> QED BY <1>i, <2>1
  <1> DEFINE D == Reading(text)
  <1>7. D = [n \in 0..N |-> IF n = 0 THEN Beginning ELSE Past(D[n - 1], text[n], n)]
    BY <1>6 DEF Reading
  <1> HIDE DEF D
  <1>8. D[0] = Beginning /\ \A n \in 1..N : D[n] = Past(D[n - 1], text[n], n)
    BY <1>1, <1>7
  <1>9. D \in [0..N -> Reader]
    <2>1. D = [n \in 0..N |-> D[n]]
      BY <1>7
    <2>2. ASSUME NEW n \in 1..N, D[n - 1] \in Reader PROVE D[n] \in Reader
      <3>1. n \in Nat /\ text[n] \in Bytes /\ D[n] = Past(D[n - 1], text[n], n)
        BY <1>1, <1>8
      <3> QED BY <2>2, <3>1, PastType
    <2> HIDE DEF N
    <2> QED BY <1>1, <1>2, <1>8, <2>1, <2>2, Stays
  <1> QED BY <1>8, <1>9 DEF D

-----------------------------------------------------------------------------
(* WithFields.                                                             *)

\* kept[n] is what the first n rows leave.
IsKept(kept, rs) ==
    /\ kept \in [0..Len(rs) -> Seq(Row)]
    /\ kept[0] = <<>>
    /\ \A n \in 1..Len(rs) : kept[n] = IF rs[n] = <<>> THEN kept[n - 1] ELSE Append(kept[n - 1], rs[n])

\* One row more, or not.
LEMMA KeptOne ==
    ASSUME NEW k \in Seq(Row), NEW r \in Row
    PROVE  (IF r = <<>> THEN k ELSE Append(k, r)) \in Seq(Row)
  BY AppendProperties

\* WithFields goes through the rows from the first to the last.
LEMMA WithFieldsDef ==
    ASSUME NEW rs \in Seq(Row)
    PROVE  \E kept : IsKept(kept, rs) /\ WithFields(rs) = kept[Len(rs)]
  <1> DEFINE N == Len(rs)
             S == Seq(Row)
             step == [n \in 1..N |-> [k \in S |-> IF rs[n] = <<>> THEN k ELSE Append(k, rs[n])]]
  <1>1. N \in Nat /\ \A n \in 1..N : rs[n] \in Row
    OBVIOUS
  <1>2. <<>> \in S
    OBVIOUS
  <1>3. step \in [1..N -> [S -> S]]
    <2>1. \A n \in 1..N : \A k \in S : (IF rs[n] = <<>> THEN k ELSE Append(k, rs[n])) \in S
      BY <1>1, KeptOne
    <2> HIDE DEF S
    <2> QED BY <2>1
  <1>4. \A n \in 1..N : \A k \in S : step[n][k] = IF rs[n] = <<>> THEN k ELSE Append(k, rs[n])
    OBVIOUS
  <1> HIDE DEF step
  <1>5. PICK f : Iterates(f, N, S, <<>>, step)
    <2> HIDE DEF N, S
    <2> QED BY <1>1, <1>2, <1>3, Iterated
  <1>i. /\ f \in [0..N -> S]
        /\ f[0] = <<>>
        /\ \A n \in 1..N : f[n] = IF rs[n] = <<>> THEN f[n - 1] ELSE Append(f[n - 1], rs[n])
    <2>1. f \in [0..N -> S] /\ f[0] = <<>> /\ \A n \in 1..N : f[n] = step[n][f[n - 1]]
      BY <1>5 DEF Iterates
    <2>2. ASSUME NEW n \in 1..N PROVE f[n - 1] \in S
      BY <2>1
    <2> HIDE DEF S
    <2> QED BY <1>4, <2>1, <2>2
  <1>6. f = [n \in 0..N |-> IF n = 0 THEN <<>>
                            ELSE IF rs[n] = <<>> THEN f[n - 1] ELSE Append(f[n - 1], rs[n])]
    <2>1. ASSUME NEW n \in 0..N
          PROVE  f[n] = IF n = 0 THEN <<>> ELSE IF rs[n] = <<>> THEN f[n - 1] ELSE Append(f[n - 1], rs[n])
      <3>1. n # 0 => n \in 1..N
        BY <1>1
      <3> HIDE DEF N
      <3> QED BY <1>i, <3>1
    <2> HIDE DEF S
    <2> QED BY <1>i, <2>1
  <1> DEFINE D == CHOOSE g : g = [n \in 0..N |-> IF n = 0 THEN <<>>
                            ELSE IF rs[n] = <<>> THEN g[n - 1] ELSE Append(g[n - 1], rs[n])]
  <1>7. D = [n \in 0..N |-> IF n = 0 THEN <<>>
                            ELSE IF rs[n] = <<>> THEN D[n - 1] ELSE Append(D[n - 1], rs[n])]
    BY <1>6
  <1>8. WithFields(rs) = D[Len(rs)]
    BY DEF WithFields
  <1> HIDE DEF D
  <1>9. D[0] = <<>> /\ \A n \in 1..N : D[n] = IF rs[n] = <<>> THEN D[n - 1] ELSE Append(D[n - 1], rs[n])
    <2>1. 0 \in 0..N /\ \A n \in 1..N : n \in 0..N /\ n # 0
      BY <1>1
    <2> HIDE DEF N
    <2> QED BY <1>7, <2>1
  <1>10. D \in [0..N -> S]
    <2>1. D = [n \in 0..N |-> D[n]]
      BY <1>7
    <2>2. ASSUME NEW n \in 1..N, D[n - 1] \in S PROVE D[n] \in S
      BY <1>1, <1>9, <2>2, KeptOne
    <2> HIDE DEF N, S
    <2> QED BY <1>1, <1>2, <1>9, <2>1, <2>2, Stays
  <1> QED BY <1>8, <1>9, <1>10 DEF IsKept

\* An element behind two sequences.
LEMMA AppendJoin ==
    ASSUME NEW S, NEW s \in Seq(S), NEW t \in Seq(S), NEW e \in S
    PROVE  s \o Append(t, e) = Append(s \o t, e)
  OBVIOUS

\* The rows with fields, of two sequences of rows in turn.
LEMMA WithFieldsJoin ==
    ASSUME NEW s \in Seq(Row), NEW t \in Seq(Row)
    PROVE  /\ WithFields(s) \in Seq(Row)
           /\ WithFields(s \o t) = WithFields(s) \o WithFields(t)
  <1> DEFINE M == Len(s)
             N == Len(t)
             u == s \o t
  <1>1. PICK f : IsKept(f, s) /\ WithFields(s) = f[M]
    BY WithFieldsDef
  <1>2. PICK g : IsKept(g, t) /\ WithFields(t) = g[N]
    BY WithFieldsDef
  <1>3. u \in Seq(Row) /\ Len(u) = M + N /\ M \in Nat /\ N \in Nat
    BY ConcatProperties
  <1>4. \A i \in 1..(M + N) : u[i] = IF i <= M THEN s[i] ELSE t[i - M]
    BY ConcatProperties
  <1> HIDE DEF u
  <1>5. PICK h : IsKept(h, u) /\ WithFields(u) = h[M + N]
    BY <1>3, WithFieldsDef
  <1> HIDE DEF M, N
  <1>6. /\ f \in [0..M -> Seq(Row)] /\ f[0] = <<>>
        /\ \A n \in 1..M : f[n] = IF s[n] = <<>> THEN f[n - 1] ELSE Append(f[n - 1], s[n])
    BY <1>1 DEF IsKept, M
  <1>7. /\ g \in [0..N -> Seq(Row)] /\ g[0] = <<>>
        /\ \A n \in 1..N : g[n] = IF t[n] = <<>> THEN g[n - 1] ELSE Append(g[n - 1], t[n])
    BY <1>2 DEF IsKept, N
  <1>8. /\ h[0] = <<>>
        /\ \A n \in 1..(M + N) : h[n] = IF u[n] = <<>> THEN h[n - 1] ELSE Append(h[n - 1], u[n])
    BY <1>3, <1>5 DEF IsKept
  <1>9. \A n \in 0..M : h[n] = f[n]
    <2> DEFINE T == {n \in 0..M : h[n] = f[n]}
    <2>1. 0 \in T
      BY <1>3, <1>6, <1>8
    <2>2. ASSUME NEW n \in 1..M, n - 1 \in T PROVE n \in T
      <3>1. n \in 0..M /\ n \in 1..(M + N) /\ n <= M
        BY <1>3
      <3>2. h[n - 1] = f[n - 1] /\ u[n] = s[n]
        BY <2>2, <3>1, <1>4
      <3> QED BY <1>6, <1>8, <3>1, <3>2
    <2> HIDE DEF T
    <2>3. \A n \in 0..M : n \in T
      BY <1>3, <2>1, <2>2, UpTo
    <2> QED BY <2>3 DEF T
  <1>10. \A n \in 0..N : h[M + n] = f[M] \o g[n]
    <2> DEFINE T == {n \in 0..N : h[M + n] = f[M] \o g[n]}
    <2>0. f[M] \in Seq(Row) /\ M \in 0..M
      BY <1>3, <1>6
    <2>1. 0 \in T
      <3>1. f[M] \o <<>> = f[M]
        BY <2>0, ConcatEmptySeq
      <3>2. h[M + 0] = f[M]
        BY <1>3, <1>9, <2>0
      <3>3. h[M + 0] = f[M] \o g[0]
        BY <1>7, <3>1, <3>2
      <3>4. 0 \in 0..N
        BY <1>3
      <3> QED BY <3>3, <3>4
    <2>2. ASSUME NEW n \in 1..N, n - 1 \in T PROVE n \in T
      <3>1. n \in 0..N /\ n - 1 \in 0..N /\ M + n \in 1..(M + N) /\ ~(M + n <= M) /\ (M + n) - M = n /\ (M + n) - 1 = M + (n - 1)
        BY <1>3
      <3>2. h[M + (n - 1)] = f[M] \o g[n - 1] /\ u[M + n] = t[n]
        BY <2>2, <3>1, <1>4
      <3>3. g[n - 1] \in Seq(Row) /\ t[n] \in Row
        BY <1>7, <3>1 DEF N
      <3>4. h[M + n] = IF t[n] = <<>> THEN f[M] \o g[n - 1] ELSE Append(f[M] \o g[n - 1], t[n])
        BY <1>8, <3>1, <3>2
      <3>5. f[M] \o Append(g[n - 1], t[n]) = Append(f[M] \o g[n - 1], t[n])
        <4>1. ASSUME NEW x \in Seq(Row), NEW y \in Seq(Row), NEW r \in Row
              PROVE  x \o Append(y, r) = Append(x \o y, r)
          BY AppendJoin
        <4> QED BY <2>0, <3>3, <4>1, Zenon
      <3>6. h[M + n] = f[M] \o g[n]
        BY <1>7, <3>4, <3>5
      <3> QED BY <3>1, <3>6
    <2> HIDE DEF T
    <2>3. \A n \in 0..N : n \in T
      BY <1>3, <2>1, <2>2, UpTo
    <2> QED BY <2>3 DEF T
  <1>11. f[M] \in Seq(Row) /\ N \in 0..N
    BY <1>3, <1>6
  <1> QED BY <1>1, <1>2, <1>5, <1>10, <1>11 DEF u

\* Of one row.
LEMMA WithFieldsOne ==
    ASSUME NEW r \in Row
    PROVE  WithFields(<<r>>) = IF r = <<>> THEN <<>> ELSE <<r>>
  <1>1. <<r>> \in Seq(Row) /\ Len(<<r>>) = 1 /\ <<r>>[1] = r
    OBVIOUS
  <1>2. PICK f : IsKept(f, <<r>>) /\ WithFields(<<r>>) = f[1]
    BY <1>1, WithFieldsDef
  <1>3. f[0] = <<>> /\ f[1] = IF r = <<>> THEN f[0] ELSE Append(f[0], r)
    BY <1>1, <1>2 DEF IsKept
  <1>4. Append(<<>>, r) = <<r>>
    OBVIOUS
  <1> QED BY <1>2, <1>3, <1>4

\* Of none.
LEMMA WithFieldsNone == WithFields(<<>>) = <<>>
  <1>1. <<>> \in Seq(Row) /\ Len(<<>>) = 0
    OBVIOUS
  <1>2. PICK f : IsKept(f, <<>>) /\ WithFields(<<>>) = f[0]
    BY <1>1, WithFieldsDef
  <1> QED BY <1>2 DEF IsKept

\* Of one row more.
LEMMA WithFieldsAppend ==
    ASSUME NEW s \in Seq(Row), NEW r \in Row
    PROVE  WithFields(Append(s, r)) = IF r = <<>> THEN WithFields(s) ELSE Append(WithFields(s), r)
  <1>1. Append(s, r) = s \o <<r>> /\ <<r>> \in Seq(Row)
    BY AppendIsConcat
  <1>2. WithFields(s) \in Seq(Row) /\ WithFields(Append(s, r)) = WithFields(s) \o WithFields(<<r>>)
    BY <1>1, WithFieldsJoin
  <1>3. CASE r = <<>>
    BY <1>2, <1>3, WithFieldsOne, ConcatEmptySeq
  <1>4. CASE r # <<>>
    <2>1. WithFields(<<r>>) = <<r>>
      BY <1>4, WithFieldsOne
    <2>2. Append(WithFields(s), r) = WithFields(s) \o <<r>>
      BY <1>2, AppendIsConcat
    <2> QED BY <1>2, <1>4, <2>1, <2>2
  <1> QED BY <1>3, <1>4

-----------------------------------------------------------------------------
(* Compaction.                                                             *)

Compacter == [bytes : Value, half : BOOLEAN]

\* A compacter stays one.
LEMMA CompactedType ==
    ASSUME NEW c \in Compacter, NEW b \in Bytes
    PROVE  Compacted(c, b) \in Compacter
  <1>1. c.bytes \in Value /\ Append(c.bytes, b) \in Value
    BY AppendProperties DEF Compacter, Value
  <1> QED BY <1>1 DEF Compacted, Compacter

\* Compaction goes through the bytes from the first to the last.
LEMMA CompactionDef ==
    ASSUME NEW s \in Value
    PROVE  /\ Compaction(s) \in [0..Len(s) -> Compacter]
           /\ Compaction(s)[0] = [bytes |-> <<>>, half |-> FALSE]
           /\ \A n \in 1..Len(s) : Compaction(s)[n] = Compacted(Compaction(s)[n - 1], s[n])
  <1> DEFINE N == Len(s)
             c0 == [bytes |-> <<>>, half |-> FALSE]
             step == [n \in 1..N |-> [c \in Compacter |-> Compacted(c, s[n])]]
  <1>1. N \in Nat /\ \A n \in 1..N : s[n] \in Bytes
    BY DEF Value
  <1>2. c0 \in Compacter
    BY DEF Compacter, Value
  <1>3. step \in [1..N -> [Compacter -> Compacter]]
    <2>1. \A n \in 1..N : \A c \in Compacter : Compacted(c, s[n]) \in Compacter
      BY <1>1, CompactedType
    <2> QED BY <2>1
  <1>4. \A n \in 1..N : \A c \in Compacter : step[n][c] = Compacted(c, s[n])
    OBVIOUS
  <1> HIDE DEF step, c0
  <1>5. PICK f : Iterates(f, N, Compacter, c0, step)
    <2>1. N \in Nat
      BY <1>1
    <2> HIDE DEF N
    <2> QED BY <2>1, <1>2, <1>3, Iterated
  <1>i. /\ f \in [0..N -> Compacter]
        /\ f[0] = c0
        /\ \A n \in 1..N : f[n] = Compacted(f[n - 1], s[n])
    <2>1. f \in [0..N -> Compacter] /\ f[0] = c0 /\ \A n \in 1..N : f[n] = step[n][f[n - 1]]
      BY <1>5 DEF Iterates
    <2>2. ASSUME NEW n \in 1..N PROVE f[n - 1] \in Compacter
      BY <2>1
    <2> QED BY <1>4, <2>1, <2>2
  <1>6. f = [n \in 0..N |-> IF n = 0 THEN c0 ELSE Compacted(f[n - 1], s[n])]
    <2>1. ASSUME NEW n \in 0..N PROVE f[n] = IF n = 0 THEN c0 ELSE Compacted(f[n - 1], s[n])
      <3>1. n # 0 => n \in 1..N
        BY <1>1
      <3> HIDE DEF N
      <3> QED BY <1>i, <3>1
    <2> QED BY <1>i, <2>1
  <1> DEFINE D == Compaction(s)
  <1>7. D = [n \in 0..N |-> IF n = 0 THEN c0 ELSE Compacted(D[n - 1], s[n])]
    BY <1>6 DEF Compaction, c0
  <1> HIDE DEF D
  <1>8. D[0] = c0 /\ \A n \in 1..N : D[n] = Compacted(D[n - 1], s[n])
    <2>1. 0 \in 0..N /\ \A n \in 1..N : n \in 0..N /\ n # 0
      BY <1>1
    <2> HIDE DEF N
    <2> QED BY <1>7, <2>1
  <1>9. D \in [0..N -> Compacter]
    <2>1. D = [n \in 0..N |-> D[n]]
      BY <1>7
    <2>2. ASSUME NEW n \in 1..N, D[n - 1] \in Compacter PROVE D[n] \in Compacter
      <3>1. s[n] \in Bytes /\ D[n] = Compacted(D[n - 1], s[n])
        BY <1>1, <1>8
      <3> QED BY <2>2, <3>1, CompactedType
    <2>3. N \in Nat
      BY <1>1
    <2> HIDE DEF N
    <2> QED BY <2>3, <1>2, <1>8, <2>1, <2>2, Stays
  <1> QED BY <1>8, <1>9 DEF D, c0

\* What the bytes of a field are compacted to, with one more.
Packed(s) == Compaction(s)[Len(s)]

\* Of one byte more.
LEMMA CompactionAppend ==
    ASSUME NEW s \in Value, NEW b \in Bytes
    PROVE  Packed(s) \in Compacter /\ Packed(Append(s, b)) = Compacted(Packed(s), b)
  <1> DEFINE N == Len(s)
             t == Append(s, b)
             c == Compaction(s)
             d == Compaction(t)
  <1>1. /\ N \in Nat /\ t \in Value /\ Len(t) = N + 1 /\ t[N + 1] = b
        /\ \A i \in 1..N : t[i] = s[i]
    BY AppendProperties DEF Value
  <1> HIDE DEF t
  <1>2. c \in [0..N -> Compacter] /\ c[0] = [bytes |-> <<>>, half |-> FALSE]
        /\ \A n \in 1..N : c[n] = Compacted(c[n - 1], s[n])
    BY CompactionDef
  <1>3. d[0] = [bytes |-> <<>>, half |-> FALSE] /\ \A n \in 1..(N + 1) : d[n] = Compacted(d[n - 1], t[n])
    BY <1>1, CompactionDef
  <1> HIDE DEF c, d
  <1>4. \A n \in 0..N : d[n] = c[n]
    <2> DEFINE T == {n \in 0..N : d[n] = c[n]}
    <2>1. 0 \in T
      <3>1. 0 \in 0..N
        BY <1>1
      <3> QED BY <1>2, <1>3, <3>1
    <2>2. ASSUME NEW n \in 1..N, n - 1 \in T PROVE n \in T
      <3>1. n \in 0..N /\ n \in 1..(N + 1)
        BY <1>1
      <3> HIDE DEF N
      <3> QED BY <1>1, <1>2, <1>3, <2>2, <3>1
    <2> HIDE DEF T
    <2>3. \A n \in 0..N : n \in T
      BY <1>1, <2>1, <2>2, UpTo
    <2> QED BY <2>3 DEF T
  <1>5. d[N + 1] = Compacted(c[N], b) /\ c[N] \in Compacter
    <2>1. N + 1 \in 1..(N + 1) /\ (N + 1) - 1 = N /\ N \in 0..N
      BY <1>1
    <2> HIDE DEF N
    <2> QED BY <1>1, <1>2, <1>3, <1>4, <2>1
  <1> QED BY <1>1, <1>5 DEF Packed, c, d, t

\* Of no byte.
LEMMA CompactionNone == Packed(<<>>) = [bytes |-> <<>>, half |-> FALSE]
  <1>1. <<>> \in Value /\ Len(<<>>) = 0
    BY DEF Value
  <1> QED BY <1>1, CompactionDef DEF Packed

-----------------------------------------------------------------------------
(* The reader, case by case.                                               *)

ReaderOf(mode, from, value, fields, rs) ==
    [mode |-> mode, from |-> from, value |-> value, fields |-> fields, rows |-> rs]

\* The parts of a reader.
LEMMA ReaderIs ==
    ASSUME NEW g \in Reader
    PROVE  /\ g.mode \in Modes /\ g.from \in Nat /\ g.value \in Value /\ g.fields \in Row /\ g.rows \in Seq(Row)
           /\ g = ReaderOf(g.mode, g.from, g.value, g.fields, g.rows)
  BY DEF Reader, ReaderOf

\* Bytes of the field.
LEMMA GainIs ==
    ASSUME NEW g \in Reader, NEW m \in Modes, NEW bytes \in Value
    PROVE  Gain(g, m, bytes) = ReaderOf(m, g.from, g.value \o bytes, g.fields, g.rows)
  <1>1. g.mode \in Modes /\ g.from \in Nat /\ g.value \in Value /\ g.fields \in Row /\ g.rows \in Seq(Row)
    BY ReaderIs
  <1>2. g.value \o bytes \in Value
    BY <1>1, ConcatProperties DEF Value
  <1> DEFINE h == Gain(g, m, bytes)
             v == g.value \o bytes
  <1>3. h = [g EXCEPT !.mode = m, !.value = v]
    BY DEF Gain
  <1> HIDE DEF h, v
  <1>4. h = [mode |-> m, from |-> g.from, value |-> v, fields |-> g.fields, rows |-> g.rows]
    BY <1>1, <1>2, <1>3 DEF Reader
  <1> QED BY <1>4 DEF h, v, ReaderOf

\* Bytes put behind a value.
LEMMA Bytewise ==
    ASSUME NEW v \in Value, NEW b \in Bytes
    PROVE  /\ v \o <<b>> = Append(v, b) /\ Append(v, b) \in Value
           /\ v \o <<QuoteChar, b>> = Append(Append(v, QuoteChar), b)
           /\ <<b>> \in Value /\ <<QuoteChar, b>> \in Value
  <1>1. QuoteChar \in Bytes
    BY SpecialBytes
  <1>2. <<b>> \in Value /\ <<QuoteChar, b>> \in Value /\ <<QuoteChar>> \in Value
    BY <1>1 DEF Value
  <1>3. v \o <<b>> = Append(v, b) /\ Append(v, b) \in Value
    BY AppendIsConcat, AppendProperties DEF Value
  <1>4. <<QuoteChar, b>> = Append(<<QuoteChar>>, b)
    OBVIOUS
  <1>5. v \o Append(<<QuoteChar>>, b) = Append(v \o <<QuoteChar>>, b)
    BY <1>1, <1>2, AppendJoin DEF Value
  <1>6. v \o <<QuoteChar>> = Append(v, QuoteChar)
    BY <1>1, AppendIsConcat DEF Value
  <1> QED BY <1>2, <1>3, <1>4, <1>5, <1>6

\* A byte within quotes, and behind a quote.
LEMMA PastQuoted ==
    ASSUME NEW g \in Reader, NEW b \in Bytes, NEW n \in Nat
    PROVE  /\ g.mode = "quoted" /\ b = QuoteChar =>
                Past(g, b, n) = ReaderOf("quote", g.from, g.value, g.fields, g.rows)
           /\ g.mode = "quoted" /\ b # QuoteChar =>
                Past(g, b, n) = ReaderOf("quoted", g.from, Append(g.value, b), g.fields, g.rows)
           /\ g.mode = "quote" /\ b = QuoteChar =>
                Past(g, b, n) = ReaderOf("quoted", g.from, Append(g.value, b), g.fields, g.rows)
           /\ g.mode = "quote" /\ b \notin FieldEnds \cup {QuoteChar} =>
                Past(g, b, n) =
                    ReaderOf("quoted", g.from, Append(Append(g.value, QuoteChar), b), g.fields, g.rows)
  <1>1. g.mode \in Modes /\ g.from \in Nat /\ g.value \in Value /\ g.fields \in Row /\ g.rows \in Seq(Row)
    BY ReaderIs
  <1>2. "quoted" \in Modes /\ <<b>> \in Value /\ <<QuoteChar, b>> \in Value
    BY Bytewise, <1>1 DEF Modes
  <1>3. Gain(g, "quoted", <<b>>) = ReaderOf("quoted", g.from, Append(g.value, b), g.fields, g.rows)
    <2>1. Gain(g, "quoted", <<b>>) = ReaderOf("quoted", g.from, g.value \o <<b>>, g.fields, g.rows)
      BY <1>2, GainIs
    <2>2. g.value \o <<b>> = Append(g.value, b)
      BY <1>1, Bytewise
    <2> QED BY <2>1, <2>2, Zenon
  <1>4. Gain(g, "quoted", <<QuoteChar, b>>) =
            ReaderOf("quoted", g.from, Append(Append(g.value, QuoteChar), b), g.fields, g.rows)
    <2>1. Gain(g, "quoted", <<QuoteChar, b>>) =
            ReaderOf("quoted", g.from, g.value \o <<QuoteChar, b>>, g.fields, g.rows)
      BY <1>2, GainIs
    <2>2. g.value \o <<QuoteChar, b>> = Append(Append(g.value, QuoteChar), b)
      BY <1>1, Bytewise
    <2> QED BY <2>1, <2>2, Zenon
  <1>5. g.mode = "quoted" /\ b = QuoteChar =>
            Past(g, b, n) = ReaderOf("quote", g.from, g.value, g.fields, g.rows)
    <2>1. g.mode = "quoted" /\ b = QuoteChar => Past(g, b, n) = [g EXCEPT !.mode = "quote"]
      BY DEF Past
    <2>2. [g EXCEPT !.mode = "quote"] = ReaderOf("quote", g.from, g.value, g.fields, g.rows)
      BY DEF Reader, ReaderOf
    <2> QED BY <2>1, <2>2
  <1>6. g.mode = "quoted" /\ b # QuoteChar => Past(g, b, n) = Gain(g, "quoted", <<b>>)
    BY DEF Past
  <1>7. g.mode = "quote" /\ b = QuoteChar => Past(g, b, n) = Gain(g, "quoted", <<b>>)
    BY DEF Past
  <1>8. g.mode = "quote" /\ b \notin FieldEnds \cup {QuoteChar} =>
            Past(g, b, n) = Gain(g, "quoted", <<QuoteChar, b>>)
    BY DEF Past
  <1> QED BY <1>3, <1>4, <1>5, <1>6, <1>7, <1>8

\* A byte outside of quotes; behind a quote only an end of the field is one.
LEMMA PastUnquoted ==
    ASSUME NEW g \in Reader, NEW b \in Bytes, NEW n \in Nat,
           g.mode # "quoted", g.mode = "quote" => b \in FieldEnds
    PROVE  /\ b = Delimiter =>
                Past(g, b, n) = ReaderOf("field", g.from, <<>>, Append(g.fields, g.value), g.rows)
           /\ b = CarriageReturn => Past(g, b, n) = ReaderOf("return", n, <<>>, <<>>, Closed(g))
           /\ b = NewLine /\ g.mode # "return" => Past(g, b, n) = ReaderOf("row", n, <<>>, <<>>, Closed(g))
           /\ b = NewLine /\ g.mode = "return" => Past(g, b, n) = ReaderOf("row", n, g.value, g.fields, g.rows)
           /\ b = QuoteChar /\ g.mode # "plain" =>
                Past(g, b, n) = ReaderOf("quoted", g.from, g.value, g.fields, g.rows)
           /\ b \notin FieldEnds \cup {QuoteChar} =>
                Past(g, b, n) = ReaderOf("plain", g.from, Append(g.value, b), g.fields, g.rows)
  <1>1. g.mode \in Modes /\ g.from \in Nat /\ g.value \in Value /\ g.fields \in Row /\ g.rows \in Seq(Row)
    BY ReaderIs
  <1>2. Past(g, b, n) = Unquoted(g, b, n)
    <2>1. b \in FieldEnds => b # QuoteChar
      BY SpecialBytes
    <2>2. ~(g.mode = "quote" /\ b = QuoteChar) /\ ~(g.mode = "quote" /\ b \notin FieldEnds \cup {QuoteChar})
      BY <2>1
    <2> QED BY <2>2 DEF Past
  <1>3. Delimiter # CarriageReturn /\ Delimiter # NewLine /\ CarriageReturn # NewLine
    BY SpecialBytes DEF RowEnds
  <1>4. QuoteChar # Delimiter /\ QuoteChar # CarriageReturn /\ QuoteChar # NewLine
    BY SpecialBytes DEF FieldEnds, RowEnds
  <1>5. b = Delimiter => Past(g, b, n) = ReaderOf("field", g.from, <<>>, Append(g.fields, g.value), g.rows)
    <2> DEFINE h == EndField(g)
               fs == Append(g.fields, g.value)
    <2>1. fs \in Row /\ <<>> \in Value
      BY <1>1, AppendProperties DEF Row, Value
    <2>2. h = [g EXCEPT !.mode = "field", !.value = <<>>, !.fields = fs]
      BY DEF EndField
    <2>3. b = Delimiter => Past(g, b, n) = h
      BY <1>2, <1>3, <1>4 DEF Unquoted
    <2> HIDE DEF h, fs
    <2>4. h = [mode |-> "field", from |-> g.from, value |-> <<>>, fields |-> fs, rows |-> g.rows]
      BY <1>1, <2>1, <2>2 DEF Reader
    <2> QED BY <2>3, <2>4 DEF fs, ReaderOf
  <1>6. b = CarriageReturn => Past(g, b, n) = ReaderOf("return", n, <<>>, <<>>, Closed(g))
    BY <1>2, <1>3, <1>4 DEF Unquoted, EndRow, ReaderOf
  <1>7. b = NewLine /\ g.mode # "return" => Past(g, b, n) = ReaderOf("row", n, <<>>, <<>>, Closed(g))
    BY <1>2, <1>3, <1>4 DEF Unquoted, EndRow, ReaderOf
  <1>8. b = NewLine /\ g.mode = "return" => Past(g, b, n) = ReaderOf("row", n, g.value, g.fields, g.rows)
    <2> DEFINE h == [g EXCEPT !.mode = "row", !.from = n]
    <2>1. h = [g EXCEPT !.mode = "row", !.from = n]
      OBVIOUS
    <2>2. b = NewLine /\ g.mode = "return" => Past(g, b, n) = h
      BY <1>2, <1>3, <1>4 DEF Unquoted
    <2> HIDE DEF h
    <2>3. h = [mode |-> "row", from |-> n, value |-> g.value, fields |-> g.fields, rows |-> g.rows]
      BY <1>1, <2>1 DEF Reader
    <2> QED BY <2>2, <2>3 DEF ReaderOf
  <1>9. b = QuoteChar /\ g.mode # "plain" =>
            Past(g, b, n) = ReaderOf("quoted", g.from, g.value, g.fields, g.rows)
    <2> DEFINE h == [g EXCEPT !.mode = "quoted"]
    <2>1. h = [g EXCEPT !.mode = "quoted"]
      OBVIOUS
    <2>2. b = QuoteChar /\ g.mode # "plain" => Past(g, b, n) = h
      BY <1>2, <1>4 DEF Unquoted
    <2> HIDE DEF h
    <2>3. h = [mode |-> "quoted", from |-> g.from, value |-> g.value, fields |-> g.fields, rows |-> g.rows]
      BY <1>1, <2>1 DEF Reader
    <2> QED BY <2>2, <2>3 DEF ReaderOf
  <1>10. b \notin FieldEnds \cup {QuoteChar} =>
            Past(g, b, n) = ReaderOf("plain", g.from, Append(g.value, b), g.fields, g.rows)
    <2>1. b \notin FieldEnds \cup {QuoteChar} => Past(g, b, n) = Gain(g, "plain", <<b>>)
      BY <1>2 DEF Unquoted, FieldEnds, RowEnds
    <2>2. "plain" \in Modes /\ <<b>> \in Value
      BY <1>1, Bytewise DEF Modes
    <2>3. Gain(g, "plain", <<b>>) = ReaderOf("plain", g.from, Append(g.value, b), g.fields, g.rows)
      <3>1. Gain(g, "plain", <<b>>) = ReaderOf("plain", g.from, g.value \o <<b>>, g.fields, g.rows)
        BY <2>2, GainIs
      <3>2. g.value \o <<b>> = Append(g.value, b)
        BY <1>1, Bytewise
      <3> QED BY <3>1, <3>2, Zenon
    <2> QED BY <2>1, <2>3
  <1> QED BY <1>5, <1>6, <1>7, <1>8, <1>9, <1>10

-----------------------------------------------------------------------------
(* The reader, from the beginning of a text to its end.                    *)

\* In front of a row it has nothing of it. The row it is in has begun where it says, in
\* front of a row, and no rows have been added since.
Sound(D, k) ==
    /\ D[k].mode \in BetweenRows => D[k].from = k /\ D[k].fields = <<>> /\ D[k].value = <<>>
    /\ D[k].mode = "field" => D[k].fields # <<>> /\ D[k].value = <<>>
    /\ D[k].from \in 0..k
    /\ D[D[k].from].mode \in BetweenRows
    /\ D[D[k].from].rows = D[k].rows

\* A byte is of the row, or the row ends with it.
WithinRow(g, h) ==
    /\ h.mode \notin BetweenRows /\ h.from = g.from /\ h.rows = g.rows
    /\ h.mode = "field" => h.fields # <<>> /\ h.value = <<>>

EndsRow(g, h, n) ==
    h.mode \in BetweenRows /\ h.from = n /\ h.fields = <<>> /\ h.value = <<>> /\ h.rows = Closed(g)

\* Whatever the byte, the row goes on or ends.
LEMMA WithinOrEnd ==
    ASSUME NEW g \in Reader, NEW b \in Bytes, NEW n \in Nat,
           g.mode = "plain" => b # QuoteChar,
           g.mode \in BetweenRows => g.fields = <<>> /\ g.value = <<>>
    PROVE  WithinRow(g, Past(g, b, n)) \/ EndsRow(g, Past(g, b, n), n)
  <1> DEFINE h == Past(g, b, n)
  <1>1. g.mode \in Modes /\ g.from \in Nat /\ g.value \in Value /\ g.fields \in Row /\ g.rows \in Seq(Row)
    BY ReaderIs
  <1>2. CASE g.mode = "quoted" \/ (g.mode = "quote" /\ b \notin FieldEnds)
    <2>1. h.mode \in {"quote", "quoted"} /\ h.from = g.from /\ h.rows = g.rows
      BY <1>2, PastQuoted DEF ReaderOf
    <2> HIDE DEF h
    <2>3. WithinRow(g, h)
      BY <2>1 DEF WithinRow, BetweenRows
    <2> QED BY <2>3 DEF h
  <1>3. CASE g.mode # "quoted" /\ (g.mode = "quote" => b \in FieldEnds)
    <2>1. CASE b = Delimiter
      <3>1. h = ReaderOf("field", g.from, <<>>, Append(g.fields, g.value), g.rows)
        BY <1>3, <2>1, PastUnquoted
      <3>2. Append(g.fields, g.value) # <<>>
        BY <1>1, AppendProperties DEF Row
      <3> HIDE DEF h
      <3>3. WithinRow(g, h)
        BY <3>1, <3>2 DEF ReaderOf, WithinRow, BetweenRows
      <3> QED BY <3>3 DEF h
    <2>2. CASE b \in RowEnds
      <3>1. \/ \E m \in BetweenRows : h = ReaderOf(m, n, <<>>, <<>>, Closed(g))
            \/ g.mode = "return" /\ h = ReaderOf("row", n, g.value, g.fields, g.rows)
        BY <1>3, <2>2, PastUnquoted DEF RowEnds, BetweenRows
      <3>2. CASE \E m \in BetweenRows : h = ReaderOf(m, n, <<>>, <<>>, Closed(g))
        <4>1. PICK m \in BetweenRows : h = ReaderOf(m, n, <<>>, <<>>, Closed(g))
          BY <3>2
        <4> HIDE DEF h
        <4>2. EndsRow(g, h, n)
          BY <4>1 DEF ReaderOf, EndsRow
        <4> QED BY <4>2 DEF h
      <3>3. CASE g.mode = "return" /\ h = ReaderOf("row", n, g.value, g.fields, g.rows)
        <4> HIDE DEF h
        <4>1. EndsRow(g, h, n)
          BY <3>3 DEF ReaderOf, EndsRow, BetweenRows, Closed
        <4> QED BY <4>1 DEF h
      <3> QED BY <3>1, <3>2, <3>3
    <2>3. CASE b \notin FieldEnds
      <3>1. h.mode \in {"quoted", "plain"} /\ h.from = g.from /\ h.rows = g.rows
        BY <1>3, <2>3, PastUnquoted DEF ReaderOf
      <3> HIDE DEF h
      <3>3. WithinRow(g, h)
        BY <3>1 DEF WithinRow, BetweenRows
      <3> QED BY <3>3 DEF h
    <2> QED BY <2>1, <2>2, <2>3 DEF FieldEnds
  <1> QED BY <1>2, <1>3

\* A text and its reader, for the lemmas that follow.
ReadBy(text, D) == text \in Seq(Bytes) /\ WellQuoted(text) /\ D = Reading(text)

\* The reader goes through the text from the first byte to the last.
LEMMA ReaderSteps ==
    ASSUME NEW text, NEW D, ReadBy(text, D)
    PROVE  /\ Len(text) \in Nat /\ D[0] = Beginning
           /\ \A k \in 0..Len(text) : D[k] \in Reader
           /\ \A k \in 1..Len(text) : /\ text[k] \in Bytes
                                      /\ D[k] = Past(D[k - 1], text[k], k)
                                      /\ D[k - 1].mode = "plain" => text[k] # QuoteChar
  <1>1. text \in Seq(Bytes) /\ WellQuoted(text) /\ D = Reading(text)
    BY DEF ReadBy
  <1>2. Len(text) \in Nat /\ DOMAIN text = 1..Len(text) /\ \A k \in 1..Len(text) : text[k] \in Bytes
    BY <1>1
  <1>3. \A k \in 1..Len(text) : D[k - 1].mode = "plain" => text[k] # QuoteChar
    BY <1>1, <1>2 DEF WellQuoted
  <1>4. /\ D \in [0..Len(text) -> Reader] /\ D[0] = Beginning
        /\ \A k \in 1..Len(text) : D[k] = Past(D[k - 1], text[k], k)
    BY <1>1, ReadingDef
  <1> QED BY <1>2, <1>3, <1>4

\* It is sound behind every byte.
LEMMA ReaderSound ==
    ASSUME NEW text, NEW D, ReadBy(text, D)
    PROVE  \A k \in 0..Len(text) : Sound(D, k)
  <1> DEFINE N == Len(text)
             T == {k \in 0..N : Sound(D, k)}
  <1>0. N \in Nat
    BY ReaderSteps
  <1>1. 0 \in T
    <2>1. D[0] = Beginning
      BY ReaderSteps
    <2> QED BY <1>0, <2>1 DEF Sound, Beginning, BetweenRows
  <1>2. ASSUME NEW k \in 1..N, k - 1 \in T PROVE k \in T
    <2> DEFINE g == D[k - 1]
               h == D[k]
    <2>1. k \in 0..N /\ k - 1 \in 0..N /\ k \in Nat /\ 0..(k - 1) \subseteq 0..k /\ k \in 0..k
      BY <1>0
    <2>2. Sound(D, k - 1)
      BY <1>2
    <2>3. WithinRow(g, h) \/ EndsRow(g, h, k)
      <3>1. D[k - 1] \in Reader /\ text[k] \in Bytes /\ D[k] = Past(D[k - 1], text[k], k)
        BY <2>1, ReaderSteps
      <3>2. D[k - 1].mode = "plain" => text[k] # QuoteChar
        BY ReaderSteps
      <3> QED BY <2>1, <2>2, <3>1, <3>2, WithinOrEnd DEF Sound
    <2>4. CASE WithinRow(g, h)
      <3>1. h.from = g.from /\ h.rows = g.rows /\ h.mode \notin BetweenRows
        BY <2>4 DEF WithinRow
      <3>2. Sound(D, k)
        BY <2>1, <2>2, <2>4, <3>1 DEF Sound, WithinRow
      <3> QED BY <2>1, <3>2
    <2>5. CASE EndsRow(g, h, k)
      <3>1. Sound(D, k)
        BY <2>1, <2>5 DEF Sound, EndsRow, BetweenRows
      <3> QED BY <2>1, <3>1
    <2> QED BY <2>3, <2>4, <2>5
  <1> HIDE DEF T
  <1>3. \A k \in 0..N : k \in T
    BY <1>0, <1>1, <1>2, UpTo
  <1> QED BY <1>3 DEF T

-----------------------------------------------------------------------------
(* The rows a reader has only grow.                                        *)

Begins(s, t) == Len(s) <= Len(t) /\ \A i \in 1..Len(s) : t[i] = s[i]

\* The row that is closed comes behind the others.
LEMMA ClosedGrows ==
    ASSUME NEW g \in Reader
    PROVE  Closed(g) \in Seq(Row) /\ Begins(g.rows, Closed(g))
  <1>1. g.fields \in Row /\ g.value \in Value /\ g.rows \in Seq(Row)
    BY ReaderIs
  <1>2. Append(g.fields, g.value) \in Row
    BY <1>1, AppendProperties DEF Row
  <1>3. /\ Append(g.rows, Append(g.fields, g.value)) \in Seq(Row)
        /\ Begins(g.rows, Append(g.rows, Append(g.fields, g.value)))
    BY <1>1, <1>2, AppendProperties DEF Begins
  <1>4. Begins(g.rows, g.rows)
    BY <1>1 DEF Begins
  <1> QED BY <1>1, <1>3, <1>4 DEF Closed

\* The beginning of a beginning.
LEMMA BeginsTransitive ==
    ASSUME NEW s \in Seq(Row), NEW t \in Seq(Row), NEW u \in Seq(Row), Begins(s, t), Begins(t, u)
    PROVE  Begins(s, u)
  BY DEF Begins

\* What has been read is the beginning of what the text stands for.
LEMMA RowsGrow ==
    ASSUME NEW text, NEW D, ReadBy(text, D), NEW j \in 0..Len(text)
    PROVE  /\ D[j].rows \in Seq(Row)
           /\ RowsOf(text) \in Seq(Row)
           /\ Begins(D[j].rows, RowsOf(text))
  <1> DEFINE N == Len(text)
             T == {k \in 0..(N - j) : Begins(D[j].rows, D[j + k].rows)}
  <1>0. N \in Nat /\ j \in Nat /\ N - j \in Nat /\ j + (N - j) = N /\ N \in 0..N
    BY ReaderSteps
  <1>1. \A k \in 0..N : D[k] \in Reader /\ D[k].rows \in Seq(Row)
    BY ReaderSteps, ReaderIs
  <1>2. \A k \in 0..(N - j) : k \in T
    <2>1. 0 \in T
      BY <1>0, <1>1 DEF Begins
    <2>2. ASSUME NEW k \in 1..(N - j), k - 1 \in T PROVE k \in T
      <3> DEFINE m == j + k
      <3>1. /\ k \in 0..(N - j) /\ m \in 1..N /\ m \in 0..N /\ m - 1 \in 0..N /\ j + (k - 1) = m - 1
            /\ m \in Nat
        BY <1>0
      <3>2. Begins(D[j].rows, D[m - 1].rows)
        <4>1. Begins(D[j].rows, D[j + (k - 1)].rows)
          BY <2>2
        <4> QED BY <3>1, <4>1
      <3> HIDE DEF m
      <3>3. WithinRow(D[m - 1], D[m]) \/ EndsRow(D[m - 1], D[m], m)
        <4>1. D[m - 1] \in Reader /\ text[m] \in Bytes /\ D[m] = Past(D[m - 1], text[m], m)
          BY <3>1, ReaderSteps
        <4>2. D[m - 1].mode = "plain" => text[m] # QuoteChar
          BY <3>1, ReaderSteps
        <4>3. Sound(D, m - 1)
          BY <3>1, ReaderSound
        <4> QED BY <3>1, <4>1, <4>2, <4>3, WithinOrEnd DEF Sound
      <3>4. Begins(D[m - 1].rows, D[m].rows)
        <4>1. D[m - 1] \in Reader /\ D[m - 1].rows \in Seq(Row)
          BY <1>1, <3>1
        <4>2. Begins(D[m - 1].rows, D[m - 1].rows)
          BY <4>1 DEF Begins
        <4> QED BY <3>3, <4>1, <4>2, ClosedGrows DEF WithinRow, EndsRow
      <3>5. Begins(D[j].rows, D[m].rows)
        BY <1>0, <1>1, <3>1, <3>2, <3>4, BeginsTransitive
      <3> QED BY <3>1, <3>5 DEF m
    <2> HIDE DEF T
    <2> QED BY <1>0, <2>1, <2>2, UpTo
  <1>3. Begins(D[j].rows, D[N].rows)
    <2>1. N - j \in 0..(N - j)
      BY <1>0
    <2>2. N - j \in T
      BY <1>2, <2>1
    <2>3. Begins(D[j].rows, D[j + (N - j)].rows)
      BY <2>2
    <2> QED BY <1>0, <2>3
  <1>4. RowsOf(text) = Closed(D[N])
    BY DEF RowsOf, ReadBy
  <1>5. Closed(D[N]) \in Seq(Row) /\ Begins(D[N].rows, Closed(D[N]))
    BY <1>0, <1>1, ClosedGrows
  <1> HIDE DEF N
  <1>6. Begins(D[j].rows, Closed(D[N]))
    BY <1>0, <1>1, <1>3, <1>5, BeginsTransitive DEF N
  <1> QED BY <1>0, <1>1, <1>4, <1>5, <1>6

-----------------------------------------------------------------------------
(* The parser, case by case.                                               *)

\* In front of a byte within quotes; behind a quote, or a carriage return, at the end of
\* the chunk.
Quoted   == DFAState(TRUE, FALSE, FALSE)
Doubtful == DFAState(TRUE, TRUE, FALSE)
Returned == DFAState(FALSE, FALSE, TRUE)

States == {Clean, Quoted, Doubtful, Returned}

ParsedRow == [fields : Row, from : Nat, upto : Nat]

Parser == [in : Value, at : Nat, state : States, start : Nat, length : Nat, doubled : BOOLEAN,
           fields : Row, row : Nat, rows : Seq(ParsedRow)]

ParserOf(in, at, state, start, length, doubled, fields, row, rs) ==
    [in |-> in, at |-> at, state |-> state, start |-> start, length |-> length, doubled |-> doubled,
     fields |-> fields, row |-> row, rows |-> rs]

\* The flags of the states a parser is in.
LEMMA StateFlags ==
    /\ Clean.quote_escape = FALSE /\ Clean.pending_quote = FALSE /\ Clean.pending_linefeed = FALSE
    /\ Quoted.quote_escape = TRUE /\ Quoted.pending_quote = FALSE /\ Quoted.pending_linefeed = FALSE
    /\ Doubtful.quote_escape = TRUE /\ Doubtful.pending_quote = TRUE /\ Doubtful.pending_linefeed = FALSE
    /\ Returned.quote_escape = FALSE /\ Returned.pending_quote = FALSE /\ Returned.pending_linefeed = TRUE
  BY DEF Clean, Quoted, Doubtful, Returned, DFAState

\* These are four states.
LEMMA StatesDiffer ==
    /\ Clean # Quoted /\ Clean # Doubtful /\ Clean # Returned
    /\ Quoted # Doubtful /\ Quoted # Returned /\ Doubtful # Returned
  BY StateFlags

\* One flag is changed.
LEMMA FlagChanges ==
    ASSUME NEW x \in BOOLEAN, NEW y \in BOOLEAN, NEW z \in BOOLEAN, NEW f \in BOOLEAN,
           NEW s, s = DFAState(x, y, z)
    PROVE  /\ [s EXCEPT !.quote_escape = f] = DFAState(f, y, z)
           /\ [s EXCEPT !.pending_quote = f] = DFAState(x, f, z)
           /\ [s EXCEPT !.pending_linefeed = f] = DFAState(x, y, f)
  BY DEF DFAState

\* The changes that the parser makes.
LEMMA StateChanges ==
    /\ [Quoted EXCEPT !.pending_quote = TRUE] = Doubtful
    /\ [Quoted EXCEPT !.quote_escape = FALSE] = Clean
    /\ [Clean EXCEPT !.quote_escape = TRUE] = Quoted
    /\ [Clean EXCEPT !.pending_linefeed = TRUE] = Returned
    /\ [Clean EXCEPT !.pending_linefeed = FALSE] = Clean
    /\ [Returned EXCEPT !.pending_linefeed = FALSE] = Clean
  <1>1. /\ Clean = DFAState(FALSE, FALSE, FALSE) /\ Quoted = DFAState(TRUE, FALSE, FALSE)
        /\ Doubtful = DFAState(TRUE, TRUE, FALSE) /\ Returned = DFAState(FALSE, FALSE, TRUE)
    BY DEF Clean, Quoted, Doubtful, Returned
  <1>2. TRUE \in BOOLEAN /\ FALSE \in BOOLEAN
    OBVIOUS
  <1>3. [Quoted EXCEPT !.pending_quote = TRUE] = DFAState(TRUE, TRUE, FALSE)
    BY <1>1, <1>2, FlagChanges
  <1>4. [Quoted EXCEPT !.quote_escape = FALSE] = DFAState(FALSE, FALSE, FALSE)
    BY <1>1, <1>2, FlagChanges
  <1>5. [Clean EXCEPT !.quote_escape = TRUE] = DFAState(TRUE, FALSE, FALSE)
    BY <1>1, <1>2, FlagChanges
  <1>6. [Clean EXCEPT !.pending_linefeed = TRUE] = DFAState(FALSE, FALSE, TRUE)
    BY <1>1, <1>2, FlagChanges
  <1>7. [Clean EXCEPT !.pending_linefeed = FALSE] = DFAState(FALSE, FALSE, FALSE)
    BY <1>1, <1>2, FlagChanges
  <1>8. [Returned EXCEPT !.pending_linefeed = FALSE] = DFAState(FALSE, FALSE, FALSE)
    BY <1>1, <1>2, FlagChanges
  <1> QED BY <1>1, <1>3, <1>4, <1>5, <1>6, <1>7, <1>8

\* The parts of a parser.
LEMMA ParserIs ==
    ASSUME NEW p \in Parser
    PROVE  /\ p.in \in Value /\ p.at \in Nat /\ p.state \in States /\ p.start \in Nat /\ p.length \in Nat
           /\ p.doubled \in BOOLEAN /\ p.fields \in Row /\ p.row \in Nat /\ p.rows \in Seq(ParsedRow)
           /\ p = ParserOf(p.in, p.at, p.state, p.start, p.length, p.doubled, p.fields, p.row, p.rows)
  BY DEF Parser, ParserOf

\* The parts make a parser.
LEMMA ParserOfType ==
    ASSUME NEW in \in Value, NEW at \in Nat, NEW state \in States, NEW start \in Nat, NEW length \in Nat,
           NEW doubled \in BOOLEAN, NEW fields \in Row, NEW row \in Nat, NEW rs \in Seq(ParsedRow)
    PROVE  ParserOf(in, at, state, start, length, doubled, fields, row, rs) \in Parser
  BY DEF Parser, ParserOf

\* A quote within quotes.
LEMMA EscapedQuoteIs ==
    ASSUME NEW p \in Parser, p.at \in 1..Len(p.in), Byte(p) = QuoteChar, p.state = Quoted
    PROVE  /\ p.at = Len(p.in) =>
                Step(p) = ParserOf(p.in, p.at, Doubtful, p.start, p.length, p.doubled, p.fields, p.row, p.rows)
           /\ p.at < Len(p.in) /\ p.in[p.at + 1] \in FieldEnds =>
                Step(p) = ParserOf(p.in, p.at + 1, Clean, p.start, p.length, p.doubled, p.fields, p.row, p.rows)
           /\ p.at < Len(p.in) /\ p.in[p.at + 1] = QuoteChar =>
                Step(p) = ParserOf(p.in, p.at + 2, Quoted, p.start, p.length + 2, TRUE, p.fields, p.row, p.rows)
           /\ p.at < Len(p.in) /\ p.in[p.at + 1] \notin FieldEnds \cup {QuoteChar} =>
                Step(p) = ParserOf(p.in, p.at + 1, Quoted, p.start, p.length + 1, p.doubled,
                                   p.fields, p.row, p.rows)
  <1>1. /\ p.in \in Value /\ p.at \in Nat /\ p.state \in States /\ p.start \in Nat /\ p.length \in Nat
        /\ p.doubled \in BOOLEAN /\ p.fields \in Row /\ p.row \in Nat /\ p.rows \in Seq(ParsedRow)
    BY ParserIs
  <1>2. Len(p.in) \in Nat
    BY <1>1 DEF Value
  <1>3. Step(p) = ParseEscapedQuote(p)
    <2>1. QuoteChar \notin RowEnds /\ QuoteChar # Delimiter
      BY SpecialBytes DEF FieldEnds
    <2> QED BY <2>1, StateFlags DEF Step
  <1> DEFINE q == Step(p)
  <1>4. ASSUME p.at = Len(p.in)
        PROVE  q = ParserOf(p.in, p.at, Doubtful, p.start, p.length, p.doubled, p.fields, p.row, p.rows)
    <2>1. q = [p EXCEPT !.state.pending_quote = TRUE]
      BY <1>2, <1>3, <1>4 DEF ParseEscapedQuote
    <2> HIDE DEF q
    <2>2. q = [p EXCEPT !.state = Doubtful]
      BY <1>1, <2>1, StateChanges DEF Parser
    <2> QED BY <1>1, <2>2 DEF Parser, ParserOf
  <1>5. ASSUME p.at < Len(p.in), p.in[p.at + 1] \in FieldEnds
        PROVE  q = ParserOf(p.in, p.at + 1, Clean, p.start, p.length, p.doubled, p.fields, p.row, p.rows)
    <2>1. q = [p EXCEPT !.state.quote_escape = FALSE, !.at = @ + 1]
      BY <1>1, <1>2, <1>3, <1>5, SpecialBytes DEF ParseEscapedQuote
    <2> HIDE DEF q
    <2>2. q = [p EXCEPT !.state = Clean, !.at = p.at + 1]
      BY <1>1, <2>1, StateChanges DEF Parser
    <2> QED BY <1>1, <2>2 DEF Parser, ParserOf
  <1>6. ASSUME p.at < Len(p.in), p.in[p.at + 1] = QuoteChar
        PROVE  q = ParserOf(p.in, p.at + 2, Quoted, p.start, p.length + 2, TRUE, p.fields, p.row, p.rows)
    <2>1. q = [Extend(p, 2) EXCEPT !.doubled = TRUE]
      BY <1>1, <1>2, <1>3, <1>6, SpecialBytes DEF ParseEscapedQuote
    <2> DEFINE r == Extend(p, 2)
    <2>2. r = [p EXCEPT !.at = @ + 2, !.length = @ + 2]
      BY DEF Extend
    <2>3. q = [r EXCEPT !.doubled = TRUE]
      BY <2>1
    <2> HIDE DEF q, r
    <2>4. r = ParserOf(p.in, p.at + 2, Quoted, p.start, p.length + 2, p.doubled, p.fields, p.row, p.rows)
      BY <1>1, <2>2 DEF Parser, ParserOf
    <2>5. r \in Parser
      <3>1. Quoted \in States /\ p.at + 2 \in Nat /\ p.length + 2 \in Nat
        BY <1>1 DEF States
      <3> QED BY <1>1, <2>4, <3>1, ParserOfType
    <2> QED BY <1>1, <2>3, <2>4, <2>5 DEF Parser, ParserOf
  <1>7. ASSUME p.at < Len(p.in), p.in[p.at + 1] \notin FieldEnds \cup {QuoteChar}
        PROVE  q = ParserOf(p.in, p.at + 1, Quoted, p.start, p.length + 1, p.doubled,
                            p.fields, p.row, p.rows)
    <2>1. q = Extend(p, 1)
      BY <1>1, <1>2, <1>3, <1>7, SpecialBytes DEF ParseEscapedQuote
    <2> HIDE DEF q
    <2> QED BY <1>1, <2>1 DEF Parser, ParserOf, Extend
  <1> QED BY <1>4, <1>5, <1>6, <1>7

\* A quote in front of a field.
LEMMA OpeningQuoteIs ==
    ASSUME NEW p \in Parser, p.at \in 1..Len(p.in), Byte(p) = QuoteChar, p.state = Clean, p.length = 0
    PROVE  Step(p) = ParserOf(p.in, p.at + 1, Quoted,
                              IF p.start = 0 /\ p.at < Len(p.in) THEN p.at + 1 ELSE p.start,
                              p.length, p.doubled, p.fields, p.row, p.rows)
  <1>1. /\ p.in \in Value /\ p.at \in Nat /\ p.state \in States /\ p.start \in Nat /\ p.length \in Nat
        /\ p.doubled \in BOOLEAN /\ p.fields \in Row /\ p.row \in Nat /\ p.rows \in Seq(ParsedRow)
    BY ParserIs
  <1>2. Step(p) = ParseQuote(p)
    <2>1. QuoteChar \notin RowEnds /\ QuoteChar # Delimiter
      BY SpecialBytes DEF FieldEnds
    <2> QED BY <2>1, StateFlags DEF Step
  <1> DEFINE q == Step(p)
             start == IF p.start = 0 /\ p.at < Len(p.in) THEN p.at + 1 ELSE p.start
  <1>3. q = [p EXCEPT !.state.quote_escape = TRUE, !.at = @ + 1, !.start = start]
    BY <1>2 DEF ParseQuote
  <1>4. start \in Nat
    BY <1>1
  <1> HIDE DEF q, start
  <1>5. q = [p EXCEPT !.state = Quoted, !.at = @ + 1, !.start = start]
    BY <1>1, <1>3, StateChanges DEF Parser
  <1>6. q = ParserOf(p.in, p.at + 1, Quoted, start, p.length, p.doubled, p.fields, p.row, p.rows)
    BY <1>1, <1>4, <1>5 DEF Parser, ParserOf
  <1> QED BY <1>6 DEF q, start

\* A byte of a field.
LEMMA ByteIs ==
    ASSUME NEW p \in Parser, p.at \in 1..Len(p.in), p.state \in {Clean, Quoted}, p.start <= p.at,
           Byte(p) # QuoteChar, p.state = Clean => Byte(p) \notin FieldEnds
    PROVE  LET start == IF p.start = 0 THEN p.at ELSE p.start
           IN  Step(p) = ParserOf(p.in, p.at + 1, p.state, start, p.at + 1 - start, p.doubled,
                                  p.fields, p.row, p.rows)
  <1>1. /\ p.in \in Value /\ p.at \in Nat /\ p.state \in States /\ p.start \in Nat /\ p.length \in Nat
        /\ p.doubled \in BOOLEAN /\ p.fields \in Row /\ p.row \in Nat /\ p.rows \in Seq(ParsedRow)
    BY ParserIs
  <1>2. Step(p) = ParseByte(p)
    <2>1. p.state.quote_escape \/ (Byte(p) \notin RowEnds /\ Byte(p) # Delimiter)
      BY StateFlags DEF FieldEnds
    <2> QED BY <2>1 DEF Step
  <1> DEFINE q == Step(p)
             start == IF p.start = 0 THEN p.at ELSE p.start
             length == p.at + 1 - start
  <1>3. q = [p EXCEPT !.start = start, !.at = @ + 1, !.length = length]
    BY <1>2 DEF ParseByte
  <1>4. start \in Nat /\ length \in Nat
    BY <1>1
  <1> HIDE DEF q, start, length
  <1>5. q = ParserOf(p.in, p.at + 1, p.state, start, length, p.doubled, p.fields, p.row, p.rows)
    BY <1>1, <1>3, <1>4 DEF Parser, ParserOf
  <1> QED BY <1>5 DEF q, start, length

\* push_field.
LEMMA PushFieldIs ==
    ASSUME NEW p \in Parser, Field(p) \in Value
    PROVE  /\ PushField(p) = ParserOf(p.in, p.at, p.state, 0, 0, FALSE, Append(p.fields, Field(p)), p.row, p.rows)
           /\ PushField(p) \in Parser
           /\ Append(p.fields, Field(p)) \in Row
  <1>1. /\ p.in \in Value /\ p.at \in Nat /\ p.state \in States /\ p.start \in Nat /\ p.length \in Nat
        /\ p.doubled \in BOOLEAN /\ p.fields \in Row /\ p.row \in Nat /\ p.rows \in Seq(ParsedRow)
    BY ParserIs
  <1> DEFINE q == PushField(p)
             fs == Append(p.fields, Field(p))
  <1>2. fs \in Row
    BY <1>1, AppendProperties DEF Row
  <1>3. q = [p EXCEPT !.fields = fs, !.start = 0, !.length = 0, !.doubled = FALSE]
    BY DEF PushField
  <1> HIDE DEF q, fs
  <1>4. q = ParserOf(p.in, p.at, p.state, 0, 0, FALSE, fs, p.row, p.rows)
    BY <1>1, <1>2, <1>3 DEF Parser, ParserOf
  <1>5. q \in Parser
    BY <1>1, <1>2, <1>4, ParserOfType
  <1> QED BY <1>2, <1>4, <1>5 DEF q, fs

\* The end of a field that is not the last of its row.
LEMMA DelimiterIs ==
    ASSUME NEW p \in Parser, p.at \in 1..Len(p.in), p.state = Clean, Byte(p) = Delimiter, Field(p) \in Value
    PROVE  Step(p) = ParserOf(p.in, p.at + 1, Clean, 0, 0, FALSE, Append(p.fields, Field(p)), p.row, p.rows)
  <1>1. /\ p.in \in Value /\ p.at \in Nat /\ p.state \in States /\ p.start \in Nat /\ p.length \in Nat
        /\ p.doubled \in BOOLEAN /\ p.fields \in Row /\ p.row \in Nat /\ p.rows \in Seq(ParsedRow)
    BY ParserIs
  <1> DEFINE q == Step(p)
             r == PushField(p)
             fs == Append(p.fields, Field(p))
  <1>2. q = [r EXCEPT !.at = @ + 1]
    <2>1. Delimiter \notin RowEnds /\ Delimiter # QuoteChar
      BY SpecialBytes DEF FieldEnds
    <2> QED BY <2>1, StateFlags DEF Step
  <1>3. r = ParserOf(p.in, p.at, p.state, 0, 0, FALSE, fs, p.row, p.rows) /\ fs \in Row /\ r \in Parser
    BY PushFieldIs
  <1> HIDE DEF q, r, fs
  <1>4. q = ParserOf(p.in, p.at + 1, Clean, 0, 0, FALSE, fs, p.row, p.rows)
    BY <1>1, <1>2, <1>3 DEF Parser, ParserOf
  <1> QED BY <1>4 DEF q, fs

\* The end of a row.
Begun(p) == p.length > 0 \/ p.start # 0 \/ p.fields # <<>>

RowDone(p) == [fields |-> IF Begun(p) THEN Append(p.fields, Field(p)) ELSE <<>>, from |-> p.row, upto |-> p.at]

\* A row is pushed, and the next one begins behind its end.
LEMMA FinishRowIs ==
    ASSUME NEW p \in Parser, Field(p) \in Value, NEW width \in {1, 2}
    PROVE  /\ RowDone(p) \in ParsedRow
           /\ \E d \in BOOLEAN :
                FinishRow(p, p.at, width) =
                    ParserOf(p.in, p.at + width, p.state, 0, 0, d, <<>>, p.at + width, Append(p.rows, RowDone(p)))
  <1>1. /\ p.in \in Value /\ p.at \in Nat /\ p.state \in States /\ p.start \in Nat /\ p.length \in Nat
        /\ p.doubled \in BOOLEAN /\ p.fields \in Row /\ p.row \in Nat /\ p.rows \in Seq(ParsedRow)
    BY ParserIs
  <1> DEFINE q == IF Begun(p) THEN PushField(p) ELSE p
             fs == IF Begun(p) THEN Append(p.fields, Field(p)) ELSE <<>>
  <1>a. <<>> \in Row
    BY DEF Row
  <1>2. fs \in Row /\ RowDone(p) = [fields |-> fs, from |-> p.row, upto |-> p.at]
    BY <1>a, PushFieldIs DEF RowDone
  <1>3. PICK d \in BOOLEAN : q = ParserOf(p.in, p.at, p.state, 0, 0, d, fs, p.row, p.rows)
    <2>1. CASE Begun(p)
      <3>1. q = ParserOf(p.in, p.at, p.state, 0, 0, FALSE, fs, p.row, p.rows)
        BY <2>1, PushFieldIs
      <3> HIDE DEF q
      <3> QED BY <3>1
    <2>2. CASE ~Begun(p)
      <3>1. p.length = 0 /\ p.start = 0 /\ p.fields = <<>>
        BY <1>1, <2>2 DEF Begun
      <3>2. q = p /\ fs = <<>>
        BY <2>2
      <3>3. q = ParserOf(p.in, p.at, p.state, 0, 0, p.doubled, fs, p.row, p.rows)
        BY <3>1, <3>2, ParserIs
      <3> HIDE DEF q
      <3> QED BY <1>1, <3>3
    <2> QED BY <2>1, <2>2
  <1> DEFINE row == [fields |-> fs, from |-> p.row, upto |-> p.at]
             r == PushRow(q, p.at)
             f == FinishRow(p, p.at, width)
  <1>4. row \in ParsedRow
    BY <1>1, <1>2 DEF ParsedRow
  <1>5. f = [r EXCEPT !.at = p.at + width, !.row = p.at + width, !.fields = <<>>]
    BY DEF FinishRow, Begun
  <1> HIDE DEF fs, q
  <1>6. q \in Parser
    BY <1>1, <1>2, <1>3, ParserOfType
  <1>7. q.fields = fs /\ q.row = p.row /\ q.rows = p.rows
    BY <1>3 DEF ParserOf
  <1> DEFINE rs == Append(p.rows, row)
  <1>8. rs \in Seq(ParsedRow)
    BY <1>1, <1>4, AppendProperties
  <1>9. r = [q EXCEPT !.rows = rs]
    BY <1>7 DEF PushRow
  <1> HIDE DEF row, r, f, rs
  <1>10. r = ParserOf(p.in, p.at, p.state, 0, 0, d, fs, p.row, rs)
    BY <1>1, <1>3, <1>6, <1>8, <1>9 DEF Parser, ParserOf
  <1>11. r \in Parser
    BY <1>1, <1>2, <1>8, <1>10, ParserOfType
  <1>12. f = ParserOf(p.in, p.at + width, p.state, 0, 0, d, <<>>, p.at + width, rs)
    BY <1>1, <1>5, <1>a, <1>10, <1>11 DEF Parser, ParserOf
  <1>13. rs = Append(p.rows, RowDone(p)) /\ RowDone(p) \in ParsedRow
    BY <1>2, <1>4 DEF rs, row
  <1> QED BY <1>12, <1>13 DEF f

\* The line feed behind a carriage return is passed with it, unless it is in the next chunk.
LineFeedFollows(p) == Byte(p) = CarriageReturn /\ p.at < Len(p.in) /\ p.in[p.at + 1] = NewLine

\* A line feed, or a carriage return with or without one.
LEMMA RowEndIs ==
    ASSUME NEW p \in Parser, p.at \in 1..Len(p.in), p.state = Clean, Byte(p) \in RowEnds, Field(p) \in Value
    PROVE  LET width == IF LineFeedFollows(p) THEN 2 ELSE 1
               state == IF Byte(p) = CarriageReturn /\ p.at = Len(p.in) THEN Returned ELSE Clean
           IN  /\ RowDone(p) \in ParsedRow
               /\ \E d \in BOOLEAN :
                    Step(p) = ParserOf(p.in, p.at + width, state, 0, 0, d, <<>>, p.at + width,
                                       Append(p.rows, RowDone(p)))
  <1>1. /\ p.in \in Value /\ p.at \in Nat /\ p.state \in States /\ p.start \in Nat /\ p.length \in Nat
        /\ p.doubled \in BOOLEAN /\ p.fields \in Row /\ p.row \in Nat /\ p.rows \in Seq(ParsedRow)
    BY ParserIs
  <1> DEFINE width == IF LineFeedFollows(p) THEN 2 ELSE 1
             state == IF Byte(p) = CarriageReturn /\ p.at = Len(p.in) THEN Returned ELSE Clean
             more  == Byte(p) = CarriageReturn /\ p.at = Len(p.in)
             q     == Step(p)
             f     == FinishRow(p, p.at, width)
             rs    == Append(p.rows, RowDone(p))
  <1>2. width \in {1, 2} /\ RowDone(p) \in ParsedRow /\ more \in BOOLEAN
    BY FinishRowIs
  <1>3. q = [f EXCEPT !.state.pending_linefeed = @ \/ more]
    <2>1. q = ParseRowEnd(p)
      <3>1. Byte(p) # QuoteChar /\ Byte(p) # Delimiter
        BY SpecialBytes
      <3> QED BY <3>1, StateFlags DEF Step
    <2>2. Len(p.in) \in Nat
      BY <1>1 DEF Value
    <2>3. LineFeedFollows(p) <=> Byte(p) = CarriageReturn /\ ~(p.at = Len(p.in)) /\ p.in[p.at + 1] = NewLine
      BY <1>1, <2>2 DEF LineFeedFollows
    <2> QED BY <2>1, <2>3 DEF ParseRowEnd
  <1> HIDE DEF width
  <1>4. PICK d \in BOOLEAN : f = ParserOf(p.in, p.at + width, p.state, 0, 0, d, <<>>, p.at + width, rs)
    BY <1>2, FinishRowIs
  <1> HIDE DEF q, f, rs
  <1>5. rs \in Seq(ParsedRow) /\ <<>> \in Row /\ p.at + width \in Nat
    <2>1. <<>> \in Row
      BY DEF Row
    <2> QED BY <1>1, <1>2, <2>1, AppendProperties DEF rs
  <1>6. f \in Parser /\ f.state = Clean
    <2>1. f \in Parser
      BY <1>1, <1>4, <1>5, ParserOfType
    <2> QED BY <1>4, <2>1 DEF ParserOf
  <1>7. q = [f EXCEPT !.state = state]
    <2>1. q = [f EXCEPT !.state = [f.state EXCEPT !.pending_linefeed = f.state.pending_linefeed \/ more]]
      BY <1>3, <1>6 DEF Parser
    <2>2. CASE more
      BY <1>6, <2>1, <2>2, StateFlags, StateChanges
    <2>3. CASE ~more
      BY <1>6, <2>1, <2>3, StateFlags, StateChanges
    <2> QED BY <2>2, <2>3
  <1>8. q = ParserOf(p.in, p.at + width, state, 0, 0, d, <<>>, p.at + width, rs)
    <2>1. state \in States
      BY DEF States
    <2> HIDE DEF state
    <2> QED BY <1>1, <1>4, <1>5, <1>6, <1>7, <2>1 DEF Parser, ParserOf
  <1> QED BY <1>2, <1>8 DEF q, rs, width

-----------------------------------------------------------------------------
(* The parser beside the reader.                                           *)

\* What is known of a reader between the bytes of a text.
Tidy(g) ==
    /\ g.mode \in BetweenRows => g.fields = <<>> /\ g.value = <<>>
    /\ g.mode = "field" => g.fields # <<>> /\ g.value = <<>>

\* The parser has looked ahead: the quote it is behind is a byte of the field, or its end.
Literal(p, g) == g.mode = "quote" /\ p.state = Quoted
Ended(p, g)   == g.mode = "quote" /\ p.state = Clean

\* What the parser's state says of the place the reader is at.
Position(p, g) ==
    /\ p.at \in 1..(Len(p.in) + 1)
    /\ p.row \in 1..p.at
    /\ p.state = Doubtful => g.mode = "quoted" /\ p.at = Len(p.in) /\ p.in[p.at] = QuoteChar
    /\ p.state = Returned => /\ g.mode \in BetweenRows
                             /\ p.at = Len(p.in) + 1
                             /\ p.at > 1 => g.mode = "return"
    /\ p.state = Quoted => g.mode \in {"quoted", "quote"}
    /\ g.mode = "quoted" => p.state \in {Quoted, Doubtful}
    /\ g.mode = "quote" => /\ p.at <= Len(p.in)
                           /\ \/ p.state = Quoted /\ p.in[p.at] \notin FieldEnds \cup {QuoteChar}
                              \/ p.state = Clean /\ p.in[p.at] \in FieldEnds
    /\ g.mode = "return" /\ p.state # Returned => p.at = 1 \/ (p.at <= Len(p.in) /\ p.in[p.at] # NewLine)

\* Where the field is that the parser is in.
Width(p, g) ==
    /\ g.mode \in BetweenRows \cup {"field"} => p.start = 0 /\ p.length = 0
    /\ p.start # 0 => /\ p.row <= p.start /\ p.start <= Len(p.in)
                      /\ p.at = p.start + p.length + (IF Ended(p, g) THEN 1 ELSE 0)
    /\ p.start = 0 => p.row + p.length <= p.at + (IF Literal(p, g) THEN 1 ELSE 0)

Beside(p, g) == Position(p, g) /\ Width(p, g)

\* The bytes of the field, as they are in the chunk; what they have to be compacted to.
Raw(p) == SubSeq(p.in, p.start, p.start + p.length - 1)
Held(p, g) == IF Literal(p, g) THEN Append(g.value, QuoteChar) ELSE g.value

\* In a row that begins in the chunk, a bytes into the text, the parser has what the
\* reader has.
Content(a, p, g) ==
    /\ g.from = a + p.row - 1
    /\ p.fields = g.fields
    /\ g.mode \in BetweenRows => p.at = 1 \/ p.in[p.at - 1] \in RowEnds
    /\ g.mode = "field" => p.at > 1 /\ p.in[p.at - 1] = Delimiter
    /\ g.mode \in {"plain", "quote"} => p.start # 0
    /\ g.mode = "quoted" /\ p.start = 0 => p.at > 1 /\ p.at = Len(p.in) + 1 /\ p.in[p.at - 1] = QuoteChar
    /\ p.start = 0 => p.length = 0 /\ g.value = <<>>
    /\ g.mode = "plain" => p.length > 0
    /\ p.start # 0 => /\ Packed(Raw(p)).bytes = Held(p, g)
                      /\ Packed(Raw(p)).half = Literal(p, g)
                      /\ ~p.doubled => Raw(p) = Held(p, g)

\* The same row goes on.
Carries(a, p, g, q, h) ==
    /\ q \in Parser /\ q.in = p.in /\ q.row = p.row /\ q.rows = p.rows
    /\ h.from = g.from /\ h.rows = g.rows
    /\ Beside(q, h)
    /\ Content(a, p, g) => Content(a, q, h)

\* The bytes a parser goes through.
LEMMA LengthOfIn == ASSUME NEW p \in Parser PROVE Len(p.in) \in Nat /\ \A i \in 1..Len(p.in) : p.in[i] \in Bytes
  <1>1. p.in \in Seq(Bytes)
    BY ParserIs DEF Value
  <1> QED BY <1>1

\* A part of a value is one.
LEMMA PartOfValue ==
    ASSUME NEW s \in Value, NEW i \in Nat \ {0}, NEW n \in Nat, i + n - 1 <= Len(s)
    PROVE  SubSeq(s, i, i + n - 1) \in Value
  <1>1. s \in Seq(Bytes) /\ Len(s) \in Nat
    BY DEF Value
  <1>2. \A k \in i..(i + n - 1) : s[k] \in Bytes
    BY <1>1
  <1> QED BY <1>2, SubSeqProperties DEF Value

\* The field that the parser would push is a value.
LEMMA FieldType ==
    ASSUME NEW p \in Parser, NEW g \in Reader, Beside(p, g)
    PROVE  Field(p) \in Value
  <1> DEFINE first == IF p.start = 0 THEN p.row ELSE p.start
             raw   == SubSeq(p.in, first, first + p.length - 1)
  <1>1. p.in \in Value /\ p.at \in Nat /\ p.start \in Nat /\ p.length \in Nat /\ p.row \in Nat /\ p.doubled \in BOOLEAN
    BY ParserIs
  <1>2. first \in Nat \ {0} /\ first + p.length - 1 <= Len(p.in)
    <2> DEFINE L == Len(p.in)
    <2>1. L \in Nat /\ p.at \in 1..(L + 1) /\ p.row \in 1..p.at
      BY LengthOfIn DEF Beside, Position
    <2>2. Literal(p, g) => p.at <= L
      BY DEF Beside, Position, Literal
    <2>3. p.start # 0 => p.at = p.start + p.length + (IF Ended(p, g) THEN 1 ELSE 0)
      BY DEF Beside, Width
    <2>4. p.start = 0 => p.row + p.length <= p.at + (IF Literal(p, g) THEN 1 ELSE 0)
      BY DEF Beside, Width
    <2> HIDE DEF L
    <2>5. CASE p.start = 0
      <3>1. p.row + p.length <= L + 1
        BY <1>1, <2>1, <2>2, <2>4, <2>5
      <3>2. first = p.row /\ p.row \in Nat \ {0}
        BY <2>1, <2>5
      <3> HIDE DEF first
      <3> QED BY <1>1, <2>1, <3>1, <3>2 DEF L
    <2>6. CASE p.start # 0
      <3>1. p.start + p.length <= L + 1
        BY <1>1, <2>1, <2>3, <2>6
      <3>2. first = p.start /\ p.start \in Nat \ {0}
        BY <1>1, <2>6
      <3> HIDE DEF first
      <3> QED BY <1>1, <2>1, <3>1, <3>2 DEF L
    <2> QED BY <2>5, <2>6
  <1> HIDE DEF first
  <1>3. raw \in Value
    BY <1>1, <1>2, PartOfValue
  <1>4. Field(p) = IF p.doubled THEN Realized(raw) ELSE raw
    BY DEF Field, first
  <1> HIDE DEF raw
  <1>5. Realized(raw) = Packed(raw).bytes
    BY DEF Realized, Packed
  <1>6. Packed(raw) \in Compacter
    <2>1. Len(raw) \in Nat /\ Len(raw) \in 0..Len(raw)
      BY <1>3 DEF Value
    <2> QED BY <1>3, <2>1, CompactionDef DEF Packed
  <1> QED BY <1>3, <1>4, <1>5, <1>6 DEF Compacter
  
\* The field is as the reader has it.
LEMMA FieldIs ==
    ASSUME NEW a \in Nat, NEW p \in Parser, NEW g \in Reader, Tidy(g), Beside(p, g), Content(a, p, g), ~Literal(p, g)
    PROVE  Field(p) = g.value
  <1>1. p.in \in Value /\ p.at \in Nat /\ p.start \in Nat /\ p.length \in Nat /\ p.row \in Nat /\ p.doubled \in BOOLEAN
    BY ParserIs
  <1>2. CASE p.start = 0
    <2>1. p.length = 0 /\ g.value = <<>>
      BY <1>2 DEF Content
    <2>2. SubSeq(p.in, p.row, p.row + p.length - 1) = <<>>
      BY <1>1, <2>1, SubSeqEmpty
    <2>3. Realized(<<>>) = <<>>
      BY CompactionNone DEF Packed, Realized
    <2> QED BY <1>2, <2>1, <2>2, <2>3 DEF Field
  <1>3. CASE p.start # 0
    <2>2. Packed(Raw(p)).bytes = g.value /\ (~p.doubled => Raw(p) = g.value)
      BY <1>3 DEF Content, Held
    <2>3. Field(p) = IF p.doubled THEN Packed(Raw(p)).bytes ELSE Raw(p)
      BY <1>3 DEF Field, Raw, Packed, Realized
    <2> QED BY <2>2, <2>3
  <1> QED BY <1>2, <1>3

\* The bytes of the field are one more.
LEMMA RawGrows ==
    ASSUME NEW s \in Value, NEW i \in Nat \ {0}, NEW n \in Nat, i + n <= Len(s)
    PROVE  /\ SubSeq(s, i, i + n - 1) \in Value
           /\ SubSeq(s, i, i + n) = Append(SubSeq(s, i, i + n - 1), s[i + n])
  <1>1. s \in Seq(Bytes) /\ Len(s) \in Nat
    BY DEF Value
  <1>2. i \in 1..Len(s) /\ i + n \in i..Len(s) /\ i + n \in 1..Len(s) /\ (i + n) - 1 = i + n - 1
    BY <1>1
  <1>3. SubSeq(s, i, i + n) = SubSeq(s, i, (i + n) - 1) \o <<s[i + n]>>
    BY <1>1, <1>2, SubSeqRecursiveSecond
  <1>4. SubSeq(s, i, i + n - 1) \in Value /\ s[i + n] \in Bytes
    <2>1. i + n - 1 <= Len(s)
      BY <1>1
    <2>2. SubSeq(s, i, i + n - 1) \in Value
      BY <2>1, PartOfValue
    <2>3. s[i + n] \in Bytes
      BY <1>1, <1>2
    <2> QED BY <2>2, <2>3
  <1> DEFINE r == SubSeq(s, i, i + n - 1)
             b == s[i + n]
  <1>5. r \o <<b>> = Append(r, b)
    <2> HIDE DEF r, b
    <2> QED BY <1>4, Bytewise DEF r, b
  <1> QED BY <1>2, <1>3, <1>4, <1>5

\* One byte is compacted.
LEMMA CompactedIs ==
    ASSUME NEW c, NEW b
    PROVE  /\ b # QuoteChar => Compacted(c, b).bytes = Append(c.bytes, b) /\ Compacted(c, b).half = FALSE
           /\ b = QuoteChar /\ c.half = FALSE =>
                Compacted(c, b).bytes = Append(c.bytes, b) /\ Compacted(c, b).half = TRUE
           /\ b = QuoteChar /\ c.half = TRUE => Compacted(c, b).bytes = c.bytes /\ Compacted(c, b).half = FALSE
  BY DEF Compacted

\* One byte that is no quote is compacted to itself.
LEMMA PackedOfOne ==
    ASSUME NEW b \in Bytes, b # QuoteChar
    PROVE  Packed(<<b>>).bytes = <<b>> /\ Packed(<<b>>).half = FALSE
  <1>1. <<>> \in Value /\ Append(<<>>, b) = <<b>>
    BY DEF Value
  <1>2. Packed(Append(<<>>, b)) = Compacted(Packed(<<>>), b)
    BY <1>1, CompactionAppend
  <1>3. Packed(<<>>).bytes = <<>> /\ Packed(<<>>).half = FALSE
    BY CompactionNone
  <1>4. Packed(Append(<<>>, b)).bytes = Append(<<>>, b) /\ Packed(Append(<<>>, b)).half = FALSE
    <2> DEFINE c == Packed(<<>>)
    <2>1. Compacted(c, b).bytes = Append(c.bytes, b) /\ Compacted(c, b).half = FALSE
      BY CompactedIs
    <2>2. c.bytes = <<>>
      BY <1>3
    <2>3. Packed(Append(<<>>, b)) = Compacted(c, b)
      BY <1>2
    <2> HIDE DEF c
    <2> QED BY <2>1, <2>2, <2>3, Zenon
  <1> QED BY <1>1, <1>4, Zenon

\* A byte more is compacted to that byte, and every second of two quotes to nothing.
LEMMA PackedGrows ==
    ASSUME NEW s \in Value, NEW b \in Bytes
    PROVE  /\ Packed(s).bytes \in Value /\ Packed(s).half \in BOOLEAN
           /\ b # QuoteChar =>
                Packed(Append(s, b)).bytes = Append(Packed(s).bytes, b) /\ Packed(Append(s, b)).half = FALSE
           /\ b = QuoteChar /\ Packed(s).half = FALSE =>
                Packed(Append(s, b)).bytes = Append(Packed(s).bytes, b) /\ Packed(Append(s, b)).half = TRUE
           /\ b = QuoteChar /\ Packed(s).half = TRUE =>
                Packed(Append(s, b)).bytes = Packed(s).bytes /\ Packed(Append(s, b)).half = FALSE
  <1>1. Packed(s) \in Compacter /\ Packed(Append(s, b)) = Compacted(Packed(s), b)
    BY CompactionAppend
  <1>2. Packed(s).bytes \in Value /\ Packed(s).half \in BOOLEAN
    BY <1>1 DEF Compacter
  <1> DEFINE c == Packed(s)
             d == Packed(Append(s, b))
  <1>3. d = Compacted(c, b)
    BY <1>1
  <1> HIDE DEF c, d
  <1>4. b # QuoteChar => d.bytes = Append(c.bytes, b) /\ d.half = FALSE
    BY <1>3, CompactedIs
  <1>5. b = QuoteChar /\ c.half = FALSE => d.bytes = Append(c.bytes, b) /\ d.half = TRUE
    BY <1>3, CompactedIs
  <1>6. b = QuoteChar /\ c.half = TRUE => d.bytes = c.bytes /\ d.half = FALSE
    BY <1>3, CompactedIs
  <1> QED BY <1>2, <1>4, <1>5, <1>6 DEF c, d

\* A byte of the field.
LEMMA ByteCarries ==
    ASSUME NEW a \in Nat, NEW n \in Nat, NEW p \in Parser, NEW g \in Reader, Tidy(g), Beside(p, g),
           p.at <= Len(p.in), p.state \in {Clean, Quoted}, Byte(p) # QuoteChar,
           p.state = Clean => Byte(p) \notin FieldEnds
    PROVE  Carries(a, p, g, Step(p), Past(g, Byte(p), n)) /\ Step(p).at = p.at + 1
  <1> DEFINE b == Byte(p)
             L == Len(p.in)
             h == Past(g, b, n)
             q == Step(p)
             start == IF p.start = 0 THEN p.at ELSE p.start
             held == Held(p, g)
  <1>1. /\ p.in \in Value /\ p.at \in Nat /\ p.state \in States /\ p.start \in Nat /\ p.length \in Nat
        /\ p.doubled \in BOOLEAN /\ p.fields \in Row /\ p.row \in Nat /\ p.rows \in Seq(ParsedRow)
    BY ParserIs
  <1>2. /\ g.mode \in Modes /\ g.from \in Nat /\ g.value \in Value /\ g.fields \in Row /\ g.rows \in Seq(Row)
    BY ReaderIs
  <1>3. L \in Nat /\ p.at \in 1..L /\ b \in Bytes /\ p.row \in 1..p.at
    BY LengthOfIn DEF Beside, Position, Byte
  <1>4. p.start <= p.at
    BY <1>1, <1>3 DEF Beside, Width
  <1>5. q = ParserOf(p.in, p.at + 1, p.state, start, p.at + 1 - start, p.doubled, p.fields, p.row, p.rows)
    BY <1>3, <1>4, ByteIs
  <1>6. q \in Parser
    <2>1. start \in Nat /\ p.at + 1 - start \in Nat /\ p.at + 1 \in Nat
      BY <1>1, <1>4
    <2> HIDE DEF q, start
    <2> QED BY <1>1, <1>5, <2>1, ParserOfType
  <1>7. /\ q.in = p.in /\ q.at = p.at + 1 /\ q.state = p.state /\ q.start = start
        /\ q.length = p.at + 1 - start /\ q.doubled = p.doubled /\ q.fields = p.fields
        /\ q.row = p.row /\ q.rows = p.rows
    <2> HIDE DEF q, start
    <2> QED BY <1>5 DEF ParserOf
  <1>8. /\ h.mode = IF p.state = Clean THEN "plain" ELSE "quoted"
        /\ h.from = g.from /\ h.fields = g.fields /\ h.rows = g.rows
        /\ h.value = Append(held, b)
    <2>1. CASE p.state = Clean
      <3>1. g.mode # "quoted" /\ g.mode # "quote"
        BY <1>3, <2>1, StatesDiffer DEF Beside, Position, Byte
      <3>2. h = ReaderOf("plain", g.from, Append(g.value, b), g.fields, g.rows)
        BY <1>3, <2>1, <3>1, PastUnquoted
      <3>3. held = g.value
        BY <3>1 DEF Held, Literal
      <3> HIDE DEF h
      <3> QED BY <2>1, <3>2, <3>3 DEF ReaderOf
    <2>2. CASE p.state = Quoted /\ g.mode = "quoted"
      <3>1. h = ReaderOf("quoted", g.from, Append(g.value, b), g.fields, g.rows)
        BY <1>3, <2>2, PastQuoted
      <3>2. held = g.value
        BY <2>2 DEF Held, Literal
      <3> HIDE DEF h
      <3> QED BY <2>2, <3>1, <3>2, StatesDiffer DEF ReaderOf
    <2>3. CASE p.state = Quoted /\ g.mode = "quote"
      <3>1. b \notin FieldEnds \cup {QuoteChar}
        BY <2>3, StatesDiffer DEF Beside, Position, Byte
      <3>2. h = ReaderOf("quoted", g.from, Append(Append(g.value, QuoteChar), b), g.fields, g.rows)
        BY <1>3, <2>3, <3>1, PastQuoted
      <3>3. held = Append(g.value, QuoteChar)
        BY <2>3 DEF Held, Literal
      <3> HIDE DEF h
      <3> QED BY <2>3, <3>2, <3>3, StatesDiffer DEF ReaderOf
    <2>4. p.state = Quoted => g.mode \in {"quoted", "quote"}
      BY DEF Beside, Position
    <2> QED BY <2>1, <2>2, <2>3, <2>4
  <1> HIDE DEF q, h, held
  <1>9. Position(q, h)
    <2>1. q.at \in 1..(Len(q.in) + 1) /\ q.row \in 1..q.at
      BY <1>1, <1>3, <1>7
    <2>2. q.state # Doubtful /\ q.state # Returned
      BY <1>7, StatesDiffer
    <2>3. h.mode = IF q.state = Clean THEN "plain" ELSE "quoted"
      BY <1>7, <1>8
    <2>4. q.state \in {Clean, Quoted}
      BY <1>7
    <2> QED BY <2>1, <2>2, <2>3, <2>4, StatesDiffer DEF Position, BetweenRows
  <1>10. ~Ended(q, h) /\ ~Literal(q, h)
    BY <1>8 DEF Ended, Literal
  <1>11. Width(q, h)
    <2>1. h.mode \notin BetweenRows \cup {"field"}
      BY <1>8 DEF BetweenRows
    <2>2. start \in Nat \ {0} /\ p.row <= start /\ start <= L
      BY <1>1, <1>3 DEF Beside, Width
    <2> HIDE DEF start
    <2> QED BY <1>1, <1>3, <1>7, <1>10, <2>1, <2>2 DEF Width
  <1>12. ASSUME Content(a, p, g) PROVE Content(a, q, h)
    <2>1. held \in Value
      BY <1>2, Bytewise, SpecialBytes DEF held, Held
    <2>2. start # 0 /\ q.length > 0
      BY <1>1, <1>3, <1>4, <1>7
    <2>3. /\ Packed(Raw(q)).bytes = Append(held, b)
          /\ Packed(Raw(q)).half = FALSE
          /\ ~p.doubled => Raw(q) = Append(held, b)
      <3>1. CASE p.start = 0
        <4>1. g.mode \notin {"plain", "quote", "quoted"} /\ g.value = <<>>
          BY <1>1, <1>3, <1>12, <3>1 DEF Content
        <4>2. held = <<>>
          BY <4>1 DEF held, Held, Literal
        <4>3. Raw(q) = SubSeq(p.in, p.at, p.at)
          <5>1. q.in = p.in /\ q.start = p.at /\ q.start + q.length - 1 = p.at
            BY <1>1, <1>7, <3>1
          <5> QED BY <5>1 DEF Raw
        <4>4. SubSeq(p.in, p.at, p.at) = <<b>>
          <5>1. /\ p.at \in Nat \ {0} /\ 0 \in Nat /\ p.at + 0 <= Len(p.in)
                /\ p.at + 0 = p.at /\ p.at + 0 - 1 = p.at - 1 /\ p.at - 1 < p.at /\ p.at - 1 \in Int /\ p.at \in Int
            BY <1>1, <1>3
          <5>2. SubSeq(p.in, p.at, p.at + 0) = Append(SubSeq(p.in, p.at, p.at + 0 - 1), p.in[p.at + 0])
            BY <1>1, <5>1, RawGrows
          <5>3. SubSeq(p.in, p.at, p.at - 1) = <<>>
            BY <5>1, SubSeqEmpty
          <5>4. SubSeq(p.in, p.at, p.at) = Append(<<>>, p.in[p.at])
            BY <5>1, <5>2, <5>3
          <5> QED BY <5>4 DEF Byte
        <4>5. Append(<<>>, b) = <<b>>
          OBVIOUS
        <4>6. Packed(<<b>>).bytes = <<b>> /\ Packed(<<b>>).half = FALSE
          BY <1>3, PackedOfOne
        <4> HIDE DEF b
        <4> QED BY <4>2, <4>3, <4>4, <4>5, <4>6, Zenon
      <3>2. CASE p.start # 0
        <4>1. ~Ended(p, g)
          BY StatesDiffer DEF Ended, Beside, Position, Byte
        <4>2. p.at = p.start + p.length
          BY <1>1, <3>2, <4>1 DEF Beside, Width
        <4>3. Raw(q) = SubSeq(p.in, p.start, p.start + p.length)
          <5>1. q.in = p.in /\ q.start = p.start /\ q.start + q.length - 1 = p.start + p.length
            BY <1>1, <1>7, <3>2, <4>2
          <5> QED BY <5>1 DEF Raw
        <4>4. Raw(p) \in Value /\ Raw(q) = Append(Raw(p), b)
          <5>1. p.start \in Nat \ {0} /\ p.start + p.length <= Len(p.in) /\ p.in[p.start + p.length] = b
            BY <1>1, <1>3, <3>2, <4>2 DEF Byte
          <5> HIDE DEF b
          <5> QED BY <1>1, <4>3, <5>1, RawGrows DEF Raw
        <4>5. Packed(Raw(p)).bytes = held /\ (~p.doubled => Raw(p) = held)
          BY <1>12, <3>2 DEF Content, held
        <4>6. Packed(Raw(q)).bytes = Append(Packed(Raw(p)).bytes, b) /\ Packed(Raw(q)).half = FALSE
          <5>1. b # QuoteChar
            OBVIOUS
          <5>2. Packed(Append(Raw(p), b)).bytes = Append(Packed(Raw(p)).bytes, b) /\ Packed(Append(Raw(p), b)).half = FALSE
            BY <1>3, <4>4, <5>1, PackedGrows
          <5> HIDE DEF b
          <5> QED BY <4>4, <5>2, Zenon
        <4> HIDE DEF b
        <4> QED BY <4>4, <4>5, <4>6
      <3> QED BY <3>1, <3>2
    <2>4. Held(q, h) = h.value /\ Literal(q, h) = FALSE
      BY <1>10 DEF Held
    <2>5. h.mode \notin BetweenRows \cup {"field", "quote"} /\ (h.mode = "quoted" => q.start # 0)
      BY <1>7, <1>8, <2>2 DEF BetweenRows
    <2>6. h.from = a + q.row - 1 /\ q.fields = h.fields
      BY <1>7, <1>8, <1>12 DEF Content
    <2> HIDE DEF start
    <2> QED BY <1>7, <1>8, <2>2, <2>3, <2>4, <2>5, <2>6 DEF Content
  <1> QED BY <1>6, <1>7, <1>8, <1>9, <1>11, <1>12 DEF Carries, Beside, q, h

\* A quote at the end of the chunk, in a field with quotes.
LEMMA DoubtCarries ==
    ASSUME NEW a \in Nat, NEW p \in Parser, NEW g \in Reader, Tidy(g), Beside(p, g),
           p.at = Len(p.in), p.state = Quoted, Byte(p) = QuoteChar
    PROVE  Carries(a, p, g, Step(p), g) /\ Step(p).at = p.at /\ Step(p).state = Doubtful
  <1> DEFINE q == Step(p)
  <1>1. /\ p.in \in Value /\ p.at \in Nat /\ p.state \in States /\ p.start \in Nat /\ p.length \in Nat
        /\ p.doubled \in BOOLEAN /\ p.fields \in Row /\ p.row \in Nat /\ p.rows \in Seq(ParsedRow)
    BY ParserIs
  <1>2. Len(p.in) \in Nat /\ p.at \in 1..Len(p.in) /\ p.row \in 1..p.at
    BY LengthOfIn DEF Beside, Position
  <1>3. q = ParserOf(p.in, p.at, Doubtful, p.start, p.length, p.doubled, p.fields, p.row, p.rows)
    BY <1>2, EscapedQuoteIs
  <1>4. g.mode = "quoted"
    BY StatesDiffer DEF Beside, Position, Byte
  <1> HIDE DEF q
  <1>5. q \in Parser
    BY <1>1, <1>3, ParserOfType DEF States
  <1>6. /\ q.in = p.in /\ q.at = p.at /\ q.state = Doubtful /\ q.start = p.start /\ q.length = p.length
        /\ q.doubled = p.doubled /\ q.fields = p.fields /\ q.row = p.row /\ q.rows = p.rows
    BY <1>3 DEF ParserOf
  <1>7. ~Literal(p, g) /\ ~Literal(q, g) /\ ~Ended(p, g) /\ ~Ended(q, g)
    BY <1>4 DEF Literal, Ended
  <1>8. Position(q, g)
    BY <1>2, <1>4, <1>6, StatesDiffer DEF Position, Byte, BetweenRows
  <1>9. Width(q, g)
    <2>1. Width(p, g)
      BY DEF Beside
    <2> QED BY <1>6, <1>7, <2>1 DEF Width
  <1>10. ASSUME Content(a, p, g) PROVE Content(a, q, g)
    <2>1. Raw(q) = Raw(p)
      BY <1>6 DEF Raw
    <2>2. Literal(q, g) = FALSE /\ Literal(p, g) = FALSE
      BY <1>4 DEF Literal
    <2>3. Held(q, g) = Held(p, g)
      BY <2>2 DEF Held
    <2> QED BY <1>6, <1>10, <2>1, <2>2, <2>3 DEF Content
  <1> QED BY <1>5, <1>6, <1>8, <1>9, <1>10 DEF Carries, Beside, q

\* The quote that ends a field.
LEMMA ClosingCarries ==
    ASSUME NEW a \in Nat, NEW n \in Nat, NEW p \in Parser, NEW g \in Reader, Tidy(g), Beside(p, g),
           p.at < Len(p.in), p.state = Quoted, Byte(p) = QuoteChar, p.in[p.at + 1] \in FieldEnds
    PROVE  Carries(a, p, g, Step(p), Past(g, Byte(p), n)) /\ Step(p).at = p.at + 1
  <1> DEFINE q == Step(p)
             h == Past(g, Byte(p), n)
  <1>1. /\ p.in \in Value /\ p.at \in Nat /\ p.state \in States /\ p.start \in Nat /\ p.length \in Nat
        /\ p.doubled \in BOOLEAN /\ p.fields \in Row /\ p.row \in Nat /\ p.rows \in Seq(ParsedRow)
    BY ParserIs
  <1>2. Len(p.in) \in Nat /\ p.at \in 1..Len(p.in) /\ p.row \in 1..p.at
    BY LengthOfIn DEF Beside, Position
  <1>3. q = ParserOf(p.in, p.at + 1, Clean, p.start, p.length, p.doubled, p.fields, p.row, p.rows)
    BY <1>2, EscapedQuoteIs
  <1>4. g.mode = "quoted"
    BY StatesDiffer DEF Beside, Position, Byte
  <1>5. h = ReaderOf("quote", g.from, g.value, g.fields, g.rows)
    BY <1>4, PastQuoted, SpecialBytes
  <1> HIDE DEF q, h
  <1>6. q \in Parser
    <2>1. p.at + 1 \in Nat /\ p.length + 1 \in Nat /\ Clean \in States /\ Quoted \in States
      BY <1>1 DEF States
    <2> QED BY <1>1, <1>3, <2>1, ParserOfType
  <1>7. /\ q.in = p.in /\ q.at = p.at + 1 /\ q.state = Clean /\ q.start = p.start /\ q.length = p.length
        /\ q.doubled = p.doubled /\ q.fields = p.fields /\ q.row = p.row /\ q.rows = p.rows
    BY <1>3 DEF ParserOf
  <1>8. /\ h.mode = "quote" /\ h.from = g.from /\ h.value = g.value /\ h.fields = g.fields
        /\ h.rows = g.rows
    BY <1>5 DEF ReaderOf
  <1>9. ~Literal(p, g) /\ ~Literal(q, h) /\ ~Ended(p, g) /\ Ended(q, h)
    BY <1>4, <1>7, <1>8, StatesDiffer DEF Literal, Ended
  <1>10. Position(q, h)
    BY <1>1, <1>2, <1>7, <1>8, StatesDiffer DEF Position, BetweenRows
  <1>11. Width(q, h)
    <2>1. Width(p, g)
      BY DEF Beside
    <2>2. h.mode \notin BetweenRows \cup {"field"}
      BY <1>8 DEF BetweenRows
    <2>3. p.start # 0 => p.row <= p.start /\ p.start <= Len(p.in) /\ p.at = p.start + p.length
      BY <1>1, <1>9, <2>1 DEF Width
    <2>4. p.start = 0 => p.row + p.length <= p.at
      BY <1>1, <1>9, <2>1 DEF Width
    <2> QED BY <1>1, <1>7, <1>9, <2>2, <2>3, <2>4 DEF Width
  <1>12. ASSUME Content(a, p, g) PROVE Content(a, q, h)
    <2>1. Raw(q) = Raw(p)
      BY <1>7 DEF Raw
    <2>a. Literal(q, h) = FALSE /\ Literal(p, g) = FALSE
      BY <1>4, <1>7, StatesDiffer DEF Literal
    <2>b. Held(q, h) = Held(p, g)
      BY <1>8, <2>a DEF Held
    <2>2. p.start # 0
      BY <1>1, <1>2, <1>4, <1>12 DEF Content
    <2>3. h.mode \notin BetweenRows
      BY <1>8 DEF BetweenRows
    <2> QED BY <1>7, <1>8, <1>12, <2>1, <2>a, <2>b, <2>2, <2>3 DEF Content
  <1> QED BY <1>6, <1>7, <1>8, <1>10, <1>11, <1>12 DEF Carries, Beside, q, h

\* A quote that is a byte of the field.
LEMMA LiteralCarries ==
    ASSUME NEW a \in Nat, NEW n \in Nat, NEW p \in Parser, NEW g \in Reader, Tidy(g), Beside(p, g),
           p.at < Len(p.in), p.state = Quoted, Byte(p) = QuoteChar, p.in[p.at + 1] \notin FieldEnds \cup {QuoteChar}
    PROVE  Carries(a, p, g, Step(p), Past(g, Byte(p), n)) /\ Step(p).at = p.at + 1
  <1> DEFINE q == Step(p)
             h == Past(g, Byte(p), n)
  <1>1. /\ p.in \in Value /\ p.at \in Nat /\ p.state \in States /\ p.start \in Nat /\ p.length \in Nat
        /\ p.doubled \in BOOLEAN /\ p.fields \in Row /\ p.row \in Nat /\ p.rows \in Seq(ParsedRow)
    BY ParserIs
  <1>2. Len(p.in) \in Nat /\ p.at \in 1..Len(p.in) /\ p.row \in 1..p.at
    BY LengthOfIn DEF Beside, Position
  <1>3. q = ParserOf(p.in, p.at + 1, Quoted, p.start, p.length + 1, p.doubled, p.fields, p.row, p.rows)
    BY <1>2, EscapedQuoteIs
  <1>4. g.mode = "quoted"
    BY StatesDiffer DEF Beside, Position, Byte
  <1>5. h = ReaderOf("quote", g.from, g.value, g.fields, g.rows)
    BY <1>4, PastQuoted, SpecialBytes
  <1> HIDE DEF q, h
  <1>6. q \in Parser
    <2>1. p.at + 1 \in Nat /\ p.length + 1 \in Nat /\ Clean \in States /\ Quoted \in States
      BY <1>1 DEF States
    <2> QED BY <1>1, <1>3, <2>1, ParserOfType
  <1>7. /\ q.in = p.in /\ q.at = p.at + 1 /\ q.state = Quoted /\ q.start = p.start /\ q.length = p.length + 1
        /\ q.doubled = p.doubled /\ q.fields = p.fields /\ q.row = p.row /\ q.rows = p.rows
    BY <1>3 DEF ParserOf
  <1>8. /\ h.mode = "quote" /\ h.from = g.from /\ h.value = g.value /\ h.fields = g.fields
        /\ h.rows = g.rows
    BY <1>5 DEF ReaderOf
  <1>9. ~Literal(p, g) /\ Literal(q, h) /\ ~Ended(p, g) /\ ~Ended(q, h)
    BY <1>4, <1>7, <1>8, StatesDiffer DEF Literal, Ended
  <1>10. Position(q, h)
    BY <1>1, <1>2, <1>7, <1>8, StatesDiffer DEF Position, BetweenRows
  <1>a. /\ p.start # 0 => p.row <= p.start /\ p.start <= Len(p.in) /\ p.at = p.start + p.length
        /\ p.start = 0 => p.row + p.length <= p.at
    BY <1>1, <1>9 DEF Beside, Width
  <1>11. Width(q, h)
    <2>2. h.mode \notin BetweenRows \cup {"field"}
      BY <1>8 DEF BetweenRows
    <2> QED BY <1>1, <1>2, <1>7, <1>9, <1>a, <2>2 DEF Width
  <1>12. ASSUME Content(a, p, g) PROVE Content(a, q, h)
    <2>1. Held(q, h) = Append(g.value, QuoteChar) /\ Held(p, g) = g.value
      BY <1>8, <1>9 DEF Held
    <2>2. p.start # 0
      BY <1>1, <1>2, <1>4, <1>12 DEF Content
    <2>3. h.mode \notin BetweenRows
      BY <1>8 DEF BetweenRows
    <2>4. Raw(p) \in Value /\ Raw(q) = Append(Raw(p), QuoteChar)
      <3>1. Raw(q) = SubSeq(p.in, p.start, p.start + p.length)
        <4>1. q.in = p.in /\ q.start = p.start /\ q.start + q.length - 1 = p.start + p.length
          BY <1>1, <1>7
        <4> QED BY <4>1 DEF Raw
      <3>2. p.start \in Nat \ {0} /\ p.start + p.length <= Len(p.in) /\ p.in[p.start + p.length] = QuoteChar
        BY <1>1, <1>2, <1>a, <2>2 DEF Byte
      <3>3. /\ SubSeq(p.in, p.start, p.start + p.length - 1) \in Value
            /\ SubSeq(p.in, p.start, p.start + p.length) =
                 Append(SubSeq(p.in, p.start, p.start + p.length - 1), p.in[p.start + p.length])
        BY <1>1, <3>2, RawGrows
      <3> QED BY <3>1, <3>2, <3>3 DEF Raw
    <2>5. Packed(Raw(p)).bytes = g.value /\ Packed(Raw(p)).half = FALSE /\ (~p.doubled => Raw(p) = g.value)
      BY <1>9, <1>12, <2>1, <2>2 DEF Content
    <2>6. Packed(Raw(q)).bytes = Append(g.value, QuoteChar) /\ Packed(Raw(q)).half = TRUE
      <3>1. Packed(Append(Raw(p), QuoteChar)).bytes = Append(Packed(Raw(p)).bytes, QuoteChar)
            /\ Packed(Append(Raw(p), QuoteChar)).half = TRUE
        BY <2>4, <2>5, PackedGrows, SpecialBytes
      <3> QED BY <2>4, <2>5, <3>1, Zenon
    <2>7. ~q.doubled => Raw(q) = Held(q, h)
      BY <1>7, <2>1, <2>4, <2>5
    <2> QED BY <1>7, <1>8, <1>9, <1>12, <2>1, <2>2, <2>3, <2>6, <2>7 DEF Content
  <1> QED BY <1>6, <1>7, <1>8, <1>10, <1>11, <1>12 DEF Carries, Beside, q, h

\* Two quotes that are one.
LEMMA PairCarries ==
    ASSUME NEW a \in Nat, NEW n \in Nat, NEW p \in Parser, NEW g \in Reader, Tidy(g), Beside(p, g),
           p.at < Len(p.in), p.state = Quoted, Byte(p) = QuoteChar, p.in[p.at + 1] = QuoteChar
    PROVE  Carries(a, p, g, Step(p), Past(Past(g, Byte(p), n), p.in[p.at + 1], n + 1)) /\ Step(p).at = p.at + 2
  <1> DEFINE q == Step(p)
             k == Past(g, Byte(p), n)
             h == Past(k, p.in[p.at + 1], n + 1)
  <1>1. /\ p.in \in Value /\ p.at \in Nat /\ p.state \in States /\ p.start \in Nat /\ p.length \in Nat
        /\ p.doubled \in BOOLEAN /\ p.fields \in Row /\ p.row \in Nat /\ p.rows \in Seq(ParsedRow)
    BY ParserIs
  <1>2. Len(p.in) \in Nat /\ p.at \in 1..Len(p.in) /\ p.row \in 1..p.at
    BY LengthOfIn DEF Beside, Position
  <1>n. p.at \in Nat /\ p.start \in Nat /\ p.length \in Nat /\ p.row \in Nat
    BY <1>1
  <1>3. q = ParserOf(p.in, p.at + 2, Quoted, p.start, p.length + 2, TRUE, p.fields, p.row, p.rows)
    BY <1>2, EscapedQuoteIs
  <1>4. g.mode = "quoted"
    BY StatesDiffer DEF Beside, Position, Byte
  <1>5. k = ReaderOf("quote", g.from, g.value, g.fields, g.rows) /\ k \in Reader
    BY <1>4, PastQuoted, PastType, SpecialBytes
  <1>6. h = ReaderOf("quoted", g.from, Append(g.value, QuoteChar), g.fields, g.rows)
    <2>1. k.mode = "quote" /\ k.from = g.from /\ k.value = g.value /\ k.fields = g.fields /\ k.rows = g.rows
      BY <1>5 DEF ReaderOf
    <2> HIDE DEF k
    <2>2. n + 1 \in Nat
      OBVIOUS
    <2> QED BY <1>5, <2>1, <2>2, PastQuoted, SpecialBytes
  <1> HIDE DEF q, h, k
  <1>7. q \in Parser
    <2>1. p.at + 2 \in Nat /\ p.length + 2 \in Nat /\ Quoted \in States /\ TRUE \in BOOLEAN
      BY <1>n DEF States
    <2> QED BY <1>1, <1>3, <2>1, ParserOfType
  <1>8. /\ q.in = p.in /\ q.at = p.at + 2 /\ q.state = Quoted /\ q.start = p.start /\ q.length = p.length + 2
        /\ q.doubled = TRUE /\ q.fields = p.fields /\ q.row = p.row /\ q.rows = p.rows
    BY <1>3 DEF ParserOf
  <1>9. /\ h.mode = "quoted" /\ h.from = g.from /\ h.value = Append(g.value, QuoteChar) /\ h.fields = g.fields
        /\ h.rows = g.rows
    BY <1>6 DEF ReaderOf
  <1>10. ~Literal(p, g) /\ ~Literal(q, h) /\ ~Ended(p, g) /\ ~Ended(q, h)
    BY <1>4, <1>9 DEF Literal, Ended
  <1>11. Position(q, h)
    <2>1. q.at \in 1..(Len(q.in) + 1) /\ q.row \in 1..q.at
      BY <1>2, <1>8
    <2>2. q.state # Doubtful /\ q.state # Returned /\ q.state = Quoted
      BY <1>8, StatesDiffer
    <2> QED BY <1>9, <2>1, <2>2 DEF Position, BetweenRows
  <1>a. /\ p.start # 0 => p.row <= p.start /\ p.start <= Len(p.in) /\ p.at = p.start + p.length
        /\ p.start = 0 => p.row + p.length <= p.at
    BY <1>1, <1>10 DEF Beside, Width
  <1>12. Width(q, h)
    <2>2. h.mode \notin BetweenRows \cup {"field"}
      BY <1>9 DEF BetweenRows
    <2>3. q.start # 0 => q.row <= q.start /\ q.start <= Len(q.in) /\ q.at = q.start + q.length
      BY <1>n, <1>8, <1>a
    <2>4. q.start = 0 => q.row + q.length <= q.at
      BY <1>n, <1>8, <1>a
    <2>5. q.at \in Nat /\ q.start \in Nat /\ q.length \in Nat
      BY <1>n, <1>8
    <2>6. q.start + q.length + 0 = q.start + q.length /\ q.at + 0 = q.at
      BY <2>5
    <2> QED BY <1>10, <2>2, <2>3, <2>4, <2>6 DEF Width
  <1>13. ASSUME Content(a, p, g) PROVE Content(a, q, h)
    <2>1. Held(q, h) = Append(g.value, QuoteChar) /\ Held(p, g) = g.value
      BY <1>9, <1>10 DEF Held
    <2>2. p.start # 0
      BY <1>1, <1>2, <1>4, <1>13 DEF Content
    <2>3. h.mode \notin BetweenRows
      BY <1>9 DEF BetweenRows
    <2> DEFINE s == SubSeq(p.in, p.start, p.start + p.length)
    <2>4. Raw(p) \in Value /\ s = Append(Raw(p), QuoteChar)
      <3>2. p.start \in Nat \ {0} /\ p.start + p.length <= Len(p.in) /\ p.in[p.start + p.length] = QuoteChar
        BY <1>1, <1>2, <1>a, <2>2 DEF Byte
      <3>3. /\ SubSeq(p.in, p.start, p.start + p.length - 1) \in Value
            /\ SubSeq(p.in, p.start, p.start + p.length) =
                 Append(SubSeq(p.in, p.start, p.start + p.length - 1), p.in[p.start + p.length])
        BY <1>1, <3>2, RawGrows
      <3> QED BY <3>2, <3>3 DEF Raw
    <2>5. s \in Value /\ Raw(q) = Append(s, QuoteChar)
      <3> DEFINE m == p.length + 1
      <3>1. q.in = p.in /\ q.start = p.start /\ q.start + q.length - 1 = p.start + m
        BY <1>1, <1>8
      <3>a. p.at = p.start + p.length /\ p.at + 1 <= Len(p.in) /\ p.start \in Nat \ {0}
        BY <1>1, <1>2, <1>a, <2>2
      <3>2. /\ p.start \in Nat \ {0} /\ m \in Nat /\ p.start + m <= Len(p.in) /\ p.start + m = p.at + 1
            /\ p.start + m - 1 = p.start + p.length
        <4> DEFINE i == p.start
                   l == p.length
                   e == Len(p.in)
                   t == p.at
        <4>1. i \in Nat \ {0} /\ l \in Nat /\ e \in Nat /\ t \in Nat /\ t = i + l /\ t + 1 <= e /\ m = l + 1
          BY <1>1, <1>2, <3>a
        <4> HIDE DEF i, l, e, t, m
        <4>2. i \in Nat \ {0} /\ m \in Nat /\ i + m <= e /\ i + m = t + 1 /\ i + m - 1 = i + l
          BY <4>1
        <4> QED BY <4>2 DEF i, l, e, t
      <3> HIDE DEF m
      <3>3. /\ SubSeq(p.in, p.start, p.start + m - 1) \in Value
            /\ SubSeq(p.in, p.start, p.start + m) = Append(SubSeq(p.in, p.start, p.start + m - 1), p.in[p.start + m])
        BY <1>1, <3>2, RawGrows
      <3> QED BY <3>1, <3>2, <3>3 DEF Raw
    <2>6. Packed(Raw(p)).bytes = g.value /\ Packed(Raw(p)).half = FALSE
      BY <1>10, <1>13, <2>1, <2>2 DEF Content
    <2> HIDE DEF s
    <2>7. Packed(s).bytes = Append(g.value, QuoteChar) /\ Packed(s).half = TRUE
      <3>1. Packed(Append(Raw(p), QuoteChar)).bytes = Append(Packed(Raw(p)).bytes, QuoteChar)
            /\ Packed(Append(Raw(p), QuoteChar)).half = TRUE
        BY <2>4, <2>6, PackedGrows, SpecialBytes
      <3> QED BY <2>4, <2>6, <3>1, Zenon
    <2>8. Packed(Raw(q)).bytes = Append(g.value, QuoteChar) /\ Packed(Raw(q)).half = FALSE
      <3>1. Packed(Append(s, QuoteChar)).bytes = Packed(s).bytes /\ Packed(Append(s, QuoteChar)).half = FALSE
        BY <2>5, <2>7, PackedGrows, SpecialBytes
      <3> QED BY <2>5, <2>7, <3>1, Zenon
    <2>9. Literal(q, h) = FALSE
      BY <1>9 DEF Literal
    <2> QED BY <1>8, <1>9, <1>13, <2>1, <2>2, <2>3, <2>8, <2>9 DEF Content
  <1> QED BY <1>7, <1>8, <1>9, <1>11, <1>12, <1>13 DEF Carries, Beside, q, h, k

\* A quote in front of a field.
LEMMA OpeningCarries ==
    ASSUME NEW a \in Nat, NEW n \in Nat, NEW p \in Parser, NEW g \in Reader, Tidy(g), Beside(p, g),
           p.at <= Len(p.in), p.state = Clean, Byte(p) = QuoteChar, g.mode # "plain"
    PROVE  Carries(a, p, g, Step(p), Past(g, Byte(p), n)) /\ Step(p).at = p.at + 1
  <1> DEFINE q == Step(p)
             h == Past(g, Byte(p), n)
             start == IF p.at < Len(p.in) THEN p.at + 1 ELSE 0
  <1>1. /\ p.in \in Value /\ p.at \in Nat /\ p.state \in States /\ p.start \in Nat /\ p.length \in Nat
        /\ p.doubled \in BOOLEAN /\ p.fields \in Row /\ p.row \in Nat /\ p.rows \in Seq(ParsedRow)
    BY ParserIs
  <1>2. Len(p.in) \in Nat /\ p.at \in 1..Len(p.in) /\ p.row \in 1..p.at
    BY LengthOfIn DEF Beside, Position
  <1>n. p.at \in Nat /\ p.row \in Nat
    BY <1>1
  <1>3. g.mode \in BetweenRows \cup {"field"}
    <2>1. g.mode # "quoted"
      BY StatesDiffer DEF Beside, Position
    <2>2. g.mode # "quote"
      BY StatesDiffer, SpecialBytes DEF Beside, Position, Byte
    <2> QED BY <2>1, <2>2, ReaderIs DEF Modes, BetweenRows
  <1>4. p.start = 0 /\ p.length = 0 /\ g.value = <<>>
    BY <1>3 DEF Beside, Width, Tidy
  <1>5. q = ParserOf(p.in, p.at + 1, Quoted, start, 0, p.doubled, p.fields, p.row, p.rows)
    BY <1>2, <1>4, OpeningQuoteIs
  <1>6. h = ReaderOf("quoted", g.from, <<>>, g.fields, g.rows)
    <2>1. g.mode # "quoted" /\ g.mode # "quote" /\ g.mode # "plain"
      BY <1>3 DEF BetweenRows
    <2> QED BY <1>4, <2>1, PastUnquoted, SpecialBytes
  <1>7. start \in Nat /\ start <= Len(p.in) /\ (start # 0 => start = p.at + 1) /\ (start = 0 => p.at = Len(p.in))
    BY <1>2, <1>n
  <1> HIDE DEF q, h, start
  <1>8. q \in Parser
    <2>1. p.at + 1 \in Nat /\ 0 \in Nat /\ Quoted \in States
      BY <1>n DEF States
    <2> QED BY <1>1, <1>5, <1>7, <2>1, ParserOfType
  <1>9. /\ q.in = p.in /\ q.at = p.at + 1 /\ q.state = Quoted /\ q.start = start /\ q.length = 0
        /\ q.doubled = p.doubled /\ q.fields = p.fields /\ q.row = p.row /\ q.rows = p.rows
    BY <1>5 DEF ParserOf
  <1>10. /\ h.mode = "quoted" /\ h.from = g.from /\ h.value = <<>> /\ h.fields = g.fields
        /\ h.rows = g.rows
    BY <1>6 DEF ReaderOf
  <1>11. ~Literal(q, h) /\ ~Ended(q, h) /\ Literal(q, h) = FALSE
    BY <1>10 DEF Literal, Ended
  <1>12. Position(q, h)
    <2>1. q.at \in 1..(Len(q.in) + 1) /\ q.row \in 1..q.at
      BY <1>2, <1>n, <1>9
    <2>2. q.state # Doubtful /\ q.state # Returned /\ q.state = Quoted
      BY <1>9, StatesDiffer
    <2> QED BY <1>10, <2>1, <2>2 DEF Position, BetweenRows
  <1>13. Width(q, h)
    <2>2. h.mode \notin BetweenRows \cup {"field"}
      BY <1>10 DEF BetweenRows
    <2>3. q.start # 0 => q.row <= q.start /\ q.start <= Len(q.in) /\ q.at = q.start + q.length + 0
      BY <1>2, <1>n, <1>7, <1>9
    <2>4. q.start = 0 => q.row + q.length <= q.at + 0
      BY <1>2, <1>n, <1>9
    <2> QED BY <1>11, <2>2, <2>3, <2>4 DEF Width
  <1>14. ASSUME Content(a, p, g) PROVE Content(a, q, h)
    <2>1. Held(q, h) = <<>>
      BY <1>10, <1>11 DEF Held
    <2>2. q.start # 0 => Raw(q) = <<>>
      <3>1. ASSUME q.start # 0 PROVE Raw(q) = <<>>
        <4>1. q.start + q.length - 1 \in Int /\ q.start \in Int /\ q.start + q.length - 1 < q.start
          BY <1>7, <1>9
        <4> QED BY <4>1, SubSeqEmpty DEF Raw
      <3> QED BY <3>1
    <2>3. Packed(<<>>).bytes = <<>> /\ Packed(<<>>).half = FALSE
      BY CompactionNone
    <2>4. h.mode \notin BetweenRows
      BY <1>10 DEF BetweenRows
    <2>5. q.start = 0 => q.at > 1 /\ q.at = Len(q.in) + 1 /\ q.in[q.at - 1] = QuoteChar
      <3>1. p.at + 1 > 1 /\ p.at + 1 - 1 = p.at
        BY <1>2, <1>n
      <3> QED BY <1>7, <1>9, <3>1 DEF Byte
    <2>6. h.from = a + q.row - 1 /\ q.fields = h.fields
      BY <1>9, <1>10, <1>14 DEF Content
    <2> QED BY <1>9, <1>10, <1>11, <2>1, <2>2, <2>3, <2>4, <2>5, <2>6 DEF Content
  <1> QED BY <1>8, <1>9, <1>10, <1>12, <1>13, <1>14 DEF Carries, Beside, q, h

\* The end of a field that is not the last of its row.
LEMMA DelimiterCarries ==
    ASSUME NEW a \in Nat, NEW n \in Nat, NEW p \in Parser, NEW g \in Reader, Tidy(g), Beside(p, g),
           p.at <= Len(p.in), p.state = Clean, Byte(p) = Delimiter
    PROVE  Carries(a, p, g, Step(p), Past(g, Byte(p), n)) /\ Step(p).at = p.at + 1
  <1> DEFINE q == Step(p)
             h == Past(g, Byte(p), n)
             fs == Append(p.fields, Field(p))
  <1>1. /\ p.in \in Value /\ p.at \in Nat /\ p.state \in States /\ p.start \in Nat /\ p.length \in Nat
        /\ p.doubled \in BOOLEAN /\ p.fields \in Row /\ p.row \in Nat /\ p.rows \in Seq(ParsedRow)
    BY ParserIs
  <1>2. Len(p.in) \in Nat /\ p.at \in 1..Len(p.in) /\ p.row \in 1..p.at
    BY LengthOfIn DEF Beside, Position
  <1>n. p.at \in Nat /\ p.row \in Nat
    BY <1>1
  <1>3. Field(p) \in Value /\ fs \in Row
    BY FieldType, PushFieldIs
  <1>4. q = ParserOf(p.in, p.at + 1, Clean, 0, 0, FALSE, fs, p.row, p.rows)
    BY <1>2, <1>3, DelimiterIs
  <1>5. h = ReaderOf("field", g.from, <<>>, Append(g.fields, g.value), g.rows)
    <2>1. g.mode # "quoted"
      BY StatesDiffer DEF Beside, Position
    <2>2. g.mode = "quote" => Byte(p) \in FieldEnds
      BY DEF FieldEnds
    <2> QED BY <2>1, <2>2, PastUnquoted, SpecialBytes
  <1> HIDE DEF q, h
  <1>6. q \in Parser
    <2>1. p.at + 1 \in Nat /\ 0 \in Nat /\ Clean \in States /\ FALSE \in BOOLEAN
      BY <1>n DEF States
    <2> HIDE DEF fs
    <2> QED BY <1>1, <1>3, <1>4, <2>1, ParserOfType
  <1>7. /\ q.in = p.in /\ q.at = p.at + 1 /\ q.state = Clean /\ q.start = 0 /\ q.length = 0
        /\ q.doubled = FALSE /\ q.fields = fs /\ q.row = p.row /\ q.rows = p.rows
    <2> HIDE DEF fs
    <2> QED BY <1>4 DEF ParserOf
  <1>8. /\ h.mode = "field" /\ h.from = g.from /\ h.value = <<>> /\ h.fields = Append(g.fields, g.value)
        /\ h.rows = g.rows
    BY <1>5 DEF ReaderOf
  <1>9. ~Literal(q, h)
    BY <1>8 DEF Literal
  <1>10. Position(q, h)
    <2>1. q.at \in 1..(Len(q.in) + 1) /\ q.row \in 1..q.at
      BY <1>2, <1>n, <1>7
    <2>2. q.state # Doubtful /\ q.state # Returned /\ q.state # Quoted
      BY <1>7, StatesDiffer
    <2> QED BY <1>8, <2>1, <2>2 DEF Position, BetweenRows
  <1>11. Width(q, h)
    <2>1. q.row + 0 <= q.at + 0
      BY <1>2, <1>n, <1>7
    <2> QED BY <1>7, <1>9, <2>1 DEF Width
  <1>12. ASSUME Content(a, p, g) PROVE Content(a, q, h)
    <2>a. ~Literal(p, g)
      BY StatesDiffer DEF Literal
    <2>1. Field(p) = g.value
      BY <1>12, <2>a, FieldIs
    <2>2. q.fields = h.fields
      BY <1>7, <1>8, <1>12, <2>1 DEF Content
    <2>3. q.at > 1 /\ q.in[q.at - 1] = Delimiter
      <3>1. q.at > 1 /\ q.at - 1 = p.at
        BY <1>2, <1>n, <1>7
      <3>2. p.in[p.at] = Delimiter
        BY DEF Byte
      <3> QED BY <1>7, <3>1, <3>2
    <2>4. h.mode \notin BetweenRows
      BY <1>8 DEF BetweenRows
    <2>5. h.from = a + q.row - 1
      BY <1>7, <1>8, <1>12 DEF Content
    <2> QED BY <1>7, <1>8, <2>2, <2>3, <2>4, <2>5 DEF Content
  <1> QED BY <1>6, <1>7, <1>8, <1>10, <1>11, <1>12 DEF Carries, Beside, q, h

\* The reader behind the end of a line.
BehindRow(p, g, n) ==
    IF LineFeedFollows(p) THEN Past(Past(g, Byte(p), n), p.in[p.at + 1], n + 1) ELSE Past(g, Byte(p), n)

\* The reader behind the end of a row.
LEMMA BehindRowIs ==
    ASSUME NEW n \in Nat, NEW p \in Parser, NEW g \in Reader, Tidy(g), Beside(p, g),
           p.at <= Len(p.in), p.state = Clean, Byte(p) \in RowEnds
    PROVE  /\ LineFeedFollows(p) => BehindRow(p, g, n) = ReaderOf("row", n + 1, <<>>, <<>>, Closed(g))
           /\ Byte(p) = CarriageReturn /\ ~LineFeedFollows(p) =>
                BehindRow(p, g, n) = ReaderOf("return", n, <<>>, <<>>, Closed(g))
           /\ Byte(p) = NewLine => BehindRow(p, g, n) = ReaderOf("row", n, <<>>, <<>>, Closed(g))
  <1> DEFINE k == Past(g, Byte(p), n)
  <1>1. g.mode # "quoted" /\ (g.mode = "quote" => Byte(p) \in FieldEnds)
    BY StatesDiffer DEF Beside, Position, FieldEnds
  <1>2. Byte(p) \in Bytes /\ CarriageReturn # NewLine
    BY SpecialBytes DEF RowEnds
  <1>3. CASE Byte(p) = NewLine
    <2>1. ~LineFeedFollows(p)
      BY <1>2, <1>3 DEF LineFeedFollows
    <2>2. CASE g.mode = "return"
      <3>1. g.value = <<>> /\ g.fields = <<>> /\ Closed(g) = g.rows
        BY <2>2 DEF Tidy, Closed, BetweenRows
      <3>2. k = ReaderOf("row", n, g.value, g.fields, g.rows)
        BY <1>1, <1>2, <1>3, <2>2, PastUnquoted
      <3> QED BY <1>2, <1>3, <2>1, <3>1, <3>2 DEF BehindRow
    <2>3. CASE g.mode # "return"
      <3>1. k = ReaderOf("row", n, <<>>, <<>>, Closed(g))
        BY <1>1, <1>2, <1>3, <2>3, PastUnquoted
      <3> QED BY <1>2, <1>3, <2>1, <3>1 DEF BehindRow
    <2> QED BY <2>2, <2>3
  <1>4. CASE Byte(p) = CarriageReturn
    <2>1. k = ReaderOf("return", n, <<>>, <<>>, Closed(g)) /\ k \in Reader
      BY <1>1, <1>2, <1>4, PastUnquoted, PastType
    <2>2. ASSUME LineFeedFollows(p)
          PROVE  Past(k, p.in[p.at + 1], n + 1) = ReaderOf("row", n + 1, <<>>, <<>>, Closed(g))
      <3>1. p.in[p.at + 1] = NewLine
        BY <2>2 DEF LineFeedFollows
      <3>2. k.mode = "return" /\ k.value = <<>> /\ k.fields = <<>> /\ k.rows = Closed(g)
        BY <2>1 DEF ReaderOf
      <3>3. n + 1 \in Nat
        OBVIOUS
      <3> HIDE DEF k
      <3>4. Past(k, NewLine, n + 1) = ReaderOf("row", n + 1, k.value, k.fields, k.rows)
        BY <2>1, <3>2, <3>3, PastUnquoted, SpecialBytes
      <3> QED BY <3>1, <3>2, <3>4
    <2> QED BY <1>2, <1>4, <2>1, <2>2 DEF BehindRow
  <1> QED BY <1>3, <1>4 DEF RowEnds

\* The row is over: the parser has a row more, and nothing of the next one.
LEMMA RowEndCarries ==
    ASSUME NEW a \in Nat, NEW p \in Parser, NEW g \in Reader, Tidy(g), Beside(p, g),
           p.at <= Len(p.in), p.state = Clean, Byte(p) \in RowEnds
    PROVE  LET q == Step(p)
               h == BehindRow(p, g, a + p.at)
           IN  /\ q \in Parser /\ q.in = p.in
               /\ q.at = (IF LineFeedFollows(p) THEN p.at + 2 ELSE p.at + 1) /\ q.row = q.at
               /\ q.rows = Append(p.rows, RowDone(p)) /\ RowDone(p) \in ParsedRow
               /\ h.rows = Closed(g)
               /\ Beside(q, h) /\ Content(a, q, h)
               /\ Content(a, p, g) =>
                    RowDone(p).fields = IF g.mode \in BetweenRows THEN <<>> ELSE Append(g.fields, g.value)
  <1> DEFINE q == Step(p)
             h == BehindRow(p, g, a + p.at)
             width == IF LineFeedFollows(p) THEN 2 ELSE 1
             state == IF Byte(p) = CarriageReturn /\ p.at = Len(p.in) THEN Returned ELSE Clean
             rs == Append(p.rows, RowDone(p))
             mode == IF Byte(p) = CarriageReturn /\ ~LineFeedFollows(p) THEN "return" ELSE "row"
  <1>1. /\ p.in \in Value /\ p.at \in Nat /\ p.state \in States /\ p.start \in Nat /\ p.length \in Nat
        /\ p.doubled \in BOOLEAN /\ p.fields \in Row /\ p.row \in Nat /\ p.rows \in Seq(ParsedRow)
    BY ParserIs
  <1>2. Len(p.in) \in Nat /\ p.at \in 1..Len(p.in) /\ p.row \in 1..p.at
    BY LengthOfIn DEF Beside, Position
  <1>n. p.at \in Nat /\ p.row \in Nat
    BY <1>1
  <1>3. Field(p) \in Value
    BY FieldType
  <1>4. RowDone(p) \in ParsedRow /\ \E d \in BOOLEAN :
            q = ParserOf(p.in, p.at + width, state, 0, 0, d, <<>>, p.at + width, rs)
    BY <1>2, <1>3, RowEndIs
  <1>5. PICK d \in BOOLEAN : q = ParserOf(p.in, p.at + width, state, 0, 0, d, <<>>, p.at + width, rs)
    BY <1>4
  <1>6. h = ReaderOf(mode, a + p.at + width - 1, <<>>, <<>>, Closed(g))
    <2>1. a + p.at \in Nat /\ a + p.at + 2 - 1 = a + p.at + 1 /\ a + p.at + 1 - 1 = a + p.at
      BY <1>n
    <2>2. LineFeedFollows(p) => Byte(p) # NewLine
      BY SpecialBytes DEF LineFeedFollows
    <2>3. Byte(p) = NewLine \/ Byte(p) = CarriageReturn
      BY DEF RowEnds
    <2>4. CASE LineFeedFollows(p)
      BY <2>1, <2>4, BehindRowIs
    <2>5. CASE ~LineFeedFollows(p) /\ Byte(p) = CarriageReturn
      BY <2>1, <2>5, BehindRowIs
    <2>6. CASE ~LineFeedFollows(p) /\ Byte(p) # CarriageReturn
      BY <2>1, <2>3, <2>6, BehindRowIs
    <2> QED BY <2>4, <2>5, <2>6
  <1>7. /\ width \in {1, 2} /\ width \in Nat
        /\ LineFeedFollows(p) => width = 2 /\ p.at < Len(p.in) /\ p.in[p.at + 1] = NewLine
        /\ ~LineFeedFollows(p) => width = 1
    BY DEF LineFeedFollows
  <1>8. /\ state = Returned => p.at = Len(p.in) /\ Byte(p) = CarriageReturn
        /\ state \in {Clean, Returned}
        /\ mode \in {"row", "return"}
        /\ mode = "return" <=> Byte(p) = CarriageReturn /\ ~LineFeedFollows(p)
        /\ mode = "return" /\ state # Returned => Byte(p) = CarriageReturn /\ ~LineFeedFollows(p) /\ p.at # Len(p.in)
        /\ p.at = Len(p.in) => ~LineFeedFollows(p)
    BY <1>2, <1>n, StatesDiffer DEF LineFeedFollows
  <1> HIDE DEF q, h, width, state, mode
  <1>9. /\ q.in = p.in /\ q.at = p.at + width /\ q.state = state /\ q.start = 0 /\ q.length = 0
        /\ q.fields = <<>> /\ q.row = p.at + width /\ q.rows = rs
    <2> HIDE DEF rs
    <2> QED BY <1>5 DEF ParserOf
  <1>10. q \in Parser
    <2>1. rs \in Seq(ParsedRow)
      BY <1>1, <1>4, AppendProperties
    <2> HIDE DEF rs
    <2>2. p.at + width \in Nat /\ 0 \in Nat /\ state \in States /\ <<>> \in Row
      BY <1>n, <1>7, <1>8 DEF States, Row
    <2> QED BY <1>1, <1>5, <2>1, <2>2, ParserOfType
  <1>11. /\ h.mode = mode /\ h.from = a + p.at + width - 1 /\ h.value = <<>> /\ h.fields = <<>>
         /\ h.rows = Closed(g)
    BY <1>6 DEF ReaderOf
  <1>12. mode \in BetweenRows /\ ~Literal(q, h)
    BY <1>8, <1>11 DEF BetweenRows, Literal
  <1>13. Position(q, h)
    <2>1. q.at \in 1..(Len(q.in) + 1) /\ q.row \in 1..q.at
      BY <1>2, <1>n, <1>7, <1>9
    <2>2. q.state # Doubtful /\ q.state # Quoted
      BY <1>8, <1>9, StatesDiffer
    <2>3. q.state = Returned => h.mode = "return" /\ q.at = Len(q.in) + 1
      BY <1>2, <1>n, <1>7, <1>8, <1>9, <1>11
    <2>4. h.mode = "return" /\ q.state # Returned => q.at <= Len(q.in) /\ q.in[q.at] # NewLine
      <3>1. ASSUME h.mode = "return", q.state # Returned PROVE q.at <= Len(q.in) /\ q.in[q.at] # NewLine
        <4>1. Byte(p) = CarriageReturn /\ ~LineFeedFollows(p) /\ p.at # Len(p.in)
          BY <1>8, <1>9, <1>11, <3>1
        <4>2. q.at = p.at + 1 /\ p.at < Len(p.in)
          BY <1>2, <1>n, <1>7, <1>9, <4>1
        <4>3. p.in[p.at + 1] # NewLine
          BY <4>1, <4>2 DEF LineFeedFollows
        <4> QED BY <1>2, <1>n, <1>9, <4>2, <4>3
      <3> QED BY <3>1
    <2>5. h.mode # "quoted" /\ h.mode # "quote" /\ h.mode \in BetweenRows
      BY <1>8, <1>11, <1>12
    <2> QED BY <2>1, <2>2, <2>3, <2>4, <2>5 DEF Position
  <1>14. Width(q, h)
    <2>1. q.row + 0 <= q.at + 0
      BY <1>n, <1>7, <1>9
    <2> QED BY <1>9, <1>12, <2>1 DEF Width
  <1>15. Content(a, q, h)
    <2>1. h.from = a + q.row - 1
      <3>1. a + p.at + width - 1 = a + (p.at + width) - 1
        BY <1>n, <1>7
      <3> QED BY <1>9, <1>11, <3>1
    <2>2. q.in[q.at - 1] \in RowEnds
      <3>1. CASE LineFeedFollows(p)
        <4>1. q.at - 1 = p.at + 1
          BY <1>n, <1>7, <1>9, <3>1
        <4> QED BY <1>7, <1>9, <3>1, <4>1 DEF RowEnds
      <3>2. CASE ~LineFeedFollows(p)
        <4>1. q.at - 1 = p.at
          BY <1>n, <1>7, <1>9, <3>2
        <4> QED BY <1>9, <4>1 DEF Byte
      <3> QED BY <3>1, <3>2
    <2>3. h.mode # "field" /\ h.mode # "quoted" /\ h.mode # "quote" /\ h.mode # "plain"
      BY <1>8, <1>11
    <2> QED BY <1>9, <1>11, <2>1, <2>2, <2>3 DEF Content
  <1>16. ASSUME Content(a, p, g)
         PROVE  RowDone(p).fields = IF g.mode \in BetweenRows THEN <<>> ELSE Append(g.fields, g.value)
    <2>a. ~Literal(p, g)
      BY StatesDiffer DEF Literal
    <2>1. Field(p) = g.value /\ p.fields = g.fields
      BY <1>16, <2>a, FieldIs DEF Content
    <2>2. RowDone(p).fields = IF Begun(p) THEN Append(g.fields, g.value) ELSE <<>>
      BY <2>1 DEF RowDone
    <2>3. CASE g.mode \in BetweenRows
      <3>1. p.start = 0 /\ p.length = 0 /\ p.fields = <<>>
        BY <2>1, <2>3 DEF Beside, Width, Tidy
      <3> QED BY <2>2, <2>3, <3>1 DEF Begun
    <2>4. CASE g.mode \notin BetweenRows
      <3>1. g.mode \in {"field", "plain", "quote"}
        BY <2>4, StatesDiffer, ReaderIs DEF Beside, Position, Modes, BetweenRows
      <3>2. Begun(p)
        BY <1>16, <2>1, <3>1 DEF Begun, Content, Tidy
      <3> QED BY <2>2, <2>4, <3>2
    <2> QED BY <2>3, <2>4
  <1>17. q.at = (IF LineFeedFollows(p) THEN p.at + 2 ELSE p.at + 1) /\ q.row = q.at
    BY <1>7, <1>9
  <1> QED BY <1>4, <1>9, <1>10, <1>11, <1>13, <1>14, <1>15, <1>16, <1>17 DEF Beside, q, h

-----------------------------------------------------------------------------
(* The rows of a chunk.                                                    *)

\* The fields of no row, and of one row more.
LEMMA FieldsOfIs ==
    /\ FieldsOf(<<>>) = <<>>
    /\ \A rs \in Seq(ParsedRow) : FieldsOf(rs) \in Seq(Row)
    /\ \A rs \in Seq(ParsedRow), r \in ParsedRow : FieldsOf(Append(rs, r)) = Append(FieldsOf(rs), r.fields)
  <1>1. FieldsOf(<<>>) = <<>>
    BY DEF FieldsOf
  <1>2. \A r \in ParsedRow : r.fields \in Row
    BY DEF ParsedRow
  <1>3. ASSUME NEW rs \in Seq(ParsedRow)
        PROVE  FieldsOf(rs) \in Seq(Row) /\ Len(FieldsOf(rs)) = Len(rs) /\ Len(rs) \in Nat
               /\ \A n \in 1..Len(rs) : FieldsOf(rs)[n] = rs[n].fields
    <2>1. FieldsOf(rs) = [n \in 1..Len(rs) |-> rs[n].fields] /\ Len(rs) \in Nat
      BY DEF FieldsOf
    <2>2. \A n \in 1..Len(rs) : rs[n] \in ParsedRow
      BY <1>3
    <2>3. \A n \in 1..Len(rs) : rs[n].fields \in Row
      BY <1>2, <2>2
    <2> HIDE DEF ParsedRow
    <2> QED BY <2>1, <2>3
  <1>4. ASSUME NEW rs \in Seq(ParsedRow), NEW r \in ParsedRow
        PROVE  FieldsOf(Append(rs, r)) = Append(FieldsOf(rs), r.fields)
    <2> DEFINE t == Append(rs, r)
               f == FieldsOf(rs)
               g == FieldsOf(t)
    <2>1. t \in Seq(ParsedRow) /\ Len(t) = Len(rs) + 1 /\ t[Len(rs) + 1] = r
          /\ \A n \in 1..Len(rs) : t[n] = rs[n]
      BY AppendProperties
    <2> HIDE DEF t
    <2>2. f \in Seq(Row) /\ Len(f) = Len(rs) /\ Len(rs) \in Nat /\ \A n \in 1..Len(rs) : f[n] = rs[n].fields
      BY <1>3
    <2>3. g \in Seq(Row) /\ Len(g) = Len(rs) + 1 /\ \A n \in 1..(Len(rs) + 1) : g[n] = t[n].fields
      BY <1>3, <2>1
    <2> HIDE DEF f, g
    <2> DEFINE x == Append(f, r.fields)
    <2>4. x \in Seq(Row) /\ Len(x) = Len(rs) + 1 /\ x[Len(rs) + 1] = r.fields
          /\ \A n \in 1..Len(rs) : x[n] = rs[n].fields
      BY <1>2, <2>2, AppendProperties
    <2> HIDE DEF x
    <2>5. \A n \in 1..(Len(rs) + 1) : g[n] = x[n]
      <3>1. ASSUME NEW n \in 1..(Len(rs) + 1) PROVE g[n] = x[n]
        <4>1. n \in 1..Len(rs) \/ n = Len(rs) + 1
          BY <2>2
        <4> QED BY <2>1, <2>3, <2>4, <4>1
      <3> QED BY <3>1
    <2>6. g = x
      BY <2>3, <2>4, <2>5
    <2> QED BY <2>6 DEF g, x, f, t
  <1> QED BY <1>1, <1>3, <1>4

\* A row with one field more has fields.
LEMMA FieldsAppended ==
    ASSUME NEW x \in Row, NEW y \in Value
    PROVE  Append(x, y) # <<>>
  <1>1. Len(Append(x, y)) = Len(x) + 1 /\ Len(x) \in Nat
    BY AppendProperties DEF Row
  <1> DEFINE z == Append(x, y)
  <1>2. Len(z) # 0
    BY <1>1
  <1> HIDE DEF z
  <1>3. z # <<>>
    BY <1>2
  <1> QED BY <1>3 DEF z

\* A row more.
LEMMA JoinRow ==
    ASSUME NEW base \in Seq(Row), NEW rs \in Seq(ParsedRow), NEW r \in ParsedRow, NEW g \in Reader,
           g.rows = base \o WithFields(FieldsOf(rs)),
           r.fields = IF g.mode \in BetweenRows THEN <<>> ELSE Append(g.fields, g.value)
    PROVE  Closed(g) = base \o WithFields(FieldsOf(Append(rs, r)))
  <1> DEFINE fs == FieldsOf(rs)
             w == WithFields(fs)
             v == WithFields(Append(fs, r.fields))
  <1>1. fs \in Seq(Row) /\ FieldsOf(Append(rs, r)) = Append(fs, r.fields)
    BY FieldsOfIs
  <1>2. r.fields \in Row
    BY DEF ParsedRow
  <1> HIDE DEF fs
  <1>3. w \in Seq(Row)
    BY <1>1, WithFieldsJoin
  <1>4. v = IF r.fields = <<>> THEN w ELSE Append(w, r.fields)
    BY <1>1, <1>2, WithFieldsAppend
  <1>5. g.rows = base \o w
    BY DEF fs
  <1> HIDE DEF v, w
  <1>6. CASE g.mode \in BetweenRows
    <2>1. v = w /\ Closed(g) = g.rows
      BY <1>4, <1>6 DEF Closed
    <2>2. Closed(g) = base \o v
      BY <1>5, <2>1
    <2> QED BY <1>1, <2>2 DEF v
  <1>7. CASE g.mode \notin BetweenRows
    <2>1. r.fields = Append(g.fields, g.value) /\ g.fields \in Row /\ g.value \in Value
      BY <1>7, ReaderIs
    <2>2. r.fields # <<>>
      BY <2>1, FieldsAppended
    <2>3. v = Append(w, r.fields) /\ Closed(g) = Append(g.rows, r.fields)
      BY <1>4, <1>7, <2>1, <2>2 DEF Closed
    <2>4. base \o Append(w, r.fields) = Append(base \o w, r.fields)
      BY <1>2, <1>3, AppendJoin
    <2>5. Closed(g) = base \o v
      BY <1>5, <2>3, <2>4, Zenon
    <2> QED BY <1>1, <2>5 DEF v
  <1> QED BY <1>6, <1>7

\* The first of some rows and the others, with one row more.
LEMMA RowsAppended ==
    ASSUME NEW rs \in Seq(ParsedRow), NEW r \in ParsedRow
    PROVE  /\ Append(rs, r) \in Seq(ParsedRow) /\ Append(rs, r) # <<>>
           /\ rs = <<>> => Append(rs, r)[1] = r /\ Tail(Append(rs, r)) = <<>>
           /\ rs # <<>> => /\ Append(rs, r)[1] = rs[1] /\ rs[1] \in ParsedRow
                           /\ Tail(rs) \in Seq(ParsedRow)
                           /\ Tail(Append(rs, r)) = Append(Tail(rs), r)
  <1>1. /\ Append(rs, r) \in Seq(ParsedRow) /\ Len(Append(rs, r)) = Len(rs) + 1 /\ Len(rs) \in Nat
        /\ Append(rs, r)[Len(rs) + 1] = r
        /\ \A n \in 1..Len(rs) : Append(rs, r)[n] = rs[n]
    BY AppendProperties
  <1>2. Append(rs, r) # <<>>
    BY <1>1
  <1>3. CASE rs = <<>>
    <2>1. Append(rs, r) = <<r>>
      BY <1>3
    <2>2. Tail(<<r>>) = <<>>
      OBVIOUS
    <2> QED BY <1>1, <1>2, <1>3, <2>1, <2>2
  <1>4. CASE rs # <<>>
    <2>1. Len(rs) >= 1 /\ 1 \in 1..Len(rs)
      BY <1>1, <1>4
    <2>2. rs[1] \in ParsedRow /\ Append(rs, r)[1] = rs[1]
      BY <1>1, <2>1
    <2> HIDE DEF ParsedRow
    <2>3. Tail(rs) \in Seq(ParsedRow)
      BY <1>4
    <2>4. Tail(Append(rs, r)) = Append(Tail(rs), r)
      BY <1>4
    <2> QED BY <1>1, <1>2, <1>4, <2>2, <2>3, <2>4
  <1> QED BY <1>3, <1>4

-----------------------------------------------------------------------------
(* A chunk of a text.                                                      *)

\* The bytes of `in` are those of the text behind the first a.
PartOf(text, a, in) ==
    /\ a \in Nat /\ in \in Value /\ a + Len(in) <= Len(text)
    /\ \A i \in 1..Len(in) : in[i] = text[a + i]

\* The reader at the place of the parser.
At(D, a, p) == D[a + p.at - 1]

\* Of a chunk that does not begin with a row, the first row is the rest of one.
RowsAfter(D, a, whole, p, g) ==
    /\ whole => g.rows = D[a].rows \o WithFields(FieldsOf(p.rows))
    /\ ~whole /\ p.rows = <<>> => g.rows = D[a].rows /\ g.from = D[a].from /\ p.row = 1
    /\ ~whole /\ p.rows # <<>> =>
           LET e == D[a + p.rows[1].upto - 1]
           IN  /\ p.rows[1].from = 1 /\ p.rows[1].upto \in 1..(p.row - 1)
               /\ e.from = D[a].from
               /\ g.rows = Closed(e) \o WithFields(FieldsOf(Tail(p.rows)))

\* The parser has begun the row it is in.
Own(whole, p) == whole \/ p.rows # <<>>

\* The parser of a chunk is where the reader is.
Sim(D, a, whole, in, p) ==
    /\ p \in Parser /\ p.in = in
    /\ Beside(p, At(D, a, p))
    /\ Own(whole, p) => Content(a, p, At(D, a, p))
    /\ RowsAfter(D, a, whole, p, At(D, a, p))

\* While the row goes on, the parser stays where the reader is.
LEMMA SimCarries ==
    ASSUME NEW text, NEW D, ReadBy(text, D), NEW a, NEW in, PartOf(text, a, in), NEW whole \in BOOLEAN,
           NEW p, Sim(D, a, whole, in, p), NEW q, Carries(a, p, At(D, a, p), q, At(D, a, q))
    PROVE  Sim(D, a, whole, in, q)
  <1> DEFINE g == At(D, a, p)
             h == At(D, a, q)
  <1>1. /\ q \in Parser /\ q.in = p.in /\ q.row = p.row /\ q.rows = p.rows
        /\ h.from = g.from /\ h.rows = g.rows
        /\ Beside(q, h)
        /\ Content(a, p, g) => Content(a, q, h)
    BY DEF Carries
  <1>2. p.in = in /\ (Own(whole, p) => Content(a, p, g)) /\ RowsAfter(D, a, whole, p, g)
    BY DEF Sim
  <1> HIDE DEF g, h
  <1>3. Own(whole, q) => Content(a, q, h)
    BY <1>1, <1>2 DEF Own
  <1>4. RowsAfter(D, a, whole, q, h)
    BY <1>1, <1>2 DEF RowsAfter
  <1> QED BY <1>1, <1>2, <1>3, <1>4 DEF Sim, h

\* Where the parser is, there is a reader; the next byte is the one that reader reads.
LEMMA ReaderThere ==
    ASSUME NEW text, NEW D, ReadBy(text, D), NEW a, NEW in, PartOf(text, a, in),
           NEW at \in Nat, at \in 1..(Len(in) + 1)
    PROVE  /\ a + at - 1 \in 0..Len(text) /\ a \in 0..Len(text)
           /\ D[a + at - 1] \in Reader /\ Tidy(D[a + at - 1])
           /\ D[a + at - 1].mode \in BetweenRows => D[a + at - 1].from = a + at - 1
           /\ at <= Len(in) =>
                /\ in[at] \in Bytes
                /\ D[a + at] = Past(D[a + at - 1], in[at], a + at)
                /\ D[a + at - 1].mode = "plain" => in[at] # QuoteChar
  <1> DEFINE k == a + at - 1
  <1>1. a \in Nat /\ Len(in) \in Nat /\ Len(text) \in Nat /\ a + Len(in) <= Len(text)
        /\ \A i \in 1..Len(in) : in[i] = text[a + i]
    <2>1. in \in Value
      BY DEF PartOf
    <2>2. Len(in) \in Nat
      BY <2>1 DEF Value
    <2> QED BY <2>2, ReaderSteps DEF PartOf
  <1>2. k \in 0..Len(text) /\ a \in 0..Len(text)
    BY <1>1
  <1>3. at <= Len(in) => at \in 1..Len(in) /\ k + 1 \in 1..Len(text) /\ k + 1 = a + at /\ (k + 1) - 1 = k
    BY <1>1
  <1> HIDE DEF k
  <1>4. D[k] \in Reader /\ Sound(D, k)
    BY <1>2, ReaderSteps, ReaderSound
  <1>5. Tidy(D[k]) /\ (D[k].mode \in BetweenRows => D[k].from = k)
    BY <1>4 DEF Tidy, Sound
  <1>6. ASSUME at <= Len(in)
        PROVE  /\ in[at] \in Bytes
               /\ D[a + at] = Past(D[k], in[at], a + at)
               /\ D[k].mode = "plain" => in[at] # QuoteChar
    <2>1. in[at] = text[k + 1]
      BY <1>1, <1>3, <1>6
    <2>2. /\ text[k + 1] \in Bytes /\ D[k + 1] = Past(D[k], text[k + 1], k + 1)
          /\ D[k].mode = "plain" => text[k + 1] # QuoteChar
      BY <1>3, <1>6, ReaderSteps
    <2> QED BY <1>3, <1>6, <2>1, <2>2
  <1> QED BY <1>2, <1>4, <1>5, <1>6 DEF k

\* The end of a row.
LEMMA SimRowEnd ==
    ASSUME NEW text, NEW D, ReadBy(text, D), NEW a, NEW in, PartOf(text, a, in), NEW whole \in BOOLEAN,
           NEW p, Sim(D, a, whole, in, p), p.at <= Len(in), p.state = Clean, Byte(p) \in RowEnds
    PROVE  Sim(D, a, whole, in, Step(p)) /\ Step(p).at > p.at
  <1> DEFINE q == Step(p)
             g == At(D, a, p)
             h == At(D, a, q)
             r == RowDone(p)
  <1>1. p \in Parser /\ p.in = in /\ Beside(p, g) /\ (Own(whole, p) => Content(a, p, g))
        /\ RowsAfter(D, a, whole, p, g)
    BY DEF Sim
  <1>2. p.at \in Nat /\ p.row \in Nat /\ p.rows \in Seq(ParsedRow) /\ Len(in) \in Nat /\ p.at \in 1..Len(in) /\ p.row \in 1..p.at
    BY <1>1, ParserIs, LengthOfIn DEF Beside, Position
  <1>3. a \in Nat /\ a \in 0..Len(text)
    BY <1>2, ReaderThere DEF PartOf
  <1>4. g \in Reader /\ Tidy(g) /\ D[a + p.at] = Past(g, Byte(p), a + p.at)
    BY <1>1, <1>2, ReaderThere DEF At, Byte
  <1>5. /\ q \in Parser /\ q.in = p.in
        /\ q.at = (IF LineFeedFollows(p) THEN p.at + 2 ELSE p.at + 1) /\ q.row = q.at
        /\ q.rows = Append(p.rows, r) /\ r \in ParsedRow
    BY <1>1, <1>2, <1>3, <1>4, RowEndCarries
  <1>6. h = BehindRow(p, g, a + p.at)
    <2>1. CASE LineFeedFollows(p)
      <3>1. p.at + 1 \in Nat /\ p.at + 1 \in 1..(Len(in) + 1) /\ p.at + 1 <= Len(in)
            /\ a + (p.at + 1) - 1 = a + p.at /\ a + (p.at + 1) = a + p.at + 1 /\ a + (p.at + 2) - 1 = a + p.at + 1
        <4>1. p.at < Len(in)
          BY <1>1, <2>1 DEF LineFeedFollows
        <4>2. p.at \in Nat /\ Len(in) \in Nat /\ a \in Nat
          BY <1>2, <1>3
        <4> DEFINE i == p.at
                   l == Len(in)
        <4> HIDE DEF i, l
        <4>3. i < l /\ i \in Nat /\ l \in Nat
          BY <4>1, <4>2 DEF i, l
        <4>4. i + 1 \in Nat /\ i + 1 \in 1..(l + 1) /\ i + 1 <= l
          BY <4>3
        <4>5. a + (i + 1) - 1 = a + i /\ a + (i + 1) = a + i + 1 /\ a + (i + 2) - 1 = a + i + 1
          BY <4>2, <4>3
        <4> QED BY <4>4, <4>5 DEF i, l
      <3> DEFINE j == p.at + 1
      <3> HIDE DEF j
      <3>2. D[a + j] = Past(D[a + j - 1], in[j], a + j)
        BY <3>1, ReaderThere DEF j
      <3>3. D[a + p.at + 1] = Past(D[a + p.at], in[p.at + 1], a + p.at + 1)
        BY <3>1, <3>2 DEF j
      <3>4. h = D[a + p.at + 1]
        BY <1>5, <2>1, <3>1 DEF At
      <3> QED BY <1>1, <1>4, <2>1, <3>3, <3>4 DEF BehindRow
    <2>2. CASE ~LineFeedFollows(p)
      <3>1. a + (p.at + 1) - 1 = a + p.at
        BY <1>2, <1>3
      <3>2. h = D[a + p.at]
        BY <1>5, <2>2, <3>1 DEF At
      <3> QED BY <1>4, <2>2, <3>2 DEF BehindRow
    <2> QED BY <2>1, <2>2
  <1> HIDE DEF q, h, g
  <1>7. /\ h.rows = Closed(g)
        /\ Beside(q, h) /\ Content(a, q, h)
        /\ Content(a, p, g) => r.fields = IF g.mode \in BetweenRows THEN <<>> ELSE Append(g.fields, g.value)
    BY <1>1, <1>2, <1>3, <1>4, <1>6, RowEndCarries DEF q
  <1>8. r.from = p.row /\ r.upto = p.at
    BY DEF RowDone
  <1> HIDE DEF r
  <1>9. /\ q.rows \in Seq(ParsedRow) /\ q.rows # <<>>
        /\ p.rows = <<>> => q.rows[1] = r /\ Tail(q.rows) = <<>>
        /\ p.rows # <<>> => /\ q.rows[1] = p.rows[1] /\ p.rows[1] \in ParsedRow
                            /\ Tail(p.rows) \in Seq(ParsedRow)
                            /\ Tail(q.rows) = Append(Tail(p.rows), r)
    <2>1. p.rows \in Seq(ParsedRow) /\ r \in ParsedRow /\ q.rows = Append(p.rows, r)
      BY <1>2, <1>5
    <2>2. p.rows = <<>> => Append(p.rows, r)[1] = r /\ Tail(Append(p.rows, r)) = <<>>
      BY <2>1, RowsAppended
    <2>3. p.rows # <<>> => /\ Append(p.rows, r)[1] = p.rows[1] /\ p.rows[1] \in ParsedRow
                           /\ Tail(p.rows) \in Seq(ParsedRow)
                           /\ Tail(Append(p.rows, r)) = Append(Tail(p.rows), r)
      BY <2>1, RowsAppended
    <2>4. Append(p.rows, r) \in Seq(ParsedRow) /\ Append(p.rows, r) # <<>>
      BY <2>1, RowsAppended
    <2> QED BY <2>1, <2>2, <2>3, <2>4
  <1>10. q.at > p.at /\ q.at \in Nat
    BY <1>2, <1>5
  <1>11. RowsAfter(D, a, whole, q, h)
    <2>1. CASE whole
      <3>1. Content(a, p, g) /\ g.rows = D[a].rows \o WithFields(FieldsOf(p.rows))
        BY <1>1, <2>1 DEF Own, RowsAfter
      <3>2. D[a].rows \in Seq(Row)
        BY <1>3, ReaderSteps, ReaderIs
      <3>3. Closed(g) = D[a].rows \o WithFields(FieldsOf(Append(p.rows, r)))
        BY <1>2, <1>4, <1>5, <1>7, <3>1, <3>2, JoinRow
      <3> QED BY <1>5, <1>7, <2>1, <3>3 DEF RowsAfter
    <2>2. CASE ~whole /\ p.rows = <<>>
      <3>1. g.rows = D[a].rows /\ g.from = D[a].from /\ p.row = 1
        BY <1>1, <2>2 DEF RowsAfter
      <3>2. q.rows[1] = r /\ Tail(q.rows) = <<>>
        BY <1>9, <2>2
      <3>3. q.rows[1].from = 1 /\ q.rows[1].upto = p.at /\ p.at \in 1..(q.row - 1)
        BY <1>2, <1>5, <1>8, <1>10, <3>1, <3>2
      <3>4. D[a + p.at - 1] = g
        BY DEF g, At
      <3>5. WithFields(FieldsOf(<<>>)) = <<>>
        BY FieldsOfIs, WithFieldsNone
      <3>6. Closed(g) \o <<>> = Closed(g)
        <4>1. Closed(g) \in Seq(Row)
          BY <1>4, ClosedGrows
        <4> QED BY <4>1, ConcatEmptySeq
      <3> QED BY <1>7, <1>9, <2>2, <3>1, <3>2, <3>3, <3>4, <3>5, <3>6 DEF RowsAfter
    <2>3. CASE ~whole /\ p.rows # <<>>
      <3> DEFINE e == D[a + p.rows[1].upto - 1]
      <3>1. /\ p.rows[1].from = 1 /\ p.rows[1].upto \in 1..(p.row - 1)
            /\ e.from = D[a].from
            /\ g.rows = Closed(e) \o WithFields(FieldsOf(Tail(p.rows)))
        BY <1>1, <2>3 DEF RowsAfter
      <3>2. Content(a, p, g)
        BY <1>1, <2>3 DEF Own
      <3>3. p.rows[1].upto \in Nat /\ p.rows[1].upto \in 1..(Len(in) + 1) /\ p.rows[1].upto \in 1..(q.row - 1)
        <4>1. p.row \in Nat /\ p.at \in Nat /\ q.row \in Nat /\ Len(in) \in Nat
              /\ p.row <= p.at /\ p.at <= Len(in) /\ p.at < q.row
          BY <1>2, <1>5, <1>10
        <4>2. ASSUME NEW i \in Nat, NEW j \in Nat, NEW k \in Nat, NEW l \in Nat, NEW u \in 1..(i - 1),
                     i <= j, j <= l, j < k
              PROVE  u \in Nat /\ u \in 1..(l + 1) /\ u \in 1..(k - 1)
          BY <4>2
        <4>3. p.rows[1].upto \in 1..(p.row - 1)
          BY <3>1
        <4> QED BY <4>1, <4>2, <4>3
      <3>4. e \in Reader
        BY <3>3, ReaderThere
      <3> HIDE DEF e
      <3>5. Closed(e) \in Seq(Row)
        BY <3>4, ClosedGrows
      <3>6. Closed(g) = Closed(e) \o WithFields(FieldsOf(Append(Tail(p.rows), r)))
        BY <1>4, <1>5, <1>7, <1>9, <2>3, <3>1, <3>2, <3>5, JoinRow
      <3>7. q.rows[1] = p.rows[1] /\ Tail(q.rows) = Append(Tail(p.rows), r)
        BY <1>9, <2>3
      <3> QED BY <1>7, <1>9, <2>3, <3>1, <3>3, <3>6, <3>7 DEF RowsAfter, e
    <2> QED BY <2>1, <2>2, <2>3
  <1> QED BY <1>1, <1>5, <1>7, <1>10, <1>11 DEF Sim, q, h, g

\* A round of the loop.
LEMMA SimStep ==
    ASSUME NEW text, NEW D, ReadBy(text, D), NEW a, NEW in, PartOf(text, a, in), NEW whole \in BOOLEAN,
           NEW p, Sim(D, a, whole, in, p), p.at <= Len(in), p.state # Doubtful
    PROVE  Sim(D, a, whole, in, Step(p)) /\ (Step(p).at > p.at \/ Step(p).state = Doubtful)
  <1> DEFINE q == Step(p)
             g == At(D, a, p)
             b == Byte(p)
  <1>1. p \in Parser /\ p.in = in /\ Beside(p, g)
    BY DEF Sim
  <1>2. p.at \in Nat /\ Len(in) \in Nat /\ p.at \in 1..Len(in) /\ p.at \in 1..(Len(in) + 1) /\ p.state \in States
    BY <1>1, ParserIs, LengthOfIn DEF Beside, Position
  <1>3. a \in Nat /\ a + p.at \in Nat
    BY <1>2 DEF PartOf
  <1>4. /\ g \in Reader /\ Tidy(g) /\ b \in Bytes /\ D[a + p.at] = Past(g, b, a + p.at)
        /\ g.mode = "plain" => b # QuoteChar
    BY <1>1, <1>2, ReaderThere DEF At, Byte
  <1>5. p.state = Clean \/ p.state = Quoted
    BY <1>1, <1>2 DEF States, Beside, Position
  <1>6. ASSUME NEW r, Carries(a, p, g, r, Past(g, b, a + p.at)), r.at = p.at + 1
        PROVE  Sim(D, a, whole, in, r) /\ r.at > p.at
    <2>1. a + (p.at + 1) - 1 = a + p.at /\ p.at + 1 > p.at
      BY <1>2, <1>3
    <2>2. At(D, a, r) = Past(g, b, a + p.at)
      BY <1>4, <1>6, <2>1 DEF At
    <2> HIDE DEF b
    <2> QED BY <1>3, <1>6, <2>1, <2>2, SimCarries
  <1> HIDE DEF q
  <1>7. CASE b # QuoteChar /\ (p.state = Clean => b \notin FieldEnds)
    BY <1>1, <1>2, <1>3, <1>4, <1>5, <1>6, <1>7, ByteCarries DEF q
  <1>8. CASE p.state = Clean /\ b = QuoteChar
    BY <1>1, <1>2, <1>3, <1>4, <1>6, <1>8, OpeningCarries DEF q
  <1>9. CASE p.state = Clean /\ b = Delimiter
    BY <1>1, <1>2, <1>3, <1>4, <1>6, <1>9, DelimiterCarries DEF q
  <1>10. CASE p.state = Clean /\ b \in RowEnds
    BY <1>10, SimRowEnd DEF q
  <1>11. CASE p.state = Quoted /\ b = QuoteChar
    <2>1. CASE p.at = Len(in)
      <3>1. Carries(a, p, g, q, g) /\ q.at = p.at /\ q.state = Doubtful
        BY <1>1, <1>3, <1>4, <1>11, <2>1, DoubtCarries DEF q
      <3>2. At(D, a, q) = g
        BY <3>1 DEF At
      <3> QED BY <3>1, <3>2, SimCarries DEF q
    <2>2. CASE p.at # Len(in)
      <3> DEFINE j == p.at + 1
                 c == in[j]
      <3>1. p.at < Len(in) /\ j \in Nat /\ j \in 1..(Len(in) + 1) /\ j <= Len(in)
            /\ a + j - 1 = a + p.at /\ a + j = (a + p.at) + 1
        BY <1>2, <1>3, <2>2
      <3> HIDE DEF j
      <3>2. c \in Bytes /\ D[a + j] = Past(D[a + j - 1], c, a + j)
        BY <3>1, ReaderThere
      <3>3. CASE c \in FieldEnds
        <4>1. p.in[p.at + 1] \in FieldEnds /\ p.at < Len(p.in)
          BY <1>1, <3>1, <3>3 DEF j
        <4> QED BY <1>1, <1>3, <1>4, <1>6, <1>11, <4>1, ClosingCarries DEF q
      <3>4. CASE c = QuoteChar
        <4>1. p.in[p.at + 1] = QuoteChar /\ p.at < Len(p.in)
          BY <1>1, <3>1, <3>4 DEF j
        <4>2. Carries(a, p, g, q, Past(Past(g, b, a + p.at), p.in[p.at + 1], a + p.at + 1)) /\ q.at = p.at + 2
          BY <1>1, <1>3, <1>4, <1>11, <4>1, PairCarries DEF q
        <4>3. At(D, a, q) = D[a + j]
          <5>1. a + (p.at + 2) - 1 = a + j
            BY <1>2, <1>3 DEF j
          <5> QED BY <4>2, <5>1 DEF At
        <4>4. D[a + j] = Past(Past(g, b, a + p.at), p.in[p.at + 1], a + p.at + 1)
          BY <1>1, <1>4, <3>1, <3>2 DEF j
        <4>5. q.at > p.at
          BY <1>2, <4>2
        <4> QED BY <4>2, <4>3, <4>4, <4>5, SimCarries DEF q
      <3>5. CASE c \notin FieldEnds \cup {QuoteChar}
        <4>1. p.in[p.at + 1] \notin FieldEnds \cup {QuoteChar} /\ p.at < Len(p.in)
          BY <1>1, <3>1, <3>5 DEF j
        <4> QED BY <1>1, <1>3, <1>4, <1>6, <1>11, <4>1, LiteralCarries DEF q
      <3> QED BY <3>3, <3>4, <3>5
    <2> QED BY <2>1, <2>2
  <1>12. b \in FieldEnds => b = Delimiter \/ b \in RowEnds
    BY DEF FieldEnds
  <1> QED BY <1>5, <1>7, <1>8, <1>9, <1>10, <1>11, <1>12 DEF q

\* A round of the parser's loop keeps it where the reader is, and goes on until the end.
LEMMA SimRound ==
    ASSUME NEW text, NEW D, ReadBy(text, D), NEW a, NEW in, PartOf(text, a, in), NEW whole \in BOOLEAN,
           NEW p, Sim(D, a, whole, in, p)
    PROVE  /\ Sim(D, a, whole, in, Round(p))
           /\ p.at = Len(in) + 1 \/ p.state = Doubtful => Round(p) = p
           /\ p.at <= Len(in) /\ p.state # Doubtful => Round(p).at > p.at \/ Round(p).state = Doubtful
           /\ p.at \in 1..(Len(in) + 1) /\ Len(in) \in Nat
  <1>1. p \in Parser /\ p.in = in /\ Position(p, At(D, a, p))
    BY DEF Sim, Beside
  <1>2. p.at \in Nat /\ Len(in) \in Nat /\ p.at \in 1..(Len(in) + 1) /\ p.state \in States
    BY <1>1, ParserIs, LengthOfIn DEF Position
  <1>3. p.state.pending_quote <=> p.state = Doubtful
    BY <1>2, StateFlags DEF States
  <1>4. CASE p.at = Len(in) + 1 \/ p.state = Doubtful
    <2>1. p.at = Len(in) + 1 => p.at > Len(in)
      BY <1>2
    <2>2. Round(p) = p
      BY <1>1, <1>3, <1>4, <2>1 DEF Round, AtEnd
    <2> QED BY <1>2, <1>4, <2>2
  <1>5. CASE p.at # Len(in) + 1 /\ p.state # Doubtful
    <2>1. p.at <= Len(in) /\ ~(p.at > Len(in))
      BY <1>2, <1>5
    <2>2. Round(p) = Step(p)
      BY <1>1, <1>3, <1>5, <2>1 DEF Round, AtEnd
    <2>3. Sim(D, a, whole, in, Step(p)) /\ (Step(p).at > p.at \/ Step(p).state = Doubtful)
      BY <1>5, <2>1, SimStep
    <2> QED BY <1>2, <1>5, <2>2, <2>3
  <1> QED BY <1>4, <1>5

\* The loop, for as many rounds as the chunk has bytes.
LEMMA RoundsSim ==
    ASSUME NEW text, NEW D, ReadBy(text, D), NEW a, NEW in, PartOf(text, a, in), NEW whole \in BOOLEAN,
           NEW p, Sim(D, a, whole, in, p)
    PROVE  /\ Sim(D, a, whole, in, Run(p))
           /\ Run(p).at = Len(in) + 1 \/ Run(p).state = Doubtful
  <1> DEFINE N == Len(in)
             S == {q \in Parser : Sim(D, a, whole, in, q)}
             step == [n \in 1..N |-> [q \in S |-> Round(q)]]
  <1>1. N \in Nat /\ p \in S /\ p.in = in
    BY SimRound DEF Sim
  <1>2. \A q \in S : /\ Round(q) \in S
                     /\ q.at \in 1..(N + 1)
                     /\ q.at = N + 1 \/ q.state = Doubtful => Round(q) = q
                     /\ q.at <= N /\ q.state # Doubtful => Round(q).at > q.at \/ Round(q).state = Doubtful
    <2>1. ASSUME NEW q \in S PROVE Sim(D, a, whole, in, q)
      OBVIOUS
    <2>2. ASSUME NEW q, Sim(D, a, whole, in, q) PROVE q \in S
      BY <2>2 DEF Sim
    <2> HIDE DEF S
    <2> QED BY <2>1, <2>2, SimRound
  <1> HIDE DEF S
  <1>3. step \in [1..N -> [S -> S]]
    BY <1>2
  <1>4. \A n \in 1..N : \A q \in S : step[n][q] = Round(q)
    OBVIOUS
  <1> HIDE DEF step, N
  <1>5. PICK f : Iterates(f, N, S, p, step)
    BY <1>1, <1>3, Iterated
  <1>6. f \in [0..N -> S] /\ f[0] = p /\ \A n \in 1..N : f[n] = Round(f[n - 1])
    <2>1. f \in [0..N -> S] /\ f[0] = p /\ \A n \in 1..N : f[n] = step[n][f[n - 1]]
      BY <1>5 DEF Iterates
    <2>2. \A n \in 1..N : n - 1 \in 0..N
      BY <1>1
    <2> QED BY <1>4, <2>1, <2>2
  <1>7. f = [n \in 0..N |-> IF n = 0 THEN p ELSE Round(f[n - 1])]
    <2>1. \A n \in 0..N : f[n] = IF n = 0 THEN p ELSE Round(f[n - 1])
      <3>1. ASSUME NEW n \in 0..N, n # 0 PROVE n \in 1..N
        BY <1>1, <3>1
      <3> QED BY <1>6, <3>1
    <2> QED BY <1>6, <2>1
  <1> DEFINE r == Rounds(p)
  <1>8. r = [n \in 0..N |-> IF n = 0 THEN p ELSE Round(r[n - 1])]
    BY <1>1, <1>7 DEF Rounds, N
  <1> HIDE DEF r
  <1>9. r[0] = p /\ \A n \in 1..N : r[n] = Round(r[n - 1])
    <2>1. 0 \in 0..N /\ \A n \in 1..N : n \in 0..N /\ n # 0
      BY <1>1
    <2> QED BY <1>8, <2>1
  <1>10. r \in [0..N -> S]
    <2>1. r = [n \in 0..N |-> r[n]]
      BY <1>8
    <2>2. \A n \in 1..N : r[n - 1] \in S => r[n] \in S
      BY <1>2, <1>9
    <2> QED BY <1>1, <1>9, <2>1, <2>2, Stays
  <1> DEFINE T == {n \in 0..N : r[n].at >= n + 1 \/ r[n].state = Doubtful}
  <1>11. \A n \in 0..N : n \in T
    <2>1. 0 \in T
      <3>1. p.at \in 1..(N + 1)
        BY <1>1, <1>2
      <3>2. p.at >= 0 + 1 /\ 0 \in 0..N
        BY <1>1, <3>1
      <3> QED BY <1>9, <3>2
    <2>2. ASSUME NEW n \in 1..N, n - 1 \in T PROVE n \in T
      <3> DEFINE q == r[n - 1]
      <3>1. n - 1 \in 0..N /\ n \in 0..N /\ n \in Nat
        BY <1>1
      <3>2. q \in S /\ r[n] = Round(q) /\ r[n] \in S
        BY <1>9, <1>10, <3>1
      <3>3. q.at >= (n - 1) + 1 \/ q.state = Doubtful
        BY <2>2
      <3> HIDE DEF q
      <3>4. q.at \in 1..(N + 1) /\ r[n].at \in 1..(N + 1)
        BY <1>2, <3>2
      <3>5. CASE q.state = Doubtful
        BY <1>2, <3>1, <3>2, <3>5
      <3>6. CASE q.at = N + 1
        <4>1. N + 1 >= n + 1 /\ r[n].at = N + 1
          BY <1>1, <1>2, <3>2, <3>6
        <4> QED BY <3>1, <4>1
      <3>7. CASE q.at # N + 1 /\ q.state # Doubtful
        <4>1. q.at <= N /\ q.at >= n
          BY <1>1, <3>1, <3>3, <3>4, <3>7
        <4>2. r[n].at > q.at \/ r[n].state = Doubtful
          BY <1>2, <3>2, <3>7, <4>1
        <4>3. r[n].at > q.at => r[n].at >= n + 1
          BY <1>1, <3>1, <3>4, <4>1
        <4> QED BY <3>1, <4>2, <4>3
      <3> QED BY <3>5, <3>6, <3>7
    <2> HIDE DEF T
    <2> QED BY <1>1, <2>1, <2>2, UpTo
  <1>12. Run(p) = r[N]
    BY <1>1 DEF Run, r, N
  <1>13. N \in 0..N
    BY <1>1
  <1>14. r[N] \in S /\ (r[N].at >= N + 1 \/ r[N].state = Doubtful)
    BY <1>10, <1>11, <1>13
  <1>15. r[N].at \in 1..(N + 1)
    BY <1>2, <1>14
  <1>16. r[N].at >= N + 1 => r[N].at = N + 1
    BY <1>1, <1>15
  <1>17. Sim(D, a, whole, in, r[N])
    BY <1>14 DEF S
  <1> QED BY <1>12, <1>14, <1>16, <1>17 DEF N

-----------------------------------------------------------------------------
(* The beginning of a chunk.                                               *)

\* What a parser knows of a reader that is behind a chunk.
StateAfter(g) ==
    CASE g.mode = "quoted" -> Quoted
      [] g.mode = "quote"  -> Doubtful
      [] g.mode = "return" -> Returned
      [] OTHER             -> Clean

\* A chunk that begins with a row may begin with the line feed of the one before.
Starts(D, a, in, whole, s) ==
    /\ whole => D[a].mode \in BetweenRows /\ s \in {Clean, Returned}
    /\ ~whole => Len(in) # 0 /\ D[a].mode # "return" /\ s = StateAfter(D[a])

\* The state for each mode of the reader.
LEMMA StateAfterIs ==
    ASSUME NEW g \in Reader
    PROVE  /\ g.mode = "quoted" => StateAfter(g) = Quoted
           /\ g.mode = "quote" => StateAfter(g) = Doubtful
           /\ g.mode = "return" => StateAfter(g) = Returned
           /\ g.mode \in {"row", "field", "plain"} => StateAfter(g) = Clean
           /\ StateAfter(g) \in States
  BY ReaderIs DEF StateAfter, Modes, States

\* A parser without rows.
LEMMA SimWithout ==
    ASSUME NEW text, NEW D, ReadBy(text, D), NEW a, NEW in, PartOf(text, a, in), NEW whole \in BOOLEAN,
           NEW p \in Parser, p.in = in, p.rows = <<>>, NEW g, g = At(D, a, p), Beside(p, g),
           g.rows = D[a].rows,
           whole => Content(a, p, g),
           ~whole => g.from = D[a].from /\ p.row = 1
    PROVE  Sim(D, a, whole, in, p)
  <1>1. whole => g.rows = D[a].rows \o WithFields(FieldsOf(p.rows))
    <2>1. WithFields(FieldsOf(<<>>)) = <<>>
      BY FieldsOfIs, WithFieldsNone
    <2>2. D[a].rows \in Seq(Row)
      <3>1. 1 \in Nat /\ 1 \in 1..(Len(in) + 1)
        BY LengthOfIn
      <3> QED BY <3>1, ReaderThere, ReaderSteps, ReaderIs
    <2>3. D[a].rows \o <<>> = D[a].rows
      BY <2>2, ConcatEmptySeq
    <2> QED BY <2>1, <2>3
  <1>2. RowsAfter(D, a, whole, p, g)
    BY <1>1 DEF RowsAfter
  <1> QED BY <1>2 DEF Sim, Own

\* The parser in front of a chunk.
LEMMA BeginIs ==
    ASSUME NEW in \in Value, NEW s \in States
    PROVE  /\ Begin(in, s) = ParserOf(in, 1, s, 0, 0, FALSE, <<>>, 1, <<>>)
           /\ Begin(in, s) \in Parser
  <1>1. Begin(in, s) = ParserOf(in, 1, s, 0, 0, FALSE, <<>>, 1, <<>>)
    BY DEF Begin, ParserOf
  <1>2. <<>> \in Row /\ <<>> \in Seq(ParsedRow) /\ FALSE \in BOOLEAN /\ 0 \in Nat /\ 1 \in Nat
    BY DEF Row
  <1>3. ParserOf(in, 1, s, 0, 0, FALSE, <<>>, 1, <<>>) \in Parser
    BY <1>2, ParserOfType
  <1> QED BY <1>1, <1>3

\* What is pending at the beginning of a chunk that has a byte.
LEMMA ResolvedIs ==
    ASSUME NEW in \in Value, NEW s \in States
    PROVE  LET q == ResolveQuote(ResolveLinefeed(Begin(in, s)))
           IN  /\ Len(in) = 0 \/ s = Clean \/ s = Quoted =>
                    q = ParserOf(in, 1, s, 0, 0, FALSE, <<>>, 1, <<>>)
               /\ Len(in) # 0 /\ s = Returned /\ in[1] = NewLine =>
                    q = ParserOf(in, 2, Clean, 0, 0, FALSE, <<>>, 2, <<>>)
               /\ Len(in) # 0 /\ s = Returned /\ in[1] # NewLine =>
                    q = ParserOf(in, 1, Clean, 0, 0, FALSE, <<>>, 1, <<>>)
               /\ Len(in) # 0 /\ s = Doubtful /\ in[1] \in FieldEnds =>
                    q = ParserOf(in, 1, Clean, 0, 0, FALSE, <<>>, 1, <<>>)
               /\ Len(in) # 0 /\ s = Doubtful /\ in[1] = QuoteChar =>
                    q = ParserOf(in, 2, Quoted, 0, 1, TRUE, <<>>, 1, <<>>)
               /\ Len(in) # 0 /\ s = Doubtful /\ in[1] \notin FieldEnds \cup {QuoteChar} =>
                    q = ParserOf(in, 1, Quoted, 0, 1, FALSE, <<>>, 1, <<>>)
  <1> DEFINE p == Begin(in, s)
             l == ResolveLinefeed(p)
             q == ResolveQuote(l)
  <1>1. p = ParserOf(in, 1, s, 0, 0, FALSE, <<>>, 1, <<>>) /\ p \in Parser
    BY BeginIs
  <1> HIDE DEF p
  <1>2. /\ p.in = in /\ p.at = 1 /\ p.state = s /\ p.start = 0 /\ p.length = 0 /\ p.doubled = FALSE
        /\ p.fields = <<>> /\ p.row = 1 /\ p.rows = <<>>
    BY <1>1 DEF ParserOf
  <1>3. Len(in) \in Nat /\ (Len(in) = 0 => 1 > Len(in)) /\ (Len(in) # 0 => ~(1 > Len(in)))
    BY DEF Value
  <1>4. <<>> \in Row /\ <<>> \in Seq(ParsedRow) /\ FALSE \in BOOLEAN /\ TRUE \in BOOLEAN
        /\ 0 \in Nat /\ 1 \in Nat /\ 2 \in Nat /\ Clean \in States /\ Quoted \in States
    BY DEF Row, States
  <1>5. CASE Len(in) = 0
    <2>1. l = p
      BY <1>2, <1>3, <1>5 DEF ResolveLinefeed, AtEnd
    <2>2. ResolveQuote(p) = p
      BY <1>2, <1>3, <1>5 DEF ResolveQuote, AtEnd
    <2> QED BY <1>1, <1>5, <2>1, <2>2 DEF p
  <1>6. CASE Len(in) # 0 /\ s # Returned
    <2>1. ~s.pending_linefeed
      BY <1>6, StateFlags DEF States
    <2>2. l = p
      BY <1>2, <2>1 DEF ResolveLinefeed
    <2> DEFINE r == ResolveQuote(p)
    <2>3. CASE s # Doubtful
      <3>1. ~s.pending_quote
        BY <2>3, StateFlags DEF States
      <3>2. r = p
        BY <1>2, <3>1 DEF ResolveQuote
      <3> QED BY <1>1, <1>6, <2>2, <2>3, <3>2 DEF p
    <2>4. CASE s = Doubtful
      <3>1. ~(~p.state.pending_quote \/ AtEnd(p)) /\ Byte(p) = in[1]
        BY <1>2, <1>3, <1>6, <2>4, StateFlags DEF AtEnd, Byte
      <3>2. CASE in[1] \in FieldEnds
        <4>1. r = [p EXCEPT !.state = Clean]
          BY <3>1, <3>2, SpecialBytes DEF ResolveQuote
        <4> HIDE DEF r
        <4>2. r = ParserOf(in, 1, Clean, 0, 0, FALSE, <<>>, 1, <<>>)
          BY <1>1, <1>2, <1>4, <4>1 DEF Parser, ParserOf
        <4>3. in[1] # QuoteChar
          BY <3>2, SpecialBytes
        <4> QED BY <1>6, <2>2, <2>4, <3>2, <4>2, <4>3, StatesDiffer DEF p, r
      <3>3. CASE in[1] = QuoteChar
        <4>1. r = [p EXCEPT !.state = Quoted, !.doubled = TRUE, !.length = @ + 1, !.at = @ + 1]
          BY <3>1, <3>3, SpecialBytes DEF ResolveQuote, Quoted
        <4> HIDE DEF r
        <4>a. p.length + 1 = 1 /\ p.at + 1 = 2
          BY <1>2
        <4>b. r = [p EXCEPT !.state = Quoted, !.doubled = TRUE, !.length = 1, !.at = 2]
          BY <1>1, <4>1, <4>a DEF Parser
        <4>2. r = ParserOf(in, 2, Quoted, 0, 1, TRUE, <<>>, 1, <<>>)
          BY <1>1, <1>2, <1>4, <4>b DEF Parser, ParserOf
        <4>3. in[1] \notin FieldEnds
          BY <3>3, SpecialBytes
        <4> QED BY <1>6, <2>2, <2>4, <3>3, <4>2, <4>3, StatesDiffer DEF p, r
      <3>4. CASE in[1] \notin FieldEnds \cup {QuoteChar}
        <4>1. r = [p EXCEPT !.state = Quoted, !.length = @ + 1]
          BY <3>1, <3>4 DEF ResolveQuote, Quoted
        <4> HIDE DEF r
        <4>a. p.length + 1 = 1
          BY <1>2
        <4>b. r = [p EXCEPT !.state = Quoted, !.length = 1]
          BY <1>1, <4>1, <4>a DEF Parser
        <4>2. r = ParserOf(in, 1, Quoted, 0, 1, FALSE, <<>>, 1, <<>>)
          BY <1>1, <1>2, <1>4, <4>b DEF Parser, ParserOf
        <4> QED BY <1>6, <2>2, <2>4, <3>4, <4>2, StatesDiffer DEF p, r
      <3> QED BY <3>2, <3>3, <3>4
    <2> QED BY <2>3, <2>4
  <1>7. CASE Len(in) # 0 /\ s = Returned
    <2>1. ~(~p.state.pending_linefeed \/ AtEnd(p)) /\ Byte(p) = in[1]
      BY <1>2, <1>3, <1>7, StateFlags DEF AtEnd, Byte
    <2>2. ASSUME NEW x, x = [p.state EXCEPT !.pending_linefeed = FALSE] PROVE x = Clean
      BY <1>2, <1>7, <2>2, StateChanges
    <2>3. ASSUME NEW r, r.state = Clean PROVE ResolveQuote(r) = r
      BY <2>3, StateFlags DEF ResolveQuote
    <2>4. CASE in[1] = NewLine
      <3>1. l = [p EXCEPT !.state.pending_linefeed = FALSE, !.at = @ + 1, !.row = p.at + 1]
        BY <2>1, <2>4 DEF ResolveLinefeed
      <3> HIDE DEF l
      <3>a. p.at + 1 = 2
        BY <1>2
      <3>b. l = [p EXCEPT !.state = [p.state EXCEPT !.pending_linefeed = FALSE], !.at = 2, !.row = 2]
        BY <1>1, <3>1, <3>a DEF Parser
      <3>2. l = [p EXCEPT !.state = Clean, !.at = 2, !.row = 2]
        BY <2>2, <3>b
      <3>3. l = ParserOf(in, 2, Clean, 0, 0, FALSE, <<>>, 2, <<>>)
        BY <1>1, <1>2, <1>4, <3>2 DEF Parser, ParserOf
      <3>4. l.state = Clean
        BY <3>3 DEF ParserOf
      <3> QED BY <1>7, <2>3, <2>4, <3>3, <3>4, StatesDiffer DEF l, p
    <2>5. CASE in[1] # NewLine
      <3>1. l = [p EXCEPT !.state.pending_linefeed = FALSE]
        BY <2>1, <2>5 DEF ResolveLinefeed
      <3> HIDE DEF l
      <3>2. l = [p EXCEPT !.state = Clean]
        BY <1>1, <1>2, <2>2, <3>1 DEF Parser
      <3>3. l = ParserOf(in, 1, Clean, 0, 0, FALSE, <<>>, 1, <<>>)
        BY <1>1, <1>2, <1>4, <3>2 DEF Parser, ParserOf
      <3>4. l.state = Clean
        BY <3>3 DEF ParserOf
      <3> QED BY <1>7, <2>3, <2>5, <3>3, <3>4, StatesDiffer DEF l, p
    <2> QED BY <2>4, <2>5
  <1> QED BY <1>5, <1>6, <1>7

\* The parser in front of the chunk, with nothing of a row.
LEMMA FrontIs ==
    ASSUME NEW in \in Value, NEW s \in States, NEW length \in {0, 1}, NEW doubled \in BOOLEAN
    PROVE  LET p == ParserOf(in, 1, s, 0, length, doubled, <<>>, 1, <<>>)
           IN  /\ p \in Parser /\ p.in = in /\ p.at = 1 /\ p.state = s /\ p.start = 0 /\ p.length = length
               /\ p.fields = <<>> /\ p.row = 1 /\ p.rows = <<>>
               /\ \A D, a : a \in Nat => At(D, a, p) = D[a]
  <1> DEFINE p == ParserOf(in, 1, s, 0, length, doubled, <<>>, 1, <<>>)
  <1>1. <<>> \in Row /\ <<>> \in Seq(ParsedRow) /\ 0 \in Nat /\ 1 \in Nat /\ length \in Nat
    BY DEF Row
  <1>2. p \in Parser
    BY <1>1, ParserOfType
  <1>3. /\ p.in = in /\ p.at = 1 /\ p.state = s /\ p.start = 0 /\ p.length = length
        /\ p.fields = <<>> /\ p.row = 1 /\ p.rows = <<>>
    BY DEF ParserOf
  <1> HIDE DEF p
  <1>4. \A D, a : a \in Nat => At(D, a, p) = D[a]
    <2>1. \A a \in Nat : a + 1 - 1 = a
      OBVIOUS
    <2> QED BY <1>3, <2>1 DEF At
  <1> QED BY <1>2, <1>3, <1>4 DEF p

\* A chunk that begins with a row.
LEMMA WholeStarts ==
    ASSUME NEW text, NEW D, ReadBy(text, D), NEW a, NEW in, PartOf(text, a, in),
           D[a].mode \in BetweenRows, NEW s \in {Clean, Returned}
    PROVE  Sim(D, a, TRUE, in, ResolveQuote(ResolveLinefeed(Begin(in, s))))
  <1> DEFINE q == ResolveQuote(ResolveLinefeed(Begin(in, s)))
             g == D[a]
  <1>1. in \in Value /\ a \in Nat /\ Len(in) \in Nat
    BY LengthOfIn, ReaderThere DEF PartOf, Value
  <1>2. 1 \in Nat /\ 1 \in 1..(Len(in) + 1) /\ a + 1 - 1 = a
    BY <1>1
  <1>3. /\ g \in Reader /\ Tidy(g) /\ g.from = a
        /\ 1 <= Len(in) => D[a + 1] = Past(g, in[1], a + 1)
    BY <1>2, ReaderThere
  <1>4. g.value = <<>> /\ g.fields = <<>>
    BY <1>3 DEF Tidy
  <1>5. g.mode # "quoted" /\ g.mode # "quote" /\ g.mode # "field" /\ g.mode # "plain"
    BY DEF BetweenRows
  <1>6. ASSUME NEW t \in {Clean, Returned}, t = Returned => Len(in) = 0
        PROVE  Sim(D, a, TRUE, in, ParserOf(in, 1, t, 0, 0, FALSE, <<>>, 1, <<>>))
    <2> DEFINE p == ParserOf(in, 1, t, 0, 0, FALSE, <<>>, 1, <<>>)
    <2>1. /\ p \in Parser /\ p.in = in /\ p.at = 1 /\ p.state = t /\ p.start = 0 /\ p.length = 0
          /\ p.fields = <<>> /\ p.row = 1 /\ p.rows = <<>>
          /\ At(D, a, p) = g
      <3>1. t \in States /\ 0 \in {0, 1} /\ FALSE \in BOOLEAN
        BY DEF States
      <3>2. \A E, k : k \in Nat => At(E, k, p) = E[k]
        BY <1>1, <3>1, FrontIs
      <3>3. At(D, a, p) = g
        BY <1>1, <3>2
      <3>4. p \in Parser
        BY <1>1, <3>1, FrontIs
      <3>5. /\ p.in = in /\ p.at = 1 /\ p.state = t /\ p.start = 0 /\ p.length = 0
            /\ p.fields = <<>> /\ p.row = 1 /\ p.rows = <<>>
        BY DEF ParserOf
      <3> HIDE DEF p
      <3> QED BY <3>3, <3>4, <3>5
    <2> HIDE DEF p
    <2>2. Position(p, g)
      <3>1. p.state # Doubtful /\ p.state # Quoted
        BY <2>1, StatesDiffer
      <3>2. 1 \in 1..(Len(in) + 1) /\ 1 \in 1..1 /\ ~(1 > 1) /\ (Len(in) = 0 => 1 = Len(in) + 1)
        BY <1>1
      <3> QED BY <1>5, <1>6, <2>1, <3>1, <3>2 DEF Position
    <2>3. Width(p, g)
      <3>1. 1 + 0 <= 1 + 0 /\ ~Literal(p, g)
        BY <1>5 DEF Literal
      <3> QED BY <2>1, <3>1 DEF Width
    <2>4. Content(a, p, g)
      BY <1>2, <1>3, <1>4, <1>5, <2>1 DEF Content
    <2>5. Sim(D, a, TRUE, in, p)
      <3>1. TRUE \in BOOLEAN /\ g.rows = D[a].rows /\ Beside(p, g)
        BY <2>2, <2>3 DEF Beside
      <3> HIDE DEF g
      <3> QED BY <2>1, <2>4, <3>1, SimWithout
    <2> QED BY <2>5 DEF p
  <1>7. CASE Len(in) = 0 \/ s = Clean
    <2>1. q = ParserOf(in, 1, s, 0, 0, FALSE, <<>>, 1, <<>>)
      <3>1. s \in States
        BY DEF States
      <3> QED BY <1>1, <1>7, <3>1, ResolvedIs
    <2>2. s = Returned => Len(in) = 0
      BY <1>7, StatesDiffer
    <2> QED BY <1>6, <2>1, <2>2
  <1>8. CASE Len(in) # 0 /\ s = Returned /\ in[1] # NewLine
    <2>1. q = ParserOf(in, 1, Clean, 0, 0, FALSE, <<>>, 1, <<>>)
      <3>1. s \in States
        BY DEF States
      <3> QED BY <1>1, <1>8, <3>1, ResolvedIs
    <2> QED BY <1>6, <2>1, StatesDiffer
  <1>9. CASE Len(in) # 0 /\ s = Returned /\ in[1] = NewLine
    <2>1. q = ParserOf(in, 2, Clean, 0, 0, FALSE, <<>>, 2, <<>>)
      <3>1. s \in States
        BY DEF States
      <3> QED BY <1>1, <1>9, <3>1, ResolvedIs
    <2> DEFINE h == D[a + 1]
    <2>2. h = ReaderOf("row", a + 1, <<>>, <<>>, g.rows)
      <3>1. 1 <= Len(in) /\ a + 1 \in Nat
        BY <1>1, <1>9
      <3>2. h = Past(g, NewLine, a + 1)
        BY <1>3, <1>9, <3>1
      <3>3. Closed(g) = g.rows
        BY DEF Closed
      <3> HIDE DEF g, h
      <3>4. CASE g.mode = "return"
        BY <1>3, <1>4, <1>5, <3>1, <3>2, <3>4, PastUnquoted, SpecialBytes
      <3>5. CASE g.mode # "return"
        BY <1>3, <1>5, <3>1, <3>2, <3>3, <3>5, PastUnquoted, SpecialBytes
      <3> QED BY <3>4, <3>5
    <2> HIDE DEF h
    <2>3. h.mode = "row" /\ h.from = a + 1 /\ h.value = <<>> /\ h.fields = <<>> /\ h.rows = g.rows
      BY <2>2 DEF ReaderOf
    <2> HIDE DEF q
    <2>4. q \in Parser
      <3>1. <<>> \in Row /\ <<>> \in Seq(ParsedRow) /\ 0 \in Nat /\ 2 \in Nat /\ Clean \in States /\ FALSE \in BOOLEAN
        BY DEF Row, States
      <3> QED BY <1>1, <2>1, <3>1, ParserOfType
    <2>5. /\ q.in = in /\ q.at = 2 /\ q.state = Clean /\ q.start = 0 /\ q.length = 0
          /\ q.fields = <<>> /\ q.row = 2 /\ q.rows = <<>>
      BY <2>1 DEF ParserOf
    <2>6. h = At(D, a, q)
      <3>1. a + 2 - 1 = a + 1
        BY <1>1
      <3> QED BY <2>5, <3>1 DEF At, h
    <2>7. Position(q, h)
      <3>1. q.state # Doubtful /\ q.state # Quoted /\ q.state # Returned
        BY <2>5, StatesDiffer
      <3>2. 2 \in 1..(Len(in) + 1) /\ 2 \in 1..2
        BY <1>1, <1>9
      <3> QED BY <2>3, <2>5, <3>1, <3>2 DEF Position
    <2>8. Width(q, h)
      <3>1. 2 + 0 <= 2 + 0 /\ ~Literal(q, h)
        BY <2>3 DEF Literal
      <3> QED BY <2>5, <3>1 DEF Width
    <2>9. Content(a, q, h)
      <3>1. a + 1 = a + 2 - 1 /\ 2 - 1 = 1 /\ NewLine \in RowEnds
        BY <1>1 DEF RowEnds
      <3>2. q.in[q.at - 1] \in RowEnds
        BY <1>9, <2>5, <3>1
      <3> QED BY <2>3, <2>5, <3>1, <3>2 DEF Content
    <2>10. TRUE \in BOOLEAN /\ Beside(q, h) /\ h.rows = D[a].rows
      BY <2>3, <2>7, <2>8 DEF Beside
    <2> QED BY <2>4, <2>5, <2>6, <2>9, <2>10, SimWithout DEF q
  <1> QED BY <1>7, <1>8, <1>9

\* A chunk that begins within a row, or is only known to.
LEMMA RestStarts ==
    ASSUME NEW text, NEW D, ReadBy(text, D), NEW a, NEW in, PartOf(text, a, in),
           Len(in) # 0, D[a].mode # "return"
    PROVE  Sim(D, a, FALSE, in, ResolveQuote(ResolveLinefeed(Begin(in, StateAfter(D[a])))))
  <1> DEFINE g == D[a]
             s == StateAfter(g)
             q == ResolveQuote(ResolveLinefeed(Begin(in, s)))
  <1>1. in \in Value /\ a \in Nat /\ Len(in) \in Nat
    BY LengthOfIn, ReaderThere DEF PartOf, Value
  <1>2. 1 \in Nat /\ 1 \in 1..(Len(in) + 1) /\ a + 1 - 1 = a /\ 1 <= Len(in)
    BY <1>1
  <1>3. /\ g \in Reader /\ Tidy(g) /\ in[1] \in Bytes
        /\ D[a + 1] = Past(g, in[1], a + 1)
    <2>1. ASSUME NEW i \in Nat, i = 1
          PROVE  /\ D[a + i - 1] \in Reader /\ Tidy(D[a + i - 1])
                 /\ in[i] \in Bytes /\ D[a + i] = Past(D[a + i - 1], in[i], a + i)
      <3>1. i \in 1..(Len(in) + 1) /\ i <= Len(in)
        BY <1>2, <2>1
      <3> QED BY <3>1, ReaderThere
    <2>2. /\ D[a + 1 - 1] \in Reader /\ Tidy(D[a + 1 - 1])
          /\ in[1] \in Bytes /\ D[a + 1] = Past(D[a + 1 - 1], in[1], a + 1)
      BY <2>1
    <2> QED BY <1>2, <2>2
  <1>4. /\ g.mode = "quoted" => s = Quoted
        /\ g.mode = "quote" => s = Doubtful
        /\ g.mode \in {"row", "field", "plain"} => s = Clean
        /\ s \in States /\ g.mode \in Modes
    BY <1>3, StateAfterIs, ReaderIs
  <1> HIDE DEF s
  <1>5. ASSUME NEW t \in {Clean, Quoted}, NEW length \in {0, 1}, NEW doubled \in BOOLEAN,
               g.mode = "quoted" => t = Quoted /\ length = 0,
               g.mode \in {"row", "field", "plain"} => t = Clean /\ length = 0,
               g.mode = "quote" => \/ t = Quoted /\ in[1] \notin FieldEnds \cup {QuoteChar} /\ length = 1
                                   \/ t = Clean /\ in[1] \in FieldEnds /\ length = 0
        PROVE  Sim(D, a, FALSE, in, ParserOf(in, 1, t, 0, length, doubled, <<>>, 1, <<>>))
    <2> DEFINE p == ParserOf(in, 1, t, 0, length, doubled, <<>>, 1, <<>>)
    <2>1. /\ p \in Parser /\ p.in = in /\ p.at = 1 /\ p.state = t /\ p.start = 0 /\ p.length = length
          /\ p.row = 1 /\ p.rows = <<>>
          /\ At(D, a, p) = g
      <3>1. t \in States
        BY DEF States
      <3> QED BY <1>1, <3>1, FrontIs
    <2> HIDE DEF p
    <2>2. Position(p, g)
      <3>1. p.state # Doubtful /\ p.state # Returned
        BY <2>1, StatesDiffer
      <3>2. 1 \in 1..(Len(in) + 1) /\ 1 \in 1..1
        BY <1>1
      <3>3. p.state = Quoted => g.mode \in {"quoted", "quote"}
        BY <1>4, <1>5, <2>1, StatesDiffer DEF Modes
      <3>4. g.mode = "quoted" => p.state \in {Quoted, Doubtful}
        BY <1>5, <2>1
      <3>5. g.mode = "quote" =>
                /\ p.at <= Len(p.in)
                /\ \/ p.state = Quoted /\ p.in[p.at] \notin FieldEnds \cup {QuoteChar}
                   \/ p.state = Clean /\ p.in[p.at] \in FieldEnds
        BY <1>2, <1>5, <2>1
      <3> QED BY <2>1, <3>1, <3>2, <3>3, <3>4, <3>5 DEF Position
    <2>3. Width(p, g)
      <3>1. g.mode \in BetweenRows \cup {"field"} => p.length = 0
        BY <1>5, <2>1 DEF BetweenRows
      <3>2. CASE length = 0
        <4>1. 1 + 0 <= 1 + 1 /\ 1 + 0 <= 1 + 0
          OBVIOUS
        <4> QED BY <2>1, <3>1, <3>2, <4>1 DEF Width
      <3>3. CASE length = 1
        <4>1. g.mode = "quote" /\ t = Quoted
          BY <1>4, <1>5, <3>3 DEF Modes
        <4>2. Literal(p, g)
          BY <2>1, <4>1 DEF Literal
        <4>3. 1 + 1 <= 1 + 1
          OBVIOUS
        <4> QED BY <2>1, <3>1, <3>3, <4>2, <4>3 DEF Width
      <3> QED BY <3>2, <3>3
    <2>4. Sim(D, a, FALSE, in, p)
      <3>1. FALSE \in BOOLEAN /\ g.rows = D[a].rows /\ g.from = D[a].from /\ Beside(p, g)
        BY <2>2, <2>3 DEF Beside
      <3> HIDE DEF g
      <3> QED BY <2>1, <3>1, SimWithout
    <2> QED BY <2>4 DEF p
  <1>6. CASE s = Clean \/ s = Quoted
    <2>1. q = ParserOf(in, 1, s, 0, 0, FALSE, <<>>, 1, <<>>)
      BY <1>1, <1>4, <1>6, ResolvedIs
    <2>2. g.mode # "quote"
      BY <1>4, <1>6, StatesDiffer
    <2> QED BY <1>4, <1>5, <1>6, <2>1, <2>2 DEF s
  <1>7. CASE g.mode = "quote" /\ in[1] \in FieldEnds
    <2>1. q = ParserOf(in, 1, Clean, 0, 0, FALSE, <<>>, 1, <<>>)
      BY <1>1, <1>4, <1>7, ResolvedIs
    <2> QED BY <1>5, <1>7, <2>1 DEF s
  <1>8. CASE g.mode = "quote" /\ in[1] \notin FieldEnds \cup {QuoteChar}
    <2>1. q = ParserOf(in, 1, Quoted, 0, 1, FALSE, <<>>, 1, <<>>)
      BY <1>1, <1>4, <1>8, ResolvedIs
    <2> QED BY <1>5, <1>8, <2>1 DEF s
  <1>9. CASE g.mode = "quote" /\ in[1] = QuoteChar
    <2>1. q = ParserOf(in, 2, Quoted, 0, 1, TRUE, <<>>, 1, <<>>)
      BY <1>1, <1>4, <1>9, ResolvedIs
    <2> DEFINE h == D[a + 1]
    <2>2. h = ReaderOf("quoted", g.from, Append(g.value, QuoteChar), g.fields, g.rows)
      <3>1. a + 1 \in Nat
        BY <1>1
      <3> QED BY <1>3, <1>9, <3>1, PastQuoted, SpecialBytes
    <2> HIDE DEF h, g
    <2>3. h.mode = "quoted" /\ h.from = g.from /\ h.rows = g.rows
      BY <2>2 DEF ReaderOf
    <2> HIDE DEF q
    <2>4. q \in Parser
      <3>1. <<>> \in Row /\ <<>> \in Seq(ParsedRow) /\ 0 \in Nat /\ 1 \in Nat /\ 2 \in Nat
            /\ Quoted \in States /\ TRUE \in BOOLEAN
        BY DEF Row, States
      <3> QED BY <1>1, <2>1, <3>1, ParserOfType
    <2>5. /\ q.in = in /\ q.at = 2 /\ q.state = Quoted /\ q.start = 0 /\ q.length = 1
          /\ q.row = 1 /\ q.rows = <<>>
      BY <2>1 DEF ParserOf
    <2>6. h = At(D, a, q)
      <3>1. a + 2 - 1 = a + 1
        BY <1>1
      <3> QED BY <2>5, <3>1 DEF At, h
    <2>7. Position(q, h)
      <3>1. q.state # Doubtful /\ q.state # Returned
        BY <2>5, StatesDiffer
      <3>2. 2 \in 1..(Len(in) + 1) /\ 1 \in 1..2
        BY <1>1
      <3> QED BY <2>3, <2>5, <3>1, <3>2 DEF Position, BetweenRows
    <2>8. Width(q, h)
      <3>1. 1 + 1 <= 2 + 0 /\ ~Literal(q, h)
        BY <2>3 DEF Literal
      <3> QED BY <2>3, <2>5, <3>1 DEF Width, BetweenRows
    <2>9. FALSE \in BOOLEAN /\ Beside(q, h) /\ h.rows = D[a].rows /\ h.from = D[a].from
      BY <2>3, <2>7, <2>8 DEF Beside, g
    <2> QED BY <2>4, <2>5, <2>6, <2>9, SimWithout DEF q, s, g
  <1>10. g.mode = "quote" \/ s = Clean \/ s = Quoted
    BY <1>4 DEF Modes
  <1> QED BY <1>6, <1>7, <1>8, <1>9, <1>10

\* When the state it begins in has been resolved, the parser is where the reader is.
LEMMA SimStart ==
    ASSUME NEW text, NEW D, ReadBy(text, D), NEW a, NEW in, PartOf(text, a, in), NEW whole \in BOOLEAN,
           NEW s, Starts(D, a, in, whole, s)
    PROVE  Sim(D, a, whole, in, ResolveQuote(ResolveLinefeed(Begin(in, s))))
  <1>1. CASE whole
    <2>1. whole = TRUE /\ D[a].mode \in BetweenRows /\ s \in {Clean, Returned}
      BY <1>1 DEF Starts
    <2> QED BY <2>1, WholeStarts
  <1>2. CASE ~whole
    <2>1. whole = FALSE /\ Len(in) # 0 /\ D[a].mode # "return" /\ s = StateAfter(D[a])
      BY <1>2 DEF Starts
    <2> QED BY <2>1, RestStarts
  <1> QED BY <1>1, <1>2

-----------------------------------------------------------------------------
(* The end of a chunk.                                                     *)

\* push_row.
LEMMA PushRowIs ==
    ASSUME NEW p \in Parser, NEW rawEnd \in Nat
    PROVE  LET r == [fields |-> p.fields, from |-> p.row, upto |-> rawEnd]
           IN  PushRow(p, rawEnd).rows = Append(p.rows, r) /\ r \in ParsedRow
  <1>1. /\ p.in \in Value /\ p.at \in Nat /\ p.state \in States /\ p.start \in Nat /\ p.length \in Nat
        /\ p.doubled \in BOOLEAN /\ p.fields \in Row /\ p.row \in Nat /\ p.rows \in Seq(ParsedRow)
    BY ParserIs
  <1> DEFINE r == [fields |-> p.fields, from |-> p.row, upto |-> rawEnd]
             q == PushRow(p, rawEnd)
             rs == Append(p.rows, r)
  <1>2. r \in ParsedRow
    BY <1>1 DEF ParsedRow
  <1>3. q = [p EXCEPT !.rows = rs]
    BY DEF PushRow
  <1> HIDE DEF q, rs
  <1>4. q.rows = rs
    BY <1>3 DEF Parser
  <1> QED BY <1>2, <1>4 DEF q, rs

\* The row that ends without an end of line.
LEMMA EndFeedIs ==
    ASSUME NEW a \in Nat, NEW p \in Parser, NEW g \in Reader, Tidy(g), Beside(p, g), Content(a, p, g),
           p.at = Len(p.in) + 1 \/ p.state = Doubtful
    PROVE  /\ g.mode \in BetweenRows => EndFeed(p) = p.rows
           /\ g.mode \notin BetweenRows =>
                \E r \in ParsedRow : r.fields = Append(g.fields, g.value) /\ EndFeed(p) = Append(p.rows, r)
  <1> DEFINE emptyLast == p.in # <<>> /\ p.in[Len(p.in)] \in {Delimiter, QuoteChar}
             rawEnd == Len(p.in) + 1
  <1>1. /\ p.in \in Value /\ p.at \in Nat /\ p.state \in States /\ p.start \in Nat /\ p.length \in Nat
        /\ p.doubled \in BOOLEAN /\ p.fields \in Row /\ p.row \in Nat /\ p.rows \in Seq(ParsedRow)
    BY ParserIs
  <1>2. Len(p.in) \in Nat /\ p.at \in 1..(Len(p.in) + 1) /\ rawEnd \in Nat /\ (Len(p.in) # 0 => p.in # <<>>)
    <2>1. Len(p.in) \in Nat /\ p.at \in 1..(Len(p.in) + 1)
      BY LengthOfIn DEF Beside, Position
    <2>2. Len(<<>>) = 0
      OBVIOUS
    <2> QED BY <2>1, <2>2
  <1>3. p.state = Doubtful => g.mode = "quoted" /\ p.at = Len(p.in) /\ p.in[p.at] = QuoteChar
    BY DEF Beside, Position
  <1>4. p.fields = g.fields
    BY DEF Content
  <1>5. CASE g.mode \in BetweenRows
    <2>1. p.at = Len(p.in) + 1 /\ p.length = 0 /\ p.fields = <<>>
      BY <1>3, <1>4, <1>5 DEF Beside, Width, Tidy, BetweenRows
    <2>2. p.at = 1 \/ p.in[p.at - 1] \in RowEnds
      BY <1>5 DEF Content
    <2>3. ~emptyLast
      <3>1. CASE p.at = 1
        <4>1. Len(p.in) = 0
          BY <1>2, <2>1, <3>1
        <4>2. p.in = <<>>
          BY <1>1, <4>1 DEF Value
        <4> QED BY <4>2
      <3>2. CASE p.in[p.at - 1] \in RowEnds
        <4>1. p.at - 1 = Len(p.in)
          BY <1>2, <2>1
        <4> QED BY <3>2, <4>1, SpecialBytes
      <3> QED BY <2>2, <3>1, <3>2
    <2>4. ~(p.length > 0)
      BY <2>1
    <2>5. EndFeed(p) = p.rows
      <3> HIDE DEF emptyLast
      <3> QED BY <2>1, <2>3, <2>4 DEF EndFeed, emptyLast
    <2> QED BY <1>5, <2>5
  <1>6. CASE g.mode \notin BetweenRows
    <2>1. g.mode \in {"field", "plain", "quoted"}
      <3>1. g.mode # "quote"
        BY <1>2, <1>3 DEF Beside, Position
      <3> QED BY <1>6, <3>1, ReaderIs DEF Modes, BetweenRows
    <2>2. ~Literal(p, g) /\ ~Ended(p, g)
      BY <2>1 DEF Literal, Ended
    <2>3. Field(p) = g.value
      BY <2>2, FieldIs
    <2>4. ASSUME Len(p.in) # 0, p.in[Len(p.in)] \in {Delimiter, QuoteChar} PROVE emptyLast
      BY <1>2, <2>4
    <2>5. p.length > 0 \/ emptyLast
      <3>1. CASE g.mode = "plain"
        BY <3>1 DEF Content
      <3>2. CASE p.state = Doubtful
        <4>1. Len(p.in) # 0 /\ p.in[Len(p.in)] = QuoteChar
          BY <1>2, <1>3, <3>2
        <4> QED BY <2>4, <4>1
      <3>3. CASE g.mode = "field"
        <4>1. p.at > 1 /\ p.in[p.at - 1] = Delimiter
          BY <3>3 DEF Content
        <4>2. p.at = Len(p.in) + 1
          BY <1>3, <3>3
        <4>3. p.at - 1 = Len(p.in) /\ Len(p.in) # 0
          BY <1>2, <4>1, <4>2
        <4> QED BY <2>4, <4>1, <4>3
      <3>4. CASE g.mode = "quoted" /\ p.state # Doubtful /\ p.start = 0
        <4>1. p.at > 1 /\ p.at = Len(p.in) + 1 /\ p.in[p.at - 1] = QuoteChar
          BY <3>4 DEF Content
        <4>2. p.at - 1 = Len(p.in) /\ Len(p.in) # 0
          BY <1>2, <4>1
        <4> QED BY <2>4, <4>1, <4>2
      <3>5. CASE g.mode = "quoted" /\ p.state # Doubtful /\ p.start # 0
        <4>1. p.start <= Len(p.in) /\ p.at = p.start + p.length + 0
          BY <2>2, <3>5 DEF Beside, Width
        <4>2. p.at = Len(p.in) + 1
          BY <3>5
        <4>3. p.length > 0
          BY <1>1, <1>2, <4>1, <4>2
        <4> QED BY <4>3
      <3> QED BY <2>1, <3>1, <3>2, <3>3, <3>4, <3>5
    <2> DEFINE q == PushField(p)
    <2> HIDE DEF emptyLast
    <2>6. q = ParserOf(p.in, p.at, p.state, 0, 0, FALSE, Append(p.fields, Field(p)), p.row, p.rows)
          /\ q \in Parser /\ Append(p.fields, Field(p)) \in Row
      BY FieldType, PushFieldIs
    <2> DEFINE fs == Append(g.fields, g.value)
    <2>7. q.fields = fs /\ q.rows = p.rows
      <3>1. q.fields = Append(p.fields, Field(p)) /\ q.rows = p.rows
        <4> HIDE DEF q
        <4> QED BY <2>6 DEF ParserOf
      <3> QED BY <1>4, <2>3, <3>1
    <2>8. fs # <<>>
      <3>1. g.fields \in Row /\ g.value \in Value
        BY ReaderIs
      <3> QED BY <3>1, FieldsAppended
    <2>9. EndFeed(p) = PushRow(q, rawEnd).rows
      <3>1. (IF p.length > 0 \/ emptyLast THEN q ELSE p) = q
        BY <2>5
      <3>2. q.fields # <<>>
        BY <2>7, <2>8
      <3> HIDE DEF q
      <3> QED BY <3>1, <3>2 DEF EndFeed, emptyLast, q
    <2> HIDE DEF q, fs
    <2> DEFINE r == [fields |-> q.fields, from |-> q.row, upto |-> rawEnd]
    <2>10. PushRow(q, rawEnd).rows = Append(q.rows, r) /\ r \in ParsedRow
      BY <1>2, <2>6, PushRowIs
    <2>11. r.fields = fs
      BY <2>7
    <2> HIDE DEF r
    <2> QED BY <1>6, <2>7, <2>9, <2>10, <2>11 DEF fs
  <1> QED BY <1>5, <1>6

\* The rows that end_feed completes are the rest of the text, as far as it was read.
ClosedBy(D, a, whole, p, h) ==
    whole => /\ EndFeed(p) \in Seq(ParsedRow)
             /\ D[a].rows \o WithFields(FieldsOf(EndFeed(p))) = Closed(h)

\* What parse_chunk has when it stops, and the reader behind the chunk.
LEMMA ParseEnds ==
    ASSUME NEW text, NEW D, ReadBy(text, D), NEW a, NEW in, PartOf(text, a, in), NEW whole \in BOOLEAN,
           NEW s, Starts(D, a, in, whole, s),
           NEW p, p = Parse(in, s), NEW h, h = D[a + Len(in)]
    PROVE  /\ p \in Parser /\ p.in = in /\ p.row \in 1..(Len(in) + 1)
           /\ h \in Reader
           /\ Len(in) # 0 => p.state = StateAfter(h)
           /\ RowsAfter(D, a, whole, p, h)
           /\ Own(whole, p) => h.from = a + p.row - 1
           /\ ClosedBy(D, a, whole, p, h)
  <1> DEFINE g == At(D, a, p)
  <1>1. Sim(D, a, whole, in, p) /\ (p.at = Len(in) + 1 \/ p.state = Doubtful)
    BY SimStart, RoundsSim DEF Parse
  <1>2. p \in Parser /\ p.in = in /\ Beside(p, g) /\ (Own(whole, p) => Content(a, p, g))
        /\ RowsAfter(D, a, whole, p, g)
    BY <1>1 DEF Sim
  <1>3. /\ Len(in) \in Nat /\ p.at \in Nat /\ p.at \in 1..(Len(in) + 1) /\ p.row \in 1..p.at /\ a \in Nat
        /\ p.state \in States /\ p.rows \in Seq(ParsedRow)
    BY <1>2, LengthOfIn, ParserIs DEF Beside, Position, PartOf
  <1>4. g \in Reader /\ Tidy(g)
    BY <1>3, ReaderThere DEF At
  <1>5. h \in Reader
    <2> DEFINE j == Len(in) + 1
    <2>1. j \in Nat /\ j \in 1..(Len(in) + 1) /\ a + j - 1 = a + Len(in)
      BY <1>3
    <2> HIDE DEF j
    <2> QED BY <2>1, ReaderThere
  <1>6. /\ h.from = g.from /\ h.rows = g.rows /\ Closed(h) = Closed(g)
        /\ Len(in) # 0 => p.state = StateAfter(h)
    <2>1. CASE p.at = Len(in) + 1
      <3>1. a + (Len(in) + 1) - 1 = a + Len(in)
        BY <1>3
      <3>2. h = g
        BY <2>1, <3>1 DEF At
      <3>3. Len(in) # 0 => p.state = StateAfter(g)
        <4>1. Position(p, g) /\ g.mode \in Modes
          BY <1>2, <1>4, ReaderIs DEF Beside
        <4>2. g.mode # "quote" /\ p.state # Doubtful
          <5>1. ~(p.at <= Len(p.in)) /\ p.at # Len(p.in)
            BY <1>2, <1>3, <2>1
          <5> QED BY <4>1, <5>1 DEF Position
        <4>3. g.mode = "quoted" => p.state = Quoted
          BY <4>1, <4>2 DEF Position
        <4>4. ASSUME Len(in) # 0
              PROVE  /\ g.mode = "return" => p.state = Returned
                     /\ g.mode # "return" => p.state # Returned
          <5>1. p.at > 1 /\ ~(p.at <= Len(p.in)) /\ p.at # 1
            BY <1>2, <1>3, <2>1, <4>4
          <5> QED BY <4>1, <5>1 DEF Position
        <4>5. g.mode \in {"row", "field", "plain"} => p.state # Quoted
          BY <4>1 DEF Position
        <4> QED BY <1>3, <1>4, <4>1, <4>2, <4>3, <4>4, <4>5, StateAfterIs DEF States, Modes
      <3> QED BY <3>2, <3>3
    <2>2. CASE p.state = Doubtful
      <3>1. g.mode = "quoted" /\ p.at = Len(in) /\ in[p.at] = QuoteChar
        BY <1>2, <2>2 DEF Beside, Position
      <3>2. p.at <= Len(in) /\ a + p.at \in Nat
        BY <1>3, <3>1
      <3>3. h = Past(g, QuoteChar, a + p.at)
        <4>1. a + p.at = a + Len(in)
          BY <3>1
        <4>2. At(D, a, p) = D[a + p.at - 1]
          BY DEF At
        <4>3. p.at \in 1..Len(in)
          BY <1>3, <3>2
        <4>4. D[a + p.at] = Past(D[a + p.at - 1], in[p.at], a + p.at)
          <5> DEFINE t == p.at
          <5>1. t \in Nat /\ t \in 1..(Len(in) + 1) /\ t <= Len(in)
            BY <1>3, <3>2
          <5> HIDE DEF t
          <5>2. D[a + t] = Past(D[a + t - 1], in[t], a + t)
            BY <5>1, ReaderThere
          <5> QED BY <5>2 DEF t
        <4> QED BY <3>1, <4>1, <4>2, <4>4
      <3>4. h = ReaderOf("quote", g.from, g.value, g.fields, g.rows)
        <4> HIDE DEF g
        <4> QED BY <1>4, <3>1, <3>2, <3>3, PastQuoted, SpecialBytes
      <3>5. h.mode = "quote" /\ h.from = g.from /\ h.value = g.value /\ h.fields = g.fields /\ h.rows = g.rows
        <4> HIDE DEF g
        <4> QED BY <3>4 DEF ReaderOf
      <3>6. Closed(h) = Closed(g)
        BY <3>1, <3>5 DEF Closed, BetweenRows
      <3>7. StateAfter(h) = Doubtful
        BY <1>5, <3>5, StateAfterIs
      <3> QED BY <2>2, <3>5, <3>6, <3>7
    <2> QED BY <1>1, <2>1, <2>2
  <1> HIDE DEF g
  <1>7. RowsAfter(D, a, whole, p, h)
    BY <1>2, <1>6 DEF RowsAfter
  <1>8. Own(whole, p) => h.from = a + p.row - 1
    BY <1>2, <1>6 DEF Content
  <1>9. ASSUME whole
        PROVE  /\ EndFeed(p) \in Seq(ParsedRow)
               /\ D[a].rows \o WithFields(FieldsOf(EndFeed(p))) = Closed(h)
    <2>1. Content(a, p, g) /\ g.rows = D[a].rows \o WithFields(FieldsOf(p.rows))
      BY <1>2, <1>9 DEF Own, RowsAfter
    <2>2. D[a].rows \in Seq(Row)
      <3>1. 1 \in Nat /\ 1 \in 1..(Len(in) + 1)
        BY <1>3
      <3> QED BY <3>1, ReaderThere, ReaderSteps, ReaderIs
    <2>3. CASE g.mode \in BetweenRows
      <3>1. EndFeed(p) = p.rows
        BY <1>1, <1>2, <1>3, <1>4, <2>1, <2>3, EndFeedIs
      <3>2. Closed(g) = g.rows
        BY <2>3 DEF Closed
      <3> QED BY <1>3, <1>6, <2>1, <3>1, <3>2
    <2>4. CASE g.mode \notin BetweenRows
      <3>1. PICK r \in ParsedRow : r.fields = Append(g.fields, g.value) /\ EndFeed(p) = Append(p.rows, r)
        <4>1. p.at = Len(p.in) + 1 \/ p.state = Doubtful
          BY <1>1, <1>2
        <4> QED BY <1>2, <1>3, <1>4, <2>1, <2>4, <4>1, EndFeedIs
      <3>2. Closed(g) = D[a].rows \o WithFields(FieldsOf(Append(p.rows, r)))
        BY <1>3, <1>4, <2>1, <2>2, <2>4, <3>1, JoinRow
      <3>3. Append(p.rows, r) \in Seq(ParsedRow)
        BY <1>3, RowsAppended
      <3> QED BY <1>6, <3>1, <3>2, <3>3
    <2> QED BY <2>3, <2>4
  <1>10. p.row \in 1..(Len(in) + 1)
    BY <1>3
  <1>11. ClosedBy(D, a, whole, p, h)
    BY <1>9 DEF ClosedBy
  <1> QED BY <1>2, <1>5, <1>6, <1>7, <1>8, <1>10, <1>11

-----------------------------------------------------------------------------
(* The pool.                                                               *)

\* The threads in the body of the loop, and the ones that have not seen the generation.
Inside == {w \in Workers : place[w] \in {"take", "run", "caught", "leave"}}
Behind == {w \in Workers : seen[w] # generation}

Outstanding == Inside \cup Behind

Types ==
    /\ PoolTypeOK
    /\ generation \in Nat
    /\ next \in Nat
    /\ count \in Nat

\* The caller is back, or has never left; it has begun to stop the threads.
Places ==
    /\ caller = "outside" => completed = generation
    /\ stop <=> caller \in {"stopping", "join", "gone"}
    /\ stop => Inside = {}
    /\ \A w \in Workers : place[w] = "exited" => stop

Counted ==
    ~stop => /\ active = Cardinality(Outstanding)
             /\ completed = generation <=> active = 0

Current == \A w \in Inside : seen[w] = generation

\* Every task that is run has been taken off the counter.
Taken ==
    /\ \A w \in Workers : place[w] = "run" => task[w] < next /\ task[w] < count
    /\ \A v, w \in Workers : v # w /\ place[v] = "run" /\ place[w] = "run" => task[v] # task[w]

\* A thread that has been through the tasks has left none, nor has one that failed.
Drained ==
    /\ failed => next >= count
    /\ \A w \in Workers :
           seen[w] = generation /\ place[w] \in {"lock", "asleep", "leave"} => next >= count

PoolInv == Types /\ Places /\ Counted /\ Current /\ Taken /\ Drained

\* Outstanding is a finite set: how its size changes when a thread leaves.
LEMMA OutstandingSize ==
    /\ Cardinality(Workers) \in Nat
    /\ IsFiniteSet(Outstanding) /\ Cardinality(Outstanding) \in 0..Cardinality(Workers)
    /\ Cardinality(Outstanding) = 0 <=> Outstanding = {}
    /\ \A w \in Outstanding : Cardinality(Outstanding \ {w}) = Cardinality(Outstanding) - 1
  <1>1. Outstanding \in SUBSET Workers
    BY DEF Outstanding, Inside, Behind
  <1>2. IsFiniteSet(Workers)
    BY WorkersAssumption
  <1>3. IsFiniteSet(Outstanding) /\ Cardinality(Outstanding) <= Cardinality(Workers)
    BY <1>1, <1>2, FS_Subset
  <1>4. Cardinality(Workers) \in Nat /\ Cardinality(Outstanding) \in Nat
    BY <1>2, <1>3, FS_CardinalityType
  <1>5. Cardinality(Outstanding) = 0 <=> Outstanding = {}
    BY <1>3, FS_EmptySet
  <1>6. \A w \in Outstanding : Cardinality(Outstanding \ {w}) = Cardinality(Outstanding) - 1
    BY <1>3, FS_RemoveElement
  <1> QED BY <1>3, <1>4, <1>5, <1>6

\* In the beginning nobody is inside.
LEMMA PoolInitInv == PoolInit => PoolInv
  <1> SUFFICES ASSUME PoolInit PROVE PoolInv
    OBVIOUS
  <1>1. Inside = {} /\ Behind = {}
    BY DEF PoolInit, Inside, Behind
  <1>2. Cardinality(Workers) \in Nat /\ Cardinality(Outstanding) = 0
    BY <1>1, OutstandingSize DEF Outstanding
  <1>3. Types
    <2>1. completed \in 0..generation /\ active \in 0..Cardinality(Workers)
      BY <1>2 DEF PoolInit
    <2>2. failed \in BOOLEAN /\ stop \in BOOLEAN /\ caller \in CallerPlaces
      BY DEF PoolInit, CallerPlaces
    <2>3. place \in [Workers -> WorkerPlaces]
      BY DEF PoolInit, WorkerPlaces
    <2>4. seen \in [Workers -> 0..generation] /\ task \in [Workers -> Nat]
      BY DEF PoolInit
    <2> QED BY <2>1, <2>2, <2>3, <2>4 DEF PoolInit, Types, PoolTypeOK
  <1>4. Places /\ Counted /\ Current /\ Taken
    BY <1>1, <1>2 DEF PoolInit, Places, Counted, Current, Taken
  <1>5. Drained
    BY DEF PoolInit, Drained
  <1> QED BY <1>3, <1>4, <1>5 DEF PoolInv

-----------------------------------------------------------------------------
(* One lemma for each step.                                                *)

\* parallel_for begins with every thread behind.
LEMMA ParallelForKeeps ==
    ASSUME PoolInv, NEW n \in Nat \ {0}, ParallelFor(n)
    PROVE  PoolInv'
  <1>1. ~stop /\ completed = generation /\ Outstanding = {}
    BY OutstandingSize DEF ParallelFor, PoolInv, Places, Counted
  <1>2. Inside' = {} /\ Inside = {}
    BY <1>1 DEF ParallelFor, Inside, Outstanding
  <1>3. Outstanding' = Workers
    BY <1>2 DEF ParallelFor, Outstanding, Behind, PoolInv, Types, PoolTypeOK
  <1>4. Cardinality(Workers) \in Nat /\ Cardinality(Workers) > 1
    BY OutstandingSize, WorkersAssumption
  <1>5. Types'
    <2>1. completed' \in 0..generation' /\ active' \in 0..Cardinality(Workers)
      BY <1>4 DEF ParallelFor, PoolInv, Types, PoolTypeOK
    <2>2. failed' \in BOOLEAN /\ stop' \in BOOLEAN /\ caller' \in CallerPlaces
      BY DEF ParallelFor, PoolInv, Types, PoolTypeOK, CallerPlaces
    <2>3. place' \in [Workers -> WorkerPlaces] /\ task' \in [Workers -> Nat]
      BY DEF ParallelFor, PoolInv, Types, PoolTypeOK
    <2>4. seen' \in [Workers -> 0..generation']
      BY DEF ParallelFor, PoolInv, Types, PoolTypeOK
    <2>5. generation' \in Nat /\ next' \in Nat /\ count' \in Nat
      BY DEF ParallelFor, PoolInv, Types
    <2> QED BY <2>1, <2>2, <2>3, <2>4, <2>5 DEF Types, PoolTypeOK
  <1>6. Places'
    BY <1>1, <1>2 DEF ParallelFor, PoolInv, Places
  <1>7. Counted'
    BY <1>1, <1>3, <1>4 DEF ParallelFor, PoolInv, Types, PoolTypeOK, Counted
  <1>8. Current' /\ Taken'
    BY <1>2 DEF Inside, Current, Taken
  <1>9. Drained'
    <2>1. \A w \in Workers : seen'[w] # generation'
      BY DEF ParallelFor, PoolInv, Types, PoolTypeOK
    <2>2. failed' = FALSE
      BY DEF ParallelFor
    <2> QED BY <2>1, <2>2 DEF Drained
  <1> QED BY <1>5, <1>6, <1>7, <1>8, <1>9 DEF PoolInv

\* The threads are told to stop when none is inside.
LEMMA StopKeeps ==
    ASSUME PoolInv, StopWorkers
    PROVE  PoolInv'
  <1>1. ~stop /\ completed = generation /\ Outstanding = {}
    BY OutstandingSize DEF StopWorkers, PoolInv, Places, Counted
  <1>2. Inside' = {}
    BY <1>1 DEF StopWorkers, Inside, Outstanding
  <1>3. Types'
    BY DEF StopWorkers, PoolInv, Types, PoolTypeOK, CallerPlaces
  <1>4. Places'
    BY <1>2 DEF StopWorkers, PoolInv, Places
  <1>5. Counted' /\ Current' /\ Taken'
    BY <1>2 DEF StopWorkers, Inside, Counted, Current, Taken
  <1>6. Drained'
    <2>1. \A w \in Workers : seen'[w] # generation'
      BY DEF StopWorkers, PoolInv, Types, PoolTypeOK
    <2>2. failed' = failed /\ next' = next /\ count' = count
      BY DEF StopWorkers
    <2> QED BY <2>1, <2>2 DEF PoolInv, Drained
  <1> QED BY <1>3, <1>4, <1>5, <1>6 DEF PoolInv

\* The steps that leave the generation alone, and every thread inside of it or outside.
LEMMA WaitingKeeps ==
    ASSUME PoolInv, InPool \/ Returns \/ SpuriousWakeup
    PROVE  PoolInv'
  <1>1. /\ UNCHANGED <<generation, completed, next, count, active, stop, seen, task>>
        /\ failed' \in BOOLEAN
    BY DEF InPool, NotifyAll, WaitDone, JoinAll, Returns, SpuriousWakeup, PoolInv, Types, PoolTypeOK
  <1>2. /\ place' \in [Workers -> WorkerPlaces]
        /\ \A w \in Workers : place'[w] = place[w] \/ (place[w] = "asleep" /\ place'[w] = "lock")
    <2>1. place \in [Workers -> WorkerPlaces] /\ "lock" \in WorkerPlaces
      BY DEF PoolInv, Types, PoolTypeOK, WorkerPlaces
    <2>2. CASE UNCHANGED place
      BY <2>1, <2>2
    <2>3. CASE WakeAll
      BY <2>1, <2>3 DEF WakeAll
    <2>4. CASE \E w \in Workers : place[w] = "asleep" /\ Goto(w, "lock")
      <3>1. PICK w \in Workers : place[w] = "asleep" /\ Goto(w, "lock")
        BY <2>4
      <3> QED BY <2>1, <3>1 DEF Goto
    <2>5. UNCHANGED place \/ WakeAll \/ \E w \in Workers : place[w] = "asleep" /\ Goto(w, "lock")
      BY DEF InPool, NotifyAll, WaitDone, JoinAll, Returns, SpuriousWakeup
    <2> QED BY <2>2, <2>3, <2>4, <2>5
  <1>3. /\ caller' \in CallerPlaces
        /\ caller' \in {"stopping", "join", "gone"} <=> caller \in {"stopping", "join", "gone"}
        /\ caller' = "outside" => completed = generation
    BY DEF InPool, NotifyAll, WaitDone, JoinAll, Returns, SpuriousWakeup,
           PoolInv, Types, PoolTypeOK, Places, CallerPlaces
  <1>4. Inside' = Inside
    BY <1>2 DEF Inside
  <1>5. Outstanding' = Outstanding
    BY <1>1, <1>4 DEF Outstanding, Behind
  <1>6. Types'
    BY <1>1, <1>2, <1>3 DEF PoolInv, Types, PoolTypeOK
  <1>7. Places'
    BY <1>1, <1>2, <1>3, <1>4 DEF PoolInv, Places
  <1>8. Counted' /\ Current'
    BY <1>1, <1>4, <1>5 DEF PoolInv, Counted, Current, Inside
  <1>9. Taken'
    BY <1>1, <1>2 DEF PoolInv, Taken
  <1>10. Drained'
    <2>1. failed' => failed
      BY DEF InPool, NotifyAll, WaitDone, JoinAll, Returns, SpuriousWakeup
    <2> QED BY <1>1, <1>2, <2>1 DEF PoolInv, Drained
  <1> QED BY <1>6, <1>7, <1>8, <1>9, <1>10 DEF PoolInv

\* A thread looks at the generation, under the lock.
LEMMA EnterKeeps ==
    ASSUME PoolInv, NEW w \in Workers, Enter(w)
    PROVE  PoolInv'
  <1> USE DEF Goto
  <1>1. /\ place \in [Workers -> WorkerPlaces] /\ seen \in [Workers -> 0..generation] /\ generation \in Nat
        /\ place[w] = "lock"
    BY DEF Enter, PoolInv, Types, PoolTypeOK
  <1>2. /\ UNCHANGED <<generation, completed, next, count, active, failed, stop, caller, task>>
        /\ \A v \in Workers : v # w => place'[v] = place[v] /\ seen'[v] = seen[v]
        /\ place' \in [Workers -> WorkerPlaces] /\ seen' \in [Workers -> 0..generation]
    BY <1>1 DEF Enter, WorkerPlaces
  <1>3. w \notin Inside
    BY <1>1 DEF Inside
  <1>4. \/ stop /\ place'[w] = "exited" /\ seen'[w] = seen[w]
        \/ ~stop /\ w \in Behind /\ place'[w] = "take" /\ seen'[w] = generation
        \/ ~stop /\ w \notin Behind /\ place'[w] = "asleep" /\ seen'[w] = seen[w]
    BY <1>1 DEF Enter, Behind
  <1>5. Types'
    BY <1>2 DEF PoolInv, Types, PoolTypeOK
  <1>6. stop => Inside' = {}
    BY <1>2, <1>4 DEF Inside, PoolInv, Places
  <1>7. Places'
    BY <1>2, <1>4, <1>6 DEF PoolInv, Places
  <1>8. ~stop => Outstanding' = Outstanding
    BY <1>2, <1>3, <1>4 DEF Outstanding, Inside, Behind
  <1>9. Counted'
    BY <1>2, <1>8 DEF PoolInv, Counted
  <1>10. Current'
    BY <1>2, <1>4 DEF PoolInv, Current, Inside
  <1>11. Taken'
    BY <1>2, <1>4 DEF PoolInv, Taken
  <1>12. Drained'
    BY <1>1, <1>2, <1>4 DEF PoolInv, Drained, Behind
  <1> QED BY <1>5, <1>7, <1>9, <1>10, <1>11, <1>12 DEF PoolInv

\* The steps of a thread that stays in the generation.
LEMMA TaskKeeps ==
    ASSUME PoolInv, NEW w \in Workers, Take(w) \/ RunTask(w) \/ TaskThrows(w) \/ Catch(w)
    PROVE  PoolInv'
  <1> USE DEF Goto
  <1>1. /\ place \in [Workers -> WorkerPlaces] /\ task \in [Workers -> Nat]
        /\ next \in Nat /\ count \in Nat
        /\ w \in Inside
    BY DEF Take, RunTask, TaskThrows, Catch, Inside, PoolInv, Types, PoolTypeOK
  <1>2. /\ UNCHANGED <<generation, completed, count, active, stop, caller, seen>>
        /\ failed' \in BOOLEAN
        /\ next' \in Nat
        /\ task' \in [Workers -> Nat]
        /\ place' \in [Workers -> WorkerPlaces]
        /\ \A v \in Workers : v # w => place'[v] = place[v] /\ task'[v] = task[v]
        /\ place'[w] \in {"take", "run", "caught", "leave"}
    <2>1. failed \in BOOLEAN /\ {"take", "run", "caught", "leave"} \subseteq WorkerPlaces
      BY DEF PoolInv, Types, PoolTypeOK, WorkerPlaces
    <2>2. CASE Take(w)
      BY <1>1, <2>1, <2>2 DEF Take
    <2>3. CASE RunTask(w)
      BY <1>1, <2>1, <2>3 DEF RunTask
    <2>4. CASE TaskThrows(w)
      BY <1>1, <2>1, <2>4 DEF TaskThrows
    <2>5. CASE Catch(w)
      BY <1>1, <2>1, <2>5 DEF Catch
    <2> QED BY <2>2, <2>3, <2>4, <2>5
  <1>3. Inside' = Inside
    BY <1>1, <1>2 DEF Inside
  <1>4. Outstanding' = Outstanding
    BY <1>2, <1>3 DEF Outstanding, Behind
  <1>5. Types'
    BY <1>2 DEF PoolInv, Types, PoolTypeOK
  <1>6. Places'
    BY <1>2, <1>3 DEF PoolInv, Places
  <1>7. Counted' /\ Current'
    BY <1>2, <1>3, <1>4 DEF PoolInv, Counted, Current, Inside
  <1>8. Taken'
    <2>1. CASE Take(w) /\ next < count
      <3>1. next' = next + 1 /\ task'[w] = next
        BY <1>1, <2>1 DEF Take
      <3>2. \A v \in Workers : v # w /\ place'[v] = "run" => task'[v] < next /\ task'[v] < count
        BY <1>2 DEF PoolInv, Taken
      <3> QED BY <1>1, <1>2, <2>1, <3>1, <3>2 DEF PoolInv, Taken
    <2>2. CASE ~(Take(w) /\ next < count)
      <3>1. /\ place'[w] # "run"
            /\ next <= next' \/ next' = count
        BY <1>1, <2>2 DEF Take, RunTask, TaskThrows, Catch
      <3> QED BY <1>1, <1>2, <3>1 DEF PoolInv, Taken
    <2> QED BY <2>1, <2>2
  <1>9. Drained'
    <2>1. CASE next >= count
      <3>1. next' >= count'
        BY <1>1, <1>2, <2>1 DEF Take, RunTask, TaskThrows, Catch
      <3> QED BY <3>1 DEF Drained
    <2>2. CASE ~(next >= count) /\ Catch(w)
      <3>1. ~failed
        BY <2>2 DEF PoolInv, Drained
      <3>2. next' = count /\ count' = count
        BY <2>2, <3>1 DEF Catch
      <3> QED BY <1>1, <3>2 DEF Drained
    <2>3. CASE ~(next >= count) /\ ~Catch(w)
      <3>1. ~failed /\ failed' = failed
        BY <2>3 DEF PoolInv, Drained, Take, RunTask, TaskThrows
      <3>2. next < count
        BY <1>1, <2>3
      <3>3. place'[w] \notin {"lock", "asleep", "leave"}
        BY <1>1, <2>3, <3>2 DEF Take, RunTask, TaskThrows
      <3>4. \A v \in Workers : v # w =>
                ~(seen'[v] = generation' /\ place'[v] \in {"lock", "asleep", "leave"})
        BY <1>2, <2>3 DEF PoolInv, Drained
      <3> QED BY <3>1, <3>3, <3>4 DEF Drained
    <2> QED BY <2>1, <2>2, <2>3
  <1> QED BY <1>5, <1>6, <1>7, <1>8, <1>9 DEF PoolInv

\* A thread leaves; the last one completes the generation.
LEMMA LeaveKeeps ==
    ASSUME PoolInv, NEW w \in Workers, Leave(w)
    PROVE  PoolInv'
  <1> USE DEF Goto
  <1>1. /\ place \in [Workers -> WorkerPlaces] /\ generation \in Nat
        /\ w \in Inside /\ w \in Outstanding
        /\ ~stop /\ seen[w] = generation
    BY DEF Leave, Inside, Outstanding, PoolInv, Types, PoolTypeOK, Places, Current
  <1>2. /\ UNCHANGED <<generation, next, count, failed, stop, seen, task>>
        /\ place' \in [Workers -> WorkerPlaces]
        /\ place'[w] = "lock"
        /\ \A v \in Workers : v # w => place'[v] = place[v]
    BY <1>1 DEF Leave, WorkerPlaces
  <1>3. Inside' = Inside \ {w} /\ Outstanding' = Outstanding \ {w}
    BY <1>1, <1>2 DEF Inside, Outstanding, Behind
  <1>4. /\ active = Cardinality(Outstanding) /\ active' = active - 1
        /\ active' = Cardinality(Outstanding')
        /\ active' \in 0..Cardinality(Workers) /\ active # 0
    BY <1>1, <1>3, OutstandingSize DEF Leave, PoolInv, Counted
  <1>5. /\ completed' = IF active' = 0 THEN generation ELSE completed
        /\ completed # generation
    BY <1>1, <1>4 DEF Leave, PoolInv, Counted
  <1>6. /\ caller' \in CallerPlaces
        /\ caller # "outside" /\ caller' # "outside"
        /\ caller' \in {"stopping", "join", "gone"} <=> caller \in {"stopping", "join", "gone"}
    BY <1>5 DEF Leave, WakeCaller, PoolInv, Types, PoolTypeOK, Places, CallerPlaces
  <1>7. Types'
    BY <1>1, <1>2, <1>4, <1>5, <1>6 DEF PoolInv, Types, PoolTypeOK
  <1>8. Places'
    BY <1>1, <1>2, <1>3, <1>6 DEF PoolInv, Places
  <1>9. Counted'
    BY <1>2, <1>4, <1>5 DEF PoolInv, Counted
  <1>10. Current'
    BY <1>2, <1>3 DEF PoolInv, Current
  <1>11. Taken'
    BY <1>2 DEF PoolInv, Taken
  <1>12. Drained'
    <2>1. place[w] = "leave"
      BY DEF Leave
    <2>2. next >= count
      BY <1>1, <2>1 DEF PoolInv, Drained
    <2> QED BY <1>2, <2>2 DEF Drained
  <1> QED BY <1>7, <1>8, <1>9, <1>10, <1>11, <1>12 DEF PoolInv

-----------------------------------------------------------------------------
\* Every step of the pool keeps the invariant.
LEMMA PoolNextKeeps == PoolInv /\ [PoolNext]_poolVars => PoolInv'
  <1> SUFFICES ASSUME PoolInv, [PoolNext]_poolVars PROVE PoolInv'
    OBVIOUS
  <1>1. ASSUME NEW w \in Workers, PoolWorker(w) PROVE PoolInv'
    BY <1>1, EnterKeeps, TaskKeeps, LeaveKeeps DEF PoolWorker, InLoop
  <1>2. CASE PoolCaller
    BY <1>2, ParallelForKeeps, StopKeeps, WaitingKeeps DEF PoolCaller
  <1>3. CASE SpuriousWakeup
    BY <1>3, WaitingKeeps
  <1>4. CASE UNCHANGED poolVars
    BY <1>4 DEF poolVars, PoolInv, Types, PoolTypeOK, Places, Counted, Current, Taken, Drained,
                Outstanding, Inside, Behind
  <1> QED BY <1>1, <1>2, <1>3, <1>4 DEF PoolNext

\* What the counter of the threads means, in every state of any use of the pool.
THEOREM PoolInvariance == PoolSpec => []PoolInv
  <1> QED BY PoolInitInv, PoolNextKeeps, PTL DEF PoolSpec

\* In the pool that the caller has left, nothing is going on and nothing is left to do.
LEMMA OutsideIs ==
    ASSUME PoolInv, completed = generation, ~stop
    PROVE  Outstanding = {} /\ next >= count
  <1>1. Outstanding = {}
    BY OutstandingSize DEF PoolInv, Counted
  <1>2. PICK w \in Workers : TRUE
    <2>1. Workers # {}
      BY WorkersAssumption, FS_EmptySet
    <2> QED BY <2>1
  <1>3. place[w] \in WorkerPlaces /\ place[w] # "exited"
    BY DEF PoolInv, Types, PoolTypeOK, Places
  <1>4. seen[w] = generation /\ place[w] \in {"lock", "asleep", "leave"}
    BY <1>1, <1>3 DEF Outstanding, Inside, Behind, WorkerPlaces
  <1> QED BY <1>1, <1>4 DEF PoolInv, Drained

\* The invariant implies the property.
LEMMA NoStragglerIn == PoolInv => NoStraggler
  <1> SUFFICES ASSUME PoolInv PROVE NoStraggler
    OBVIOUS
  <1>1. PoolTypeOK
    BY DEF PoolInv, Types
  <1>2. ASSUME caller = "outside"
        PROVE  next >= count /\ \A w \in Workers : place[w] \in {"lock", "asleep"}
    <2>1. completed = generation /\ ~stop
      BY <1>2 DEF PoolInv, Places
    <2>2. Outstanding = {} /\ next >= count
      BY <2>1, OutsideIs
    <2> QED BY <1>1, <2>1, <2>2 DEF Outstanding, Inside, PoolInv, Places, PoolTypeOK, WorkerPlaces
  <1> QED BY <1>1, <1>2 DEF NoStraggler, PoolInv, Taken

\* No thread is left in a window that is over, no task is left, and none is run by two.
THEOREM Stragglers == PoolSpec => []NoStraggler
  <1> QED BY NoStragglerIn, PoolInvariance, PTL

-----------------------------------------------------------------------------
(* Parts of a text.                                                        *)

\* Two parts that follow each other.
LEMMA PartJoin ==
    ASSUME NEW text, NEW a, NEW x, NEW y, PartOf(text, a, x), PartOf(text, a + Len(x), y), Len(text) \in Nat
    PROVE  PartOf(text, a, x \o y) /\ Len(x \o y) = Len(x) + Len(y)
  <1>1. /\ a \in Nat /\ x \in Seq(Bytes) /\ y \in Seq(Bytes) /\ Len(x) \in Nat /\ Len(y) \in Nat
        /\ (a + Len(x)) + Len(y) <= Len(text)
        /\ \A i \in 1..Len(x) : x[i] = text[a + i]
        /\ \A i \in 1..Len(y) : y[i] = text[(a + Len(x)) + i]
    BY DEF PartOf, Value
  <1> DEFINE m == Len(x)
             n == Len(y)
             z == x \o y
  <1>2. /\ z \in Seq(Bytes) /\ Len(z) = m + n
        /\ \A i \in 1..(m + n) : z[i] = IF i <= m THEN x[i] ELSE y[i - m]
    BY <1>1, ConcatProperties
  <1> HIDE DEF m, n, z
  <1>3. m \in Nat /\ n \in Nat /\ a \in Nat
    BY <1>1 DEF m, n
  <1>4. ASSUME NEW i \in 1..(m + n) PROVE z[i] = text[a + i]
    <2>1. CASE i <= m
      <3>1. i \in 1..m /\ z[i] = x[i]
        BY <1>2, <1>3, <2>1
      <3> QED BY <1>1, <3>1 DEF m
    <2>2. CASE ~(i <= m)
      <3>1. i - m \in 1..n /\ (a + m) + (i - m) = a + i /\ z[i] = y[i - m]
        BY <1>2, <1>3, <2>2
      <3>2. y[i - m] = text[(a + m) + (i - m)]
        BY <1>1, <3>1 DEF m, n
      <3> QED BY <3>1, <3>2
    <2> QED BY <2>1, <2>2
  <1>5. a + (m + n) <= Len(text)
    <2>1. (a + m) + n <= Len(text)
      BY <1>1 DEF m, n
    <2> QED BY <1>3, <2>1
  <1> QED BY <1>2, <1>3, <1>4, <1>5 DEF PartOf, Value, m, n, z

\* A part of a part.
LEMMA PartWithin ==
    ASSUME NEW text, NEW a, NEW x, PartOf(text, a, x), Len(text) \in Nat,
           NEW k \in 0..Len(x), NEW j \in k..Len(x)
    PROVE  PartOf(text, a + k, SubSeq(x, k + 1, j)) /\ Len(SubSeq(x, k + 1, j)) = j - k
  <1>1. /\ a \in Nat /\ x \in Seq(Bytes) /\ Len(x) \in Nat /\ a + Len(x) <= Len(text)
        /\ \A i \in 1..Len(x) : x[i] = text[a + i] /\ x[i] \in Bytes
    BY DEF PartOf, Value
  <1> DEFINE n == Len(x)
             y == SubSeq(x, k + 1, j)
  <1>2. n \in Nat /\ k \in Nat /\ j \in Nat /\ k <= j /\ j <= n /\ k + 1 \in Int /\ j \in Int
    BY <1>1
  <1>3. /\ y \in Seq(Bytes)
        /\ Len(y) = IF k + 1 <= j THEN j - (k + 1) + 1 ELSE 0
        /\ \A i \in 1..(j - (k + 1) + 1) : y[i] = x[(k + 1) + i - 1]
    <2>1. \A i \in (k + 1)..j : x[i] \in Bytes
      BY <1>1, <1>2
    <2> QED BY <1>2, <2>1, SubSeqProperties
  <1> HIDE DEF n, y
  <1>4. Len(y) = j - k /\ j - k \in Nat
    BY <1>2, <1>3
  <1>5. ASSUME NEW i \in 1..(j - k) PROVE y[i] = text[(a + k) + i]
    <2>1. i \in 1..(j - (k + 1) + 1) /\ (k + 1) + i - 1 = k + i /\ k + i \in 1..n /\ a + (k + i) = (a + k) + i
      BY <1>1, <1>2
    <2>2. y[i] = x[k + i]
      BY <1>3, <2>1
    <2>3. x[k + i] = text[a + (k + i)]
      BY <1>1, <2>1 DEF n
    <2> QED BY <2>1, <2>2, <2>3
  <1>6. a + k \in Nat /\ (a + k) + (j - k) <= Len(text)
    <2>1. a + n <= Len(text)
      BY <1>1 DEF n
    <2> QED BY <1>1, <1>2, <2>1
  <1> QED BY <1>3, <1>4, <1>5, <1>6 DEF PartOf, Value, y

\* A text is a part of itself, and so is what there is of it from a place on.
LEMMA SliceOfText ==
    ASSUME NEW text \in Value, NEW a \in 0..Len(text), NEW n \in Nat
    PROVE  LET s == Slice(text, a + 1, a + n)
           IN  /\ PartOf(text, a, s)
               /\ Len(s) <= n
               /\ Len(s) < n => a + Len(s) = Len(text)
  <1>1. Len(text) \in Nat /\ text \in Seq(Bytes)
    BY DEF Value
  <1>2. PartOf(text, 0, text)
    <2>1. 0 + Len(text) <= Len(text) /\ \A i \in 1..Len(text) : 0 + i = i
      BY <1>1
    <2> QED BY <2>1 DEF PartOf
  <1> DEFINE l == Len(text)
             e == IF a + n < l THEN a + n ELSE l
  <1>3. l \in Nat /\ a \in 0..l
    BY <1>1
  <1>4. e \in a..l /\ e - a <= n /\ (e - a < n => a + (e - a) = l) /\ 0 + a = a
    <2> HIDE DEF l
    <2> QED BY <1>3
  <1>5. Slice(text, a + 1, a + n) = SubSeq(text, a + 1, e)
    BY DEF Slice
  <1> HIDE DEF e
  <1>6. PartOf(text, 0 + a, SubSeq(text, a + 1, e)) /\ Len(SubSeq(text, a + 1, e)) = e - a
    BY <1>1, <1>2, <1>4, PartWithin
  <1> HIDE DEF l
  <1> QED BY <1>4, <1>5, <1>6 DEF l

-----------------------------------------------------------------------------
(* The chunks of a window.                                                 *)

\* The number of chunks is a quotient.
LEMMA Division ==
    ASSUME NEW x \in Nat, NEW c \in Nat \ {0}
    PROVE  /\ x \div c \in Nat
           /\ (x \div c) * c <= x
           /\ x < (x \div c) * c + c
  OBVIOUS

\* Where the n-th chunk of a window of l bytes ends.
EndOf(n, l) == IF n * ChunkSize < l THEN n * ChunkSize ELSE l

\* Chunks follow each other from the beginning of the window to its end, and have bytes.
LEMMA EndsOfChunks ==
    ASSUME ChunkSize \in Nat \ {0}, NEW l \in Nat, l > ChunkSize
    PROVE  LET m == (l + ChunkSize - 1) \div ChunkSize
           IN  /\ m \in Nat /\ m >= 1
               /\ EndOf(0, l) = 0 /\ EndOf(m, l) = l
               /\ \A n \in 1..m : /\ (n - 1) * ChunkSize \in Nat
                                  /\ EndOf(n - 1, l) = (n - 1) * ChunkSize
                                  /\ EndOf(n - 1, l) < EndOf(n, l)
                                  /\ EndOf(n, l) \in 0..l
  <1> DEFINE c == ChunkSize
             m == (l + c - 1) \div c
  <1>1. c \in Nat /\ c >= 1 /\ l > c /\ l + c - 1 \in Nat
    OBVIOUS
  <1>2. m \in Nat /\ m * c <= l + c - 1 /\ l + c - 1 < m * c + c
    BY <1>1, Division
  <1> HIDE DEF m, c
  <1>3. m * c \in Nat /\ m * c >= l
    BY <1>1, <1>2
  <1>4. m >= 1
    <2>1. m # 0
      <3>1. 0 * c = 0
        BY <1>1
      <3> QED BY <1>1, <1>3, <3>1
    <2> QED BY <1>2, <2>1
  <1>5. EndOf(0, l) = 0 /\ EndOf(m, l) = l
    <2>1. 0 * c = 0 /\ 0 < l
      BY <1>1
    <2> QED BY <1>3, <2>1 DEF EndOf, c
  <1>6. ASSUME NEW n \in 1..m
        PROVE  /\ (n - 1) * c \in Nat
               /\ EndOf(n - 1, l) = (n - 1) * c
               /\ EndOf(n - 1, l) < EndOf(n, l)
               /\ EndOf(n, l) \in 0..l
    <2>1. n \in Nat /\ n - 1 \in Nat /\ m - 1 \in Nat /\ n - 1 <= m - 1
      BY <1>2
    <2>2. (m - 1) * c = m * c - c
      BY <1>1, <1>2
    <2>3. (n - 1) * c <= (m - 1) * c
      BY <1>1, <2>1
    <2>4. n * c = (n - 1) * c + c
      BY <1>1, <2>1
    <2>5. (n - 1) * c \in Nat /\ n * c \in Nat
      BY <1>1, <2>1
    <2> DEFINE u == (n - 1) * c
               v == n * c
    <2>6. u <= m * c - c /\ v = u + c /\ u \in Nat /\ v \in Nat
      BY <1>3, <2>2, <2>3, <2>4, <2>5
    <2>7. EndOf(n - 1, l) = (IF u < l THEN u ELSE l) /\ EndOf(n, l) = (IF v < l THEN v ELSE l)
      BY DEF EndOf, c
    <2> HIDE DEF u, v
    <2> DEFINE w == m * c
    <2>8. w \in Nat /\ w <= l + c - 1 /\ u <= w - c
      BY <1>2, <1>3, <2>6
    <2> HIDE DEF w
    <2>9. u < l
      BY <1>1, <2>6, <2>8
    <2> QED BY <1>1, <2>6, <2>7, <2>9 DEF u
  <1> QED BY <1>2, <1>4, <1>5, <1>6 DEF m, c

\* The chunks of a window: where each is in the text, and that there is one.
LEMMA ChunksAre ==
    ASSUME ChunkSize \in Nat \ {0}, NEW text, NEW w, NEW in, PartOf(text, w, in), Len(text) \in Nat,
           Len(in) > ChunkSize
    PROVE  LET cs == ChunksOf(in)
               l  == Len(in)
           IN  /\ Len(cs) \in Nat /\ Len(cs) >= 1 /\ DOMAIN cs = 1..Len(cs)
               /\ EndOf(0, l) = 0 /\ EndOf(Len(cs), l) = l
               /\ \A n \in 1..Len(cs) :
                      /\ cs[n].first = (n = 1)
                      /\ cs[n].offset = EndOf(n - 1, l) /\ cs[n].offset \in Nat
                      /\ PartOf(text, w + EndOf(n - 1, l), cs[n].bytes)
                      /\ EndOf(n - 1, l) + Len(cs[n].bytes) = EndOf(n, l)
                      /\ Len(cs[n].bytes) # 0
                      /\ EndOf(n, l) \in 0..l
  <1> DEFINE l == Len(in)
             c == ChunkSize
             m == (l + c - 1) \div c
             cs == ChunksOf(in)
  <1>1. l \in Nat /\ l > c /\ w \in Nat
    BY DEF PartOf, Value
  <1> HIDE DEF l
  <1>2. /\ m \in Nat /\ m >= 1
        /\ EndOf(0, l) = 0 /\ EndOf(m, l) = l
        /\ \A n \in 1..m : /\ (n - 1) * c \in Nat
                           /\ EndOf(n - 1, l) = (n - 1) * c
                           /\ EndOf(n - 1, l) < EndOf(n, l)
                           /\ EndOf(n, l) \in 0..l
    BY <1>1, EndsOfChunks
  <1>3. cs = [n \in 1..m |-> [bytes |-> Slice(in, (n - 1) * c + 1, n * c),
                              offset |-> (n - 1) * c, first |-> n = 1]]
    BY DEF ChunksOf, l
  <1> HIDE DEF m, cs
  <1>4. Len(cs) = m /\ DOMAIN cs = 1..m
    BY <1>2, <1>3
  <1>5. ASSUME NEW n \in 1..m
        PROVE  /\ cs[n].first = (n = 1)
               /\ cs[n].offset = EndOf(n - 1, l) /\ cs[n].offset \in Nat
               /\ PartOf(text, w + EndOf(n - 1, l), cs[n].bytes)
               /\ EndOf(n - 1, l) + Len(cs[n].bytes) = EndOf(n, l)
               /\ Len(cs[n].bytes) # 0
               /\ EndOf(n, l) \in 0..l
    <2> DEFINE k == (n - 1) * c
               j == EndOf(n, l)
    <2>1. cs[n].first = (n = 1) /\ cs[n].offset = k /\ cs[n].bytes = Slice(in, k + 1, n * c)
      BY <1>3
    <2>2. k \in Nat /\ EndOf(n - 1, l) = k /\ k < j /\ j \in 0..l
      BY <1>2
    <2>3. Slice(in, k + 1, n * c) = SubSeq(in, k + 1, j)
      BY DEF Slice, EndOf, l
    <2> HIDE DEF k, j
    <2>4. k \in 0..Len(in) /\ j \in k..Len(in) /\ j - k # 0 /\ k + (j - k) = j
      BY <1>1, <2>2 DEF l
    <2>5. PartOf(text, w + k, SubSeq(in, k + 1, j)) /\ Len(SubSeq(in, k + 1, j)) = j - k
      BY <2>4, PartWithin
    <2> QED BY <2>1, <2>2, <2>3, <2>4, <2>5 DEF j
  <1>6. /\ Len(cs) \in Nat /\ Len(cs) >= 1 /\ DOMAIN cs = 1..Len(cs)
        /\ EndOf(0, l) = 0 /\ EndOf(Len(cs), l) = l
    BY <1>2, <1>4
  <1> QED BY <1>4, <1>5, <1>6 DEF l, cs

-----------------------------------------------------------------------------
(* A chunk that is parsed from what the one before it has ended in.        *)

ChunkOf(complete, prefix, suffix, initial, ending, upto) ==
    [complete |-> complete, prefix |-> prefix, suffix |-> suffix,
     initial |-> initial, ending |-> ending, upto |-> upto]

\* The fields of a parsed chunk.
LEMMA ParsedChunkIs ==
    ASSUME NEW c, NEW s
    PROVE  LET p     == Parse(c.bytes, s)
               whole == c.first \/ s.pending_linefeed
               rest  == SubSeq(c.bytes, p.rows[1].from, p.rows[1].upto - 1)
               last  == SubSeq(c.bytes, p.row, Len(c.bytes))
           IN  /\ ~whole /\ p.rows = <<>> =>
                    ParsedChunk(c, s) = ChunkOf(<<>>, Fragment(c.bytes, c.offset), NoFragment, s, p.state, p.row - 1)
               /\ whole \/ p.rows # <<>> =>
                    ParsedChunk(c, s) =
                        ChunkOf(FieldsOf(IF whole THEN p.rows ELSE Tail(p.rows)),
                                IF whole THEN NoFragment ELSE Fragment(rest, c.offset),
                                IF p.row - 1 = Len(c.bytes) THEN NoFragment
                                ELSE Fragment(last, c.offset + (p.row - 1)),
                                s, p.state, p.row - 1)
  <1> DEFINE p     == Parse(c.bytes, s)
             whole == c.first \/ s.pending_linefeed
             rest  == SubSeq(c.bytes, p.rows[1].from, p.rows[1].upto - 1)
             last  == SubSeq(c.bytes, p.row, Len(c.bytes))
             begun == [NoChunk EXCEPT !.initial = s, !.ending = p.state, !.upto = p.row - 1]
             complete == FieldsOf(IF whole THEN p.rows ELSE Tail(p.rows))
             prefix == IF whole THEN NoFragment ELSE Fragment(rest, c.offset)
             suffix == IF p.row - 1 = Len(c.bytes) THEN NoFragment ELSE Fragment(last, c.offset + (p.row - 1))
  <1>1. ParsedChunk(c, s) =
            IF ~whole /\ p.rows = <<>> THEN [begun EXCEPT !.prefix = Fragment(c.bytes, c.offset)]
            ELSE [begun EXCEPT !.prefix = prefix, !.complete = complete, !.suffix = suffix]
    BY DEF ParsedChunk, CompletePrefix
  <1> DEFINE e == p.state
             u == p.row - 1
             whence == Fragment(c.bytes, c.offset)
  <1>2. begun = [NoChunk EXCEPT !.initial = s, !.ending = e, !.upto = u]
    OBVIOUS
  <1> HIDE DEF begun, complete, prefix, suffix, whole, rest, last, e, u, whence
  <1>3. begun = ChunkOf(<<>>, NoFragment, NoFragment, s, e, u)
    BY <1>2 DEF NoChunk, ChunkOf
  <1>4. [begun EXCEPT !.prefix = whence] = ChunkOf(<<>>, whence, NoFragment, s, e, u)
    BY <1>3 DEF ChunkOf
  <1>5. [begun EXCEPT !.prefix = prefix, !.complete = complete, !.suffix = suffix] =
            ChunkOf(complete, prefix, suffix, s, e, u)
    <2> DEFINE b1 == [begun EXCEPT !.prefix = prefix]
               b2 == [b1 EXCEPT !.complete = complete]
               b3 == [b2 EXCEPT !.suffix = suffix]
    <2>1. b1 = ChunkOf(<<>>, prefix, NoFragment, s, e, u)
      BY <1>3 DEF ChunkOf
    <2> HIDE DEF b1
    <2>2. b2 = ChunkOf(complete, prefix, NoFragment, s, e, u)
      BY <2>1 DEF ChunkOf
    <2> HIDE DEF b2
    <2>3. b3 = ChunkOf(complete, prefix, suffix, s, e, u)
      BY <2>2 DEF ChunkOf
    <2> QED BY <2>3 DEF b1, b2
  <1>6. ~whole /\ p.rows = <<>> => ParsedChunk(c, s) = ChunkOf(<<>>, whence, NoFragment, s, e, u)
    BY <1>1, <1>4 DEF whence
  <1>7. whole \/ p.rows # <<>> => ParsedChunk(c, s) = ChunkOf(complete, prefix, suffix, s, e, u)
    BY <1>1, <1>5
  <1> QED BY <1>6, <1>7 DEF complete, prefix, suffix, whole, rest, last, e, u, whence

\* Behind the first a bytes of a text, in a window that begins behind w of them, f is what
\* there is of a row that has been begun.
Pends(text, D, w, a, f) ==
    IF f.present
    THEN /\ PartOf(text, D[a].from, f.bytes)
         /\ D[a].from + Len(f.bytes) = a
         /\ f.offset \in Nat /\ D[a].from = w + f.offset
    ELSE D[a].from = a

\* The chunk c at a begins with a row; is within one; or has the rest of one.
Afresh(text, D, w, a, c, v) ==
    /\ v.prefix.present = FALSE
    /\ D[a + Len(c.bytes)].rows = D[a].rows \o WithFields(v.complete)
    /\ Pends(text, D, w, a + Len(c.bytes), v.suffix)

Amid(D, a, c, v) ==
    /\ v.prefix = Fragment(c.bytes, c.offset)
    /\ v.upto = 0
    /\ D[a + Len(c.bytes)].rows = D[a].rows
    /\ D[a + Len(c.bytes)].from = D[a].from

Completed(text, D, w, a, c, v) ==
    /\ v.upto # 0
    /\ \E x : /\ v.prefix = Fragment(x, c.offset)
              /\ PartOf(text, a, x) /\ Len(x) <= Len(c.bytes)
              /\ D[a + Len(x)].from = D[a].from
              /\ D[a + Len(c.bytes)].rows = Closed(D[a + Len(x)]) \o WithFields(v.complete)
    /\ Pends(text, D, w, a + Len(c.bytes), v.suffix)

\* A chunk at a, in the window at w, and the state that it begins in; what it is parsed to.
Chunked(text, D, w, a, c, s) ==
    /\ PartOf(text, a, c.bytes) /\ Len(c.bytes) # 0
    /\ w \in Nat /\ c.offset \in Nat /\ a = w + c.offset
    /\ c.first \in BOOLEAN
    /\ c.first => D[a].mode \in BetweenRows /\ s = Clean
    /\ ~c.first => s = StateAfter(D[a])

Understood(text, D, w, a, c, v) ==
    /\ v.ending = StateAfter(D[a + Len(c.bytes)])
    /\ v.complete \in Seq(Row)
    /\ \/ Afresh(text, D, w, a, c, v)
       \/ Amid(D, a, c, v)
       \/ Completed(text, D, w, a, c, v)

\* A chunk parsed from the state of the reader in front of it is one of the three.
LEMMA ChunkParsed ==
    ASSUME NEW text, NEW D, ReadBy(text, D), NEW w, NEW a, NEW c, NEW s, Chunked(text, D, w, a, c, s)
    PROVE  Understood(text, D, w, a, c, ParsedChunk(c, s))
  <1> SUFFICES ASSUME PartOf(text, a, c.bytes), Len(c.bytes) # 0,
                      w \in Nat, c.offset \in Nat, a = w + c.offset, c.first \in BOOLEAN,
                      c.first => D[a].mode \in BetweenRows /\ s = Clean,
                      ~c.first => s = StateAfter(D[a])
               PROVE  LET v == ParsedChunk(c, s)
                      IN  /\ v.ending = StateAfter(D[a + Len(c.bytes)])
                          /\ v.complete \in Seq(Row)
                          /\ \/ Afresh(text, D, w, a, c, v)
                             \/ Amid(D, a, c, v)
                             \/ Completed(text, D, w, a, c, v)
    BY DEF Chunked, Understood
  <1> DEFINE in == c.bytes
             v == ParsedChunk(c, s)
             p == Parse(in, s)
             h == D[a + Len(in)]
             whole == c.first \/ s.pending_linefeed
             rest == SubSeq(in, p.rows[1].from, p.rows[1].upto - 1)
             last == SubSeq(in, p.row, Len(in))
             suffix == IF p.row - 1 = Len(in) THEN NoFragment ELSE Fragment(last, c.offset + (p.row - 1))
  <1>1. /\ a \in Nat /\ Len(in) \in Nat /\ a \in 0..Len(text) /\ Len(text) \in Nat
        /\ D[a] \in Reader /\ in \in Value /\ a + Len(in) <= Len(text)
    <2>1. in \in Value /\ a \in Nat /\ a + Len(in) <= Len(text)
      BY DEF PartOf
    <2>2. Len(in) \in Nat
      BY <2>1 DEF Value
    <2> QED BY <2>1, <2>2, ReaderSteps
  <1>2. whole \in BOOLEAN /\ Starts(D, a, in, whole, s)
    <2>1. CASE c.first
      BY <2>1 DEF Starts
    <2>2. CASE ~c.first
      <3>1. s = StateAfter(D[a]) /\ D[a].mode \in Modes
        BY <1>1, <2>2, ReaderIs
      <3>2. CASE D[a].mode = "return"
        <4>1. s = Returned /\ s.pending_linefeed = TRUE
          BY <1>1, <3>1, <3>2, StateAfterIs, StateFlags
        <4>2. D[a].mode \in BetweenRows /\ whole = TRUE
          BY <3>2, <4>1 DEF BetweenRows
        <4> QED BY <4>1, <4>2 DEF Starts
      <3>3. CASE D[a].mode # "return"
        <4>1. s \in {Clean, Quoted, Doubtful}
          BY <1>1, <3>1, <3>3, StateAfterIs DEF Modes
        <4>2. s.pending_linefeed = FALSE
          BY <4>1, StateFlags
        <4>3. whole = FALSE
          BY <2>2, <4>2
        <4> QED BY <3>1, <3>3, <4>3 DEF Starts
      <3> QED BY <3>2, <3>3
    <2> QED BY <2>1, <2>2
  <1> HIDE DEF whole
  <1>3. /\ p \in Parser /\ p.in = in /\ p.row \in 1..(Len(in) + 1)
        /\ h \in Reader
        /\ p.state = StateAfter(h)
        /\ RowsAfter(D, a, whole, p, h)
        /\ Own(whole, p) => h.from = a + p.row - 1
    <2>1. ASSUME NEW b \in BOOLEAN, Starts(D, a, in, b, s)
          PROVE  /\ p \in Parser /\ p.in = in /\ p.row \in 1..(Len(in) + 1)
                 /\ h \in Reader
                 /\ p.state = StateAfter(h)
                 /\ RowsAfter(D, a, b, p, h)
                 /\ Own(b, p) => h.from = a + p.row - 1
      <3>1. PartOf(text, a, in) /\ Len(in) # 0
        OBVIOUS
      <3> HIDE DEF in
      <3>2. p \in Parser /\ p.in = in /\ p.row \in 1..(Len(in) + 1)
        BY <2>1, <3>1, ParseEnds
      <3>3. h \in Reader
        BY <2>1, <3>1, ParseEnds
      <3>4. p.state = StateAfter(h)
        BY <2>1, <3>1, ParseEnds
      <3>5. RowsAfter(D, a, b, p, h)
        BY <2>1, <3>1, ParseEnds
      <3>6. Own(b, p) => h.from = a + p.row - 1
        BY <2>1, <3>1, ParseEnds
      <3> QED BY <3>2, <3>3, <3>4, <3>5, <3>6
    <2> HIDE DEF p, h, in
    <2>2. CASE whole = TRUE
      BY <1>2, <2>1, <2>2
    <2>3. CASE whole = FALSE
      BY <1>2, <2>1, <2>3
    <2> QED BY <1>2, <2>2, <2>3
  <1>4. p.rows \in Seq(ParsedRow) /\ p.row \in Nat
    BY <1>3, ParserIs
  <1> HIDE DEF p, h
  <1>5. ASSUME Own(whole, p) PROVE Pends(text, D, w, a + Len(in), suffix)
    <2>1. h.from = a + p.row - 1
      BY <1>3, <1>5
    <2> DEFINE k == p.row - 1
    <2>2. k \in 0..Len(in) /\ k \in Nat /\ k + 1 = p.row /\ a + k = a + p.row - 1
      <3>1. ASSUME NEW i \in Nat, NEW l \in Nat, NEW b \in Nat, i \in 1..(l + 1)
            PROVE  i - 1 \in 0..l /\ i - 1 \in Nat /\ (i - 1) + 1 = i /\ b + (i - 1) = b + i - 1
        BY <3>1
      <3> QED BY <1>1, <1>3, <1>4, <3>1
    <2>3. D[a + Len(in)].from = a + k
      BY <2>1, <2>2 DEF h
    <2> HIDE DEF k
    <2>4. CASE k = Len(in)
      <3>1. suffix = NoFragment
        BY <2>4 DEF k
      <3>2. suffix.present = FALSE
        BY <3>1 DEF NoFragment
      <3> HIDE DEF suffix
      <3> QED BY <2>3, <2>4, <3>2 DEF Pends
    <2>5. CASE k # Len(in)
      <3>1. suffix = Fragment(SubSeq(in, k + 1, Len(in)), c.offset + k)
        BY <2>2, <2>5 DEF k
      <3>2. Len(in) \in k..Len(in) /\ (a + k) + (Len(in) - k) = a + Len(in)
            /\ c.offset + k \in Nat /\ a + k = w + (c.offset + k)
        <4> DEFINE l == Len(in)
                   o == c.offset
        <4>1. a \in Nat /\ l \in Nat /\ o \in Nat /\ k \in 0..l /\ a = w + o
          BY <1>1, <2>2
        <4> HIDE DEF l, o
        <4>2. l \in k..l /\ (a + k) + (l - k) = a + l /\ o + k \in Nat /\ a + k = w + (o + k)
          BY <4>1
        <4> QED BY <4>2 DEF l, o
      <3>3. /\ PartOf(text, a + k, SubSeq(in, k + 1, Len(in)))
            /\ Len(SubSeq(in, k + 1, Len(in))) = Len(in) - k
        <4>1. k \in 0..Len(in) /\ Len(in) \in k..Len(in) /\ Len(text) \in Nat /\ PartOf(text, a, in)
          BY <1>1, <2>2, <3>2
        <4> HIDE DEF in
        <4> QED BY <4>1, PartWithin
      <3>4. suffix.present = TRUE /\ suffix.bytes = SubSeq(in, k + 1, Len(in)) /\ suffix.offset = c.offset + k
        <4> HIDE DEF suffix
        <4> QED BY <3>1 DEF Fragment
      <3> HIDE DEF suffix
      <3> QED BY <2>3, <3>2, <3>3, <3>4 DEF Pends
    <2> QED BY <2>4, <2>5
  <1> HIDE DEF suffix, v
  <1>6. CASE whole
    <2>1. v = ChunkOf(FieldsOf(p.rows), NoFragment, suffix, s, p.state, p.row - 1)
      <3>1. whole = TRUE
        BY <1>6
      <3> QED BY <3>1, ParsedChunkIs DEF v, p, whole, suffix, last
    <2>2. /\ v.complete = FieldsOf(p.rows) /\ v.prefix.present = FALSE /\ v.suffix = suffix
          /\ v.initial = s /\ v.ending = p.state
      BY <2>1 DEF ChunkOf, NoFragment
    <2>3. h.rows = D[a].rows \o WithFields(FieldsOf(p.rows))
      BY <1>3, <1>6 DEF RowsAfter
    <2>4. Pends(text, D, w, a + Len(in), suffix)
      BY <1>5, <1>6 DEF Own
    <2>5. Afresh(text, D, w, a, c, v)
      BY <2>2, <2>3, <2>4 DEF Afresh, h
    <2>6. v.complete \in Seq(Row)
      BY <1>4, <2>2, FieldsOfIs
    <2> QED BY <1>3, <2>2, <2>5, <2>6 DEF h, v
  <1>7. CASE ~whole /\ p.rows = <<>>
    <2>1. v = ChunkOf(<<>>, Fragment(in, c.offset), NoFragment, s, p.state, p.row - 1)
      BY <1>7, ParsedChunkIs DEF v, p, whole
    <2>2. h.rows = D[a].rows /\ h.from = D[a].from /\ p.row - 1 = 0
      <3>1. h.rows = D[a].rows /\ h.from = D[a].from /\ p.row = 1
        BY <1>3, <1>7 DEF RowsAfter
      <3> QED BY <3>1
    <2>3. /\ v.complete = <<>> /\ v.prefix = Fragment(in, c.offset) /\ v.upto = 0
          /\ v.initial = s /\ v.ending = p.state
      BY <2>1, <2>2 DEF ChunkOf
    <2>4. Amid(D, a, c, v)
      BY <2>2, <2>3 DEF Amid, h
    <2>5. v.complete \in Seq(Row)
      BY <2>3
    <2> QED BY <1>3, <2>3, <2>4, <2>5 DEF h, v
  <1>8. CASE ~whole /\ p.rows # <<>>
    <2>1. v = ChunkOf(FieldsOf(Tail(p.rows)), Fragment(rest, c.offset), suffix, s, p.state, p.row - 1)
      BY <1>8, ParsedChunkIs DEF v, p, whole, suffix, last
    <2> DEFINE u == p.rows[1].upto
               e == D[a + u - 1]
    <2>2. /\ p.rows[1].from = 1 /\ u \in 1..(p.row - 1)
          /\ e.from = D[a].from
          /\ h.rows = Closed(e) \o WithFields(FieldsOf(Tail(p.rows)))
      BY <1>3, <1>8 DEF RowsAfter
    <2> DEFINE k == u - 1
    <2>3. k \in 0..Len(in) /\ k \in Nat /\ 0 \in 0..Len(in) /\ a + k = a + u - 1 /\ p.row - 1 # 0 /\ k <= Len(in)
          /\ k - 0 = k /\ a + 0 = a /\ 0 + 1 = 1
      <3>1. ASSUME NEW i \in Nat, NEW l \in Nat, NEW b \in Nat, i \in 1..(l + 1), NEW j \in 1..(i - 1)
            PROVE  j - 1 \in 0..l /\ j - 1 \in Nat /\ b + (j - 1) = b + j - 1 /\ i - 1 # 0 /\ j - 1 <= l
        BY <3>1
      <3> HIDE DEF u
      <3>2. k \in 0..Len(in) /\ k \in Nat /\ a + k = a + u - 1 /\ p.row - 1 # 0 /\ k <= Len(in)
        BY <1>1, <1>3, <1>4, <2>2, <3>1
      <3> QED BY <1>1, <3>2
    <2>4. rest = SubSeq(in, 1, k)
      BY <2>2
    <2> HIDE DEF rest, k, u
    <2>5. PartOf(text, a, rest) /\ Len(rest) = k
      <3>1. PartOf(text, a + 0, SubSeq(in, 0 + 1, k)) /\ Len(SubSeq(in, 0 + 1, k)) = k - 0
        <4>1. 0 \in 0..Len(in) /\ k \in 0..Len(in) /\ Len(text) \in Nat /\ PartOf(text, a, in)
          BY <1>1, <2>3
        <4> HIDE DEF in
        <4> QED BY <4>1, PartWithin
      <3> QED BY <2>3, <2>4, <3>1
    <2>6. /\ v.complete = FieldsOf(Tail(p.rows)) /\ v.prefix = Fragment(rest, c.offset) /\ v.suffix = suffix
          /\ v.initial = s /\ v.ending = p.state /\ v.upto = p.row - 1
      BY <2>1 DEF ChunkOf
    <2>7. Pends(text, D, w, a + Len(in), suffix)
      BY <1>5, <1>8 DEF Own
    <2>8. D[a + Len(rest)] = e
      BY <2>3, <2>5
    <2>9. Completed(text, D, w, a, c, v)
      <3>1. v.upto # 0
        BY <2>3, <2>6
      <3>2. /\ v.prefix = Fragment(rest, c.offset)
            /\ PartOf(text, a, rest) /\ Len(rest) <= Len(c.bytes)
            /\ D[a + Len(rest)].from = D[a].from
            /\ D[a + Len(c.bytes)].rows = Closed(D[a + Len(rest)]) \o WithFields(v.complete)
        BY <2>2, <2>3, <2>5, <2>6, <2>8 DEF h
      <3> QED BY <2>6, <2>7, <3>1, <3>2 DEF Completed
    <2>10. v.complete \in Seq(Row)
      <3>1. Tail(p.rows) \in Seq(ParsedRow)
        BY <1>4, <1>8
      <3> QED BY <2>6, <3>1, FieldsOfIs
    <2> QED BY <1>3, <2>6, <2>9, <2>10 DEF h, v
  <1> QED BY <1>6, <1>7, <1>8

-----------------------------------------------------------------------------
(* A row of several chunks.                                                *)

\* Where a is in the window at w.
Placed(w, a, o) == o \in Nat /\ a = w + o

\* A fragment has the row that a is in, up to the end of x, which is at a.
Gathered(text, D, w, a, x, j) ==
    /\ j.present = TRUE
    /\ PartOf(text, D[a].from, j.bytes)
    /\ D[a].from + Len(j.bytes) = a + Len(x)
    /\ j.offset \in Nat /\ D[a].from = w + j.offset

\* Bytes of a row are put behind what is there of it.
LEMMA JoinedIs ==
    ASSUME NEW text, Len(text) \in Nat, NEW D, NEW w \in Nat, NEW a, NEW f,
           Pends(text, D, w, a, f),
           NEW x, PartOf(text, a, x), NEW o, Placed(w, a, o), NEW j, j = Joined(f, Fragment(x, o))
    PROVE  Gathered(text, D, w, a, x, j)
  <1> DEFINE y == f.bytes \o x
  <1>0. o \in Nat /\ a = w + o
    BY DEF Placed
  <1>1. CASE ~f.present
    <2>1. j = Fragment(x, o) /\ D[a].from = a
      BY <1>1 DEF Joined, Pends
    <2>2. j.present = TRUE /\ j.bytes = x /\ j.offset = o
      BY <2>1 DEF Fragment
    <2> QED BY <1>0, <2>1, <2>2 DEF Gathered
  <1>2. CASE f.present
    <2>1. /\ PartOf(text, D[a].from, f.bytes)
          /\ D[a].from + Len(f.bytes) = a
          /\ f.offset \in Nat /\ D[a].from = w + f.offset
      BY <1>2 DEF Pends
    <2>2. j = Fragment(y, f.offset)
      BY <1>2 DEF Joined, Fragment
    <2>3. PartOf(text, D[a].from, y) /\ Len(y) = Len(f.bytes) + Len(x)
      BY <2>1, PartJoin
    <2>4. D[a].from \in Nat /\ Len(f.bytes) \in Nat /\ Len(x) \in Nat
      BY <2>1 DEF PartOf, Value
    <2> HIDE DEF y
    <2>5. j.present = TRUE /\ j.bytes = y /\ j.offset = f.offset
      BY <2>2 DEF Fragment
    <2>6. D[a].from + Len(y) = a + Len(x)
      <3> DEFINE d == D[a].from
                 l == Len(f.bytes)
                 m == Len(x)
      <3>1. d \in Nat /\ l \in Nat /\ m \in Nat /\ d + l = a /\ Len(y) = l + m
        BY <2>1, <2>3, <2>4
      <3> HIDE DEF d, l, m
      <3>2. d + (l + m) = a + m
        BY <3>1
      <3> QED BY <3>1, <3>2 DEF d, m
    <2> QED BY <2>1, <2>3, <2>5, <2>6 DEF Gathered
  <1> QED BY <1>1, <1>2

\* What begins with a row.
ParsedTo(D, a, in, p, h) ==
    /\ p \in Parser /\ p.row \in 1..(Len(in) + 1)
    /\ h.rows = D[a].rows \o WithFields(FieldsOf(p.rows))
    /\ h.from = a + p.row - 1
    /\ ClosedBy(D, a, TRUE, p, h)

\* What begins with a row is parsed to the rows the reader has behind it.
LEMMA WholeParsed ==
    ASSUME NEW text, NEW D, ReadBy(text, D), NEW a, NEW in, PartOf(text, a, in),
           D[a].mode \in BetweenRows, NEW s \in {Clean, Returned},
           NEW p, p = Parse(in, s), NEW h, h = D[a + Len(in)]
    PROVE  ParsedTo(D, a, in, p, h)
  <1>1. ASSUME NEW whole \in BOOLEAN, whole
        PROVE  ParsedTo(D, a, in, p, h)
    <2>1. Starts(D, a, in, whole, s)
      BY <1>1 DEF Starts
    <2>2. p \in Parser /\ p.row \in 1..(Len(in) + 1)
      BY <2>1, ParseEnds
    <2>3. RowsAfter(D, a, whole, p, h)
      BY <2>1, ParseEnds
    <2>4. Own(whole, p) => h.from = a + p.row - 1
      BY <2>1, ParseEnds
    <2>5. ClosedBy(D, a, whole, p, h)
      BY <2>1, ParseEnds
    <2> QED BY <1>1, <2>2, <2>3, <2>4, <2>5 DEF RowsAfter, Own, ClosedBy, ParsedTo
  <1>2. TRUE \in BOOLEAN
    OBVIOUS
  <1> QED BY <1>1, <1>2

\* A row is parsed once more, as a whole.
LEMMA MaterializedIs ==
    ASSUME NEW text, NEW D, ReadBy(text, D), NEW e \in 0..Len(text), NEW f, f.present,
           PartOf(text, D[e].from, f.bytes), D[e].from + Len(f.bytes) = e
    PROVE  /\ Materialized(f) \in Seq(Row)
           /\ D[e].rows \o WithFields(Materialized(f)) = Closed(D[e])
  <1> DEFINE k == D[e].from
             in == f.bytes
             p == Parse(in, Clean)
  <1>1. D[k].mode \in BetweenRows /\ D[k].rows = D[e].rows
    BY ReaderSound DEF Sound
  <1>2. Materialized(f) = FieldsOf(EndFeed(p))
    BY DEF Materialized
  <1>3. PartOf(text, k, in) /\ k + Len(in) = e
    OBVIOUS
  <1> HIDE DEF k, in, p
  <1>4. EndFeed(p) \in Seq(ParsedRow) /\ D[k].rows \o WithFields(FieldsOf(EndFeed(p))) = Closed(D[k + Len(in)])
    <2>1. Clean \in {Clean, Returned}
      OBVIOUS
    <2> DEFINE h == D[k + Len(in)]
    <2> HIDE DEF h
    <2>2. p = Parse(in, Clean) /\ h = D[k + Len(in)]
      BY DEF p, h
    <2>3. ParsedTo(D, k, in, p, h)
      BY <1>1, <1>3, <2>1, <2>2, WholeParsed
    <2> QED BY <2>2, <2>3 DEF ParsedTo, ClosedBy
  <1>5. FieldsOf(EndFeed(p)) \in Seq(Row)
    BY <1>4, FieldsOfIs
  <1> QED BY <1>1, <1>2, <1>3, <1>4, <1>5

\* What is pending at the end of a text is its last row.
LEMMA PendingIsLast ==
    ASSUME NEW text, NEW D, ReadBy(text, D), NEW w \in Nat, NEW f,
           Pends(text, D, w, Len(text), f)
    PROVE  /\ Materialized(f) \in Seq(Row)
           /\ D[Len(text)].rows \o WithFields(Materialized(f)) = RowsOf(text)
  <1> DEFINE e == Len(text)
  <1>1. e \in 0..Len(text) /\ RowsOf(text) = Closed(D[e]) /\ D[e] \in Reader /\ D[e].rows \in Seq(Row)
    <2>1. Len(text) \in Nat
      BY ReaderSteps
    <2>2. e \in 0..Len(text)
      BY <2>1
    <2>3. D[e] \in Reader
      BY <2>2, ReaderSteps
    <2> QED BY <2>2, <2>3, ReaderIs DEF RowsOf, ReadBy
  <1>2. CASE f.present
    <2>1. f.present /\ PartOf(text, D[e].from, f.bytes) /\ D[e].from + Len(f.bytes) = e
      BY <1>2 DEF Pends
    <2> HIDE DEF e
    <2>2. Materialized(f) \in Seq(Row) /\ D[e].rows \o WithFields(Materialized(f)) = Closed(D[e])
      BY <1>1, <2>1, MaterializedIs
    <2> QED BY <1>1, <2>2 DEF e
  <1>3. CASE ~f.present
    <2>1. D[e].from = e
      BY <1>3 DEF Pends
    <2>2. D[e].mode \in BetweenRows
      <3>1. D[D[e].from].mode \in BetweenRows
        BY <1>1, ReaderSound DEF Sound
      <3> QED BY <2>1, <3>1
    <2>3. Closed(D[e]) = D[e].rows
      BY <2>2 DEF Closed
    <2>4. Materialized(f) = <<>>
      BY <1>3 DEF Materialized
    <2>5. WithFields(<<>>) = <<>> /\ D[e].rows \o <<>> = D[e].rows /\ <<>> \in Seq(Row)
      BY <1>1, WithFieldsNone, ConcatEmptySeq
    <2> QED BY <1>1, <2>3, <2>4, <2>5
  <1> QED BY <1>2, <1>3

-----------------------------------------------------------------------------
(* A chunk that is released.                                               *)

\* What is pending, with the rest that a parsed chunk has of it; the rows and what is
\* pending when the chunk has been released.
PendingWith(f, v) == IF v.prefix.present THEN Joined(f, v.prefix) ELSE f

Throughout(v) == v.prefix.present /\ v.upto = 0

RowsPast(known, f, v) ==
    IF Throughout(v) THEN known
    ELSE known \o (IF v.prefix.present THEN Materialized(PendingWith(f, v)) ELSE <<>>) \o v.complete

PendingPast(f, v) == IF Throughout(v) THEN PendingWith(f, v) ELSE v.suffix

\* What is known of the text behind the chunk.
Known(text, D, w, b, known, f) ==
    known \in Seq(Row) /\ WithFields(known) = D[b].rows /\ Pends(text, D, w, b, f)

\* The chunk begins with a row.
LEMMA ReleasedAfresh ==
    ASSUME NEW text, NEW D, NEW w, NEW a, NEW c, NEW f, NEW known,
           Known(text, D, w, a, known, f), NEW v, v.complete \in Seq(Row), Afresh(text, D, w, a, c, v)
    PROVE  Known(text, D, w, a + Len(c.bytes), RowsPast(known, f, v), PendingPast(f, v))
  <1> DEFINE rs == v.complete
             b == a + Len(c.bytes)
  <1>1. /\ v.prefix.present = FALSE
        /\ D[b].rows = D[a].rows \o WithFields(rs)
        /\ Pends(text, D, w, b, v.suffix)
    BY DEF Afresh
  <1>2. RowsPast(known, f, v) = (known \o <<>>) \o rs /\ PendingPast(f, v) = v.suffix
    BY <1>1 DEF RowsPast, PendingPast, Throughout
  <1>3. known \in Seq(Row) /\ WithFields(known) = D[a].rows
    BY DEF Known
  <1>4. rs \in Seq(Row)
    OBVIOUS
  <1> HIDE DEF rs, b
  <1>5. known \o <<>> = known
    BY <1>3, ConcatEmptySeq
  <1>6. known \o rs \in Seq(Row) /\ WithFields(known \o rs) = WithFields(known) \o WithFields(rs)
    BY <1>3, <1>4, WithFieldsJoin, ConcatProperties
  <1>7. Known(text, D, w, b, RowsPast(known, f, v), PendingPast(f, v))
    BY <1>1, <1>2, <1>3, <1>5, <1>6 DEF Known
  <1> QED BY <1>7 DEF b

\* The chunk is within one row.
LEMMA ReleasedAmid ==
    ASSUME NEW text, Len(text) \in Nat, NEW D, NEW w \in Nat, NEW a, NEW c, PartOf(text, a, c.bytes),
           c.offset \in Nat, a = w + c.offset, NEW f, NEW known,
           Known(text, D, w, a, known, f), NEW v, Amid(D, a, c, v)
    PROVE  Known(text, D, w, a + Len(c.bytes), RowsPast(known, f, v), PendingPast(f, v))
  <1> DEFINE x == c.bytes
             o == c.offset
             b == a + Len(x)
             j == Joined(f, Fragment(x, o))
  <1>1. /\ v.prefix = Fragment(x, o) /\ v.upto = 0
        /\ D[b].rows = D[a].rows /\ D[b].from = D[a].from
    BY DEF Amid
  <1>2. v.prefix.present = TRUE
    BY <1>1 DEF Fragment
  <1>3. RowsPast(known, f, v) = known /\ PendingPast(f, v) = j
    BY <1>1, <1>2 DEF RowsPast, PendingPast, Throughout, PendingWith
  <1>4. known \in Seq(Row) /\ WithFields(known) = D[a].rows /\ Pends(text, D, w, a, f)
    BY DEF Known
  <1>5. PartOf(text, a, x) /\ o \in Nat /\ a = w + o
    OBVIOUS
  <1> HIDE DEF x, o
  <1>6. /\ j.present = TRUE
        /\ PartOf(text, D[a].from, j.bytes)
        /\ D[a].from + Len(j.bytes) = a + Len(x)
        /\ j.offset \in Nat /\ D[a].from = w + j.offset
    <2>1. j = Joined(f, Fragment(x, o))
      OBVIOUS
    <2>0. Placed(w, a, o)
      BY <1>5 DEF Placed
    <2> HIDE DEF j
    <2>2. Gathered(text, D, w, a, x, j)
      BY <1>4, <1>5, <2>0, <2>1, JoinedIs
    <2> QED BY <2>2 DEF Gathered
  <1>7. Pends(text, D, w, b, j)
    <2> HIDE DEF j
    <2> QED BY <1>1, <1>6 DEF Pends, b
  <1> HIDE DEF j, b
  <1>8. Known(text, D, w, b, RowsPast(known, f, v), PendingPast(f, v))
    BY <1>1, <1>3, <1>4, <1>7 DEF Known
  <1> QED BY <1>8 DEF b, x

\* The chunk has the rest of a row that others began.
LEMMA ReleasedCompleted ==
    ASSUME NEW text, NEW D, ReadBy(text, D), NEW w \in Nat, NEW a, a \in 0..Len(text), NEW c,
           c.offset \in Nat, a = w + c.offset, NEW f, NEW known,
           Known(text, D, w, a, known, f), NEW v, v.complete \in Seq(Row), Completed(text, D, w, a, c, v)
    PROVE  Known(text, D, w, a + Len(c.bytes), RowsPast(known, f, v), PendingPast(f, v))
  <1> DEFINE rs == v.complete
             o == c.offset
             b == a + Len(c.bytes)
  <1>1. v.upto # 0 /\ Pends(text, D, w, b, v.suffix)
    BY DEF Completed
  <1>2. PICK x : /\ v.prefix = Fragment(x, o)
                 /\ PartOf(text, a, x)
                 /\ D[a + Len(x)].from = D[a].from
                 /\ D[b].rows = Closed(D[a + Len(x)]) \o WithFields(rs)
    BY DEF Completed
  <1> DEFINE j == Joined(f, Fragment(x, o))
             e == a + Len(x)
  <1>3. v.prefix.present = TRUE
    BY <1>2 DEF Fragment
  <1>4. RowsPast(known, f, v) = (known \o Materialized(j)) \o rs /\ PendingPast(f, v) = v.suffix
    BY <1>1, <1>2, <1>3 DEF RowsPast, PendingPast, Throughout, PendingWith
  <1>5. known \in Seq(Row) /\ WithFields(known) = D[a].rows /\ Pends(text, D, w, a, f)
    BY DEF Known
  <1>6. rs \in Seq(Row) /\ o \in Nat /\ a = w + o
    OBVIOUS
  <1> HIDE DEF rs, o, b
  <1>7. Len(text) \in Nat
    BY ReaderSteps
  <1>8. /\ j.present = TRUE
        /\ PartOf(text, D[a].from, j.bytes)
        /\ D[a].from + Len(j.bytes) = a + Len(x)
    <2>1. j = Joined(f, Fragment(x, o))
      OBVIOUS
    <2>0. Placed(w, a, o)
      BY <1>6 DEF Placed
    <2> HIDE DEF j
    <2>2. Gathered(text, D, w, a, x, j)
      BY <1>2, <1>5, <1>6, <1>7, <2>0, <2>1, JoinedIs
    <2> QED BY <2>2 DEF Gathered
  <1>9. e \in 0..Len(text)
    <2>1. a \in Nat /\ Len(x) \in Nat /\ a + Len(x) <= Len(text)
      BY <1>2 DEF PartOf, Value
    <2> QED BY <1>7, <2>1
  <1>10. D[e].from = D[a].from /\ D[b].rows = Closed(D[e]) \o WithFields(rs)
    BY <1>2
  <1>11. j.present /\ PartOf(text, D[e].from, j.bytes) /\ D[e].from + Len(j.bytes) = e
    BY <1>8, <1>10
  <1> HIDE DEF j, e
  <1>12. Materialized(j) \in Seq(Row) /\ D[e].rows \o WithFields(Materialized(j)) = Closed(D[e])
    BY <1>9, <1>11, MaterializedIs
  <1>13. D[e].rows = D[a].rows
    <2>1. D[D[e].from].rows = D[e].rows
      BY <1>9, ReaderSound DEF Sound
    <2>2. D[D[a].from].rows = D[a].rows
      BY ReaderSound DEF Sound
    <2> QED BY <1>10, <2>1, <2>2
  <1> DEFINE m == Materialized(j)
             all == (known \o m) \o rs
  <1>14. m \in Seq(Row)
    BY <1>12
  <1>15. all \in Seq(Row) /\ WithFields(all) = (WithFields(known) \o WithFields(m)) \o WithFields(rs)
    <2> HIDE DEF m
    <2>1. (known \o m) \o rs \in Seq(Row)
      BY <1>5, <1>6, <1>14, ConcatProperties
    <2> DEFINE z == known \o m
    <2>2. z \in Seq(Row) /\ WithFields(z) = WithFields(known) \o WithFields(m)
      BY <1>5, <1>14, WithFieldsJoin, ConcatProperties
    <2> HIDE DEF z
    <2>4. WithFields(z \o rs) = WithFields(z) \o WithFields(rs)
      BY <1>6, <2>2, WithFieldsJoin
    <2> QED BY <2>1, <2>2, <2>4 DEF z
  <1>16. WithFields(all) = D[b].rows
    BY <1>5, <1>10, <1>12, <1>13, <1>15
  <1>17. RowsPast(known, f, v) = all
    BY <1>4
  <1> HIDE DEF all
  <1>18. Known(text, D, w, b, RowsPast(known, f, v), PendingPast(f, v))
    BY <1>1, <1>4, <1>15, <1>16, <1>17 DEF Known
  <1> QED BY <1>18 DEF b

-----------------------------------------------------------------------------
(* The invariant of the windows.                                           *)

\* The reader behind every byte of the text; where the window begins in it.
Scan == Reading(Text)

Origin == position - Len(chunk)

Typed ==
    /\ TypeOK
    /\ input \in Inputs
    /\ leftover \in Value
    /\ rows \in Seq(Row)

Calling ==
    /\ pc = "parallel" <=> caller \in {"published", "wait", "asleep"}
    /\ pc = "validate" => caller = "outside"

\* Between two windows, the rows are those of the text but for what is left over, which
\* begins with a row.
LeftOver(w) ==
    PartOf(Text, w, leftover) /\ Scan[w].mode \in BetweenRows /\ WithFields(rows) = Scan[w].rows

Resting ==
    pc = "idle" =>
        IF eof THEN WithFields(rows) = RowsOf(Text) ELSE LeftOver(position - Len(leftover))

\* A window begins with a row.
Windowed ==
    pc \in {"parallel", "validate"} =>
        /\ PartOf(Text, Origin, chunk)
        /\ Len(chunk) > ChunkSize
        /\ Scan[Origin].mode \in BetweenRows
        /\ eof => position = Len(Text)
        /\ chunks = ChunksOf(chunk)
        /\ parsed = [n \in DOMAIN chunks |-> parsed[n]]

\* A chunk is parsed from some guess, unless its task is ahead of a thread.
Guessed(n) == \E guess \in Guesses(chunks[n]) : parsed[n] = ParsedChunk(chunks[n], guess)

Ahead(t) ==
    \/ next <= t
    \/ failed
    \/ \E w \in Workers : place[w] = "caught" \/ (place[w] = "run" /\ task[w] = t)

Parsing ==
    pc = "parallel" =>
        /\ validator = Fresh
        /\ WithFields(rows) = Scan[Origin].rows
        /\ count = Len(chunks)
        /\ \A n \in DOMAIN chunks : Guessed(n) \/ Ahead(n - 1)

\* What the validator expects of a chunk is what the reader is in.
Expected(k, g) == IF k = 1 THEN Clean ELSE StateAfter(g)

UpToHere(k, a) ==
    /\ validator.expected = Expected(k, Scan[a])
    /\ Known(Text, Scan, Origin, a, rows, validator.pending)

Validating ==
    pc = "validate" =>
        /\ \A n \in DOMAIN chunks : n >= validator.chunk => Guessed(n)
        /\ UpToHere(validator.chunk, Origin + EndOf(validator.chunk - 1, Len(chunk)))

Broken == pc = "threw" => \E k \in 0..Len(Text) : WithFields(rows) = Scan[k].rows

WindowsInv ==
    PoolInv /\ Typed /\ Calling /\ Resting /\ Windowed /\ Parsing /\ Validating /\ Broken

-----------------------------------------------------------------------------
\* What is known of the text.
LEMMA InputIs ==
    ASSUME Typed
    PROVE  /\ ReadBy(Text, Scan)
           /\ ChunkSize \in Nat \ {0}
           /\ input.rows = RowsOf(Text)
           /\ Text \in Value /\ Len(Text) \in Nat
           /\ position \in 0..Len(Text)
  <1>1. input \in Inputs /\ position \in 0..Len(Text)
    BY DEF Typed, TypeOK
  <1>2. /\ input.text \in Seq(Bytes) /\ WellQuoted(input.text) /\ input.rows = RowsOf(input.text)
        /\ input.chunkSize \in Nat \ {0}
    BY <1>1, InputsAssumption
  <1>3. Text \in Value /\ Len(Text) \in Nat
    BY <1>2 DEF Text, Value
  <1>4. ReadBy(Text, Scan)
    BY <1>2 DEF Text, Scan, ReadBy
  <1> QED BY <1>1, <1>2, <1>3, <1>4 DEF Text, ChunkSize

\* The windows when nothing of them changes.
LEMMA WindowsStay ==
    ASSUME WindowsInv, UNCHANGED windowVars, PoolInv',
           caller' = caller \/ (caller \in {"published", "wait", "asleep"} /\ caller' \in {"published", "wait", "asleep"})
                            \/ (pc \notin {"parallel", "validate"} /\ caller' \notin {"published", "wait", "asleep"}),
           pc = "parallel" => count' = count /\ \A t \in Nat : t < count /\ Ahead(t) => Ahead(t)'
    PROVE  WindowsInv'
  <1>0. /\ input' = input /\ position' = position /\ leftover' = leftover /\ eof' = eof /\ serial' = serial
        /\ chunk' = chunk /\ chunks' = chunks /\ parsed' = parsed /\ validator' = validator
        /\ rows' = rows /\ pc' = pc
    BY DEF windowVars
  <1>1. Typed'
    BY <1>0 DEF WindowsInv, Typed, TypeOK, Text
  <1>2. Calling'
    BY <1>0 DEF WindowsInv, Calling
  <1>3. Resting'
    BY <1>0 DEF WindowsInv, Resting, LeftOver, Text, Scan
  <1>4. Windowed'
    <2>1. ChunksOf(chunk)' = ChunksOf(chunk)
      BY <1>0 DEF ChunksOf, ChunkSize, Slice
    <2> QED BY <1>0, <2>1 DEF WindowsInv, Windowed, Origin, ChunkSize, Text, Scan
  <1>5. Parsing'
    <2>1. ASSUME pc = "parallel"
          PROVE  /\ validator = Fresh /\ WithFields(rows) = Scan[Origin].rows /\ count' = Len(chunks)
                 /\ \A n \in DOMAIN chunks : Guessed(n) \/ Ahead(n - 1)'
      <3>1. /\ validator = Fresh /\ WithFields(rows) = Scan[Origin].rows /\ count = Len(chunks)
            /\ \A n \in DOMAIN chunks : Guessed(n) \/ Ahead(n - 1)
        BY <2>1 DEF WindowsInv, Parsing
      <3>2. chunks = ChunksOf(chunk)
        BY <2>1 DEF WindowsInv, Windowed
      <3>3. \A n \in DOMAIN chunks : n - 1 \in Nat /\ n - 1 < count
        <4>1. Len(chunk) > ChunkSize /\ PartOf(Text, Origin, chunk)
          BY <2>1 DEF WindowsInv, Windowed
        <4>2. DOMAIN ChunksOf(chunk) = 1..Len(ChunksOf(chunk)) /\ Len(ChunksOf(chunk)) \in Nat
          BY <4>1, InputIs, ChunksAre DEF WindowsInv
        <4> QED BY <3>1, <3>2, <4>2
      <3> QED BY <2>1, <3>1, <3>3
    <2>2. \A n : Guessed(n)' <=> Guessed(n)
      BY <1>0 DEF Guessed
    <2> QED BY <1>0, <2>1, <2>2 DEF Parsing, Origin, Scan, Text, Fresh
  <1>6. Validating'
    <2>1. \A n : Guessed(n)' <=> Guessed(n)
      BY <1>0 DEF Guessed
    <2>2. EndOf(validator.chunk - 1, Len(chunk))' = EndOf(validator.chunk - 1, Len(chunk))
      BY <1>0 DEF EndOf, ChunkSize
    <2> QED BY <1>0, <2>1, <2>2 DEF WindowsInv, Validating, UpToHere, Origin, Scan, Text
  <1>7. Broken'
    BY <1>0 DEF WindowsInv, Broken, Scan, Text
  <1> QED BY <1>1, <1>2, <1>3, <1>4, <1>5, <1>6, <1>7 DEF WindowsInv

-----------------------------------------------------------------------------
(* What the invariant implies.                                             *)

\* What has been read up to some byte is the beginning of what the text stands for.
LEMMA BeginningOfRows ==
    ASSUME Typed, NEW k \in 0..Len(Text), WithFields(rows) = Scan[k].rows
    PROVE  IsPrefix(WithFields(rows), RowsOf(Text))
  <1> DEFINE s == Scan[k].rows
             t == RowsOf(Text)
  <1>1. ReadBy(Text, Scan)
    BY InputIs
  <1>2. s \in Seq(Row) /\ t \in Seq(Row) /\ Begins(s, t)
    BY <1>1, RowsGrow
  <1> HIDE DEF s, t
  <1>3. Len(s) \in Nat /\ Len(t) \in Nat /\ Len(s) <= Len(t)
    BY <1>2 DEF Begins
  <1>4. SubSeq(s, 1, Len(s)) = SubSeq(t, 1, Len(s))
    BY <1>2, <1>3 DEF Begins
  <1>5. IsPrefix(s, t)
    BY <1>3, <1>4 DEF IsPrefix
  <1> QED BY <1>5 DEF s, t

\* What is known of the window and its chunks.
LEMMA EdgeIs ==
    ASSUME WindowsInv, pc \in {"parallel", "validate"}
    PROVE  /\ Origin \in Nat /\ Len(chunk) \in Nat /\ Origin + Len(chunk) = position
           /\ Len(chunks) \in Nat /\ Len(chunks) >= 1 /\ DOMAIN chunks = 1..Len(chunks)
           /\ EndOf(0, Len(chunk)) = 0 /\ EndOf(Len(chunks), Len(chunk)) = Len(chunk)
           /\ \A n \in 1..Len(chunks) :
                  /\ chunks[n].first = (n = 1)
                  /\ chunks[n].offset = EndOf(n - 1, Len(chunk)) /\ chunks[n].offset \in Nat
                  /\ PartOf(Text, Origin + EndOf(n - 1, Len(chunk)), chunks[n].bytes)
                  /\ EndOf(n - 1, Len(chunk)) + Len(chunks[n].bytes) = EndOf(n, Len(chunk))
                  /\ Len(chunks[n].bytes) # 0
                  /\ EndOf(n, Len(chunk)) \in 0..Len(chunk)
  <1>1. Typed /\ PartOf(Text, Origin, chunk) /\ Len(chunk) > ChunkSize /\ chunks = ChunksOf(chunk)
    BY DEF WindowsInv, Windowed
  <1>2. ChunkSize \in Nat \ {0} /\ Len(Text) \in Nat /\ position \in 0..Len(Text)
    BY <1>1, InputIs
  <1>3. Origin \in Nat /\ Len(chunk) \in Nat
    BY <1>1 DEF PartOf, Value
  <1>4. Origin + Len(chunk) = position
    BY <1>2, <1>3 DEF Origin
  <1>5. LET cs == ChunksOf(chunk)
            l  == Len(chunk)
        IN  /\ Len(cs) \in Nat /\ Len(cs) >= 1 /\ DOMAIN cs = 1..Len(cs)
            /\ EndOf(0, l) = 0 /\ EndOf(Len(cs), l) = l
            /\ \A n \in 1..Len(cs) :
                      /\ cs[n].first = (n = 1)
                      /\ cs[n].offset = EndOf(n - 1, l) /\ cs[n].offset \in Nat
                      /\ PartOf(Text, Origin + EndOf(n - 1, l), cs[n].bytes)
                      /\ EndOf(n - 1, l) + Len(cs[n].bytes) = EndOf(n, l)
                      /\ Len(cs[n].bytes) # 0
                      /\ EndOf(n, l) \in 0..l
    BY <1>1, <1>2, ChunksAre
  <1> QED BY <1>1, <1>3, <1>4, <1>5

\* Where the validator is in the text.
LEMMA HereIs ==
    ASSUME WindowsInv, pc = "validate"
    PROVE  /\ validator.chunk \in 1..(Len(chunks) + 1)
           /\ EndOf(validator.chunk - 1, Len(chunk)) \in 0..Len(chunk)
           /\ Origin + EndOf(validator.chunk - 1, Len(chunk)) \in 0..Len(Text)
  <1> DEFINE k == validator.chunk
             n == k - 1
             l == Len(chunk)
             e == EndOf(n, l)
  <1>1. k \in 1..(Len(chunks) + 1)
    BY DEF WindowsInv, Typed, TypeOK
  <1>2. /\ Origin \in Nat /\ l \in Nat /\ Origin + l = position /\ Len(chunks) \in Nat
        /\ EndOf(0, l) = 0 /\ \A i \in 1..Len(chunks) : EndOf(i, l) \in 0..l
    BY EdgeIs
  <1>3. position \in 0..Len(Text) /\ Len(Text) \in Nat
    BY InputIs DEF WindowsInv
  <1>4. n \in 0..Len(chunks)
    BY <1>1, <1>2
  <1> HIDE DEF n, l
  <1>5. e \in 0..l
    BY <1>2, <1>4
  <1> HIDE DEF e
  <1>6. Origin + e \in 0..Len(Text)
    BY <1>2, <1>3, <1>5
  <1> QED BY <1>1, <1>5, <1>6 DEF e, n, l

\* The invariant implies the property.
LEMMA RowsOfTextIn == WindowsInv => RowsOfText
  <1> SUFFICES ASSUME WindowsInv PROVE RowsOfText
    OBVIOUS
  <1>1. /\ ReadBy(Text, Scan) /\ input.rows = RowsOf(Text) /\ Len(Text) \in Nat
        /\ position \in 0..Len(Text) /\ Typed
    BY InputIs DEF WindowsInv
  <1>2. WithFields(rows) = RowsOf(Text) \/ \E k \in 0..Len(Text) : WithFields(rows) = Scan[k].rows
    <2>1. CASE pc = "idle"
      <3>1. IF eof THEN WithFields(rows) = RowsOf(Text) ELSE LeftOver(position - Len(leftover))
        BY <2>1 DEF WindowsInv, Resting
      <3>2. CASE ~eof
        <4>1. PartOf(Text, position - Len(leftover), leftover)
              /\ WithFields(rows) = Scan[position - Len(leftover)].rows
          BY <3>1, <3>2 DEF LeftOver
        <4>2. position - Len(leftover) \in Nat /\ Len(leftover) \in Nat
          BY <4>1 DEF PartOf, Value
        <4>3. position - Len(leftover) \in 0..Len(Text)
          BY <1>1, <4>2
        <4> QED BY <4>1, <4>3
      <3> QED BY <3>1, <3>2
    <2>2. CASE pc = "parallel"
      <3>1. WithFields(rows) = Scan[Origin].rows
        BY <2>2 DEF WindowsInv, Parsing
      <3>2. Origin \in Nat /\ Len(chunk) \in Nat /\ Origin + Len(chunk) = position
        BY <2>2, EdgeIs
      <3>3. Origin \in 0..Len(Text)
        BY <1>1, <3>2
      <3> QED BY <3>1, <3>3
    <2>3. CASE pc = "validate"
      <3> DEFINE a == Origin + EndOf(validator.chunk - 1, Len(chunk))
      <3>1. Known(Text, Scan, Origin, a, rows, validator.pending)
        BY <2>3 DEF WindowsInv, Validating, UpToHere
      <3>2. a \in 0..Len(Text)
        BY <2>3, HereIs
      <3> HIDE DEF a
      <3> QED BY <3>1, <3>2 DEF Known
    <2>4. CASE pc = "threw"
      BY <2>4 DEF WindowsInv, Broken
    <2> QED BY <1>1, <2>1, <2>2, <2>3, <2>4 DEF Typed, TypeOK
  <1>3. IsPrefix(WithFields(rows), RowsOf(Text))
    <2>1. CASE WithFields(rows) = RowsOf(Text)
      <3> DEFINE t == RowsOf(Text)
      <3>1. t \in Seq(Row)
        <4>1. 0 \in 0..Len(Text)
          BY <1>1
        <4> QED BY <1>1, <4>1, RowsGrow
      <3> HIDE DEF t
      <3>2. IsPrefix(t, t)
        BY <3>1 DEF IsPrefix
      <3> QED BY <2>1, <3>2 DEF t
    <2>2. CASE \E k \in 0..Len(Text) : WithFields(rows) = Scan[k].rows
      BY <1>1, <2>2, BeginningOfRows
    <2> QED BY <1>2, <2>1, <2>2
  <1>4. eof /\ pc = "idle" => WithFields(rows) = RowsOf(Text)
    BY DEF WindowsInv, Resting
  <1> QED BY <1>1, <1>3, <1>4 DEF RowsOfText, Typed

-----------------------------------------------------------------------------
(* Windows are read.                                                       *)

\* In the beginning nothing has been read but the head.
LEMMA WindowsInitInv == WindowsInit => WindowsInv
  <1> SUFFICES ASSUME WindowsInit PROVE WindowsInv
    OBVIOUS
  <1>1. /\ input \in Inputs /\ leftover = Slice(Text, 1, HeadSize) /\ position = Len(leftover)
        /\ eof = FALSE /\ serial = Clean /\ chunks = <<>> /\ validator = Fresh /\ rows = <<>> /\ pc = "idle"
        /\ caller = "outside"
    BY DEF WindowsInit, PoolInit, Text
  <1>2. PoolInv
    BY PoolInitInv DEF WindowsInit
  <1>3. Text \in Value /\ Len(Text) \in Nat /\ ReadBy(Text, Scan)
    <2>1. Text \in Value
      BY <1>1, InputsAssumption DEF Text, Value
    <2>2. ReadBy(Text, Scan)
      BY <1>1, InputsAssumption DEF Text, Scan, ReadBy
    <2> QED BY <2>1, <2>2, ReaderSteps
  <1>4. PartOf(Text, 0, leftover)
    <2> DEFINE a == 0
    <2>1. a \in 0..Len(Text) /\ HeadSize \in Nat /\ a + 1 = 1 /\ a + HeadSize = HeadSize
      BY <1>3, HeadAssumption
    <2>2. leftover = Slice(Text, a + 1, a + HeadSize)
      BY <1>1, <2>1
    <2> HIDE DEF a
    <2>3. PartOf(Text, a, leftover)
      BY <1>3, <2>1, <2>2, SliceOfText
    <2> QED BY <2>3 DEF a
  <1>5. leftover \in Value /\ Len(leftover) \in Nat /\ Len(leftover) <= Len(Text)
    BY <1>4 DEF PartOf, Value
  <1>6. position - Len(leftover) = 0 /\ position \in 0..Len(Text) /\ Len(leftover) <= position
    BY <1>1, <1>3, <1>5
  <1>7. Typed
    <2>1. serial \in {Clean, DFAState(FALSE, FALSE, TRUE)} /\ eof \in BOOLEAN
          /\ pc \in {"idle", "parallel", "validate", "threw"}
      BY <1>1
    <2>2. validator.chunk \in 1..(Len(chunks) + 1)
      <3>1. validator.chunk = 1 /\ Len(chunks) = 0
        BY <1>1 DEF Fresh
      <3> QED BY <3>1
    <2>3. rows \in Seq(Row)
      BY <1>1
    <2> QED BY <1>1, <1>5, <1>6, <2>1, <2>2, <2>3 DEF Typed, TypeOK
  <1>8. Calling
    BY <1>1 DEF Calling
  <1>9. Resting
    <2>1. Scan[0] = Beginning
      BY <1>3, ReaderSteps
    <2>2. Scan[0].mode \in BetweenRows /\ Scan[0].rows = <<>>
      BY <2>1 DEF Beginning, BetweenRows
    <2>3. LeftOver(0)
      BY <1>1, <1>4, <2>2, WithFieldsNone DEF LeftOver
    <2> QED BY <1>1, <1>6, <2>3 DEF Resting
  <1>10. Windowed /\ Parsing /\ Validating /\ Broken
    BY <1>1 DEF Windowed, Parsing, Validating, Broken
  <1> QED BY <1>2, <1>7, <1>8, <1>9, <1>10 DEF WindowsInv

\* What is read behind what was left.
LEMMA FilledIs ==
    ASSUME WindowsInv, pc = "idle", ~eof,
           NEW w, w = position - Len(leftover), NEW window, window = leftover \o Available
    PROVE  /\ w \in Nat /\ PartOf(Text, w, window)
           /\ Len(window) \in Nat /\ Len(Available) \in Nat
           /\ w + Len(window) = position + Len(Available)
           /\ position + Len(Available) \in 0..Len(Text)
           /\ Exhausted => position + Len(Available) = Len(Text)
           /\ Scan[w].mode \in BetweenRows /\ WithFields(rows) = Scan[w].rows
  <1>1. /\ ReadBy(Text, Scan) /\ ChunkSize \in Nat \ {0} /\ Text \in Value /\ Len(Text) \in Nat
        /\ position \in 0..Len(Text)
    BY InputIs DEF WindowsInv
  <1>2. PartOf(Text, w, leftover) /\ Scan[w].mode \in BetweenRows /\ WithFields(rows) = Scan[w].rows
    BY DEF WindowsInv, Resting, LeftOver
  <1>3. w \in Nat /\ Len(leftover) \in Nat /\ w + Len(leftover) = position
    <2>1. w \in Nat /\ Len(leftover) \in Nat
      BY <1>2 DEF PartOf, Value
    <2> QED BY <1>1, <2>1
  <1>4. ReadSize \in Nat
    <2>1. Cardinality(Workers) \in Nat
      BY WorkersAssumption, FS_CardinalityType
    <2>2. Window \in Nat
      BY <1>1, <2>1 DEF Window
    <2> QED BY <1>1, <1>3, <2>2 DEF ReadSize
  <1>5. /\ PartOf(Text, position, Available)
        /\ Len(Available) < ReadSize => position + Len(Available) = Len(Text)
    BY <1>1, <1>4, SliceOfText DEF Available
  <1>6. Len(Available) \in Nat /\ position + Len(Available) <= Len(Text)
    BY <1>5 DEF PartOf, Value
  <1>7. PartOf(Text, w, window) /\ Len(window) = Len(leftover) + Len(Available)
    <2> DEFINE y == Available
    <2>1. PartOf(Text, w + Len(leftover), y)
      BY <1>3, <1>5
    <2>2. window = leftover \o y
      OBVIOUS
    <2> HIDE DEF y
    <2> QED BY <1>1, <1>2, <2>1, <2>2, PartJoin DEF y
  <1>8. w + Len(window) = position + Len(Available)
    <2> DEFINE l == Len(leftover)
               m == Len(Available)
    <2>1. l \in Nat /\ m \in Nat /\ w + l = position /\ Len(window) = l + m
      BY <1>3, <1>6, <1>7
    <2> HIDE DEF l, m
    <2>2. w + Len(window) = position + m
      BY <1>3, <2>1
    <2> QED BY <2>2 DEF m
  <1>9. Len(window) \in Nat /\ position + Len(Available) \in 0..Len(Text)
    BY <1>1, <1>3, <1>6, <1>7
  <1>10. Exhausted => position + Len(Available) = Len(Text)
    BY <1>5 DEF Exhausted
  <1> QED BY <1>2, <1>3, <1>6, <1>7, <1>8, <1>9, <1>10

\* Nothing of the pool changes.
LEMMA PoolStays == PoolInv /\ UNCHANGED poolVars => PoolInv'
  <1>1. UNCHANGED poolVars => [PoolNext]_poolVars
    OBVIOUS
  <1> QED BY <1>1, PoolNextKeeps

\* What a parser that begins with a row has read of a window, when there is more text: the
\* rows, and where it has left the last one.
ReadOf(text, D, w, in, k, read, rest) ==
    /\ k \in 0..Len(in)
    /\ PartOf(text, w + k, rest) /\ Len(rest) = Len(in) - k
    /\ D[w + k].mode \in BetweenRows
    /\ read \in Seq(Row) /\ WithFields(read) = D[w + k].rows

\* A window that is parsed serially, with more text behind it.
LEMMA SerialIs ==
    ASSUME NEW text, NEW D, ReadBy(text, D), NEW w, NEW in, PartOf(text, w, in), D[w].mode \in BetweenRows,
           NEW s \in {Clean, Returned}, NEW p, p = Parse(in, s), NEW known \in Seq(Row),
           WithFields(known) = D[w].rows,
           NEW k, k = CompletePrefix(p)
    PROVE  ReadOf(text, D, w, in, k, known \o FieldsOf(p.rows), SubSeq(in, k + 1, Len(in)))
  <1> DEFINE e == w + Len(in)
             h == D[e]
             fs == FieldsOf(p.rows)
  <1>0. h = D[w + Len(in)]
    OBVIOUS
  <1>1. e \in 0..Len(text) /\ w \in Nat /\ Len(in) \in Nat /\ Len(text) \in Nat
    <2>1. w \in Nat /\ Len(in) \in Nat /\ w + Len(in) <= Len(text)
      BY DEF PartOf, Value
    <2>2. Len(text) \in Nat
      BY ReaderSteps
    <2> QED BY <2>1, <2>2
  <1> HIDE DEF h
  <1>2. ParsedTo(D, w, in, p, h)
    BY <1>0, WholeParsed
  <1>3. p \in Parser /\ p.row \in 1..(Len(in) + 1) /\ h.rows = D[w].rows \o WithFields(fs)
    BY <1>2 DEF ParsedTo
  <1>4. h.from = w + p.row - 1
    BY <1>2 DEF ParsedTo
  <1>5. p.row \in Nat /\ fs \in Seq(Row)
    BY <1>3, ParserIs, FieldsOfIs
  <1> HIDE DEF fs
  <1>6. k = p.row - 1 /\ k \in 0..Len(in) /\ h.from = w + k
    BY <1>1, <1>3, <1>4, <1>5 DEF CompletePrefix
  <1>7. Sound(D, e)
    BY <1>1, ReaderSound
  <1>8. D[h.from].mode \in BetweenRows /\ D[h.from].rows = h.rows
    BY <1>7 DEF Sound, h
  <1>9. /\ PartOf(text, w + k, SubSeq(in, k + 1, Len(in)))
        /\ Len(SubSeq(in, k + 1, Len(in))) = Len(in) - k
    <2> DEFINE j == Len(in)
    <2>1. j \in k..Len(in)
      BY <1>1, <1>6
    <2> HIDE DEF j
    <2>2. PartOf(text, w + k, SubSeq(in, k + 1, j))
      BY <1>1, <1>6, <2>1, PartWithin
    <2>3. Len(SubSeq(in, k + 1, j)) = j - k
      <3>1. in \in Seq(Bytes) /\ k + 1 \in 1..(j + 1) /\ j \in 0..Len(in) /\ k \in Nat /\ j \in Nat
        BY <1>1, <1>6, <2>1 DEF PartOf, Value
      <3>2. \A i \in (k + 1)..j : in[i] \in Bytes
        BY <3>1
      <3>3. Len(SubSeq(in, k + 1, j)) = IF k + 1 <= j THEN j - (k + 1) + 1 ELSE 0
        BY <3>1, <3>2, SubSeqProperties
      <3> QED BY <3>1, <3>3
    <2> QED BY <2>2, <2>3 DEF j
  <1>10. known \o fs \in Seq(Row) /\ WithFields(known \o fs) = WithFields(known) \o WithFields(fs)
    BY <1>5, WithFieldsJoin, ConcatProperties
  <1>11. WithFields(known \o fs) = D[w + k].rows
    BY <1>3, <1>6, <1>8, <1>10
  <1> QED BY <1>6, <1>8, <1>9, <1>10, <1>11 DEF fs, ReadOf

\* The same when the window reaches the end of the text.
LEMMA SerialEnds ==
    ASSUME NEW text, NEW D, ReadBy(text, D), NEW w, NEW in, PartOf(text, w, in), D[w].mode \in BetweenRows,
           w + Len(in) = Len(text),
           NEW s \in {Clean, Returned}, NEW p, p = Parse(in, s), NEW known \in Seq(Row),
           WithFields(known) = D[w].rows
    PROVE  /\ known \o FieldsOf(EndFeed(p)) \in Seq(Row)
           /\ WithFields(known \o FieldsOf(EndFeed(p))) = RowsOf(text)
  <1> DEFINE h == D[w + Len(in)]
             fs == FieldsOf(EndFeed(p))
  <1>0. h = D[w + Len(in)]
    OBVIOUS
  <1> HIDE DEF h
  <1>1. ParsedTo(D, w, in, p, h)
    BY <1>0, WholeParsed
  <1>2. EndFeed(p) \in Seq(ParsedRow) /\ D[w].rows \o WithFields(fs) = Closed(h)
    BY <1>1 DEF ParsedTo, ClosedBy
  <1>3. fs \in Seq(Row)
    BY <1>2, FieldsOfIs
  <1> HIDE DEF fs
  <1>4. known \o fs \in Seq(Row) /\ WithFields(known \o fs) = WithFields(known) \o WithFields(fs)
    BY <1>3, WithFieldsJoin, ConcatProperties
  <1>5. RowsOf(text) = Closed(h)
    BY <1>0 DEF RowsOf, ReadBy
  <1>6. WithFields(known \o fs) = RowsOf(text)
    BY <1>2, <1>4, <1>5
  <1> QED BY <1>4, <1>6 DEF fs

\* A window is parsed serially.
LEMMA NextSerialKeeps == WindowsInv /\ NextSerial => WindowsInv'
  <1> SUFFICES ASSUME WindowsInv, NextSerial PROVE WindowsInv'
    OBVIOUS
  <1> DEFINE window == leftover \o Available
             p == Parse(window, serial)
             w == position - Len(leftover)
             m == Len(Available)
             q == position + m
             k == CompletePrefix(p)
             rest == SubSeq(window, k + 1, Len(window))
  <1>1. /\ pc = "idle" /\ ~eof /\ caller = "outside"
        /\ rows' = rows \o FieldsOf(IF Exhausted THEN EndFeed(p) ELSE p.rows)
        /\ serial' = IF p.state.pending_linefeed THEN p.state ELSE Clean
        /\ leftover' = IF Exhausted THEN <<>> ELSE rest
        /\ position' = q
        /\ eof' = Exhausted
    BY DEF NextSerial
  <1>2. /\ input' = input /\ chunk' = chunk /\ chunks' = chunks /\ parsed' = parsed
        /\ validator' = validator /\ pc' = pc /\ UNCHANGED poolVars
    BY DEF NextSerial
  <1>3. /\ w \in Nat /\ PartOf(Text, w, window)
        /\ Len(window) \in Nat /\ m \in Nat
        /\ w + Len(window) = q
        /\ q \in 0..Len(Text)
        /\ Exhausted => q = Len(Text)
        /\ Scan[w].mode \in BetweenRows /\ WithFields(rows) = Scan[w].rows
    <2>1. w = position - Len(leftover) /\ window = leftover \o Available
      OBVIOUS
    <2> HIDE DEF w, window
    <2> QED BY <1>1, <2>1, FilledIs
  <1>4. /\ ReadBy(Text, Scan) /\ rows \in Seq(Row) /\ serial \in {Clean, Returned}
        /\ p = Parse(window, serial) /\ k = CompletePrefix(p)
    BY InputIs DEF WindowsInv, Typed, TypeOK, Returned
  <1>5. Text' = Text /\ Scan' = Scan
    BY <1>2 DEF Text, Scan
  <1> HIDE DEF window, w, p, m, k, q
  <1>6. /\ k \in 0..Len(window)
        /\ PartOf(Text, w + k, rest) /\ Len(rest) = Len(window) - k
        /\ Scan[w + k].mode \in BetweenRows
        /\ rows \o FieldsOf(p.rows) \in Seq(Row)
        /\ WithFields(rows \o FieldsOf(p.rows)) = Scan[w + k].rows
    <2>1. ReadOf(Text, Scan, w, window, k, rows \o FieldsOf(p.rows), rest)
      BY <1>3, <1>4, SerialIs
    <2> HIDE DEF rest
    <2> QED BY <2>1 DEF ReadOf
  <1> HIDE DEF rest
  <1>7. ASSUME Exhausted
        PROVE  /\ rows \o FieldsOf(EndFeed(p)) \in Seq(Row)
               /\ WithFields(rows \o FieldsOf(EndFeed(p))) = RowsOf(Text)
    <2>1. w + Len(window) = Len(Text)
      BY <1>3, <1>7
    <2> QED BY <1>3, <1>4, <2>1, SerialEnds
  <1>8. eof' \in BOOLEAN /\ (eof' <=> Exhausted)
    <2>1. Exhausted \in BOOLEAN
      BY DEF Exhausted
    <2> QED BY <1>1, <2>1, Zenon
  <1>9. serial' \in {Clean, Returned}
    <2>1. p.state \in States
      <3>1. p \in Parser
        <4> DEFINE h == Scan[w + Len(window)]
        <4>1. h = Scan[w + Len(window)]
          OBVIOUS
        <4> HIDE DEF h
        <4>2. ParsedTo(Scan, w, window, p, h)
          BY <1>3, <1>4, <4>1, WholeParsed
        <4> QED BY <4>2 DEF ParsedTo
      <3> QED BY <3>1, ParserIs
    <2> QED BY <1>1, <2>1, StateFlags DEF States
  <1>10. PartOf(Text, w + k, rest) /\ rest \in Value /\ Len(rest) \in Nat
         /\ q - Len(rest) = w + k /\ Len(rest) <= q
    <2>1. rest \in Value /\ Len(rest) \in Nat
      BY <1>6 DEF PartOf, Value
    <2> DEFINE r == Len(rest)
               l == Len(window)
    <2>2. r \in Nat /\ l \in Nat /\ k \in 0..l /\ r = l - k /\ w \in Nat /\ w + l = q
      BY <1>3, <1>6, <2>1
    <2> HIDE DEF r, l
    <2>3. q - r = w + k /\ r <= q
      BY <2>2
    <2> QED BY <1>6, <2>1, <2>3 DEF r
  <1>11. rows' \in Seq(Row) /\ leftover' \in Value /\ Len(leftover') <= position'
    <2>1. CASE Exhausted
      <3>1. leftover' = <<>> /\ rows' = rows \o FieldsOf(EndFeed(p))
        BY <1>1, <2>1
      <3>2. <<>> \in Value /\ Len(<<>>) = 0
        BY DEF Value
      <3> QED BY <1>1, <1>3, <1>7, <2>1, <3>1, <3>2
    <2>2. CASE ~Exhausted
      <3>1. leftover' = rest /\ rows' = rows \o FieldsOf(p.rows)
        BY <1>1, <2>2
      <3> QED BY <1>1, <1>6, <1>10, <3>1
    <2> QED BY <2>1, <2>2
  <1>12. Typed'
    BY <1>1, <1>2, <1>3, <1>5, <1>8, <1>9, <1>11 DEF WindowsInv, Typed, TypeOK, Returned
  <1>13. Calling'
    BY <1>2 DEF WindowsInv, Calling, poolVars
  <1>14. Resting'
    <2>1. CASE Exhausted
      <3>1. WithFields(rows') = RowsOf(Text)
        BY <1>1, <1>7, <2>1
      <3> QED BY <1>5, <1>8, <2>1, <3>1 DEF Resting
    <2>2. CASE ~Exhausted
      <3>1. leftover' = rest /\ rows' = rows \o FieldsOf(p.rows)
        BY <1>1, <2>2
      <3>2. (position - Len(leftover))' = w + k
        <4>1. position' - Len(leftover') = q - Len(rest)
          BY <1>1, <3>1
        <4> QED BY <1>10, <4>1
      <3>3. LeftOver(position - Len(leftover))'
        BY <1>5, <1>6, <3>1, <3>2 DEF LeftOver
      <3> QED BY <1>8, <2>2, <3>3 DEF Resting
    <2> QED BY <2>1, <2>2
  <1>15. Windowed' /\ Parsing' /\ Validating' /\ Broken'
    BY <1>1, <1>2 DEF Windowed, Parsing, Validating, Broken
  <1>16. PoolInv'
    BY <1>2, PoolStays DEF WindowsInv
  <1> QED BY <1>12, <1>13, <1>14, <1>15, <1>16 DEF WindowsInv

\* A window is cut into chunks, which are left to the threads.
LEMMA NextWindowKeeps == WindowsInv /\ NextWindow => WindowsInv'
  <1> SUFFICES ASSUME WindowsInv, NextWindow PROVE WindowsInv'
    OBVIOUS
  <1> DEFINE window == leftover \o Available
             w == position - Len(leftover)
             m == Len(Available)
             q == position + m
             cs == ChunksOf(window)
             l == Len(cs)
  <1>1. /\ pc = "idle" /\ ~eof /\ chunk' = window /\ Len(window) > ChunkSize /\ chunks' = cs
        /\ parsed' = [n \in DOMAIN cs |-> NoChunk]
        /\ ParallelFor(l)
        /\ position' = q /\ eof' = Exhausted /\ validator' = Fresh /\ pc' = "parallel"
    BY DEF NextWindow
  <1>2. input' = input /\ leftover' = leftover /\ serial' = serial /\ rows' = rows
    BY DEF NextWindow
  <1>3. /\ w \in Nat /\ PartOf(Text, w, window)
        /\ Len(window) \in Nat /\ m \in Nat
        /\ w + Len(window) = q
        /\ q \in 0..Len(Text)
        /\ Exhausted => q = Len(Text)
        /\ Scan[w].mode \in BetweenRows /\ WithFields(rows) = Scan[w].rows
    <2>1. w = position - Len(leftover) /\ window = leftover \o Available
      OBVIOUS
    <2> HIDE DEF w, window
    <2> QED BY <1>1, <2>1, FilledIs
  <1>4. Text' = Text /\ Scan' = Scan /\ ChunkSize' = ChunkSize
    BY <1>2 DEF Text, Scan, ChunkSize
  <1>5. ChunkSize \in Nat \ {0} /\ Len(Text) \in Nat /\ Typed /\ position \in 0..Len(Text)
    BY InputIs DEF WindowsInv
  <1>6. chunks' = ChunksOf(chunk)'
    BY <1>1, <1>2 DEF ChunksOf, Slice, ChunkSize
  <1>7. q >= position
    BY <1>3, <1>5
  <1> HIDE DEF window, w, m, q
  <1>8. l \in Nat /\ l >= 1 /\ DOMAIN cs = 1..l
    BY <1>1, <1>3, <1>5, ChunksAre
  <1> HIDE DEF cs
  <1>9. l \in Nat \ {0} /\ Len(chunks') = l /\ DOMAIN chunks' = 1..l
    BY <1>1, <1>8
  <1> HIDE DEF l
  <1>10. PoolInv'
    BY <1>1, <1>9, ParallelForKeeps DEF WindowsInv
  <1>11. next' = 0 /\ count' = l /\ caller' = "published"
    BY <1>1 DEF ParallelFor
  <1>12. Origin' = w
    <2>1. Origin' = q - Len(window)
      BY <1>1 DEF Origin
    <2> QED BY <1>3, <2>1
  <1>13. Typed'
    <2>1. validator'.chunk \in 1..(Len(chunks') + 1)
      <3>1. validator'.chunk = 1
        BY <1>1 DEF Fresh
      <3> QED BY <1>9, <3>1
    <2>2. leftover' \in Value /\ Len(leftover') <= position'
      <3>1. leftover \in Value /\ Len(leftover) <= position /\ Len(leftover) \in Nat
        BY <1>5 DEF Typed, TypeOK, Value
      <3>2. Len(leftover) <= q
        BY <1>3, <1>5, <1>7, <3>1
      <3> QED BY <1>1, <1>2, <3>1, <3>2
    <2>3. eof' \in BOOLEAN
      <3>1. Exhausted \in BOOLEAN
        BY DEF Exhausted
      <3> QED BY <1>1, <3>1
    <2> QED BY <1>1, <1>2, <1>3, <1>4, <1>5, <2>1, <2>2, <2>3 DEF Typed, TypeOK
  <1>14. Calling'
    BY <1>1, <1>11 DEF Calling
  <1>15. Windowed'
    <2>1. PartOf(Text, Origin, chunk)'
      BY <1>1, <1>3, <1>4, <1>12
    <2>2. (Len(chunk) > ChunkSize)' /\ (Scan[Origin].mode \in BetweenRows)'
      BY <1>1, <1>3, <1>4, <1>12
    <2>3. eof' => position' = Len(Text)'
      BY <1>1, <1>3, <1>4
    <2>4. parsed' = [n \in DOMAIN chunks' |-> parsed'[n]]
      BY <1>1
    <2> QED BY <1>6, <2>1, <2>2, <2>3, <2>4 DEF Windowed
  <1>16. Parsing'
    <2>1. \A n \in DOMAIN chunks' : Ahead(n - 1)'
      <3>1. \A n \in 1..l : 0 <= n - 1
        BY <1>9
      <3> QED BY <1>9, <1>11, <3>1 DEF Ahead
    <2> QED BY <1>1, <1>2, <1>3, <1>4, <1>9, <1>11, <1>12, <2>1 DEF Parsing, Fresh
  <1>17. Resting' /\ Validating' /\ Broken'
    BY <1>1 DEF Resting, Validating, Broken
  <1> QED BY <1>10, <1>13, <1>14, <1>15, <1>16, <1>17 DEF WindowsInv

-----------------------------------------------------------------------------
(* The threads.                                                            *)

\* A thread in the body of the loop belongs to a call of parallel_for.
LEMMA InsideParallel ==
    ASSUME WindowsInv, NEW w \in Workers, w \in Inside
    PROVE  pc = "parallel"
  <1>1. ~stop
    BY DEF WindowsInv, PoolInv, Places
  <1>2. Outstanding # {}
    BY DEF Outstanding
  <1>3. completed # generation
    BY <1>1, <1>2, OutstandingSize DEF WindowsInv, PoolInv, Counted
  <1>4. caller \notin {"outside", "stopping", "join", "gone"}
    BY <1>1, <1>3 DEF WindowsInv, PoolInv, Places
  <1>5. caller \in CallerPlaces
    BY DEF WindowsInv, PoolInv, Types, PoolTypeOK
  <1> QED BY <1>4, <1>5 DEF WindowsInv, Calling, CallerPlaces

\* A task that is ahead stays ahead until it is run.
LEMMA AheadStays ==
    ASSUME WindowsInv, NEW w \in Workers, InLoop(w) \/ TaskThrows(w), NEW t \in Nat, Ahead(t), pc = "parallel",
           t < count
    PROVE  Ahead(t)'
  <1>1. /\ next \in Nat /\ count \in Nat /\ failed \in BOOLEAN
        /\ place \in [Workers -> WorkerPlaces] /\ task \in [Workers -> Nat]
    BY DEF WindowsInv, PoolInv, Types, PoolTypeOK
  <1>2. CASE Enter(w)
    <2>1. /\ next' = next /\ failed' = failed /\ task' = task /\ place[w] = "lock"
          /\ \A v \in Workers : v # w => place'[v] = place[v]
      BY <1>1, <1>2 DEF Enter, Goto
    <2> QED BY <2>1 DEF Ahead
  <1>3. CASE Take(w)
    <2>1. /\ failed' = failed /\ next' = next + 1 /\ place[w] = "take"
          /\ \A v \in Workers : v # w => place'[v] = place[v] /\ task'[v] = task[v]
          /\ next < count => place'[w] = "run" /\ task'[w] = next
      BY <1>1, <1>3 DEF Take, Goto
    <2>2. CASE next <= t
      <3>1. CASE next = t
        BY <1>1, <2>1, <3>1 DEF Ahead
      <3>2. CASE next # t
        <4>1. next' <= t
          BY <1>1, <2>1, <2>2, <3>2
        <4> QED BY <4>1 DEF Ahead
      <3> QED BY <3>1, <3>2
    <2>3. CASE ~(next <= t)
      BY <2>1, <2>3 DEF Ahead
    <2> QED BY <2>2, <2>3
  <1>4. CASE Catch(w)
    <2>1. failed' = TRUE
      BY <1>4 DEF Catch
    <2> QED BY <2>1 DEF Ahead
  <1>5. CASE Leave(w)
    <2>1. /\ next' = next /\ failed' = failed /\ task' = task /\ place[w] = "leave"
          /\ \A v \in Workers : v # w => place'[v] = place[v]
      BY <1>1, <1>5 DEF Leave, Goto
    <2> QED BY <2>1 DEF Ahead
  <1>6. CASE TaskThrows(w)
    <2>1. place'[w] = "caught"
      BY <1>1, <1>6 DEF TaskThrows, Goto
    <2> QED BY <2>1 DEF Ahead
  <1> QED BY <1>2, <1>3, <1>4, <1>5, <1>6 DEF InLoop

\* A thread takes a step that is no task, or throws.
LEMMA LoopKeeps ==
    ASSUME WindowsInv, NEW w \in Workers, InLoop(w) \/ TaskThrows(w), UNCHANGED windowVars
    PROVE  WindowsInv'
  <1>1. PoolInv'
    BY EnterKeeps, TaskKeeps, LeaveKeeps DEF InLoop, WindowsInv
  <1>2. count' = count /\ (caller' = caller \/ (caller = "asleep" /\ caller' = "wait"))
    BY DEF InLoop, Enter, Take, Catch, Leave, WakeCaller, TaskThrows
  <1>3. pc = "parallel" => \A t \in Nat : t < count /\ Ahead(t) => Ahead(t)'
    BY AheadStays
  <1> QED BY <1>1, <1>2, <1>3, WindowsStay

\* The caller waits, or a thread is woken up without a reason.
LEMMA WaitKeeps ==
    ASSUME WindowsInv, InPool \/ SpuriousWakeup, UNCHANGED windowVars
    PROVE  WindowsInv'
  <1>1. PoolInv'
    BY WaitingKeeps DEF WindowsInv
  <1>2. /\ next' = next /\ count' = count /\ failed' = failed /\ task' = task
        /\ place \in [Workers -> WorkerPlaces]
    BY DEF InPool, NotifyAll, WaitDone, JoinAll, SpuriousWakeup, WindowsInv, PoolInv, Types, PoolTypeOK
  <1>3. \A v \in Workers : place'[v] = place[v] \/ place[v] = "asleep"
    BY <1>2 DEF InPool, NotifyAll, WakeAll, WaitDone, JoinAll, SpuriousWakeup, Goto
  <1>4. \A t \in Nat : t < count /\ Ahead(t) => Ahead(t)'
    BY <1>2, <1>3 DEF Ahead
  <1>5. \/ caller' = caller
        \/ caller \in {"published", "wait", "asleep"} /\ caller' \in {"published", "wait", "asleep"}
        \/ caller \in {"stopping", "join"} /\ caller' \in {"join", "gone"}
    BY DEF InPool, NotifyAll, WaitDone, JoinAll, SpuriousWakeup
  <1>6. caller \in {"stopping", "join"} => pc \notin {"parallel", "validate"}
    BY DEF WindowsInv, Calling
  <1> QED BY <1>1, <1>2, <1>4, <1>5, <1>6, WindowsStay

\* The reader is destroyed.
LEMMA DestroyKeeps == WindowsInv /\ Destroy => WindowsInv'
  <1> SUFFICES ASSUME WindowsInv, Destroy PROVE WindowsInv'
    OBVIOUS
  <1>1. StopWorkers /\ UNCHANGED windowVars /\ pc \notin {"parallel", "validate"}
    BY DEF Destroy
  <1>2. PoolInv'
    BY <1>1, StopKeeps DEF WindowsInv
  <1>3. caller' \notin {"published", "wait", "asleep"} /\ pc # "parallel"
    BY <1>1 DEF StopWorkers
  <1> QED BY <1>1, <1>2, <1>3, WindowsStay

\* Nothing happens.
LEMMA NothingKeeps == WindowsInv /\ UNCHANGED allVars => WindowsInv'
  <1> SUFFICES ASSUME WindowsInv, UNCHANGED allVars PROVE WindowsInv'
    OBVIOUS
  <1>1. UNCHANGED windowVars /\ UNCHANGED poolVars
    BY DEF allVars
  <1>2. PoolInv'
    BY <1>1, PoolStays DEF WindowsInv
  <1>3. caller' = caller /\ count' = count /\ next' = next /\ failed' = failed /\ place' = place /\ task' = task
    BY <1>1 DEF poolVars
  <1>4. \A t \in Nat : t < count /\ Ahead(t) => Ahead(t)'
    BY <1>3 DEF Ahead
  <1> QED BY <1>1, <1>2, <1>3, <1>4, WindowsStay

\* A thread parses its chunk.
LEMMA ParseChunkKeeps ==
    ASSUME WindowsInv, NEW w \in Workers, ParseChunk(w)
    PROVE  WindowsInv'
  <1> DEFINE n == task[w] + 1
  <1>1. PICK guess \in Guesses(chunks[n]) : parsed' = [parsed EXCEPT ![n] = ParsedChunk(chunks[n], guess)]
    BY DEF ParseChunk
  <1>2. /\ input' = input /\ position' = position /\ leftover' = leftover /\ eof' = eof /\ serial' = serial
        /\ chunk' = chunk /\ chunks' = chunks /\ validator' = validator /\ rows' = rows /\ pc' = pc
    BY DEF ParseChunk
  <1>3. /\ place[w] = "run" /\ next' = next /\ count' = count /\ failed' = failed /\ caller' = caller
        /\ task' = task
        /\ \A v \in Workers : v # w => place'[v] = place[v]
    BY DEF ParseChunk, RunTask, Goto, WindowsInv, PoolInv, Types, PoolTypeOK
  <1>4. pc = "parallel"
    BY <1>3, InsideParallel DEF Inside
  <1>5. PoolInv'
    BY TaskKeeps DEF ParseChunk, WindowsInv
  <1>6. /\ validator = Fresh /\ WithFields(rows) = Scan[Origin].rows /\ count = Len(chunks)
        /\ \A i \in DOMAIN chunks : Guessed(i) \/ Ahead(i - 1)
        /\ parsed = [i \in DOMAIN chunks |-> parsed[i]]
        /\ Len(chunks) \in Nat /\ DOMAIN chunks = 1..Len(chunks)
    BY <1>4, EdgeIs DEF WindowsInv, Parsing, Windowed
  <1>7. task[w] \in Nat /\ n \in Nat
    BY DEF WindowsInv, PoolInv, Types, PoolTypeOK
  <1> HIDE DEF n
  <1>8. parsed' = [i \in DOMAIN chunks |-> parsed'[i]]
    BY <1>1, <1>6
  <1>9. ASSUME NEW i \in DOMAIN chunks
        PROVE  Guessed(i)' \/ Ahead(i - 1)'
    <2>1. CASE i = n
      <3>1. parsed'[i] = ParsedChunk(chunks[i], guess)
        BY <1>1, <1>6, <2>1
      <3> QED BY <1>1, <1>2, <2>1, <3>1 DEF Guessed
    <2>2. CASE i # n
      <3>1. parsed'[i] = parsed[i]
        BY <1>1, <1>6, <2>2
      <3>2. Guessed(i) => Guessed(i)'
        BY <1>2, <3>1 DEF Guessed
      <3>3. task[w] # i - 1
        BY <1>6, <1>7, <2>2 DEF n
      <3>4. Ahead(i - 1) => Ahead(i - 1)'
        BY <1>3, <3>3 DEF Ahead
      <3> QED BY <1>6, <3>2, <3>4
    <2> QED BY <2>1, <2>2
  <1>10. Text' = Text /\ Scan' = Scan /\ ChunkSize' = ChunkSize /\ Origin' = Origin
    BY <1>2 DEF Text, Scan, ChunkSize, Origin
  <1>11. Typed'
    BY <1>2, <1>10 DEF WindowsInv, Typed, TypeOK
  <1>12. Calling'
    BY <1>2, <1>3 DEF WindowsInv, Calling
  <1>13. Windowed'
    <2>1. ChunksOf(chunk)' = ChunksOf(chunk)
      BY <1>2 DEF ChunksOf, ChunkSize, Slice
    <2> QED BY <1>2, <1>8, <1>10, <2>1 DEF WindowsInv, Windowed
  <1>14. Parsing'
    BY <1>2, <1>3, <1>6, <1>9, <1>10 DEF Parsing, Fresh
  <1>15. Resting' /\ Validating' /\ Broken'
    BY <1>2, <1>4 DEF Resting, Validating, Broken
  <1> QED BY <1>5, <1>11, <1>12, <1>13, <1>14, <1>15 DEF WindowsInv

\* parallel_for returns: every chunk has been parsed, unless one has thrown.
LEMMA CollectKeeps == WindowsInv /\ Collect => WindowsInv'
  <1> SUFFICES ASSUME WindowsInv, Collect PROVE WindowsInv'
    OBVIOUS
  <1>1. /\ Returns /\ caller = "wait" /\ completed = generation /\ caller' = "outside"
        /\ pc' = IF failed THEN "threw" ELSE "validate"
    BY DEF Collect, Returns
  <1>2. /\ input' = input /\ position' = position /\ leftover' = leftover /\ eof' = eof /\ serial' = serial
        /\ chunk' = chunk /\ chunks' = chunks /\ parsed' = parsed /\ validator' = validator /\ rows' = rows
    BY DEF Collect
  <1>3. pc = "parallel"
    BY <1>1 DEF WindowsInv, Calling
  <1>4. PoolInv'
    BY <1>1, WaitingKeeps DEF WindowsInv
  <1>5. Outstanding = {} /\ next >= count
    <2>1. ~stop
      BY <1>1 DEF WindowsInv, PoolInv, Places
    <2> QED BY <1>1, <2>1, OutsideIs DEF WindowsInv
  <1>6. /\ validator = Fresh /\ WithFields(rows) = Scan[Origin].rows /\ count = Len(chunks)
        /\ \A n \in DOMAIN chunks : Guessed(n) \/ Ahead(n - 1)
        /\ Len(chunks) \in Nat /\ DOMAIN chunks = 1..Len(chunks)
        /\ Origin \in Nat /\ Len(chunk) \in Nat /\ Origin + Len(chunk) = position
        /\ EndOf(0, Len(chunk)) = 0
        /\ Scan[Origin].mode \in BetweenRows
    BY <1>3, EdgeIs DEF WindowsInv, Parsing, Windowed
  <1>7. Text' = Text /\ Scan' = Scan /\ ChunkSize' = ChunkSize /\ Origin' = Origin
    BY <1>2 DEF Text, Scan, ChunkSize, Origin
  <1>8. /\ ReadBy(Text, Scan) /\ position \in 0..Len(Text) /\ Len(Text) \in Nat /\ rows \in Seq(Row)
        /\ next \in Nat
    BY InputIs DEF WindowsInv, Typed, PoolInv, Types
  <1>9. Origin \in 0..Len(Text)
    BY <1>6, <1>8
  <1>10. ASSUME ~failed, NEW n \in DOMAIN chunks
         PROVE  Guessed(n)
    <2>1. ~(next <= n - 1)
      BY <1>5, <1>6, <1>8
    <2>2. \A v \in Workers : place[v] # "caught" /\ place[v] # "run"
      BY <1>5 DEF Outstanding, Inside
    <2> QED BY <1>6, <1>10, <2>1, <2>2 DEF Ahead
  <1>11. Typed'
    <2>1. pc' \in {"idle", "parallel", "validate", "threw"}
      BY <1>1
    <2> QED BY <1>2, <1>7, <2>1 DEF WindowsInv, Typed, TypeOK
  <1>12. Calling'
    BY <1>1 DEF Calling
  <1>13. Windowed'
    <2>1. ChunksOf(chunk)' = ChunksOf(chunk)
      BY <1>2 DEF ChunksOf, ChunkSize, Slice
    <2> QED BY <1>2, <1>3, <1>7, <2>1 DEF WindowsInv, Windowed
  <1>14. Validating'
    <2> SUFFICES ASSUME ~failed PROVE Validating'
      BY <1>1 DEF Validating
    <2>1. \A n \in DOMAIN chunks : Guessed(n)'
      BY <1>2, <1>10 DEF Guessed
    <2>2. validator.chunk = 1 /\ validator.pending = NoFragment /\ validator.expected = Clean
      BY <1>6 DEF Fresh
    <2>3. Origin + EndOf(validator.chunk - 1, Len(chunk)) = Origin
      <3>1. validator.chunk - 1 = 0
        BY <2>2
      <3> QED BY <1>6, <3>1
    <2>4. validator.expected = Expected(validator.chunk, Scan[Origin])
      BY <2>2 DEF Expected
    <2>5. Known(Text, Scan, Origin, Origin, rows, validator.pending)
      <3>1. Scan[Origin].from = Origin
        BY <1>6, <1>8, <1>9, ReaderSound DEF Sound
      <3>2. NoFragment.present = FALSE
        BY DEF NoFragment
      <3> QED BY <1>6, <1>8, <2>2, <3>1, <3>2 DEF Known, Pends
    <2>6. UpToHere(validator.chunk, Origin + EndOf(validator.chunk - 1, Len(chunk)))
      BY <2>3, <2>4, <2>5 DEF UpToHere
    <2>7. UpToHere(validator.chunk, Origin + EndOf(validator.chunk - 1, Len(chunk)))'
      BY <1>2, <1>7, <2>6 DEF UpToHere, EndOf
    <2> QED BY <1>2, <2>1, <2>7 DEF Validating
  <1>15. Broken'
    BY <1>2, <1>6, <1>7, <1>9 DEF Broken
  <1>16. Resting' /\ Parsing'
    BY <1>1 DEF Resting, Parsing
  <1> QED BY <1>4, <1>11, <1>12, <1>13, <1>14, <1>15, <1>16 DEF WindowsInv

-----------------------------------------------------------------------------
(* Chunks are released, and the window ends.                               *)

\* A parsed chunk tells the state it was parsed from.
LEMMA InitialOf ==
    ASSUME NEW c, NEW s
    PROVE  ParsedChunk(c, s).initial = s
  <1> DEFINE v == ParsedChunk(c, s)
  <1>1. \E complete, prefix, suffix, ending, upto : v = ChunkOf(complete, prefix, suffix, s, ending, upto)
    <2> DEFINE p     == Parse(c.bytes, s)
               whole == c.first \/ s.pending_linefeed
               rest  == SubSeq(c.bytes, p.rows[1].from, p.rows[1].upto - 1)
               last  == SubSeq(c.bytes, p.row, Len(c.bytes))
    <2>1. ~whole /\ p.rows = <<>> =>
              v = ChunkOf(<<>>, Fragment(c.bytes, c.offset), NoFragment, s, p.state, p.row - 1)
      BY ParsedChunkIs
    <2>2. whole \/ p.rows # <<>> =>
              v = ChunkOf(FieldsOf(IF whole THEN p.rows ELSE Tail(p.rows)),
                          IF whole THEN NoFragment ELSE Fragment(rest, c.offset),
                          IF p.row - 1 = Len(c.bytes) THEN NoFragment
                          ELSE Fragment(last, c.offset + (p.row - 1)),
                          s, p.state, p.row - 1)
      BY ParsedChunkIs
    <2> HIDE DEF v, p, whole, rest, last
    <2> QED BY <2>1, <2>2
  <1> HIDE DEF v
  <1>2. PICK complete, prefix, suffix, ending, upto : v = ChunkOf(complete, prefix, suffix, s, ending, upto)
    BY <1>1
  <1>3. v.initial = s
    BY <1>2 DEF ChunkOf
  <1> QED BY <1>3 DEF v

\* A chunk that was parsed from another state than is expected is parsed again.
LEMMA ValidatedIs ==
    ASSUME NEW n, Guessed(n)
    PROVE  Validated(n) = ParsedChunk(chunks[n], validator.expected)
  <1>1. PICK guess : parsed[n] = ParsedChunk(chunks[n], guess)
    BY DEF Guessed
  <1>2. parsed[n].initial = guess
    BY <1>1, InitialOf
  <1> QED BY <1>1, <1>2 DEF Validated

\* What is known behind a chunk that has been released.
Onward(text, D, w, b, v, known, f) ==
    /\ v.ending = StateAfter(D[b])
    /\ Known(text, D, w, b, RowsPast(known, f, v), PendingPast(f, v))

\* A chunk that is released leaves what is known true behind it.
LEMMA ReleasedIs ==
    ASSUME NEW text, NEW D, ReadBy(text, D), NEW w, NEW a, NEW c, NEW s, Chunked(text, D, w, a, c, s),
           NEW v, v = ParsedChunk(c, s), NEW f, NEW known, Known(text, D, w, a, known, f)
    PROVE  Onward(text, D, w, a + Len(c.bytes), v, known, f)
  <1>0. /\ PartOf(text, a, c.bytes) /\ Len(c.bytes) # 0
        /\ w \in Nat /\ c.offset \in Nat /\ a = w + c.offset
        /\ c.first \in BOOLEAN
        /\ c.first => D[a].mode \in BetweenRows /\ s = Clean
        /\ ~c.first => s = StateAfter(D[a])
    BY DEF Chunked
  <1>1. /\ v.ending = StateAfter(D[a + Len(c.bytes)])
        /\ v.complete \in Seq(Row)
        /\ \/ Afresh(text, D, w, a, c, v)
           \/ Amid(D, a, c, v)
           \/ Completed(text, D, w, a, c, v)
    <2>1. Understood(text, D, w, a, c, v)
      BY ChunkParsed
    <2> QED BY <2>1 DEF Understood
  <1>2. Len(text) \in Nat /\ a \in 0..Len(text)
    <2>1. a \in Nat /\ Len(c.bytes) \in Nat /\ a + Len(c.bytes) <= Len(text)
      BY <1>0 DEF PartOf, Value
    <2>2. Len(text) \in Nat
      BY ReaderSteps
    <2> QED BY <2>1, <2>2
  <1>3. Known(text, D, w, a + Len(c.bytes), RowsPast(known, f, v), PendingPast(f, v))
    <2>1. CASE Afresh(text, D, w, a, c, v)
      BY <1>0, <1>1, <2>1, ReleasedAfresh
    <2>2. CASE Amid(D, a, c, v)
      BY <1>0, <1>2, <2>2, ReleasedAmid
    <2>3. CASE Completed(text, D, w, a, c, v)
      BY <1>0, <1>1, <1>2, <2>3, ReleasedCompleted
    <2> QED BY <1>1, <2>1, <2>2, <2>3
  <1> QED BY <1>1, <1>3 DEF Onward

\* A chunk is validated and released.
LEMMA ReleaseKeeps == WindowsInv /\ Release => WindowsInv'
  <1> SUFFICES ASSUME WindowsInv, Release PROVE WindowsInv'
    OBVIOUS
  <1> DEFINE k == validator.chunk
             c == chunks[k]
             s == validator.expected
             f == validator.pending
             v == Validated(k)
             e == EndOf(k - 1, Len(chunk))
             a == Origin + e
             z == EndOf(k, Len(chunk))
             b == Origin + z
  <1>1. /\ pc = "validate" /\ k <= Len(chunks)
        /\ rows' = RowsPast(rows, f, v)
        /\ validator' = [chunk |-> k + 1, pending |-> PendingPast(f, v), expected |-> v.ending]
        /\ parsed' = [parsed EXCEPT ![k] = NoChunk]
    BY DEF Release, RowsPast, PendingPast, Throughout, PendingWith
  <1>2. /\ input' = input /\ position' = position /\ leftover' = leftover /\ eof' = eof /\ serial' = serial
        /\ chunk' = chunk /\ chunks' = chunks /\ pc' = pc /\ UNCHANGED poolVars
    BY DEF Release
  <1>3. Text' = Text /\ Scan' = Scan /\ ChunkSize' = ChunkSize /\ Origin' = Origin
    BY <1>2 DEF Text, Scan, ChunkSize, Origin
  <1>4. /\ Origin \in Nat /\ Len(chunk) \in Nat /\ Len(chunks) \in Nat /\ DOMAIN chunks = 1..Len(chunks)
        /\ EndOf(0, Len(chunk)) = 0
        /\ \A n \in 1..Len(chunks) :
                  /\ chunks[n].first = (n = 1)
                  /\ chunks[n].offset = EndOf(n - 1, Len(chunk)) /\ chunks[n].offset \in Nat
                  /\ PartOf(Text, Origin + EndOf(n - 1, Len(chunk)), chunks[n].bytes)
                  /\ EndOf(n - 1, Len(chunk)) + Len(chunks[n].bytes) = EndOf(n, Len(chunk))
                  /\ Len(chunks[n].bytes) # 0
                  /\ EndOf(n, Len(chunk)) \in 0..Len(chunk)
    BY <1>1, EdgeIs
  <1>5. k \in 1..Len(chunks) /\ k \in Nat
    BY <1>1, <1>4, HereIs
  <1>6. /\ c.first = (k = 1)
        /\ c.offset = e /\ c.offset \in Nat
        /\ PartOf(Text, a, c.bytes)
        /\ e + Len(c.bytes) = z
        /\ Len(c.bytes) # 0
        /\ z \in 0..Len(chunk)
    BY <1>4, <1>5
  <1>7. /\ \A n \in DOMAIN chunks : n >= k => Guessed(n)
        /\ s = Expected(k, Scan[a])
        /\ Known(Text, Scan, Origin, a, rows, f)
    BY <1>1 DEF WindowsInv, Validating, UpToHere
  <1>8. Scan[Origin].mode \in BetweenRows /\ parsed = [n \in DOMAIN chunks |-> parsed[n]]
    BY <1>1 DEF WindowsInv, Windowed
  <1>9. v = ParsedChunk(c, s)
    <2>1. Guessed(k)
      BY <1>4, <1>5, <1>7
    <2> QED BY <2>1, ValidatedIs
  <1>10. ReadBy(Text, Scan) /\ Typed
    BY InputIs DEF WindowsInv
  <1>11. k = 1 => a = Origin
    BY <1>4
  <1>12. v = ParsedChunk(c, s) /\ a + Len(c.bytes) = b
    <2>1. e \in Nat /\ Len(c.bytes) \in Nat
      BY <1>6 DEF PartOf, Value
    <2> DEFINE l == Len(c.bytes)
    <2>2. l \in Nat /\ e + l = z
      BY <1>6, <2>1
    <2> HIDE DEF l, e, z
    <2>3. (Origin + e) + l = Origin + z
      BY <1>4, <2>1, <2>2
    <2> QED BY <1>9, <2>3 DEF l
  <1> HIDE DEF k, c, s, f, v, e, a, z, b
  <1>13. c.first \in BOOLEAN /\ (c.first => Scan[a].mode \in BetweenRows /\ s = Clean)
         /\ (~c.first => s = StateAfter(Scan[a]))
    BY <1>6, <1>7, <1>8, <1>11 DEF Expected
  <1>14. a = Origin + c.offset
    BY <1>6 DEF a
  <1>15. Onward(Text, Scan, Origin, a + Len(c.bytes), v, rows, f)
    <2>1. Chunked(Text, Scan, Origin, a, c, s)
      BY <1>4, <1>6, <1>13, <1>14 DEF Chunked
    <2> QED BY <1>7, <1>10, <1>12, <2>1, ReleasedIs
  <1>16. /\ v.ending = StateAfter(Scan[b])
         /\ Known(Text, Scan, Origin, b, rows', validator'.pending)
    BY <1>1, <1>12, <1>15 DEF Onward
  <1>17. validator'.chunk = k + 1 /\ validator'.expected = v.ending
    BY <1>1
  <1>18. Origin + EndOf(validator'.chunk - 1, Len(chunk)) = b
    <2>1. validator'.chunk - 1 = k
      BY <1>5, <1>17
    <2> QED BY <2>1 DEF b, z
  <1>19. Typed'
    <2>1. validator'.chunk \in 1..(Len(chunks) + 1)
      BY <1>4, <1>5, <1>17
    <2>2. rows' \in Seq(Row)
      BY <1>16 DEF Known
    <2> QED BY <1>2, <1>3, <1>10, <2>1, <2>2 DEF Typed, TypeOK
  <1>20. Calling'
    BY <1>2 DEF WindowsInv, Calling, poolVars
  <1>21. Windowed'
    <2>1. ChunksOf(chunk)' = ChunksOf(chunk)
      BY <1>2 DEF ChunksOf, ChunkSize, Slice
    <2>2. parsed' = [n \in DOMAIN chunks' |-> parsed'[n]]
      BY <1>1, <1>2, <1>8
    <2> QED BY <1>1, <1>2, <1>3, <2>1, <2>2 DEF WindowsInv, Windowed
  <1>22. Validating'
    <2>1. ASSUME NEW n \in DOMAIN chunks, n >= validator'.chunk
          PROVE  Guessed(n)'
      <3>1. n >= k /\ n # k
        BY <1>4, <1>5, <1>17, <2>1
      <3>2. parsed'[n] = parsed[n]
        BY <1>1, <1>8, <3>1
      <3> QED BY <1>2, <1>7, <3>1, <3>2 DEF Guessed
    <2>2. validator'.expected = Expected(validator'.chunk, Scan[b])
      <3>1. validator'.chunk # 1
        BY <1>5, <1>17
      <3> QED BY <1>16, <1>17, <3>1 DEF Expected
    <2>3. UpToHere(validator.chunk, Origin + EndOf(validator.chunk - 1, Len(chunk)))'
      <3>1. (Origin + EndOf(validator.chunk - 1, Len(chunk)))' = b
        BY <1>2, <1>3, <1>18 DEF EndOf
      <3> QED BY <1>3, <1>16, <2>2, <3>1 DEF UpToHere
    <2> QED BY <1>2, <2>1, <2>3 DEF Validating
  <1>23. Resting' /\ Parsing' /\ Broken'
    BY <1>1, <1>2 DEF Resting, Parsing, Broken
  <1>24. PoolInv'
    BY <1>2, PoolStays DEF WindowsInv
  <1> QED BY <1>19, <1>20, <1>21, <1>22, <1>23, <1>24 DEF WindowsInv

LeftBy(text, D, q, left) ==
    /\ left \in Value /\ Len(left) \in Nat /\ Len(left) <= q
    /\ PartOf(text, q - Len(left), left)
    /\ D[q - Len(left)].mode \in BetweenRows
    /\ D[q - Len(left)].rows = D[q].rows

\* What is left of a window is where the last of its rows begins.
LEMMA LeftIs ==
    ASSUME NEW text, NEW D, ReadBy(text, D), NEW w \in Nat, NEW in, PartOf(text, w, in),
           NEW f, NEW q, q = w + Len(in), Pends(text, D, w, q, f),
           NEW left, left = IF ~f.present THEN <<>> ELSE SubSeq(in, f.offset + 1, Len(in))
    PROVE  LeftBy(text, D, q, left)
  <1>1. Len(in) \in Nat /\ q \in 0..Len(text) /\ q \in Nat /\ Len(text) \in Nat
    <2>1. Len(in) \in Nat /\ w + Len(in) <= Len(text)
      BY DEF PartOf, Value
    <2>2. Len(text) \in Nat
      BY ReaderSteps
    <2> QED BY <2>1, <2>2
  <1>2. D[D[q].from].mode \in BetweenRows /\ D[D[q].from].rows = D[q].rows
    BY <1>1, ReaderSound DEF Sound
  <1>3. /\ left \in Value /\ Len(left) \in Nat /\ Len(left) <= q /\ q - Len(left) = D[q].from
        /\ PartOf(text, D[q].from, left)
    <2>1. CASE f.present
      <3> DEFINE o == f.offset
                 l == Len(in)
                 m == Len(f.bytes)
                 d == D[q].from
      <3>1. PartOf(text, d, f.bytes) /\ d + m = q /\ o \in Nat /\ d = w + o
        BY <2>1 DEF Pends
      <3>2. m \in Nat /\ l \in Nat
        BY <1>1, <3>1 DEF PartOf, Value
      <3>3. left = SubSeq(in, o + 1, l)
        BY <2>1
      <3> HIDE DEF o, m, d
      <3>4. o \in 0..l
        BY <3>1, <3>2
      <3> HIDE DEF l
      <3>5. l \in o..l /\ l = Len(in)
        BY <3>2, <3>4 DEF l
      <3>6. PartOf(text, w + o, SubSeq(in, o + 1, l))
        BY <1>1, <3>4, <3>5, PartWithin
      <3>7. Len(SubSeq(in, o + 1, l)) = l - o
        BY <1>1, <3>4, <3>5, PartWithin
      <3>8. Len(left) = l - o /\ PartOf(text, d, left)
        BY <3>1, <3>3, <3>6, <3>7
      <3>9. Len(left) \in Nat /\ Len(left) <= q /\ q - Len(left) = d
        <4> DEFINE r == Len(left)
        <4>1. m \in Nat /\ l \in Nat /\ o \in 0..l /\ r = l - o /\ d = w + o /\ d + m = q /\ q = w + l
          BY <3>1, <3>2, <3>4, <3>5, <3>8
        <4> HIDE DEF r
        <4>2. r \in Nat /\ r <= q /\ q - r = d
          BY <4>1
        <4> QED BY <4>2 DEF r
      <3>10. left \in Value
        BY <3>8 DEF PartOf
      <3> QED BY <3>8, <3>9, <3>10 DEF d
    <2>2. CASE ~f.present
      <3>1. D[q].from = q /\ left = <<>>
        BY <2>2 DEF Pends
      <3>2. <<>> \in Value /\ Len(<<>>) = 0
        BY DEF Value
      <3>3. PartOf(text, q, left)
        <4> DEFINE n == Len(left)
        <4>1. n = 0 /\ left \in Value
          BY <3>1, <3>2
        <4> HIDE DEF n
        <4>2. q \in Nat /\ q + n <= Len(text) /\ 1..n = {}
          BY <1>1, <4>1
        <4> QED BY <4>1, <4>2 DEF PartOf, n
      <3>4. Len(left) = 0 /\ left \in Value
        BY <3>1, <3>2
      <3>5. q - 0 = q /\ 0 <= q
        BY <1>1
      <3> QED BY <3>1, <3>3, <3>4, <3>5
    <2> QED BY <2>1, <2>2
  <1> QED BY <1>2, <1>3 DEF LeftBy

\* A window ends.
LEMMA EndWindowKeeps == WindowsInv /\ EndWindow => WindowsInv'
  <1> SUFFICES ASSUME WindowsInv, EndWindow PROVE WindowsInv'
    OBVIOUS
  <1> DEFINE f == validator.pending
             m == Materialized(f)
  <1>1. /\ pc = "validate" /\ validator.chunk > Len(chunks)
        /\ rows' = IF eof THEN rows \o m ELSE rows
        /\ leftover' = IF eof \/ ~f.present THEN <<>> ELSE SubSeq(chunk, f.offset + 1, Len(chunk))
        /\ pc' = "idle" /\ chunks' = <<>> /\ validator' = Fresh
    BY DEF EndWindow
  <1>2. input' = input /\ position' = position /\ eof' = eof /\ serial' = serial /\ UNCHANGED poolVars
    BY DEF EndWindow
  <1>3. Text' = Text /\ Scan' = Scan
    BY <1>2 DEF Text, Scan
  <1>4. /\ ReadBy(Text, Scan) /\ Typed /\ rows \in Seq(Row) /\ eof \in BOOLEAN
        /\ position \in 0..Len(Text) /\ Len(Text) \in Nat
    BY InputIs DEF WindowsInv, Typed, TypeOK
  <1>5. /\ PartOf(Text, Origin, chunk) /\ (eof => position = Len(Text))
        /\ Origin \in Nat /\ Len(chunk) \in Nat /\ Origin + Len(chunk) = position
        /\ Len(chunks) \in Nat /\ EndOf(Len(chunks), Len(chunk)) = Len(chunk)
    BY <1>1, EdgeIs DEF WindowsInv, Windowed
  <1>6. Known(Text, Scan, Origin, position, rows, f)
    <2>1. Known(Text, Scan, Origin, Origin + EndOf(validator.chunk - 1, Len(chunk)), rows, f)
      BY <1>1 DEF WindowsInv, Validating, UpToHere
    <2>2. validator.chunk - 1 = Len(chunks)
      <3>1. validator.chunk \in 1..(Len(chunks) + 1)
        BY <1>1, HereIs
      <3> QED BY <1>1, <1>5, <3>1
    <2>3. Origin + EndOf(validator.chunk - 1, Len(chunk)) = position
      BY <1>5, <2>2
    <2> QED BY <2>1, <2>3
  <1>7. WithFields(rows) = Scan[position].rows /\ Pends(Text, Scan, Origin, position, f)
    BY <1>6 DEF Known
  <1> HIDE DEF f, m
  <1>8. ASSUME eof
        PROVE  rows \o m \in Seq(Row) /\ WithFields(rows \o m) = RowsOf(Text)
    <2>1. Pends(Text, Scan, Origin, Len(Text), f) /\ WithFields(rows) = Scan[Len(Text)].rows
      BY <1>5, <1>7, <1>8
    <2>2. m \in Seq(Row) /\ Scan[Len(Text)].rows \o WithFields(m) = RowsOf(Text)
      BY <1>4, <1>5, <2>1, PendingIsLast DEF m
    <2>3. rows \o m \in Seq(Row) /\ WithFields(rows \o m) = WithFields(rows) \o WithFields(m)
      BY <1>4, <2>2, WithFieldsJoin, ConcatProperties
    <2> QED BY <2>1, <2>2, <2>3
  <1>9. ASSUME ~eof
        PROVE  /\ leftover' \in Value /\ Len(leftover') \in Nat /\ Len(leftover') <= position
               /\ PartOf(Text, position - Len(leftover'), leftover')
               /\ Scan[position - Len(leftover')].mode \in BetweenRows
               /\ Scan[position - Len(leftover')].rows = Scan[position].rows
    <2> DEFINE left == leftover'
               q == position
    <2>1. left = IF ~f.present THEN <<>> ELSE SubSeq(chunk, f.offset + 1, Len(chunk))
      BY <1>1, <1>9
    <2>2. q = Origin + Len(chunk) /\ Pends(Text, Scan, Origin, q, f)
      BY <1>5, <1>7
    <2> HIDE DEF left, q
    <2>3. LeftBy(Text, Scan, q, left)
      BY <1>4, <1>5, <2>1, <2>2, LeftIs
    <2> QED BY <2>3 DEF left, q, LeftBy
  <1>10. Typed'
    <2>1. leftover' \in Value /\ Len(leftover') <= position
      <3>1. CASE eof
        <4>1. leftover' = <<>> /\ <<>> \in Value /\ Len(<<>>) = 0
          BY <1>1, <3>1 DEF Value
        <4> QED BY <1>4, <4>1
      <3>2. CASE ~eof
        BY <1>9, <3>2
      <3> QED BY <3>1, <3>2
    <2>2. rows' \in Seq(Row)
      BY <1>1, <1>4, <1>8
    <2>3. validator'.chunk \in 1..(Len(chunks') + 1)
      <3>1. validator'.chunk = 1 /\ Len(chunks') = 0
        BY <1>1 DEF Fresh
      <3> QED BY <3>1
    <2> QED BY <1>1, <1>2, <1>3, <1>4, <2>1, <2>2, <2>3 DEF Typed, TypeOK
  <1>11. Calling'
    <2>1. caller' = caller /\ caller = "outside"
      BY <1>1, <1>2 DEF WindowsInv, Calling, poolVars
    <2> QED BY <1>1, <2>1 DEF Calling
  <1>12. Resting'
    <2>1. CASE eof
      BY <1>1, <1>2, <1>3, <1>8, <2>1 DEF Resting
    <2>2. CASE ~eof
      <3>1. rows' = rows
        BY <1>1, <2>2
      <3>2. LeftOver(position - Len(leftover))'
        BY <1>2, <1>3, <1>7, <1>9, <2>2, <3>1 DEF LeftOver
      <3> QED BY <1>2, <2>2, <3>2 DEF Resting
    <2> QED BY <2>1, <2>2
  <1>13. Windowed' /\ Parsing' /\ Validating' /\ Broken'
    BY <1>1 DEF Windowed, Parsing, Validating, Broken
  <1>14. PoolInv'
    BY <1>2, PoolStays DEF WindowsInv
  <1> QED BY <1>10, <1>11, <1>12, <1>13, <1>14 DEF WindowsInv

\* Every step keeps the invariant.
LEMMA WindowsNextKeeps == WindowsInv /\ [WindowsNext]_allVars => WindowsInv'
  <1> SUFFICES ASSUME WindowsInv, [WindowsNext]_allVars PROVE WindowsInv'
    OBVIOUS
  <1>1. CASE \E w \in Workers : WorkerStep(w)
    <2>1. PICK w \in Workers : WorkerStep(w)
      BY <1>1
    <2>2. CASE (InLoop(w) \/ TaskThrows(w)) /\ UNCHANGED windowVars
      BY <2>2, LoopKeeps
    <2>3. CASE ParseChunk(w)
      BY <2>3, ParseChunkKeeps
    <2> QED BY <2>1, <2>2, <2>3 DEF WorkerStep, ParseThrows
  <1>2. CASE Waiting \/ Wakeup
    <2>1. CASE (InPool \/ SpuriousWakeup) /\ UNCHANGED windowVars
      BY <2>1, WaitKeeps
    <2>2. CASE Collect
      BY <2>2, CollectKeeps
    <2> QED BY <1>2, <2>1, <2>2 DEF Waiting, Wakeup
  <1>3. CASE Release
    BY <1>3, ReleaseKeeps
  <1>4. CASE EndWindow
    BY <1>4, EndWindowKeeps
  <1>5. CASE NextSerial
    BY <1>5, NextSerialKeeps
  <1>6. CASE NextWindow
    BY <1>6, NextWindowKeeps
  <1>7. CASE Destroy
    BY <1>7, DestroyKeeps
  <1>8. CASE UNCHANGED allVars
    BY <1>8, NothingKeeps
  <1> QED BY <1>1, <1>2, <1>3, <1>4, <1>5, <1>6, <1>7, <1>8 DEF WindowsNext, CallerStep, Gone

\* The invariant holds, for every text, chunk size and number of threads.
THEOREM WindowsInvariance == WindowsSpec => []WindowsInv
  BY WindowsInitInv, WindowsNextKeeps, PTL DEF WindowsSpec

\* However the text is cut into windows and chunks, wherever they begin and whatever is
\* guessed of them, the rows are those of the text.
THEOREM WindowsRowsOfText == WindowsSpec => []RowsOfText
  BY WindowsInvariance, RowsOfTextIn, PTL

\* The threads of the reader leave a window before its rows are put together.
THEOREM WindowsStragglers == WindowsSpec => []NoStraggler
  <1>1. WindowsInv => NoStraggler
    BY NoStragglerIn DEF WindowsInv
  <1> QED BY <1>1, WindowsInvariance, PTL
=============================================================================
