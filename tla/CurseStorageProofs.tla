------------------------- MODULE CurseStorageProofs -------------------------
(***************************************************************************)
(* Theorems about a .curse file that one process writes and another reads, *)
(* for any stream of batches, any number of columns, any lengths of words, *)
(* schema and blobs, and wherever the writer stops.                        *)
(*                                                                         *)
(* The invariant says where every header and every blob is: a header at    *)
(* the sum of the sizes of the batches before it (Start), a blob at the    *)
(* sum of the lengths of the blobs before it (Ends). The writer writes and *)
(* the reader reads by sums it makes itself; that they agree is what the   *)
(* theorems rest on.                                                       *)
(***************************************************************************)
EXTENDS CurseStorage, SequenceTheorems, WellFoundedInduction, TLAPS

-----------------------------------------------------------------------------
(* Sums.                                                                   *)

\* Every nonempty set of natural numbers has a least element.
LEMMA LeastNat ==
    ASSUME NEW T, T \subseteq Nat, T # {}
    PROVE  \E x \in T : \A y \in T : x <= y
  <1>1. PICK x \in T : \A y \in T : ~(<<y, x>> \in OpToRel(<, Nat))
    BY NatLessThanWellFounded, WFMin, Zenon
  <1>2. ASSUME NEW y \in T PROVE x <= y
    <2>1. ~(y < x)
      BY <1>1 DEF OpToRel
    <2> QED BY <2>1
  <1> QED BY <1>2

\* f is the sums of the first n lengths.
IsSums(f, first, lens, n) ==
    /\ f \in [0..n -> Nat]
    /\ f = [k \in 0..n |-> IF k = 0 THEN first ELSE f[k - 1] + lens[k]]

\* There are such sums, however many lengths.
LEMMA SumsExist ==
    ASSUME NEW first \in Nat, NEW lens \in Seq(Nat), NEW n \in 0..Len(lens)
    PROVE  \E f : IsSums(f, first, lens, n)
  <1> DEFINE Bad == {m \in 0..Len(lens) : ~\E f : IsSums(f, first, lens, m)}
  <1>1. SUFFICES ASSUME Bad # {} PROVE FALSE
    OBVIOUS
  <1>2. PICK m \in Bad : \A k \in Bad : m <= k
    <2>1. Bad \subseteq Nat
      OBVIOUS
    <2> QED BY <1>1, <2>1, LeastNat
  <1>3. m # 0
    <2>1. IsSums([k \in 0..0 |-> first], first, lens, 0)
      BY DEF IsSums
    <2> QED BY <2>1
  <1>4. PICK f : IsSums(f, first, lens, m - 1)
    BY <1>2, <1>3
  <1>5. lens[m] \in Nat /\ m \in Nat \ {0}
    BY <1>2, <1>3
  <1> DEFINE g == [k \in 0..m |-> IF k = m THEN f[m - 1] + lens[m] ELSE f[k]]
  <1>6. IsSums(g, first, lens, m)
    <2>1. /\ f \in [0..(m - 1) -> Nat]
          /\ \A k \in 0..(m - 1) : f[k] = IF k = 0 THEN first ELSE f[k - 1] + lens[k]
      BY <1>4 DEF IsSums
    <2>2. g \in [0..m -> Nat]
      BY <1>5, <2>1
    <2>3. ASSUME NEW k \in 0..m PROVE g[k] = IF k = 0 THEN first ELSE g[k - 1] + lens[k]
      <3>1. CASE k = m
        <4>1. g[m] = f[m - 1] + lens[m] /\ g[m - 1] = f[m - 1]
          BY <1>5
        <4> QED BY <1>5, <3>1, <4>1
      <3>2. CASE k # m
        <4>1. k \in 0..(m - 1) /\ g[k] = f[k] /\ (k # 0 => g[k - 1] = f[k - 1])
          BY <1>5, <3>2
        <4> QED BY <2>1, <4>1
      <3> QED BY <3>1, <3>2
    <2> HIDE DEF g
    <2> QED BY <2>2, <2>3 DEF IsSums
  <1> QED BY <1>2, <1>6

\* The recursive function is defined and adds up natural numbers.
LEMMA SumsDef ==
    ASSUME NEW first \in Nat, NEW lens \in Seq(Nat)
    PROVE  /\ Sums(first, lens) \in [0..Len(lens) -> Nat]
           /\ Sums(first, lens)[0] = first
           /\ \A k \in 1..Len(lens) : Sums(first, lens)[k] = Sums(first, lens)[k - 1] + lens[k]
  <1> DEFINE g == Sums(first, lens)
  <1>1. PICK f : IsSums(f, first, lens, Len(lens))
    BY SumsExist
  <1>2. g = [k \in 0..Len(lens) |-> IF k = 0 THEN first ELSE g[k - 1] + lens[k]]
    BY <1>1 DEF Sums, IsSums
  <1> HIDE DEF g
  <1>3. \A k \in 0..Len(lens) : g[k] \in Nat
    <2> DEFINE Bad == {m \in 0..Len(lens) : g[m] \notin Nat}
    <2>1. SUFFICES ASSUME Bad # {} PROVE FALSE
      OBVIOUS
    <2>2. PICK m \in Bad : \A k \in Bad : m <= k
      <3>1. Bad \subseteq Nat
        OBVIOUS
      <3> QED BY <2>1, <3>1, LeastNat
    <2>3. m # 0
      BY <1>2
    <2>4. g[m - 1] \in Nat /\ lens[m] \in Nat
      BY <2>2, <2>3
    <2>5. g[m] = g[m - 1] + lens[m]
      BY <1>2, <2>3
    <2> QED BY <2>4, <2>5
  <1>4. Len(lens) \in Nat
    OBVIOUS
  <1>5. g \in [0..Len(lens) -> Nat]
    BY <1>2, <1>3
  <1>6. g[0] = first
    BY <1>2, <1>4
  <1>7. \A k \in 1..Len(lens) : g[k] = g[k - 1] + lens[k]
    BY <1>2, <1>4, SMTT(30)
  <1> QED BY <1>5, <1>6, <1>7 DEF g

\* Sums grow.
LEMMA SumsGrow ==
    ASSUME NEW first \in Nat, NEW lens \in Seq(Nat), NEW j \in 0..Len(lens), NEW k \in j..Len(lens)
    PROVE  Sums(first, lens)[j] <= Sums(first, lens)[k]
  <1> DEFINE g == Sums(first, lens)
             Bad == {m \in j..Len(lens) : ~(g[j] <= g[m])}
  <1>0. /\ g \in [0..Len(lens) -> Nat]
        /\ \A m \in 1..Len(lens) : g[m] = g[m - 1] + lens[m]
    BY SumsDef
  <1> HIDE DEF g
  <1>1. /\ Len(lens) \in Nat
        /\ \A m \in 0..Len(lens) : g[m] \in Nat
        /\ \A m \in 1..Len(lens) : g[m] = g[m - 1] + lens[m] /\ lens[m] \in Nat
    <2>1. Len(lens) \in Nat /\ \A m \in 1..Len(lens) : lens[m] \in Nat
      OBVIOUS
    <2>2. \A m \in 0..Len(lens) : g[m] \in Nat
      BY <1>0
    <2> QED BY <1>0, <2>1, <2>2
  <1>2. SUFFICES ASSUME Bad # {} PROVE FALSE
    BY DEF g
  <1>3. PICK m \in Bad : \A n \in Bad : m <= n
    <2>1. Bad \subseteq Nat
      OBVIOUS
    <2> QED BY <1>2, <2>1, LeastNat
  <1>4. m # j /\ m - 1 \in j..Len(lens) /\ m \in 1..Len(lens)
    BY <1>1, <1>3
  <1>5. g[j] <= g[m - 1]
    BY <1>3, <1>4
  <1>6. g[m] = g[m - 1] + lens[m] /\ lens[m] \in Nat /\ g[m - 1] \in Nat /\ g[j] \in Nat
    BY <1>1, <1>4
  <1> QED BY <1>3, <1>5, <1>6

\* A further length leaves the sums before it alone.
LEMMA SumsExtend ==
    ASSUME NEW first \in Nat, NEW lens \in Seq(Nat), NEW x \in Nat, NEW k \in 0..Len(lens)
    PROVE  Sums(first, Append(lens, x))[k] = Sums(first, lens)[k]
  <1> DEFINE more == Append(lens, x)
             g == Sums(first, lens)
             h == Sums(first, more)
             Bad == {m \in 0..Len(lens) : h[m] # g[m]}
  <1>1. more \in Seq(Nat) /\ Len(more) = Len(lens) + 1 /\ \A m \in 1..Len(lens) : more[m] = lens[m]
    OBVIOUS
  <1>2. g[0] = first /\ \A m \in 1..Len(lens) : g[m] = g[m - 1] + lens[m]
    BY SumsDef
  <1> HIDE DEF more
  <1>3. h[0] = first /\ \A m \in 1..Len(more) : h[m] = h[m - 1] + more[m]
    BY <1>1, SumsDef
  <1> HIDE DEF g, h
  <1>4. SUFFICES ASSUME Bad # {} PROVE FALSE
    BY DEF g, h, more
  <1>5. PICK m \in Bad : \A n \in Bad : m <= n
    <2>1. Bad \subseteq Nat
      OBVIOUS
    <2> QED BY <1>4, <2>1, LeastNat
  <1>6. m # 0 /\ m - 1 \in 0..Len(lens) /\ m \in 1..Len(lens)
    BY <1>2, <1>3, <1>5
  <1>7. h[m - 1] = g[m - 1]
    BY <1>5, <1>6
  <1> QED BY <1>1, <1>2, <1>3, <1>5, <1>6, <1>7

-----------------------------------------------------------------------------
(* Bytes.                                                                  *)

Items == {MarkerItem, SchemaItem} \cup {IntItem(v) : v \in Nat}
            \cup {ColItem(b, c) : b \in Nat, c \in Nat}
Byte  == [of : Items, at : Nat, size : Nat]

\* The string s has the given bytes behind its first `at`.
Has(s, at, bytes) ==
    /\ at + Len(bytes) <= Len(s)
    /\ \A p \in 1..Len(bytes) : s[at + p] = bytes[p]

LEMMA ChunkType ==
    ASSUME NEW item \in Items, NEW n \in Nat
    PROVE  /\ Chunk(item, n) \in Seq(Byte)
           /\ Len(Chunk(item, n)) = n
           /\ \A k \in 1..n : Chunk(item, n)[k] = [of |-> item, at |-> k, size |-> n]
  <1>1. \A k \in 1..n : [of |-> item, at |-> k, size |-> n] \in Byte
    BY DEF Byte
  <1> QED BY <1>1 DEF Chunk

\* What is in a string stays there when bytes are added,
LEMMA HasKept ==
    ASSUME NEW s \in Seq(Byte), NEW t \in Seq(Byte), NEW bytes \in Seq(Byte), NEW at \in Nat,
           Has(s, at, bytes)
    PROVE  Has(s \o t, at, bytes)
  <1>1. ASSUME NEW p \in 1..Len(bytes) PROVE (s \o t)[at + p] = bytes[p]
    <2>1. s[at + p] = bytes[p] /\ at + p \in 1..Len(s)
      BY DEF Has
    <2> QED BY <2>1
  <1>2. at + Len(bytes) <= Len(s \o t)
    BY DEF Has
  <1> QED BY <1>1, <1>2 DEF Has

\* and the bytes are at its end.
LEMMA HasNew ==
    ASSUME NEW s \in Seq(Byte), NEW bytes \in Seq(Byte)
    PROVE  Has(s \o bytes, Len(s), bytes)
  BY DEF Has

LEMMA TimesGrows ==
    ASSUME NEW n \in Nat, NEW a \in Nat, NEW b \in Nat, a <= b
    PROVE  n * a \in Nat /\ n * b \in Nat /\ n * a <= n * b
  <1>1. b - a \in Nat /\ n * (b - a) \in Nat /\ n * a \in Nat
    OBVIOUS
  <1>2. n * b = n * a + n * (b - a)
    OBVIOUS
  <1> QED BY <1>1, <1>2

\* A quotient and a rest by the length of a word.
LEMMA WordIndex ==
    ASSUME NEW i \in Nat, NEW j \in 0..(WordLen - 1)
    PROVE  (i * WordLen + j) \div WordLen = i /\ (i * WordLen + j) % WordLen = j
  <1> DEFINE a == i * WordLen + j
             q == a \div WordLen
  <1>1. WordLen \in Nat \ {0} /\ i * WordLen \in Nat
    BY LayoutAssumption
  <1>2. a \in Nat
    BY <1>1
  <1> HIDE DEF a
  <1>3. q \in Nat /\ a = (WordLen * q) + (a % WordLen) /\ a % WordLen \in 0..(WordLen - 1)
    BY <1>1, <1>2
  <1> HIDE DEF q
  <1>4. WordLen * q \in Nat /\ WordLen * i \in Nat /\ a = WordLen * i + j
    BY <1>1, <1>3 DEF a
  <1>5. ~(q > i)
    <2>1. SUFFICES ASSUME q >= i + 1 PROVE FALSE
      BY <1>3
    <2>2. WordLen * q >= WordLen * (i + 1)
      BY <1>1, <1>3, <2>1, TimesGrows
    <2>3. WordLen * (i + 1) = WordLen * i + WordLen
      BY <1>1
    <2> QED BY <1>1, <1>3, <1>4, <2>2, <2>3
  <1>6. ~(q < i)
    <2>1. SUFFICES ASSUME q + 1 <= i PROVE FALSE
      BY <1>3
    <2>2. WordLen * i >= WordLen * (q + 1)
      BY <1>1, <1>3, <2>1, TimesGrows
    <2>3. WordLen * (q + 1) = WordLen * q + WordLen
      BY <1>1, <1>3
    <2> QED BY <1>1, <1>3, <1>4, <2>2, <2>3
  <1>7. q = i
    BY <1>3, <1>5, <1>6
  <1> QED BY <1>3, <1>4, <1>7 DEF q, a

\* The place of a byte of a word among the bytes of n words.
LEMMA WordInside ==
    ASSUME NEW n \in Nat, NEW i \in 1..n, NEW j \in 1..WordLen
    PROVE  (i - 1) * WordLen \in Nat /\ (i - 1) * WordLen + j \in 1..(n * WordLen)
  <1>1. WordLen \in Nat \ {0} /\ n - i \in Nat /\ i - 1 \in Nat
    BY LayoutAssumption
  <1>2. n * WordLen = (i - 1) * WordLen + WordLen + (n - i) * WordLen
    BY <1>1
  <1>3. (n - i) * WordLen \in Nat /\ (i - 1) * WordLen \in Nat
    BY <1>1
  <1> QED BY <1>1, <1>2, <1>3

LEMMA IntBytesType ==
    ASSUME NEW ints \in Seq(Nat)
    PROVE  /\ IntBytes(ints) \in Seq(Byte)
           /\ Len(IntBytes(ints)) = Len(ints) * WordLen
           /\ \A i \in 1..Len(ints), j \in 1..WordLen :
                IntBytes(ints)[(i - 1) * WordLen + j] = Chunk(IntItem(ints[i]), WordLen)[j]
  <1>1. WordLen \in Nat \ {0} /\ Len(ints) \in Nat /\ Len(ints) * WordLen \in Nat
    BY LayoutAssumption
  <1>2. ASSUME NEW k \in 1..(Len(ints) * WordLen)
        PROVE  /\ 1 + ((k - 1) \div WordLen) \in 1..Len(ints)
               /\ 1 + ((k - 1) % WordLen) \in Nat
    <2> DEFINE q == (k - 1) \div WordLen
    <2>1. q \in Nat /\ k - 1 = (WordLen * q) + ((k - 1) % WordLen) /\ (k - 1) % WordLen \in 0..(WordLen - 1)
      BY <1>1, SMTT(30)
    <2> HIDE DEF q
    <2>2. q < Len(ints)
      <3>1. SUFFICES ASSUME q >= Len(ints) PROVE FALSE
        BY <1>1, <2>1
      <3>2. WordLen * q >= WordLen * Len(ints)
        BY <1>1, <2>1, <3>1, TimesGrows
      <3>3. WordLen * q \in Nat /\ WordLen * Len(ints) = Len(ints) * WordLen
        BY <1>1, <2>1
      <3> QED BY <1>1, <2>1, <3>2, <3>3
    <2> QED BY <1>1, <2>1, <2>2 DEF q
  <1>3. ASSUME NEW k \in 1..(Len(ints) * WordLen)
        PROVE  [of |-> IntItem(ints[1 + ((k - 1) \div WordLen)]), at |-> 1 + ((k - 1) % WordLen),
                size |-> WordLen] \in Byte
    <2>1. ints[1 + ((k - 1) \div WordLen)] \in Nat
      BY <1>2
    <2> QED BY <1>1, <1>2, <2>1 DEF Byte, Items
  <1>4. IntBytes(ints) \in Seq(Byte) /\ Len(IntBytes(ints)) = Len(ints) * WordLen
    BY <1>1, <1>3 DEF IntBytes
  <1>5. ASSUME NEW i \in 1..Len(ints), NEW j \in 1..WordLen
        PROVE  IntBytes(ints)[(i - 1) * WordLen + j] = Chunk(IntItem(ints[i]), WordLen)[j]
    <2> DEFINE k == (i - 1) * WordLen + j
    <2>1. k \in 1..(Len(ints) * WordLen)
      BY <1>1, WordInside
    <2>2. k - 1 = (i - 1) * WordLen + (j - 1) /\ j - 1 \in 0..(WordLen - 1) /\ i - 1 \in Nat
      BY <1>1, WordInside
    <2>3. (k - 1) \div WordLen = i - 1 /\ (k - 1) % WordLen = j - 1
      BY <2>2, WordIndex
    <2> HIDE DEF k
    <2>4. IntBytes(ints)[k] = [of |-> IntItem(ints[1 + (i - 1)]), at |-> 1 + (j - 1), size |-> WordLen]
      BY <2>1, <2>3 DEF IntBytes
    <2>5. IntItem(ints[i]) \in Items
      BY DEF Items
    <2>6. Chunk(IntItem(ints[i]), WordLen)[j] = [of |-> IntItem(ints[i]), at |-> j, size |-> WordLen]
      BY <1>1, <2>5, ChunkType
    <2>7. 1 + (i - 1) = i /\ 1 + (j - 1) = j
      OBVIOUS
    <2>8. IntBytes(ints)[k] = Chunk(IntItem(ints[i]), WordLen)[j]
      BY <2>4, <2>6, <2>7, Zenon
    <2> QED BY <2>8 DEF k
  <1> QED BY <1>4, <1>5

-----------------------------------------------------------------------------
(* Batches.                                                                *)

\* What the task of a column may leave, and what that of column c of batch b may.
Encoded == {Threw} \cup {Done(s) : s \in Seq(Byte)}
Encodings(b, c) == {Threw} \cup {Done(Chunk(ColItem(b, c), n)) : n \in Nat \ {0}}

\* v is what the tasks of batch b have left.
IsBatch(b, v) ==
    /\ v \in [1..NCols -> Encoded]
    /\ \A c \in 1..NCols : v[c] \in Encodings(b, c)

\* Where the columns of a batch end, from its start.
EndsOf(v) == Sums(HeaderLen, Lengths(Blobs(v)))

\* The blob of a column is empty, or one item.
LEMMA BlobType ==
    ASSUME NEW b \in Nat, NEW v, IsBatch(b, v), NEW c \in 1..NCols
    PROVE  /\ Blobs(v)[c] \in Seq(Byte)
           /\ v[c].task = "threw" => Blobs(v)[c] = <<>> /\ v[c] = Threw
           /\ v[c].task # "threw" =>
                /\ v[c].task = "done"
                /\ v[c] # Threw
                /\ \E n \in Nat \ {0} : Blobs(v)[c] = Chunk(ColItem(b, c), n)
  <1>1. NCols \in Nat /\ ColItem(b, c) \in Items
    BY LayoutAssumption DEF Items
  <1>2. Blobs(v)[c] = Blob(v[c])
    BY DEF Blobs
  <1>3. v[c] \in Encodings(b, c)
    BY DEF IsBatch
  <1>4. CASE v[c] = Threw
    BY <1>2, <1>4 DEF Blob, Threw
  <1>5. CASE \E n \in Nat \ {0} : v[c] = Done(Chunk(ColItem(b, c), n))
    <2>1. PICK n \in Nat \ {0} : v[c] = Done(Chunk(ColItem(b, c), n))
      BY <1>5
    <2>2. v[c].task = "done" /\ v[c].bytes = Chunk(ColItem(b, c), n)
      BY <2>1 DEF Done
    <2>3. Blobs(v)[c] = Chunk(ColItem(b, c), n)
      BY <1>2, <2>2 DEF Blob
    <2>4. Chunk(ColItem(b, c), n) \in Seq(Byte)
      BY <1>1, ChunkType
    <2>5. v[c] # Threw
      BY <2>2 DEF Threw
    <2> QED BY <2>2, <2>3, <2>4, <2>5
  <1> QED BY <1>3, <1>4, <1>5 DEF Encodings

LEMMA HeaderLenType == WordLen \in Nat \ {0} /\ NCols \in Nat \ {0} /\ HeaderLen \in Nat /\ WordLen < HeaderLen
  <1>1. WordLen \in Nat \ {0} /\ NCols \in Nat \ {0}
    BY LayoutAssumption
  <1>2. HeaderLen = 2 * WordLen + NCols * WordLen /\ NCols * WordLen \in Nat
    BY <1>1 DEF HeaderLen
  <1> QED BY <1>1, <1>2

LEMMA BatchLayout ==
    ASSUME NEW b \in Nat, NEW v, IsBatch(b, v)
    PROVE  /\ EndsOf(v) \in [0..NCols -> Nat]
           /\ EndsOf(v)[0] = HeaderLen
           /\ \A c \in 1..NCols : EndsOf(v)[c] = EndsOf(v)[c - 1] + Len(Blobs(v)[c])
           /\ \A c \in 0..NCols : HeaderLen <= EndsOf(v)[c] /\ EndsOf(v)[c] <= EndsOf(v)[NCols]
           /\ Offsets(Blobs(v)) \in Seq(Nat)
           /\ Len(Offsets(Blobs(v))) = NCols
           /\ \A c \in 1..NCols : Offsets(Blobs(v))[c] = EndsOf(v)[c]
           /\ BatchSize(Blobs(v)) = EndsOf(v)[NCols]
  <1> DEFINE lens == Lengths(Blobs(v))
  <1>1. \A c \in 1..NCols : Len(Blobs(v)[c]) \in Nat
    BY BlobType
  <1>2. lens \in Seq(Nat) /\ Len(lens) = NCols /\ \A c \in 1..NCols : lens[c] = Len(Blobs(v)[c])
    BY <1>1, HeaderLenType DEF Lengths
  <1> HIDE DEF lens
  <1>3. /\ Sums(HeaderLen, lens) \in [0..NCols -> Nat]
        /\ Sums(HeaderLen, lens)[0] = HeaderLen
        /\ \A c \in 1..NCols : Sums(HeaderLen, lens)[c] = Sums(HeaderLen, lens)[c - 1] + lens[c]
    BY <1>2, SumsDef, HeaderLenType
  <1>4. EndsOf(v) = Sums(HeaderLen, lens)
    BY DEF EndsOf, lens
  <1>5. ASSUME NEW c \in 0..NCols
        PROVE  HeaderLen <= EndsOf(v)[c] /\ EndsOf(v)[c] <= EndsOf(v)[NCols]
    <2>1. Sums(HeaderLen, lens)[0] <= Sums(HeaderLen, lens)[c]
      BY <1>2, SumsGrow, HeaderLenType
    <2>2. Sums(HeaderLen, lens)[c] <= Sums(HeaderLen, lens)[NCols]
      BY <1>2, SumsGrow, HeaderLenType
    <2> QED BY <1>3, <1>4, <2>1, <2>2
  <1>6. Offsets(Blobs(v)) = [c \in 1..NCols |-> EndsOf(v)[c]]
    BY DEF Offsets, EndsOf
  <1>7. \A c \in 1..NCols : EndsOf(v)[c] \in Nat
    BY <1>3, <1>4
  <1>8. /\ Offsets(Blobs(v)) \in Seq(Nat)
        /\ Len(Offsets(Blobs(v))) = NCols
        /\ \A c \in 1..NCols : Offsets(Blobs(v))[c] = EndsOf(v)[c]
    BY <1>6, <1>7, HeaderLenType
  <1>9. BatchSize(Blobs(v)) = EndsOf(v)[NCols]
    BY <1>8, HeaderLenType DEF BatchSize
  <1> QED BY <1>2, <1>3, <1>4, <1>5, <1>8, <1>9

\* The ints of a header.
IntsOf(rows, v) == <<BatchSize(Blobs(v)), rows>> \o Offsets(Blobs(v))

LEMMA HeaderType ==
    ASSUME NEW b \in Nat, NEW v, IsBatch(b, v), NEW rows \in Nat
    PROVE  /\ IntsOf(rows, v) \in Seq(Nat)
           /\ Len(IntsOf(rows, v)) = 2 + NCols
           /\ IntsOf(rows, v)[1] = EndsOf(v)[NCols]
           /\ IntsOf(rows, v)[2] = rows
           /\ \A c \in 1..NCols : IntsOf(rows, v)[2 + c] = EndsOf(v)[c]
           /\ HeaderBytes(rows, Blobs(v)) = IntBytes(IntsOf(rows, v))
           /\ HeaderBytes(rows, Blobs(v)) \in Seq(Byte)
           /\ Len(HeaderBytes(rows, Blobs(v))) = HeaderLen
  <1>1. BatchSize(Blobs(v)) \in Nat
    BY BatchLayout, HeaderLenType
  <1> DEFINE two == <<BatchSize(Blobs(v)), rows>>
  <1>2. two \in Seq(Nat) /\ Len(two) = 2 /\ two[1] = BatchSize(Blobs(v)) /\ two[2] = rows
    BY <1>1
  <1> HIDE DEF two
  <1> DEFINE offsets == Offsets(Blobs(v))
  <1>3. /\ offsets \in Seq(Nat) /\ Len(offsets) = NCols
        /\ \A c \in 1..NCols : offsets[c] = EndsOf(v)[c]
    BY BatchLayout
  <1> HIDE DEF offsets
  <1>4. /\ two \o offsets \in Seq(Nat)
        /\ Len(two \o offsets) = 2 + NCols
        /\ (two \o offsets)[1] = two[1] /\ (two \o offsets)[2] = two[2]
        /\ \A c \in 1..NCols : (two \o offsets)[2 + c] = offsets[c]
    <2>1. /\ two \o offsets \in Seq(Nat)
          /\ Len(two \o offsets) = 2 + NCols
          /\ \A i \in 1..(2 + NCols) : (two \o offsets)[i] = IF i <= 2 THEN two[i] ELSE offsets[i - 2]
      <3>1. /\ two \o offsets \in Seq(Nat)
            /\ Len(two \o offsets) = Len(two) + Len(offsets)
            /\ \A i \in 1..(Len(two) + Len(offsets)) :
                 (two \o offsets)[i] = IF i <= Len(two) THEN two[i] ELSE offsets[i - Len(two)]
        BY <1>2, <1>3, ConcatProperties, Zenon
      <3>2. Len(two) = 2 /\ Len(offsets) = NCols
        BY <1>2, <1>3
      <3> QED BY <3>1, <3>2, Zenon
    <2>2. ASSUME NEW c \in 1..NCols PROVE (two \o offsets)[2 + c] = offsets[c]
      <3>1. 2 + c \in 1..(2 + NCols) /\ ~(2 + c <= 2) /\ (2 + c) - 2 = c
        BY HeaderLenType
      <3> QED BY <2>1, <3>1
    <2>3. (two \o offsets)[1] = two[1] /\ (two \o offsets)[2] = two[2]
      <3>1. 1 \in 1..(2 + NCols) /\ 2 \in 1..(2 + NCols)
        BY HeaderLenType
      <3>2. (1 <= 2) /\ (2 <= 2)
        OBVIOUS
      <3> QED BY <2>1, <3>1, <3>2, Zenon
    <2> QED BY <2>1, <2>2, <2>3
  <1>5. IntsOf(rows, v) = two \o offsets
    BY DEF IntsOf, two, offsets
  <1>6. HeaderBytes(rows, Blobs(v)) = IntBytes(IntsOf(rows, v))
    BY DEF HeaderBytes, IntsOf
  <1>7. BatchSize(Blobs(v)) = EndsOf(v)[NCols]
    BY BatchLayout
  <1>8. IntBytes(IntsOf(rows, v)) \in Seq(Byte) /\ Len(IntBytes(IntsOf(rows, v))) = HeaderLen
    BY <1>4, <1>5, IntBytesType DEF HeaderLen
  <1> QED BY <1>2, <1>3, <1>4, <1>5, <1>6, <1>7, <1>8

\* The bytes in front of the batches.
FrontLen == 2 * WordLen + SchemaLen

LEMMA FrontType ==
    /\ kFormatMarker \in Seq(Byte) /\ Len(kFormatMarker) = WordLen
    /\ SchemaBytes \in Seq(Byte) /\ Len(SchemaBytes) = WordLen + SchemaLen
    /\ \A j \in 1..WordLen : SchemaBytes[j] = Chunk(IntItem(WordLen + SchemaLen), WordLen)[j]
    /\ FrontLen \in Nat
  <1>1. WordLen \in Nat \ {0} /\ SchemaLen \in Nat /\ MarkerItem \in Items /\ SchemaItem \in Items
    BY LayoutAssumption DEF Items
  <1>2. kFormatMarker \in Seq(Byte) /\ Len(kFormatMarker) = WordLen
    BY <1>1, ChunkType DEF kFormatMarker
  <1> DEFINE one  == <<WordLen + SchemaLen>>
             size == IntBytes(one)
             body == Chunk(SchemaItem, SchemaLen)
  <1>3. body \in Seq(Byte) /\ Len(body) = SchemaLen
    BY <1>1, ChunkType
  <1>4. one \in Seq(Nat) /\ Len(one) = 1 /\ one[1] = WordLen + SchemaLen
    BY <1>1
  <1> HIDE DEF one
  <1>5. /\ size \in Seq(Byte)
        /\ Len(size) = WordLen
        /\ \A j \in 1..WordLen : size[(1 - 1) * WordLen + j] = Chunk(IntItem(WordLen + SchemaLen), WordLen)[j]
    <2>1. /\ size \in Seq(Byte)
          /\ Len(size) = Len(one) * WordLen
          /\ \A i \in 1..Len(one), j \in 1..WordLen :
                size[(i - 1) * WordLen + j] = Chunk(IntItem(one[i]), WordLen)[j]
      BY <1>4, IntBytesType
    <2>2. 1 \in 1..Len(one) /\ Len(one) * WordLen = WordLen
      BY <1>1, <1>4
    <2> QED BY <1>4, <2>1, <2>2
  <1>6. \A j \in 1..WordLen : (1 - 1) * WordLen + j = j
    BY <1>1
  <1> HIDE DEF size, body
  <1>7. /\ size \o body \in Seq(Byte)
        /\ Len(size \o body) = WordLen + SchemaLen
        /\ \A j \in 1..WordLen : (size \o body)[j] = size[j]
    BY <1>1, <1>3, <1>5
  <1>8. \A j \in 1..WordLen : size[j] = Chunk(IntItem(WordLen + SchemaLen), WordLen)[j]
    BY <1>5, <1>6
  <1>9. SchemaBytes = size \o body
    BY DEF SchemaBytes, size, body, one
  <1> QED BY <1>1, <1>2, <1>7, <1>8, <1>9 DEF FrontLen

-----------------------------------------------------------------------------
(* The layout of a file: w are its bytes, e what the tasks left, t whether *)
(* it has its trailer.                                                     *)

IsEncoded(e) ==
    /\ e \in Seq([1..NCols -> Encoded])
    /\ Len(e) <= Len(Rows)
    /\ \A b \in 1..Len(e) : IsBatch(b, e[b])

\* Where the batch after the k-th starts.
SizesOf(e) == [b \in 1..Len(e) |-> BatchSize(Blobs(e[b]))]
StartOf(e, k) == Sums(FrontLen, SizesOf(e))[k]

HeaderOf(e, b) == HeaderBytes(Rows[b], Blobs(e[b]))

\* Where a column of a batch begins, and where it ends.
ColumnBegin(e, b, c) == StartOf(e, b - 1) + EndsOf(e[b])[c - 1]
ColumnEnd(e, b, c)   == StartOf(e, b - 1) + EndsOf(e[b])[c]

LEMMA SizesType ==
    ASSUME NEW e, IsEncoded(e)
    PROVE  /\ SizesOf(e) \in Seq(Nat)
           /\ Len(SizesOf(e)) = Len(e)
           /\ \A b \in 1..Len(e) : SizesOf(e)[b] = EndsOf(e[b])[NCols] /\ HeaderLen <= SizesOf(e)[b]
  <1>1. Len(e) \in Nat
    BY DEF IsEncoded
  <1>2. ASSUME NEW b \in 1..Len(e)
        PROVE  /\ BatchSize(Blobs(e[b])) = EndsOf(e[b])[NCols]
               /\ BatchSize(Blobs(e[b])) \in Nat
               /\ HeaderLen <= BatchSize(Blobs(e[b]))
    <2>1. IsBatch(b, e[b]) /\ b \in Nat
      BY <1>1 DEF IsEncoded
    <2>2. /\ EndsOf(e[b]) \in [0..NCols -> Nat]
          /\ \A c \in 0..NCols : HeaderLen <= EndsOf(e[b])[c]
          /\ BatchSize(Blobs(e[b])) = EndsOf(e[b])[NCols]
      BY <2>1, BatchLayout
    <2>3. NCols \in 0..NCols
      BY HeaderLenType
    <2> QED BY <2>2, <2>3
  <1> QED BY <1>1, <1>2 DEF SizesOf

LEMMA StartType ==
    ASSUME NEW e, IsEncoded(e)
    PROVE  /\ Len(e) \in Nat
           /\ StartOf(e, 0) = FrontLen
           /\ \A k \in 0..Len(e) : StartOf(e, k) \in Nat
           /\ \A k \in 1..Len(e) :
                /\ StartOf(e, k) = StartOf(e, k - 1) + EndsOf(e[k])[NCols]
                /\ StartOf(e, k - 1) + HeaderLen <= StartOf(e, k)
           /\ \A j \in 0..Len(e) : \A k \in j..Len(e) : StartOf(e, j) <= StartOf(e, k)
  <1> DEFINE z == SizesOf(e)
             g == Sums(FrontLen, z)
  <1>1. /\ Len(e) \in Nat /\ z \in Seq(Nat) /\ Len(z) = Len(e)
        /\ \A b \in 1..Len(e) : z[b] = EndsOf(e[b])[NCols] /\ HeaderLen <= z[b]
    BY SizesType DEF IsEncoded
  <1> HIDE DEF z
  <1>2. /\ g \in [0..Len(e) -> Nat]
        /\ g[0] = FrontLen
        /\ \A k \in 1..Len(e) : g[k] = g[k - 1] + z[k]
    BY <1>1, SumsDef, FrontType
  <1>3. \A j \in 0..Len(e) : \A k \in j..Len(e) : g[j] <= g[k]
    BY <1>1, SumsGrow, FrontType
  <1>4. \A k : StartOf(e, k) = g[k]
    BY DEF StartOf, z
  <1> HIDE DEF g
  <1>5. \A k \in 0..Len(e) : g[k] \in Nat
    BY <1>2
  <1>6. ASSUME NEW k \in 1..Len(e)
        PROVE  g[k] = g[k - 1] + EndsOf(e[k])[NCols] /\ g[k - 1] + HeaderLen <= g[k]
    <2>1. k - 1 \in 0..Len(e) /\ z[k] \in Nat /\ z[k] = EndsOf(e[k])[NCols] /\ HeaderLen <= z[k]
      BY <1>1
    <2>2. g[k - 1] \in Nat /\ g[k] = g[k - 1] + z[k]
      BY <1>2, <1>5, <2>1
    <2> QED BY <2>1, <2>2, HeaderLenType
  <1> QED BY <1>1, <1>2, <1>3, <1>4, <1>5, <1>6

\* A further batch leaves those before it where they are.
LEMMA StartAppend ==
    ASSUME NEW e, IsEncoded(e), NEW v, IsBatch(Len(e) + 1, v), Len(e) < Len(Rows)
    PROVE  /\ IsEncoded(Append(e, v))
           /\ \A k \in 0..Len(e) : StartOf(Append(e, v), k) = StartOf(e, k)
  <1> DEFINE f == Append(e, v)
             x == BatchSize(Blobs(v))
  <1>1. Len(e) \in Nat /\ Len(Rows) \in Nat
    BY WriterAssumption DEF IsEncoded
  <1>2. /\ f \in Seq([1..NCols -> Encoded])
        /\ Len(f) = Len(e) + 1
        /\ \A b \in 1..Len(e) : f[b] = e[b]
        /\ f[Len(e) + 1] = v
    BY <1>1 DEF IsEncoded, IsBatch
  <1> HIDE DEF f
  <1>3. IsEncoded(f)
    <2>1. ASSUME NEW b \in 1..Len(f) PROVE IsBatch(b, f[b])
      <3>1. CASE b = Len(e) + 1
        BY <1>2, <3>1
      <3>2. CASE b \in 1..Len(e)
        BY <1>2, <3>2 DEF IsEncoded
      <3> QED BY <1>1, <1>2, <3>1, <3>2
    <2> QED BY <1>1, <1>2, <2>1 DEF IsEncoded
  <1>4. x \in Nat
    <2>1. Len(e) + 1 \in 1..Len(f)
      BY <1>1, <1>2
    <2> QED BY <1>1, BatchLayout, HeaderLenType
  <1>5. SizesOf(e) \in Seq(Nat) /\ Len(SizesOf(e)) = Len(e)
    BY SizesType
  <1>6. SizesOf(f) = Append(SizesOf(e), x)
    <2>1. SizesOf(f) \in Seq(Nat) /\ Len(SizesOf(f)) = Len(e) + 1
      BY <1>2, <1>3, SizesType
    <2>2. /\ Append(SizesOf(e), x) \in Seq(Nat)
          /\ Len(Append(SizesOf(e), x)) = Len(e) + 1
          /\ \A b \in 1..Len(e) : Append(SizesOf(e), x)[b] = SizesOf(e)[b]
          /\ Append(SizesOf(e), x)[Len(e) + 1] = x
      BY <1>1, <1>4, <1>5
    <2>3. ASSUME NEW b \in 1..(Len(e) + 1) PROVE SizesOf(f)[b] = Append(SizesOf(e), x)[b]
      <3>1. CASE b = Len(e) + 1
        BY <1>1, <1>2, <2>2, <3>1 DEF SizesOf
      <3>2. CASE b \in 1..Len(e)
        BY <1>1, <1>2, <2>2, <3>2 DEF SizesOf
      <3>3. b = Len(e) + 1 \/ b \in 1..Len(e)
        BY <1>1
      <3> QED BY <3>1, <3>2, <3>3
    <2> QED BY <2>1, <2>2, <2>3, SeqEqual
  <1>7. ASSUME NEW k \in 0..Len(e) PROVE StartOf(f, k) = StartOf(e, k)
    BY <1>4, <1>5, <1>6, SumsExtend, FrontType DEF StartOf
  <1> QED BY <1>3, <1>7 DEF f

LEMMA ColumnBounds ==
    ASSUME NEW e, IsEncoded(e), NEW b \in 1..Len(e)
    PROVE  /\ HeaderOf(e, b) \in Seq(Byte) /\ Len(HeaderOf(e, b)) = HeaderLen
           /\ StartOf(e, b - 1) \in Nat /\ StartOf(e, b) \in Nat
           /\ FrontLen <= StartOf(e, b - 1)
           /\ StartOf(e, b) <= StartOf(e, Len(e)) /\ StartOf(e, Len(e)) \in Nat
           /\ \A c \in 1..NCols :
                /\ Blobs(e[b])[c] \in Seq(Byte)
                /\ ColumnBegin(e, b, c) \in Nat
                /\ ColumnEnd(e, b, c) = ColumnBegin(e, b, c) + Len(Blobs(e[b])[c])
                /\ StartOf(e, b - 1) + HeaderLen <= ColumnBegin(e, b, c)
                /\ ColumnEnd(e, b, c) <= StartOf(e, b)
           /\ ColumnBegin(e, b, 1) = StartOf(e, b - 1) + HeaderLen
           /\ ColumnEnd(e, b, NCols) = StartOf(e, b)
  <1>1. /\ Len(e) \in Nat /\ b - 1 \in 0..Len(e) /\ b \in 0..Len(e) /\ b \in Nat
        /\ Len(e) \in 0..Len(e) /\ Len(e) \in b..Len(e) /\ 0 \in 0..Len(e) /\ b - 1 \in 0..Len(e)
        /\ Len(e) <= Len(Rows)
    BY DEF IsEncoded
  <1>2. Rows[b] \in Nat
    BY <1>1, WriterAssumption
  <1>3. IsBatch(b, e[b])
    BY DEF IsEncoded
  <1>4. HeaderOf(e, b) \in Seq(Byte) /\ Len(HeaderOf(e, b)) = HeaderLen
    BY <1>1, <1>2, <1>3, HeaderType DEF HeaderOf
  <1>5. /\ StartOf(e, b - 1) \in Nat /\ StartOf(e, b) \in Nat /\ StartOf(e, Len(e)) \in Nat
        /\ FrontLen <= StartOf(e, b - 1)
        /\ StartOf(e, b) <= StartOf(e, Len(e))
        /\ StartOf(e, b) = StartOf(e, b - 1) + EndsOf(e[b])[NCols]
    BY <1>1, StartType
  <1> DEFINE g == EndsOf(e[b])
  <1>6. /\ g \in [0..NCols -> Nat]
        /\ g[0] = HeaderLen
        /\ \A c \in 1..NCols : g[c] = g[c - 1] + Len(Blobs(e[b])[c])
        /\ \A c \in 0..NCols : HeaderLen <= g[c] /\ g[c] <= g[NCols]
    BY <1>1, <1>3, BatchLayout
  <1> HIDE DEF g
  <1>7. ASSUME NEW c \in 1..NCols
        PROVE  /\ Blobs(e[b])[c] \in Seq(Byte)
               /\ ColumnBegin(e, b, c) \in Nat
               /\ ColumnEnd(e, b, c) = ColumnBegin(e, b, c) + Len(Blobs(e[b])[c])
               /\ StartOf(e, b - 1) + HeaderLen <= ColumnBegin(e, b, c)
               /\ ColumnEnd(e, b, c) <= StartOf(e, b)
    <2>1. c - 1 \in 0..NCols /\ c \in 0..NCols /\ NCols \in 0..NCols
      BY HeaderLenType
    <2>2. Blobs(e[b])[c] \in Seq(Byte)
      BY <1>1, <1>3, BlobType
    <2>3. /\ g[c - 1] \in Nat /\ g[c] \in Nat /\ g[NCols] \in Nat
          /\ g[c] = g[c - 1] + Len(Blobs(e[b])[c])
          /\ HeaderLen <= g[c - 1] /\ g[c] <= g[NCols]
      BY <1>6, <2>1
    <2>4. ColumnBegin(e, b, c) = StartOf(e, b - 1) + g[c - 1] /\ ColumnEnd(e, b, c) = StartOf(e, b - 1) + g[c]
      BY DEF ColumnBegin, ColumnEnd, g
    <2>5. StartOf(e, b) = StartOf(e, b - 1) + g[NCols] /\ Len(Blobs(e[b])[c]) \in Nat
      BY <1>5, <2>2 DEF g
    <2>6. ColumnBegin(e, b, c) \in Nat /\ StartOf(e, b - 1) + HeaderLen <= ColumnBegin(e, b, c)
      <3> DEFINE s == StartOf(e, b - 1)
      <3>1. s \in Nat /\ HeaderLen \in Nat
        BY <1>5, HeaderLenType
      <3> HIDE DEF s
      <3>2. s + g[c - 1] \in Nat /\ s + HeaderLen <= s + g[c - 1]
        BY <2>3, <3>1
      <3> QED BY <2>4, <3>2, Zenon DEF s
    <2>7. ColumnEnd(e, b, c) = ColumnBegin(e, b, c) + Len(Blobs(e[b])[c])
      BY <1>5, <2>3, <2>4, <2>5, SMTT(30)
    <2>8. ColumnEnd(e, b, c) <= StartOf(e, b)
      BY <1>5, <2>3, <2>4, <2>5, SMTT(30)
    <2> QED BY <2>2, <2>6, <2>7, <2>8
  <1>8. ColumnBegin(e, b, 1) = StartOf(e, b - 1) + HeaderLen
    BY <1>6 DEF ColumnBegin, g
  <1>9. ColumnEnd(e, b, NCols) = StartOf(e, b)
    BY <1>5 DEF ColumnEnd
  <1> QED BY <1>4, <1>5, <1>7, <1>8, <1>9

\* The columns of a batch follow one another.
LEMMA ColumnOrder ==
    ASSUME NEW e, IsEncoded(e), NEW b \in 1..Len(e), NEW c \in 1..NCols, NEW d \in 1..NCols, c < d
    PROVE  ColumnEnd(e, b, c) <= ColumnBegin(e, b, d)
  <1>1. IsBatch(b, e[b]) /\ b \in Nat
    BY DEF IsEncoded
  <1> DEFINE lens == Lengths(Blobs(e[b]))
             g == EndsOf(e[b])
             s == StartOf(e, b - 1)
  <1>2. \A i \in 1..NCols : Len(Blobs(e[b])[i]) \in Nat
    BY <1>1, BlobType
  <1>3. lens \in Seq(Nat) /\ Len(lens) = NCols
    BY <1>2, HeaderLenType DEF Lengths
  <1>4. g = Sums(HeaderLen, lens)
    BY DEF EndsOf
  <1>5. g \in [0..NCols -> Nat]
    BY <1>1, BatchLayout
  <1>6. s \in Nat
    BY ColumnBounds
  <1>7. ColumnEnd(e, b, c) = s + g[c] /\ ColumnBegin(e, b, d) = s + g[d - 1]
    BY DEF ColumnBegin, ColumnEnd
  <1> HIDE DEF lens, g, s
  <1>8. c \in 0..NCols /\ d - 1 \in c..NCols /\ d - 1 \in 0..NCols
    BY HeaderLenType
  <1>9. g[c] <= g[d - 1]
    BY <1>3, <1>4, <1>8, SumsGrow, HeaderLenType
  <1>10. g[c] \in Nat /\ g[d - 1] \in Nat
    BY <1>5, <1>8
  <1> QED BY <1>6, <1>7, <1>9, <1>10

\* What the bytes hold: the front; a header as soon as there is anything behind the
\* batch before it; a column as soon as there are bytes up to its end; the trailer.
Front(w) ==
    /\ w # <<>> => Has(w, 0, kFormatMarker)
    /\ Len(w) > WordLen => Has(w, WordLen, SchemaBytes)

Headers(w, e) ==
    \A b \in 1..Len(e) : Len(w) > StartOf(e, b - 1) => Has(w, StartOf(e, b - 1), HeaderOf(e, b))

Columns(w, e) ==
    \A b \in 1..Len(e), c \in 1..NCols :
        Len(w) >= ColumnEnd(e, b, c) => Has(w, ColumnBegin(e, b, c), Blobs(e[b])[c])

Trailer(w, e, t) ==
    IF t THEN Len(w) = StartOf(e, Len(e)) + WordLen /\ Has(w, StartOf(e, Len(e)), kFormatMarker)
         ELSE Len(w) <= StartOf(e, Len(e))

Layout(w, e, t) ==
    /\ w \in Seq(Byte)
    /\ IsEncoded(e)
    /\ Front(w)
    /\ Headers(w, e)
    /\ Columns(w, e)
    /\ Trailer(w, e, t)

\* What holds of a string holds of a longer one, for what was in it.
LEMMA LayoutKept ==
    ASSUME NEW w, NEW e, NEW t, Layout(w, e, t), NEW bytes \in Seq(Byte)
    PROVE  /\ w \o bytes \in Seq(Byte)
           /\ Len(w) \in Nat
           /\ Len(w \o bytes) = Len(w) + Len(bytes)
           /\ w # <<>> => Has(w \o bytes, 0, kFormatMarker)
           /\ Len(w) > WordLen => Has(w \o bytes, WordLen, SchemaBytes)
           /\ \A b \in 1..Len(e) :
                /\ Len(w) > StartOf(e, b - 1) => Has(w \o bytes, StartOf(e, b - 1), HeaderOf(e, b))
                /\ \A c \in 1..NCols : Len(w) >= ColumnEnd(e, b, c) =>
                     Has(w \o bytes, ColumnBegin(e, b, c), Blobs(e[b])[c])
  <1>1. w \in Seq(Byte) /\ IsEncoded(e)
    BY DEF Layout
  <1>2. w # <<>> => Has(w \o bytes, 0, kFormatMarker)
    BY <1>1, HasKept, FrontType DEF Layout, Front
  <1>3. Len(w) > WordLen => Has(w \o bytes, WordLen, SchemaBytes)
    BY <1>1, HasKept, FrontType, HeaderLenType DEF Layout, Front
  <1>4. ASSUME NEW b \in 1..Len(e), Len(w) > StartOf(e, b - 1)
        PROVE  Has(w \o bytes, StartOf(e, b - 1), HeaderOf(e, b))
    <2>1. Has(w, StartOf(e, b - 1), HeaderOf(e, b))
      BY <1>4 DEF Layout, Headers
    <2>2. HeaderOf(e, b) \in Seq(Byte) /\ StartOf(e, b - 1) \in Nat
      BY <1>1, ColumnBounds
    <2> QED BY <1>1, <2>1, <2>2, HasKept
  <1>5. ASSUME NEW b \in 1..Len(e), NEW c \in 1..NCols, Len(w) >= ColumnEnd(e, b, c)
        PROVE  Has(w \o bytes, ColumnBegin(e, b, c), Blobs(e[b])[c])
    <2>1. Has(w, ColumnBegin(e, b, c), Blobs(e[b])[c])
      BY <1>5 DEF Layout, Columns
    <2>2. Blobs(e[b])[c] \in Seq(Byte) /\ ColumnBegin(e, b, c) \in Nat
      BY <1>1, ColumnBounds
    <2> QED BY <1>1, <2>1, <2>2, HasKept
  <1>6. w \o bytes \in Seq(Byte) /\ Len(w) \in Nat /\ Len(w \o bytes) = Len(w) + Len(bytes)
    BY <1>1
  <1> QED BY <1>2, <1>3, <1>4, <1>5, <1>6

\* The marker, and the schema behind it.
LEMMA MarkerWritten ==
    ASSUME NEW e, Layout(<<>>, e, FALSE)
    PROVE  Layout(<<>> \o kFormatMarker, e, FALSE) /\ Len(<<>> \o kFormatMarker) = WordLen
  <1>1. <<>> \o kFormatMarker = kFormatMarker
    BY FrontType, ConcatEmptySeq
  <1>2. Has(kFormatMarker, 0, kFormatMarker)
    BY FrontType DEF Has
  <1>3. IsEncoded(e)
    BY DEF Layout
  <1>4. WordLen \in Nat /\ WordLen <= FrontLen
    BY LayoutAssumption DEF FrontLen
  <1>5. Front(kFormatMarker)
    BY <1>2, <1>4, FrontType DEF Front
  <1>6. Headers(kFormatMarker, e)
    BY <1>3, <1>4, ColumnBounds, FrontType DEF Headers
  <1>7. Columns(kFormatMarker, e)
    <2>1. ASSUME NEW b \in 1..Len(e), NEW c \in 1..NCols
          PROVE  ~(WordLen >= ColumnEnd(e, b, c))
      <3>1. /\ StartOf(e, b - 1) \in Nat /\ FrontLen <= StartOf(e, b - 1)
            /\ ColumnBegin(e, b, c) \in Nat
            /\ ColumnEnd(e, b, c) = ColumnBegin(e, b, c) + Len(Blobs(e[b])[c])
            /\ StartOf(e, b - 1) + HeaderLen <= ColumnBegin(e, b, c)
            /\ Blobs(e[b])[c] \in Seq(Byte)
        BY <1>3, ColumnBounds
      <3>2. Len(Blobs(e[b])[c]) \in Nat
        BY <3>1
      <3> QED BY <1>4, <3>1, <3>2, HeaderLenType, FrontType, SMTT(30)
    <2> QED BY <2>1, FrontType DEF Columns
  <1>8. Trailer(kFormatMarker, e, FALSE)
    <2>1. FrontLen <= StartOf(e, Len(e)) /\ StartOf(e, Len(e)) \in Nat
      <3>1. Len(e) \in Nat /\ StartOf(e, 0) = FrontLen /\ StartOf(e, 0) <= StartOf(e, Len(e))
            /\ StartOf(e, Len(e)) \in Nat
        BY <1>3, StartType
      <3> QED BY <3>1
    <2> QED BY <1>4, <2>1, FrontType DEF Trailer
  <1> QED BY <1>1, <1>3, <1>5, <1>6, <1>7, <1>8, FrontType DEF Layout

LEMMA SchemaWritten ==
    ASSUME NEW w, NEW e, Layout(w, e, FALSE), Len(w) = WordLen
    PROVE  Layout(w \o SchemaBytes, e, FALSE) /\ Len(w \o SchemaBytes) = FrontLen
  <1> DEFINE u == w \o SchemaBytes
  <1>1. w \in Seq(Byte) /\ IsEncoded(e) /\ WordLen \in Nat \ {0} /\ w # <<>>
    BY HeaderLenType DEF Layout
  <1>2. /\ u \in Seq(Byte) /\ Len(u) = FrontLen
        /\ Has(u, 0, kFormatMarker)
    <2>1. /\ u \in Seq(Byte) /\ Len(u) = Len(w) + Len(SchemaBytes)
          /\ Has(u, 0, kFormatMarker)
      BY <1>1, LayoutKept, FrontType, Zenon
    <2>2. WordLen + (WordLen + SchemaLen) = FrontLen
      BY LayoutAssumption DEF FrontLen
    <2> QED BY <2>1, <2>2, FrontType
  <1>3. Has(u, WordLen, SchemaBytes)
    BY <1>1, HasNew, FrontType
  <1> HIDE DEF u
  <1>4. Front(u)
    BY <1>2, <1>3 DEF Front
  <1>5. Headers(u, e)
    BY <1>1, <1>2, ColumnBounds, FrontType DEF Headers
  <1>6. Columns(u, e)
    <2>1. ASSUME NEW b \in 1..Len(e), NEW c \in 1..NCols
          PROVE  ~(FrontLen >= ColumnEnd(e, b, c))
      <3>1. /\ StartOf(e, b - 1) \in Nat /\ FrontLen <= StartOf(e, b - 1)
            /\ ColumnBegin(e, b, c) \in Nat
            /\ ColumnEnd(e, b, c) = ColumnBegin(e, b, c) + Len(Blobs(e[b])[c])
            /\ StartOf(e, b - 1) + HeaderLen <= ColumnBegin(e, b, c)
            /\ Blobs(e[b])[c] \in Seq(Byte)
        BY <1>1, ColumnBounds
      <3>2. Len(Blobs(e[b])[c]) \in Nat
        BY <3>1
      <3> QED BY <3>1, <3>2, HeaderLenType, FrontType, SMTT(30)
    <2> QED BY <1>2, <2>1 DEF Columns
  <1>7. Trailer(u, e, FALSE)
    <2>1. Len(e) \in Nat /\ StartOf(e, 0) = FrontLen /\ StartOf(e, 0) <= StartOf(e, Len(e))
      BY <1>1, StartType
    <2> QED BY <1>2, <2>1 DEF Trailer
  <1> QED BY <1>1, <1>2, <1>4, <1>5, <1>6, <1>7 DEF Layout, u

\* A header.
LEMMA HeaderWritten ==
    ASSUME NEW w, NEW e, Layout(w, e, FALSE), Len(e) # 0, Len(w) = StartOf(e, Len(e) - 1)
    PROVE  /\ Layout(w \o HeaderOf(e, Len(e)), e, FALSE)
           /\ Len(w \o HeaderOf(e, Len(e))) = ColumnBegin(e, Len(e), 1)
  <1> DEFINE u == w \o HeaderOf(e, Len(e))
  <1>1. w \in Seq(Byte) /\ IsEncoded(e) /\ Len(e) \in Nat \ {0} /\ Len(e) \in 1..Len(e)
    BY StartType DEF Layout
  <1>2. /\ HeaderOf(e, Len(e)) \in Seq(Byte) /\ Len(HeaderOf(e, Len(e))) = HeaderLen
        /\ Len(w) \in Nat /\ FrontLen <= Len(w)
        /\ ColumnBegin(e, Len(e), 1) = Len(w) + HeaderLen
    BY <1>1, ColumnBounds
  <1>3. WordLen \in Nat \ {0} /\ WordLen < Len(w) /\ w # <<>>
    BY <1>1, <1>2, LayoutAssumption DEF FrontLen
  <1>4. /\ u \in Seq(Byte) /\ Len(u) = Len(w) + HeaderLen
        /\ Has(u, 0, kFormatMarker) /\ Has(u, WordLen, SchemaBytes)
        /\ \A b \in 1..Len(e) :
             /\ Len(w) > StartOf(e, b - 1) => Has(u, StartOf(e, b - 1), HeaderOf(e, b))
             /\ \A c \in 1..NCols : Len(w) >= ColumnEnd(e, b, c) =>
                  Has(u, ColumnBegin(e, b, c), Blobs(e[b])[c])
    BY <1>2, <1>3, LayoutKept
  <1>5. Has(u, Len(w), HeaderOf(e, Len(e)))
    BY <1>1, <1>2, HasNew
  <1> HIDE DEF u
  <1>6. Front(u)
    BY <1>4 DEF Front
  <1>7. ASSUME NEW b \in 1..Len(e), b # Len(e)
        PROVE  /\ Len(w) > StartOf(e, b - 1)
               /\ \A c \in 1..NCols : Len(w) >= ColumnEnd(e, b, c)
    <2>1. /\ b \in 0..Len(e) /\ Len(e) - 1 \in b..Len(e) /\ b - 1 \in Nat
      BY <1>1, <1>7
    <2>2. StartOf(e, b) <= Len(w)
      BY <1>1, <2>1, StartType
    <2>3. StartOf(e, b - 1) + HeaderLen <= StartOf(e, b)
      BY <1>1, StartType
    <2>4. StartOf(e, b) \in Nat /\ StartOf(e, b - 1) \in Nat
      BY <1>1, ColumnBounds
    <2>5. ASSUME NEW c \in 1..NCols PROVE Len(w) >= ColumnEnd(e, b, c)
      <3>1. /\ ColumnBegin(e, b, c) \in Nat /\ Blobs(e[b])[c] \in Seq(Byte)
            /\ ColumnEnd(e, b, c) = ColumnBegin(e, b, c) + Len(Blobs(e[b])[c])
            /\ ColumnEnd(e, b, c) <= StartOf(e, b)
        BY <1>1, ColumnBounds
      <3>2. ColumnEnd(e, b, c) \in Nat
        BY <3>1
      <3> QED BY <1>2, <2>2, <2>4, <3>1, <3>2, SMTT(30)
    <2> QED BY <1>2, <2>2, <2>3, <2>4, <2>5, HeaderLenType
  <1>8. Headers(u, e)
    BY <1>4, <1>5, <1>7 DEF Headers
  <1>9. Columns(u, e)
    <2>1. ASSUME NEW b \in 1..Len(e), NEW c \in 1..NCols, Len(u) >= ColumnEnd(e, b, c)
          PROVE  Has(u, ColumnBegin(e, b, c), Blobs(e[b])[c])
      <3>1. CASE b # Len(e)
        BY <1>4, <1>7, <3>1
      <3>2. CASE b = Len(e)
        <4>1. /\ ColumnBegin(e, b, c) \in Nat /\ Blobs(e[b])[c] \in Seq(Byte)
              /\ ColumnEnd(e, b, c) = ColumnBegin(e, b, c) + Len(Blobs(e[b])[c])
              /\ Len(w) + HeaderLen <= ColumnBegin(e, b, c)
          BY <1>1, <3>2, ColumnBounds
        <4>2. Len(Blobs(e[b])[c]) \in Nat
          BY <4>1
        <4>3. Len(Blobs(e[b])[c]) = 0 /\ ColumnBegin(e, b, c) = Len(u)
          BY <1>2, <1>4, <2>1, <4>1, <4>2, HeaderLenType
        <4> QED BY <1>4, <4>3, <4>1 DEF Has
      <3> QED BY <3>1, <3>2
    <2> QED BY <2>1 DEF Columns
  <1>10. Trailer(u, e, FALSE)
    <2>1. StartOf(e, Len(e) - 1) + HeaderLen <= StartOf(e, Len(e))
      BY <1>1, StartType
    <2> QED BY <1>4, <2>1 DEF Trailer
  <1> QED BY <1>1, <1>2, <1>4, <1>6, <1>8, <1>9, <1>10 DEF Layout, u

\* A column. One that is empty ends where it begins.
LEMMA ColumnWritten ==
    ASSUME NEW w, NEW e, NEW c \in 1..NCols, Layout(w, e, FALSE), Len(e) # 0,
           Len(w) = ColumnBegin(e, Len(e), c)
    PROVE  /\ Layout(w \o Blobs(e[Len(e)])[c], e, FALSE)
           /\ Len(w \o Blobs(e[Len(e)])[c]) = ColumnEnd(e, Len(e), c)
  <1> DEFINE blob == Blobs(e[Len(e)])[c]
             u == w \o blob
  <1>1. w \in Seq(Byte) /\ IsEncoded(e) /\ Len(e) \in Nat \ {0} /\ Len(e) \in 1..Len(e)
    BY StartType DEF Layout
  <1>2. /\ blob \in Seq(Byte) /\ Len(w) \in Nat
        /\ ColumnEnd(e, Len(e), c) = Len(w) + Len(blob)
        /\ ColumnEnd(e, Len(e), c) <= StartOf(e, Len(e))
        /\ FrontLen <= StartOf(e, Len(e) - 1)
        /\ StartOf(e, Len(e) - 1) \in Nat
        /\ StartOf(e, Len(e) - 1) + HeaderLen <= Len(w)
    BY <1>1, ColumnBounds
  <1>3. WordLen \in Nat \ {0} /\ WordLen < Len(w) /\ w # <<>> /\ StartOf(e, Len(e) - 1) < Len(w)
    <2>1. WordLen \in Nat \ {0} /\ WordLen < FrontLen /\ HeaderLen \in Nat \ {0} /\ FrontLen \in Nat
      BY LayoutAssumption, HeaderLenType, FrontType DEF FrontLen
    <2>2. WordLen < Len(w) /\ StartOf(e, Len(e) - 1) < Len(w)
      BY <1>2, <2>1
    <2>3. w # <<>>
      BY <2>1, <2>2
    <2> QED BY <2>1, <2>2, <2>3
  <1> HIDE DEF blob
  <1>4. /\ u \in Seq(Byte) /\ Len(u) = Len(w) + Len(blob)
        /\ Has(u, 0, kFormatMarker) /\ Has(u, WordLen, SchemaBytes)
        /\ \A b \in 1..Len(e) :
             /\ Len(w) > StartOf(e, b - 1) => Has(u, StartOf(e, b - 1), HeaderOf(e, b))
             /\ \A d \in 1..NCols : Len(w) >= ColumnEnd(e, b, d) =>
                  Has(u, ColumnBegin(e, b, d), Blobs(e[b])[d])
    BY <1>2, <1>3, LayoutKept
  <1>5. Has(u, Len(w), blob)
    BY <1>1, <1>2, HasNew
  <1> HIDE DEF u
  <1>6. Front(u)
    BY <1>4 DEF Front
  <1>7. ASSUME NEW b \in 1..Len(e) PROVE StartOf(e, b - 1) < Len(w)
    <2>1. b - 1 \in 0..Len(e) /\ Len(e) - 1 \in (b - 1)..Len(e)
      BY <1>1
    <2>2. StartOf(e, b - 1) <= StartOf(e, Len(e) - 1) /\ StartOf(e, b - 1) \in Nat
      BY <1>1, <2>1, StartType
    <2> QED BY <1>2, <1>3, <2>2
  <1>8. Headers(u, e)
    BY <1>4, <1>7 DEF Headers
  <1>9. Columns(u, e)
    <2>1. ASSUME NEW b \in 1..Len(e), NEW d \in 1..NCols, Len(u) >= ColumnEnd(e, b, d)
          PROVE  Has(u, ColumnBegin(e, b, d), Blobs(e[b])[d])
      <3>1. /\ ColumnBegin(e, b, d) \in Nat /\ Blobs(e[b])[d] \in Seq(Byte)
            /\ ColumnEnd(e, b, d) = ColumnBegin(e, b, d) + Len(Blobs(e[b])[d])
            /\ ColumnEnd(e, b, d) <= StartOf(e, b)
        BY <1>1, ColumnBounds
      <3>2. Len(Blobs(e[b])[d]) \in Nat
        BY <3>1
      <3>3. CASE b # Len(e)
        <4>1. b \in 0..Len(e) /\ Len(e) - 1 \in b..Len(e)
          BY <1>1, <3>3
        <4>2. StartOf(e, b) <= StartOf(e, Len(e) - 1) /\ StartOf(e, b) \in Nat
          BY <1>1, <4>1, StartType
        <4>3. Len(w) >= ColumnEnd(e, b, d)
          BY <1>2, <1>3, <3>1, <3>2, <4>2
        <4> QED BY <1>4, <4>3
      <3>4. CASE b = Len(e) /\ d = c
        <4>1. Has(u, ColumnBegin(e, Len(e), c), Blobs(e[Len(e)])[c])
          BY <1>5 DEF blob
        <4> QED BY <3>4, <4>1
      <3>5. CASE b = Len(e) /\ d < c
        <4>1. ColumnEnd(e, b, d) <= Len(w)
          BY <1>1, <3>5, ColumnOrder
        <4>2. ColumnEnd(e, b, d) \in Nat
          BY <3>1, <3>2
        <4> QED BY <1>2, <1>4, <4>1, <4>2
      <3>6. CASE b = Len(e) /\ d > c
        <4>1. ColumnEnd(e, b, c) <= ColumnBegin(e, b, d)
          BY <1>1, <3>6, ColumnOrder
        <4>2. Len(blob) \in Nat /\ Len(u) = ColumnEnd(e, b, c)
          BY <1>2, <1>4, <3>6
        <4>3. Len(Blobs(e[b])[d]) = 0 /\ ColumnBegin(e, b, d) = Len(u)
          BY <1>2, <2>1, <3>1, <3>2, <4>1, <4>2
        <4> QED BY <1>4, <3>1, <4>3 DEF Has
      <3>7. d = c \/ d < c \/ d > c
        OBVIOUS
      <3> QED BY <3>3, <3>4, <3>5, <3>6, <3>7
    <2> QED BY <2>1 DEF Columns
  <1>10. Trailer(u, e, FALSE)
    BY <1>2, <1>4 DEF Trailer
  <1>11. Layout(u, e, FALSE)
    BY <1>1, <1>4, <1>6, <1>8, <1>9, <1>10 DEF Layout
  <1>12. Len(u) = ColumnEnd(e, Len(e), c)
    BY <1>2, <1>4
  <1> QED BY <1>11, <1>12 DEF u, blob

\* The trailer.
LEMMA TrailerWritten ==
    ASSUME NEW w, NEW e, Layout(w, e, FALSE), Len(w) = StartOf(e, Len(e))
    PROVE  Layout(w \o kFormatMarker, e, TRUE)
  <1> DEFINE u == w \o kFormatMarker
  <1>1. w \in Seq(Byte) /\ IsEncoded(e) /\ Len(e) \in Nat
    BY StartType DEF Layout
  <1>2. Len(w) \in Nat /\ WordLen < Len(w) /\ w # <<>> /\ WordLen \in Nat \ {0}
    <2>1. WordLen \in Nat \ {0} /\ WordLen < FrontLen /\ FrontLen \in Nat
      BY LayoutAssumption, FrontType DEF FrontLen
    <2>2. StartOf(e, 0) = FrontLen /\ StartOf(e, 0) <= StartOf(e, Len(e)) /\ StartOf(e, Len(e)) \in Nat
      BY <1>1, StartType
    <2>3. WordLen < Len(w) /\ Len(w) \in Nat
      BY <2>1, <2>2
    <2>4. w # <<>>
      BY <2>1, <2>3
    <2> QED BY <2>1, <2>3, <2>4
  <1>3. /\ u \in Seq(Byte) /\ Len(u) = Len(w) + Len(kFormatMarker)
        /\ Has(u, 0, kFormatMarker) /\ Has(u, WordLen, SchemaBytes)
        /\ \A b \in 1..Len(e) :
             /\ Len(w) > StartOf(e, b - 1) => Has(u, StartOf(e, b - 1), HeaderOf(e, b))
             /\ \A c \in 1..NCols : Len(w) >= ColumnEnd(e, b, c) =>
                  Has(u, ColumnBegin(e, b, c), Blobs(e[b])[c])
    BY <1>2, LayoutKept, FrontType
  <1>4. Has(u, Len(w), kFormatMarker)
    BY <1>1, HasNew, FrontType
  <1> HIDE DEF u
  <1>5. ASSUME NEW b \in 1..Len(e)
        PROVE  /\ Len(w) > StartOf(e, b - 1)
               /\ \A c \in 1..NCols : Len(w) >= ColumnEnd(e, b, c)
    <2>1. /\ StartOf(e, b - 1) \in Nat /\ StartOf(e, b) \in Nat
          /\ StartOf(e, b) <= Len(w)
          /\ \A c \in 1..NCols : /\ ColumnBegin(e, b, c) \in Nat /\ Blobs(e[b])[c] \in Seq(Byte)
                                 /\ ColumnEnd(e, b, c) = ColumnBegin(e, b, c) + Len(Blobs(e[b])[c])
                                 /\ ColumnEnd(e, b, c) <= StartOf(e, b)
      BY <1>1, ColumnBounds
    <2>2. StartOf(e, b - 1) + HeaderLen <= StartOf(e, b)
      BY <1>1, StartType
    <2>3. Len(w) > StartOf(e, b - 1)
      BY <1>2, <2>1, <2>2, HeaderLenType
    <2>4. ASSUME NEW c \in 1..NCols PROVE Len(w) >= ColumnEnd(e, b, c)
      <3>1. ColumnEnd(e, b, c) \in Nat
        BY <2>1
      <3> QED BY <1>2, <2>1, <3>1
    <2> QED BY <2>3, <2>4
  <1>6. Headers(u, e)
    BY <1>3, <1>5 DEF Headers
  <1>7. Columns(u, e)
    BY <1>3, <1>5 DEF Columns
  <1>8. Front(u) /\ Trailer(u, e, TRUE)
    BY <1>3, <1>4, FrontType DEF Front, Trailer
  <1> QED BY <1>1, <1>3, <1>6, <1>7, <1>8 DEF Layout, u

\* A batch encoded, of which nothing has been written.
LEMMA BatchEncoded ==
    ASSUME NEW w, NEW e, Layout(w, e, FALSE), Len(w) = StartOf(e, Len(e)),
           NEW v, IsBatch(Len(e) + 1, v), Len(e) < Len(Rows)
    PROVE  Layout(w, Append(e, v), FALSE) /\ StartOf(Append(e, v), Len(e)) = Len(w)
  <1> DEFINE f == Append(e, v)
  <1>1. w \in Seq(Byte) /\ IsEncoded(e) /\ Len(e) \in Nat
    BY StartType DEF Layout
  <1>2. Len(f) = Len(e) + 1 /\ \A b \in 1..Len(e) : f[b] = e[b]
    BY <1>1 DEF IsEncoded
  <1>3. IsEncoded(f) /\ \A k \in 0..Len(e) : StartOf(f, k) = StartOf(e, k)
    BY <1>1, StartAppend
  <1> HIDE DEF f
  <1>4. Len(w) \in Nat /\ Len(e) \in 0..Len(e)
    BY <1>1
  <1>5. ASSUME NEW b \in 1..Len(e)
        PROVE  /\ b - 1 \in 0..Len(e)
               /\ StartOf(f, b - 1) = StartOf(e, b - 1)
               /\ HeaderOf(f, b) = HeaderOf(e, b)
               /\ f[b] = e[b]
               /\ \A c \in 1..NCols : ColumnBegin(f, b, c) = ColumnBegin(e, b, c)
                                      /\ ColumnEnd(f, b, c) = ColumnEnd(e, b, c)
    <2>1. b - 1 \in 0..Len(e)
      BY <1>1
    <2>2. StartOf(f, b - 1) = StartOf(e, b - 1) /\ f[b] = e[b]
      BY <1>2, <1>3, <2>1
    <2> QED BY <2>1, <2>2 DEF HeaderOf, ColumnBegin, ColumnEnd
  <1>6. Headers(w, f)
    <2>1. ASSUME NEW b \in 1..Len(f), Len(w) > StartOf(f, b - 1)
          PROVE  Has(w, StartOf(f, b - 1), HeaderOf(f, b))
      <3>1. CASE b \in 1..Len(e)
        BY <1>5, <2>1, <3>1 DEF Layout, Headers
      <3>2. CASE b = Len(e) + 1
        <4>1. StartOf(f, b - 1) = Len(w)
          BY <1>1, <1>3, <1>4, <3>2
        <4> QED BY <1>4, <2>1, <4>1
      <3> QED BY <1>1, <1>2, <3>1, <3>2
    <2> QED BY <2>1 DEF Headers
  <1>7. Columns(w, f)
    <2>1. ASSUME NEW b \in 1..Len(f), NEW c \in 1..NCols, Len(w) >= ColumnEnd(f, b, c)
          PROVE  Has(w, ColumnBegin(f, b, c), Blobs(f[b])[c])
      <3>1. CASE b \in 1..Len(e)
        <4>1. Len(w) >= ColumnEnd(e, b, c)
          BY <1>5, <2>1, <3>1
        <4>2. Has(w, ColumnBegin(e, b, c), Blobs(e[b])[c])
          BY <3>1, <4>1 DEF Layout, Columns
        <4> QED BY <1>5, <3>1, <4>2
      <3>2. CASE b = Len(e) + 1
        <4>1. StartOf(f, b - 1) = Len(w)
          BY <1>1, <1>3, <1>4, <3>2
        <4>2. /\ ColumnBegin(f, b, c) \in Nat /\ Blobs(f[b])[c] \in Seq(Byte)
              /\ ColumnEnd(f, b, c) = ColumnBegin(f, b, c) + Len(Blobs(f[b])[c])
              /\ StartOf(f, b - 1) + HeaderLen <= ColumnBegin(f, b, c)
          BY <1>3, ColumnBounds
        <4>3. Len(Blobs(f[b])[c]) \in Nat
          BY <4>2
        <4> QED BY <1>4, <2>1, <4>1, <4>2, <4>3, HeaderLenType
      <3> QED BY <1>1, <1>2, <3>1, <3>2
    <2> QED BY <2>1 DEF Columns
  <1>8. Trailer(w, f, FALSE)
    <2>1. Len(f) \in 1..Len(f) /\ Len(f) - 1 = Len(e)
      BY <1>1, <1>2
    <2>2. StartOf(f, Len(f) - 1) + HeaderLen <= StartOf(f, Len(f)) /\ StartOf(f, Len(f)) \in Nat
      BY <1>3, <2>1, ColumnBounds, StartType
    <2>3. StartOf(f, Len(f) - 1) = Len(w)
      BY <1>3, <1>4, <2>1
    <2> QED BY <1>4, <2>2, <2>3, HeaderLenType DEF Trailer
  <1>9. StartOf(f, Len(e)) = Len(w)
    BY <1>3, <1>4
  <1>10. Layout(w, f, FALSE)
    BY <1>1, <1>3, <1>6, <1>7, <1>8 DEF Layout
  <1> QED BY <1>9, <1>10 DEF f

-----------------------------------------------------------------------------
(* The writer.                                                             *)

WTypes ==
    /\ wpc \in {"marker", "schema", "stream", "encode", "header", "columns",
                "trailer", "close", "unwind"} \cup Ended
    /\ durable \in 0..Len(written)
    /\ full \in BOOLEAN
    /\ nbatch \in 0..Len(Rows)
    /\ vec \in [1..NCols -> Encoded \cup {Pending}]
    /\ \A c \in 1..NCols : vec[c] \in Encodings(nbatch, c) \cup {Pending}
    /\ next \in 1..(NCols + 1)
    /\ trailed \in BOOLEAN

\* Which batches have been encoded, from where WriteAsCurse is.
Counting ==
    /\ wpc \in {"marker", "schema"} => nbatch = 0
    /\ wpc \in {"encode", "header", "columns"} => nbatch \in 1..Len(Rows)
    /\ wpc = "encode" => Len(encoded) = nbatch - 1
    /\ wpc \notin {"encode", "killed"} => Len(encoded) = nbatch
    /\ Len(encoded) \in {nbatch - 1, nbatch}
    /\ wpc \in {"header", "columns"} => encoded[nbatch] = vec
    /\ trailed \/ wpc = "trailer" => nbatch = Len(Rows) /\ Len(encoded) = Len(Rows)
    /\ trailed => wpc \in {"close"} \cup Ended
    /\ wpc = "close" => trailed

\* How many bytes have been handed over.
Place ==
    /\ wpc = "marker" => written = <<>>
    /\ wpc = "schema" => Len(written) = WordLen
    /\ wpc \in {"stream", "trailer"} => Len(written) = StartOf(encoded, nbatch)
    /\ wpc \in {"encode", "header"} => Len(written) = StartOf(encoded, nbatch - 1)
    /\ wpc = "columns" => Len(written) = StartOf(encoded, nbatch - 1) + EndsOf(encoded[nbatch])[next - 1]

WInv ==
    /\ WTypes
    /\ Counting
    /\ Place
    /\ Layout(written, encoded, trailed)

LEMMA DomRows == DOMAIN Rows = 1..Len(Rows) /\ Len(Rows) \in Nat
  BY WriterAssumption

LEMMA WInvInit == WInit => WInv
  <1> SUFFICES ASSUME WInit PROVE WInv
    OBVIOUS
  <1>0. Len(Rows) \in Nat /\ NCols \in Nat \ {0}
    BY WriterAssumption, HeaderLenType
  <1>1. WTypes
    <2>1. vec \in [1..NCols -> {Pending}] /\ \A c \in 1..NCols : vec[c] = Pending
      BY DEF WInit
    <2>2. durable \in 0..Len(written) /\ nbatch \in 0..Len(Rows) /\ next \in 1..(NCols + 1)
      BY <1>0 DEF WInit
    <2>3. full \in BOOLEAN /\ trailed \in BOOLEAN
      BY DEF WInit
    <2>4. wpc \in {"marker"}
      BY DEF WInit
    <2> QED BY <2>1, <2>2, <2>3, <2>4 DEF WTypes
  <1>2. Counting
    BY DEF WInit, Counting
  <1>3. Place
    BY DEF WInit, Place
  <1>4. IsEncoded(<<>>)
    BY <1>0 DEF IsEncoded
  <1>5. Front(<<>>) /\ Headers(<<>>, <<>>) /\ Columns(<<>>, <<>>)
    BY HeaderLenType DEF Front, Headers, Columns
  <1>6. Trailer(<<>>, <<>>, FALSE)
    <2>1. StartOf(<<>>, 0) \in Nat
      BY <1>4, StartType, FrontType
    <2> QED BY <2>1 DEF Trailer
  <1>7. <<>> \in Seq(Byte)
    OBVIOUS
  <1> QED BY <1>1, <1>2, <1>3, <1>4, <1>5, <1>6, <1>7 DEF WInit, WInv, Layout

\* The file is left as it is.
LEMMA WInvQuiet ==
    ASSUME WInv, Flush \/ DeviceFull \/ Close \/ Kill \/ EndOfStream \/ StreamThrows
    PROVE  WInv'
  <1>1. Len(written) \in Nat /\ durable \in Nat /\ durable <= Len(written)
    BY DEF WInv, WTypes, Layout
  <1>2. WTypes'
    <2>1. UNCHANGED <<nbatch, vec, next, trailed, written>>
      BY DEF Flush, DeviceFull, Close, Kill, EndOfStream, StreamThrows
    <2>2. durable' \in 0..Len(written)
      BY <1>1 DEF Flush, DeviceFull, Close, Kill, EndOfStream, StreamThrows
    <2>3. full' \in BOOLEAN
      BY DEF WInv, WTypes, Flush, DeviceFull, Close, Kill, EndOfStream, StreamThrows
    <2>4. wpc' \in {"marker", "schema", "stream", "encode", "header", "columns",
                    "trailer", "close", "unwind"} \cup Ended
      BY DEF WInv, WTypes, Flush, DeviceFull, Close, Kill, EndOfStream, StreamThrows, Ended
    <2> QED BY <2>1, <2>2, <2>3, <2>4 DEF WInv, WTypes
  <1>3. Counting'
    BY DEF WInv, Counting, Flush, DeviceFull, Close, Kill, EndOfStream, StreamThrows, Ended
  <1>4. Place'
    BY DEF WInv, Place, Flush, DeviceFull, Close, Kill, EndOfStream, StreamThrows
  <1>5. Layout(written, encoded, trailed)'
    BY DEF WInv, Layout, Front, Headers, Columns, Trailer, IsEncoded, Flush, DeviceFull, Close, Kill,
           EndOfStream, StreamThrows
  <1> QED BY <1>2, <1>3, <1>4, <1>5 DEF WInv

\* A batch is taken, and its columns are encoded.
LEMMA WInvEncode ==
    ASSUME WInv, NextBatch \/ (\E c \in 1..NCols : EncodeColumn(c)) \/ EndBatch
    PROVE  WInv'
  <1>0. NCols \in Nat \ {0} /\ Len(Rows) \in Nat /\ written' = written /\ encoded' = encoded /\ trailed' = trailed
    BY WriterAssumption, HeaderLenType DEF NextBatch, EncodeColumn, EndBatch
  <1>1. Layout(written', encoded', trailed')
    BY <1>0 DEF WInv
  <1>2. CASE NextBatch
    <2>1. WTypes'
      BY <1>0, <1>2 DEF WInv, WTypes, NextBatch, Ended
    <2>2. Counting'
      BY <1>0, <1>2 DEF WInv, WTypes, Counting, NextBatch, Ended
    <2>3. Place'
      <3>1. nbatch' - 1 = nbatch /\ wpc = "stream" /\ wpc' = "encode"
        BY <1>2 DEF NextBatch, WInv, WTypes
      <3> QED BY <1>0, <3>1 DEF WInv, Place
    <2> QED BY <1>1, <2>1, <2>2, <2>3 DEF WInv
  <1>3. CASE \E c \in 1..NCols : EncodeColumn(c)
    <2> PICK c \in 1..NCols : EncodeColumn(c)
      BY <1>3
    <2>1. WTypes'
      <3>1. nbatch \in 1..Len(Rows)
        BY DEF WInv, Counting, EncodeColumn
      <3>2. BlobLens[nbatch][c] \subseteq Nat \ {0}
        BY <1>0, <3>1, DomRows, WriterAssumption
      <3>3. /\ nbatch' = nbatch
            /\ \E x \in Encodings(nbatch, c) : vec' = [vec EXCEPT ![c] = x]
        BY <3>2 DEF EncodeColumn, Encodings
      <3>4. \A x \in Encodings(nbatch, c) : x \in Encoded
        <4>1. ASSUME NEW n \in Nat \ {0} PROVE Chunk(ColItem(nbatch, c), n) \in Seq(Byte)
          <5>1. ColItem(nbatch, c) \in Items
            BY <1>0, <3>1 DEF Items
          <5> QED BY <5>1, ChunkType
        <4> QED BY <4>1 DEF Encodings, Encoded
      <3>5. vec' \in [1..NCols -> Encoded \cup {Pending}]
        BY <3>3, <3>4 DEF WInv, WTypes
      <3>6. \A d \in 1..NCols : vec'[d] \in Encodings(nbatch, d) \cup {Pending}
        BY <3>3 DEF WInv, WTypes
      <3> QED BY <1>0, <3>3, <3>5, <3>6 DEF WInv, WTypes, EncodeColumn
    <2>2. Counting'
      BY DEF WInv, Counting, EncodeColumn
    <2>3. Place'
      BY DEF WInv, Place, EncodeColumn
    <2> QED BY <1>1, <2>1, <2>2, <2>3 DEF WInv
  <1>4. CASE EndBatch
    <2>1. WTypes'
      BY <1>0, <1>4 DEF WInv, WTypes, EndBatch, Ended
    <2>2. Counting'
      BY <1>0, <1>4 DEF WInv, WTypes, Counting, EndBatch, Ended
    <2>3. Place'
      <3>1. /\ wpc = "columns" /\ wpc' = "stream" /\ next - 1 = NCols /\ nbatch' = nbatch
            /\ nbatch \in 1..Len(encoded) /\ IsEncoded(encoded)
        BY <1>0, <1>4 DEF EndBatch, WInv, WTypes, Counting, Layout, Ended
      <3>2. Len(written) = StartOf(encoded, nbatch - 1) + EndsOf(encoded[nbatch])[NCols]
        BY <3>1 DEF WInv, Place
      <3>3. Len(written) = StartOf(encoded, nbatch)
        BY <3>1, <3>2, StartType
      <3> QED BY <1>0, <3>1, <3>3 DEF Place
    <2> QED BY <1>1, <2>1, <2>2, <2>3 DEF WInv
  <1> QED BY <1>2, <1>3, <1>4

LEMMA WInvWaitTasks == ASSUME WInv, WaitTasks PROVE WInv'
  <1>1. /\ wpc = "encode" /\ wpc' = "header" /\ encoded' = Append(encoded, vec)
        /\ \A c \in 1..NCols : vec[c] # Pending
        /\ UNCHANGED <<written, durable, full, nbatch, vec, next, trailed>>
    BY DEF WaitTasks
  <1>2. /\ Len(encoded) = nbatch - 1 /\ nbatch \in 1..Len(Rows) /\ IsEncoded(encoded)
        /\ Len(written) = StartOf(encoded, nbatch - 1) /\ trailed = FALSE
    BY <1>1 DEF WInv, WTypes, Counting, Place, Layout, Ended
  <1>3. IsBatch(Len(encoded) + 1, vec)
    <2>1. vec \in [1..NCols -> Encoded \cup {Pending}] /\ \A c \in 1..NCols : vec[c] \in Encodings(nbatch, c)
      BY <1>1 DEF WInv, WTypes
    <2>2. vec \in [1..NCols -> Encoded] /\ Len(encoded) + 1 = nbatch
      BY <1>1, <1>2, <2>1
    <2> QED BY <2>1, <2>2 DEF IsBatch
  <1>4. Layout(written, Append(encoded, vec), FALSE) /\ StartOf(Append(encoded, vec), Len(encoded)) = Len(written)
    <2>1. Layout(written, encoded, FALSE)
      BY <1>2 DEF WInv
    <2>2. Len(encoded) < Len(Rows) /\ Len(written) = StartOf(encoded, Len(encoded))
      BY <1>2, WriterAssumption
    <2> QED BY <1>3, <2>1, <2>2, BatchEncoded
  <1>5. Len(encoded') = nbatch /\ encoded'[nbatch] = vec
    BY <1>1, <1>2, <1>3 DEF IsEncoded, IsBatch
  <1>6. Layout(written', encoded', trailed')
    BY <1>1, <1>2, <1>4 DEF WInv, WTypes
  <1>7. WTypes'
    BY <1>1 DEF WInv, WTypes
  <1>8. Counting'
    BY <1>1, <1>2, <1>5 DEF Counting, Ended
  <1>9. Place'
    BY <1>1, <1>2, <1>4 DEF Place
  <1> QED BY <1>6, <1>7, <1>8, <1>9 DEF WInv

\* A Write that throws.
LEMMA WInvUnwind ==
    ASSUME WInv, wpc \in {"marker", "schema", "header", "columns", "trailer"}, wpc' = "unwind",
           UNCHANGED <<written, durable, full, nbatch, vec, encoded, trailed>>,
           next' \in 1..(NCols + 1)
    PROVE  WInv'
  <1>1. WTypes'
    BY DEF WInv, WTypes
  <1>2. Counting'
    BY DEF WInv, Counting, Ended
  <1>3. Place'
    BY DEF Place
  <1>4. Layout(written, encoded, trailed)'
    BY DEF WInv
  <1> QED BY <1>1, <1>2, <1>3, <1>4 DEF WInv

LEMMA WInvWriteMarker == ASSUME WInv, WriteMarker PROVE WInv'
  <1>1. CASE wpc' = "unwind" /\ written' = written
    BY <1>1, WInvUnwind DEF WriteMarker, WInv, WTypes
  <1>2. CASE wpc' = "schema" /\ written' = written \o kFormatMarker
    <2>1. /\ wpc = "marker" /\ written = <<>> /\ trailed = FALSE
          /\ UNCHANGED <<durable, full, nbatch, vec, next, encoded, trailed>>
      BY <1>2 DEF WriteMarker, WInv, WTypes, Counting, Place, Ended
    <2>2. Layout(written', encoded, FALSE) /\ Len(written') = WordLen
      BY <1>2, <2>1, MarkerWritten DEF WInv
    <2>3. WTypes'
      <3>1. Len(written) = 0 /\ durable' = durable /\ WordLen \in Nat
        BY <2>1, HeaderLenType
      <3>2. durable' \in 0..Len(written')
        BY <2>2, <3>1 DEF WInv, WTypes
      <3> QED BY <1>2, <2>1, <3>2 DEF WInv, WTypes
    <2>4. Counting'
      BY <1>2, <2>1 DEF WInv, Counting, Ended
    <2>5. Place'
      BY <1>2, <2>1, <2>2 DEF Place
    <2> QED BY <2>1, <2>2, <2>3, <2>4, <2>5 DEF WInv
  <1> QED BY <1>1, <1>2 DEF WriteMarker, Write

LEMMA WInvWriteSchema == ASSUME WInv, WriteSchema PROVE WInv'
  <1>1. CASE wpc' = "unwind" /\ written' = written
    BY <1>1, WInvUnwind DEF WriteSchema, WInv, WTypes
  <1>2. CASE wpc' = "stream" /\ written' = written \o SchemaBytes
    <2>1. /\ wpc = "schema" /\ Len(written) = WordLen /\ trailed = FALSE
          /\ nbatch = 0 /\ Len(encoded) = 0
          /\ UNCHANGED <<durable, full, nbatch, vec, next, encoded, trailed>>
      BY <1>2 DEF WriteSchema, WInv, WTypes, Counting, Place, Ended
    <2>2. Layout(written', encoded, FALSE) /\ Len(written') = FrontLen
      BY <1>2, <2>1, SchemaWritten DEF WInv
    <2>3. StartOf(encoded, nbatch) = FrontLen
      BY <2>1, StartType DEF WInv, Layout
    <2>4. WTypes'
      <3>1. Len(written) <= FrontLen /\ Len(written) \in Nat
        BY <2>1, LayoutAssumption DEF FrontLen
      <3>2. durable' \in 0..Len(written')
        BY <2>1, <2>2, <3>1, FrontType DEF WInv, WTypes
      <3> QED BY <1>2, <2>1, <3>2 DEF WInv, WTypes
    <2>5. Counting'
      BY <1>2, <2>1 DEF WInv, Counting, Ended
    <2>6. Place'
      BY <1>2, <2>1, <2>2, <2>3 DEF Place
    <2> QED BY <2>1, <2>2, <2>4, <2>5, <2>6 DEF WInv
  <1> QED BY <1>1, <1>2 DEF WriteSchema, Write

LEMMA WInvWriteHeader == ASSUME WInv, WriteHeader PROVE WInv'
  <1>0. /\ wpc = "header" /\ next' = 1
        /\ UNCHANGED <<durable, full, nbatch, vec, encoded, trailed>>
    BY DEF WriteHeader
  <1>1. CASE wpc' = "unwind" /\ written' = written
    <2>1. next' \in 1..(NCols + 1)
      BY <1>0, HeaderLenType
    <2> QED BY <1>0, <1>1, <2>1, WInvUnwind
  <1>2. CASE wpc' = "columns" /\ written' = written \o HeaderBytes(Rows[nbatch], Blobs(vec))
    <2>1. /\ nbatch \in 1..Len(Rows) /\ Len(encoded) = nbatch /\ trailed = FALSE
          /\ encoded[nbatch] = vec
          /\ Len(written) = StartOf(encoded, nbatch - 1)
          /\ Layout(written, encoded, FALSE)
      BY <1>0 DEF WInv, WTypes, Counting, Place, Ended
    <2>2. written' = written \o HeaderOf(encoded, Len(encoded))
      BY <1>2, <2>1 DEF HeaderOf
    <2>3. Len(encoded) # 0
      BY <2>1
    <2>4. Layout(written', encoded, FALSE) /\ Len(written') = ColumnBegin(encoded, nbatch, 1)
      BY <2>1, <2>2, <2>3, HeaderWritten
    <2>5. ColumnBegin(encoded, nbatch, 1) = StartOf(encoded, nbatch - 1) + EndsOf(encoded[nbatch])[1 - 1]
      BY DEF ColumnBegin
    <2>6. WTypes'
      <3>1. IsEncoded(encoded) /\ nbatch \in 1..Len(encoded)
        BY <2>1 DEF Layout
      <3>2. StartOf(encoded, nbatch - 1) \in Nat
            /\ ColumnBegin(encoded, nbatch, 1) = StartOf(encoded, nbatch - 1) + HeaderLen
        BY <3>1, ColumnBounds
      <3>3. durable' \in 0..Len(written')
        BY <1>0, <2>1, <2>4, <3>2, HeaderLenType DEF WInv, WTypes
      <3>4. next' \in 1..(NCols + 1)
        BY <1>0, HeaderLenType
      <3> QED BY <1>0, <1>2, <3>3, <3>4 DEF WInv, WTypes
    <2>7. Counting'
      BY <1>0, <1>2, <2>1 DEF Counting, Ended
    <2>8. Place'
      BY <1>0, <1>2, <2>4, <2>5 DEF Place
    <2> QED BY <1>0, <2>1, <2>4, <2>6, <2>7, <2>8 DEF WInv
  <1> QED BY <1>1, <1>2 DEF WriteHeader, Write

LEMMA WInvWriteColumn == ASSUME WInv, WriteColumn PROVE WInv'
  <1>0. /\ wpc = "columns" /\ next <= NCols /\ next' = next + 1 /\ next \in 1..NCols
        /\ next' \in 1..(NCols + 1)
        /\ UNCHANGED <<durable, full, nbatch, vec, encoded, trailed>>
    BY HeaderLenType DEF WriteColumn, WInv, WTypes
  <1>1. CASE wpc' = "unwind" /\ written' = written
    BY <1>0, <1>1, WInvUnwind
  <1>2. CASE wpc' = "columns" /\ written' = written \o Blob(vec[next])
    <2>1. /\ nbatch \in 1..Len(Rows) /\ Len(encoded) = nbatch /\ trailed = FALSE
          /\ encoded[nbatch] = vec
          /\ Len(written) = ColumnBegin(encoded, nbatch, next)
          /\ Layout(written, encoded, FALSE)
      BY <1>0 DEF WInv, WTypes, Counting, Place, ColumnBegin, Ended
    <2>2. written' = written \o Blobs(encoded[Len(encoded)])[next]
      BY <1>0, <1>2, <2>1 DEF Blobs
    <2>3. Len(encoded) # 0
      BY <2>1
    <2>4. Layout(written', encoded, FALSE) /\ Len(written') = ColumnEnd(encoded, nbatch, next)
      BY <1>0, <2>1, <2>2, <2>3, ColumnWritten
    <2>5. (next + 1) - 1 = next
      BY <1>0
    <2>6. Len(written') = StartOf(encoded, nbatch - 1) + EndsOf(encoded[nbatch])[(next + 1) - 1]
      BY <2>4, <2>5 DEF ColumnEnd
    <2>7. WTypes'
      <3>1. IsEncoded(encoded) /\ nbatch \in 1..Len(encoded)
        BY <2>1 DEF Layout
      <3>2. /\ ColumnBegin(encoded, nbatch, next) \in Nat
            /\ Blobs(encoded[nbatch])[next] \in Seq(Byte)
            /\ ColumnEnd(encoded, nbatch, next)
                 = ColumnBegin(encoded, nbatch, next) + Len(Blobs(encoded[nbatch])[next])
        BY <1>0, <3>1, ColumnBounds
      <3>3. Len(Blobs(encoded[nbatch])[next]) \in Nat
        BY <3>2
      <3>4. durable' \in 0..Len(written')
        BY <1>0, <2>1, <2>4, <3>2, <3>3 DEF WInv, WTypes
      <3> QED BY <1>0, <1>2, <3>4 DEF WInv, WTypes
    <2>8. Counting'
      BY <1>0, <1>2, <2>1 DEF Counting, Ended
    <2>9. Place'
      BY <1>0, <1>2, <2>6 DEF Place
    <2> QED BY <1>0, <2>1, <2>4, <2>7, <2>8, <2>9 DEF WInv
  <1> QED BY <1>1, <1>2 DEF WriteColumn, Write

LEMMA WInvWriteTrailer == ASSUME WInv, WriteTrailer PROVE WInv'
  <1>0. /\ wpc = "trailer" /\ nbatch = Len(Rows) /\ Len(encoded) = Len(Rows) /\ trailed = FALSE
        /\ Len(written) = StartOf(encoded, Len(encoded))
        /\ UNCHANGED <<durable, full, nbatch, vec, next, encoded>>
        /\ trailed' = (wpc' = "close")
    BY DEF WriteTrailer, WInv, WTypes, Counting, Place, Ended
  <1>1. CASE wpc' = "unwind" /\ written' = written
    <2>1. trailed' = trailed /\ next' \in 1..(NCols + 1)
      BY <1>0, <1>1 DEF WInv, WTypes
    <2> QED BY <1>0, <1>1, <2>1, WInvUnwind
  <1>2. CASE wpc' = "close" /\ written' = written \o kFormatMarker
    <2>1. trailed' = TRUE
      BY <1>0, <1>2
    <2>2. Layout(written', encoded, TRUE)
      BY <1>0, <1>2, TrailerWritten DEF WInv
    <2>3. Len(written') = Len(written) + WordLen
      BY <1>0, <2>2 DEF Layout, Trailer
    <2>4. WTypes'
      <3>1. Len(written) \in Nat
        BY DEF WInv, Layout
      <3>2. durable' \in 0..Len(written')
        BY <1>0, <2>3, <3>1, HeaderLenType DEF WInv, WTypes
      <3> QED BY <1>0, <1>2, <2>1, <3>2 DEF WInv, WTypes
    <2>5. Counting'
      BY <1>0, <1>2, <2>1 DEF Counting, Ended
    <2>6. Place'
      BY <1>2 DEF Place
    <2> QED BY <1>0, <2>1, <2>2, <2>4, <2>5, <2>6 DEF WInv
  <1> QED BY <1>1, <1>2 DEF WriteTrailer, Write

LEMMA WInvStep == ASSUME WInv, WNext PROVE WInv'
  BY WInvQuiet, WInvEncode, WInvWaitTasks, WInvWriteMarker, WInvWriteSchema, WInvWriteHeader,
     WInvWriteColumn, WInvWriteTrailer DEF WNext

-----------------------------------------------------------------------------
(* What is read. The file holds the first `durable` of the bytes written.  *)

\* Writer and reader lay a file out by the same definitions.
LEMMA SameLayout ==
    /\ Reader!kFormatMarker = kFormatMarker
    /\ Reader!HeaderLen = HeaderLen
    /\ \A b : Reader!IsItem(b) = IsItem(b)
  <1>1. Reader!kFormatMarker = kFormatMarker
    BY DEF kFormatMarker, Reader!kFormatMarker, Chunk, Reader!Chunk, MarkerItem, Reader!MarkerItem
  <1>2. Reader!HeaderLen = HeaderLen
    BY DEF HeaderLen, Reader!HeaderLen
  <1>3. ASSUME NEW b PROVE Reader!IsItem(b) = IsItem(b)
    <2>1. \A item, n : Reader!Chunk(item, n) = Chunk(item, n)
      BY DEF Chunk, Reader!Chunk
    <2> QED BY <2>1 DEF IsItem, Reader!IsItem
  <1> QED BY <1>1, <1>2, <1>3

\* The reader gets the bytes that are there.
LEMMA BytesRead ==
    ASSUME WInv, NEW bytes \in Seq(Byte), NEW beg \in Nat, Has(written, beg, bytes),
           Reader!CanRead(beg, Len(bytes))
    PROVE  Reader!BytesAt(beg, Len(bytes)) = bytes
  <1>1. written \in Seq(Byte) /\ durable \in 0..Len(written) /\ Len(bytes) \in Nat
    BY DEF WInv, WTypes, Layout
  <1>2. /\ Disk \in Seq(Byte) /\ Len(Disk) = durable
        /\ \A p \in 1..durable : Disk[p] = written[p]
    BY <1>1 DEF Disk
  <1>3. Reader!BytesAt(beg, Len(bytes)) = SubSeq(Disk, beg + 1, beg + Len(bytes))
    BY DEF Reader!BytesAt
  <1>4. CASE Len(bytes) = 0
    <2>1. bytes = <<>>
      BY <1>4
    <2>2. SubSeq(Disk, beg + 1, beg + Len(bytes)) = <<>>
      BY <1>2, <1>4
    <2> QED BY <1>3, <2>1, <2>2
  <1>5. CASE Len(bytes) # 0
    <2>1. beg + Len(bytes) <= durable
      BY <1>2, <1>5 DEF Reader!CanRead
    <2> DEFINE piece == SubSeq(Disk, beg + 1, beg + Len(bytes))
    <2>2. /\ piece \in Seq(Byte) /\ Len(piece) = Len(bytes)
          /\ \A p \in 1..Len(bytes) : piece[p] = Disk[beg + p]
      BY <1>1, <1>2, <2>1
    <2> HIDE DEF piece
    <2>3. ASSUME NEW p \in 1..Len(bytes) PROVE piece[p] = bytes[p]
      <3>1. beg + p \in 1..durable
        BY <1>1, <2>1
      <3> QED BY <1>2, <2>2, <3>1 DEF Has
    <2>4. piece = bytes
      BY <2>2, <2>3, SeqEqual
    <2> QED BY <1>3, <2>4 DEF piece
  <1> QED BY <1>4, <1>5

\* A chunk of bytes is an item, and knows which.
LEMMA ChunkIsItem ==
    ASSUME NEW item \in Items, NEW n \in Nat \ {0}
    PROVE  /\ Chunk(item, n) # <<>>
           /\ Chunk(item, n)[1].of = item
           /\ Chunk(item, n)[1].size = n
           /\ IsItem(Chunk(item, n))
  <1>1. Len(Chunk(item, n)) = n /\ Chunk(item, n)[1] = [of |-> item, at |-> 1, size |-> n]
    BY ChunkType
  <1>2. Chunk(item, n) # <<>>
    BY <1>1
  <1> QED BY <1>1, <1>2 DEF IsItem

\* An int of a file that holds ints at `at`.
LEMMA IntRead ==
    ASSUME WInv, NEW ints \in Seq(Nat), NEW at \in Nat, Has(written, at, IntBytes(ints)),
           at + Len(ints) * WordLen <= durable, NEW i \in 1..Len(ints)
    PROVE  Reader!BytesAt(at + (i - 1) * WordLen, WordLen) = Chunk(IntItem(ints[i]), WordLen)
  <1>1. WordLen \in Nat \ {0} /\ Len(ints) \in Nat /\ IntItem(ints[i]) \in Items
    <2>1. ints[i] \in Nat
      OBVIOUS
    <2> QED BY <2>1, HeaderLenType DEF Items
  <1>2. (i - 1) * WordLen \in Nat /\ (i - 1) * WordLen + WordLen \in 1..(Len(ints) * WordLen)
    <2>1. WordLen \in 1..WordLen
      BY <1>1
    <2> QED BY <1>1, <2>1, WordInside
  <1> DEFINE beg == at + (i - 1) * WordLen
             word == Chunk(IntItem(ints[i]), WordLen)
  <1>3. Len(ints) * WordLen \in Nat /\ durable \in Nat /\ durable <= Len(written) /\ Len(written) \in Nat
    BY <1>1 DEF WInv, WTypes, Layout
  <1>4. /\ word \in Seq(Byte) /\ Len(word) = WordLen
    BY <1>1, ChunkType
  <1> HIDE DEF word
  <1>5. beg \in Nat /\ beg + WordLen <= durable /\ beg + WordLen <= Len(written)
    <2> DEFINE k == (i - 1) * WordLen
               n == Len(ints) * WordLen
    <2>1. k \in Nat /\ k + WordLen <= n /\ n \in Nat /\ at + n <= durable
      BY <1>1, <1>2, <1>3
    <2>2. beg = at + k
      OBVIOUS
    <2> HIDE DEF k, n, beg
    <2> QED BY <1>1, <1>3, <2>1, <2>2
  <1>6. ASSUME NEW j \in 1..WordLen PROVE written[beg + j] = word[j]
    <2> DEFINE k == (i - 1) * WordLen
    <2>1. k + j \in 1..(Len(ints) * WordLen)
      BY <1>1, WordInside
    <2>2. /\ Len(IntBytes(ints)) = Len(ints) * WordLen
          /\ IntBytes(ints)[k + j] = word[j]
      BY IntBytesType DEF word
    <2>3. written[at + (k + j)] = IntBytes(ints)[k + j]
      BY <2>1, <2>2 DEF Has
    <2>4. k \in Nat /\ beg = at + k
      BY <1>2
    <2> HIDE DEF k, beg
    <2>5. at + (k + j) = beg + j
      BY <2>4
    <2> QED BY <2>2, <2>3, <2>5
  <1> HIDE DEF beg
  <1>7. Has(written, beg, word)
    BY <1>4, <1>5, <1>6 DEF Has
  <1>8. Reader!CanRead(beg, Len(word))
    <2>1. Len(Disk) = durable
      BY DEF Disk, WInv, WTypes, Layout
    <2> QED BY <1>4, <1>5, <2>1 DEF Reader!CanRead
  <1>9. Reader!BytesAt(beg, Len(word)) = word
    BY <1>4, <1>5, <1>7, <1>8, BytesRead
  <1> QED BY <1>4, <1>9 DEF beg, word

LEMMA DiskType == ASSUME WInv PROVE Len(Disk) = durable /\ durable \in Nat /\ durable <= Len(written) /\ Len(written) \in Nat
  BY DEF Disk, WInv, WTypes, Layout

\* The ints of a header that is there.
LEMMA HeaderRead ==
    ASSUME WInv, NEW k \in 1..Len(encoded), StartOf(encoded, k - 1) + HeaderLen <= durable
    PROVE  /\ Reader!HeaderInts(StartOf(encoded, k - 1)) = IntsOf(Rows[k], encoded[k])
           /\ Reader!AreInts(StartOf(encoded, k - 1), 2 + NCols)
  <1> DEFINE at == StartOf(encoded, k - 1)
             ints == IntsOf(Rows[k], encoded[k])
  <1>1. IsEncoded(encoded) /\ Len(encoded) \in Nat
    BY StartType DEF WInv, Layout
  <1>2. IsBatch(k, encoded[k]) /\ k \in Nat /\ Rows[k] \in Nat
    BY <1>1, WriterAssumption DEF IsEncoded
  <1>3. at \in Nat
    BY <1>1, ColumnBounds
  <1>4. ints \in Seq(Nat) /\ Len(ints) = 2 + NCols /\ HeaderOf(encoded, k) = IntBytes(ints)
    BY <1>2, HeaderType DEF HeaderOf
  <1>5. Has(written, at, IntBytes(ints))
    <2>1. Len(written) > at
      BY <1>3, DiskType, HeaderLenType
    <2>2. Has(written, at, HeaderOf(encoded, k))
      BY <2>1 DEF WInv, Layout, Headers
    <2> QED BY <1>4, <2>2
  <1>6. at + Len(ints) * WordLen <= durable
    BY <1>4 DEF HeaderLen
  <1> HIDE DEF at, ints
  <1>7. ASSUME NEW i \in 1..(2 + NCols)
        PROVE  Reader!Ints(at, 2 + NCols)[i] = Chunk(IntItem(ints[i]), WordLen)
    <2>1. Reader!BytesAt(at + (i - 1) * WordLen, WordLen) = Chunk(IntItem(ints[i]), WordLen)
      BY <1>3, <1>4, <1>5, <1>6, IntRead
    <2> QED BY <2>1 DEF Reader!Ints
  <1>8. ASSUME NEW i \in 1..(2 + NCols)
        PROVE  /\ ints[i] \in Nat
               /\ IsItem(Chunk(IntItem(ints[i]), WordLen))
               /\ Chunk(IntItem(ints[i]), WordLen)[1].of = IntItem(ints[i])
               /\ Chunk(IntItem(ints[i]), WordLen)[1].size = WordLen
    <2>1. ints[i] \in Nat
      BY <1>4
    <2>2. IntItem(ints[i]) \in Items
      BY <2>1 DEF Items
    <2> QED BY <2>1, <2>2, ChunkIsItem, HeaderLenType
  <1>9. \A v : IntItem(v).value = v /\ IntItem(v).kind = "int"
    BY DEF IntItem
  <1>10. \A i \in 1..(2 + NCols) : Reader!IntAt(Reader!Ints(at, 2 + NCols)[i]) = ints[i]
    BY <1>7, <1>8, <1>9 DEF Reader!IntAt
  <1>11. Reader!HeaderInts(at) = ints
    <2>1. Reader!HeaderInts(at) = [i \in 1..(2 + NCols) |-> ints[i]]
      BY <1>10 DEF Reader!HeaderInts
    <2>2. ints = [i \in 1..(2 + NCols) |-> ints[i]]
      BY <1>4
    <2> QED BY <2>1, <2>2
  <1>12. Reader!AreInts(at, 2 + NCols)
    BY <1>7, <1>8, <1>9, SameLayout DEF Reader!AreInts
  <1> QED BY <1>11, <1>12 DEF at, ints

\* The marker is where the batches end, and nowhere before: a header begins with an int.
LEMMA EndRead ==
    ASSUME WInv, NEW k \in 0..Len(encoded)
    PROVE  /\ StartOf(encoded, k) \in Nat
           /\ StartOf(encoded, k) + HeaderLen <= durable => k < Len(encoded)
           /\ Reader!MarkerAt(StartOf(encoded, k)) => trailed /\ k = Len(encoded)
           /\ trailed /\ k = Len(encoded) /\ StartOf(encoded, k) + WordLen <= durable =>
                Reader!MarkerAt(StartOf(encoded, k))
  <1> DEFINE at == StartOf(encoded, k)
  <1>1. IsEncoded(encoded) /\ Len(encoded) \in Nat /\ at \in Nat /\ trailed \in BOOLEAN
    BY StartType DEF WInv, WTypes, Layout
  <1>2. Trailer(written, encoded, trailed)
    BY DEF WInv, Layout
  <1>3. WordLen \in Nat \ {0} /\ HeaderLen \in Nat /\ WordLen < HeaderLen
    BY HeaderLenType
  <1>4. ASSUME at + HeaderLen <= durable PROVE k < Len(encoded)
    <2>1. SUFFICES ASSUME k = Len(encoded) PROVE FALSE
      BY <1>1
    <2>2. Len(written) <= at + WordLen
      BY <1>1, <1>2, <1>3, <2>1, DiskType DEF Trailer
    <2> QED BY <1>1, <1>3, <1>4, <2>2, DiskType
  <1>5. ASSUME Reader!MarkerAt(at) PROVE trailed /\ k = Len(encoded)
    <2>1. at + WordLen <= durable /\ Reader!BytesAt(at, WordLen) = kFormatMarker
      BY <1>3, <1>5, DiskType, SameLayout DEF Reader!MarkerAt, Reader!CanRead
    <2>2. k = Len(encoded)
      <3>1. SUFFICES ASSUME k # Len(encoded) PROVE FALSE
        OBVIOUS
      <3>2. k + 1 \in 1..Len(encoded) /\ (k + 1) - 1 = k
        BY <1>1, <3>1
      <3>3. Len(written) > at
        BY <1>1, <1>3, <2>1, DiskType
      <3>4. Has(written, at, HeaderOf(encoded, k + 1))
        BY <3>2, <3>3 DEF WInv, Layout, Headers
      <3>5. IsBatch(k + 1, encoded[k + 1]) /\ Rows[k + 1] \in Nat /\ k + 1 \in Nat
        BY <1>1, <3>2, WriterAssumption DEF IsEncoded
      <3> DEFINE ints == IntsOf(Rows[k + 1], encoded[k + 1])
      <3>6. ints \in Seq(Nat) /\ Len(ints) = 2 + NCols /\ HeaderOf(encoded, k + 1) = IntBytes(ints)
        BY <3>5, HeaderType DEF HeaderOf
      <3> HIDE DEF ints
      <3>7. /\ 1 \in 1..Len(ints) /\ 1 \in 1..WordLen /\ (1 - 1) * WordLen + 1 = 1
            /\ 1 \in 1..(Len(ints) * WordLen) /\ ints[1] \in Nat
        <4>1. 1 \in 1..Len(ints) /\ 1 \in 1..WordLen
          BY <1>3, <3>6, HeaderLenType
        <4>2. (1 - 1) * WordLen + 1 = 1
          BY <1>3
        <4>3. 1 \in 1..(Len(ints) * WordLen)
          BY <3>6, <4>1, <4>2, WordInside
        <4> QED BY <3>6, <4>1, <4>2, <4>3
      <3>8. IntBytes(ints)[1] = Chunk(IntItem(ints[1]), WordLen)[1]
        <4>1. IntBytes(ints)[(1 - 1) * WordLen + 1] = Chunk(IntItem(ints[1]), WordLen)[1]
          <5>1. \A i \in 1..Len(ints), j \in 1..WordLen :
                  IntBytes(ints)[(i - 1) * WordLen + j] = Chunk(IntItem(ints[i]), WordLen)[j]
            BY <3>6, IntBytesType, Zenon
          <5> QED BY <3>7, <5>1, Zenon
        <4> QED BY <3>7, <4>1, Zenon
      <3>9. written[at + 1] = IntBytes(ints)[1]
        BY <3>4, <3>6, <3>7, IntBytesType DEF Has
      <3>10. IntItem(ints[1]) \in Items /\ MarkerItem \in Items
        BY <3>7 DEF Items
      <3>11. written[at + 1].of = IntItem(ints[1])
        BY <1>3, <3>8, <3>9, <3>10, ChunkIsItem
      <3>12. kFormatMarker[1].of = MarkerItem
        BY <1>3, <3>10, ChunkIsItem DEF kFormatMarker
      <3>13. Reader!BytesAt(at, WordLen)[1] = written[at + 1]
        <4>1. written \in Seq(Byte) /\ durable \in 0..Len(written)
          BY DEF WInv, WTypes, Layout
        <4>2. Disk \in Seq(Byte) /\ Len(Disk) = durable /\ \A p \in 1..durable : Disk[p] = written[p]
          BY <4>1 DEF Disk
        <4>3. at + 1 \in 1..durable
          BY <1>1, <1>3, <2>1, DiskType
        <4>4. SubSeq(Disk, at + 1, at + WordLen)[1] = Disk[at + 1]
          BY <1>1, <1>3, <2>1, <4>2, <4>3
        <4> QED BY <4>2, <4>3, <4>4 DEF Reader!BytesAt
      <3>14. IntItem(ints[1]) = MarkerItem
        BY <2>1, <3>11, <3>12, <3>13
      <3> QED BY <3>14 DEF IntItem, MarkerItem
    <2>3. trailed
      <3>1. SUFFICES ASSUME ~trailed PROVE FALSE
        OBVIOUS
      <3>2. Len(written) <= at
        BY <1>2, <2>2, <3>1 DEF Trailer
      <3> QED BY <1>1, <1>3, <2>1, <3>2, DiskType
    <2> QED BY <2>2, <2>3
  <1>6. ASSUME trailed, k = Len(encoded), at + WordLen <= durable PROVE Reader!MarkerAt(at)
    <2>1. Has(written, at, kFormatMarker)
      BY <1>2, <1>6 DEF Trailer
    <2>2. Reader!CanRead(at, WordLen)
      BY <1>6, DiskType DEF Reader!CanRead
    <2> QED BY <1>1, <2>1, <2>2, BytesRead, FrontType, SameLayout DEF Reader!MarkerAt
  <1> QED BY <1>1, <1>4, <1>5, <1>6

\* The marker and the schema in front.
LEMMA FrontRead ==
    ASSUME WInv
    PROVE  /\ Reader!MarkerAt(0) /\ Reader!SchemaAt(WordLen) => WordLen + Reader!SchemaSize = FrontLen
           /\ FrontLen <= durable => Reader!MarkerAt(0) /\ Reader!SchemaAt(WordLen)
  <1>1. WordLen \in Nat \ {0} /\ SchemaLen \in Nat
    BY LayoutAssumption
  <1>2. Len(Disk) = durable /\ durable \in Nat /\ Len(written) \in Nat /\ durable <= Len(written)
    BY DiskType
  <1>3. ASSUME Reader!CanRead(WordLen, WordLen) PROVE Reader!SchemaSize = WordLen + SchemaLen
    <2> DEFINE size == Chunk(IntItem(WordLen + SchemaLen), WordLen)
    <2>1. WordLen + WordLen <= durable
      BY <1>1, <1>2, <1>3 DEF Reader!CanRead
    <2>2. Has(written, WordLen, SchemaBytes)
      <3>1. Len(written) > WordLen
        BY <1>1, <1>2, <2>1
      <3> QED BY <3>1 DEF WInv, Layout, Front
    <2>3. IntItem(WordLen + SchemaLen) \in Items
      BY <1>1 DEF Items
    <2>4. size \in Seq(Byte) /\ Len(size) = WordLen /\ size[1].of = IntItem(WordLen + SchemaLen)
      BY <1>1, <2>3, ChunkType, ChunkIsItem
    <2>5. \A j \in 1..WordLen : SchemaBytes[j] = size[j]
      BY FrontType
    <2> HIDE DEF size
    <2>6. Has(written, WordLen, size)
      <3>1. Len(SchemaBytes) = WordLen + SchemaLen
        BY FrontType
      <3>2. \A j \in 1..WordLen : written[WordLen + j] = size[j]
        BY <1>1, <2>2, <2>5, <3>1 DEF Has
      <3> QED BY <1>1, <1>2, <2>1, <2>4, <3>2 DEF Has
    <2>7. Reader!BytesAt(WordLen, WordLen) = size
      BY <1>1, <1>3, <2>4, <2>6, BytesRead
    <2> QED BY <2>4, <2>7 DEF Reader!SchemaSize, Reader!IntAt, IntItem
  <1>4. ASSUME Reader!SchemaAt(WordLen) PROVE WordLen + Reader!SchemaSize = FrontLen
    <2>1. Reader!SchemaSize = WordLen + SchemaLen
      BY <1>3, <1>4 DEF Reader!SchemaAt
    <2> QED BY <1>1, <2>1 DEF FrontLen
  <1>5. ASSUME FrontLen <= durable PROVE Reader!MarkerAt(0) /\ Reader!SchemaAt(WordLen)
    <2>1. WordLen <= durable /\ WordLen + WordLen <= durable /\ (WordLen + WordLen) + SchemaLen <= durable
      BY <1>1, <1>2, <1>5 DEF FrontLen
    <2>2. Reader!CanRead(0, WordLen) /\ Reader!CanRead(WordLen, WordLen)
      BY <1>1, <1>2, <2>1 DEF Reader!CanRead
    <2>3. Has(written, 0, kFormatMarker)
      <3>1. written # <<>>
        BY <1>1, <1>2, <2>1
      <3> QED BY <3>1 DEF WInv, Layout, Front
    <2>4. Reader!MarkerAt(0)
      BY <2>2, <2>3, BytesRead, FrontType, SameLayout DEF Reader!MarkerAt
    <2>5. (WordLen + SchemaLen) - WordLen = SchemaLen
      BY <1>1
    <2>6. Reader!CanRead(WordLen + WordLen, SchemaLen)
      BY <1>1, <1>2, <2>1 DEF Reader!CanRead
    <2> QED BY <1>3, <2>2, <2>4, <2>5, <2>6 DEF Reader!SchemaAt
  <1> QED BY <1>4, <1>5

-----------------------------------------------------------------------------
(* The reader.                                                             *)

Cells == Items \cup {Reader!NotLoaded}
Views == [at : Nat, rows : Nat, offsets : Seq(Nat), columns : Seq(Cells)]
Gots  == [rows : Nat, columns : Seq(Cells)]

RTypes ==
    /\ rpc \in {"unopened", "open", "view", "eof", "threw"}
    /\ fileSize \in 0..durable
    /\ ptr \in Nat
    /\ markerRead \in BOOLEAN
    /\ inds \in ReadSchemas \cup {<<>>}
    /\ got \in Seq(Gots)

\* A cell of column i of batch k: not loaded, or the column it should be.
CellOK(k, i, cell) ==
    \/ cell = Reader!NotLoaded
    \/ cell = ColItem(k, inds[i]) /\ encoded[k][inds[i]].task = "done"

\* The view is of batch k, and where its columns end is known.
IsViewOf(k) ==
    /\ k \in 1..Len(encoded)
    /\ view \in Views
    /\ StartOf(encoded, k - 1) + HeaderLen <= durable
    /\ view.at = StartOf(encoded, k - 1)
    /\ view.rows = Rows[k]
    /\ \A c \in 1..(NCols + 1) : view.offsets[c] = EndsOf(encoded[k])[c - 1]
    /\ DOMAIN view.columns = DOMAIN inds
    /\ \A i \in DOMAIN inds : CellOK(k, i, view.columns[i])
    /\ ptr = StartOf(encoded, k)

\* How far the reader is, from where it is.
Progress ==
    /\ Len(got) <= Len(encoded)
    /\ rpc # "threw" => inds \in Seq(1..NCols)
    /\ rpc \in {"unopened", "open", "eof"} => view = Reader!NoView
    /\ rpc \in {"unopened", "open", "view"} => ~markerRead
    /\ rpc = "unopened" => got = <<>>
    /\ rpc = "open" => ptr = StartOf(encoded, Len(got))
    /\ rpc = "view" => IsViewOf(Len(got) + 1)
    /\ rpc = "eof" => trailed /\ Len(got) = Len(Rows) /\ markerRead /\ ptr = fileSize

\* What has been got out of each batch.
Contents ==
    \A b \in 1..Len(got) :
        /\ got[b].rows = Rows[b]
        /\ DOMAIN got[b].columns = DOMAIN inds
        /\ \A i \in DOMAIN inds : CellOK(b, i, got[b].columns[i])

RInv ==
    /\ RTypes
    /\ Progress
    /\ Contents
    /\ FailureHasReason

Inv == WInv /\ RInv

LEMMA RInvInit == WInit /\ Reader!RInit => RInv
  <1> SUFFICES ASSUME WInit, Reader!RInit PROVE RInv
    OBVIOUS
  <1>1. RTypes
    <2>1. fileSize \in 0..durable /\ ptr \in Nat
      <3>1. fileSize = 0 /\ durable = 0 /\ ptr = 0
        BY DEF Reader!RInit, WInit
      <3> QED BY <3>1
    <2>2. markerRead \in BOOLEAN
      BY Zenon DEF Reader!RInit
    <2>3. got \in Seq(Gots) /\ inds \in {<<>>} /\ rpc \in {"unopened"}
      BY DEF Reader!RInit
    <2> QED BY <2>1, <2>2, <2>3 DEF RTypes
  <1>2. Progress
    BY DEF Reader!RInit, WInit, Progress
  <1>3. Contents /\ FailureHasReason
    BY DEF Reader!RInit, Contents, FailureHasReason
  <1> QED BY <1>1, <1>2, <1>3 DEF RInv

\* The writer only adds to the file, and to what it has encoded.
Grows ==
    /\ Len(encoded) <= Len(encoded')
    /\ \A b \in 1..Len(encoded) : encoded'[b] = encoded[b]
    /\ \A k \in 0..Len(encoded) : StartOf(encoded', k) = StartOf(encoded, k)
    /\ durable <= durable'
    /\ Len(written) <= Len(written')
    /\ trailed => trailed'
    /\ trailed' /\ ~trailed => Len(written) < Len(written')

LEMMA WriterGrows == ASSUME WInv, WNext PROVE Grows
  <1>1. WInv'
    BY WInvStep
  <1>2. /\ written \in Seq(Byte) /\ durable \in 0..Len(written) /\ IsEncoded(encoded) /\ Len(encoded) \in Nat
        /\ Len(written) \in Nat /\ trailed \in BOOLEAN
    BY StartType DEF WInv, WTypes, Layout
  <1>3. durable <= durable'
    BY <1>2 DEF WNext, Flush, DeviceFull, Close, Kill, WriteMarker, WriteSchema, NextBatch, EndOfStream,
           StreamThrows, EncodeColumn, WaitTasks, WriteHeader, WriteColumn, EndBatch, WriteTrailer
  <1>4. written' = written \/ \E bytes \in Seq(Byte) : written' = written \o bytes
    <2>1. CASE WriteMarker \/ WriteTrailer
      BY <2>1, FrontType DEF WriteMarker, WriteTrailer, Write
    <2>2. CASE WriteSchema
      BY <2>2, FrontType DEF WriteSchema, Write
    <2>3. CASE WriteHeader
      <3>1. nbatch \in 1..Len(Rows) /\ encoded[nbatch] = vec /\ Len(encoded) = nbatch
        BY <2>3 DEF WriteHeader, WInv, Counting, Ended
      <3>2. HeaderOf(encoded, nbatch) \in Seq(Byte)
        BY <1>2, <3>1, ColumnBounds
      <3>3. HeaderBytes(Rows[nbatch], Blobs(vec)) \in Seq(Byte)
        BY <3>1, <3>2 DEF HeaderOf
      <3> QED BY <2>3, <3>3 DEF WriteHeader, Write
    <2>4. CASE WriteColumn
      <3>1. /\ nbatch \in 1..Len(Rows) /\ encoded[nbatch] = vec /\ Len(encoded) = nbatch
            /\ next \in 1..NCols
        BY <2>4, HeaderLenType DEF WriteColumn, WInv, WTypes, Counting, Ended
      <3>2. Blobs(encoded[nbatch])[next] \in Seq(Byte)
        <4>1. nbatch \in 1..Len(encoded)
          BY <3>1
        <4> QED BY <1>2, <3>1, <4>1, ColumnBounds
      <3>3. Blob(vec[next]) \in Seq(Byte)
        BY <3>1, <3>2 DEF Blobs
      <3> QED BY <2>4, <3>3 DEF WriteColumn, Write
    <2>5. CASE ~(WriteMarker \/ WriteTrailer \/ WriteSchema \/ WriteHeader \/ WriteColumn)
      BY <2>5 DEF WNext, Flush, DeviceFull, Close, Kill, NextBatch, EndOfStream,
           StreamThrows, EncodeColumn, WaitTasks, EndBatch
    <2> QED BY <2>1, <2>2, <2>3, <2>4, <2>5
  <1>5. Len(written) <= Len(written')
    BY <1>2, <1>4
  <1>6. (trailed => trailed') /\ (trailed' /\ ~trailed => Len(written) < Len(written'))
    <2>1. CASE WriteTrailer
      <3>1. ~trailed
        BY <2>1 DEF WriteTrailer, WInv, Counting, Ended
      <3>2. CASE wpc' = "close" /\ written' = written \o kFormatMarker
        <4>1. Len(written') = Len(written) + WordLen
          BY <3>2, LayoutKept, FrontType DEF WInv
        <4> QED BY <1>2, <3>1, <4>1, HeaderLenType
      <3>3. CASE wpc' = "unwind"
        BY <2>1, <3>1, <3>3 DEF WriteTrailer
      <3> QED BY <2>1, <3>2, <3>3 DEF WriteTrailer, Write
    <2>2. CASE ~WriteTrailer
      BY <2>2 DEF WNext, Flush, DeviceFull, Close, Kill, WriteMarker, WriteSchema, NextBatch, EndOfStream,
           StreamThrows, EncodeColumn, WaitTasks, WriteHeader, WriteColumn, EndBatch
    <2> QED BY <2>1, <2>2
  <1>7. /\ Len(encoded) <= Len(encoded')
        /\ \A b \in 1..Len(encoded) : encoded'[b] = encoded[b]
        /\ \A k \in 0..Len(encoded) : StartOf(encoded', k) = StartOf(encoded, k)
    <2>1. CASE WaitTasks
      <3>1. encoded' = Append(encoded, vec) /\ Len(encoded) = nbatch - 1 /\ nbatch \in 1..Len(Rows)
        BY <2>1 DEF WaitTasks, WInv, Counting
      <3>2. /\ encoded' \in Seq([1..NCols -> Encoded])
            /\ \A b \in 1..Len(encoded') : IsBatch(b, encoded'[b])
        BY <1>1 DEF WInv, Layout, IsEncoded
      <3>3. vec \in [1..NCols -> Encoded]
        BY <2>1 DEF WaitTasks, WInv, WTypes
      <3>4. /\ Len(encoded') = Len(encoded) + 1 /\ encoded'[Len(encoded) + 1] = vec
            /\ \A b \in 1..Len(encoded) : encoded'[b] = encoded[b]
        BY <1>2, <3>1, <3>3 DEF IsEncoded
      <3>5. IsBatch(Len(encoded) + 1, vec) /\ Len(encoded) < Len(Rows)
        BY <1>2, <3>1, <3>2, <3>4, DomRows
      <3>6. \A k \in 0..Len(encoded) : StartOf(encoded', k) = StartOf(encoded, k)
        BY <1>2, <3>1, <3>5, StartAppend
      <3> QED BY <1>2, <3>4, <3>6
    <2>2. CASE ~WaitTasks
      <3>1. encoded' = encoded
        BY <2>2 DEF WNext, Flush, DeviceFull, Close, Kill, WriteMarker, WriteSchema, NextBatch, EndOfStream,
           StreamThrows, EncodeColumn, WriteHeader, WriteColumn, EndBatch, WriteTrailer
      <3> QED BY <1>2, <3>1
    <2> QED BY <2>1, <2>2
  <1> QED BY <1>3, <1>5, <1>6, <1>7 DEF Grows

LEMMA RInvWriter == ASSUME Inv, WNext, UNCHANGED rvars PROVE RInv'
  <1>1. Grows
    BY WriterGrows DEF Inv
  <1>2. UNCHANGED <<rpc, fileSize, ptr, markerRead, inds, view, got>>
    BY DEF rvars
  <1>3. WInv'
    BY WInvStep DEF Inv
  <1>4. /\ IsEncoded(encoded) /\ Len(encoded) \in Nat /\ IsEncoded(encoded') /\ Len(encoded') \in Nat
        /\ durable \in Nat /\ durable <= Len(written) /\ Len(written) \in Nat
        /\ durable' \in Nat /\ Len(written') \in Nat
        /\ trailed \in BOOLEAN
    BY <1>3, StartType DEF Inv, WInv, WTypes, Layout
  <1>5. RTypes'
    BY <1>1, <1>2, <1>4 DEF Grows, Inv, RInv, RTypes
  <1>6. Len(got) \in Nat /\ Len(got) <= Len(encoded)
    BY DEF Inv, RInv, RTypes, Progress
  <1>7. ASSUME NEW k \in 1..Len(encoded)
        PROVE  /\ encoded'[k] = encoded[k]
               /\ StartOf(encoded', k) = StartOf(encoded, k)
               /\ StartOf(encoded', k - 1) = StartOf(encoded, k - 1)
               /\ k \in 1..Len(encoded')
    BY <1>1, <1>4 DEF Grows
  <1>8. Progress'
    <2>1. rpc = "view" => IsViewOf(Len(got) + 1)'
      <3> SUFFICES ASSUME rpc = "view" PROVE IsViewOf(Len(got) + 1)'
        OBVIOUS
      <3> DEFINE k == Len(got) + 1
      <3>1. IsViewOf(k)
        BY DEF Inv, RInv, Progress
      <3>2. k \in 1..Len(encoded) /\ k' = k
        BY <1>2, <3>1 DEF IsViewOf
      <3> HIDE DEF k
      <3>3. StartOf(encoded', k - 1) + HeaderLen <= durable'
        <4>1. StartOf(encoded, k - 1) \in Nat
          BY <1>4, <3>2, ColumnBounds
        <4>2. StartOf(encoded, k - 1) + HeaderLen <= durable
          BY <3>1 DEF IsViewOf
        <4>3. durable <= durable'
          BY <1>1 DEF Grows
        <4>4. StartOf(encoded', k - 1) = StartOf(encoded, k - 1)
          BY <1>7, <3>2
        <4> QED BY <1>4, <4>1, <4>2, <4>3, <4>4, HeaderLenType
      <3>4. \A i \in DOMAIN inds : CellOK(k, i, view.columns[i])'
        BY <1>2, <1>7, <3>1, <3>2 DEF IsViewOf, CellOK
      <3>5. IsViewOf(k)'
        BY <1>2, <1>7, <3>1, <3>2, <3>3, <3>4 DEF IsViewOf
      <3> QED BY <3>5 DEF k
    <2>2. rpc = "open" => ptr' = StartOf(encoded', Len(got'))
      BY <1>1, <1>2, <1>6 DEF Inv, RInv, Progress, Grows
    <2>3. Len(got') <= Len(encoded')
      BY <1>1, <1>2, <1>4, <1>6 DEF Grows
    <2> QED BY <1>1, <1>2, <2>1, <2>2, <2>3 DEF Inv, RInv, Progress, Grows
  <1>9. Contents'
    BY <1>2, <1>4, <1>6, <1>7 DEF Inv, RInv, Contents, CellOK
  <1>10. FailureHasReason'
    <2> SUFFICES ASSUME rpc = "threw" PROVE FailureHasReason'
      BY <1>2 DEF FailureHasReason
    <2>1. fileSize \in Nat /\ fileSize <= Len(written)
      BY <1>4 DEF Inv, RInv, RTypes
    <2>2. CASE \E i \in DOMAIN inds : inds[i] = Unknown
      BY <1>2, <2>2 DEF FailureHasReason
    <2>3. CASE ~trailed \/ fileSize < Len(written)
      <3>1. ~trailed' \/ fileSize' < Len(written')
        BY <1>1, <1>2, <1>4, <2>1, <2>3 DEF Grows
      <3> QED BY <3>1 DEF FailureHasReason
    <2>4. CASE \E b \in DOMAIN encoded, c \in 1..NCols : encoded[b][c] = Threw
      <3>1. PICK b \in DOMAIN encoded, c \in 1..NCols : encoded[b][c] = Threw
        BY <2>4
      <3>2. b \in 1..Len(encoded)
        BY <1>4 DEF IsEncoded
      <3>3. b \in DOMAIN encoded' /\ encoded'[b][c] = Threw
        BY <1>4, <1>7, <3>1, <3>2 DEF IsEncoded
      <3> QED BY <3>3 DEF FailureHasReason
    <2> QED BY <2>2, <2>3, <2>4 DEF Inv, RInv, FailureHasReason
  <1> QED BY <1>5, <1>8, <1>9, <1>10 DEF RInv

\* A query that fails with a reason.
LEMMA RInvThrow ==
    ASSUME Inv, Reader!Throw, UNCHANGED wvars, fileSize' \in 0..durable,
           inds' \in ReadSchemas \cup {<<>>},
           inds' = inds \/ got = <<>>,
           \/ \E i \in DOMAIN inds' : inds'[i] = Unknown
           \/ ~trailed \/ fileSize' < Len(written)
           \/ \E b \in 1..Len(encoded), c \in 1..NCols : encoded[b][c] = Threw
    PROVE  RInv'
  <1>1. rpc' = "threw" /\ UNCHANGED <<ptr, markerRead, view, got>>
    BY DEF Reader!Throw
  <1>2. UNCHANGED <<written, durable, encoded, trailed>>
    BY DEF wvars
  <1>3. DOMAIN encoded = 1..Len(encoded)
    BY DEF Inv, WInv, Layout, IsEncoded
  <1>4. RTypes'
    BY <1>1, <1>2 DEF Inv, RInv, RTypes
  <1>5. Progress'
    BY <1>1, <1>2 DEF Inv, RInv, Progress
  <1>6. Contents'
    <2>1. CASE inds' = inds
      BY <1>1, <1>2, <2>1 DEF Inv, RInv, Contents, CellOK
    <2>2. CASE got = <<>>
      BY <1>1, <2>2 DEF Contents
    <2> QED BY <2>1, <2>2
  <1>7. FailureHasReason'
    BY <1>1, <1>2, <1>3 DEF FailureHasReason
  <1> QED BY <1>4, <1>5, <1>6, <1>7 DEF RInv

LEMMA RInvOpen == ASSUME Inv, Reader!Open, UNCHANGED wvars PROVE RInv'
  <1> DEFINE Opens(rs) == Reader!MarkerAt(0) /\ Reader!SchemaAt(WordLen) /\ \A i \in DOMAIN rs : rs[i] # Unknown
  <1>1. PICK rs \in ReadSchemas :
          /\ fileSize' = Len(Disk)
          /\ inds' = rs
          /\ IF Opens(rs)
             THEN /\ ptr' = WordLen + Reader!SchemaSize
                  /\ rpc' = "open"
                  /\ UNCHANGED <<markerRead, view, got>>
             ELSE Reader!Throw
    BY DEF Reader!Open
  <1>2. /\ rpc = "unopened" /\ got = <<>> /\ ~markerRead /\ view = Reader!NoView
        /\ rs \in Seq(1..NCols \cup {Unknown})
    BY ReaderAssumption DEF Reader!Open, Inv, RInv, Progress
  <1>3. fileSize' = durable /\ durable \in Nat /\ durable <= Len(written) /\ Len(written) \in Nat
    BY <1>1, DiskType DEF Inv
  <1>4. UNCHANGED <<written, durable, encoded, trailed>>
    BY DEF wvars
  <1>5. IsEncoded(encoded) /\ Len(encoded) \in Nat /\ StartOf(encoded, 0) = FrontLen
    BY StartType DEF Inv, WInv, Layout
  <1>6. CASE Opens(rs)
    <2>1. ptr' = FrontLen /\ rpc' = "open" /\ UNCHANGED <<markerRead, view, got>>
      BY <1>1, <1>6, FrontRead DEF Inv
    <2>2. rs \in Seq(1..NCols)
      <3>1. Len(rs) \in Nat /\ \A i \in 1..Len(rs) : rs[i] \in 1..NCols
        BY <1>2, <1>6
      <3>2. rs = [i \in 1..Len(rs) |-> rs[i]]
        BY <1>2
      <3> HIDE DEF Opens
      <3>3. [i \in 1..Len(rs) |-> rs[i]] \in Seq(1..NCols)
        BY <3>1
      <3> QED BY <3>2, <3>3, Zenon
    <2>3. RTypes'
      BY <1>1, <1>3, <1>4, <2>1, FrontType DEF Inv, RInv, RTypes
    <2>4. Progress'
      <3>1. Len(got') = 0
        BY <1>2, <2>1
      <3>2. ptr' = StartOf(encoded', Len(got'))
        BY <1>4, <1>5, <2>1, <3>1
      <3> QED BY <1>1, <1>2, <1>4, <1>5, <2>1, <2>2, <3>1, <3>2 DEF Progress
    <2>5. Contents' /\ FailureHasReason'
      BY <1>2, <2>1 DEF Contents, FailureHasReason
    <2> QED BY <2>3, <2>4, <2>5 DEF RInv
  <1>7. CASE ~Opens(rs)
    <2>1. Reader!Throw
      BY <1>1, <1>7
    <2>2. \/ \E i \in DOMAIN inds' : inds'[i] = Unknown
          \/ ~trailed \/ fileSize' < Len(written)
      <3>1. CASE ~(Reader!MarkerAt(0) /\ Reader!SchemaAt(WordLen))
        <4>1. ~(FrontLen <= durable)
          BY <3>1, FrontRead DEF Inv
        <4>2. SUFFICES ASSUME trailed, durable = Len(written) PROVE FALSE
          BY <1>3
        <4>3. Len(written) = StartOf(encoded, Len(encoded)) + WordLen
          BY <4>2 DEF Inv, WInv, Layout, Trailer
        <4>4. FrontLen <= StartOf(encoded, Len(encoded)) /\ StartOf(encoded, Len(encoded)) \in Nat
          BY <1>5, StartType
        <4> QED BY <1>3, <4>1, <4>2, <4>3, <4>4, HeaderLenType, FrontType
      <3>2. CASE ~\A i \in DOMAIN rs : rs[i] # Unknown
        BY <1>1, <3>2
      <3> QED BY <1>7, <3>1, <3>2
    <2>3. inds' \in ReadSchemas \cup {<<>>} /\ fileSize' \in 0..durable
      BY <1>1, <1>3
    <2> HIDE DEF Opens
    <2> QED BY <1>2, <2>1, <2>2, <2>3, RInvThrow
  <1> QED BY <1>6, <1>7

\* A complete file has no other end than its trailer: a reader who cannot go on has
\* not been given all of it.
LEMMA WhyStop ==
    ASSUME Inv, rpc = "open",
           \/ ptr + WordLen = fileSize /\ ~Reader!MarkerAt(ptr)
           \/ ptr + WordLen # fileSize /\ ~Reader!CanRead(ptr, HeaderLen)
    PROVE  ~trailed \/ fileSize < Len(written)
  <1> DEFINE k == Len(got)
  <1>1. /\ IsEncoded(encoded) /\ Len(encoded) \in Nat /\ trailed \in BOOLEAN
        /\ k \in 0..Len(encoded) /\ ptr = StartOf(encoded, k)
        /\ fileSize \in 0..durable
    BY StartType DEF Inv, WInv, WTypes, Layout, RInv, RTypes, Progress
  <1>2. Len(Disk) = durable /\ durable \in Nat /\ durable <= Len(written) /\ Len(written) \in Nat
    BY DiskType DEF Inv
  <1> HIDE DEF k
  <1>3. SUFFICES ASSUME trailed, fileSize = Len(written) PROVE FALSE
    BY <1>1, <1>2
  <1>4. durable = Len(written) /\ Len(written) = StartOf(encoded, Len(encoded)) + WordLen
    BY <1>1, <1>2, <1>3 DEF Inv, WInv, Layout, Trailer
  <1>5. WordLen \in Nat \ {0} /\ HeaderLen \in Nat /\ StartOf(encoded, k) \in Nat
        /\ StartOf(encoded, Len(encoded)) \in Nat
    BY <1>1, StartType, HeaderLenType
  <1>6. k # Len(encoded) => StartOf(encoded, k) + HeaderLen <= StartOf(encoded, Len(encoded))
    <2> SUFFICES ASSUME k # Len(encoded) PROVE StartOf(encoded, k) + HeaderLen <= StartOf(encoded, Len(encoded))
      OBVIOUS
    <2>1. k + 1 \in 1..Len(encoded) /\ (k + 1) - 1 = k
      BY <1>1
    <2>2. StartOf(encoded, k) + HeaderLen <= StartOf(encoded, k + 1)
      BY <1>1, <2>1, StartType
    <2>3. StartOf(encoded, k + 1) <= StartOf(encoded, Len(encoded)) /\ StartOf(encoded, k + 1) \in Nat
      BY <1>1, <2>1, ColumnBounds
    <2> QED BY <1>5, <2>2, <2>3
  <1>7. CASE ptr + WordLen = fileSize /\ ~Reader!MarkerAt(ptr)
    <2>1. StartOf(encoded, k) = StartOf(encoded, Len(encoded))
      BY <1>1, <1>3, <1>4, <1>5, <1>7
    <2>2. k = Len(encoded)
      BY <1>5, <1>6, <2>1, HeaderLenType
    <2>3. StartOf(encoded, k) + WordLen <= durable
      BY <1>4, <1>5, <2>1
    <2> QED BY <1>1, <1>3, <1>7, <2>2, <2>3, EndRead DEF Inv
  <1>8. CASE ptr + WordLen # fileSize /\ ~Reader!CanRead(ptr, HeaderLen)
    <2>1. ~(StartOf(encoded, k) + HeaderLen <= durable)
      BY <1>1, <1>2, <1>8 DEF Reader!CanRead
    <2>2. k = Len(encoded)
      BY <1>4, <1>5, <1>6, <2>1
    <2> QED BY <1>1, <1>3, <1>4, <1>8, <2>2
  <1> QED BY <1>7, <1>8

LEMMA RInvNextAfterEnd == ASSUME Inv, Reader!NextAfterEnd, UNCHANGED wvars PROVE RInv' /\ UNCHANGED vars
  <1>1. rpc = "eof"
    BY DEF Reader!NextAfterEnd, Reader!AtEnd, Inv, RInv, Progress
  <1>2. UNCHANGED vars
    BY <1>1 DEF Reader!NextAfterEnd, vars, rvars
  <1>3. UNCHANGED <<rpc, fileSize, ptr, markerRead, inds, view, got, written, durable, encoded, trailed>>
    BY <1>2 DEF vars, rvars, wvars
  <1>4. RTypes' /\ Contents' /\ FailureHasReason'
    BY <1>3 DEF Inv, RInv, RTypes, Contents, CellOK, FailureHasReason
  <1>5. Progress'
    BY <1>1, <1>3 DEF Inv, RInv, Progress
  <1> QED BY <1>2, <1>4, <1>5 DEF RInv

\* Next finds a file that has more bytes: whoever asks is not at the end.
LEMMA AskingIsOpen == ASSUME Inv, rpc \in {"open", "eof"}, ~Reader!AtEnd PROVE rpc = "open"
  BY DEF Reader!AtEnd, Inv, RInv, Progress

LEMMA RInvNextTrailer == ASSUME Inv, Reader!NextTrailer, UNCHANGED wvars PROVE RInv'
  <1>1. rpc = "open" /\ ptr + WordLen = fileSize /\ UNCHANGED <<fileSize, inds>>
    BY AskingIsOpen DEF Reader!NextTrailer, Reader!AtTrailer
  <1>2. UNCHANGED <<written, durable, encoded, trailed>>
    BY DEF wvars
  <1>3. /\ Len(got) \in 0..Len(encoded) /\ ptr = StartOf(encoded, Len(got))
        /\ fileSize \in 0..durable /\ inds \in ReadSchemas \cup {<<>>}
        /\ view = Reader!NoView /\ inds \in Seq(1..NCols)
    BY <1>1, StartType DEF Inv, WInv, Layout, RInv, RTypes, Progress
  <1>4. CASE Reader!MarkerAt(ptr)
    <2>1. ptr' = ptr + WordLen /\ markerRead' = TRUE /\ rpc' = "eof" /\ UNCHANGED <<view, got>>
      BY <1>4 DEF Reader!NextTrailer
    <2>2. trailed /\ Len(got) = Len(encoded)
      BY <1>3, <1>4, EndRead DEF Inv
    <2>3. Len(encoded) = Len(Rows)
      BY <2>2 DEF Inv, WInv, Counting
    <2>4. RTypes'
      <3>1. ptr' \in Nat
        BY <2>1, HeaderLenType DEF Inv, RInv, RTypes
      <3> QED BY <1>1, <1>2, <2>1, <3>1 DEF Inv, RInv, RTypes
    <2>5. Progress'
      BY <1>1, <1>2, <1>3, <2>1, <2>2, <2>3 DEF Inv, RInv, Progress
    <2>6. Contents' /\ FailureHasReason'
      BY <1>1, <1>2, <2>1 DEF Inv, RInv, Contents, CellOK, FailureHasReason
    <2> QED BY <2>4, <2>5, <2>6 DEF RInv
  <1>5. CASE ~Reader!MarkerAt(ptr)
    <2>1. Reader!Throw
      BY <1>5 DEF Reader!NextTrailer
    <2>2. ~trailed \/ fileSize' < Len(written)
      BY <1>1, <1>5, WhyStop
    <2> QED BY <1>1, <1>3, <2>1, <2>2, RInvThrow
  <1> QED BY <1>4, <1>5

\* The offsets of a view: those of the header, with its own length in front.
LEMMA OffsetsRead ==
    ASSUME NEW header \in Seq(Nat), Len(header) = 2 + NCols, NEW x \in Nat
    PROVE  /\ <<x>> \o SubSeq(header, 3, 2 + NCols) \in Seq(Nat)
           /\ (<<x>> \o SubSeq(header, 3, 2 + NCols))[1] = x
           /\ \A c \in 1..NCols : (<<x>> \o SubSeq(header, 3, 2 + NCols))[1 + c] = header[2 + c]
  <1> DEFINE rest == SubSeq(header, 3, 2 + NCols)
             one  == <<x>>
             both == one \o rest
  <1>1. NCols \in Nat \ {0} /\ 2 + NCols \in Int /\ 3 \in Int /\ 3 <= 2 + NCols
    BY HeaderLenType
  <1>2. \A i \in 3..(2 + NCols) : header[i] \in Nat
    BY <1>1
  <1>3. /\ rest \in Seq(Nat)
        /\ Len(rest) = (2 + NCols) - 3 + 1
        /\ \A i \in 1..((2 + NCols) - 3 + 1) : rest[i] = header[3 + i - 1]
    <2> DEFINE n == 2 + NCols
    <2>1. n \in Int /\ 3 \in Int /\ 3 <= n /\ \A i \in 3..n : header[i] \in Nat
      BY <1>1, <1>2
    <2>2. rest = SubSeq(header, 3, n)
      OBVIOUS
    <2> HIDE DEF n, rest
    <2>3. /\ SubSeq(header, 3, n) \in Seq(Nat)
          /\ Len(SubSeq(header, 3, n)) = IF 3 <= n THEN n - 3 + 1 ELSE 0
          /\ \A i \in 1..(n - 3 + 1) : SubSeq(header, 3, n)[i] = header[3 + i - 1]
      BY <2>1, SubSeqProperties
    <2>4. /\ rest \in Seq(Nat)
          /\ Len(rest) = n - 3 + 1
          /\ \A i \in 1..(n - 3 + 1) : rest[i] = header[3 + i - 1]
      BY <2>1, <2>2, <2>3, Zenon
    <2> QED BY <2>4 DEF n
  <1>4. one \in Seq(Nat) /\ Len(one) = 1 /\ one[1] = x
    OBVIOUS
  <1> HIDE DEF rest, one
  <1>5. Len(rest) = NCols /\ \A c \in 1..NCols : rest[c] = header[2 + c]
    <2>1. (2 + NCols) - 3 + 1 = NCols /\ \A c \in 1..NCols : 3 + c - 1 = 2 + c
      BY <1>1
    <2> QED BY <1>3, <2>1
  <1>6. /\ both \in Seq(Nat)
        /\ \A i \in 1..(Len(one) + Len(rest)) : both[i] = IF i <= Len(one) THEN one[i] ELSE rest[i - Len(one)]
    BY <1>3, <1>4, ConcatProperties, Zenon
  <1> HIDE DEF both
  <1>7. both[1] = x
    BY <1>1, <1>4, <1>5, <1>6
  <1>8. ASSUME NEW c \in 1..NCols PROVE both[1 + c] = header[2 + c]
    <2>1. 1 + c \in 1..(1 + NCols) /\ ~(1 + c <= 1) /\ (1 + c) - 1 = c
      BY <1>1
    <2> QED BY <1>4, <1>5, <1>6, <2>1, SMTT(30)
  <1> QED BY <1>6, <1>7, <1>8 DEF both, one, rest

LEMMA RInvNextBatchView == ASSUME Inv, Reader!NextBatchView, UNCHANGED wvars PROVE RInv'
  <1>1. rpc = "open" /\ ptr + WordLen # fileSize /\ UNCHANGED <<fileSize, inds>>
    BY AskingIsOpen DEF Reader!NextBatchView, Reader!AtTrailer
  <1>2. UNCHANGED <<written, durable, encoded, trailed>>
    BY DEF wvars
  <1>3. /\ Len(got) \in 0..Len(encoded) /\ ptr = StartOf(encoded, Len(got)) /\ ptr \in Nat
        /\ fileSize \in 0..durable /\ inds \in ReadSchemas \cup {<<>>}
        /\ ~markerRead /\ inds \in Seq(1..NCols)
        /\ IsEncoded(encoded) /\ Len(encoded) \in Nat
    BY <1>1, StartType DEF Inv, WInv, Layout, RInv, RTypes, Progress
  <1>4. CASE Reader!CanRead(ptr, HeaderLen)
    <2>1. /\ view' = Reader!ViewOf(Reader!HeaderInts(ptr))
          /\ ptr' = ptr + Reader!HeaderInts(ptr)[1]
          /\ rpc' = "view"
          /\ UNCHANGED <<markerRead, got>>
      BY <1>4, SameLayout DEF Reader!NextBatchView
    <2>2. StartOf(encoded, Len(got)) + HeaderLen <= durable
      BY <1>3, <1>4, DiskType, HeaderLenType DEF Inv, Reader!CanRead
    <2> DEFINE k == Len(got) + 1
               header == Reader!HeaderInts(ptr)
    <2>3. k \in 1..Len(encoded) /\ k - 1 = Len(got) /\ k \in Nat
      BY <1>3, <2>2, EndRead DEF Inv
    <2>4. IsBatch(k, encoded[k]) /\ Rows[k] \in Nat
      BY <1>3, <2>3, WriterAssumption DEF IsEncoded
    <2> HIDE DEF k
    <2>5. header = IntsOf(Rows[k], encoded[k])
      BY <1>3, <2>2, <2>3, HeaderRead DEF Inv
    <2> HIDE DEF header
    <2>6. /\ header \in Seq(Nat) /\ Len(header) = 2 + NCols
          /\ header[1] = EndsOf(encoded[k])[NCols]
          /\ header[2] = Rows[k]
          /\ \A c \in 1..NCols : header[2 + c] = EndsOf(encoded[k])[c]
      BY <2>3, <2>4, <2>5, HeaderType, SMTT(30)
    <2>7. ptr' = StartOf(encoded, k) /\ ptr' \in Nat
      <3>1. StartOf(encoded, k) = StartOf(encoded, k - 1) + EndsOf(encoded[k])[NCols]
        BY <1>3, <2>3, StartType
      <3>2. StartOf(encoded, k) \in Nat
        BY <1>3, <2>3, ColumnBounds
      <3> QED BY <1>3, <2>1, <2>3, <2>6, <3>1, <3>2 DEF header
    <2> DEFINE offsets == <<HeaderLen>> \o SubSeq(header, 3, 2 + NCols)
               columns == [i \in DOMAIN inds |-> Reader!NotLoaded]
    <2>8. offsets \in Seq(Nat) /\ \A c \in 1..(NCols + 1) : offsets[c] = EndsOf(encoded[k])[c - 1]
      <3>1. /\ offsets \in Seq(Nat)
            /\ offsets[1] = HeaderLen
            /\ \A c \in 1..NCols : offsets[1 + c] = header[2 + c]
        BY <2>6, OffsetsRead, HeaderLenType
      <3> HIDE DEF offsets
      <3>2. EndsOf(encoded[k])[0] = HeaderLen
        BY <2>3, <2>4, BatchLayout
      <3>3. ASSUME NEW c \in 1..(NCols + 1) PROVE offsets[c] = EndsOf(encoded[k])[c - 1]
        <4>1. CASE c = 1
          <5>1. c - 1 = 0
            BY <4>1
          <5> QED BY <3>1, <3>2, <4>1, <5>1
        <4>2. CASE c # 1
          <5>1. c - 1 \in 1..NCols /\ 1 + (c - 1) = c
            BY <4>2, HeaderLenType
          <5>2. offsets[1 + (c - 1)] = header[2 + (c - 1)]
            BY <3>1, <5>1
          <5> QED BY <2>6, <5>1, <5>2
        <4> QED BY <4>1, <4>2
      <3> QED BY <3>1, <3>3
    <2>9. view' = [at |-> ptr, rows |-> header[2], offsets |-> offsets, columns |-> columns]
      BY <2>1, SameLayout DEF Reader!ViewOf, header
    <2>10. columns \in Seq(Cells) /\ DOMAIN columns = DOMAIN inds
           /\ \A i \in DOMAIN inds : columns[i] = Reader!NotLoaded
      <3>1. DOMAIN inds = 1..Len(inds) /\ Len(inds) \in Nat
        BY <1>3
      <3> QED BY <3>1 DEF Cells
    <2> HIDE DEF offsets, columns
    <2>11. /\ view' \in Views /\ view'.at = ptr /\ view'.rows = Rows[k]
           /\ view'.offsets = offsets /\ view'.columns = columns
      BY <1>3, <2>4, <2>6, <2>8, <2>9, <2>10 DEF Views
    <2>12. IsViewOf(k)'
      <3>1. \A i \in DOMAIN inds : CellOK(k, i, view.columns[i])'
        BY <2>10, <2>11 DEF CellOK
      <3>2. k' = k
        BY <2>1 DEF k
      <3> QED BY <1>1, <1>2, <1>3, <2>2, <2>3, <2>7, <2>8, <2>10, <2>11, <3>1, <3>2 DEF IsViewOf
    <2>13. RTypes'
      BY <1>1, <1>2, <2>1, <2>7 DEF Inv, RInv, RTypes
    <2>14. Progress'
      BY <1>1, <1>2, <1>3, <2>1, <2>12 DEF Inv, RInv, Progress, k
    <2>15. Contents' /\ FailureHasReason'
      BY <1>1, <1>2, <2>1 DEF Inv, RInv, Contents, CellOK, FailureHasReason
    <2> QED BY <2>13, <2>14, <2>15 DEF RInv
  <1>5. CASE ~Reader!CanRead(ptr, HeaderLen)
    <2>1. Reader!Throw
      BY <1>5, SameLayout DEF Reader!NextBatchView
    <2>2. ~trailed \/ fileSize' < Len(written)
      BY <1>1, <1>5, WhyStop
    <2> QED BY <1>1, <1>3, <2>1, <2>2, RInvThrow
  <1> QED BY <1>4, <1>5

\* A column that can be loaded is the one asked for, and one that cannot has a reason.
LEMMA LoadColumn ==
    ASSUME Inv, rpc = "view", NEW i \in DOMAIN inds
    PROVE  /\ Reader!Loadable(i) => Reader!Loaded(i) \in Cells /\ CellOK(Len(got) + 1, i, Reader!Loaded(i))
           /\ ~Reader!Loadable(i) =>
                \/ ~trailed \/ fileSize < Len(written)
                \/ \E b \in 1..Len(encoded), c \in 1..NCols : encoded[b][c] = Threw
  <1> DEFINE k == Len(got) + 1
             c == inds[i]
  <1>1. IsViewOf(k) /\ k \in 1..Len(encoded)
    BY DEF Inv, RInv, Progress, IsViewOf
  <1>2. c \in 1..NCols
    <2>1. inds \in Seq(1..NCols)
      BY DEF Inv, RInv, Progress
    <2>2. DOMAIN inds = 1..Len(inds)
      BY <2>1
    <2>3. i \in 1..Len(inds)
      BY <2>2
    <2> QED BY <2>1, <2>3, ElementOfSeq
  <1>3. IsEncoded(encoded) /\ Len(encoded) \in Nat /\ trailed \in BOOLEAN
        /\ fileSize \in 0..durable
    BY StartType DEF Inv, WInv, WTypes, Layout, RInv, RTypes
  <1>4. Len(Disk) = durable /\ durable \in Nat /\ durable <= Len(written) /\ Len(written) \in Nat
    BY DiskType DEF Inv
  <1> HIDE DEF k, c
  <1> DEFINE blob == Blobs(encoded[k])[c]
             beg  == ColumnBegin(encoded, k, c)
  <1>5. /\ blob \in Seq(Byte) /\ beg \in Nat /\ Len(blob) \in Nat
        /\ ColumnEnd(encoded, k, c) = beg + Len(blob)
        /\ ColumnEnd(encoded, k, c) <= StartOf(encoded, Len(encoded))
        /\ StartOf(encoded, Len(encoded)) \in Nat
    <2>1. /\ blob \in Seq(Byte) /\ beg \in Nat
          /\ ColumnEnd(encoded, k, c) = beg + Len(blob)
          /\ ColumnEnd(encoded, k, c) <= StartOf(encoded, k)
          /\ StartOf(encoded, k) <= StartOf(encoded, Len(encoded))
          /\ StartOf(encoded, k) \in Nat /\ StartOf(encoded, Len(encoded)) \in Nat
      BY <1>1, <1>2, <1>3, ColumnBounds
    <2>2. Len(blob) \in Nat
      BY <2>1
    <2> HIDE DEF blob, beg
    <2> QED BY <2>1, <2>2
  <1>6. /\ \/ view.columns[i] = Reader!NotLoaded
           \/ view.columns[i] = ColItem(k, c) /\ encoded[k][c].task = "done"
        /\ view.at = StartOf(encoded, k - 1)
        /\ view.offsets[c] = EndsOf(encoded[k])[c - 1]
        /\ view.offsets[c + 1] = EndsOf(encoded[k])[c]
    <2>1. c \in 1..(NCols + 1) /\ c + 1 \in 1..(NCols + 1) /\ (c + 1) - 1 = c
      BY <1>2, HeaderLenType
    <2> QED BY <1>1, <2>1 DEF IsViewOf, CellOK, c
  <1>7. /\ view.at + Reader!ColBeg(i) = beg
        /\ Reader!ColEnd(i) - Reader!ColBeg(i) = Len(blob)
    <2>1. Reader!ColBeg(i) = EndsOf(encoded[k])[c - 1] /\ Reader!ColEnd(i) = EndsOf(encoded[k])[c]
      BY <1>6 DEF Reader!ColBeg, Reader!ColEnd, c
    <2>2. IsBatch(k, encoded[k]) /\ k \in Nat
      BY <1>1, <1>3 DEF IsEncoded
    <2>3. /\ EndsOf(encoded[k]) \in [0..NCols -> Nat]
          /\ EndsOf(encoded[k])[c] = EndsOf(encoded[k])[c - 1] + Len(blob)
      BY <1>2, <2>2, BatchLayout
    <2>4. EndsOf(encoded[k])[c - 1] \in Nat
      <3>1. c - 1 \in 0..NCols
        BY <1>2, HeaderLenType
      <3> QED BY <2>3, <3>1
    <2> HIDE DEF blob
    <2> QED BY <1>5, <1>6, <2>1, <2>3, <2>4 DEF ColumnBegin, beg
  <1>8. Reader!ColBytes(i) = Reader!BytesAt(beg, Len(blob))
    BY <1>7 DEF Reader!ColBytes
  <1>9. /\ blob = <<>> => encoded[k][c] = Threw
        /\ blob # <<>> => /\ encoded[k][c].task = "done"
                          /\ IsItem(blob) /\ blob[1].of = ColItem(k, c)
    <2>1. IsBatch(k, encoded[k]) /\ k \in Nat
      BY <1>1, <1>3 DEF IsEncoded
    <2>2. CASE encoded[k][c].task = "threw"
      BY <1>2, <2>1, <2>2, BlobType
    <2>3. CASE encoded[k][c].task # "threw"
      <3>1. PICK n \in Nat \ {0} : blob = Chunk(ColItem(k, c), n)
        BY <1>2, <2>1, <2>3, BlobType
      <3>2. ColItem(k, c) \in Items
        BY <1>2, <2>1, HeaderLenType DEF Items
      <3>3. IsItem(blob) /\ blob[1].of = ColItem(k, c) /\ blob # <<>>
        BY <3>1, <3>2, ChunkIsItem
      <3> QED BY <1>2, <2>1, <2>3, <3>3, BlobType
    <2> QED BY <2>2, <2>3
  <1> HIDE DEF blob, beg
  <1>10. Reader!CanRead(beg, Len(blob)) => Reader!ColBytes(i) = blob
    <2> SUFFICES ASSUME Reader!CanRead(beg, Len(blob)) PROVE Reader!ColBytes(i) = blob
      OBVIOUS
    <2>1. CASE blob # <<>>
      <3>1. beg + Len(blob) <= durable
        <4>1. Len(blob) # 0
          BY <1>5, <2>1
        <4> QED BY <1>4, <4>1 DEF Reader!CanRead
      <3>2. Len(written) >= ColumnEnd(encoded, k, c)
        BY <1>4, <1>5, <3>1
      <3>3. Has(written, beg, blob)
        BY <1>1, <1>2, <3>2 DEF Inv, WInv, Layout, Columns, beg, blob
      <3> QED BY <1>5, <1>8, <3>3, BytesRead DEF Inv
    <2>2. CASE blob = <<>>
      <3>1. Len(blob) = 0
        BY <2>2
      <3>2. Reader!ColBytes(i) = SubSeq(Disk, beg + 1, beg)
        BY <1>5, <1>8, <3>1 DEF Reader!BytesAt
      <3> QED BY <1>5, <2>2, <3>2, SubSeqEmpty
    <2> QED BY <2>1, <2>2
  <1>11. ColItem(k, c) \in Cells /\ ColItem(k, c).kind = "column"
    <2>1. k \in Nat /\ c \in Nat
      BY <1>1, <1>2, <1>3, HeaderLenType
    <2> QED BY <2>1 DEF Cells, Items, ColItem
  <1>12. ASSUME Reader!Loadable(i)
         PROVE  Reader!Loaded(i) \in Cells /\ CellOK(k, i, Reader!Loaded(i))
    <2>1. CASE view.columns[i] # Reader!NotLoaded
      <3>1. Reader!Loaded(i) = ColItem(k, c) /\ encoded[k][c].task = "done"
        BY <1>6, <2>1 DEF Reader!Loaded
      <3> QED BY <1>11, <3>1 DEF CellOK, c
    <2>2. CASE view.columns[i] = Reader!NotLoaded
      <3>1. Reader!CanRead(beg, Len(blob)) /\ IsItem(Reader!ColBytes(i))
        BY <1>7, <1>12, <2>2, SameLayout DEF Reader!Loadable
      <3>2. blob # <<>> /\ Reader!ColBytes(i) = blob
        BY <1>10, <3>1 DEF IsItem
      <3>3. Reader!Loaded(i) = ColItem(k, c) /\ encoded[k][c].task = "done"
        BY <1>9, <2>2, <3>2 DEF Reader!Loaded
      <3> QED BY <1>11, <3>3 DEF CellOK, c
    <2> QED BY <2>1, <2>2
  <1>13. ASSUME ~Reader!Loadable(i)
         PROVE  \/ ~trailed \/ fileSize < Len(written)
                \/ \E b \in 1..Len(encoded), d \in 1..NCols : encoded[b][d] = Threw
    <2>1. CASE blob = <<>>
      BY <1>1, <1>2, <1>9, <2>1
    <2>2. CASE blob # <<>>
      <3>1. ~Reader!CanRead(beg, Len(blob))
        <4>1. SUFFICES ASSUME Reader!CanRead(beg, Len(blob)) PROVE FALSE
          OBVIOUS
        <4>2. Reader!ColBytes(i) = blob /\ IsItem(blob) /\ blob[1].of.kind = "column"
          BY <1>9, <1>10, <1>11, <2>2, <4>1
        <4> QED BY <1>7, <1>13, <4>1, <4>2, SameLayout DEF Reader!Loadable
      <3>2. ~(beg + Len(blob) <= durable)
        BY <1>4, <3>1 DEF Reader!CanRead
      <3>3. SUFFICES ASSUME trailed, fileSize = Len(written) PROVE FALSE
        BY <1>3, <1>4
      <3>4. durable = Len(written) /\ Len(written) = StartOf(encoded, Len(encoded)) + WordLen
        BY <1>3, <1>4, <3>3 DEF Inv, WInv, Layout, Trailer
      <3> QED BY <1>5, <3>2, <3>4, HeaderLenType
    <2> QED BY <2>1, <2>2
  <1> QED BY <1>12, <1>13 DEF k

LEMMA RInvGetColumn ==
    ASSUME Inv, NEW i \in 1..NCols, Reader!GetColumn(i), UNCHANGED wvars
    PROVE  RInv'
  <1>1. rpc = "view" /\ i \in DOMAIN inds /\ UNCHANGED <<fileSize, inds>>
    BY DEF Reader!GetColumn
  <1>2. UNCHANGED <<written, durable, encoded, trailed>>
    BY DEF wvars
  <1> DEFINE k == Len(got) + 1
  <1>3. IsViewOf(k) /\ inds \in ReadSchemas \cup {<<>>} /\ inds \in Seq(1..NCols) /\ fileSize \in 0..durable
    BY <1>1 DEF Inv, RInv, RTypes, Progress
  <1>4. CASE Reader!Loadable(i)
    <2>1. /\ view' = [view EXCEPT !.columns[i] = Reader!Loaded(i)]
          /\ UNCHANGED <<rpc, ptr, markerRead, got>>
      BY <1>4 DEF Reader!GetColumn
    <2>2. Reader!Loaded(i) \in Cells /\ CellOK(k, i, Reader!Loaded(i))
      BY <1>1, <1>4, LoadColumn
    <2>3. view \in Views /\ DOMAIN view.columns = DOMAIN inds /\ view.columns \in Seq(Cells)
      BY <1>3 DEF IsViewOf, Views
    <2>4. DOMAIN inds = 1..Len(view.columns)
      BY <2>3
    <2> DEFINE columns == [view.columns EXCEPT ![i] = Reader!Loaded(i)]
    <2>5. columns \in Seq(Cells) /\ DOMAIN columns = DOMAIN inds
      BY <1>1, <2>2, <2>3, <2>4
    <2>6. \A j \in DOMAIN inds : columns[j] = IF j = i THEN Reader!Loaded(i) ELSE view.columns[j]
      BY <1>1, <2>3
    <2> HIDE DEF columns
    <2>7. /\ view' \in Views /\ view'.at = view.at /\ view'.rows = view.rows
          /\ view'.offsets = view.offsets /\ view'.columns = columns
      <3>1. view' = [view EXCEPT !.columns = columns]
        BY <2>1 DEF columns
      <3> QED BY <2>3, <2>5, <3>1 DEF Views
    <2> HIDE DEF k
    <2>8. \A j \in DOMAIN inds : CellOK(k, j, columns[j])
      BY <1>3, <2>2, <2>6 DEF IsViewOf
    <2>9. k' = k
      BY <2>1 DEF k
    <2>10. IsViewOf(k)'
      BY <1>1, <1>2, <1>3, <2>1, <2>5, <2>7, <2>8, <2>9 DEF IsViewOf, CellOK
    <2>11. RTypes'
      BY <1>1, <1>2, <2>1 DEF Inv, RInv, RTypes
    <2>12. Progress'
      BY <1>1, <1>2, <2>1, <2>10 DEF Inv, RInv, Progress, k
    <2>13. Contents' /\ FailureHasReason'
      BY <1>1, <1>2, <2>1 DEF Inv, RInv, Contents, CellOK, FailureHasReason
    <2> QED BY <2>11, <2>12, <2>13 DEF RInv
  <1>5. CASE ~Reader!Loadable(i)
    <2>1. Reader!Throw
      BY <1>5 DEF Reader!GetColumn
    <2>2. \/ ~trailed \/ fileSize' < Len(written)
          \/ \E b \in 1..Len(encoded), c \in 1..NCols : encoded[b][c] = Threw
      BY <1>1, <1>5, LoadColumn
    <2> QED BY <1>1, <1>3, <2>1, <2>2, RInvThrow
  <1> QED BY <1>4, <1>5

\* The caller uses a batch up.
LEMMA RInvTake ==
    ASSUME Inv, rpc = "view", UNCHANGED wvars, NEW columns \in Seq(Cells),
           DOMAIN columns = DOMAIN inds, \A i \in DOMAIN inds : CellOK(Len(got) + 1, i, columns[i]),
           got' = Append(got, [rows |-> view.rows, columns |-> columns]),
           rpc' = "open", view' = Reader!NoView, UNCHANGED <<fileSize, ptr, markerRead, inds>>
    PROVE  RInv'
  <1>1. UNCHANGED <<written, durable, encoded, trailed>>
    BY DEF wvars
  <1> DEFINE k == Len(got) + 1
             new == [rows |-> view.rows, columns |-> columns]
  <1>2. IsViewOf(k) /\ got \in Seq(Gots) /\ Len(got) \in Nat /\ ~markerRead
    BY DEF Inv, RInv, RTypes, Progress
  <1>3. new \in Gots /\ new.rows = Rows[k] /\ new.columns = columns
    BY <1>2 DEF IsViewOf, Views, Gots
  <1> HIDE DEF new
  <1>4. /\ got' \in Seq(Gots) /\ Len(got') = k /\ got'[k] = new
        /\ \A b \in 1..Len(got) : got'[b] = got[b]
    BY <1>2, <1>3 DEF new
  <1>5. RTypes'
    BY <1>1, <1>4 DEF Inv, RInv, RTypes
  <1>6. Progress'
    BY <1>1, <1>2, <1>4 DEF Inv, RInv, Progress, IsViewOf
  <1>7. Contents'
    <2>1. ASSUME NEW b \in 1..Len(got')
          PROVE  /\ got'[b].rows = Rows[b]
                 /\ DOMAIN got'[b].columns = DOMAIN inds
                 /\ \A i \in DOMAIN inds : CellOK(b, i, got'[b].columns[i])
      <3>1. CASE b = k
        BY <1>3, <1>4, <3>1
      <3>2. CASE b # k
        <4>1. b \in 1..Len(got)
          BY <1>2, <1>4, <3>2
        <4> QED BY <1>4, <4>1 DEF Inv, RInv, Contents
      <3> QED BY <3>1, <3>2
    <2> QED BY <1>1, <2>1 DEF Contents, CellOK
  <1>8. FailureHasReason'
    BY DEF FailureHasReason
  <1> QED BY <1>5, <1>6, <1>7, <1>8 DEF RInv

LEMMA RInvReadAll == ASSUME Inv, Reader!ReadAll, UNCHANGED wvars PROVE RInv'
  <1>1. rpc = "view" /\ UNCHANGED <<fileSize, inds>>
    BY DEF Reader!ReadAll
  <1>2. inds \in ReadSchemas \cup {<<>>} /\ inds \in Seq(1..NCols) /\ fileSize \in 0..durable
    BY <1>1 DEF Inv, RInv, RTypes, Progress
  <1>3. CASE \A i \in DOMAIN inds : Reader!Loadable(i)
    <2> DEFINE columns == [i \in DOMAIN inds |-> Reader!Loaded(i)]
    <2>1. /\ got' = Append(got, [rows |-> view.rows, columns |-> columns])
          /\ rpc' = "open" /\ view' = Reader!NoView /\ UNCHANGED <<ptr, markerRead>>
      BY <1>3 DEF Reader!ReadAll
    <2>2. \A i \in DOMAIN inds : Reader!Loaded(i) \in Cells /\ CellOK(Len(got) + 1, i, Reader!Loaded(i))
      BY <1>1, <1>3, LoadColumn
    <2>3. columns \in Seq(Cells)
      <3>1. DOMAIN inds = 1..Len(inds) /\ Len(inds) \in Nat
        BY <1>2
      <3> QED BY <2>2, <3>1
    <2>4. DOMAIN columns = DOMAIN inds /\ \A i \in DOMAIN inds : CellOK(Len(got) + 1, i, columns[i])
      BY <2>2
    <2> HIDE DEF columns
    <2> QED BY <1>1, <2>1, <2>3, <2>4, RInvTake
  <1>4. CASE ~\A i \in DOMAIN inds : Reader!Loadable(i)
    <2>1. Reader!Throw
      BY <1>4 DEF Reader!ReadAll
    <2>2. \/ ~trailed \/ fileSize' < Len(written)
          \/ \E b \in 1..Len(encoded), c \in 1..NCols : encoded[b][c] = Threw
      BY <1>1, <1>4, LoadColumn
    <2> QED BY <1>1, <1>2, <2>1, <2>2, RInvThrow
  <1> QED BY <1>3, <1>4

LEMMA RInvReadNothing == ASSUME Inv, Reader!ReadNothing, UNCHANGED wvars PROVE RInv'
  <1> DEFINE columns == [i \in DOMAIN inds |-> Reader!NotLoaded]
  <1>1. /\ rpc = "view" /\ UNCHANGED <<fileSize, ptr, markerRead, inds>>
        /\ got' = Append(got, [rows |-> view.rows, columns |-> columns])
        /\ rpc' = "open" /\ view' = Reader!NoView
    BY DEF Reader!ReadNothing, Reader!Skipped
  <1>2. inds \in Seq(1..NCols)
    BY <1>1 DEF Inv, RInv, Progress
  <1>3. columns \in Seq(Cells)
    <2>1. DOMAIN inds = 1..Len(inds) /\ Len(inds) \in Nat
      BY <1>2
    <2> QED BY <2>1 DEF Cells
  <1>4. DOMAIN columns = DOMAIN inds /\ \A i \in DOMAIN inds : CellOK(Len(got) + 1, i, columns[i])
    BY DEF CellOK
  <1> HIDE DEF columns
  <1> QED BY <1>1, <1>3, <1>4, RInvTake

-----------------------------------------------------------------------------
(* Both.                                                                   *)

LEMMA InvInit == Init => Inv
  BY WInvInit, RInvInit DEF Init, Inv

LEMMA WInvKept == ASSUME WInv, UNCHANGED wvars PROVE WInv'
  <1>1. UNCHANGED <<wpc, written, durable, full, nbatch, vec, next, encoded, trailed>>
    BY DEF wvars
  <1>2. WTypes' /\ Counting' /\ Place'
    BY <1>1 DEF WInv, WTypes, Counting, Place
  <1>3. Layout(written', encoded', trailed')
    BY <1>1 DEF WInv
  <1> QED BY <1>2, <1>3 DEF WInv

LEMMA InvStep == Inv /\ [Next]_vars => Inv'
  <1> SUFFICES ASSUME Inv, [Next]_vars PROVE Inv'
    OBVIOUS
  <1>1. CASE WriterStep
    BY <1>1, WInvStep, RInvWriter DEF WriterStep, Inv
  <1>2. CASE ReaderStep
    <2>1. UNCHANGED wvars /\ Reader!RNext
      BY <1>2 DEF ReaderStep
    <2>2. WInv'
      BY <2>1, WInvKept DEF Inv
    <2>3. RInv'
      BY <2>1, RInvOpen, RInvNextAfterEnd, RInvNextTrailer, RInvNextBatchView, RInvGetColumn,
         RInvReadAll, RInvReadNothing DEF Reader!RNext, Reader!NextCall
    <2> QED BY <2>2, <2>3 DEF Inv
  <1>3. CASE UNCHANGED vars
    <2>1. UNCHANGED wvars /\ UNCHANGED <<rpc, fileSize, ptr, markerRead, inds, view, got>>
      BY <1>3 DEF vars, rvars
    <2>2. UNCHANGED <<written, durable, encoded, trailed>>
      BY <2>1 DEF wvars
    <2>3. RTypes' /\ Progress' /\ Contents' /\ FailureHasReason'
      BY <2>1, <2>2 DEF Inv, RInv, RTypes, Progress, IsViewOf, Contents, CellOK, FailureHasReason
    <2> QED BY <2>1, <2>3, WInvKept DEF Inv, RInv
  <1> QED BY <1>1, <1>2, <1>3 DEF Next, Terminated

\* The invariant holds in every state.
THEOREM Invariance == Spec => []Inv
  BY InvInit, InvStep, PTL DEF Spec

\* Every variable stays within its type, and the reader never has more batches
\* than the writer has taken from the stream.
THEOREM TypeCorrect == Spec => []TypeOK
  <1>1. Inv => TypeOK
    <2> SUFFICES ASSUME Inv PROVE TypeOK
      OBVIOUS
    <2>1. /\ durable \in 0..Len(written) /\ Len(written) \in Nat /\ Len(encoded) \in Nat
          /\ nbatch \in 0..Len(Rows) /\ Len(Rows) \in Nat
      BY DomRows, StartType DEF Inv, WInv, WTypes, Layout
    <2>2. Len(encoded) <= nbatch
      BY <2>1 DEF Inv, WInv, Counting
    <2>3. WTypeOK
      BY <2>1, <2>2 DEF Inv, WInv, WTypes, WTypeOK
    <2>4. fileSize \in 0..Len(written)
      BY <2>1 DEF Inv, RInv, RTypes
    <2>5. Len(got) <= nbatch
      <3>1. Len(got) \in Nat /\ Len(got) <= Len(encoded)
        BY DEF Inv, RInv, RTypes, Progress
      <3> QED BY <2>1, <2>2, <3>1
    <2> QED BY <2>3, <2>4, <2>5 DEF Inv, RInv, RTypes, TypeOK
  <1> QED BY <1>1, Invariance, PTL

\* A query that gets a normal end of stream has been given every batch: nothing
\* but a finished writer makes a file that reads to its end.
THEOREM EndIsComplete == Spec => []EndMeansComplete
  <1>1. Inv => EndMeansComplete
    BY DEF Inv, RInv, Progress, EndMeansComplete
  <1> QED BY <1>1, Invariance, PTL

\* A value handed to a query is the column it asked for, of the batch it is in, and
\* its task did not throw.
THEOREM ReadBack == Spec => []ReadBackOriginal
  <1>1. Inv => ReadBackOriginal
    <2> SUFFICES ASSUME Inv PROVE ReadBackOriginal
      OBVIOUS
    <2>1. DOMAIN got = 1..Len(got)
      BY DEF Inv, RInv, RTypes
    <2> QED BY <2>1 DEF Inv, RInv, Contents, CellOK, ReadBackOriginal, Original
  <1> QED BY <1>1, Invariance, PTL

\* Where the reader looks for a header there is one, or less than a header.
THEOREM Aligned == Spec => []ReadsAligned
  <1>1. Inv => (rpc = "open" /\ Reader!CanRead(ptr, HeaderLen) => Reader!AreInts(ptr, 2 + NCols))
    <2> SUFFICES ASSUME Inv, rpc = "open", Reader!CanRead(ptr, HeaderLen)
                 PROVE  Reader!AreInts(ptr, 2 + NCols)
      OBVIOUS
    <2> DEFINE k == Len(got)
    <2>1. k \in 0..Len(encoded) /\ ptr = StartOf(encoded, k) /\ Len(encoded) \in Nat
      BY StartType DEF Inv, WInv, Layout, RInv, RTypes, Progress
    <2> HIDE DEF k
    <2>2. StartOf(encoded, k) + HeaderLen <= durable
      BY <2>1, DiskType, HeaderLenType DEF Inv, Reader!CanRead
    <2>3. k + 1 \in 1..Len(encoded) /\ (k + 1) - 1 = k
      BY <2>1, <2>2, EndRead DEF Inv
    <2>4. Reader!AreInts(StartOf(encoded, (k + 1) - 1), 2 + NCols)
      BY <2>2, <2>3, HeaderRead DEF Inv
    <2> QED BY <2>1, <2>3, <2>4
  <1>2. Inv /\ TypeOK => ReadsAligned
    BY <1>1 DEF ReadsAligned
  <1> QED BY <1>2, Invariance, TypeCorrect, PTL

\* A query fails only because the file is not complete, a column's task threw, or a
\* column it asks for is not there.
THEOREM FailsForAReason == Spec => []FailureHasReason
  <1>1. Inv => FailureHasReason
    BY DEF Inv, RInv
  <1> QED BY <1>1, Invariance, PTL

-----------------------------------------------------------------------------
(* The file is a log of batches.                                           *)

\* What a step of the writer does to the log.
LEMMA WriterLog ==
    ASSUME WInv, WNext
    PROVE  /\ Begun \in Nat
           /\ \/ Begun' = Begun /\ trailed' = trailed
              \/ Begun' = Begun + 1 /\ Begun + 1 \in 1..Len(Rows) /\ ~trailed /\ trailed' = trailed
              \/ Begun' = Begun /\ ~trailed /\ trailed' /\ trailed \in BOOLEAN /\ trailed' \in BOOLEAN
  <1>1. nbatch \in 0..Len(Rows) /\ Len(Rows) \in Nat /\ trailed \in BOOLEAN
    BY DomRows DEF WInv, WTypes
  <1>2. wpc \in {"encode", "header"} => nbatch \in 1..Len(Rows) /\ ~trailed
    BY DEF WInv, Counting, Ended
  <1>3. Begun \in Nat
    BY <1>1, <1>2 DEF Begun
  <1>4. CASE Flush \/ DeviceFull \/ Close \/ WriteMarker \/ WriteSchema \/ EndOfStream \/ StreamThrows
              \/ (\E c \in 1..NCols : EncodeColumn(c)) \/ WaitTasks \/ WriteColumn \/ EndBatch
    <2>1. nbatch' = nbatch /\ trailed' = trailed
          /\ (wpc' \in {"encode", "header"} <=> wpc \in {"encode", "header"})
      BY <1>4 DEF Flush, DeviceFull, Close, WriteMarker, WriteSchema, EndOfStream, StreamThrows,
             EncodeColumn, WaitTasks, WriteColumn, EndBatch, Write
    <2> QED BY <1>3, <2>1 DEF Begun
  <1>5. CASE NextBatch
    BY <1>1, <1>3, <1>5 DEF NextBatch, Begun
  <1>6. CASE Kill
    BY <1>1, <1>2, <1>3, <1>6 DEF Kill, Begun
  <1>7. CASE WriteHeader
    <2>1. wpc = "header" /\ wpc' \in {"unwind", "columns"} /\ nbatch' = nbatch /\ trailed' = trailed
      BY <1>7 DEF WriteHeader, Write
    <2> QED BY <1>1, <1>2, <1>3, <2>1 DEF Begun
  <1>8. CASE WriteTrailer
    <2>1. /\ wpc = "trailer" /\ wpc' \in {"unwind", "close"} /\ nbatch' = nbatch
          /\ trailed' = (wpc' = "close") /\ ~trailed
      BY <1>8 DEF WriteTrailer, Write, WInv, Counting, Ended
    <2>2. Begun' = Begun
      BY <2>1 DEF Begun
    <2>3. trailed = FALSE /\ trailed' \in BOOLEAN
      BY <1>1, <2>1
    <2> QED BY <1>1, <1>3, <2>1, <2>2, <2>3
  <1> QED BY <1>4, <1>5, <1>6, <1>7, <1>8 DEF WNext

\* A header that is in the file is one of a batch of the log.
LEMMA HeaderBegun ==
    ASSUME WInv, NEW k \in 1..Len(encoded), StartOf(encoded, k - 1) + HeaderLen <= durable
    PROVE  k <= Begun
  <1>1. Len(encoded) \in Nat /\ IsEncoded(encoded) /\ nbatch \in Nat /\ Len(encoded) <= nbatch
    <2>1. Len(encoded) \in {nbatch - 1, nbatch} /\ IsEncoded(encoded)
      BY DEF WInv, Counting, Layout
    <2>2. nbatch \in 0..Len(Rows)
      BY DEF WInv, WTypes
    <2>3. Len(encoded) \in Nat
      BY <2>1, StartType
    <2> QED BY <2>1, <2>2, <2>3, DomRows
  <1>2. CASE wpc \in {"encode", "header"}
    <2>1. Len(written) = StartOf(encoded, nbatch - 1) /\ nbatch \in 1..Len(Rows)
      BY <1>2 DEF WInv, Counting, Place
    <2>2. SUFFICES ASSUME k = nbatch PROVE FALSE
      BY <1>1, <1>2, <2>1 DEF Begun
    <2>3. StartOf(encoded, k - 1) \in Nat
      BY <1>1, ColumnBounds
    <2> QED BY <2>1, <2>2, <2>3, DiskType, HeaderLenType
  <1>3. CASE wpc \notin {"encode", "header"}
    BY <1>1, <1>3 DEF Begun
  <1> QED BY <1>2, <1>3

LEMMA ViewsAreViews == \A v \in Views : v # Reader!NoView
  <1> SUFFICES ASSUME NEW v \in Views, v = Reader!NoView PROVE FALSE
    OBVIOUS
  <1>1. DOMAIN v = {"at", "rows", "offsets", "columns"}
    BY DEF Views
  <1>2. DOMAIN v = {"rows"}
    BY DEF Reader!NoView
  <1> QED BY <1>1, <1>2

LogNow  == [b \in 1..Begun |-> b]
NRead   == Len(got) + (IF view # Reader!NoView THEN 1 ELSE 0)
ReadNow == CASE rpc = "eof" -> "end" [] rpc = "threw" -> "failed" [] OTHER -> "reading"

LEMMA LogInit == Init => Log!BLInit
  <1> SUFFICES ASSUME Init PROVE Log!BLInit
    OBVIOUS
  <1>1. Begun = 0 /\ trailed = FALSE /\ rpc = "unopened" /\ view = Reader!NoView /\ Len(got) = 0
    BY DEF Init, WInit, Reader!RInit, Begun
  <1>2. LogNow = <<>>
    BY <1>1 DEF LogNow
  <1>3. NRead = 0 /\ ReadNow = "reading"
    BY <1>1 DEF NRead, ReadNow
  <1> QED BY <1>1, <1>2, <1>3 DEF Log!BLInit, LogNow, NRead, ReadNow

LEMMA LogStep == Inv /\ Inv' /\ [Next]_vars => [Log!BLNext]_(Log!blvars)
  <1> SUFFICES ASSUME Inv, Inv', [Next]_vars PROVE [Log!BLNext]_(Log!blvars)
    OBVIOUS
  <1>0. Len(got) \in Nat /\ Begun \in Nat
    <2>1. nbatch \in 0..Len(Rows) /\ (wpc \in {"encode", "header"} => nbatch \in 1..Len(Rows))
      BY DEF Inv, WInv, WTypes, Counting
    <2> QED BY <2>1, DomRows DEF Inv, RInv, RTypes, Begun
  <1>1. CASE WriterStep
    <2>1. UNCHANGED <<got, view, rpc>>
      BY <1>1 DEF WriterStep, rvars
    <2>2. NRead' = NRead /\ ReadNow' = ReadNow
      BY <2>1 DEF NRead, ReadNow
    <2>3. CASE Begun' = Begun /\ trailed' = trailed
      <3>1. LogNow' = LogNow
        BY <2>3 DEF LogNow
      <3> QED BY <2>2, <2>3, <3>1 DEF Log!blvars, LogNow, NRead, ReadNow
    <2>4. CASE Begun' = Begun + 1 /\ Begun + 1 \in 1..Len(Rows) /\ ~trailed /\ trailed' = trailed
      <3>1. LogNow' = Append(LogNow, Begun + 1)
        BY <1>0, <2>4 DEF LogNow
      <3>2. Log!AppendBatch
        BY <2>2, <2>4, <3>1 DEF Log!AppendBatch, LogNow, NRead, ReadNow
      <3> QED BY <3>2 DEF Log!BLNext
    <2>5. CASE Begun' = Begun /\ ~trailed /\ trailed' /\ trailed' \in BOOLEAN
      <3>1. LogNow' = LogNow /\ trailed' = TRUE
        BY <2>5 DEF LogNow
      <3>2. Log!Seal
        BY <2>2, <2>5, <3>1 DEF Log!Seal, LogNow, NRead, ReadNow
      <3> QED BY <3>2 DEF Log!BLNext
    <2> QED BY <1>1, <2>3, <2>4, <2>5, WriterLog DEF WriterStep, Inv
  <1>2. CASE ReaderStep
    <2>0. UNCHANGED wvars /\ Reader!RNext /\ UNCHANGED <<wpc, nbatch, encoded, trailed>>
      BY <1>2 DEF ReaderStep, wvars
    <2>1. Begun' = Begun /\ LogNow' = LogNow /\ trailed' = trailed
      BY <2>0 DEF Begun, LogNow
    <2>2. Len(LogNow) = Begun
      BY <1>0 DEF LogNow
    <2>3. ASSUME NRead' = NRead, ReadNow' = ReadNow PROVE UNCHANGED Log!blvars
      BY <2>1, <2>3 DEF Log!blvars, LogNow, NRead, ReadNow
    <2>4. ASSUME Reader!Throw, rpc \in {"unopened", "open", "view"} PROVE Log!BLNext
      <3>1. NRead' = NRead /\ ReadNow = "reading" /\ ReadNow' = "failed"
        BY <2>4 DEF NRead, ReadNow, Reader!Throw
      <3>2. Log!Fail
        BY <2>1, <3>1 DEF Log!Fail, LogNow, NRead, ReadNow
      <3> QED BY <3>2 DEF Log!BLNext
    <2>5. CASE Reader!Open
      <3>1. CASE Reader!Throw
        BY <2>4, <2>5, <3>1 DEF Reader!Open
      <3>2. CASE rpc' = "open" /\ UNCHANGED <<view, got>>
        <4>1. NRead' = NRead /\ ReadNow' = ReadNow
          BY <2>5, <3>2 DEF NRead, ReadNow, Reader!Open
        <4> QED BY <2>3, <4>1
      <3> QED BY <2>5, <3>1, <3>2 DEF Reader!Open
    <2>6. CASE Reader!NextAfterEnd
      <3>1. UNCHANGED vars
        BY <2>0, <2>6, RInvNextAfterEnd
      <3>2. NRead' = NRead /\ ReadNow' = ReadNow
        BY <3>1 DEF NRead, ReadNow, vars, rvars
      <3> QED BY <2>3, <3>2
    <2>7. CASE Reader!NextTrailer
      <3>1. rpc = "open" /\ view = Reader!NoView
        BY <2>7, AskingIsOpen DEF Reader!NextTrailer, Inv, RInv, Progress
      <3>2. CASE Reader!Throw
        BY <2>4, <3>1, <3>2
      <3>3. CASE rpc' = "eof" /\ UNCHANGED <<view, got>>
        <4>1. trailed /\ Len(got) = Len(Rows)
          BY <2>1, <3>3 DEF Inv, RInv, Progress
        <4>2. Begun = Len(Rows)
          BY <4>1 DEF Inv, WInv, Counting, Begun, Ended
        <4>3. NRead = Len(LogNow) /\ NRead' = NRead /\ ReadNow = "reading" /\ ReadNow' = "end"
          BY <1>0, <2>2, <3>1, <3>3, <4>1, <4>2 DEF NRead, ReadNow
        <4>4. Log!ReadEnd
          BY <2>1, <4>1, <4>3 DEF Log!ReadEnd, LogNow, NRead, ReadNow
        <4> QED BY <4>4 DEF Log!BLNext
      <3> QED BY <2>7, <3>2, <3>3 DEF Reader!NextTrailer
    <2>8. CASE Reader!NextBatchView
      <3>1. rpc = "open" /\ view = Reader!NoView
        BY <2>8, AskingIsOpen DEF Reader!NextBatchView, Inv, RInv, Progress
      <3>2. CASE Reader!Throw
        BY <2>4, <3>1, <3>2
      <3>3. CASE rpc' = "view" /\ UNCHANGED got
        <4>1. IsViewOf(Len(got) + 1)'
          BY <3>3 DEF Inv, RInv, Progress
        <4>2. /\ Len(got) + 1 \in 1..Len(encoded') /\ view' \in Views
              /\ StartOf(encoded', (Len(got) + 1) - 1) + HeaderLen <= durable'
          BY <3>3, <4>1 DEF IsViewOf
        <4>3. UNCHANGED <<encoded, durable>>
          BY <2>0 DEF wvars
        <4>4. Len(got) + 1 <= Begun
          BY <4>2, <4>3, HeaderBegun DEF Inv
        <4>5. NRead = Len(got) /\ NRead' = NRead + 1
          BY <1>0, <3>1, <3>3, <4>2, ViewsAreViews DEF NRead
        <4>6. ReadNow = "reading" /\ ReadNow' = "reading" /\ NRead < Len(LogNow)
          BY <1>0, <2>2, <3>1, <3>3, <4>4, <4>5 DEF ReadNow
        <4>7. Log!ReadBatch
          BY <2>1, <4>5, <4>6 DEF Log!ReadBatch, LogNow, NRead, ReadNow
        <4> QED BY <4>7 DEF Log!BLNext
      <3> QED BY <2>8, <3>2, <3>3 DEF Reader!NextBatchView
    <2>9. CASE \E i \in 1..NCols : Reader!GetColumn(i)
      <3> PICK i \in 1..NCols : Reader!GetColumn(i)
        BY <2>9
      <3>1. rpc = "view" /\ view # Reader!NoView
        BY ViewsAreViews DEF Reader!GetColumn, Inv, RInv, Progress, IsViewOf
      <3>2. CASE Reader!Throw
        BY <2>4, <3>1, <3>2
      <3>3. CASE rpc' = rpc /\ got' = got
        <4>1. view' # Reader!NoView
          BY <3>1, <3>3, ViewsAreViews DEF Inv, RInv, Progress, IsViewOf
        <4>2. NRead' = NRead /\ ReadNow' = ReadNow
          BY <3>1, <3>3, <4>1 DEF NRead, ReadNow
        <4> QED BY <2>3, <4>2
      <3> QED BY <3>2, <3>3 DEF Reader!GetColumn
    <2>10. CASE Reader!ReadAll \/ Reader!ReadNothing
      <3>1. rpc = "view" /\ view # Reader!NoView
        BY <2>10, ViewsAreViews DEF Reader!ReadAll, Reader!ReadNothing, Inv, RInv, Progress, IsViewOf
      <3>2. CASE Reader!Throw
        BY <2>4, <3>1, <3>2
      <3>3. CASE rpc' = "open" /\ view' = Reader!NoView /\ \E x : got' = Append(got, x) /\ x \in Gots
        <4>1. Len(got') = Len(got) + 1
          <5>1. got \in Seq(Gots)
            BY DEF Inv, RInv, RTypes
          <5> QED BY <3>3, <5>1
        <4>2. NRead' = NRead /\ ReadNow' = ReadNow
          BY <1>0, <3>1, <3>3, <4>1 DEF NRead, ReadNow
        <4> QED BY <2>3, <4>2
      <3>4. rpc' = "open" => view' = Reader!NoView /\ \E x : got' = Append(got, x) /\ x \in Gots
        <4> SUFFICES ASSUME rpc' = "open"
                     PROVE  view' = Reader!NoView /\ \E x : got' = Append(got, x) /\ x \in Gots
          OBVIOUS
        <4>1. view' = Reader!NoView /\ \E x : got' = Append(got, x)
          BY <2>10 DEF Reader!ReadAll, Reader!ReadNothing, Reader!Throw
        <4>2. PICK x : got' = Append(got, x)
          BY <4>1
        <4>3. got' \in Seq(Gots) /\ got \in Seq(Gots)
          BY DEF Inv, RInv, RTypes
        <4>4. x \in Gots
          <5>1. Len(got') = Len(got) + 1 /\ got'[Len(got) + 1] = x
            BY <4>2, <4>3, AppendProperties
          <5> QED BY <1>0, <4>3, <5>1
        <4> QED BY <4>1, <4>2, <4>4
      <3> QED BY <2>10, <3>2, <3>3, <3>4 DEF Reader!ReadAll, Reader!ReadNothing
    <2> QED BY <2>0, <2>5, <2>6, <2>7, <2>8, <2>9, <2>10 DEF Reader!RNext, Reader!NextCall
  <1>3. CASE UNCHANGED vars
    <2>1. UNCHANGED <<wpc, nbatch, trailed, rpc, view, got>>
      BY <1>3 DEF vars, wvars, rvars
    <2>2. LogNow' = LogNow /\ NRead' = NRead /\ ReadNow' = ReadNow
      BY <2>1 DEF LogNow, Begun, NRead, ReadNow
    <2> QED BY <2>1, <2>2 DEF Log!blvars, LogNow, NRead, ReadNow
  <1> QED BY <1>1, <1>2, <1>3 DEF Next, Terminated

\* A .curse file is a log of batches that is appended to, sealed or abandoned, and
\* read in its order: whatever the writer and the reader do is a step of that log.
THEOREM FileIsALog == Spec => ImplementsBatchLog
  <1>1. Init => Log!BLInit
    BY LogInit
  <1>2. Inv /\ Inv' /\ [Next]_vars => [Log!BLNext]_(Log!blvars)
    BY LogStep
  <1> QED BY <1>1, <1>2, Invariance, PTL DEF Spec, ImplementsBatchLog, Log!BLSpec
=============================================================================
