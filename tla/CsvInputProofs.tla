--------------------------- MODULE CsvInputProofs ----------------------------
(***************************************************************************)
(* Proofs about CsvInput, for any schema, any number of cores, any sizes   *)
(* of the buffers and any input, and about the CsvSource in it, for any    *)
(* text and any size of the deque's notification.                          *)
(*                                                                         *)
(* The source comes first: no row is lost between the thread that parses   *)
(* and the consumer, the state they share without a lock is never used by  *)
(* both, nobody sleeps unwatched, and the one verdict that is made from    *)
(* flags alone is true.                                                    *)
(*                                                                         *)
(* Then the lemmas about CsvReader: a call of Next keeps ReaderInv, which  *)
(* says of every column which rows it covers so far. The tasks of a flush  *)
(* share the columns out between them, and a column that comes through a   *)
(* flush without bad text gets exactly the buffered rows. What read_row    *)
(* answers is left to its caller there.                                    *)
(*                                                                         *)
(* Then the composition: the reader of vince-csv keeps its promises while  *)
(* CsvReader::Next drives it, and what Next may lose at the end of the     *)
(* input is the tail that a finished thread has left in the deque, never   *)
(* an earlier row.                                                         *)
(***************************************************************************)
EXTENDS CsvInput, SequenceTheorems, WellFoundedInduction, TLAPS

-----------------------------------------------------------------------------
(* Rows and their numbers.                                                 *)

\* The rows 1 to n of the text.
Numbers(n) == [k \in 1..n |-> k]

\* The n rows after row p.
Following(p, n) == [k \in 1..n |-> p + k]

\* The number of rows up to the end of a window.
LEMMA RowsUpToType ==
    ASSUME NEW f \in Feeds, feed = f, NEW w \in 0..Len(f)
    PROVE  RowsUpTo(w) \in Nat /\ (w < Len(f) => RowsUpTo(w + 1) \in Nat /\ RowsUpTo(w) <= RowsUpTo(w + 1))
  <1>1. f \in Seq(Nat)
    BY FeedsAssumption
  <1>2. \A v \in 1..Len(f) : f[v] \in Nat
    BY <1>1, ElementOfSeq
  <1>3. Len(f) \in Nat
    BY <1>1, LenProperties
  <1>4. CASE w = 0
    <2>1. RowsUpTo(0) = 0 /\ RowsUpTo(1) = f[1]
      BY DEF RowsUpTo
    <2>2. w < Len(f) => f[1] \in Nat
      BY <1>2, <1>3
    <2> QED BY <1>4, <2>1, <2>2
  <1>5. CASE w # 0
    <2>1. w \in 1..Len(f)
      BY <1>3, <1>5
    <2>2. RowsUpTo(w) = f[w] /\ RowsUpTo(w + 1) = f[w + 1]
      BY <2>1, <1>3 DEF RowsUpTo
    <2>3. w < Len(f) => w \in 1..(Len(f) - 1) /\ w + 1 \in 1..Len(f)
      BY <2>1, <1>3
    <2>4. w < Len(f) => f[w] <= f[w + 1]
      BY <2>3, FeedsAssumption
    <2> QED BY <2>1, <2>2, <2>3, <2>4, <1>2
  <1> QED BY <1>4, <1>5

\* The numbers 1 to p, and the n after them.
LEMMA NumbersExtend ==
    ASSUME NEW p \in Nat, NEW n \in Nat
    PROVE  Numbers(p) \o Following(p, n) = Numbers(p + n)
  <1> DEFINE old  == Numbers(p)
             more == Following(p, n)
             all  == Numbers(p + n)
  <1>1. old \in Seq(Nat) /\ Len(old) = p /\ \A k \in 1..p : old[k] = k
    BY DEF Numbers
  <1>2. more \in Seq(Nat) /\ Len(more) = n /\ \A k \in 1..n : more[k] = p + k
    BY DEF Following
  <1>3. all \in Seq(Nat) /\ Len(all) = p + n /\ \A k \in 1..(p + n) : all[k] = k
    BY DEF Numbers
  <1> DEFINE both == old \o more
  <1> HIDE DEF old, more, all
  <1>4. both \in Seq(Nat) /\ Len(both) = p + n
    BY <1>1, <1>2, ConcatProperties
  <1>5. \A k \in 1..(p + n) : both[k] = IF k <= p THEN old[k] ELSE more[k - p]
    BY <1>1, <1>2, ConcatProperties
  <1> HIDE DEF both
  <1>6. ASSUME NEW k \in 1..(p + n) PROVE both[k] = all[k]
    <2>1. CASE k <= p
      BY <1>1, <1>3, <1>5, <2>1
    <2>2. CASE k > p
      <3>1. k - p \in 1..n
        BY <2>2
      <3>2. more[k - p] = p + (k - p)
        BY <1>2, <3>1
      <3> QED BY <1>3, <1>5, <2>2, <3>2
    <2> QED BY <2>1, <2>2
  <1>7. both = all
    BY <1>3, <1>4, <1>6, SeqEqual
  <1> QED BY <1>7 DEF old, more, all, both

\* Rows that are pushed go behind those in the deque.
LEMMA PushedBehind ==
    ASSUME NEW g \in Seq(Nat), NEW r \in Seq(Nat), NEW more \in Seq(Nat)
    PROVE  /\ r \o more \in Seq(Nat)
           /\ (g \o r) \o more = g \o (r \o more)
           /\ more # <<>> => r \o more # <<>>
  <1>1. r \o more \in Seq(Nat)
    BY ConcatProperties
  <1>2. (g \o r) \o more = g \o (r \o more)
    BY ConcatAssociative, SMTT(60)
  <1>3. more # <<>> => r \o more # <<>>
    BY ConcatEqualIffEmpty
  <1> QED BY <1>1, <1>2, <1>3

\* A row that is taken from the front of the deque is the next one.
LEMMA TakenInOrder ==
    ASSUME NEW g \in Seq(Nat), NEW r \in Seq(Nat), r # <<>>
    PROVE  /\ Append(g, Head(r)) \in Seq(Nat)
           /\ Tail(r) \in Seq(Nat)
           /\ Append(g, Head(r)) \o Tail(r) = g \o r
           /\ (Len(r) = 1) <=> (Tail(r) = <<>>)
  <1>1. /\ Head(r) \in Nat /\ Tail(r) \in Seq(Nat) /\ Len(Tail(r)) = Len(r) - 1
        /\ \A k \in 1..Len(Tail(r)) : Tail(r)[k] = r[k + 1]
    BY HeadTailProperties
  <1>2. Append(g, Head(r)) \in Seq(Nat) /\ Append(g, Head(r)) = g \o <<Head(r)>>
    BY <1>1, AppendProperties, AppendIsConcat
  <1>3. <<Head(r)>> \o Tail(r) = r
    <2>1. Len(r) \in Nat /\ r # <<>> => Len(r) >= 1
      BY EmptySeq, LenProperties
    <2>2. /\ <<Head(r)>> \in Seq(Nat) /\ Len(<<Head(r)>>) = 1 /\ <<Head(r)>>[1] = Head(r)
          /\ Head(r) = r[1]
      BY <1>1
    <2>3. /\ <<Head(r)>> \o Tail(r) \in Seq(Nat)
          /\ Len(<<Head(r)>> \o Tail(r)) = 1 + Len(Tail(r))
          /\ \A k \in 1..(1 + Len(Tail(r))) : (<<Head(r)>> \o Tail(r))[k] =
                IF k <= 1 THEN <<Head(r)>>[k] ELSE Tail(r)[k - 1]
      BY <1>1, <2>2, ConcatProperties
    <2>4. ASSUME NEW k \in 1..Len(r) PROVE (<<Head(r)>> \o Tail(r))[k] = r[k]
      BY <1>1, <2>1, <2>2, <2>3
    <2>5. Len(<<Head(r)>> \o Tail(r)) = Len(r)
      BY <1>1, <2>1, <2>3
    <2> QED BY <2>3, <2>4, <2>5, SeqEqual
  <1>4. (g \o <<Head(r)>>) \o Tail(r) = g \o (<<Head(r)>> \o Tail(r))
    BY <1>1, ConcatAssociative, SMTT(30)
  <1>5. (Len(r) = 1) <=> (Tail(r) = <<>>)
    <2>1. Tail(r) = <<>> <=> Len(Tail(r)) = 0
      BY <1>1, EmptySeq
    <2>2. Len(r) \in Nat
      BY LenProperties
    <2> QED BY <2>1, <2>2, <1>1, SMTT(30)
  <1> QED BY <1>1, <1>2, <1>3, <1>4, <1>5
-----------------------------------------------------------------------------
(* The inductive invariant.                                                *)

\* The flag of the deque says whether it has rows.
FlagIsTrue == isEmpty <=> records = <<>>

\* The consumer is told to wait only for a thread that will tell it to go on, and
\* sleeps only inside wait().
Waiting ==
    /\ isWaitable => wpc \in {"begin", "read", "push", "end", "caught"}
    /\ asleep => isWaitable /\ cpc = "lock"

\* The consumer has no thread at work when it decides, or has given up.
ThreadJoined == cpc \in {"rethrow", "decide", "tooLarge", "false"} => wpc = "none"

\* A failure of the stream is on its way to the consumer, or has ended its reading.
FailureKept ==
    /\ wpc \in {"caught", "adopt"} => bad
    /\ bad => \/ wpc \in {"caught", "adopt"}
              \/ exception
              \/ cpc \in {"threw", "broken", "closing", "closed"}
    /\ cpc = "decide" => ~exception

\* A window that is not being pushed has no rows left.
WindowDone == wpc # "push" => left = 0

\* The thread that was asked for a window has read one, and the deque is empty: then
\* no row of that window has been pushed, for none has been taken.
NothingTaken ==
    /\ requested \/ cpc = "started"
    /\ records = <<>>
    /\ wpc \in {"push", "end", "over", "none"}
    /\ ~bad
    => parsed > 0 /\ left = feed[parsed] - RowsUpTo(parsed - 1)

SourceInv ==
    /\ SourceTypeOK
    /\ FlagIsTrue
    /\ Waiting
    /\ ThreadJoined
    /\ FailureKept
    /\ WindowDone
    /\ RowsConserved
    /\ NothingTaken
    /\ TooLargeIsTrue

LEMMA SourceInitInv == SourceInit => SourceInv
  <1> SUFFICES ASSUME SourceInit PROVE SourceInv
    OBVIOUS
  <1> USE DEF SourceInit
  <1>0. Len(feed) \in Nat
    BY FeedsAssumption, LenProperties
  <1>1. SourceTypeOK
    <2>1. parsed \in 0..Len(feed) /\ records \in Seq(Nat) /\ given \in Seq(Nat)
      BY <1>0, EmptySeq
    <2> QED BY <2>1 DEF SourceTypeOK, WorkerPlaces, ConsumerPlaces
  <1>2. FlagIsTrue /\ Waiting /\ ThreadJoined /\ FailureKept /\ WindowDone
    BY DEF FlagIsTrue, Waiting, ThreadJoined, FailureKept, WindowDone
  <1>3. RowsConserved
    BY DEF RowsConserved, RowsUpTo
  <1>4. NothingTaken /\ TooLargeIsTrue
    BY DEF NothingTaken, TooLargeIsTrue
  <1> QED BY <1>1, <1>2, <1>3, <1>4 DEF SourceInv

\* The rows of two windows that follow each other.
LEMMA WindowRows ==
    ASSUME SourceTypeOK
    PROVE  /\ parsed < Len(feed) => RowsUpTo(parsed) <= RowsUpTo(parsed + 1) /\ RowsUpTo(parsed + 1) \in Nat
           /\ RowsUpTo(parsed) \in Nat
           /\ parsed > 0 => feed[parsed] = RowsUpTo(parsed) /\ RowsUpTo(parsed - 1) \in Nat
                            /\ RowsUpTo(parsed - 1) <= RowsUpTo(parsed)
  <1>1. feed \in Feeds /\ parsed \in 0..Len(feed) /\ Len(feed) \in Nat
    BY FeedsAssumption, LenProperties DEF SourceTypeOK
  <1>2. \A w \in 0..Len(feed) :
          RowsUpTo(w) \in Nat /\ (w < Len(feed) => RowsUpTo(w + 1) \in Nat /\ RowsUpTo(w) <= RowsUpTo(w + 1))
    BY <1>1, RowsUpToType
  <1>3. CASE parsed = 0
    BY <1>1, <1>2, <1>3
  <1>4. CASE parsed > 0
    <2>1. parsed - 1 \in 0..Len(feed) /\ parsed - 1 < Len(feed) /\ (parsed - 1) + 1 = parsed
      BY <1>1, <1>4
    <2>2. feed[parsed] = RowsUpTo(parsed)
      BY <1>4 DEF RowsUpTo
    <2>3. RowsUpTo(parsed - 1) \in Nat /\ RowsUpTo(parsed - 1) <= RowsUpTo((parsed - 1) + 1)
      BY <1>2, <2>1
    <2> QED BY <1>1, <1>2, <2>1, <2>2, <2>3
  <1> QED BY <1>1, <1>3, <1>4

LEMMA SourceNextInv == SourceInv /\ [SourceNext]_svars => SourceInv'
  <1> SUFFICES ASSUME SourceInv, [SourceNext]_svars PROVE SourceInv'
    OBVIOUS
  <1> USE DEF SourceInv
  <1>1. CASE Begin
    <2>1. SourceTypeOK'
      BY <1>1 DEF Begin, SourceTypeOK, parserVars, dequeVars, WorkerPlaces, ConsumerPlaces
    <2>2. FlagIsTrue' /\ Waiting' /\ ThreadJoined' /\ FailureKept' /\ WindowDone'
      BY <1>1 DEF Begin, SourceTypeOK, parserVars, dequeVars, FlagIsTrue, Waiting, ThreadJoined, FailureKept, WindowDone
    <2>3. RowsConserved'
      BY <1>1 DEF Begin, parserVars, dequeVars, RowsConserved, RowsUpTo
    <2>4. NothingTaken' /\ TooLargeIsTrue'
      BY <1>1 DEF Begin, SourceTypeOK, parserVars, dequeVars, FlagIsTrue, ThreadJoined, FailureKept, WindowDone, NothingTaken, TooLargeIsTrue, RowsUpTo
    <2> QED BY <2>1, <2>2, <2>3, <2>4
  <1>2. CASE ReadFails
    <2>1. SourceTypeOK'
      BY <1>2 DEF ReadFails, SourceTypeOK, parserVars, dequeVars, WorkerPlaces, ConsumerPlaces
    <2>2. FlagIsTrue' /\ Waiting' /\ ThreadJoined' /\ FailureKept' /\ WindowDone'
      BY <1>2 DEF ReadFails, SourceTypeOK, parserVars, dequeVars, FlagIsTrue, Waiting, ThreadJoined, FailureKept, WindowDone
    <2>3. RowsConserved'
      BY <1>2 DEF ReadFails, parserVars, dequeVars, RowsConserved, RowsUpTo
    <2>4. NothingTaken' /\ TooLargeIsTrue'
      BY <1>2 DEF ReadFails, SourceTypeOK, parserVars, dequeVars, FlagIsTrue, ThreadJoined, FailureKept, WindowDone, NothingTaken, TooLargeIsTrue, RowsUpTo
    <2> QED BY <2>1, <2>2, <2>3, <2>4
  <1>3. CASE End
    <2>1. SourceTypeOK'
      BY <1>3 DEF End, KillAll, SourceTypeOK, parserVars, dequeVars, WorkerPlaces, ConsumerPlaces
    <2>2. FlagIsTrue' /\ Waiting' /\ ThreadJoined' /\ FailureKept' /\ WindowDone'
      BY <1>3 DEF End, KillAll, SourceTypeOK, parserVars, dequeVars, FlagIsTrue, Waiting, ThreadJoined, FailureKept, WindowDone
    <2>3. RowsConserved'
      BY <1>3 DEF End, KillAll, parserVars, dequeVars, RowsConserved, RowsUpTo
    <2>4. NothingTaken' /\ TooLargeIsTrue'
      BY <1>3 DEF End, KillAll, SourceTypeOK, parserVars, dequeVars, FlagIsTrue, ThreadJoined, FailureKept, WindowDone, NothingTaken, TooLargeIsTrue, RowsUpTo
    <2> QED BY <2>1, <2>2, <2>3, <2>4
  <1>4. CASE Catch
    <2>1. SourceTypeOK'
      BY <1>4 DEF Catch, KillAll, SourceTypeOK, parserVars, dequeVars, WorkerPlaces, ConsumerPlaces
    <2>2. FlagIsTrue' /\ Waiting' /\ ThreadJoined' /\ FailureKept' /\ WindowDone'
      BY <1>4 DEF Catch, KillAll, SourceTypeOK, parserVars, dequeVars, FlagIsTrue, Waiting, ThreadJoined, FailureKept, WindowDone
    <2>3. RowsConserved'
      BY <1>4 DEF Catch, KillAll, parserVars, dequeVars, RowsConserved, RowsUpTo
    <2>4. NothingTaken' /\ TooLargeIsTrue'
      BY <1>4 DEF Catch, KillAll, SourceTypeOK, parserVars, dequeVars, FlagIsTrue, ThreadJoined, FailureKept, WindowDone, NothingTaken, TooLargeIsTrue, RowsUpTo
    <2> QED BY <2>1, <2>2, <2>3, <2>4
  <1>5. CASE Adopt
    <2>1. SourceTypeOK'
      BY <1>5 DEF Adopt, SourceTypeOK, parserVars, dequeVars, WorkerPlaces, ConsumerPlaces
    <2>2. FlagIsTrue' /\ Waiting' /\ ThreadJoined' /\ FailureKept' /\ WindowDone'
      BY <1>5 DEF Adopt, SourceTypeOK, parserVars, dequeVars, FlagIsTrue, Waiting, ThreadJoined, FailureKept, WindowDone
    <2>3. RowsConserved'
      BY <1>5 DEF Adopt, parserVars, dequeVars, RowsConserved, RowsUpTo
    <2>4. NothingTaken' /\ TooLargeIsTrue'
      BY <1>5 DEF Adopt, SourceTypeOK, parserVars, dequeVars, FlagIsTrue, ThreadJoined, FailureKept, WindowDone, NothingTaken, TooLargeIsTrue, RowsUpTo
    <2> QED BY <2>1, <2>2, <2>3, <2>4
  <1>6. CASE Construct
    <2>1. SourceTypeOK'
      BY <1>6 DEF Construct, Joinable, SourceTypeOK, parserVars, dequeVars, WorkerPlaces, ConsumerPlaces
    <2>2. FlagIsTrue' /\ Waiting' /\ ThreadJoined' /\ FailureKept' /\ WindowDone'
      BY <1>6 DEF Construct, Joinable, SourceTypeOK, parserVars, dequeVars, FlagIsTrue, Waiting, ThreadJoined, FailureKept, WindowDone
    <2>3. RowsConserved'
      BY <1>6 DEF Construct, Joinable, parserVars, dequeVars, RowsConserved, RowsUpTo
    <2>4. NothingTaken' /\ TooLargeIsTrue'
      BY <1>6 DEF Construct, Joinable, SourceTypeOK, parserVars, dequeVars, FlagIsTrue, ThreadJoined, FailureKept, WindowDone, NothingTaken, TooLargeIsTrue, RowsUpTo
    <2> QED BY <2>1, <2>2, <2>3, <2>4
  <1>7. CASE CallReadRow
    <2>1. SourceTypeOK'
      BY <1>7 DEF CallReadRow, SourceTypeOK, parserVars, dequeVars, WorkerPlaces, ConsumerPlaces
    <2>2. FlagIsTrue' /\ Waiting' /\ ThreadJoined' /\ FailureKept' /\ WindowDone'
      BY <1>7 DEF CallReadRow, SourceTypeOK, parserVars, dequeVars, FlagIsTrue, Waiting, ThreadJoined, FailureKept, WindowDone
    <2>3. RowsConserved'
      BY <1>7 DEF CallReadRow, parserVars, dequeVars, RowsConserved, RowsUpTo
    <2>4. NothingTaken' /\ TooLargeIsTrue'
      BY <1>7 DEF CallReadRow, SourceTypeOK, parserVars, dequeVars, FlagIsTrue, ThreadJoined, FailureKept, WindowDone, NothingTaken, TooLargeIsTrue, RowsUpTo
    <2> QED BY <2>1, <2>2, <2>3, <2>4
  <1>8. CASE LoadEmpty
    <2>1. SourceTypeOK'
      BY <1>8 DEF LoadEmpty, SourceTypeOK, parserVars, dequeVars, WorkerPlaces, ConsumerPlaces
    <2>2. FlagIsTrue' /\ Waiting' /\ ThreadJoined' /\ FailureKept' /\ WindowDone'
      BY <1>8 DEF LoadEmpty, SourceTypeOK, parserVars, dequeVars, FlagIsTrue, Waiting, ThreadJoined, FailureKept, WindowDone
    <2>3. RowsConserved'
      BY <1>8 DEF LoadEmpty, parserVars, dequeVars, RowsConserved, RowsUpTo
    <2>4. NothingTaken' /\ TooLargeIsTrue'
      BY <1>8 DEF LoadEmpty, SourceTypeOK, parserVars, dequeVars, FlagIsTrue, ThreadJoined, FailureKept, WindowDone, NothingTaken, TooLargeIsTrue, RowsUpTo
    <2> QED BY <2>1, <2>2, <2>3, <2>4
  <1>9. CASE LoadWaitable
    <2>1. SourceTypeOK'
      BY <1>9 DEF LoadWaitable, SourceTypeOK, parserVars, dequeVars, WorkerPlaces, ConsumerPlaces
    <2>2. FlagIsTrue' /\ Waiting' /\ ThreadJoined' /\ FailureKept' /\ WindowDone'
      BY <1>9 DEF LoadWaitable, SourceTypeOK, parserVars, dequeVars, FlagIsTrue, Waiting, ThreadJoined, FailureKept, WindowDone
    <2>3. RowsConserved'
      BY <1>9 DEF LoadWaitable, parserVars, dequeVars, RowsConserved, RowsUpTo
    <2>4. NothingTaken' /\ TooLargeIsTrue'
      BY <1>9 DEF LoadWaitable, SourceTypeOK, parserVars, dequeVars, FlagIsTrue, ThreadJoined, FailureKept, WindowDone, NothingTaken, TooLargeIsTrue, RowsUpTo
    <2> QED BY <2>1, <2>2, <2>3, <2>4
  <1>10. CASE EnterWait
    <2>1. SourceTypeOK'
      BY <1>10 DEF EnterWait, SourceTypeOK, parserVars, dequeVars, WorkerPlaces, ConsumerPlaces
    <2>2. FlagIsTrue' /\ Waiting' /\ ThreadJoined' /\ FailureKept' /\ WindowDone'
      BY <1>10 DEF EnterWait, SourceTypeOK, parserVars, dequeVars, FlagIsTrue, Waiting, ThreadJoined, FailureKept, WindowDone
    <2>3. RowsConserved'
      BY <1>10 DEF EnterWait, parserVars, dequeVars, RowsConserved, RowsUpTo
    <2>4. NothingTaken' /\ TooLargeIsTrue'
      BY <1>10 DEF EnterWait, SourceTypeOK, parserVars, dequeVars, FlagIsTrue, ThreadJoined, FailureKept, WindowDone, NothingTaken, TooLargeIsTrue, RowsUpTo
    <2> QED BY <2>1, <2>2, <2>3, <2>4
  <1>11. CASE Wait
    <2>1. SourceTypeOK'
      BY <1>11 DEF Wait, SourceTypeOK, parserVars, dequeVars, WorkerPlaces, ConsumerPlaces
    <2>2. FlagIsTrue' /\ Waiting' /\ ThreadJoined' /\ FailureKept' /\ WindowDone'
      BY <1>11 DEF Wait, SourceTypeOK, parserVars, dequeVars, FlagIsTrue, Waiting, ThreadJoined, FailureKept, WindowDone
    <2>3. RowsConserved'
      BY <1>11 DEF Wait, parserVars, dequeVars, RowsConserved, RowsUpTo
    <2>4. NothingTaken' /\ TooLargeIsTrue'
      BY <1>11 DEF Wait, SourceTypeOK, parserVars, dequeVars, FlagIsTrue, ThreadJoined, FailureKept, WindowDone, NothingTaken, TooLargeIsTrue, RowsUpTo
    <2> QED BY <2>1, <2>2, <2>3, <2>4
  <1>12. CASE SpuriousWakeup
    <2>1. SourceTypeOK'
      BY <1>12, Zenon DEF SpuriousWakeup, SourceTypeOK, parserVars, dequeVars
    <2>2. FlagIsTrue' /\ Waiting' /\ ThreadJoined' /\ FailureKept' /\ WindowDone'
      BY <1>12 DEF SpuriousWakeup, SourceTypeOK, parserVars, dequeVars, FlagIsTrue, Waiting, ThreadJoined, FailureKept, WindowDone
    <2>3. RowsConserved'
      BY <1>12 DEF SpuriousWakeup, parserVars, dequeVars, RowsConserved, RowsUpTo
    <2>4. NothingTaken' /\ TooLargeIsTrue'
      BY <1>12 DEF SpuriousWakeup, SourceTypeOK, parserVars, dequeVars, FlagIsTrue, ThreadJoined, FailureKept, WindowDone, NothingTaken, TooLargeIsTrue, RowsUpTo
    <2> QED BY <2>1, <2>2, <2>3, <2>4
  <1>13. CASE Join
    <2>1. SourceTypeOK'
      BY <1>13 DEF Join, SourceTypeOK, parserVars, dequeVars, WorkerPlaces, ConsumerPlaces
    <2>2. FlagIsTrue' /\ Waiting' /\ ThreadJoined' /\ FailureKept' /\ WindowDone'
      BY <1>13 DEF Join, SourceTypeOK, parserVars, dequeVars, FlagIsTrue, Waiting, ThreadJoined, FailureKept, WindowDone
    <2>3. RowsConserved'
      BY <1>13 DEF Join, parserVars, dequeVars, RowsConserved, RowsUpTo
    <2>4. NothingTaken' /\ TooLargeIsTrue'
      BY <1>13 DEF Join, SourceTypeOK, parserVars, dequeVars, FlagIsTrue, ThreadJoined, FailureKept, WindowDone, NothingTaken, TooLargeIsTrue, RowsUpTo
    <2> QED BY <2>1, <2>2, <2>3, <2>4
  <1>14. CASE Rethrow
    <2>1. SourceTypeOK'
      BY <1>14, ZenonT(30) DEF Rethrow, SourceTypeOK, parserVars, dequeVars, WorkerPlaces, ConsumerPlaces
    <2>2. FlagIsTrue' /\ Waiting' /\ ThreadJoined' /\ FailureKept' /\ WindowDone'
      BY <1>14 DEF Rethrow, SourceTypeOK, parserVars, dequeVars, FlagIsTrue, Waiting, ThreadJoined, FailureKept, WindowDone
    <2>3. RowsConserved'
      BY <1>14 DEF Rethrow, parserVars, dequeVars, RowsConserved, RowsUpTo
    <2>4. NothingTaken' /\ TooLargeIsTrue'
      BY <1>14 DEF Rethrow, SourceTypeOK, parserVars, dequeVars, FlagIsTrue, ThreadJoined, FailureKept, WindowDone, NothingTaken, TooLargeIsTrue, RowsUpTo
    <2> QED BY <2>1, <2>2, <2>3, <2>4
  <1>15. CASE AnswerFalse
    <2>1. SourceTypeOK'
      BY <1>15 DEF AnswerFalse, SourceTypeOK, parserVars, dequeVars, WorkerPlaces, ConsumerPlaces
    <2>2. FlagIsTrue' /\ Waiting' /\ ThreadJoined' /\ FailureKept' /\ WindowDone'
      BY <1>15 DEF AnswerFalse, SourceTypeOK, parserVars, dequeVars, FlagIsTrue, Waiting, ThreadJoined, FailureKept, WindowDone
    <2>3. RowsConserved'
      BY <1>15 DEF AnswerFalse, parserVars, dequeVars, RowsConserved, RowsUpTo
    <2>4. NothingTaken' /\ TooLargeIsTrue'
      BY <1>15 DEF AnswerFalse, SourceTypeOK, parserVars, dequeVars, FlagIsTrue, ThreadJoined, FailureKept, WindowDone, NothingTaken, TooLargeIsTrue, RowsUpTo
    <2> QED BY <2>1, <2>2, <2>3, <2>4
  <1>16. CASE AnswerTooLarge
    <2>1. SourceTypeOK'
      BY <1>16 DEF AnswerTooLarge, Barren, SourceTypeOK, parserVars, dequeVars, WorkerPlaces, ConsumerPlaces
    <2>2. FlagIsTrue' /\ Waiting' /\ ThreadJoined' /\ FailureKept' /\ WindowDone'
      BY <1>16 DEF AnswerTooLarge, Barren, SourceTypeOK, parserVars, dequeVars, FlagIsTrue, Waiting, ThreadJoined, FailureKept, WindowDone
    <2>3. RowsConserved'
      BY <1>16 DEF AnswerTooLarge, Barren, parserVars, dequeVars, RowsConserved, RowsUpTo
    <2>4. NothingTaken' /\ TooLargeIsTrue'
      <3>1. requested /\ records = <<>> /\ wpc = "none" /\ ~bad /\ left = 0
        BY <1>16 DEF AnswerTooLarge, Barren, FlagIsTrue, ThreadJoined, FailureKept, WindowDone
      <3>2. parsed > 0 /\ 0 = feed[parsed] - RowsUpTo(parsed - 1)
        BY <3>1 DEF NothingTaken
      <3>3. feed[parsed] = RowsUpTo(parsed - 1)
        BY <3>2, WindowRows
      <3> QED BY <1>16, <3>1, <3>2, <3>3 DEF AnswerTooLarge, parserVars, dequeVars, NothingTaken, TooLargeIsTrue, RowsUpTo
    <2> QED BY <2>1, <2>2, <2>3, <2>4
  <1>17. CASE StartThread
    <2>1. SourceTypeOK'
      BY <1>17 DEF StartThread, Barren, SourceTypeOK, parserVars, dequeVars, WorkerPlaces, ConsumerPlaces
    <2>2. FlagIsTrue' /\ Waiting' /\ ThreadJoined' /\ FailureKept' /\ WindowDone'
      BY <1>17 DEF StartThread, Barren, SourceTypeOK, parserVars, dequeVars, FlagIsTrue, Waiting, ThreadJoined, FailureKept, WindowDone
    <2>3. RowsConserved'
      BY <1>17 DEF StartThread, Barren, parserVars, dequeVars, RowsConserved, RowsUpTo
    <2>4. NothingTaken' /\ TooLargeIsTrue'
      BY <1>17 DEF StartThread, Barren, SourceTypeOK, parserVars, dequeVars, FlagIsTrue, ThreadJoined, FailureKept, WindowDone, NothingTaken, TooLargeIsTrue, RowsUpTo
    <2> QED BY <2>1, <2>2, <2>3, <2>4
  <1>18. CASE Started
    <2>1. SourceTypeOK'
      BY <1>18, ZenonT(30) DEF Started, SourceTypeOK, parserVars, dequeVars, WorkerPlaces, ConsumerPlaces
    <2>2. FlagIsTrue' /\ Waiting' /\ ThreadJoined' /\ FailureKept' /\ WindowDone'
      BY <1>18 DEF Started, SourceTypeOK, parserVars, dequeVars, FlagIsTrue, Waiting, ThreadJoined, FailureKept, WindowDone
    <2>3. RowsConserved'
      BY <1>18 DEF Started, parserVars, dequeVars, RowsConserved, RowsUpTo
    <2>4. NothingTaken' /\ TooLargeIsTrue'
      BY <1>18 DEF Started, SourceTypeOK, parserVars, dequeVars, FlagIsTrue, ThreadJoined, FailureKept, WindowDone, NothingTaken, TooLargeIsTrue, RowsUpTo
    <2> QED BY <2>1, <2>2, <2>3, <2>4
  <1>19. CASE Resume
    <2>1. SourceTypeOK'
      BY <1>19 DEF Resume, SourceTypeOK, parserVars, dequeVars, WorkerPlaces, ConsumerPlaces
    <2>2. FlagIsTrue' /\ Waiting' /\ ThreadJoined' /\ FailureKept' /\ WindowDone'
      BY <1>19 DEF Resume, SourceTypeOK, parserVars, dequeVars, FlagIsTrue, Waiting, ThreadJoined, FailureKept, WindowDone
    <2>3. RowsConserved'
      BY <1>19 DEF Resume, parserVars, dequeVars, RowsConserved, RowsUpTo
    <2>4. NothingTaken' /\ TooLargeIsTrue'
      BY <1>19 DEF Resume, SourceTypeOK, parserVars, dequeVars, FlagIsTrue, ThreadJoined, FailureKept, WindowDone, NothingTaken, TooLargeIsTrue, RowsUpTo
    <2> QED BY <2>1, <2>2, <2>3, <2>4
  <1>20. CASE Destroy
    <2>1. SourceTypeOK'
      BY <1>20 DEF Destroy, SourceTypeOK, parserVars, dequeVars, WorkerPlaces, ConsumerPlaces
    <2>2. FlagIsTrue' /\ Waiting' /\ ThreadJoined' /\ FailureKept' /\ WindowDone'
      BY <1>20 DEF Destroy, SourceTypeOK, parserVars, dequeVars, FlagIsTrue, Waiting, ThreadJoined, FailureKept, WindowDone
    <2>3. RowsConserved'
      BY <1>20 DEF Destroy, parserVars, dequeVars, RowsConserved, RowsUpTo
    <2>4. NothingTaken' /\ TooLargeIsTrue'
      BY <1>20 DEF Destroy, SourceTypeOK, parserVars, dequeVars, FlagIsTrue, ThreadJoined, FailureKept, WindowDone, NothingTaken, TooLargeIsTrue, RowsUpTo
    <2> QED BY <2>1, <2>2, <2>3, <2>4
  <1>21. CASE JoinLast
    <2>1. SourceTypeOK'
      BY <1>21 DEF JoinLast, SourceTypeOK, parserVars, dequeVars, WorkerPlaces, ConsumerPlaces
    <2>2. FlagIsTrue' /\ Waiting' /\ ThreadJoined' /\ FailureKept' /\ WindowDone'
      BY <1>21 DEF JoinLast, SourceTypeOK, parserVars, dequeVars, FlagIsTrue, Waiting, ThreadJoined, FailureKept, WindowDone
    <2>3. RowsConserved'
      BY <1>21 DEF JoinLast, parserVars, dequeVars, RowsConserved, RowsUpTo
    <2>4. NothingTaken' /\ TooLargeIsTrue'
      BY <1>21 DEF JoinLast, SourceTypeOK, parserVars, dequeVars, FlagIsTrue, ThreadJoined, FailureKept, WindowDone, NothingTaken, TooLargeIsTrue, RowsUpTo
    <2> QED BY <2>1, <2>2, <2>3, <2>4
  <1>22. CASE EndWindow
    <2>1. SourceTypeOK'
      BY <1>22 DEF EndWindow, SourceTypeOK, parserVars, dequeVars, WorkerPlaces, ConsumerPlaces
    <2>2. FlagIsTrue' /\ Waiting' /\ ThreadJoined' /\ FailureKept' /\ WindowDone'
      BY <1>22 DEF EndWindow, SourceTypeOK, parserVars, dequeVars, FlagIsTrue, Waiting, ThreadJoined, FailureKept, WindowDone
    <2>3. RowsConserved'
      BY <1>22 DEF EndWindow, parserVars, dequeVars, RowsConserved, RowsUpTo
    <2>4. NothingTaken' /\ TooLargeIsTrue'
      BY <1>22 DEF EndWindow, SourceTypeOK, parserVars, dequeVars, FlagIsTrue, ThreadJoined, FailureKept, WindowDone, NothingTaken, TooLargeIsTrue, RowsUpTo
    <2> QED BY <2>1, <2>2, <2>3, <2>4
  <1>23. CASE ReadWindow
    <2> DEFINE new == RowsUpTo(parsed + 1) - RowsUpTo(parsed)
    <2>1. /\ wpc = "read" /\ ~bad /\ parsed < Len(feed) /\ left = 0
          /\ feed' = feed /\ parsed' = parsed + 1 /\ wpc' = "push" /\ pushed' = pushed
          /\ records' = records /\ given' = given
      BY <1>23 DEF ReadWindow, dequeVars, WindowDone
    <2>2. left' = new
      BY <1>23 DEF ReadWindow, RowsUpTo
    <2>3. new \in Nat /\ RowsUpTo(parsed) \in Nat /\ RowsUpTo(parsed + 1) \in Nat
      BY <2>1, WindowRows
    <2>4. SourceTypeOK'
      <3>1. parsed' \in 0..Len(feed')
        BY <2>1, FeedsAssumption, LenProperties DEF SourceTypeOK
      <3> QED BY <1>23, <2>2, <2>3, <3>1 DEF ReadWindow, SourceTypeOK, dequeVars, WorkerPlaces
    <2>5. FlagIsTrue' /\ Waiting' /\ ThreadJoined' /\ FailureKept' /\ WindowDone'
      BY <1>23 DEF ReadWindow, SourceTypeOK, dequeVars, FlagIsTrue, Waiting, ThreadJoined, FailureKept, WindowDone
    <2>6. RowsConserved'
      <3>1. pushed = RowsUpTo(parsed)
        BY <2>1, <2>3 DEF RowsConserved, SourceTypeOK
      <3>2. pushed' + left' = RowsUpTo(parsed + 1)
        BY <2>1, <2>2, <2>3, <3>1
      <3> QED BY <2>1, <3>2 DEF RowsConserved, RowsUpTo
    <2>7. NothingTaken'
      <3>1. parsed' > 0 /\ parsed' - 1 = parsed /\ feed'[parsed'] = RowsUpTo(parsed + 1)
        BY <2>1 DEF SourceTypeOK, RowsUpTo
      <3> QED BY <2>1, <2>2, <3>1 DEF NothingTaken, RowsUpTo
    <2>8. TooLargeIsTrue'
      BY <1>23, <2>1 DEF ReadWindow, TooLargeIsTrue, ThreadJoined
    <2> QED BY <2>4, <2>5, <2>6, <2>7, <2>8
  <1>24. CASE PushRows
    <2>1. PICK n \in 1..left : left' = left - n /\ pushed' = pushed + n /\ records' = Enqueued(n)
      BY <1>24 DEF PushRows
    <2>2. /\ wpc = "push" /\ feed' = feed /\ parsed' = parsed /\ given' = given
          /\ pushed \in Nat /\ left \in Nat /\ n \in Nat /\ n > 0
      BY <1>24, <2>1 DEF PushRows, SourceTypeOK
    <2> DEFINE more == Following(pushed, n)
    <2>m. more \in Seq(Nat) /\ more # <<>>
      BY <2>2 DEF Following
    <2>3. records' \in Seq(Nat) /\ records' # <<>> /\ (given \o records) \o more = given \o records'
      <3>1. given \in Seq(Nat) /\ records \in Seq(Nat)
        BY DEF SourceTypeOK
      <3>2. records' = records \o more
        BY <2>1 DEF Enqueued, Following
      <3> HIDE DEF more
      <3>3. /\ records \o more \in Seq(Nat) /\ records \o more # <<>>
            /\ (given \o records) \o more = given \o (records \o more)
        BY <2>m, <3>1, PushedBehind, SMTT(60)
      <3> QED BY <3>2, <3>3
    <2>4. SourceTypeOK'
      <3>1. asleep' \in BOOLEAN
        BY <1>24, Zenon DEF PushRows
      <3>2. pushed' \in Nat /\ left' \in Nat
        BY <2>1, <2>2
      <3> QED BY <1>24, <2>2, <2>3, <3>1, <3>2 DEF PushRows, SourceTypeOK
    <2>5. FlagIsTrue' /\ Waiting' /\ ThreadJoined' /\ FailureKept' /\ WindowDone'
      BY <1>24, <2>3 DEF PushRows, SourceTypeOK, FlagIsTrue, Waiting, ThreadJoined, FailureKept, WindowDone
    <2>6. RowsConserved'
      <3>1. given' \o records' = Numbers(pushed + n)
        BY <2>2, <2>3, NumbersExtend DEF RowsConserved, Numbers
      <3>2. pushed' + left' = RowsUpTo(parsed)
        BY <2>1, <2>2 DEF RowsConserved
      <3> QED BY <2>1, <2>2, <3>1, <3>2 DEF RowsConserved, Numbers, RowsUpTo
    <2>7. NothingTaken' /\ TooLargeIsTrue'
      BY <1>24, <2>2, <2>3 DEF PushRows, NothingTaken, TooLargeIsTrue, ThreadJoined
    <2> QED BY <2>4, <2>5, <2>6, <2>7
  <1>25. CASE Pop
    <2>1. /\ records # <<>> /\ records' = Tail(records) /\ given' = Append(given, Head(records))
          /\ UNCHANGED parserVars /\ requested' = FALSE /\ cpc' = "row"
          /\ isEmpty' = (Len(records) = 1)
      BY <1>25 DEF Pop, PopFront
    <2>2. /\ given' \in Seq(Nat) /\ records' \in Seq(Nat)
          /\ given' \o records' = given \o records
          /\ Len(records) = 1 <=> records' = <<>>
      BY <2>1, TakenInOrder DEF SourceTypeOK
    <2>3. SourceTypeOK'
      BY <1>25, <2>1, <2>2 DEF Pop, SourceTypeOK, parserVars, ConsumerPlaces
    <2>4. FlagIsTrue' /\ Waiting' /\ ThreadJoined' /\ FailureKept' /\ WindowDone'
      <3>1. FlagIsTrue'
        BY <2>1, <2>2, Zenon DEF FlagIsTrue
      <3> QED BY <1>25, <3>1 DEF Pop, SourceTypeOK, parserVars, Waiting, ThreadJoined, FailureKept, WindowDone
    <2>5. RowsConserved'
      BY <2>1, <2>2 DEF parserVars, RowsConserved, RowsUpTo
    <2>6. NothingTaken' /\ TooLargeIsTrue'
      BY <2>1 DEF NothingTaken, TooLargeIsTrue
    <2> QED BY <2>3, <2>4, <2>5, <2>6
  <1>26. CASE UNCHANGED svars
    BY <1>26 DEF svars, parserVars, dequeVars, SourceTypeOK, FlagIsTrue, Waiting, ThreadJoined,
                 FailureKept, WindowDone, RowsConserved, NothingTaken, TooLargeIsTrue, RowsUpTo
  <1> QED BY <1>1, <1>2, <1>3, <1>4, <1>5, <1>6, <1>7, <1>8, <1>9, <1>10, <1>11, <1>12, <1>13, <1>14, <1>15, <1>16, <1>17, <1>18, <1>19, <1>20, <1>21, <1>22, <1>23, <1>24, <1>25, <1>26 DEF SourceNext, Source, Worker, InCall

LEMMA SourceInvariance == SourceSpec => []SourceInv
  BY SourceInitInv, SourceNextInv, PTL DEF SourceSpec

-----------------------------------------------------------------------------
(* The theorems.                                                           *)

\* The variables stay within their types.
THEOREM SourceTypeCorrect == SourceSpec => []SourceTypeOK
  BY SourceInvariance, PTL DEF SourceInv

\* No row is lost, repeated or moved between the thread and the consumer.
THEOREM NoRowLost == SourceSpec => []RowsConserved
  BY SourceInvariance, PTL DEF SourceInv

\* The consumer decides on the parser's state only when there is no thread at work.
THEOREM ParserUsedByOne == SourceSpec => []ParserNotShared
  <1>1. SourceInv => ParserNotShared
    BY DEF SourceInv, ThreadJoined, ParserNotShared
  <1> QED BY <1>1, SourceInvariance, PTL

\* A consumer that sleeps has a thread that will wake it.
THEOREM SleeperIsWoken == SourceSpec => []SleeperHasWaker
  <1>1. SourceInv => SleeperHasWaker
    BY DEF SourceInv, Waiting, SleeperHasWaker
  <1> QED BY <1>1, SourceInvariance, PTL

\* read_row throws for a row that is too large only after a window without a row.
THEOREM VerdictIsTrue == SourceSpec => []TooLargeIsTrue
  BY SourceInvariance, PTL DEF SourceInv

-----------------------------------------------------------------------------
(* Natural numbers.                                                        *)

\* Every nonempty set of natural numbers has a least element.
LEMMA LeastNat ==
    ASSUME NEW T, T \subseteq Nat, T # {}
    PROVE  \E x \in T : \A y \in T : x <= y
  <1>1. PICK x \in T : \A y \in T : ~(<<y, x>> \in OpToRel(<, Nat))
    BY NatLessThanWellFounded, WFMin, Zenon
  <1>2. ASSUME NEW y \in T PROVE x <= y
    <2>1. ~(y < x)
      BY <1>1 DEF OpToRel
    <2> QED BY <2>1
  <1> QED BY <1>2

\* Quotients of natural numbers.
LEMMA Quotient ==
    ASSUME NEW a \in Nat, NEW n \in Nat \ {0}
    PROVE  a \div n \in Nat /\ n * (a \div n) <= a /\ a < n * (a \div n) + n
  OBVIOUS

LEMMA QuotientGrows ==
    ASSUME NEW a \in Nat, NEW b \in Nat, a <= b, NEW n \in Nat \ {0}
    PROVE  a \div n <= b \div n
  <1> DEFINE q == a \div n
             r == b \div n
  <1>1. q \in Nat /\ r \in Nat /\ n * q <= a /\ b < n * r + n
    BY Quotient
  <1> HIDE DEF q, r
  <1>2. ASSUME q > r PROVE FALSE
    <2>1. q >= r + 1
      BY <1>1, <1>2
    <2>2. n * q >= n * (r + 1)
      BY <1>1, <2>1
    <2>3. n * (r + 1) = n * r + n
      BY <1>1
    <2>4. n * q \in Nat /\ n * r \in Nat
      BY <1>1
    <2> QED BY <1>1, <2>2, <2>3, <2>4
  <1> QED BY <1>1, <1>2 DEF q, r

LEMMA QuotientOfMultiple ==
    ASSUME NEW c \in Nat, NEW n \in Nat \ {0}
    PROVE  (n * c) \div n = c
  OBVIOUS

-----------------------------------------------------------------------------
(* The tasks of a flush.                                                   *)

\* Share(f): the columns of the first f tasks.
Share(f) == (f * NCols) \div NFuncs

LEMMA NFuncsType == NFuncs \in Nat \ {0} /\ NCols \in Nat \ {0}
  BY CsvAssumption DEF NFuncs

LEMMA ShareGrows ==
    ASSUME NEW f \in Nat, NEW g \in Nat, f <= g
    PROVE  Share(f) \in Nat /\ Share(g) \in Nat /\ Share(f) <= Share(g)
  <1>1. f * NCols \in Nat /\ g * NCols \in Nat
    BY NFuncsType
  <1>2. f * NCols <= g * NCols
    BY NFuncsType
  <1> QED BY <1>1, <1>2, NFuncsType, Quotient, QuotientGrows DEF Share

LEMMA ShareEnds == Share(0) = 0 /\ Share(NFuncs) = NCols
  <1>1. 0 * NCols = NFuncs * 0
    BY NFuncsType
  <1>2. (NFuncs * 0) \div NFuncs = 0
    BY NFuncsType, QuotientOfMultiple
  <1>3. (NFuncs * NCols) \div NFuncs = NCols
    BY NFuncsType, QuotientOfMultiple
  <1> QED BY <1>1, <1>2, <1>3 DEF Share

LEMMA TaskRange ==
    ASSUME NEW f \in 1..NFuncs
    PROVE  /\ FirstCol(f) = Share(f - 1) + 1 /\ LastCol(f) = Share(f)
           /\ Share(f - 1) \in Nat /\ Share(f) \in Nat
           /\ FirstCol(f) \in 1..Finished /\ LastCol(f) \in 0..NCols
           /\ FirstCol(f) <= LastCol(f) + 1
  <1>1. f \in Nat /\ f - 1 \in Nat /\ f <= NFuncs /\ NFuncs \in Nat
    BY NFuncsType
  <1>2. Share(f - 1) \in Nat /\ Share(f) \in Nat /\ Share(f - 1) <= Share(f)
    BY <1>1, ShareGrows
  <1>3. Share(f) <= NCols
    BY <1>1, ShareGrows, ShareEnds
  <1>4. FirstCol(f) = Share(f - 1) + 1 /\ LastCol(f) = Share(f)
    BY DEF FirstCol, LastCol, Share
  <1> QED BY <1>2, <1>3, <1>4, NFuncsType DEF Finished

\* Every column has a task.
LEMMA ColumnHasTask ==
    ASSUME NEW c \in 1..NCols
    PROVE  \E f \in 1..NFuncs : FirstCol(f) <= c /\ c <= LastCol(f)
  <1> DEFINE T == {f \in Nat : c <= Share(f)}
  <1>1. NFuncs \in T
    BY NFuncsType, ShareEnds
  <1>2. PICK f \in T : \A g \in T : f <= g
    <2>1. T \subseteq Nat /\ T # {}
      BY <1>1
    <2> HIDE DEF T
    <2> QED BY <2>1, LeastNat
  <1>3. f \in Nat /\ c <= Share(f) /\ f <= NFuncs
    BY <1>1, <1>2
  <1>4. f # 0
    BY <1>3, ShareEnds
  <1>5. f - 1 \in Nat /\ f - 1 \notin T
    BY <1>2, <1>3, <1>4
  <1>6. Share(f - 1) < c
    BY <1>5, ShareGrows
  <1>7. f \in 1..NFuncs
    BY <1>3, <1>4, NFuncsType
  <1> QED BY <1>3, <1>6, <1>7, TaskRange

\* And only one.
LEMMA ColumnHasOneTask ==
    ASSUME NEW f \in 1..NFuncs, NEW g \in 1..NFuncs, NEW c \in 1..NCols,
           FirstCol(f) <= c, c <= LastCol(f), FirstCol(g) <= c, c <= LastCol(g)
    PROVE  f = g
  <1>1. ASSUME NEW h \in 1..NFuncs, NEW i \in 1..NFuncs, h < i
        PROVE  LastCol(h) < FirstCol(i)
    <2>1. h \in Nat /\ i - 1 \in Nat /\ h <= i - 1
      BY <1>1, NFuncsType
    <2> QED BY <2>1, ShareGrows, TaskRange
  <1>2. ~(f < g)
    BY <1>1, TaskRange, NFuncsType
  <1>3. ~(g < f)
    BY <1>1, TaskRange, NFuncsType
  <1> QED BY <1>2, <1>3, NFuncsType

-----------------------------------------------------------------------------
(* A column and the rows it covers.                                        *)

\* The n rows after row p.
Span(p, n) == [k \in 1..n |-> p + k]

LEMMA SpanType ==
    ASSUME NEW p \in Nat, NEW n \in Nat
    PROVE  /\ Span(p, n) \in Seq(Nat) /\ Len(Span(p, n)) = n
           /\ \A k \in 1..n : Span(p, n)[k] = p + k
  BY DEF Span

\* col has what the rows after row lo, up to row hi, gave it: only such rows, in
\* their order; all of them, unless the text of one does not convert.
Holds(text, col, lo, hi) ==
    /\ lo + Len(col) <= hi
    /\ \A k \in 1..Len(col) : lo < col[k] /\ col[k] <= hi
    /\ \A i, j \in 1..Len(col) : i < j => col[i] < col[j]
    /\ lo + Len(col) = hi => \A k \in 1..Len(col) : col[k] = lo + k
    /\ lo + Len(col) < hi => \E r \in (lo + 1)..hi : text[r].bad # {}

\* Some of the rows after mid are appended: all of them up to hi, or one is bad.
LEMMA ColumnGrows ==
    ASSUME NEW col \in Seq(Nat), NEW lo \in Nat, NEW mid \in Nat, NEW hi \in Nat, NEW m \in Nat,
           lo <= mid, Holds(input, col, lo, mid), mid + m <= hi,
           mid + m < hi => \E r \in (mid + 1)..hi : input[r].bad # {}
    PROVE  col \o Span(mid, m) \in Seq(Nat) /\ Holds(input, col \o Span(mid, m), lo, hi)
  <1> DEFINE add  == Span(mid, m)
             both == col \o add
             L    == Len(col)
  <1>1. add \in Seq(Nat) /\ Len(add) = m /\ \A k \in 1..m : add[k] = mid + k
    BY SpanType
  <1>2. L \in Nat /\ \A k \in 1..L : col[k] \in Nat
    OBVIOUS
  <1>3. both \in Seq(Nat) /\ Len(both) = L + m
    <2> HIDE DEF add
    <2> QED BY <1>1, <1>2, ConcatProperties
  <1>4. \A k \in 1..(L + m) : both[k] = IF k <= L THEN col[k] ELSE add[k - L]
    <2> HIDE DEF add
    <2> QED BY <1>1, ConcatProperties
  <1>h. /\ lo + L <= mid
        /\ \A k \in 1..L : lo < col[k] /\ col[k] <= mid
        /\ \A i, j \in 1..L : i < j => col[i] < col[j]
        /\ lo + L = mid => \A k \in 1..L : col[k] = lo + k
        /\ lo + L < mid => \E r \in (lo + 1)..mid : input[r].bad # {}
    BY DEF Holds
  <1> HIDE DEF L, both, add
  <1>5. ASSUME NEW k \in 1..L PROVE both[k] \in Nat /\ both[k] = col[k] /\ lo < both[k] /\ both[k] <= mid
    <2>1. k \in 1..(L + m) /\ k <= L
      BY <1>2
    <2>2. both[k] = col[k]
      BY <1>4, <2>1
    <2> QED BY <1>2, <1>h, <2>2
  <1>6. ASSUME NEW k \in 1..(L + m), k > L PROVE both[k] = mid + (k - L)
    <2>1. k - L \in 1..m /\ ~(k <= L)
      BY <1>2, <1>6
    <2>2. both[k] = add[k - L]
      BY <1>4, <2>1
    <2> QED BY <1>1, <2>1, <2>2
  <1>7. lo + (L + m) <= hi
    BY <1>2, <1>h
  <1>8. ASSUME NEW k \in 1..(L + m) PROVE lo < both[k] /\ both[k] <= hi
    <2>1. CASE k <= L
      BY <1>2, <1>5, <2>1
    <2>2. CASE k > L
      BY <1>2, <1>6, <2>2
    <2> QED BY <1>2, <2>1, <2>2
  <1>9. ASSUME NEW i \in 1..(L + m), NEW j \in 1..(L + m), i < j PROVE both[i] < both[j]
    <2>1. CASE j <= L
      <3>1. i \in 1..L /\ j \in 1..L
        BY <1>2, <1>9, <2>1
      <3> QED BY <1>5, <1>9, <1>h, <3>1
    <2>2. CASE i <= L /\ j > L
      <3>1. i \in 1..L
        BY <1>2, <2>2
      <3>2. both[i] \in Nat /\ both[i] <= mid
        BY <1>5, <3>1
      <3>3. both[j] = mid + (j - L)
        BY <1>6, <2>2
      <3> QED BY <1>2, <2>2, <3>2, <3>3
    <2>3. CASE i > L
      <3>1. both[i] = mid + (i - L) /\ both[j] = mid + (j - L)
        BY <1>2, <1>6, <1>9, <2>3
      <3> QED BY <1>2, <1>9, <3>1
    <2> QED BY <1>2, <2>1, <2>2, <2>3
  <1>10. ASSUME lo + (L + m) = hi, NEW k \in 1..(L + m) PROVE both[k] = lo + k
    <2>1. lo + L = mid
      <3>1. L \in Nat /\ lo + L <= mid
        BY <1>2, <1>h
      <3> QED BY <1>10, <3>1
    <2>2. CASE k <= L
      <3>1. k \in 1..L
        BY <1>2, <2>2
      <3> QED BY <1>5, <1>h, <2>1, <3>1
    <2>3. CASE k > L
      <3>1. both[k] = mid + (k - L)
        BY <1>6, <2>3
      <3> QED BY <1>2, <2>1, <3>1
    <2> QED BY <1>2, <2>2, <2>3
  <1>11. ASSUME lo + (L + m) < hi PROVE \E r \in (lo + 1)..hi : input[r].bad # {}
    <2>1. CASE lo + L < mid
      <3>1. PICK r \in (lo + 1)..mid : input[r].bad # {}
        BY <1>h, <2>1
      <3>2. r \in (lo + 1)..hi
        BY <3>1
      <3> QED BY <3>1, <3>2
    <2>2. CASE mid + m < hi
      <3>1. PICK r \in (mid + 1)..hi : input[r].bad # {}
        BY <2>2
      <3>2. r \in (lo + 1)..hi
        BY <3>1
      <3> QED BY <3>1, <3>2
    <2> QED BY <1>2, <1>11, <1>h, <2>1, <2>2
  <1>12. Holds(input, both, lo, hi)
    BY <1>3, <1>7, <1>8, <1>9, <1>10, <1>11 DEF Holds
  <1> QED BY <1>3, <1>12 DEF both, add

\* Nothing is appended, since a row is bad.
LEMMA ColumnStays ==
    ASSUME NEW col \in Seq(Nat), NEW lo \in Nat, NEW mid \in Nat, NEW hi \in Nat,
           lo <= mid, mid <= hi, Holds(input, col, lo, mid),
           \E r \in (mid + 1)..hi : input[r].bad # {}
    PROVE  Holds(input, col, lo, hi)
  <1>1. PICK r \in (mid + 1)..hi : input[r].bad # {}
    OBVIOUS
  <1>2. r \in (lo + 1)..hi /\ mid < hi
    BY <1>1
  <1> DEFINE L == Len(col)
  <1>3. L \in Nat /\ \A k \in 1..L : col[k] \in Nat
    OBVIOUS
  <1>4. /\ lo + L <= mid
        /\ \A k \in 1..L : lo < col[k] /\ col[k] <= mid
        /\ \A i, j \in 1..L : i < j => col[i] < col[j]
    BY DEF Holds
  <1> HIDE DEF L
  <1>5. lo + L <= hi /\ ~(lo + L = hi)
    BY <1>2, <1>3, <1>4
  <1>6. ASSUME NEW k \in 1..L PROVE lo < col[k] /\ col[k] <= hi
    <2>1. col[k] \in Nat /\ lo < col[k] /\ col[k] <= mid
      BY <1>3, <1>4
    <2> QED BY <1>2, <2>1
  <1>7. \E n \in (lo + 1)..hi : input[n].bad # {}
    BY <1>1, <1>2
  <1> QED BY <1>4, <1>5, <1>6, <1>7 DEF Holds, L

\* What a task converts of the buffered rows.
LEMMA ConvertedRows ==
    ASSUME NEW c, NEW p \in Nat, rows \in Seq(Nat), rows = Span(p, Len(rows))
    PROVE  \E m \in 0..Len(rows) :
             /\ Converted(c) = Span(p, m)
             /\ Len(Converted(c)) = m
             /\ m < Len(rows) => \E r \in (p + 1)..(p + Len(rows)) : input[r].bad # {}
  <1> DEFINE n == Len(rows)
             firstBad == {k \in 1..n : IsBad(rows[k], c)}
  <1>1. n \in Nat /\ \A k \in 1..n : rows[k] = p + k
    <2>1. n \in Nat
      BY LenProperties
    <2>2. \A k \in 1..n : Span(p, n)[k] = p + k
      BY <2>1, SpanType
    <2> QED BY <2>1, <2>2, Zenon
  <1>2. CASE firstBad = {}
    <2>1. Converted(c) = rows
      BY <1>2 DEF Converted
    <2>2. n \in 0..n
      BY <1>1
    <2>3. ~(n < n)
      BY <1>1
    <2> QED BY <2>1, <2>2, <2>3, Zenon
  <1>3. CASE firstBad # {}
    <2> DEFINE k0 == CHOOSE k \in firstBad : \A j \in firstBad : k <= j
    <2>1. firstBad \subseteq Nat
      OBVIOUS
    <2>2. \E k \in firstBad : \A j \in firstBad : k <= j
      <3> HIDE DEF firstBad
      <3> QED BY <1>3, <2>1, LeastNat
    <2>3. k0 \in firstBad
      <3> HIDE DEF firstBad
      <3> QED BY <2>2
    <2>4. k0 \in 1..n /\ IsBad(rows[k0], c)
      BY <2>3
    <2>5. Converted(c) = SubSeq(rows, 1, k0 - 1)
      BY <1>3 DEF Converted
    <2> HIDE DEF k0, firstBad
    <2>6. /\ k0 - 1 \in 0..n /\ k0 - 1 < n
      BY <1>1, <2>4
    <2>7. SubSeq(rows, 1, k0 - 1) = [k \in 1..(k0 - 1) |-> rows[k]]
      BY <1>1, <2>6
    <2>8. \A k \in 1..(k0 - 1) : rows[k] = p + k
      BY <1>1, <2>6
    <2>9. Converted(c) = Span(p, k0 - 1)
      BY <2>5, <2>7, <2>8 DEF Span
    <2>10. Len(Converted(c)) = k0 - 1
      BY <2>6, <2>9, SpanType
    <2>11. rows[k0] = p + k0 /\ p + k0 \in (p + 1)..(p + n)
      BY <1>1, <2>4
    <2>12. input[p + k0].bad # {}
      BY <2>4, <2>11 DEF IsBad
    <2> QED BY <2>6, <2>9, <2>10, <2>11, <2>12
  <1> QED BY <1>2, <1>3

-----------------------------------------------------------------------------
(* The invariant.                                                          *)

\* The last row of the batches before this one, and of those before batch b.
Start  == IF batches = <<>> THEN 0 ELSE batches[Len(batches)].upto
Beg(b) == IF b = 1 THEN 0 ELSE batches[b - 1].upto

\* The buffered rows are the last ones taken, and all rows since the last batch
\* have been read by this call.
Buffered ==
    pc \in {"read", "flush"} =>
        /\ cursor = Start + rowsRead
        /\ Len(rows) <= rowsRead
        /\ rows = Span(cursor - Len(rows), Len(rows))

\* Between calls nothing is buffered, and every row is in a batch.
AtRest == pc \in {"idle", "end"} => rows = <<>> /\ Start = cursor

TasksStarted == pc = "flush" => \A f \in 1..NFuncs : at[f] >= FirstCol(f)

\* The task of column c is past it.
Behind(c) == \E f \in 1..NFuncs : FirstCol(f) <= c /\ c <= LastCol(f) /\ at[f] > c

\* The last row that column c had the chance to take.
Covered(c) == IF pc = "flush" /\ Behind(c) THEN cursor ELSE cursor - Len(rows)

ColumnsHold ==
    pc \in {"read", "flush"} => \A c \in 1..NCols : Holds(input, columns[c], Start, Covered(c))

ColumnsRise ==
    \A c \in 1..NCols : \A i, j \in 1..Len(columns[c]) : i < j => columns[c][i] < columns[c][j]

BatchHolds(b) ==
    /\ Beg(b) < batches[b].upto
    /\ \A c \in 1..NCols :
         /\ Holds(input, batches[b].columns[c], Beg(b), batches[b].upto)
         /\ Len(batches[b].columns[c]) = Len(batches[b].columns[1])

BatchesHold == \A b \in 1..Len(batches) : BatchHolds(b)

ReaderInv ==
    /\ TypeOK
    /\ input \in Inputs
    /\ Buffered
    /\ AtRest
    /\ TasksStarted
    /\ ColumnsHold
    /\ ColumnsRise
    /\ BatchesHold

-----------------------------------------------------------------------------
(* Facts for the steps.                                                    *)

LEMMA SpanEmpty == ASSUME NEW p \in Nat PROVE Span(p, 0) = <<>>
  BY DEF Span

LEMMA SpanAppend ==
    ASSUME NEW p \in Nat, NEW n \in Nat
    PROVE  Append(Span(p, n), p + n + 1) = Span(p, n + 1)
  <1> DEFINE short == Span(p, n)
             long  == Span(p, n + 1)
  <1>1. short \in Seq(Nat) /\ Len(short) = n /\ \A k \in 1..n : short[k] = p + k
    BY SpanType
  <1>2. long \in Seq(Nat) /\ Len(long) = n + 1 /\ \A k \in 1..(n + 1) : long[k] = p + k
    BY SpanType
  <1> HIDE DEF short, long
  <1> DEFINE new == Append(short, p + n + 1)
  <1>3. /\ new \in Seq(Nat) /\ Len(new) = n + 1 /\ new[n + 1] = p + n + 1
        /\ \A k \in 1..n : new[k] = short[k]
    BY <1>1, AppendProperties
  <1> HIDE DEF new
  <1>4. ASSUME NEW k \in 1..(n + 1) PROVE new[k] = long[k]
    BY <1>1, <1>2, <1>3
  <1>5. new = long
    BY <1>2, <1>3, <1>4, SeqEqual
  <1> QED BY <1>5 DEF new, short, long

\* Sequences of rows.
LEMMA RowsWiden ==
    ASSUME NEW n \in Nat, NEW m \in Nat, n <= m, NEW s \in Seq(1..n)
    PROVE  s \in Seq(1..m) /\ s \in Seq(Nat)
  OBVIOUS

LEMMA SeqWiden ==
    ASSUME NEW S, NEW T, S \subseteq T, NEW s \in Seq(S)
    PROVE  s \in Seq(T)
  OBVIOUS

LEMMA RowsTyped ==
    ASSUME NEW s \in Seq(Nat), NEW n \in Nat, \A k \in 1..Len(s) : 0 < s[k] /\ s[k] <= n
    PROVE  s \in Seq(1..n)
  OBVIOUS

LEMMA HoldsNothing == ASSUME NEW p \in Nat PROVE Holds(input, <<>>, p, p)
  BY DEF Holds

\* When the tasks are over, every column has been dealt with.
LEMMA AllBehind ==
    ASSUME TypeOK, TasksDone, NEW c \in 1..NCols
    PROVE  Behind(c)
  <1>1. PICK f \in 1..NFuncs : FirstCol(f) <= c /\ c <= LastCol(f)
    BY ColumnHasTask
  <1>2. at[f] > LastCol(f) /\ at[f] \in Nat /\ LastCol(f) \in Nat
    BY <1>1, TaskRange, SMTT(30) DEF TypeOK, TasksDone
  <1> QED BY <1>1, <1>2 DEF Behind

\* When the tasks have just started, none has been.
LEMMA NoneBehind ==
    ASSUME NEW c \in 1..NCols, at = [f \in 1..NFuncs |-> FirstCol(f)]
    PROVE  ~Behind(c)
  BY TaskRange DEF Behind

LEMMA StartedTyped == [f \in 1..NFuncs |-> FirstCol(f)] \in [1..NFuncs -> 1..Finished]
  BY TaskRange

\* What the invariant says of the numbers of rows.
LEMMA Counts ==
    ASSUME ReaderInv
    PROVE  /\ cursor \in Nat /\ rowsRead \in Nat /\ Len(rows) \in Nat
           /\ rows \in Seq(Nat) /\ Start \in Nat
           /\ pc \in {"read", "flush"} => Len(rows) <= cursor /\ Start <= cursor - Len(rows)
           /\ \A c \in 1..NCols : columns[c] \in Seq(Nat)
  <1>1. cursor \in Nat /\ rowsRead \in Nat
    <2>1. input \in Seq(Row)
      BY CsvAssumption DEF ReaderInv
    <2> QED BY <2>1, LenProperties DEF ReaderInv, TypeOK
  <1>2. rows \in Seq(Nat) /\ Len(rows) \in Nat
    BY <1>1, RowsWiden, LenProperties DEF ReaderInv, TypeOK
  <1>3. Start \in Nat
    <2>1. CASE batches = <<>>
      BY <2>1 DEF Start
    <2>2. CASE batches # <<>>
      <3>1. batches \in Seq([upto : 1..cursor, columns : [1..NCols -> Seq(1..cursor)]])
        BY DEF ReaderInv, TypeOK
      <3>2. Len(batches) \in 1..Len(batches)
        BY <2>2, <3>1, LenProperties, EmptySeq
      <3>3. batches[Len(batches)] \in [upto : 1..cursor, columns : [1..NCols -> Seq(1..cursor)]]
        BY <3>1, <3>2, ElementOfSeq
      <3> QED BY <1>1, <2>2, <3>3 DEF Start
    <2> QED BY <2>1, <2>2
  <1>4. \A c \in 1..NCols : columns[c] \in Seq(Nat)
    <2> TAKE c \in 1..NCols
    <2>1. columns[c] \in Seq(1..cursor)
      BY DEF ReaderInv, TypeOK
    <2> QED BY <1>1, <2>1, RowsWiden
  <1>5. pc \in {"read", "flush"} => Len(rows) <= cursor /\ Start <= cursor - Len(rows)
    BY <1>1, <1>2, <1>3 DEF ReaderInv, Buffered
  <1> QED BY <1>1, <1>2, <1>3, <1>4, <1>5

-----------------------------------------------------------------------------
(* The steps.                                                              *)

LEMMA InitInv == Init => ReaderInv
  <1> SUFFICES ASSUME Init PROVE ReaderInv
    OBVIOUS
  <1>1. input \in Seq(Row) /\ Len(input) \in Nat
    BY CsvAssumption, LenProperties DEF Init
  <1>2. TypeOK
    <2>1. columns \in [1..NCols -> Seq(1..cursor)]
      BY DEF Init, NoRows
    <2>2. at \in [1..NFuncs -> 1..Finished]
      BY NFuncsType DEF Init, Finished
    <2>3. rows \in Seq(1..cursor)
      BY DEF Init
    <2>4. batches \in Seq([upto : 1..cursor, columns : [1..NCols -> Seq(1..cursor)]])
      BY DEF Init
    <2>5. pc \in {"idle", "read", "flush", "end", "threw"} /\ last \in BOOLEAN
      BY Zenon DEF Init
    <2>6. /\ cursor \in 0..Len(input) /\ rowsRead \in 0..cursor
          /\ totalBytes \in Nat /\ currentBytes \in 0..totalBytes
      BY <1>1 DEF Init
    <2> QED BY <2>1, <2>2, <2>3, <2>4, <2>5, <2>6, Zenon DEF TypeOK
  <1>3. Buffered /\ AtRest /\ TasksStarted /\ ColumnsHold
    BY DEF Init, Buffered, AtRest, TasksStarted, ColumnsHold, Start
  <1>4. ColumnsRise /\ BatchesHold
    BY DEF Init, NoRows, ColumnsRise, BatchesHold
  <1> QED BY <1>2, <1>3, <1>4 DEF Init, ReaderInv

LEMMA CallKeeps == ReaderInv /\ Call => ReaderInv'
  <1> SUFFICES ASSUME ReaderInv, Call PROVE ReaderInv'
    OBVIOUS
  <1>1. /\ pc = "idle" /\ pc' = "read" /\ columns' = NoRows /\ rowsRead' = 0
        /\ UNCHANGED <<input, cursor, rows, last, at, batches>>
    BY DEF Call
  <1>2. rows = <<>> /\ Start = cursor /\ cursor \in Nat /\ Start' = Start
    BY <1>1, Counts DEF ReaderInv, AtRest, Start
  <1>3. TypeOK'
    <2>1. columns' \in [1..NCols -> Seq(1..cursor)]
      BY <1>1 DEF NoRows
    <2> QED BY <1>2, <2>1 DEF Call, ReaderInv, TypeOK
  <1>4. Buffered'
    <2>1. cursor' = Start' + rowsRead' /\ Len(rows') = 0 /\ rows' = <<>>
      BY <1>1, <1>2
    <2>2. Span(cursor' - Len(rows'), Len(rows')) = <<>>
      BY <1>1, <1>2, <2>1, SpanEmpty
    <2> QED BY <1>1, <2>1, <2>2 DEF Buffered
  <1>5. AtRest' /\ TasksStarted'
    BY <1>1 DEF AtRest, TasksStarted
  <1>6. ColumnsHold'
    <2> SUFFICES ASSUME NEW c \in 1..NCols PROVE Holds(input, columns[c], Start, Covered(c))'
      BY DEF ColumnsHold
    <2>1. columns'[c] = <<>> /\ Start' = cursor /\ Covered(c)' = cursor /\ input' = input
      BY <1>1, <1>2 DEF NoRows, Covered
    <2>2. Holds(input, <<>>, cursor, cursor)
      BY <1>2, HoldsNothing
    <2> QED BY <2>1, <2>2
  <1>7. ColumnsRise'
    BY <1>1 DEF NoRows, ColumnsRise
  <1>8. BatchesHold'
    BY <1>1 DEF ReaderInv, BatchesHold, BatchHolds, Beg
  <1> QED BY <1>1, <1>3, <1>4, <1>5, <1>6, <1>7, <1>8 DEF ReaderInv

LEMMA ReadRowKeeps == ReaderInv /\ ReadRow => ReaderInv'
  <1> SUFFICES ASSUME ReaderInv, ReadRow PROVE ReaderInv'
    OBVIOUS
  <1>1. /\ pc = "read" /\ cursor < Len(input) /\ cursor' = cursor + 1
        /\ UNCHANGED <<input, columns, batches>>
    BY DEF ReadRow
  <1>2. /\ cursor \in Nat /\ rowsRead \in Nat /\ Len(rows) \in Nat /\ rows \in Seq(Nat)
        /\ Start \in Nat /\ Start' = Start /\ Len(rows) <= cursor
        /\ cursor = Start + rowsRead /\ Len(rows) <= rowsRead
        /\ rows = Span(cursor - Len(rows), Len(rows))
    BY <1>1, Counts DEF ReaderInv, Buffered, Start
  <1>3. input \in Seq(Row) /\ Len(input) \in Nat /\ input[cursor + 1] \in Row
    <2>1. input \in Seq(Row) /\ Len(input) \in Nat
      BY CsvAssumption, LenProperties DEF ReaderInv
    <2>2. cursor + 1 \in 1..Len(input)
      BY <1>1, <1>2, <2>1
    <2> QED BY <2>1, <2>2, ElementOfSeq
  <1>4. /\ cursor' \in 0..Len(input')
        /\ columns' \in [1..NCols -> Seq(1..cursor')]
        /\ batches' \in Seq([upto : 1..cursor', columns : [1..NCols -> Seq(1..cursor')]])
    <2>1. cursor' \in Nat /\ cursor <= cursor'
      BY <1>1, <1>2
    <2>2. \A s \in Seq(1..cursor) : s \in Seq(1..cursor')
      BY <1>2, <2>1, RowsWiden
    <2>3. [1..NCols -> Seq(1..cursor)] \subseteq [1..NCols -> Seq(1..cursor')]
      BY <2>2
    <2>4. 1..cursor \subseteq 1..cursor'
      BY <1>2, <2>1
    <2>5. [upto : 1..cursor, columns : [1..NCols -> Seq(1..cursor)]]
            \subseteq [upto : 1..cursor', columns : [1..NCols -> Seq(1..cursor')]]
      BY <2>3, <2>4
    <2>6. batches \in Seq([upto : 1..cursor', columns : [1..NCols -> Seq(1..cursor')]])
      <3> DEFINE S == [upto : 1..cursor, columns : [1..NCols -> Seq(1..cursor)]]
                 T == [upto : 1..cursor', columns : [1..NCols -> Seq(1..cursor')]]
      <3>1. batches \in Seq(S) /\ S \subseteq T
        BY <2>5 DEF ReaderInv, TypeOK
      <3> HIDE DEF S, T
      <3>2. batches \in Seq(T)
        BY <3>1, SeqWiden
      <3> QED BY <3>2 DEF T
    <2> QED BY <1>1, <1>2, <1>3, <2>3, <2>6 DEF ReaderInv, TypeOK
  <1>5. ColumnsRise' /\ BatchesHold'
    BY <1>1 DEF ReaderInv, ColumnsRise, BatchesHold, BatchHolds, Beg
  <1>6. CASE input[cursor + 1].arity
    <2> DEFINE row == input[cursor + 1]
    <2>1. /\ rowsRead' = rowsRead + 1 /\ rows' = Append(rows, cursor + 1)
          /\ totalBytes' = totalBytes + row.bytes
          /\ \/ /\ pc' = "flush" /\ currentBytes' = 0 /\ last' = FALSE
                /\ at' = [f \in 1..NFuncs |-> FirstCol(f)]
             \/ /\ pc' = "read" /\ currentBytes' = currentBytes + row.bytes
                /\ UNCHANGED <<last, at>>
      BY <1>1, <1>6 DEF ReadRow, PushTasks
    <2>2. row.bytes \in Nat /\ totalBytes \in Nat /\ currentBytes \in 0..totalBytes
      BY <1>3 DEF Row, ReaderInv, TypeOK
    <2>3. rows' = Span(cursor - Len(rows), Len(rows) + 1) /\ Len(rows') = Len(rows) + 1
      <3> DEFINE p == cursor - Len(rows)
                 n == Len(rows)
      <3>1. p \in Nat /\ n \in Nat /\ cursor + 1 = p + n + 1
        BY <1>2
      <3>2. rows = Span(p, n) /\ rows' = Append(rows, p + n + 1)
        BY <1>2, <2>1, <3>1
      <3> HIDE DEF p, n
      <3>3. rows' = Span(p, n + 1)
        BY <3>1, <3>2, SpanAppend
      <3>4. Len(Span(p, n + 1)) = n + 1
        BY <3>1, SpanType
      <3> QED BY <3>3, <3>4 DEF p, n
    <2>4. rows' \in Seq(1..cursor')
      <3> DEFINE p == cursor - Len(rows)
                 n == Len(rows) + 1
      <3>1. p \in Nat /\ n \in Nat /\ p + n = cursor + 1
        BY <1>2
      <3>2. rows' = Span(p, n) /\ cursor' = cursor + 1 /\ cursor' \in Nat
        BY <1>1, <1>2, <2>3
      <3> HIDE DEF p, n
      <3>3. /\ Span(p, n) \in Seq(Nat) /\ Len(Span(p, n)) = n
            /\ \A k \in 1..n : Span(p, n)[k] = p + k
        BY <3>1, SpanType
      <3>4. \A k \in 1..n : 0 < p + k /\ p + k <= cursor'
        BY <3>1, <3>2
      <3>5. \A k \in 1..Len(Span(p, n)) : 0 < Span(p, n)[k] /\ Span(p, n)[k] <= cursor'
        BY <3>3, <3>4
      <3> QED BY <3>2, <3>3, <3>5, RowsTyped
    <2>5. TypeOK'
      <3>1. at' \in [1..NFuncs -> 1..Finished]
        BY <2>1, StartedTyped DEF ReaderInv, TypeOK
      <3>2. rowsRead' \in 0..cursor' /\ totalBytes' \in Nat /\ currentBytes' \in 0..totalBytes'
        <4>1. rowsRead' \in 0..cursor'
          BY <1>1, <1>2, <2>1
        <4>2. totalBytes' \in Nat /\ totalBytes' = totalBytes + row.bytes
          BY <2>1, <2>2
        <4>3. currentBytes' = 0 \/ currentBytes' = currentBytes + row.bytes
          BY <2>1
        <4> HIDE DEF row
        <4> QED BY <2>2, <4>1, <4>2, <4>3
      <3>3. pc' \in {"idle", "read", "flush", "end", "threw"} /\ last' \in BOOLEAN
        <4>1. last \in BOOLEAN
          BY Zenon DEF ReaderInv, TypeOK
        <4> QED BY <2>1, <4>1, Zenon
      <3> QED BY <1>4, <2>4, <3>1, <3>2, <3>3, Zenon DEF TypeOK
    <2>6. Buffered'
      <3>1. cursor' = Start' + rowsRead' /\ Len(rows') <= rowsRead'
        BY <1>1, <1>2, <2>1, <2>3
      <3>2. cursor' - Len(rows') = cursor - Len(rows)
        BY <1>1, <1>2, <2>3
      <3> QED BY <2>3, <3>1, <3>2 DEF Buffered
    <2>7. AtRest'
      BY <2>1 DEF AtRest
    <2>8. TasksStarted'
      <3> SUFFICES ASSUME pc' = "flush", NEW f \in 1..NFuncs PROVE at'[f] >= FirstCol(f)
        BY DEF TasksStarted
      <3>1. at'[f] = FirstCol(f)
        BY <2>1
      <3> QED BY <3>1, TaskRange
    <2>9. ColumnsHold'
      <3> SUFFICES ASSUME NEW c \in 1..NCols PROVE Holds(input, columns[c], Start, Covered(c))'
        BY DEF ColumnsHold
      <3>1. pc' = "flush" => ~Behind(c)'
        <4> HAVE pc' = "flush"
        <4>1. \A f \in 1..NFuncs : at'[f] = FirstCol(f) /\ FirstCol(f) \in Nat
          BY <2>1, TaskRange
        <4> QED BY <4>1 DEF Behind
      <3>2. Covered(c)' = cursor - Len(rows)
        <4>1. Covered(c)' = cursor' - Len(rows')
          BY <3>1 DEF Covered
        <4> QED BY <1>1, <1>2, <2>3, <4>1
      <3>3. Covered(c) = cursor - Len(rows) /\ Holds(input, columns[c], Start, Covered(c))
        BY <1>1 DEF Covered, ReaderInv, ColumnsHold
      <3> QED BY <1>1, <1>2, <3>2, <3>3
    <2> QED BY <1>1, <1>5, <2>5, <2>6, <2>7, <2>8, <2>9 DEF ReaderInv
  <1>7. CASE ~input[cursor + 1].arity
    <2>1. /\ pc' = "threw"
          /\ UNCHANGED <<rows, rowsRead, totalBytes, currentBytes, last, at>>
      BY <1>1, <1>7 DEF ReadRow
    <2>2. TypeOK'
      <3>1. rows' \in Seq(1..cursor') /\ rowsRead' \in 0..cursor'
        <4>1. rows \in Seq(1..cursor) /\ cursor + 1 \in Nat /\ cursor <= cursor + 1
          BY <1>2 DEF ReaderInv, TypeOK
        <4>2. rows \in Seq(1..(cursor + 1))
          BY <1>2, <4>1, RowsWiden
        <4>3. rowsRead \in 0..(cursor + 1)
          BY <1>2
        <4> QED BY <1>1, <2>1, <4>2, <4>3
      <3> QED BY <1>4, <2>1, <3>1 DEF ReaderInv, TypeOK
    <2> QED BY <1>1, <1>5, <2>1, <2>2 DEF ReaderInv, Buffered, AtRest, TasksStarted, ColumnsHold
  <1> QED BY <1>6, <1>7

LEMMA CloseLoopKeeps == ReaderInv /\ CloseLoop => ReaderInv'
  <1> SUFFICES ASSUME ReaderInv, CloseLoop PROVE ReaderInv'
    OBVIOUS
  <1>1. /\ pc = "read" /\ pc' = "flush" /\ last' = TRUE
        /\ at' = [f \in 1..NFuncs |-> FirstCol(f)]
        /\ UNCHANGED <<input, cursor, rows, columns, rowsRead, totalBytes, currentBytes, batches>>
    BY DEF CloseLoop, PushTasks
  <1>2. TypeOK'
    <2>1. at' \in [1..NFuncs -> 1..Finished]
      BY <1>1, StartedTyped
    <2>2. last' \in BOOLEAN /\ pc' \in {"idle", "read", "flush", "end", "threw"}
      BY <1>1, Zenon
    <2> QED BY <1>1, <2>1, <2>2 DEF ReaderInv, TypeOK
  <1>3. Buffered' /\ AtRest'
    BY <1>1 DEF ReaderInv, Buffered, AtRest, Start
  <1>4. TasksStarted'
    BY <1>1, TaskRange DEF TasksStarted
  <1>5. ColumnsHold'
    <2> SUFFICES ASSUME NEW c \in 1..NCols PROVE Holds(input, columns[c], Start, Covered(c))'
      BY DEF ColumnsHold
    <2>1. ~Behind(c)'
      <3>1. \A f \in 1..NFuncs : at'[f] = FirstCol(f) /\ FirstCol(f) \in Nat
        BY <1>1, TaskRange
      <3> QED BY <3>1 DEF Behind
    <2>2. Covered(c)' = Covered(c) /\ Start' = Start
      BY <1>1, <2>1 DEF Covered, Start
    <2>3. Holds(input, columns[c], Start, Covered(c))
      BY <1>1 DEF ReaderInv, ColumnsHold
    <2> QED BY <1>1, <2>2, <2>3
  <1>6. ColumnsRise' /\ BatchesHold'
    BY <1>1 DEF ReaderInv, ColumnsRise, BatchesHold, BatchHolds, Beg
  <1> QED BY <1>1, <1>2, <1>3, <1>4, <1>5, <1>6 DEF ReaderInv

LEMMA ConvertKeeps == ASSUME NEW f \in 1..NFuncs PROVE ReaderInv /\ ConvertColumn(f) => ReaderInv'
  <1> SUFFICES ASSUME ReaderInv, ConvertColumn(f) PROVE ReaderInv'
    OBVIOUS
  <1>0. PICK c : c = at[f]
    OBVIOUS
  <1> DEFINE mid == cursor - Len(rows)
             add == Converted(c)
  <1>1. /\ pc = "flush" /\ c <= LastCol(f)
        /\ columns' = [columns EXCEPT ![c] = @ \o add]
        /\ at' = [at EXCEPT ![f] = IF Len(add) = Len(rows) THEN c + 1 ELSE Finished]
        /\ UNCHANGED <<input, pc, cursor, rows, rowsRead, totalBytes, currentBytes, last, batches>>
    BY <1>0 DEF ConvertColumn
  <1>2. /\ cursor \in Nat /\ Len(rows) \in Nat /\ rows \in Seq(Nat) /\ mid \in Nat
        /\ Start \in Nat /\ Start <= mid /\ mid <= cursor /\ mid + Len(rows) = cursor
        /\ rows = Span(mid, Len(rows)) /\ Start' = Start
        /\ \A d \in 1..NCols : columns[d] \in Seq(Nat)
    <2>1. /\ cursor \in Nat /\ Len(rows) \in Nat /\ rows \in Seq(Nat) /\ Start \in Nat
          /\ Len(rows) <= cursor /\ Start <= cursor - Len(rows)
          /\ \A d \in 1..NCols : columns[d] \in Seq(Nat)
      BY <1>1, Counts
    <2>2. rows = Span(mid, Len(rows)) /\ Start' = Start
      BY <1>1 DEF ReaderInv, Buffered, Start
    <2>3. mid \in Nat /\ mid <= cursor /\ mid + Len(rows) = cursor
      BY <2>1
    <2> QED BY <2>1, <2>2, <2>3
  <1>3. c \in 1..NCols /\ FirstCol(f) <= c /\ c <= LastCol(f) /\ c + 1 \in 1..Finished /\ Finished \in 1..Finished
    <2>1. c \in 1..Finished /\ FirstCol(f) <= c
      BY <1>0, <1>1 DEF ReaderInv, TypeOK, TasksStarted
    <2>2. FirstCol(f) \in Nat /\ LastCol(f) \in 0..NCols /\ NCols \in Nat
      BY TaskRange, NFuncsType
    <2> QED BY <1>1, <2>1, <2>2 DEF Finished
  <1>4. PICK m \in 0..Len(rows) :
           /\ add = Span(mid, m) /\ Len(add) = m
           /\ m < Len(rows) => \E r \in (mid + 1)..cursor : input[r].bad # {}
    BY <1>2, ConvertedRows
  <1>5. at' \in [1..NFuncs -> 1..Finished] /\ at'[f] \in Nat /\ at'[f] > c /\ \A g \in 1..NFuncs : g # f => at'[g] = at[g]
    <2>1. at \in [1..NFuncs -> 1..Finished]
      BY DEF ReaderInv, TypeOK
    <2>2. Finished > c /\ Finished \in Nat
      BY <1>3, NFuncsType DEF Finished
    <2> HIDE DEF add
    <2>3. \A g \in 1..NFuncs : at'[g] = IF g = f THEN IF Len(add) = Len(rows) THEN c + 1 ELSE Finished ELSE at[g]
      BY <1>1, <2>1
    <2>4. c + 1 > c /\ c + 1 \in Nat
      BY <1>3
    <2>5. at' \in [1..NFuncs -> 1..Finished]
      BY <1>1, <1>3, <2>1
    <2> QED BY <2>2, <2>3, <2>4, <2>5
  <1>6. ~Behind(c)
    <2> SUFFICES ASSUME NEW g \in 1..NFuncs, FirstCol(g) <= c, c <= LastCol(g), at[g] > c PROVE FALSE
      BY DEF Behind
    <2>1. g = f
      <3> QED BY <1>3, ColumnHasOneTask
    <2> QED BY <1>0, <1>3, <2>1
  <1>7. Holds(input, columns[c], Start, mid)
    BY <1>1, <1>3, <1>6 DEF ReaderInv, ColumnsHold, Covered
  <1>8. columns[c] \o add \in Seq(Nat) /\ Holds(input, columns[c] \o add, Start, cursor)
    <2>1. mid + m <= cursor /\ m \in Nat
      BY <1>2
    <2>2. mid + m < cursor => \E r \in (mid + 1)..cursor : input[r].bad # {}
      BY <1>2, <1>4
    <2>3. columns[c] \in Seq(Nat)
      BY <1>2, <1>3
    <2> HIDE DEF mid, add
    <2> QED BY <1>2, <1>4, <1>7, <2>1, <2>2, <2>3, ColumnGrows
  <1>9. columns'[c] = columns[c] \o add /\ \A d \in 1..NCols : d # c => columns'[d] = columns[d]
    <2>1. columns \in [1..NCols -> Seq(1..cursor)]
      BY DEF ReaderInv, TypeOK
    <2> HIDE DEF add
    <2> QED BY <1>1, <1>3, <2>1
  <1>10. ColumnsHold'
    <2> SUFFICES ASSUME NEW d \in 1..NCols PROVE Holds(input, columns[d], Start, Covered(d))'
      BY DEF ColumnsHold
    <2>1. Holds(input, columns[d], Start, Covered(d))
      BY <1>1 DEF ReaderInv, ColumnsHold
    <2>2. CASE d = c
      <3>1. Behind(c)'
        BY <1>3, <1>5 DEF Behind
      <3>2. Covered(d)' = cursor
        BY <1>1, <2>2, <3>1 DEF Covered
      <3> QED BY <1>1, <1>2, <1>8, <1>9, <2>2, <3>2
    <2>3. CASE d # c /\ Behind(d)' = Behind(d)
      <3>1. Covered(d)' = Covered(d)
        BY <1>1, <2>3 DEF Covered
      <3> QED BY <1>1, <1>2, <1>9, <2>1, <2>3, <3>1
    <2>4. CASE d # c /\ ~Behind(d) /\ Behind(d)'
      <3>1. FirstCol(f) <= d /\ d <= LastCol(f) /\ at'[f] > d
        BY <1>5, <2>4 DEF Behind
      <3>2. d > c
        <4>1. ~(at[f] > d)
          BY <2>4, <3>1 DEF Behind
        <4> QED BY <1>0, <1>3, <2>4, <4>1
      <3>3. at'[f] # c + 1
        BY <1>3, <3>1, <3>2
      <3>4. m # Len(rows)
        <4>1. at \in [1..NFuncs -> 1..Finished]
          BY DEF ReaderInv, TypeOK
        <4>2. at'[f] = IF Len(add) = Len(rows) THEN c + 1 ELSE Finished
          <5> HIDE DEF add
          <5> QED BY <1>1, <4>1
        <4> QED BY <1>4, <3>3, <4>2
      <3>5. \E r \in (mid + 1)..cursor : input[r].bad # {}
        BY <1>2, <1>4, <3>4
      <3>6. Covered(d) = mid /\ Covered(d)' = cursor
        BY <1>1, <2>4 DEF Covered
      <3>7. Holds(input, columns[d], Start, cursor)
        <4> HIDE DEF mid
        <4> QED BY <1>2, <2>1, <3>5, <3>6, ColumnStays
      <3> QED BY <1>1, <1>2, <1>9, <2>4, <3>6, <3>7
    <2>5. Behind(d) => Behind(d)'
      <3> SUFFICES ASSUME NEW g \in 1..NFuncs, FirstCol(g) <= d, d <= LastCol(g), at[g] > d PROVE at'[g] > d
        BY <1>5 DEF Behind
      <3>1. CASE g # f
        BY <1>5, <3>1
      <3>2. CASE g = f
        BY <1>0, <1>3, <1>5, <3>2
      <3> QED BY <3>1, <3>2
    <2> QED BY <2>2, <2>3, <2>4, <2>5, Zenon DEF Behind
  <1>11. TypeOK'
    <2>1. columns[c] \o add \in Seq(1..cursor)
      <3> DEFINE new == columns[c] \o add
      <3>1. new \in Seq(Nat) /\ \A k \in 1..Len(new) : 0 < new[k] /\ new[k] <= cursor
        <4> HIDE DEF new
        <4>1. new \in Seq(Nat) /\ Holds(input, new, Start, cursor)
          BY <1>8 DEF new
        <4> DEFINE L == Len(new)
        <4>2. L \in Nat /\ \A k \in 1..L : new[k] \in Nat
          BY <4>1, LenProperties, ElementOfSeq
        <4>3. \A k \in 1..L : Start < new[k] /\ new[k] <= cursor
          BY <4>1 DEF Holds
        <4> HIDE DEF L
        <4>4. \A k \in 1..L : 0 < new[k]
          BY <1>2, <4>2, <4>3
        <4> QED BY <4>1, <4>3, <4>4 DEF L
      <3> HIDE DEF new
      <3>2. new \in Seq(1..cursor)
        BY <1>2, <3>1, RowsTyped
      <3> QED BY <3>2 DEF new
    <2>2. columns' \in [1..NCols -> Seq(1..cursor)]
      <3>1. columns \in [1..NCols -> Seq(1..cursor)]
        BY DEF ReaderInv, TypeOK
      <3> HIDE DEF add
      <3> QED BY <1>1, <1>3, <2>1, <3>1
    <2> QED BY <1>1, <1>5, <2>2 DEF ReaderInv, TypeOK
  <1>12. Buffered' /\ AtRest'
    BY <1>1 DEF ReaderInv, Buffered, AtRest, Start
  <1>13. TasksStarted'
    <2> SUFFICES ASSUME NEW g \in 1..NFuncs PROVE at'[g] >= FirstCol(g)
      BY DEF TasksStarted
    <2>1. CASE g # f
      BY <1>1, <1>5, <2>1 DEF ReaderInv, TasksStarted
    <2>2. CASE g = f
      <3>1. at'[f] \in Nat /\ FirstCol(f) \in Nat /\ at'[f] > c /\ c \in Nat
        BY <1>3, <1>5, TaskRange
      <3> QED BY <1>3, <2>2, <3>1
    <2> QED BY <2>1, <2>2
  <1>14. ColumnsRise'
    <2> SUFFICES ASSUME NEW d \in 1..NCols
                 PROVE  \A i, j \in 1..Len(columns'[d]) : i < j => columns'[d][i] < columns'[d][j]
      BY DEF ColumnsRise
    <2>1. CASE d = c
      <3> DEFINE new == columns[c] \o add
      <3>1. Holds(input, new, Start, cursor) /\ columns'[d] = new
        BY <1>8, <1>9, <2>1
      <3> HIDE DEF new
      <3> QED BY <3>1 DEF Holds
    <2>2. CASE d # c
      BY <1>9, <2>2 DEF ReaderInv, ColumnsRise
    <2> QED BY <2>1, <2>2
  <1>15. BatchesHold'
    BY <1>1 DEF ReaderInv, BatchesHold, BatchHolds, Beg
  <1> QED BY <1>1, <1>10, <1>11, <1>12, <1>13, <1>14, <1>15 DEF ReaderInv

LEMMA EndFlushKeeps == ReaderInv /\ EndFlush => ReaderInv'
  <1> SUFFICES ASSUME ReaderInv, EndFlush PROVE ReaderInv'
    OBVIOUS
  <1>1. /\ pc = "flush" /\ TasksDone /\ rows' = <<>> /\ pc' = "read"
        /\ UNCHANGED <<input, cursor, columns, rowsRead, totalBytes, currentBytes, last, at, batches>>
    BY DEF EndFlush
  <1>2. /\ cursor \in Nat /\ rowsRead \in Nat /\ Start' = Start
        /\ cursor = Start + rowsRead
    BY <1>1, Counts DEF ReaderInv, Buffered, Start
  <1>3. TypeOK'
    BY <1>1 DEF ReaderInv, TypeOK
  <1>4. Buffered'
    <2>1. Len(rows') = 0 /\ cursor' - Len(rows') = cursor
      BY <1>1, <1>2
    <2>2. Span(cursor' - Len(rows'), Len(rows')) = rows'
      BY <1>1, <1>2, <2>1, SpanEmpty
    <2> QED BY <1>1, <1>2, <2>1, <2>2 DEF Buffered
  <1>5. AtRest' /\ TasksStarted'
    BY <1>1 DEF AtRest, TasksStarted
  <1>6. ColumnsHold'
    <2> SUFFICES ASSUME NEW c \in 1..NCols PROVE Holds(input, columns[c], Start, Covered(c))'
      BY DEF ColumnsHold
    <2>1. Behind(c)
      BY <1>1, AllBehind DEF ReaderInv
    <2>2. Covered(c) = cursor /\ Holds(input, columns[c], Start, Covered(c))
      BY <1>1, <2>1 DEF ReaderInv, ColumnsHold, Covered
    <2>3. Covered(c)' = cursor
      BY <1>1, <1>2 DEF Covered
    <2> QED BY <1>1, <1>2, <2>2, <2>3
  <1>7. ColumnsRise' /\ BatchesHold'
    BY <1>1 DEF ReaderInv, ColumnsRise, BatchesHold, BatchHolds, Beg
  <1> QED BY <1>1, <1>3, <1>4, <1>5, <1>6, <1>7 DEF ReaderInv

LEMMA FinishKeeps == ReaderInv /\ Finish => ReaderInv'
  <1> SUFFICES ASSUME ReaderInv, Finish PROVE ReaderInv'
    OBVIOUS
  <1> DEFINE BatchSet == [upto : 1..cursor, columns : [1..NCols -> Seq(1..cursor)]]
  <1>1. /\ pc = "flush" /\ TasksDone /\ rows' = <<>>
        /\ UNCHANGED <<input, cursor, columns, rowsRead, totalBytes, currentBytes, last, at>>
    BY DEF Finish
  <1>2. /\ cursor \in Nat /\ rowsRead \in Nat /\ Start \in Nat
        /\ cursor = Start + rowsRead
        /\ batches \in Seq(BatchSet) /\ Len(batches) \in Nat
    <2>1. cursor \in Nat /\ rowsRead \in Nat /\ Start \in Nat /\ cursor = Start + rowsRead
      BY <1>1, Counts DEF ReaderInv, Buffered
    <2>2. batches \in Seq(BatchSet)
      BY DEF ReaderInv, TypeOK
    <2> HIDE DEF BatchSet
    <2> QED BY <2>1, <2>2, LenProperties
  <1>3. \A c \in 1..NCols : Holds(input, columns[c], Start, cursor)
    <2> TAKE c \in 1..NCols
    <2>1. Behind(c)
      BY <1>1, AllBehind DEF ReaderInv
    <2> QED BY <1>1, <2>1 DEF ReaderInv, ColumnsHold, Covered
  <1>4. ColumnsRise'
    BY <1>1 DEF ReaderInv, ColumnsRise
  <1>5. CASE /\ batches' = batches
             /\ \/ rowsRead = 0 /\ pc' = "end"
                \/ pc' = "threw"
    <2>1. TypeOK'
      <3>1. pc' \in {"idle", "read", "flush", "end", "threw"}
        BY <1>5
      <3> QED BY <1>1, <1>5, <3>1 DEF ReaderInv, TypeOK
    <2>2. AtRest'
      <3>1. pc' = "end" => Start' = cursor
        BY <1>2, <1>5 DEF Start
      <3> QED BY <1>1, <1>5, <3>1 DEF AtRest
    <2>3. Buffered' /\ TasksStarted' /\ ColumnsHold'
      BY <1>5 DEF Buffered, TasksStarted, ColumnsHold
    <2>4. BatchesHold'
      BY <1>1, <1>5 DEF ReaderInv, BatchesHold, BatchHolds, Beg
    <2> QED BY <1>1, <1>4, <2>1, <2>2, <2>3, <2>4 DEF ReaderInv
  <1>6. CASE /\ rowsRead # 0 /\ SameLength /\ pc' = "idle"
             /\ batches' = Append(batches, [upto |-> cursor, columns |-> columns])
    <2> DEFINE new == [upto |-> cursor, columns |-> columns]
    <2>1. new \in BatchSet
      <3>1. cursor \in 1..cursor
        BY <1>2, <1>6
      <3>2. columns \in [1..NCols -> Seq(1..cursor)]
        BY DEF ReaderInv, TypeOK
      <3> QED BY <3>1, <3>2
    <2>2. new.upto = cursor /\ new.columns = columns
      OBVIOUS
    <2>3. /\ batches' \in Seq(BatchSet) /\ Len(batches') = Len(batches) + 1
          /\ batches'[Len(batches) + 1] = new
          /\ \A b \in 1..Len(batches) : batches'[b] = batches[b]
      <3> HIDE DEF BatchSet, new
      <3>1. batches' = Append(batches, new)
        BY <1>6 DEF new
      <3> QED BY <1>2, <2>1, <3>1, AppendProperties
    <2>4. Start' = cursor
      <3>1. batches' # <<>>
        <4> HIDE DEF BatchSet, new
        <4> QED BY <1>2, <2>3, EmptySeq
      <3>2. batches'[Len(batches')] = new
        BY <2>3
      <3> HIDE DEF new
      <3> QED BY <2>2, <3>1, <3>2 DEF Start
    <2>n. PICK n \in Nat : n = Len(batches)
      BY <1>2
    <2>5. Beg(n + 1)' = Start
      <3>1. CASE n = 0
        <4>1. batches = <<>>
          <5> HIDE DEF BatchSet
          <5> QED BY <1>2, <2>n, <3>1, EmptySeq
        <4> QED BY <3>1, <4>1 DEF Beg, Start
      <3>2. CASE n # 0
        <4>1. n \in 1..n /\ n + 1 # 1 /\ (n + 1) - 1 = n /\ batches # <<>>
          BY <2>n, <3>2
        <4>2. batches'[n] = batches[n]
          BY <2>3, <2>n, <4>1
        <4> QED BY <2>n, <4>1, <4>2 DEF Beg, Start
      <3> QED BY <3>1, <3>2
    <2>6. BatchesHold'
      <3> SUFFICES ASSUME NEW b \in 1..(n + 1) PROVE BatchHolds(b)'
        <4>1. Len(batches') = n + 1
          BY <2>3, <2>n
        <4> QED BY <4>1 DEF BatchesHold
      <3>1. CASE b = n + 1
        <4>1. batches'[b].upto = cursor /\ batches'[b].columns = columns
          BY <2>2, <2>3, <2>n, <3>1
        <4>2. Beg(b)' = Start /\ Start < cursor
          BY <1>2, <1>6, <2>5, <3>1
        <4>3. \A c \in 1..NCols : Len(columns[c]) = Len(columns[1])
          BY <1>6 DEF SameLength
        <4> QED BY <1>1, <1>3, <4>1, <4>2, <4>3 DEF BatchHolds
      <3>2. CASE b # n + 1
        <4>1. b \in 1..n
          BY <3>2
        <4>2. batches'[b] = batches[b]
          BY <2>3, <2>n, <4>1
        <4>3. Beg(b)' = Beg(b)
          <5>1. b # 1 => b - 1 \in 1..n
            BY <4>1
          <5>2. b # 1 => batches'[b - 1] = batches[b - 1]
            BY <2>3, <2>n, <5>1
          <5> QED BY <5>2 DEF Beg
        <4>4. BatchHolds(b)
          BY <2>n, <4>1 DEF ReaderInv, BatchesHold
        <4> QED BY <1>1, <4>2, <4>3, <4>4 DEF BatchHolds
      <3> QED BY <3>1, <3>2
    <2>7. TypeOK'
      <3>1. pc' \in {"idle", "read", "flush", "end", "threw"}
        BY <1>6
      <3>2. batches' \in Seq([upto : 1..cursor', columns : [1..NCols -> Seq(1..cursor')]])
        BY <1>1, <2>3
      <3> QED BY <1>1, <3>1, <3>2 DEF ReaderInv, TypeOK
    <2>8. AtRest' /\ Buffered' /\ TasksStarted' /\ ColumnsHold'
      BY <1>1, <1>6, <2>4 DEF AtRest, Buffered, TasksStarted, ColumnsHold
    <2> QED BY <1>1, <1>4, <2>6, <2>7, <2>8 DEF ReaderInv
  <1> QED BY <1>5, <1>6 DEF Finish

\* An exception of read_row.
LEMMA ThrowKeeps ==
    /\ ReaderInv
    /\ pc' = "threw"
    /\ UNCHANGED <<input, cursor, rows, columns, rowsRead, totalBytes, currentBytes, last, at, batches>>
    => ReaderInv'
  BY DEF ReaderInv, TypeOK, Buffered, AtRest, TasksStarted, ColumnsHold, ColumnsRise,
         BatchesHold, BatchHolds, Beg

LEMMA StutterKeeps == ReaderInv /\ UNCHANGED vars => ReaderInv'
  <1> SUFFICES ASSUME ReaderInv, UNCHANGED vars PROVE ReaderInv'
    OBVIOUS
  <1>1. UNCHANGED <<input, pc, cursor, rows, columns, rowsRead, totalBytes, currentBytes, last, at, batches>>
    BY DEF vars
  <1>2. TypeOK' /\ Buffered' /\ AtRest' /\ TasksStarted'
    BY <1>1 DEF ReaderInv, TypeOK, Buffered, AtRest, TasksStarted, Start
  <1>3. ColumnsHold' /\ ColumnsRise'
    BY <1>1 DEF ReaderInv, ColumnsHold, Covered, Behind, Start, ColumnsRise
  <1>4. BatchesHold'
    BY <1>1 DEF ReaderInv, BatchesHold, BatchHolds, Beg
  <1> QED BY <1>1, <1>2, <1>3, <1>4 DEF ReaderInv

-----------------------------------------------------------------------------
(* The bytes of rows.                                                      *)

\* sum[k] is the bytes of the first k rows.
IsSum(text, rs, sum, n) ==
    /\ sum = [k \in 0..n |-> sum[k]]
    /\ sum[0] = 0
    /\ \A k \in 1..n : sum[k] = sum[k - 1] + text[rs[k]].bytes

\* BytesOf, of any input.
SumOf(text, rs) ==
    CHOOSE sum : sum = [k \in 0..Len(rs) |-> IF k = 0 THEN 0 ELSE sum[k - 1] + text[rs[k]].bytes]

BytesIn(text, rs) == SumOf(text, rs)[Len(rs)]

LEMMA SumStep ==
    ASSUME NEW text, NEW rs, NEW m \in Nat, NEW f, IsSum(text, rs, f, m)
    PROVE  \E g : IsSum(text, rs, g, m + 1)
  <1> DEFINE g == [k \in 0..(m + 1) |-> IF k = m + 1 THEN f[m] + text[rs[m + 1]].bytes ELSE f[k]]
  <1>1. g[0] = 0
    BY DEF IsSum
  <1>2. ASSUME NEW k \in 1..(m + 1) PROVE g[k] = g[k - 1] + text[rs[k]].bytes
    <2>1. k - 1 \in 0..(m + 1) /\ k - 1 # m + 1 /\ k \in 0..(m + 1)
      OBVIOUS
    <2>2. g[k - 1] = f[k - 1]
      BY <2>1
    <2>3. CASE k = m + 1
      <3>1. g[m + 1] = f[m] + text[rs[m + 1]].bytes
        BY <2>1, <2>3
      <3>2. k - 1 = m
        BY <2>3
      <3> HIDE DEF g
      <3> QED BY <2>2, <2>3, <3>1, <3>2
    <2>4. CASE k # m + 1
      <3>1. k \in 1..m /\ g[k] = f[k]
        BY <2>1, <2>4
      <3> HIDE DEF g
      <3> QED BY <2>2, <3>1 DEF IsSum
    <2> QED BY <2>3, <2>4
  <1>3. g = [k \in 0..(m + 1) |-> g[k]]
    OBVIOUS
  <1> HIDE DEF g
  <1> QED BY <1>1, <1>2, <1>3 DEF IsSum

LEMMA SumExists ==
    ASSUME NEW text, NEW rs, NEW n \in Nat
    PROVE  \E f : IsSum(text, rs, f, n)
  <1> DEFINE Bad == {m \in Nat : ~\E f : IsSum(text, rs, f, m)}
  <1>1. SUFFICES ASSUME Bad # {} PROVE FALSE
    OBVIOUS
  <1>2. PICK m \in Bad : \A k \in Bad : m <= k
    <2>1. Bad \subseteq Nat
      OBVIOUS
    <2> HIDE DEF Bad
    <2> QED BY <1>1, <2>1, LeastNat
  <1>3. m # 0
    <2> DEFINE f == [k \in 0..0 |-> 0]
    <2>1. IsSum(text, rs, f, 0)
      BY DEF IsSum
    <2> QED BY <1>2, <2>1
  <1>4. m \in Nat /\ m - 1 \in Nat /\ m = (m - 1) + 1 /\ ~(m <= m - 1)
    BY <1>2, <1>3
  <1>5. PICK f : IsSum(text, rs, f, m - 1)
    BY <1>2, <1>4
  <1>6. \E g : IsSum(text, rs, g, m)
    BY <1>4, <1>5, SumStep
  <1> QED BY <1>2, <1>6

LEMMA SumDef ==
    ASSUME NEW text, NEW rs, Len(rs) \in Nat
    PROVE  IsSum(text, rs, SumOf(text, rs), Len(rs))
  <1> DEFINE n == Len(rs)
             g == SumOf(text, rs)
  <1> HIDE DEF n
  <1>1. PICK f : IsSum(text, rs, f, n)
    BY SumExists DEF n
  <1>2. f = [k \in 0..n |-> IF k = 0 THEN 0 ELSE f[k - 1] + text[rs[k]].bytes]
    <2>1. n \in Nat
      BY DEF n
    <2>2. ASSUME NEW k \in 0..n PROVE f[k] = IF k = 0 THEN 0 ELSE f[k - 1] + text[rs[k]].bytes
      <3>1. k = 0 \/ k \in 1..n
        BY <2>1
      <3> QED BY <1>1, <3>1 DEF IsSum
    <2>3. f = [k \in 0..n |-> f[k]]
      BY <1>1 DEF IsSum
    <2> QED BY <2>2, <2>3
  <1>3. g = [k \in 0..n |-> IF k = 0 THEN 0 ELSE g[k - 1] + text[rs[k]].bytes]
    BY <1>2 DEF SumOf, n
  <1> HIDE DEF g
  <1>4. n \in Nat
    BY DEF n
  <1>5. g[0] = 0 /\ \A k \in 1..n : g[k] = g[k - 1] + text[rs[k]].bytes
    BY <1>3, <1>4
  <1>6. g = [k \in 0..n |-> g[k]]
    BY <1>3
  <1> QED BY <1>5, <1>6 DEF IsSum, g, n

\* The bytes of no row, and of one row more.
LEMMA NoBytes == ASSUME NEW text PROVE BytesIn(text, <<>>) = 0
  <1>1. Len(<<>>) = 0 /\ Len(<<>>) \in Nat
    OBVIOUS
  <1>2. IsSum(text, <<>>, SumOf(text, <<>>), Len(<<>>))
    BY <1>1, SumDef
  <1> QED BY <1>1, <1>2 DEF IsSum, BytesIn

LEMMA MoreBytes ==
    ASSUME NEW text, NEW rs \in Seq(Nat), NEW r \in Nat
    PROVE  BytesIn(text, Append(rs, r)) = BytesIn(text, rs) + text[r].bytes
  <1> DEFINE n  == Len(rs)
             ss == Append(rs, r)
             f  == SumOf(text, rs)
             g  == SumOf(text, ss)
  <1>1. n \in Nat /\ Len(ss) = n + 1 /\ ss[n + 1] = r /\ \A k \in 1..n : ss[k] = rs[k]
    BY AppendProperties, LenProperties
  <1> HIDE DEF ss, n
  <1>2. IsSum(text, rs, f, n)
    BY <1>1, SumDef DEF n
  <1>3. IsSum(text, ss, g, n + 1)
    <2>1. Len(ss) \in Nat
      BY <1>1
    <2> QED BY <1>1, <2>1, SumDef
  <1> HIDE DEF f, g
  <1>4. \A k \in 0..n : f[k] = g[k]
    <2> DEFINE Bad == {k \in 0..n : f[k] # g[k]}
    <2>1. SUFFICES ASSUME Bad # {} PROVE FALSE
      OBVIOUS
    <2>2. PICK m \in Bad : \A k \in Bad : m <= k
      <3>1. Bad \subseteq Nat
        BY <1>1
      <3> HIDE DEF Bad
      <3> QED BY <2>1, <3>1, LeastNat
    <2>3. m \in 0..n /\ f[m] # g[m]
      BY <2>2
    <2>4. m # 0
      BY <1>2, <1>3, <2>3 DEF IsSum
    <2>5. m \in 1..n /\ m \in 1..(n + 1) /\ m - 1 \in 0..n /\ ~(m <= m - 1)
      BY <1>1, <2>3, <2>4
    <2>6. f[m - 1] = g[m - 1]
      BY <2>2, <2>5
    <2>7. f[m] = f[m - 1] + text[rs[m]].bytes /\ g[m] = g[m - 1] + text[ss[m]].bytes
      BY <1>2, <1>3, <2>5 DEF IsSum
    <2> QED BY <1>1, <2>3, <2>5, <2>6, <2>7
  <1>5. g[n + 1] = g[n] + text[ss[n + 1]].bytes
    <2>1. n + 1 \in 1..(n + 1) /\ (n + 1) - 1 = n
      BY <1>1
    <2> QED BY <1>3, <2>1 DEF IsSum
  <1>6. BytesIn(text, ss) = g[n + 1] /\ BytesIn(text, rs) = f[n]
    BY <1>1 DEF BytesIn, f, g, n
  <1>7. f[n] = g[n]
    BY <1>1, <1>4
  <1> QED BY <1>1, <1>5, <1>6, <1>7 DEF ss

-----------------------------------------------------------------------------
(* How much is held.                                                       *)

\* The buffer was not full before its last row, nor the batch before its own; the
\* counters of Next are the bytes of the rows buffered and of the rows of the batch.
BytesCounted ==
    /\ rows # <<>> => BytesIn(input, Front(rows)) < FlushBytes
    /\ pc = "read" => currentBytes = BytesIn(input, rows) /\ currentBytes < FlushBytes
    /\ pc = "flush" /\ ~last => currentBytes = 0
    /\ pc \in {"read", "flush"} =>
          /\ totalBytes = BytesIn(input, Span(Start, rowsRead))
          /\ rowsRead > 1 => BytesIn(input, Span(Start, rowsRead - 1)) < TargetBytes
    /\ \A b \in 1..Len(batches) :
          batches[b].upto - Beg(b) > 1
             => BytesIn(input, Span(Beg(b), batches[b].upto - Beg(b) - 1)) < TargetBytes

LEMMA FrontOfAppend ==
    ASSUME NEW s \in Seq(Nat), NEW r \in Nat
    PROVE  Front(Append(s, r)) = s
  <1>1. Append(s, r) \in Seq(Nat) /\ Len(Append(s, r)) = Len(s) + 1 /\ Len(s) \in Nat
    OBVIOUS
  <1>2. SubSeq(Append(s, r), 1, Len(s)) = s
    BY <1>1
  <1>3. Len(s) + 1 - 1 = Len(s)
    BY <1>1
  <1> QED BY <1>1, <1>2, <1>3 DEF Front

LEMMA FrontOfSpan ==
    ASSUME NEW p \in Nat, NEW n \in Nat
    PROVE  Front(Span(p, n + 1)) = Span(p, n)
  <1>1. Span(p, n + 1) = Append(Span(p, n), p + n + 1)
    BY SpanAppend
  <1>2. Span(p, n) \in Seq(Nat)
    BY SpanType
  <1>3. p + n + 1 \in Nat
    OBVIOUS
  <1> QED BY <1>1, <1>2, <1>3, FrontOfAppend

LEMMA BytesInit == Init => BytesCounted
  BY DEF Init, BytesCounted

\* The steps that neither take a row nor hand out a batch.
LEMMA BytesStay ==
    ASSUME BytesCounted, UNCHANGED <<input, rowsRead, totalBytes, batches>>,
           rows' \in {rows, <<>>},
           \/ pc' = pc /\ UNCHANGED <<rows, currentBytes, last>>
           \/ pc' = "flush" /\ pc = "read" /\ last'
           \/ pc' \in {"end", "threw"}
    PROVE  BytesCounted'
  <1>1. Start' = Start /\ \A b : Beg(b)' = Beg(b)
    BY DEF Start, Beg
  <1>2. rows' # <<>> => BytesIn(input', Front(rows')) < FlushBytes
    BY DEF BytesCounted
  <1>3. pc' = "read" => currentBytes' = BytesIn(input', rows') /\ currentBytes' < FlushBytes
    BY DEF BytesCounted
  <1>4. pc' = "flush" /\ ~last' => currentBytes' = 0
    BY DEF BytesCounted
  <1>5. pc' \in {"read", "flush"} =>
          /\ totalBytes' = BytesIn(input', Span(Start', rowsRead'))
          /\ rowsRead' > 1 => BytesIn(input', Span(Start', rowsRead' - 1)) < TargetBytes
    BY <1>1 DEF BytesCounted
  <1>6. \A b \in 1..Len(batches') :
          batches'[b].upto - Beg(b)' > 1
             => BytesIn(input', Span(Beg(b)', batches'[b].upto - Beg(b)' - 1)) < TargetBytes
    BY <1>1 DEF BytesCounted
  <1> QED BY <1>2, <1>3, <1>4, <1>5, <1>6 DEF BytesCounted

LEMMA CallCounts == ReaderInv /\ BytesCounted /\ Call => BytesCounted'
  <1> SUFFICES ASSUME ReaderInv, BytesCounted, Call PROVE BytesCounted'
    OBVIOUS
  <1>1. /\ pc = "idle" /\ pc' = "read" /\ rowsRead' = 0 /\ totalBytes' = 0 /\ currentBytes' = 0
        /\ UNCHANGED <<input, cursor, rows, last, at, batches>>
    BY DEF Call
  <1>2. rows = <<>> /\ Start \in Nat /\ FlushBytes \in Nat \ {0}
    BY <1>1, Counts, CsvAssumption DEF ReaderInv, AtRest
  <1>3. Start' = Start /\ \A b : Beg(b)' = Beg(b)
    BY <1>1 DEF Start, Beg
  <1>4. BytesIn(input, <<>>) = 0 /\ Span(Start, 0) = <<>>
    BY <1>2, NoBytes, SpanEmpty
  <1>5. pc' \in {"read", "flush"} =>
          /\ totalBytes' = BytesIn(input', Span(Start', rowsRead'))
          /\ rowsRead' > 1 => BytesIn(input', Span(Start', rowsRead' - 1)) < TargetBytes
    BY <1>1, <1>3, <1>4
  <1>6. \A b \in 1..Len(batches') :
          batches'[b].upto - Beg(b)' > 1
             => BytesIn(input', Span(Beg(b)', batches'[b].upto - Beg(b)' - 1)) < TargetBytes
    BY <1>1, <1>3 DEF BytesCounted
  <1> QED BY <1>1, <1>2, <1>4, <1>5, <1>6 DEF BytesCounted

LEMMA ReadRowCounts == ReaderInv /\ BytesCounted /\ ReadRow => BytesCounted'
  <1> SUFFICES ASSUME ReaderInv, BytesCounted, ReadRow PROVE BytesCounted'
    OBVIOUS
  <1> DEFINE row == input[cursor + 1]
  <1>1. /\ pc = "read" /\ WantsMore /\ cursor < Len(input)
        /\ UNCHANGED <<input, batches>>
    BY DEF ReadRow
  <1>2. /\ cursor \in Nat /\ rowsRead \in Nat /\ Start \in Nat /\ rows \in Seq(Nat)
        /\ cursor = Start + rowsRead
    BY <1>1, Counts DEF ReaderInv, Buffered
  <1>3. Start' = Start /\ \A b : Beg(b)' = Beg(b)
    BY <1>1 DEF Start, Beg
  <1>4. \A b \in 1..Len(batches') :
          batches'[b].upto - Beg(b)' > 1
             => BytesIn(input', Span(Beg(b)', batches'[b].upto - Beg(b)' - 1)) < TargetBytes
    BY <1>1, <1>3 DEF BytesCounted
  <1>5. CASE ~row.arity
    BY <1>1, <1>5, BytesStay DEF ReadRow
  <1>6. CASE row.arity
    <2>1. /\ rowsRead' = rowsRead + 1 /\ totalBytes' = totalBytes + row.bytes
          /\ rows' = Append(rows, cursor + 1)
          /\ IF currentBytes + row.bytes >= FlushBytes
             THEN currentBytes' = 0 /\ pc' = "flush"
             ELSE currentBytes' = currentBytes + row.bytes /\ pc' = "read"
      BY <1>1, <1>6 DEF ReadRow
    <2>2. row.bytes \in Nat
      <3>1. input \in Seq(Row) /\ cursor + 1 \in 1..Len(input)
        BY <1>1, <1>2, CsvAssumption DEF ReaderInv
      <3>2. row \in Row
        BY <3>1, ElementOfSeq
      <3> QED BY <3>2 DEF Row
    <2> HIDE DEF row
    <2>3. /\ currentBytes = BytesIn(input, rows) /\ currentBytes < FlushBytes /\ FlushBytes \in Nat
          /\ totalBytes = BytesIn(input, Span(Start, rowsRead))
          /\ currentBytes \in Nat /\ totalBytes \in Nat
      BY <1>1, CsvAssumption DEF BytesCounted, ReaderInv, TypeOK
    <2>4. Front(rows') = rows /\ BytesIn(input, rows') = BytesIn(input, rows) + row.bytes
      <3>1. cursor + 1 \in Nat
        BY <1>2
      <3> QED BY <1>2, <2>1, <3>1, FrontOfAppend, MoreBytes DEF row
    <2>5. BytesIn(input, Span(Start, rowsRead + 1)) = BytesIn(input, Span(Start, rowsRead)) + row.bytes
      <3>1. Span(Start, rowsRead + 1) = Append(Span(Start, rowsRead), cursor + 1)
        <4>1. Append(Span(Start, rowsRead), Start + rowsRead + 1) = Span(Start, rowsRead + 1)
          BY <1>2, SpanAppend
        <4> QED BY <1>2, <4>1
      <3>2. Span(Start, rowsRead) \in Seq(Nat) /\ cursor + 1 \in Nat
        BY <1>2, SpanType
      <3> QED BY <3>1, <3>2, MoreBytes DEF row
    <2>6. rows' # <<>> => BytesIn(input', Front(rows')) < FlushBytes
      BY <1>1, <2>3, <2>4
    <2>7. pc' = "read" => currentBytes' = BytesIn(input', rows') /\ currentBytes' < FlushBytes
      BY <1>1, <2>1, <2>2, <2>3, <2>4
    <2>8. pc' = "flush" /\ ~last' => currentBytes' = 0
      BY <2>1
    <2>9. totalBytes' = BytesIn(input', Span(Start', rowsRead'))
      BY <1>1, <1>3, <2>1, <2>3, <2>5
    <2>10. rowsRead' > 1 => BytesIn(input', Span(Start', rowsRead' - 1)) < TargetBytes
      <3>1. rowsRead' - 1 = rowsRead /\ (rowsRead' > 1 => rowsRead # 0)
        BY <1>2, <2>1
      <3>2. rowsRead # 0 => totalBytes < TargetBytes
        BY <1>1 DEF WantsMore
      <3> QED BY <1>1, <1>3, <2>3, <3>1, <3>2
    <2> QED BY <1>4, <2>6, <2>7, <2>8, <2>9, <2>10 DEF BytesCounted
  <1> QED BY <1>5, <1>6

LEMMA CloseLoopCounts == BytesCounted /\ CloseLoop => BytesCounted'
  BY BytesStay DEF CloseLoop

LEMMA ConvertCounts == ASSUME NEW f \in 1..NFuncs PROVE BytesCounted /\ ConvertColumn(f) => BytesCounted'
  BY BytesStay DEF ConvertColumn

LEMMA EndFlushCounts == ReaderInv /\ BytesCounted /\ EndFlush => BytesCounted'
  <1> SUFFICES ASSUME ReaderInv, BytesCounted, EndFlush PROVE BytesCounted'
    OBVIOUS
  <1>1. /\ pc = "flush" /\ ~last /\ rows' = <<>> /\ pc' = "read"
        /\ UNCHANGED <<input, cursor, rowsRead, totalBytes, currentBytes, last, batches>>
    BY DEF EndFlush
  <1>2. Start' = Start /\ \A b : Beg(b)' = Beg(b)
    BY <1>1 DEF Start, Beg
  <1>3. BytesIn(input, <<>>) = 0 /\ FlushBytes \in Nat \ {0}
    BY NoBytes, CsvAssumption
  <1>4. currentBytes' = BytesIn(input', rows') /\ currentBytes' < FlushBytes
    BY <1>1, <1>3 DEF BytesCounted
  <1>5. /\ totalBytes' = BytesIn(input', Span(Start', rowsRead'))
        /\ rowsRead' > 1 => BytesIn(input', Span(Start', rowsRead' - 1)) < TargetBytes
    BY <1>1, <1>2 DEF BytesCounted
  <1>6. \A b \in 1..Len(batches') :
          batches'[b].upto - Beg(b)' > 1
             => BytesIn(input', Span(Beg(b)', batches'[b].upto - Beg(b)' - 1)) < TargetBytes
    BY <1>1, <1>2 DEF BytesCounted
  <1> QED BY <1>1, <1>4, <1>5, <1>6 DEF BytesCounted

LEMMA FinishCounts == ReaderInv /\ BytesCounted /\ Finish => BytesCounted'
  <1> SUFFICES ASSUME ReaderInv, BytesCounted, Finish PROVE BytesCounted'
    OBVIOUS
  <1>1. /\ pc = "flush" /\ rows' = <<>>
        /\ UNCHANGED <<input, cursor, rowsRead, totalBytes, currentBytes, last>>
    BY DEF Finish
  <1>2. CASE UNCHANGED batches /\ pc' \in {"end", "threw"}
    BY <1>1, <1>2, BytesStay
  <1>3. CASE /\ pc' = "idle" /\ rowsRead # 0
             /\ batches' = Append(batches, [upto |-> cursor, columns |-> columns])
    <2> DEFINE n == Len(batches)
               S == [upto : 1..cursor, columns : [1..NCols -> Seq(1..cursor)]]
               new == [upto |-> cursor, columns |-> columns]
    <2>1. /\ cursor \in Nat /\ rowsRead \in Nat /\ Start \in Nat /\ cursor = Start + rowsRead
          /\ columns \in [1..NCols -> Seq(1..cursor)] /\ batches \in Seq(S)
      BY <1>1, Counts DEF ReaderInv, Buffered, TypeOK
    <2>2. new \in S
      BY <1>3, <2>1
    <2> HIDE DEF S, new
    <2>3. n \in Nat /\ Len(batches') = n + 1 /\ batches'[n + 1] = new /\ \A b \in 1..n : batches'[b] = batches[b]
      BY <1>3, <2>1, <2>2, AppendProperties, LenProperties DEF new
    <2>4. ASSUME NEW b \in 1..n PROVE Beg(b)' = Beg(b) /\ batches'[b] = batches[b]
      <3>1. b # 1 => b - 1 \in 1..n
        BY <2>3
      <3> QED BY <2>3, <3>1 DEF Beg
    <2>5. ASSUME NEW b \in Nat, b = n + 1 PROVE Beg(b)' = Start
      <3>1. CASE n = 0
        <4>1. batches = <<>> /\ b = 1
          BY <2>1, <2>5, <3>1, EmptySeq
        <4>2. Start = 0
          BY <4>1 DEF Start
        <4> QED BY <4>1, <4>2 DEF Beg
      <3>2. CASE n # 0
        <4>1. n \in 1..n /\ b # 1 /\ b - 1 = n
          BY <2>3, <2>5, <3>2
        <4>2. Start = batches[n].upto
          <5>1. batches # <<>>
            BY <3>2
          <5> QED BY <5>1 DEF Start
        <4>3. Beg(b)' = batches'[b - 1].upto
          BY <4>1 DEF Beg
        <4> QED BY <2>3, <4>1, <4>2, <4>3
      <3> QED BY <3>1, <3>2
    <2>6. new.upto = cursor
      BY DEF new
    <2>7. ASSUME NEW b \in 1..Len(batches')
          PROVE  batches'[b].upto - Beg(b)' > 1
                    => BytesIn(input', Span(Beg(b)', batches'[b].upto - Beg(b)' - 1)) < TargetBytes
      <3>1. CASE b \in 1..n
        BY <1>1, <2>4, <3>1 DEF BytesCounted
      <3>2. CASE b = n + 1
        <4>1. batches'[b].upto = cursor /\ Beg(b)' = Start /\ cursor - Start = rowsRead
          <5>1. batches'[b].upto = cursor /\ Beg(b)' = Start
            BY <2>3, <2>5, <2>6, <3>2
          <5>2. cursor - Start = rowsRead
            BY <2>1
          <5> QED BY <5>1, <5>2
        <4> QED BY <1>1, <4>1 DEF BytesCounted
      <3> QED BY <2>3, <3>1, <3>2
    <2> QED BY <1>1, <1>3, <2>7 DEF BytesCounted
  <1> QED BY <1>2, <1>3 DEF Finish

LEMMA CountsStay == BytesCounted /\ UNCHANGED vars => BytesCounted'
  BY BytesStay DEF vars

-----------------------------------------------------------------------------
(* What the invariant implies.                                             *)

\* The rows of a batch, and its columns.
LEMMA BatchRows ==
    ASSUME ReaderInv, NEW b \in DOMAIN batches
    PROVE  /\ BatchHolds(b)
           /\ Beg(b) \in Nat /\ batches[b].upto \in Nat /\ Beg(b) < batches[b].upto
           /\ RowsOf(b) = Span(Beg(b), batches[b].upto - Beg(b))
           /\ ToSet(RowsOf(b)) = (Beg(b) + 1)..batches[b].upto
           /\ \A c \in 1..NCols : batches[b].columns[c] \in Seq(Nat)
  <1> DEFINE S == [upto : 1..cursor, columns : [1..NCols -> Seq(1..cursor)]]
             up == batches[b].upto
  <1>1. batches \in Seq(S) /\ Len(batches) \in Nat /\ cursor \in Nat
    <2>1. batches \in Seq(S) /\ cursor \in Nat
      BY Counts DEF ReaderInv, TypeOK
    <2> HIDE DEF S
    <2> QED BY <2>1, LenProperties
  <1>2. b \in 1..Len(batches) /\ b \in Nat
    <2> HIDE DEF S
    <2> QED BY <1>1
  <1>3. \A d \in 1..Len(batches) : batches[d] \in S
    <2> HIDE DEF S
    <2> QED BY <1>1, ElementOfSeq
  <1>4. BatchHolds(b) /\ Beg(b) < up
    BY <1>2 DEF ReaderInv, BatchesHold, BatchHolds
  <1>5. up \in Nat /\ up \in 1..cursor /\ Beg(b) \in Nat
    <2>1. up \in 1..cursor
      BY <1>2, <1>3
    <2>2. b # 1 => b - 1 \in 1..Len(batches)
      BY <1>1, <1>2
    <2>3. b # 1 => batches[b - 1].upto \in 1..cursor
      BY <1>3, <2>2
    <2> QED BY <1>1, <2>1, <2>3 DEF Beg
  <1>6. \A c \in 1..NCols : batches[b].columns[c] \in Seq(Nat)
    <2> TAKE c \in 1..NCols
    <2>1. batches[b].columns[c] \in Seq(1..cursor)
      BY <1>2, <1>3
    <2> QED BY <1>1, <2>1, RowsWiden
  <1>7. RowsOf(b) = Span(Beg(b), up - Beg(b))
    <2> DEFINE beg == IF b = 1 THEN 1 ELSE batches[b - 1].upto + 1
    <2>1. beg = Beg(b) + 1
      BY DEF Beg
    <2>2. RowsOf(b) = [k \in 1..(up + 1 - beg) |-> beg + k - 1]
      BY DEF RowsOf
    <2> HIDE DEF beg, up
    <2>3. up + 1 - beg = up - Beg(b) /\ \A k \in 1..(up - Beg(b)) : beg + k - 1 = Beg(b) + k
      BY <1>4, <1>5, <2>1
    <2>4. RowsOf(b) = [k \in 1..(up - Beg(b)) |-> Beg(b) + k]
      BY <2>2, <2>3
    <2> QED BY <2>4 DEF Span
  <1>8. ToSet(RowsOf(b)) = (Beg(b) + 1)..up
    <2> DEFINE n == up - Beg(b)
    <2>1. n \in Nat /\ up = Beg(b) + n
      BY <1>4, <1>5
    <2>2. RowsOf(b) = [k \in 1..n |-> Beg(b) + k]
      BY <1>7 DEF Span
    <2> HIDE DEF n
    <2>3. ToSet(RowsOf(b)) = {Beg(b) + k : k \in 1..n}
      BY <2>2 DEF ToSet
    <2>4. ASSUME NEW r \in (Beg(b) + 1)..up PROVE \E k \in 1..n : r = Beg(b) + k
      <3>1. r - Beg(b) \in 1..n /\ r = Beg(b) + (r - Beg(b))
        BY <1>5, <2>1
      <3> QED BY <3>1
    <2>5. \A k \in 1..n : Beg(b) + k \in (Beg(b) + 1)..up
      BY <1>5, <2>1
    <2> QED BY <2>3, <2>4, <2>5
  <1> QED BY <1>4, <1>5, <1>6, <1>7, <1>8

\* A column that is complete has the rows of its batch.
LEMMA WholeColumn ==
    ASSUME ReaderInv, NEW b \in DOMAIN batches, NEW c \in 1..NCols
    PROVE  Beg(b) + Len(batches[b].columns[c]) = batches[b].upto
             <=> batches[b].columns[c] = RowsOf(b)
  <1> DEFINE col == batches[b].columns[c]
             n   == batches[b].upto - Beg(b)
  <1>1. /\ col \in Seq(Nat) /\ Beg(b) \in Nat /\ batches[b].upto \in Nat /\ Beg(b) < batches[b].upto
        /\ RowsOf(b) = Span(Beg(b), n) /\ Holds(input, col, Beg(b), batches[b].upto)
    BY BatchRows DEF BatchHolds
  <1>2. n \in Nat /\ batches[b].upto = Beg(b) + n /\ Len(col) \in Nat
    BY <1>1, SMTT(30)
  <1>3. Span(Beg(b), n) \in Seq(Nat) /\ Len(Span(Beg(b), n)) = n
        /\ \A k \in 1..n : Span(Beg(b), n)[k] = Beg(b) + k
    <2> HIDE DEF n
    <2> QED BY <1>1, <1>2, SpanType
  <1> HIDE DEF col, n
  <1>4. ASSUME Beg(b) + Len(col) = batches[b].upto PROVE col = Span(Beg(b), n)
    <2>1. Len(col) = n
      BY <1>1, <1>2, <1>4
    <2>2. \A k \in 1..Len(col) : col[k] = Beg(b) + k
      BY <1>1, <1>4 DEF Holds
    <2>3. \A k \in 1..n : col[k] = Span(Beg(b), n)[k]
      BY <1>3, <2>1, <2>2
    <2> QED BY <1>1, <1>3, <2>1, <2>3, SeqEqual
  <1>5. ASSUME col = Span(Beg(b), n) PROVE Beg(b) + Len(col) = batches[b].upto
    BY <1>2, <1>3, <1>5
  <1> QED BY <1>1, <1>4, <1>5 DEF col

LEMMA InvDelivers == ReaderInv => CleanRowsDelivered
  <1> SUFFICES ASSUME ReaderInv PROVE CleanRowsDelivered
    OBVIOUS
  <1>1. ASSUME NEW b \in DOMAIN batches, Clean(RowsOf(b)), NEW c \in 1..NCols
        PROVE  batches[b].columns[c] = RowsOf(b)
    <2>1. \A r \in (Beg(b) + 1)..batches[b].upto : input[r].bad = {}
      BY <1>1, BatchRows DEF Clean
    <2>2. /\ batches[b].columns[c] \in Seq(Nat) /\ Beg(b) \in Nat /\ batches[b].upto \in Nat
          /\ Holds(input, batches[b].columns[c], Beg(b), batches[b].upto)
      BY <1>1, BatchRows DEF BatchHolds
    <2>3. Beg(b) + Len(batches[b].columns[c]) = batches[b].upto
      <3>1. Len(batches[b].columns[c]) \in Nat
        BY <2>2, LenProperties
      <3>2. ASSUME Beg(b) + Len(batches[b].columns[c]) < batches[b].upto PROVE FALSE
        <4>1. PICK r \in (Beg(b) + 1)..batches[b].upto : input[r].bad # {}
          BY <2>2, <3>2 DEF Holds
        <4> QED BY <2>1, <4>1
      <3>3. Beg(b) + Len(batches[b].columns[c]) <= batches[b].upto
        BY <2>2 DEF Holds
      <3> QED BY <2>2, <3>1, <3>2, <3>3
    <2> QED BY <1>1, <2>3, WholeColumn
  <1>2. pc = "end" => IF batches = <<>> THEN cursor = 0 ELSE Last(batches).upto = cursor
    BY DEF ReaderInv, AtRest, Start, Last
  <1> QED BY <1>1, <1>2 DEF CleanRowsDelivered

LEMMA InvDetects == ReaderInv => PartialLossDetected
  <1> SUFFICES ASSUME ReaderInv, NEW b \in DOMAIN batches,
                      NEW d \in 1..NCols, batches[b].columns[d] = RowsOf(b),
                      NEW c \in 1..NCols
               PROVE  batches[b].columns[c] = RowsOf(b)
    BY DEF PartialLossDetected
  <1>1. Len(batches[b].columns[c]) = Len(batches[b].columns[d])
    BY BatchRows DEF BatchHolds
  <1>2. Beg(b) + Len(batches[b].columns[d]) = batches[b].upto
    BY WholeColumn
  <1>3. Beg(b) + Len(batches[b].columns[c]) = batches[b].upto
    BY <1>1, <1>2
  <1> QED BY <1>3, WholeColumn

LEMMA InvOrders == ReaderInv => ColumnsInOrder
  <1> SUFFICES ASSUME ReaderInv PROVE ColumnsInOrder
    OBVIOUS
  <1>1. ASSUME NEW b \in DOMAIN batches, NEW c \in 1..NCols
        PROVE  LET col == batches[b].columns[c] IN
                 /\ ToSet(col) \subseteq ToSet(RowsOf(b))
                 /\ \A i, j \in 1..Len(col) : i < j => col[i] < col[j]
    <2> DEFINE col == batches[b].columns[c]
    <2>1. /\ col \in Seq(Nat) /\ Beg(b) \in Nat /\ batches[b].upto \in Nat
          /\ ToSet(RowsOf(b)) = (Beg(b) + 1)..batches[b].upto
          /\ Holds(input, col, Beg(b), batches[b].upto)
      BY <1>1, BatchRows DEF BatchHolds
    <2> HIDE DEF col
    <2>2. ToSet(col) \subseteq ToSet(RowsOf(b))
      <3> SUFFICES ASSUME NEW k \in DOMAIN col PROVE col[k] \in ToSet(RowsOf(b))
        BY DEF ToSet
      <3>1. k \in 1..Len(col) /\ col[k] \in Nat
        BY <2>1, ElementOfSeq, LenProperties
      <3>2. Beg(b) < col[k] /\ col[k] <= batches[b].upto
        BY <2>1, <3>1 DEF Holds
      <3> QED BY <2>1, <3>1, <3>2
    <2>3. \A i, j \in 1..Len(col) : i < j => col[i] < col[j]
      BY <2>1 DEF Holds
    <2> QED BY <2>2, <2>3 DEF col
  <1>2. ColumnsRise
    BY DEF ReaderInv
  <1> QED BY <1>1, <1>2 DEF ColumnsInOrder, ColumnsRise

LEMMA InvBounds == ReaderInv /\ BytesCounted => BuffersBounded
  <1> SUFFICES ASSUME ReaderInv, BytesCounted PROVE BuffersBounded
    OBVIOUS
  <1>1. \A rs : BytesOf(rs) = BytesIn(input, rs)
    BY DEF BytesOf, BytesIn, SumOf
  <1>2. ASSUME NEW b \in DOMAIN batches
        PROVE  Len(RowsOf(b)) = 1 \/ BytesIn(input, Front(RowsOf(b))) < TargetBytes
    <2> DEFINE n == batches[b].upto - Beg(b)
    <2>1. /\ Beg(b) \in Nat /\ n \in Nat \ {0} /\ RowsOf(b) = Span(Beg(b), n)
      BY BatchRows
    <2>2. b \in 1..Len(batches)
      BY DEF ReaderInv, TypeOK
    <2>3. n > 1 => BytesIn(input, Span(Beg(b), n - 1)) < TargetBytes
      BY <2>2 DEF BytesCounted
    <2> HIDE DEF n
    <2>4. Len(RowsOf(b)) = n
      BY <2>1, SpanType
    <2>5. Front(RowsOf(b)) = Span(Beg(b), n - 1)
      <3>1. n - 1 \in Nat /\ (n - 1) + 1 = n
        BY <2>1
      <3> QED BY <2>1, <3>1, FrontOfSpan
    <2>6. n = 1 \/ n > 1
      BY <2>1
    <2> QED BY <2>3, <2>4, <2>5, <2>6
  <1> QED BY <1>1, <1>2 DEF BytesCounted, BuffersBounded

-----------------------------------------------------------------------------
(* The consumer of CsvInput calls the reader as SourceSpec lets it.        *)

LEMMA StepOfSource == [InputNext]_InputVars => [SourceNext]_svars
  <1> SUFFICES ASSUME [InputNext]_InputVars PROVE [SourceNext]_svars
    OBVIOUS
  <1>1. CASE CallNext \/ StopReading \/ Convert \/ AfterFlush \/ TakeThrow
    BY <1>1 DEF CallNext, StopReading, Convert, AfterFlush, TakeThrow
  <1>2. CASE AskRow
    BY <1>2 DEF AskRow, SourceNext
  <1>3. CASE TakeRow \/ TakeFalse
    BY <1>3 DEF TakeRow, TakeFalse, SourceNext
  <1>4. CASE Release
    BY <1>4 DEF Release, SourceNext
  <1>5. CASE SourceStep
    BY <1>5 DEF SourceStep, SourceNext
  <1>6. CASE UNCHANGED InputVars
    BY <1>6 DEF InputVars
  <1> QED BY <1>1, <1>2, <1>3, <1>4, <1>5, <1>6 DEF InputNext

\* Every behaviour of CsvReader::Next and its reader is one of the reader.
THEOREM SourceImplemented == InputSpec => SourceSpec
  <1>1. InputInit => SourceInit
    BY DEF InputInit
  <1> QED BY <1>1, StepOfSource, PTL DEF InputSpec, SourceSpec

-----------------------------------------------------------------------------
(* What the consumer has been given when it is told that there is no more. *)

\* Places the consumer comes to when it has found the deque empty.
FoundEmpty == {"waitable", "wait", "lock", "join", "rethrow", "decide", "false"}

\* The rows of a window are pushed before the next one is read; the end of the input
\* is reported when the last window has been pushed.
WindowByWindow ==
    /\ parsed > 0 => pushed >= RowsUpTo(parsed - 1)
    /\ wpc \in {"push", "end"} => parsed > 0
    /\ eof => parsed = Len(feed) /\ wpc \notin {"begin", "read", "push"}
    /\ cpc = "false" => eof

\* When the deque was found empty, all windows but the one at hand had been taken:
\* the thread reads one window in its life.
TakenBefore ==
    cpc \in FoundEmpty =>
        /\ parsed > 0 => Len(given) >= RowsUpTo(parsed - 1)
        /\ wpc \in {"begin", "read"} => Len(given) >= RowsUpTo(parsed)

\* An input of one window has been parsed when the constructor returns.
OneWindow ==
    Len(feed) = 1 =>
        /\ cpc = "construct" /\ wpc = "end" => eof
        /\ cpc = "construct" /\ wpc = "over" => eof \/ exception
        /\ cpc \notin {"construct", "broken"} => wpc = "none" /\ eof
        /\ cpc \in FoundEmpty => Len(given) = RowsUpTo(1)

TailInv == WindowByWindow /\ TakenBefore /\ OneWindow

LEMMA TailInit == SourceInit => TailInv
  <1> SUFFICES ASSUME SourceInit PROVE TailInv
    OBVIOUS
  <1> QED BY DEF SourceInit, TailInv, WindowByWindow, TakenBefore, OneWindow, FoundEmpty

\* The numbers of the rows.
LEMMA SourceCounts ==
    ASSUME SourceInv
    PROVE  /\ Len(feed) \in Nat \ {0} /\ parsed \in 0..Len(feed)
           /\ pushed \in Nat /\ left \in Nat /\ Len(given) \in Nat
           /\ RowsUpTo(0) = 0 /\ RowsUpTo(parsed) \in Nat /\ pushed + left = RowsUpTo(parsed)
           /\ parsed > 0 => RowsUpTo(parsed - 1) \in Nat
           /\ Len(given) <= pushed
           /\ records = <<>> => Len(given) = pushed
  <1>1. feed \in Seq(Nat) /\ feed # <<>> /\ parsed \in 0..Len(feed)
    BY FeedsAssumption DEF SourceInv, SourceTypeOK
  <1>2. Len(feed) \in Nat \ {0}
    BY <1>1, LenProperties, EmptySeq
  <1>3. pushed \in Nat /\ left \in Nat /\ given \in Seq(Nat) /\ records \in Seq(Nat)
    BY DEF SourceInv, SourceTypeOK
  <1>4. Len(given) \in Nat /\ Len(records) \in Nat /\ Len(given \o records) = Len(given) + Len(records)
    BY <1>3, LenProperties, ConcatProperties
  <1>5. given \o records = [k \in 1..pushed |-> k] /\ pushed + left = RowsUpTo(parsed)
    BY DEF SourceInv, RowsConserved
  <1>6. Len([k \in 1..pushed |-> k]) = pushed
    BY <1>3
  <1> HIDE DEF SourceInv
  <1>7. Len(given) + Len(records) = pushed
    <2> DEFINE both == given \o records
    <2>1. Len(both) = Len(given) + Len(records) /\ both = [k \in 1..pushed |-> k]
      BY <1>4, <1>5
    <2> HIDE DEF both
    <2> QED BY <1>6, <2>1
  <1>8. records = <<>> => Len(records) = 0
    OBVIOUS
  <1>9. RowsUpTo(parsed) \in Nat /\ (parsed > 0 => RowsUpTo(parsed - 1) \in Nat)
    BY WindowRows DEF SourceInv
  <1>10. RowsUpTo(0) = 0
    BY DEF RowsUpTo
  <1> QED BY <1>1, <1>2, <1>3, <1>4, <1>5, <1>7, <1>8, <1>9, <1>10

LEMMA TailStep == SourceInv /\ TailInv /\ [SourceNext]_svars => TailInv'
  <1> SUFFICES ASSUME SourceInv, TailInv, [SourceNext]_svars PROVE TailInv'
    OBVIOUS
  <1> USE DEF TailInv, FoundEmpty
  <1>0. /\ Len(feed) \in Nat \ {0} /\ parsed \in 0..Len(feed)
        /\ pushed \in Nat /\ left \in Nat /\ Len(given) \in Nat
        /\ RowsUpTo(0) = 0 /\ RowsUpTo(parsed) \in Nat /\ pushed + left = RowsUpTo(parsed)
        /\ parsed > 0 => RowsUpTo(parsed - 1) \in Nat
        /\ records = <<>> => Len(given) = pushed
    BY SourceCounts
  <1>1. CASE Begin
    <2>1. WindowByWindow'
      BY <1>0, <1>1 DEF Begin, parserVars, dequeVars, WindowByWindow, RowsUpTo
    <2>2. TakenBefore'
      BY <1>0, <1>1 DEF Begin, parserVars, dequeVars, WindowByWindow, TakenBefore, RowsUpTo
    <2>3. OneWindow'
      BY <1>0, <1>1 DEF Begin, parserVars, dequeVars, WindowByWindow, OneWindow, RowsUpTo
    <2> QED BY <2>1, <2>2, <2>3
  <1>2. CASE ReadFails
    <2>1. WindowByWindow'
      BY <1>0, <1>2 DEF ReadFails, parserVars, dequeVars, WindowByWindow, RowsUpTo
    <2>2. TakenBefore'
      BY <1>0, <1>2 DEF ReadFails, parserVars, dequeVars, WindowByWindow, TakenBefore, RowsUpTo
    <2>3. OneWindow'
      BY <1>0, <1>2 DEF ReadFails, parserVars, dequeVars, WindowByWindow, OneWindow, RowsUpTo
    <2> QED BY <2>1, <2>2, <2>3
  <1>3. CASE End
    <2>1. WindowByWindow'
      BY <1>0, <1>3 DEF End, KillAll, parserVars, dequeVars, WindowByWindow, RowsUpTo
    <2>2. TakenBefore'
      BY <1>0, <1>3 DEF End, KillAll, parserVars, dequeVars, WindowByWindow, TakenBefore, RowsUpTo
    <2>3. OneWindow'
      BY <1>0, <1>3 DEF End, KillAll, parserVars, dequeVars, WindowByWindow, OneWindow, RowsUpTo
    <2> QED BY <2>1, <2>2, <2>3
  <1>4. CASE Catch
    <2>1. WindowByWindow'
      BY <1>0, <1>4 DEF Catch, KillAll, parserVars, dequeVars, WindowByWindow, RowsUpTo
    <2>2. TakenBefore'
      BY <1>0, <1>4 DEF Catch, KillAll, parserVars, dequeVars, WindowByWindow, TakenBefore, RowsUpTo
    <2>3. OneWindow'
      BY <1>0, <1>4 DEF Catch, KillAll, parserVars, dequeVars, WindowByWindow, OneWindow, RowsUpTo
    <2> QED BY <2>1, <2>2, <2>3
  <1>5. CASE Adopt
    <2>1. WindowByWindow'
      BY <1>0, <1>5 DEF Adopt, parserVars, dequeVars, WindowByWindow, RowsUpTo
    <2>2. TakenBefore'
      BY <1>0, <1>5 DEF Adopt, parserVars, dequeVars, WindowByWindow, TakenBefore, RowsUpTo
    <2>3. OneWindow'
      BY <1>0, <1>5 DEF Adopt, parserVars, dequeVars, WindowByWindow, OneWindow, RowsUpTo
    <2> QED BY <2>1, <2>2, <2>3
  <1>6. CASE Construct
    <2>1. WindowByWindow'
      BY <1>0, <1>6 DEF Construct, Joinable, parserVars, dequeVars, WindowByWindow, RowsUpTo
    <2>2. TakenBefore'
      BY <1>0, <1>6 DEF Construct, Joinable, parserVars, dequeVars, WindowByWindow, TakenBefore, RowsUpTo
    <2>3. OneWindow'
      BY <1>0, <1>6 DEF Construct, Joinable, parserVars, dequeVars, WindowByWindow, OneWindow, RowsUpTo
    <2> QED BY <2>1, <2>2, <2>3
  <1>7. CASE CallReadRow
    <2>1. WindowByWindow'
      BY <1>0, <1>7 DEF CallReadRow, parserVars, dequeVars, WindowByWindow, RowsUpTo
    <2>2. TakenBefore'
      BY <1>0, <1>7 DEF CallReadRow, parserVars, dequeVars, WindowByWindow, TakenBefore, RowsUpTo
    <2>3. OneWindow'
      BY <1>0, <1>7 DEF CallReadRow, parserVars, dequeVars, WindowByWindow, OneWindow, RowsUpTo
    <2> QED BY <2>1, <2>2, <2>3
  <1>8. CASE LoadEmpty
    <2>1. WindowByWindow'
      BY <1>0, <1>8 DEF LoadEmpty, parserVars, dequeVars, WindowByWindow, RowsUpTo
    <2>2. /\ cpc = "empty" /\ cpc' \in {"waitable", "pop"}
          /\ UNCHANGED <<feed, parsed, pushed, left, eof, wpc, given, exception>>
      BY <1>8 DEF LoadEmpty, parserVars, dequeVars
    <2>3. cpc' = "waitable" => Len(given) = pushed
      <3>1. cpc' = "waitable" => isEmpty
        BY <1>8, Zenon DEF LoadEmpty
      <3>2. isEmpty => records = <<>>
        BY Zenon DEF SourceInv, FlagIsTrue
      <3> QED BY <1>0, <3>1, <3>2
    <2>4. wpc # "push" => left = 0
      BY DEF SourceInv, WindowDone
    <2>5. TakenBefore'
      BY <1>0, <2>2, <2>3, <2>4 DEF TakenBefore, WindowByWindow, RowsUpTo
    <2>6. OneWindow'
      BY <1>0, <2>2, <2>3, <2>4 DEF OneWindow, WindowByWindow, RowsUpTo
    <2> QED BY <2>1, <2>5, <2>6
  <1>9. CASE LoadWaitable
    <2>1. WindowByWindow'
      BY <1>0, <1>9 DEF LoadWaitable, parserVars, dequeVars, WindowByWindow, RowsUpTo
    <2>2. TakenBefore'
      BY <1>0, <1>9 DEF LoadWaitable, parserVars, dequeVars, WindowByWindow, TakenBefore, RowsUpTo
    <2>3. OneWindow'
      BY <1>0, <1>9 DEF LoadWaitable, parserVars, dequeVars, WindowByWindow, OneWindow, RowsUpTo
    <2> QED BY <2>1, <2>2, <2>3
  <1>10. CASE EnterWait
    <2>1. WindowByWindow'
      BY <1>0, <1>10 DEF EnterWait, parserVars, dequeVars, WindowByWindow, RowsUpTo
    <2>2. TakenBefore'
      BY <1>0, <1>10 DEF EnterWait, parserVars, dequeVars, WindowByWindow, TakenBefore, RowsUpTo
    <2>3. OneWindow'
      BY <1>0, <1>10 DEF EnterWait, parserVars, dequeVars, WindowByWindow, OneWindow, RowsUpTo
    <2> QED BY <2>1, <2>2, <2>3
  <1>11. CASE Wait
    <2>1. WindowByWindow'
      BY <1>0, <1>11 DEF Wait, parserVars, dequeVars, WindowByWindow, RowsUpTo
    <2>2. TakenBefore'
      BY <1>0, <1>11 DEF Wait, parserVars, dequeVars, WindowByWindow, TakenBefore, RowsUpTo
    <2>3. OneWindow'
      BY <1>0, <1>11 DEF Wait, parserVars, dequeVars, WindowByWindow, OneWindow, RowsUpTo
    <2> QED BY <2>1, <2>2, <2>3
  <1>12. CASE SpuriousWakeup
    <2>1. WindowByWindow'
      BY <1>0, <1>12 DEF SpuriousWakeup, parserVars, dequeVars, WindowByWindow, RowsUpTo
    <2>2. TakenBefore'
      BY <1>0, <1>12 DEF SpuriousWakeup, parserVars, dequeVars, WindowByWindow, TakenBefore, RowsUpTo
    <2>3. OneWindow'
      BY <1>0, <1>12 DEF SpuriousWakeup, parserVars, dequeVars, WindowByWindow, OneWindow, RowsUpTo
    <2> QED BY <2>1, <2>2, <2>3
  <1>13. CASE Join
    <2>1. WindowByWindow'
      BY <1>0, <1>13 DEF Join, parserVars, dequeVars, WindowByWindow, RowsUpTo
    <2>2. TakenBefore'
      BY <1>0, <1>13 DEF Join, parserVars, dequeVars, WindowByWindow, TakenBefore, RowsUpTo
    <2>3. OneWindow'
      BY <1>0, <1>13 DEF Join, parserVars, dequeVars, WindowByWindow, OneWindow, RowsUpTo
    <2> QED BY <2>1, <2>2, <2>3
  <1>14. CASE Rethrow
    <2>1. WindowByWindow'
      BY <1>0, <1>14 DEF Rethrow, parserVars, dequeVars, WindowByWindow, RowsUpTo
    <2>2. TakenBefore'
      BY <1>0, <1>14 DEF Rethrow, parserVars, dequeVars, WindowByWindow, TakenBefore, RowsUpTo
    <2>3. OneWindow'
      BY <1>0, <1>14 DEF Rethrow, parserVars, dequeVars, WindowByWindow, OneWindow, RowsUpTo
    <2> QED BY <2>1, <2>2, <2>3
  <1>15. CASE AnswerFalse
    <2>1. WindowByWindow'
      BY <1>0, <1>15 DEF AnswerFalse, parserVars, dequeVars, WindowByWindow, RowsUpTo
    <2>2. TakenBefore'
      BY <1>0, <1>15 DEF AnswerFalse, parserVars, dequeVars, WindowByWindow, TakenBefore, RowsUpTo
    <2>3. OneWindow'
      BY <1>0, <1>15 DEF AnswerFalse, parserVars, dequeVars, WindowByWindow, OneWindow, RowsUpTo
    <2> QED BY <2>1, <2>2, <2>3
  <1>16. CASE AnswerTooLarge
    <2>1. WindowByWindow'
      BY <1>0, <1>16 DEF AnswerTooLarge, Barren, parserVars, dequeVars, WindowByWindow, RowsUpTo
    <2>2. TakenBefore'
      BY <1>0, <1>16 DEF AnswerTooLarge, Barren, parserVars, dequeVars, WindowByWindow, TakenBefore, RowsUpTo
    <2>3. OneWindow'
      BY <1>0, <1>16 DEF AnswerTooLarge, Barren, parserVars, dequeVars, WindowByWindow, OneWindow, RowsUpTo
    <2> QED BY <2>1, <2>2, <2>3
  <1>17. CASE StartThread
    <2>1. WindowByWindow'
      BY <1>0, <1>17 DEF StartThread, Barren, parserVars, dequeVars, WindowByWindow, RowsUpTo
    <2>2. TakenBefore'
      BY <1>0, <1>17 DEF StartThread, Barren, parserVars, dequeVars, WindowByWindow, TakenBefore, RowsUpTo
    <2>3. OneWindow'
      BY <1>0, <1>17 DEF StartThread, Barren, parserVars, dequeVars, WindowByWindow, OneWindow, RowsUpTo
    <2> QED BY <2>1, <2>2, <2>3
  <1>18. CASE Started
    <2>1. WindowByWindow'
      BY <1>0, <1>18 DEF Started, parserVars, dequeVars, WindowByWindow, RowsUpTo
    <2>2. TakenBefore'
      BY <1>0, <1>18 DEF Started, parserVars, dequeVars, WindowByWindow, TakenBefore, RowsUpTo
    <2>3. OneWindow'
      BY <1>0, <1>18 DEF Started, parserVars, dequeVars, WindowByWindow, OneWindow, RowsUpTo
    <2> QED BY <2>1, <2>2, <2>3
  <1>19. CASE Resume
    <2>1. WindowByWindow'
      BY <1>0, <1>19 DEF Resume, parserVars, dequeVars, WindowByWindow, RowsUpTo
    <2>2. TakenBefore'
      BY <1>0, <1>19 DEF Resume, parserVars, dequeVars, WindowByWindow, TakenBefore, RowsUpTo
    <2>3. OneWindow'
      BY <1>0, <1>19 DEF Resume, parserVars, dequeVars, WindowByWindow, OneWindow, RowsUpTo
    <2> QED BY <2>1, <2>2, <2>3
  <1>20. CASE Destroy
    <2>1. WindowByWindow'
      BY <1>0, <1>20 DEF Destroy, parserVars, dequeVars, WindowByWindow, RowsUpTo
    <2>2. TakenBefore'
      BY <1>0, <1>20 DEF Destroy, parserVars, dequeVars, WindowByWindow, TakenBefore, RowsUpTo
    <2>3. OneWindow'
      BY <1>0, <1>20 DEF Destroy, parserVars, dequeVars, WindowByWindow, OneWindow, RowsUpTo
    <2> QED BY <2>1, <2>2, <2>3
  <1>21. CASE JoinLast
    <2>1. WindowByWindow'
      BY <1>0, <1>21 DEF JoinLast, parserVars, dequeVars, WindowByWindow, RowsUpTo
    <2>2. TakenBefore'
      BY <1>0, <1>21 DEF JoinLast, parserVars, dequeVars, WindowByWindow, TakenBefore, RowsUpTo
    <2>3. OneWindow'
      BY <1>0, <1>21 DEF JoinLast, parserVars, dequeVars, WindowByWindow, OneWindow, RowsUpTo
    <2> QED BY <2>1, <2>2, <2>3
  <1>22. CASE EndWindow
    <2>1. WindowByWindow'
      BY <1>0, <1>22 DEF EndWindow, parserVars, dequeVars, WindowByWindow, RowsUpTo
    <2>2. TakenBefore'
      BY <1>0, <1>22 DEF EndWindow, parserVars, dequeVars, WindowByWindow, TakenBefore, RowsUpTo
    <2>3. OneWindow'
      <3>1. wpc = "push" /\ wpc' = "end" /\ feed' = feed /\ cpc' = cpc
        BY <1>22 DEF EndWindow
      <3>2. Len(feed) = 1 => cpc \in {"construct", "broken"} /\ parsed = Len(feed)
        BY <1>0, <3>1 DEF OneWindow, WindowByWindow
      <3>3. parsed = Len(feed) => eof'
        BY <1>22, Zenon DEF EndWindow
      <3> QED BY <3>1, <3>2, <3>3 DEF OneWindow
    <2> QED BY <2>1, <2>2, <2>3
  <1>23. CASE ReadWindow
    <2>1. WindowByWindow'
      <3>1. /\ wpc = "read" /\ wpc' = "push" /\ parsed < Len(feed) /\ parsed' = parsed + 1
            /\ UNCHANGED <<feed, pushed, eof, cpc>>
        BY <1>23 DEF ReadWindow
      <3>2. left = 0 /\ pushed = RowsUpTo(parsed) /\ parsed' - 1 = parsed /\ parsed' > 0
        BY <1>0, <3>1 DEF SourceInv, WindowDone
      <3>3. RowsUpTo(parsed - 1)' = RowsUpTo(parsed)
        BY <3>1, <3>2 DEF RowsUpTo
      <3>4. ~eof
        BY <1>0, <3>1 DEF WindowByWindow
      <3>5. pushed \in Nat /\ RowsUpTo(parsed) \in Nat
        BY <1>0
      <3> QED BY <3>1, <3>2, <3>3, <3>4, <3>5 DEF WindowByWindow
    <2>2. TakenBefore'
      BY <1>0, <1>23 DEF ReadWindow, parserVars, dequeVars, WindowByWindow, TakenBefore, RowsUpTo
    <2>3. OneWindow'
      <3>1. wpc = "read" /\ wpc' = "push" /\ feed' = feed /\ cpc' = cpc
        BY <1>23 DEF ReadWindow
      <3>2. Len(feed) = 1 => cpc \in {"construct", "broken"}
        BY <3>1 DEF OneWindow
      <3> QED BY <3>1, <3>2 DEF OneWindow
    <2> QED BY <2>1, <2>2, <2>3
  <1>24. CASE PushRows
    <2>1. WindowByWindow'
      <3>1. /\ wpc = "push" /\ wpc' = wpc /\ pushed' >= pushed /\ pushed' \in Nat
            /\ UNCHANGED <<feed, parsed, eof, cpc>>
        BY <1>0, <1>24 DEF PushRows
      <3> QED BY <1>0, <3>1 DEF WindowByWindow, RowsUpTo
    <2>2. TakenBefore'
      BY <1>0, <1>24 DEF PushRows, parserVars, dequeVars, WindowByWindow, TakenBefore, RowsUpTo
    <2>3. OneWindow'
      BY <1>0, <1>24 DEF PushRows, parserVars, dequeVars, WindowByWindow, OneWindow, RowsUpTo
    <2> QED BY <2>1, <2>2, <2>3
  <1>25. CASE Pop
    <2>1. WindowByWindow'
      BY <1>0, <1>25 DEF Pop, PopFront, parserVars, dequeVars, WindowByWindow, RowsUpTo
    <2>2. TakenBefore'
      BY <1>0, <1>25 DEF Pop, PopFront, parserVars, dequeVars, WindowByWindow, TakenBefore, RowsUpTo
    <2>3. OneWindow'
      BY <1>0, <1>25 DEF Pop, PopFront, parserVars, dequeVars, WindowByWindow, OneWindow, RowsUpTo
    <2> QED BY <2>1, <2>2, <2>3
  <1>26. CASE UNCHANGED svars
    BY <1>26 DEF svars, parserVars, dequeVars, WindowByWindow, TakenBefore, OneWindow, RowsUpTo
  <1> QED BY <1>1, <1>2, <1>3, <1>4, <1>5, <1>6, <1>7, <1>8, <1>9, <1>10, <1>11, <1>12, <1>13, <1>14, <1>15, <1>16, <1>17, <1>18, <1>19, <1>20, <1>21, <1>22, <1>23, <1>24, <1>25, <1>26 DEF SourceNext, Source, Worker, InCall

LEMMA TailKept == SourceSpec => []TailInv
  BY SourceInvariance, TailInit, TailStep, PTL DEF SourceSpec

-----------------------------------------------------------------------------
(* The reader over its source.                                             *)

\* CsvReader has taken the rows it was given; at the end that is all but a tail.
RowsTaken ==
    /\ Len(input) = RowsUpTo(Len(feed))
    /\ Len(given) = cursor + (IF cpc = "row" THEN 1 ELSE 0)
    /\ \/ pc = "flush" /\ last /\ rowsRead = 0
       \/ pc = "end"
       => /\ cursor >= RowsUpTo(Len(feed) - 1)
          /\ Len(feed) = 1 => cursor = RowsUpTo(1)

CsvInputInv == ReaderInv /\ SourceInv /\ TailInv /\ RowsTaken

LEMMA InputInitInv == InputInit => CsvInputInv
  <1> SUFFICES ASSUME InputInit PROVE CsvInputInv
    OBVIOUS
  <1>1. ReaderInv /\ SourceInv /\ TailInv
    BY InitInv, SourceInitInv, TailInit DEF InputInit
  <1>2. RowsTaken
    BY DEF InputInit, Init, SourceInit, RowsTaken
  <1> QED BY <1>1, <1>2 DEF CsvInputInv

LEMMA ReaderStepInv == ReaderInv /\ [InputNext]_InputVars => ReaderInv'
  <1> SUFFICES ASSUME ReaderInv, [InputNext]_InputVars PROVE ReaderInv'
    OBVIOUS
  <1>1. CASE CallNext
    BY <1>1, CallKeeps DEF CallNext
  <1>2. CASE AskRow \/ Release \/ SourceStep
    BY <1>2, StutterKeeps DEF AskRow, Release, SourceStep
  <1>3. CASE TakeRow
    BY <1>3, ReadRowKeeps DEF TakeRow
  <1>4. CASE TakeFalse \/ StopReading
    BY <1>4, CloseLoopKeeps DEF TakeFalse, StopReading
  <1>5. CASE TakeThrow
    BY <1>5, ThrowKeeps DEF TakeThrow
  <1>6. CASE Convert
    BY <1>6, ConvertKeeps DEF Convert
  <1>7. CASE AfterFlush
    BY <1>7, EndFlushKeeps, FinishKeeps DEF AfterFlush
  <1>8. CASE UNCHANGED InputVars
    BY <1>8, StutterKeeps DEF InputVars
  <1> QED BY <1>1, <1>2, <1>3, <1>4, <1>5, <1>6, <1>7, <1>8 DEF InputNext

LEMMA BytesStep == ReaderInv /\ BytesCounted /\ [InputNext]_InputVars => BytesCounted'
  <1> SUFFICES ASSUME ReaderInv, BytesCounted, [InputNext]_InputVars PROVE BytesCounted'
    OBVIOUS
  <1>1. CASE CallNext
    BY <1>1, CallCounts DEF CallNext
  <1>2. CASE AskRow \/ Release \/ SourceStep
    BY <1>2, CountsStay DEF AskRow, Release, SourceStep
  <1>3. CASE TakeRow
    BY <1>3, ReadRowCounts DEF TakeRow
  <1>4. CASE TakeFalse \/ StopReading
    BY <1>4, CloseLoopCounts DEF TakeFalse, StopReading
  <1>5. CASE TakeThrow
    BY <1>5, BytesStay DEF TakeThrow
  <1>6. CASE Convert
    BY <1>6, ConvertCounts DEF Convert
  <1>7. CASE AfterFlush
    BY <1>7, EndFlushCounts, FinishCounts DEF AfterFlush
  <1>8. CASE UNCHANGED InputVars
    BY <1>8, CountsStay DEF InputVars
  <1> QED BY <1>1, <1>2, <1>3, <1>4, <1>5, <1>6, <1>7, <1>8 DEF InputNext

LEMMA RowsTakenStep == CsvInputInv /\ [InputNext]_InputVars => RowsTaken'
  <1> SUFFICES ASSUME CsvInputInv, [InputNext]_InputVars PROVE RowsTaken'
    OBVIOUS
  <1>0. /\ cursor \in Nat /\ rowsRead \in Nat /\ Len(given) \in Nat
        /\ given \in Seq(Nat) /\ Len(feed) \in Nat \ {0}
    BY Counts, SourceCounts DEF CsvInputInv, SourceInv, SourceTypeOK
  <1>1. CASE CallNext
    BY <1>1 DEF CallNext, Call, svars, parserVars, CsvInputInv, RowsTaken, RowsUpTo
  <1>2. CASE AskRow
    BY <1>2 DEF AskRow, CallReadRow, vars, parserVars, CsvInputInv, RowsTaken, RowsUpTo
  <1>3. CASE TakeRow
    <2>1. /\ cpc = "row" /\ cpc' = "idle" /\ given' = given /\ feed' = feed /\ input' = input
          /\ cursor' = cursor + 1
          /\ pc' \in {"read", "threw"} \/ (pc' = "flush" /\ ~last')
      <3>1. /\ cpc = "row" /\ cpc' = "idle" /\ given' = given /\ feed' = feed /\ input' = input
            /\ cursor' = cursor + 1
        BY <1>3 DEF TakeRow, ReadRow, Resume, parserVars
      <3>2. pc' \in {"read", "threw"} \/ (pc' = "flush" /\ ~last')
        BY <1>3 DEF TakeRow, ReadRow
      <3> QED BY <3>1, <3>2
    <2> QED BY <1>0, <2>1 DEF CsvInputInv, RowsTaken, RowsUpTo
  <1>4. CASE TakeFalse
    <2>1. /\ cpc = "false" /\ cpc' = "idle"
          /\ UNCHANGED <<given, feed, parsed, input, cursor>>
      BY <1>4 DEF TakeFalse, CloseLoop, Resume, parserVars
    <2>2. eof /\ parsed = Len(feed) /\ Len(given) >= RowsUpTo(parsed - 1)
      BY <1>0, <2>1 DEF CsvInputInv, TailInv, WindowByWindow, TakenBefore, FoundEmpty
    <2>3. Len(feed) = 1 => Len(given) = RowsUpTo(1)
      BY <2>1 DEF CsvInputInv, TailInv, OneWindow, FoundEmpty
    <2>4. Len(given) = cursor
      BY <1>0, <2>1 DEF CsvInputInv, RowsTaken
    <2> QED BY <1>0, <2>1, <2>2, <2>3, <2>4 DEF CsvInputInv, RowsTaken, RowsUpTo
  <1>5. CASE TakeThrow
    BY <1>5 DEF TakeThrow, svars, parserVars, CsvInputInv, RowsTaken, RowsUpTo
  <1>6. CASE StopReading
    <2>1. rowsRead # 0 /\ rowsRead' = rowsRead /\ pc' = "flush"
      BY <1>6 DEF StopReading, CloseLoop, WantsMore
    <2> QED BY <1>6, <2>1 DEF StopReading, CloseLoop, svars, parserVars, CsvInputInv, RowsTaken, RowsUpTo
  <1>7. CASE Convert
    BY <1>7 DEF Convert, ConvertColumn, svars, parserVars, CsvInputInv, RowsTaken, RowsUpTo
  <1>8. CASE AfterFlush
    <2>1. UNCHANGED <<input, cursor, rowsRead, last, feed, given, cpc>> /\ pc = "flush"
          /\ (pc' = "end" => last /\ rowsRead = 0) /\ pc' # "flush"
      BY <1>8 DEF AfterFlush, EndFlush, Finish, svars, parserVars
    <2> QED BY <2>1 DEF CsvInputInv, RowsTaken, RowsUpTo
  <1>9. CASE Release
    BY <1>9 DEF Release, Destroy, vars, parserVars, CsvInputInv, RowsTaken, RowsUpTo
  <1>10. CASE SourceStep
    <2>1. UNCHANGED <<feed, input, cursor, pc, last, rowsRead>>
      BY <1>10 DEF SourceStep, Source, Worker, InCall, vars, parserVars,
                   Begin, ReadWindow, ReadFails, PushRows, EndWindow, End, Catch, Adopt,
                   Construct, LoadEmpty, LoadWaitable, EnterWait, Wait, Join, Rethrow,
                   AnswerFalse, AnswerTooLarge, StartThread, Started, Pop, JoinLast, SpuriousWakeup
    <2>2. CASE Pop
      <3>1. Len(given') = Len(given) + 1 /\ cpc = "pop" /\ cpc' = "row"
        BY <1>0, <2>2 DEF Pop
      <3> QED BY <1>0, <2>1, <3>1 DEF CsvInputInv, RowsTaken, RowsUpTo
    <2>3. CASE ~Pop
      <3>1. given' = given /\ (cpc' = "row" <=> cpc = "row")
        BY <1>10, <2>3 DEF SourceStep, Source, Worker, InCall, vars, parserVars, dequeVars,
                   Begin, ReadWindow, ReadFails, PushRows, EndWindow, End, Catch, Adopt,
                   Construct, LoadEmpty, LoadWaitable, EnterWait, Wait, Join, Rethrow,
                   AnswerFalse, AnswerTooLarge, StartThread, Started, JoinLast, SpuriousWakeup
      <3> QED BY <2>1, <3>1 DEF CsvInputInv, RowsTaken, RowsUpTo
    <2> QED BY <2>2, <2>3
  <1>11. CASE UNCHANGED InputVars
    BY <1>11 DEF InputVars, vars, svars, parserVars, CsvInputInv, RowsTaken, RowsUpTo
  <1> QED BY <1>1, <1>2, <1>3, <1>4, <1>5, <1>6, <1>7, <1>8, <1>9, <1>10, <1>11 DEF InputNext

LEMMA InputInvariance == InputSpec => []CsvInputInv
  <1>1. CsvInputInv /\ [InputNext]_InputVars => CsvInputInv'
    BY ReaderStepInv, RowsTakenStep, StepOfSource, SourceNextInv, TailStep DEF CsvInputInv
  <1> QED BY InputInitInv, <1>1, PTL DEF InputSpec

-----------------------------------------------------------------------------
(* The theorems.                                                           *)

\* A batch of rows that all convert has them all, in every column, whatever number of
\* threads converts them and however the batch was cut into flushes; at the end every
\* row that was taken has been handed out.
THEOREM CleanRows == InputSpec => []CleanRowsDelivered
  BY InputInvariance, InvDelivers, PTL DEF CsvInputInv

\* If one column of a batch is complete, the length check leaves no other incomplete.
THEOREM LossDetected == InputSpec => []PartialLossDetected
  BY InputInvariance, InvDetects, PTL DEF CsvInputInv

\* A column has rows of its batch, in their order and none twice.
THEOREM RowsInOrder == InputSpec => []ColumnsInOrder
  BY InputInvariance, InvOrders, PTL DEF CsvInputInv

\* The buffer of a reader, and the batch it builds, outgrow their sizes by one row only,
\* whatever the rows and however many windows they come from.
THEOREM MemoryBounded == InputSpec => []BuffersBounded
  <1>1. InputInit => BytesCounted
    BY BytesInit DEF InputInit
  <1>2. CsvInputInv /\ BytesCounted /\ [InputNext]_InputVars => BytesCounted'
    BY BytesStep DEF CsvInputInv
  <1>3. CsvInputInv /\ BytesCounted => BuffersBounded
    BY InvBounds DEF CsvInputInv
  <1> QED BY <1>1, <1>2, <1>3, InputInvariance, PTL DEF InputSpec

\* The type invariants of the reader and its source, and: what Next leaves out when it
\* returns null came with the last of several windows.
THEOREM OnlyTailLost == InputSpec => []OnlyATailIsLost
  <1>1. CsvInputInv => OnlyATailIsLost
    BY DEF CsvInputInv, ReaderInv, SourceInv, RowsTaken, OnlyATailIsLost
  <1> QED BY <1>1, InputInvariance, PTL
=============================================================================
