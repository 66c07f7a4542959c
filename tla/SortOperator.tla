---------------------------- MODULE SortOperator ----------------------------
(***************************************************************************)
(* SortOperatorStream (src/core/operators/sort.cpp): the rows of a stream, *)
(* stably sorted by several columns, each ascending or descending, and cut *)
(* to a limit. With a limit the rows are taken in chunks, and after each   *)
(* chunk all but the first `limit` rows are forgotten.                     *)
(*                                                                         *)
(* The columns of a batch are kept together as rows, vec[0], vec[1], ...   *)
(* being selected by the same indices. A row is its sort keys and the      *)
(* number with which it arrived, by which equal rows are told apart.       *)
(***************************************************************************)
EXTENDS Integers, Sequences, FiniteSets, SequencesExt

CONSTANTS NoLimit,      \* m_limit without a value
          MinStride,    \* 4096
          Queries,      \* the operators: number of columns, m_params, m_limit
          Inputs        \* the streams: sequences of batches

ASSUME StrideAssumption == MinStride \in Nat \ {0}

Row == [key : Seq(Int), id : Nat]

\* Parameters name columns.
ASSUME QueriesAssumption ==
    \A q \in Queries :
        /\ q.cols \in Nat
        /\ q.params \in Seq([col : 1..q.cols, rev : BOOLEAN])
        /\ q.limit # NoLimit => q.limit \in Nat

\* Rows are numbered in the order in which they arrive.
ASSUME InputsAssumption ==
    \A batches \in Inputs :
        /\ batches \in Seq(Seq(Row))
        /\ LET rows == FlattenSeq(batches)
           IN  \A m, n \in DOMAIN rows : m < n => rows[m].id < rows[n].id

VARIABLES query,    \* the operator
          input,    \* the stream's batches
          taken,    \* how many of them it has given
          live,     \* m_stream is not null
          pc,       \* "idle", "pull", "chunk", "sort", "ended"
          cols,     \* the rows of the batch taken last
          i,        \* how many of them have been in vec
          vec,      \* the rows kept
          count,    \* rows counted when there are no columns
          out       \* history: the batches returned

vars == <<query, input, taken, live, pc, cols, i, vec, count, out>>

Limited == query.limit # NoLimit

TypeOK ==
    /\ taken \in 0..Len(input)
    /\ live \in BOOLEAN
    /\ pc \in {"idle", "pull", "chunk", "sort", "ended"}
    /\ i \in 0..Len(cols)
    /\ ToSet(vec) \subseteq ToSet(FlattenSeq(input))
    /\ count \in Nat
    /\ Len(out) <= 1

Init ==
    /\ query \in Queries
    /\ input \in Inputs
    /\ taken = 0
    /\ live = TRUE
    /\ pc = "idle"
    /\ cols = <<>>
    /\ i = 0
    /\ vec = <<>>
    /\ count = 0
    /\ out = <<>>

-----------------------------------------------------------------------------
(* Sorting.                                                                *)

Least(m, n) == IF m < n THEN m ELSE n

\* a stands before b in the column, whatever the other columns say.
Before(p, a, b) == IF p.rev THEN a.key[p.col] > b.key[p.col] ELSE a.key[p.col] < b.key[p.col]

\* ColumnT::StableArgsort by one parameter: an element stands behind those that come
\* before it and behind its equals on its left.
SortBy(p, s) ==
    LET Rank(j) == Cardinality({m \in DOMAIN s : Before(p, s[m], s[j]) \/ (m < j /\ ~Before(p, s[j], s[m]))})
    IN  [r \in DOMAIN s |-> s[CHOOSE j \in DOMAIN s : Rank(j) = r - 1]]

\* By the last parameter first, so that the first decides.
SortByAll(ps, s) ==
    LET byLast[k \in 0..Len(ps)] == IF k = 0 THEN s ELSE SortBy(ps[Len(ps) + 1 - k], byLast[k - 1])
    IN  byLast[Len(ps)]

Cut(s) == IF Limited THEN SubSeq(s, 1, Least(Len(s), query.limit)) ELSE s

\* Defects: the first parameter is sorted by first; the rows are cut before they
\* are sorted.
SortColumns_FirstFirst(s) == Cut(SortByAll(Reverse(query.params), s))
SortColumns_CutFirst(s)   == SortByAll(query.params, Cut(s))

SortColumns(s) == Cut(SortByAll(query.params, s))

-----------------------------------------------------------------------------
(* SortOperatorStream::Next.                                               *)

\* A call of Next. Once the stream is gone it returns null.
Call ==
    /\ pc \in {"idle", "ended"}
    /\ IF live
       THEN pc' = "pull" /\ vec' = <<>> /\ count' = 0
       ELSE pc' = "ended" /\ UNCHANGED <<vec, count>>
    /\ UNCHANGED <<query, input, taken, live, cols, i, out>>

\* No columns: the rows are counted.
PullCount ==
    /\ pc = "pull"
    /\ query.cols = 0
    /\ taken < Len(input)
    /\ taken' = taken + 1
    /\ count' = count + Len(input[taken'])
    /\ UNCHANGED <<query, input, live, pc, cols, i, vec, out>>

\* A batch is taken; without a limit it is appended and that is all.
Pull ==
    /\ pc = "pull"
    /\ query.cols > 0
    /\ taken < Len(input)
    /\ taken' = taken + 1
    /\ cols' = input[taken']
    /\ IF Limited
       THEN i' = 0 /\ pc' = "chunk" /\ UNCHANGED vec
       ELSE i' = Len(cols') /\ vec' = vec \o cols' /\ UNCHANGED pc
    /\ UNCHANGED <<query, input, live, count, out>>

Stride == IF MinStride < query.limit THEN query.limit ELSE MinStride

AppendChunk ==
    LET dlt == Least(Stride, Len(cols) - i) IN
    /\ pc = "chunk"
    /\ i < Len(cols)
    /\ vec' = vec \o SubSeq(cols, i + 1, i + dlt)
    /\ i' = i + dlt
    /\ pc' = "sort"
    /\ UNCHANGED <<query, input, taken, live, cols, count, out>>

SortChunk ==
    /\ pc = "sort"
    /\ vec' = SortColumns(vec)
    /\ pc' = "chunk"
    /\ UNCHANGED <<query, input, taken, live, cols, i, count, out>>

\* After the chunks of a batch: one more sort if vec is over twice the limit.
EndBatch ==
    /\ pc = "chunk"
    /\ i = Len(cols)
    /\ vec' = IF Len(vec) > 2 * query.limit THEN SortColumns(vec) ELSE vec
    /\ pc' = "pull"
    /\ UNCHANGED <<query, input, taken, live, cols, i, count, out>>

\* The stream returns null: the one batch of the result.
Finish ==
    /\ pc = "pull"
    /\ taken = Len(input)
    /\ live' = FALSE
    /\ pc' = "ended"
    /\ IF query.cols = 0
       THEN /\ out' = Append(out, [n    |-> IF Limited THEN Least(count, query.limit) ELSE count,
                                   rows |-> <<>>])
            /\ UNCHANGED vec
       ELSE /\ vec' = SortColumns(vec)
            /\ out' = Append(out, [n |-> Len(vec'), rows |-> vec'])
    /\ UNCHANGED <<query, input, taken, cols, i, count>>

Next == Call \/ PullCount \/ Pull \/ AppendChunk \/ SortChunk \/ EndBatch \/ Finish

Spec == Init /\ [][Next]_vars

-----------------------------------------------------------------------------
(* Properties                                                              *)

\* What the query asks for: a row comes before another if the first parameter
\* that tells them apart puts it there, or if none does and it arrived first.
Precedes(a, b) ==
    LET differ == {k \in DOMAIN query.params :
                      a.key[query.params[k].col] # b.key[query.params[k].col]}
    IN  IF differ = {} THEN a.id < b.id
        ELSE Before(query.params[CHOOSE k \in differ : \A m \in differ : k <= m], a, b)

\* Row n of the result is the one that n - 1 others precede.
InOrder(rows) ==
    [n \in 1..Cardinality(rows) |->
        CHOOSE row \in rows : Cardinality({r \in rows : Precedes(r, row)}) = n - 1]

Top(s) == Cut(InOrder(ToSet(s)))

Rows == FlattenSeq(SubSeq(input, 1, taken))

\* Forgetting rows after every chunk loses nothing: between batches, what is kept
\* is what the query would return for all the rows of the stream so far, in the
\* same order of equal rows, wherever the batches and the chunks were cut. The chunks
\* are there "to handle big batches" (sort.cpp:97): however big a batch is, at most one
\* chunk of rows stands beside the rows to keep.
KeepsTheTop ==
    /\ TypeOK
    /\ pc = "pull" /\ query.cols > 0 /\ Limited => vec = Top(Rows)
    /\ pc = "sort" =>
         Len(vec) <= query.limit + (IF MinStride < query.limit THEN query.limit ELSE MinStride)

\* The result is one batch with the rows of the whole stream, sorted and cut; one
\* without columns has as many rows as it would have with them.
ResultIsSorted ==
    out # <<>> =>
        /\ taken = Len(input)
        /\ out = <<[n    |-> Len(Top(Rows)),
                    rows |-> IF query.cols = 0 THEN <<>> ELSE Top(Rows)]>>
=============================================================================
