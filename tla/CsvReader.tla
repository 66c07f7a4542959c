----------------------------- MODULE CsvReader ------------------------------
(***************************************************************************)
(* CsvReader::Next (src/core/csv.cpp): rows of text become batches of      *)
(* typed columns. Rows are buffered until they hold FlushBytes bytes; then *)
(* the tasks of the thread pool convert them, each task a range of columns *)
(* of all buffered rows, and the buffer is emptied. A batch is handed out  *)
(* when it has taken TargetBytes bytes of rows, or at the end of the       *)
(* input.                                                                  *)
(*                                                                         *)
(* The value at row r of column c is known by r: a column is the sequence  *)
(* of the input rows its values came from. Input[r] says how many bytes    *)
(* the row has, in which columns its text does not convert (FromString     *)
(* throws), and whether it has the schema's number of fields. What         *)
(* read_row answers is up to the module that composes this one with        *)
(* CsvSource: TakeRow follows a row, CloseLoop the end of the loop.        *)
(***************************************************************************)
EXTENDS Naturals, Sequences, FiniteSets, SequencesExt

CONSTANTS NCols,        \* columns of the schema
          Cores,        \* hardware_concurrency()
          FlushBytes,   \* 1 MiB
          TargetBytes,  \* m_target_batch_size
          Inputs        \* the CSV inputs: sequences of rows

Row == [bytes : Nat, bad : SUBSET (1..NCols), arity : BOOLEAN]

ASSUME CsvAssumption ==
    /\ NCols \in Nat \ {0}
    /\ Cores \in Nat \ {0}
    /\ FlushBytes \in Nat \ {0}
    /\ TargetBytes \in Nat
    /\ Inputs \subseteq Seq(Row)

NFuncs == IF NCols < Cores THEN NCols ELSE Cores

\* The columns of task f, 1-based: [(f-1) * n / k, f * n / k) of the program.
FirstCol(f) == ((f - 1) * NCols) \div NFuncs + 1
LastCol(f)  == (f * NCols) \div NFuncs

VARIABLES input,        \* the input
          pc,           \* "idle", "read", "flush", "end", "threw"
          cursor,       \* rows taken from the input
          rows,         \* the buffered rows, by number
          columns,      \* the columns of the batch being built
          rowsRead,     \* rows_read of this call of Next
          totalBytes,   \* total_bytes
          currentBytes, \* current_bytes
          last,         \* this flush is the one after the loop
          at,           \* at[f]: the column task f converts next, or Finished
          batches       \* history: the batches handed out

vars == <<input, pc, cursor, rows, columns, rowsRead, totalBytes, currentBytes, last, at, batches>>

Finished == NCols + 1

NoRows == [c \in 1..NCols |-> <<>>]

TypeOK ==
    /\ pc \in {"idle", "read", "flush", "end", "threw"}
    /\ cursor \in 0..Len(input)
    /\ rows \in Seq(1..cursor)
    /\ columns \in [1..NCols -> Seq(1..cursor)]
    /\ rowsRead \in 0..cursor
    /\ totalBytes \in Nat
    /\ currentBytes \in 0..totalBytes
    /\ last \in BOOLEAN
    /\ at \in [1..NFuncs -> 1..Finished]
    /\ batches \in Seq([upto : 1..cursor, columns : [1..NCols -> Seq(1..cursor)]])

Init ==
    /\ input \in Inputs
    /\ pc = "idle"
    /\ cursor = 0
    /\ rows = <<>>
    /\ columns = NoRows
    /\ rowsRead = 0
    /\ totalBytes = 0
    /\ currentBytes = 0
    /\ last = FALSE
    /\ at = [f \in 1..NFuncs |-> Finished]
    /\ batches = <<>>

-----------------------------------------------------------------------------
\* CsvReader::Next is called.
Call ==
    /\ pc = "idle"
    /\ pc' = "read"
    /\ columns' = NoRows
    /\ rowsRead' = 0
    /\ totalBytes' = 0
    /\ currentBytes' = 0
    /\ UNCHANGED <<input, cursor, rows, last, at, batches>>

\* Each task gets its range of columns.
PushTasks == at' = [f \in 1..NFuncs |-> FirstCol(f)]

\* Defect: a batch of exactly TargetBytes takes one row more.
WantsMore_AtTarget == rowsRead = 0 \/ totalBytes <= TargetBytes

\* The loop goes on while the batch has no row or too few bytes.
WantsMore == rowsRead = 0 \/ totalBytes < TargetBytes

\* read_row succeeds, the row is buffered, and a full buffer is flushed.
ReadRow ==
    /\ pc = "read"
    /\ WantsMore
    /\ cursor < Len(input)
    /\ cursor' = cursor + 1
    /\ LET row == input[cursor + 1] IN
         IF row.arity
         THEN /\ rowsRead' = rowsRead + 1
              /\ totalBytes' = totalBytes + row.bytes
              /\ rows' = Append(rows, cursor + 1)
              /\ IF currentBytes + row.bytes >= FlushBytes
                 THEN /\ currentBytes' = 0
                      /\ pc' = "flush"
                      /\ last' = FALSE
                      /\ PushTasks
                 ELSE /\ currentBytes' = currentBytes + row.bytes
                      /\ UNCHANGED <<pc, last, at>>
              /\ UNCHANGED <<input, columns, batches>>
         ELSE \* ENSURE(row.size() == n_cols)
              /\ pc' = "threw"
              /\ UNCHANGED <<input, rows, columns, rowsRead, totalBytes, currentBytes, last, at, batches>>

\* Defect: what is buffered when the loop ends is not flushed.
CloseLoop_NoFlush ==
    /\ pc = "read"
    /\ pc' = "flush"
    /\ last' = TRUE
    /\ UNCHANGED <<input, cursor, rows, columns, rowsRead, totalBytes, currentBytes, at, batches>>

\* The loop ends: the final flush, of whatever is buffered.
CloseLoop ==
    /\ pc = "read"
    /\ pc' = "flush"
    /\ last' = TRUE
    /\ PushTasks
    /\ UNCHANGED <<input, cursor, rows, columns, rowsRead, totalBytes, currentBytes, batches>>

\* Task f converts its next column for all buffered rows. A text that does not
\* convert throws out of the task: the values before it stay appended, those
\* after it and the columns after this one get nothing.
IsBad(r, c) == c \in input[r].bad

Converted(c) ==
    LET firstBad == {k \in 1..Len(rows) : IsBad(rows[k], c)}
    IN  IF firstBad = {} THEN rows
        ELSE SubSeq(rows, 1, (CHOOSE k \in firstBad : \A j \in firstBad : k <= j) - 1)

ConvertColumn(f) ==
    /\ pc = "flush"
    /\ at[f] <= LastCol(f)
    /\ LET c == at[f] IN
         /\ columns' = [columns EXCEPT ![c] = @ \o Converted(c)]
         /\ at' = [at EXCEPT ![f] = IF Len(Converted(c)) = Len(rows) THEN c + 1 ELSE Finished]
    /\ UNCHANGED <<input, pc, cursor, rows, rowsRead, totalBytes, currentBytes, last, batches>>

\* Every future waited for with wait(), which does not rethrow.
TasksDone == \A f \in 1..NFuncs : at[f] > LastCol(f)

\* Defect: the rows of a flush are converted again by the next one.
EndFlush_KeepsRows ==
    /\ pc = "flush"
    /\ ~last
    /\ TasksDone
    /\ pc' = "read"
    /\ UNCHANGED <<input, cursor, rows, columns, rowsRead, totalBytes, currentBytes, last, at, batches>>

\* After a flush inside the loop: rows.clear() and on with the loop.
EndFlush ==
    /\ pc = "flush"
    /\ ~last
    /\ TasksDone
    /\ rows' = <<>>
    /\ pc' = "read"
    /\ UNCHANGED <<input, cursor, columns, rowsRead, totalBytes, currentBytes, last, at, batches>>

\* Defect: the last column's length is not compared.
SameLength_ButLast == \A c \in 1..(NCols - 1) : Len(columns[c]) = Len(columns[1])

\* After the final flush: the end of the stream if no row was read; else Batch's
\* constructor, which throws unless all columns have the same length.
SameLength == \A c \in 1..NCols : Len(columns[c]) = Len(columns[1])

Finish ==
    /\ pc = "flush"
    /\ last
    /\ TasksDone
    /\ rows' = <<>>
    /\ IF rowsRead = 0
       THEN pc' = "end" /\ UNCHANGED batches
       ELSE IF SameLength
            THEN pc' = "idle" /\ batches' = Append(batches, [upto |-> cursor, columns |-> columns])
            ELSE pc' = "threw" /\ UNCHANGED batches
    /\ UNCHANGED <<input, cursor, columns, rowsRead, totalBytes, currentBytes, last, at>>

-----------------------------------------------------------------------------
(* Properties                                                              *)

\* The input rows batch b was built from: Next takes them one after the other.
RowsOf(b) == LET beg == IF b = 1 THEN 1 ELSE batches[b - 1].upto + 1
             IN  [k \in 1..(batches[b].upto + 1 - beg) |-> beg + k - 1]

Clean(rs) == \A r \in ToSet(rs) : input[r].bad = {}

\* Over the flushes inside a batch and the batches of a stream, no row that
\* converts is lost, repeated or moved against another column: the tasks of one
\* flush are over before the rows they read are cleared, and the rows of the
\* final flush belong to this batch. At the end every row taken has been handed out.
CleanRowsDelivered ==
    /\ \A b \in DOMAIN batches :
         Clean(RowsOf(b)) => \A c \in 1..NCols : batches[b].columns[c] = RowsOf(b)
    /\ pc = "end" =>
         IF batches = <<>> THEN cursor = 0 ELSE Last(batches).upto = cursor

\* Batch's constructor is the only guard against text that does not convert, and
\* it sees lengths alone. It is enough whenever one column came through complete:
\* values can only be attributed to a wrong row when every column lost some.
PartialLossDetected ==
    \A b \in DOMAIN batches :
        (\E c \in 1..NCols : batches[b].columns[c] = RowsOf(b))
            => \A c \in 1..NCols : batches[b].columns[c] = RowsOf(b)

\* Whatever the tasks drop, a column only ever holds rows of its own batch, in
\* their order and none of them twice.
ColumnsInOrder ==
    /\ \A b \in DOMAIN batches, c \in 1..NCols :
         LET col == batches[b].columns[c] IN
         /\ ToSet(col) \subseteq ToSet(RowsOf(b))
         /\ \A i, j \in 1..Len(col) : i < j => col[i] < col[j]
    /\ \A c \in 1..NCols : \A i, j \in 1..Len(columns[c]) :
         i < j => columns[c][i] < columns[c][j]

\* The memory a reader needs: without its last row, the buffer holds less than
\* FlushBytes, and the rows of a batch less than TargetBytes.
BytesOf(rs) ==
    LET upTo[k \in 0..Len(rs)] == IF k = 0 THEN 0 ELSE upTo[k - 1] + input[rs[k]].bytes
    IN  upTo[Len(rs)]

BuffersBounded ==
    /\ rows # <<>> => BytesOf(Front(rows)) < FlushBytes
    /\ \A b \in DOMAIN batches :
         Len(RowsOf(b)) = 1 \/ BytesOf(Front(RowsOf(b))) < TargetBytes

-----------------------------------------------------------------------------
\* test_convert.cpp:149 expects FromString("123a") to throw, and csv.cpp:89 calls
\* it for every field: a batch is handed out only if all its fields converted.
BadTextThrows == \A b \in DOMAIN batches : Clean(RowsOf(b))
=============================================================================
