---------------------------- MODULE CurseWriter -----------------------------
(***************************************************************************)
(* WriteAsCurse (src/core/storage_write.cpp) through an OfstreamWriter     *)
(* (src/core/file_io.cpp): the batches of a stream go to a file, each      *)
(* column encoded and compressed by a task of the thread pool.             *)
(*                                                                         *)
(* What Write accepts stays in the stream's buffer until it is flushed:    *)
(* `written` is what has been handed to the stream, and the first          *)
(* `durable` bytes of it are in the file. The destructor of the stream     *)
(* flushes the rest and has nobody to report a failure to. The device may  *)
(* fill up at any time and the process may be killed at any time.          *)
(***************************************************************************)
EXTENDS CurseLayout

CONSTANTS Rows,         \* Rows[b]: the rows of the b-th batch of the stream
          BlobLens      \* BlobLens[b][c]: what lz4 may make of its column c (bytes)

ASSUME WriterAssumption ==
    /\ Rows \in Seq(Nat)
    /\ BlobLens \in [DOMAIN Rows -> [1..NCols -> SUBSET (Nat \ {0})]]

VARIABLES wpc,      \* where WriteAsCurse is
          written,  \* bytes handed to the stream
          durable,  \* how many of them are in the file
          full,     \* the device takes no more bytes
          nbatch,   \* batches taken from the stream
          vec,      \* vec[c]: what task c left for column c
          next,     \* the column whose bytes are written next
          encoded,  \* history: the task of each column of each batch
          trailed   \* history: the trailing marker has been handed over

wvars == <<wpc, written, durable, full, nbatch, vec, next, encoded, trailed>>

\* vec[c] before its task has run, and what it holds when the task threw: nothing.
Pending == [task |-> "pending"]
Threw   == [task |-> "threw"]
Done(b) == [task |-> "done", bytes |-> b]

Ended == {"returned", "threw", "killed"}

WTypeOK ==
    /\ wpc \in {"marker", "schema", "stream", "encode", "header", "columns",
                "trailer", "close", "unwind"} \cup Ended
    /\ durable \in 0..Len(written)
    /\ full \in BOOLEAN
    /\ nbatch \in 0..Len(Rows)
    /\ DOMAIN vec = 1..NCols
    /\ next \in 1..(NCols + 1)
    /\ Len(encoded) <= nbatch
    /\ trailed \in BOOLEAN

WInit ==
    /\ wpc = "marker"
    /\ written = <<>>
    /\ durable = 0
    /\ full = FALSE
    /\ nbatch = 0
    /\ vec = [c \in 1..NCols |-> Pending]
    /\ next = 1
    /\ encoded = <<>>
    /\ trailed = FALSE

-----------------------------------------------------------------------------
(* The stream and the device.                                              *)

\* OfstreamWriter::Write: the bytes are accepted, and then control is at `pc`;
\* or the stream has to flush, cannot, and Write throws.
Write(bytes, pc) ==
    \/ /\ written' = written \o bytes
       /\ wpc' = pc
    \/ /\ full
       /\ written' = written
       /\ wpc' = "unwind"

\* The stream flushes part of its buffer when it likes, or the system its cache.
Flush ==
    /\ wpc \notin Ended
    /\ ~full
    /\ durable' \in (durable + 1)..Len(written)
    /\ UNCHANGED <<wpc, written, full, nbatch, vec, next, encoded, trailed>>

DeviceFull ==
    /\ wpc \notin Ended
    /\ full' = TRUE
    /\ UNCHANGED <<wpc, written, durable, nbatch, vec, next, encoded, trailed>>

\* ~OfstreamWriter, on the normal path and while an exception passes: the file
\* gets the rest of the buffer unless the device is full. No error leaves it.
Close ==
    /\ wpc \in {"close", "unwind"}
    /\ durable' = IF full THEN durable ELSE Len(written)
    /\ wpc' = IF wpc = "close" THEN "returned" ELSE "threw"
    /\ UNCHANGED <<written, full, nbatch, vec, next, encoded, trailed>>

Kill ==
    /\ wpc \notin Ended
    /\ wpc' = "killed"
    /\ UNCHANGED <<written, durable, full, nbatch, vec, next, encoded, trailed>>

-----------------------------------------------------------------------------
(* WriteAsCurse.                                                           *)

WriteMarker ==
    /\ wpc = "marker"
    /\ Write(kFormatMarker, "schema")
    /\ UNCHANGED <<durable, full, nbatch, vec, next, encoded, trailed>>

\* WriteSchema: a column name with the reserved prefix throws before anything
\* of the schema is written.
WriteSchema ==
    /\ wpc = "schema"
    /\ \/ Write(SchemaBytes, "stream")
       \/ wpc' = "unwind" /\ UNCHANGED written
    /\ UNCHANGED <<durable, full, nbatch, vec, next, encoded, trailed>>

\* stream->Next(): a batch, whose columns the tasks are pushed for at once,
NextBatch ==
    /\ wpc = "stream"
    /\ nbatch < Len(Rows)
    /\ nbatch' = nbatch + 1
    /\ vec' = [c \in 1..NCols |-> Pending]
    /\ wpc' = "encode"
    /\ UNCHANGED <<written, durable, full, next, encoded, trailed>>

\* the end of the stream,
EndOfStream ==
    /\ wpc = "stream"
    /\ nbatch = Len(Rows)
    /\ wpc' = "trailer"
    /\ UNCHANGED <<written, durable, full, nbatch, vec, next, encoded, trailed>>

\* or an exception (a CSV row with too few fields, say).
StreamThrows ==
    /\ wpc = "stream"
    /\ wpc' = "unwind"
    /\ UNCHANGED <<written, durable, full, nbatch, vec, next, encoded, trailed>>

\* The task of column c, on a thread of the pool: ToBytes and CompressLZ4 into
\* vec[c], each of which may throw, leaving vec[c] empty. The exception ends up
\* in the future.
EncodeColumn(c) ==
    /\ wpc = "encode"
    /\ vec[c] = Pending
    /\ \/ \E n \in BlobLens[nbatch][c] : vec' = [vec EXCEPT ![c] = Done(Chunk(ColItem(nbatch, c), n))]
       \/ vec' = [vec EXCEPT ![c] = Threw]
    /\ UNCHANGED <<wpc, written, durable, full, nbatch, next, encoded, trailed>>

\* Every future waited for with wait(), which does not rethrow.
WaitTasks ==
    /\ wpc = "encode"
    /\ \A c \in 1..NCols : vec[c] # Pending
    /\ wpc' = "header"
    /\ encoded' = Append(encoded, vec)
    /\ UNCHANGED <<written, durable, full, nbatch, vec, next, trailed>>

\* The bytes WriteBatch finds in vec.
Blob(v) == IF v.task = "done" THEN v.bytes ELSE <<>>
Blobs(v) == [c \in 1..NCols |-> Blob(v[c])]

\* Size, row count and offsets in one Write; SizeToFourBytes throws for a batch
\* whose size no int holds.
WriteHeader ==
    /\ wpc = "header"
    /\ IF BatchSize(Blobs(vec)) > IntMax
       THEN wpc' = "unwind" /\ UNCHANGED written
       ELSE Write(HeaderBytes(Rows[nbatch], Blobs(vec)), "columns")
    /\ next' = 1
    /\ UNCHANGED <<durable, full, nbatch, vec, encoded, trailed>>

WriteColumn ==
    /\ wpc = "columns"
    /\ next <= NCols
    /\ Write(Blob(vec[next]), "columns")
    /\ next' = next + 1
    /\ UNCHANGED <<durable, full, nbatch, vec, encoded, trailed>>

EndBatch ==
    /\ wpc = "columns"
    /\ next > NCols
    /\ wpc' = "stream"
    /\ UNCHANGED <<written, durable, full, nbatch, vec, next, encoded, trailed>>

WriteTrailer ==
    /\ wpc = "trailer"
    /\ Write(kFormatMarker, "close")
    /\ trailed' = (wpc' = "close")
    /\ UNCHANGED <<durable, full, nbatch, vec, next, encoded>>

WNext ==
    \/ Flush \/ DeviceFull \/ Close \/ Kill
    \/ WriteMarker \/ WriteSchema
    \/ NextBatch \/ EndOfStream \/ StreamThrows
    \/ \E c \in 1..NCols : EncodeColumn(c)
    \/ WaitTasks \/ WriteHeader \/ WriteColumn \/ EndBatch
    \/ WriteTrailer

\* The bytes in the file.
Disk == SubSeq(written, 1, durable)
=============================================================================
