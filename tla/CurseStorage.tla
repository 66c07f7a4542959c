---------------------------- MODULE CurseStorage ----------------------------
(***************************************************************************)
(* A .curse file written by one process (convert_csv_to_curse, through     *)
(* WriteAsCurse) and read by another (run_query, through CurseReader),     *)
(* which may open it while it is being written, after the writer failed or *)
(* was killed, or when it is complete.                                     *)
(***************************************************************************)
EXTENDS CurseWriter

CONSTANTS ReadSchemas, Unknown

ASSUME ReaderAssumption ==
    /\ Unknown \notin 1..NCols
    /\ ReadSchemas \subseteq Seq(1..NCols \cup {Unknown})

VARIABLES rpc, fileSize, ptr, markerRead, inds, view, got

Reader == INSTANCE CurseReader WITH disk <- Disk

rvars == <<rpc, fileSize, ptr, markerRead, inds, view, got>>
vars  == <<wvars, rvars>>

Init == WInit /\ Reader!RInit

WriterStep == WNext /\ UNCHANGED rvars
ReaderStep == Reader!RNext /\ UNCHANGED wvars

\* Both programs have ended.
Terminated == wpc \in Ended /\ rpc = "threw" /\ UNCHANGED vars

Next == WriterStep \/ ReaderStep \/ Terminated

\* A query keeps asking for batches and uses them up: it opens the file, calls
\* Next until it gets none, and reads or skips each batch.
Fairness ==
    /\ WF_vars(Reader!Open /\ UNCHANGED wvars)
    /\ WF_vars(Reader!NextCall /\ UNCHANGED wvars)
    /\ WF_vars((Reader!ReadAll \/ Reader!ReadNothing) /\ UNCHANGED wvars)

Spec == Init /\ [][Next]_vars /\ Fairness

-----------------------------------------------------------------------------
TypeOK ==
    /\ WTypeOK
    /\ rpc \in {"unopened", "open", "view", "eof", "threw"}
    /\ fileSize \in 0..Len(written)
    /\ ptr \in Nat
    /\ markerRead \in BOOLEAN
    /\ inds \in ReadSchemas \cup {<<>>}
    /\ Len(got) <= nbatch

\* What column c of batch b must read as, if its task did not throw.
Original(b, c) == ColItem(b, c)

\* The batches that are in the file or on their way to it: those whose header
\* has been handed to the stream.
Begun == IF wpc \in {"encode", "header"} THEN nbatch - 1 ELSE nbatch

-----------------------------------------------------------------------------
(* Properties                                                              *)

\* Nothing but a finished writer makes a file that reads to its end, wherever
\* the writer was stopped and whenever the reader opened the file: a query that
\* gets a normal end of stream has been given every batch of the stream.
EndMeansComplete ==
    rpc = "eof" => trailed /\ Len(got) = Len(Rows)

\* The offsets WriteBatch sums up and the ones BatchView starts from agree, for
\* every subset and order of the columns asked for: a value handed to a query is
\* the column it asked for, of the batch it is in, with that batch's row count;
\* never a column whose task threw, whose bytes are missing.
ReadBackOriginal ==
    \A b \in DOMAIN got :
        /\ got[b].rows = Rows[b]
        /\ \A i \in DOMAIN inds : got[b].columns[i] # Reader!NotLoaded =>
             /\ got[b].columns[i] = Original(b, inds[i])
             /\ encoded[b][inds[i]].task = "done"

\* The reader never takes bytes for ints that were not written as ints: where it
\* will look next there is a header, the trailer, or the end of what is there.
ReadsAligned ==
    /\ TypeOK
    /\ rpc = "open" /\ Reader!CanRead(ptr, HeaderLen) => Reader!AreInts(ptr, 2 + NCols)

\* A query fails only for a reason: the file was incomplete when it was opened
\* or is still incomplete, a column's task threw, or the column is not there.
FailureHasReason ==
    rpc = "threw" =>
        \/ \E i \in DOMAIN inds : inds[i] = Unknown
        \/ ~trailed \/ fileSize < Len(written)
        \/ \E b \in DOMAIN encoded, c \in 1..NCols : encoded[b][c] = Threw

\* Each batch moves the reader forward, past the whole of it: a stream of a
\* finite file ends.
QueryEnds == (rpc = "unopened") ~> (rpc \in {"eof", "threw"})

Log == INSTANCE BatchLog WITH
           Batches <- 1..Len(Rows),
           log     <- [b \in 1..Begun |-> b],
           sealed  <- trailed,
           nread   <- Len(got) + (IF view # Reader!NoView THEN 1 ELSE 0),
           reader  <- CASE rpc = "eof" -> "end" [] rpc = "threw" -> "failed"
                        [] OTHER -> "reading"

ImplementsBatchLog == Log!BLSpec

-----------------------------------------------------------------------------
(* What the code says of itself and does not do.                           *)

\* file_io.hpp:22, "expected to throw on fail": a writer that returned has
\* written its file.
ReturnedMeansWritten == wpc = "returned" => durable = Len(written)

=============================================================================
