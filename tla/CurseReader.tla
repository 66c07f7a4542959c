---------------------------- MODULE CurseReader -----------------------------
(***************************************************************************)
(* CurseReader, BatchView and SimpleCurseReader                            *)
(* (src/core/storage_read.cpp): the batches of a .curse file, one view at  *)
(* a time, columns loaded when they are first asked for.                   *)
(*                                                                         *)
(* `disk` is the file, which another process may still be writing. The     *)
(* reader remembers the size it found when it was opened. An exception     *)
(* ends the program, so nothing is read after one.                         *)
(***************************************************************************)
EXTENDS CurseLayout

CONSTANTS ReadSchemas,  \* the columns a query may ask for, in its own order
          Unknown       \* a column the file does not have, or has with another type

VARIABLES disk,         \* the bytes in the file
          rpc,          \* "unopened", "open", "view", "eof", "threw"
          fileSize,     \* m_file_size
          ptr,          \* m_ptr, as an offset from 0
          markerRead,   \* m_marker_read
          inds,         \* m_inds: the file's column for each column read
          view,         \* the BatchView the caller holds, or NoView
          got           \* history: what the caller has got out of each batch

rvars == <<rpc, fileSize, ptr, markerRead, inds, view, got>>

NoView    == [rows |-> 0]
NotLoaded == [kind |-> "not loaded"]

RInit ==
    /\ rpc = "unopened"
    /\ fileSize = 0
    /\ ptr = 0
    /\ markerRead = FALSE
    /\ inds = <<>>
    /\ view = NoView
    /\ got = <<>>

-----------------------------------------------------------------------------
(* IfstreamReader::ReadBytes.                                              *)

CanRead(beg, len) == len = 0 \/ beg + len <= Len(disk)
BytesAt(beg, len) == SubSeq(disk, beg + 1, beg + len)

\* The n ints at offset beg.
Ints(beg, n) == [i \in 1..n |-> BytesAt(beg + (i - 1) * WordLen, WordLen)]
IntAt(bytes) == bytes[1].of.value

\* Every byte string the reader takes for n ints is n ints.
AreInts(beg, n) ==
    \A i \in 1..n : LET b == Ints(beg, n)[i]
                    IN  IsItem(b) /\ b[1].of.kind = "int" /\ b[1].size = WordLen

MarkerAt(beg) == CanRead(beg, WordLen) /\ BytesAt(beg, WordLen) = kFormatMarker

Throw ==
    /\ rpc' = "threw"
    /\ UNCHANGED <<ptr, markerRead, view, got>>

-----------------------------------------------------------------------------
(* CurseReader::CurseReader: size, marker, schema, and the columns of the  *)
(* schema that is read, each of which must be in the file with its type.   *)

SchemaSize == IntAt(BytesAt(WordLen, WordLen))

SchemaAt(beg) ==
    /\ CanRead(beg, WordLen)
    /\ CanRead(beg + WordLen, SchemaSize - WordLen)

Open ==
    /\ rpc = "unopened"
    /\ \E rs \in ReadSchemas :
         /\ fileSize' = Len(disk)
         /\ inds' = rs
         /\ IF MarkerAt(0) /\ SchemaAt(WordLen) /\ \A i \in DOMAIN rs : rs[i] # Unknown
            THEN /\ ptr' = WordLen + SchemaSize
                 /\ rpc' = "open"
                 /\ UNCHANGED <<markerRead, view, got>>
            ELSE Throw

-----------------------------------------------------------------------------
(* CurseReader::Next.                                                      *)

HeaderInts(beg) == [i \in 1..(2 + NCols) |-> IntAt(Ints(beg, 2 + NCols)[i])]

\* BatchView's constructor: m_offsets, with the header's own length in front.
ViewOf(header) ==
    [at      |-> ptr,
     rows    |-> header[2],
     offsets |-> <<HeaderLen>> \o SubSeq(header, 3, 2 + NCols),
     columns |-> [i \in DOMAIN inds |-> NotLoaded]]

\* Defects: the end is where the file ends, marker or not; the trailer is looked
\* for after the last byte.
AtEnd_AnyEnd     == ptr = fileSize
AtTrailer_Beyond == ptr = fileSize

AtEnd      == markerRead /\ ptr = fileSize
AtTrailer  == ptr + WordLen = fileSize

NextAfterEnd ==
    /\ rpc \in {"open", "eof"}
    /\ AtEnd
    /\ rpc' = "eof"
    /\ UNCHANGED <<fileSize, ptr, markerRead, inds, view, got>>

\* Defect: m_marker_read is not set.
NextTrailer_Forgets ==
    /\ rpc \in {"open", "eof"}
    /\ ~AtEnd
    /\ AtTrailer
    /\ IF MarkerAt(ptr)
       THEN ptr' = ptr + WordLen /\ rpc' = "eof" /\ UNCHANGED <<markerRead, view, got>>
       ELSE Throw
    /\ UNCHANGED <<fileSize, inds>>

\* Defect: a trailer that is not there yet is waited for.
NextTrailer_Waits ==
    /\ rpc \in {"open", "eof"}
    /\ ~AtEnd
    /\ AtTrailer
    /\ IF MarkerAt(ptr)
       THEN ptr' = ptr + WordLen /\ markerRead' = TRUE /\ rpc' = "eof"
       ELSE UNCHANGED <<ptr, markerRead, rpc>>
    /\ UNCHANGED <<fileSize, inds, view, got>>

NextTrailer ==
    /\ rpc \in {"open", "eof"}
    /\ ~AtEnd
    /\ AtTrailer
    /\ IF MarkerAt(ptr)
       THEN /\ ptr' = ptr + WordLen
            /\ markerRead' = TRUE
            /\ rpc' = "eof"
            /\ UNCHANGED <<view, got>>
       ELSE Throw
    /\ UNCHANGED <<fileSize, inds>>

NextBatchView ==
    /\ rpc \in {"open", "eof"}
    /\ ~AtEnd
    /\ ~AtTrailer
    /\ IF CanRead(ptr, HeaderLen)
       THEN /\ view' = ViewOf(HeaderInts(ptr))
            /\ ptr' = ptr + HeaderInts(ptr)[1]
            /\ rpc' = "view"
            /\ UNCHANGED <<markerRead, got>>
       ELSE Throw
    /\ UNCHANGED <<fileSize, inds>>

-----------------------------------------------------------------------------
(* BatchView: the caller holds one view and uses it up before it asks for  *)
(* the next batch (SimpleCurseReader::Next, BasicSkipperStream::Next).     *)

\* The bytes of column i: between the offset before it and its own.
ColBeg(i) == view.offsets[inds[i]]
ColEnd(i) == view.offsets[inds[i] + 1]
ColBytes(i) == BytesAt(view.at + ColBeg(i), ColEnd(i) - ColBeg(i))

\* Reading and decompressing it: anything but a whole blob throws (lz4's size
\* prefix and its checks; nothing at all is shorter than the prefix).
Loadable(i) ==
    \/ view.columns[i] # NotLoaded
    \/ /\ CanRead(view.at + ColBeg(i), ColEnd(i) - ColBeg(i))
       /\ IsItem(ColBytes(i))
       /\ ColBytes(i)[1].of.kind = "column"

\* GetColumn(i): what the cache has, or the bytes.
Loaded(i) == IF view.columns[i] = NotLoaded THEN ColBytes(i)[1].of ELSE view.columns[i]

\* Defect: the cache is filled at the column's index in the file.
GetColumn_FileIndex(i) ==
    /\ rpc = "view"
    /\ i \in DOMAIN inds
    /\ IF Loadable(i)
       THEN /\ view' = [view EXCEPT !.columns =
                          [j \in DOMAIN @ |-> IF j = inds[i] THEN Loaded(i) ELSE @[j]]]
            /\ UNCHANGED <<rpc, ptr, markerRead, got>>
       ELSE Throw
    /\ UNCHANGED <<fileSize, inds>>

GetColumn(i) ==
    /\ rpc = "view"
    /\ i \in DOMAIN inds
    /\ IF Loadable(i)
       THEN /\ view' = [view EXCEPT !.columns[i] = Loaded(i)]
            /\ UNCHANGED <<rpc, ptr, markerRead, got>>
       ELSE Throw
    /\ UNCHANGED <<fileSize, inds>>

\* ExtractColumns in ReadAll or ReadSubset: every column, those already loaded
\* moved out of the cache.
ReadAll ==
    /\ rpc = "view"
    /\ IF \A i \in DOMAIN inds : Loadable(i)
       THEN /\ got' = Append(got, [rows    |-> view.rows, 
                                   columns |-> [i \in DOMAIN inds |-> Loaded(i)]])
            /\ rpc' = "open"
            /\ view' = NoView
            /\ UNCHANGED <<ptr, markerRead>>
       ELSE Throw
    /\ UNCHANGED <<fileSize, inds>>

\* ReadSubset of no row: EmptyBatch, nothing more is read from the file.
Skipped(rows) == [rows |-> rows, columns |-> [i \in DOMAIN inds |-> NotLoaded]]

ReadNothing ==
    /\ rpc = "view"
    /\ got' = Append(got, Skipped(view.rows))
    /\ rpc' = "open"
    /\ view' = NoView
    /\ UNCHANGED <<fileSize, ptr, markerRead, inds>>

NextCall == NextAfterEnd \/ NextTrailer \/ NextBatchView

RNext ==
    \/ Open
    \/ NextCall
    \/ \E i \in 1..NCols : GetColumn(i)
    \/ ReadAll \/ ReadNothing
=============================================================================
