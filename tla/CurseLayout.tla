---------------------------- MODULE CurseLayout -----------------------------
(***************************************************************************)
(* The bytes of a .curse file (src/core/storage_write.cpp,                 *)
(* spec/format.md): a marker, the schema, the batches, the marker again.   *)
(*                                                                         *)
(* A byte is known by the item it belongs to and its place in it, so that  *)
(* cutting the file anywhere, and reading it from a wrong offset, are      *)
(* visible. Integers and the marker take WordLen bytes, 4 in the program.  *)
(* A compressed column (a blob) stands for the column of one batch; its    *)
(* length is whatever lz4 makes of it. Names and types of the columns are  *)
(* the body of the schema.                                                 *)
(***************************************************************************)
EXTENDS Naturals, Sequences

CONSTANTS NCols,        \* columns of the file's schema
          WordLen,      \* sizeof(int) = kFormatMarker.size()
          SchemaLen,    \* bytes of the schema after its size
          IntMax        \* numeric_limits<int>::max()

ASSUME LayoutAssumption ==
    /\ NCols \in Nat \ {0}
    /\ WordLen \in Nat \ {0}
    /\ SchemaLen \in Nat
    /\ IntMax \in Nat

\* n bytes that make up one item.
Chunk(item, n) == [k \in 1..n |-> [of |-> item, at |-> k, size |-> n]]

\* Bytes that are an item, whole and nothing else.
IsItem(bytes) == bytes # <<>> /\ bytes = Chunk(bytes[1].of, bytes[1].size)

MarkerItem    == [kind |-> "marker"]
SchemaItem    == [kind |-> "schema"]
IntItem(v)    == [kind |-> "int", value |-> v]
ColItem(b, c) == [kind |-> "column", batch |-> b, col |-> c]

kFormatMarker == Chunk(MarkerItem, WordLen)

\* VecToBytes<int>
IntBytes(ints) ==
    [k \in 1..(Len(ints) * WordLen) |->
        [of   |-> IntItem(ints[1 + ((k - 1) \div WordLen)]),
         at   |-> 1 + ((k - 1) % WordLen),
         size |-> WordLen]]

\* 8 + 4 * n_cols: the size of a batch's own header.
HeaderLen == (2 + NCols) * WordLen

\* `first` and what it becomes when the lengths are added to it one by one.
Sums(first, lens) ==
    LET sum[k \in 0..Len(lens)] == IF k = 0 THEN first ELSE sum[k - 1] + lens[k]
    IN  sum

\* The offsets of the ends of the columns from the start of the batch, running
\* over the lengths of the blobs.
Lengths(blobs) == [c \in 1..NCols |-> Len(blobs[c])]
Offsets(blobs) == LET dlt == Sums(HeaderLen, Lengths(blobs)) IN [c \in 1..NCols |-> dlt[c]]

\* Defect: the batch's size without its own header.
BatchSize_NoHeader(blobs) == Offsets(blobs)[NCols] - HeaderLen

BatchSize(blobs) == Offsets(blobs)[NCols]

SchemaBytes == IntBytes(<<WordLen + SchemaLen>>) \o Chunk(SchemaItem, SchemaLen)
HeaderBytes(rows, blobs) == IntBytes(<<BatchSize(blobs), rows>> \o Offsets(blobs))
=============================================================================
