----------------------------- MODULE FileCalls ------------------------------
(***************************************************************************)
(* The calls of a FileReader (src/core/file_io.hpp:12-20) and their        *)
(* results, on a file whose byte i is known by its offset: a result names  *)
(* the bytes it really took.                                               *)
(***************************************************************************)
EXTENDS Naturals

CONSTANTS FileSize,     \* size of the file in bytes
          Requests      \* the calls a thread may make

ReadRequest == [op : {"read"}, beg : Nat, len : Nat]
SizeRequest == [op : {"size"}]

ASSUME SizeAssumption     == FileSize \in Nat
ASSUME RequestsAssumption == Requests \subseteq ReadRequest \cup SizeRequest

NoCall   == [op |-> "none"]
NoAnswer == [kind |-> "none"]
Thrown   == [kind |-> "throw"]

\* Bytes beg .. beg+len-1 of the file, in this order.
Bytes(beg, len) == [kind |-> "bytes", beg |-> beg, len |-> len]
SizeIs(n)       == [kind |-> "size", size |-> n]

\* Whether len bytes can be had at offset beg: an empty range always can.
Available(beg, len) == len = 0 \/ beg + len <= FileSize

\* The result a request has on a stream that has not failed.
Effect(r) ==
    IF r.op = "size" THEN SizeIs(FileSize)
    ELSE IF Available(r.beg, r.len) THEN Bytes(r.beg, r.len) ELSE Thrown
=============================================================================
