--------------------------- MODULE MCSharedReader ---------------------------
EXTENDS SharedReader, TLC

\* Offsets at the start, inside, at the end and past the end of the file; empty
\* buffers; ranges that end at the last byte and one byte after it.
MCRequests ==
    [op : {"read"}, beg : 0..(FileSize + 1), len : 0..2] \cup SizeRequest

Symmetry == Permutations(Threads)
=============================================================================
