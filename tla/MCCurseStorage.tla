--------------------------- MODULE MCCurseStorage ---------------------------
EXTENDS CurseStorage

\* A stream of one batch, and one of two batches of different row counts.
OneBatch   == <<2>>
TwoBatches == <<2, 1>>

\* The first batch's columns are 1 and 2 bytes long, or both 2, which makes it too
\* big for IntMax; the second batch has one byte in each.
OneLength  == <<<<{2}>>>>
TwoLengths == <<<<{1, 2}, {2}>>, <<{1}, {1}>>>>

\* Both columns in the other order, and one with a column that is unknown.
AnySchema == {<<2, 1>>, <<1, Unknown>>}
OneColumn == {<<1>>}
=============================================================================
