---------------------------- MODULE MCStringColumn ----------------------------
EXTENDS StringColumn, TLC, FiniteSets

CONSTANTS MaxRow,    \* BOUND: characters of a row
          MaxRows,   \* BOUND: rows of a column
          MaxBytes   \* BOUND: bytes of a file

Upto(S, n) == UNION {[1..m -> S] : m \in 0..n}

MCColumns == Upto(Upto(Char, MaxRow), MaxRows)
MCFiles   == Upto(Char, MaxBytes)
=============================================================================
