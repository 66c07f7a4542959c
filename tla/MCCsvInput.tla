----------------------------- MODULE MCCsvInput ------------------------------
EXTENDS CsvInput

CONSTANTS MaxWindows, MaxRows    \* BOUNDS: windows of the text, rows of it

\* Windows of no to two rows: a window without a row is one inside of a long row, or
\* what is left when the text ends with a window.
MCFeeds == {f \in UNION {[1..n -> 0..MaxRows] : n \in 1..MaxWindows} :
              \A w \in 1..Len(f) : (IF w = 1 THEN f[w] ELSE f[w] - f[w - 1]) \in 0..2}

\* Rows of one or two bytes that convert; those with text that does not convert in any
\* of the columns; one with the wrong number of fields.
Good == [bytes : {1, 2}, bad : {{}}, arity : {TRUE}]
MCRows ==
    Good \cup [bytes : {1}, bad : SUBSET (1..NCols), arity : {TRUE}]
         \cup {[bytes |-> 1, bad |-> {}, arity |-> FALSE]}

\* Every input of up to MaxRows - 2 such rows, and inputs that convert of up to MaxRows.

MCInputs ==
    UNION {[1..n -> MCRows] : n \in 0..(MaxRows - 2)}
        \cup UNION {[1..n -> Good] : n \in (MaxRows - 1)..MaxRows}

\* All windows with the rows of one byte, and a row in the first of two windows with
\* the others: the source knows nothing of what is in a row.
MCInit ==
    /\ InputInit
    /\ \/ \A r \in ToSet(input) : r.bad = {} /\ r.arity /\ r.bytes = 1
       \/ feed = <<1, Len(input)>>

MCSpec == MCInit /\ [][InputNext]_InputVars /\ InputFairness
=============================================================================
