----------------------------- MODULE MCGroupSort -----------------------------
EXTENDS GroupSort, TLC

CONSTANTS MaxRows,      \* BOUND: rows of a stream that is sorted
          MaxGrouped    \* BOUND: rows of a stream that is grouped

Desc(c) == [col |-> c, rev |-> TRUE]
Asc(c)  == [col |-> c, rev |-> FALSE]

\* Two columns, or none, sorted in every way, and four limits; three columns for the
\* result of a group-by: by the count, or by a key and then the count.
MCQueries ==
    [cols : {2}, params : {<<Asc(1)>>, <<Desc(2)>>, <<Desc(1), Asc(2)>>}, limit : {NoLimit, 0, 1, 3}]
        \cup [cols : {0}, params : {<<>>}, limit : {NoLimit, 2}]
        \cup [cols : {3}, params : {<<Desc(3)>>, <<Asc(2), Desc(3)>>}, limit : {NoLimit, 1}]

\* Streams of up to three batches: a sequence of rows and the places to cut it.
\* Empty batches are among them.
MCKeys   == [1..2 -> 0..1]
MCInputs ==
    {<<SubSeq(rows, 1, a), SubSeq(rows, a + 1, b), SubSeq(rows, b + 1, Len(rows))>> :
        <<rows, a, b>> \in UNION {
            {<<[k \in 1..n |-> [key |-> keys[k], id |-> k]], a, b>> :
                <<keys, a, b>> \in {t \in [1..n -> MCKeys] \X (0..n) \X (0..n) : t[2] <= t[3]}}
            : n \in 0..MaxRows}}

\* Columns 1 and 2 are keys, 3 is aggregated: its value is the row's number, so
\* that an aggregate tells which rows it has had.
MCGroupings ==
    {[keys |-> <<2, 1>>, aggs |-> <<3>>,    strings |-> {1},    limit |-> NoLimit],
     [keys |-> <<1, 2>>, aggs |-> <<3>>,    strings |-> {1, 2}, limit |-> 2],
     [keys |-> <<1>>,    aggs |-> <<3>>,    strings |-> {1},    limit |-> NoLimit],
     [keys |-> <<2>>,    aggs |-> <<3>>,    strings |-> {},     limit |-> 1],
     [keys |-> <<1, 2>>, aggs |-> <<>>,     strings |-> {2},    limit |-> 0],
     [keys |-> <<>>,     aggs |-> <<3, 1>>, strings |-> {},     limit |-> NoLimit]}

\* Streams of one or two batches.
MCTables ==
    {<<SubSeq(s, 1, a), SubSeq(s, a + 1, Len(s))>> :
        <<s, a>> \in UNION {
            {<<[n \in 1..m |-> <<keys[n][1], keys[n][2], n>>], a>> :
                <<keys, a>> \in [1..m -> (5..6) \X (7..8)] \X (0..m)}
            : m \in 0..MaxGrouped}}

\* A group-by has a limited sort behind it, or one by two columns.
MCInit ==
    /\ GSInit
    /\ gQuery # NoGroupBy => (query.limit = 1) # (Len(query.params) = 2)

MCSpec == MCInit /\ [][GSNext]_<<vars, gVars>>
=============================================================================
