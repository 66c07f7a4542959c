-------------------------- MODULE GroupByOperator ---------------------------
(***************************************************************************)
(* GroupByOperatorStream (src/core/operators/groupby.cpp): the rows of a   *)
(* stream grouped by key columns, with aggregates for each group, and, if  *)
(* there is a limit, only the first `limit` groups to appear.              *)
(*                                                                         *)
(* Two levels of hashing. maps1[k] numbers the values of a key column      *)
(* without raw type (strings), in blocks of rows, column after column, the *)
(* widest first; map2 numbers the tuples of raw values and numbers. The    *)
(* number of a group is its place in map2, in the aggregates of every      *)
(* column, which grow in strides, and in the key columns of the result,    *)
(* which get a group's keys later, once the batch has been through map2.   *)
(*                                                                         *)
(* An insertion-ordered hash map is the sequence of its keys. A row is the *)
(* sequence of its values. An aggregate is the sequence of the values it   *)
(* has been updated with: what Count, Sum, Min, ... make of them is theirs.*)
(***************************************************************************)
EXTENDS Integers, Sequences, FiniteSets, SequencesExt

CONSTANTS NoLimit,      \* m_limit without a value
          BlockSize,    \* kBlockSize, 512
          Growth,       \* dlt of extend_aggrs, 32
          Queries,      \* m_key_col_inds, m_aggr_col_inds, the key columns
                        \* without raw type, and m_limit
          Inputs        \* the streams: sequences of batches

VARIABLES query,        \* the operator
          input,        \* the stream's batches
          taken,        \* how many of them it has given
          live,         \* m_stream is not null
          pc,           \* "idle", "pull", "intern", "insert", "update", "append", "ended"
          order,        \* the key columns, widest first
          maps1,        \* the values of each key column, by number
          map2,         \* the keys of the groups, by number
          aggrs,        \* for each aggregate the deque of its groups
          result,       \* the key columns of the result, by group
          rows,         \* the batch taken last
          l,            \* start of the block being numbered
          k,            \* place in order of the column being numbered
          map2_keys,    \* the key of each row of the batch
          aggrs_inds,   \* its group, or NoGroup
          append,       \* append_to_result: the rows that opened a group
          out           \* history: the batches returned

batchVars == <<rows, l, k, map2_keys, aggrs_inds, append>>
tables    == <<maps1, map2, aggrs, result>>
vars == <<query, input, taken, live, pc, order, tables, batchVars, out>>

NoGroup == 0

KeyCols == query.keys
AggCols == query.aggs
Strings == query.strings
Limited == query.limit # NoLimit

TypeOK ==
    /\ taken \in 0..Len(input)
    /\ pc \in {"idle", "pull", "intern", "insert", "update", "append", "ended"}
    /\ pc # "idle" => ToSet(order) = DOMAIN KeyCols
    /\ Limited => Len(map2) <= query.limit
    /\ \A a \in DOMAIN aggrs : Len(aggrs[a]) % Growth = 0
    /\ DOMAIN aggrs_inds \subseteq DOMAIN rows
    /\ append \subseteq DOMAIN aggrs_inds
    /\ l \in Nat /\ k \in 1..(Len(KeyCols) + 1)
    /\ Len(out) <= 1

Init ==
    /\ query \in Queries
    /\ input \in Inputs
    /\ taken = 0
    /\ live = TRUE
    /\ pc = "idle"
    /\ order = <<>>
    /\ maps1 = <<>> /\ map2 = <<>> /\ aggrs = <<>> /\ result = <<>>
    /\ rows = <<>> /\ l = 0 /\ k = 1
    /\ map2_keys = <<>> /\ aggrs_inds = <<>> /\ append = {}
    /\ out = <<>>

-----------------------------------------------------------------------------
\* The number of x in a map, and the map after insert({x, map.size()}).
NumberOf(x, map) == CHOOSE n \in DOMAIN map : map[n] = x
Has(x, map)      == x \in ToSet(map)
Insert(map, x)   == IF Has(x, map) THEN map ELSE Append(map, x)

\* The map when these values have been inserted one after the other.
InsertAll(map, values) ==
    LET after[n \in 0..Len(values)] == IF n = 0 THEN map ELSE Insert(after[n - 1], values[n])
    IN  after[Len(values)]

\* key_sizes: a number takes eight bytes, the raw values here take fewer.
IsWider(c, d) == c \in Strings /\ d \notin Strings

\* std::sort by key_sizes is not stable: equal widths come in any order.
Orders ==
    {o \in [1..Len(KeyCols) -> 1..Len(KeyCols)] :
        /\ IsInjective(o)
        /\ \A i, j \in DOMAIN o : i < j => ~IsWider(KeyCols[o[j]], KeyCols[o[i]])}

\* GroupByOperatorStream::Next is called.
Call ==
    /\ pc \in {"idle", "ended"}
    /\ IF live
       THEN /\ pc' = "pull"
            /\ order' \in Orders
            /\ maps1' = [c \in DOMAIN KeyCols |-> <<>>]
            /\ map2' = <<>>
            /\ aggrs' = [a \in DOMAIN AggCols |-> <<>>]
            /\ result' = <<>>
       ELSE pc' = "ended" /\ UNCHANGED <<order, tables>>
    /\ UNCHANGED <<query, input, taken, live, batchVars, out>>

\* Defect: the numbers of the key columns' values start anew with every batch.
Pull_Renumbers ==
    /\ pc = "pull"
    /\ taken < Len(input)
    /\ taken' = taken + 1
    /\ rows' = input[taken']
    /\ l' = 0 /\ k' = 1
    /\ maps1' = [c \in DOMAIN KeyCols |-> <<>>]
    /\ map2_keys' = [j \in DOMAIN rows' |-> <<>>]
    /\ aggrs_inds' = <<>>
    /\ append' = {}
    /\ pc' = "intern"
    /\ UNCHANGED <<query, input, live, order, map2, aggrs, result, out>>

Pull ==
    /\ pc = "pull"
    /\ taken < Len(input)
    /\ taken' = taken + 1
    /\ rows' = input[taken']
    /\ l' = 0 /\ k' = 1
    /\ map2_keys' = [j \in DOMAIN rows' |-> <<>>]
    /\ aggrs_inds' = <<>>
    /\ append' = {}
    /\ pc' = "intern"
    /\ UNCHANGED <<query, input, live, order, tables, out>>

\* std::min(l + kBlockSize, rows.n_rows), and the rows of the block.
BlockEnd == IF l + BlockSize < Len(rows) THEN l + BlockSize ELSE Len(rows)
Block    == (l + 1)..BlockEnd

\* One key column over one block: the raw value, or the number maps1 gives it,
\* joins the key of each row.
Intern ==
    /\ pc = "intern"
    /\ l < Len(rows)
    /\ k <= Len(order)
    /\ LET c      == KeyCols[order[k]]
           map    == InsertAll(maps1[order[k]], [n \in 1..(BlockEnd - l) |-> rows[l + n][c]])
           Part(j) == IF c \in Strings THEN NumberOf(rows[j][c], map) ELSE rows[j][c]
       IN  /\ maps1' = IF c \in Strings THEN [maps1 EXCEPT ![order[k]] = map] ELSE maps1
           /\ map2_keys' = [j \in DOMAIN rows |->
                               IF j \in Block THEN Append(map2_keys[j], Part(j)) ELSE map2_keys[j]]
    /\ k' = k + 1
    /\ UNCHANGED <<query, input, taken, live, pc, order, map2, aggrs, result,
                   rows, l, aggrs_inds, append, out>>

NextBlock ==
    /\ pc = "intern"
    /\ l < Len(rows) => k > Len(order)
    /\ l' = l + BlockSize
    /\ k' = 1
    /\ pc' = IF l' < Len(rows) THEN "intern" ELSE "insert"
    /\ UNCHANGED <<query, input, taken, live, order, tables, rows, map2_keys, aggrs_inds, append, out>>

\* extend_aggrs: every aggregate's deque grows in strides to at least n groups.
Extended(n) ==
    [a \in DOMAIN aggrs |->
        LET missing == IF Len(aggrs[a]) >= n THEN 0 ELSE n - Len(aggrs[a])
            strides == (missing + Growth - 1) \div Growth
        IN  aggrs[a] \o [x \in 1..(strides * Growth) |-> <<>>]]

\* The next row's key is put into map2, or, with the groups all taken, looked up.
InsertRow ==
    LET j   == Len(aggrs_inds) + 1
        key == map2_keys[j]
    IN  /\ pc = "insert"
        /\ j <= Len(rows)
        /\ IF ~Limited \/ Len(map2) < query.limit
           THEN /\ map2' = Insert(map2, key)
                /\ aggrs_inds' = Append(aggrs_inds, NumberOf(key, map2'))
                /\ append' = IF Has(key, map2) THEN append ELSE append \cup {j}
                /\ aggrs' = IF Has(key, map2) THEN aggrs ELSE Extended(Len(map2'))
           ELSE /\ aggrs_inds' = Append(aggrs_inds, IF Has(key, map2) THEN NumberOf(key, map2) ELSE NoGroup)
                /\ UNCHANGED <<map2, append, aggrs>>
        /\ UNCHANGED <<query, input, taken, live, pc, order, maps1, result, rows, l, k, map2_keys, out>>

RowsInserted ==
    /\ pc = "insert"
    /\ Len(aggrs_inds) = Len(rows)
    /\ pc' = "update"
    /\ UNCHANGED <<query, input, taken, live, order, tables, batchVars, out>>

\* The rows of the batch go to the aggregates of their groups.
OfGroup(g, c) == [n \in DOMAIN rows |-> IF aggrs_inds[n] = g THEN <<rows[n][c]>> ELSE <<>>]

UpdateAggregates ==
    /\ pc = "update"
    /\ aggrs' = [a \in DOMAIN aggrs |-> [g \in DOMAIN aggrs[a] |->
                    aggrs[a][g] \o FlattenSeq(OfGroup(g, AggCols[a]))]]
    /\ pc' = "append"
    /\ UNCHANGED <<query, input, taken, live, order, maps1, map2, result, batchVars, out>>

KeysOf(row) == [n \in DOMAIN KeyCols |-> row[KeyCols[n]]]

\* The keys of the groups this batch has opened join the result.
AppendKeys ==
    /\ pc = "append"
    /\ result' = result \o FlattenSeq([n \in DOMAIN rows |->
                               IF n \in append THEN <<KeysOf(rows[n])>> ELSE <<>>])
    /\ pc' = "pull"
    /\ UNCHANGED <<query, input, taken, live, order, maps1, map2, aggrs, batchVars, out>>

\* The stream returns null: one row for each group of map2, its keys from `result`.
Finish ==
    /\ pc = "pull"
    /\ taken = Len(input)
    /\ live' = FALSE
    /\ out' = Append(out, [keys |-> result,
                           aggs |-> [a \in DOMAIN aggrs |-> SubSeq(aggrs[a], 1, Len(map2))]])
    /\ pc' = "ended"
    /\ UNCHANGED <<query, input, taken, order, tables, batchVars>>

Next ==
    \/ Call \/ Pull \/ Intern \/ NextBlock \/ InsertRow \/ RowsInserted
    \/ UpdateAggregates \/ AppendKeys \/ Finish

Spec == Init /\ [][Next]_vars

-----------------------------------------------------------------------------
(* Properties                                                              *)

\* What the query asks for, over a sequence of rows: the distinct keys in the
\* order of their first rows, cut to the limit, and for each of them the values
\* of its rows in their order.
Keys(s) ==
    LET all == InsertAll(<<>>, [n \in DOMAIN s |-> KeysOf(s[n])])
    IN  IF Limited /\ query.limit < Len(all) THEN SubSeq(all, 1, query.limit) ELSE all

ValuesOf(s, key, c) ==
    FlattenSeq([n \in DOMAIN s |-> IF KeysOf(s[n]) = key THEN <<s[n][c]>> ELSE <<>>])

Seen == FlattenSeq(SubSeq(input, 1, taken))

\* Between batches the three numberings of the groups agree and are those of the
\* reference: group g has the g-th key to appear, and its aggregates have had all
\* of its rows, also those that came once the limit was reached, and no others.
\* At no time is a deque indexed past its end: aggr[ind] and aggr[j] are unchecked.
GroupsExact ==
    /\ TypeOK
    /\ \A a \in DOMAIN aggrs :
         /\ Len(map2) <= Len(aggrs[a])
         /\ \A j \in DOMAIN aggrs_inds : aggrs_inds[j] <= Len(aggrs[a])
    /\ pc = "pull" =>
         /\ result = Keys(Seen)
         /\ Len(map2) = Len(result)
         /\ \A a \in DOMAIN aggrs, g \in DOMAIN result :
              aggrs[a][g] = ValuesOf(Seen, result[g], AggCols[a])
=============================================================================
