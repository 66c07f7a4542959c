------------------------------ MODULE GroupSort ------------------------------
(***************************************************************************)
(* SortOperator over a stream of batches, or over a GroupByOperator that   *)
(* has such a stream: the end of most queries, `group_by >= sort`, a       *)
(* SELECT with GROUP BY, ORDER BY and LIMIT. Next of the sort stream calls *)
(* Next of the group-by stream, which drains its own stream before it      *)
(* returns its one batch.                                                  *)
(*                                                                         *)
(* The variables of SortOperator keep their names; those of                *)
(* GroupByOperator have an initial g.                                      *)
(***************************************************************************)
EXTENDS SortOperator

CONSTANTS Growth, BlockSize,    \* of GroupByOperator
          Groupings,            \* its operators
          Tables                \* its streams

ASSUME SizesAssumption == BlockSize \in Nat \ {0} /\ Growth \in Nat \ {0}

\* Keys and aggregates are columns of the streams, and strings are known by numbers.
\* A result has columns.
ASSUME GroupingsAssumption ==
    \A q \in Groupings :
        /\ q.keys \in Seq(Nat) /\ q.aggs \in Seq(Nat) /\ Len(q.keys) + Len(q.aggs) > 0
        /\ q.limit # NoLimit => q.limit \in Nat
        /\ \A table \in Tables :
             /\ table \in Seq(Seq(Seq(Int)))
             /\ \A b \in DOMAIN table : \A n \in DOMAIN table[b] :
                  ToSet(q.keys) \cup ToSet(q.aggs) \subseteq DOMAIN table[b][n]

NoGroupBy == [keys |-> <<>>, aggs |-> <<>>, strings |-> {}, limit |-> NoLimit]

VARIABLES gQuery, gInput, gTaken, gLive, gPc, gOrder, gMaps1, gMap2, gAggrs, gResult,
          gRows, gL, gK, gKeys, gInds, gAppend, gOut

gVars == <<gQuery, gInput, gTaken, gLive, gPc, gOrder, gMaps1, gMap2, gAggrs, gResult,
           gRows, gL, gK, gKeys, gInds, gAppend, gOut>>

G == INSTANCE GroupByOperator WITH
        Queries <- Groupings, Inputs <- Tables,
        query <- gQuery, input <- gInput, taken <- gTaken, live <- gLive, pc <- gPc,
        order <- gOrder, maps1 <- gMaps1, map2 <- gMap2, aggrs <- gAggrs, result <- gResult,
        rows <- gRows, l <- gL, k <- gK, map2_keys <- gKeys, aggrs_inds <- gInds,
        append <- gAppend, out <- gOut

\* A sort of a stream of its own: there is no group-by, as if it had ended.
SortAlone ==
    /\ Init
    /\ query.cols > 0 => \A row \in ToSet(FlattenSeq(input)) : Len(row.key) = query.cols
    /\ gQuery = NoGroupBy
    /\ gInput = <<>> /\ gTaken = 0 /\ gLive = FALSE /\ gPc = "ended"
    /\ gOrder = <<>> /\ gMaps1 = <<>> /\ gMap2 = <<>> /\ gAggrs = <<>> /\ gResult = <<>>
    /\ gRows = <<>> /\ gL = 0 /\ gK = 1 /\ gKeys = <<>> /\ gInds = <<>> /\ gAppend = {}
    /\ gOut = <<>>

\* A sort of groups: nothing has come from the group-by yet. The parameters name
\* columns of its result.
SortOfGroups ==
    /\ G!Init
    /\ query \in Queries
    /\ query.cols = Len(gQuery.keys) + Len(gQuery.aggs)
    /\ input = <<>>
    /\ taken = 0 /\ live = TRUE /\ pc = "idle" /\ cols = <<>> /\ i = 0
    /\ vec = <<>> /\ count = 0 /\ out = <<>>

GSInit == SortAlone \/ SortOfGroups

-----------------------------------------------------------------------------
\* The batch of the group-by as rows for the sort: the keys, then the aggregates, all
\* of which are counts.
GroupRows(b) ==
    [g \in DOMAIN b.keys |-> [key |-> b.keys[g] \o [a \in DOMAIN b.aggs |-> Len(b.aggs[a][g])],
                              id  |-> g]]

\* The sort has asked for a batch, and the group-by works on it.
GroupStep ==
    /\ pc = "pull"
    /\ taken = Len(input)
    /\ gLive
    /\ G!Next
    /\ input' = IF gOut' = gOut THEN input ELSE Append(input, GroupRows(gOut'[1]))
    /\ UNCHANGED <<query, taken, live, pc, cols, i, vec, count, out>>

\* A group-by that has ended answers null at once, and the sort finishes.
SortStep ==
    /\ Next
    /\ pc = "pull" /\ taken = Len(input) => ~gLive
    /\ UNCHANGED gVars

GSNext == GroupStep \/ SortStep

GSSpec == GSInit /\ [][GSNext]_<<vars, gVars>>

-----------------------------------------------------------------------------
(* Properties                                                              *)

\* The property of the group-by, for the streams it has here.
GroupsExact == gQuery # NoGroupBy => G!GroupsExact

\* What the SELECT asks for: the groups of the whole stream with their counts, sorted
\* and cut.
Asked ==
    LET keys == G!Keys(FlattenSeq(gInput))
        Counts(g) == [a \in DOMAIN gQuery.aggs |->
                         Len(G!ValuesOf(FlattenSeq(gInput), keys[g], gQuery.aggs[a]))]
    IN  Top([g \in DOMAIN keys |-> [key |-> keys[g] \o Counts(g), id |-> g]])

\* The result of the sort is the sorted stream, and that of a sort of groups is the
\* answer to the SELECT: a tie is decided by which group came first, and a limit in
\* each of the two operators do not get in each other's way.
ResultExact ==
    /\ ResultIsSorted
    /\ gQuery # NoGroupBy /\ out # <<>> => out[1].rows = Asked
=============================================================================
