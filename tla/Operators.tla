------------------------------ MODULE Operators ------------------------------
(***************************************************************************)
(* What the operators of src/core/operators make of the rows of a stream,  *)
(* all of them at once, and what the aggregators of src/core/aggregators   *)
(* make of the values of a column. A row is the sequence of its values,    *)
(* and columns are given by their positions. How a stream comes to its     *)
(* result batch by batch is in OperatorChain, SortOperator and             *)
(* GroupByOperator.                                                        *)
(***************************************************************************)
EXTENDS ColumnOperations

CONSTANTS NoLimit,      \* an operator without a limit
          NaN,          \* the average of no values: 0 / 0
          Scale         \* averages are counted in parts of one Scale-th

ASSUME ScaleAssumption == Scale \in Nat \ {0}

Least(m, n) == IF m < n THEN m ELSE n

Total(values) == FoldLeft(LAMBDA sum, v : sum + v, 0, values)

\* AggregatorImpl<tp, id>::Get after these values.
Aggregated(tp, values) ==
    CASE tp = "Count"         -> Len(values)
      [] tp = "Sum"           -> Total(values)
      [] tp = "Average"       -> IF values = <<>> THEN NaN ELSE (Scale * Total(values)) \div Len(values)
      [] tp = "Min"           -> CHOOSE v \in ToSet(values) : \A w \in ToSet(values) : v <= w
      [] tp = "Max"           -> CHOOSE v \in ToSet(values) : \A w \in ToSet(values) : v >= w
      [] tp = "CountDistinct" -> Cardinality(ToSet(values))

\* Get throws: "min/max of empty set is undefined".
Undefined(tp, values) == tp \in {"Min", "Max"} /\ values = <<>>

\* The types AggregatorImpl is defined for, and the type of its result.
Aggregates(tp, type) == tp \in {"Sum", "Average"} => type \in Integral \cup {"Float64"}

ResultType(tp, type) ==
    CASE tp \in {"Count", "CountDistinct"}       -> "Int64"
      [] tp = "Average"                          -> "Float64"
      [] tp = "Sum" /\ type \in Integral         -> "Int128"
      [] OTHER                                   -> type

-----------------------------------------------------------------------------
Column(rows, c) == [j \in DOMAIN rows |-> rows[j][c]]
Part(row, cs)   == [n \in DOMAIN cs |-> row[cs[n]]]

\* Every operation sees the columns of those before it.
Transformed(ops, row) == FoldLeft(LAMBDA r, f : Append(r, Computed(f, Part(r, f.cols))), row, ops)

\* The first parameter that tells two rows apart decides, and then their order.
Precedes(params, rows, i, j) ==
    LET differ == {k \in DOMAIN params : rows[i][params[k].col] # rows[j][params[k].col]}
        k      == CHOOSE n \in differ : \A m \in differ : n <= m
    IN  IF differ = {} THEN i < j
        ELSE IF params[k].rev THEN rows[i][params[k].col] > rows[j][params[k].col]
                              ELSE rows[i][params[k].col] < rows[j][params[k].col]

Cut(limit, s) == IF limit = NoLimit THEN s ELSE SubSeq(s, 1, Least(limit, Len(s)))

Sorted(o, rows) ==
    LET order == SetToSortSeq(DOMAIN rows, LAMBDA i, j : Precedes(o.params, rows, i, j))
    IN  Cut(o.limit, [n \in DOMAIN rows |-> rows[order[n]]])

AggregatesOf(o, rows) ==
    [a \in DOMAIN o.aggs |-> Aggregated(o.aggs[a].tp, Column(rows, o.aggs[a].col))]

\* In the order of their first rows.
Groups(o, rows) ==
    LET Key(row) == Part(row, o.keys)
        keys     == Cut(o.limit, Distinct([j \in DOMAIN rows |-> Key(rows[j])]))
    IN  [g \in DOMAIN keys |->
            keys[g] \o AggregatesOf(o, Picked(rows, [j \in DOMAIN rows |-> Key(rows[j]) = keys[g]]))]

\* The rows whose value in column c is not 0.
Filtered(c, rows) ==
    LET kept[j \in 0..Len(rows)] ==
            IF j = 0 THEN <<>>
            ELSE LET row == rows[j]
                 IN  IF row[c] # 0 THEN Append(kept[j - 1], row) ELSE kept[j - 1]
    IN  kept[Len(rows)]

\* The rows that come out of an operator when these go in.
Apply(o, rows) ==
    CASE o.op = "skip"        -> SubSeq(rows, o.n + 1, Len(rows))
      [] o.op = "enumerate"   -> [j \in DOMAIN rows |-> Append(rows[j], o.start + j - 1)]
      [] o.op = "filter"      -> Filtered(o.col, rows)
      [] o.op \in {"select", "drop"} -> [j \in DOMAIN rows |-> Part(rows[j], o.cols)]
      [] o.op = "transform"   -> [j \in DOMAIN rows |-> Transformed(o.ops, rows[j])]
      [] o.op = "count"       -> <<<<Len(rows)>>>>
      [] o.op = "aggregation" -> <<AggregatesOf(o, rows)>>
      [] o.op = "sort"        -> Sorted(o, rows)
      [] o.op = "groups"      -> Groups(o, rows)

\* One operator after the other.
ApplyAll(chain, rows) ==
    LET after[k \in 0..Len(chain)] == IF k = 0 THEN rows ELSE Apply(chain[k], after[k - 1])
    IN  after[Len(chain)]
=============================================================================
