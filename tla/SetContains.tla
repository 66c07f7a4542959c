----------------------------- MODULE SetContains -----------------------------
(***************************************************************************)
(* ColumnOperation::SetContains (src/core/operators/transform.cpp): a      *)
(* column that says of each row whether its values, in the given columns,  *)
(* occur together as a row of another stream. The stream is drained when   *)
(* the operation is made: the values of each column are numbered by a hash *)
(* map of that column, and the rows are kept as tuples of numbers. Rows    *)
(* are looked up later, without inserting anything.                        *)
(*                                                                         *)
(* A hash map is the sequence of its keys, a key's number its place,       *)
(* counted from 0 as in the program. A row is the sequence of its values.  *)
(* Only operators here: the data is built in one go and never changed.     *)
(***************************************************************************)
EXTENDS Naturals, Sequences, FiniteSets, SequencesExt

Has(x, map)      == x \in ToSet(map)
NumberOf(x, map) == (CHOOSE n \in DOMAIN map : map[n] = x) - 1

\* The elements of s that are marked, in their order.
Picked(s, marked) == FlattenSeq([j \in DOMAIN s |-> IF marked[j] THEN <<s[j]>> ELSE <<>>])

\* The keys of a map after the insertion of these, map.insert({x, map.size()}): each
\* at its first place.
Distinct(s) == Picked(s, [j \in DOMAIN s |-> \A i \in 1..(j - 1) : s[i] # s[j]])

\* The whole stream, drained: a map for each column, and the rows as tuples of
\* numbers. A map goes on where the batch before has left it.
DataOf(cols, rows) ==
    LET maps == [c \in 1..cols |-> Distinct([j \in DOMAIN rows |-> rows[j][c]])]
    IN  [maps |-> maps,
         set  |-> {[c \in 1..cols |-> NumberOf(rows[j][c], maps[c])] : j \in DOMAIN rows}]

\* The tuple a row is looked up by: a value without number leaves the 0 that the
\* tuple was filled with, which is the number of another value.
KeyOf(data, row) ==
    [c \in DOMAIN data.maps |-> IF Has(row[c], data.maps[c]) THEN NumberOf(row[c], data.maps[c]) ELSE 0]

\* One row of the operation's column, not_found first.
Lookup(data, row) ==
    /\ \A c \in DOMAIN data.maps : Has(row[c], data.maps[c])
    /\ KeyOf(data, row) \in data.set
=============================================================================
