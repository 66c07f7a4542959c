-------------------------- MODULE ColumnOperations --------------------------
(***************************************************************************)
(* The operations that make a column of columns (Transform and             *)
(* ColumnOperation, src/core/operators/transform.cpp): what each computes  *)
(* of the values of a row, the type its stream declares for the column     *)
(* before it is computed, the type the column then has, and the types it   *)
(* can be computed of. Whoever takes a column by the wrong type throws     *)
(* (std::get).                                                             *)
(*                                                                         *)
(* A value is a small number whatever its type. A text is one of a few,    *)
(* numbered in their order; the empty one is 0, the length of a text is    *)
(* its number, and Like says which texts match a pattern. A time counts    *)
(* half minutes. Integers are not wrapped at their width.                  *)
(***************************************************************************)
EXTENDS Integers, SetContains

CONSTANTS Like,     \* Like[p]: the texts a pattern matches
          Host      \* Host[v]: what q28's RegexpReplace makes of text v

Integral == {"Int8", "Int16", "Int32", "Int64", "Int128"}

Bit(b) == IF b THEN 1 ELSE 0

Holds(how, x, y) ==
    CASE how = "=" -> x = y
      [] how = "<>" -> x # y
      [] how = ">" -> x > y
      [] how = ">=" -> x >= y
      [] how = "<" -> x < y
      [] how = "<=" -> x <= y

\* Division of a time by a minute, and the rest by 60, both toward zero.
Quotient(n, d) == IF n >= 0 THEN n \div d ELSE -((-n) \div d)
Rest(n, d)     == n - d * Quotient(n, d)

\* The value of operation f in a row whose input columns have the values v.
Computed(f, v) ==
    CASE f.fn = "constant"  -> f.value
      [] f.fn = "not"       -> Bit(v[1] = 0)
      [] f.fn = "strlen"    -> v[1]
      [] f.fn = "compare"   -> Bit(Holds(f.how, v[1], f.value))
      [] f.fn = "search"    -> Bit(v[1] \in Like[f.pattern])
      [] f.fn = "replace"   -> Host[v[1]]
      [] f.fn = "minute"    -> Rest(Quotient(v[1], 2), 60)
      [] f.fn = "truncate"  -> 2 * (v[1] \div 2)
      [] f.fn = "and"       -> Bit(v[1] # 0 /\ v[2] # 0)
      [] f.fn = "or"        -> Bit(v[1] # 0 \/ v[2] # 0)
      [] f.fn = "add"       -> v[1] + v[2]
      [] f.fn = "sub"       -> v[1] - v[2]
      [] f.fn = "mul"       -> v[1] * v[2]
      [] f.fn = "select"    -> IF v[1] # 0 THEN v[2] ELSE v[3]
      [] f.fn = "contains"  -> Bit(Lookup(f.data, v))

Arithmetic == {"add", "sub", "mul"}

\* The type the column has, made of columns that have these.
ActualType(f, types) ==
    CASE f.fn \in {"constant"} \cup Arithmetic -> f.type
      [] f.fn \in {"strlen", "minute"}         -> "Int64"
      [] f.fn = "replace"                      -> "String"
      [] f.fn = "truncate"                     -> "Timestamp"
      [] f.fn = "select"                       -> types[2]
      [] OTHER                                 -> "Int8"

\* The type a stream declares for it, of columns declared so: m_result_type. An
\* ArithmeticOp declares Int8 whatever it makes.
DeclaredType(f, types) == IF f.fn \in Arithmetic THEN "Int8" ELSE ActualType(f, types)

\* The operation can be computed of columns that have these types.
Fits(f, types) ==
    CASE f.fn \in {"not", "and", "or"}             -> \A n \in DOMAIN types : types[n] = "Int8"
      [] f.fn \in {"strlen", "search", "replace"}  -> types[1] = "String"
      [] f.fn = "compare"                          -> types[1] = f.type
      [] f.fn \in {"minute", "truncate"}           -> types[1] = "Timestamp"
      [] f.fn \in Arithmetic                       -> {types[1], types[2], f.type} \subseteq Integral
      [] f.fn = "select"                           -> types[1] = "Int8" /\ types[2] = types[3]
      [] f.fn = "contains"                         -> types = f.types
      [] OTHER                                     -> TRUE
=============================================================================
