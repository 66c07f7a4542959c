----------------------------- MODULE StringColumn -----------------------------
(***************************************************************************)
(* A string column in memory and in a file: ColumnT<String> of             *)
(* src/core/types.hpp, one string of all characters and the offsets of the *)
(* rows in it, and ConvertCol<String> of src/core/convert.hpp. ToBytes     *)
(* ends every row by kDelim and puts kEscape before a kDelim or kEscape of *)
(* the row itself. FromBytes goes through the bytes in blocks, so that     *)
(* token, the buffer a row is collected in, is checked for room once in a  *)
(* block and not at every character; a row, and an escaped character, may  *)
(* lie across the end of a block.                                          *)
(*                                                                         *)
(* Indices are those of the code, from 0.                                  *)
(***************************************************************************)
EXTENDS Integers, Sequences, SequencesExt

CONSTANTS Char,      \* the characters, integers; 0 and 1 among them
          Block,     \* 1024: characters between two looks at token's size
          Slack,     \* 10: room asked for above what a block can add
          Spare,     \* 5: room above that when token grows
          Columns,   \* columns that are converted: sequences of strings
          Files,     \* bytes that are read: sequences of characters
          Null

kDelim  == 0
kEscape == 1

ASSUME CharAssumption == Char \subseteq Nat /\ {kDelim, kEscape} \subseteq Char
ASSUME BlockAssumption == Block \in Nat \ {0} /\ Slack \in Nat /\ Spare \in Nat

VARIABLES column,   \* the column the bytes are of, Null for bytes of a file
          bytes,    \* what FromBytes is given
          pc,       \* "block": at the head of the loop; "char": inside a block
          i,        \* the next byte
          beg,      \* the first byte of the block
          dlt,      \* the length of the block
          token,    \* the buffer
          sz,       \* the part of it in use
          m_data,   \* the column read: its characters
          m_offsets \* and where its rows begin

vars == <<column, bytes, pc, i, beg, dlt, token, sz, m_data, m_offsets>>

TypeOK ==
    /\ pc \in {"start", "block", "char", "done", "threw"}
    /\ i \in Nat /\ beg \in 0..i /\ dlt \in 0..Block
    /\ i - beg <= dlt + 1
    /\ token \in Seq(Char)
    /\ m_data \in Seq(Char)
    /\ m_offsets[1] = 0 /\ Last(m_offsets) = Len(m_data)

-----------------------------------------------------------------------------
(* ToBytes, and the rows of a column.                                      *)

Escaped(ch) == IF ch \in {kDelim, kEscape} THEN <<kEscape, ch>> ELSE <<ch>>

ToBytes(col) ==
    FlattenSeq([r \in DOMAIN col |->
        Append(FlattenSeq([n \in DOMAIN col[r] |-> Escaped(col[r][n])]), kDelim)])

\* operator[] for each row.
Rows == [r \in 1..(Len(m_offsets) - 1) |-> SubSeq(m_data, m_offsets[r] + 1, m_offsets[r + 1])]

-----------------------------------------------------------------------------
(* FromBytes.                                                              *)

\* Bytes are bytes, those that ToBytes makes of a column among them.
ASSUME InputAssumption == Files \subseteq Seq(Char) /\ Columns \subseteq Seq(Seq(Char))

Init ==
    /\ \/ column \in Columns /\ bytes = ToBytes(column)
       \/ column = Null /\ bytes \in Files
    /\ pc = "start"
    /\ i = 0 /\ beg = 0 /\ dlt = 0
    /\ token = <<>>
    /\ sz = 0
    /\ m_data = <<>>
    /\ m_offsets = <<0>>

Byte(n) == bytes[n + 1]

\* Append(token[0..sz)).
AppendToken ==
    /\ m_data' = m_data \o SubSeq(token, 1, sz)
    /\ m_offsets' = Append(m_offsets, Last(m_offsets) + sz)

\* No bytes are the column without rows; others must end with kDelim.
Start ==
    /\ pc = "start"
    /\ pc' = IF bytes = <<>> THEN "done" ELSE IF Last(bytes) = kDelim THEN "block" ELSE "threw"
    /\ UNCHANGED <<column, bytes, i, beg, dlt, token, sz, m_data, m_offsets>>

Smaller(m, n) == IF m < n THEN m ELSE n
Larger(m, n)  == IF m < n THEN n ELSE m

\* Defect: the part of token in use is not counted.
Grown_BlockOnly(n) ==
    LET minSz == n + Slack
    IN  IF Len(token) >= minSz THEN token
        ELSE token \o [k \in 1..(Larger(2 * Len(token) + Slack, minSz + Spare) - Len(token)) |-> 0]

\* token with room for n more characters; its new part is zero.
Grown(n) ==
    LET minSz == sz + n + Slack
    IN  IF Len(token) >= minSz THEN token
        ELSE token \o [k \in 1..(Larger(2 * Len(token) + Slack, minSz + Spare) - Len(token)) |-> 0]

\* The head of the outer loop; the last byte of all belongs to no block.
StartBlock ==
    /\ pc = "block"
    /\ i + 1 < Len(bytes)
    /\ beg' = i
    /\ dlt' = Smaller(Len(bytes) - i - 1, Block)
    /\ token' = Grown(dlt')
    /\ pc' = "char"
    /\ UNCHANGED <<column, bytes, i, sz, m_data, m_offsets>>

\* Defect: the inner loop ends at the block's last byte, without the one it escapes.
TakeChar_CutsEscape ==
    /\ pc = "char"
    /\ i - beg < dlt
    /\ IF Byte(i) = kDelim
       THEN AppendToken /\ sz' = 0 /\ i' = i + 1 /\ UNCHANGED token
       ELSE LET ch == IF Byte(i) = kEscape /\ i + 1 - beg < dlt THEN Byte(i + 1) ELSE Byte(i)
            IN  /\ token' = [token EXCEPT ![sz + 1] = ch]
                /\ sz' = sz + 1
                /\ i' = IF Byte(i) = kEscape /\ i + 1 - beg < dlt THEN i + 2 ELSE i + 1
                /\ UNCHANGED <<m_data, m_offsets>>
    /\ UNCHANGED <<column, bytes, pc, beg, dlt>>

\* One round of the inner loop: a row's end, or a character, with the kEscape before it.
TakeChar ==
    /\ pc = "char"
    /\ i - beg < dlt
    /\ IF Byte(i) = kDelim
       THEN AppendToken /\ sz' = 0 /\ i' = i + 1 /\ UNCHANGED token
       ELSE LET ch == IF Byte(i) = kEscape THEN Byte(i + 1) ELSE Byte(i)
            IN  /\ token' = [token EXCEPT ![sz + 1] = ch]
                /\ sz' = sz + 1
                /\ i' = IF Byte(i) = kEscape THEN i + 2 ELSE i + 1
                /\ UNCHANGED <<m_data, m_offsets>>
    /\ UNCHANGED <<column, bytes, pc, beg, dlt>>

EndBlock ==
    /\ pc = "char"
    /\ i - beg >= dlt
    /\ pc' = "block"
    /\ UNCHANGED <<column, bytes, i, beg, dlt, token, sz, m_data, m_offsets>>

\* Defect: an escaped last byte is taken for the end.
Finish_Unchecked ==
    /\ pc = "block"
    /\ i + 1 >= Len(bytes)
    /\ AppendToken
    /\ pc' = "done"
    /\ UNCHANGED <<column, bytes, i, beg, dlt, token, sz>>

\* The loop is over: it must have stopped at the last byte, which ends the last row.
Finish ==
    /\ pc = "block"
    /\ i + 1 >= Len(bytes)
    /\ IF i + 1 = Len(bytes)
       THEN AppendToken /\ pc' = "done"
       ELSE pc' = "threw" /\ UNCHANGED <<m_data, m_offsets>>
    /\ UNCHANGED <<column, bytes, i, beg, dlt, token, sz>>

Next == Start \/ StartBlock \/ TakeChar \/ EndBlock \/ Finish

Spec == Init /\ [][Next]_vars

-----------------------------------------------------------------------------
(* Properties                                                              *)

\* A column that was written is read, whatever its rows contain and wherever the
\* blocks end: within a row, between kEscape and what it escapes, after the last row.
RoundTrip ==
    column # Null => pc # "threw" /\ (pc = "done" => Rows = column)

\* The bytes that escape the one after them.
Escapes[n \in Nat] == n > 0 /\ bytes[n] = kEscape /\ ~Escapes[n - 1]

\* The bytes that are a column: none, or those whose last byte is a kDelim that
\* nothing escapes. The others are refused, at the start or when the loop has ended.
RefusesExactly ==
    LET isColumn == bytes = <<>> \/ (Last(bytes) = kDelim /\ ~Escapes[Len(bytes) - 1])
    IN  /\ pc = "done"  => isColumn
        /\ pc = "threw" => ~isColumn

\* token is looked at once in a block: no character is written behind its end and no
\* byte, an escaped one included, is read behind the last.
StaysInBounds ==
    /\ sz <= Len(token)
    /\ i <= Len(bytes)
    /\ pc = "char" /\ i - beg < dlt => i + 1 < Len(bytes) /\ sz < Len(token)
=============================================================================
