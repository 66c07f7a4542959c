---------------------------- MODULE MCCsvWindows ----------------------------
EXTENDS CsvWindows

CONSTANTS MaxText,      \* BOUND: for each chunk size, the bytes of a text
          LineEnds      \* line ends: "lf", "cr" with "lf"

\* Fields without quotes, and quoted ones, as the bytes they stand for.
Plain  == {<<>>, <<"a">>, <<"b", "c">>}
Quoted == UNION {[1..n -> {"d", Delimiter, QuoteChar, NewLine, CarriageReturn}] : n \in 0..2}

Escaped(bytes) ==
    FlattenSeq([n \in DOMAIN bytes |-> IF bytes[n] = QuoteChar THEN <<QuoteChar, QuoteChar>> ELSE <<bytes[n]>>])

\* A field: its bytes, and how it is written.
Fields ==
    {[bytes |-> b, text |-> b] : b \in Plain}
        \cup {[bytes |-> b, text |-> <<QuoteChar>> \o Escaped(b) \o <<QuoteChar>>] : b \in Quoted}

Small == {[bytes |-> b, text |-> b] : b \in {<<>>, <<"a">>}}

\* Tables of one row, of two rows, and with a long field in any of the places.
Tables ==
    {<<<<f>>>> : f \in Fields}
        \cup {<<<<f, g>>>> : <<f, g>> \in Fields \X Fields}
        \cup {<<<<f>>, <<g>>>> : <<f, g>> \in Fields \X Fields}
        \cup {<<<<f, s>>, <<t, g>>>> : <<f, s, t, g>> \in Fields \X Small \X Small \X Fields}

\* A row without bytes is no row of a table.
Blank(row) == Len(row) = 1 /\ row[1].text = <<>>

RowText(row) ==
    IF Len(row) = 1 THEN row[1].text ELSE row[1].text \o <<Delimiter>> \o row[2].text

TableText(t, lineEnd, last) ==
    LET body == IF Len(t) = 1 THEN RowText(t[1]) ELSE RowText(t[1]) \o lineEnd \o RowText(t[2])
    IN  IF last THEN body \o lineEnd ELSE body

Proper(t) ==
    \A n \in DOMAIN t : ~Blank(t[n])

LengthOf(t) == FoldLeft(LAMBDA n, row : n + Len(RowText(row)) + 1, 0, t)

InputsUpTo(max, chunkSize) ==
    {i \in {[text |-> TableText(t, lineEnd, last),
             rows |-> [n \in DOMAIN t |-> [c \in DOMAIN t[n] |-> t[n][c].bytes]],
             chunkSize |-> chunkSize] :
                <<t, lineEnd, last>> \in
                    {u \in Tables : Proper(u) /\ LengthOf(u) <= max + 1} \X LineEnds \X BOOLEAN} :
        Len(i.text) <= max}

MCInputs == UNION {InputsUpTo(MaxText[s], s) : s \in DOMAIN MaxText}

\* With chunks of one byte a chunk ends everywhere, with chunks of two they have rows
\* of their own.
MCBytes == FieldEnds \cup {QuoteChar, "a", "b", "c", "d"}
MCMaxText == <<3, 5>>
MCLineEnds == {<<NewLine>>, <<CarriageReturn, NewLine>>}
=============================================================================
