----------------------------- MODULE CsvGrammar -----------------------------
(***************************************************************************)
(* What a CSV text stands for, read one byte at a time from its beginning  *)
(* and without looking ahead: rows of fields, each with its bytes. This is *)
(* what CsvParser and CsvWindows are held against; they look ahead, and    *)
(* begin anywhere.                                                         *)
(***************************************************************************)
EXTENDS Naturals, Sequences

Delimiter      == ","
QuoteChar      == "quote"
CarriageReturn == "cr"
NewLine        == "lf"

RowEnds   == {CarriageReturn, NewLine}
FieldEnds == RowEnds \cup {Delimiter}

CONSTANT Bytes          \* what a text is made of

ASSUME BytesAssumption == FieldEnds \cup {QuoteChar} \subseteq Bytes

\* A reader is in front of a row, or of one whose carriage return may have a line feed
\* behind it ("return"); in front of a field of a row, in a field without quotes
\* ("plain") or in one with quotes ("quoted"), or behind a quote there ("quote"), which
\* may be the end of the field or not. It has `rows` and the `fields` of this row, the
\* first `from` bytes are those of earlier rows, and `value` is the field so far.
Beginning == [mode |-> "row", from |-> 0, value |-> <<>>, fields |-> <<>>, rows |-> <<>>]

BetweenRows == {"row", "return"}

\* The rows, if the text ends here. A row without bytes is none.
Closed(g) ==
    IF g.mode \in BetweenRows THEN g.rows ELSE Append(g.rows, Append(g.fields, g.value))

\* Bytes of the field.
Gain(g, mode, bytes) == [g EXCEPT !.mode = mode, !.value = @ \o bytes]

EndField(g) == [g EXCEPT !.mode = "field", !.value = <<>>, !.fields = Append(@, g.value)]

EndRow(g, mode, n) ==
    [mode |-> mode, from |-> n, value |-> <<>>, fields |-> <<>>, rows |-> Closed(g)]

\* A byte outside of quotes.
Unquoted(g, b, n) ==
    CASE b = Delimiter                        -> EndField(g)
      [] b = CarriageReturn                   -> EndRow(g, "return", n)
      [] b = NewLine /\ g.mode = "return"     -> [g EXCEPT !.mode = "row", !.from = n]
      [] b = NewLine /\ g.mode # "return"     -> EndRow(g, "row", n)
      [] b = QuoteChar /\ g.mode # "plain"    -> [g EXCEPT !.mode = "quoted"]
      [] OTHER                                -> Gain(g, "plain", <<b>>)

\* The reader behind byte b, the n-th of the text.
Past(g, b, n) ==
    CASE g.mode = "quoted" /\ b = QuoteChar   -> [g EXCEPT !.mode = "quote"]
      [] g.mode = "quoted" /\ b # QuoteChar   -> Gain(g, "quoted", <<b>>)
      [] g.mode = "quote" /\ b = QuoteChar    -> Gain(g, "quoted", <<b>>)
      [] g.mode = "quote" /\ b \notin FieldEnds \cup {QuoteChar} ->
             Gain(g, "quoted", <<QuoteChar, b>>)
      [] OTHER                                -> Unquoted(g, b, n)

\* The reader behind every byte.
Reading(text) ==
    LET g[n \in 0..Len(text)] == IF n = 0 THEN Beginning ELSE Past(g[n - 1], text[n], n)
    IN  g

RowsOf(text) == Closed(Reading(text)[Len(text)])

\* Quotes enclose fields: none is within a field that does not begin with one.
WellQuoted(text) ==
    \A n \in DOMAIN text : Reading(text)[n - 1].mode = "plain" => text[n] # QuoteChar
=============================================================================
