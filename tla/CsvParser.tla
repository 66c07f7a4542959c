----------------------------- MODULE CsvParser ------------------------------
(***************************************************************************)
(* CSVParserCore (dependencies/vince/csv.hpp): the bytes of a chunk become *)
(* rows of fields. The parser is a small automaton that looks one byte     *)
(* ahead; what it does not know at the end of a chunk (is this quote the   *)
(* last of its field? does a line feed follow?) it leaves to whoever       *)
(* parses the next one, in its ParserDFAState. Operators only.             *)
(*                                                                         *)
(* A byte is ordinary or one of the four special ones. No byte is trimmed  *)
(* (CSVFormat has no trim_chars here), and there is no byte order mark. A  *)
(* row is the sequence of its fields, each the sequence of its bytes, with *)
(* the place of the row in the chunk: its first byte and the one after it. *)
(***************************************************************************)
EXTENDS CsvGrammar

\* ParserDFAState.
DFAState(quoted, quote, linefeed) ==
    [quote_escape |-> quoted, pending_quote |-> quote, pending_linefeed |-> linefeed]

Clean == DFAState(FALSE, FALSE, FALSE)

\* The parser in front of the first byte of `in`: no field begun (start = 0).
Begin(in, state) ==
    [in |-> in, at |-> 1, state |-> state, start |-> 0, length |-> 0, doubled |-> FALSE,
     fields |-> <<>>, row |-> 1, rows |-> <<>>]

AtEnd(p) == p.at > Len(p.in)
Byte(p)  == p.in[p.at]

-----------------------------------------------------------------------------
\* append_realized_quoted_field: of two quotes one is left. `half` is after the first of
\* what may be a pair.
Compacted(c, byte) ==
    IF c.half /\ byte = QuoteChar THEN [bytes |-> c.bytes, half |-> FALSE]
    ELSE [bytes |-> Append(c.bytes, byte), half |-> byte = QuoteChar]

Compaction(s) ==
    LET c[n \in 0..Len(s)] ==
            IF n = 0 THEN [bytes |-> <<>>, half |-> FALSE] ELSE Compacted(c[n - 1], s[n])
    IN  c

Realized(s) == Compaction(s)[Len(s)].bytes

\* The bytes of the field.
Field(p) ==
    LET first == IF p.start = 0 THEN p.row ELSE p.start
        raw   == SubSeq(p.in, first, first + p.length - 1)
    IN  IF p.doubled THEN Realized(raw) ELSE raw

PushField(p) ==
    [p EXCEPT !.fields = Append(@, Field(p)), !.start = 0, !.length = 0, !.doubled = FALSE]

PushRow(p, rawEnd) ==
    [p EXCEPT !.rows = Append(@, [fields |-> p.fields, from |-> p.row, upto |-> rawEnd])]

\* The row ends before rawEnd, and the next one begins behind `width` bytes. A row
\* without bytes has no fields.
FinishRow(p, rawEnd, width) ==
    LET q == IF p.length > 0 \/ p.start # 0 \/ p.fields # <<>> THEN PushField(p) ELSE p
    IN  [PushRow(q, rawEnd) EXCEPT !.at = p.at + width, !.row = p.at + width, !.fields = <<>>]

\* A byte that belongs to the field.
Extend(p, width) ==
    [p EXCEPT !.at = @ + width, !.length = @ + width]

\* The end of a line. The last byte of a chunk may have its line feed in the next.
ParseRowEnd(p) ==
    LET last == p.at = Len(p.in)
        crlf == Byte(p) = CarriageReturn /\ ~last /\ p.in[p.at + 1] = NewLine
    IN  [FinishRow(p, p.at, IF crlf THEN 2 ELSE 1)
            EXCEPT !.state.pending_linefeed = @ \/ (Byte(p) = CarriageReturn /\ last)]

\* A quote in front of a field opens it; within a field that has none it is a byte.
ParseQuote(p) ==
    IF p.length > 0 THEN Extend(p, 1)
    ELSE [p EXCEPT !.state.quote_escape = TRUE,
                   !.at = @ + 1,
                   !.start = IF @ = 0 /\ p.at < Len(p.in) THEN p.at + 1 ELSE @]

\* A quote in a quoted field: the end of it, one of two, or a byte. Nobody knows which
\* if it is the last byte of the chunk.
ParseEscapedQuote(p) ==
    IF p.at = Len(p.in) THEN [p EXCEPT !.state.pending_quote = TRUE]
    ELSE CASE p.in[p.at + 1] \in FieldEnds -> [p EXCEPT !.state.quote_escape = FALSE, !.at = @ + 1]
           [] p.in[p.at + 1] = QuoteChar   -> [Extend(p, 2) EXCEPT !.doubled = TRUE]
           [] OTHER                        -> Extend(p, 1)

\* parse_field, byte by byte.
ParseByte(p) ==
    LET start == IF p.start = 0 THEN p.at ELSE p.start
    IN  [p EXCEPT !.start = start, !.at = @ + 1, !.length = p.at + 1 - start]

Step(p) ==
    CASE Byte(p) = QuoteChar /\ p.state.quote_escape    -> ParseEscapedQuote(p)
      [] Byte(p) = QuoteChar /\ ~p.state.quote_escape   -> ParseQuote(p)
      [] Byte(p) \in RowEnds /\ ~p.state.quote_escape   -> ParseRowEnd(p)
      [] Byte(p) = Delimiter /\ ~p.state.quote_escape   -> [PushField(p) EXCEPT !.at = @ + 1]
      [] OTHER                                          -> ParseByte(p)

\* One round of the loop, unless it is over.
Round(p) == IF AtEnd(p) \/ p.state.pending_quote THEN p ELSE Step(p)

\* The parser after every round. A round passes a byte, or is the last.
Rounds(p) ==
    LET r[n \in 0..Len(p.in)] == IF n = 0 THEN p ELSE Round(r[n - 1])
    IN  r

Run(p) == Rounds(p)[Len(p.in)]

-----------------------------------------------------------------------------
\* resolve_pending_linefeed_at_start, resolve_pending_quote_at_start.
ResolveLinefeed(p) ==
    IF ~p.state.pending_linefeed \/ AtEnd(p) THEN p
    ELSE IF Byte(p) = NewLine
         THEN [p EXCEPT !.state.pending_linefeed = FALSE, !.at = @ + 1, !.row = p.at + 1]
         ELSE [p EXCEPT !.state.pending_linefeed = FALSE]

ResolveQuote(p) ==
    IF ~p.state.pending_quote \/ AtEnd(p) THEN p
    ELSE CASE Byte(p) \in FieldEnds -> [p EXCEPT !.state = Clean]
           [] Byte(p) = QuoteChar   -> [p EXCEPT !.state = DFAState(TRUE, FALSE, FALSE), !.doubled = TRUE,
                                                 !.length = @ + 1, !.at = @ + 1]
           [] OTHER                 -> [p EXCEPT !.state = DFAState(TRUE, FALSE, FALSE), !.length = @ + 1]

\* parse_chunk: the parser as it stops.
Parse(in, state) == Run(ResolveQuote(ResolveLinefeed(Begin(in, state))))

\* The bytes up to the last row that is not complete.
CompletePrefix(p) == p.row - 1

\* end_feed: the rows, the last of them without an end of line.
EndFeed(p) ==
    LET emptyLast == p.in # <<>> /\ p.in[Len(p.in)] \in {Delimiter, QuoteChar}
        q         == IF p.length > 0 \/ emptyLast THEN PushField(p) ELSE p
    IN  IF q.fields # <<>> THEN PushRow(q, Len(p.in) + 1).rows ELSE q.rows

FieldsOf(rows) == [n \in DOMAIN rows |-> rows[n].fields]
=============================================================================
