----------------------------- MODULE CsvWindows -----------------------------
(***************************************************************************)
(* How csv::CSVReader parses a stream with several threads                 *)
(* (dependencies/vince/csv.hpp): StreamParser::next reads a window,        *)
(* CSVParseOrchestrator cuts it into chunks, ParallelCSVParser parses them *)
(* side by side, each from a guess whether it begins within quotes, and    *)
(* SpeculativeParseValidator puts the rows together in order, parses again *)
(* what was guessed wrong and joins the rows that two chunks share. What   *)
(* is left of the window goes in front of the next one.                    *)
(*                                                                         *)
(* The guess of SpeculativeScanner, which looks at 64 KB of the chunk, is  *)
(* any guess, made when the chunk is parsed. Offsets are counted from the  *)
(* beginning of the window; no window is as large as the 256 MB that the   *)
(* stream parser allows. Streams that fail are in CsvSource.               *)
(***************************************************************************)
EXTENDS CsvParser, IndexedTaskPool, SequencesExt

CONSTANTS HeadSize,     \* what get_csv_head_stream reads first
          Inputs        \* the texts, the rows they stand for, and the chunk_size of the format

ASSUME HeadAssumption == HeadSize \in Nat

\* A text is any text in which quotes enclose fields.
ASSUME InputsAssumption ==
    \A i \in Inputs :
        /\ i.text \in Seq(Bytes)
        /\ WellQuoted(i.text)
        /\ i.rows = RowsOf(i.text)
        /\ i.chunkSize \in Nat \ {0}

VARIABLES input,        \* one of Inputs: its `text`, `rows` and `chunkSize`
          position,     \* bytes read from the stream
          leftover,     \* leftover_
          eof,          \* eof_
          serial,       \* initial_state_ of serial_parser_
          chunk,        \* the window, prefixed by what was left
          chunks,       \* the chunks of the window
          parsed,       \* the parsed chunks
          validator,    \* how far the validator is
          rows,         \* the rows put into the deque: their fields
          pc            \* "idle", "parallel", "validate", "threw"

windowVars == <<input, position, leftover, eof, serial, chunk, chunks, parsed, validator, rows, pc>>
allVars == <<poolVars, windowVars>>

NoFragment == [present |-> FALSE, bytes |-> <<>>, offset |-> 0]
Fragment(bytes, offset) == [present |-> TRUE, bytes |-> bytes, offset |-> offset]

NoChunk == [complete |-> <<>>, prefix |-> NoFragment, suffix |-> NoFragment,
            initial |-> Clean, ending |-> Clean, upto |-> 0]

\* A validator before the first of its chunks.
Fresh == [chunk |-> 1, pending |-> NoFragment, expected |-> Clean]

Text      == input.text
ChunkSize == input.chunkSize

\* Of a sequence, the elements at from..upto that there are.
Slice(s, from, upto) == SubSeq(s, from, IF upto < Len(s) THEN upto ELSE Len(s))

Window    == ChunkSize * Cardinality(Workers)

TypeOK ==
    /\ position \in 0..Len(Text)
    /\ eof \in BOOLEAN
    /\ serial \in {Clean, DFAState(FALSE, FALSE, TRUE)}
    /\ pc \in {"idle", "parallel", "validate", "threw"}
    /\ validator.chunk \in 1..(Len(chunks) + 1)
    /\ Len(leftover) <= position

WindowsInit ==
    /\ PoolInit
    /\ input \in Inputs
    /\ leftover = Slice(input.text, 1, HeadSize)
    /\ position = Len(leftover)
    /\ eof = FALSE
    /\ serial = Clean
    /\ chunk = <<>>
    /\ chunks = <<>>
    /\ parsed = <<>>
    /\ validator = Fresh
    /\ rows = <<>>
    /\ pc = "idle"

-----------------------------------------------------------------------------
(* StreamParser::next.                                                     *)

\* A window is filled up; a row that does not fit into one is read on by a chunk.
ReadSize == IF Len(leftover) < Window THEN Window - Len(leftover) ELSE ChunkSize

Available == Slice(Text, position + 1, position + ReadSize)

\* The stream has told its end.
Exhausted == Len(Available) < ReadSize

\* make_speculative_parse_chunks.
ChunksOf(in) ==
    [n \in 1..((Len(in) + ChunkSize - 1) \div ChunkSize) |->
        [bytes |-> Slice(in, (n - 1) * ChunkSize + 1, n * ChunkSize),
         offset |-> (n - 1) * ChunkSize,
         first |-> n = 1]]

\* parse_serial_window. A line feed that is missing is remembered.
NextSerial ==
    /\ pc = "idle"
    /\ ~eof
    /\ caller = "outside"
    /\ LET window == leftover \o Available
           p      == Parse(window, serial)
       IN  /\ Len(window) <= ChunkSize
           /\ rows' = rows \o FieldsOf(IF Exhausted THEN EndFeed(p) ELSE p.rows)
           /\ serial' = IF p.state.pending_linefeed THEN p.state ELSE Clean
           /\ leftover' = IF Exhausted THEN <<>> ELSE SubSeq(window, CompletePrefix(p) + 1, Len(window))
    /\ position' = position + Len(Available)
    /\ eof' = Exhausted
    /\ UNCHANGED <<input, chunk, chunks, parsed, validator, pc, poolVars>>

\* parse_speculative_window, up to the call of parallel_for.
NextWindow ==
    /\ pc = "idle"
    /\ ~eof
    /\ chunk' = leftover \o Available
    /\ Len(chunk') > ChunkSize
    /\ chunks' = ChunksOf(chunk')
    /\ parsed' = [n \in DOMAIN chunks' |-> NoChunk]
    /\ ParallelFor(Len(chunks'))
    /\ position' = position + Len(Available)
    /\ eof' = Exhausted
    /\ validator' = Fresh
    /\ pc' = "parallel"
    /\ UNCHANGED <<input, leftover, serial, rows>>

-----------------------------------------------------------------------------
(* ParallelCSVParser.                                                      *)

\* parse_chunk and split_parsed_chunk_rows: the first row of a chunk is the rest of one,
\* unless the chunk begins with a row.
ParsedChunk(c, state) ==
    LET p     == Parse(c.bytes, state)
        whole == c.first \/ state.pending_linefeed
        begun == [NoChunk EXCEPT !.initial = state, !.ending = p.state, !.upto = CompletePrefix(p)]
    IN  IF ~whole /\ p.rows = <<>>
        THEN [begun EXCEPT !.prefix = Fragment(c.bytes, c.offset)]
        ELSE [begun EXCEPT
                !.prefix   = IF whole THEN NoFragment
                             ELSE Fragment(SubSeq(c.bytes, p.rows[1].from, p.rows[1].upto - 1), c.offset),
                !.complete = FieldsOf(IF whole THEN p.rows ELSE Tail(p.rows)),
                !.suffix   = IF CompletePrefix(p) = Len(c.bytes) THEN NoFragment
                             ELSE Fragment(SubSeq(c.bytes, p.row, Len(c.bytes)), c.offset + CompletePrefix(p))]

\* What a chunk may be taken to begin in. The first is taken to begin with a row.
Guesses(c) == {Clean} \cup (IF c.first THEN {} ELSE {DFAState(TRUE, FALSE, FALSE)})

\* A thread parses a chunk.
ParseChunk(w) ==
    /\ RunTask(w)
    /\ LET n == task[w] + 1
       IN  \E guess \in Guesses(chunks[n]) : parsed' = [parsed EXCEPT ![n] = ParsedChunk(chunks[n], guess)]
    /\ UNCHANGED <<input, position, leftover, eof, serial, chunk, chunks, validator, rows, pc>>

\* Memory runs out.
ParseThrows(w) == TaskThrows(w) /\ UNCHANGED windowVars

\* parallel_for returns, or throws what a task has thrown.
Collect ==
    /\ Returns
    /\ pc' = IF failed THEN "threw" ELSE "validate"
    /\ UNCHANGED <<input, position, leftover, eof, serial, chunk, chunks, parsed, validator, rows>>

-----------------------------------------------------------------------------
(* SpeculativeParseValidator.                                              *)

Joined(left, right) ==
    IF ~left.present THEN right ELSE Fragment(left.bytes \o right.bytes, left.offset)

\* release_pending_suffix: a row of several chunks is parsed once more, as a whole.
Materialized(fragment) ==
    IF fragment.present THEN FieldsOf(EndFeed(Parse(fragment.bytes, Clean))) ELSE <<>>

\* Defect: the guess is not looked at.
Validated_Trusting(n) == parsed[n]

\* validate_and_release: a chunk that was parsed from another state than the one before
\* it has ended in is parsed again.
Validated(n) ==
    IF parsed[n].initial = validator.expected THEN parsed[n]
    ELSE ParsedChunk(chunks[n], validator.expected)

\* A chunk is released, moved out of parsed.
Release ==
    /\ pc = "validate"
    /\ validator.chunk <= Len(chunks)
    /\ LET c       == Validated(validator.chunk)
           pending == IF c.prefix.present THEN Joined(validator.pending, c.prefix) ELSE validator.pending
           inside  == c.prefix.present /\ c.upto = 0
       IN  /\ rows' = IF inside THEN rows
                      ELSE rows \o (IF c.prefix.present THEN Materialized(pending) ELSE <<>>) \o c.complete
           /\ validator' = [chunk |-> validator.chunk + 1,
                            pending |-> IF inside THEN pending ELSE c.suffix,
                            expected |-> c.ending]
    /\ parsed' = [parsed EXCEPT ![validator.chunk] = NoChunk]
    /\ UNCHANGED <<input, position, leftover, eof, serial, chunk, chunks, pc, poolVars>>

\* finish, and the rest of next: what is pending is the last row, or goes in front of
\* the next window.
EndWindow ==
    /\ pc = "validate"
    /\ validator.chunk > Len(chunks)
    /\ rows' = IF eof THEN rows \o Materialized(validator.pending) ELSE rows
    /\ leftover' = IF eof \/ ~validator.pending.present THEN <<>>
                   ELSE SubSeq(chunk, validator.pending.offset + 1, Len(chunk))
    /\ pc' = "idle"
    /\ chunk' = <<>>
    /\ chunks' = <<>>
    /\ parsed' = <<>>
    /\ validator' = Fresh
    /\ UNCHANGED <<input, position, eof, serial, poolVars>>

-----------------------------------------------------------------------------
\* ~CSVReader, when no thread is reading a window.
Destroy ==
    /\ pc \in {"idle", "threw"}
    /\ StopWorkers
    /\ UNCHANGED windowVars

WorkerStep(w) ==
    \/ InLoop(w) /\ UNCHANGED windowVars
    \/ ParseThrows(w)
    \/ ParseChunk(w)

Waiting == (InPool /\ UNCHANGED windowVars) \/ Collect

CallerStep == Waiting \/ Release \/ EndWindow

Wakeup == SpuriousWakeup /\ UNCHANGED windowVars

Gone == caller = "gone" /\ UNCHANGED allVars

WindowsNext ==
    \/ \E w \in Workers : WorkerStep(w)
    \/ CallerStep \/ Wakeup
    \/ NextSerial \/ NextWindow \/ Destroy
    \/ Gone

\* Threads run. Nobody has to ask for a window.
WindowsFairness ==
    /\ \A w \in Workers : WF_allVars(WorkerStep(w))
    /\ WF_allVars(Waiting)

WindowsSpec == WindowsInit /\ [][WindowsNext]_allVars /\ WindowsFairness

-----------------------------------------------------------------------------
(* Properties                                                              *)

\* The rows that have fields.
WithFields(rs) ==
    LET kept[n \in 0..Len(rs)] ==
            IF n = 0 THEN <<>>
            ELSE IF rs[n] = <<>> THEN kept[n - 1] ELSE Append(kept[n - 1], rs[n])
    IN  kept[Len(rs)]

\* Wherever windows and chunks are cut, within quotes, between two quotes or in the
\* middle of a line end, and whatever is guessed, the rows are those of the text, in
\* order, each with all of its bytes; at the end there are no others. Only an empty
\* row can come between them.
RowsOfText ==
    /\ TypeOK
    /\ IsPrefix(WithFields(rows), input.rows)
    /\ eof /\ pc = "idle" => WithFields(rows) = input.rows

\* A window that was begun is parsed to its end, and the pool can be destroyed.
ParallelForReturns == (caller \notin {"outside", "gone"}) ~> (caller \in {"outside", "gone"})

-----------------------------------------------------------------------------
\* csv.hpp:11246, "The first chunk in a speculative window starts at a known row boundary
\* because source windows must be aligned to incomplete-row starts before the next read."
NoEmptyRow == \A n \in DOMAIN rows : rows[n] # <<>>
=============================================================================
