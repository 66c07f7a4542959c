------------------------------- MODULE CsvInput -------------------------------
(***************************************************************************)
(* CsvReader::Next over csv::CSVReader: the rows CsvReader asks for come   *)
(* from CsvSource, whose thread parses on while rows are buffered and      *)
(* converted. The caller calls Next until it returns null, as WriteAsCurse *)
(* does, or an exception comes out of it; then the reader is destroyed.    *)
(*                                                                         *)
(* feed says how many of the rows of `input` the windows of the text have. *)
(***************************************************************************)
EXTENDS CsvReader, CsvSource

InputVars == <<vars, svars>>

InputInit ==
    /\ Init
    /\ SourceInit
    /\ Len(input) = RowsUpTo(Len(feed))

-----------------------------------------------------------------------------
\* The constructor has returned, and Next is called.
CallNext ==
    /\ cpc = "idle"
    /\ Call
    /\ UNCHANGED svars

\* read_row is called by the loop of Next.
AskRow ==
    /\ pc = "read"
    /\ WantsMore
    /\ cpc = "idle"
    /\ CallReadRow
    /\ UNCHANGED vars

\* It has returned true.
TakeRow ==
    /\ cpc = "row"
    /\ ReadRow
    /\ Resume

\* It has returned false: break.
TakeFalse ==
    /\ cpc = "false"
    /\ CloseLoop
    /\ Resume

\* It has thrown, and Next throws.
TakeThrow ==
    /\ pc = "read"
    /\ cpc \in {"tooLarge", "threw"}
    /\ pc' = "threw"
    /\ UNCHANGED <<input, cursor, rows, columns, rowsRead, totalBytes, currentBytes, last, at, batches>>
    /\ UNCHANGED svars

\* The batch is large enough.
StopReading ==
    /\ ~WantsMore
    /\ CloseLoop
    /\ UNCHANGED svars

Convert == (\E f \in 1..NFuncs : ConvertColumn(f)) /\ UNCHANGED svars

AfterFlush == (EndFlush \/ Finish) /\ UNCHANGED svars

\* m_impl.reset() at the end; otherwise the destructor of CsvReader.
Release ==
    /\ pc \in {"end", "threw"}
    /\ Destroy
    /\ UNCHANGED vars

SourceStep == Source /\ UNCHANGED vars

InputNext ==
    \/ CallNext \/ AskRow \/ TakeRow \/ TakeFalse \/ TakeThrow \/ StopReading
    \/ Convert \/ AfterFlush \/ Release \/ SourceStep

\* Threads run, tasks of the pool are run, and the caller goes on to the end.
\* Wake-ups without a reason are not fair.
InputFairness ==
    /\ WF_InputVars(Worker /\ UNCHANGED vars)
    /\ WF_InputVars(InCall /\ UNCHANGED vars)
    /\ WF_InputVars(InputNext /\ ~SourceStep)

InputSpec == InputInit /\ [][InputNext]_InputVars /\ InputFairness

-----------------------------------------------------------------------------
(* Properties                                                              *)

\* Rows can be missing when Next has returned null only if they came with the last
\* of several windows: what was parsed before is never lost, and an input of one
\* window, which the constructor has parsed, is never cut short.
OnlyATailIsLost ==
    /\ TypeOK
    /\ SourceTypeOK
    /\ pc = "end" =>
        /\ cursor >= RowsUpTo(Len(feed) - 1)
        /\ Len(feed) = 1 => cursor = Len(input)

\* Whoever calls Next until it is over comes to the end, with no thread left behind:
\* no sleep of the consumer, and no join, lasts for ever.
ReaderReleased == <>(cpc \in {"closed", "broken"} /\ wpc = "none")

-----------------------------------------------------------------------------
\* types.hpp:445, "null pointer means end of stream", and csv.hpp:12002, "`true` if
\* a row was produced, `false` after end-of-stream is reached".
EndMeansAllRows == pc = "end" => cursor = Len(input)
=============================================================================
