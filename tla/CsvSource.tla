------------------------------ MODULE CsvSource -------------------------------
(***************************************************************************)
(* csv::CSVReader over a stream (dependencies/vince/csv.hpp) as CsvReader  *)
(* uses it: read_row takes rows from a ThreadSafeDeque that a thread of    *)
(* the reader fills. A thread parses one window of the input and ends; the *)
(* consumer starts the next one when it finds the deque empty and no       *)
(* thread at work. The first window is parsed, and its thread joined, in   *)
(* the constructor.                                                        *)
(*                                                                         *)
(* A step is one access to what the two threads share: a method of the     *)
(* deque that takes its lock, a load of one of its two atomic flags, a     *)
(* thread that starts or is joined. Rows are numbered in the order of the  *)
(* text; how a window becomes rows is in CsvWindows. The format is         *)
(* no_header(): no row is trimmed as a header (header = -1), and           *)
(* accept_row keeps every row (VariableColumnPolicy::KEEP).                *)
(***************************************************************************)
EXTENDS Naturals, Sequences

CONSTANTS Feeds,        \* the inputs: for each window the number of rows up to its end
          NotifySize    \* ThreadSafeDeque::_notify_size, 100

ASSUME FeedsAssumption ==
    \A f \in Feeds :
        /\ f \in Seq(Nat) \ {<<>>}
        /\ \A w \in 1..(Len(f) - 1) : f[w] <= f[w + 1]
ASSUME NotifyAssumption == NotifySize \in Nat \ {0}

VARIABLES feed,         \* the input
          parsed,       \* windows that StreamParser::next has read
          pushed,       \* rows that have been pushed to the deque so far
          left,         \* rows of the present window that are still to be pushed
          eof,          \* parser->eof(), a plain bool
          bad,          \* the badbit of the stream
          records,      \* the deque
          isEmpty,      \* _is_empty
          isWaitable,   \* _is_waitable
          asleep,       \* the consumer sleeps on _cond
          exception,    \* ThreadedCSVReadScheduler::exception_ is set
          requested,    \* _read_requested
          wpc,          \* the thread: "none", or where it is in read_csv, or "over"
          cpc,          \* the consumer: where it is in read_row, or what it returned
          given         \* history: the rows returned

parserVars == <<feed, parsed, pushed, left, eof, bad>>
dequeVars  == <<records, isEmpty, isWaitable, asleep>>
svars == <<parserVars, dequeVars, exception, requested, wpc, cpc, given>>

WorkerPlaces == {"none", "begin", "read", "push", "end", "caught", "adopt", "over"}

\* "construct": the constructor joins the first thread. "empty" to "started" are
\* the places in read_row, "row" to "broken" its results, "closing" and "closed"
\* the destructor.
ConsumerPlaces ==
    {"construct", "idle", "empty", "waitable", "wait", "lock", "join", "rethrow", "decide",
     "started", "pop", "row", "false", "tooLarge", "threw", "broken", "closing", "closed"}

SourceTypeOK ==
    /\ feed \in Feeds
    /\ parsed \in 0..Len(feed)
    /\ pushed \in Nat
    /\ left \in Nat
    /\ eof \in BOOLEAN
    /\ bad \in BOOLEAN
    /\ records \in Seq(Nat)
    /\ isEmpty \in BOOLEAN
    /\ isWaitable \in BOOLEAN
    /\ asleep \in BOOLEAN
    /\ exception \in BOOLEAN
    /\ requested \in BOOLEAN
    /\ wpc \in WorkerPlaces
    /\ cpc \in ConsumerPlaces
    /\ given \in Seq(Nat)

RowsUpTo(w) == IF w = 0 THEN 0 ELSE feed[w]

SourceInit ==
    /\ feed \in Feeds
    /\ parsed = 0
    /\ pushed = 0
    /\ left = 0
    /\ eof = FALSE
    /\ bad = FALSE
    /\ records = <<>>
    /\ isEmpty = TRUE
    /\ isWaitable = FALSE
    /\ asleep = FALSE
    /\ exception = FALSE
    /\ requested = FALSE
    /\ wpc = "begin"
    /\ cpc = "construct"
    /\ given = <<>>

-----------------------------------------------------------------------------
(* The thread: read_csv.                                                   *)

\* records->notify_all(): listeners may wait from now on.
Begin ==
    /\ wpc = "begin"
    /\ isWaitable' = TRUE
    /\ asleep' = FALSE
    /\ wpc' = "read"
    /\ UNCHANGED <<parserVars, records, isEmpty, exception, requested, cpc, given>>

\* StreamParser::next reads a window. The window that reaches the end of the stream
\* is the last.
ReadWindow ==
    /\ wpc = "read"
    /\ ~bad
    /\ parsed < Len(feed)
    /\ parsed' = parsed + 1
    /\ left' = RowsUpTo(parsed') - RowsUpTo(parsed)
    /\ wpc' = "push"
    /\ UNCHANGED <<feed, pushed, eof, bad, dequeVars, exception, requested, cpc, given>>

\* The stream fails, or has failed before: throw_stream_read_failure.
ReadFails ==
    /\ wpc = "read"
    /\ bad' = TRUE
    /\ wpc' = "caught"
    /\ UNCHANGED <<feed, parsed, pushed, left, eof, dequeVars, exception, requested, cpc, given>>

\* Defect: rows are queued in front of those that wait.
Enqueued_Front(n) == [k \in 1..n |-> pushed + k] \o records

Enqueued(n) == records \o [k \in 1..n |-> pushed + k]

\* Rows of the window, one (push_back) or several at once (append_rows). Only a
\* deque of NotifySize rows wakes the consumer.
PushRows ==
    /\ wpc = "push"
    /\ \E n \in 1..left :
         /\ left' = left - n
         /\ pushed' = pushed + n
         /\ records' = Enqueued(n)
    /\ isEmpty' = FALSE
    /\ asleep' = (asleep /\ Len(records') < NotifySize)
    /\ UNCHANGED <<feed, parsed, eof, bad, isWaitable, exception, requested, wpc, cpc, given>>

\* The window is parsed.
EndWindow ==
    /\ wpc = "push"
    /\ left = 0
    /\ eof' = (parsed = Len(feed))
    /\ wpc' = "end"
    /\ UNCHANGED <<feed, parsed, pushed, left, bad, dequeVars, exception, requested, cpc, given>>

\* Defect: the flag is cleared, and nobody is told.
KillAll_Silent ==
    /\ isWaitable' = FALSE
    /\ UNCHANGED <<records, isEmpty, asleep>>

\* records->kill_all().
KillAll ==
    /\ isWaitable' = FALSE
    /\ asleep' = FALSE
    /\ UNCHANGED <<records, isEmpty>>

End ==
    /\ wpc = "end"
    /\ KillAll
    /\ wpc' = "over"
    /\ UNCHANGED <<parserVars, exception, requested, cpc, given>>

\* catch (...) of read_csv, and that of run_now.
Catch ==
    /\ wpc = "caught"
    /\ KillAll
    /\ wpc' = "adopt"
    /\ UNCHANGED <<parserVars, exception, requested, cpc, given>>

Adopt ==
    /\ wpc = "adopt"
    /\ exception' = TRUE
    /\ wpc' = "over"
    /\ UNCHANGED <<parserVars, dequeVars, requested, cpc, given>>

Worker == Begin \/ ReadWindow \/ ReadFails \/ PushRows \/ EndWindow \/ End \/ Catch \/ Adopt

-----------------------------------------------------------------------------
(* The consumer: the constructor, read_row with check_for_rows, and the    *)
(* destructor.                                                             *)

Joinable == wpc = "over"

\* initial_read: join, and what the thread threw comes out of the constructor.
Construct ==
    /\ cpc = "construct"
    /\ Joinable
    /\ wpc' = "none"
    /\ exception' = FALSE
    /\ cpc' = IF exception THEN "broken" ELSE "idle"
    /\ UNCHANGED <<parserVars, dequeVars, requested, given>>

CallReadRow ==
    /\ cpc = "idle"
    /\ cpc' = "empty"
    /\ UNCHANGED <<parserVars, dequeVars, exception, requested, wpc, given>>

\* records->empty().
LoadEmpty ==
    /\ cpc = "empty"
    /\ cpc' = IF isEmpty THEN "waitable" ELSE "pop"
    /\ UNCHANGED <<parserVars, dequeVars, exception, requested, wpc, given>>

\* is_waitable() of wait_if_active.
LoadWaitable ==
    /\ cpc = "waitable"
    /\ cpc' = IF isWaitable THEN "wait" ELSE "join"
    /\ UNCHANGED <<parserVars, dequeVars, exception, requested, wpc, given>>

\* wait() looks once more before it takes the lock.
EnterWait ==
    /\ cpc = "wait"
    /\ cpc' = IF isWaitable THEN "lock" ELSE "empty"
    /\ UNCHANGED <<parserVars, dequeVars, exception, requested, wpc, given>>

\* The predicate, evaluated under the lock: on with the loop, or to sleep.
Wait ==
    /\ cpc = "lock"
    /\ ~asleep
    /\ IF Len(records) >= NotifySize \/ ~isWaitable
       THEN cpc' = "empty" /\ UNCHANGED asleep
       ELSE asleep' = TRUE /\ UNCHANGED cpc
    /\ UNCHANGED <<parserVars, records, isEmpty, isWaitable, exception, requested, wpc, given>>

\* A wake-up without a reason.
SpuriousWakeup ==
    /\ asleep
    /\ asleep' = FALSE
    /\ UNCHANGED <<parserVars, records, isEmpty, isWaitable, exception, requested, wpc, cpc, given>>

\* Defect: the thread is not waited for.
Join_Skipped ==
    /\ cpc = "join"
    /\ cpc' = "rethrow"
    /\ UNCHANGED <<parserVars, dequeVars, exception, requested, wpc, given>>

\* read_scheduler_.join().
Join ==
    /\ cpc = "join"
    /\ wpc \in {"none", "over"}
    /\ wpc' = "none"
    /\ cpc' = "rethrow"
    /\ UNCHANGED <<parserVars, dequeVars, exception, requested, given>>

\* rethrow_exception_if_any.
Rethrow ==
    /\ cpc = "rethrow"
    /\ exception' = FALSE
    /\ cpc' = IF exception THEN "threw" ELSE "decide"
    /\ UNCHANGED <<parserVars, dequeVars, requested, wpc, given>>

\* if (parser->eof()) return false.
AnswerFalse ==
    /\ cpc = "decide"
    /\ eof
    /\ cpc' = "false"
    /\ UNCHANGED <<parserVars, dequeVars, exception, requested, wpc, given>>

\* Defect: rows that came after empty() was asked are not looked for.
Barren_Blindly == requested

\* A window was asked for and has not given a row.
Barren == requested /\ isEmpty

\* throw_row_too_large_for_chunk.
AnswerTooLarge ==
    /\ cpc = "decide"
    /\ ~eof
    /\ Barren
    /\ cpc' = "tooLarge"
    /\ UNCHANGED <<parserVars, dequeVars, exception, requested, wpc, given>>

\* run: notify_all() on behalf of the thread, which then starts.
StartThread ==
    /\ cpc = "decide"
    /\ ~eof
    /\ ~Barren
    /\ isWaitable' = TRUE
    /\ asleep' = FALSE
    /\ exception' = FALSE
    /\ wpc' = "begin"
    /\ cpc' = "started"
    /\ UNCHANGED <<parserVars, records, isEmpty, requested, given>>

\* rethrow_exception_if_any after run; _read_requested = true.
Started ==
    /\ cpc = "started"
    /\ exception' = FALSE
    /\ IF exception
       THEN cpc' = "threw" /\ UNCHANGED requested
       ELSE cpc' = "empty" /\ requested' = TRUE
    /\ UNCHANGED <<parserVars, dequeVars, wpc, given>>

\* Defect: the flag is lowered with any row but the last.
PopFront_OneLeft == isEmpty' = (Len(records) <= 2)

\* pop_front: the flag is raised with the last row.
PopFront == isEmpty' = (Len(records) = 1)

\* pop_front and accept_row.
Pop ==
    /\ cpc = "pop"
    /\ records # <<>>
    /\ given' = Append(given, Head(records))
    /\ records' = Tail(records)
    /\ PopFront
    /\ requested' = FALSE
    /\ cpc' = "row"
    /\ UNCHANGED <<parserVars, isWaitable, asleep, exception, wpc>>

\* read_row has returned, and may be called again: after a row, and also after
\* false. No caller in the repository catches an exception of read_row.
Resume ==
    /\ cpc \in {"row", "false"}
    /\ cpc' = "idle"
    /\ UNCHANGED <<parserVars, dequeVars, exception, requested, wpc, given>>

\* ~CSVReader: join.
Destroy ==
    /\ cpc \in {"idle", "tooLarge", "threw"}
    /\ cpc' = "closing"
    /\ UNCHANGED <<parserVars, dequeVars, exception, requested, wpc, given>>

JoinLast ==
    /\ cpc = "closing"
    /\ wpc \in {"none", "over"}
    /\ wpc' = "none"
    /\ cpc' = "closed"
    /\ UNCHANGED <<parserVars, dequeVars, exception, requested, given>>

\* What the consumer does by itself, once it has been called.
InCall ==
    \/ Construct \/ LoadEmpty \/ LoadWaitable \/ EnterWait \/ Wait \/ Join \/ Rethrow
    \/ AnswerFalse \/ AnswerTooLarge \/ StartThread \/ Started \/ Pop \/ JoinLast

Source == Worker \/ InCall \/ SpuriousWakeup

SourceNext == Source \/ CallReadRow \/ Resume \/ Destroy

SourceSpec == SourceInit /\ [][SourceNext]_svars

-----------------------------------------------------------------------------
(* Properties                                                              *)

\* Between the thread that pushes and the consumer that pops, no row is lost,
\* repeated or moved, across windows, threads and calls, also after false.
RowsConserved ==
    /\ given \o records = [k \in 1..pushed |-> k]
    /\ pushed + left = RowsUpTo(parsed)

\* eof_ and the state of the parser are no atomics: the consumer looks at them, and
\* starts a thread that uses them, only when there is no thread at work.
ParserNotShared == cpc \in {"rethrow", "decide"} => wpc = "none"

\* The thread wakes the consumer for a full deque and at its end: nobody sleeps
\* with nobody left to wake him.
SleeperHasWaker == asleep => cpc = "lock" /\ wpc \notin {"none", "adopt", "over"}

\* A row is called too large for a chunk only if a whole window went by without one.
TooLargeIsTrue ==
    cpc = "tooLarge" => records = <<>> /\ parsed > 0 /\ feed[parsed] = RowsUpTo(parsed - 1)
=============================================================================
