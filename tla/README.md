# A TLA+ model of the curse engine

`curse` is a small columnar query engine in C++: one program converts a CSV file
to a columnar file (`.curse`), another answers one of 43 built-in queries from
such a file. Both are pipelines of *streams of batches*. This directory holds
TLA+ modules of the parts in which order, concurrency, failure or bookkeeping
across batches decide whether the answer is right, the TLC configurations that
check them, and TLAPS proofs about most of what they check. Paths below are relative
to the repository; those of the engine are under `src/` of it.

    src/util/            ThreadPool, lz4, hashing, ENSURE
    dependencies/ctpl/   the thread pool library, a changed copy
    dependencies/vince/  the CSV library: reader thread, windows, parser
    src/core/            types, codecs, file I/O, .curse and CSV readers and writers
    src/core/operators/  the operators of a query
    src/exec/            the programs and the 43 queries

## 1. Inventory

| Component | State | Operations | Interacts with |
|---|---|---|---|
| ThreadPool (`util/thread_pool.*`, `ctpl_stl.h`) | queue with its own mutex, pool mutex, condition variable, `isDone`, per-thread loop position | `Push`, `future.wait`, destructor | WriteBatch and CsvReader::Next push and wait; the pool is global |
| File calls (`file_io.*`) | one `ifstream` with position and failbit behind a mutex; one buffered `ofstream` | `ReadBytes`, `GetSize`; `Write`, close in the destructor | reader and views share the `ifstream` |
| Curse writer (`storage_write.cpp`) | bytes so far, blobs of the batch in `vec` | marker, schema, batches (a task per column), marker | pool, writer, a stream |
| Curse reader (`storage_read.cpp`) | `m_file_size`, `m_ptr`, `m_marker_read`, `m_inds`; per view offsets and column cache | open, `Next`, `GetColumn`, `ReadAll`, `ReadSubset` | a file that another process may be writing |
| CSV reader (`csv.cpp`) | buffered rows, columns, byte counters | `Next` with flushes converted by tasks | pool, CSV source |
| CSV source (`vince/csv.hpp`) | deque of rows with its lock, condition and two flags, a thread per window of the text, the exception it left | `read_row`, destructor | CSV reader, window parser |
| Window parser (`vince/csv.hpp`) | leftover of the last window, chunks, a pool of threads with generations, fragments of rows | `StreamParser::next` | the thread of the CSV source |
| CSV writer (`csv.cpp`) | none of its own | `WriteAsCsv` | a stream |
| String codec (`convert.hpp`, `types.hpp`) | token buffer, block, characters and offsets | `ToBytes`, `FromBytes` | curse writer and reader |
| Value codecs, LZ4, hashing | none | pure conversions | tasks of writer and readers |
| Streams and chains (`streams.*`, `chain.*`) | `m_stream`, null after its end | `Next` down, batches up | every operator |
| Skip, Enumerate, Filter, Select, Drop, Transform, Count, Aggregation | counters, the stream | `Next` | chains |
| Sort (`sort.cpp`) | rows kept, position in the batch | `Next`, chunk by chunk | chains |
| GroupBy (`groupby.cpp`) | two levels of hash maps, aggregates in strides, result keys | `Next`, block by block | chains, aggregators |
| Skippers (`skippers.cpp`) | mask, view, columns loaded | `Next` over selectors | curse reader |
| Column operations (`transform.cpp`) | resolved column indices; SetContains: maps and tuples | one column from others | Transform, skippers |
| Queries, programs (`exec/`) | none beyond their chains | 43 queries, two of which read the file twice | everything |

What is hard about it:

* **Threads.** The pool sleeps on a condition variable and ends by a flag that is
  written without the mutex; one file position is shared by all column readers;
  conversion tasks write columns while the main thread waits; the CSV library hands
  rows from a thread to the reader through a deque whose emptiness is also a flag,
  and parses chunks of a window side by side from a guess of where quotes are.
* **Exceptions in tasks.** Callers use `wait()`, not `get()`: what a task throws
  stays in its future, and whatever it did not write is missing.
* **Crashes and concurrent use of a file.** The format has a marker at both ends
  so that a file which was not finished is not taken for a shorter table.
* **State across batches.** A batch boundary has no meaning, so every counter,
  hash map and buffer that is kept across one must go on as if it were not there.
* **Optimisations that forget or skip**: sort with a limit, group-by with a limit,
  late materialisation, queries that read the file twice.

`PROJECT.json` lists each hazard at its line with the properties aimed at it.

## 2. Modules

| Module | What it is |
|---|---|
| `TaskQueue` | promise of ThreadPool: tasks start in push order, once, at most N at a time, none left at the end |
| `CtplPool` | ctpl's thread loop, push, stop and destructor, a step for each access to shared state |
| `CtplPoolProofs` | theorems about it |
| `FileCalls`, `AtomicFile` | calls and results of a FileReader; each call takes effect at one instant |
| `SharedReader` | ThreadSafeFileReader over IfstreamReader: lock, seek, read or tell, unlock |
| `SharedReaderProofs` | theorems about it, the refinement of AtomicFile among them |
| `BatchLog` | promise of the storage: append, seal, read in order, end only when sealed and after all |
| `CurseLayout` | the bytes of markers, schema, headers and blobs |
| `CurseWriter` | WriteAsCurse, its tasks, its buffered stream, a full device, a kill |
| `CurseReader` | CurseReader, BatchView |
| `CurseStorage` | writer and reader on one file; properties; refinement of BatchLog |
| `CurseStorageProofs` | theorems about it, the refinement of BatchLog among them |
| `CsvReader` | CsvReader::Next, its flushes and conversion tasks |
| `CsvSource` | read_row of vince-csv, its reader thread, deque and scheduler |
| `CsvInput` | CsvReader over CsvSource |
| `CsvInputProofs` | theorems about the source, the invariant of CsvReader, as lemmas, and theorems about both together |
| `CsvGrammar` | what a CSV text stands for, read one byte at a time; the bytes, operators only |
| `CsvParser` | the automaton that parses a chunk, from a state it may begin in, operators only |
| `IndexedTaskPool` | the threads that parse chunks: parallel_for, worker_loop, destructor |
| `CsvWindows` | windows, chunks, guesses, the validator, the leftover |
| `CsvWindowsProofs` | theorems about the threads, and about what the windows come to for every text |
| `StringColumn` | ConvertCol of strings, block by block |
| `StringColumnProofs` | the decoder's bounds, what it refuses and the round trip, for every block size and input |
| `SortOperator`, `GroupByOperator` | one stream each, step by step |
| `GroupSort` | a sort alone, and behind a group-by |
| `GroupSortProofs` | theorems about both: what is kept, the groups, the answer |
| `BasicSkipper` | late materialisation by selectors |
| `SetContains` | the numbered set of rows, operators only |
| `ColumnOperations` | what every column operation computes and which types it declares, makes and takes |
| `Operators` | what sort, group-by and the aggregates give for all of their rows |
| `OperatorChain` | all kinds of streams in a chain, calls down and batches up |
| `Queries` | the plans of the 43 queries, built as their code builds them |
| `HitsSql` | the SELECTs in their comments |
| `Query` | a query: skipper or reader, chain, program; two passes where there are two |
| `QueryProofs` | theorems about any chain and skipper, whatever the query |
| `MC*` | a module and a `.cfg` for each run: values of the constants, bounds |

Composition:

* `CurseStorage` EXTENDS `CurseWriter` and INSTANCEs `CurseReader` on the bytes that
  are durable in the file; both EXTEND `CurseLayout`. `SharedReader` justifies that
  `CurseReader` reads bytes by offset in one step.
* `CsvInput` EXTENDS `CsvReader` and `CsvSource`: a row is read by as many steps as
  read_row takes. What a window of the text is to `CsvSource`, some number of rows,
  is what `CsvWindows` makes of it; that one EXTENDS `CsvParser` (over `CsvGrammar`, the
  reference it is held against) and `IndexedTaskPool`.
* `Query` EXTENDS `OperatorChain` and `HitsSql` (over `Queries`) and INSTANCEs
  `BasicSkipper` as the source of the chain; `OperatorChain` EXTENDS `Operators`,
  that `ColumnOperations` and `SetContains`. A sort or group-by in a chain is the
  operator of `Operators` that `ResultExact` shows the stepwise modules to compute.
* `GroupSort` EXTENDS `SortOperator` and INSTANCEs `GroupByOperator` as its stream.
* The pool appears in `CurseWriter` and `CsvReader` as what `TaskQueue` promises:
  tasks that were pushed run in any interleaving, and a wait ends when all have.

### How state and actions correspond to the code

**CtplPool.** `wpc[w]` is the place of a thread in the lambda of `set_thread`:
`pop` → `Queue::pop`, `run` → `(*_f)(i)`, `lock` → `unique_lock`, `pred` → the
`pop` inside the wait predicate, `decide` → `isDone` in that predicate and the
atomic release-and-sleep, `leave` → unlocking with a function in hand,
`waiting`/`woken` → inside `cv.wait`. `mpc` is the main thread: constructor, push,
`notify_one`, waiting for futures, `stop(true)`, join, gone. The queue has its own
mutex, so one push or pop is one step; `isDone` is atomic.

**SharedReader.** `pos` and `failbit` are the `ifstream`'s. `Seek`, `Read` and
`Tell` are separate steps, because it is the mutex and nothing else that keeps
them together. A short read sets failbit; nothing in the code clears it.

**CurseWriter, CurseReader.** A byte string is a sequence of *items* of one or
more bytes (`CurseLayout`), each an int, a marker or a column of a batch together
with the offset of the byte in it, so a read at a wrong offset or length is seen
as what it is: something that is no whole item. An int takes `WordLen` bytes (1
in the runs); 32-bit range is the constant `IntMax`. `written` is what `Write`
accepted and `durable` the prefix that is in the file: a buffered stream decides
itself when to flush, `Close` flushes the rest and reports nothing. `Kill` may
happen at any step. The reader sees the durable prefix, which may grow under it.

**CsvReader.** A value is the number of the input row it came from, so a column
that lost, repeated or shifted a row shows. `ConvertColumn(f)` is one column of one
task; tasks interleave freely; a field that does not convert ends its task.

**CsvSource.** `wpc` is the place of the reader thread in `read_csv`, `cpc` that of
the consumer in `read_row` or what it returned. A step is one access to what the two
share: a method of the deque that takes its lock, a load of one of its atomic flags
(`isEmpty`, `isWaitable`, which may be older than what the next step finds), a thread
that is started or joined. Rows are numbered; a feed says how many there are up to the
end of each window. The stream may go bad at any window.

**IndexedTaskPool, CsvWindows.** A step is a critical section of the pool's mutex, one
`fetch_add`, one task (a chunk parsed), one chunk in the validator, or one window read.
`guess` is any guess of whether a chunk begins within quotes, though the code looks at
64 KB to make it: the validator must put right whatever it was. Bytes are ordinary or
one of the four that the grammar knows, and offsets are the code's.

**StringColumn.** Indices and buffer growth are the code's. `TakeChar` is one
round of the inner loop.

**SortOperator, GroupByOperator, BasicSkipper.** A row is a sequence of values and
the columns of a batch are kept together. In sort, rows carry the number of their
arrival, so stability is visible. In group-by an insertion-ordered map is the
sequence of its keys and an aggregate the sequence of values it was given, so what
is shown is *which* rows every aggregate sees and in which order, whatever it makes
of them; `std::sort` over key widths is not stable, and any order of equal widths
is possible (`Orders`). In the skipper `loaded` is the set of columns read.

**OperatorChain, Query.** `at` is the stream that runs and `moving` tells a call from
a return. `live[k]` is `m_stream` of stream k. The caller may ask again after null. In
`Query` the variables of the skipper have an initial `s`; `pass` is the plan that runs.
The first pass is part of building the query, because SetContains drains its stream in
the factory.

**ColumnOperations, Queries, HitsSql.** Values are small numbers, texts are numbered in
their order, a time counts half minutes so that truncation to minutes shows. Every
column has a type, and whoever takes it as another throws, as `std::get` does. A plan
names columns as the code does, and names become indices when the streams are built.
An answer is permitted if some order of the rows that agrees with the ORDER BY gives it.

### Code constants that are bounds or sizes in the runs

| Constant | Code | Runs | Why it is enough |
|---|---|---|---|
| `Workers`, `Tasks` | hardware threads, columns | 3, 3 | two asleep and one awake, one running and one in the wait predicate, more threads than work and the reverse; the theorems are for any number |
| `MaxSpurious` | unbounded | 1 | one wake-up without reason in any place; the theorems are for any number |
| `FileSize`, request lengths | any | 2, up to 2 bytes at offsets 0 to 3 | empty, whole, last byte, across the end, past the end |
| `Rows`, `BlobLens`, `IntMax` | any | batches of 2 and 1 rows; 1 and 2 bytes or both 2, then 1; 7 | the first batch may be just within and just beyond the range of an int, and one that is within it has columns of unequal length |
| `FlushBytes`, `TargetBytes`, `Cores` | 1 MiB, 128 MiB by default, hardware | 2, 3, 2 with 3 columns | several flushes in a batch, a flush that is exact, one row bigger than either; a task with one column and one with two |
| CSV rows | any | any set of bad columns or a wrong number of fields in inputs of up to 3 rows; good ones of up to 5 | a bad row before, in and after a flush; three batches |
| CSV windows (`MaxWindows`), `NotifySize` | any, 100 | 3 of 0 to 2 rows, 2 | a window inside of a row, one that ends the text, a consumer woken by a full deque and by the end of a window |
| `HeadSize`, chunk size, threads | 500 KB, 10 MB, up to hardware | 1; 1 and 2 bytes; 2 | a chunk ends between any two bytes; with 2 it holds rows of its own; a thread late for a generation |
| CSV text | any | tables of up to 2 by 2 fields, 3 bytes for chunks of 1 and 5 for chunks of 2, both line ends | quotes that hold separators, line ends and quotes; a row in three chunks and two windows |
| `Block`, `Slack`, `Spare` | 1024, 10, 5 | 3, 0, 0 | a block ends everywhere in a row and an escape; no slack, so that the room asked for is the room needed |
| `MinStride` | 4096 | 2, limits 0, 1, 3 and none | limit above and below the chunk |
| `BlockSize`, `Growth` | 512, 32 | 2, 2 with up to 4 rows | two blocks in a batch, two strides |
| `MaxRows`, `MaxGrouped` (operators) | any | 4, in up to three batches, empty ones among them | every cut of the rows |
| rows of a query's file | any | 2 or 3 in two batches, each unlike the others in a column that the query reads | groups of one and of two, rows on both sides of every condition, ties |
| `Ten`, `TwentyFive`, `Hundred` ... | 10, 25, 100, ... | 2, 2, 1, ... | every LIMIT cuts, every HAVING and OFFSET tells files apart |
| `LastSum` | 89 (query 29) | 3 | more than one sum |
| `MaxCalls` | unbounded | 4 | two batches, the end, one call after it |

## 3. Runs

| Run | Distinct states | Shows |
|---|---|---|
| `pool` | 112,700 | no function runs twice (`RunOnce`), a queued function always has a thread that will look (`NoLostWakeup`), the destructor returns (`DestructorReturns`) and leaves nothing unrun (`DestructorDrains`), what is pushed is run (`EveryTaskRuns`); the pool implements `TaskQueue` |
| `shared_reader` | 16,485 | a call delivers its own bytes (`OwnBytes`), a failure is for good (`FailureIsFinal`), calls are atomic (`ImplementsAtomicFile`) |
| `storage` | 499,512 | a normal end means a complete file (`EndMeansComplete`), a column handed out is the one that was written (`ReadBackOriginal`), ints are read where ints are (`ReadsAligned`), failures have a reason (`FailureHasReason`), a query ends (`QueryEnds`); refinement of `BatchLog` |
| `storage_full_device` | until violated | a violation: see Findings |
| `csv_input` | 208,622 | a row is in the deque, on its way or returned, in order (`RowsConserved`); one thread at a time uses the parser (`ParserNotShared`); a sleeping consumer has one that will wake it (`SleeperHasWaker`) and wakes (`ReaderReleased`); "row too large" is said of such rows only (`TooLargeIsTrue`); rows can be missing from the end of the text alone (`OnlyATailIsLost`); rows that convert are delivered once, aligned and in order (`CleanRowsDelivered`, `ColumnsInOrder`), partial loss is noticed (`PartialLossDetected`), buffers are bounded (`BuffersBounded`) |
| `csv_bad_text` | until violated | a violation: see Findings |
| `csv_input_end` | until violated | a violation: see Findings |
| `csv_windows` | 658,445 | wherever text is cut and whatever is guessed, the rows are those of the text (`RowsOfText`); no thread and no chunk is left in a window that is over and no chunk is parsed twice at a time (`NoStraggler`); a window that was begun ends, the pool can be destroyed (`ParallelForReturns`) |
| `csv_windows_row_end` | until violated | a violation: see Findings |
| `group_sort` | 1,744,704 | forgetting rows loses nothing and memory is a chunk and the limit (`KeepsTheTop`); the three numberings of groups agree, are the reference's, and index no deque past its end (`GroupsExact`); the result is the stable sort, cut, of the stream or of its groups (`ResultExact`) |
| `query` | 314,290 | the answer of each query is one its SELECT permits (`AnswersItsSql`), two passes give what one would (`TwoPassesAreOne`), with null, in either pass, what the plan makes of the wanted rows of the file has been given, however these are cut and skipped (`AnswersItsPlan`), null is last (`NullIsLast`), no column is read in vain (`NothingReadInVain`), calls return (`CallsReturn`) |
| `string_column` | 29,925 | round trip, exactly the malformed inputs are refused (`RefusesExactly`), no access outside the buffers (`StaysInBounds`) |

The type invariant of an operator module is a conjunct of one of its properties
(`KeepsTheTop`, `GroupsExact`, `NothingReadInVain`, `NullIsLast`), that of the window
parser of `RowsOfText` and that of its threads of `NoStraggler`. Every property has a
mutant in `PROJECT.json`: a definition of the model changed the way a plausible bug
would change the code (operators named `X_Something`, each with a comment `Defect`),
under which the property is violated.

### Fairness

* **pool**: weak fairness of every thread's own steps and of the main thread's
  steps inside push, wait, stop and join. A function that is run terminates, and
  the mutex is only held over a few instructions, so an enabled step is eventually
  taken. Nothing is assumed of the caller: it need not push, wait or destroy.
  Spurious wake-ups are bounded and not fair.
* **storage**: weak fairness of the reader's steps alone (a query loops over `Next`
  and uses every batch). The writer may stop anywhere.
* **csv_input**: weak fairness of the reader thread, which only ever computes or
  takes a lock held for a few instructions; of the consumer inside of read_row; and of
  the steps of CsvReader between two calls of it. Nobody has to call `Next` again.
* **csv_windows**: weak fairness of every thread of the pool and of the caller within
  `parallel_for` and the destructor. Nobody has to read the next window or destroy.
* **query**: weak fairness of the one thread there is, in skipper, chain or source; no
  step of it waits for another.

The other runs check safety only. `CHECK_DEADLOCK FALSE` stands where the program may
stop for good: after a null or an exception, or because the caller does not ask again.

### Findings

1. `storage_full_device`: `OfstreamWriter::Write` looks at the stream after handing
   it bytes it only buffers (`file_io.cpp:49`), and the last flush happens in a
   destructor. A device that fills up then leaves an incomplete file behind a
   writer that returned normally, against `file_io.hpp:22`, "expected to throw on
   fail". The file lacks its end, and readers refuse it (`EndMeansComplete`).
2. `csv_bad_text`: a field that does not convert throws inside a task, and
   `CsvReader::Next` only waits for the future (`csv.cpp:104`). When all columns
   lose the same number of values the batch is handed out without its rows.
   Otherwise the constructor of Batch throws (`PartialLossDetected`).

3. `csv_input_end`: `check_for_rows` asks the deque whether it is empty and after that
   whether a thread is at work (`csv.hpp:15250`). A thread that pushes its last rows and
   ends in between leaves a deque with rows and no thread, and `read_row` returns false,
   against `csv.hpp:12002`. A batch that has rows by then is only handed out short, and
   the next call of `Next` takes the rest. A batch that has none is the end: `Next`
   destroys the reader, returns null, and rows at the end of the text are lost without a
   sign (`OnlyATailIsLost` says that only these can be).
4. `csv_windows_row_end`: a window that ends between carriage return and line feed has
   no incomplete row to carry over, and the state that remembers the line feed is not
   passed on, against the comment at `csv.hpp:11246`. The next window starts with an
   empty row, for which CsvReader throws. `RowsOfText` shows that nothing else comes
   of it: all rows of the text are there.

Observations that are not runs of their own:

* `WriteBatch` also calls `wait()` (`storage_write.cpp:74`): a column over LZ4's input
  limit is written as an empty blob and the conversion returns. `storage` has this
  behaviour, and its properties say that a reader which asks for the column throws and
  is never given other bytes.
* `ColumnOperation::ArithmeticOp` always declares `Int8` (`transform.cpp:333`) whatever
  it computes. `ColumnOperations` has this, and `AnswersItsSql` shows that queries 29
  and 35, whose streams end in such columns, are unharmed.
* Queries 24 and 26 also output the column of their ORDER BY, which their SELECT does
  not name (`q24.cpp:6`, `q26.cpp:6`). `HitsSql` compares the columns it does name.
* In vince-csv, a quote inside of an unquoted field that is the first byte of a chunk
  is taken for an opening one, and a blank line exactly at the start of a chunk is
  dropped, unlike elsewhere. `WellQuoted` leaves the first out of the texts of
  `CsvWindows`. The second is one reason why `RowsOfText` looks at rows that have fields;
  the texts of `csv_windows` have no blank lines, those of the theorem may.

## 4. Proofs

`tlapm` proves the following for every value of the constants.

**CtplPoolProofs** — from `WorkersAssumption` (a finite, nonempty set of threads
without Main), `NoTaskAssumption`, `FreeAssumption` and `SpuriousAssumption`:
`TypeCorrect`, `Drains` (`DestructorDrains`), `RunsOnce` (`RunOnce`),
`SomeoneAwake` (`NoLostWakeup`), and `Refinement`: the pool implements the safety part
of `TaskQueue` (`TQSafety`; `ImplementsTaskQueue` adds its fairness). A step of the pool
is a push, a start, an end of a task or a stutter there, and no more tasks are started
than there are threads (`RoomForOne`).

The properties are not inductive. The invariant adds: the thread in the critical
section owns the mutex (`Exclusive`); `isDone` says where Main is (`StopFlag`);
busy threads have functions that were pushed (`JobIsTask`); what was pushed is in
the queue, with a thread, or done (`Accounted`); a thread that left did so with
`isDone` set and an empty queue (`LeftNothing`); and `WaitSeesQueue`, on which the
rest turns: a thread past the pop in its wait predicate still sees an empty queue
unless Main is on its way to `notify_one`. It holds because that thread owns the
mutex, which Main needs between its push and anything it does later. Without it
neither going to sleep preserves `NoLostWakeup` nor leaving preserves
`LeftNothing`, from which `DestructorDrains` follows at the join.

**SharedReaderProofs** — from `SizeAssumption`, `RequestsAssumption`,
`FreeAssumption`: `TypeCorrect`, `ReadsAreOwn` (`OwnBytes`), `FailureStays`
(`FailureIsFinal`), `Refinement` (`ImplementsAtomicFile`). The invariant adds
mutual exclusion, where the fields of a call are set (`CallState`), and
`OwnPosition`: between its seek and its read a thread finds the position it went
to. Each step maps to a step of `AtomicFile` or to a stutter; a call takes effect
at its read, its tell, or a seek that throws.

**CsvWindowsProofs** — about the pool of threads in it, from `WorkersAssumption` alone:
`PoolInvariance` and `Stragglers` (`NoStraggler`), for any finite number of threads above
one, whatever the pool is used for (`PoolSpec`). The property only speaks of the moment at
which `parallel_for` has returned. The invariant adds `Counted`: `active_workers_` is the
number of threads that are in the generation or have not seen it yet, and the generation
is complete exactly when there are none. Because the second kind is counted too, no
thread comes late and takes part in the next generation with what it has of the last.
`Current` says that whoever is inside has seen the generation of now; `Taken`, that
every index that is run is below the counter, so that the next one is new; `Drained`, that
a task nobody has taken still has a thread in front of it, so that none is left when the
last of them leaves.

About the windows, from that, `HeadAssumption`, `BytesAssumption` and `InputsAssumption`:
`WindowsInvariance`, `WindowsRowsOfText` (`RowsOfText`) and `WindowsStragglers`
(`NoStraggler`), for any text in which quotes enclose fields (`WellQuoted`: no quote is
within a field that does not begin with one; blank lines, text behind a closing quote and
a quote that is never closed are all allowed), any size of head and chunk, any number of
threads, and whatever they guess. `RowsOf` is the reference: a reader that looks at one
byte at a time, from the beginning of the text, and ahead at none. For the texts of
`csv_windows`, which are made from tables, TLC evaluates that it gives those tables back
(`i.rows = RowsOf(i.text)`).

The argument goes from the inside out. A parser that starts in a chunk in the state the
reader is in is `Sim`ilar to it at every byte: it looks ahead for a second quote and
compacts pairs when the field is over, the reader holds a quote back until it knows
(`Held`, `Content`); it sees the end of a chunk where the text goes on, and its state says
so. `ParseEnds` has what that comes to: the rows that began and ended in the chunk, where
the last one that did not begins, and that the state it ends in is the reader's
(`StateAfter`), which is why a validator that passes on the ending state of one chunk need
trust no guess of the next. A chunk then begins with a row (`Afresh`) or in the middle of
one (`Amid`), and ends the row it began within or not (`Throughout`); `ReleasedIs` says
that in each of these cases what is known in front of a chunk (`Known`: the rows so far
are the reader's, and what is pending is exactly the bytes of the row it is in) is known
behind it after `Release`. A row of several chunks is parsed once more as a whole, which is
`ParseEnds` again (`Materialized`). `Windowed` places a window in the text; `Resting`,
`Parsing` and `Validating` say what is so between windows, while threads parse (a chunk that
was taken is parsed or being parsed, `Ahead`, so with `Drained` all of them are when
`parallel_for` returns), and chunk by chunk after it. `NextSerial`, which parses a small
window at once, is one chunk without a guess. The rows of the reader, at any byte, are the
beginning of those it has at the end, which is the first half of `RowsOfText`.

The reader, the rounds of the parser, the compaction of quotes and `WithFields` are
recursive functions; what they are, and the inductions along a text, are by the least
place at which that would fail (`LeastNat`, `UpTo`).

**CurseStorageProofs** — from `LayoutAssumption`, `WriterAssumption` and
`ReaderAssumption` (at least one column, words of at least one byte, blobs that are not
empty, columns of the file or the unknown one): `TypeCorrect`, `EndIsComplete`
(`EndMeansComplete`), `ReadBack` (`ReadBackOriginal`), `Aligned` (`ReadsAligned`),
`FailsForAReason` (`FailureHasReason`), `FileIsALog` (`ImplementsBatchLog`), for any
number of batches, rows and columns, any lengths of words, schema and blobs, wherever
the writer stops and whenever the reader opens the file. It rests on a byte of an int
never being taken for one of the marker (Section 5).

None of the properties says where anything is in the file, so none is inductive.
The invariant does: batch b begins at `StartOf`, the sum of the sizes of the batches
before it, and its column c at `ColumnBegin`, the sum of the blobs before that one.
`Layout` says that whatever of the file is there holds the marker, the schema, the
headers and the blobs at these places, and the trailer only behind the last batch of
the stream; `Place`, how far the writer is; `Progress`, that the reader is at the
`StartOf` of the batches it has been given, and what the view it holds says. The two
sides meet in three lemmas: `HeaderRead` and `LoadColumn`, that what is read at such
a place is what was written there, and `EndRead`, that the marker is found at the end
of the batches and nowhere else, a header beginning with an int. A recursive function
is all the sums are; what is needed of it (`SumsDef`, `SumsGrow`, `SumsExtend`) is
proved by the least index at which it fails, the induction theorems of the library
being out of reach.

**CsvInputProofs** — about the source in it, from `FeedsAssumption` and `NotifyAssumption`:
`SourceTypeCorrect`, `NoRowLost` (`RowsConserved`), `ParserUsedByOne`
(`ParserNotShared`), `SleeperIsWoken` (`SleeperHasWaker`), `VerdictIsTrue`
(`TooLargeIsTrue`), for any windows. The invariant adds that the flag `isEmpty` is that
of the deque (`FlagIsTrue`), where the consumer can be while a thread is at work
(`Waiting`, `ThreadJoined`), that an exception is kept until it is thrown
(`FailureKept`), that a thread which is over has pushed its window (`WindowDone`), and
what has been handed out when (`NothingTaken`).

About both together, from `CsvAssumption` and the two above: every
behaviour of `CsvInput` is one of `CsvSource` (`SourceImplemented`), and for any number
of columns, cores, rows and bytes `CleanRows` (`CleanRowsDelivered`), `LossDetected`
(`PartialLossDetected`), `RowsInOrder` (`ColumnsInOrder`), `MemoryBounded`
(`BuffersBounded`), `OnlyTailLost` (`OnlyATailIsLost`). `ReaderInv` says of each column how far its task has come
(`TasksStarted`), and that a column holds the rows of the batch up to there
(`ColumnsHold`, `ColumnsRise`); it rests on lemmas about how the columns are shared out
among the tasks, `f * NCols \div NFuncs`. `TailInv` says which windows had been read
when a row was handed out, and `RowsTaken` ties the two modules together. `BytesCounted`
says that the counters of bytes are the sums of what is buffered and of what the batch
has had; a flush sets the one to zero and leaves the other, and each of them is looked
at only before a row is added.

**StringColumnProofs** — from `CharAssumption`, `BlockAssumption` and
`InputAssumption` (bytes are bytes): `TypeCorrect`, `DecoderInBounds` (`StaysInBounds`),
`RefusesJustTheOthers` (`RefusesExactly`) and `WrittenIsRead` (`RoundTrip`), for every
block size, slack, input and column. The invariant has the types of the counters and
`Room`: what is left of the block fits into what is left of `token`, which makes one
check a block enough. `Refusal` adds that the loop is never between a kEscape and the
byte it escapes, and that the last byte was escaped if the loop has gone past it.
`Written` says that the rows that are closed are those of the column, and `Reading`
which character of the next one the loop is at, those before it being in `token`; the
bytes at that place follow from how `ToBytes` concatenates. `FlattenSeq` and `Escapes`
are recursive functions: `FlattenIsFlat`, `FlatAt` and `EscapesDef` say once what they
are, by the least index at which that would fail.

**GroupSortProofs** — from `QueriesAssumption` (parameters name columns),
`InputsAssumption` (rows of integers, numbered as they arrive), `GroupingsAssumption`
(keys and aggregates name columns of the streams; a result has columns),
`StrideAssumption` and `SizesAssumption`: `TopIsKept` (`KeepsTheTop`), `GroupsAreExact`
(`GroupsExact`) and `AnswerIsExact` (`ResultExact`), for any parameters and keys, limits,
strides and blocks, and any stream. It has three parts.

Sorting: `SortBy` ranks the places of one column and `SortByAll` does it column after
column, last parameter first; what is asked is the order by all of them at once, ties by
arrival (`Precedes`). That both give the same sequence (`SortByAllIs`) rests on orders as
sets of pairs, whose n-th element is the one with n - 1 below it (`Listed`), and on each
further sort leaving the ties of its column in the order that the ones before made.
`TopOfTop` says that what is cut off is never missed: the first rows of the first rows of
A and all of B are those of A and B. With it `SInv` is inductive: what is in `vec` at each
place of `Next`; behind `AppendChunk` that is the rows kept and a chunk of at most
`Largest` rows, and the check for twice the limit changes nothing.

Grouping: `GInv` says what each of the numberings holds at each place of `Next`, in terms
of the rows that have been in `map2` so far. The keys there are codes, with the numbers
of `maps1` for strings. A code never changes once it is made, because `maps1` only grows
(`CodeStays`), and two rows have the same code just when they have the same keys
(`CodeTellsApart`), so putting codes into `map2` one after the other is putting in keys
(`CodedInsert`), and the limit falls at the same row for both. Within a batch the
aggregates are behind `map2`, and the result behind both: `GCounted` are the rows that
the aggregates have had, `Opened` the rows whose keys the result still lacks.

Together: `GSInv` adds `Grouped`, that the stream of the sort is empty until the group-by
has ended and is then the one batch that it has returned, whose rows, with the counts of
their groups, can be sorted, and whose first ones are what the SELECT asks for.

**QueryProofs** — from `PlansAssumption` (plans are chains of operators the code has,
whose offsets and limits are sizes; selectors look at columns that are read),
`RowsAssumption`, `CallsAssumption` and `ScaleAssumption`: `QueryInvHolds`, `NullEnds`
(`NullIsLast`), `EndIsWhole` (`EndMeansAll`, which
`AnswersItsPlan` contains for a query), `ReadForAReason`
(`NothingReadInVain`) and `AnswerIsItsPlans` (`AnswersItsPlan`), for any plans that are
so, any rows, and batches cut anywhere.
TLC evaluates `PlansAssumption` for the plans of the 43 queries. A chain of operators is
not assumed to fit its rows, so an operator may be given rows it makes nothing sensible
of: what is shown is that cutting them into batches makes no difference.

No stream knows what went before, so `ChainInv` says it with sequences that nobody
keeps: `A[k]`, the rows that stream k was given so far, and `E[k]`, those it has
returned. `Means` has that the rows given to a stream are those that the one below has
returned, except for the batch that is on its way, and `StageMeans` what each has made
of them: one that passes batches on has returned the operator's result for `A[k]`, with
its counter (`m_rows_left`, `m_cur`) where those rows left it; one that drains has
returned nothing while it keeps them (or their number), and the operator's result for all
of them afterwards. The step that matters is that an operator that passes batches on
gives for one batch behind another what it gives for both at once, from the counter that
the first one left (`PiecesJoin`, `Passes`). `InTurn` says that streams end one after the
other from the source on and that the call in progress only goes down streams that have
not, `Told` that the caller has got null just when the last one has ended. At that moment
every `E[k]` is its operator's result for `E[k - 1]`, and `E[0]` is everything
(`AllApplied`).

`SkipInv` says of the skipper what holds between two selectors of a view: the mask has
the rows that all selectors so far have marked, and some row is left (`Marked`), and the
columns read are those these selectors look at. That the selector at which no row is left
is the one the property speaks of is `NeededIs`. `QueryInv` puts the two together: the
source of the chain has ended only when the skipper has, the second pass begins with both
at their beginning, and where the plan does not skip the skipper has nothing to do.

That makes the answer a function of the file. `Linked` adds to `QueryInv` that chain and
selectors are those of the plan that runs, that the batches of the chain's source are
those that the skipper has returned, and that each of these has just the rows that every
selector marks (`SkipKept`): where a batch was given up, `Marked` has that no row was
left, and where it was read the mask is what all selectors leave. When the source has
ended the skipper has seen the whole file (`WholeFile`), so that what the program has
been given is what the plan's operators make of the wanted rows (`PassAnswers`); at the
end of the first of two passes this is what the second is filled with (`SecondPassLinks`).

`FlattenSeq`, `ApplyAll` and `Filtered` are recursive functions; what they are is proved
by the least index at which that would fail.

Only model-checked: all liveness (`EveryTaskRuns`, `DestructorReturns`, `QueryEnds`,
`ReaderReleased`, `ParallelForReturns`, `CallsReturn`), which TLAPS does not reach;
and the answers of the 43 queries against their SELECTs (`AnswersItsSql`, `TwoPassesAreOne`), each
of which is a definition of its own that TLC compares with another on files of a few rows.

## 5. Not modelled, and abstractions

* Statistics and argument handling of the programs, the strings that `WriteAsCsv`
  makes, value codecs, hash functions, LZ4, regular expressions. Whether a text
  matches, and what a replacement makes of it, are constant functions.
* Of vince-csv everything that CsvReader does not run: format guessing, memory-mapped
  files, headers, data frames, statistics, JSON, writing; also byte order marks, trimmed
  characters and the 256 MB at which a window is refused. gtl and lz4 are libraries.
  These vendored sources are most of the repository's lines.
* Integers are not wrapped at their width in `ColumnOperations` and `Operators`, and an
  average is a quotient of small numbers.
* Hash collisions: hash maps are exact, as the libraries' are. Equality of keys is
  that of values: NaN and -0.0 as keys of floating-point type are left out.
* Selectors mark with 0 and 1, as every transform used in one does.
* An int takes one byte in the runs (`WordLen`), the schema another. A batch whose
  size field happens to equal the marker is not among the inputs. `n_rows` is not
  checked against the range of an int.
* A crash is that of the process: what the operating system has accepted stays.
* No caller catches an exception of a stream, so the models stop at the first;
  a retry after one is not modelled.
* Reading a column is one step in `CurseReader`: `SharedReader` shows that calls
  of several threads look atomic.

## 6. Plan

Done, in this order: pool and its proofs, file calls and their proofs, storage,
CSV reader, sort, group-by, skipper, chains, string codec, two-pass queries; then the
CSV source with its proofs and those of the CSV reader, the refinement of `TaskQueue`,
sort behind group-by, column operations, all queries against their SELECTs, the
windows of the CSV parser, the proofs about storage, about the threads that parse
chunks, about the string codec, about sort and group-by, about chains and skippers, and
about what windows and chunks come to for any CSV text.

Next:

1. Integer widths in the column operations and the sums.
2. The answers of the queries as theorems, plan by plan: each needs a proof of its own that
   its operators, in their order, are its SELECT.
