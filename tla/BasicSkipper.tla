---------------------------- MODULE BasicSkipper ----------------------------
(***************************************************************************)
(* BasicSkipper (src/core/skippers.cpp) over the views of a CurseReader:   *)
(* for each batch of a file, selectors mark the rows to keep, loading only *)
(* the columns they look at; as soon as no row is left the batch is given  *)
(* up, and only a batch with rows to keep has the rest of its columns      *)
(* read.                                                                   *)
(*                                                                         *)
(* A TransformSelector computes a mask of one column. An OperatorSelector  *)
(* numbers the rows of the batch (EnumerateOperator), runs a chain of      *)
(* operators on the columns of its own schema and marks the rows whose     *)
(* numbers come out of it, in the column `marker`.                         *)
(***************************************************************************)
EXTENDS Operators

VARIABLES width,        \* the number of columns of the schema that is read
          selectors,    \* m_selectors
          input,        \* the batches of the file
          taken,        \* how many views the reader has given
          live,         \* m_stream is not null
          pc,           \* "idle", "select", "subset", "ended", "threw"
          mask,         \* mask[j]: row j is still to be kept
          next,         \* the selector to run next
          loaded,       \* the columns of the view that have been read
          out,          \* history: the batches returned
          reads         \* history: for each of them the columns that were read

vars == <<width, selectors, input, taken, live, pc, mask, next, loaded, out, reads>>

TypeOK ==
    /\ taken \in 0..Len(input)
    /\ live \in BOOLEAN
    /\ pc \in {"idle", "select", "subset", "ended", "threw"}
    /\ mask \in Seq({0, 1})
    /\ next \in 1..(Len(selectors) + 1)
    /\ loaded \subseteq 1..width
    /\ Len(out) = Len(reads)

\* Before the first call, for these selectors over these batches.
InitWith(columns, sels, batches) ==
    /\ width = columns
    /\ selectors = sels
    /\ input = batches
    /\ taken = 0
    /\ live = TRUE
    /\ pc = "idle"
    /\ mask = <<>>
    /\ next = 1
    /\ loaded = {}
    /\ out = <<>>
    /\ reads = <<>>

-----------------------------------------------------------------------------
View == input[taken]

Return(batch, cols) ==
    /\ out' = Append(out, batch)
    /\ reads' = Append(reads, cols)
    /\ pc' = "idle"

\* Next without selectors: ReadAll.
NextAll ==
    /\ pc = "idle"
    /\ live
    /\ taken < Len(input)
    /\ selectors = <<>>
    /\ taken' = taken + 1
    /\ Return(input[taken'], 1..width)
    /\ UNCHANGED <<width, selectors, input, live, mask, next, loaded>>

NextView ==
    /\ pc = "idle"
    /\ live
    /\ taken < Len(input)
    /\ selectors # <<>>
    /\ taken' = taken + 1
    /\ mask' = [j \in DOMAIN input[taken'] |-> 1]
    /\ next' = 1
    /\ loaded' = {}
    /\ pc' = "select"
    /\ UNCHANGED <<width, selectors, input, live, out, reads>>

\* The end of the file, and the calls after it.
NextEnd ==
    /\ pc \in {"idle", "ended"}
    /\ live => taken = Len(input)
    /\ live' = FALSE
    /\ pc' = "ended"
    /\ UNCHANGED <<width, selectors, input, taken, mask, next, loaded, out, reads>>

\* The stream an OperatorSelector runs on a batch.
Enumerated(s) == <<[op |-> "enumerate", start |-> 0]>> \o s.ops

\* What a selector makes of a batch: 1 for the rows it marks.
Marks(s, rows) ==
    IF s.kind = "transform"
    THEN [j \in DOMAIN rows |-> Computed(s.f, <<rows[j][s.col]>>)]
    ELSE LET kept == ApplyAll(Enumerated(s), [j \in DOMAIN rows |-> Part(rows[j], s.cols)])
         IN  [j \in DOMAIN rows |-> Bit(\E row \in ToSet(kept) : row[s.marker] = j - 1)]

ColsOf(s) == IF s.kind = "transform" THEN {s.col} ELSE ToSet(s.cols)

\* Defect: the mask of the last selector takes the place of those before it.
Process_Forgets(s, rows) == [j \in DOMAIN rows |-> Marks(s, rows)[j] % 2]

\* BatchViewSelector::Process: mask[i] &= mk[i], of which the lowest bit is left.
Process(s, rows) ==
    LET mk == Marks(s, rows)
    IN  [j \in DOMAIN rows |-> IF mask[j] = 1 THEN mk[j] % 2 ELSE 0]

AllZero(m) == \A j \in DOMAIN m : m[j] = 0

\* Defect: the batch is not given up when no row is left.
RunSelector_Through ==
    /\ pc = "select"
    /\ next <= Len(selectors)
    /\ selectors[next].fits
    /\ loaded' = loaded \cup ColsOf(selectors[next])
    /\ mask' = Process(selectors[next], View)
    /\ next' = next + 1
    /\ pc' = IF next = Len(selectors) THEN "subset" ELSE "select"
    /\ UNCHANGED <<width, selectors, input, taken, live, out, reads>>

\* One selector, and the early end of a batch without rows: EmptyBatch.
RunSelector ==
    /\ pc = "select"
    /\ next <= Len(selectors)
    /\ selectors[next].fits
    /\ loaded' = loaded \cup ColsOf(selectors[next])
    /\ mask' = Process(selectors[next], View)
    /\ next' = next + 1
    /\ IF AllZero(mask')
       THEN Return(<<>>, loaded')
       ELSE /\ pc' = IF next = Len(selectors) THEN "subset" ELSE "select"
            /\ UNCHANGED <<out, reads>>
    /\ UNCHANGED <<width, selectors, input, taken, live>>

\* A selector does not fit the type of its column, or its mask is no Int8: std::get.
SelectorThrows ==
    /\ pc = "select"
    /\ next <= Len(selectors)
    /\ ~selectors[next].fits
    /\ loaded' = loaded \cup ColsOf(selectors[next])
    /\ pc' = "threw"
    /\ UNCHANGED <<width, selectors, input, taken, live, mask, next, out, reads>>

\* ReadSubset(mask): every column is read, and filtered by the mask.
ReadSubset ==
    /\ pc = "subset"
    /\ Return(Picked(View, [j \in DOMAIN mask |-> mask[j] = 1]), 1..width)
    /\ UNCHANGED <<width, selectors, input, taken, live, mask, next, loaded>>

\* The same for a new reader of the file.
Restart(columns, sels, batches) ==
    /\ width' = columns
    /\ selectors' = sels
    /\ input' = batches
    /\ taken' = 0
    /\ live' = TRUE
    /\ pc' = "idle"
    /\ mask' = <<>>
    /\ next' = 1
    /\ loaded' = {}
    /\ out' = <<>>
    /\ reads' = <<>>

SkipperNext == NextAll \/ NextView \/ NextEnd \/ RunSelector \/ SelectorThrows \/ ReadSubset

-----------------------------------------------------------------------------
(* Properties                                                              *)

\* Columns are read for a reason: all of them for a batch with wanted rows, and
\* otherwise those of the selectors that were needed to find that there are none.
NothingReadInVain ==
    /\ TypeOK
    /\ \A b \in DOMAIN out :
         reads[b] = IF out[b] # <<>> \/ selectors = <<>> THEN 1..width
                    ELSE LET Left(n) == {j \in DOMAIN input[b] :
                                           \A m \in 1..n : Marks(selectors[m], input[b])[j] = 1}
                             needed  == CHOOSE n \in DOMAIN selectors :
                                           Left(n) = {} /\ \A m \in 1..(n - 1) : Left(m) # {}
                         IN  UNION {ColsOf(selectors[n]) : n \in 1..needed}
=============================================================================
