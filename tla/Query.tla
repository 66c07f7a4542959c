-------------------------------- MODULE Query --------------------------------
(***************************************************************************)
(* A query of src/exec run over a file of hits: its reader, with or        *)
(* without a skipper, its chain of operators and the program that drains   *)
(* it (run_query.cpp, WriteAsCsv). Queries 23 and 32 read the file twice:  *)
(* their first plan is drained while the query is made, by SetContains,    *)
(* and what it gave is looked up by the second.                            *)
(*                                                                         *)
(* The variables of OperatorChain keep their names; those of BasicSkipper  *)
(* have an initial s. What the skipper returns becomes a batch of the      *)
(* chain's source.                                                         *)
(***************************************************************************)
EXTENDS OperatorChain, HitsSql

CONSTANTS Names,    \* the names of the queries that are run
          Others,   \* plans for chains and skippers that no query has, by name
          RowsOf,   \* RowsOf[q]: the rows of hits that a file for query q is made of
          MaxRows   \* BOUND: MaxRows[q]: rows of such a file

VARIABLES query,    \* the name of the query
          hits,     \* the batches of the file
          pass,     \* 1 or 2: the plan that runs
          sWidth, sSelectors, sInput, sTaken, sLive, sPc, sMask, sNext, sLoaded, sOut, sReads

sVars == <<sWidth, sSelectors, sInput, sTaken, sLive, sPc, sMask, sNext, sLoaded, sOut, sReads>>
allVars == <<vars, sVars, query, hits, pass>>

Sk == INSTANCE BasicSkipper WITH
        width <- sWidth, selectors <- sSelectors, input <- sInput, taken <- sTaken,
        live <- sLive, pc <- sPc, mask <- sMask, next <- sNext, loaded <- sLoaded,
        out <- sOut, reads <- sReads

TwoPass == {"Q23", "Q32"}

\* ExecuteQuery: the plan of a query, and the plan of its first pass.
PlanOf(q) ==
    CASE q = "Q0" -> Q0 [] q = "Q1" -> Q1 [] q = "Q2" -> Q2 [] q = "Q3" -> Q3 [] q = "Q4" -> Q4
      [] q = "Q5" -> Q5 [] q = "Q6" -> Q6 [] q = "Q7" -> Q7 [] q = "Q8" -> Q8 [] q = "Q9" -> Q9
      [] q = "Q10" -> Q10 [] q = "Q11" -> Q11 [] q = "Q12" -> Q12 [] q = "Q13" -> Q13
      [] q = "Q14" -> Q14 [] q = "Q15" -> Q15 [] q = "Q16" -> Q16 [] q = "Q17" -> Q17
      [] q = "Q18" -> Q18 [] q = "Q19" -> Q19 [] q = "Q20" -> Q20 [] q = "Q21" -> Q21
      [] q = "Q22" -> Q22 [] q = "Q23" -> Q23 [] q = "Q24" -> Q24 [] q = "Q25" -> Q25
      [] q = "Q26" -> Q26 [] q = "Q27" -> Q27 [] q = "Q28" -> Q28 [] q = "Q29" -> Q29
      [] q = "Q30" -> Q30 [] q = "Q31" -> Q31 [] q = "Q32" -> Q32 [] q = "Q33" -> Q33
      [] q = "Q34" -> Q34 [] q = "Q35" -> Q35 [] q = "Q36" -> Q36 [] q = "Q37" -> Q37
      [] q = "Q38" -> Q38 [] q = "Q39" -> Q39 [] q = "Q40" -> Q40 [] q = "Q41" -> Q41
      [] q = "Q42" -> Q42 [] OTHER -> Others[q]

FirstPlan(q) == IF q = "Q23" THEN Q23First ELSE IF q = "Q32" THEN Q32First ELSE PlanOf(q)

\* What their streams and selectors are, for every query: positions and types found.
Chain     == [q \in Names |-> ChainOf(PlanOf(q))]
Selectors == [q \in Names |-> SelectorsOf(PlanOf(q))]
FirstWidth     == [q \in Names |-> Len(ColumnsOf(FirstPlan(q)))]
FirstChain     == [q \in Names |-> ChainOf(FirstPlan(q))]
FirstSelectors == [q \in Names |-> SelectorsOf(FirstPlan(q))]

\* Selectors look at columns that are read; those that look at one ask whether its
\* value is, or has, another.
AreSelectors(columns, sels) ==
    /\ Len(sels) \in Nat
    /\ sels = [n \in 1..Len(sels) |-> sels[n]]
    /\ \A n \in DOMAIN sels :
         /\ "kind" \in DOMAIN sels[n]
         /\ sels[n].kind = "transform" => sels[n].f.fn \in {"compare", "search"}
         /\ sels[n].kind = "operator" => "cols" \in DOMAIN sels[n]
         /\ Sk!ColsOf(sels[n]) \subseteq 1..columns

ASSUME PlansAssumption ==
    \A q \in Names :
        /\ IsChain(FirstChain[q])
        /\ AreSelectors(Len(FirstPlan(q).cols), FirstSelectors[q])
        /\ IsChain(Chain[q])
        /\ AreSelectors(Len(PlanOf(q).cols), Selectors[q])

ASSUME RowsAssumption == \A q \in Names : MaxRows[q] \in Nat

\* The rows of a file as a reader of these columns gives them.
Read(file, cs) == [b \in DOMAIN file |-> [j \in DOMAIN file[b] |-> Columns(file[b][j], cs)]]

Skips(plan) == plan.skipper # NoSkipper

\* A SimpleCurseReader is the source itself; a skipper gives the source its batches.
SourceOf(plan, file)  == IF Skips(plan) THEN <<>> ELSE Read(file, plan.cols)
SkippedOf(plan, file) == IF Skips(plan) THEN Read(file, plan.cols) ELSE <<>>

\* A file: no batch, or its rows in two of them, the first with one row or none.
FileOf(table, first) ==
    IF table = <<>> THEN <<>> ELSE <<SubSeq(table, 1, first), SubSeq(table, first + 1, Len(table))>>

QInit ==
    \E q \in Names :
    \E n \in 0..MaxRows[q] :
    \E table \in [1..n -> RowsOf[q]], first \in 0..Least(1, n) :
        /\ query = q
        /\ hits = FileOf(table, first)
        /\ pass = 1
        /\ InitWith(FirstChain[q], SourceOf(FirstPlan(q), hits))
        /\ Sk!InitWith(Len(FirstPlan(q).cols), FirstSelectors[q], SkippedOf(FirstPlan(q), hits))

-----------------------------------------------------------------------------
Asked == at = 0 /\ moving = "down" /\ taken = Len(input)

\* The skipper works on a batch for the chain, and hands it on or ends or throws.
SkipperStep ==
    /\ Asked
    /\ sLive
    /\ sPc # "threw"
    /\ Sk!SkipperNext
    /\ input' = IF sOut' = sOut THEN input ELSE Append(input, sOut'[Len(sOut')])
    /\ moving' = IF sPc' = "threw" THEN "threw" ELSE moving
    /\ UNCHANGED <<query, hits, pass>>
    /\ UNCHANGED <<chain, taken, asked, ended, live, state, at, carry, calls, out>>

\* A SimpleCurseReader has no skipper: it ends when its batches do.
SourceStep ==
    /\ at = 0
    /\ Asked => ~sLive \/ ~Skips(IF pass = 1 THEN FirstPlan(query) ELSE PlanOf(query))
    /\ SourceNext
    /\ UNCHANGED <<sVars, query, hits, pass>>

\* Null for the program is the end; on the first of two passes SetContains stops too.
Drained == Null \in ToSet(out)

ChainStep ==
    /\ StreamsNext
    /\ UNCHANGED <<sVars, query, hits, pass>>

Pull ==
    /\ pass = 1 /\ query \in TwoPass => ~Drained
    /\ CallNext
    /\ UNCHANGED <<sVars, query, hits, pass>>

\* SetContains has drained the first plan: the second is made, with a reader of its own.
SecondPass ==
    /\ pass = 1
    /\ query \in TwoPass
    /\ at = Caller
    /\ Drained
    /\ \E data \in {DataOf(FirstWidth[query], FlattenSeq(Batches(out)))} :
         LET plan == PlanOf(query)
         IN  /\ Restart(Filled(data, Chain[query]), SourceOf(plan, hits))
             /\ Sk!Restart(Len(plan.cols), FilledSelectors(data, Selectors[query]), SkippedOf(plan, hits))
    /\ pass' = 2
    /\ UNCHANGED <<query, hits>>

QNext == Pull \/ SourceStep \/ SkipperStep \/ ChainStep \/ SecondPass

\* A call runs on until it returns: it is one thread's, and nothing waits.
Fairness == WF_allVars(SourceStep \/ SkipperStep \/ ChainStep)

QSpec == QInit /\ [][QNext]_allVars /\ Fairness

-----------------------------------------------------------------------------
(* Properties                                                              *)

LastPass == query \in TwoPass => pass = 2

Hits == FlattenSeq(hits)

\* What the program writes is an answer to the SELECT above the query's code: the
\* columns are found by name through streams, skippers and operations, numbers of
\* rows go by the right column, limits and offsets cut at the right end, and every
\* column has the type that it is taken by. Q6 has no answer for an empty table ("min/max
\* of empty set is undefined", aggregators.hpp:198); no other query throws.
AnswersItsSql ==
    query \notin DOMAIN Others =>
        /\ LastPass /\ Drained => Permitted(Select(query, Hits), FlattenSeq(Batches(out)))
        /\ moving = "threw" => query = "Q6" /\ Hits = <<>>

\* Two passes give what one gives, in its order: also when keys that are called
\* primary repeat, when a row that does not match has the key of one that does, and
\* when rows or groups that are equal in the sort's eyes stand on both sides of the
\* limit. The one pass is the SELECT without a first pass: for Q23 the older version
\* that stands in the comment (q23.cpp:18-25), for Q32 the plan without its filter.
OnePass ==
    LET rows == FlattenSeq(Read(hits, PlanOf(query).cols))
        url  == IndexOf(Reading(kHitsSchema), "URL")
    IN  IF query = "Q23"
        THEN ApplyAll(Chain[query], Picked(rows, [j \in DOMAIN rows |-> rows[j][url] \in Like["google"]]))
        ELSE ApplyAll(SubSeq(Chain[query], 3, Len(Chain[query])), rows)

TwoPassesAreOne ==
    query \in TwoPass /\ LastPass /\ Drained => FlattenSeq(Batches(out)) = OnePass

\* The rows of a batch that every selector marks, whatever the others do.
Wanted(sels, batch) ==
    Picked(batch, [j \in DOMAIN batch |-> \A n \in DOMAIN sels : Sk!Marks(sels[n], batch)[j] = 1])

\* The rows of the file that a plan's operators are to work on.
RowsWanted(plan, sels) ==
    LET batches == Read(hits, plan.cols) IN FlattenSeq([b \in DOMAIN batches |-> Wanted(sels, batches[b])])

\* What a query is to answer: its operators, one after the other, make it of these
\* rows, and SetContains looks rows up in the whole of what the first plan makes.
FirstAnswer == ApplyAll(FirstChain[query], RowsWanted(FirstPlan(query), FirstSelectors[query]))

LookedUp == DataOf(FirstWidth[query], FirstAnswer)

SecondAnswer ==
    ApplyAll(Filled(LookedUp, Chain[query]),
             RowsWanted(PlanOf(query), FilledSelectors(LookedUp, Selectors[query])))

\* The answer is a function of the file, in either pass. Wherever the file cuts its
\* rows into batches, empty ones among them, whenever the skipper gives a batch up or
\* ends, however its selectors share the mask and the chain asks for batches, and
\* though a second reader follows the first, no row is lost, kept or given twice on its
\* way from the reader to the program, and counters kept across batches (m_rows_left,
\* m_cur) continue where they were.
AnswersItsPlan ==
    Drained => FlattenSeq(Batches(out)) = IF pass = 1 THEN FirstAnswer ELSE SecondAnswer

\* The properties of the skipper in a query.
NothingReadInVain == Sk!NothingReadInVain

\* A call of Next on the last stream returns, or throws.
CallsReturn == (at # Caller) ~> (moving = "threw" \/ (at = Caller /\ moving = "up"))
=============================================================================
