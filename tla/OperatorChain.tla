---------------------------- MODULE OperatorChain ----------------------------
(***************************************************************************)
(* A chain of operators over a stream of batches (ChainOperator, >= and    *)
(* the streams of src/core/operators): Next is called on the last stream,  *)
(* which calls Next on the stream before it, down to the source, and the   *)
(* batches come back up. Skip, Enumerate, Filter, Select, Drop and         *)
(* Transform make one batch of each batch; Count, Aggregation, Sort and    *)
(* GroupBy take all batches before they return one. Every stream drops the *)
(* stream before it when that has ended, and from then on returns null at  *)
(* once.                                                                   *)
(*                                                                         *)
(* What SortOperator and GroupByOperator do with the batches they take is  *)
(* in the modules of that name; here the stream keeps the rows it has      *)
(* taken and the result is made of them. An operator that does not fit the *)
(* types of its columns throws, and so does an aggregation one of whose    *)
(* aggregates is undefined; the program does not catch what a stream       *)
(* throws.                                                                 *)
(***************************************************************************)
EXTENDS Operators

CONSTANT MaxCalls       \* BOUND: calls of Next on the last stream

ASSUME CallsAssumption == MaxCalls \in Nat

VARIABLES chain,    \* the operators
          input,    \* the source's batches
          taken,    \* how many of them it has given
          asked,    \* history: calls of the source's Next after it returned null
          ended,    \* history: the source has returned null
          live,     \* live[k]: m_stream of stream k is not null
          state,    \* state[k]: m_rows_left, m_cur, count, or the rows taken
          at,       \* the stream that runs: 0 is the source, Len(chain) + 1 the caller
          moving,   \* "down": at is being called; "up": at is given `carry`;
                    \* "threw": it has thrown
          carry,    \* the pointer returned, to a batch or Null
          calls,    \* calls of Next by the caller
          out       \* history: the pointers that the caller was given

\* A std::unique_ptr<Batch>: null, or one that has a batch.
Null       == <<>>
Ptr(batch) == <<batch>>
Batches(s) == FlattenSeq(s)

vars == <<chain, input, taken, asked, ended, live, state, at, moving, carry, calls, out>>

Stages == 1..Len(chain)
Caller == Len(chain) + 1

Passing  == {"skip", "enumerate", "filter", "select", "drop", "transform"}
Draining == {"count", "aggregation", "sort", "groups"}

\* What a stream is made with: the number of rows to skip and a limit are sizes.
IsOperator(o) ==
    /\ "op" \in DOMAIN o
    /\ o.op \in Passing \cup Draining
    /\ o.op = "skip" => o.n \in Nat
    /\ o.op = "enumerate" => o.start \in Int
    /\ o.op \in {"sort", "groups"} /\ o.limit # NoLimit => o.limit \in Nat

IsChain(c) ==
    /\ Len(c) \in Nat
    /\ c = [k \in 1..Len(c) |-> c[k]]
    /\ \A k \in DOMAIN c : IsOperator(c[k])

TypeOK ==
    /\ taken \in 0..Len(input)
    /\ live \in [Stages -> BOOLEAN]
    /\ at \in 0..Caller
    /\ moving \in {"down", "up", "threw"}
    /\ calls \in 0..MaxCalls
    /\ \A k \in Stages : chain[k].op = "skip" => state[k] \in 0..chain[k].n
    /\ Len(out) <= calls

Start(o) ==
    CASE o.op = "skip" -> o.n
      [] o.op = "enumerate" -> o.start
      [] o.op = "count" -> 0
      [] OTHER -> <<>>

\* Before the first call, with these operators over a source with these batches.
InitWith(operators, batches) ==
    /\ chain = operators
    /\ input = batches
    /\ taken = 0
    /\ asked = 0
    /\ ended = FALSE
    /\ live = [k \in Stages |-> TRUE]
    /\ state = [k \in Stages |-> Start(chain[k])]
    /\ at = Caller
    /\ moving = "up"
    /\ carry = Null
    /\ calls = 0
    /\ out = <<>>

\* The same for a new chain, when the last one has been drained.
Restart(operators, batches) ==
    /\ chain' = operators
    /\ input' = batches
    /\ taken' = 0
    /\ asked' = 0
    /\ ended' = FALSE
    /\ live' = [k \in DOMAIN operators |-> TRUE]
    /\ state' = [k \in DOMAIN operators |-> Start(operators[k])]
    /\ at' = Len(operators) + 1
    /\ moving' = "up"
    /\ carry' = Null
    /\ calls' = 0
    /\ out' = <<>>

-----------------------------------------------------------------------------
(* The source, the streams and the caller.                                 *)

\* The caller calls Next on the last stream.
CallNext ==
    /\ at = Caller
    /\ moving = "up"
    /\ calls < MaxCalls
    /\ calls' = calls + 1
    /\ at' = Len(chain)
    /\ moving' = "down"
    /\ UNCHANGED <<chain, input, taken, asked, ended, live, state, carry, out>>

\* What stream k returns goes to the one after it.
ReturnFrom(k, ptr) ==
    /\ carry' = ptr
    /\ at' = k + 1
    /\ moving' = "up"
    /\ out' = IF k = Len(chain) THEN Append(out, ptr) ELSE out

\* The source: its next batch, or null, also when it is asked again.
SourceNext ==
    /\ at = 0
    /\ moving = "down"
    /\ IF taken < Len(input)
       THEN taken' = taken + 1 /\ ReturnFrom(0, Ptr(input[taken'])) /\ UNCHANGED <<asked, ended>>
       ELSE /\ ReturnFrom(0, Null)
            /\ asked' = IF ended THEN asked + 1 ELSE asked
            /\ ended' = TRUE
            /\ UNCHANGED taken
    /\ UNCHANGED <<chain, input, live, state, calls>>

\* if (!m_stream) return nullptr; otherwise m_stream->Next().
StageNext ==
    /\ at \in Stages
    /\ moving = "down"
    /\ IF live[at]
       THEN at' = at - 1 /\ UNCHANGED <<moving, carry, out>>
       ELSE ReturnFrom(at, Null)
    /\ UNCHANGED <<chain, input, taken, asked, ended, live, state, calls>>

\* Defect: m_rows_left is not taken down.
Advanced_SkipsEach(o, s, rows) == IF o.op = "enumerate" THEN s + Len(rows) ELSE s

\* The state of a stream after a batch: m_rows_left -= to_skip, m_cur += n_rows.
Advanced(o, s, rows) ==
    CASE o.op = "skip"      -> s - Least(s, Len(rows))
      [] o.op = "enumerate" -> s + Len(rows)
      [] OTHER              -> s

\* What it makes of the batch.
Made(o, s, rows) ==
    CASE o.op = "skip"      -> SubSeq(rows, Least(s, Len(rows)) + 1, Len(rows))
      [] o.op = "enumerate" -> [j \in DOMAIN rows |-> Append(rows[j], s + j - 1)]
      [] OTHER              -> Apply(o, rows)

\* The batch that has come.
Given == carry[1]

\* A batch arrives at a stream that passes batches on.
PassOn ==
    /\ at \in Stages
    /\ moving = "up"
    /\ carry # Null
    /\ chain[at].fits
    /\ chain[at].op \notin Draining
    /\ state' = [state EXCEPT ![at] = Advanced(chain[at], state[at], Given)]
    /\ ReturnFrom(at, Ptr(Made(chain[at], state[at], Given)))
    /\ UNCHANGED <<chain, input, taken, asked, ended, live, calls>>

\* Defect: after a batch without rows no other is asked for.
Absorb_StopsAtEmpty ==
    /\ at \in Stages
    /\ moving = "up"
    /\ carry # Null
    /\ Given # <<>>
    /\ chain[at].fits
    /\ chain[at].op \in Draining
    /\ state' = [state EXCEPT ![at] =
                    IF chain[at].op = "count" THEN state[at] + Len(Given) ELSE state[at] \o Given]
    /\ at' = at - 1
    /\ moving' = "down"
    /\ UNCHANGED <<chain, input, taken, asked, ended, live, carry, calls, out>>

\* A batch arrives at a stream that drains: it is taken, and the next one asked for.
Absorb ==
    /\ at \in Stages
    /\ moving = "up"
    /\ carry # Null
    /\ chain[at].fits
    /\ chain[at].op \in Draining
    /\ state' = [state EXCEPT ![at] =
                    IF chain[at].op = "count" THEN state[at] + Len(Given) ELSE state[at] \o Given]
    /\ at' = at - 1
    /\ moving' = "down"
    /\ UNCHANGED <<chain, input, taken, asked, ended, live, carry, calls, out>>

\* An aggregate of the values a stream has drained is undefined.
Undefinable(k) ==
    /\ chain[k].op = "aggregation"
    /\ \E a \in ToSet(chain[k].aggs) : Undefined(a.tp, Column(state[k], a.col))

Result(k) == IF chain[k].op = "count" THEN <<<<state[k]>>>> ELSE Apply(chain[k], state[k])

\* Defect: m_stream is not dropped with the result of a stream that drains.
EndOfStream_KeepsStream ==
    /\ at \in Stages
    /\ moving = "up"
    /\ carry = Null
    /\ ~Undefinable(at)
    /\ IF chain[at].op \in Draining
       THEN ReturnFrom(at, Ptr(Result(at))) /\ UNCHANGED live
       ELSE ReturnFrom(at, Null) /\ live' = [live EXCEPT ![at] = FALSE]
    /\ UNCHANGED <<chain, input, taken, asked, ended, state, calls>>

\* Null arrives: m_stream = nullptr; a stream that drains returns its one batch now.
EndOfStream ==
    /\ at \in Stages
    /\ moving = "up"
    /\ carry = Null
    /\ ~Undefinable(at)
    /\ live' = [live EXCEPT ![at] = FALSE]
    /\ ReturnFrom(at, IF chain[at].op \in Draining THEN Ptr(Result(at)) ELSE Null)
    /\ UNCHANGED <<chain, input, taken, asked, ended, state, calls>>

\* An operator throws, through all streams and their caller: std::get at a batch with
\* a column of another type, Aggregator::Get at the end.
Throw ==
    /\ at \in Stages
    /\ moving = "up"
    /\ IF carry = Null THEN Undefinable(at) ELSE ~chain[at].fits
    /\ moving' = "threw"
    /\ UNCHANGED <<chain, input, taken, asked, ended, live, state, at, carry, calls, out>>

StreamsNext == StageNext \/ PassOn \/ Absorb \/ EndOfStream \/ Throw

-----------------------------------------------------------------------------
(* Properties                                                              *)

\* What the chain means: each operator applied to all the rows of the one before.
Meaning == ApplyAll(chain, FlattenSeq(input))

\* Wherever the source cuts its rows into batches, empty ones among them, the rows
\* the caller has got when it is told the end are those the chain means: counters
\* kept across batches (m_rows_left, m_cur) continue where they were.
EndMeansAll ==
    Null \in ToSet(out) => FlattenSeq(Batches(out)) = Meaning

\* types.hpp:445, "null pointer means end of stream": null is the last word. What
\* a call after it returns is null again, and no operator asks a stream again that
\* has told it its end, so that the source never is.
NullIsLast ==
    /\ TypeOK
    /\ \A m, n \in DOMAIN out : m < n /\ out[m] = Null => out[n] = Null
    /\ chain # <<>> => asked = 0
=============================================================================
