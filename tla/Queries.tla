------------------------------- MODULE Queries -------------------------------
(***************************************************************************)
(* The queries of src/exec/queries: each is a reader of some columns of    *)
(* hits, with or without a skipper, and a chain of operators, all of them  *)
(* told their columns by name. Q23 and Q32 have two such plans, the first  *)
(* of which is drained while the second is made. Built finds the columns   *)
(* and follows their types, as the constructors of the streams do.         *)
(*                                                                         *)
(* The numbers that the queries are made with (a limit of 10, an offset of *)
(* 1000, more than 100000 rows) are constants here, and the keys that they *)
(* look for are small numbers; a day is its number in July 2013.           *)
(***************************************************************************)
EXTENDS Operators

CONSTANTS Ten, TwentyFive, Hundred, Thousand, TenThousand, HundredThousand,
          LastSum,      \* BOUND: 89, the last of Q29's sums
          NoSkipper     \* a plan whose reader is a SimpleCurseReader

TheUser    == 4     \* 435090932899640449
TheReferer == 3     \* 3594120000172545465
TheURL     == 2     \* 2868770270353813622

\* hits_schema.cpp: the columns that a query names, in their order, and their types.
kHitsSchema ==
    <<"WatchID", "Title", "EventTime", "EventDate", "CounterID", "ClientIP", "RegionID",
      "UserID", "URL", "Referer", "IsRefresh", "ResolutionWidth", "MobilePhone",
      "MobilePhoneModel", "TraficSourceID", "SearchEngineID", "SearchPhrase", "AdvEngineID",
      "WindowClientWidth", "WindowClientHeight", "IsLink", "IsDownload", "DontCountHits",
      "RefererHash", "URLHash">>

HitsType(c) ==
    CASE c \in {"WatchID", "UserID", "RefererHash", "URLHash"}                       -> "Int64"
      [] c \in {"CounterID", "ClientIP", "RegionID"}                                 -> "Int32"
      [] c \in {"Title", "URL", "Referer", "MobilePhoneModel", "SearchPhrase"}       -> "String"
      [] c = "EventTime"                                                             -> "Timestamp"
      [] c = "EventDate"                                                             -> "Date"
      [] OTHER                                                                       -> "Int16"

-----------------------------------------------------------------------------
(* The parts of a plan.                                                    *)

Filter(c)           == [op |-> "filter", name |-> c]
SelectOp(cs)        == [op |-> "select", names |-> cs]
Drop(cs)            == [op |-> "drop", names |-> cs]
Skip(k)             == [op |-> "skip", n |-> k]
Enumerate(c, from)  == [op |-> "enumerate", out |-> c, start |-> from]
Count(c)            == [op |-> "count", out |-> c]
Agg(tp, c, out)     == [tp |-> tp, name |-> c, out |-> out]
Aggregation(as)     == [op |-> "aggregation", aggs |-> as]
GroupByUpTo(ks, as, l) == [op |-> "groups", names |-> ks, aggs |-> as, limit |-> l]
GroupBy(ks, as)     == GroupByUpTo(ks, as, NoLimit)
By(c)               == [name |-> c, rev |-> FALSE]
Desc(c)             == [name |-> c, rev |-> TRUE]
Sort(ps, l)         == [op |-> "sort", params |-> ps, limit |-> l]
Transform(fs)       == [op |-> "transform", ops |-> fs]

\* f(column) and f(columns) AS out
On(f, c, out)       == [f |-> f, names |-> <<c>>, out |-> out]
OnAll(f, cs, out)   == [f |-> f, names |-> cs, out |-> out]

Constant(t, v)      == [fn |-> "constant", type |-> t, value |-> v]
Compare(how, t, v)  == [fn |-> "compare", how |-> how, type |-> t, value |-> v]
Search(p)           == [fn |-> "search", pattern |-> p]
Func(name)          == [fn |-> name]
Arith(name, t)      == [fn |-> name, type |-> t]
ContainedIn(ts)     == [fn |-> "contains", types |-> ts, data |-> <<>>]

Where(c, f)         == [kind |-> "transform", name |-> c, f |-> f]
Running(cs, ops)    == [kind |-> "operator", names |-> cs, ops |-> ops]

Simple(cs, ops)     == [cols |-> cs, skipper |-> NoSkipper, chain |-> ops]
Skipping(cs, sels, ops) == [cols |-> cs, skipper |-> sels, chain |-> ops]

-----------------------------------------------------------------------------
(* How the streams of a plan are made: names become positions, and every   *)
(* stream declares the columns it will give. A column of a schema has its  *)
(* name, the type that is declared and the type that it will have.         *)

Reading(cs) == [n \in DOMAIN cs |->
                   [name |-> cs[n], declared |-> HitsType(cs[n]), type |-> HitsType(cs[n])]]

IndexOf(schema, c)   == CHOOSE n \in DOMAIN schema : schema[n].name = c
IndicesOf(schema, cs) == [n \in DOMAIN cs |-> IndexOf(schema, cs[n])]
Types(schema, is)    == [n \in DOMAIN is |-> schema[is[n]].type]
Declared(schema, is) == [n \in DOMAIN is |-> schema[is[n]].declared]

NewColumn(c, t) == [name |-> c, declared |-> t, type |-> t]

\* Defect: a column that is added is looked for behind those of the stream.
AddOperation_FirstAdded(acc, o) ==
    LET is == [n \in DOMAIN o.names |-> Least(IndexOf(acc.schema, o.names[n]), acc.width + 1)]
        ts == Types(acc.schema, is)
        ds == Declared(acc.schema, is)
    IN  [acc EXCEPT !.ops    = Append(@, o.f @@ [cols |-> is]),
                    !.schema = Append(@, [name |-> o.out, declared |-> DeclaredType(o.f, ds),
                                          type |-> ActualType(o.f, ts)]),
                    !.fits   = @ /\ Fits(o.f, ts)]

\* One operation more: its columns are those of the stream, or of operations before.
AddOperation(acc, o) ==
    LET is == IndicesOf(acc.schema, o.names)
        ts == Types(acc.schema, is)
        ds == Declared(acc.schema, is)
    IN  [acc EXCEPT !.ops    = Append(@, o.f @@ [cols |-> is]),
                    !.schema = Append(@, [name |-> o.out, declared |-> DeclaredType(o.f, ds),
                                          type |-> ActualType(o.f, ts)]),
                    !.fits   = @ /\ Fits(o.f, ts)]

Operations(schema, os) ==
    FoldLeft(AddOperation, [width |-> Len(schema), ops |-> <<>>, schema |-> schema, fits |-> TRUE], os)

\* Aggregators are made for the type that is declared, and take the column by it.
AggsOf(schema, as) ==
    LET is == IndicesOf(schema, [a \in DOMAIN as |-> as[a].name])
        ds == Declared(schema, is)
    IN  [aggs   |-> [a \in DOMAIN as |-> [tp |-> as[a].tp, col |-> is[a]]],
         schema |-> [a \in DOMAIN as |-> NewColumn(as[a].out, ResultType(as[a].tp, ds[a]))],
         fits   |-> \A a \in DOMAIN as : Aggregates(as[a].tp, ds[a]) /\ Types(schema, is)[a] = ds[a]]

\* One operator over a stream with this schema, and the schema of its own stream.
StreamOf(o, schema) ==
    CASE o.op = "filter" ->
           LET c == IndexOf(schema, o.name)
           IN  [op     |-> [op |-> "filter", col |-> c,
                            fits |-> schema[c].declared \in Integral \cup {"String"}],
                schema |-> schema]
      [] o.op \in {"select", "drop"} ->
           LET is == IF o.op = "select" THEN IndicesOf(schema, o.names)
                     ELSE SelectSeq([n \in DOMAIN schema |-> n],
                                    LAMBDA n : schema[n].name \notin ToSet(o.names))
           IN  [op |-> [op |-> o.op, cols |-> is, fits |-> TRUE], schema |-> Part(schema, is)]
      [] o.op = "skip" ->
           [op |-> o @@ [fits |-> TRUE], schema |-> schema]
      [] o.op = "enumerate" ->
           [op |-> o @@ [fits |-> TRUE], schema |-> Append(schema, NewColumn(o.out, "Int64"))]
      [] o.op = "count" ->
           [op |-> o @@ [fits |-> TRUE], schema |-> <<NewColumn(o.out, "Int64")>>]
      [] o.op = "aggregation" ->
           LET as == AggsOf(schema, o.aggs)
           IN  [op |-> [op |-> o.op, aggs |-> as.aggs, fits |-> as.fits], schema |-> as.schema]
      [] o.op = "groups" ->
           LET is == IndicesOf(schema, o.names)
               as == AggsOf(schema, o.aggs)
           IN  [op     |-> [op |-> o.op, keys |-> is, aggs |-> as.aggs, limit |-> o.limit,
                            fits |-> as.fits /\ Types(schema, is) = Declared(schema, is)],
                schema |-> Part(schema, is) \o as.schema]
      [] o.op = "sort" ->
           [op |-> [op     |-> o.op, limit |-> o.limit, fits |-> TRUE,
                    params |-> [k \in DOMAIN o.params |->
                                   [col |-> IndexOf(schema, o.params[k].name), rev |-> o.params[k].rev]]],
            schema |-> schema]
      [] o.op = "transform" ->
           LET t == Operations(schema, o.ops)
           IN  [op |-> [op |-> o.op, ops |-> t.ops, fits |-> t.fits], schema |-> t.schema]

Chained(schema, os) ==
    FoldLeft(LAMBDA acc, o : LET m == StreamOf(o, acc.schema)
                             IN  [ops |-> Append(acc.ops, m.op), schema |-> m.schema],
             [ops |-> <<>>, schema |-> schema], os)

\* The column of row numbers that an OperatorSelector adds.
Marker == "_curse_ind"

Selecting(schema, s) ==
    IF s.kind = "transform"
    THEN LET c == IndexOf(schema, s.name)
         IN  [kind |-> s.kind, col |-> c, f |-> s.f,
              fits |-> Fits(s.f, <<schema[c].type>>) /\ ActualType(s.f, <<schema[c].type>>) = "Int8"]
    ELSE LET ch == Chained(Append(Reading(s.names), NewColumn(Marker, "Int64")), s.ops)
         IN  [kind |-> s.kind, cols |-> IndicesOf(schema, s.names), ops |-> ch.ops,
              marker |-> IndexOf(ch.schema, Marker),
              fits |-> /\ \A k \in DOMAIN ch.ops : ch.ops[k].fits
                       /\ \A n \in DOMAIN ch.schema : ch.schema[n].type = ch.schema[n].declared]

SelectorsOf(plan) ==
    IF plan.skipper = NoSkipper THEN <<>>
    ELSE [n \in DOMAIN plan.skipper |-> Selecting(Reading(plan.cols), plan.skipper[n])]

\* A SetContains operation is made with what it has drained.
WithData(data, o) ==
    IF o.op # "transform" THEN o
    ELSE [o EXCEPT !.ops = [n \in DOMAIN @ |-> IF @[n].fn = "contains" THEN [@[n] EXCEPT !.data = data]
                                               ELSE @[n]]]

Filled(data, ops) == [k \in DOMAIN ops |-> WithData(data, ops[k])]

FilledSelectors(data, sels) ==
    [n \in DOMAIN sels |-> IF sels[n].kind = "operator" THEN [sels[n] EXCEPT !.ops = Filled(data, @)]
                           ELSE sels[n]]

ChainOf(plan)   == Chained(Reading(plan.cols), plan.chain).ops
ColumnsOf(plan) == Chained(Reading(plan.cols), plan.chain).schema

-----------------------------------------------------------------------------
(* The queries, one after the other.                                       *)

Q0 == Simple(<<>>, <<Count("1")>>)

Q1 == Simple(<<"AdvEngineID">>,
             <<Filter("AdvEngineID"), Aggregation(<<Agg("Count", "AdvEngineID", "1")>>)>>)

Q2 == Simple(<<"AdvEngineID", "ResolutionWidth">>,
             <<Aggregation(<<Agg("Sum", "AdvEngineID", "1"), Agg("Count", "AdvEngineID", "2"),
                             Agg("Average", "ResolutionWidth", "3")>>)>>)

Q3 == Simple(<<"UserID">>, <<Aggregation(<<Agg("Average", "UserID", "1")>>)>>)

Q4 == Simple(<<"UserID">>, <<Aggregation(<<Agg("CountDistinct", "UserID", "1")>>)>>)

Q5 == Simple(<<"SearchPhrase">>, <<Aggregation(<<Agg("CountDistinct", "SearchPhrase", "1")>>)>>)

Q6 == Simple(<<"EventDate">>,
             <<Aggregation(<<Agg("Min", "EventDate", "1"), Agg("Max", "EventDate", "2")>>)>>)

Q7 == Simple(<<"AdvEngineID">>,
             <<Filter("AdvEngineID"),
               GroupBy(<<"AdvEngineID">>, <<Agg("Count", "AdvEngineID", "cnt")>>),
               Sort(<<Desc("cnt")>>, NoLimit)>>)

Q8 == Simple(<<"RegionID", "UserID">>,
             <<GroupBy(<<"RegionID">>, <<Agg("CountDistinct", "UserID", "u")>>),
               Sort(<<Desc("u")>>, Ten)>>)

Q9 == Simple(<<"RegionID", "AdvEngineID", "ResolutionWidth", "UserID">>,
             <<GroupBy(<<"RegionID">>,
                       <<Agg("Sum", "AdvEngineID", "sum_AdvEngineID"), Agg("Count", "RegionID", "c"),
                         Agg("Average", "ResolutionWidth", "avg_ResolutionWidth"),
                         Agg("CountDistinct", "UserID", "distinct_UserID")>>),
               Sort(<<Desc("c")>>, Ten)>>)

Q10 == Simple(<<"MobilePhoneModel", "UserID">>,
              <<Filter("MobilePhoneModel"),
                GroupBy(<<"MobilePhoneModel">>, <<Agg("CountDistinct", "UserID", "u")>>),
                Sort(<<Desc("u")>>, Ten)>>)

Q11 == Simple(<<"MobilePhone", "MobilePhoneModel", "UserID">>,
              <<Filter("MobilePhoneModel"),
                GroupBy(<<"MobilePhone", "MobilePhoneModel">>, <<Agg("CountDistinct", "UserID", "u")>>),
                Sort(<<Desc("u")>>, Ten)>>)

Q12 == Simple(<<"SearchPhrase">>,
              <<Filter("SearchPhrase"),
                GroupBy(<<"SearchPhrase">>, <<Agg("Count", "SearchPhrase", "c")>>),
                Sort(<<Desc("c")>>, Ten)>>)

Q13 == Simple(<<"SearchPhrase", "UserID">>,
              <<Filter("SearchPhrase"),
                GroupBy(<<"SearchPhrase">>, <<Agg("CountDistinct", "UserID", "u")>>),
                Sort(<<Desc("u")>>, Ten)>>)

Q14 == Simple(<<"SearchEngineID", "SearchPhrase">>,
              <<Filter("SearchPhrase"),
                GroupBy(<<"SearchEngineID", "SearchPhrase">>, <<Agg("Count", "SearchPhrase", "c")>>),
                Sort(<<Desc("c")>>, Ten)>>)

Q15 == Simple(<<"UserID">>,
              <<GroupBy(<<"UserID">>, <<Agg("Count", "UserID", "cnt")>>), Sort(<<Desc("cnt")>>, Ten)>>)

Q16 == Simple(<<"UserID", "SearchPhrase">>,
              <<GroupBy(<<"UserID", "SearchPhrase">>, <<Agg("Count", "UserID", "cnt")>>),
                Sort(<<Desc("cnt")>>, Ten)>>)

Q17 == Simple(<<"UserID", "SearchPhrase">>,
              <<GroupByUpTo(<<"UserID", "SearchPhrase">>, <<Agg("Count", "UserID", "cnt")>>, Ten)>>)

Q18 == Simple(<<"UserID", "EventTime", "SearchPhrase">>,
              <<Transform(<<On(Func("minute"), "EventTime", "m")>>),
                GroupBy(<<"UserID", "m", "SearchPhrase">>, <<Agg("Count", "UserID", "cnt")>>),
                Sort(<<Desc("cnt")>>, Ten)>>)

Q19 == Skipping(<<"UserID">>, <<Where("UserID", Compare("=", "Int64", TheUser))>>, <<>>)

Q20 == Simple(<<"URL">>,
              <<Transform(<<On(Search("google"), "URL", "match")>>), Drop(<<"URL">>), Filter("match"),
                Aggregation(<<Agg("Count", "match", "1")>>)>>)

Q21 == Simple(<<"SearchPhrase", "URL">>,
              <<Filter("SearchPhrase"), Transform(<<On(Search("google"), "URL", "google")>>),
                Filter("google"),
                GroupBy(<<"SearchPhrase">>, <<Agg("Min", "URL", "url"), Agg("Count", "URL", "c")>>),
                Sort(<<Desc("c")>>, Ten)>>)

Q22 == Simple(<<"Title", "URL", "SearchPhrase", "UserID">>,
              <<Filter("SearchPhrase"),
                Transform(<<On(Search("Google"), "Title", "title_match"),
                            On(Search(".google."), "URL", "url_google"),
                            On(Func("not"), "url_google", "url_ok"),
                            OnAll(Func("and"), <<"title_match", "url_ok">>, "keep")>>),
                Filter("keep"),
                GroupBy(<<"SearchPhrase">>, <<Agg("Min", "URL", "url"), Agg("Min", "Title", "title"),
                                              Agg("Count", "UserID", "c"),
                                              Agg("CountDistinct", "UserID", "u")>>),
                Sort(<<Desc("c")>>, Ten)>>)

pk == <<"CounterID", "EventDate", "UserID", "EventTime", "WatchID">>

Q23First ==
    Skipping(<<"URL">> \o pk, <<Where("URL", Search("google"))>>,
             <<Sort(<<By("EventTime")>>, Ten), SelectOp(pk)>>)

\* Defect: in the second pass the key alone decides.
Q23_KeyAlone ==
    Skipping(kHitsSchema,
             <<Running(pk, <<Transform(<<OnAll(ContainedIn([n \in DOMAIN pk |-> HitsType(pk[n])]),
                                               pk, "keep")>>), Filter("keep")>>)>>,
             <<Sort(<<By("EventTime")>>, Ten)>>)

Q23 ==
    Skipping(kHitsSchema,
             <<Running(pk, <<Transform(<<OnAll(ContainedIn([n \in DOMAIN pk |-> HitsType(pk[n])]),
                                               pk, "keep")>>), Filter("keep")>>),
               Where("URL", Search("google"))>>,
             <<Sort(<<By("EventTime")>>, Ten)>>)

Q24 == Simple(<<"SearchPhrase", "EventTime">>,
              <<Filter("SearchPhrase"), Sort(<<By("EventTime")>>, Ten)>>)

Q25 == Simple(<<"SearchPhrase">>, <<Filter("SearchPhrase"), Sort(<<By("SearchPhrase")>>, Ten)>>)

Q26 == Simple(<<"SearchPhrase", "EventTime">>,
              <<Filter("SearchPhrase"), Sort(<<By("EventTime"), By("SearchPhrase")>>, Ten)>>)

Having == Transform(<<On(Compare(">", "Int64", HundredThousand), "c", "keep")>>)

Q27 == Simple(<<"CounterID", "URL">>,
              <<Filter("URL"), Transform(<<On(Func("strlen"), "URL", "len")>>),
                GroupBy(<<"CounterID">>, <<Agg("Average", "len", "l"), Agg("Count", "CounterID", "c")>>),
                Having, Filter("keep"), Drop(<<"keep">>), Sort(<<Desc("l")>>, TwentyFive)>>)

Q28 == Simple(<<"Referer">>,
              <<Filter("Referer"),
                Transform(<<On(Func("replace"), "Referer", "k"), On(Func("strlen"), "Referer", "len")>>),
                GroupBy(<<"k">>, <<Agg("Average", "len", "l"), Agg("Count", "Referer", "c"),
                                   Agg("Min", "Referer", "r")>>),
                Having, Filter("keep"), SelectOp(<<"k", "l", "c", "r">>),
                Sort(<<Desc("l")>>, TwentyFive)>>)

C(i)   == <<"c", i>>
Mul(i) == <<"mul", i>>
SumN(i) == <<"sum", i>>

Q29 == Simple(<<"ResolutionWidth">>,
              <<Aggregation(<<Agg("Sum", "ResolutionWidth", SumN(0)),
                              Agg("Count", "ResolutionWidth", <<"cnt">>)>>),
                Transform(FlattenSeq([i \in 1..LastSum |->
                    <<On(Constant("Int64", i), <<"cnt">>, C(i)),
                      OnAll(Arith("mul", "Int64"), <<<<"cnt">>, C(i)>>, Mul(i)),
                      OnAll(Arith("add", "Int64"), <<SumN(0), Mul(i)>>, SumN(i))>>])),
                SelectOp([i \in 1..(LastSum + 1) |-> SumN(i - 1)])>>)

Counted(c) == <<Agg("Count", c, "c"), Agg("Sum", "IsRefresh", "r"), Agg("Average", "ResolutionWidth", "w")>>

Q30 == Simple(<<"SearchEngineID", "ClientIP", "IsRefresh", "ResolutionWidth", "SearchPhrase">>,
              <<Filter("SearchPhrase"), GroupBy(<<"SearchEngineID", "ClientIP">>, Counted("ClientIP")),
                Sort(<<Desc("c")>>, Ten)>>)

Q31 == Simple(<<"WatchID", "ClientIP", "IsRefresh", "ResolutionWidth", "SearchPhrase">>,
              <<Filter("SearchPhrase"), GroupBy(<<"WatchID", "ClientIP">>, Counted("WatchID")),
                Sort(<<Desc("c")>>, Ten)>>)

Q32First ==
    Simple(<<"WatchID", "ClientIP">>,
           <<GroupBy(<<"WatchID", "ClientIP">>, <<Agg("Count", "WatchID", "c")>>),
             Sort(<<Desc("c")>>, Ten), SelectOp(<<"WatchID", "ClientIP">>)>>)

Q32 ==
    Simple(<<"WatchID", "ClientIP", "IsRefresh", "ResolutionWidth">>,
           <<Transform(<<OnAll(ContainedIn(<<"Int64", "Int32">>), <<"WatchID", "ClientIP">>, "keep")>>),
             Filter("keep"), GroupBy(<<"WatchID", "ClientIP">>, Counted("WatchID")),
             Sort(<<Desc("c")>>, Ten)>>)

Q33 == Simple(<<"URL">>, <<GroupBy(<<"URL">>, <<Agg("Count", "URL", "c")>>), Sort(<<Desc("c")>>, Ten)>>)

Q34 == Simple(<<"URL">>,
              <<GroupBy(<<"URL">>, <<Agg("Count", "URL", "c")>>), Sort(<<Desc("c")>>, Ten),
                Transform(<<On(Constant("Int32", 1), "URL", "one")>>), SelectOp(<<"one", "URL", "c">>)>>)

Q35 == Simple(<<"ClientIP">>,
              <<GroupBy(<<"ClientIP">>, <<Agg("Count", "ClientIP", "c")>>), Sort(<<Desc("c")>>, Ten),
                Transform(<<On(Constant("Int32", 1), "ClientIP", "_1"),
                            On(Constant("Int32", 2), "ClientIP", "_2"),
                            On(Constant("Int32", 3), "ClientIP", "_3"),
                            OnAll(Arith("sub", "Int32"), <<"ClientIP", "_1">>, "ip1"),
                            OnAll(Arith("sub", "Int32"), <<"ClientIP", "_2">>, "ip2"),
                            OnAll(Arith("sub", "Int32"), <<"ClientIP", "_3">>, "ip3")>>),
                SelectOp(<<"ClientIP", "ip1", "ip2", "ip3", "c">>)>>)

\* CounterID = 62 AND EventDate between two days, as most queries from here on ask.
Counter62(from, to) ==
    <<Where("CounterID", Compare("=", "Int32", 62)), Where("EventDate", Compare(">=", "Date", from)),
      Where("EventDate", Compare("<=", "Date", to))>>

Is0(c)    == Where(c, Compare("=", "Int16", 0))
IsNot0(c) == Where(c, Compare("<>", "Int16", 0))

PageViews(ks) == GroupBy(ks, <<Agg("Count", ks[Len(ks)], "PageViews")>>)
MostViewed(l) == Sort(<<Desc("PageViews")>>, l)

Q36 == Skipping(<<"URL", "CounterID", "EventDate", "DontCountHits", "IsRefresh">>,
                Counter62(1, 31) \o <<Is0("DontCountHits"), Is0("IsRefresh"),
                                      Where("URL", Compare("<>", "String", 0))>>,
                <<PageViews(<<"URL">>), MostViewed(Ten)>>)

Q37 == Skipping(<<"Title", "CounterID", "EventDate", "DontCountHits", "IsRefresh">>,
                Counter62(1, 31) \o <<Is0("DontCountHits"), Is0("IsRefresh"),
                                      Where("Title", Compare("<>", "String", 0))>>,
                <<PageViews(<<"Title">>), MostViewed(Ten)>>)

Q38 == Skipping(<<"URL", "CounterID", "EventDate", "IsRefresh", "IsLink", "IsDownload">>,
                Counter62(1, 31) \o <<Is0("IsRefresh"), IsNot0("IsLink"), Is0("IsDownload")>>,
                <<PageViews(<<"URL">>), MostViewed(Thousand + Ten), Skip(Thousand), MostViewed(Ten)>>)

Q39 == Skipping(<<"TraficSourceID", "SearchEngineID", "AdvEngineID", "Referer", "URL", "CounterID",
                  "EventDate", "IsRefresh">>,
                Counter62(1, 31) \o <<Is0("IsRefresh")>>,
                <<Transform(<<On(Compare("=", "Int16", 0), "SearchEngineID", "se0"),
                              On(Compare("=", "Int16", 0), "AdvEngineID", "ae0"),
                              OnAll(Func("and"), <<"se0", "ae0">>, "src_cond"),
                              On(Constant("String", 0), "Referer", "empty"),
                              OnAll(Func("select"), <<"src_cond", "Referer", "empty">>, "Src")>>),
                  PageViews(<<"TraficSourceID", "SearchEngineID", "AdvEngineID", "Src", "URL">>),
                  MostViewed(Thousand + Ten), Skip(Thousand), MostViewed(Ten)>>)

Q40 == Skipping(<<"URLHash", "EventDate", "CounterID", "IsRefresh", "TraficSourceID", "RefererHash">>,
                <<Where("RefererHash", Compare("=", "Int64", TheReferer))>>
                    \o Counter62(1, 31) \o <<Is0("IsRefresh")>>,
                <<Transform(<<On(Compare("=", "Int16", -1), "TraficSourceID", "ts_neg1"),
                              On(Compare("=", "Int16", 6), "TraficSourceID", "ts_6"),
                              OnAll(Func("or"), <<"ts_neg1", "ts_6">>, "ts_ok")>>),
                  Filter("ts_ok"),
                  GroupBy(<<"URLHash", "EventDate">>, <<Agg("Count", "URLHash", "PageViews")>>),
                  MostViewed(Hundred + Ten), Skip(Hundred), MostViewed(Ten)>>)

Q41 == Skipping(<<"WindowClientWidth", "WindowClientHeight", "CounterID", "EventDate", "IsRefresh",
                  "DontCountHits", "URLHash">>,
                <<Where("URLHash", Compare("=", "Int64", TheURL))>>
                    \o Counter62(1, 31) \o <<Is0("IsRefresh"), Is0("DontCountHits")>>,
                <<GroupBy(<<"WindowClientWidth", "WindowClientHeight">>,
                          <<Agg("Count", "WindowClientWidth", "PageViews")>>),
                  MostViewed(TenThousand + Ten), Skip(TenThousand)>>)

Q42 == Skipping(<<"EventTime", "EventDate", "CounterID", "IsRefresh", "DontCountHits">>,
                Counter62(14, 15) \o <<Is0("IsRefresh"), Is0("DontCountHits")>>,
                <<Transform(<<On(Func("truncate"), "EventTime", "M")>>),
                  GroupBy(<<"M">>, <<Agg("Count", "EventTime", "PageViews")>>),
                  Sort(<<By("M")>>, Thousand + Ten), Skip(Thousand), Sort(<<By("M")>>, Ten)>>)
=============================================================================
