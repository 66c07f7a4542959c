------------------------------- MODULE HitsSql -------------------------------
(***************************************************************************)
(* The SELECTs that stand as comments above the queries of                 *)
(* src/exec/queries, over a table of hits: what they ask for, with no word *)
(* about streams, skippers or passes. A row of hits is a function from     *)
(* column names to values. LIMITs and other numbers are the constants of   *)
(* Queries. There are no nulls: a SUM of no rows is 0, an AVG of none NaN, *)
(* as in the program.                                                      *)
(*                                                                         *)
(* An answer is permitted if some order of the rows that agrees with the   *)
(* ORDER BY gives it; equal rows may come in any order and either side of  *)
(* a limit.                                                                *)
(***************************************************************************)
EXTENDS Queries

\* The rows or groups that are asked for, as tuples: the columns to show, which are
\* the first `shown`, and others to order by. The order is by columns of the tuples.
Asks(items, shown, order, offset, limit) ==
    [items |-> items, shown |-> shown, order |-> order, offset |-> offset, limit |-> limit]

Up(c)   == [col |-> c, rev |-> FALSE]
Down(c) == [col |-> c, rev |-> TRUE]

Rows(items)         == Asks(items, 99, <<>>, 0, NoLimit)
Top(items, c)       == Asks(items, 99, <<Down(c)>>, 0, Ten)

Kept(rows, P(_)) == SelectSeq(rows, P)
Values(rows, c)  == [j \in DOMAIN rows |-> rows[j][c]]
Of(tp, c, rows)  == Aggregated(tp, Values(rows, c))
Size(rows)       == Len(rows)

\* GROUP BY: Key makes the key of a row, Item the tuple of a key and its rows.
ByGroup(rows, Key(_), Item(_, _)) ==
    LET keys == SetToSeq({Key(rows[j]) : j \in DOMAIN rows})
    IN  [g \in DOMAIN keys |-> Item(keys[g], SelectSeq(rows, LAMBDA r : Key(r) = keys[g]))]

Columns(r, cs) == [n \in DOMAIN cs |-> r[cs[n]]]

\* SELECT cs, aggregate AS c ... GROUP BY cs ORDER BY c DESC LIMIT 10
Ranked(rows, cs, Figure(_)) ==
    Top(ByGroup(rows, LAMBDA r : Columns(r, cs), LAMBDA k, g : k \o <<Figure(g)>>), Len(cs) + 1)

\* The same with further aggregates behind it.
RankedWith(rows, cs, More(_)) ==
    Top(ByGroup(rows, LAMBDA r : Columns(r, cs), LAMBDA k, g : k \o <<Size(g)>> \o More(g)), Len(cs) + 1)

\* ... with an offset.
Paged(rows, cs, offset) == [Ranked(rows, cs, Size) EXCEPT !.offset = offset]

Users(g)  == Of("CountDistinct", "UserID", g)
Refreshes(g) == <<Of("Sum", "IsRefresh", g), Of("Average", "ResolutionWidth", g)>>

July(r) == r["CounterID"] = 62 /\ r["EventDate"] >= 1 /\ r["EventDate"] <= 31 /\ r["IsRefresh"] = 0

\* The plain SELECTs, without GROUP BY.
Flat(q, hits) ==
    CASE q = "Q0" -> Rows(<<<<Size(hits)>>>>)
      [] q = "Q1" -> Rows(<<<<Size(Kept(hits, LAMBDA r : r["AdvEngineID"] # 0))>>>>)
      [] q = "Q2" -> Rows(<<<<Of("Sum", "AdvEngineID", hits), Size(hits), Of("Average", "ResolutionWidth", hits)>>>>)
      [] q = "Q3" -> Rows(<<<<Of("Average", "UserID", hits)>>>>)
      [] q = "Q4" -> Rows(<<<<Users(hits)>>>>)
      [] q = "Q5" -> Rows(<<<<Of("CountDistinct", "SearchPhrase", hits)>>>>)
      [] q = "Q6" -> Rows(<<<<Of("Min", "EventDate", hits), Of("Max", "EventDate", hits)>>>>)
      [] q = "Q19" -> Rows([j \in DOMAIN Kept(hits, LAMBDA r : r["UserID"] = TheUser) |-> <<TheUser>>])
      [] q = "Q20" -> Rows(<<<<Size(Kept(hits, LAMBDA r : r["URL"] \in Like["google"]))>>>>)
      [] q = "Q23" ->
           LET found == Kept(hits, LAMBDA r : r["URL"] \in Like["google"])
           IN  Asks([j \in DOMAIN found |-> Columns(found[j], kHitsSchema)], 99,
                    <<Up(CHOOSE n \in DOMAIN kHitsSchema : kHitsSchema[n] = "EventTime")>>, 0, Ten)
      [] q \in {"Q24", "Q25", "Q26"} ->
           LET found == Kept(hits, LAMBDA r : r["SearchPhrase"] # 0)
           IN  Asks([j \in DOMAIN found |->
                        <<found[j]["SearchPhrase"]>> \o
                        (IF q = "Q25" THEN <<>> ELSE <<found[j]["EventTime"]>>)], 1,
                    CASE q = "Q24" -> <<Up(2)>> [] q = "Q25" -> <<Up(1)>> [] q = "Q26" -> <<Up(2), Up(1)>>,
                    0, Ten)
      [] q = "Q29" ->
           Rows(<<[n \in 1..(LastSum + 1) |->
                      Total([j \in DOMAIN hits |-> hits[j]["ResolutionWidth"] + n - 1])]>>)

\* Those with GROUP BY.
Grouped(q, hits) ==
    LET Phrases  == Kept(hits, LAMBDA r : r["SearchPhrase"] # 0)
        Phones   == Kept(hits, LAMBDA r : r["MobilePhoneModel"] # 0)
        Visits   == Kept(hits, July)
        Engines  == Kept(hits, LAMBDA r : r["AdvEngineID"] # 0)
    IN
    CASE q = "Q7" -> [Ranked(Engines, <<"AdvEngineID">>, Size) EXCEPT !.limit = NoLimit]
      [] q = "Q8" -> Ranked(hits, <<"RegionID">>, Users)
      [] q = "Q9" ->
           Top(ByGroup(hits, LAMBDA r : r["RegionID"],
                       LAMBDA k, g : <<k, Of("Sum", "AdvEngineID", g), Size(g),
                                       Of("Average", "ResolutionWidth", g), Users(g)>>), 3)
      [] q = "Q10" -> Ranked(Phones, <<"MobilePhoneModel">>, Users)
      [] q = "Q11" -> Ranked(Phones, <<"MobilePhone", "MobilePhoneModel">>, Users)
      [] q = "Q12" -> Ranked(Phrases, <<"SearchPhrase">>, Size)
      [] q = "Q13" -> Ranked(Phrases, <<"SearchPhrase">>, Users)
      [] q = "Q14" -> Ranked(Phrases, <<"SearchEngineID", "SearchPhrase">>, Size)
      [] q = "Q15" -> Ranked(hits, <<"UserID">>, Size)
      [] q = "Q16" -> Ranked(hits, <<"UserID", "SearchPhrase">>, Size)
      [] q = "Q17" -> [Ranked(hits, <<"UserID", "SearchPhrase">>, Size) EXCEPT !.order = <<>>]
      [] q = "Q18" ->
           Top(ByGroup(hits, LAMBDA r : <<r["UserID"], (r["EventTime"] \div 2) % 60, r["SearchPhrase"]>>,
                       LAMBDA k, g : k \o <<Size(g)>>), 4)
      [] q = "Q21" ->
           Top(ByGroup(Kept(Phrases, LAMBDA r : r["URL"] \in Like["google"]), LAMBDA r : r["SearchPhrase"],
                       LAMBDA k, g : <<k, Of("Min", "URL", g), Size(g)>>), 3)
      [] q = "Q22" ->
           Top(ByGroup(Kept(Phrases, LAMBDA r : r["Title"] \in Like["Google"] /\ r["URL"] \notin Like[".google."]),
                       LAMBDA r : r["SearchPhrase"],
                       LAMBDA k, g : <<k, Of("Min", "URL", g), Of("Min", "Title", g), Size(g), Users(g)>>), 4)
      [] q = "Q27" ->
           LET groups == ByGroup(Kept(hits, LAMBDA r : r["URL"] # 0), LAMBDA r : r["CounterID"],
                                 LAMBDA k, g : <<k, Of("Average", "URL", g), Size(g)>>)
           IN  Asks(SelectSeq(groups, LAMBDA t : t[3] > HundredThousand), 99, <<Down(2)>>, 0, TwentyFive)
      [] q = "Q28" ->
           LET groups == ByGroup(Kept(hits, LAMBDA r : r["Referer"] # 0), LAMBDA r : Host[r["Referer"]],
                                 LAMBDA k, g : <<k, Of("Average", "Referer", g), Size(g), Of("Min", "Referer", g)>>)
           IN  Asks(SelectSeq(groups, LAMBDA t : t[3] > HundredThousand), 99, <<Down(2)>>, 0, TwentyFive)
      [] q = "Q30" -> RankedWith(Phrases, <<"SearchEngineID", "ClientIP">>, Refreshes)
      [] q = "Q31" -> RankedWith(Phrases, <<"WatchID", "ClientIP">>, Refreshes)
      [] q = "Q32" -> RankedWith(hits, <<"WatchID", "ClientIP">>, Refreshes)
      [] q = "Q33" -> Ranked(hits, <<"URL">>, Size)
      [] q = "Q34" -> Top(ByGroup(hits, LAMBDA r : r["URL"], LAMBDA k, g : <<1, k, Size(g)>>), 3)
      [] q = "Q35" -> Top(ByGroup(hits, LAMBDA r : r["ClientIP"],
                                  LAMBDA k, g : <<k, k - 1, k - 2, k - 3, Size(g)>>), 5)
      [] q = "Q36" -> Ranked(Kept(Visits, LAMBDA r : r["DontCountHits"] = 0 /\ r["URL"] # 0), <<"URL">>, Size)
      [] q = "Q37" -> Ranked(Kept(Visits, LAMBDA r : r["DontCountHits"] = 0 /\ r["Title"] # 0), <<"Title">>, Size)
      [] q = "Q38" -> Paged(Kept(Visits, LAMBDA r : r["IsLink"] # 0 /\ r["IsDownload"] = 0), <<"URL">>, Thousand)
      [] q = "Q39" ->
           LET Src(r) == IF r["SearchEngineID"] = 0 /\ r["AdvEngineID"] = 0 THEN r["Referer"] ELSE 0
           IN  [Top(ByGroup(Visits, LAMBDA r : <<r["TraficSourceID"], r["SearchEngineID"], r["AdvEngineID"],
                                                 Src(r), r["URL"]>>,
                            LAMBDA k, g : k \o <<Size(g)>>), 6) EXCEPT !.offset = Thousand]
      [] q = "Q40" -> Paged(Kept(Visits, LAMBDA r : r["TraficSourceID"] \in {-1, 6}
                                                    /\ r["RefererHash"] = TheReferer),
                            <<"URLHash", "EventDate">>, Hundred)
      [] q = "Q41" -> Paged(Kept(Visits, LAMBDA r : r["DontCountHits"] = 0 /\ r["URLHash"] = TheURL),
                            <<"WindowClientWidth", "WindowClientHeight">>, TenThousand)
      [] q = "Q42" ->
           Asks(ByGroup(Kept(Visits, LAMBDA r : r["EventDate"] \in {14, 15} /\ r["DontCountHits"] = 0),
                        LAMBDA r : 2 * (r["EventTime"] \div 2), LAMBDA k, g : <<k, Size(g)>>),
                99, <<Up(1)>>, Thousand, Ten)

FlatQueries == {"Q0", "Q1", "Q2", "Q3", "Q4", "Q5", "Q6", "Q19", "Q20", "Q23", "Q24", "Q25", "Q26", "Q29"}

Select(q, hits) == IF q \in FlatQueries THEN Flat(q, hits) ELSE Grouped(q, hits)

-----------------------------------------------------------------------------
\* Tuple s may stand before tuple t.
MayPrecede(order, s, t) ==
    \/ \A k \in DOMAIN order : s[order[k].col] = t[order[k].col]
    \/ \E k \in DOMAIN order :
         /\ \A m \in 1..(k - 1) : s[order[m].col] = t[order[m].col]
         /\ IF order[k].rev THEN s[order[k].col] > t[order[k].col] ELSE s[order[k].col] < t[order[k].col]

Orders(n) == {p \in [1..n -> 1..n] : \A i, j \in 1..n : p[i] = p[j] => i = j}

Shown(a, t) == SubSeq(t, 1, Least(a.shown, Len(t)))

\* The rows may be the answer, as far as the columns go that SELECT names.
Permitted(a, answer) ==
    \E p \in Orders(Len(a.items)) :
        LET s    == [n \in DOMAIN a.items |-> a.items[p[n]]]
            page == Cut(a.limit, SubSeq(s, a.offset + 1, Len(s)))
        IN  /\ \A m, n \in DOMAIN s : m < n => MayPrecede(a.order, s[m], s[n])
            /\ Len(answer) = Len(page)
            /\ \A n \in DOMAIN page : Shown(a, answer[n]) = Shown(a, page[n])
=============================================================================
