------------------------------- MODULE MCQuery -------------------------------
EXTENDS Query, TLC

\* Texts: '' is 0, 1 matches nothing, 2 and 3 are of google; referers 2 and 3 have the
\* host 1.
MCLike == [p \in {"google", ".google.", "Google"} |-> IF p = ".google." THEN {3} ELSE {2, 3}]
MCHost == [v \in 0..3 |-> IF v = 0 THEN 0 ELSE 1 + v \div 4]

\* The first value of a column is that of a row which most queries want.
MCValues(c) ==
    CASE c = "CounterID"          -> <<62, 61>>
      [] c = "EventDate"          -> <<14, 1, 15, 31, 32>>
      [] c = "EventTime"          -> <<2, 3, 122, 4>>
      [] c \in {"IsRefresh", "DontCountHits", "IsDownload"} -> <<0, 1>>
      [] c \in {"Title", "URL"}   -> <<2, 0, 3, 1>>
      [] c = "Referer"            -> <<2, 0, 3>>
      [] c = "UserID"             -> <<TheUser, 1>>
      [] c = "TraficSourceID"     -> <<6, -1, 1>>
      [] c = "SearchPhrase"       -> <<1, 0, 2>>
      [] c \in {"SearchEngineID", "AdvEngineID"}     -> <<0, 1, 2>>
      [] c \in {"MobilePhoneModel", "IsLink"}        -> <<1, 0>>
      [] c = "RefererHash"        -> <<TheReferer, 1>>
      [] c = "URLHash"            -> <<TheURL, 1>>
      [] OTHER                    -> <<1, 2>>

Base == [c \in ToSet(kHitsSchema) |-> MCValues(c)[1]]

\* The columns in which the rows for a query differ: for most, all that it reads.
Varied(q) == IF q = "Q23" THEN {"URL", "EventTime", "WatchID", "UserID"} ELSE ToSet(FirstPlan(q).cols)

\* Rows that differ from Base in one of them at most.
RowsFor(q) ==
    {[Base EXCEPT ![x[1]] = x[2]] :
        x \in {y \in Varied(q) \X (-1..122) : y[2] \in ToSet(MCValues(y[1]))}}

MCOthers ==
    [none     |-> Simple(<<"URL">>, <<>>),
     skip     |-> Simple(<<"URL">>, <<Skip(2)>>),
     numbers  |-> Simple(<<"URL">>, <<Skip(1), Enumerate("n", -1), Skip(1), Enumerate("m", 0)>>),
     counts   |-> Simple(<<"URL">>, <<Filter("URL"), Count("c"), Enumerate("n", 0), Count("d")>>),
     all      |-> Skipping(<<"URL", "UserID">>, <<>>, <<Enumerate("n", 0)>>),
     largest  |-> Skipping(<<"URL", "UserID">>,
                           <<Where("URL", Compare("<>", "String", 2)),
                             Running(<<"URL">>, <<Sort(<<Desc("URL")>>, 1)>>)>>, <<>>),
     length   |-> Simple(<<"UserID">>, <<Transform(<<On(Func("strlen"), "UserID", "l")>>)>>),
     compared |-> Skipping(<<"URL">>, <<Where("URL", Compare("=", "Int64", 2))>>, <<>>)]

AllQueries == FlatQueries \cup
    {"Q7", "Q8", "Q9", "Q10", "Q11", "Q12", "Q13", "Q14", "Q15", "Q16", "Q17", "Q18", "Q21", "Q22",
     "Q27", "Q28", "Q30", "Q31", "Q32", "Q33", "Q34", "Q35", "Q36", "Q37", "Q38", "Q39", "Q40",
     "Q41", "Q42"}

MCNames  == AllQueries \cup DOMAIN MCOthers
MCRowsOf == [q \in MCNames |-> {Base} \cup RowsFor(q)]

\* Three rows where a file is made of few different ones, or a query reads it twice.
MCMaxRows ==
    [q \in MCNames |-> IF q \in TwoPass \/ Cardinality(MCRowsOf[q]) <= 4 THEN 3 ELSE 2]
=============================================================================
