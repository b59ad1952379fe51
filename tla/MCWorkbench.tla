----------------------------- MODULE MCWorkbench -----------------------------
(* The workbench beside the chat: the services of SharedServices and the     *)
(* work of RequestedWork, with values for their constants.  As in each of    *)
(* them, one half runs and the other stays as it began.                      *)
EXTENDS SharedServices, RequestedWork, TLC

VARIABLE half       \* the half that runs

-----------------------------------------------------------------------------
LimitValue == [seller_sprite |-> 1, lingxing |-> 2]
AllowedValue == [seller_sprite |-> {"traffic_keyword"}, lingxing |-> {"action"}]
JobsValue == {<<"shops", "report">>, <<"budget">>}

\* A text is given by its words, and a word by its letters.
Sequence == INSTANCE SequencesExt
Chars(ws) == Sequence!FlattenSeq([i \in DOMAIN ws |-> [k \in DOMAIN ws[i] |-> [letter |-> ws[i][k], first |-> k = 1]]])
Spelt(word) == Chars(<<word>>)
PQ == <<"p", "q">>
QR == <<"q", "r">>
RS == <<"r", "s">>
UV == <<"u", "v">>
TermsValue == {PQ, QR, RS, UV}
Heading(w) == [heading |-> TRUE, text |-> Spelt(w)]
Line(ws) == [heading |-> FALSE, text |-> Chars(ws)]
Member(path, tags, kind, body) ==
    [path |-> Spelt(path), about |-> {Spelt(path)} \cup {Spelt(w) : w \in tags}, kind |-> kind, body |-> body]
ZipsValue == {
    <<Member(<<"a">>, {UV}, "note", <<Line(<<PQ, RS>>), Heading(<<"h">>), Line(<<RS>>), Line(<<PQ>>)>>),
      Member(<<"x">>, {}, "hidden", <<>>),
      Member(<<"b">>, {}, "note", <<Heading(RS), Line(<<PQ>>), Heading(<<"h">>), Line(<<<<"s">>>>)>>)>>,
    <<Member(<<"a">>, {}, "note", <<>>), Member(<<"a">>, {}, "directory", <<>>)>>,
    <<Member(<<"a">>, {}, "note", <<Line(<<PQ>>)>>), Member(<<"a">>, {}, "note", <<>>)>>,
    <<Member(<<"a">>, {}, "note", <<Heading(<<"h">>)>>), Member(<<"b">>, {}, "encrypted", <<>>)>>,
    <<Member(PQ, {UV}, "note", <<Line(<<RS>>)>>)>> }

Line6(kind, campaign, group, term, match, asin) ==
    [kind |-> kind, campaign |-> campaign, group |-> group, keyword |-> "", target |-> asin, term |-> term,
     match |-> match, bought |-> asin, placement |-> asin, asin |-> asin, sku |-> term]
File(given, headers, lines) == [given |-> given, headers |-> headers, rows |-> lines]
FilesValue == {
    File("none", {"term", "targeting", "sku"},
         <<Line6("ok", "c", "g", "t", "e", "x"), Line6("ok", "c", "g", "t", "b", "x"), Line6("blank", "", "", "", "", "")>>),
    File("none", {"term", "targeting", "sku"}, <<Line6("ok", "c", "g", "t", "b", "x"), Line6("ok", "c", "g", "t", "e", "x")>>),
    File("none", {"term", "targeting"}, <<Line6("ok", "c", "g", "t", "e", "x"), Line6("number", "c", "g", "t", "b", "x")>>),
    File("none", {"sku", "asin"}, <<Line6("ok", "c", "g", "t", "e", "x"), Line6("ok", "c", "g", "u", "e", "x")>>),
    File("ad_group", {"template"}, <<Line6("ok", "c", "", "t", "e", "x")>>),
    File("none", {"template"}, <<Line6("ok", "c", "g", "t", "e", "x")>>) }

-----------------------------------------------------------------------------
Task(own, rivals, seeds, type, name) ==
    [facts |-> TRUE, current |-> own, competitors |-> rivals, seeds |-> seeds, type |-> type, name |-> name]
TasksValue == {
    Task(<<"A">>, <<>>, <<"s">>, "s", "n"), Task(<<>>, <<>>, <<"s", "s">>, "s", "n"), Task(<<>>, <<"A", "B", "C">>, <<>>, "t", "t"),
    Task(<<>>, <<>>, <<>>, "t", "n"), [Task(<<"A">>, <<>>, <<>>, "t", "n") EXCEPT !.facts = FALSE] }
Found(word, relevance) == [word |-> word, relevance |-> relevance]
RepliesValue == {<<Found("a", 700), Found("b", 0)>>, <<Found("b", 695), Found("c", 900), Found("d", 790)>>}
Draft(words, claim, long) == [words |-> words, claim |-> claim, long |-> long]
DraftsValue == {
    Draft({"a", "b", "c"}, FALSE, FALSE), Draft({"a", "d"}, FALSE, FALSE), Draft({"a", "b", "c"}, TRUE, FALSE), Draft({"b"}, FALSE, FALSE)}
TiersValue == <<1, 1, 1>>

Shipped(o, speed, trade) == [order |-> o, speed |-> speed, trade |-> trade]
ShippingValue == {
    Shipped("A", "slow", "0110"), Shipped("B", "slow", "0110"), Shipped("B", "slow", "9810"), Shipped("", "slow", "0110"),
    Shipped("B", "invalid", "0110")}
Packed(o, boxes, weight) == [order |-> o, boxes |-> boxes, weight |-> weight]
PackingValue == {Packed("A", 1, 7), Packed("B", 3, 5), Packed("", 0, 0), Packed("B", 0, 2)}
Detailed(o, product, quantity) == [order |-> o, product |-> product, quantity |-> quantity]
InvoiceValue == {Detailed("A", "p", 1), Detailed("", "q", 2), Detailed("B", "r", 1), Detailed("", "", 1), Detailed("A", "unknown", 1)}
MaxSheetsValue == [shipping |-> 2, packing |-> 2, details |-> 3]
RulesValue == <<"p", "q", "r">>
WeightsValue == [p |-> 2, q |-> 1, r |-> 2]
TradeValue == ("0110" :> 3) @@ ("9810" :> 1)

Row(fba, channel, prefix, boxes, gross, product, price, quantity, weight) ==
    [fba |-> fba, channel |-> channel, prefix |-> prefix, country |-> IF fba = "" THEN "" ELSE "de", boxes |-> boxes, gross |-> gross,
     product |-> product, price |-> price, quantity |-> quantity, weight |-> weight]
RowsValue == {
    Row("F1", "sea", "hf", 2, 7, "p", 1, 1, 1), Row("F2", "sea", "hf", 1, 5, "", 0, 0, 0), Row("F3", "sea", "o", 1, 5, "q", 1, 1, 1),
    Row("F4", "", "hf", 1, 5, "p", 1, 1, 1), Row("", "", "", 0, 0, "p", 2, 2, 1), Row("", "", "", 0, 0, "q", 1, 1, 2),
    Row("", "", "", 0, 0, "unknown", 1, 1, 1), Row("", "", "", 0, 0, "", 0, 0, 0), Row("", "", "", 0, 0, "p", 1, 1, 1)}
PrefixValue == ("hf" :> 3) @@ ("o" :> 2)

Sold(campaign, product) == [campaign |-> campaign, product |-> product]
TablesValue ==
    {[sp |-> a, sb |-> b, details |-> a, products |-> d] :
        a \in {<<Sold(1, "x"), Sold(2, "x"), Sold(1, "x")>>, <<Sold(1, "x"), Sold(2, "y")>>},
        b \in {<<>>, <<Sold(3, "x")>>},
        d \in {<<>>, <<Sold(1, "x"), Sold(2, "y"), Sold(3, "x")>>}}
AsksValue == [report : {"campaign", "detail"}, campaigns : {{}, {1}, {2, 3}}, products : {{}, {"x"}, {"z"}}]

Numbers(impressions, clicks, spend, sales, orders) ==
    [impressions |-> impressions, clicks |-> clicks, spend |-> spend, sales |-> sales, orders |-> orders]
SnapshotsValue == {Numbers(8, 2, 2, 8, 2), Numbers(5, 2, 2, 8, 2), Numbers(8, 1, 4, 0, 0)}
Steady == [cpc |-> 100, cvr |-> 100, bid |-> 100]
Reported(id, campaign, tool, object, spend, sales, orders, budget) ==
    [id |-> id, campaign |-> campaign, tool |-> tool, object |-> object, spend |-> spend, sales |-> sales, orders |-> orders,
     budget |-> budget, now |-> Steady]
Searched(id) == Reported(id, 2, "search", "x", 3, 0, 0, 0)
Keyword(id, object) == Reported(id, 1, "keyword", object, id, 2, 1, 0)
Group(id, object) == Reported(id, 1, "group", object, 4, 2, 1, 4)
Compared(id, object, cpc, cvr, bid) ==
    [Reported(id, 1, "compared", object, 0, 0, 0, 0) EXCEPT !.now = [cpc |-> cpc, cvr |-> cvr, bid |-> bid]]
DetailsValue == {
    {}, {Keyword(2, "x"), Keyword(3, "y"), Searched(4)},
    {Group(1, "x"), Group(2, "y"), Group(3, "unnamed"), Group(4, "unnamed")},
    {Compared(1, "x", 120, 70, 100), Compared(2, "y", 100, 50, 110)}}

-----------------------------------------------------------------------------
InitWorkbench ==
    /\ half \in {"services", "work"}
    /\ InitServices /\ InitWork
    /\ half # "services" => part = "provider"
    /\ half # "work" => work = "advice"

NextWorkbench ==
    /\ UNCHANGED half
    /\ half # "services" => UNCHANGED servicesVars
    /\ half # "work" => UNCHANGED workVars
    /\ \/ half = "services" /\ NextServices
       \/ half = "work" /\ NextWork

Workbench == InitWorkbench /\ [][NextWorkbench]_<<half, servicesVars, workVars>>
=============================================================================
