------------------------------- MODULE OpenReports -------------------------------
(***************************************************************************)
(* Reports of the Open API: every query is read page by page, a day and a  *)
(* kind of campaign at a time, and cut down to the campaigns asked for or  *)
(* found through the products asked for (advertising/gateway.py,           *)
(* LingxingOpenAPIAdvertisingGateway).                                     *)
(*                                                                         *)
(* A row is a campaign and a product.  The service may gain a row between  *)
(* two pages.                                                              *)
(***************************************************************************)
EXTENDS Selections, FiniteSetsExt

CONSTANTS
    Tables,         \* the rows of each query: campaign and detail rows, then product rows
    Requests,       \* [report, campaigns, products]
    PageLength      \* length: 200 in the code

VARIABLES
    table,          \* query -> the service's rows
    request,
    todo,           \* queries left: _CAMPAIGN_ENDPOINTS or a detail endpoint, then _PRODUCT_AD_ENDPOINTS
    offset,
    rows,           \* rows read by the queries of the report
    scoped,         \* campaigns of the products
    report,         \* what is returned, or NoReport
    exact           \* history: no row came between, and each page told the total

vars == <<table, request, todo, offset, rows, scoped, report, exact>>

NoReport == <<[campaign |-> 0, product |-> "none"]>>
Products == "products"

(* Products are resolved for a campaign report only, and only when some are  *)
(* asked for.                                                                *)
Queries(r) ==
    IF r.report = "detail" THEN <<"details">> ELSE IF r.products = {} THEN <<"sp", "sb">> ELSE <<"sp", "sb", Products>>
Init ==
    /\ table \in Tables /\ request \in Requests
    /\ todo = Queries(request) /\ offset = 0 /\ rows = <<>> /\ scoped = {} /\ report = NoReport /\ exact = TRUE

Arrive ==
    /\ todo # <<>> /\ exact     \* bound: one row
    /\ \E q \in DOMAIN table, row \in UNION {Range(table[p]) : p \in DOMAIN table} :
          table' = [table EXCEPT ![q] = <<row>> \o @]
    /\ exact' = FALSE
    /\ UNCHANGED <<request, todo, offset, rows, scoped, report>>

(* A response that does not tell the total is taken for the last page.       *)
Page(q) == SubSeq(table[q], offset + 1, Min({offset + PageLength, Len(table[q])}))
Ended(page, total) == page = <<>> \/ offset + Len(page) >= total
OfProducts(page) == {page[i].campaign : i \in {i \in DOMAIN page : page[i].product \in request.products}}

ReadPage ==
    /\ todo # <<>>
    /\ LET q == Head(todo)  page == Page(q) IN
       \E total \in {Len(table[q]), Len(page)} :
          /\ exact' = (exact /\ total = Len(table[q]))
          /\ IF Ended(page, total) THEN offset' = 0 /\ todo' = Tail(todo)
             ELSE offset' = offset + Len(page) /\ UNCHANGED todo
          /\ IF q = Products THEN scoped' = scoped \cup OfProducts(page) /\ UNCHANGED rows
             ELSE rows' = rows \o page /\ UNCHANGED scoped
    /\ UNCHANGED <<table, request, report>>

(* Campaigns and products narrow each other; products without a campaign     *)
(* leave nothing, and a detail report is always cut to its campaigns.        *)
Wanted ==
    IF request.report = "detail" \/ request.products = {} THEN request.campaigns
    ELSE IF request.campaigns = {} THEN scoped ELSE request.campaigns \cap scoped
NarrowedWhenAny == request.report = "detail" \/ Wanted # {}     \* mutated form of Narrowed
Narrowed == request.report = "detail" \/ request.campaigns # {} \/ request.products # {}
Return ==
    /\ todo = <<>> /\ report = NoReport
    /\ report' = Within(rows, {row \in Range(rows) : Narrowed => row.campaign \in Wanted})
    /\ UNCHANGED <<table, request, todo, offset, rows, scoped, exact>>

(* A failed response fails the report; there is no other source.             *)
Fail ==
    /\ todo # <<>> /\ todo' = <<>> /\ report' = <<>> /\ exact' = FALSE
    /\ UNCHANGED <<table, request, offset, rows, scoped>>

Next == Arrive \/ ReadPage \/ Return \/ Fail

Spec == Init /\ [][Next]_vars

-----------------------------------------------------------------------------
(* A report is every row of the service, once, that is about a campaign      *)
(* asked for and a product asked for, as long as the service answers whole   *)
(* pages of rows that stand still; and never a row that was not asked for.   *)
CampaignsOf(products) == {row.campaign : row \in {row \in Range(table[Products]) : row.product \in products}}
Asked(row) ==
    /\ request.campaigns # {} \/ request.report = "detail" => row.campaign \in request.campaigns
    /\ request.products # {} /\ request.report # "detail" => row.campaign \in CampaignsOf(request.products)
Service == IF request.report = "detail" THEN table["details"] ELSE table["sp"] \o table["sb"]
ReportScoped ==
    report # NoReport =>
        /\ \A i \in DOMAIN report : Asked(report[i])
        /\ exact => report = Within(Service, {row \in Range(Service) : Asked(row)})
=============================================================================
