----------------------------- MODULE RequestedWork -----------------------------
(***************************************************************************)
(* What is worked off for one request: the advice of a diagnosis, the      *)
(* reports it reads of the open platform, a declaration for the United     *)
(* States and one for Europe.                                              *)
(*                                                                         *)
(* No one of them calls another or reads what another keeps, so their      *)
(* steps commute and a behaviour of all is an interleaving of behaviours   *)
(* of each.  It is therefore enough to let one of them run: work is chosen *)
(* first and the others stay in their initial state.                       *)
(***************************************************************************)
EXTENDS Integers, Sequences, FiniteSets

VARIABLE work       \* what is worked off

-----------------------------------------------------------------------------
(* Advertising: the advice, and the reports of the open platform.            *)

CONSTANTS Campaigns, Snapshots, Details, Relative, TargetAcos, MinCtr, MaxAnomalies, MaxReasoned, MaxNamed, MaxCited, MaxDecisions

\* What is read is a finite table with an id for each row; the target is above 0.
ASSUME DetailsAssumption ==
    /\ \A D \in Details :
          /\ IsFiniteSet(D) /\ \A a, b \in D : a.id = b.id => a = b
          /\ \A r \in D : r.id \in Nat /\ r.spend \in Nat /\ r.sales \in Nat /\ r.budget \in Nat
    /\ TargetAcos \in Nat \ {0}

VARIABLES advice, anomalies, findings, causes, narrated, decided, proposals, todos, rejected
adviceVars == <<advice, anomalies, findings, causes, narrated, decided, proposals, todos, rejected>>
Advice == INSTANCE AdvertisingAdvice

CONSTANTS Tables, Asks, PageLength

\* A row is a campaign and a product; a page holds a row at least.
SoldRow == [campaign : Nat, product : STRING]
ASSUME TablesAssumption ==
    /\ Tables \subseteq [{"sp", "sb", "details", "products"} -> Seq(SoldRow)]
    /\ PageLength \in Nat \ {0}

VARIABLES served, request, todo, offset, rows, scoped, returned, exact
openVars == <<served, request, todo, offset, rows, scoped, returned, exact>>
Open == INSTANCE OpenReports WITH Requests <- Asks, table <- served, report <- returned

-----------------------------------------------------------------------------
(* Customs: the declarations for the United States and for Europe.           *)

CONSTANTS ShippingRows, PackingRows, InvoiceRows, MaxSheets, Rules, UnitWeight, TradeCapacity

\* A rule is listed once and has a weight, 0 when it is not known; numbers that
\* are missing or not positive are 0.
ShippingRow == [order : STRING, speed : STRING, trade : STRING]
PackingRow == [order : STRING, boxes : Nat, weight : Nat]
InvoiceRow == [order : STRING, product : STRING, quantity : Nat]
ASSUME CustomsAssumption ==
    /\ ShippingRows \subseteq ShippingRow /\ PackingRows \subseteq PackingRow /\ InvoiceRows \subseteq InvoiceRow
    /\ Rules \in Seq(STRING) /\ \A k, l \in DOMAIN Rules : Rules[k] = Rules[l] => k = l
    /\ \A k \in DOMAIN Rules : UnitWeight[Rules[k]] \in Nat

VARIABLES sheet, sheetRows, assignments, order, shipped, packed, detailed, shipments, quantities, mistakes, results
customsVars == <<sheet, sheetRows, assignments, order, shipped, packed, detailed, shipments, quantities, mistakes, results>>
Customs == INSTANCE CustomsDeclaration WITH
    DetailRows <- InvoiceRows, MaxRows <- MaxSheets, Capacity <- TradeCapacity,
    rows <- sheetRows, current <- order, seen <- shipped, errors <- mistakes

CONSTANTS EuropeanRows, MaxSheet, PrefixCapacity

\* Names are strings and numbers natural; what is missing is "" or 0.
EuropeanRow ==
    [fba : STRING, channel : STRING, prefix : STRING, country : STRING, boxes : Nat, gross : Nat,
     product : STRING, price : Nat, quantity : Nat, weight : Nat]
ASSUME EuropeanAssumption == EuropeanRows \subseteq EuropeanRow

VARIABLES reading, read, opened, current, errors, files
europeanVars == <<reading, read, opened, current, errors, files>>
European == INSTANCE EuropeanDeclaration WITH Rows <- EuropeanRows, Capacity <- PrefixCapacity

-----------------------------------------------------------------------------
Works == {"advice", "open", "customs", "european"}

InitWork ==
    /\ work \in Works
    /\ Advice!Init /\ Open!Init /\ Customs!Init /\ European!Init
    \* What the open platform serves and is asked matters only when it runs.
    /\ work # "open" => served = (CHOOSE t \in Tables : TRUE) /\ request = (CHOOSE r \in Asks : TRUE)

NextWork ==
    /\ UNCHANGED work
    /\ work # "advice"   => UNCHANGED adviceVars
    /\ work # "open"     => UNCHANGED openVars
    /\ work # "customs"  => UNCHANGED customsVars
    /\ work # "european" => UNCHANGED europeanVars
    /\ \/ work = "advice" /\ Advice!Next
       \/ work = "open" /\ Open!Next
       \/ work = "customs" /\ Customs!Next
       \/ work = "european" /\ European!Next

workVars == <<work, adviceVars, openVars, customsVars, europeanVars>>
Work == InitWork /\ [][NextWork]_workVars

-----------------------------------------------------------------------------
(* Advice: every anomaly reasoned about has its main cause; a todo is proved, *)
(* within the bounds of the guard, and asked once.                           *)
AdviceSound == Advice!AdviceSound

(* Open platform reports: all rows asked for and no other.                   *)
ReportScoped == Open!ReportScoped

(* Customs declarations: no order, box, product or weight is lost.           *)
DeclarationSound == Customs!DeclarationSound

(* European declarations: the files hold every row of the sheet.             *)
RowsDeclared == European!RowsDeclared
=============================================================================
