--------------------------- MODULE CustomsDeclaration ---------------------------
(***************************************************************************)
(* Declarations for shipments to the United States: the shipping list says *)
(* how each order travels, the FBA workbook what it holds; the orders of   *)
(* one category are added up into one declaration                          *)
(* (customs_declaration/service.py).                                       *)
(*                                                                         *)
(* The three sheets are read row by row; what can be wrong with a cell is  *)
(* a value of its own.  Preview and generation are the same analysis.      *)
(***************************************************************************)
EXTENDS WeightShares, Selections, FiniteSets, FiniteSetsExt

CONSTANTS
    ShippingRows, PackingRows, DetailRows,      \* bound: the rows a sheet may have
    MaxRows,                                    \* bound: rows of each sheet
    Rules,          \* the catalog: product rules in order
    UnitWeight,     \* of each rule
    Capacity        \* TEMPLATE_CAPACITIES: items a template takes, by trade mode

VARIABLES
    sheet,          \* the sheet being read
    rows,           \* history: the rows of each sheet so far
    assignments,    \* order -> category
    current,        \* the order the rows of the sheet belong to
    seen,           \* seen_shipments
    packed,         \* packed_shipments
    detailed,       \* detailed_shipments
    shipments,      \* order -> its boxes and its weight
    quantities,     \* category -> rule -> quantity
    errors,
    results         \* what was declared, by category

vars == <<sheet, rows, assignments, current, seen, packed, detailed, shipments, quantities, errors, results>>

Nobody == ""
Unnamed == ""
Sheets == {"shipping", "packing", "details"}
Init ==
    /\ sheet = "shipping" /\ rows = [s \in Sheets |-> <<>>]
    /\ assignments = <<>> /\ current = Nobody /\ seen = {} /\ packed = {} /\ detailed = {}
    /\ shipments = <<>> /\ quantities = <<>> /\ errors = {} /\ results = <<>>

-----------------------------------------------------------------------------
Read(name, row) ==
    /\ sheet = name /\ Len(rows[name]) < MaxRows[name]
    /\ rows' = [rows EXCEPT ![name] = Append(@, row)]
    /\ UNCHANGED sheet

Put(f, x, v) == [y \in DOMAIN f \cup {x} |-> IF y = x THEN v ELSE f[y]]

(* A row without an order says nothing; the first category of an order       *)
(* stands.                                                                   *)
Category(row) == <<row.speed, row.trade>>
Wrong(row) ==
    IF row.order = Nobody THEN {}
    ELSE IF row.speed = "invalid" THEN {"INVALID_SHIPPING_CHANNEL"}
    ELSE IF row.trade = "invalid" THEN {"INVALID_TRADE_MODE"}
    ELSE IF row.order \in DOMAIN assignments /\ assignments[row.order] # Category(row)
         THEN {"ORDER_CATEGORY_CONFLICT"} ELSE {}
ReadShipping ==
    \E row \in ShippingRows :
        /\ Read("shipping", row)
        /\ errors' = errors \cup Wrong(row)
        /\ assignments' = IF row.order = Nobody \/ Wrong(row) # {} THEN assignments
                          ELSE Put(assignments, row.order, Category(row))
        /\ UNCHANGED <<current, seen, packed, detailed, shipments, quantities, results>>

(* Cells are merged: a row without an order belongs to the one above.        *)
BelongsAlone(row) == row.order     \* mutated form of Belongs
Belongs(row) == IF row.order = Nobody THEN current ELSE row.order
Assigned(order) == order \in DOMAIN assignments

Valid(row) == row.boxes > 0 /\ row.weight > 0
Repeated(row) == IF row.order \in seen THEN {"DUPLICATE_SHIPMENT_GROUP"} ELSE {}
ReadPacking ==
    \E row \in PackingRows :
        LET new == row.order # Nobody /\ Assigned(row.order) IN
        /\ Read("packing", row)
        /\ current' = Belongs(row)
        /\ seen' = seen \cup ({row.order} \ {Nobody})
        /\ errors' = errors \cup Repeated(row) \cup (IF new /\ ~Valid(row) THEN {"INVALID_NUMBER"} ELSE {})
        /\ shipments' = IF new /\ Valid(row) THEN Put(shipments, row.order, [boxes |-> row.boxes, weight |-> row.weight]) ELSE shipments
        /\ packed' = packed \cup {o \in {Belongs(row)} : Assigned(o)}
        /\ UNCHANGED <<assignments, detailed, quantities, results>>

(* A product is known by one rule of the catalog.                            *)
Known(product) == product \in Range(Rules)
Faults(row) ==
    (IF row.quantity <= 0 THEN {"INVALID_NUMBER"} ELSE {}) \cup
    (IF row.product = Unnamed THEN {"MISSING_PRODUCT_NAME"}
     ELSE IF row.quantity <= 0 THEN {}
     ELSE IF ~Known(row.product) THEN {"UNKNOWN_PRODUCT"}
     ELSE IF UnitWeight[row.product] <= 0 THEN {"INCOMPLETE_PRODUCT_RULE"} ELSE {})

Added(sum, category, rule, quantity) ==
    LET of == IF category \in DOMAIN sum THEN sum[category] ELSE <<>>
        old == IF rule \in DOMAIN of THEN of[rule] ELSE 0
    IN Put(sum, category, Put(of, rule, old + quantity))
ReadDetail ==
    \E row \in DetailRows :
        LET order == Belongs(row)  faults == IF Assigned(order) THEN Faults(row) ELSE {} IN
        /\ Read("details", row)
        /\ current' = order
        /\ errors' = errors \cup faults
        /\ detailed' = IF Assigned(order) /\ row.product # Unnamed /\ row.quantity > 0 THEN detailed \cup {order} ELSE detailed
        /\ quantities' = IF Assigned(order) /\ faults = {}
                         THEN Added(quantities, assignments[order], row.product, row.quantity) ELSE quantities
        /\ UNCHANGED <<assignments, seen, packed, shipments, results>>

(* After the last sheet: what was assigned must have been packed and         *)
(* detailed.                                                                 *)
Missing == IF DOMAIN assignments \subseteq packed \cap detailed THEN {} ELSE {"MISSING_SHIPMENT"}
EndOfSheet ==
    /\ sheet \in Sheets
    /\ sheet' = CASE sheet = "shipping" -> "packing" [] sheet = "packing" -> "details" [] OTHER -> "analyze"
    /\ current' = Nobody
    /\ errors' = IF sheet = "details" THEN errors \cup Missing ELSE errors
    /\ UNCHANGED <<rows, assignments, seen, packed, detailed, shipments, quantities, results>>

-----------------------------------------------------------------------------
(* A file that cannot be opened, or lacks a sheet or a header, is an error.  *)
FileFaults == {"UNSUPPORTED_FILE_TYPE", "FILE_TOO_LARGE", "INVALID_WORKBOOK"}
SheetFaults == {"MISSING_SHEET", "ROW_LIMIT_EXCEEDED", "MISSING_HEADER"}
Unreadable ==
    /\ sheet \in Sheets /\ rows[sheet] = <<>>
    /\ sheet' = "analyze" /\ current' = Nobody
    /\ \E fault \in FileFaults \cup SheetFaults : errors' = errors \cup {fault}
    /\ UNCHANGED <<rows, assignments, seen, packed, detailed, shipments, quantities, results>>

Orders(category) == {o \in DOMAIN assignments : assignments[o] = category}
Items(category) == Within(Rules, IF category \in DOMAIN quantities THEN DOMAIN quantities[category] ELSE {})
Parts(category) == [k \in DOMAIN Items(category) |-> quantities[category][Items(category)[k]] * UnitWeight[Items(category)[k]]]
Sum(category, field) == Total([o \in Orders(category) \cap DOMAIN shipments |-> shipments[o][field]])

(* The sheet has a block for each item; the boxes stand in the first one.    *)
Boxes(category, k) == IF k = 1 THEN Sum(category, "boxes") ELSE 0
Declaration(category) ==
    LET gross == Sum(category, "weight")  parts == Parts(category) IN
    [orders |-> Orders(category), weight |-> gross,
     blocks |-> [k \in DOMAIN Items(category) |->
        [item |-> Items(category)[k], quantity |-> quantities[category][Items(category)[k]], boxes |-> Boxes(category, k),
         gross |-> Shares(gross, parts)[k], net |-> Shares(Net(gross), parts)[k]]]]
Overfull == IF \E c \in DOMAIN quantities : Len(Items(c)) > Capacity[c[2]] THEN {"TEMPLATE_CAPACITY_EXCEEDED"} ELSE {}

(* Files are made only when nothing is wrong: one for each category with     *)
(* items.                                                                    *)
Analyze ==
    /\ sheet = "analyze" /\ sheet' = "done"
    /\ errors' = errors \cup Overfull
    /\ results' = IF errors' = {} THEN [c \in DOMAIN quantities |-> Declaration(c)] ELSE <<>>
    /\ UNCHANGED <<rows, assignments, current, seen, packed, detailed, shipments, quantities>>

Next == ReadShipping \/ ReadPacking \/ ReadDetail \/ EndOfSheet \/ Unreadable \/ Analyze

Spec == Init /\ [][Next]_vars

-----------------------------------------------------------------------------
(* When files are made, every order of the shipping list is in exactly one   *)
(* of them, its boxes are counted once, and every row of products under it   *)
(* is in the quantities: nothing that was skipped on the way is missing.     *)
Owner(i) ==
    LET named == {j \in 1..i : rows["details"][j].order # Nobody} IN
    IF named = {} THEN Nobody ELSE rows["details"][Max(named)].order
PackedBoxes(o) == Total([i \in {j \in DOMAIN rows["packing"] : rows["packing"][j].order = o} |-> rows["packing"][i].boxes])
Column(c, field) == [k \in DOMAIN results[c].blocks |-> results[c].blocks[k][field]]
Quantity(I) == Total([i \in I |-> rows["details"][i].quantity])
OrdersDeclared ==
    results # <<>> =>
        /\ \A i \in DOMAIN rows["shipping"] : rows["shipping"][i].order # Nobody =>
              Cardinality({c \in DOMAIN results : rows["shipping"][i].order \in results[c].orders}) = 1
        /\ \A c \in DOMAIN results :
              LET its == {i \in DOMAIN rows["details"] : Owner(i) \in results[c].orders} IN
              /\ Total(Column(c, "boxes")) = Total([o \in results[c].orders |-> PackedBoxes(o)])
              /\ Total(Column(c, "quantity")) = Quantity(its)
              /\ \A k \in DOMAIN results[c].blocks :
                    Column(c, "quantity")[k] = Quantity({i \in its : rows["details"][i].product = Column(c, "item")[k]})

(* The weights of a declaration are split over its items without loss.       *)
WeightsSplit ==
    \A c \in DOMAIN results : Split(results[c].weight, Parts(c), Column(c, "gross"), Column(c, "net"))

(* All of it: nothing of the three sheets is lost in a declaration.          *)
DeclarationSound == OrdersDeclared /\ WeightsSplit
=============================================================================
