-------------------------- MODULE EuropeanDeclaration --------------------------
(***************************************************************************)
(* Declarations for shipments to Europe, from one sheet: a row with an FBA *)
(* number opens a shipment, and a row may add a product to it              *)
(* (european_customs_declaration/service.py).                              *)
(*                                                                         *)
(* A field that is missing or invalid is "" or 0.  A category is a         *)
(* channel, a prefix and a country.                                        *)
(***************************************************************************)
EXTENDS WeightShares, FiniteSets, FiniteSetsExt

CONSTANTS
    Rows,           \* bound: the rows the sheet may have
    MaxSheet,       \* bound: rows of the sheet
    Capacity        \* TEMPLATE_CAPACITIES, by prefix

VARIABLES
    reading,        \* TRUE until the sheet is read
    read,           \* history: the rows so far
    opened,         \* the shipments, in the order of their rows
    current,        \* the position of the shipment that is open, 0 for none
    errors,
    files           \* what was declared, by category

vars == <<reading, read, opened, current, errors, files>>

Init == reading = TRUE /\ read = <<>> /\ opened = <<>> /\ current = 0 /\ errors = {} /\ files = <<>>

-----------------------------------------------------------------------------
Missing == ""

(* A row with an invalid heading closes the shipment above it, so that its   *)
(* products are not added to that one.                                       *)
Heading(row) == row.fba # Missing
Shipment(row) == [category |-> <<row.channel, row.prefix, row.country>>, boxes |-> row.boxes, gross |-> row.gross, items |-> <<>>]
ValidHeading(row) == row.channel # Missing /\ row.country # Missing /\ row.boxes > 0 /\ row.gross > 0
HeadingFault(row) == IF Heading(row) /\ ~ValidHeading(row) THEN {"INVALID_HEADING"} ELSE {}

ProductFault(row, open) ==
    IF row.product = Missing THEN {}
    ELSE IF open = 0 THEN {"MISSING_SHIPMENT_CONTEXT"}
    ELSE IF row.quantity <= 0 \/ row.price <= 0 \/ row.weight <= 0 THEN {"INVALID_NUMBER"}
    ELSE IF row.product = "unknown" THEN {"UNKNOWN_PRODUCT"} ELSE {}
Item(row) == [rule |-> row.product, price |-> row.price, quantity |-> row.quantity, weight |-> row.quantity * row.weight]

ReadRow ==
    /\ reading /\ Len(read) < MaxSheet
    /\ \E row \in Rows :
          LET skipped == Heading(row) /\ ~ValidHeading(row)
              started == IF Heading(row) /\ ~skipped THEN Append(opened, Shipment(row)) ELSE opened
              open == IF skipped THEN 0 ELSE IF Heading(row) THEN Len(started) ELSE current
              faults == HeadingFault(row) \cup (IF skipped THEN {} ELSE ProductFault(row, open))
          IN
          /\ read' = Append(read, row)
          /\ current' = open
          /\ errors' = errors \cup faults
          /\ opened' = IF skipped \/ row.product = Missing \/ open = 0 \/ ProductFault(row, open) # {} THEN started
                       ELSE [started EXCEPT ![open].items = Append(@, Item(row))]
    /\ UNCHANGED <<reading, files>>

-----------------------------------------------------------------------------
(* The shipments of a category are one file; rows of one rule at one price   *)
(* are one item of it.  A place is the k-th product of the i-th shipment.    *)
Categories == {opened[i].category : i \in DOMAIN opened}
Of(category) == {i \in DOMAIN opened : opened[i].category = category}
Places(category) == UNION {{<<i, k>> : k \in DOMAIN opened[i].items} : i \in Of(category)}
At(p) == opened[p[1]].items[p[2]]
Key(p) == <<At(p).rule, At(p).price>>
Before(p, q) == p[1] < q[1] \/ (p[1] = q[1] /\ p[2] < q[2])
Nth(places, n) == CHOOSE p \in places : Cardinality({q \in places : Before(q, p)}) = n - 1

KeysByRule(category) ==     \* mutated form of Keys
    LET places == Places(category)
        firsts == {p \in places : \A q \in places : Before(q, p) => At(q).rule # At(p).rule}
    IN [n \in 1..Cardinality(firsts) |-> Key(Nth(firsts, n))]
Keys(category) ==
    LET places == Places(category)
        firsts == {p \in places : \A q \in places : Before(q, p) => Key(q) # Key(p)}
    IN [n \in 1..Cardinality(firsts) |-> Key(Nth(firsts, n))]
Grouped(category, key, field) == Total([p \in {q \in Places(category) : Key(q) = key} |-> At(p)[field]])
Column(category, field) == [k \in DOMAIN Keys(category) |-> Grouped(category, Keys(category)[k], field)]
Gross(category) == Total([i \in Of(category) |-> opened[i].gross])

File(category) ==
    [boxes |-> Total([i \in Of(category) |-> opened[i].boxes]), items |-> Keys(category),
     quantity |-> Column(category, "quantity"),
     gross |-> Shares(Gross(category), Column(category, "weight")),
     net |-> Shares(Net(Gross(category)), Column(category, "weight"))]

Empty == IF \E i \in DOMAIN opened : opened[i].items = <<>> THEN {"MISSING_PRODUCTS"} ELSE {}
Whole(category) == \A i \in Of(category) : opened[i].items # <<>>
Overfull == IF \E c \in Categories : Whole(c) /\ Len(Keys(c)) > Capacity[c[2]] THEN {"TEMPLATE_CAPACITY_EXCEEDED"} ELSE {}
Analyze ==
    /\ reading /\ reading' = FALSE
    /\ errors' = errors \cup Empty \cup Overfull
    /\ files' = IF errors' = {} THEN [c \in Categories |-> File(c)] ELSE <<>>
    /\ UNCHANGED <<read, opened, current>>

(* A file that cannot be opened, or lacks the sheet or a header, is an error. *)
FileFaults == {"UNSUPPORTED_FILE_TYPE", "FILE_TOO_LARGE", "INVALID_WORKBOOK"}
SheetFaults == {"MISSING_SHEET", "ROW_LIMIT_EXCEEDED", "MISSING_HEADER"}
Unreadable ==
    /\ reading /\ read = <<>> /\ reading' = FALSE
    /\ \E fault \in FileFaults \cup SheetFaults : errors' = {fault}
    /\ UNCHANGED <<read, opened, current, files>>

Next == ReadRow \/ Analyze \/ Unreadable

Spec == Init /\ [][Next]_vars

-----------------------------------------------------------------------------
(* When files are made, they hold the sheet: the boxes of every shipment,    *)
(* the quantity of every product row at its price, under the category of the *)
(* shipment it stands below; and their weights are split without loss.       *)
Headed(i) == \E j \in 1..i : Heading(read[j])
Above(i) == Max({j \in 1..i : Heading(read[j])})
Belongs(i, c) == Headed(i) /\ c = <<read[Above(i)].channel, read[Above(i)].prefix, read[Above(i)].country>>
RowsDeclared ==
    files # <<>> =>
        /\ \A i \in DOMAIN read : Heading(read[i]) \/ read[i].product # Missing =>
              \E c \in DOMAIN files : Belongs(i, c)
        /\ \A c \in DOMAIN files :
              /\ files[c].boxes = Total([i \in {j \in DOMAIN read : Heading(read[j]) /\ Belongs(j, c)} |-> read[i].boxes])
              /\ \A k \in DOMAIN files[c].items :
                    files[c].quantity[k] = Total([i \in {j \in DOMAIN read :
                        Belongs(j, c) /\ <<read[j].product, read[j].price>> = files[c].items[k]} |-> read[i].quantity])
              /\ {<<read[i].product, read[i].price>> : i \in {j \in DOMAIN read : Belongs(j, c) /\ read[j].product # Missing}}
                    = Range(files[c].items)
              /\ Split(Gross(c), Column(c, "weight"), files[c].gross, files[c].net)
=============================================================================
