----------------------------- MODULE ReportImports -----------------------------
(***************************************************************************)
(* Advertising reports that the team imports into one shared table         *)
(* (advertising/imports.py with the PostgreSQL store; api.py 985): the     *)
(* type of the report, its rows, the identity of a row, and the            *)
(* transaction that counts and upserts them row by row.                    *)
(*                                                                         *)
(* Several server processes share the table.  A field is a short value,    *)
(* `campaign` the store, the date and the campaign of a row; what is wrong *)
(* with a row of the file is named by its `kind`.                          *)
(***************************************************************************)
EXTENDS Naturals, Sequences, FiniteSets, FiniteSetsExt

CONSTANTS
    Imports,        \* the uploads
    Files,          \* bound: the files that may be uploaded
    MaxRows         \* MAX_ROWS, for the templates

VARIABLES
    report,         \* the file of each import, NoFile before
    importing,      \* how far the import is
    overwritten,    \* rows found in the table before the upsert
    upserted,       \* the last row its transaction has written
    table,          \* the shared rows: key -> the import and the position of its row
    committed,      \* imports whose transaction was committed, in order
    told            \* the number of new rows its caller was told

vars == <<report, importing, overwritten, upserted, table, committed, told>>

NoFile == [given |-> "none", headers |-> {}, rows |-> <<>>]
Init ==
    /\ report = [i \in Imports |-> NoFile] /\ importing = [i \in Imports |-> "waiting"]
    /\ overwritten = [i \in Imports |-> 0] /\ upserted = [i \in Imports |-> 0]
    /\ table = <<>> /\ committed = <<>> /\ told = [i \in Imports |-> 0]

-----------------------------------------------------------------------------
(* What the headers say the report is; the first that fits counts.           *)
Native(headers) ==
    IF {"rank", "share"} \subseteq headers THEN "search_term_share"
    ELSE IF "bought" \in headers THEN "purchased_product"
    ELSE IF "placement" \in headers THEN "placement"
    ELSE IF "sku" \in headers /\ headers \cap {"term", "targeting"} = {} THEN "advertised_product"
    ELSE IF "term" \in headers THEN "search_term" ELSE "none"

Template == [campaign |-> {}, ad_group |-> {"group"}, keyword |-> {"group", "keyword"},
             targeting |-> {"group", "target"}, search_term |-> {"group", "term", "match"}, generic |-> {}]

Type(f) == IF f.given # "none" THEN f.given ELSE Native(f.headers)

(* Fields a row must have beside its store, date and campaign.               *)
Required(f) == IF Native(f.headers) # "none" \/ Type(f) \notin DOMAIN Template THEN {} ELSE Template[Type(f)]

(* The row as it is stored.  A native report has names where a template has  *)
(* ids, and what it calls target depends on the type.                        *)
Target(f, raw) ==
    CASE Type(f) = "purchased_product" -> raw.bought
      [] Type(f) = "advertised_product" -> IF "asin" \in f.headers THEN raw.asin ELSE raw.sku
      [] Type(f) = "placement" -> raw.placement
      [] OTHER -> raw.target
Row(f, raw) ==
    IF Native(f.headers) # "none" THEN [raw EXCEPT !.keyword = "", !.target = Target(f, raw)] ELSE raw

(* The fields that tell two rows of a type apart.                            *)
KeyFields(type) ==
    {"campaign"} \cup
    CASE type = "ad_group" -> {"group"}
      [] type = "keyword" -> {"group", "keyword"}
      [] type = "targeting" -> {"group", "target"}
      [] type \in {"search_term", "search_term_share"} -> {"group", "target", "term", "match"}
      [] type = "generic" -> {"group", "keyword", "target", "term", "match"}
      [] type \in {"purchased_product", "advertised_product", "placement"} -> {"group", "target", "match"}
      [] OTHER -> {}
Key(f, raw) == <<Type(f), Restrict(Row(f, raw), KeyFields(Type(f)))>>

(* Blank lines are passed over; one wrong row refuses the file.              *)
Lines(f) == {k \in DOMAIN f.rows : f.rows[k].kind # "blank"}
Wrong(f, raw) == raw.kind # "ok" \/ \E field \in Required(f) : raw[field] = ""
AcceptableInPart(f) ==     \* mutated form of Acceptable
    Type(f) # "none" /\ \E k \in Lines(f) : ~Wrong(f, f.rows[k])
Acceptable(f) ==
    /\ Type(f) # "none"
    /\ Native(f.headers) # "none" \/ ("template" \in f.headers /\ Len(f.rows) <= MaxRows)
    /\ Lines(f) # {}
    /\ \A k \in Lines(f) : ~Wrong(f, f.rows[k])
Keys(i) == [k \in Lines(report[i]) |-> Key(report[i], report[i].rows[k])]

-----------------------------------------------------------------------------
Move(i, from, to) == importing[i] = from /\ importing' = [importing EXCEPT ![i] = to]

Upload(i) ==
    /\ \E f \in Files :
          /\ report' = [report EXCEPT ![i] = f]
          /\ Move(i, "waiting", IF Acceptable(f) THEN "count" ELSE "refused")
    /\ UNCHANGED <<overwritten, upserted, table, committed, told>>

(* The count sees what is committed; a key that the file has twice counts    *)
(* once.                                                                     *)
Found(i) == Cardinality(Range(Keys(i)) \cap DOMAIN table)
Count(i) ==
    /\ Move(i, "count", "upsert")
    /\ overwritten' = [overwritten EXCEPT ![i] = Found(i)]
    /\ UNCHANGED <<report, upserted, table, committed, told>>

(* A row is written once no other open transaction holds its key; it is      *)
(* held until the commit.                                                    *)
Left(i) == {k \in Lines(report[i]) : k > upserted[i]}
Holds(i) == {Keys(i)[k] : k \in Lines(report[i]) \ Left(i)}
LastRow(i, key) == CHOOSE k \in Lines(report[i]) : Keys(i)[k] = key /\ \A l \in Lines(report[i]) : Keys(i)[l] = key => l <= k
Free(key, i) == \A j \in Imports \ {i} : importing[j] = "upsert" => key \notin Holds(j)
Upsert(i) ==
    /\ Move(i, "upsert", "upsert")
    /\ \E k \in Left(i) :
          /\ (\A l \in Left(i) : k <= l) /\ Free(Keys(i)[k], i)
          /\ upserted' = [upserted EXCEPT ![i] = k]
    /\ UNCHANGED <<report, overwritten, table, committed, told>>

Written(i) ==
    [key \in Holds(i) \cup DOMAIN table |-> IF key \in Holds(i) THEN <<i, LastRow(i, key)>> ELSE table[key]]
Inserted(i) == Cardinality(Lines(report[i])) - overwritten[i]
Commit(i) ==
    /\ Move(i, "upsert", "done") /\ Left(i) = {}
    /\ table' = Written(i)
    /\ committed' = Append(committed, i)
    /\ told' = [told EXCEPT ![i] = Inserted(i)]
    /\ UNCHANGED <<report, overwritten, upserted>>

(* A statement fails, two transactions wait for each other and the database  *)
(* ends one, or the process dies: nothing of the transaction stays.          *)
LeftBehind(i) == table
Abort(i) ==
    /\ importing[i] \in {"count", "upsert"}
    /\ importing' = [importing EXCEPT ![i] = "unavailable"]
    /\ table' = LeftBehind(i)
    /\ UNCHANGED <<report, overwritten, upserted, committed, told>>

Next == \E i \in Imports : Upload(i) \/ Count(i) \/ Upsert(i) \/ Commit(i) \/ Abort(i)

Spec == Init /\ [][Next]_vars

-----------------------------------------------------------------------------
(* However transactions overlap, the table is what the committed imports     *)
(* leave when they run one after the other: a row is that of the last of     *)
(* them whose file has it, and nothing else is stored.                       *)
LastWith(key) == CHOOSE n \in DOMAIN committed : key \in Range(Keys(committed[n])) /\
                     \A l \in DOMAIN committed : key \in Range(Keys(committed[l])) => l <= n
ImportsSerial ==
    /\ DOMAIN table = UNION {Range(Keys(committed[n])) : n \in DOMAIN committed}
    /\ \A key \in DOMAIN table : table[key][1] = committed[LastWith(key)]

(* No row with an error is stored, and nothing of a file that was refused;   *)
(* of a file that was accepted, rows that differ in a field of their key do  *)
(* not replace each other.                                                   *)
ImportsWhole ==
    /\ \A key \in DOMAIN table :
          LET i == table[key][1] IN
          /\ \A k \in DOMAIN report[i].rows : report[i].rows[k].kind \in {"ok", "blank"}
          /\ importing[i] = "done" /\ Keys(i)[table[key][2]] = key
    /\ \A i \in Range(committed) : \A k, l \in Lines(report[i]) :
          LET a == report[i].rows[k]  b == report[i].rows[l] IN
          (Type(report[i]) \in {"search_term", "search_term_share"} /\ <<a.term, a.match, a.target, a.group>> # <<b.term, b.match, b.target, b.group>>)
              => Keys(i)[k] # Keys(i)[l]

(* The callers are never told of fewer new rows than the table gained.       *)
ImportsCounted ==
    MapThenSumSet(LAMBDA i : told[i], Range(committed)) >= Cardinality(DOMAIN table)

(* All of it: the shared rows are those of whole files, one after the other. *)
ImportsSound == ImportsSerial /\ ImportsWhole /\ ImportsCounted
=============================================================================
