------------------------------ MODULE CatalogCalls ------------------------------
(***************************************************************************)
(* The read-only tools of the provider's catalog: each is resolved by help  *)
(* and search, its entry cached for all callers, and called by action with  *)
(* the versions of the entry (advertising/gateway.py,                       *)
(* LingxingAdvertisingGateway).                                             *)
(*                                                                         *)
(* The provider may publish a tool anew between any two steps.  A job is   *)
(* the sequence of tools one method calls: resolving the campaigns of a    *)
(* product asks for the shops and then once for each ASIN.                 *)
(***************************************************************************)
EXTENDS Integers, Sequences, FiniteSets

CONSTANTS
    Callers,
    Allowed,        \* _ADVERTISING_CATALOG_TOOLS
    Jobs,           \* the sequences of tools
    MaxPublished,   \* bound: how often a tool is published
    MaxJobs         \* bound: jobs started

VARIABLES
    published,      \* tool -> the types it was published with: a version is a position
    catalog,        \* _catalog: tool -> entry, or NoEntry
    job,            \* caller -> the call it is in
    outcome,        \* caller -> what its last job ended with
    jobs            \* jobs so far

vars == <<published, catalog, job, outcome, jobs>>

NoEntry == [catalog |-> 0, schema |-> 0]
NoJob == [at |-> "idle", todo |-> <<>>, attempt |-> 0, entry |-> NoEntry, began |-> 0, spoiled |-> FALSE]
RefreshCodes == {"unavailable", "stale"}
Codes == RefreshCodes \cup {"ok", "invalid_arguments", "failed"}
NeedsProfile(todo) == Head(todo) = "shops"      \* the shops may not name the one asked for

Version(t) == Len(published[t])
Type(t) == published[t][Version(t)]
Tool(c) == Head(job[c].todo)

Init ==
    /\ published = [t \in Allowed |-> <<"read">>]
    /\ catalog = [t \in Allowed |-> NoEntry]
    /\ job = [c \in Callers |-> NoJob]
    /\ outcome = [c \in Callers |-> [code |-> "none", excused |-> FALSE]] /\ jobs = 0

-----------------------------------------------------------------------------
Publish(t) ==
    /\ Version(t) < MaxPublished
    /\ \E type \in {"read", "write", "gone"} : published' = [published EXCEPT ![t] = Append(@, type)]
    /\ UNCHANGED <<catalog, job, outcome, jobs>>

(* The next tool of the job: one that is not allowlisted is never looked up, *)
(* and a cached entry is used as it is.                                      *)
Excused(c) == job[c].spoiled \/ Version(Tool(c)) # job[c].began
End(c, code, excused) ==
    job' = [job EXCEPT ![c] = NoJob] /\ outcome' = [outcome EXCEPT ![c] = [code |-> code, excused |-> excused]]
Lookup(t) == IF catalog[t] = NoEntry THEN "help" ELSE "action"
Calling(c, todo) ==
    IF Head(todo) \in Allowed
    THEN /\ job' = [job EXCEPT ![c] = [NoJob EXCEPT !.at = Lookup(Head(todo)), !.todo = todo,
                                          !.entry = catalog[Head(todo)], !.began = Version(Head(todo))]]
         /\ UNCHANGED outcome
    ELSE End(c, "not_allowed", FALSE)

Start(c, todo) ==
    /\ job[c].at = "idle" /\ jobs < MaxJobs
    /\ jobs' = jobs + 1
    /\ Calling(c, todo)
    /\ UNCHANGED <<published, catalog>>

(* What help and search refuse fails the job at once, on either attempt.     *)
ReadOnly(t) == Type(t) = "read"
Help(c) ==
    /\ job[c].at = "help"
    /\ IF ReadOnly(Tool(c))
       THEN job' = [job EXCEPT ![c].at = "search", ![c].entry.catalog = Version(Tool(c))] /\ UNCHANGED outcome
       ELSE End(c, "unavailable", FALSE)
    /\ UNCHANGED <<published, catalog, jobs>>

(* The entry is cached by whoever has finished reading it, also when the     *)
(* provider has published the tool anew since its help was read.             *)
Search(c) ==
    /\ job[c].at = "search"
    /\ IF ReadOnly(Tool(c))
       THEN job' = [job EXCEPT ![c].at = "keep", ![c].entry.schema = Version(Tool(c))] /\ UNCHANGED outcome
       ELSE End(c, "unavailable", FALSE)
    /\ UNCHANGED <<published, catalog, jobs>>

Current(t, entry) == entry = [catalog |-> Version(t), schema |-> Version(t)]
Keep(c) ==
    /\ job[c].at = "keep"
    /\ catalog' = [catalog EXCEPT ![Tool(c)] = job[c].entry]
    /\ job' = [d \in Callers |->
                  IF d = c THEN [job[d] EXCEPT !.at = "action"]
                  ELSE IF job[d].at # "idle" /\ Tool(d) = Tool(c) /\ ~Current(Tool(c), job[c].entry)
                  THEN [job[d] EXCEPT !.spoiled = TRUE] ELSE job[d]]
    /\ UNCHANGED <<published, outcome, jobs>>

-----------------------------------------------------------------------------
(* A stale entry, or a tool that is gone, is forgotten and looked up once    *)
(* more; any other failure ends the job, whatever the entry.                 *)
Answers(t, entry) ==
    IF Type(t) = "gone" THEN {"unavailable"}
    ELSE IF ~Current(t, entry) THEN {"stale", "invalid_arguments"}
    ELSE {"ok", "invalid_arguments", "failed"}
NotForgotten(t) == catalog     \* mutated form of Forgotten
Forgotten(t) == [catalog EXCEPT ![t] = NoEntry]

Answer(c, code) ==
    /\ job[c].at = "action" /\ code \in Answers(Tool(c), job[c].entry)
    /\ IF code \in RefreshCodes /\ job[c].attempt = 0
       THEN /\ catalog' = Forgotten(Tool(c))
            /\ job' = [job EXCEPT ![c].at = "again", ![c].attempt = 1]
            /\ UNCHANGED outcome
       ELSE /\ UNCHANGED catalog
            /\ IF code = "ok" /\ Len(job[c].todo) > 1
               THEN Calling(c, Tail(job[c].todo)) \/ (NeedsProfile(job[c].todo) /\ End(c, "unavailable", FALSE))
               ELSE End(c, code, Excused(c))
    /\ UNCHANGED <<published, jobs>>

Again(c) ==
    /\ job[c].at = "again"
    /\ job' = [job EXCEPT ![c].at = Lookup(Tool(c)), ![c].entry = catalog[Tool(c)]]
    /\ UNCHANGED <<published, catalog, outcome, jobs>>

(* An entry that names a required parameter the caller does not give.        *)
Lacking(c) ==
    /\ job[c].at = "action" /\ End(c, "invalid_arguments", FALSE)
    /\ UNCHANGED <<published, catalog, jobs>>

Next ==
    \/ \E t \in Allowed : Publish(t)
    \/ \E c \in Callers :
          \/ \E todo \in Jobs : Start(c, todo)
          \/ Help(c) \/ Search(c) \/ Keep(c) \/ Again(c) \/ Lacking(c)
          \/ \E code \in Codes : Answer(c, code)

Spec == Init /\ [][Next]_vars

-----------------------------------------------------------------------------
(* Looking up once more is enough: a call is told that its entry is stale    *)
(* only when the provider published the tool during the call, or another     *)
(* caller cached an entry that was out of date during it.                    *)
StaleExcused == \A c \in Callers : outcome[c].code = "stale" => outcome[c].excused

(* What is sent was read-only in both answers its entry was made from, and   *)
(* is of a tool a caller may name.                                           *)
SentReadOnly ==
    \A c \in Callers : job[c].at = "action" =>
        /\ Tool(c) \in Allowed
        /\ \A v \in {job[c].entry.catalog, job[c].entry.schema} : v > 0 /\ published[Tool(c)][v] = "read"

(* All of it.                                                                *)
CatalogSound == StaleExcused /\ SentReadOnly
=============================================================================
