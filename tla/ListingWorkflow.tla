---------------------------- MODULE ListingWorkflow ----------------------------
(***************************************************************************)
(* The agent that writes listings: research keywords with two providers,   *)
(* in rounds, until there are enough; plan them in tiers; write, check and *)
(* revise the copy (listing/graph.py, keyword_gateway.py, validator.py,    *)
(* copywriter.py, specialist.py).                                          *)
(*                                                                         *)
(* The providers and the writing model answer as they like.  Relevance is  *)
(* in thousandths; a draft is what the validator can tell of it.           *)
(***************************************************************************)
EXTENDS Naturals, Sequences, FiniteSets, Functions, Selections

CONSTANTS
    Requests,       \* bound: the tasks the specialist may be given
    Replies,        \* bound: the records a provider may return
    Drafts,         \* bound: the drafts of the model
    Tiers,          \* TIER_COUNTS as a sequence, the primary tier first
    MaxRounds,      \* MAX_SUPPLEMENT_SEARCH_ROUNDS
    MaxRevisions    \* MAX_COPY_REVISION_ROUNDS

VARIABLES
    listing,        \* the node of the graph that runs next
    request,
    round,          \* supplement_search_round
    pending,        \* the queries each provider still has in this batch
    fresh,          \* what each provider returned in this batch
    executed,       \* executed_query_fingerprints
    keywords,       \* keyword_evidence: the valid keywords, by score
    selected,       \* selected_keywords: keyword and tier
    draft,
    checked,        \* the draft the validation is about
    revision,       \* revision_round
    delivered,      \* the result the specialist hands to the controller
    sent,           \* history: the calls made to each provider
    heard           \* history: the records received

vars == <<listing, request, round, pending, fresh, executed, keywords, selected, draft, checked, revision, delivered, sent, heard>>

KeywordProviders == {"seller_sprite", "sif"}
Idle == [p \in KeywordProviders |-> <<>>]

(* What the first t tiers take; Target is TARGET_KEYWORD_COUNT.              *)
Filled(t) == Cardinality(UNION {{u} \X (1..Tiers[u]) : u \in 1..t})
Target == Filled(Len(Tiers))

NoDraft == [words |-> {}, claim |-> FALSE, long |-> FALSE]
Undelivered == [status |-> "none", draft |-> NoDraft, seen |-> {}]

Init ==
    /\ listing = "validate_input" /\ request = [facts |-> FALSE] /\ round = 0
    /\ pending = Idle /\ fresh = Idle /\ executed = {} /\ keywords = <<>> /\ selected = <<>>
    /\ draft = NoDraft /\ checked = NoDraft /\ revision = 0 /\ delivered = Undelivered /\ sent = Idle /\ heard = {}

-----------------------------------------------------------------------------
(* The queries of a batch: both providers are asked about each product and   *)
(* each seed.                                                                *)
FirstOf(s, n) == SubSeq(s, 1, IF Len(s) < n THEN Len(s) ELSE n)
Rest(s) == IF Len(s) > 2 THEN SubSeq(s, 3, Len(s)) ELSE <<>>
Distinct(s) == Picked(s, {i \in DOMAIN s : \A j \in 1..(i - 1) : s[j] # s[i]})
Asked(kind, names) == [i \in DOMAIN names |-> <<kind, names[i]>>]

InitialQueries(r) ==
    Asked("asin", Distinct(r.current \o FirstOf(r.competitors, 2))) \o Asked("seed", FirstOf(r.seeds, 2))

At(s, n) == IF n < Len(s) THEN <<s[n + 1]>> ELSE <<>>
SupplementQueries(r, n) ==
    Asked("asin", At(Rest(r.competitors), n)) \o
    Asked("seed", At(Rest(r.seeds) \o <<r.type, r.name>>, n))

NewQueries(queries) == Picked(queries, {i \in DOMAIN queries : queries[i] \notin executed})

(* _execute hands each provider its queries; they count as executed whatever *)
(* becomes of them.                                                          *)
Research(queries) ==
    /\ pending' = [p \in KeywordProviders |-> NewQueries(queries)]
    /\ executed' = executed \cup {queries[i] : i \in DOMAIN queries}
    /\ fresh' = Idle
    /\ listing' = "research"

-----------------------------------------------------------------------------
(* A request is complete when the facts about the product are there, each    *)
(* confirmed, and something to search for is named.                          *)
Complete(r) == r.facts /\ (r.current # <<>> \/ r.competitors # <<>> \/ r.seeds # <<>>)

ValidateInput ==
    /\ listing = "validate_input"
    /\ \E r \in Requests :
          /\ request' = r
          /\ listing' = IF Complete(r) THEN "initial_research" ELSE "needs_input"
    /\ UNCHANGED <<round, pending, fresh, executed, keywords, selected, draft, checked, revision, delivered, sent, heard>>

InitialResearch ==
    /\ listing = "initial_research" /\ Research(InitialQueries(request))
    /\ UNCHANGED <<request, round, keywords, selected, draft, checked, revision, delivered, sent, heard>>

(* One record of a reply as evidence; a record without relevance takes the   *)
(* default of its query.                                                     *)
Default(p, q) == IF q[1] = "seed" THEN 750 ELSE IF p = "sif" THEN 800 ELSE 780
Confidence(p) == IF p = "sif" THEN 780 ELSE 760
Evidence(p, q, record) ==
    LET relevance == IF record.relevance = 0 THEN Default(p, q) ELSE record.relevance IN
    [word |-> record.word, score |-> 3 * relevance + Confidence(p), seen |-> {<<p, q>>}, valid |-> relevance >= 700]

(* The providers answer in parallel, each its own queries in order.  A call  *)
(* that fails leaves a warning.                                              *)
Call(p) ==
    /\ listing = "research" /\ pending[p] # <<>>
    /\ LET q == Head(pending[p]) IN
       /\ sent' = [sent EXCEPT ![p] = Append(@, q)]
       /\ \/ UNCHANGED <<fresh, heard>>
          \/ \E reply \in Replies :
                LET found == [i \in DOMAIN reply |-> Evidence(p, q, reply[i])] IN
                /\ fresh' = [fresh EXCEPT ![p] = @ \o found]
                /\ heard' = heard \cup {found[i] : i \in DOMAIN found}
    /\ pending' = [pending EXCEPT ![p] = Tail(@)]
    /\ UNCHANGED <<listing, request, round, executed, keywords, selected, draft, checked, revision, delivered>>

(* Records of one keyword are joined: the first with the highest score       *)
(* stands, with the observations of all, at the place of the first record.   *)
Before(items, i, j) == items[i].score > items[j].score \/ (items[i].score = items[j].score /\ i <= j)
Alike(items, i) == {j \in DOMAIN items : items[j].word = items[i].word}
Joint(items, i) ==
    LET best == CHOOSE j \in Alike(items, i) : \A l \in Alike(items, i) : Before(items, j, l)
    IN [items[best] EXCEPT !.seen = UNION {items[j].seen : j \in Alike(items, i)}]
Merged(items) ==
    Picked([i \in DOMAIN items |-> Joint(items, i)], {i \in DOMAIN items : \A j \in Alike(items, i) : i <= j})

(* Valid keywords by their score; the sort is stable.                        *)
Position(items, i) == Cardinality({j \in DOMAIN items : Before(items, j, i)})
ByScore(items) == [k \in DOMAIN items |-> items[CHOOSE i \in DOMAIN items : Position(items, i) = k]]
Ranked(items) ==
    LET merged == Merged(items) IN ByScore(Picked(merged, {i \in DOMAIN merged : merged[i].valid}))

Sources(item) == {o[1] : o \in item.seen}
Dual(item) == Sources(item) = KeywordProviders
Duals(items) == {i \in DOMAIN items : Dual(items[i])}
Gaps(items) == Len(items) < Target \/ Cardinality(Duals(items)) < Tiers[1]

(* evaluate_keywords, once both providers are through; what one of them      *)
(* returned stands before what the other did.                                *)
Evaluate ==
    /\ listing = "research" /\ pending = Idle
    /\ LET items == Ranked(keywords \o fresh["seller_sprite"] \o fresh["sif"]) IN
       /\ keywords' = items
       /\ listing' = IF ~Gaps(items) THEN "build_keyword_plan"
                     ELSE IF round < MaxRounds THEN "supplement" ELSE "insufficient"
    /\ fresh' = Idle
    /\ UNCHANGED <<request, round, pending, executed, selected, draft, checked, revision, delivered, sent, heard>>

Supplement ==
    /\ listing = "supplement" /\ Research(SupplementQueries(request, round))
    /\ round' = round + 1
    /\ UNCHANGED <<request, keywords, selected, draft, checked, revision, delivered, sent, heard>>

(* The first keywords both providers know are primary; the others fill the   *)
(* tiers in the order of their score.                                        *)
Tier(k) == 1 + Cardinality({t \in DOMAIN Tiers : Filled(t) < k})
Assigned(items) ==
    LET primary == FirstOf(Picked(items, Duals(items)), Tiers[1])
        others == Picked(items, {i \in DOMAIN items : items[i] \notin Range(primary)})
        planned == FirstOf(primary \o others, Target)
    IN [k \in DOMAIN planned |-> [item |-> planned[k], tier |-> Tier(k)]]

BuildPlan ==
    /\ listing = "build_keyword_plan"
    /\ selected' = Assigned(keywords) /\ listing' = "generate_copy"
    /\ UNCHANGED <<request, round, pending, fresh, executed, keywords, draft, checked, revision, delivered, sent, heard>>

-----------------------------------------------------------------------------
(* The model writes or revises; a call that fails ends the task.             *)
Write(node) ==
    /\ listing = node
    /\ \/ \E d \in Drafts : draft' = d /\ listing' = "validate_copy"
       \/ listing' = "failed" /\ UNCHANGED draft
    /\ UNCHANGED <<request, round, pending, fresh, executed, keywords, selected, checked, delivered, sent, heard>>
GenerateCopy == Write("generate_copy") /\ UNCHANGED revision
ReviseCopy == Write("revise_copy") /\ revision' = IF listing' = "failed" THEN revision ELSE revision + 1

Covered(d) == Cardinality({k \in DOMAIN selected : selected[k].item.word \in d.words})
Passed(d) == ~d.long /\ ~d.claim /\ 10 * Covered(d) >= 6 * Len(selected)
ValidateCopy ==
    /\ listing = "validate_copy"
    /\ checked' = draft
    /\ listing' = IF Passed(draft) THEN "completed" ELSE IF revision < MaxRevisions THEN "revise_copy" ELSE "needs_review"
    /\ UNCHANGED <<request, round, pending, fresh, executed, keywords, selected, draft, revision, delivered, sent, heard>>

(* Only a completed task delivers a draft and the evidence of its keywords;  *)
(* a draft that needs review stays in the graph.                             *)
Final == {"needs_input", "insufficient", "needs_review", "completed"}
ResultWithDraft(node) ==     \* mutated form of Result
    [status |-> node, draft |-> draft, seen |-> UNION {selected[k].item.seen : k \in DOMAIN selected}]
Result(node) ==
    IF node = "completed"
    THEN [status |-> node, draft |-> draft, seen |-> UNION {selected[k].item.seen : k \in DOMAIN selected}]
    ELSE [Undelivered EXCEPT !.status = node]
Deliver ==
    /\ listing \in Final /\ listing' = "end"
    /\ delivered' = Result(listing)
    /\ UNCHANGED <<request, round, pending, fresh, executed, keywords, selected, draft, checked, revision, sent, heard>>

Next ==
    \/ ValidateInput \/ InitialResearch \/ Evaluate \/ Supplement \/ BuildPlan
    \/ GenerateCopy \/ ReviseCopy \/ ValidateCopy \/ Deliver
    \/ \E p \in KeywordProviders : Call(p)

Spec == Init /\ [][Next]_vars

-----------------------------------------------------------------------------
(* No provider is asked the same twice in a task that names no seed twice,   *)
(* and research ends without a plan only after all the rounds.               *)
SeedsApart == \A i, j \in DOMAIN request.seeds : request.seeds[i] = request.seeds[j] => i = j
ResearchOnce ==
    /\ \A p \in KeywordProviders : \A i, j \in DOMAIN sent[p] : sent[p][i] = sent[p][j] /\ SeedsApart => i = j
    /\ listing = "insufficient" => round = MaxRounds /\ Gaps(keywords)

(* Evidence is not lost between the rounds: a keyword that every record      *)
(* found relevant stands among the keywords, with all that was observed.     *)
EvidenceKept ==
    listing \in {"supplement", "build_keyword_plan", "insufficient", "generate_copy"} =>
        \A word \in {e.word : e \in heard} :
            LET of == {e \in heard : e.word = word} IN
            (\A e \in of : e.valid) =>
                \E i \in DOMAIN keywords : keywords[i].word = word /\ keywords[i].seen = UNION {e.seen : e \in of}

(* A delivered listing rests on a full plan: as many different keywords as   *)
(* the tiers take, the primary ones known to both providers, none left out   *)
(* for a worse one; and it says nothing that is forbidden, covers three      *)
(* fifths of the plan and is the draft that was checked.                     *)
CopySound ==
    delivered.draft # NoDraft =>
        /\ Cardinality({selected[k].item.word : k \in DOMAIN selected}) = Target /\ Len(selected) = Target
        /\ \A k \in DOMAIN selected : selected[k].tier = 1 => Dual(selected[k].item)
        /\ \A i \in DOMAIN keywords : keywords[i] \notin {selected[k].item : k \in DOMAIN selected} =>
              \A k \in DOMAIN selected : selected[k].tier > 1 => selected[k].item.score >= keywords[i].score
        /\ checked = delivered.draft /\ ~delivered.draft.claim /\ ~delivered.draft.long
        /\ 5 * Cardinality(delivered.draft.words \cap {selected[k].item.word : k \in DOMAIN selected}) >= 3 * Target
        /\ delivered.seen \subseteq UNION {e.seen : e \in heard} /\ revision <= MaxRevisions

(* All of it: research is neither repeated nor lost, and what is delivered   *)
(* rests on it.                                                              *)
ListingSound == ResearchOnce /\ EvidenceKept /\ CopySound
=============================================================================
