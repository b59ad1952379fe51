--------------------------- MODULE AdvertisingAdvice ---------------------------
(***************************************************************************)
(* From the numbers of the campaigns to the todos of the operators: the    *)
(* rules that detect anomalies, the findings of the detail rows, the       *)
(* causes, what the model may make of them, the guarded recommendations    *)
(* and the review (advertising/agents.py, advertising/llm_agents.py).      *)
(*                                                                         *)
(* Texts are left out.  Ratios are pairs of naturals; thresholds are in    *)
(* tenths.  What the model answers is a free choice, one decision after    *)
(* the other, as the loops that read an answer take them.                  *)
(***************************************************************************)
EXTENDS Integers, SequencesExt, Selections

CONSTANTS
    Campaigns,      \* 1..n, in the order of the report
    Snapshots,      \* bound: the numbers a campaign may have in a period
    Details,        \* bound: the sets of rows that may be read together
    Relative,       \* thresholds.relative_change, in tenths
    TargetAcos,     \* goal.target_acos, in tenths
    MinCtr,         \* clicks per impression below 1/MinCtr are too few
    MaxAnomalies,   \* bound: anomalies of the inspection
    MaxReasoned,    \* MAX_LLM_ANOMALIES
    MaxNamed,       \* bound: contributing findings a decision names
    MaxCited,       \* bound: evidence a decision cites
    MaxDecisions    \* bound: decisions of the strategy model

VARIABLES
    advice,         \* how far the diagnosis is
    anomalies,      \* the anomalies, in the order of detection
    findings,
    causes,         \* of the rules, then of the attribution
    narrated,       \* causes taken from the answer so far
    decided,        \* causes with a recommendation
    proposals,      \* the recommendations, in order
    todos,
    rejected        \* positions of rejected recommendations

vars == <<advice, anomalies, findings, causes, narrated, decided, proposals, todos, rejected>>

Init ==
    /\ advice = "inspect" /\ anomalies = <<>> /\ findings = {} /\ causes = {} /\ narrated = {}
    /\ decided = {} /\ proposals = <<>> /\ todos = <<>> /\ rejected = {}

-----------------------------------------------------------------------------
(* Detection. *)
Value(s, metric) ==
    CASE metric = "acos" -> <<s.spend, s.sales>>
      [] metric = "roas" -> <<s.sales, s.spend>>
      [] metric = "cpc" -> <<s.spend, s.clicks>>
      [] metric = "ctr" -> <<s.clicks, s.impressions>>
      [] metric = "cvr" -> <<s.orders, s.clicks>>
      [] OTHER -> <<s[metric], 1>>

Rise == {"spend", "acos", "cpc"}
Metrics == <<"spend", "sales", "orders", "acos", "roas", "cpc", "ctr", "cvr", "impressions">>

(* num/den is how much worse the metric is, against a known positive base.   *)
Worse(metric, now, was) ==
    LET n == now[1] * was[2] - was[1] * now[2] IN
    [num |-> IF metric \in Rise THEN n ELSE -n, den |-> was[1] * now[2]]

Severity(w) ==
    CASE w.num >= w.den -> "critical"
      [] w.num < w.den /\ 10 * w.num >= 6 * w.den -> "high"
      [] 10 * w.num < 6 * w.den /\ 10 * w.num >= 4 * w.den -> "medium"
      [] OTHER -> "low"

Anomaly(c, type, severity, confidence) ==
    [campaign |-> c, type |-> type, severity |-> severity, confidence |-> confidence]

ZeroOrder(c, s) ==
    IF s.clicks > 0 /\ s.orders = 0 THEN <<Anomaly(c, "zero_order", "high", 72)>> ELSE <<>>

Trend(c, s, was, metric) ==
    LET now == Value(s, metric)  before == Value(was, metric)
        w == Worse(metric, now, before)
    IN IF now[2] > 0 /\ before[2] > 0 /\ before[1] > 0 /\ 10 * w.num >= Relative * w.den
       THEN <<Anomaly(c, metric, Severity(w), 72)>> ELSE <<>>

Efficiency(c, s) ==
    (IF s.spend > 0 /\ s.sales > 0 /\ 10 * s.spend >= TargetAcos * s.sales
     THEN <<Anomaly(c, "acos", Severity([num |-> 10 * s.spend - TargetAcos * s.sales, den |-> TargetAcos * s.sales]), 72)>>
     ELSE <<>>) \o
    (IF s.impressions > 0 /\ s.clicks * MinCtr < s.impressions
     THEN <<Anomaly(c, "ctr", Severity([num |-> s.impressions - s.clicks * MinCtr, den |-> s.impressions]), 82)>>
     ELSE <<>>)

NoSnapshot == [impressions |-> -1]
Detect(c, s, was) ==
    ZeroOrder(c, s) \o
    (IF was = NoSnapshot THEN Efficiency(c, s)
     ELSE FlattenSeq([i \in DOMAIN Metrics |-> Trend(c, s, was, Metrics[i])]))

Inspect ==
    /\ advice = "inspect"
    /\ \E now \in [Campaigns -> Snapshots], compared \in BOOLEAN :
       \E was \in [Campaigns -> IF compared THEN Snapshots \cup {NoSnapshot} ELSE {NoSnapshot}] :
          anomalies' = FlattenSeq([c \in Campaigns |-> Detect(c, now[c], was[c])])
    /\ Len(anomalies') <= MaxAnomalies
    /\ advice' = IF anomalies' = <<>> THEN "review" ELSE "attribute"
    /\ UNCHANGED <<findings, causes, narrated, decided, proposals, todos, rejected>>

-----------------------------------------------------------------------------
(* Findings: what a row of a detail report proves about an anomaly of its    *)
(* campaign.  Contributions are in tenths, confidences in hundredths.  A     *)
(* target that is compared with the period before is a row of its own, with  *)
(* its cpc, cvr and bid now in hundredths of what they were, 100 when one is *)
(* not known.                                                                *)
Positions == DOMAIN anomalies
Unnamed == "unnamed"

Proof(row, a) ==
    CASE row.tool # "group" /\ row.object # Unnamed /\ row.spend > 0 /\ row.orders = 0 /\ row.sales = 0 -> {<<6, 92>>}
      [] row.tool \in {"keyword", "targeting"} /\ row.object # Unnamed /\ row.sales > 0
         /\ 10 * row.spend >= TargetAcos * row.sales ->
            {<<(100 * row.spend) \div (TargetAcos * row.sales) - 10, 84>>}
      [] row.tool = "group" /\ row.budget > 0 /\ 10 * row.spend >= 9 * row.budget /\ a.type \in {"impressions", "budget"} ->
            {<<(10 * row.spend) \div row.budget, 80>>}
      [] OTHER -> {}

Statements == <<[of |-> "cpc", sure |-> 86], [of |-> "cvr", sure |-> 86], [of |-> "bid", sure |-> 80]>>
Changed(row) ==
    {k \in 1..3 : \/ k = 1 /\ row.now.cpc >= 120
                  \/ k = 2 /\ row.now.cvr <= 70
                  \/ k = 3 /\ row.now.bid >= 110}

Proved(row, a) ==
    IF row.tool = "compared" THEN {[position |-> Place(Changed(row), k), weight |-> <<8, Statements[k].sure>>] : k \in Changed(row)}
    ELSE {[position |-> 0, weight |-> w] : w \in Proof(row, a)}

Finding(row, p, w) ==
    [row |-> row.id, position |-> w.position, about |-> p, object |-> row.object, weight |-> w.weight,
     evidence |-> <<IF row.tool = "compared" THEN "targeting" ELSE row.tool, row.campaign>>]
FindingsOf(rows) ==
    UNION {UNION {{Finding(row, p, w) : w \in Proved(row, anomalies[p])} :
                     p \in {q \in Positions : row.campaign = anomalies[q].campaign}} : row \in rows}

(* The id of a finding does not tell the compared targets of one report      *)
(* apart; what is looked up by it is the last of them.                       *)
Id(f) == <<f.evidence, f.about, f.position, IF f.position = 0 THEN f.row ELSE 0>>
Known == {f \in findings : ~\E g \in findings : Id(g) = Id(f) /\ g.row > f.row}

Min10(n) == IF n < 10 THEN n ELSE 10
(* The order of sorted(..., reverse=True): contribution, confidence, place.  *)
Earlier(f, g) == f.row < g.row \/ (f.row = g.row /\ f.position < g.position)
Before(f, g) ==
    LET x == Min10(f.weight[1])  y == Min10(g.weight[1]) IN
    x > y \/ (x = y /\ (f.weight[2] > g.weight[2] \/ (f.weight[2] = g.weight[2] /\ Earlier(f, g))))
First(S) == CHOOSE f \in S : \A g \in S \ {f} : Before(f, g)
FirstTwo(S) == {f \in S : Cardinality({g \in S : Before(g, f)}) < 2}
PerObject(S) == {f \in S : \A g \in S : g.object = f.object => ~Before(g, f)}

Cause(p, role, f) ==
    [about |-> p, role |-> role, verified |-> TRUE, finding |-> f, evidence |-> {f.evidence}]
Unproved(p) == [about |-> p, role |-> "primary", verified |-> FALSE, finding |-> <<>>, evidence |-> {<<"inspection">>}]

Deterministic(p, found) ==
    LET proved == {f \in found : f.about = p} IN
    IF proved = {} THEN {Unproved(p)}
    ELSE {Cause(p, "primary", First(proved))} \cup
         {Cause(p, "contributing", f) :
            f \in FirstTwo(PerObject({g \in proved : g.object # First(proved).object}))}

Attribute ==
    /\ advice = "attribute"
    /\ \E rows \in Details : findings' = FindingsOf(rows)
    /\ causes' = UNION {Deterministic(p, findings') : p \in Positions}
    /\ advice' = "reason"
    /\ UNCHANGED <<anomalies, narrated, decided, proposals, todos, rejected>>

-----------------------------------------------------------------------------
(* The model's attribution: it may prefer another finding, name              *)
(* contributing ones and add evidence; what it gets wrong either ends the    *)
(* run or leaves the deterministic causes.                                   *)
Rank == [critical |-> 4, high |-> 3, medium |-> 2, low |-> 1]
Sooner(p, q) ==
    LET a == anomalies[p]  b == anomalies[q] IN
    \/ Rank[a.severity] > Rank[b.severity]
    \/ a.severity = b.severity /\ (a.confidence > b.confidence \/ (a.confidence = b.confidence /\ p < q))
Reasoned == {p \in Positions : Cardinality({q \in Positions : Sooner(q, p)}) < MaxReasoned}
Evidence == {f.evidence : f \in findings} \cup {<<"inspection">>}

(* A decision names a finding first; those it names after it only add their  *)
(* evidence, which it may cite as well.                                      *)
Decision ==
    [about: Positions \cup {0}, finding: Known \cup {<<>>},
     cited: {E \in SUBSET (Evidence \cup {<<"unknown">>}) : E # {} /\ Cardinality(E) <= MaxCited}]

Seen == {c.about : c \in narrated}
Direct(d) == d.finding # <<>> /\ d.finding.about = d.about
InvalidUnseen(d) == d.about \notin Reasoned \/ (Direct(d) /\ ~(d.cited \subseteq Evidence))     \* mutated form of Invalid
Invalid(d) == d.about \notin Reasoned \ Seen \/ (Direct(d) /\ ~(d.cited \subseteq Evidence))

(* Its contributing findings: the first two of those it names of its         *)
(* anomaly, or else those of the rules.                                      *)
All(S) == {S}     \* mutated form of AnyTwo
AnyTwo(S) == {T \in SUBSET S : Cardinality(T) = IF Cardinality(S) < 2 THEN Cardinality(S) ELSE 2}
Named == {S \in SUBSET Known : Cardinality(S) <= MaxNamed}
Further(d) ==
    LET of(S) == {f \in S \ {d.finding} : f.about = d.about}
        ruled == {f \in of(Known) : \E c \in causes : c.role = "contributing" /\ Id(c.finding) = Id(f)}
    IN UNION {AnyTwo(IF of(S) # {} THEN of(S) ELSE ruled) : S \in Named}
Narrated(d, more) ==
    {[Cause(d.about, "primary", d.finding) EXCEPT !.evidence = @ \cup d.cited]} \cup
    {Cause(d.about, "contributing", f) : f \in {g \in more : g.object = Unnamed \/ g.object # d.finding.object}}

(* The next decision of the answer.  One that names no finding of its        *)
(* anomaly is passed over.                                                   *)
Reason ==
    /\ advice = "reason"
    /\ \E d \in Decision :
          \/ Invalid(d) /\ advice' = "failed" /\ narrated' = {}
          \/ /\ ~Invalid(d) /\ Direct(d)
             /\ \E more \in Further(d) : narrated' = narrated \cup Narrated(d, more)
             /\ UNCHANGED advice
    /\ UNCHANGED <<anomalies, findings, causes, decided, proposals, todos, rejected>>

(* The answer has no more decisions, or could not be read at all: the other  *)
(* anomalies that were asked about keep the causes of the rules.             *)
Kept == {c \in causes : c.about \in Reasoned \ Seen}
EndReasoning ==
    /\ advice = "reason"
    /\ causes' = narrated \cup Kept /\ narrated' = {}
    /\ advice' = IF causes' = {} THEN "failed" ELSE "recommend"
    /\ UNCHANGED <<anomalies, findings, decided, proposals, todos, rejected>>

-----------------------------------------------------------------------------
(* Recommendations.  Only a verified primary cause may have one, with        *)
(* evidence of its own; the change is held within bounds.                    *)
ReadOnly == {"observe", "optimize_listing"}
Actions == ReadOnly \cup {"adjust_bid", "adjust_budget", "add_negative"}
Changes(action) == IF action \in {"adjust_bid", "adjust_budget", "observe"} THEN {-50, 0, 50} ELSE {0}
(* Bound: a decision cites one evidence. *)
Proposed == UNION {[about: causes, evidence: {{e} : e \in Evidence}, action: {action}, change: Changes(action)] :
                      action \in Actions}

Clamp(n, low, high) == IF n < low THEN low ELSE IF n > high THEN high ELSE n
Guarded(action, n) ==
    CASE action \in {"adjust_bid", "adjust_budget"} /\ n = 0 -> <<"observe", 3>>
      [] action = "adjust_bid" /\ n # 0 -> <<action, Clamp(n, -30, 30)>>
      [] action = "adjust_budget" /\ n # 0 -> <<action, Clamp(n, -20, 30)>>
      [] action = "observe" -> <<action, Clamp(IF n = 0 THEN 3 ELSE n, 1, 14)>>
      [] OTHER -> <<action, 0>>

Eligible == {c \in causes : c.verified /\ c.role = "primary"}
Accepted(d) == d.about \in Eligible \ decided /\ d.evidence # {} /\ d.evidence \subseteq d.about.evidence

Recommend ==
    /\ advice = "recommend" /\ Len(proposals) < MaxDecisions
    /\ \E d \in Proposed :
          LET g == Guarded(d.action, d.change) IN
          /\ Accepted(d)
          /\ decided' = decided \cup {d.about}
          /\ proposals' = Append(proposals, [about |-> d.about, campaign |-> anomalies[d.about.about].campaign,
                                             action |-> g[1], change |-> g[2], evidence |-> d.evidence])
    /\ UNCHANGED <<advice, anomalies, findings, causes, narrated, todos, rejected>>

(* The model has no more decisions; those that were not accepted left        *)
(* nothing but a warning.                                                    *)
EndRecommending ==
    /\ advice = "recommend"
    /\ advice' = "review"
    /\ UNCHANGED <<anomalies, findings, causes, narrated, decided, proposals, todos, rejected>>

(* A call of the model fails, before any decision of its answer is read.     *)
ModelFails ==
    /\ \/ advice = "reason" /\ narrated = {}
       \/ advice = "recommend" /\ Eligible # {} /\ proposals = <<>>
    /\ advice' = "failed"
    /\ UNCHANGED <<anomalies, findings, causes, narrated, decided, proposals, todos, rejected>>

-----------------------------------------------------------------------------
(* Review: the first recommendation of a key becomes a todo.  Its priority   *)
(* is that of the last anomaly detected for the campaign.                    *)
Twin(i, j) == proposals[i].action = proposals[j].action /\ proposals[i].campaign = proposals[j].campaign
Repeats == {i \in DOMAIN proposals : \E j \in 1..(i - 1) : Twin(i, j)}
LastOf(c) == CHOOSE p \in Positions : anomalies[p].campaign = c /\ \A q \in Positions : anomalies[q].campaign = c => q <= p

Todo(i) ==
    [of |-> i, priority |-> anomalies[LastOf(proposals[i].campaign)].severity, approval |-> TRUE]
New == DOMAIN proposals \ Repeats

Review ==
    /\ advice = "review"
    /\ rejected' = Repeats
    /\ todos' = [k \in 1..Cardinality(New) |-> Todo(Nth(New, k))]
    /\ advice' = CASE anomalies = <<>> -> "no_anomaly"
                   [] anomalies # <<>> /\ todos' # <<>> -> "completed"
                   [] OTHER -> "needs_review"
    /\ UNCHANGED <<anomalies, findings, causes, narrated, decided, proposals>>

Next ==
    Inspect \/ Attribute \/ Reason \/ EndReasoning \/ Recommend \/ EndRecommending \/ ModelFails \/ Review

Spec == Init /\ [][Next]_vars

-----------------------------------------------------------------------------
(* Whatever the model answers and in whatever order, each anomaly it was     *)
(* asked about has exactly one main cause and at most two more, of other     *)
(* objects if they have a name; a verified cause rests on a finding about    *)
(* that anomaly, and a cause is unverified only when there is none.          *)
CausesComplete ==
    advice \in {"recommend", "review", "completed", "needs_review"} =>
        \A p \in Reasoned :
            LET of == {c \in causes : c.about = p} IN
            /\ Cardinality({c \in of : c.role = "primary"}) = 1
            /\ Cardinality(of) <= 3
            /\ \A c \in of : c.verified => (c.finding \in findings /\ c.finding.about = p /\ c.finding.evidence \in c.evidence)
            /\ \A c \in of : c.verified \/ ~\E f \in findings : f.about = p
            /\ \A c \in of : \A d \in of :
                  (c # d /\ c.role = "primary") => (d.finding.object = Unnamed \/ c.finding.object # d.finding.object)

(* A todo comes from a main cause that a finding of its own campaign proves, *)
(* cites evidence the cause has, and changes bids and budgets only within    *)
(* the limits of the guard.                                                  *)
TodosGrounded ==
    \A i \in DOMAIN todos :
        LET r == proposals[todos[i].of] IN
        /\ r.about.verified /\ r.about.role = "primary" /\ r.about \in causes
        /\ \E f \in findings : f.evidence = <<f.evidence[1], r.campaign>> /\ f.about = r.about.about
        /\ r.evidence # {} /\ r.evidence \subseteq r.about.evidence
        /\ r.action = "adjust_bid" => r.change # 0 /\ r.change \in -30..30
        /\ r.action = "adjust_budget" => r.change # 0 /\ r.change \in -20..30

(* After the review each recommendation is a todo or rejected, never both,   *)
(* and no two todos ask for the same action on the same campaign.            *)
TodosDistinct ==
    advice \in {"completed", "needs_review"} =>
        /\ {todos[i].of : i \in DOMAIN todos} = DOMAIN proposals \ rejected
        /\ \A i, j \in DOMAIN todos :
              i # j => <<proposals[todos[i].of].action, proposals[todos[i].of].campaign>> #
                       <<proposals[todos[j].of].action, proposals[todos[j].of].campaign>>

(* All of it: what the user is told to do is proved, within bounds and once. *)
TodosSound == TodosGrounded /\ TodosDistinct

(* The causes and what the user is told to do about them.                    *)
AdviceSound == CausesComplete /\ TodosSound
=============================================================================
