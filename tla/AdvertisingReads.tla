--------------------------- MODULE AdvertisingReads ---------------------------
(***************************************************************************)
(* How the attribution of one advertising diagnosis reads its evidence:    *)
(* the priority campaigns, the batches of each report type, the waves that *)
(* run one batch per type at a time, the quota of each type and round, the *)
(* second round that fills the gaps, the call ledger of the run, and a     *)
(* takeover that resumes at the last checkpoint (advertising/agents.py,    *)
(* advertising/llm_agents.py, advertising/runtime.py).                     *)
(*                                                                         *)
(* A campaign is its rank in the inspection, a batch the set of its        *)
(* campaigns; what a report says of one is only whether it holds a         *)
(* finding.                                                                *)
(***************************************************************************)
EXTENDS Naturals, Sequences, FiniteSets

CONSTANTS
    MaxAnomalous,   \* campaigns with an anomaly
    Tools,          \* DETAIL_TOOLS, in their order
    Single,         \* the report type that is read one campaign at a time
    Trended,        \* the report type that is also read for the baseline period
    MaxFocus,       \* MAX_FOCUS_CAMPAIGNS
    Limit,          \* DETAIL_CALL_LIMIT
    BatchSize,      \* BATCH_SIZE
    MaxCrashes      \* bound: takeovers

Types == {Tools[i] : i \in DOMAIN Tools}
Campaigns == 1..MaxAnomalous
Rounds == 1..2

ASSUME ReadsAssumption ==
    /\ {MaxAnomalous, BatchSize} \subseteq Nat \ {0}
    /\ {MaxFocus, Limit, MaxCrashes} \subseteq Nat
    /\ Tools \in Seq(Types) /\ {Single, Trended} \subseteq Types
    /\ \A i, j \in DOMAIN Tools : Tools[i] = Tools[j] => i = j

VARIABLES
    case,       \* what was asked for and inspected: hyp, scoped, baseline
    pc,         \* where the attribution is
    round,      \* attribution_round
    pending,    \* report type -> its batches that wait
    wave,       \* the calls of the wave whose results are not taken
    reports,    \* batches of Trended answered in this round: their baseline is still to read
    used,       \* round -> report type -> calls reserved
    evidence,   \* pairs of report type and campaign with evidence
    findings,   \* campaigns with a finding
    requested,  \* requested_tools of the last round
    base,       \* stage and round that the ledger's gateway was made with
    ledger,     \* keys of the calls that succeeded
    saved,      \* the newest checkpoint
    crashes,
    (* history *)
    tried,      \* pairs the first execution attempted in the first round
    answered    \* pair of the current period -> times the provider answered it

vars == <<case, pc, round, pending, wave, reports, used, evidence, findings, requested,
          base, ledger, saved, crashes, tried, answered>>

Cases == [hyp: [Campaigns -> Types], scoped: BOOLEAN, baseline: BOOLEAN]
Pairs == Types \X Campaigns
Batches == {B \in SUBSET Campaigns : B # {} /\ Cardinality(B) <= BatchSize}
Calls == [tool: Types, batch: Batches, period: {"current", "baseline"}]
Bases == {<<"queued", 0>>, <<"data_inspection", 0>>, <<"problem_attribution", 1>>, <<"problem_attribution", 2>>}
NoCalls == [r \in Rounds |-> [t \in Types |-> 0]]
Nothing == [t \in Types |-> <<>>]
State == [round |-> round, used |-> used, evidence |-> evidence, findings |-> findings, requested |-> requested]

Init ==
    /\ case \in Cases /\ pc = "plan" /\ round = 0
    /\ pending = Nothing /\ wave = {} /\ reports = <<>> /\ used = NoCalls
    /\ evidence = {} /\ findings = {} /\ requested = {}
    /\ base = <<"queued", 0>> /\ ledger = {} /\ saved = State /\ crashes = 0
    /\ tried = {} /\ answered = [p \in Pairs |-> 0]

-----------------------------------------------------------------------------
(* The plan of a round. *)
Focus == 1..(IF MaxAnomalous < MaxFocus THEN MaxAnomalous ELSE MaxFocus)

(* The campaigns of each request set, in their rank. *)
Primary(t) == {c \in Focus : case.hyp[c] = t}
Secondary(t) == Focus \ Primary(t)
Unresolved == Focus \ findings
FollowUp(t) ==
    IF requested \cap Types = {} \/ t \in requested
    THEN IF Unresolved = {} THEN Focus ELSE Unresolved
    ELSE {}

(* Batches of size campaigns in the order of their ranks. *)
Size(t) == IF t = Single THEN 1 ELSE BatchSize
Before(S, c) == Cardinality({d \in S : d < c})
Batched(t, S) ==
    [i \in 1..((Cardinality(S) + Size(t) - 1) \div Size(t)) |-> {c \in S : Before(S, c) \div Size(t) = i - 1}]

(* The pairs the previous round's evidence names: under a private scope the  *)
(* query of the evidence holds no campaign.                                  *)
QueriedNone == {}     \* mutated form of Queried
Queried == IF case.scoped THEN {} ELSE evidence

Wanted(t, S) == {c \in S : <<t, c>> \notin Queried}
PlannedSecondaryFirst(t) ==     \* mutated form of Planned
    IF round = 0 THEN Batched(t, Wanted(t, Secondary(t))) \o Batched(t, Wanted(t, Primary(t)))
                 ELSE Batched(t, Wanted(t, FollowUp(t)))
Planned(t) ==
    IF round = 0 THEN Batched(t, Wanted(t, Primary(t))) \o Batched(t, Wanted(t, Secondary(t)))
                 ELSE Batched(t, Wanted(t, FollowUp(t)))

Plan ==
    /\ pc = "plan"
    /\ pending' = [t \in Types |-> Planned(t)]
    /\ reports' = <<>>
    /\ pc' = "read"
    /\ UNCHANGED <<case, round, wave, used, evidence, findings, requested, base, ledger, saved, crashes,
                   tried, answered>>

-----------------------------------------------------------------------------
(* The waves of _execute_detail_batches: a call is reserved before it is     *)
(* submitted, and a wave is answered as a whole.                             *)
Number == round + 1
MayReserve(t) == used[Number][t] < Limit
Starting == {t \in Types : pending[t] # <<>> /\ MayReserve(t)}

Call(t) == [tool |-> t, batch |-> Head(pending[t]), period |-> "current"]
Of(k) == {k.tool} \X k.batch

StartWave ==
    /\ pc = "read" /\ wave = {} /\ Starting # {}
    /\ wave' = {Call(t) : t \in Starting}
    /\ pending' = [t \in Types |-> IF t \in Starting THEN Tail(pending[t]) ELSE pending[t]]
    /\ used' = [used EXCEPT ![Number] = [t \in Types |-> IF t \in Starting THEN @[t] + 1 ELSE @[t]]]
    /\ tried' = IF round = 0 /\ crashes = 0 THEN tried \cup UNION {Of(k) : k \in wave'} ELSE tried
    /\ UNCHANGED <<case, pc, round, reports, evidence, findings, requested, base, ledger, saved, crashes, answered>>

(* The ledger of the run knows a call by the stage and the round its gateway *)
(* was made with, the type and the arguments.                                *)
Key(k) == <<base, k.tool, k.batch, k.period>>
Provided(k) ==
    /\ ledger' = ledger \cup {Key(k)}
    /\ answered' = IF Key(k) \in ledger \/ k.period = "baseline" THEN answered
                   ELSE [p \in Pairs |-> IF p \in Of(k) THEN answered[p] + 1 ELSE answered[p]]

(* The results are taken in the order of the report types. *)
Foremost(k) ==
    \E i \in DOMAIN Tools : Tools[i] = k.tool /\ \A l \in wave : l.tool \notin {Tools[j] : j \in 1..(i - 1)}

Answer ==
    /\ pc = "read"
    /\ \E k \in wave :
          /\ Foremost(k)
          /\ wave' = wave \ {k}
          /\ \/ /\ Provided(k)
                /\ \E found \in SUBSET k.batch : findings' = findings \cup found
                /\ evidence' = evidence \cup Of(k)
                /\ reports' = IF k.tool = Trended /\ case.baseline THEN Append(reports, k.batch) ELSE reports
             \/ UNCHANGED <<ledger, answered, findings, evidence, reports>>
    /\ UNCHANGED <<case, pc, round, pending, used, requested, base, saved, crashes, tried>>

(* No batch is left, or no type that has one may reserve: the rest is not    *)
(* read in this round.                                                       *)
EndWaves ==
    /\ pc = "read" /\ wave = {} /\ Starting = {}
    /\ pc' = "baseline" /\ pending' = Nothing
    /\ UNCHANGED <<case, round, wave, reports, used, evidence, findings, requested, base, ledger, saved, crashes,
                   tried, answered>>

(* The baseline of a trended report, from the same quota. *)
ReadBaseline ==
    /\ pc = "baseline" /\ reports # <<>>
    /\ reports' = Tail(reports)
    /\ LET k == [tool |-> Trended, batch |-> Head(reports), period |-> "baseline"] IN
       IF MayReserve(Trended)
       THEN /\ used' = [used EXCEPT ![Number][Trended] = @ + 1]
            /\ \/ Provided(k) /\ \E found \in SUBSET k.batch : findings' = findings \cup found
               \/ UNCHANGED <<ledger, answered, findings>>
       ELSE UNCHANGED <<used, ledger, answered, findings>>
    /\ UNCHANGED <<case, pc, round, pending, wave, evidence, requested, base, saved, crashes, tried>>

(* The result of the round and its checkpoint.  The model may ask for more   *)
(* and name types of its own.                                                *)
More(asks) == round = 0 /\ (Campaigns \ findings # {} \/ asks)
CandidateTools == {case.hyp[c] : c \in Campaigns \ findings} \ {t \in Types : Primary(t) # {}}

Conclude ==
    /\ pc = "baseline" /\ reports = <<>>
    /\ round' = round + 1
    /\ \E asks \in BOOLEAN, named \in SUBSET Types :
          /\ pc' = IF More(asks) THEN "plan" ELSE "done"
          /\ requested' = IF round = 0 /\ More(asks) THEN CandidateTools \cup named ELSE {}
    /\ saved' = [round |-> round', used |-> used, evidence |-> evidence, findings |-> findings, requested |-> requested']
    /\ UNCHANGED <<case, pending, wave, reports, used, evidence, findings, base, ledger, crashes,
                   tried, answered>>

(* The process dies and the run is taken over: the state is the checkpoint's *)
(* and the ledger's gateway is made anew with it.                            *)
RestoredBare == [saved EXCEPT !.evidence = {}, !.findings = {}]     \* mutated form of Restored
Restored == saved

Resume ==
    /\ pc # "done" /\ crashes < MaxCrashes
    /\ crashes' = crashes + 1
    /\ pc' = "plan" /\ pending' = Nothing /\ wave' = {} /\ reports' = <<>>
    /\ round' = Restored.round /\ used' = Restored.used /\ evidence' = Restored.evidence
    /\ findings' = Restored.findings /\ requested' = Restored.requested
    /\ base' = IF saved.round = 0 THEN <<"data_inspection", 0>> ELSE <<"problem_attribution", saved.round>>
    /\ UNCHANGED <<case, ledger, saved, tried, answered>>

Attribute == Plan \/ StartWave \/ Answer \/ EndWaves \/ ReadBaseline \/ Conclude
Next == Attribute \/ Resume

Spec == Init /\ [][Next]_vars

-----------------------------------------------------------------------------
(* Every variable has its type. *)
TypeOK ==
    /\ case \in Cases /\ pc \in {"plan", "read", "baseline", "done"} /\ round \in 0..2
    /\ pending \in [Types -> Seq(Batches)] /\ reports \in Seq(Batches)
    /\ wave \subseteq Calls /\ \A k \in wave : k.tool = Single => Cardinality(k.batch) = 1
    /\ used \in [Rounds -> [Types -> Nat]]
    /\ evidence \subseteq Pairs /\ findings \subseteq Campaigns /\ requested \subseteq Types
    /\ base \in Bases /\ saved.round \in 0..2 /\ crashes \in 0..MaxCrashes
    /\ answered \in [Pairs -> Nat] /\ tried \subseteq Pairs

(* advertising-anomaly-multi-agent-design.md:95: each type is called at most *)
(* Limit times in each round, baseline reads, failed calls and the calls of  *)
(* one wave included, and its 30 calls are enough for the focus: the first   *)
(* round leaves no report of a focus campaign untried.                       *)
HardLimit == \A r \in Rounds, t \in Types : used[r][t] <= Limit
RoundOneCovers ==
    (crashes = 0 /\ Limit >= MaxFocus /\ round > 0) => Types \X Focus \subseteq tried

(* A report type reads no campaign for depth before it has read every        *)
(* campaign it is the most relevant report of.                               *)
PrimaryFirst ==
    \A t \in Types :
        (\E c \in Secondary(t) : <<t, c>> \in tried) => {t} \X Primary(t) \subseteq tried

(* Together: the calls of a round are few enough and go where they count.    *)
QuotaCovers == TypeOK /\ HardLimit /\ RoundOneCovers /\ PrimaryFirst

(* In a run without a private scope a query that was answered is sent again  *)
(* only because a takeover repeats the round it was answered in.             *)
RepeatedByTakeover == ~case.scoped => \A p \in Pairs : answered[p] <= 1 + crashes

(* agents.py:595 says of the second round that it never repeats a completed  *)
(* query.                                                                    *)
NeverRepeats == crashes = 0 => \A p \in Pairs : answered[p] <= 1

(* The evidence of a round is not lost by the next one, nor by a takeover    *)
(* that happens after its checkpoint.                                        *)
EvidenceKept == [][saved.evidence \subseteq evidence' /\ saved.findings \subseteq findings']_vars
=============================================================================
