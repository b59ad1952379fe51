------------------------- MODULE SharedServicesProofs -------------------------
(***************************************************************************)
(* Proofs about the services behind the agents: the calls of the MCP       *)
(* providers, the catalog of read-only tools, the knowledge vault, the     *)
(* listing agent and the imports of reports.  Each part speaks of a        *)
(* service for itself; its last theorem is about all of them.              *)
(***************************************************************************)
EXTENDS SharedServices, FiniteSetTheorems, SequenceTheorems, TLAPS

-----------------------------------------------------------------------------
(* Whoever calls, whatever a session ends with: the slots of a provider are  *)
(* kept and the caller learns what happened.                                 *)
CallRecords == [at : Stages, provider : Providers \cup {"none"}, tool : Tools \cup {"none"}]

(* While a call is under way nothing has come back of it.                    *)
NothingCame == \A c \in Callers : call[c].at # "idle" => came[c] = Nothing

(* The inductive invariant.                                                  *)
Inv == TypeOK /\ NothingCame /\ SlotsKept /\ OutcomeTrue

-----------------------------------------------------------------------------
(* What a caller may have learnt, and what may have come, are of one shape    *)
(* each.                                                                     *)
LEMMA Shapes ==
  /\ Nothing \in Replies /\ NotTold \in Outcomes
  /\ \A code \in Codes, retry \in BOOLEAN : Error(code, retry) \in Outcomes
  /\ Error("MCP_TOOL_NOT_ALLOWED", FALSE) \in Outcomes
  /\ Error("MCP_SECRET_MISSING", FALSE) \in Outcomes
  /\ NoCall \in CallRecords
  /\ \A p \in Providers, t \in Tools : [at |-> "secret", provider |-> p, tool |-> t] \in CallRecords
  /\ \A r \in CallRecords, at \in {"waiting", "session"} :
        /\ [r EXCEPT !.at = at] \in CallRecords /\ [r EXCEPT !.at = at].at = at
        /\ [r EXCEPT !.at = at].provider = r.provider
<1>1. Nothing \in Replies /\ NotTold \in Outcomes
  BY DEF Nothing, Reply, Replies, NotTold, Told, Outcomes, Codes
<1>2. \A code \in Codes, retry \in BOOLEAN : Error(code, retry) \in Outcomes
  BY DEF Error, Told, Outcomes
<1>3. "MCP_TOOL_NOT_ALLOWED" \in Codes /\ "MCP_SECRET_MISSING" \in Codes
  BY DEF Codes
<1>4. /\ NoCall \in CallRecords
      /\ \A p \in Providers, t \in Tools : [at |-> "secret", provider |-> p, tool |-> t] \in CallRecords
      /\ \A r \in CallRecords, at \in {"waiting", "session"} :
            /\ [r EXCEPT !.at = at] \in CallRecords /\ [r EXCEPT !.at = at].at = at
            /\ [r EXCEPT !.at = at].provider = r.provider
  BY DEF NoCall, CallRecords, Stages
<1> QED
  BY <1>1, <1>2, <1>3, <1>4

(* An error without a retry fits a call of which nothing came.               *)
LEMMA FitsNothing ==
  ASSUME NEW got, got.kind # "payload", got.retry = FALSE
  PROVE  Fits(got, Nothing)
BY DEF Fits, MayRetry, Nothing, Reply

(* What came of a session or around it, taken apart.                         *)
LEMMA ReplyKinds ==
  ASSUME NEW reply \in Results \cup ToolErrors \cup Exceptions \cup Failures
  PROVE  /\ reply \in Replies
         /\ \/ reply.kind = "payload"
            \/ reply.kind = "tool_error"
            \/ reply.kind = "exception" /\ reply.type \in Types /\ reply.text \in SUBSET Phrases
            \/ reply.kind = "failure" /\ reply.type \in Types /\ reply.text = {}
<1>1. CASE reply \in Results
  BY <1>1 DEF Results, Reply, Replies
<1>2. CASE reply \in ToolErrors
  BY <1>2 DEF ToolErrors, Reply, Replies
<1>3. CASE reply \in Exceptions
  BY <1>3 DEF Exceptions, Reply, Replies
<1>4. CASE reply \in Failures
  BY <1>4 DEF Failures, Reply, Replies
<1> QED
  BY <1>1, <1>2, <1>3, <1>4

(* The classification fits what came: only a payload is taken for data, a    *)
(* proper code is passed on, and a retry is told exactly when it may help.   *)
LEMMA LearntTrue ==
  ASSUME NEW reply \in Results \cup ToolErrors \cup Exceptions \cup Failures
  PROVE  Learnt(reply) \in Outcomes /\ Fits(Learnt(reply), reply)
<1>1. CASE reply.kind = "payload"
  <2>1. Learnt(reply) = Told("payload", "none", FALSE)
    BY <1>1 DEF Learnt
  <2> QED
    BY <1>1, <2>1 DEF Told, Outcomes, Codes, Fits, MayRetry
<1>2. CASE reply.kind = "tool_error"
  <2>1. Learnt(reply) = Error(ToolErrorCode(reply), FALSE)
    BY <1>2 DEF Learnt
  <2>2. ToolErrorCode(reply) \in Codes /\ (reply.code # "none" => ToolErrorCode(reply) = reply.code)
    BY <1>2, ReplyKinds DEF ToolErrorCode, Replies, Codes
  <2>3. Learnt(reply) \in Outcomes
    BY <2>1, <2>2, Shapes
  <2>4. Learnt(reply).kind = "error" /\ Learnt(reply).code = ToolErrorCode(reply) /\ Learnt(reply).retry = FALSE
    BY <2>1 DEF Error, Told
  <2> QED
    BY <1>2, <2>2, <2>3, <2>4 DEF Fits, MayRetry
<1>3. CASE reply.kind = "exception"
  <2>1. Learnt(reply) = Classified(reply)
    BY <1>3 DEF Learnt
  <2>2. PICK code \in Codes, retry \in BOOLEAN :
          Classified(reply) = Error(code, retry) /\ (retry <=> MayRetry(reply))
    <3>1. CASE "unknown tool" \in reply.text
      <4>1. Classified(reply) = Error("MCP_TOOL_UNAVAILABLE", FALSE) /\ ~MayRetry(reply) /\ "MCP_TOOL_UNAVAILABLE" \in Codes
        BY <3>1 DEF Classified, MayRetry, Codes
      <4> QED
        BY <4>1
    <3>2. CASE "unknown tool" \notin reply.text /\ "catalogversion" \in reply.text
      <4>1. /\ Classified(reply) = Error("MCP_CATALOG_VERSION_STALE", FALSE) /\ ~MayRetry(reply)
            /\ "MCP_CATALOG_VERSION_STALE" \in Codes
        BY <3>2 DEF Classified, MayRetry, Codes
      <4> QED
        BY <4>1
    <3>3. CASE "unknown tool" \notin reply.text /\ "catalogversion" \notin reply.text /\ "rate limit" \in reply.text
      <4>1. Classified(reply) = Error("MCP_RATE_LIMITED", TRUE) /\ MayRetry(reply) /\ "MCP_RATE_LIMITED" \in Codes
        BY <1>3, <3>3 DEF Classified, MayRetry, Codes
      <4> QED
        BY <4>1
    <3>4. CASE "unknown tool" \notin reply.text /\ "catalogversion" \notin reply.text /\ "rate limit" \notin reply.text
      <4> DEFINE retry == "timeout" \in reply.text \/ reply.type \in Temporary
      <4>1. Classified(reply) = Error("MCP_TRANSPORT_FAILURE", retry) /\ "MCP_TRANSPORT_FAILURE" \in Codes
        BY <3>4 DEF Classified, Codes
      <4>2. retry \in BOOLEAN /\ (retry <=> MayRetry(reply))
        BY <1>3, <3>4 DEF MayRetry
      <4> HIDE DEF retry
      <4> QED
        BY <4>1, <4>2
    <3> QED
      BY <3>1, <3>2, <3>3, <3>4
  <2>3. Learnt(reply) \in Outcomes
    BY <2>1, <2>2, Shapes
  <2>4. Learnt(reply).kind = "error" /\ Learnt(reply).retry = retry
    BY <2>1, <2>2 DEF Error, Told
  <2> QED
    BY <1>3, <2>2, <2>3, <2>4 DEF Fits
<1>4. CASE reply.kind = "failure"
  <2>1. Learnt(reply) = Unclassified(reply) /\ reply.text = {}
    BY <1>4, ReplyKinds DEF Learnt
  <2>2. CASE reply.type \in Temporary
    <3>1. Learnt(reply) = Error("MCP_TEMPORARY_FAILURE", TRUE) /\ "MCP_TEMPORARY_FAILURE" \in Codes
      BY <2>1, <2>2 DEF Unclassified, Codes
    <3>2. Learnt(reply) \in Outcomes
      BY <3>1, Shapes
    <3>3. Learnt(reply).kind = "error" /\ Learnt(reply).retry = TRUE
      BY <3>1 DEF Error, Told
    <3> QED
      BY <1>4, <2>1, <2>2, <3>2, <3>3 DEF Fits, MayRetry
  <2>3. CASE reply.type \notin Temporary
    <3>1. Learnt(reply) = Error("MCP_TOOL_CALL_FAILED", FALSE) /\ "MCP_TOOL_CALL_FAILED" \in Codes
      BY <2>1, <2>3 DEF Unclassified, Codes
    <3>2. Learnt(reply) \in Outcomes
      BY <3>1, Shapes
    <3>3. Learnt(reply).kind = "error" /\ Learnt(reply).retry = FALSE
      BY <3>1 DEF Error, Told
    <3> QED
      BY <1>4, <2>1, <2>3, <3>2, <3>3 DEF Fits, MayRetry
  <2> QED
    BY <2>2, <2>3
<1> QED
  BY <1>1, <1>2, <1>3, <1>4, ReplyKinds

(* The sessions with a provider are finitely many.                           *)
LEMMA SessionsFinite ==
  \A p : IsFiniteSet(Sessions(p)) /\ Cardinality(Sessions(p)) \in Nat
<1> SUFFICES ASSUME NEW p PROVE IsFiniteSet(Sessions(p)) /\ Cardinality(Sessions(p)) \in Nat
  OBVIOUS
<1>1. Sessions(p) \in SUBSET Callers
  BY DEF Sessions
<1>2. IsFiniteSet(Sessions(p))
  BY <1>1, FS_Subset, ProviderAssumption
<1> QED
  BY <1>2, FS_CardinalityType

-----------------------------------------------------------------------------
(* No call has begun.                                                        *)
LEMMA InitInv == Init => Inv
<1> SUFFICES ASSUME Init PROVE Inv
  OBVIOUS
<1>1. TypeOK
  <2>1. call \in [Callers -> CallRecords] /\ \A c \in Callers : call[c].at = "idle"
    <3>1. \A c \in Callers : call[c] = NoCall
      BY DEF Init
    <3>2. call \in [Callers -> CallRecords]
      BY Shapes DEF Init
    <3> QED
      BY <3>1, <3>2 DEF NoCall
  <2>2. outcome \in [Callers -> Outcomes] /\ came \in [Callers -> Replies]
    BY Shapes DEF Init
  <2>3. slots \in [Providers -> Nat] /\ made \in [Callers -> Nat]
    BY ProviderAssumption DEF Init
  <2> QED
    BY <2>1, <2>2, <2>3 DEF TypeOK, CallRecords
<1>2. NothingCame /\ OutcomeTrue
  <2>1. Fits(NotTold, Nothing)
    BY FitsNothing DEF NotTold, Told
  <2> QED
    BY <2>1 DEF Init, NothingCame, OutcomeTrue, OutcomeOf, NoCall
<1>3. SlotsKept
  <2> SUFFICES ASSUME NEW p \in Providers PROVE slots[p] + Cardinality(Sessions(p)) = Limit[p]
    BY DEF SlotsKept
  <2>1. Sessions(p) = {}
    BY DEF Init, Sessions, NoCall
  <2>2. Cardinality(Sessions(p)) = 0
    BY <2>1, FS_EmptySet
  <2>3. slots[p] = Limit[p] /\ Limit[p] \in Nat
    BY ProviderAssumption DEF Init
  <2> QED
    BY <2>2, <2>3
<1> QED
  BY <1>1, <1>2, <1>3 DEF Inv

(* A step that neither takes nor gives a slot, and leaves every session as it *)
(* is, keeps the slots.                                                      *)
LEMMA SlotsUntouched ==
  ASSUME SlotsKept, UNCHANGED slots, \A p \in Providers : Sessions(p)' = Sessions(p)
  PROVE  SlotsKept'
BY DEF SlotsKept

(* A call that begins, or is refused.                                        *)
LEMMA BeginKeeps ==
  ASSUME Inv, NEW c \in Callers, Begin(c)
  PROVE  Inv'
<1> USE DEF Inv
<1>1. /\ call[c].at = "idle" /\ made' = [made EXCEPT ![c] = @ + 1]
      /\ came' = [came EXCEPT ![c] = Nothing] /\ UNCHANGED slots
  BY DEF Begin
<1>2. PICK p \in Providers, t \in Tools :
        IF t \in Allowed[p]
        THEN call' = [call EXCEPT ![c] = [at |-> "secret", provider |-> p, tool |-> t]] /\ UNCHANGED outcome
        ELSE Ends(c, Error("MCP_TOOL_NOT_ALLOWED", FALSE))
  BY DEF Begin
<1>3. \/ /\ call' = [call EXCEPT ![c] = [at |-> "secret", provider |-> p, tool |-> t]]
         /\ UNCHANGED outcome
      \/ /\ call' = [call EXCEPT ![c] = NoCall]
         /\ outcome' = [outcome EXCEPT ![c] = Error("MCP_TOOL_NOT_ALLOWED", FALSE)]
  BY <1>2 DEF Ends
<1>4. /\ call' \in [Callers -> CallRecords] /\ \A d \in Callers \ {c} : call'[d] = call[d]
      /\ call'[c].at \in {"idle", "secret"} /\ (call'[c].at = "secret" => call'[c].provider = p)
      /\ call'[c].at = "idle" => outcome'[c] = Error("MCP_TOOL_NOT_ALLOWED", FALSE)
  <2>1. CASE /\ call' = [call EXCEPT ![c] = [at |-> "secret", provider |-> p, tool |-> t]]
             /\ UNCHANGED outcome
    <3>1. call' \in [Callers -> CallRecords] /\ \A d \in Callers \ {c} : call'[d] = call[d]
      BY <2>1, Shapes DEF TypeOK, CallRecords
    <3>2. call'[c] = [at |-> "secret", provider |-> p, tool |-> t]
      BY <2>1 DEF TypeOK
    <3> QED
      BY <3>1, <3>2
  <2>2. CASE /\ call' = [call EXCEPT ![c] = NoCall]
             /\ outcome' = [outcome EXCEPT ![c] = Error("MCP_TOOL_NOT_ALLOWED", FALSE)]
    <3>1. call' \in [Callers -> CallRecords] /\ \A d \in Callers \ {c} : call'[d] = call[d]
      BY <2>2, Shapes DEF TypeOK, CallRecords
    <3>2. call'[c] = NoCall /\ outcome'[c] = Error("MCP_TOOL_NOT_ALLOWED", FALSE)
      BY <2>2 DEF TypeOK
    <3> QED
      BY <3>1, <3>2 DEF NoCall
  <2> QED
    BY <1>3, <2>1, <2>2
<1>5. TypeOK'
  <2>1. made' \in [Callers -> Nat] /\ came' \in [Callers -> Replies]
    BY <1>1, Shapes DEF TypeOK
  <2>2. outcome' \in [Callers -> Outcomes]
    BY <1>3, Shapes DEF TypeOK
  <2>3. \A d \in Callers : call'[d].at # "idle" => call'[d].provider \in Providers
    BY <1>4 DEF TypeOK
  <2> QED
    BY <1>1, <1>4, <2>1, <2>2, <2>3 DEF TypeOK, CallRecords
<1>6. \A d \in Callers \ {c} : came'[d] = came[d] /\ outcome'[d] = outcome[d]
  BY <1>1, <1>3 DEF TypeOK
<1>7. came'[c] = Nothing
  BY <1>1 DEF TypeOK
<1>8. NothingCame'
  BY <1>4, <1>6, <1>7 DEF NothingCame
<1>9. SlotsKept'
  <2>1. \A q \in Providers : Sessions(q)' = Sessions(q)
    BY <1>1, <1>4 DEF Sessions
  <2> QED
    BY <1>1, <2>1, SlotsUntouched
<1>10. OutcomeTrue'
  <2>1. OutcomeOf(c)'
    <3>1. Fits(Error("MCP_TOOL_NOT_ALLOWED", FALSE), Nothing)
      BY FitsNothing DEF Error, Told
    <3> QED
      BY <1>4, <1>7, <3>1 DEF OutcomeOf
  <2>2. ASSUME NEW d \in Callers \ {c} PROVE OutcomeOf(d)'
    BY <1>4, <1>6 DEF OutcomeTrue, OutcomeOf
  <2> QED
    BY <2>1, <2>2 DEF OutcomeTrue
<1> QED
  BY <1>5, <1>8, <1>9, <1>10

(* The secret that is read, or missing.                                      *)
LEMMA ReadSecretKeeps ==
  ASSUME Inv, NEW c \in Callers, ReadSecret(c)
  PROVE  Inv'
<1> USE DEF Inv
<1>1. call[c].at = "secret" /\ UNCHANGED <<slots, made>>
  BY DEF ReadSecret
<1>2. \/ call' = [call EXCEPT ![c].at = "waiting"] /\ UNCHANGED <<outcome, came>>
      \/ /\ call' = [call EXCEPT ![c] = NoCall] /\ UNCHANGED came
         /\ outcome' = [outcome EXCEPT ![c] = Error("MCP_SECRET_MISSING", FALSE)]
      \/ \E reply \in Failures :
            /\ call' = [call EXCEPT ![c] = NoCall]
            /\ outcome' = [outcome EXCEPT ![c] = Learnt(reply)] /\ came' = [came EXCEPT ![c] = reply]
  BY DEF ReadSecret, Ends
<1>3. came[c] = Nothing
  BY <1>1 DEF NothingCame
<1>4. /\ call' \in [Callers -> CallRecords] /\ \A d \in Callers \ {c} : call'[d] = call[d]
      /\ call'[c].at \in {"idle", "waiting"}
      /\ call'[c].at = "waiting" => call'[c].provider = call[c].provider /\ came'[c] = Nothing
      /\ call'[c].at = "idle" => Fits(outcome'[c], came'[c])
      /\ outcome' \in [Callers -> Outcomes] /\ came' \in [Callers -> Replies]
      /\ \A d \in Callers \ {c} : came'[d] = came[d] /\ outcome'[d] = outcome[d]
  <2>1. CASE call' = [call EXCEPT ![c].at = "waiting"] /\ UNCHANGED <<outcome, came>>
    <3>1. call[c] \in CallRecords /\ call' = [call EXCEPT ![c] = [call[c] EXCEPT !.at = "waiting"]]
      BY <2>1 DEF TypeOK, CallRecords
    <3>2. call' \in [Callers -> CallRecords] /\ \A d \in Callers \ {c} : call'[d] = call[d]
      <4>1. [call[c] EXCEPT !.at = "waiting"] \in CallRecords
        BY <3>1, Shapes
      <4> QED
        BY <3>1, <4>1 DEF TypeOK, CallRecords
    <3>3. call'[c] = [call[c] EXCEPT !.at = "waiting"]
      BY <3>1 DEF TypeOK
    <3>4. call'[c].at = "waiting" /\ call'[c].provider = call[c].provider
      BY <3>1, <3>3, Shapes
    <3> QED
      BY <1>3, <2>1, <3>2, <3>4 DEF TypeOK
  <2>2. CASE \E got \in Outcomes, reply \in Replies :
               /\ call' = [call EXCEPT ![c] = NoCall] /\ Fits(got, reply)
               /\ outcome' = [outcome EXCEPT ![c] = got] /\ came' = [came EXCEPT ![c] = reply]
    <3>1. PICK got \in Outcomes, reply \in Replies :
               /\ call' = [call EXCEPT ![c] = NoCall] /\ Fits(got, reply)
               /\ outcome' = [outcome EXCEPT ![c] = got] /\ came' = [came EXCEPT ![c] = reply]
      BY <2>2
    <3>2. call' \in [Callers -> CallRecords] /\ \A d \in Callers \ {c} : call'[d] = call[d]
      BY <3>1, Shapes DEF TypeOK, CallRecords
    <3>3. call'[c] = NoCall /\ outcome'[c] = got /\ came'[c] = reply
      BY <3>1 DEF TypeOK
    <3>4. outcome' \in [Callers -> Outcomes] /\ came' \in [Callers -> Replies]
      BY <3>1 DEF TypeOK
    <3>5. \A d \in Callers \ {c} : came'[d] = came[d] /\ outcome'[d] = outcome[d]
      BY <3>1 DEF TypeOK
    <3> QED
      BY <3>1, <3>2, <3>3, <3>4, <3>5 DEF NoCall
  <2>3. CASE /\ call' = [call EXCEPT ![c] = NoCall] /\ UNCHANGED came
             /\ outcome' = [outcome EXCEPT ![c] = Error("MCP_SECRET_MISSING", FALSE)]
    <3>1. Fits(Error("MCP_SECRET_MISSING", FALSE), Nothing)
      BY FitsNothing DEF Error, Told
    <3>2. came' = [came EXCEPT ![c] = Nothing]
      BY <1>3, <2>3 DEF TypeOK
    <3> QED
      BY <2>2, <2>3, <3>1, <3>2, Shapes
  <2>4. CASE \E reply \in Failures :
               /\ call' = [call EXCEPT ![c] = NoCall]
               /\ outcome' = [outcome EXCEPT ![c] = Learnt(reply)] /\ came' = [came EXCEPT ![c] = reply]
    BY <2>2, <2>4, LearntTrue, ReplyKinds
  <2> QED
    BY <1>2, <2>1, <2>3, <2>4
<1>5. TypeOK'
  <2>1. \A d \in Callers : call'[d].at # "idle" => call'[d].provider \in Providers
    BY <1>1, <1>4 DEF TypeOK
  <2> QED
    BY <1>1, <1>4, <2>1 DEF TypeOK, CallRecords
<1>6. NothingCame'
  BY <1>4 DEF NothingCame
<1>7. SlotsKept'
  <2>1. \A q \in Providers : Sessions(q)' = Sessions(q)
    BY <1>1, <1>4 DEF Sessions
  <2> QED
    BY <1>1, <2>1, SlotsUntouched
<1>8. OutcomeTrue'
  BY <1>4 DEF OutcomeTrue, OutcomeOf
<1> QED
  BY <1>5, <1>6, <1>7, <1>8

(* A call that is given a slot.                                              *)
LEMMA AcquireKeeps ==
  ASSUME Inv, NEW c \in Callers, Acquire(c)
  PROVE  Inv'
<1> USE DEF Inv
<1> DEFINE p == call[c].provider
<1>1. /\ call[c].at = "waiting" /\ slots[p] > 0 /\ UNCHANGED <<outcome, came, made>>
      /\ slots' = [slots EXCEPT ![p] = @ - 1] /\ call' = [call EXCEPT ![c].at = "session"]
  BY DEF Acquire
<1>2. p \in Providers /\ slots[p] \in Nat
  BY <1>1 DEF TypeOK
<1>3. /\ call' \in [Callers -> CallRecords] /\ \A d \in Callers \ {c} : call'[d] = call[d]
      /\ call'[c].at = "session" /\ call'[c].provider = p
  <2>1. call[c] \in CallRecords /\ call' = [call EXCEPT ![c] = [call[c] EXCEPT !.at = "session"]]
    BY <1>1 DEF TypeOK, CallRecords
  <2>2. /\ [call[c] EXCEPT !.at = "session"] \in CallRecords
        /\ [call[c] EXCEPT !.at = "session"].at = "session" /\ [call[c] EXCEPT !.at = "session"].provider = p
    BY <2>1, Shapes
  <2>3. call'[c] = [call[c] EXCEPT !.at = "session"]
    BY <2>1 DEF TypeOK
  <2>4. call' \in [Callers -> CallRecords] /\ \A d \in Callers \ {c} : call'[d] = call[d]
    BY <2>1, <2>2 DEF TypeOK, CallRecords
  <2> QED
    BY <2>2, <2>3, <2>4
<1>4. TypeOK' /\ NothingCame'
  <2>1. slots' \in [Providers -> Nat]
    BY <1>1, <1>2 DEF TypeOK
  <2>2. \A d \in Callers : call'[d].at # "idle" => call'[d].provider \in Providers
    BY <1>2, <1>3 DEF TypeOK
  <2>3. TypeOK'
    BY <1>1, <1>3, <2>1, <2>2 DEF TypeOK, CallRecords
  <2>4. NothingCame'
    BY <1>1, <1>3 DEF NothingCame
  <2> QED
    BY <2>3, <2>4
<1>5. SlotsKept'
  <2> SUFFICES ASSUME NEW q \in Providers PROVE slots'[q] + Cardinality(Sessions(q)') = Limit[q]
    BY DEF SlotsKept
  <2>1. slots[q] \in Nat /\ Limit[q] \in Nat /\ slots[q] + Cardinality(Sessions(q)) = Limit[q]
    BY ProviderAssumption DEF TypeOK, SlotsKept
  <2>2. CASE q = p
    <3>1. Sessions(q)' = Sessions(q) \cup {c} /\ c \notin Sessions(q)
      BY <1>1, <1>3, <2>2 DEF Sessions
    <3>2. Cardinality(Sessions(q)') = Cardinality(Sessions(q)) + 1
      BY <3>1, SessionsFinite, FS_AddElement
    <3>3. slots'[q] = slots[q] - 1
      BY <1>1, <2>2 DEF TypeOK
    <3> QED
      BY <2>1, <3>2, <3>3, SessionsFinite
  <2>3. CASE q # p
    <3>1. Sessions(q)' = Sessions(q)
      BY <1>1, <1>3, <2>3 DEF Sessions
    <3> QED
      BY <1>1, <2>1, <2>3, <3>1 DEF TypeOK
  <2> QED
    BY <2>2, <2>3
<1>6. OutcomeTrue'
  BY <1>1, <1>3 DEF OutcomeTrue, OutcomeOf
<1> QED
  BY <1>4, <1>5, <1>6

(* A session that ends, in whatever way.                                     *)
LEMMA EndSessionKeeps ==
  ASSUME Inv, NEW c \in Callers, EndSession(c)
  PROVE  Inv'
<1> USE DEF Inv
<1> DEFINE p == call[c].provider
<1>1. call[c].at = "session" /\ UNCHANGED made
  BY DEF EndSession
<1>2. PICK reply \in Results \cup ToolErrors \cup Exceptions \cup Failures :
        /\ came' = [came EXCEPT ![c] = reply] /\ slots' = [slots EXCEPT ![p] = @ + 1]
        /\ call' = [call EXCEPT ![c] = NoCall] /\ outcome' = [outcome EXCEPT ![c] = Learnt(reply)]
  BY DEF EndSession, Released, Ends
<1>3. p \in Providers /\ slots[p] \in Nat
  BY <1>1 DEF TypeOK
<1>4. Learnt(reply) \in Outcomes /\ reply \in Replies /\ Fits(Learnt(reply), reply)
  BY LearntTrue, ReplyKinds
<1>5. /\ call' \in [Callers -> CallRecords] /\ \A d \in Callers \ {c} : call'[d] = call[d]
      /\ call'[c].at = "idle"
  <2>1. call' \in [Callers -> CallRecords] /\ \A d \in Callers \ {c} : call'[d] = call[d]
    BY <1>2, Shapes DEF TypeOK, CallRecords
  <2>2. call'[c] = NoCall
    BY <1>2 DEF TypeOK
  <2> QED
    BY <2>1, <2>2 DEF NoCall
<1>6. TypeOK' /\ NothingCame'
  <2>1. slots' \in [Providers -> Nat]
    BY <1>2, <1>3 DEF TypeOK
  <2>2. came' \in [Callers -> Replies] /\ outcome' \in [Callers -> Outcomes]
    BY <1>2, <1>4 DEF TypeOK
  <2>3. \A d \in Callers : call'[d].at # "idle" => call'[d].provider \in Providers
    BY <1>5 DEF TypeOK
  <2>4. TypeOK'
    BY <1>1, <1>5, <2>1, <2>2, <2>3 DEF TypeOK, CallRecords
  <2>5. \A d \in Callers \ {c} : came'[d] = came[d]
    BY <1>2 DEF TypeOK
  <2>6. NothingCame'
    BY <1>5, <2>5 DEF NothingCame
  <2> QED
    BY <2>4, <2>6
<1>7. SlotsKept'
  <2> SUFFICES ASSUME NEW q \in Providers PROVE slots'[q] + Cardinality(Sessions(q)') = Limit[q]
    BY DEF SlotsKept
  <2>1. slots[q] \in Nat /\ Limit[q] \in Nat /\ slots[q] + Cardinality(Sessions(q)) = Limit[q]
    BY ProviderAssumption DEF TypeOK, SlotsKept
  <2>2. CASE q = p
    <3>1. Sessions(q)' = Sessions(q) \ {c} /\ c \in Sessions(q)
      BY <1>1, <1>5, <2>2 DEF Sessions
    <3>2. Cardinality(Sessions(q)') = Cardinality(Sessions(q)) - 1
      BY <3>1, SessionsFinite, FS_RemoveElement
    <3>3. slots'[q] = slots[q] + 1
      BY <1>2, <2>2 DEF TypeOK
    <3> QED
      BY <2>1, <3>2, <3>3, SessionsFinite
  <2>3. CASE q # p
    <3>1. Sessions(q)' = Sessions(q)
      BY <1>5, <2>3 DEF Sessions
    <3> QED
      BY <1>2, <2>1, <2>3, <3>1 DEF TypeOK
  <2> QED
    BY <2>2, <2>3
<1>8. OutcomeTrue'
  <2>1. came'[c] = reply /\ outcome'[c] = Learnt(reply)
    BY <1>2 DEF TypeOK
  <2>2. OutcomeOf(c)'
    BY <1>4, <2>1 DEF OutcomeOf
  <2>3. \A d \in Callers \ {c} : came'[d] = came[d] /\ outcome'[d] = outcome[d]
    BY <1>2 DEF TypeOK
  <2>4. ASSUME NEW d \in Callers \ {c} PROVE OutcomeOf(d)'
    BY <1>5, <2>3 DEF OutcomeTrue, OutcomeOf
  <2> QED
    BY <2>2, <2>4 DEF OutcomeTrue
<1> QED
  BY <1>6, <1>7, <1>8

-----------------------------------------------------------------------------
(* Every step of the client.                                                 *)
LEMMA StepInv == Inv /\ [Next]_vars => Inv'
<1> SUFFICES ASSUME Inv, [Next]_vars PROVE Inv'
  OBVIOUS
<1>1. CASE \E c \in Callers : Begin(c) \/ ReadSecret(c) \/ Acquire(c) \/ EndSession(c)
  BY <1>1, BeginKeeps, ReadSecretKeeps, AcquireKeeps, EndSessionKeeps
<1>2. CASE UNCHANGED vars
  BY <1>2 DEF vars, Inv, TypeOK, NothingCame, SlotsKept, Sessions, OutcomeTrue, OutcomeOf
<1> QED
  BY <1>1, <1>2 DEF Next

(* However calls interleave and fail, the free slots of a provider and its   *)
(* sessions are its limit, and every caller has learnt what came back: the   *)
(* slot is released in the finally of mcp_transport.py, and the failure is   *)
(* classified behind it.                                                     *)
THEOREM CallsKept == Spec => []CallsSound
<1>1. Inv => CallsSound
  BY DEF Inv, CallsSound
<1> QED
  BY <1>1, InitInv, StepInv, PTL DEF Spec

(* A provider never has more sessions than its limit: the semaphore of the   *)
(* transport holds whichever threads call.                                   *)
THEOREM SessionsBounded == Spec => [](\A p \in Providers : Cardinality(Sessions(p)) <= Limit[p])
<1>1. Inv => \A p \in Providers : Cardinality(Sessions(p)) <= Limit[p]
  <2> SUFFICES ASSUME Inv, NEW p \in Providers PROVE Cardinality(Sessions(p)) <= Limit[p]
    OBVIOUS
  <2>1. slots[p] \in Nat /\ slots[p] + Cardinality(Sessions(p)) = Limit[p]
    BY DEF Inv, TypeOK, SlotsKept
  <2>2. \A a, b \in Nat : b <= a + b
    OBVIOUS
  <2> QED
    BY <2>1, <2>2, SessionsFinite
<1> QED
  BY <1>1, InitInv, StepInv, PTL DEF Spec

-----------------------------------------------------------------------------
(***************************************************************************)
(* The catalog of read-only tools: what is sent, and when looking up once  *)
(* more is not enough.                                                     *)
(***************************************************************************)
Entries == [catalog : Nat, schema : Nat]
CatalogStages == {"idle", "help", "search", "keep", "action", "again"}
CatalogJobRecords ==
  [at : CatalogStages, todo : Seq(STRING), attempt : {0, 1}, entry : Entries, began : Nat, spoiled : BOOLEAN]

CatalogOutcomes == Catalog!Codes \cup {"none", "not_allowed"}

\* A version of a tool that was published as read-only.
ReadVersion(t, v) == v \in 1 .. Catalog!Version(t) /\ published[t][v] = "read"
ReadEntry(t, entry) == ReadVersion(t, entry.catalog) /\ ReadVersion(t, entry.schema)

\* What is cached was read-only when it was read, and so was what a caller has read so far.
Shared ==
  /\ published \in [CatalogTools -> Seq({"read", "write", "gone"})]
  /\ \A t \in CatalogTools : Len(published[t]) > 0
  /\ catalog \in [CatalogTools -> Entries]
  /\ \A t \in CatalogTools : catalog[t] # Catalog!NoEntry => ReadEntry(t, catalog[t])

EntryRead(c) ==
  /\ job[c].at = "search" => ReadVersion(Catalog!Tool(c), job[c].entry.catalog)
  /\ job[c].at \in {"keep", "action"} => ReadEntry(Catalog!Tool(c), job[c].entry)

\* On its second attempt, and unless it is excused, a caller has nothing out of date: in
\* what it read, nor in the cache it may take an entry from.
EntryCurrent(c) ==
  job[c].attempt = 1 /\ ~Catalog!Excused(c) =>
    /\ job[c].at = "search" => job[c].entry.catalog = Catalog!Version(Catalog!Tool(c))
    /\ job[c].at \in {"keep", "action"} => Catalog!Current(Catalog!Tool(c), job[c].entry)
    /\ job[c].at = "again" =>
         \/ catalog[Catalog!Tool(c)] = Catalog!NoEntry
         \/ Catalog!Current(Catalog!Tool(c), catalog[Catalog!Tool(c)])

Underway(c) ==
  /\ Catalog!Tool(c) \in CatalogTools
  /\ job[c].began <= Catalog!Version(Catalog!Tool(c))
  /\ EntryRead(c) /\ EntryCurrent(c)

CallerInv(c) ==
  /\ job[c] \in CatalogJobRecords
  /\ job[c].at # "idle" => Underway(c)
  /\ ended[c] \in [code : CatalogOutcomes, excused : BOOLEAN]
  /\ ended[c].code = "stale" => ended[c].excused

CatalogInv ==
  /\ Shared
  /\ DOMAIN job = CatalogCallers /\ job = [c \in CatalogCallers |-> job[c]]
  /\ DOMAIN ended = CatalogCallers /\ ended = [c \in CatalogCallers |-> ended[c]]
  /\ \A c \in CatalogCallers : CallerInv(c)

\* The job whose call of a tool begins.
JobAt(at, list, entry, began) ==
  [Catalog!NoJob EXCEPT !.at = at, !.todo = list, !.entry = entry, !.began = began]

(* The entries and jobs that the steps make are of their types.              *)
LEMMA EntryShapes ==
  /\ Catalog!NoEntry \in Entries /\ Catalog!NoJob \in CatalogJobRecords /\ Catalog!NoJob.at = "idle"
  /\ \A list \in Seq(STRING), at \in CatalogStages, entry \in Entries, began \in Nat :
       /\ JobAt(at, list, entry, began) \in CatalogJobRecords
       /\ JobAt(at, list, entry, began).at = at /\ JobAt(at, list, entry, began).todo = list
       /\ JobAt(at, list, entry, began).entry = entry /\ JobAt(at, list, entry, began).began = began
       /\ JobAt(at, list, entry, began).attempt = 0 /\ JobAt(at, list, entry, began).spoiled = FALSE
<1>1. Catalog!NoEntry \in Entries
  BY DEF Catalog!NoEntry, Entries
<1>2. Catalog!NoJob = [at |-> "idle", todo |-> <<>>, attempt |-> 0, entry |-> Catalog!NoEntry, began |-> 0, spoiled |-> FALSE]
  BY DEF Catalog!NoJob, Catalog!NoEntry
<1>3. <<>> \in Seq(STRING)
  OBVIOUS
<1>4. Catalog!NoJob \in CatalogJobRecords /\ Catalog!NoJob.at = "idle"
  BY <1>1, <1>2, <1>3 DEF CatalogJobRecords, CatalogStages
<1>5. Catalog!NoJob.attempt = 0 /\ Catalog!NoJob.spoiled = FALSE
  BY <1>2
<1>6. ASSUME NEW list \in Seq(STRING), NEW at \in CatalogStages, NEW entry \in Entries, NEW began \in Nat
      PROVE  /\ JobAt(at, list, entry, began) \in CatalogJobRecords
             /\ JobAt(at, list, entry, began).at = at /\ JobAt(at, list, entry, began).todo = list
             /\ JobAt(at, list, entry, began).entry = entry /\ JobAt(at, list, entry, began).began = began
             /\ JobAt(at, list, entry, began).attempt = 0 /\ JobAt(at, list, entry, began).spoiled = FALSE
  BY <1>4, <1>5 DEF JobAt, CatalogJobRecords
<1> QED
  BY <1>1, <1>4, <1>6

\* A tool has a version, and it is the newest of those it was published with.
LEMMA Versions ==
  ASSUME Shared, NEW t \in CatalogTools
  PROVE  /\ Catalog!Version(t) \in Nat \ {0} /\ Catalog!Type(t) = published[t][Catalog!Version(t)]
         /\ Catalog!Type(t) \in {"read", "write", "gone"} /\ catalog[t] \in Entries
<1>1. published[t] \in Seq({"read", "write", "gone"}) /\ Len(published[t]) > 0 /\ catalog[t] \in Entries
  BY DEF Shared
<1> QED
  BY <1>1 DEF Catalog!Version, Catalog!Type

\* A caller whose own job did not change is as before, unless the catalog did.
LEMMA OtherCaller ==
  ASSUME NEW d \in CatalogCallers, CallerInv(d), job'[d] = job[d], ended'[d] = ended[d], published' = published, catalog' = catalog
  PROVE  CallerInv(d)'
BY DEF CallerInv, Underway, EntryRead, EntryCurrent, ReadEntry, ReadVersion, Catalog!Tool, Catalog!Version, Catalog!Excused,
       Catalog!Current

\* A job that ends.
LEMMA Ending ==
  ASSUME CatalogInv, NEW c \in CatalogCallers, NEW code \in CatalogOutcomes, NEW excused \in BOOLEAN, code = "stale" => excused,
         Catalog!End(c, code, excused), published' = published
  PROVE  /\ DOMAIN job' = CatalogCallers /\ job' = [d \in CatalogCallers |-> job'[d]]
         /\ DOMAIN ended' = CatalogCallers /\ ended' = [d \in CatalogCallers |-> ended'[d]]
         /\ \A d \in CatalogCallers \ {c} : job'[d] = job[d] /\ ended'[d] = ended[d]
         /\ CallerInv(c)'
<1>1. job' = [job EXCEPT ![c] = Catalog!NoJob] /\ ended' = [ended EXCEPT ![c] = [code |-> code, excused |-> excused]]
  BY DEF Catalog!End
<1>2. job'[c] = Catalog!NoJob /\ ended'[c] = [code |-> code, excused |-> excused]
  BY <1>1 DEF CatalogInv
<1>3. CallerInv(c)'
  <2>1. job'[c] \in CatalogJobRecords /\ job'[c].at = "idle"
    BY <1>2, EntryShapes
  <2>2. ended'[c] \in [code : CatalogOutcomes, excused : BOOLEAN]
    BY <1>2
  <2>3. ended'[c].code = "stale" => ended'[c].excused
    BY <1>2
  <2> QED
    BY <2>1, <2>2, <2>3 DEF CallerInv
<1> QED
  BY <1>1, <1>3 DEF CatalogInv

\* The call of the next tool of a job.
LEMMA CallingNext ==
  ASSUME CatalogInv, NEW c \in CatalogCallers, NEW list \in Seq(STRING), Catalog!Calling(c, list),
         UNCHANGED <<published, catalog>>
  PROVE  CatalogInv'
<1>1. CASE Head(list) \notin CatalogTools
  <2>1. Catalog!End(c, "not_allowed", FALSE)
    BY <1>1 DEF Catalog!Calling
  <2>2. "not_allowed" \in CatalogOutcomes /\ "not_allowed" # "stale"
    BY DEF CatalogOutcomes
  <2> QED
    BY <2>1, <2>2, Ending, OtherCaller DEF CatalogInv, Shared, ReadEntry, ReadVersion, Catalog!Version
<1>2. CASE Head(list) \in CatalogTools
  <2> DEFINE t == Head(list)
             j == JobAt(Catalog!Lookup(t), list, catalog[t], Catalog!Version(t))
  <2>1. job' = [job EXCEPT ![c] = j] /\ ended' = ended
    BY <1>2 DEF Catalog!Calling, JobAt
  <2>2. Catalog!Version(t) \in Nat \ {0} /\ catalog[t] \in Entries /\ Catalog!Lookup(t) \in {"help", "action"}
    BY <1>2, Versions DEF CatalogInv, Catalog!Lookup
  <2>3. /\ j \in CatalogJobRecords /\ j.at = Catalog!Lookup(t) /\ j.todo = list /\ j.entry = catalog[t]
        /\ j.began = Catalog!Version(t) /\ j.attempt = 0
    BY <2>2, EntryShapes DEF CatalogStages
  <2> HIDE DEF j
  <2>4. job'[c] = j /\ \A d \in CatalogCallers \ {c} : job'[d] = job[d]
    BY <2>1 DEF CatalogInv
  <2>5. Catalog!Lookup(t) = "action" => ReadEntry(t, catalog[t])
    BY <1>2 DEF Catalog!Lookup, CatalogInv, Shared
  <2>6. (Catalog!Tool(c))' = t /\ (Catalog!Version(t))' = Catalog!Version(t)
    BY <2>3, <2>4 DEF Catalog!Tool, Catalog!Version
  <2>7. Underway(c)'
    BY <1>2, <2>2, <2>3, <2>4, <2>5, <2>6 DEF Underway, EntryRead, EntryCurrent, ReadEntry, ReadVersion, Catalog!Version
  <2>8. CallerInv(c)'
    BY <2>1, <2>3, <2>4, <2>7 DEF CatalogInv, CallerInv
  <2> QED
    BY <2>1, <2>4, <2>8, OtherCaller DEF CatalogInv, Shared, ReadEntry, ReadVersion, Catalog!Version
<1> QED
  BY <1>1, <1>2

\* A step of one caller that leaves the tools and the cache alone.
LEMMA OneMoved ==
  ASSUME CatalogInv, NEW c \in CatalogCallers, UNCHANGED <<published, catalog>>,
         DOMAIN job' = CatalogCallers, job' = [d \in CatalogCallers |-> job'[d]],
         DOMAIN ended' = CatalogCallers, ended' = [d \in CatalogCallers |-> ended'[d]],
         \A d \in CatalogCallers \ {c} : job'[d] = job[d] /\ ended'[d] = ended[d], CallerInv(c)'
  PROVE  CatalogInv'
<1>1. Shared'
  BY DEF CatalogInv, Shared, ReadEntry, ReadVersion, Catalog!Version
<1>2. \A d \in CatalogCallers : CallerInv(d)'
  BY OtherCaller DEF CatalogInv
<1> QED
  BY <1>1, <1>2 DEF CatalogInv

(* A call that ends, whatever it is told.                                    *)
LEMMA EndingKept ==
  ASSUME CatalogInv, NEW c \in CatalogCallers, NEW code \in CatalogOutcomes, NEW excused \in BOOLEAN, code = "stale" => excused,
         Catalog!End(c, code, excused), UNCHANGED <<published, catalog>>
  PROVE  CatalogInv'
BY Ending, OneMoved

\* The job of a caller with other stage, entry or attempt.
LEMMA JobMoved ==
  ASSUME CatalogInv, NEW c \in CatalogCallers, NEW j \in CatalogJobRecords, job' = [job EXCEPT ![c] = j], ended' = ended
  PROVE  /\ DOMAIN job' = CatalogCallers /\ job' = [d \in CatalogCallers |-> job'[d]] /\ job'[c] = j
         /\ DOMAIN ended' = CatalogCallers /\ ended' = [d \in CatalogCallers |-> ended'[d]]
         /\ \A d \in CatalogCallers \ {c} : job'[d] = job[d] /\ ended'[d] = ended[d]
BY DEF CatalogInv

\* Help and search tell a version that is read-only now.
LEMMA HelpKept ==
  ASSUME CatalogInv, NEW c \in CatalogCallers, Catalog!Help(c)
  PROVE  CatalogInv'
<1> DEFINE t == Catalog!Tool(c)
           j == [job[c] EXCEPT !.at = "search", !.entry.catalog = Catalog!Version(t)]
<1>1. /\ job[c].at = "help" /\ UNCHANGED <<published, catalog>>
      /\ IF Catalog!ReadOnly(t) THEN job' = [job EXCEPT ![c].at = "search", ![c].entry.catalog = Catalog!Version(t)] /\ UNCHANGED ended
         ELSE Catalog!End(c, "unavailable", FALSE)
  BY DEF Catalog!Help
<1>2. job[c] \in CatalogJobRecords /\ Underway(c) /\ t \in CatalogTools
  BY <1>1 DEF CatalogInv, CallerInv, Underway
<1>3. Catalog!Version(t) \in Nat \ {0} /\ Catalog!Type(t) = published[t][Catalog!Version(t)]
  BY <1>2, Versions DEF CatalogInv
<1>4. CASE ~Catalog!ReadOnly(t)
  BY <1>1, <1>4, EndingKept DEF CatalogOutcomes, Catalog!Codes, Catalog!RefreshCodes
<1>5. CASE Catalog!ReadOnly(t)
  <2>1. /\ j \in CatalogJobRecords /\ j.at = "search" /\ j.todo = job[c].todo /\ j.attempt = job[c].attempt
        /\ j.entry.catalog = Catalog!Version(t) /\ j.began = job[c].began /\ j.spoiled = job[c].spoiled
    BY <1>2, <1>3 DEF CatalogJobRecords, CatalogStages, Entries
  <2>2. job' = [job EXCEPT ![c] = j] /\ ended' = ended
    BY <1>1, <1>5 DEF CatalogInv
  <2> HIDE DEF j
  <2>3. job'[c] = j
    BY <2>1, <2>2, JobMoved
  <2>4. ReadVersion(t, Catalog!Version(t))
    BY <1>3, <1>5 DEF ReadVersion, Catalog!ReadOnly
  <2>5. Underway(c)'
    BY <1>1, <1>2, <2>1, <2>3, <2>4
    DEF Underway, EntryRead, EntryCurrent, ReadVersion, Catalog!Tool, Catalog!Version, Catalog!Excused
  <2>6. CallerInv(c)'
    BY <2>1, <2>2, <2>3, <2>5 DEF CatalogInv, CallerInv
  <2> QED
    BY <1>1, <2>1, <2>2, <2>6, JobMoved, OneMoved
<1> QED
  BY <1>4, <1>5

(* The search for the tool.                                                  *)
LEMMA SearchKept ==
  ASSUME CatalogInv, NEW c \in CatalogCallers, Catalog!Search(c)
  PROVE  CatalogInv'
<1> DEFINE t == Catalog!Tool(c)
           j == [job[c] EXCEPT !.at = "keep", !.entry.schema = Catalog!Version(t)]
<1>1. /\ job[c].at = "search" /\ UNCHANGED <<published, catalog>>
      /\ IF Catalog!ReadOnly(t) THEN job' = [job EXCEPT ![c].at = "keep", ![c].entry.schema = Catalog!Version(t)] /\ UNCHANGED ended
         ELSE Catalog!End(c, "unavailable", FALSE)
  BY DEF Catalog!Search
<1>2. job[c] \in CatalogJobRecords /\ Underway(c) /\ t \in CatalogTools
  BY <1>1 DEF CatalogInv, CallerInv, Underway
<1>3. Catalog!Version(t) \in Nat \ {0} /\ Catalog!Type(t) = published[t][Catalog!Version(t)]
  BY <1>2, Versions DEF CatalogInv
<1>4. CASE ~Catalog!ReadOnly(t)
  BY <1>1, <1>4, EndingKept DEF CatalogOutcomes, Catalog!Codes, Catalog!RefreshCodes
<1>5. CASE Catalog!ReadOnly(t)
  <2>1. /\ j \in CatalogJobRecords /\ j.at = "keep" /\ j.todo = job[c].todo /\ j.attempt = job[c].attempt
        /\ j.entry = [catalog |-> job[c].entry.catalog, schema |-> Catalog!Version(t)]
        /\ j.began = job[c].began /\ j.spoiled = job[c].spoiled
    BY <1>2, <1>3 DEF CatalogJobRecords, CatalogStages, Entries
  <2>2. job' = [job EXCEPT ![c] = j] /\ ended' = ended
    BY <1>1, <1>5 DEF CatalogInv
  <2> HIDE DEF j
  <2>3. job'[c] = j
    BY <2>1, <2>2, JobMoved
  <2>4. ReadVersion(t, Catalog!Version(t)) /\ ReadVersion(t, job[c].entry.catalog)
    BY <1>1, <1>2, <1>3, <1>5 DEF ReadVersion, Catalog!ReadOnly, Underway, EntryRead
  <2>5. ReadEntry(t, j.entry)
    BY <2>1, <2>4 DEF ReadEntry
  <2>6. job[c].attempt = 1 /\ ~Catalog!Excused(c) => j.entry = [catalog |-> Catalog!Version(t), schema |-> Catalog!Version(t)]
    BY <1>1, <1>2, <2>1 DEF Underway, EntryCurrent
  <2>7. (Catalog!Tool(c))' = t /\ \A u : (Catalog!Version(u))' = Catalog!Version(u)
    BY <1>1, <2>1, <2>3 DEF Catalog!Tool, Catalog!Version
  <2>8. (Catalog!Excused(c))' <=> Catalog!Excused(c)
    BY <2>1, <2>3, <2>7 DEF Catalog!Excused
  <2>9. EntryRead(c)'
    BY <1>1, <2>1, <2>3, <2>5, <2>7 DEF EntryRead, ReadEntry, ReadVersion
  <2>10. EntryCurrent(c)'
    BY <2>1, <2>3, <2>6, <2>7, <2>8 DEF EntryCurrent, Catalog!Current
  <2>11. Underway(c)'
    BY <1>2, <2>1, <2>3, <2>7, <2>9, <2>10 DEF Underway
  <2>12. CallerInv(c)'
    BY <2>1, <2>2, <2>3, <2>11 DEF CatalogInv, CallerInv
  <2> QED
    BY <1>1, <2>1, <2>2, <2>12, JobMoved, OneMoved
<1> QED
  BY <1>4, <1>5

(* The second attempt of a call.                                             *)
LEMMA AgainKept ==
  ASSUME CatalogInv, NEW c \in CatalogCallers, Catalog!Again(c)
  PROVE  CatalogInv'
<1> DEFINE t == Catalog!Tool(c)
           j == [job[c] EXCEPT !.at = Catalog!Lookup(t), !.entry = catalog[t]]
<1>1. /\ job[c].at = "again" /\ UNCHANGED <<published, catalog, ended>>
      /\ job' = [job EXCEPT ![c].at = Catalog!Lookup(t), ![c].entry = catalog[t]]
  BY DEF Catalog!Again
<1>2. job[c] \in CatalogJobRecords /\ Underway(c) /\ t \in CatalogTools
  BY <1>1 DEF CatalogInv, CallerInv, Underway
<1>3. catalog[t] \in Entries /\ Catalog!Lookup(t) \in {"help", "action"}
  BY <1>2, Versions DEF CatalogInv, Catalog!Lookup
<1>4. /\ j \in CatalogJobRecords /\ j.at = Catalog!Lookup(t) /\ j.todo = job[c].todo /\ j.attempt = job[c].attempt
      /\ j.entry = catalog[t] /\ j.began = job[c].began /\ j.spoiled = job[c].spoiled
  BY <1>2, <1>3 DEF CatalogJobRecords, CatalogStages
<1>5. job' = [job EXCEPT ![c] = j]
  BY <1>1 DEF CatalogInv
<1> HIDE DEF j
<1>6. job'[c] = j
  BY <1>1, <1>4, <1>5, JobMoved
<1>7. (Catalog!Tool(c))' = t /\ \A u : (Catalog!Version(u))' = Catalog!Version(u)
  BY <1>1, <1>4, <1>6 DEF Catalog!Tool, Catalog!Version
<1>8. (Catalog!Excused(c))' <=> Catalog!Excused(c)
  BY <1>4, <1>6, <1>7 DEF Catalog!Excused
<1>9. Catalog!Lookup(t) = "action" => catalog[t] # Catalog!NoEntry /\ ReadEntry(t, catalog[t])
  BY <1>2 DEF Catalog!Lookup, CatalogInv, Shared
<1>10. EntryRead(c)'
  BY <1>1, <1>3, <1>4, <1>6, <1>7, <1>9 DEF EntryRead, ReadEntry, ReadVersion
<1>11. EntryCurrent(c)'
  BY <1>1, <1>2, <1>3, <1>4, <1>6, <1>7, <1>8, <1>9 DEF EntryCurrent, Underway, Catalog!Current
<1>12. Underway(c)'
  BY <1>2, <1>4, <1>6, <1>7, <1>10, <1>11 DEF Underway
<1>13. CallerInv(c)'
  BY <1>1, <1>4, <1>6, <1>12 DEF CatalogInv, CallerInv
<1> QED
  BY <1>1, <1>4, <1>5, <1>13, JobMoved, OneMoved

\* A tool that is published anew: the versions before it stay what they were, and the calls of
\* the tool under way are excused from now on.
LEMMA PublishKept ==
  ASSUME CatalogInv, NEW t \in CatalogTools, Catalog!Publish(t)
  PROVE  CatalogInv'
<1>1. UNCHANGED <<catalog, job, ended>>
  BY DEF Catalog!Publish
<1>2. PICK type \in {"read", "write", "gone"} : published' = [published EXCEPT ![t] = Append(published[t], type)]
  BY DEF Catalog!Publish
<1>3. published \in [CatalogTools -> Seq({"read", "write", "gone"})]
  BY DEF CatalogInv, Shared
<1>4. /\ published' \in [CatalogTools -> Seq({"read", "write", "gone"})]
      /\ published'[t] = Append(published[t], type) /\ \A u \in CatalogTools \ {t} : published'[u] = published[u]
  BY <1>2, <1>3
<1>5. /\ \A u \in CatalogTools : Len(published'[u]) = IF u = t THEN Len(published[u]) + 1 ELSE Len(published[u])
      /\ \A u \in CatalogTools : \A v \in 1 .. Len(published[u]) : published'[u][v] = published[u][v]
      /\ \A u \in CatalogTools : Len(published[u]) \in Nat
  <2>1. ASSUME NEW u \in CatalogTools
        PROVE  /\ Len(published[u]) \in Nat
               /\ Len(published'[u]) = IF u = t THEN Len(published[u]) + 1 ELSE Len(published[u])
               /\ \A v \in 1 .. Len(published[u]) : published'[u][v] = published[u][v]
    <3> DEFINE s == published[u]
    <3>1. s \in Seq({"read", "write", "gone"})
      BY <1>3
    <3>2. published'[u] = IF u = t THEN Append(s, type) ELSE s
      BY <1>4
    <3> HIDE DEF s
    <3>3. Len(s) \in Nat /\ Len(Append(s, type)) = Len(s) + 1 /\ \A v \in 1 .. Len(s) : Append(s, type)[v] = s[v]
      BY <3>1
    <3> QED
      BY <3>2, <3>3 DEF s
  <2> QED
    BY <2>1
<1>6. \A u \in CatalogTools : \A v : ReadVersion(u, v) => ReadVersion(u, v)'
  BY <1>5 DEF ReadVersion, Catalog!Version
<1>7. Shared'
  BY <1>1, <1>4, <1>5, <1>6 DEF CatalogInv, Shared, ReadEntry
<1>8. ASSUME NEW d \in CatalogCallers
      PROVE  CallerInv(d)'
  <2>1. CallerInv(d)
    BY DEF CatalogInv
  <2>2. ASSUME job[d].at # "idle"
        PROVE  Underway(d)'
    <3> DEFINE u == Catalog!Tool(d)
    <3>1. Underway(d) /\ u \in CatalogTools /\ (Catalog!Tool(d))' = u
      BY <1>1, <2>1, <2>2 DEF CallerInv, Underway, Catalog!Tool
    <3>2. EntryRead(d)'
      BY <1>1, <1>6, <3>1 DEF Underway, EntryRead, ReadEntry
    <3>3. job[d].began \in Nat
      BY <2>1 DEF CallerInv, CatalogJobRecords
    <3>4. job[d].began <= Catalog!Version(u)'
      BY <1>5, <3>1, <3>3 DEF Underway, Catalog!Version
    <3>5. CASE u = t
      <4>1. Catalog!Version(u)' # job[d].began
        BY <1>5, <3>1, <3>3, <3>5 DEF Underway, Catalog!Version
      <4>2. EntryCurrent(d)'
        BY <1>1, <3>1, <4>1 DEF EntryCurrent, Catalog!Excused
      <4> QED
        BY <1>1, <3>1, <3>2, <3>4, <4>2 DEF Underway
    <3>6. CASE u # t
      <4>1. Catalog!Version(u)' = Catalog!Version(u)
        BY <1>5, <3>1, <3>6 DEF Catalog!Version
      <4>2. EntryCurrent(d)'
        BY <1>1, <3>1, <4>1 DEF Underway, EntryCurrent, Catalog!Excused, Catalog!Current
      <4> QED
        BY <1>1, <3>1, <3>2, <3>4, <4>2 DEF Underway
    <3> QED
      BY <3>5, <3>6
  <2> QED
    BY <1>1, <2>1, <2>2 DEF CallerInv
<1> QED
  BY <1>1, <1>7, <1>8 DEF CatalogInv

\* What a caller caches is read-only; if it is out of date, the other callers of the tool are
\* excused.
LEMMA KeepKept ==
  ASSUME CatalogInv, NEW c \in CatalogCallers, Catalog!Keep(c)
  PROVE  CatalogInv'
<1> DEFINE t == Catalog!Tool(c)
           e == job[c].entry
           spoils(d) == job[d].at # "idle" /\ Catalog!Tool(d) = t /\ ~Catalog!Current(t, e)
<1>1. /\ job[c].at = "keep" /\ UNCHANGED <<published, ended>>
      /\ catalog' = [catalog EXCEPT ![t] = e]
      /\ job' = [d \in CatalogCallers |-> IF d = c THEN [job[d] EXCEPT !.at = "action"]
                                   ELSE IF spoils(d) THEN [job[d] EXCEPT !.spoiled = TRUE] ELSE job[d]]
  BY DEF Catalog!Keep
<1>2. job[c] \in CatalogJobRecords /\ Underway(c) /\ t \in CatalogTools /\ e \in Entries
  BY <1>1 DEF CatalogInv, CallerInv, Underway, CatalogJobRecords
<1>3. /\ catalog' \in [CatalogTools -> Entries] /\ catalog'[t] = e
      /\ \A u \in CatalogTools \ {t} : catalog'[u] = catalog[u]
  BY <1>1, <1>2 DEF CatalogInv, Shared
<1>4. ReadEntry(t, e)
  BY <1>1, <1>2 DEF Underway, EntryRead
<1>5. \A u, v : ReadEntry(u, v)' <=> ReadEntry(u, v)
  BY <1>1 DEF ReadEntry, ReadVersion, Catalog!Version
<1>6. Shared'
  BY <1>1, <1>3, <1>4, <1>5 DEF CatalogInv, Shared
<1>7. ASSUME NEW d \in CatalogCallers
      PROVE  /\ job'[d] \in CatalogJobRecords /\ job'[d].todo = job[d].todo /\ job'[d].entry = job[d].entry
             /\ job'[d].attempt = job[d].attempt /\ job'[d].began = job[d].began
             /\ job'[d].at = IF d = c THEN "action" ELSE job[d].at
             /\ d # c /\ spoils(d) => job'[d].spoiled = TRUE
             /\ d = c \/ ~spoils(d) => job'[d].spoiled = job[d].spoiled
  <2>1. job[d] \in CatalogJobRecords
    BY DEF CatalogInv, CallerInv
  <2>2. CASE d = c
    <3>1. job'[d] = [job[d] EXCEPT !.at = "action"]
      BY <1>1, <2>2
    <3> QED
      BY <2>1, <2>2, <3>1 DEF CatalogJobRecords, CatalogStages
  <2>3. CASE d # c /\ spoils(d)
    <3>1. job'[d] = [job[d] EXCEPT !.spoiled = TRUE]
      BY <1>1, <2>3
    <3> QED
      BY <2>1, <2>3, <3>1 DEF CatalogJobRecords
  <2>4. CASE d # c /\ ~spoils(d)
    <3>1. job'[d] = job[d]
      BY <1>1, <2>4
    <3> QED
      BY <2>1, <2>4, <3>1
  <2> QED
    BY <2>2, <2>3, <2>4
<1>8. ASSUME NEW d \in CatalogCallers
      PROVE  CallerInv(d)'
  <2>1. CallerInv(d)
    BY DEF CatalogInv
  <2>2. ASSUME job[d].at # "idle"
        PROVE  Underway(d)'
    <3> DEFINE u == Catalog!Tool(d)
    <3>1. Underway(d) /\ u \in CatalogTools /\ (Catalog!Tool(d))' = u /\ \A w : (Catalog!Version(w))' = Catalog!Version(w)
      BY <1>1, <1>7, <2>1, <2>2 DEF CallerInv, Underway, Catalog!Tool, Catalog!Version
    <3>2. EntryRead(d)'
      BY <1>1, <1>4, <1>7, <3>1 DEF Underway, EntryRead, ReadEntry, ReadVersion
    <3>3. ASSUME job'[d].attempt = 1, ~(Catalog!Excused(d))'
          PROVE  /\ job'[d].at = "search" => job'[d].entry.catalog = Catalog!Version(u)
                 /\ job'[d].at \in {"keep", "action"} => Catalog!Current(u, job'[d].entry)
                 /\ job'[d].at = "again" => catalog'[u] = Catalog!NoEntry \/ Catalog!Current(u, catalog'[u])
      <4>1. ~job'[d].spoiled /\ job[d].attempt = 1 /\ job'[d].began = Catalog!Version(u)
        BY <1>7, <3>1, <3>3 DEF Catalog!Excused
      <4>2. d = c \/ ~spoils(d)
        BY <1>7, <4>1
      <4>3. ~Catalog!Excused(d)
        BY <1>7, <4>1, <4>2 DEF Catalog!Excused
      <4>4. /\ job[d].at = "search" => job[d].entry.catalog = Catalog!Version(u)
            /\ job[d].at \in {"keep", "action"} => Catalog!Current(u, job[d].entry)
            /\ job[d].at = "again" => catalog[u] = Catalog!NoEntry \/ Catalog!Current(u, catalog[u])
        BY <3>1, <4>1, <4>3 DEF Underway, EntryCurrent
      <4>5. CASE d = c
        <5>1. job[d].at = "keep" /\ job'[d].at = "action" /\ job'[d].entry = job[d].entry
          BY <1>1, <1>7, <4>5
        <5>2. Catalog!Current(u, job[d].entry)
          BY <4>4, <5>1
        <5> QED
          BY <5>1, <5>2
      <4>6. CASE d # c /\ u = t
        BY <1>3, <1>7, <2>2, <4>2, <4>4, <4>6
      <4>7. CASE d # c /\ u # t
        BY <1>3, <1>7, <3>1, <4>4, <4>7
      <4> QED
        BY <4>5, <4>6, <4>7
    <3>4. EntryCurrent(d)'
      BY <3>1, <3>3 DEF EntryCurrent, Catalog!Current
    <3> QED
      BY <1>7, <3>1, <3>2, <3>4 DEF Underway
  <2>3. job'[d].at # "idle" => job[d].at # "idle"
    BY <1>1, <1>7
  <2> QED
    BY <1>1, <1>7, <2>1, <2>2, <2>3 DEF CallerInv
<1>9. DOMAIN job' = CatalogCallers /\ job' = [d \in CatalogCallers |-> job'[d]]
  BY <1>1
<1> QED
  BY <1>1, <1>6, <1>8, <1>9 DEF CatalogInv

\* An entry is thrown away and looked up once more; the last attempt ends with what the
\* provider says, which is not that the entry is stale unless something was published or
\* cached since.
LEMMA RefreshKept ==
  ASSUME CatalogInv, NEW c \in CatalogCallers, job[c].at = "action", job[c].attempt = 0,
         catalog' = Catalog!Forgotten(Catalog!Tool(c)),
         job' = [job EXCEPT ![c].at = "again", ![c].attempt = 1], UNCHANGED <<ended, published>>
  PROVE  CatalogInv'
<1> DEFINE t == Catalog!Tool(c)
           j == [job[c] EXCEPT !.at = "again", !.attempt = 1]
<1>1. job[c] \in CatalogJobRecords /\ Underway(c) /\ t \in CatalogTools
  BY DEF CatalogInv, CallerInv, Underway
<1>2. /\ catalog' \in [CatalogTools -> Entries] /\ catalog'[t] = Catalog!NoEntry
      /\ \A u \in CatalogTools \ {t} : catalog'[u] = catalog[u]
  BY <1>1, EntryShapes DEF CatalogInv, Shared, Catalog!Forgotten
<1>3. Shared'
  BY <1>2 DEF CatalogInv, Shared, ReadEntry, ReadVersion, Catalog!Version
<1>4. /\ j \in CatalogJobRecords /\ j.at = "again" /\ j.todo = job[c].todo /\ j.began = job[c].began
  BY <1>1 DEF CatalogJobRecords, CatalogStages
<1>5. job' = [job EXCEPT ![c] = j]
  BY DEF CatalogInv
<1> HIDE DEF j
<1>6. /\ job'[c] = j /\ \A d \in CatalogCallers \ {c} : job'[d] = job[d]
      /\ DOMAIN job' = CatalogCallers /\ job' = [d \in CatalogCallers |-> job'[d]]
  BY <1>4, <1>5, JobMoved
<1>7. \A u : (Catalog!Version(u))' = Catalog!Version(u)
  BY DEF Catalog!Version
<1>8. CallerInv(c)'
  <2>1. (Catalog!Tool(c))' = t
    BY <1>4, <1>6 DEF Catalog!Tool
  <2>2. Underway(c)'
    BY <1>1, <1>2, <1>4, <1>6, <1>7, <2>1 DEF Underway, EntryRead, EntryCurrent
  <2> QED
    BY <1>4, <1>6, <2>2 DEF CatalogInv, CallerInv
<1>9. ASSUME NEW d \in CatalogCallers \ {c}
      PROVE  CallerInv(d)'
  <2>1. CallerInv(d) /\ job'[d] = job[d] /\ (Catalog!Tool(d))' = Catalog!Tool(d)
    BY <1>6 DEF CatalogInv, Catalog!Tool
  <2>2. (Catalog!Excused(d))' <=> Catalog!Excused(d)
    BY <1>7, <2>1 DEF Catalog!Excused
  <2>3. ASSUME job[d].at # "idle"
        PROVE  Underway(d)'
    <3>1. Underway(d) /\ Catalog!Tool(d) \in CatalogTools
      BY <2>1, <2>3 DEF CallerInv, Underway
    <3>2. catalog'[Catalog!Tool(d)] \in {Catalog!NoEntry, catalog[Catalog!Tool(d)]}
      BY <1>2, <3>1
    <3>3. EntryCurrent(d)'
      BY <1>7, <2>1, <2>2, <3>1, <3>2 DEF Underway, EntryCurrent, Catalog!Current
    <3>4. EntryRead(d)'
      BY <1>7, <2>1, <3>1 DEF Underway, EntryRead, ReadEntry, ReadVersion
    <3> QED
      BY <1>7, <2>1, <3>1, <3>3, <3>4 DEF Underway
  <2> QED
    BY <2>1, <2>3 DEF CallerInv
<1> QED
  BY <1>3, <1>6, <1>8, <1>9 DEF CatalogInv

(* The answer of the provider.                                               *)
LEMMA AnswerKept ==
  ASSUME CatalogInv, NEW c \in CatalogCallers, NEW code \in Catalog!Codes, Catalog!Answer(c, code)
  PROVE  CatalogInv'
<1> DEFINE t == Catalog!Tool(c)
<1>1. job[c].at = "action" /\ code \in Catalog!Answers(t, job[c].entry) /\ published' = published
  BY DEF Catalog!Answer
<1>2. job[c] \in CatalogJobRecords /\ Underway(c) /\ code \in CatalogOutcomes
  BY <1>1 DEF CatalogInv, CallerInv, CatalogOutcomes
<1>3. CASE code \in Catalog!RefreshCodes /\ job[c].attempt = 0
  BY <1>1, <1>3, RefreshKept DEF Catalog!Answer
<1>4. CASE ~(code \in Catalog!RefreshCodes /\ job[c].attempt = 0)
  <2>1. catalog' = catalog
    BY <1>4 DEF Catalog!Answer
  <2>2. CASE code = "ok" /\ Len(job[c].todo) > 1
    <3>1. Tail(job[c].todo) \in Seq(STRING)
      <4>1. job[c].todo \in Seq(STRING)
        BY <1>2 DEF CatalogJobRecords
      <4>2. \A s \in Seq(STRING) : Len(s) > 1 => Tail(s) \in Seq(STRING)
        OBVIOUS
      <4> QED
        BY <2>2, <4>1, <4>2
    <3>2. CASE Catalog!Calling(c, Tail(job[c].todo))
      BY <1>1, <2>1, <3>1, <3>2, CallingNext
    <3>3. CASE Catalog!End(c, "unavailable", FALSE)
      BY <1>1, <2>1, <3>3, EndingKept DEF CatalogOutcomes, Catalog!Codes, Catalog!RefreshCodes
    <3> QED
      BY <1>4, <2>2, <3>2, <3>3 DEF Catalog!Answer
  <2>3. CASE ~(code = "ok" /\ Len(job[c].todo) > 1)
    <3>1. Catalog!End(c, code, Catalog!Excused(c))
      BY <1>4, <2>3 DEF Catalog!Answer
    <3>2. Catalog!Excused(c) \in BOOLEAN
      BY <1>2 DEF Catalog!Excused, CatalogJobRecords
    <3>3. code = "stale" => Catalog!Excused(c)
      <4> SUFFICES ASSUME code = "stale", ~Catalog!Excused(c)
                   PROVE  FALSE
        OBVIOUS
      <4>1. job[c].attempt = 1
        BY <1>2, <1>4 DEF Catalog!RefreshCodes, CatalogJobRecords
      <4>2. Catalog!Current(t, job[c].entry)
        BY <1>1, <1>2, <4>1 DEF Underway, EntryCurrent
      <4> QED
        BY <1>1, <4>2 DEF Catalog!Answers
    <3> QED
      BY <1>1, <1>2, <2>1, <3>1, <3>2, <3>3, EndingKept
  <2> QED
    BY <2>2, <2>3
<1> QED
  BY <1>3, <1>4

(* Every step of the catalog.                                                *)
LEMMA CatalogStep ==
  ASSUME CatalogInv, [Catalog!Next]_(Catalog!vars)
  PROVE  CatalogInv'
<1>1. ASSUME NEW c \in CatalogCallers, NEW list \in CatalogJobs, Catalog!Start(c, list)
      PROVE  CatalogInv'
  BY <1>1, JobsAssumption, CallingNext DEF Catalog!Start
<1>2. ASSUME NEW c \in CatalogCallers, Catalog!Lacking(c)
      PROVE  CatalogInv'
  <2>1. Catalog!End(c, "invalid_arguments", FALSE) /\ UNCHANGED <<published, catalog>>
    BY <1>2 DEF Catalog!Lacking
  <2> QED
    BY <2>1, EndingKept DEF CatalogOutcomes, Catalog!Codes
<1>3. CASE UNCHANGED Catalog!vars
  <2>1. UNCHANGED <<published, catalog, job, ended>>
    BY <1>3 DEF Catalog!vars
  <2>2. \A d \in CatalogCallers : CallerInv(d)'
    BY <2>1, OtherCaller DEF CatalogInv
  <2> QED
    BY <2>1, <2>2 DEF CatalogInv, Shared, ReadEntry, ReadVersion, Catalog!Version
<1> QED
  BY <1>1, <1>2, <1>3, PublishKept, HelpKept, SearchKept, KeepKept, AgainKept, AnswerKept DEF Catalog!Next

(* The catalog by itself.                                                    *)
LEMMA CatalogKept == Catalog!Spec => []Catalog!CatalogSound
<1>1. Catalog!Init => CatalogInv
  <2> SUFFICES ASSUME Catalog!Init
               PROVE  CatalogInv
    OBVIOUS
  <2>1. Shared
    <3>1. <<"read">> \in Seq({"read", "write", "gone"}) /\ Len(<<"read">>) = 1
      OBVIOUS
    <3> QED
      BY <3>1, EntryShapes DEF Catalog!Init, Shared
  <2>2. ASSUME NEW c \in CatalogCallers
        PROVE  CallerInv(c)
    <3>1. job[c] = Catalog!NoJob /\ ended[c] = [code |-> "none", excused |-> FALSE]
      BY DEF Catalog!Init
    <3>2. "none" \in CatalogOutcomes
      BY DEF CatalogOutcomes
    <3>3. ended[c] \in [code : CatalogOutcomes, excused : BOOLEAN] /\ ended[c].code = "none"
      BY <3>1, <3>2
    <3> QED
      BY <3>1, <3>3, EntryShapes DEF CallerInv
  <2> QED
    BY <2>1, <2>2 DEF Catalog!Init, CatalogInv
<1>2. CatalogInv /\ [Catalog!Next]_(Catalog!vars) => CatalogInv'
  BY CatalogStep
<1>3. CatalogInv => Catalog!CatalogSound
  <2> SUFFICES ASSUME CatalogInv
               PROVE  Catalog!CatalogSound
    OBVIOUS
  <2>1. Catalog!StaleExcused
    BY DEF CatalogInv, CallerInv, Catalog!StaleExcused
  <2>2. ASSUME NEW c \in CatalogCallers, job[c].at = "action"
        PROVE  /\ Catalog!Tool(c) \in CatalogTools
               /\ \A v \in {job[c].entry.catalog, job[c].entry.schema} : v > 0 /\ published[Catalog!Tool(c)][v] = "read"
    <3>1. Catalog!Tool(c) \in CatalogTools /\ ReadEntry(Catalog!Tool(c), job[c].entry)
      BY <2>2 DEF CatalogInv, CallerInv, Underway, EntryRead
    <3>2. Catalog!Version(Catalog!Tool(c)) \in Nat
      BY <3>1, Versions DEF CatalogInv
    <3> QED
      BY <3>1, <3>2 DEF ReadEntry, ReadVersion
  <2>3. Catalog!SentReadOnly
    BY <2>2 DEF Catalog!SentReadOnly
  <2> QED
    BY <2>1, <2>3 DEF Catalog!CatalogSound
<1> QED
  BY <1>1, <1>2, <1>3, PTL DEF Catalog!Spec

(* A service runs for itself: what happens in the others changes nothing in  *)
(* the catalog and its callers.                                              *)
LEMMA CatalogAlone == Services => Catalog!Spec
<1>1. InitServices => Catalog!Init
  BY DEF InitServices
<1>2. [NextServices]_servicesVars => [Catalog!Next]_(Catalog!vars)
  BY DEF NextServices, servicesVars, catalogVars, Catalog!vars
<1> QED
  BY <1>1, <1>2, PTL DEF Services, Catalog!Spec

(* For any callers, tools, jobs and publications: a call is told that its    *)
(* entry is stale only when the provider published the tool, or another      *)
(* caller cached an old entry, during the call; and what is sent was         *)
(* read-only in both answers its entry was made from.                        *)
THEOREM OneLookupMore == Services => []CatalogSound
<1>1. Catalog!CatalogSound => CatalogSound
  BY DEF CatalogSound
<1> QED
  BY <1>1, CatalogAlone, CatalogKept, PTL

-----------------------------------------------------------------------------
(***************************************************************************)
(* The knowledge vault: which version is active, and what an upload is     *)
(* told.                                                                   *)
(***************************************************************************)
Sayings == {"none", "unavailable", "active", "lost", "error", "rejected"}
UploadStages == {"waiting", "parse", "replace", "activate", "commit", "status", "rejecting", "failing", "done"}
VaultTypes ==
  /\ version \in [Uploads -> {"none", "indexing", "active", "archived", "failed"}]
  /\ stage \in [Uploads -> UploadStages]
  /\ archived \subseteq Uploads
  /\ seen \in [Uploads -> SUBSET Uploads]
  /\ answer \in [Uploads -> Sayings \X SUBSET Uploads]

\* What stage and row of an upload say of each other.
StageAndRow(u) ==
  /\ stage[u] = "waiting" => version[u] = "none"
  /\ stage[u] \in {"parse", "replace", "activate", "commit", "rejecting"} => version[u] = "indexing"
  /\ stage[u] = "failing" => version[u] \in {"indexing", "active"}
  /\ stage[u] = "status" => version[u] = "active"
  /\ stage[u] \in {"replace", "activate", "commit", "status"} => u \in archived
  /\ stage[u] = "commit" => seen[u] = {w \in Uploads : version[w] = "active"}
  /\ stage[u] # "done" => answer[u][1] = "none"

AnswerTrue(u) ==
  /\ answer[u][1] \notin {"none", "lost", "error", "unavailable", "rejected"} =>
       answer[u] = <<"active", {u}>> /\ u \in archived
  /\ answer[u][1] = "rejected" => version[u] = "failed" /\ u \notin archived

VaultInv ==
  /\ VaultTypes
  /\ \A u, w \in Knowledge!InHand : u = w
  /\ \A u \in Uploads : StageAndRow(u) /\ AnswerTrue(u)
  /\ Knowledge!OneActive

(* An answer is a saying and a set of versions.                              *)
LEMMA Shapely ==
  ASSUME NEW what \in Sayings, NEW S \in SUBSET Uploads
  PROVE  <<what, S>> \in Sayings \X SUBSET Uploads
OBVIOUS

\* A step of one upload: of the others, nothing changes but an active row that it archives.
LEMMA OneUpload ==
  ASSUME VaultInv, NEW u \in Uploads, VaultTypes', Knowledge!InHand \subseteq {u},
         \A w \in Uploads \ {u} : /\ stage'[w] = stage[w] /\ answer'[w] = answer[w]
                                  /\ w \in archived' <=> w \in archived
                                  /\ version'[w] = version[w] \/ (version[w] = "active" /\ version'[w] = "archived"),
         StageAndRow(u)', AnswerTrue(u)', Knowledge!OneActive'
  PROVE  VaultInv'
<1>1. \A w \in Uploads \ {u} : stage[w] \in {"waiting", "done"}
  BY DEF Knowledge!InHand
<1>2. ASSUME NEW w \in Uploads \ {u}
      PROVE  StageAndRow(w)' /\ AnswerTrue(w)'
  <2>1. StageAndRow(w) /\ AnswerTrue(w)
    BY DEF VaultInv
  <2>2. stage'[w] \in {"waiting", "done"} /\ stage'[w] = stage[w] /\ answer'[w] = answer[w]
    BY <1>1
  <2>3. StageAndRow(w)'
    BY <2>1, <2>2 DEF StageAndRow
  <2>4. AnswerTrue(w)'
    BY <2>1, <2>2 DEF AnswerTrue
  <2> QED
    BY <2>3, <2>4
<1>3. \A w \in Knowledge!InHand' : w = u
  BY <1>1 DEF Knowledge!InHand
<1> QED
  BY <1>2, <1>3 DEF VaultInv

\* The upload that is in hand is the only one.
LEMMA AloneInHand ==
  ASSUME VaultInv, NEW u \in Uploads, stage[u] \notin {"waiting", "done"}
  PROVE  Knowledge!InHand \subseteq {u}
<1>1. u \in Knowledge!InHand
  BY DEF Knowledge!InHand
<1> QED
  BY <1>1 DEF VaultInv

\* The step that begins an upload: none is in hand.
LEMMA CreateKept ==
  ASSUME VaultInv, NEW u \in Uploads, Knowledge!CreateCandidate(u)
  PROVE  VaultInv'
<1>1. stage[u] = "waiting" /\ Knowledge!InHand = {} /\ UNCHANGED <<archived, seen>>
  BY DEF Knowledge!CreateCandidate, Knowledge!Turn, Knowledge!Step
<1>2. VaultTypes /\ StageAndRow(u) /\ AnswerTrue(u) /\ Knowledge!OneActive
  BY DEF VaultInv
<1>3. CASE Knowledge!Step(u, "waiting", "parse") /\ version' = [version EXCEPT ![u] = "indexing"] /\ UNCHANGED answer
  <2>1. stage' = [stage EXCEPT ![u] = "parse"]
    BY <1>3 DEF Knowledge!Step
  <2>2. VaultTypes'
    BY <1>1, <1>2, <1>3, <2>1 DEF VaultTypes, UploadStages
  <2>3. stage'[u] = "parse" /\ version'[u] = "indexing"
    BY <1>2, <1>3, <2>1 DEF VaultTypes
  <2>4. \A w \in Uploads : (version'[w] = "active" <=> version[w] = "active") /\ (version'[w] = "archived" <=> version[w] = "archived")
    BY <1>1, <1>2, <1>3 DEF VaultTypes, StageAndRow
  <2>5. Knowledge!OneActive'
    BY <1>2, <2>4 DEF Knowledge!OneActive
  <2>6. StageAndRow(u)' /\ AnswerTrue(u)'
    BY <1>1, <1>2, <1>3, <2>3 DEF StageAndRow, AnswerTrue
  <2> QED
    BY <1>1, <1>2, <1>3, <2>1, <2>2, <2>5, <2>6, OneUpload DEF VaultTypes
<1>4. CASE Knowledge!Step(u, "waiting", "done") /\ Knowledge!Told(u, "unavailable") /\ UNCHANGED version
  <2>1. stage' = [stage EXCEPT ![u] = "done"] /\ answer' = [answer EXCEPT ![u] = <<"unavailable", {}>>]
    BY <1>4 DEF Knowledge!Step, Knowledge!Told, Knowledge!Answer
  <2>2. VaultTypes'
    <3>1. <<"unavailable", {}>> \in Sayings \X SUBSET Uploads
      BY Shapely DEF Sayings
    <3> QED
      BY <1>1, <1>2, <1>4, <2>1, <3>1 DEF VaultTypes, UploadStages
  <2>3. stage'[u] = "done" /\ answer'[u] = <<"unavailable", {}>>
    BY <1>2, <2>1 DEF VaultTypes
  <2>4. StageAndRow(u)' /\ AnswerTrue(u)'
    BY <2>3 DEF StageAndRow, AnswerTrue
  <2>5. Knowledge!OneActive'
    BY <1>2, <1>4 DEF Knowledge!OneActive
  <2> QED
    BY <1>1, <1>2, <1>4, <2>1, <2>2, <2>4, <2>5, OneUpload DEF VaultTypes
<1> QED
  BY <1>3, <1>4 DEF Knowledge!CreateCandidate

\* The steps between, which change no row and tell no answer.
LEMMA IndexingKept ==
  ASSUME VaultInv, NEW u \in Uploads, Knowledge!Parse(u) \/ Knowledge!Replace(u) \/ Knowledge!Begin(u)
  PROVE  VaultInv'
<1>1. VaultTypes /\ StageAndRow(u) /\ AnswerTrue(u) /\ Knowledge!OneActive
  BY DEF VaultInv
<1>2. UNCHANGED <<version, answer>>
  BY DEF Knowledge!Parse, Knowledge!Replace, Knowledge!Begin
<1>3. PICK to \in {"rejecting", "replace", "failing", "activate", "commit"} : stage' = [stage EXCEPT ![u] = to]
  BY DEF Knowledge!Parse, Knowledge!Replace, Knowledge!Begin, Knowledge!Step
<1>4. /\ stage[u] \in {"parse", "replace", "activate"}
      /\ to \in {"replace", "activate", "commit"} => u \in archived'
      /\ archived' \subseteq archived \cup {u} /\ archived \subseteq archived'
      /\ to = "commit" => seen'[u] = {w \in Uploads : version[w] = "active"}
      /\ seen' \in [Uploads -> SUBSET Uploads]
  <2>1. stage'[u] = to
    BY <1>1, <1>3 DEF VaultTypes
  <2>2. CASE Knowledge!Parse(u)
    BY <1>1, <2>1, <2>2 DEF Knowledge!Parse, Knowledge!Step, VaultTypes
  <2>3. CASE Knowledge!Replace(u)
    BY <1>1, <2>1, <2>3 DEF Knowledge!Replace, Knowledge!Step, VaultTypes, StageAndRow
  <2>4. CASE Knowledge!Begin(u)
    <3>1. stage[u] = "activate" /\ archived' = archived /\ seen' = [seen EXCEPT ![u] = {w \in Uploads : version[w] = "active"}]
      BY <2>4 DEF Knowledge!Begin, Knowledge!Step
    <3> QED
      BY <1>1, <2>1, <3>1 DEF VaultTypes, StageAndRow
  <2> QED
    BY <2>2, <2>3, <2>4
<1>5. VaultTypes'
  BY <1>1, <1>2, <1>3, <1>4 DEF VaultTypes, UploadStages
<1>6. stage'[u] = to /\ \A w \in Uploads \ {u} : stage'[w] = stage[w]
  BY <1>1, <1>3 DEF VaultTypes
<1>7. version[u] = "indexing" /\ answer[u][1] = "none"
  BY <1>1, <1>4 DEF StageAndRow
<1>8. StageAndRow(u)' /\ AnswerTrue(u)'
  BY <1>2, <1>4, <1>6, <1>7 DEF StageAndRow, AnswerTrue
<1>9. Knowledge!OneActive'
  BY <1>1, <1>2 DEF Knowledge!OneActive
<1>10. Knowledge!InHand \subseteq {u}
  BY <1>4, AloneInHand
<1> QED
  BY <1>2, <1>4, <1>5, <1>6, <1>8, <1>9, <1>10, OneUpload

\* The transaction that puts a version in the place of the active ones: it saw them all,
\* since no other upload was in hand.
LEMMA ActivateKept ==
  ASSUME VaultInv, NEW u \in Uploads, Knowledge!Activate(u)
  PROVE  VaultInv'
<1>1. VaultTypes /\ StageAndRow(u) /\ AnswerTrue(u) /\ Knowledge!OneActive
  BY DEF VaultInv
<1>2. stage[u] = "commit" /\ UNCHANGED <<archived, seen, answer>>
  BY DEF Knowledge!Activate, Knowledge!Step
<1>3. /\ version[u] = "indexing" /\ u \in archived /\ answer[u][1] = "none"
      /\ seen[u] = {w \in Uploads : version[w] = "active"}
  BY <1>1, <1>2 DEF StageAndRow
<1>4. Knowledge!InHand \subseteq {u}
  BY <1>2, AloneInHand
<1>5. CASE Knowledge!Step(u, "commit", "status") /\ version' = [Knowledge!Replaced(u) EXCEPT ![u] = "active"]
  <2>1. stage' = [stage EXCEPT ![u] = "status"]
    BY <1>5 DEF Knowledge!Step
  <2>2. \A w \in Uploads : version'[w] = IF w = u THEN "active" ELSE IF version[w] = "active" THEN "archived" ELSE version[w]
    BY <1>3, <1>5 DEF Knowledge!Replaced
  <2>3. DOMAIN version' = Uploads /\ version' = [w \in Uploads |-> version'[w]]
    BY <1>5 DEF Knowledge!Replaced
  <2>4. VaultTypes'
    <3>1. version' \in [Uploads -> {"none", "indexing", "active", "archived", "failed"}]
      BY <1>1, <2>2, <2>3 DEF VaultTypes
    <3> QED
      BY <1>1, <1>2, <2>1, <3>1 DEF VaultTypes, UploadStages
  <2>5. stage'[u] = "status" /\ version'[u] = "active" /\ \A w \in Uploads \ {u} : stage'[w] = stage[w]
    BY <1>1, <2>1, <2>2 DEF VaultTypes
  <2>6. Knowledge!OneActive'
    BY <2>2 DEF Knowledge!OneActive
  <2>7. StageAndRow(u)' /\ AnswerTrue(u)'
    BY <1>2, <1>3, <2>5 DEF StageAndRow, AnswerTrue
  <2> QED
    BY <1>2, <1>4, <2>2, <2>4, <2>5, <2>6, <2>7, OneUpload
<1>6. CASE Knowledge!Step(u, "commit", "failing") /\ version' = Knowledge!RolledBack(u)
  <2>1. stage' = [stage EXCEPT ![u] = "failing"] /\ version' = version
    BY <1>6 DEF Knowledge!Step, Knowledge!RolledBack
  <2>2. VaultTypes'
    BY <1>1, <1>2, <2>1 DEF VaultTypes, UploadStages
  <2>3. stage'[u] = "failing" /\ \A w \in Uploads \ {u} : stage'[w] = stage[w]
    BY <1>1, <2>1 DEF VaultTypes
  <2>4. Knowledge!OneActive'
    BY <1>1, <2>1 DEF Knowledge!OneActive
  <2>5. StageAndRow(u)' /\ AnswerTrue(u)'
    BY <1>2, <1>3, <2>1, <2>3 DEF StageAndRow, AnswerTrue
  <2> QED
    BY <1>2, <1>4, <2>1, <2>2, <2>3, <2>4, <2>5, OneUpload
<1> QED
  BY <1>5, <1>6 DEF Knowledge!Activate

\* What status shows to the caller of a version that was just activated.
LEMMA ShownActive ==
  ASSUME Knowledge!OneActive, NEW u \in Uploads, version[u] = "active"
  PROVE  Knowledge!Shown = <<"active", {u}>>
<1>1. {w \in Uploads : version[w] = "active"} = {u}
  BY DEF Knowledge!OneActive
<1>2. (CHOOSE w \in {u} : \A x \in {u} : x <= w) = u
  BY UploadsAssumption
<1>3. Knowledge!Newest("active") = {u}
  BY <1>1, <1>2 DEF Knowledge!Newest
<1> QED
  BY <1>3 DEF Knowledge!Shown

(* The status query of an upload.                                            *)
LEMMA ReportKept ==
  ASSUME VaultInv, NEW u \in Uploads, Knowledge!Report(u)
  PROVE  VaultInv'
<1>1. VaultTypes /\ StageAndRow(u) /\ AnswerTrue(u) /\ Knowledge!OneActive
  BY DEF VaultInv
<1>2. stage[u] = "status" /\ UNCHANGED <<version, archived, seen>>
  BY DEF Knowledge!Report, Knowledge!Step
<1>3. version[u] = "active" /\ u \in archived /\ answer[u][1] = "none"
  BY <1>1, <1>2 DEF StageAndRow
<1>4. Knowledge!InHand \subseteq {u}
  BY <1>2, AloneInHand
<1>5. Knowledge!OneActive'
  BY <1>1, <1>2 DEF Knowledge!OneActive
<1>6. CASE Knowledge!Step(u, "status", "done") /\ Knowledge!Answer(u, Knowledge!Shown)
  <2>1. stage' = [stage EXCEPT ![u] = "done"] /\ answer' = [answer EXCEPT ![u] = <<"active", {u}>>]
    BY <1>1, <1>3, <1>6, ShownActive DEF Knowledge!Step, Knowledge!Answer
  <2>2. VaultTypes'
    <3>1. <<"active", {u}>> \in Sayings \X SUBSET Uploads
      BY Shapely DEF Sayings
    <3> QED
      BY <1>1, <1>2, <2>1, <3>1 DEF VaultTypes, UploadStages
  <2>3. /\ stage'[u] = "done" /\ answer'[u] = <<"active", {u}>>
        /\ \A w \in Uploads \ {u} : stage'[w] = stage[w] /\ answer'[w] = answer[w]
    BY <1>1, <2>1 DEF VaultTypes
  <2>4. StageAndRow(u)' /\ AnswerTrue(u)'
    BY <1>2, <1>3, <2>3 DEF StageAndRow, AnswerTrue
  <2> QED
    BY <1>2, <1>4, <1>5, <2>2, <2>3, <2>4, OneUpload
<1>7. CASE Knowledge!Step(u, "status", "failing") /\ UNCHANGED answer
  <2>1. stage' = [stage EXCEPT ![u] = "failing"]
    BY <1>7 DEF Knowledge!Step
  <2>2. VaultTypes'
    BY <1>1, <1>2, <1>7, <2>1 DEF VaultTypes, UploadStages
  <2>3. stage'[u] = "failing" /\ \A w \in Uploads \ {u} : stage'[w] = stage[w]
    BY <1>1, <2>1 DEF VaultTypes
  <2>4. StageAndRow(u)' /\ AnswerTrue(u)'
    BY <1>2, <1>3, <1>7, <2>3 DEF StageAndRow, AnswerTrue
  <2> QED
    BY <1>2, <1>4, <1>5, <1>7, <2>2, <2>3, <2>4, OneUpload
<1> QED
  BY <1>6, <1>7 DEF Knowledge!Report

\* An upload that failed: its archive is removed, and its row marked unless it is active.
LEMMA FailKept ==
  ASSUME VaultInv, NEW u \in Uploads, Knowledge!Fail(u)
  PROVE  VaultInv'
<1>1. VaultTypes /\ StageAndRow(u) /\ AnswerTrue(u) /\ Knowledge!OneActive
  BY DEF VaultInv
<1>2. archived' = archived \ {u} /\ seen' = seen
  BY DEF Knowledge!Fail
<1>3. PICK said \in {<<"rejecting", "rejected">>, <<"failing", "unavailable">>} :
        \/ /\ Knowledge!Step(u, said[1], "done") /\ Knowledge!Told(u, said[2])
           /\ version' = [version EXCEPT ![u] = IF @ = "indexing" THEN "failed" ELSE @]
        \/ Knowledge!Step(u, said[1], "done") /\ Knowledge!Told(u, "error") /\ UNCHANGED version
  BY DEF Knowledge!Fail
<1>4. /\ stage[u] \in {"rejecting", "failing"} /\ stage[u] = said[1] /\ stage' = [stage EXCEPT ![u] = "done"]
      /\ said[2] \in {"rejected", "unavailable"} /\ (said[2] = "rejected" => said[1] = "rejecting")
  BY <1>3 DEF Knowledge!Step
<1>5. PICK what \in {said[2], "error"} :
        /\ answer' = [answer EXCEPT ![u] = <<what, {}>>]
        /\ version' = IF what = "error" THEN version
                      ELSE [version EXCEPT ![u] = IF version[u] = "indexing" THEN "failed" ELSE version[u]]
  <2>1. \/ answer' = [answer EXCEPT ![u] = <<said[2], {}>>]
           /\ version' = [version EXCEPT ![u] = IF version[u] = "indexing" THEN "failed" ELSE version[u]]
        \/ answer' = [answer EXCEPT ![u] = <<"error", {}>>] /\ version' = version
    BY <1>3 DEF Knowledge!Told, Knowledge!Answer
  <2>2. said[2] # "error"
    BY <1>4
  <2> QED
    BY <2>1, <2>2
<1>6. version[u] \in {"indexing", "active"} /\ (stage[u] = "rejecting" => version[u] = "indexing")
  BY <1>1, <1>4 DEF StageAndRow
<1>7. /\ version' \in [Uploads -> {"none", "indexing", "active", "archived", "failed"}]
      /\ version'[u] = IF what # "error" /\ version[u] = "indexing" THEN "failed" ELSE version[u]
      /\ \A w \in Uploads \ {u} : version'[w] = version[w]
  BY <1>1, <1>5, <1>6 DEF VaultTypes
<1>8. /\ stage'[u] = "done" /\ answer'[u] = <<what, {}>> /\ what \in {"rejected", "unavailable", "error"}
      /\ \A w \in Uploads \ {u} : stage'[w] = stage[w] /\ answer'[w] = answer[w]
  BY <1>1, <1>4, <1>5 DEF VaultTypes
<1>9. VaultTypes'
  <2>1. <<what, {}>> \in Sayings \X SUBSET Uploads
    BY <1>8, Shapely DEF Sayings
  <2>2. answer' \in [Uploads -> Sayings \X SUBSET Uploads]
    BY <1>1, <1>5, <2>1 DEF VaultTypes
  <2> QED
    BY <1>1, <1>2, <1>4, <1>7, <2>2 DEF VaultTypes, UploadStages
<1>10. Knowledge!OneActive'
  <2>1. \A w \in Uploads : (version'[w] = "active" <=> version[w] = "active") /\ (version'[w] = "archived" <=> version[w] = "archived")
    BY <1>6, <1>7
  <2> QED
    BY <1>1, <2>1 DEF Knowledge!OneActive
<1>11. StageAndRow(u)'
  BY <1>8 DEF StageAndRow
<1>12. AnswerTrue(u)'
  <2>1. what = "rejected" => version'[u] = "failed"
    BY <1>4, <1>5, <1>6, <1>7
  <2> QED
    BY <1>2, <1>8, <2>1 DEF AnswerTrue
<1>13. Knowledge!InHand \subseteq {u}
  BY <1>4, AloneInHand
<1>14. \A w \in Uploads \ {u} : w \in archived' <=> w \in archived
  BY <1>2
<1> QED
  BY <1>7, <1>8, <1>9, <1>10, <1>11, <1>12, <1>13, <1>14, OneUpload

(* A process that dies.                                                      *)
LEMMA CrashKept ==
  ASSUME VaultInv, Knowledge!Crash
  PROVE  VaultInv'
<1>1. VaultTypes /\ Knowledge!OneActive
  BY DEF VaultInv
<1>2. /\ stage' = [u \in Uploads |-> IF u \in Knowledge!InHand THEN "done" ELSE stage[u]]
      /\ answer' = [u \in Uploads |-> IF u \in Knowledge!InHand THEN <<"lost", {}>> ELSE answer[u]]
      /\ UNCHANGED <<version, archived, seen>>
  BY DEF Knowledge!Crash
<1>3. VaultTypes'
  <2>1. <<"lost", {}>> \in Sayings \X SUBSET Uploads
    BY Shapely DEF Sayings
  <2> QED
    BY <1>1, <1>2, <2>1 DEF VaultTypes, UploadStages
<1>4. Knowledge!OneActive'
  BY <1>1, <1>2 DEF Knowledge!OneActive
<1>5. ASSUME NEW u \in Uploads
      PROVE  StageAndRow(u)' /\ AnswerTrue(u)' /\ u \notin Knowledge!InHand'
  <2>1. StageAndRow(u) /\ AnswerTrue(u)
    BY DEF VaultInv
  <2>2. CASE u \in Knowledge!InHand
    <3>1. stage'[u] = "done" /\ answer'[u][1] = "lost"
      BY <1>2, <2>2
    <3> QED
      BY <3>1 DEF StageAndRow, AnswerTrue, Knowledge!InHand
  <2>3. CASE u \notin Knowledge!InHand
    <3>1. stage'[u] = stage[u] /\ answer'[u] = answer[u] /\ stage[u] \in {"waiting", "done"}
      BY <1>2, <2>3 DEF Knowledge!InHand
    <3> QED
      BY <1>2, <2>1, <3>1 DEF StageAndRow, AnswerTrue, Knowledge!InHand
  <2> QED
    BY <2>2, <2>3
<1>6. Knowledge!InHand' = {}
  BY <1>5 DEF Knowledge!InHand
<1> QED
  BY <1>3, <1>4, <1>5, <1>6 DEF VaultInv

(* The invariant holds when nothing was uploaded yet.                        *)
LEMMA VaultStarts == Knowledge!Init => VaultInv
<1> SUFFICES ASSUME Knowledge!Init
             PROVE  VaultInv
  OBVIOUS
<1>1. VaultTypes
  <2>1. <<"none", {}>> \in Sayings \X SUBSET Uploads
    BY Shapely DEF Sayings
  <2> QED
    BY <2>1 DEF Knowledge!Init, VaultTypes, UploadStages
<1>2. \A u \in Uploads : StageAndRow(u) /\ AnswerTrue(u)
  BY DEF Knowledge!Init, StageAndRow, AnswerTrue
<1> QED
  BY <1>1, <1>2 DEF Knowledge!Init, VaultInv, Knowledge!InHand, Knowledge!OneActive

(* Every step keeps it.                                                      *)
LEMMA VaultStep == VaultInv /\ [Knowledge!Next]_(Knowledge!vars) => VaultInv'
<1> SUFFICES ASSUME VaultInv, [Knowledge!Next]_(Knowledge!vars)
             PROVE  VaultInv'
  OBVIOUS
<1>1. ASSUME UNCHANGED <<version, archived, stage, seen, answer>>
      PROVE  VaultInv'
  BY <1>1 DEF VaultInv, VaultTypes, StageAndRow, AnswerTrue, Knowledge!InHand, Knowledge!OneActive
<1>2. CASE Knowledge!AskStatus \/ Knowledge!Search \/ UNCHANGED Knowledge!vars
  BY <1>1, <1>2 DEF Knowledge!AskStatus, Knowledge!Search, Knowledge!vars
<1> QED
  BY <1>2, CreateKept, IndexingKept, ActivateKept, ReportKept, FailKept, CrashKept DEF Knowledge!Next

(* The vault by itself.                                                      *)
LEMMA VersionsKept == Knowledge!Spec => []Knowledge!VaultVersions
<1>1. VaultInv => Knowledge!VaultVersions
  BY DEF VaultInv, AnswerTrue, Knowledge!VaultAnswers, Knowledge!VaultVersions
<1> QED
  BY <1>1, VaultStarts, VaultStep, PTL DEF Knowledge!Spec

(* What the other services do changes nothing in the vault.                  *)
LEMMA VaultAlone == Services => Knowledge!Spec
<1>1. InitServices => Knowledge!Init
  BY DEF InitServices
<1>2. [NextServices]_servicesVars => [Knowledge!Next]_(Knowledge!vars)
  BY DEF NextServices, servicesVars, knowledgeVars, Knowledge!vars
<1> QED
  BY <1>1, <1>2, PTL DEF Services, Knowledge!Spec

(* Whatever fails or dies between two statements, the vault has at most one  *)
(* active version and, once it has one, never none; an upload that is        *)
(* answered with success is that version, and one that was refused leaves    *)
(* neither an active row nor an archive.                                     *)
THEOREM VaultKept == Services => []VaultVersions
<1>1. Knowledge!VaultVersions => VaultVersions
  BY DEF VaultVersions
<1> QED
  BY <1>1, VaultAlone, VersionsKept, PTL

-----------------------------------------------------------------------------
(* Induction.  The library states it with an operator as its parameter; here *)
(* it is a set of numbers, and holds because a finite set is not injected    *)
(* into a proper part of itself.                                             *)
LEMMA Induced ==
  ASSUME NEW T \in SUBSET Nat, 0 \in T, \A n \in T : n + 1 \in T
  PROVE  T = Nat
<1> SUFFICES ASSUME NEW n \in Nat, n \notin T
             PROVE  FALSE
  OBVIOUS
<1> DEFINE D == T \cap (0 .. n)
           f == [m \in D |-> m + 1]
<1>1. IsFiniteSet(D)
  <2>1. IsFiniteSet(0 .. n)
    BY FS_Interval
  <2> QED
    BY <2>1, FS_Subset
<1>2. f \in [D -> D]
  <2> SUFFICES ASSUME NEW m \in D PROVE m + 1 \in D
    OBVIOUS
  <2>1. m + 1 \in T /\ m # n /\ m \in 0 .. n
    OBVIOUS
  <2> QED
    BY <2>1
<1>3. f \in Injection(D, D)
  <2>1. \A a, b \in D : f[a] = f[b] => a = b
    OBVIOUS
  <2> QED
    BY <1>2, <2>1 DEF Injection, IsInjective
<1>4. f \in Surjection(D, D)
  BY <1>1, <1>3, FS_Injection
<1>5. 0 \in D
  OBVIOUS
<1>6. PICK m \in D : f[m] = 0
  BY <1>4, <1>5 DEF Surjection
<1> QED
  BY <1>6

(* Of finitely many numbers one is the greatest.                             *)
LEMMA Greatest ==
  ASSUME NEW n \in Nat, NEW S \in SUBSET (1 .. n), S # {}
  PROVE  \E k \in S : \A l \in S : l <= k
<1> DEFINE T == {m \in Nat : \A U \in SUBSET (1 .. m) : U # {} => \E k \in U : \A l \in U : l <= k}
<1>1. 0 \in T
  <2>1. 1 .. 0 = {}
    OBVIOUS
  <2> QED
    BY <2>1
<1>2. ASSUME NEW m \in T PROVE m + 1 \in T
  <2> SUFFICES ASSUME NEW U \in SUBSET (1 .. m + 1), U # {}
               PROVE  \E k \in U : \A l \in U : l <= k
    OBVIOUS
  <2>1. CASE m + 1 \in U
    BY <2>1
  <2>2. CASE m + 1 \notin U
    <3>1. U \in SUBSET (1 .. m)
      BY <2>2
    <3> QED
      BY <3>1
  <2> QED
    BY <2>1, <2>2
<1>3. T = Nat
  <2> HIDE DEF T
  <2>1. T \in SUBSET Nat
    BY DEF T
  <2> QED
    BY <1>1, <1>2, <2>1, Induced
<1>4. n \in T
  BY <1>3
<1> QED
  BY <1>4

-----------------------------------------------------------------------------
(***************************************************************************)
(* The knowledge vault: what is active is complete, and is found.          *)
(***************************************************************************)

(* A function that follows a rule step by step: there is one.                *)
RuleFor(rule, N, S) == rule \in [(1 .. N) \X S -> S]
Following(f, N, S, first, rule) ==
    f \in [0 .. N -> S] /\ f[0] = first /\ \A n \in 1 .. N : f[n] = rule[<<n, f[n - 1]>>]
LEMMA Recursion ==
  ASSUME NEW N \in Nat, NEW S, NEW first \in S, NEW rule, RuleFor(rule, N, S)
  PROVE  \E f : Following(f, N, S, first, rule)
<1> USE DEF RuleFor
<1> DEFINE Follows(f, m) == f[0] = first /\ \A n \in 1 .. m : f[n] = rule[<<n, f[n - 1]>>]
           T == {m \in Nat : m <= N => \E f \in [0 .. m -> S] : Follows(f, m)}
<1>1. 0 \in T
  <2>1. [n \in 0 .. 0 |-> first] \in [0 .. 0 -> S] /\ Follows([n \in 0 .. 0 |-> first], 0)
    OBVIOUS
  <2> QED
    BY <2>1
<1>2. ASSUME NEW m \in T PROVE m + 1 \in T
  <2> SUFFICES ASSUME m + 1 <= N
               PROVE  \E f \in [0 .. m + 1 -> S] : Follows(f, m + 1)
    OBVIOUS
  <2>1. PICK f \in [0 .. m -> S] : Follows(f, m)
    OBVIOUS
  <2> DEFINE g == [n \in 0 .. m + 1 |-> IF n = m + 1 THEN rule[<<m + 1, f[m]>>] ELSE f[n]]
  <2>2. f[m] \in S /\ m + 1 \in 1 .. N
    OBVIOUS
  <2>3. rule[<<m + 1, f[m]>>] \in S
    BY <2>2
  <2>4. g \in [0 .. m + 1 -> S]
    BY <2>3
  <2>5. g[0] = first
    BY <2>1
  <2>7. g[m + 1] = rule[<<m + 1, f[m]>>] /\ \A n \in 0 .. m : g[n] = f[n]
    OBVIOUS
  <2> HIDE DEF g
  <2>6. ASSUME NEW n \in 1 .. m + 1 PROVE g[n] = rule[<<n, g[n - 1]>>]
    <3>1. CASE n = m + 1
      <4>1. n - 1 = m /\ m \in 0 .. m
        BY <3>1
      <4>2. g[n - 1] = f[m]
        BY <2>7, <4>1
      <4> QED
        BY <2>7, <3>1, <4>2
    <3>2. CASE n # m + 1
      <4>1. n \in 1 .. m /\ n - 1 \in 0 .. m /\ n \in 0 .. m
        BY <3>2
      <4>2. f[n] = rule[<<n, f[n - 1]>>]
        BY <2>1, <4>1
      <4> QED
        BY <2>7, <4>1, <4>2
    <3> QED
      BY <3>1, <3>2
  <2> QED
    BY <2>4, <2>5, <2>6
<1>3. T = Nat
  <2> HIDE DEF T
  <2>1. T \in SUBSET Nat
    BY DEF T
  <2> QED
    BY <1>1, <1>2, <2>1, Induced
<1>4. N \in T
  BY <1>3
<1> QED
  BY <1>4 DEF Following

(* The sequences joined, one after the other.                                *)
Joining(f, ss, T) ==
    /\ f \in [0 .. Len(ss) -> Seq(T)]
    /\ f[0] = <<>> /\ \A n \in 1 .. Len(ss) : f[n] = f[n - 1] \o ss[n]
LEMMA JoinedBy ==
  ASSUME NEW T, NEW ss \in Seq(Seq(T))
  PROVE  \E f : Joining(f, ss, T) /\ Knowledge!Joined(ss) = f[Len(ss)]
<1> DEFINE N == Len(ss)
           S == Seq(T)
           Rule(f) == [n \in 0 .. N |-> IF n = 0 THEN <<>> ELSE f[n - 1] \o ss[n]]
           g == CHOOSE f : f = Rule(f)
           rule == [x \in (1 .. N) \X S |-> x[2] \o ss[x[1]]]
<1>0. N \in Nat /\ <<>> \in S /\ (\A n \in 1 .. N : ss[n] \in S) /\ (\A s, t \in S : s \o t \in S)
  OBVIOUS
<1>1. rule \in [(1 .. N) \X S -> S]
  <2> HIDE DEF N, S
  <2> QED
    BY <1>0
<1>2. PICK f : Following(f, N, S, <<>>, rule)
  <2>1. N \in Nat /\ <<>> \in S /\ RuleFor(rule, N, S)
    BY <1>0, <1>1 DEF RuleFor
  <2> HIDE DEF N, S, rule
  <2> QED
    BY <2>1, Recursion
<1>3. \A n \in 1 .. N : f[n] = f[n - 1] \o ss[n]
  <2> SUFFICES ASSUME NEW n \in 1 .. N PROVE f[n] = f[n - 1] \o ss[n]
    OBVIOUS
  <2> HIDE DEF N, S
  <2>1. <<n, f[n - 1]>> \in (1 .. N) \X S
    BY <1>0, <1>2 DEF Following
  <2> QED
    BY <1>2, <2>1 DEF Following
<1>4. f = Rule(f)
  <2> HIDE DEF N, S
  <2>1. \A n \in 0 .. N : f[n] = IF n = 0 THEN <<>> ELSE f[n - 1] \o ss[n]
    <3> SUFFICES ASSUME NEW n \in 0 .. N, n # 0
                 PROVE  f[n] = f[n - 1] \o ss[n]
      BY <1>2 DEF Following
    <3>1. n \in 1 .. N
      BY <1>0
    <3> QED
      BY <1>3, <3>1
  <2>2. f = [n \in 0 .. N |-> f[n]]
    BY <1>2 DEF Following
  <2>3. [n \in 0 .. N |-> f[n]] = Rule(f)
    BY <2>1
  <2> QED
    BY <2>2, <2>3
<1>5. g = Rule(g)
  BY <1>4
<1>6. Knowledge!Joined(ss) = g[N]
  BY DEF Knowledge!Joined
<1> HIDE DEF g
<1>7. g[0] = <<>> /\ \A n \in 1 .. N : g[n] = g[n - 1] \o ss[n]
  <2> HIDE DEF N
  <2>1. 0 \in 0 .. N /\ \A n \in 1 .. N : n \in 0 .. N /\ n # 0
    BY <1>0
  <2> QED
    BY <1>5, <2>1
<1>8. g \in [0 .. N -> S]
  <2> DEFINE U == {n \in Nat : n <= N => g[n] \in S}
  <2> HIDE DEF N, S
  <2>1. 0 \in U
    BY <1>0, <1>7
  <2>2. ASSUME NEW n \in U PROVE n + 1 \in U
    <3> SUFFICES ASSUME n + 1 <= N PROVE g[n + 1] \in S
      OBVIOUS
    <3>1. g[n] \in S /\ n + 1 \in 1 .. N /\ (n + 1) - 1 = n
      BY <1>0
    <3> QED
      BY <1>0, <1>7, <3>1
  <2>3. U = Nat
    <3> HIDE DEF U
    <3>1. U \in SUBSET Nat
      BY DEF U
    <3> QED
      BY <2>1, <2>2, <3>1, Induced
  <2>4. \A n \in 0 .. N : g[n] \in S
    BY <1>0, <2>3
  <2> QED
    BY <1>5, <2>4
<1> QED
  BY <1>6, <1>7, <1>8 DEF Joining

(* Two ways to join agree as far as the sequences do.                        *)
LEMMA JoiningAlike ==
  ASSUME NEW T, NEW ss \in Seq(Seq(T)), NEW tt \in Seq(Seq(T)), NEW f, NEW g, Joining(f, ss, T), Joining(g, tt, T),
         NEW m \in Nat, m <= Len(ss), m <= Len(tt), \A n \in 1 .. m : ss[n] = tt[n]
  PROVE  f[m] = g[m]
<1> DEFINE U == {n \in Nat : n <= m => f[n] = g[n]}
<1>0. Len(ss) \in Nat /\ Len(tt) \in Nat
  OBVIOUS
<1>1. 0 \in U
  BY DEF Joining
<1>2. ASSUME NEW n \in U PROVE n + 1 \in U
  <2> SUFFICES ASSUME n + 1 <= m PROVE f[n + 1] = g[n + 1]
    OBVIOUS
  <2>1. n + 1 \in 1 .. m /\ n + 1 \in 1 .. Len(ss) /\ n + 1 \in 1 .. Len(tt) /\ (n + 1) - 1 = n
    BY <1>0
  <2>2. f[n + 1] = f[n] \o ss[n + 1] /\ g[n + 1] = g[n] \o tt[n + 1]
    BY <2>1 DEF Joining
  <2>3. f[n] = g[n] /\ ss[n + 1] = tt[n + 1]
    BY <1>0, <2>1
  <2> QED
    BY <2>2, <2>3
<1>3. U = Nat
  <2> HIDE DEF U
  <2>1. U \in SUBSET Nat
    BY DEF U
  <2> QED
    BY <1>1, <1>2, <2>1, Induced
<1>4. m \in U
  BY <1>3
<1> QED
  BY <1>4

(* What is joined of nothing, and of one sequence more.                      *)
LEMMA JoinedMore ==
  ASSUME NEW T, NEW ss \in Seq(Seq(T)), NEW s \in Seq(T)
  PROVE  /\ Knowledge!Joined(<<>>) = <<>> /\ Knowledge!Joined(ss) \in Seq(T)
         /\ Knowledge!Joined(Append(ss, s)) = Knowledge!Joined(ss) \o s
<1> DEFINE tt == Append(ss, s)
           n == Len(ss)
           none == <<>>
<1>1. none \in Seq(Seq(T)) /\ Len(none) = 0
  OBVIOUS
<1>2. tt \in Seq(Seq(T)) /\ Len(tt) = n + 1 /\ n \in Nat /\ tt[n + 1] = s /\ \A k \in 1 .. n : ss[k] = tt[k]
  OBVIOUS
<1> HIDE DEF tt, none
<1>3. PICK f : Joining(f, ss, T) /\ Knowledge!Joined(ss) = f[n]
  BY JoinedBy
<1>4. PICK g : Joining(g, tt, T) /\ Knowledge!Joined(tt) = g[n + 1]
  <2>1. \E g : Joining(g, tt, T) /\ Knowledge!Joined(tt) = g[Len(tt)]
    BY <1>2, JoinedBy
  <2> QED
    BY <1>2, <2>1
<1>5. Knowledge!Joined(none) = <<>>
  <2>1. \E h : Joining(h, none, T) /\ Knowledge!Joined(none) = h[Len(none)]
    BY <1>1, JoinedBy
  <2> QED
    BY <1>1, <2>1 DEF Joining
<1>6. n <= Len(ss) /\ n <= Len(tt)
  BY <1>2
<1> HIDE DEF n
<1>7. f[n] = g[n]
  BY <1>2, <1>3, <1>4, <1>6, JoiningAlike
<1>8. n + 1 \in 1 .. Len(tt) /\ (n + 1) - 1 = n
  BY <1>2
<1>9. g[n + 1] = g[n] \o s
  BY <1>2, <1>4, <1>8 DEF Joining
<1>10. f[n] \in Seq(T)
  BY <1>2, <1>3 DEF Joining, n
<1> QED
  BY <1>3, <1>4, <1>5, <1>7, <1>9, <1>10 DEF tt, none

(* Sequences in a row, whichever are put together first.                     *)
LEMMA Chained ==
  ASSUME NEW T, NEW a \in Seq(T), NEW b \in Seq(T), NEW c \in Seq(T)
  PROVE  (a \o b) \o c = a \o (b \o c)
BY ConcatAssociative

(* The last of a sequence and those in front of it.                          *)
LEMMA LastApart ==
  ASSUME NEW S, NEW s \in Seq(S), NEW n \in Nat, Len(s) = n + 1
  PROVE  /\ SubSeq(s, 1, n) \in Seq(S) /\ Len(SubSeq(s, 1, n)) = n /\ s[n + 1] \in S
         /\ s = Append(SubSeq(s, 1, n), s[n + 1])
<1>1. SubSeq(s, 1, n) \in Seq(S) /\ Len(SubSeq(s, 1, n)) = n /\ s[n + 1] \in S
  OBVIOUS
<1> DEFINE r == Append(SubSeq(s, 1, n), s[n + 1])
<1>2. r \in Seq(S) /\ Len(s) = Len(r) /\ \A k \in 1 .. Len(s) : s[k] = r[k]
  OBVIOUS
<1> HIDE DEF r
<1>3. s = r
  BY <1>2, SeqEqual
<1> QED
  BY <1>1, <1>3 DEF r

(* What holds of the empty sequence and of every sequence that is one longer *)
(* holds of all.                                                             *)
LEMMA ByAppending ==
  ASSUME NEW S, NEW P, P \subseteq Seq(S), <<>> \in P, \A s \in P : \A x \in S : Append(s, x) \in P
  PROVE  \A s \in Seq(S) : s \in P
<1> DEFINE U == {n \in Nat : \A s \in Seq(S) : Len(s) = n => s \in P}
<1>1. 0 \in U
  <2>1. \A s \in Seq(S) : Len(s) = 0 => s = <<>>
    OBVIOUS
  <2> QED
    BY <2>1
<1>2. ASSUME NEW n \in U PROVE n + 1 \in U
  <2> SUFFICES ASSUME NEW s \in Seq(S), Len(s) = n + 1
               PROVE  s \in P
    OBVIOUS
  <2> DEFINE r == SubSeq(s, 1, n)
             x == s[n + 1]
  <2>1. r \in Seq(S) /\ Len(r) = n /\ x \in S /\ s = Append(r, x)
    BY LastApart
  <2>2. r \in P
    BY <2>1
  <2> HIDE DEF r, x
  <2> QED
    BY <2>1, <2>2
<1>3. U = Nat
  <2> HIDE DEF U
  <2>1. U \in SUBSET Nat
    BY DEF U
  <2> QED
    BY <1>1, <1>2, <2>1, Induced
<1>4. \A s \in Seq(S) : Len(s) \in U
  BY <1>3
<1> QED
  BY <1>4

(* Joined in two parts.                                                      *)
LEMMA JoinedConcat ==
  ASSUME NEW T, NEW ss \in Seq(Seq(T)), NEW tt \in Seq(Seq(T))
  PROVE  Knowledge!Joined(ss \o tt) = Knowledge!Joined(ss) \o Knowledge!Joined(tt)
<1> DEFINE S == Seq(T)
           P == {r \in Seq(S) : Knowledge!Joined(ss \o r) = Knowledge!Joined(ss) \o Knowledge!Joined(r)}
<1>1. <<>> \in P
  <2>1. ss \o <<>> = ss /\ <<>> \in Seq(S) /\ Knowledge!Joined(ss) \in Seq(T) /\ Knowledge!Joined(<<>>) = <<>>
    <3>1. <<>> \in S
      OBVIOUS
    <3> QED
      BY <3>1, JoinedMore
  <2>2. Knowledge!Joined(ss) \o <<>> = Knowledge!Joined(ss)
    BY <2>1
  <2> QED
    BY <2>1, <2>2
<1>2. ASSUME NEW r \in P, NEW x \in S PROVE Append(r, x) \in P
  <2>1. ss \o r \in Seq(S) /\ ss \o Append(r, x) = Append(ss \o r, x) /\ Append(r, x) \in Seq(S)
    OBVIOUS
  <2>2. /\ Knowledge!Joined(Append(ss \o r, x)) = Knowledge!Joined(ss \o r) \o x
        /\ Knowledge!Joined(Append(r, x)) = Knowledge!Joined(r) \o x
        /\ Knowledge!Joined(ss) \in S /\ Knowledge!Joined(r) \in S
    BY <2>1, JoinedMore
  <2>4. (Knowledge!Joined(ss) \o Knowledge!Joined(r)) \o x = Knowledge!Joined(ss) \o (Knowledge!Joined(r) \o x)
    <3> DEFINE a == Knowledge!Joined(ss)
               b == Knowledge!Joined(r)
    <3>1. a \in Seq(T) /\ b \in Seq(T) /\ x \in Seq(T)
      BY <2>2
    <3> HIDE DEF a, b, P, S
    <3>2. (a \o b) \o x = a \o (b \o x)
      BY <3>1, Chained
    <3> QED
      BY <3>2 DEF a, b
  <2> QED
    BY <2>1, <2>2, <2>4
<1>3. P \subseteq Seq(S)
  OBVIOUS
<1>4. tt \in P
  <2> HIDE DEF P, S
  <2>1. \A r \in Seq(S) : r \in P
    BY <1>1, <1>2, <1>3, ByAppending
  <2> QED
    BY <2>1 DEF S
<1> QED
  BY <1>4

(* What is in a sequence.                                                    *)
Elements(s) == {s[k] : k \in DOMAIN s}
LEMMA ElementsConcat ==
  ASSUME NEW T, NEW s \in Seq(T), NEW t \in Seq(T)
  PROVE  Elements(s \o t) = Elements(s) \cup Elements(t)
<1>1. \A x : x \in Elements(s \o t) => x \in Elements(s) \cup Elements(t)
  BY DEF Elements
<1>2. \A k \in DOMAIN s : k \in DOMAIN (s \o t) /\ (s \o t)[k] = s[k]
  OBVIOUS
<1>3. \A k \in DOMAIN t : Len(s) + k \in DOMAIN (s \o t) /\ (s \o t)[Len(s) + k] = t[k]
  OBVIOUS
<1>4. \A x : x \in Elements(s) => x \in Elements(s \o t)
  BY <1>2 DEF Elements
<1>5. \A x : x \in Elements(t) => x \in Elements(s \o t)
  BY <1>3 DEF Elements
<1> QED
  BY <1>1, <1>4, <1>5

(* What is joined has the elements of all.                                   *)
LEMMA JoinedElements ==
  ASSUME NEW T, NEW ss \in Seq(Seq(T))
  PROVE  \A x : x \in Elements(Knowledge!Joined(ss)) <=> \E i \in DOMAIN ss : x \in Elements(ss[i])
<1> DEFINE S == Seq(T)
           P == {r \in Seq(S) : \A x : x \in Elements(Knowledge!Joined(r)) <=> \E i \in DOMAIN r : x \in Elements(r[i])}
<1>0. <<>> \in S /\ <<>> \in Seq(S)
  OBVIOUS
<1>1. <<>> \in P
  <2>1. Knowledge!Joined(<<>>) = <<>>
    BY <1>0, JoinedMore
  <2> QED
    BY <1>0, <2>1 DEF Elements
<1>2. ASSUME NEW r \in P, NEW s \in S PROVE Append(r, s) \in P
  <2>1. Knowledge!Joined(Append(r, s)) = Knowledge!Joined(r) \o s /\ Knowledge!Joined(r) \in Seq(T)
    BY JoinedMore
  <2>2. Elements(Knowledge!Joined(Append(r, s))) = Elements(Knowledge!Joined(r)) \cup Elements(s)
    BY <2>1, ElementsConcat
  <2>3. /\ Append(r, s) \in Seq(S) /\ DOMAIN Append(r, s) = DOMAIN r \cup {Len(r) + 1} /\ Append(r, s)[Len(r) + 1] = s
        /\ \A i \in DOMAIN r : Append(r, s)[i] = r[i]
    OBVIOUS
  <2>4. \A x : x \in Elements(Knowledge!Joined(r)) <=> \E i \in DOMAIN r : x \in Elements(r[i])
    OBVIOUS
  <2> QED
    BY <2>2, <2>3, <2>4
<1>3. P \subseteq Seq(S)
  OBVIOUS
<1>4. ss \in P
  <2> HIDE DEF P, S
  <2>1. \A r \in Seq(S) : r \in P
    BY <1>0, <1>1, <1>2, <1>3, ByAppending
  <2> QED
    BY <2>1 DEF S
<1> QED
  BY <1>4

(* Where all but one are empty, that one is what is joined.                  *)
LEMMA JoinedOnly ==
  ASSUME NEW T, NEW ss \in Seq(Seq(T))
  PROVE  /\ (\A i \in DOMAIN ss : ss[i] = <<>>) => Knowledge!Joined(ss) = <<>>
         /\ \A i \in DOMAIN ss : (\A j \in DOMAIN ss : j # i => ss[j] = <<>>) => Knowledge!Joined(ss) = ss[i]
<1> DEFINE S == Seq(T)
           None(r) == (\A i \in DOMAIN r : r[i] = <<>>) => Knowledge!Joined(r) = <<>>
           Only(r) == \A i \in DOMAIN r : (\A j \in DOMAIN r : j # i => r[j] = <<>>) => Knowledge!Joined(r) = r[i]
           P == {r \in Seq(S) : None(r) /\ Only(r)}
<1>0. <<>> \in S /\ <<>> \in Seq(S)
  OBVIOUS
<1>1. <<>> \in P
  <2>1. Knowledge!Joined(<<>>) = <<>>
    BY <1>0, JoinedMore
  <2> QED
    BY <1>0, <2>1
<1>2. ASSUME NEW r \in P, NEW s \in S PROVE Append(r, s) \in P
  <2>1. Knowledge!Joined(Append(r, s)) = Knowledge!Joined(r) \o s /\ Knowledge!Joined(r) \in Seq(T)
    BY JoinedMore
  <2> DEFINE n == Len(r) + 1
             q == Append(r, s)
  <2>2. /\ q \in Seq(S) /\ DOMAIN q = DOMAIN r \cup {n} /\ n \notin DOMAIN r /\ q[n] = s
        /\ \A i \in DOMAIN r : q[i] = r[i] /\ r[i] \in Seq(T)
    OBVIOUS
  <2>3. None(r) /\ Only(r)
    OBVIOUS
  <2>4. \A t \in Seq(T) : t \o <<>> = t /\ <<>> \o t = t
    OBVIOUS
  <2> HIDE DEF n, q
  <2>5. ASSUME \A i \in DOMAIN q : q[i] = <<>>
        PROVE  Knowledge!Joined(q) = <<>>
    <3>1. Knowledge!Joined(r) = <<>> /\ s = <<>>
      BY <2>2, <2>3, <2>5
    <3> QED
      BY <2>1, <2>4, <3>1 DEF q
  <2>6. ASSUME NEW i \in DOMAIN q, \A j \in DOMAIN q : j # i => q[j] = <<>>
        PROVE  Knowledge!Joined(q) = q[i]
    <3>1. CASE i = n
      <4>1. \A j \in DOMAIN r : r[j] = <<>>
        BY <2>2, <2>6, <3>1
      <4>2. Knowledge!Joined(r) = <<>>
        BY <2>3, <4>1
      <4> QED
        BY <2>1, <2>2, <2>4, <3>1, <4>2 DEF q
    <3>2. CASE i # n
      <4>1. i \in DOMAIN r /\ s = <<>> /\ \A j \in DOMAIN r : j # i => r[j] = <<>>
        BY <2>2, <2>6, <3>2
      <4>2. Knowledge!Joined(r) = r[i]
        BY <2>3, <4>1
      <4> QED
        BY <2>1, <2>2, <2>4, <4>1, <4>2 DEF q
    <3> QED
      BY <3>1, <3>2
  <2> QED
    BY <2>2, <2>5, <2>6 DEF q
<1>3. P \subseteq Seq(S)
  OBVIOUS
<1>4. ss \in P
  <2> HIDE DEF P, S
  <2>1. \A r \in Seq(S) : r \in P
    BY <1>0, <1>1, <1>2, <1>3, ByAppending
  <2> QED
    BY <2>1 DEF S
<1> QED
  BY <1>4

(* The chunks of a note.                                                     *)
Chunk == [path : VaultText, about : SUBSET VaultText, heading : VaultText, text : VaultText]
TextUnder(chunks, p, h) ==
    [k \in DOMAIN chunks |-> IF chunks[k].path = p /\ chunks[k].heading = h THEN chunks[k].text ELSE <<>>]

(* The words that chunks hold under a heading are those of each.             *)
LEMMA StoredIs ==
  ASSUME NEW cs \in Seq(Chunk), NEW p, NEW h
  PROVE  /\ TextUnder(cs, p, h) \in Seq(VaultText) /\ Len(TextUnder(cs, p, h)) = Len(cs)
         /\ Knowledge!Stored(cs, p, h) = Knowledge!Joined(TextUnder(cs, p, h))
         /\ Knowledge!Stored(cs, p, h) \in VaultText
<1>1. <<>> \in VaultText /\ \A k \in DOMAIN cs : cs[k].text \in VaultText
  <2>1. \A c \in Chunk : c.text \in VaultText
    BY DEF Chunk
  <2> QED
    BY <2>1 DEF VaultText
<1>2. TextUnder(cs, p, h) \in Seq(VaultText) /\ Len(TextUnder(cs, p, h)) = Len(cs)
  <2> HIDE DEF VaultText
  <2> QED
    BY <1>1 DEF TextUnder
<1>3. Knowledge!Stored(cs, p, h) = Knowledge!Joined(TextUnder(cs, p, h))
  BY DEF Knowledge!Stored, TextUnder
<1>4. Knowledge!Joined(TextUnder(cs, p, h)) \in VaultText
  <2>1. TextUnder(cs, p, h) \in Seq(VaultText) /\ <<>> \in VaultText
    BY <1>2 DEF VaultText
  <2> QED
    BY <2>1, JoinedMore DEF VaultText
<1> QED
  BY <1>2, <1>3, <1>4

(* Of chunks in two parts: what each of them holds.                          *)
LEMMA StoredConcat ==
  ASSUME NEW a \in Seq(Chunk), NEW b \in Seq(Chunk), NEW p, NEW h
  PROVE  Knowledge!Stored(a \o b, p, h) = Knowledge!Stored(a, p, h) \o Knowledge!Stored(b, p, h)
<1>1. a \o b \in Seq(Chunk)
  OBVIOUS
<1>2. /\ TextUnder(a, p, h) \in Seq(VaultText) /\ TextUnder(b, p, h) \in Seq(VaultText) /\ TextUnder(a \o b, p, h) \in Seq(VaultText)
      /\ Len(TextUnder(a, p, h)) = Len(a) /\ Len(TextUnder(b, p, h)) = Len(b) /\ Len(TextUnder(a \o b, p, h)) = Len(a \o b)
  BY <1>1, StoredIs
<1>3. TextUnder(a \o b, p, h) = TextUnder(a, p, h) \o TextUnder(b, p, h)
  <2> DEFINE r == TextUnder(a, p, h) \o TextUnder(b, p, h)
             s == TextUnder(a \o b, p, h)
  <2>1. /\ Len(a) \in Nat /\ Len(b) \in Nat /\ Len(a \o b) = Len(a) + Len(b)
        /\ DOMAIN a = 1 .. Len(a) /\ DOMAIN b = 1 .. Len(b) /\ DOMAIN (a \o b) = 1 .. (Len(a) + Len(b))
    OBVIOUS
  <2>2. r \in Seq(VaultText) /\ Len(r) = Len(a) + Len(b)
    <3> DEFINE u == TextUnder(a, p, h)
               v == TextUnder(b, p, h)
    <3>1. u \in Seq(VaultText) /\ v \in Seq(VaultText)
      BY <1>2
    <3> HIDE DEF u, v, r, s, VaultText
    <3>2. u \o v \in Seq(VaultText) /\ Len(u \o v) = Len(u) + Len(v)
      BY <3>1, ConcatProperties
    <3>3. r = u \o v /\ Len(u) = Len(a) /\ Len(v) = Len(b)
      BY <1>2 DEF u, v, r
    <3> QED
      BY <3>2, <3>3
  <2>3. ASSUME NEW k \in 1 .. (Len(a) + Len(b))
        PROVE  s[k] = r[k]
    <3>1. CASE k <= Len(a)
      <4>1. (a \o b)[k] = a[k] /\ k \in DOMAIN a /\ k \in DOMAIN (a \o b)
        BY <2>1, <3>1
      <4>2. r[k] = TextUnder(a, p, h)[k]
        <5> HIDE DEF VaultText
        <5> QED
          BY <1>2, <2>1, <3>1
      <4> QED
        BY <4>1, <4>2 DEF TextUnder
    <3>2. CASE k > Len(a)
      <4>1. (a \o b)[k] = b[k - Len(a)] /\ k - Len(a) \in DOMAIN b /\ k \in DOMAIN (a \o b)
        BY <2>1, <3>2
      <4>2. r[k] = TextUnder(b, p, h)[k - Len(a)]
        <5> HIDE DEF VaultText
        <5> QED
          BY <1>2, <2>1, <3>2
      <4> QED
        BY <4>1, <4>2 DEF TextUnder
    <3> HIDE DEF r, s
    <3> QED
      BY <2>1, <3>1, <3>2
  <2>4. s \in Seq(VaultText) /\ Len(s) = Len(r)
    BY <1>2, <2>1, <2>2
  <2>5. \A k \in 1 .. Len(s) : s[k] = r[k]
    BY <2>2, <2>3, <2>4
  <2> HIDE DEF r, s
  <2>6. s = r
    BY <2>2, <2>4, <2>5, SeqEqual
  <2> QED
    BY <2>6 DEF r, s
<1>4. Knowledge!Joined(TextUnder(a, p, h) \o TextUnder(b, p, h))
        = Knowledge!Joined(TextUnder(a, p, h)) \o Knowledge!Joined(TextUnder(b, p, h))
  BY <1>2, JoinedConcat DEF VaultText
<1> QED
  BY <1>1, <1>3, <1>4, StoredIs

(* Chunks of other notes or headings hold nothing.                           *)
LEMMA StoredElsewhere ==
  ASSUME NEW cs \in Seq(Chunk), NEW p, NEW h, \A k \in DOMAIN cs : cs[k].path # p \/ cs[k].heading # h
  PROVE  Knowledge!Stored(cs, p, h) = <<>>
<1>1. \A k \in DOMAIN TextUnder(cs, p, h) : TextUnder(cs, p, h)[k] = <<>>
  BY DEF TextUnder
<1>2. TextUnder(cs, p, h) \in Seq(VaultText)
  BY StoredIs
<1>3. Knowledge!Joined(TextUnder(cs, p, h)) = <<>>
  BY <1>1, <1>2, JoinedOnly DEF VaultText
<1> QED
  BY <1>3, StoredIs

(* A buffer is cut at multiples of the limit; the last piece ends with it.   *)
PieceEnd(w, k) == IF k * MaxChunk < Len(w) THEN k * MaxChunk ELSE Len(w)
Cuts(w) == (Len(w) + MaxChunk - 1) \div MaxChunk

(* There are as many pieces as it takes, and none is empty.                  *)
LEMMA CutsEnough ==
  ASSUME NEW w \in VaultText
  PROVE  /\ Cuts(w) \in Nat /\ PieceEnd(w, 0) = 0 /\ PieceEnd(w, Cuts(w)) = Len(w) /\ Len(w) \in Nat
         /\ \A k \in 0 .. Cuts(w) : PieceEnd(w, k) \in 0 .. Len(w)
         /\ \A k \in 0 .. (Cuts(w) - 1) :
                PieceEnd(w, k) = k * MaxChunk /\ k * MaxChunk < Len(w) /\ PieceEnd(w, k + 1) > PieceEnd(w, k)
<1> DEFINE L == Len(w)
           M == MaxChunk
           c == L + M - 1
           q == c \div M
<1>1. L \in Nat /\ M \in Nat \ {0}
  BY UploadsAssumption DEF VaultText
<1>2. c \in Nat
  BY <1>1
<1> HIDE DEF L, M, c
<1>3. c \div M \in Int /\ M * (c \div M) <= c /\ c < M * (c \div M) + M
  BY <1>1, <1>2
<1>4. q \in Int /\ M * q <= c /\ c < M * q + M
  BY <1>3
<1> HIDE DEF q
<1>5. q >= 0
  <2>1. CASE q < 0
    <3>1. q + 1 <= 0 /\ M * (q + 1) = M * q + M
      BY <1>1, <1>4, <2>1
    <3>2. M * (q + 1) <= 0
      BY <1>1, <1>4, <3>1
    <3> QED
      BY <1>1, <1>2, <1>4, <3>1, <3>2
  <2> QED
    BY <1>4, <2>1
<1>6. q \in Nat /\ L <= q * M
  <2>1. L + M - 1 < M * q + M
    BY <1>4 DEF c
  <2> QED
    BY <1>1, <1>4, <1>5, <2>1
<1>7. ASSUME NEW k \in Nat, k < q
      PROVE  k * M < L /\ k * M \in Nat /\ k * M < (k + 1) * M /\ (k + 1) * M \in Nat
  <2>1. k + 1 <= q
    BY <1>6, <1>7
  <2>2. (k + 1) * M <= q * M
    BY <1>1, <1>6, <2>1
  <2>3. (k + 1) * M = k * M + M /\ q * M = M * q
    BY <1>1, <1>6
  <2>4. k * M + M <= L + M - 1
    BY <1>1, <1>4, <1>6, <2>2, <2>3 DEF c
  <2> QED
    BY <1>1, <2>3, <2>4
<1>8. Cuts(w) = q /\ \A k : PieceEnd(w, k) = IF k * M < L THEN k * M ELSE L
  BY DEF Cuts, PieceEnd, q, c, L, M
<1>9. \A k \in 0 .. q : PieceEnd(w, k) \in 0 .. L
  <2> SUFFICES ASSUME NEW k \in 0 .. q PROVE PieceEnd(w, k) \in 0 .. L
    OBVIOUS
  <2>1. k * M \in Nat
    BY <1>1, <1>6
  <2> QED
    BY <1>1, <1>8, <2>1
<1>10. PieceEnd(w, 0) = 0 /\ PieceEnd(w, q) = L
  <2>1. 0 * M = 0 /\ ~(q * M < L)
    BY <1>1, <1>6
  <2>2. PieceEnd(w, q) = L
    BY <1>8, <2>1
  <2>3. PieceEnd(w, 0) = 0
    BY <1>1, <1>8, <2>1
  <2> QED
    BY <2>2, <2>3
<1>11. ASSUME NEW k \in 0 .. (q - 1)
       PROVE  PieceEnd(w, k) = k * M /\ k * M < L /\ PieceEnd(w, k + 1) > PieceEnd(w, k)
  <2>1. k \in Nat /\ k < q
    BY <1>6
  <2>2. k * M < L /\ k * M \in Nat /\ k * M < (k + 1) * M /\ (k + 1) * M \in Nat
    BY <1>7, <2>1
  <2> QED
    BY <1>1, <1>8, <2>2
<1> QED
  BY <1>1, <1>6, <1>8, <1>9, <1>10, <1>11 DEF L, M

(* The pieces of a buffer hold the buffer.                                   *)
LEMMA PiecesHold ==
  ASSUME NEW doc \in VaultMember, NEW p, p = doc.path, NEW h \in VaultText, NEW w \in VaultText
  PROVE  /\ Knowledge!Pieces(doc, h, w) \in Seq(Chunk)
         /\ \A k \in DOMAIN Knowledge!Pieces(doc, h, w) :
                /\ Knowledge!Pieces(doc, h, w)[k].path = p /\ Knowledge!Pieces(doc, h, w)[k].heading = h
                /\ Knowledge!Pieces(doc, h, w)[k].about = doc.about
         /\ Knowledge!Stored(Knowledge!Pieces(doc, h, w), p, h) = w
<1> DEFINE n == Cuts(w)
           Piece(k) == SubSeq(w, (k - 1) * MaxChunk + 1, PieceEnd(w, k))
           cs == [k \in 1 .. n |-> [path |-> p, about |-> doc.about, heading |-> h, text |-> Piece(k)]]
           ss == TextUnder(cs, p, h)
<1>1. Knowledge!Pieces(doc, h, w) = cs
  BY DEF Knowledge!Pieces, Knowledge!Piece, Cuts, PieceEnd
<1>2. /\ n \in Nat /\ PieceEnd(w, 0) = 0 /\ PieceEnd(w, n) = Len(w) /\ Len(w) \in Nat
      /\ \A k \in 0 .. n : PieceEnd(w, k) \in 0 .. Len(w)
      /\ \A k \in 0 .. (n - 1) : PieceEnd(w, k) = k * MaxChunk /\ PieceEnd(w, k + 1) > PieceEnd(w, k)
  BY CutsEnough
<1>3. ASSUME NEW k \in 1 .. n
      PROVE  Piece(k) = SubSeq(w, PieceEnd(w, k - 1) + 1, PieceEnd(w, k)) /\ Piece(k) \in VaultText
  <2>1. k - 1 \in 0 .. (n - 1) /\ k - 1 \in 0 .. n /\ k \in 0 .. n
    BY <1>2
  <2>2. PieceEnd(w, k - 1) = (k - 1) * MaxChunk /\ PieceEnd(w, k - 1) \in 0 .. Len(w) /\ PieceEnd(w, k) \in 0 .. Len(w)
    BY <1>2, <2>1
  <2>3. Piece(k) = SubSeq(w, PieceEnd(w, k - 1) + 1, PieceEnd(w, k))
    BY <2>2
  <2> DEFINE a == PieceEnd(w, k - 1) + 1
             b == PieceEnd(w, k)
  <2>4. a \in 1 .. (Len(w) + 1) /\ b \in 0 .. Len(w)
    BY <1>2, <2>2
  <2> HIDE DEF a, b
  <2>5. a \in Int /\ b \in Int /\ \A i \in a .. b : w[i] \in VaultCharacter
    BY <1>2, <2>4 DEF VaultText
  <2>6. SubSeq(w, a, b) \in Seq(VaultCharacter)
    BY <2>5, SubSeqProperties
  <2> QED
    BY <2>3, <2>6 DEF a, b, VaultText
<1>4. cs \in Seq(Chunk)
  <2>0. p \in VaultText /\ doc.about \in SUBSET VaultText
    BY DEF VaultMember
  <2>1. \A k \in 1 .. n : [path |-> p, about |-> doc.about, heading |-> h, text |-> Piece(k)] \in Chunk
    <3> SUFFICES ASSUME NEW k \in 1 .. n PROVE [path |-> p, about |-> doc.about, heading |-> h, text |-> Piece(k)] \in Chunk
      OBVIOUS
    <3>1. Piece(k) \in VaultText
      BY <1>3
    <3> HIDE DEF Piece
    <3> QED
      BY <2>0, <3>1 DEF Chunk
  <2> HIDE DEF n, Piece
  <2> QED
    BY <1>2, <2>1
<1>5. ss \in Seq(VaultText) /\ Len(ss) = n /\ Knowledge!Stored(cs, p, h) = Knowledge!Joined(ss)
  <2>1. Len(cs) = n
    BY <1>2
  <2> HIDE DEF cs, n
  <2> QED
    BY <1>4, <2>1, StoredIs
<1>6. \A k \in 1 .. n : ss[k] = SubSeq(w, PieceEnd(w, k - 1) + 1, PieceEnd(w, k))
  <2> SUFFICES ASSUME NEW k \in 1 .. n PROVE ss[k] = SubSeq(w, PieceEnd(w, k - 1) + 1, PieceEnd(w, k))
    OBVIOUS
  <2>1. ss[k] = Piece(k)
    BY DEF TextUnder
  <2> QED
    BY <1>3, <2>1
<1>7. \A k \in DOMAIN cs : cs[k].path = p /\ cs[k].heading = h /\ cs[k].about = doc.about
  OBVIOUS
<1>8. PICK f : Joining(f, ss, VaultCharacter) /\ Knowledge!Joined(ss) = f[n]
  <2> HIDE DEF ss, n
  <2>1. ss \in Seq(VaultText)
    BY <1>5
  <2>2. \E f : Joining(f, ss, VaultCharacter) /\ Knowledge!Joined(ss) = f[Len(ss)]
    BY <2>1, JoinedBy DEF VaultText
  <2> QED
    BY <1>5, <2>2
<1> HIDE DEF ss, cs, n, Piece
<1> DEFINE U == {k \in Nat : k <= n => f[k] = SubSeq(w, 1, PieceEnd(w, k))}
<1>9. 0 \in U
  <2>1. SubSeq(w, 1, 0) = <<>>
    BY SubSeqEmpty
  <2> QED
    BY <1>2, <1>8, <2>1 DEF Joining
<1>10. ASSUME NEW k \in U PROVE k + 1 \in U
  <2> SUFFICES ASSUME k + 1 <= n PROVE f[k + 1] = SubSeq(w, 1, PieceEnd(w, k + 1))
    OBVIOUS
  <2>1. k \in 0 .. (n - 1) /\ k + 1 \in 1 .. n /\ k + 1 \in 1 .. Len(ss) /\ (k + 1) - 1 = k /\ k + 1 \in 0 .. n /\ k \in 0 .. n
    BY <1>2, <1>5
  <2>2. f[k + 1] = f[k] \o ss[k + 1]
    BY <1>8, <2>1 DEF Joining
  <2>3. f[k] = SubSeq(w, 1, PieceEnd(w, k))
    BY <1>2, <2>1
  <2>4. ss[k + 1] = SubSeq(w, PieceEnd(w, k) + 1, PieceEnd(w, k + 1))
    BY <1>6, <2>1
  <2> DEFINE a == PieceEnd(w, k)
             b == PieceEnd(w, k + 1)
  <2>5. 1 \in 1 .. (Len(w) + 1) /\ a \in (1 - 1) .. Len(w) /\ b \in a .. Len(w)
    BY <1>2, <2>1
  <2> HIDE DEF a, b
  <2>6. SubSeq(w, 1, a) \o SubSeq(w, a + 1, b) = SubSeq(w, 1, b)
    BY <2>5, ConcatAdjacentSubSeq DEF VaultText
  <2> QED
    BY <2>2, <2>3, <2>4, <2>6 DEF a, b
<1>11. U = Nat
  <2> HIDE DEF U
  <2>1. U \in SUBSET Nat
    BY DEF U
  <2> QED
    BY <1>9, <1>10, <2>1, Induced
<1>12. f[n] = SubSeq(w, 1, Len(w))
  BY <1>2, <1>11
<1>13. SubSeq(w, 1, Len(w)) = w
  BY SubSeqFull DEF VaultText
<1> QED
  BY <1>1, <1>4, <1>5, <1>7, <1>8, <1>12, <1>13


(* Where the loop over the lines of a note stands, line after line.          *)
Standing == [chunks : Seq(Chunk), heading : VaultText, buffer : VaultText]
Outset == [chunks |-> <<>>, heading |-> <<>>, buffer |-> <<>>]
Going(g, doc) ==
    /\ g \in [0 .. Len(doc.body) -> Standing]
    /\ g[0] = Outset /\ \A n \in 1 .. Len(doc.body) : g[n] = Knowledge!Line(doc, g[n - 1], doc.body[n])

(* A line leaves the loop where it can go on.                                *)
LEMMA LineStands ==
  ASSUME NEW doc \in VaultMember, NEW at \in Standing, NEW line \in VaultLine
  PROVE  Knowledge!Line(doc, at, line) \in Standing
<1>1. at.chunks \in Seq(Chunk) /\ at.heading \in VaultText /\ at.buffer \in VaultText
  BY DEF Standing
<1>2. Knowledge!Pieces(doc, at.heading, at.buffer) \in Seq(Chunk)
  BY <1>1, PiecesHold
<1>3. at.chunks \o Knowledge!Pieces(doc, at.heading, at.buffer) \in Seq(Chunk)
  BY <1>1, <1>2
<1>4. line.text \in VaultText /\ line.heading \in BOOLEAN
  BY DEF VaultLine, VaultText
<1>5. at.buffer \o line.text \in VaultText /\ <<>> \in VaultText
  BY <1>1, <1>4 DEF VaultText
<1>6. CASE line.heading
  <2>1. Knowledge!Line(doc, at, line)
        = [chunks |-> at.chunks \o Knowledge!Pieces(doc, at.heading, at.buffer), heading |-> line.text, buffer |-> <<>>]
    BY <1>6 DEF Knowledge!Line
  <2> QED
    BY <1>3, <1>4, <1>5, <2>1 DEF Standing
<1>7. CASE ~line.heading
  <2>1. Knowledge!Line(doc, at, line) = [at EXCEPT !.buffer = at.buffer \o line.text]
    BY <1>7 DEF Knowledge!Line
  <2>2. [at EXCEPT !.buffer = at.buffer \o line.text] \in Standing
    BY <1>5 DEF Standing
  <2> QED
    BY <2>1, <2>2
<1> QED
  BY <1>4, <1>6, <1>7

(* The loop ends where following the lines of the note leads.                *)
LEMMA GatheredBy ==
  ASSUME NEW doc \in VaultMember
  PROVE  \E g : Going(g, doc) /\ Knowledge!Gathered(doc) = g[Len(doc.body)]
<1> DEFINE N == Len(doc.body)
           S == Standing
           L(n, at) == Knowledge!Line(doc, at, doc.body[n])
           Rule(f) == [n \in 0 .. N |-> IF n = 0 THEN Outset ELSE L(n, f[n - 1])]
           g == CHOOSE f : f = Rule(f)
           rule == [x \in (1 .. N) \X S |-> L(x[1], x[2])]
<1>0. N \in Nat /\ Outset \in S /\ \A n \in 1 .. N : \A at \in S : L(n, at) \in S
  <2>1. doc.body \in Seq(VaultLine)
    BY DEF VaultMember
  <2>2. N \in Nat /\ \A n \in 1 .. N : doc.body[n] \in VaultLine
    BY <2>1
  <2>3. Outset \in S
    BY DEF Outset, Standing, VaultText
  <2>4. \A n \in 1 .. N : \A at \in S : L(n, at) \in S
    BY <2>1, <2>2, LineStands
  <2> QED
    BY <2>2, <2>3, <2>4
<1>6. Knowledge!Gathered(doc) = g[N]
  BY DEF Knowledge!Gathered, Outset
<1> HIDE DEF N, S, L
<1>1. rule \in [(1 .. N) \X S -> S]
  BY <1>0
<1>2. PICK f : Following(f, N, S, Outset, rule)
  <2>1. N \in Nat /\ Outset \in S /\ RuleFor(rule, N, S)
    BY <1>0, <1>1 DEF RuleFor
  <2> HIDE DEF rule
  <2> QED
    BY <2>1, Recursion
<1>3. \A n \in 1 .. N : f[n] = L(n, f[n - 1])
  <2> SUFFICES ASSUME NEW n \in 1 .. N PROVE f[n] = L(n, f[n - 1])
    OBVIOUS
  <2>1. <<n, f[n - 1]>> \in (1 .. N) \X S
    BY <1>0, <1>2 DEF Following
  <2> QED
    BY <1>2, <2>1 DEF Following
<1>4. f = Rule(f)
  <2>1. \A n \in 0 .. N : f[n] = IF n = 0 THEN Outset ELSE L(n, f[n - 1])
    <3> SUFFICES ASSUME NEW n \in 0 .. N, n # 0
                 PROVE  f[n] = L(n, f[n - 1])
      BY <1>2 DEF Following
    <3>1. n \in 1 .. N
      BY <1>0
    <3> QED
      BY <1>3, <3>1
  <2>2. f = [n \in 0 .. N |-> f[n]]
    BY <1>2 DEF Following
  <2>3. [n \in 0 .. N |-> f[n]] = Rule(f)
    BY <2>1
  <2> QED
    BY <2>2, <2>3
<1>5. g = Rule(g)
  BY <1>4
<1> HIDE DEF g
<1>7. g[0] = Outset /\ \A n \in 1 .. N : g[n] = L(n, g[n - 1])
  <2>1. 0 \in 0 .. N /\ \A n \in 1 .. N : n \in 0 .. N /\ n # 0
    BY <1>0
  <2> QED
    BY <1>5, <2>1
<1>8. g \in [0 .. N -> S]
  <2> DEFINE U == {n \in Nat : n <= N => g[n] \in S}
  <2>1. 0 \in U
    BY <1>0, <1>7
  <2>2. ASSUME NEW n \in U PROVE n + 1 \in U
    <3> SUFFICES ASSUME n + 1 <= N PROVE g[n + 1] \in S
      OBVIOUS
    <3>1. g[n] \in S /\ n + 1 \in 1 .. N /\ (n + 1) - 1 = n
      BY <1>0
    <3> QED
      BY <1>0, <1>7, <3>1
  <2>3. U = Nat
    <3> HIDE DEF U
    <3>1. U \in SUBSET Nat
      BY DEF U
    <3> QED
      BY <2>1, <2>2, <3>1, Induced
  <2>4. \A n \in 0 .. N : g[n] \in S
    BY <1>0, <2>3
  <2> QED
    BY <1>5, <2>4
<1> QED
  BY <1>6, <1>7, <1>8 DEF Going, N, S, L

(* What the pieces of a buffer hold under any heading.                       *)
LEMMA PiecesUnder ==
  ASSUME NEW doc \in VaultMember, NEW p, p = doc.path, NEW h \in VaultText, NEW w \in VaultText, NEW heading \in VaultText
  PROVE  Knowledge!Stored(Knowledge!Pieces(doc, h, w), p, heading) = IF heading = h THEN w ELSE <<>>
<1>1. CASE heading = h
  BY <1>1, PiecesHold
<1>2. CASE heading # h
  <2>1. \A k \in DOMAIN Knowledge!Pieces(doc, h, w) : Knowledge!Pieces(doc, h, w)[k].heading # heading
    BY <1>2, PiecesHold
  <2>2. Knowledge!Pieces(doc, h, w) \in Seq(Chunk)
    BY PiecesHold
  <2>3. Knowledge!Stored(Knowledge!Pieces(doc, h, w), p, heading) = <<>>
    BY <2>1, <2>2, StoredElsewhere
  <2> QED
    BY <1>2, <2>3
<1> QED
  BY <1>1, <1>2

(* What is held under a heading: in the chunks, and still in the buffer.     *)
Held(at, p, h) == Knowledge!Stored(at.chunks, p, h) \o (IF h = at.heading THEN at.buffer ELSE <<>>)

(* When the buffer is cut, it is held in the chunks.                         *)
LEMMA CutHolds ==
  ASSUME NEW doc \in VaultMember, NEW p, p = doc.path, NEW at \in Standing, NEW h \in VaultText
  PROVE  /\ at.chunks \o Knowledge!Pieces(doc, at.heading, at.buffer) \in Seq(Chunk)
         /\ Knowledge!Stored(at.chunks \o Knowledge!Pieces(doc, at.heading, at.buffer), p, h) = Held(at, p, h)
         /\ Held(at, p, h) \in VaultText
<1>1. at.chunks \in Seq(Chunk) /\ at.heading \in VaultText /\ at.buffer \in VaultText
  BY DEF Standing
<1>2. Knowledge!Pieces(doc, at.heading, at.buffer) \in Seq(Chunk)
  BY <1>1, PiecesHold
<1>3. Knowledge!Stored(at.chunks \o Knowledge!Pieces(doc, at.heading, at.buffer), p, h)
      = Knowledge!Stored(at.chunks, p, h) \o Knowledge!Stored(Knowledge!Pieces(doc, at.heading, at.buffer), p, h)
  <2> DEFINE a == at.chunks
             b == Knowledge!Pieces(doc, at.heading, at.buffer)
  <2>1. a \in Seq(Chunk) /\ b \in Seq(Chunk)
    BY <1>1, <1>2
  <2> HIDE DEF a, b
  <2>2. Knowledge!Stored(a \o b, p, h) = Knowledge!Stored(a, p, h) \o Knowledge!Stored(b, p, h)
    <3>1. \A q, r : Knowledge!Stored(a \o b, q, r) = Knowledge!Stored(a, q, r) \o Knowledge!Stored(b, q, r)
      BY <2>1, StoredConcat
    <3> QED
      BY <3>1
  <2> QED
    BY <2>2 DEF a, b
<1>4. Knowledge!Stored(Knowledge!Pieces(doc, at.heading, at.buffer), p, h) = IF h = at.heading THEN at.buffer ELSE <<>>
  BY <1>1, PiecesUnder
<1>5. at.chunks \o Knowledge!Pieces(doc, at.heading, at.buffer) \in Seq(Chunk)
  BY <1>1, <1>2
<1>6. Knowledge!Stored(at.chunks \o Knowledge!Pieces(doc, at.heading, at.buffer), p, h) \in VaultText
  BY <1>5, StoredIs
<1> QED
  BY <1>3, <1>4, <1>5, <1>6 DEF Held

(* What a line says under a heading, when at.heading is the one in force.    *)
Spoken(line, at, h) == IF ~line.heading /\ h = at.heading THEN line.text ELSE <<>>

(* A line adds its words to what is held under the heading in force.         *)
LEMMA LineHolds ==
  ASSUME NEW doc \in VaultMember, NEW p, p = doc.path, NEW at \in Standing, NEW line \in VaultLine, NEW h \in VaultText
  PROVE  Held(Knowledge!Line(doc, at, line), p, h) = Held(at, p, h) \o Spoken(line, at, h)
<1>1. at.chunks \in Seq(Chunk) /\ at.heading \in VaultText /\ at.buffer \in VaultText
  BY DEF Standing
<1>2. line.text \in VaultText /\ line.heading \in BOOLEAN
  BY DEF VaultLine, VaultText
<1>3. Held(at, p, h) \in VaultText
  BY CutHolds
<1>4. \A s \in VaultText : s \o <<>> = s
  BY DEF VaultText
<1>5. Knowledge!Stored(at.chunks, p, h) \in VaultText
  BY <1>1, StoredIs
<1>6. CASE line.heading
  <2> DEFINE cut == at.chunks \o Knowledge!Pieces(doc, at.heading, at.buffer)
  <2>1. Knowledge!Line(doc, at, line) = [chunks |-> cut, heading |-> line.text, buffer |-> <<>>]
    BY <1>6 DEF Knowledge!Line
  <2>2. Knowledge!Stored(cut, p, h) = Held(at, p, h)
    BY CutHolds
  <2> HIDE DEF cut
  <2>3. Held(Knowledge!Line(doc, at, line), p, h) = Knowledge!Stored(cut, p, h) \o <<>>
    BY <2>1 DEF Held
  <2> QED
    BY <1>3, <1>4, <1>6, <2>2, <2>3 DEF Spoken
<1>7. CASE ~line.heading
  <2> DEFINE next == [at EXCEPT !.buffer = at.buffer \o line.text]
  <2>1. Knowledge!Line(doc, at, line) = next
    BY <1>7 DEF Knowledge!Line
  <2>2. next.chunks = at.chunks /\ next.heading = at.heading /\ next.buffer = at.buffer \o line.text
    BY DEF Standing
  <2> HIDE DEF next
  <2>3. CASE h = at.heading
    <3> DEFINE a == Knowledge!Stored(at.chunks, p, h)
               b == at.buffer
               c == line.text
    <3>1. (a \o b) \o c = a \o (b \o c)
      <4>1. a \in VaultText /\ b \in VaultText /\ c \in VaultText
        BY <1>1, <1>2, <1>5
      <4> HIDE DEF a, b, c
      <4> QED
        BY <4>1, Chained DEF VaultText
    <3>2. Held(at, p, h) = a \o b
      BY <2>3 DEF Held
    <3>3. Held(next, p, h) = a \o (b \o c)
      BY <2>2, <2>3 DEF Held
    <3> QED
      BY <1>7, <2>1, <2>3, <3>1, <3>2, <3>3 DEF Spoken
  <2>4. CASE h # at.heading
    <3>1. Held(next, p, h) = Held(at, p, h)
      BY <2>2, <2>4 DEF Held
    <3> QED
      BY <1>3, <1>4, <2>1, <2>4, <3>1 DEF Spoken
  <2> QED
    BY <2>3, <2>4
<1> QED
  BY <1>2, <1>6, <1>7

(* The heading in force at a line is that of the last heading above it.      *)
Above(doc, i) == {j \in 1 .. i : doc.body[j].heading}
Latest(S) == CHOOSE j \in S : \A k \in S : k <= j
InForce(doc, i) == IF Above(doc, i) = {} THEN <<>> ELSE doc.body[Latest(Above(doc, i))].text
LEMMA ForceNext ==
  ASSUME NEW doc, NEW n \in Nat
  PROVE  /\ InForce(doc, 0) = <<>>
         /\ doc.body[n + 1].heading => InForce(doc, n + 1) = doc.body[n + 1].text
         /\ ~doc.body[n + 1].heading => InForce(doc, n + 1) = InForce(doc, n)
         /\ \A h : Knowledge!Under(doc, n + 1, h) <=> ~doc.body[n + 1].heading /\ h = InForce(doc, n + 1)
<1>1. InForce(doc, 0) = <<>>
  <2>1. Above(doc, 0) = {}
    BY DEF Above
  <2> QED
    BY <2>1 DEF InForce
<1>2. ASSUME doc.body[n + 1].heading
      PROVE  InForce(doc, n + 1) = doc.body[n + 1].text
  <2>1. n + 1 \in Above(doc, n + 1) /\ \A k \in Above(doc, n + 1) : k <= n + 1 /\ k \in Nat
    BY <1>2 DEF Above
  <2> DEFINE A == Above(doc, n + 1)
             j == Latest(A)
  <2>2. j \in A /\ \A k \in A : k <= j
    BY <2>1 DEF Latest
  <2>3. j = n + 1
    BY <2>1, <2>2
  <2>4. InForce(doc, n + 1) = doc.body[j].text
    BY <2>1 DEF InForce
  <2> HIDE DEF j
  <2> QED
    BY <2>3, <2>4
<1>3. ASSUME ~doc.body[n + 1].heading
      PROVE  InForce(doc, n + 1) = InForce(doc, n)
  <2>1. Above(doc, n + 1) = Above(doc, n)
    <3>1. \A j \in Above(doc, n + 1) : j \in Above(doc, n)
      BY <1>3 DEF Above
    <3>2. \A j \in Above(doc, n) : j \in Above(doc, n + 1)
      BY DEF Above
    <3> DEFINE A == Above(doc, n + 1)
               B == Above(doc, n)
    <3>3. \A j : j \in A <=> j \in B
      BY <3>1, <3>2
    <3> HIDE DEF A, B
    <3>4. A = B
      BY <3>3
    <3> QED
      BY <3>4 DEF A, B
  <2> QED
    BY <2>1 DEF InForce
<1>4. \A h : Knowledge!Under(doc, n + 1, h) <=> ~doc.body[n + 1].heading /\ h = InForce(doc, n + 1)
  BY DEF Knowledge!Under, InForce, Latest, Above
<1> QED
  BY <1>1, <1>2, <1>3, <1>4

(* The chunks of a note hold under each heading what stands under it.        *)
LEMMA NoteHeld ==
  ASSUME NEW doc \in VaultMember, NEW h \in VaultText
  PROVE  /\ Knowledge!Chunks(doc) \in Seq(Chunk)
         /\ Knowledge!Stored(Knowledge!Chunks(doc), doc.path, h) = Knowledge!Text(doc, h)
<1> DEFINE N == Len(doc.body)
           words(i) == IF Knowledge!Under(doc, i, h) THEN doc.body[i].text ELSE <<>>
           ts == [i \in DOMAIN doc.body |-> words(i)]
<1>1. PICK g : Going(g, doc) /\ Knowledge!Gathered(doc) = g[N]
  BY GatheredBy
<1>2. /\ doc.path \in VaultText /\ N \in Nat /\ DOMAIN doc.body = 1 .. N
      /\ \A i \in 1 .. N : doc.body[i] \in VaultLine /\ doc.body[i].text \in VaultText /\ doc.body[i].heading \in BOOLEAN
  <2>1. doc.path \in VaultText /\ doc.body \in Seq(VaultLine)
    BY DEF VaultMember
  <2>2. \A line \in VaultLine : line.text \in VaultText /\ line.heading \in BOOLEAN
    BY DEF VaultLine, VaultText
  <2>3. N \in Nat /\ DOMAIN doc.body = 1 .. N /\ \A i \in 1 .. N : doc.body[i] \in VaultLine
    BY <2>1
  <2> HIDE DEF N
  <2> QED
    BY <2>1, <2>2, <2>3
<1>3. \A i \in 1 .. N : words(i) \in VaultText
  <2>1. <<>> \in VaultText
    BY DEF VaultText
  <2> HIDE DEF N
  <2> QED
    BY <1>2, <2>1
<1>4. ts \in Seq(VaultText) /\ Len(ts) = N /\ \A i \in 1 .. N : ts[i] = words(i)
  <2> HIDE DEF words, N
  <2> QED
    BY <1>2, <1>3
<1>5. Knowledge!Text(doc, h) = Knowledge!Joined(ts)
  BY DEF Knowledge!Text
<1> HIDE DEF ts, N
<1>6. PICK f : Joining(f, ts, VaultCharacter) /\ Knowledge!Joined(ts) = f[N]
  BY <1>4, JoinedBy DEF VaultText
<1>7. \A n \in 0 .. N : g[n] \in Standing
  BY <1>1 DEF Going, N
<1> DEFINE U == {n \in Nat : n <= N => g[n].heading = InForce(doc, n) /\ Held(g[n], doc.path, h) = f[n]}
<1>8. 0 \in U
  <2>1. g[0] = Outset /\ f[0] = <<>> /\ InForce(doc, 0) = <<>>
    BY <1>1, <1>6, ForceNext DEF Going, Joining
  <2>2. Outset.chunks = <<>> /\ Outset.heading = <<>> /\ Outset.buffer = <<>>
    BY DEF Outset
  <2>3. Knowledge!Stored(<<>>, doc.path, h) = <<>>
    <3>1. <<>> \in Seq(Chunk) /\ \A k \in DOMAIN (<<>>) : FALSE
      OBVIOUS
    <3> DEFINE cs == <<>>
    <3>2. cs \in Seq(Chunk) /\ \A k \in DOMAIN cs : cs[k].path # doc.path \/ cs[k].heading # h
      BY <3>1
    <3>3. cs = <<>>
      OBVIOUS
    <3> HIDE DEF cs
    <3>4. Knowledge!Stored(cs, doc.path, h) = <<>>
      BY <3>2, StoredElsewhere
    <3> QED
      BY <3>3, <3>4
  <2>4. Held(Outset, doc.path, h) = <<>>
    BY <2>2, <2>3 DEF Held
  <2> QED
    BY <2>1, <2>2, <2>4
<1>9. ASSUME NEW n \in U PROVE n + 1 \in U
  <2> SUFFICES ASSUME n + 1 <= N
               PROVE  g[n + 1].heading = InForce(doc, n + 1) /\ Held(g[n + 1], doc.path, h) = f[n + 1]
    OBVIOUS
  <2> DEFINE at == g[n]
             line == doc.body[n + 1]
  <2>1. n \in Nat /\ n + 1 \in 1 .. N /\ (n + 1) - 1 = n /\ n \in 0 .. N
    BY <1>2
  <2>2. at.heading = InForce(doc, n) /\ Held(at, doc.path, h) = f[n] /\ at \in Standing
    BY <1>2, <1>7, <2>1
  <2>3. g[n + 1] = Knowledge!Line(doc, at, line)
    <3>1. g[n + 1] = Knowledge!Line(doc, g[(n + 1) - 1], doc.body[n + 1])
      BY <1>1, <2>1 DEF Going, N
    <3> QED
      BY <2>1, <3>1
  <2>4. line \in VaultLine /\ line.heading \in BOOLEAN
    BY <1>2, <2>1
  <2>5. f[n + 1] = f[n] \o words(n + 1)
    <3>1. f[n + 1] = f[(n + 1) - 1] \o ts[n + 1]
      <4> HIDE DEF words
      <4> QED
        BY <1>4, <1>6, <2>1 DEF Joining
    <3>2. ts[n + 1] = words(n + 1)
      <4> HIDE DEF words
      <4> QED
        BY <1>4, <2>1
    <3> QED
      BY <2>1, <3>1, <3>2
  <2>6. Held(g[n + 1], doc.path, h) = f[n] \o Spoken(line, at, h)
    <3> DEFINE p == doc.path
    <3>1. p = doc.path
      OBVIOUS
    <3>2. g[n + 1] = Knowledge!Line(doc, at, line) /\ Held(at, p, h) = f[n] /\ at \in Standing /\ line \in VaultLine
      BY <2>2, <2>3, <2>4
    <3> HIDE DEF at, line, p
    <3>3. Held(Knowledge!Line(doc, at, line), p, h) = Held(at, p, h) \o Spoken(line, at, h)
      BY <3>1, <3>2, LineHolds
    <3>4. Held(g[n + 1], p, h) = f[n] \o Spoken(line, at, h)
      BY <3>2, <3>3
    <3> QED
      BY <3>4 DEF p
  <2>7. g[n + 1].heading = IF line.heading THEN line.text ELSE at.heading
    <3> HIDE DEF line, at
    <3> QED
      BY <2>2, <2>3, <2>4 DEF Knowledge!Line, Standing
  <2>8. /\ line.heading => InForce(doc, n + 1) = line.text
        /\ ~line.heading => InForce(doc, n + 1) = at.heading
    BY <2>1, <2>2, ForceNext
  <2>9. Knowledge!Under(doc, n + 1, h) <=> ~line.heading /\ h = InForce(doc, n + 1)
    BY <2>1, ForceNext
  <2>10. words(n + 1) = Spoken(line, at, h)
    BY <2>4, <2>8, <2>9 DEF Spoken
  <2> HIDE DEF at, line, words
  <2> QED
    BY <2>4, <2>5, <2>6, <2>7, <2>8, <2>10
<1>10. U = Nat
  <2> HIDE DEF U
  <2>1. U \in SUBSET Nat
    BY DEF U
  <2> QED
    BY <1>8, <1>9, <2>1, Induced
<1>11. Held(g[N], doc.path, h) = Knowledge!Text(doc, h)
  <2>1. N \in U
    BY <1>2, <1>10
  <2> QED
    BY <1>2, <1>5, <1>6, <2>1
<1>12. g[N] \in Standing
  BY <1>2, <1>7
<1> DEFINE end == g[N]
<1>13. Knowledge!Chunks(doc) = end.chunks \o Knowledge!Pieces(doc, end.heading, end.buffer)
  BY <1>1 DEF Knowledge!Chunks
<1> HIDE DEF end
<1> QED
  BY <1>2, <1>11, <1>12, <1>13, CutHolds DEF end

(* The chunks of a note bear its path and what it says of itself.            *)
ChunksOf(doc) == {c \in Chunk : c.path = doc.path /\ c.about = doc.about}
LEMMA NotePaths ==
  ASSUME NEW doc \in VaultMember
  PROVE  Knowledge!Chunks(doc) \in Seq(ChunksOf(doc))
<1> DEFINE N == Len(doc.body)
           p == doc.path
           C == ChunksOf(doc)
<1>1. PICK g : Going(g, doc) /\ Knowledge!Gathered(doc) = g[N]
  BY GatheredBy
<1>2. p \in VaultText /\ N \in Nat
  BY DEF VaultMember
<1>3. \A h, w \in VaultText : Knowledge!Pieces(doc, h, w) \in Seq(C)
  <2> SUFFICES ASSUME NEW h \in VaultText, NEW w \in VaultText PROVE Knowledge!Pieces(doc, h, w) \in Seq(C)
    OBVIOUS
  <2> DEFINE cs == Knowledge!Pieces(doc, h, w)
  <2>1. cs \in Seq(Chunk) /\ \A k \in DOMAIN cs : cs[k].path = p /\ cs[k].about = doc.about
    BY <1>2, PiecesHold
  <2> HIDE DEF p
  <2> HIDE DEF cs
  <2>2. Len(cs) \in Nat /\ DOMAIN cs = 1 .. Len(cs) /\ cs = [k \in 1 .. Len(cs) |-> cs[k]] /\ \A k \in 1 .. Len(cs) : cs[k] \in Chunk
    BY <2>1
  <2>3. \A k \in 1 .. Len(cs) : cs[k] \in C
    BY <2>1, <2>2 DEF ChunksOf, p
  <2> HIDE DEF C
  <2>4. cs \in Seq(C)
    BY <2>2, <2>3
  <2> QED
    BY <2>4 DEF cs
<1>4. \A n \in 0 .. N : g[n] \in Standing
  BY <1>1 DEF Going
<1>5. g[0] = Outset /\ \A n \in 1 .. N : g[n] = Knowledge!Line(doc, g[n - 1], doc.body[n])
  BY <1>1 DEF Going
<1>6. \A at \in Standing : at.heading \in VaultText /\ at.buffer \in VaultText
  BY DEF Standing
<1> HIDE DEF N, C, p
<1> DEFINE U == {n \in Nat : n <= N => g[n].chunks \in Seq(C)}
<1>7. 0 \in U
  <2>1. Outset.chunks = <<>>
    BY DEF Outset
  <2>2. g[0].chunks \in Seq(C)
    BY <1>5, <2>1
  <2> QED
    BY <2>2
<1>8. ASSUME NEW n \in U PROVE n + 1 \in U
  <2> SUFFICES ASSUME n + 1 <= N PROVE g[n + 1].chunks \in Seq(C)
    OBVIOUS
  <2> DEFINE at == g[n]
             line == doc.body[n + 1]
             cut == Knowledge!Pieces(doc, at.heading, at.buffer)
  <2>1. n \in Nat /\ n \in 0 .. N /\ n + 1 \in 1 .. N /\ (n + 1) - 1 = n
    BY <1>2
  <2>2. at.chunks \in Seq(C) /\ at \in Standing
    BY <1>2, <1>4, <2>1
  <2>3. g[n + 1] = Knowledge!Line(doc, at, line)
    BY <1>5, <2>1
  <2> HIDE DEF at, line
  <2>4. cut \in Seq(C)
    BY <1>3, <1>6, <2>2
  <2>5. g[n + 1].chunks = IF line.heading THEN at.chunks \o cut ELSE at.chunks
    BY <2>2, <2>3 DEF Knowledge!Line, Standing
  <2> HIDE DEF cut
  <2> QED
    BY <2>2, <2>4, <2>5
<1>9. U = Nat
  <2> HIDE DEF U
  <2>1. U \in SUBSET Nat
    BY DEF U
  <2> QED
    BY <1>7, <1>8, <2>1, Induced
<1> DEFINE end == g[N]
<1>10. end.chunks \in Seq(C) /\ end \in Standing
  BY <1>2, <1>4, <1>9
<1>11. Knowledge!Chunks(doc) = end.chunks \o Knowledge!Pieces(doc, end.heading, end.buffer)
  BY <1>1 DEF Knowledge!Chunks
<1> HIDE DEF end
<1>12. Knowledge!Pieces(doc, end.heading, end.buffer) \in Seq(C)
  BY <1>3, <1>6, <1>10
<1>13. Knowledge!Chunks(doc) \in Seq(C)
  BY <1>10, <1>11, <1>12
<1> QED
  BY <1>13 DEF C, p

(* A note holds nothing under the path of another.                           *)
LEMMA NoteElsewhere ==
  ASSUME NEW doc \in VaultMember, NEW p, p # doc.path, NEW h
  PROVE  Knowledge!Stored(Knowledge!Chunks(doc), p, h) = <<>>
<1> DEFINE cs == Knowledge!Chunks(doc)
<1>1. cs \in Seq(ChunksOf(doc))
  BY NotePaths
<1> HIDE DEF cs
<1>2. \A k \in DOMAIN cs : cs[k] \in Chunk /\ cs[k].path = doc.path
  BY <1>1 DEF ChunksOf
<1>3. cs \in Seq(Chunk)
  <2>1. Len(cs) \in Nat /\ DOMAIN cs = 1 .. Len(cs) /\ cs = [k \in 1 .. Len(cs) |-> cs[k]]
    BY <1>1
  <2> QED
    BY <1>2, <2>1
<1>4. Knowledge!Stored(cs, p, h) = <<>>
  BY <1>2, <1>3, StoredElsewhere
<1> QED
  BY <1>4 DEF cs

(* No chunks hold nothing.                                                   *)
LEMMA StoredNone == \A p, h : Knowledge!Stored(<<>>, p, h) = <<>>
<1> DEFINE cs == <<>>
<1>1. cs \in Seq(Chunk) /\ DOMAIN cs = {} /\ cs = <<>>
  OBVIOUS
<1> HIDE DEF cs
<1>2. \A p, h : Knowledge!Stored(cs, p, h) = <<>>
  BY <1>1, StoredElsewhere
<1> QED
  BY <1>1, <1>2

(* What the chunks of some notes hold, note after note.                      *)
HeldBy(ss, p, h) == [i \in DOMAIN ss |-> Knowledge!Stored(ss[i], p, h)]
LEMMA StoredJoined ==
  ASSUME NEW ss \in Seq(Seq(Chunk)), NEW p, NEW h
  PROVE  /\ HeldBy(ss, p, h) \in Seq(VaultText)
         /\ Knowledge!Stored(Knowledge!Joined(ss), p, h) = Knowledge!Joined(HeldBy(ss, p, h))
<1> DEFINE S == Seq(Chunk)
           P == {r \in Seq(S) : Knowledge!Stored(Knowledge!Joined(r), p, h) = Knowledge!Joined(HeldBy(r, p, h))}
<1>1. \A r \in Seq(S) : HeldBy(r, p, h) \in Seq(VaultText) /\ Len(HeldBy(r, p, h)) = Len(r)
                        /\ \A i \in 1 .. Len(r) : HeldBy(r, p, h)[i] = Knowledge!Stored(r[i], p, h)
  <2> SUFFICES ASSUME NEW r \in Seq(S)
               PROVE  HeldBy(r, p, h) \in Seq(VaultText) /\ Len(HeldBy(r, p, h)) = Len(r)
                      /\ \A i \in 1 .. Len(r) : HeldBy(r, p, h)[i] = Knowledge!Stored(r[i], p, h)
    OBVIOUS
  <2>1. Len(r) \in Nat /\ DOMAIN r = 1 .. Len(r) /\ \A i \in 1 .. Len(r) : r[i] \in S
    OBVIOUS
  <2>2. \A i \in 1 .. Len(r) : Knowledge!Stored(r[i], p, h) \in VaultText
    BY <2>1, StoredIs
  <2> HIDE DEF S
  <2> QED
    BY <2>1, <2>2 DEF HeldBy
<1>2. <<>> \in P
  <2>1. <<>> \in Seq(S) /\ HeldBy(<<>>, p, h) = <<>>
    BY DEF HeldBy
  <2>2. Knowledge!Joined(<<>>) = <<>>
    <3> DEFINE none == <<>>
    <3>1. none \in Seq(Seq(Chunk)) /\ none = <<>> /\ <<>> \in Seq(Chunk)
      OBVIOUS
    <3> QED
      BY <3>1, JoinedMore
  <2>3. Knowledge!Stored(<<>>, p, h) = <<>>
    BY StoredNone
  <2> QED
    BY <2>1, <2>2, <2>3
<1>3. ASSUME NEW r \in P, NEW s \in S PROVE Append(r, s) \in P
  <2> DEFINE q == Append(r, s)
             u == HeldBy(r, p, h)
             v == HeldBy(q, p, h)
             x == Knowledge!Stored(s, p, h)
  <2>1. r \in Seq(S) /\ q \in Seq(S) /\ Len(q) = Len(r) + 1 /\ Len(r) \in Nat /\ q[Len(r) + 1] = s
        /\ \A i \in 1 .. Len(r) : q[i] = r[i]
    OBVIOUS
  <2>2. x \in VaultText
    BY StoredIs
  <2>3. /\ u \in Seq(VaultText) /\ Len(u) = Len(r) /\ \A i \in 1 .. Len(r) : u[i] = Knowledge!Stored(r[i], p, h)
        /\ v \in Seq(VaultText) /\ Len(v) = Len(q) /\ \A i \in 1 .. Len(q) : v[i] = Knowledge!Stored(q[i], p, h)
    <3> HIDE DEF S, q
    <3> QED
      BY <1>1, <2>1
  <2>4. Knowledge!Joined(q) = Knowledge!Joined(r) \o s /\ Knowledge!Joined(r) \in Seq(Chunk)
    BY <2>1, JoinedMore
  <2>5. Knowledge!Stored(Knowledge!Joined(r), p, h) = Knowledge!Joined(u)
    OBVIOUS
  <2> HIDE DEF P
  <2>6. Knowledge!Stored(Knowledge!Joined(q), p, h) = Knowledge!Joined(u) \o x
    <3> DEFINE a == Knowledge!Joined(r)
    <3>1. a \in Seq(Chunk) /\ s \in Seq(Chunk)
      BY <2>4
    <3> HIDE DEF a
    <3>2. \A k, l : Knowledge!Stored(a \o s, k, l) = Knowledge!Stored(a, k, l) \o Knowledge!Stored(s, k, l)
      BY <3>1, StoredConcat
    <3>3. Knowledge!Stored(a \o s, p, h) = Knowledge!Stored(a, p, h) \o x
      BY <3>2
    <3>4. Knowledge!Joined(q) = a \o s /\ Knowledge!Stored(a, p, h) = Knowledge!Joined(u)
      BY <2>4, <2>5 DEF a
    <3> QED
      BY <3>3, <3>4
  <2> HIDE DEF u, v, x, q
  <2>7. v = Append(u, x)
    <3> DEFINE t == Append(u, x)
    <3>1. t \in Seq(VaultText) /\ Len(t) = Len(u) + 1 /\ t[Len(u) + 1] = x /\ \A i \in 1 .. Len(u) : t[i] = u[i]
      BY <2>2, <2>3
    <3>2. v[Len(r) + 1] = x
      BY <2>1, <2>3 DEF x
    <3>3. \A i \in 1 .. Len(r) : v[i] = u[i]
      BY <2>1, <2>3
    <3> HIDE DEF t
    <3>4. \A i \in 1 .. Len(v) : i \in 1 .. Len(r) \/ i = Len(r) + 1
      BY <2>1, <2>3
    <3>5. \A i \in 1 .. Len(v) : v[i] = t[i]
      BY <2>3, <3>1, <3>2, <3>3, <3>4
    <3>6. Len(v) = Len(t) /\ v \in Seq(VaultText) /\ t \in Seq(VaultText)
      BY <2>1, <2>3, <3>1
    <3>7. v = t
      BY <3>5, <3>6, SeqEqual
    <3> QED
      BY <3>7 DEF t
  <2>8. Knowledge!Joined(Append(u, x)) = Knowledge!Joined(u) \o x
    BY <2>2, <2>3, JoinedMore DEF VaultText
  <2> QED
    BY <2>1, <2>6, <2>7, <2>8 DEF P, v, q
<1>4. P \subseteq Seq(S)
  OBVIOUS
<1>5. \A r \in Seq(S) : r \in P
  <2> HIDE DEF P, S
  <2> QED
    BY <1>2, <1>3, <1>4, ByAppending
<1> QED
  BY <1>1, <1>5

(* The index of a ZIP holds each note, for no two bear one path.             *)
LEMMA IndexHolds ==
  ASSUME NEW z \in Seq(VaultMember)
  PROVE  /\ Knowledge!Index(z) \in Seq(Chunk)
         /\ ~Knowledge!Duplicate(z) => \A i \in DOMAIN z : Knowledge!Document(z[i]) =>
                \A h \in VaultText : Knowledge!Stored(Knowledge!Index(z), z[i].path, h) = Knowledge!Text(z[i], h)
<1> DEFINE cs(i) == IF Knowledge!Document(z[i]) THEN Knowledge!Chunks(z[i]) ELSE <<>>
           ss == [i \in DOMAIN z |-> cs(i)]
<1>1. Len(z) \in Nat /\ DOMAIN z = 1 .. Len(z) /\ \A i \in 1 .. Len(z) : z[i] \in VaultMember
  OBVIOUS
<1>2. \A i \in 1 .. Len(z) : cs(i) \in Seq(Chunk)
  <2>1. \A i \in 1 .. Len(z) : Knowledge!Chunks(z[i]) \in Seq(Chunk)
    <3>1. <<>> \in VaultText
      BY DEF VaultText
    <3> QED
      BY <1>1, <3>1, NoteHeld
  <2>2. <<>> \in Seq(Chunk)
    OBVIOUS
  <2> QED
    BY <2>1, <2>2
<1>3. ss \in Seq(Seq(Chunk)) /\ DOMAIN ss = 1 .. Len(z) /\ \A i \in 1 .. Len(z) : ss[i] = cs(i)
  <2> HIDE DEF cs
  <2> QED
    BY <1>1, <1>2
<1>4. Knowledge!Index(z) = Knowledge!Joined(ss)
  BY DEF Knowledge!Index
<1> HIDE DEF ss
<1>5. Knowledge!Index(z) \in Seq(Chunk)
  <2>1. <<>> \in Seq(Chunk)
    OBVIOUS
  <2> QED
    BY <1>3, <1>4, <2>1, JoinedMore
<1>6. ASSUME ~Knowledge!Duplicate(z), NEW i \in DOMAIN z, Knowledge!Document(z[i]), NEW h \in VaultText
      PROVE  Knowledge!Stored(Knowledge!Index(z), z[i].path, h) = Knowledge!Text(z[i], h)
  <2> DEFINE p == z[i].path
             u == HeldBy(ss, p, h)
  <2>1. u \in Seq(VaultText) /\ Knowledge!Stored(Knowledge!Joined(ss), p, h) = Knowledge!Joined(u)
    BY <1>3, StoredJoined
  <2>2. DOMAIN u = DOMAIN ss /\ \A j \in DOMAIN ss : u[j] = Knowledge!Stored(ss[j], p, h)
    BY DEF HeldBy
  <2>3. \A j \in DOMAIN u : j # i => u[j] = <<>>
    <3> SUFFICES ASSUME NEW j \in 1 .. Len(z), j # i PROVE Knowledge!Stored(ss[j], p, h) = <<>>
      BY <1>3, <2>2
    <3>1. CASE Knowledge!Document(z[j])
      <4>1. z[j].path # p
        <5>1. Knowledge!Note(z[i]) /\ Knowledge!Note(z[j])
          BY <1>6, <3>1 DEF Knowledge!Document
        <5>2. i \in Nat /\ j \in Nat /\ (i < j \/ j < i)
          BY <1>1, <1>6
        <5> QED
          BY <1>1, <1>6, <5>1, <5>2 DEF Knowledge!Duplicate
      <4>2. ss[j] = Knowledge!Chunks(z[j])
        BY <1>3, <3>1
      <4>3. z[j] \in VaultMember
        BY <1>1
      <4> DEFINE d == z[j]
      <4> HIDE DEF p, d
      <4>4. Knowledge!Stored(Knowledge!Chunks(d), p, h) = <<>>
        BY <4>1, <4>3, NoteElsewhere DEF d
      <4> QED
        BY <4>2, <4>4 DEF d
    <3>2. CASE ~Knowledge!Document(z[j])
      <4>1. ss[j] = <<>>
        BY <1>3, <3>2
      <4> QED
        BY <4>1, StoredNone
    <3> QED
      BY <3>1, <3>2
  <2>4. i \in DOMAIN u /\ u[i] = Knowledge!Stored(Knowledge!Chunks(z[i]), p, h)
    BY <1>1, <1>3, <1>6, <2>2
  <2>5. Knowledge!Joined(u) = u[i]
    <3> HIDE DEF u
    <3> QED
      BY <2>1, <2>3, <2>4, JoinedOnly DEF VaultText
  <2>6. Knowledge!Stored(Knowledge!Chunks(z[i]), p, h) = Knowledge!Text(z[i], h)
    BY <1>1, <1>6, NoteHeld
  <2> QED
    BY <1>4, <2>1, <2>4, <2>5, <2>6
<1> QED
  BY <1>5, <1>6

(* The heading in force is a heading of the note, or none.                   *)
LEMMA ForceIs ==
  ASSUME NEW doc \in VaultMember, NEW n \in Nat, n <= Len(doc.body)
  PROVE  InForce(doc, n) \in VaultText
<1> DEFINE A == Above(doc, n)
<1>1. doc.body \in Seq(VaultLine)
  BY DEF VaultMember
<1>2. \A i \in 1 .. n : doc.body[i].text \in VaultText
  <2>1. \A i \in 1 .. n : doc.body[i] \in VaultLine
    BY <1>1
  <2> QED
    BY <2>1 DEF VaultLine, VaultText
<1>3. A \in SUBSET (1 .. n)
  BY DEF Above
<1> HIDE DEF A
<1>4. CASE A = {}
  BY <1>4 DEF InForce, A, VaultText
<1>5. CASE A # {}
  <2>1. \E k \in A : \A l \in A : l <= k
    BY <1>3, <1>5, Greatest
  <2>2. Latest(A) \in A
    BY <2>1 DEF Latest
  <2>3. InForce(doc, n) = doc.body[Latest(A)].text
    BY <1>5 DEF InForce, A
  <2> QED
    BY <1>2, <1>3, <2>2, <2>3
<1> QED
  BY <1>4, <1>5

(* A note with some text has a chunk in the index.                           *)
Speaks(doc) == \E j \in DOMAIN doc.body : ~doc.body[j].heading /\ doc.body[j].text # <<>>
LEMMA NoteStored ==
  ASSUME NEW z \in Seq(VaultMember), ~Knowledge!Duplicate(z), NEW i \in DOMAIN z, Knowledge!Document(z[i]), Speaks(z[i])
  PROVE  \E k \in DOMAIN Knowledge!Index(z) : Knowledge!Index(z)[k].path = z[i].path
<1> DEFINE doc == z[i]
<1> PICK j \in DOMAIN doc.body : ~doc.body[j].heading /\ doc.body[j].text # <<>>
  BY DEF Speaks
<1>1. doc \in VaultMember /\ Knowledge!Document(doc)
  OBVIOUS
<1>2. \A h \in VaultText : Knowledge!Stored(Knowledge!Index(z), doc.path, h) = Knowledge!Text(doc, h)
  BY IndexHolds
<1>3. ~doc.body[j].heading /\ doc.body[j].text # <<>>
  OBVIOUS
<1>4. Knowledge!Index(z) \in Seq(Chunk)
  BY IndexHolds
<1>0. j \in DOMAIN doc.body
  OBVIOUS
<1> HIDE DEF doc
<1> DEFINE N == Len(doc.body)
           h == InForce(doc, j)
           words(k) == IF Knowledge!Under(doc, k, h) THEN doc.body[k].text ELSE <<>>
           ts == [k \in DOMAIN doc.body |-> words(k)]
<1>5. /\ DOMAIN doc.body = 1 .. N /\ N \in Nat /\ j \in 1 .. N /\ j - 1 \in Nat /\ j = (j - 1) + 1
      /\ \A k \in 1 .. N : doc.body[k].text \in VaultText
  <2>1. doc.body \in Seq(VaultLine)
    BY <1>1 DEF VaultMember
  <2>2. N \in Nat /\ DOMAIN doc.body = 1 .. N /\ \A k \in 1 .. N : doc.body[k] \in VaultLine
    BY <2>1
  <2>3. \A line \in VaultLine : line.text \in VaultText
    BY DEF VaultLine, VaultText
  <2> HIDE DEF N
  <2>4. j \in 1 .. N /\ j - 1 \in Nat /\ j = (j - 1) + 1
    BY <1>0, <2>2
  <2> QED
    BY <2>2, <2>3, <2>4
<1>6. h \in VaultText
  <2>1. j \in Nat /\ j <= N
    BY <1>5
  <2> QED
    BY <1>1, <2>1, ForceIs
<1>7. Knowledge!Under(doc, j, h)
  <2> DEFINE n == j - 1
  <2>1. n \in Nat /\ j = n + 1
    BY <1>5
  <2> HIDE DEF n
  <2>2. Knowledge!Under(doc, n + 1, InForce(doc, n + 1))
    BY <1>3, <2>1, ForceNext
  <2> QED
    BY <2>1, <2>2
<1>8. ts \in Seq(VaultText) /\ DOMAIN ts = 1 .. N /\ ts[j] = doc.body[j].text
  <2>1. \A k \in 1 .. N : words(k) \in VaultText
    <3>1. <<>> \in VaultText
      BY DEF VaultText
    <3> HIDE DEF N, h
    <3> QED
      BY <1>5, <3>1
  <2>2. words(j) = doc.body[j].text
    BY <1>7
  <2> HIDE DEF words, N
  <2> QED
    BY <1>5, <2>1, <2>2
<1>9. Knowledge!Text(doc, h) = Knowledge!Joined(ts)
  BY DEF Knowledge!Text
<1> HIDE DEF ts, words, N, h
<1>10. PICK w : w \in Elements(ts[j])
  <2> DEFINE t == doc.body[j].text
  <2>1. t \in Seq(VaultCharacter) /\ t # <<>>
    BY <1>3, <1>5 DEF VaultText
  <2> HIDE DEF t
  <2>2. 1 \in DOMAIN t
    BY <2>1
  <2>3. t[1] \in Elements(t)
    BY <2>2 DEF Elements
  <2> QED
    BY <1>8, <2>3 DEF t
<1>11. w \in Elements(Knowledge!Joined(ts))
  BY <1>5, <1>8, <1>10, JoinedElements DEF VaultText
<1> DEFINE cs == Knowledge!Index(z)
           p == doc.path
           us == TextUnder(cs, p, h)
<1>12. w \in Elements(Knowledge!Joined(us)) /\ us \in Seq(VaultText)
  <2> HIDE DEF cs, us, p
  <2>1. us \in Seq(VaultText) /\ Knowledge!Stored(cs, p, h) = Knowledge!Joined(us)
    BY <1>4, StoredIs DEF cs, us
  <2>2. Knowledge!Stored(cs, p, h) = Knowledge!Joined(ts)
    BY <1>2, <1>6, <1>9 DEF cs, p
  <2> QED
    BY <1>11, <2>1, <2>2
<1>13. PICK k \in DOMAIN us : w \in Elements(us[k])
  <2> HIDE DEF us
  <2> QED
    BY <1>12, JoinedElements DEF VaultText
<1>14. k \in DOMAIN cs /\ us[k] = IF cs[k].path = p /\ cs[k].heading = h THEN cs[k].text ELSE <<>>
  BY DEF TextUnder
<1>15. \A x : x \notin Elements(<<>>)
  BY DEF Elements
<1> HIDE DEF us
<1>16. cs[k].path = p
  BY <1>13, <1>14, <1>15
<1> QED
  BY <1>14, <1>16 DEF doc

(* A chunk of the index bears the path of a note, and what it says of itself.*)
LEMMA ChunkOfNote ==
  ASSUME NEW z \in Seq(VaultMember), NEW k \in DOMAIN Knowledge!Index(z)
  PROVE  \E i \in DOMAIN z : Knowledge!Document(z[i]) /\ Knowledge!Index(z)[k] \in ChunksOf(z[i])
<1> DEFINE cs(i) == IF Knowledge!Document(z[i]) THEN Knowledge!Chunks(z[i]) ELSE <<>>
           ss == [i \in DOMAIN z |-> cs(i)]
           c == Knowledge!Index(z)[k]
<1>1. Len(z) \in Nat /\ DOMAIN z = 1 .. Len(z) /\ \A i \in 1 .. Len(z) : z[i] \in VaultMember
  OBVIOUS
<1>2. \A i \in 1 .. Len(z) : Knowledge!Chunks(z[i]) \in Seq(ChunksOf(z[i])) /\ Knowledge!Chunks(z[i]) \in Seq(Chunk)
  <2>1. <<>> \in VaultText
    BY DEF VaultText
  <2> QED
    BY <1>1, <2>1, NotePaths, NoteHeld
<1>3. ss \in Seq(Seq(Chunk)) /\ DOMAIN ss = 1 .. Len(z) /\ \A i \in 1 .. Len(z) : ss[i] = cs(i)
  <2>1. \A i \in 1 .. Len(z) : cs(i) \in Seq(Chunk)
    <3>1. <<>> \in Seq(Chunk)
      OBVIOUS
    <3> QED
      BY <1>2, <3>1
  <2> HIDE DEF cs
  <2> QED
    BY <1>1, <2>1
<1>4. Knowledge!Index(z) = Knowledge!Joined(ss)
  BY DEF Knowledge!Index
<1>5. c \in Elements(Knowledge!Index(z))
  BY DEF Elements
<1> HIDE DEF ss, c
<1>6. PICK i \in 1 .. Len(z) : c \in Elements(ss[i])
  <2>1. c \in Elements(Knowledge!Joined(ss))
    BY <1>4, <1>5
  <2>2. \E i \in DOMAIN ss : c \in Elements(ss[i])
    BY <1>3, <2>1, JoinedElements
  <2> QED
    BY <1>3, <2>2
<1>7. Knowledge!Document(z[i]) /\ ss[i] = Knowledge!Chunks(z[i])
  <2>1. ~Knowledge!Document(z[i]) => ss[i] = <<>>
    BY <1>3
  <2>2. \A x : x \notin Elements(<<>>)
    BY DEF Elements
  <2> QED
    BY <1>3, <1>6, <2>1, <2>2
<1>8. c \in ChunksOf(z[i])
  <2> DEFINE d == Knowledge!Chunks(z[i])
             D == ChunksOf(z[i])
  <2>1. d \in Seq(D)
    BY <1>2
  <2>2. c \in Elements(d)
    BY <1>6, <1>7
  <2> HIDE DEF d, D
  <2>3. \A x \in Elements(d) : x \in D
    BY <2>1 DEF Elements
  <2> QED
    BY <2>2, <2>3 DEF D
<1> QED
  BY <1>1, <1>7, <1>8 DEF c

(* What a note with some text says of itself is in a chunk of the index.     *)
HasIt(cs, w) == \E k \in DOMAIN cs : Knowledge!Has(cs[k], w)
LEMMA ItselfStored ==
  ASSUME NEW z \in Seq(VaultMember), ~Knowledge!Duplicate(z), NEW w, NEW i \in DOMAIN z, Knowledge!SaysItself(z[i], w)
  PROVE  HasIt(Knowledge!Index(z), w)
<1>1. Knowledge!Document(z[i]) /\ Speaks(z[i])
  BY DEF Knowledge!SaysItself, Speaks
<1>2. PICK field \in {z[i].path} \cup z[i].about : Knowledge!In(w, field)
  BY DEF Knowledge!SaysItself
<1>3. PICK k \in DOMAIN Knowledge!Index(z) : Knowledge!Index(z)[k].path = z[i].path
  BY <1>1, NoteStored
<1> DEFINE c == Knowledge!Index(z)[k]
<1>4. PICK j \in DOMAIN z : Knowledge!Document(z[j]) /\ c \in ChunksOf(z[j])
  BY ChunkOfNote
<1>5. c.path = z[j].path /\ c.about = z[j].about
  <2> HIDE DEF c
  <2> QED
    BY <1>4 DEF ChunksOf
<1>6. j = i
  <2>1. Knowledge!Note(z[i]) /\ Knowledge!Note(z[j])
    BY <1>1, <1>4 DEF Knowledge!Document
  <2>2. i = j \/ i < j \/ j < i
    OBVIOUS
  <2>3. z[i].path = z[j].path
    BY <1>3, <1>5
  <2> QED
    BY <2>1, <2>2, <2>3 DEF Knowledge!Duplicate
<1>7. field \in Knowledge!Fields(c)
  <2>1. c.path = z[i].path /\ c.about = z[i].about
    BY <1>5, <1>6
  <2> HIDE DEF c
  <2> QED
    BY <1>2, <2>1 DEF Knowledge!Fields
<1>8. Knowledge!Has(c, w)
  BY <1>2, <1>7 DEF Knowledge!Has
<1> QED
  BY <1>3, <1>8 DEF HasIt

(* A chunk scores exactly when it has the word.                              *)
LEMMA ScoreHas ==
  ASSUME NEW c, NEW w
  PROVE  Knowledge!Score(c, w) > 0 <=> Knowledge!Has(c, w)
<1> DEFINE A == Knowledge!In(w, c.path)
           B == Knowledge!In(w, c.heading)
           D == Knowledge!In(w, c.text)
           H == Knowledge!Has(c, w)
           E == \E field \in Knowledge!Fields(c) : Knowledge!Alone(w, field)
           n == (IF A THEN 125 ELSE 0) + (IF B THEN 112 ELSE 0) + (IF D THEN 30 ELSE IF H THEN 8 ELSE 0) + (IF E THEN 30 ELSE 0)
<1>1. Knowledge!Score(c, w) = n
  BY DEF Knowledge!Score
<1>2. c.path \in Knowledge!Fields(c) /\ c.heading \in Knowledge!Fields(c) /\ c.text \in Knowledge!Fields(c)
  BY DEF Knowledge!Fields
<1>3. (A => H) /\ (B => H) /\ (D => H)
  BY <1>2 DEF Knowledge!Has
<1>4. E => H
  <2>1. \A field : Knowledge!Alone(w, field) => Knowledge!In(w, field)
    BY DEF Knowledge!Alone, Knowledge!In
  <2> QED
    BY <2>1 DEF Knowledge!Has
<1>5. ~H => n = 0
  <2> SUFFICES ASSUME ~H PROVE n = 0
    OBVIOUS
  <2>1. ~A /\ ~B /\ ~D /\ ~E
    BY <1>3, <1>4
  <2> HIDE DEF A, B, D, E, H
  <2> QED
    BY <2>1
<1>6. H => n > 0
  <2> SUFFICES ASSUME H PROVE n > 0
    OBVIOUS
  <2> DEFINE a == IF A THEN 125 ELSE 0
             b == IF B THEN 112 ELSE 0
             d == IF D THEN 30 ELSE IF H THEN 8 ELSE 0
             e == IF E THEN 30 ELSE 0
  <2>1. a \in Nat
    OBVIOUS
  <2>2. b \in Nat
    OBVIOUS
  <2>3. d \in Nat /\ d > 0
    <3> HIDE DEF D, H
    <3> QED
      OBVIOUS
  <2>4. e \in Nat
    OBVIOUS
  <2>5. n = a + b + d + e
    OBVIOUS
  <2> HIDE DEF a, b, d, e, n
  <2> QED
    BY <2>1, <2>2, <2>3, <2>4, <2>5
<1> HIDE DEF n, H
<1> QED
  BY <1>1, <1>5, <1>6 DEF H

(* The best of the candidates have the word; and something is found when the *)
(* chunks without it are too few to be all of the candidates.                *)
FewWithout(cs, w) == Cardinality({k \in DOMAIN cs : ~Knowledge!Has(cs[k], w)}) < MaxCandidates
LEMMA RankHolds ==
  ASSUME NEW cs \in Seq(Chunk), NEW w, NEW C \in Knowledge!Candidates(cs, w), NEW s \in Knowledge!Ranked(cs, w, C)
  PROVE  /\ \A i \in DOMAIN s : s[i] \in DOMAIN cs /\ Knowledge!Has(cs[s[i]], w)
         /\ FewWithout(cs, w) /\ HasIt(cs, w) => DOMAIN s # {}
<1> DEFINE S == {k \in C : Knowledge!Score(cs[k], w) > 0}
           M == {k \in DOMAIN cs : Knowledge!Has(cs[k], w)}
           N == {k \in DOMAIN cs : ~Knowledge!Has(cs[k], w)}
           m == IF Cardinality(S) < MaxFound THEN Cardinality(S) ELSE MaxFound
<1>1. \A T : Knowledge!Cardinality(T) = Cardinality(T)
  BY DEF Knowledge!Cardinality, Cardinality, Knowledge!IsFiniteSet, IsFiniteSet
<1>2. C \in SUBSET DOMAIN cs /\ (M \subseteq C \/ Cardinality(C) = MaxCandidates)
  BY <1>1 DEF Knowledge!Candidates
<1>3. s \in [1 .. m -> S]
  BY <1>1 DEF Knowledge!Ranked
<1>4. \A k : Knowledge!Score(cs[k], w) > 0 <=> Knowledge!Has(cs[k], w)
  BY ScoreHas
<1>5. S = C \cap M
  BY <1>2, <1>4
<1>6. \A i \in DOMAIN s : s[i] \in DOMAIN cs /\ Knowledge!Has(cs[s[i]], w)
  <2>1. \A k \in S : k \in DOMAIN cs /\ Knowledge!Has(cs[k], w)
    BY <1>5
  <2> HIDE DEF S, m
  <2> QED
    BY <1>3, <2>1
<1>7. IsFiniteSet(DOMAIN cs)
  <2>1. DOMAIN cs = 1 .. Len(cs) /\ Len(cs) \in Nat
    OBVIOUS
  <2> QED
    BY <2>1, FS_Interval
<1>8. N \in SUBSET DOMAIN cs /\ M \cup N = DOMAIN cs
  OBVIOUS
<1>9. FewWithout(cs, w) = (Cardinality(N) < MaxCandidates)
  BY DEF FewWithout
<1>10. HasIt(cs, w) => M # {}
  BY DEF HasIt
<1>11. MaxFound \in Nat \ {0} /\ MaxCandidates \in Nat
  BY UploadsAssumption
<1> HIDE DEF S, M, N
<1>12. ASSUME Cardinality(N) < MaxCandidates, M # {}
       PROVE  S # {}
  <2> SUFFICES ASSUME S = {} PROVE FALSE
    OBVIOUS
  <2>1. C \subseteq N
    BY <1>2, <1>5, <1>8
  <2>2. Cardinality(C) = MaxCandidates
    BY <1>2, <1>5, <1>12
  <2>3. IsFiniteSet(N)
    BY <1>7, <1>8, FS_Subset
  <2>4. IsFiniteSet(C) /\ Cardinality(C) <= Cardinality(N)
    BY <2>1, <2>3, FS_Subset
  <2>5. Cardinality(N) \in Nat /\ Cardinality(C) \in Nat
    BY <2>3, <2>4, FS_CardinalityType
  <2> QED
    BY <1>11, <1>12, <2>2, <2>4, <2>5
<1>13. S # {} => m \in Nat /\ m >= 1
  <2>1. IsFiniteSet(S)
    <3>1. S \subseteq DOMAIN cs
      BY <1>2, <1>5
    <3> QED
      BY <1>7, <3>1, FS_Subset
  <2>2. Cardinality(S) \in Nat /\ (S # {} => Cardinality(S) # 0)
    BY <2>1, FS_CardinalityType, FS_EmptySet
  <2> QED
    BY <1>11, <2>2
<1> HIDE DEF m
<1>14. m \in Nat /\ m >= 1 => DOMAIN s # {}
  <2> SUFFICES ASSUME m \in Nat, m >= 1 PROVE DOMAIN s # {}
    OBVIOUS
  <2>1. 1 \in 1 .. m
    OBVIOUS
  <2> QED
    BY <1>3, <2>1
<1> QED
  BY <1>6, <1>9, <1>10, <1>12, <1>13, <1>14

(* What the vault keeps besides: every upload has a ZIP and an index of      *)
(* chunks, and from the moment its chunks are stored the index is that of    *)
(* its ZIP, which was not refused; a told search found what there is.        *)
IndexTrue(u) == ~Knowledge!Refused(zip[u]) /\ index[u] = Knowledge!Index(zip[u])
VersionSound(u) ==
  /\ stage[u] = "replace" => ~Knowledge!Refused(zip[u])
  /\ stage[u] \in {"activate", "commit", "status"} => IndexTrue(u)
  /\ version[u] = "active" => IndexTrue(u)
Late == {"status", "failing", "done"}
FoundIn(found, of, w) == \A i \in DOMAIN found : Knowledge!Has(found[i], w) /\ \E u \in of : found[i] \in Knowledge!Range(index[u])
Searched(u) ==
  /\ u \in Uploads /\ stage[u] \in Late /\ IndexTrue(u)
  /\ FewWithout(index[u], asked.word) /\ HasIt(index[u], asked.word) => asked.found # <<>>
SearchTrue ==
  asked.at = "told" => FoundIn(asked.found, asked.of, asked.word) /\ \A u \in asked.of : Searched(u)
SoundInv ==
  /\ VaultInv
  /\ zip \in [Uploads -> Seq(VaultMember)] /\ index \in [Uploads -> Seq(Chunk)]
  /\ \A u \in Uploads : VersionSound(u)
  /\ SearchTrue

\* A step of an upload that stores no chunks and makes no version active; the ZIP of
\* the upload may be new when it begins.
LEMMA UploadStep ==
  ASSUME SoundInv, VaultInv', NEW u \in Uploads,
         zip' \in [Uploads -> Seq(VaultMember)], index' \in [Uploads -> Seq(Chunk)], asked' = asked,
         \A w \in Uploads : /\ stage[w] \in Late => stage'[w] \in Late /\ zip'[w] = zip[w] /\ index'[w] = index[w]
                            /\ w # u => stage'[w] = stage[w] /\ zip'[w] = zip[w] /\ index'[w] = index[w]
                            /\ w # u /\ version'[w] = "active" => version[w] = "active",
         VersionSound(u)'
  PROVE  SoundInv'
<1>1. \A w \in Uploads \ {u} : VersionSound(w)'
  <2> SUFFICES ASSUME NEW w \in Uploads \ {u} PROVE VersionSound(w)'
    OBVIOUS
  <2>1. VersionSound(w)
    BY DEF SoundInv
  <2> QED
    BY <2>1 DEF VersionSound, IndexTrue
<1>2. SearchTrue'
  <2>1. SearchTrue
    BY DEF SoundInv
  <2> SUFFICES ASSUME asked.at = "told"
               PROVE  FoundIn(asked.found, asked.of, asked.word)' /\ \A w \in asked.of : Searched(w)'
    BY DEF SearchTrue
  <2>2. FoundIn(asked.found, asked.of, asked.word) /\ \A w \in asked.of : Searched(w)
    BY <2>1 DEF SearchTrue
  <2>3. \A w \in asked.of : w \in Uploads /\ stage'[w] \in Late /\ zip'[w] = zip[w] /\ index'[w] = index[w]
    BY <2>2 DEF Searched
  <2>4. FoundIn(asked.found, asked.of, asked.word)'
    BY <2>2, <2>3 DEF FoundIn
  <2>5. \A w \in asked.of : Searched(w)'
    BY <2>2, <2>3 DEF Searched, IndexTrue
  <2> QED
    BY <2>4, <2>5
<1> QED
  BY <1>1, <1>2 DEF SoundInv

(* The ZIP of an upload that begins is one of those that may be uploaded.    *)
LEMMA CreateSound ==
  ASSUME SoundInv, VaultInv', NEW u \in Uploads, Knowledge!CreateCandidate(u)
  PROVE  SoundInv'
<1>0. zip \in [Uploads -> Seq(VaultMember)] /\ index \in [Uploads -> Seq(Chunk)] /\ VaultTypes /\ VersionSound(u)
  BY DEF SoundInv, VaultInv
<1>1. PICK z \in Zips : zip' = [zip EXCEPT ![u] = z]
  BY DEF Knowledge!CreateCandidate
<1>2. PICK to \in {"parse", "done"} : stage' = [stage EXCEPT ![u] = to]
  BY DEF Knowledge!CreateCandidate, Knowledge!Step
<1>3. stage[u] = "waiting" /\ index' = index /\ asked' = asked
  BY DEF Knowledge!CreateCandidate, Knowledge!Step
<1>4. version' = version \/ version' = [version EXCEPT ![u] = "indexing"]
  BY DEF Knowledge!CreateCandidate
<1>5. version[u] # "active"
  BY <1>3 DEF SoundInv, VaultInv, StageAndRow
<1>6. zip' \in [Uploads -> Seq(VaultMember)]
  BY <1>0, <1>1, UploadsAssumption
<1>7. \A w \in Uploads : /\ stage[w] \in Late => stage'[w] \in Late /\ zip'[w] = zip[w] /\ index'[w] = index[w]
                         /\ w # u => stage'[w] = stage[w] /\ zip'[w] = zip[w] /\ index'[w] = index[w]
                         /\ version'[w] = "active" => version[w] = "active"
  BY <1>0, <1>1, <1>2, <1>3, <1>4 DEF VaultTypes, Late
<1>8. stage'[u] = to /\ version'[u] # "active"
  BY <1>0, <1>2, <1>5, <1>7 DEF VaultTypes
<1>9. VersionSound(u)'
  BY <1>2, <1>8 DEF VersionSound
<1> QED
  BY <1>0, <1>3, <1>6, <1>7, <1>9, UploadStep

(* The chunks that are stored are the index of the ZIP.                      *)
LEMMA IndexingSound ==
  ASSUME SoundInv, VaultInv', NEW u \in Uploads, Knowledge!Parse(u) \/ Knowledge!Replace(u) \/ Knowledge!Begin(u)
  PROVE  SoundInv'
<1>0. zip \in [Uploads -> Seq(VaultMember)] /\ index \in [Uploads -> Seq(Chunk)] /\ VaultTypes /\ VersionSound(u) /\ StageAndRow(u)
  BY DEF SoundInv, VaultInv
<1>1. UNCHANGED <<version, zip, asked>>
  BY DEF Knowledge!Parse, Knowledge!Replace, Knowledge!Begin
<1>2. PICK to \in {"rejecting", "replace", "failing", "activate", "commit"} : stage' = [stage EXCEPT ![u] = to]
  BY DEF Knowledge!Parse, Knowledge!Replace, Knowledge!Begin, Knowledge!Step
<1>3. stage'[u] = to /\ stage[u] \in {"parse", "replace", "activate"} /\ \A w \in Uploads : w # u => stage'[w] = stage[w]
  BY <1>0, <1>2 DEF Knowledge!Parse, Knowledge!Replace, Knowledge!Begin, Knowledge!Step, VaultTypes
<1>4. version[u] # "active"
  BY <1>0, <1>3 DEF StageAndRow
<1>5. index' = index \/ index' = [index EXCEPT ![u] = Knowledge!Index(zip[u])]
  BY DEF Knowledge!Parse, Knowledge!Replace, Knowledge!Begin
<1>6. index' \in [Uploads -> Seq(Chunk)]
  <2>1. Knowledge!Index(zip[u]) \in Seq(Chunk)
    BY <1>0, IndexHolds
  <2> QED
    BY <1>0, <1>5, <2>1
<1>7. /\ to = "replace" => ~Knowledge!Refused(zip[u])
      /\ to \in {"activate", "commit"} => ~Knowledge!Refused(zip[u]) /\ index'[u] = Knowledge!Index(zip[u])
  <2>1. CASE Knowledge!Parse(u)
    <3>1. Knowledge!Step(u, "parse", to)
      BY <1>2, <2>1 DEF Knowledge!Parse, Knowledge!Step
    <3>2. Knowledge!Refused(zip[u]) => to = "rejecting"
      BY <1>3, <1>0, <2>1 DEF Knowledge!Parse, Knowledge!Step, VaultTypes
    <3>3. ~Knowledge!Refused(zip[u]) => to \in {"replace", "failing"}
      BY <1>3, <1>0, <2>1 DEF Knowledge!Parse, Knowledge!Step, VaultTypes
    <3> QED
      BY <3>2, <3>3
  <2>2. CASE Knowledge!Replace(u)
    <3>1. stage[u] = "replace" /\ to \in {"activate", "failing"}
      BY <1>0, <1>3, <2>2 DEF Knowledge!Replace, Knowledge!Step, VaultTypes
    <3>2. to = "activate" => index' = [index EXCEPT ![u] = Knowledge!Index(zip[u])]
      BY <1>0, <1>3, <2>2 DEF Knowledge!Replace, Knowledge!Step, VaultTypes
    <3>3. to = "activate" => index'[u] = Knowledge!Index(zip[u])
      BY <1>0, <3>2
    <3> QED
      BY <1>0, <3>1, <3>3 DEF VersionSound
  <2>3. CASE Knowledge!Begin(u)
    <3>1. stage[u] = "activate" /\ to = "commit" /\ index' = index
      BY <1>0, <1>3, <2>3 DEF Knowledge!Begin, Knowledge!Step, VaultTypes
    <3> QED
      BY <1>0, <3>1 DEF VersionSound, IndexTrue
  <2> QED
    BY <2>1, <2>2, <2>3
<1>8. VersionSound(u)'
  BY <1>1, <1>3, <1>4, <1>7 DEF VersionSound, IndexTrue
<1>9. \A w \in Uploads : w # u => index'[w] = index[w]
  BY <1>0, <1>5
<1> QED
  BY <1>0, <1>1, <1>3, <1>6, <1>8, <1>9, UploadStep DEF Late

(* The version that becomes active has the index of its ZIP.                 *)
LEMMA ActivateSound ==
  ASSUME SoundInv, VaultInv', NEW u \in Uploads, Knowledge!Activate(u)
  PROVE  SoundInv'
<1>0. zip \in [Uploads -> Seq(VaultMember)] /\ index \in [Uploads -> Seq(Chunk)] /\ VaultTypes /\ VersionSound(u)
  BY DEF SoundInv, VaultInv
<1>1. UNCHANGED <<index, zip, asked>> /\ stage[u] = "commit"
  BY DEF Knowledge!Activate, Knowledge!Step
<1>2. PICK to \in {"status", "failing"} : stage' = [stage EXCEPT ![u] = to]
  BY DEF Knowledge!Activate, Knowledge!Step
<1>3. stage'[u] = to /\ \A w \in Uploads : w # u => stage'[w] = stage[w]
  BY <1>0, <1>2 DEF VaultTypes
<1>4. \A w \in Uploads : w # u /\ version'[w] = "active" => version[w] = "active"
  BY <1>0 DEF Knowledge!Activate, Knowledge!Replaced, Knowledge!RolledBack, VaultTypes
<1>5. IndexTrue(u)
  BY <1>0, <1>1 DEF VersionSound
<1>6. VersionSound(u)'
  BY <1>1, <1>2, <1>3, <1>5 DEF VersionSound, IndexTrue
<1> QED
  BY <1>0, <1>1, <1>2, <1>3, <1>4, <1>6, UploadStep DEF Late

(* An upload that ends, whether it is told of its version or of a failure.   *)
LEMMA EndSound ==
  ASSUME SoundInv, VaultInv', NEW u \in Uploads, Knowledge!Report(u) \/ Knowledge!Fail(u)
  PROVE  SoundInv'
<1>0. zip \in [Uploads -> Seq(VaultMember)] /\ index \in [Uploads -> Seq(Chunk)] /\ VaultTypes /\ VersionSound(u)
  BY DEF SoundInv, VaultInv
<1>1. UNCHANGED <<index, zip, asked>> /\ stage[u] \in {"status", "rejecting", "failing"}
  BY DEF Knowledge!Report, Knowledge!Fail, Knowledge!Step
<1>2. PICK to \in {"done", "failing"} : stage' = [stage EXCEPT ![u] = to]
  BY DEF Knowledge!Report, Knowledge!Fail, Knowledge!Step
<1>3. stage'[u] = to /\ \A w \in Uploads : w # u => stage'[w] = stage[w]
  BY <1>0, <1>2 DEF VaultTypes
<1>4. \A w \in Uploads : version'[w] = "active" => version[w] = "active"
  BY <1>0 DEF Knowledge!Report, Knowledge!Fail, VaultTypes
<1>5. VersionSound(u)'
  BY <1>0, <1>1, <1>2, <1>3, <1>4 DEF VersionSound, IndexTrue
<1> QED
  BY <1>0, <1>1, <1>2, <1>3, <1>4, <1>5, UploadStep DEF Late

(* A process that dies leaves rows, chunks and ZIPs as they are.             *)
LEMMA CrashSound ==
  ASSUME SoundInv, VaultInv', Knowledge!Crash
  PROVE  SoundInv'
<1>1. /\ stage' = [u \in Uploads |-> IF u \in Knowledge!InHand THEN "done" ELSE stage[u]]
      /\ UNCHANGED <<version, index, zip, asked>>
  BY DEF Knowledge!Crash
<1>2. \A u \in Uploads : stage'[u] = "done" \/ stage'[u] = stage[u]
  BY <1>1
<1>3. \A u \in Uploads : VersionSound(u)'
  <2> SUFFICES ASSUME NEW u \in Uploads PROVE VersionSound(u)'
    OBVIOUS
  <2>1. VersionSound(u)
    BY DEF SoundInv
  <2> QED
    BY <1>1, <1>2, <2>1 DEF VersionSound, IndexTrue
<1>4. SearchTrue'
  <2> SUFFICES ASSUME asked.at = "told"
               PROVE  FoundIn(asked.found, asked.of, asked.word)' /\ \A w \in asked.of : Searched(w)'
    BY <1>1 DEF SearchTrue
  <2>1. FoundIn(asked.found, asked.of, asked.word) /\ \A w \in asked.of : Searched(w)
    BY DEF SearchTrue, SoundInv
  <2>2. \A w \in asked.of : stage'[w] \in Late
    BY <1>2, <2>1 DEF Searched, Late
  <2>3. FoundIn(asked.found, asked.of, asked.word)'
    BY <1>1, <2>1 DEF FoundIn
  <2>4. \A w \in asked.of : Searched(w)'
    BY <1>1, <2>1, <2>2 DEF Searched, IndexTrue
  <2> QED
    BY <2>3, <2>4
<1> QED
  BY <1>1, <1>3, <1>4 DEF SoundInv

(* What is found when a query fails: nothing.                                *)
LEMMA NothingSound ==
  ASSUME NEW w, asked' = Knowledge!FoundNothing(w)
  PROVE  SearchTrue'
<1>1. asked'.of = {} /\ asked'.found = <<>>
  BY DEF Knowledge!FoundNothing
<1>2. \A i : i \notin DOMAIN asked'.found
  BY <1>1
<1> QED
  BY <1>1, <1>2 DEF SearchTrue, FoundIn

(* The chunks that the second query looks through are those of the version   *)
(* that is active.                                                           *)
LEMMA ActiveChunks ==
  ASSUME SoundInv
  PROVE  LET cs == Knowledge!Joined([u \in Uploads |-> IF u \in Knowledge!Active THEN index[u] ELSE <<>>])
         IN  /\ cs \in Seq(Chunk)
             /\ \A u \in Knowledge!Active : cs = index[u]
             /\ \A c \in Elements(cs) : \E u \in Knowledge!Active : c \in Elements(index[u])
<1> DEFINE of == Knowledge!Active
           ss == [u \in Uploads |-> IF u \in of THEN index[u] ELSE <<>>]
<1>0. index \in [Uploads -> Seq(Chunk)] /\ VaultInv
  BY DEF SoundInv
<1>1. of \subseteq Uploads /\ \A u, v \in of : u = v
  BY <1>0 DEF Knowledge!Active, VaultInv, Knowledge!OneActive
<1>2. PICK n \in Nat : Uploads = 1 .. n
  BY UploadsAssumption, FS_CardinalityType
<1> HIDE DEF of
<1>3. ss \in Seq(Seq(Chunk)) /\ DOMAIN ss = Uploads
  <2>1. \A u \in Uploads : (IF u \in of THEN index[u] ELSE <<>>) \in Seq(Chunk)
    BY <1>0
  <2>2. ss \in [Uploads -> Seq(Chunk)]
    BY <2>1
  <2> QED
    BY <1>2, <2>2
<1>4. \A u \in Uploads : ss[u] = IF u \in of THEN index[u] ELSE <<>>
  OBVIOUS
<1> DEFINE cs == Knowledge!Joined(ss)
<1> HIDE DEF ss
<1>5. cs \in Seq(Chunk)
  <2>1. <<>> \in Seq(Chunk)
    OBVIOUS
  <2> QED
    BY <1>3, <2>1, JoinedMore
<1>6. \A u \in of : cs = index[u]
  <2> SUFFICES ASSUME NEW u \in of PROVE cs = index[u]
    OBVIOUS
  <2>1. u \in DOMAIN ss /\ \A v \in DOMAIN ss : v # u => ss[v] = <<>>
    BY <1>1, <1>3, <1>4
  <2>2. cs = ss[u]
    BY <1>3, <2>1, JoinedOnly
  <2> QED
    BY <1>1, <1>4, <2>2
<1>7. ASSUME NEW c \in Elements(cs)
      PROVE  \E u \in of : c \in Elements(index[u])
  <2>1. PICK u \in DOMAIN ss : c \in Elements(ss[u])
    BY <1>3, JoinedElements
  <2>2. \A x : x \notin Elements(<<>>)
    BY DEF Elements
  <2> QED
    BY <1>3, <1>4, <2>1, <2>2
<1> QED
  BY <1>5, <1>6, <1>7 DEF ss, of

(* A question: the status is read, then the chunks of the active version.    *)
LEMMA AskSound ==
  ASSUME SoundInv, VaultInv', Knowledge!AskStatus \/ Knowledge!Search
  PROVE  SoundInv'
<1>0. zip \in [Uploads -> Seq(VaultMember)] /\ index \in [Uploads -> Seq(Chunk)] /\ \A u \in Uploads : VersionSound(u) /\ StageAndRow(u)
  BY DEF SoundInv, VaultInv
<1>1. UNCHANGED <<version, index, zip, archived, stage, seen, answer>>
  BY DEF Knowledge!AskStatus, Knowledge!Search
<1>2. \A u \in Uploads : VersionSound(u)'
  <2> SUFFICES ASSUME NEW u \in Uploads PROVE VersionSound(u)'
    OBVIOUS
  <2>1. VersionSound(u)
    BY <1>0
  <2> QED
    BY <1>1, <2>1 DEF VersionSound, IndexTrue
<1>3. CASE Knowledge!AskStatus
  <2>1. PICK w : \/ asked' = [at |-> "active", word |-> w]
                 \/ asked' = Knowledge!FoundNothing(w)
    BY <1>3 DEF Knowledge!AskStatus
  <2>2. ASSUME asked' = [at |-> "active", word |-> w]
        PROVE  SearchTrue'
    <3>1. asked'.at = "active"
      BY <2>2
    <3> QED
      BY <3>1 DEF SearchTrue
  <2>3. SearchTrue'
    BY <2>1, <2>2, NothingSound
  <2> QED
    BY <1>0, <1>1, <1>2, <2>3 DEF SoundInv
<1>4. CASE Knowledge!Search
  <2> DEFINE of == Knowledge!Active
             cs == Knowledge!Joined([u \in Uploads |-> IF u \in of THEN index[u] ELSE <<>>])
             w == asked.word
  <2>1. CASE asked' = Knowledge!FoundNothing(w)
    BY <1>0, <1>1, <1>2, <2>1, NothingSound DEF SoundInv
  <2>2. ASSUME NEW C \in Knowledge!Candidates(cs, w), NEW s \in Knowledge!Ranked(cs, w, C),
               asked' = [at |-> "told", word |-> w, of |-> of, found |-> [i \in DOMAIN s |-> cs[s[i]]]]
        PROVE  SearchTrue'
    <3> DEFINE found == [i \in DOMAIN s |-> cs[s[i]]]
    <3>1. /\ cs \in Seq(Chunk) /\ (\A u \in of : cs = index[u])
          /\ \A c \in Elements(cs) : \E u \in of : c \in Elements(index[u])
      BY ActiveChunks
    <3>2. asked'.at = "told" /\ asked'.word = w /\ asked'.of = of /\ asked'.found = found
      BY <2>2
    <3>3. \A u \in of : u \in Uploads /\ version[u] = "active"
      BY DEF Knowledge!Active
    <3> HIDE DEF cs, of, w
    <3>4. /\ \A i \in DOMAIN s : s[i] \in DOMAIN cs /\ Knowledge!Has(cs[s[i]], w)
          /\ FewWithout(cs, w) /\ HasIt(cs, w) => DOMAIN s # {}
      BY <2>2, <3>1, RankHolds
    <3>5. \A i \in DOMAIN found : Knowledge!Has(found[i], w) /\ \E u \in of : found[i] \in Knowledge!Range(index[u])
      <4> SUFFICES ASSUME NEW i \in DOMAIN s
                   PROVE  Knowledge!Has(cs[s[i]], w) /\ \E u \in of : cs[s[i]] \in Knowledge!Range(index[u])
        OBVIOUS
      <4>1. s[i] \in DOMAIN cs /\ Knowledge!Has(cs[s[i]], w)
        BY <3>4
      <4>2. cs[s[i]] \in Elements(cs)
        BY <4>1 DEF Elements
      <4> QED
        BY <3>1, <4>1, <4>2 DEF Elements, Knowledge!Range
    <3>6. FewWithout(cs, w) /\ HasIt(cs, w) => found # <<>>
      <4>1. DOMAIN found = DOMAIN s
        OBVIOUS
      <4>2. found = <<>> => DOMAIN found = {}
        <5> HIDE DEF found
        <5> QED
          OBVIOUS
      <4> HIDE DEF found
      <4> QED
        BY <3>4, <4>1, <4>2
    <3> HIDE DEF found
    <3>7. FoundIn(asked.found, asked.of, asked.word)'
      BY <1>1, <3>2, <3>5 DEF FoundIn
    <3>8. ASSUME NEW u \in of
          PROVE  Searched(u)'
      <4>1. u \in Uploads /\ version[u] = "active" /\ cs = index[u]
        BY <3>1, <3>3
      <4>2. VersionSound(u) /\ StageAndRow(u) /\ stage[u] \in UploadStages
        BY <1>0, <4>1 DEF SoundInv, VaultInv, VaultTypes
      <4>3. stage[u] \in Late /\ IndexTrue(u)
        BY <4>1, <4>2 DEF StageAndRow, VersionSound, UploadStages, Late
      <4>4. FewWithout(index[u], w) /\ HasIt(index[u], w) => found # <<>>
        BY <3>6, <4>1
      <4> QED
        BY <1>1, <3>2, <4>1, <4>3, <4>4 DEF Searched, IndexTrue
    <3> QED
      BY <3>2, <3>7, <3>8 DEF SearchTrue
  <2>3. \/ asked' = Knowledge!FoundNothing(w)
        \/ \E C \in Knowledge!Candidates(cs, w) : \E s \in Knowledge!Ranked(cs, w, C) :
              asked' = [at |-> "told", word |-> w, of |-> of, found |-> [i \in DOMAIN s |-> cs[s[i]]]]
    BY <1>4 DEF Knowledge!Search
  <2> HIDE DEF cs, of, w
  <2>4. SearchTrue'
    <3>1. ASSUME asked' = Knowledge!FoundNothing(w)
          PROVE  SearchTrue'
      BY <3>1, NothingSound
    <3> QED
      BY <2>2, <2>3, <3>1
  <2> QED
    BY <1>0, <1>1, <1>2, <2>4 DEF SoundInv
<1> QED
  BY <1>3, <1>4

(* What is active is complete and found.                                     *)
LEMMA SoundHolds == SoundInv => Knowledge!VaultSound
<1> SUFFICES ASSUME SoundInv
             PROVE  Knowledge!VaultComplete /\ Knowledge!SearchFinds
  BY DEF Knowledge!VaultSound
<1>0. zip \in [Uploads -> Seq(VaultMember)] /\ (\A u \in Uploads : VersionSound(u)) /\ SearchTrue
  BY DEF SoundInv
<1>1. ASSUME NEW u \in Uploads, version[u] = "active", NEW i \in DOMAIN zip[u], Knowledge!Document(zip[u][i]),
             NEW h \in {<<>>} \cup {zip[u][i].body[k].text : k \in {j \in DOMAIN zip[u][i].body : zip[u][i].body[j].heading}}
      PROVE  Knowledge!Stored(index[u], zip[u][i].path, h) = Knowledge!Text(zip[u][i], h)
  <2> DEFINE z == zip[u]
             doc == z[i]
  <2>1. z \in Seq(VaultMember) /\ i \in DOMAIN z /\ Knowledge!Document(doc)
    BY <1>0, <1>1
  <2>2. ~Knowledge!Duplicate(z) /\ index[u] = Knowledge!Index(z)
    BY <1>0, <1>1 DEF VersionSound, IndexTrue, Knowledge!Refused
  <2>3. h = <<>> \/ \E k \in DOMAIN doc.body : h = doc.body[k].text
    BY <1>1
  <2> HIDE DEF z
  <2>4. doc \in VaultMember
    BY <2>1
  <2> HIDE DEF doc
  <2>5. doc.body \in Seq(VaultLine)
    BY <2>4 DEF VaultMember
  <2>6. \A k \in DOMAIN doc.body : doc.body[k] \in VaultLine
    BY <2>5
  <2>7. h \in VaultText
    <3>1. <<>> \in VaultText
      BY DEF VaultText
    <3>2. \A line \in VaultLine : line.text \in VaultText
      BY DEF VaultLine, VaultText
    <3> QED
      BY <2>3, <2>6, <3>1, <3>2
  <2>8. Knowledge!Stored(Knowledge!Index(z), doc.path, h) = Knowledge!Text(doc, h)
    BY <2>1, <2>2, <2>7, IndexHolds DEF doc
  <2> QED
    BY <2>2, <2>8 DEF doc, z
<1>2. Knowledge!VaultComplete
  BY <1>1 DEF Knowledge!VaultComplete
<1>3. Knowledge!SearchFinds
  <2> SUFFICES ASSUME asked.at = "told"
               PROVE  /\ FoundIn(asked.found, asked.of, asked.word)
                      /\ \A u \in asked.of :
                            /\ FewWithout(index[u], asked.word)
                            /\ \/ HasIt(index[u], asked.word)
                               \/ \E i \in DOMAIN zip[u] : Knowledge!SaysItself(zip[u][i], asked.word)
                            => asked.found # <<>>
    <3>1. \A T : Knowledge!Cardinality(T) = Cardinality(T)
      BY DEF Knowledge!Cardinality, Cardinality, Knowledge!IsFiniteSet, IsFiniteSet
    <3> QED
      BY <3>1 DEF Knowledge!SearchFinds, FoundIn, FewWithout, HasIt
  <2>1. FoundIn(asked.found, asked.of, asked.word) /\ \A u \in asked.of : Searched(u)
    BY <1>0 DEF SearchTrue
  <2>2. ASSUME NEW u \in asked.of, NEW i \in DOMAIN zip[u], Knowledge!SaysItself(zip[u][i], asked.word)
        PROVE  HasIt(index[u], asked.word)
    <3>1. u \in Uploads /\ ~Knowledge!Duplicate(zip[u]) /\ index[u] = Knowledge!Index(zip[u])
      BY <2>1 DEF Searched, IndexTrue, Knowledge!Refused
    <3>2. zip[u] \in Seq(VaultMember)
      BY <1>0, <3>1
    <3> QED
      BY <2>2, <3>1, <3>2, ItselfStored
  <2> QED
    BY <2>1, <2>2 DEF Searched
<1> QED
  BY <1>2, <1>3

(* The vault by itself, and what it stores and finds.                        *)
LEMMA SoundKept == Knowledge!Spec => []Knowledge!VaultSound
<1>1. Knowledge!Init => SoundInv
  <2> SUFFICES ASSUME Knowledge!Init
               PROVE  SoundInv
    OBVIOUS
  <2>1. VaultInv
    BY VaultStarts
  <2>2. zip \in [Uploads -> Seq(VaultMember)] /\ index \in [Uploads -> Seq(Chunk)]
    BY DEF Knowledge!Init
  <2>3. \A u \in Uploads : VersionSound(u)
    BY DEF Knowledge!Init, VersionSound
  <2>4. SearchTrue
    <3>1. asked.at = "none"
      BY DEF Knowledge!Init
    <3> QED
      BY <3>1 DEF SearchTrue
  <2> QED
    BY <2>1, <2>2, <2>3, <2>4 DEF SoundInv
<1>2. SoundInv /\ [Knowledge!Next]_(Knowledge!vars) => SoundInv'
  <2> SUFFICES ASSUME SoundInv, [Knowledge!Next]_(Knowledge!vars)
               PROVE  SoundInv'
    OBVIOUS
  <2>1. VaultInv'
    BY VaultStep DEF SoundInv
  <2>2. CASE UNCHANGED Knowledge!vars
    <3>1. UNCHANGED <<version, index, zip, stage, asked>>
      BY <2>2 DEF Knowledge!vars
    <3> QED
      BY <2>1, <3>1 DEF SoundInv, VersionSound, IndexTrue, SearchTrue, FoundIn, Searched
  <2> QED
    BY <2>1, <2>2, CreateSound, IndexingSound, ActivateSound, EndSound, CrashSound, AskSound DEF Knowledge!Next
<1>3. SoundInv => Knowledge!VaultSound
  BY SoundHolds
<1> QED
  BY <1>1, <1>2, <1>3, PTL DEF Knowledge!Spec

(* While uploads come, fail and die, the active version holds every note of  *)
(* its ZIP, character by character under its heading, and a question finds   *)
(* chunks of the version it read that have its word, and some if the chunks  *)
(* without it do not fill the candidates.                                    *)
THEOREM VaultIsSound == Services => []VaultSound
<1>1. Knowledge!VaultSound => VaultSound
  BY DEF VaultSound
<1> QED
  BY <1>1, VaultAlone, SoundKept, PTL

-----------------------------------------------------------------------------
(* The listing agent.  A keyword, a query and what was observed of one.      *)
Query == {"asin", "seed"} \X STRING
Observation == Listing!KeywordProviders \X Query
Item == [word : STRING, score : Nat, seen : SUBSET Observation, valid : BOOLEAN]

(* The listing agent counts as everybody does.                               *)
LEMMA ListingCounts == \A S : Listing!Cardinality(S) = Cardinality(S)
BY DEF Listing!Cardinality, Cardinality, Listing!IsFiniteSet, IsFiniteSet

(* g tells the positions K in their order; r holds the elements of s there.  *)
InOrder(K, g) ==
  /\ IsFiniteSet(K) /\ Cardinality(K) \in Nat
  /\ g \in [1 .. Cardinality(K) -> K]
  /\ \A i \in K : \E k \in 1 .. Cardinality(K) : g[k] = i
  /\ \A k, l \in 1 .. Cardinality(K) : k < l => g[k] < g[l]
Picks(r, s, K, g) == InOrder(K, g) /\ r = [k \in 1 .. Cardinality(K) |-> s[g[k]]]

(* The numbers of a finite set, each at its place in their order.            *)
Placed(K, g) ==
  /\ IsFiniteSet(K) /\ Cardinality(K) \in Nat
  /\ \A i \in K : g[i] \in 1 .. Cardinality(K)
  /\ \A k \in 1 .. Cardinality(K) : \E i \in K : g[i] = k
  /\ \A i, j \in K : g[i] = g[j] => i = j
LEMMA Places ==
  ASSUME NEW n \in Nat, NEW K \in SUBSET (1 .. n),
         NEW g, g = [i \in K |-> Cardinality({j \in K : j <= i})]
  PROVE  Placed(K, g)
<1>1. IsFiniteSet(K) /\ Cardinality(K) \in Nat
  <2>1. IsFiniteSet(1 .. n)
    BY FS_Interval
  <2>2. IsFiniteSet(K)
    BY <2>1, FS_Subset
  <2> QED
    BY <2>2, FS_CardinalityType
<1>2. ASSUME NEW i \in K
      PROVE  g[i] \in 1 .. Cardinality(K)
  <2> DEFINE B == {j \in K : j <= i}
  <2>1. B \in SUBSET K /\ B # {}
    OBVIOUS
  <2>2. IsFiniteSet(B) /\ Cardinality(B) \in Nat /\ Cardinality(B) <= Cardinality(K) /\ Cardinality(B) # 0
    BY <1>1, <2>1, FS_Subset, FS_CardinalityType, FS_EmptySet
  <2> QED
    BY <1>1, <2>2
<1>3. ASSUME NEW i \in K, NEW j \in K, i < j
      PROVE  g[i] # g[j]
  <2> DEFINE B(m) == {l \in K : l <= m}
  <2>0. \A l \in K : l \in Int
    OBVIOUS
  <2>1. B(i) \in SUBSET B(j) /\ j \in B(j) /\ j \notin B(i)
    <3>1. \A l \in K : l <= i => l <= j
      BY <1>3, <2>0
    <3>2. j <= j /\ ~(j <= i)
      BY <1>3, <2>0
    <3> QED
      BY <3>1, <3>2
  <2>2. IsFiniteSet(B(j))
    BY <1>1, FS_Subset
  <2>3. g[i] = Cardinality(B(i)) /\ g[j] = Cardinality(B(j))
    OBVIOUS
  <2> HIDE DEF B
  <2> QED
    BY <2>1, <2>2, <2>3, FS_Subset
<1>4. IsFiniteSet(1 .. Cardinality(K)) /\ Cardinality(1 .. Cardinality(K)) = Cardinality(K)
  BY <1>1, FS_Interval
<1>5. g \in Injection(K, 1 .. Cardinality(K))
  <2>1. g \in [K -> 1 .. Cardinality(K)]
    BY <1>2
  <2>2. \A a, b \in K : g[a] = g[b] => a = b
    <3>1. \A a, b \in K : a < b \/ b < a \/ a = b
      OBVIOUS
    <3> QED
      BY <1>3, <3>1
  <2> QED
    BY <2>1, <2>2 DEF Injection, IsInjective
<1>6. g \in Surjection(K, 1 .. Cardinality(K))
  BY <1>4, <1>5, FS_Injection
<1> QED
  BY <1>1, <1>2, <1>5, <1>6 DEF Surjection, Injection, IsInjective, Placed

(* The positions of a set in their order.                                    *)
LEMMA NthInOrder ==
  ASSUME NEW n \in Nat, NEW K \in SUBSET (1 .. n)
  PROVE  \E g : InOrder(K, g) /\ \A k \in 1 .. Cardinality(K) : g[k] = Listing!Nth(K, k)
<1> DEFINE h == [i \in K |-> Cardinality({j \in K : j <= i})]
           m == Cardinality(K)
           g == [k \in 1 .. m |-> Listing!Nth(K, k)]
           B(i) == {l \in K : l <= i}
<1>1. h = [i \in K |-> Cardinality({j \in K : j <= i})]
  OBVIOUS
<1>2. \A i \in K : h[i] = Listing!Place(K, i) /\ h[i] = Cardinality(B(i))
  BY ListingCounts DEF Listing!Place
<1> HIDE DEF h
<1>3. Placed(K, h)
  BY <1>1, Places
<1>4. IsFiniteSet(K) /\ m \in Nat /\ \A i \in K : h[i] \in 1 .. m
  BY <1>3 DEF Placed
<1>5. \A k \in 1 .. m : \E i \in K : h[i] = k
  BY <1>3 DEF Placed
<1>6. \A i, j \in K : h[i] = h[j] => i = j
  BY <1>3 DEF Placed
<1>7. \A k \in 1 .. m : Listing!Nth(K, k) \in K /\ h[Listing!Nth(K, k)] = k
  BY <1>2, <1>5 DEF Listing!Nth
<1>8. \A i \in K : i \in Int
  OBVIOUS
<1>9. \A i, j \in K : i <= j => h[i] <= h[j]
  <2> SUFFICES ASSUME NEW i \in K, NEW j \in K, i <= j PROVE h[i] <= h[j]
    OBVIOUS
  <2>1. B(i) \in SUBSET B(j) /\ B(j) \in SUBSET K
    <3>1. \A l \in K : l <= i => l <= j
      BY <1>8
    <3> QED
      BY <3>1
  <2>2. IsFiniteSet(B(j))
    BY <1>4, <2>1, FS_Subset
  <2>3. h[i] = Cardinality(B(i)) /\ h[j] = Cardinality(B(j))
    BY <1>2
  <2> HIDE DEF B
  <2> QED
    BY <2>1, <2>2, <2>3, FS_Subset
<1>10. g \in [1 .. m -> K] /\ (\A k \in 1 .. m : g[k] = Listing!Nth(K, k)) /\ \A k \in 1 .. m : h[g[k]] = k
  BY <1>7
<1> HIDE DEF g
<1>11. \A i \in K : \E k \in 1 .. m : g[k] = i
  <2> SUFFICES ASSUME NEW i \in K PROVE \E k \in 1 .. m : g[k] = i
    OBVIOUS
  <2>1. h[i] \in 1 .. m /\ h[g[h[i]]] = h[i] /\ g[h[i]] \in K
    BY <1>4, <1>10
  <2> QED
    BY <1>6, <2>1
<1>12. \A k, l \in 1 .. m : k < l => g[k] < g[l]
  <2> SUFFICES ASSUME NEW k \in 1 .. m, NEW l \in 1 .. m, k < l PROVE g[k] < g[l]
    OBVIOUS
  <2>1. g[k] \in K /\ g[l] \in K /\ h[g[k]] = k /\ h[g[l]] = l
    BY <1>10
  <2>2. g[k] \in Int /\ g[l] \in Int
    BY <1>8, <2>1
  <2>3. ASSUME g[l] <= g[k] PROVE FALSE
    <3>1. h[g[l]] <= h[g[k]]
      BY <1>9, <2>1, <2>3
    <3> QED
      BY <2>1, <3>1
  <2> QED
    BY <2>2, <2>3
<1> QED
  BY <1>4, <1>10, <1>11, <1>12 DEF InOrder

(* Picked picks.                                                             *)
LEMMA PickedPicks ==
  ASSUME NEW S, NEW s \in Seq(S), NEW K \in SUBSET (1 .. Len(s))
  PROVE  \E g : Picks(Listing!Picked(s, K), s, K, g)
<1>1. Len(s) \in Nat
  OBVIOUS
<1>2. PICK g : InOrder(K, g) /\ \A k \in 1 .. Cardinality(K) : g[k] = Listing!Nth(K, k)
  BY <1>1, NthInOrder
<1>3. Listing!Picked(s, K) = [k \in 1 .. Cardinality(K) |-> s[Listing!Nth(K, k)]]
  BY ListingCounts DEF Listing!Picked
<1>4. Listing!Picked(s, K) = [k \in 1 .. Cardinality(K) |-> s[g[k]]]
  BY <1>2, <1>3
<1>5. Picks(Listing!Picked(s, K), s, K, g)
  BY <1>2, <1>4 DEF Picks
<1> QED
  BY <1>5

(* What is picked of a sequence is a sequence of its elements.               *)
Drawn(r, s, K, g) ==
  /\ DOMAIN r = 1 .. Cardinality(K) /\ Len(r) = Cardinality(K) /\ Cardinality(K) \in Nat
  /\ \A k \in DOMAIN r : g[k] \in K /\ r[k] = s[g[k]]
  /\ \A i \in K : \E k \in DOMAIN r : r[k] = s[i]
  /\ \A k, l \in DOMAIN r : g[k] = g[l] => k = l
  /\ \A k, l \in DOMAIN r : k < l => g[k] < g[l]
LEMMA PicksSeq ==
  ASSUME NEW S, NEW s \in Seq(S), NEW K \in SUBSET (1 .. Len(s)), NEW r, NEW g, Picks(r, s, K, g)
  PROVE  r \in Seq(S) /\ Drawn(r, s, K, g)
<1>1. /\ Cardinality(K) \in Nat /\ g \in [1 .. Cardinality(K) -> K]
      /\ \A i \in K : \E k \in 1 .. Cardinality(K) : g[k] = i
      /\ \A k, l \in 1 .. Cardinality(K) : k < l => g[k] < g[l]
      /\ r = [k \in 1 .. Cardinality(K) |-> s[g[k]]]
  BY DEF Picks, InOrder
<1>2. \A i \in K : i \in DOMAIN s /\ i \in Nat /\ s[i] \in S
  OBVIOUS
<1> DEFINE n == Cardinality(K)
<1> HIDE DEF n
<1>3. \A k \in 1 .. n : g[k] \in K /\ s[g[k]] \in S /\ g[k] \in DOMAIN s /\ g[k] \in Nat
  BY <1>1, <1>2 DEF n
<1>4. n \in Nat /\ r = [k \in 1 .. n |-> s[g[k]]]
  BY <1>1 DEF n
<1>5. r \in Seq(S) /\ Len(r) = n /\ DOMAIN r = 1 .. n
  BY <1>3, <1>4
<1>6. \A i \in K : \E k \in 1 .. n : r[k] = s[i]
  BY <1>1, <1>4 DEF n
<1>7. \A k, l \in 1 .. n : g[k] = g[l] => k = l
  <2>1. \A k, l \in 1 .. n : k < l \/ l < k \/ k = l
    BY <1>4
  <2> QED
    BY <1>1, <1>3, <2>1 DEF n
<1>8. \A k \in 1 .. n : r[k] = s[g[k]]
  BY <1>4
<1> QED
  BY <1>1, <1>3, <1>4, <1>5, <1>6, <1>7, <1>8 DEF n, Drawn

(* A set of positions has a first.                                           *)
LEMMA Least ==
  ASSUME NEW n \in Nat, NEW K \in SUBSET (1 .. n), K # {}
  PROVE  \E k \in K : \A l \in K : k <= l
<1> DEFINE M == {n + 1 - k : k \in K}
<1>1. M \in SUBSET (1 .. n) /\ M # {}
  <2>1. \A k \in K : k \in Int /\ n + 1 - k \in 1 .. n
    OBVIOUS
  <2>2. PICK k \in K : TRUE
    OBVIOUS
  <2>3. n + 1 - k \in M
    OBVIOUS
  <2> QED
    BY <2>1, <2>3
<1>2. PICK m \in M : \A l \in M : l <= m
  <2> HIDE DEF M
  <2> QED
    BY <1>1, Greatest
<1>3. PICK k \in K : m = n + 1 - k
  BY <1>2
<1>4. \A l \in K : n + 1 - l <= m
  BY <1>2
<1>5. \A l \in K : l \in Int
  OBVIOUS
<1> HIDE DEF M
<1>6. \A l \in K : k <= l
  BY <1>3, <1>4, <1>5
<1> QED
  BY <1>6

(* An item of a sequence is a keyword.                                       *)
LEMMA ItemsAre ==
  ASSUME NEW s \in Seq(Item)
  PROVE  /\ Len(s) \in Nat /\ DOMAIN s = 1 .. Len(s)
         /\ \A i \in DOMAIN s : s[i] \in Item /\ s[i].score \in Nat /\ s[i].valid \in BOOLEAN /\ s[i].seen \subseteq Observation
<1>1. \A x \in Item : x.score \in Nat /\ x.valid \in BOOLEAN /\ x.seen \subseteq Observation
  BY DEF Item
<1>2. Len(s) \in Nat /\ DOMAIN s = 1 .. Len(s) /\ \A i \in DOMAIN s : s[i] \in Item
  OBVIOUS
<1> QED
  BY <1>1, <1>2

(* The order of keywords is total.                                           *)
LEMMA BeforeTotal ==
  ASSUME NEW s \in Seq(Item)
  PROVE  /\ \A i, j \in DOMAIN s : Listing!Before(s, i, j) \/ Listing!Before(s, j, i)
         /\ \A i, j \in DOMAIN s : Listing!Before(s, i, j) /\ Listing!Before(s, j, i) => i = j
         /\ \A i, j, k \in DOMAIN s : Listing!Before(s, i, j) /\ Listing!Before(s, j, k) => Listing!Before(s, i, k)
<1>1. \A i \in DOMAIN s : s[i].score \in Nat /\ i \in Nat
  BY ItemsAre
<1>2. ASSUME NEW i \in DOMAIN s, NEW j \in DOMAIN s
      PROVE  Listing!Before(s, i, j) \/ Listing!Before(s, j, i)
  BY <1>1 DEF Listing!Before
<1>3. ASSUME NEW i \in DOMAIN s, NEW j \in DOMAIN s, Listing!Before(s, i, j), Listing!Before(s, j, i)
      PROVE  i = j
  BY <1>1, <1>3 DEF Listing!Before
<1>4. ASSUME NEW i \in DOMAIN s, NEW j \in DOMAIN s, NEW k \in DOMAIN s, Listing!Before(s, i, j), Listing!Before(s, j, k)
      PROVE  Listing!Before(s, i, k)
  <2>1. s[i].score \in Nat /\ s[j].score \in Nat /\ s[k].score \in Nat /\ i \in Nat /\ j \in Nat /\ k \in Nat
    BY <1>1
  <2>2. s[i].score > s[j].score \/ (s[i].score = s[j].score /\ i <= j)
    BY <1>4 DEF Listing!Before
  <2>3. s[j].score > s[k].score \/ (s[j].score = s[k].score /\ j <= k)
    BY <1>4 DEF Listing!Before
  <2>4. s[i].score > s[k].score \/ (s[i].score = s[k].score /\ i <= k)
    BY <2>1, <2>2, <2>3
  <2> QED
    BY <2>4 DEF Listing!Before
<1> QED
  BY <1>2, <1>3, <1>4

(* How many stand before a keyword is its place in the order.                *)
Positioned(s, P) ==
  /\ \A i \in DOMAIN s : P[i] \in 1 .. Len(s) /\ P[i] = Listing!Position(s, i)
  /\ \A k \in 1 .. Len(s) : \E i \in DOMAIN s : P[i] = k
  /\ \A i, j \in DOMAIN s : P[i] = P[j] => i = j
  /\ \A i, j \in DOMAIN s : P[i] <= P[j] => Listing!Before(s, i, j)
LEMMA Positions ==
  ASSUME NEW s \in Seq(Item)
  PROVE  Positioned(s, [i \in DOMAIN s |-> Listing!Position(s, i)])
<1> DEFINE n == Len(s)
           D == 1 .. n
           B(i) == {j \in D : Listing!Before(s, j, i)}
           P == [i \in DOMAIN s |-> Listing!Position(s, i)]
<1>1. n \in Nat /\ DOMAIN s = D
  OBVIOUS
<1>2. \A i \in D : P[i] = Cardinality(B(i)) /\ P[i] = Listing!Position(s, i)
  BY <1>1, ListingCounts DEF Listing!Position
<1>3. P = [i \in D |-> P[i]]
  BY <1>1
<1> HIDE DEF P
<1>4. IsFiniteSet(D) /\ Cardinality(D) = n
  BY <1>1, FS_Interval
<1>5. ASSUME NEW i \in D
      PROVE  IsFiniteSet(B(i)) /\ Cardinality(B(i)) \in Nat /\ Cardinality(B(i)) <= n /\ Cardinality(B(i)) # 0
  <2>1. B(i) \in SUBSET D /\ i \in B(i)
    BY <1>1, BeforeTotal
  <2> HIDE DEF B, D
  <2>2. IsFiniteSet(B(i)) /\ Cardinality(B(i)) <= n
    BY <1>4, <2>1, FS_Subset
  <2> QED
    BY <2>1, <2>2, FS_CardinalityType, FS_EmptySet
<1>6. ASSUME NEW i \in D, NEW j \in D, i # j, Listing!Before(s, i, j)
      PROVE  P[i] < P[j]
  <2>1. B(i) \in SUBSET B(j) /\ j \in B(j) /\ j \notin B(i)
    BY <1>1, <1>6, BeforeTotal
  <2>2. IsFiniteSet(B(j)) /\ Cardinality(B(i)) \in Nat /\ Cardinality(B(j)) \in Nat
    BY <1>5
  <2> HIDE DEF B, D
  <2>3. Cardinality(B(i)) <= Cardinality(B(j)) /\ Cardinality(B(i)) # Cardinality(B(j))
    BY <2>1, <2>2, FS_Subset
  <2> QED
    BY <1>2, <2>2, <2>3
<1>7. ASSUME NEW i \in D PROVE P[i] \in D
  <2>1. P[i] = Cardinality(B(i))
    BY <1>2
  <2> HIDE DEF B
  <2> QED
    BY <1>1, <1>5, <2>1
<1>8. ASSUME NEW i \in D, NEW j \in D, P[i] = P[j] PROVE i = j
  <2>1. Listing!Before(s, i, j) \/ Listing!Before(s, j, i)
    BY <1>1, BeforeTotal
  <2>2. P[i] \in Int /\ P[j] \in Int
    BY <1>1, <1>7
  <2> QED
    BY <1>6, <1>8, <2>1, <2>2
<1>9. \A i, j \in D : P[i] <= P[j] => Listing!Before(s, i, j)
  <2> SUFFICES ASSUME NEW i \in D, NEW j \in D, P[i] <= P[j] PROVE Listing!Before(s, i, j)
    OBVIOUS
  <2>1. i = j => Listing!Before(s, i, j)
    BY <1>1, BeforeTotal
  <2>2. Listing!Before(s, i, j) \/ Listing!Before(s, j, i)
    BY <1>1, BeforeTotal
  <2>3. P[i] \in Int /\ P[j] \in Int
    BY <1>1, <1>7
  <2> QED
    BY <1>6, <2>1, <2>2, <2>3
<1>10. \A k \in D : \E i \in D : P[i] = k
  <2>1. P \in Injection(D, D)
    <3> HIDE DEF D
    <3>1. P \in [D -> D]
      BY <1>3, <1>7
    <3> QED
      BY <1>8, <3>1 DEF Injection, IsInjective
  <2>2. P \in Surjection(D, D)
    <3> HIDE DEF D
    <3> QED
      BY <1>4, <2>1, FS_Injection
  <2> QED
    BY <2>2 DEF Surjection
<1>11. Positioned(s, P)
  BY <1>1, <1>2, <1>7, <1>8, <1>9, <1>10 DEF Positioned
<1> QED
  BY <1>11 DEF P

(* ByScore puts keywords in the order of their score; g tells where each of  *)
(* them was.                                                                 *)
Sorts(r, s, g) ==
  /\ Len(r) = Len(s)
  /\ \A k \in DOMAIN s : g[k] \in DOMAIN s /\ r[k] = s[g[k]]
  /\ \A i \in DOMAIN s : \E k \in DOMAIN s : g[k] = i
  /\ \A k, l \in DOMAIN s : g[k] = g[l] => k = l
  /\ \A k, l \in DOMAIN s : k <= l => r[k].score >= r[l].score
LEMMA ByScoreSorts ==
  ASSUME NEW s \in Seq(Item)
  PROVE  Listing!ByScore(s) \in Seq(Item) /\ \E g : Sorts(Listing!ByScore(s), s, g)
<1> DEFINE n == Len(s)
           P == [i \in DOMAIN s |-> Listing!Position(s, i)]
           g == [k \in 1 .. n |-> CHOOSE i \in DOMAIN s : Listing!Position(s, i) = k]
           r == Listing!ByScore(s)
<1>1. n \in Nat /\ DOMAIN s = 1 .. n /\ \A i \in DOMAIN s : s[i] \in Item /\ s[i].score \in Nat
  BY ItemsAre
<1>2. Positioned(s, P)
  BY Positions
<1>3. r = [k \in 1 .. n |-> s[g[k]]]
  BY <1>1 DEF Listing!ByScore
<1> HIDE DEF P, r
<1>4. \A k \in 1 .. n : \E i \in DOMAIN s : Listing!Position(s, i) = k
  BY <1>2 DEF Positioned
<1>5. \A k \in 1 .. n : g[k] \in DOMAIN s /\ Listing!Position(s, g[k]) = k
  BY <1>4
<1> HIDE DEF g, n
<1>6. \A k \in 1 .. n : g[k] \in DOMAIN s /\ P[g[k]] = k
  BY <1>2, <1>5 DEF Positioned
<1>7. \A i \in DOMAIN s : P[i] \in 1 .. n
  BY <1>2 DEF Positioned, n
<1>8. \A i \in DOMAIN s : \E k \in 1 .. n : g[k] = i
  <2> SUFFICES ASSUME NEW i \in DOMAIN s PROVE g[P[i]] = i
    BY <1>7
  <2>1. P[i] \in 1 .. n /\ P[g[P[i]]] = P[i] /\ g[P[i]] \in DOMAIN s
    BY <1>6, <1>7
  <2> QED
    BY <1>2, <2>1 DEF Positioned
<1>9. \A k \in 1 .. n : r[k] = s[g[k]]
  BY <1>3
<1>10. \A k, l \in 1 .. n : k <= l => r[k].score >= r[l].score
  <2> SUFFICES ASSUME NEW k \in 1 .. n, NEW l \in 1 .. n, k <= l PROVE r[k].score >= r[l].score
    OBVIOUS
  <2>1. g[k] \in DOMAIN s /\ g[l] \in DOMAIN s /\ P[g[k]] = k /\ P[g[l]] = l
    BY <1>6
  <2>2. Listing!Before(s, g[k], g[l])
    BY <1>2, <2>1 DEF Positioned
  <2>3. s[g[k]].score \in Nat /\ s[g[l]].score \in Nat
    BY <1>1, <2>1
  <2>4. s[g[k]].score >= s[g[l]].score
    BY <2>2, <2>3 DEF Listing!Before
  <2> QED
    BY <1>9, <2>4
<1>11. \A k, l \in 1 .. n : g[k] = g[l] => k = l
  BY <1>6
<1>12. r \in Seq(Item) /\ Len(r) = n
  <2>1. \A k \in 1 .. n : s[g[k]] \in Item
    BY <1>1, <1>6
  <2> QED
    BY <1>1, <1>3, <2>1
<1>13. Sorts(r, s, g)
  <2>1. DOMAIN s = 1 .. n /\ Len(s) = n
    BY <1>1 DEF n
  <2> QED
    BY <1>6, <1>8, <1>9, <1>10, <1>11, <1>12, <2>1 DEF Sorts
<1> QED
  BY <1>12, <1>13 DEF r

(* Of the records of a keyword one stands before the others.                 *)
LEMMA BestIs ==
  ASSUME NEW s \in Seq(Item), NEW i \in DOMAIN s
  PROVE  \E j \in Listing!Alike(s, i) : \A l \in Listing!Alike(s, i) : Listing!Before(s, j, l)
<1> DEFINE K == Listing!Alike(s, i)
           P == [m \in DOMAIN s |-> Listing!Position(s, m)]
           Q == {P[m] : m \in K}
<1>1. Positioned(s, P)
  BY Positions
<1>2. K \subseteq DOMAIN s /\ i \in K
  BY DEF Listing!Alike
<1> HIDE DEF P, K
<1>3. Len(s) \in Nat /\ Q \in SUBSET (1 .. Len(s)) /\ Q # {}
  BY <1>1, <1>2 DEF Positioned
<1>4. PICK q \in Q : \A p \in Q : q <= p
  <2> HIDE DEF Q
  <2> QED
    BY <1>3, Least
<1>5. PICK j \in K : q = P[j]
  BY <1>4
<1>6. ASSUME NEW l \in K PROVE Listing!Before(s, j, l)
  <2>1. P[j] <= P[l]
    BY <1>4, <1>5
  <2> QED
    BY <1>1, <1>2, <1>5, <2>1 DEF Positioned
<1> QED
  BY <1>5, <1>6 DEF K

(* What is observed of one of the keywords of a set.                         *)
SeenOf(E, word) == UNION {e.seen : e \in {x \in E : x.word = word}}

(* The joint record of a keyword: one of its records, with what all saw.     *)
LEMMA JointIs ==
  ASSUME NEW s \in Seq(Item), NEW i \in DOMAIN s
  PROVE  /\ Listing!Joint(s, i) \in Item /\ Listing!Joint(s, i).word = s[i].word
         /\ Listing!Joint(s, i).seen = SeenOf(Elements(s), s[i].word)
         /\ \E j \in Listing!Alike(s, i) : Listing!Joint(s, i).valid = s[j].valid
<1> DEFINE K == Listing!Alike(s, i)
           best == CHOOSE j \in K : \A l \in K : Listing!Before(s, j, l)
           union == UNION {s[j].seen : j \in K}
<1>1. Listing!Joint(s, i) = [s[best] EXCEPT !.seen = union]
  BY DEF Listing!Joint
<1>2. best \in K
  BY BestIs
<1> HIDE DEF best
<1>3. \A j \in DOMAIN s : s[j] \in Item /\ s[j].seen \subseteq Observation
  BY ItemsAre
<1>4. \A j : j \in K <=> j \in DOMAIN s /\ s[j].word = s[i].word
  BY DEF Listing!Alike
<1> HIDE DEF K
<1>5. union \in SUBSET Observation
  BY <1>3, <1>4
<1>6. union = SeenOf(Elements(s), s[i].word)
  BY <1>4 DEF SeenOf, Elements
<1> HIDE DEF union
<1>7. s[best] \in Item /\ s[best].word = s[i].word
  BY <1>2, <1>3, <1>4
<1>8. \A x \in Item : \A u \in SUBSET Observation :
        [x EXCEPT !.seen = u] \in Item /\ [x EXCEPT !.seen = u].word = x.word /\ [x EXCEPT !.seen = u].seen = u
        /\ [x EXCEPT !.seen = u].valid = x.valid
  BY DEF Item
<1> DEFINE J == Listing!Joint(s, i)
<1>9. J \in Item /\ J.word = s[best].word /\ J.seen = union /\ J.valid = s[best].valid
  <2>1. J = [s[best] EXCEPT !.seen = union]
    BY <1>1
  <2> HIDE DEF J
  <2> DEFINE x == s[best]
  <2>2. x \in Item /\ J = [x EXCEPT !.seen = union]
    BY <1>7, <2>1
  <2> HIDE DEF x
  <2>3. J \in Item /\ J.word = x.word /\ J.seen = union /\ J.valid = x.valid
    BY <1>5, <1>8, <2>2
  <2> QED
    BY <2>3 DEF x
<1> HIDE DEF J
<1>10. \E j \in K : J.valid = s[j].valid
  BY <1>2, <1>9
<1> QED
  BY <1>6, <1>7, <1>9, <1>10 DEF J, K

(* Merged keeps a joint record of every keyword, once.                       *)
Distincts(s) == \A k, l \in DOMAIN s : s[k].word = s[l].word => k = l
LEMMA MergedIs ==
  ASSUME NEW s \in Seq(Item)
  PROVE  /\ Listing!Merged(s) \in Seq(Item) /\ Distincts(Listing!Merged(s))
         /\ \A k \in DOMAIN Listing!Merged(s) : \E i \in DOMAIN s : Listing!Merged(s)[k] = Listing!Joint(s, i)
         /\ \A i \in DOMAIN s : \E k \in DOMAIN Listing!Merged(s) : Listing!Merged(s)[k].word = s[i].word
<1> DEFINE js == [i \in DOMAIN s |-> Listing!Joint(s, i)]
           A(i) == Listing!Alike(s, i)
           K == {i \in DOMAIN s : \A j \in A(i) : i <= j}
           r == Listing!Merged(s)
<1>1. Len(s) \in Nat /\ DOMAIN s = 1 .. Len(s)
  OBVIOUS
<1>2. r = Listing!Picked(js, K)
  BY DEF Listing!Merged
<1>3. \A i \in DOMAIN s : js[i] = Listing!Joint(s, i) /\ js[i] \in Item /\ js[i].word = s[i].word
  BY JointIs
<1>4. js \in Seq(Item) /\ Len(js) = Len(s) /\ DOMAIN js = DOMAIN s
  <2>1. js = [i \in 1 .. Len(s) |-> js[i]]
    BY <1>1
  <2> HIDE DEF js
  <2> QED
    BY <1>1, <1>3, <2>1
<1>5. \A i, j : j \in A(i) <=> j \in DOMAIN s /\ s[j].word = s[i].word
  BY DEF Listing!Alike
<1> HIDE DEF js, r, A
<1>6. K \in SUBSET (1 .. Len(js))
  BY <1>1, <1>4
<1>7. \A i, j \in K : s[i].word = s[j].word => i = j
  <2> SUFFICES ASSUME NEW i \in K, NEW j \in K, s[i].word = s[j].word PROVE i = j
    OBVIOUS
  <2>1. i \in A(j) /\ j \in A(i) /\ i \in Int /\ j \in Int
    BY <1>1, <1>5
  <2>2. i <= j /\ j <= i
    BY <2>1
  <2> QED
    BY <2>1, <2>2
<1>8. \A i \in DOMAIN s : \E j \in K : s[j].word = s[i].word
  <2> SUFFICES ASSUME NEW i \in DOMAIN s PROVE \E j \in K : s[j].word = s[i].word
    OBVIOUS
  <2>1. A(i) \in SUBSET (1 .. Len(s)) /\ A(i) # {}
    BY <1>1, <1>5
  <2>2. PICK j \in A(i) : \A l \in A(i) : j <= l
    BY <1>1, <2>1, Least
  <2>3. j \in DOMAIN s /\ s[j].word = s[i].word
    BY <1>5, <2>2
  <2>4. \A l \in A(j) : l \in A(i)
    BY <1>5, <2>3
  <2> QED
    BY <2>2, <2>3, <2>4
<1>9. K \subseteq DOMAIN s
  OBVIOUS
<1> HIDE DEF K
<1>10. PICK g : Picks(r, js, K, g)
  BY <1>2, <1>4, <1>6, PickedPicks
<1>11. r \in Seq(Item) /\ Drawn(r, js, K, g)
  BY <1>4, <1>6, <1>10, PicksSeq
<1>12. Distincts(r)
  BY <1>3, <1>7, <1>9, <1>11 DEF Distincts, Drawn
<1>13. \A k \in DOMAIN r : \E i \in DOMAIN s : r[k] = Listing!Joint(s, i)
  BY <1>3, <1>9, <1>11 DEF Drawn
<1>14. \A i \in DOMAIN s : \E k \in DOMAIN r : r[k].word = s[i].word
  <2> SUFFICES ASSUME NEW i \in DOMAIN s PROVE \E k \in DOMAIN r : r[k].word = s[i].word
    OBVIOUS
  <2>1. PICK j \in K : s[j].word = s[i].word
    BY <1>8
  <2>2. PICK k \in DOMAIN r : r[k] = js[j]
    BY <1>11 DEF Drawn
  <2> QED
    BY <1>3, <1>9, <2>1, <2>2
<1> QED
  BY <1>11, <1>12, <1>13, <1>14 DEF r

(* Ranked: the valid keywords by their score, each once and with all that    *)
(* was observed; one whose records are all valid is among them.              *)
Falling(s) == \A k, l \in DOMAIN s : k <= l => s[k].score >= s[l].score
Ranking(r, E) ==
  /\ r \in Seq(Item) /\ Distincts(r) /\ Falling(r)
  /\ \A k \in DOMAIN r : r[k].valid /\ r[k].seen = SeenOf(E, r[k].word) /\ \E e \in E : e.word = r[k].word
  /\ \A e \in E : (\A x \in E : x.word = e.word => x.valid) => \E k \in DOMAIN r : r[k].word = e.word
LEMMA RankedIs ==
  ASSUME NEW s \in Seq(Item)
  PROVE  Ranking(Listing!Ranked(s), Elements(s))
<1> DEFINE m == Listing!Merged(s)
           K == {i \in DOMAIN m : m[i].valid}
           v == Listing!Picked(m, K)
           r == Listing!ByScore(v)
<1>1. Listing!Ranked(s) = r
  BY DEF Listing!Ranked
<1>2. /\ m \in Seq(Item) /\ Distincts(m)
      /\ \A k \in DOMAIN m : \E i \in DOMAIN s : m[k] = Listing!Joint(s, i)
      /\ \A i \in DOMAIN s : \E k \in DOMAIN m : m[k].word = s[i].word
  BY MergedIs
<1> HIDE DEF m
<1>3. K \in SUBSET (1 .. Len(m)) /\ K \subseteq DOMAIN m /\ \A i \in K : m[i].valid
  BY <1>2
<1>4. \A i \in DOMAIN m : m[i].valid => i \in K
  OBVIOUS
<1> HIDE DEF K
<1>5. PICK g : Picks(v, m, K, g)
  BY <1>2, <1>3, PickedPicks
<1> HIDE DEF v
<1>6. v \in Seq(Item) /\ Drawn(v, m, K, g)
  BY <1>2, <1>3, <1>5, PicksSeq
<1>7. r \in Seq(Item) /\ \E h : Sorts(r, v, h)
  BY <1>6, ByScoreSorts
<1> HIDE DEF r
<1>8. PICK h : Sorts(r, v, h)
  BY <1>7
<1>9. DOMAIN r = DOMAIN v
  BY <1>6, <1>7, <1>8 DEF Sorts
<1>10. /\ \A k \in DOMAIN r : h[k] \in DOMAIN v /\ r[k] = v[h[k]]
       /\ \A i \in DOMAIN v : \E k \in DOMAIN r : r[k] = v[i]
       /\ \A k, l \in DOMAIN r : h[k] = h[l] => k = l
       /\ Falling(r)
  BY <1>8, <1>9 DEF Sorts, Falling
<1>11. \A k \in DOMAIN r : h[k] \in DOMAIN v /\ g[h[k]] \in K /\ g[h[k]] \in DOMAIN m /\ r[k] = m[g[h[k]]]
  BY <1>3, <1>6, <1>10 DEF Drawn
<1>12. Distincts(r)
  <2> SUFFICES ASSUME NEW k \in DOMAIN r, NEW l \in DOMAIN r, r[k].word = r[l].word PROVE k = l
    BY DEF Distincts
  <2>1. Distincts(m)
    BY <1>2
  <2>2. g[h[k]] = g[h[l]]
    BY <1>11, <2>1 DEF Distincts
  <2>3. h[k] \in DOMAIN v /\ h[l] \in DOMAIN v
    BY <1>11
  <2>4. h[k] = h[l]
    BY <1>6, <2>2, <2>3 DEF Drawn
  <2> QED
    BY <1>10, <2>4
<1>13. ASSUME NEW k \in DOMAIN r
       PROVE  r[k].valid /\ r[k].seen = SeenOf(Elements(s), r[k].word) /\ \E e \in Elements(s) : e.word = r[k].word
  <2>1. g[h[k]] \in K /\ g[h[k]] \in DOMAIN m /\ r[k] = m[g[h[k]]] /\ r[k].valid
    BY <1>3, <1>11
  <2>2. PICK i \in DOMAIN s : r[k] = Listing!Joint(s, i)
    BY <1>2, <2>1
  <2>3. r[k].word = s[i].word /\ r[k].seen = SeenOf(Elements(s), s[i].word)
    BY <2>2, JointIs
  <2>4. s[i] \in Elements(s)
    BY DEF Elements
  <2> QED
    BY <2>1, <2>3, <2>4
<1>14. ASSUME NEW e \in Elements(s), \A x \in Elements(s) : x.word = e.word => x.valid
       PROVE  \E k \in DOMAIN r : r[k].word = e.word
  <2>1. PICK i \in DOMAIN s : e = s[i]
    BY DEF Elements
  <2>2. PICK a \in DOMAIN m : m[a].word = s[i].word
    BY <1>2
  <2>3. PICK j \in DOMAIN s : m[a] = Listing!Joint(s, j)
    BY <1>2
  <2>4. s[j].word = e.word
    BY <2>1, <2>2, <2>3, JointIs
  <2>5. PICK b \in Listing!Alike(s, j) : m[a].valid = s[b].valid
    BY <2>3, JointIs
  <2>6. b \in DOMAIN s /\ s[b].word = e.word /\ s[b] \in Elements(s)
    BY <2>4, <2>5 DEF Listing!Alike, Elements
  <2>7. a \in K
    BY <1>4, <1>14, <2>5, <2>6
  <2>8. PICK c \in DOMAIN v : v[c] = m[a]
    BY <1>6, <2>7 DEF Drawn
  <2>9. PICK k \in DOMAIN r : r[k] = v[c]
    BY <1>10, <2>8
  <2> QED
    BY <2>1, <2>2, <2>8, <2>9
<1> QED
  BY <1>1, <1>7, <1>10, <1>12, <1>13, <1>14 DEF Ranking

(* The numbers up to n are n.                                                *)
LEMMA Counted == \A n \in Nat : IsFiniteSet(1 .. n) /\ Cardinality(1 .. n) = n
BY FS_Interval

(* The primary tier is full first, and each tier after the ones before it.   *)
FilledWell ==
  /\ \A t \in 0 .. Len(Tiers) : Listing!Filled(t) \in Nat
  /\ \A t, u \in 0 .. Len(Tiers) : t <= u => Listing!Filled(t) <= Listing!Filled(u)
  /\ Listing!Filled(1) = Tiers[1] /\ Len(Tiers) \in Nat \ {0}
LEMMA FilledIs == FilledWell
<1> DEFINE Slot(u) == {u} \X (1 .. Tiers[u])
           Slots(t) == UNION {Slot(u) : u \in 1 .. t}
           L == Len(Tiers)
<1>1. L \in Nat \ {0} /\ DOMAIN Tiers = 1 .. L /\ \A u \in 1 .. L : Tiers[u] \in Nat
  BY ListingAssumption
<1>2. \A t : Listing!Filled(t) = Cardinality(Slots(t))
  BY ListingCounts DEF Listing!Filled
<1> HIDE DEF L
<1>3. ASSUME NEW u \in 1 .. L
      PROVE  IsFiniteSet(Slot(u)) /\ Cardinality(Slot(u)) = Tiers[u]
  <2>0. Tiers[u] \in Nat
    BY <1>1
  <2>1. IsFiniteSet(1 .. Tiers[u]) /\ Cardinality(1 .. Tiers[u]) = Tiers[u]
    BY <2>0, Counted
  <2>2. IsFiniteSet({u}) /\ Cardinality({u}) = 1
    BY FS_Singleton
  <2>3. IsFiniteSet(Slot(u)) /\ Cardinality(Slot(u)) = Cardinality({u}) * Cardinality(1 .. Tiers[u])
    BY <2>1, <2>2, FS_Product
  <2> QED
    BY <2>0, <2>1, <2>2, <2>3
<1>4. ASSUME NEW t \in 0 .. L
      PROVE  IsFiniteSet(Slots(t)) /\ Listing!Filled(t) \in Nat
  <2> DEFINE f == [u \in 1 .. t |-> Slot(u)]
             all == {Slot(u) : u \in 1 .. t}
  <2>0. t \in Nat
    BY <1>1
  <2>1. IsFiniteSet(1 .. t) /\ \A u \in 1 .. t : u \in 1 .. L
    BY <1>1, <2>0, Counted
  <2>2. \A T \in all : IsFiniteSet(T)
    BY <1>3, <2>1
  <2> HIDE DEF Slot
  <2>3. f \in Surjection(1 .. t, all)
    BY DEF Surjection
  <2> HIDE DEF f
  <2>4. IsFiniteSet(all)
    BY <2>1, <2>3, FS_Surjection
  <2>5. IsFiniteSet(UNION all)
    BY <2>2, <2>4, FS_UNION
  <2> QED
    BY <1>2, <2>5, FS_CardinalityType
<1>5. ASSUME NEW t \in 0 .. L, NEW u \in 0 .. L, t <= u
      PROVE  Listing!Filled(t) <= Listing!Filled(u)
  <2>1. \A x \in 1 .. t : x \in 1 .. u
    BY <1>1, <1>5
  <2>2. Slots(t) \in SUBSET Slots(u)
    BY <2>1
  <2>3. IsFiniteSet(Slots(u))
    BY <1>4
  <2> HIDE DEF Slots
  <2> QED
    BY <1>2, <2>2, <2>3, FS_Subset
<1>6. Listing!Filled(1) = Tiers[1]
  <2>1. 1 .. 1 = {1} /\ 1 \in 1 .. L
    BY <1>1
  <2>2. Slots(1) = Slot(1)
    BY <2>1
  <2> QED
    BY <1>2, <1>3, <2>1, <2>2
<1> QED
  BY <1>1, <1>4, <1>5, <1>6 DEF L, FilledWell

(* The places of the primary tier are the first.                             *)
LEMMA TierIs ==
  ASSUME NEW k \in Nat
  PROVE  Listing!Tier(k) \in Nat /\ (Listing!Tier(k) = 1 <=> k <= Tiers[1])
<1> DEFINE L == Len(Tiers)
           F(t) == Listing!Filled(t)
           B == {t \in 1 .. L : F(t) < k}
<1>1. FilledWell
  BY FilledIs
<1>2. L \in Nat \ {0} /\ DOMAIN Tiers = 1 .. L /\ Tiers[1] \in Nat
  BY ListingAssumption
<1>3. Listing!Tier(k) = 1 + Cardinality(B)
  BY <1>2, ListingCounts DEF Listing!Tier
<1>4. /\ \A t \in 1 .. L : F(t) \in Nat /\ F(1) <= F(t)
      /\ F(1) = Tiers[1]
  BY <1>1, <1>2 DEF FilledWell
<1> HIDE DEF F, L
<1>5. 1 \in 1 .. L
  BY <1>2
<1>6. IsFiniteSet(B)
  <2>1. IsFiniteSet(1 .. L) /\ B \in SUBSET (1 .. L)
    BY <1>2, FS_Interval
  <2> HIDE DEF B
  <2> QED
    BY <2>1, FS_Subset
<1>7. B = {} <=> k <= Tiers[1]
  BY <1>2, <1>4, <1>5
<1> HIDE DEF B
<1>8. Cardinality(B) \in Nat /\ (Cardinality(B) = 0 <=> B = {})
  BY <1>6, FS_CardinalityType, FS_EmptySet
<1> QED
  BY <1>3, <1>7, <1>8

(* The first n of a sequence.                                                *)
Heads(r, s, n) ==
  /\ DOMAIN r = 1 .. Len(r) /\ Len(r) = (IF Len(s) < n THEN Len(s) ELSE n)
  /\ \A k \in DOMAIN r : k \in DOMAIN s /\ r[k] = s[k]
LEMMA FirstOfIs ==
  ASSUME NEW S, NEW s \in Seq(S), NEW n \in Nat
  PROVE  Listing!FirstOf(s, n) \in Seq(S) /\ Heads(Listing!FirstOf(s, n), s, n)
<1> DEFINE m == IF Len(s) < n THEN Len(s) ELSE n
           r == SubSeq(s, 1, m)
<1>1. Len(s) \in Nat /\ DOMAIN s = 1 .. Len(s) /\ m \in Nat /\ m <= Len(s)
  OBVIOUS
<1>2. Listing!FirstOf(s, n) = r
  BY DEF Listing!FirstOf
<1>3. m = IF Len(s) < n THEN Len(s) ELSE n
  OBVIOUS
<1> HIDE DEF m
<1>4. r \in Seq(S) /\ Len(r) = m /\ DOMAIN r = 1 .. m /\ \A k \in 1 .. m : r[k] = s[k]
  BY <1>1
<1> HIDE DEF r
<1>5. \A k \in 1 .. m : k \in 1 .. Len(s)
  BY <1>1
<1>6. Heads(r, s, n)
  BY <1>1, <1>3, <1>4, <1>5 DEF Heads
<1> QED
  BY <1>2, <1>4, <1>6

(* A sequence that holds what another holds, each once, is as long.          *)
LEMMA AsLong ==
  ASSUME NEW S, NEW s \in Seq(S), NEW r \in Seq(S),
         \A i, j \in DOMAIN s : s[i] = s[j] => i = j, \A i \in DOMAIN s : \E k \in DOMAIN r : r[k] = s[i]
  PROVE  Len(s) <= Len(r)
<1> DEFINE f == [i \in 1 .. Len(s) |-> CHOOSE k \in 1 .. Len(r) : r[k] = s[i]]
<1>1. Len(s) \in Nat /\ Len(r) \in Nat /\ DOMAIN s = 1 .. Len(s) /\ DOMAIN r = 1 .. Len(r)
  OBVIOUS
<1>2. \A i \in 1 .. Len(s) : \E k \in 1 .. Len(r) : r[k] = s[i]
  BY <1>1
<1>3. \A i \in 1 .. Len(s) : f[i] \in 1 .. Len(r) /\ r[f[i]] = s[i]
  BY <1>2
<1>4. f \in [1 .. Len(s) -> 1 .. Len(r)]
  BY <1>3
<1> HIDE DEF f
<1>5. \A i, j \in 1 .. Len(s) : f[i] = f[j] => i = j
  BY <1>1, <1>3
<1>6. f \in Injection(1 .. Len(s), 1 .. Len(r))
  BY <1>4, <1>5 DEF Injection, IsInjective
<1>7. IsFiniteSet(1 .. Len(r)) /\ Cardinality(1 .. Len(r)) = Len(r) /\ Cardinality(1 .. Len(s)) = Len(s)
  BY <1>1, Counted
<1> QED
  BY <1>6, <1>7, FS_Injection

(* A plan: as many different keywords as the tiers take, the primary ones    *)
(* known to both providers, none left out for a worse one.                   *)
Planning(a, s) ==
  /\ Len(a) = Listing!Target /\ DOMAIN a = 1 .. Len(a) /\ Len(a) \in Nat
  /\ \A k \in DOMAIN a : a[k].item \in Elements(s) /\ (a[k].tier = 1 => Listing!Dual(a[k].item))
  /\ \A k, l \in DOMAIN a : a[k].item.word = a[l].item.word => k = l
  /\ \A i \in DOMAIN s : s[i] \notin {a[k].item : k \in DOMAIN a} =>
        \A k \in DOMAIN a : a[k].tier > 1 => a[k].item.score >= s[i].score
LEMMA AssignedPlans ==
  ASSUME NEW s \in Seq(Item), Distincts(s), Falling(s), ~Listing!Gaps(s)
  PROVE  Planning(Listing!Assigned(s), s)
<1> DEFINE D == Listing!Duals(s)
           T1 == Tiers[1]
           N == Listing!Target
           p0 == Listing!Picked(s, D)
           p == Listing!FirstOf(p0, T1)
           O == {i \in DOMAIN s : s[i] \notin Listing!Range(p)}
           o == Listing!Picked(s, O)
           q == p \o o
           c == Listing!FirstOf(q, N)
           a == Listing!Assigned(s)
<1>1. a = [k \in DOMAIN c |-> [item |-> c[k], tier |-> Listing!Tier(k)]]
  BY DEF Listing!Assigned
<1>2. /\ Len(s) \in Nat /\ DOMAIN s = 1 .. Len(s) /\ \A i \in DOMAIN s : s[i].score \in Nat /\ i \in Nat
  BY ItemsAre
<1>3. T1 \in Nat /\ N \in Nat /\ T1 <= N /\ Len(s) >= N /\ Cardinality(D) >= T1
  <2>1. T1 \in Nat /\ N \in Nat /\ T1 <= N
    BY FilledIs DEF FilledWell, Listing!Target
  <2>2. IsFiniteSet(D)
    <3>1. D \in SUBSET (1 .. Len(s))
      BY <1>2 DEF Listing!Duals
    <3>2. IsFiniteSet(1 .. Len(s))
      BY <1>2, Counted
    <3> HIDE DEF D
    <3> QED
      BY <3>1, <3>2, FS_Subset
  <2>3. Cardinality(D) \in Nat
    BY <2>2, FS_CardinalityType
  <2>4. ~(Len(s) < N) /\ ~(Cardinality(D) < T1)
    BY ListingCounts DEF Listing!Gaps
  <2> HIDE DEF D, N, T1
  <2> QED
    BY <1>2, <2>1, <2>3, <2>4
<1>4. D \in SUBSET (1 .. Len(s)) /\ \A i \in D : Listing!Dual(s[i])
  BY <1>2 DEF Listing!Duals
<1>5. O \in SUBSET (1 .. Len(s)) /\ O \subseteq DOMAIN s /\ \A i \in O : s[i] \notin Elements(p)
  BY <1>2 DEF Listing!Range, Elements
<1>6. \A i \in DOMAIN s : i \in O \/ s[i] \in Elements(p)
  BY DEF Listing!Range, Elements
<1> HIDE DEF D, O, T1, N
<1>7. PICK g : Picks(p0, s, D, g)
  BY <1>4, PickedPicks
<1>8. PICK h : Picks(o, s, O, h)
  BY <1>5, PickedPicks
<1> HIDE DEF p0, o
<1>9. p0 \in Seq(Item) /\ Drawn(p0, s, D, g)
  BY <1>4, <1>7, PicksSeq
<1>10. o \in Seq(Item) /\ Drawn(o, s, O, h)
  BY <1>5, <1>8, PicksSeq
<1>11. p \in Seq(Item) /\ Heads(p, p0, T1)
  BY <1>3, <1>9, FirstOfIs
<1> HIDE DEF p
<1>12. Len(p) = T1 /\ DOMAIN p = 1 .. T1 /\ \A k \in 1 .. T1 : k \in DOMAIN p0 /\ p[k] = p0[k]
  <2>1. Len(p0) = Cardinality(D) /\ Cardinality(D) \in Nat
    BY <1>9 DEF Drawn
  <2> QED
    BY <1>3, <1>11, <2>1 DEF Heads
<1>13. /\ Len(o) \in Nat /\ DOMAIN o = 1 .. Len(o)
       /\ q \in Seq(Item) /\ Len(q) = T1 + Len(o) /\ DOMAIN q = 1 .. Len(q)
       /\ \A k \in 1 .. T1 : q[k] = p[k]
       /\ \A k \in 1 .. Len(o) : q[T1 + k] = o[k]
       /\ \A k \in DOMAIN q : k > T1 => k - T1 \in 1 .. Len(o) /\ q[k] = o[k - T1]
  <2>1. /\ Len(o) \in Nat /\ DOMAIN o = 1 .. Len(o)
        /\ q \in Seq(Item) /\ Len(q) = Len(p) + Len(o) /\ DOMAIN q = 1 .. Len(q)
    BY <1>10, <1>11
  <2>2. \A k \in 1 .. Len(p) + Len(o) : q[k] = IF k <= Len(p) THEN p[k] ELSE o[k - Len(p)]
    BY <1>10, <1>11
  <2> HIDE DEF q
  <2>3. Len(q) = T1 + Len(o) /\ DOMAIN q = 1 .. T1 + Len(o)
    BY <1>12, <2>1
  <2>4. \A k \in 1 .. T1 + Len(o) : q[k] = IF k <= T1 THEN p[k] ELSE o[k - T1]
    BY <1>12, <2>2
  <2> DEFINE m == Len(o)
  <2>5. m \in Nat
    BY <2>1
  <2> HIDE DEF m, T1
  <2>6. \A k \in 1 .. T1 : k \in 1 .. T1 + m /\ k <= T1
    BY <1>3, <2>5
  <2>7. \A k \in 1 .. T1 + m : k > T1 => k - T1 \in 1 .. m /\ ~(k <= T1)
    BY <1>3, <2>5
  <2>9. \A k \in 1 .. T1 : q[k] = p[k]
    BY <2>4, <2>6 DEF m
  <2>10. \A k \in 1 .. Len(o) : q[T1 + k] = o[k]
    <3> SUFFICES ASSUME NEW k \in 1 .. m PROVE q[T1 + k] = o[k]
      BY DEF m
    <3> DEFINE x == T1 + k
    <3>1. x \in 1 .. T1 + m /\ ~(x <= T1) /\ x - T1 = k
      BY <1>3, <2>5
    <3> HIDE DEF x
    <3>2. q[x] = o[x - T1]
      BY <2>4, <3>1 DEF m
    <3> QED
      BY <3>1, <3>2 DEF x
  <2>11. \A k \in DOMAIN q : k > T1 => k - T1 \in 1 .. Len(o) /\ q[k] = o[k - T1]
    BY <2>3, <2>4, <2>7 DEF m
  <2> QED
    BY <2>1, <2>3, <2>9, <2>10, <2>11
<1> HIDE DEF q
<1>14. \A i \in DOMAIN s : s[i] \in Item
  OBVIOUS
<1>15. \A i, j \in DOMAIN s : s[i] = s[j] => i = j
  BY DEF Distincts
<1>16. \A i \in DOMAIN s : \E k \in DOMAIN q : q[k] = s[i]
  <2> SUFFICES ASSUME NEW i \in DOMAIN s PROVE \E k \in DOMAIN q : q[k] = s[i]
    OBVIOUS
  <2>1. CASE i \in O
    <3>1. PICK k \in DOMAIN o : o[k] = s[i]
      BY <1>10, <2>1 DEF Drawn
    <3>2. T1 + k \in DOMAIN q
      BY <1>3, <1>13
    <3> QED
      BY <1>13, <3>1, <3>2
  <2>2. CASE s[i] \in Elements(p)
    <3>1. PICK k \in 1 .. T1 : p[k] = s[i]
      BY <1>12, <2>2 DEF Elements
    <3>2. k \in DOMAIN q
      BY <1>3, <1>13
    <3> QED
      BY <1>13, <3>1, <3>2
  <2> QED
    BY <1>6, <2>1, <2>2
<1>17. Len(q) >= N
  <2>1. Len(s) <= Len(q)
    BY <1>13, <1>15, <1>16, AsLong
  <2>2. Len(q) \in Nat
    BY <1>13
  <2> QED
    BY <1>2, <1>3, <2>1, <2>2
<1>18. c \in Seq(Item) /\ Heads(c, q, N)
  BY <1>3, <1>13, FirstOfIs
<1> HIDE DEF c
<1>19. Len(c) = N /\ DOMAIN c = 1 .. N /\ \A k \in 1 .. N : k \in DOMAIN q /\ c[k] = q[k]
  <2>1. Len(q) \in Nat /\ Len(c) = IF Len(q) < N THEN Len(q) ELSE N
    BY <1>13, <1>18 DEF Heads
  <2>2. Len(c) = N
    BY <1>3, <1>17, <2>1
  <2> QED
    BY <1>18, <2>2 DEF Heads
<1>20. DOMAIN a = 1 .. N /\ Len(a) = N /\ \A k \in 1 .. N : a[k].item = q[k] /\ a[k].tier = Listing!Tier(k)
  BY <1>1, <1>3, <1>19
<1> HIDE DEF a
(* Where a planned keyword comes from.                                       *)
<1>21. \A k \in 1 .. T1 : g[k] \in D /\ g[k] \in DOMAIN s /\ q[k] = s[g[k]]
  <2>1. \A k \in 1 .. T1 : q[k] = p0[k] /\ k \in DOMAIN p0
    BY <1>12, <1>13
  <2> QED
    BY <1>2, <1>4, <1>9, <2>1 DEF Drawn
<1>22. \A m \in 1 .. Len(o) : h[m] \in O /\ h[m] \in DOMAIN s /\ o[m] = s[h[m]]
  BY <1>5, <1>10, <1>13 DEF Drawn
<1>23. ASSUME NEW k \in 1 .. N PROVE q[k] \in Elements(s)
  <2>1. CASE k <= T1
    <3>1. k \in 1 .. T1
      BY <1>3, <2>1
    <3> QED
      BY <1>21, <3>1 DEF Elements
  <2>2. CASE k > T1
    <3>1. k - T1 \in 1 .. Len(o) /\ q[k] = o[k - T1]
      BY <1>13, <1>19, <2>2
    <3> QED
      BY <1>22, <3>1 DEF Elements
  <2>3. k <= T1 \/ k > T1
    BY <1>3
  <2> QED
    BY <2>1, <2>2, <2>3
<1>24. ASSUME NEW k \in 1 .. N, a[k].tier = 1 PROVE Listing!Dual(a[k].item)
  <2>1. k \in 1 .. T1
    BY <1>3, <1>20, <1>24, TierIs DEF T1
  <2> QED
    BY <1>4, <1>20, <1>21, <2>1
<1>25. ASSUME NEW k \in 1 .. N, a[k].tier > 1 PROVE k - T1 \in 1 .. Len(o) /\ q[k] = o[k - T1]
  <2>1. k > T1
    <3>0. k \in Nat
      BY <1>3
    <3>1. Listing!Tier(k) \in Nat /\ (Listing!Tier(k) = 1 <=> k <= T1)
      BY <3>0, TierIs DEF T1
    <3>2. k \in Nat /\ T1 \in Nat /\ Listing!Tier(k) > 1
      BY <1>3, <1>20, <1>25
    <3> QED
      BY <3>1, <3>2
  <2> QED
    BY <1>13, <1>19, <2>1
<1>26. ASSUME NEW k \in 1 .. N, NEW l \in 1 .. N, k < l, q[k].word = q[l].word PROVE FALSE
  <2>1. \A i, j \in DOMAIN s : s[i].word = s[j].word => i = j
    BY DEF Distincts
  <2>2. CASE l <= T1
    <3>1. k \in 1 .. T1 /\ l \in 1 .. T1
      BY <1>3, <1>26, <2>2
    <3>2. g[k] = g[l]
      BY <1>21, <1>26, <2>1, <3>1
    <3>3. k \in DOMAIN p0 /\ l \in DOMAIN p0
      BY <1>12, <3>1
    <3>4. k = l
      BY <1>9, <3>2, <3>3 DEF Drawn
    <3> QED
      BY <1>26, <3>4
  <2>3. CASE k > T1
    <3> DEFINE x == k - T1
               y == l - T1
    <3>1. x \in 1 .. Len(o) /\ y \in 1 .. Len(o) /\ q[k] = o[x] /\ q[l] = o[y]
      BY <1>3, <1>13, <1>19, <1>26, <2>3
    <3>2. h[x] = h[y]
      BY <1>22, <1>26, <2>1, <3>1
    <3>3. x \in DOMAIN o /\ y \in DOMAIN o
      BY <1>13, <3>1
    <3>4. x = y
      BY <1>10, <3>2, <3>3 DEF Drawn
    <3> QED
      BY <1>3, <1>26, <3>4
  <2>4. CASE k <= T1 /\ l > T1
    <3>1. k \in 1 .. T1
      BY <1>3, <2>4
    <3>2. l - T1 \in 1 .. Len(o) /\ q[l] = o[l - T1]
      BY <1>13, <1>19, <2>4
    <3>3. q[k] = s[g[k]] /\ g[k] \in DOMAIN s /\ q[l] = s[h[l - T1]] /\ h[l - T1] \in O /\ h[l - T1] \in DOMAIN s
      BY <1>21, <1>22, <3>1, <3>2
    <3>4. q[k] = q[l]
      BY <1>26, <2>1, <3>3
    <3>5. q[k] \in Elements(p)
      BY <1>12, <1>13, <3>1 DEF Elements
    <3> QED
      BY <1>5, <3>3, <3>4, <3>5
  <2>5. l <= T1 \/ k > T1 \/ (k <= T1 /\ l > T1)
    BY <1>3
  <2> QED
    BY <2>2, <2>3, <2>4, <2>5
<1>27. ASSUME NEW i \in DOMAIN s, s[i] \notin {a[k].item : k \in DOMAIN a}, NEW k \in 1 .. N, a[k].tier > 1
       PROVE  a[k].item.score >= s[i].score
  <2>1. \A l \in 1 .. N : q[l] # s[i]
    BY <1>20, <1>27
  <2>2. i \in O
    <3>1. ASSUME s[i] \in Elements(p) PROVE FALSE
      <4>1. PICK l \in 1 .. T1 : p[l] = s[i]
        BY <1>12, <3>1 DEF Elements
      <4>2. l \in 1 .. N /\ q[l] = s[i]
        BY <1>3, <1>13, <4>1
      <4> QED
        BY <2>1, <4>2
    <3> QED
      BY <1>6, <3>1
  <2>3. PICK m \in DOMAIN o : h[m] = i
    <3>1. PICK m \in DOMAIN o : o[m] = s[i]
      BY <1>10, <2>2 DEF Drawn
    <3>2. h[m] \in DOMAIN s /\ s[h[m]] = s[i]
      BY <1>13, <1>22, <3>1
    <3> QED
      BY <1>15, <3>2
  <2>4. m \in 1 .. Len(o) /\ o[m] = s[i]
    BY <1>13, <1>22, <2>3
  <2>5. T1 + m > N
    <3>1. ASSUME T1 + m <= N PROVE FALSE
      <4>1. T1 + m \in 1 .. N /\ q[T1 + m] = s[i]
        BY <1>3, <1>13, <2>4, <3>1
      <4> QED
        BY <2>1, <4>1
    <3> QED
      BY <1>3, <2>4, <3>1
  <2> DEFINE x == k - T1
  <2>6. x \in 1 .. Len(o) /\ q[k] = o[x] /\ x < m
    BY <1>3, <1>25, <1>27, <2>4, <2>5
  <2>7. h[x] < h[m]
    BY <1>10, <1>13, <2>4, <2>6 DEF Drawn
  <2>8. h[x] \in DOMAIN s /\ q[k] = s[h[x]]
    BY <1>22, <2>6
  <2> HIDE DEF x
  <2>9. h[x] <= i
    BY <1>2, <2>3, <2>7, <2>8
  <2>10. s[h[x]].score >= s[i].score
    BY <2>8, <2>9 DEF Falling
  <2> QED
    BY <1>20, <2>8, <2>10
<1>28. \A k, l \in 1 .. N : a[k].item.word = a[l].item.word => k = l
  <2>1. \A k, l \in 1 .. N : k < l \/ l < k \/ k = l
    BY <1>3
  <2> QED
    BY <1>20, <1>26, <2>1
<1>29. Len(a) = Listing!Target /\ DOMAIN a = 1 .. Len(a) /\ Len(a) \in Nat
  BY <1>3, <1>20 DEF N
<1>30. \A k \in DOMAIN a : a[k].item \in Elements(s) /\ (a[k].tier = 1 => Listing!Dual(a[k].item))
  BY <1>20, <1>23, <1>24
<1>31. \A k, l \in DOMAIN a : a[k].item.word = a[l].item.word => k = l
  BY <1>20, <1>28
<1>32. \A i \in DOMAIN s : s[i] \notin {a[k].item : k \in DOMAIN a} =>
          \A k \in DOMAIN a : a[k].tier > 1 => a[k].item.score >= s[i].score
  BY <1>20, <1>27
<1>33. Planning(a, s)
  BY <1>29, <1>30, <1>31, <1>32 DEF Planning
<1> QED
  BY <1>33 DEF a

-----------------------------------------------------------------------------
(* The inductive invariant of the listing agent.  Research: what a provider  *)
(* was asked and what it is still to be asked are queries that count as      *)
(* executed, each once.                                                      *)
Once(s) == \A i, j \in DOMAIN s : s[i] = s[j] => i = j
QueryInv ==
  /\ listing = "validate_input" => sent = Listing!Idle
  /\ listing # "validate_input" => task \in Tasks
  /\ pending \in [Listing!KeywordProviders -> Seq(Query)] /\ sent \in [Listing!KeywordProviders -> Seq(Query)]
  /\ listing # "research" => pending = Listing!Idle
  /\ \A p \in Listing!KeywordProviders :
        /\ Elements(sent[p]) \subseteq executed /\ Elements(pending[p]) \subseteq executed
        /\ Once(sent[p] \o pending[p]) \/ ~Listing!SeedsApart
  /\ round \in Nat /\ round <= MaxRounds /\ (listing = "supplement" => round < MaxRounds)
  /\ listing = "insufficient" => round = MaxRounds /\ Listing!Gaps(keywords)

(* Evidence: of a keyword whose records are all valid, the keywords and what *)
(* came fresh hold all that was heard; they hold nothing else.               *)
Known == Elements(keywords) \cup Elements(fresh["seller_sprite"]) \cup Elements(fresh["sif"])
AllValid(E, word) == \A e \in E : e.word = word => e.valid
Holds(K, H) ==
  /\ \A e \in K : (\E x \in H : x.word = e.word) /\ e.seen \subseteq UNION {x.seen : x \in H}
  /\ \A x \in H : AllValid(H, x.word) =>
        AllValid(K, x.word) /\ SeenOf(K, x.word) = SeenOf(H, x.word) /\ \E e \in K : e.word = x.word
EvidenceInv ==
  /\ keywords \in Seq(Item) /\ fresh \in [Listing!KeywordProviders -> Seq(Item)] /\ heard \subseteq Item
  /\ listing # "research" => fresh = Listing!Idle
  /\ Distincts(keywords) /\ Falling(keywords)
  /\ Holds(Known, heard)

(* The copy: written for a plan without gaps, delivered when it passed.      *)
Passing(d) == ~Listing!Gaps(keywords) /\ selected = Listing!Assigned(keywords) /\ checked = d /\ Listing!Passed(d)
CopyInv ==
  /\ listing = "build_keyword_plan" => ~Listing!Gaps(keywords)
  /\ listing \in {"generate_copy", "validate_copy", "revise_copy"} => ~Listing!Gaps(keywords) /\ selected = Listing!Assigned(keywords)
  /\ revision \in Nat /\ revision <= MaxRevisions /\ (listing = "revise_copy" => revision < MaxRevisions)
  /\ listing = "completed" => Passing(draft)
  /\ delivered.draft # Listing!NoDraft =>
        /\ listing = "end" /\ Passing(delivered.draft)
        /\ delivered.seen = UNION {selected[k].item.seen : k \in DOMAIN selected}
ListingInv == QueryInv /\ EvidenceInv /\ CopyInv

(* Two sequences, one behind the other.                                      *)
LEMMA ConcatParts ==
  ASSUME NEW S, NEW s \in Seq(S), NEW t \in Seq(S)
  PROVE  /\ s \o t \in Seq(S) /\ Elements(s \o t) = Elements(s) \cup Elements(t)
         /\ Once(s) /\ Once(t) /\ Elements(s) \cap Elements(t) = {} => Once(s \o t)
<1>1. s \o t \in Seq(S) /\ Elements(s \o t) = Elements(s) \cup Elements(t)
  BY ElementsConcat
<1>2. ASSUME Once(s), Once(t), Elements(s) \cap Elements(t) = {},
             NEW i \in DOMAIN (s \o t), NEW j \in DOMAIN (s \o t), (s \o t)[i] = (s \o t)[j]
      PROVE  i = j
  <2>1. /\ Len(s) \in Nat /\ Len(t) \in Nat /\ DOMAIN s = 1 .. Len(s) /\ DOMAIN t = 1 .. Len(t)
        /\ DOMAIN (s \o t) = 1 .. Len(s) + Len(t)
        /\ \A k \in 1 .. Len(s) : (s \o t)[k] = s[k]
        /\ \A k \in 1 .. Len(s) + Len(t) : k > Len(s) => k - Len(s) \in 1 .. Len(t) /\ (s \o t)[k] = t[k - Len(s)]
    OBVIOUS
  <2> DEFINE r == s \o t
             m == Len(s)
             n == Len(t)
  <2>2. /\ m \in Nat /\ n \in Nat /\ i \in 1 .. m + n /\ j \in 1 .. m + n /\ r[i] = r[j]
        /\ \A k \in 1 .. m : r[k] \in Elements(s) /\ r[k] = s[k] /\ k \in DOMAIN s
        /\ \A k \in 1 .. m + n : k > m => k - m \in DOMAIN t /\ r[k] \in Elements(t) /\ r[k] = t[k - m]
    BY <1>2, <2>1 DEF Elements
  <2> HIDE DEF r, m, n
  <2>3. i <= m /\ j <= m => i = j
    BY <1>2, <2>2 DEF Once
  <2>4. i > m /\ j > m => i = j
    <3> SUFFICES ASSUME i > m, j > m PROVE i - m = j - m
      BY <2>2
    <3> QED
      BY <1>2, <2>2 DEF Once
  <2>5. ~(i <= m /\ j > m) /\ ~(i > m /\ j <= m)
    <3>1. ASSUME i <= m, j > m PROVE FALSE
      BY <1>2, <2>2, <3>1
    <3>2. ASSUME i > m, j <= m PROVE FALSE
      BY <1>2, <2>2, <3>2
    <3> QED
      BY <3>1, <3>2
  <2>6. (i <= m \/ i > m) /\ (j <= m \/ j > m)
    BY <2>2
  <2> QED
    BY <2>3, <2>4, <2>5, <2>6
<1> QED
  BY <1>1, <1>2 DEF Once

(* A sequence of one.                                                        *)
LEMMA Single ==
  ASSUME NEW S, NEW e \in S
  PROVE  <<e>> \in Seq(S) /\ Once(<<e>>)
<1> DEFINE w == <<e>>
<1>1. w \in Seq(S) /\ Len(w) = 1
  OBVIOUS
<1> HIDE DEF w
<1>2. \A i \in DOMAIN w : i = 1
  BY <1>1
<1>3. Once(w)
  BY <1>2 DEF Once
<1> QED
  BY <1>1, <1>3 DEF w

(* Names are asked about with queries of one kind.                           *)
LEMMA AskedIs ==
  ASSUME NEW kind \in {"asin", "seed"}, NEW names \in Seq(STRING)
  PROVE  /\ Listing!Asked(kind, names) \in Seq(Query)
         /\ Once(names) => Once(Listing!Asked(kind, names))
         /\ \A q \in Elements(Listing!Asked(kind, names)) : q[1] = kind
<1> DEFINE a == Listing!Asked(kind, names)
<1>1. a = [i \in DOMAIN names |-> <<kind, names[i]>>]
  BY DEF Listing!Asked
<1> HIDE DEF a
<1>2. Len(names) \in Nat /\ DOMAIN names = 1 .. Len(names) /\ \A i \in DOMAIN names : names[i] \in STRING
  OBVIOUS
<1>3. \A i \in DOMAIN names : a[i] = <<kind, names[i]>> /\ a[i] \in Query
  BY <1>1, <1>2 DEF Query
<1>4. a = [i \in 1 .. Len(names) |-> a[i]] /\ DOMAIN a = DOMAIN names
  BY <1>1, <1>2
<1>5. a \in Seq(Query)
  BY <1>2, <1>3, <1>4
<1>6. \A i \in DOMAIN a : i \in DOMAIN names /\ a[i][1] = kind /\ a[i][2] = names[i]
  <2>1. \A x, y : <<x, y>>[1] = x /\ <<x, y>>[2] = y
    OBVIOUS
  <2>2. \A i \in DOMAIN a : i \in DOMAIN names /\ a[i] = <<kind, names[i]>>
    BY <1>3, <1>4
  <2> SUFFICES ASSUME NEW i \in DOMAIN a PROVE i \in DOMAIN names /\ a[i][1] = kind /\ a[i][2] = names[i]
    OBVIOUS
  <2> DEFINE x == a[i]
             y == names[i]
  <2>3. i \in DOMAIN names /\ x = <<kind, y>>
    BY <2>2
  <2> HIDE DEF x, y
  <2>4. x[1] = kind /\ x[2] = y
    BY <2>1, <2>3, Zenon
  <2> QED
    BY <2>3, <2>4 DEF x, y
<1>7. Once(names) => Once(a)
  BY <1>4, <1>6 DEF Once
<1>8. \A q \in Elements(a) : q[1] = kind
  BY <1>6 DEF Elements
<1> QED
  BY <1>5, <1>7, <1>8 DEF a

(* Distinct keeps each element once.                                         *)
LEMMA DistinctOnce ==
  ASSUME NEW S, NEW s \in Seq(S)
  PROVE  Listing!Distinct(s) \in Seq(S) /\ Once(Listing!Distinct(s))
<1> DEFINE K == {i \in DOMAIN s : \A j \in 1 .. (i - 1) : s[j] # s[i]}
           r == Listing!Distinct(s)
<1>1. r = Listing!Picked(s, K)
  BY DEF Listing!Distinct
<1>2. Len(s) \in Nat /\ DOMAIN s = 1 .. Len(s) /\ K \in SUBSET (1 .. Len(s))
  OBVIOUS
<1>3. \A i, j \in K : s[i] = s[j] => i = j
  <2>1. \A i, j \in K : i < j => s[i] # s[j]
    <3> SUFFICES ASSUME NEW i \in K, NEW j \in K, i < j PROVE s[i] # s[j]
      OBVIOUS
    <3>1. i \in 1 .. (j - 1)
      BY <1>2
    <3> QED
      BY <3>1
  <2>2. \A i, j \in K : i < j \/ j < i \/ i = j
    BY <1>2
  <2> QED
    BY <2>1, <2>2
<1> HIDE DEF K, r
<1>4. PICK g : Picks(r, s, K, g)
  BY <1>1, <1>2, PickedPicks
<1>5. r \in Seq(S) /\ Drawn(r, s, K, g)
  BY <1>2, <1>4, PicksSeq
<1>6. Once(r)
  BY <1>3, <1>5 DEF Once, Drawn
<1> QED
  BY <1>5, <1>6 DEF r

(* The first n of a sequence are elements of it.                             *)
LEMMA HeadsOnce ==
  ASSUME NEW S, NEW s \in Seq(S), NEW n \in Nat
  PROVE  Once(s) => Once(Listing!FirstOf(s, n))
<1>1. Heads(Listing!FirstOf(s, n), s, n)
  BY FirstOfIs
<1> QED
  BY <1>1 DEF Heads, Once

(* The queries of the first batch.                                           *)
LEMMA InitialIs ==
  ASSUME NEW r \in ListingTask
  PROVE  /\ Listing!InitialQueries(r) \in Seq(Query)
         /\ Once(r.seeds) => Once(Listing!InitialQueries(r))
<1> DEFINE names == Listing!Distinct(r.current \o Listing!FirstOf(r.competitors, 2))
           seeds == Listing!FirstOf(r.seeds, 2)
           a == Listing!Asked("asin", names)
           b == Listing!Asked("seed", seeds)
<1>1. Listing!InitialQueries(r) = a \o b
  BY DEF Listing!InitialQueries
<1>2. r.current \in Seq(STRING) /\ r.competitors \in Seq(STRING) /\ r.seeds \in Seq(STRING)
  BY DEF ListingTask
<1>3. Listing!FirstOf(r.competitors, 2) \in Seq(STRING) /\ seeds \in Seq(STRING)
  BY <1>2, FirstOfIs
<1>4. r.current \o Listing!FirstOf(r.competitors, 2) \in Seq(STRING)
  BY <1>2, <1>3
<1>5. names \in Seq(STRING) /\ Once(names)
  BY <1>4, DistinctOnce
<1>6. Once(r.seeds) => Once(seeds)
  BY <1>2, HeadsOnce
<1> HIDE DEF names, seeds
<1>7. a \in Seq(Query) /\ Once(a) /\ \A q \in Elements(a) : q[1] = "asin"
  BY <1>5, AskedIs
<1>8. b \in Seq(Query) /\ (Once(r.seeds) => Once(b)) /\ \A q \in Elements(b) : q[1] = "seed"
  BY <1>3, <1>6, AskedIs
<1> HIDE DEF a, b
<1>9. Elements(a) \cap Elements(b) = {}
  BY <1>7, <1>8
<1>10. a \o b \in Seq(Query) /\ (Once(r.seeds) => Once(a \o b))
  BY <1>7, <1>8, <1>9, ConcatParts
<1> QED
  BY <1>1, <1>10

(* The queries of a further batch: one of a kind at most.                    *)
LEMMA SupplementIs ==
  ASSUME NEW r \in ListingTask, NEW n \in Nat
  PROVE  Listing!SupplementQueries(r, n) \in Seq(Query) /\ Once(Listing!SupplementQueries(r, n))
<1> DEFINE x == Listing!Rest(r.competitors)
           y == Listing!Rest(r.seeds)
           z == y \o <<r.type, r.name>>
           u == Listing!At(x, n)
           v == Listing!At(z, n)
           a == Listing!Asked("asin", u)
           b == Listing!Asked("seed", v)
<1>1. Listing!SupplementQueries(r, n) = a \o b
  BY DEF Listing!SupplementQueries
<1>2. r.competitors \in Seq(STRING) /\ r.seeds \in Seq(STRING) /\ r.type \in STRING /\ r.name \in STRING
  BY DEF ListingTask
<1>3. \A s \in Seq(STRING) : Listing!Rest(s) \in Seq(STRING)
  <2> SUFFICES ASSUME NEW s \in Seq(STRING) PROVE Listing!Rest(s) \in Seq(STRING)
    OBVIOUS
  <2>1. <<>> \in Seq(STRING)
    OBVIOUS
  <2>2. Len(s) > 2 => SubSeq(s, 3, Len(s)) \in Seq(STRING)
    OBVIOUS
  <2> QED
    BY <2>1, <2>2 DEF Listing!Rest
<1>4. x \in Seq(STRING) /\ y \in Seq(STRING)
  BY <1>2, <1>3
<1> HIDE DEF x, y
<1>5. z \in Seq(STRING)
  <2>1. <<r.type, r.name>> \in Seq(STRING)
    BY <1>2
  <2> QED
    BY <1>4, <2>1
<1> HIDE DEF z
<1>6. \A s \in Seq(STRING) : Listing!At(s, n) \in Seq(STRING) /\ Once(Listing!At(s, n))
  <2> SUFFICES ASSUME NEW s \in Seq(STRING) PROVE Listing!At(s, n) \in Seq(STRING) /\ Once(Listing!At(s, n))
    OBVIOUS
  <2>1. CASE n < Len(s)
    <3>1. s[n + 1] \in STRING
      BY <2>1
    <3>2. Listing!At(s, n) = <<s[n + 1]>>
      BY <2>1 DEF Listing!At
    <3> DEFINE e == s[n + 1]
    <3>3. e \in STRING /\ Listing!At(s, n) = <<e>>
      BY <3>1, <3>2
    <3> HIDE DEF e
    <3> QED
      BY <3>3, Single
  <2>2. CASE ~(n < Len(s))
    <3>1. Listing!At(s, n) = <<>>
      BY <2>2 DEF Listing!At
    <3> QED
      BY <3>1 DEF Once
  <2> QED
    BY <2>1, <2>2
<1>7. u \in Seq(STRING) /\ Once(u) /\ v \in Seq(STRING) /\ Once(v)
  BY <1>4, <1>5, <1>6
<1> HIDE DEF u, v
<1>8. a \in Seq(Query) /\ Once(a) /\ \A q \in Elements(a) : q[1] = "asin"
  BY <1>7, AskedIs
<1>9. b \in Seq(Query) /\ Once(b) /\ \A q \in Elements(b) : q[1] = "seed"
  BY <1>7, AskedIs
<1> HIDE DEF a, b
<1>10. Elements(a) \cap Elements(b) = {}
  BY <1>8, <1>9
<1>11. a \o b \in Seq(Query) /\ Once(a \o b)
  BY <1>8, <1>9, <1>10, ConcatParts
<1> QED
  BY <1>1, <1>11

-----------------------------------------------------------------------------
(* The queries.                                                              *)
LEMMA QueryInit == Listing!Init => QueryInv
<1> SUFFICES ASSUME Listing!Init PROVE QueryInv
  OBVIOUS
<1>1. /\ listing = "validate_input" /\ round = 0 /\ pending = Listing!Idle /\ sent = Listing!Idle
  BY DEF Listing!Init
<1>2. /\ Listing!Idle \in [Listing!KeywordProviders -> Seq(Query)]
      /\ \A p \in Listing!KeywordProviders : Listing!Idle[p] = <<>>
  BY DEF Listing!Idle
<1>3. Elements(<<>>) = {}
  BY DEF Elements
<1>4. Once(<<>> \o <<>>)
  <2>1. <<>> \o <<>> = <<>>
    OBVIOUS
  <2> QED
    BY <2>1 DEF Once
<1>5. MaxRounds \in Nat
  BY ListingAssumption
<1>6. ASSUME NEW p \in Listing!KeywordProviders
      PROVE  Elements(sent[p]) = {} /\ Elements(pending[p]) = {} /\ Once(sent[p] \o pending[p])
  <2>1. sent[p] = <<>> /\ pending[p] = <<>>
    BY <1>1, <1>2
  <2> QED
    BY <1>3, <1>4, <2>1
<1>7. 0 \in Nat /\ 0 <= MaxRounds
  BY <1>5
<1>8. pending \in [Listing!KeywordProviders -> Seq(Query)] /\ sent \in [Listing!KeywordProviders -> Seq(Query)]
  BY <1>1, <1>2
<1> QED
  BY <1>1, <1>6, <1>7, <1>8 DEF QueryInv

(* A step that leaves the queries alone.                                     *)
LEMMA QueryStays ==
  ASSUME QueryInv, listing # "validate_input", listing # "research" \/ pending = Listing!Idle,
         UNCHANGED <<task, round, pending, executed, sent>>,
         listing' # "validate_input", listing' = "supplement" => round < MaxRounds,
         listing' = "insufficient" => round = MaxRounds /\ Listing!Gaps(keywords')
  PROVE  QueryInv'
<1>1. Listing!Gaps(keywords)' = Listing!Gaps(keywords')
  BY DEF Listing!Gaps, Listing!Target, Listing!Filled, Listing!Duals, Listing!Dual, Listing!Sources, Listing!Cardinality
<1>2. Listing!SeedsApart' = Listing!SeedsApart
  BY DEF Listing!SeedsApart
<1> QED
  BY <1>1, <1>2 DEF QueryInv

(* A batch is planned: what was asked before is left out.                    *)
LEMMA ResearchPlans ==
  ASSUME QueryInv, listing # "research", listing # "validate_input", NEW qs \in Seq(Query),
         Once(qs) \/ ~Listing!SeedsApart, Listing!Research(qs), UNCHANGED <<task, sent, keywords>>,
         round' \in Nat, round' <= MaxRounds
  PROVE  QueryInv'
<1> DEFINE KP == Listing!KeywordProviders
           K == {i \in DOMAIN qs : qs[i] \notin executed}
           new == Listing!Picked(qs, K)
<1>1. /\ pending' = [p \in KP |-> new] /\ executed' = executed \cup Elements(qs) /\ listing' = "research"
  BY DEF Listing!Research, Listing!NewQueries, Elements
<1>2. Len(qs) \in Nat /\ DOMAIN qs = 1 .. Len(qs) /\ K \in SUBSET (1 .. Len(qs)) /\ \A i \in K : qs[i] \notin executed
  OBVIOUS
<1> HIDE DEF K
<1>3. PICK g : Picks(new, qs, K, g)
  BY <1>2, PickedPicks
<1> HIDE DEF new
<1>4. new \in Seq(Query) /\ Drawn(new, qs, K, g)
  BY <1>2, <1>3, PicksSeq
<1>5. Once(qs) => Once(new)
  <2>1. \A k \in DOMAIN new : g[k] \in DOMAIN qs /\ new[k] = qs[g[k]]
    BY <1>2, <1>4 DEF Drawn
  <2>2. \A k, l \in DOMAIN new : g[k] = g[l] => k = l
    BY <1>4 DEF Drawn
  <2> QED
    BY <2>1, <2>2 DEF Once
<1>6. \A q \in Elements(new) : q \in Elements(qs) /\ q \notin executed
  BY <1>2, <1>4 DEF Elements, Drawn
<1>7. pending = Listing!Idle /\ task \in Tasks /\ sent \in [KP -> Seq(Query)]
  BY DEF QueryInv
<1>8. \A p \in KP : pending[p] = <<>> /\ pending'[p] = new
  BY <1>1, <1>7 DEF Listing!Idle
<1>9. ASSUME NEW p \in KP
      PROVE  /\ Elements(sent'[p]) \subseteq executed' /\ Elements(pending'[p]) \subseteq executed'
             /\ Once(sent'[p] \o pending'[p]) \/ ~Listing!SeedsApart
  <2>1. sent[p] \in Seq(Query) /\ Elements(sent[p]) \subseteq executed /\ (Once(sent[p] \o pending[p]) \/ ~Listing!SeedsApart)
    BY DEF QueryInv
  <2>2. sent[p] \o pending[p] = sent[p]
    <3>1. sent[p] \o <<>> = sent[p]
      BY <2>1
    <3> QED
      BY <1>8, <3>1
  <2>3. Elements(sent[p]) \cap Elements(new) = {}
    BY <1>6, <2>1
  <2>4. Once(sent[p]) /\ Once(new) => Once(sent[p] \o new)
    BY <1>4, <2>1, <2>3, ConcatParts
  <2>5. sent'[p] = sent[p] /\ pending'[p] = new
    BY <1>8
  <2> QED
    BY <1>1, <1>5, <1>6, <2>1, <2>2, <2>4, <2>5
<1>10. pending' \in [KP -> Seq(Query)] /\ sent' \in [KP -> Seq(Query)]
  BY <1>1, <1>4, <1>7
<1>11. Listing!SeedsApart' = Listing!SeedsApart
  BY DEF Listing!SeedsApart
<1>12. task' \in Tasks
  BY <1>7
<1> HIDE DEF KP
<1> QED
  BY <1>1, <1>9, <1>10, <1>11, <1>12 DEF QueryInv, KP

(* A query moves from those to be asked to those asked.                      *)
LEMMA MovedOn ==
  ASSUME NEW S, NEW s \in Seq(S), NEW t \in Seq(S), t # <<>>
  PROVE  /\ Append(s, Head(t)) \in Seq(S) /\ Tail(t) \in Seq(S) /\ Append(s, Head(t)) \o Tail(t) = s \o t
         /\ Elements(Append(s, Head(t))) \subseteq Elements(s) \cup Elements(t) /\ Elements(Tail(t)) \subseteq Elements(t)
         /\ Head(t) \in S
<1>1. Head(t) \in S /\ Tail(t) \in Seq(S) /\ Append(s, Head(t)) \in Seq(S) /\ Len(t) \in Nat /\ Len(t) # 0 /\ Len(Tail(t)) = Len(t) - 1
      /\ Len(s) \in Nat /\ Head(t) = t[1] /\ \A k \in 1 .. Len(t) - 1 : Tail(t)[k] = t[k + 1]
  OBVIOUS
<1>2. Elements(Tail(t)) \subseteq Elements(t)
  BY <1>1 DEF Elements
<1> DEFINE e == Head(t)
<1>3. e \in S /\ e \in Elements(t)
  BY <1>1 DEF Elements
<1> HIDE DEF e
<1>4. /\ Len(Append(s, e)) = Len(s) + 1 /\ Append(s, e)[Len(s) + 1] = e
      /\ \A k \in 1 .. Len(s) : Append(s, e)[k] = s[k]
  BY <1>3
<1>5. Elements(Append(s, e)) \subseteq Elements(s) \cup Elements(t)
  <2>1. \A k \in DOMAIN Append(s, e) : k \in 1 .. Len(s) \/ k = Len(s) + 1
    BY <1>1, <1>3, <1>4
  <2> QED
    BY <1>1, <1>3, <1>4, <2>1 DEF Elements
<1>6. Append(s, e) \o Tail(t) = s \o t
  <2> DEFINE u == Append(s, e)
             v == Tail(t)
             a == u \o v
             b == s \o t
  <2>1. u \in Seq(S) /\ v \in Seq(S) /\ Len(u) = Len(s) + 1 /\ Len(v) = Len(t) - 1
    BY <1>1, <1>3, <1>4
  <2>2. u[Len(s) + 1] = t[1] /\ (\A k \in 1 .. Len(s) : u[k] = s[k]) /\ \A k \in 1 .. Len(v) : v[k] = t[k + 1]
    BY <1>1, <1>4, <2>1 DEF e
  <2> HIDE DEF u, v
  <2>3. a \in Seq(S) /\ b \in Seq(S) /\ Len(a) = Len(s) + Len(t) /\ Len(b) = Len(s) + Len(t)
    BY <1>1, <2>1
  <2>4. ASSUME NEW k \in 1 .. Len(s) + Len(t) PROVE a[k] = b[k]
    <3>1. k <= Len(s) => a[k] = u[k] /\ b[k] = s[k] /\ u[k] = s[k]
      BY <1>1, <2>1, <2>2
    <3>2. k = Len(s) + 1 => a[k] = u[k] /\ b[k] = t[1]
      BY <1>1, <2>1
    <3>3. k > Len(s) + 1 => a[k] = v[k - Len(s) - 1] /\ b[k] = t[k - Len(s)] /\ k - Len(s) - 1 \in 1 .. Len(v)
      BY <1>1, <2>1
    <3>4. k <= Len(s) \/ k = Len(s) + 1 \/ k > Len(s) + 1
      BY <1>1
    <3>5. k > Len(s) + 1 => v[k - Len(s) - 1] = t[k - Len(s)]
      BY <1>1, <2>2, <3>3
    <3>6. k = Len(s) + 1 => a[k] = b[k]
      BY <2>2, <3>2
    <3> HIDE DEF a, b
    <3> QED
      BY <3>1, <3>3, <3>4, <3>5, <3>6
  <2> HIDE DEF a, b
  <2>5. a = b
    BY <1>1, <2>3, <2>4
  <2> QED
    BY <2>5 DEF a, b, u, v
<1> QED
  BY <1>1, <1>2, <1>5, <1>6 DEF e

(* A provider is called.                                                     *)
LEMMA QueryCalled ==
  ASSUME QueryInv, NEW p \in Listing!KeywordProviders, Listing!Call(p)
  PROVE  QueryInv'
<1> DEFINE KP == Listing!KeywordProviders
           s == sent[p]
           t == pending[p]
           q == Head(t)
<1>1. /\ listing = "research" /\ t # <<>> /\ UNCHANGED <<listing, task, round, executed, keywords>>
      /\ sent' = [sent EXCEPT ![p] = Append(s, q)] /\ pending' = [pending EXCEPT ![p] = Tail(t)]
  BY DEF Listing!Call
<1>2. /\ s \in Seq(Query) /\ t \in Seq(Query) /\ sent \in [KP -> Seq(Query)] /\ pending \in [KP -> Seq(Query)]
      /\ Elements(s) \subseteq executed /\ Elements(t) \subseteq executed /\ (Once(s \o t) \/ ~Listing!SeedsApart)
  BY DEF QueryInv
<1> HIDE DEF s, t
<1>3. /\ Append(s, q) \in Seq(Query) /\ Tail(t) \in Seq(Query) /\ Append(s, q) \o Tail(t) = s \o t
      /\ Elements(Append(s, q)) \subseteq Elements(s) \cup Elements(t) /\ Elements(Tail(t)) \subseteq Elements(t)
  BY <1>1, <1>2, MovedOn
<1> DEFINE a == Append(s, q)
           b == Tail(t)
<1>4. /\ a \in Seq(Query) /\ b \in Seq(Query) /\ a \o b = s \o t /\ Elements(a) \subseteq executed /\ Elements(b) \subseteq executed
      /\ sent' = [sent EXCEPT ![p] = a] /\ pending' = [pending EXCEPT ![p] = b]
  BY <1>1, <1>2, <1>3
<1> HIDE DEF a, b
<1>5. sent' \in [KP -> Seq(Query)] /\ pending' \in [KP -> Seq(Query)]
  BY <1>2, <1>4
<1>6. Listing!SeedsApart' = Listing!SeedsApart
  BY <1>1 DEF Listing!SeedsApart
<1>7. ASSUME NEW r \in KP
      PROVE  /\ Elements(sent'[r]) \subseteq executed' /\ Elements(pending'[r]) \subseteq executed'
             /\ Once(sent'[r] \o pending'[r]) \/ ~Listing!SeedsApart
  <2>1. CASE r = p
    <3>1. sent'[p] = a /\ pending'[p] = b /\ executed' = executed
      BY <1>1, <1>2, <1>4
    <3> QED
      BY <1>2, <1>4, <2>1, <3>1
  <2>2. CASE r # p
    <3>1. sent'[r] = sent[r] /\ pending'[r] = pending[r] /\ executed' = executed
      BY <1>1, <1>2, <1>4, <2>2
    <3> QED
      BY <3>1 DEF QueryInv
  <2> QED
    BY <2>1, <2>2
<1>8. /\ listing' = "research" /\ task' \in Tasks /\ round' = round
  BY <1>1 DEF QueryInv
<1>9. round \in Nat /\ round <= MaxRounds
  BY DEF QueryInv
<1> HIDE DEF KP
<1> QED
  BY <1>5, <1>6, <1>7, <1>8, <1>9 DEF QueryInv, KP

(* No step of the agent asks a provider again what it was asked.             *)
LEMMA QueryKept ==
  ASSUME QueryInv, Listing!Next
  PROVE  QueryInv'
<1>0. round \in Nat /\ round <= MaxRounds /\ MaxRounds \in Nat
  BY ListingAssumption DEF QueryInv
<1>1. ASSUME Listing!ValidateInput PROVE QueryInv'
  <2>1. /\ listing = "validate_input" /\ task' \in Tasks /\ listing' \in {"initial_research", "needs_input"}
        /\ UNCHANGED <<round, pending, executed, sent>>
    BY <1>1 DEF Listing!ValidateInput
  <2>2. sent = Listing!Idle /\ pending = Listing!Idle
    BY <2>1 DEF QueryInv
  <2>3. \A p \in Listing!KeywordProviders : sent[p] = <<>> /\ pending[p] = <<>>
    BY <2>2 DEF Listing!Idle
  <2>4. <<>> \o <<>> = <<>>
    OBVIOUS
  <2>5. ASSUME NEW p \in Listing!KeywordProviders PROVE Once(sent'[p] \o pending'[p])
    <3>1. Once(<<>>)
      BY DEF Once
    <3>2. sent'[p] = <<>> /\ pending'[p] = <<>>
      BY <2>1, <2>3
    <3> QED
      BY <2>4, <3>1, <3>2
  <2>6. /\ sent' \in [Listing!KeywordProviders -> Seq(Query)] /\ pending' \in [Listing!KeywordProviders -> Seq(Query)]
        /\ \A p \in Listing!KeywordProviders : Elements(sent'[p]) \subseteq executed' /\ Elements(pending'[p]) \subseteq executed'
    BY <2>1 DEF QueryInv
  <2> QED
    BY <1>0, <2>1, <2>2, <2>5, <2>6 DEF QueryInv
<1>2. ASSUME Listing!InitialResearch PROVE QueryInv'
  <2>1. /\ listing = "initial_research" /\ Listing!Research(Listing!InitialQueries(task))
        /\ UNCHANGED <<task, round, keywords, sent>>
    BY <1>2 DEF Listing!InitialResearch
  <2>2. task \in ListingTask
    BY <2>1, ListingAssumption DEF QueryInv
  <2>3. Once(task.seeds) \/ ~Listing!SeedsApart
    BY DEF Once, Listing!SeedsApart
  <2> DEFINE qs == Listing!InitialQueries(task)
  <2>4. qs \in Seq(Query) /\ (Once(task.seeds) => Once(qs))
    BY <2>2, InitialIs
  <2>5. Listing!Research(qs)
    BY <2>1
  <2> HIDE DEF qs
  <2> QED
    BY <1>0, <2>1, <2>3, <2>4, <2>5, ResearchPlans
<1>3. ASSUME Listing!Supplement PROVE QueryInv'
  <2>1. /\ listing = "supplement" /\ Listing!Research(Listing!SupplementQueries(task, round))
        /\ round' = round + 1 /\ UNCHANGED <<task, keywords, sent>>
    BY <1>3 DEF Listing!Supplement
  <2>2. task \in ListingTask /\ round < MaxRounds
    BY <2>1, ListingAssumption DEF QueryInv
  <2> DEFINE qs == Listing!SupplementQueries(task, round)
  <2>4. qs \in Seq(Query) /\ Once(qs)
    BY <1>0, <2>2, SupplementIs
  <2>5. Listing!Research(qs)
    BY <2>1
  <2> HIDE DEF qs
  <2>6. round' \in Nat /\ round' <= MaxRounds
    BY <1>0, <2>1, <2>2
  <2> QED
    BY <2>1, <2>4, <2>5, <2>6, ResearchPlans
<1>4. ASSUME Listing!Evaluate PROVE QueryInv'
  <2>1. /\ listing = "research" /\ pending = Listing!Idle /\ UNCHANGED <<task, round, pending, executed, sent>>
        /\ listing' = IF ~Listing!Gaps(keywords') THEN "build_keyword_plan"
                      ELSE IF round < MaxRounds THEN "supplement" ELSE "insufficient"
    BY <1>4 DEF Listing!Evaluate
  <2>2. /\ listing' # "validate_input" /\ (listing' = "supplement" => round < MaxRounds)
        /\ (listing' = "insufficient" => round = MaxRounds /\ Listing!Gaps(keywords'))
    BY <1>0, <2>1
  <2> QED
    BY <2>1, <2>2, QueryStays
<1>5. ASSUME Listing!BuildPlan \/ Listing!GenerateCopy \/ Listing!ReviseCopy \/ Listing!ValidateCopy \/ Listing!Deliver PROVE QueryInv'
  <2>1. /\ listing \notin {"validate_input", "research"} /\ UNCHANGED <<task, round, pending, executed, sent>>
        /\ listing' \notin {"validate_input", "supplement", "insufficient"}
    BY <1>5 DEF Listing!BuildPlan, Listing!GenerateCopy, Listing!ReviseCopy, Listing!Write, Listing!ValidateCopy, Listing!Deliver, Listing!Final
  <2> QED
    BY <2>1, QueryStays
<1>6. ASSUME NEW p \in Listing!KeywordProviders, Listing!Call(p) PROVE QueryInv'
  BY <1>6, QueryCalled
<1> QED
  BY <1>1, <1>2, <1>3, <1>4, <1>5, <1>6 DEF Listing!Next

-----------------------------------------------------------------------------
(* What is observed of a keyword in two sets.                                *)
LEMMA SeenOfBoth ==
  ASSUME NEW K, NEW F, NEW w
  PROVE  SeenOf(K \cup F, w) = SeenOf(K, w) \cup SeenOf(F, w)
<1>1. ASSUME NEW o PROVE o \in SeenOf(K \cup F, w) <=> o \in SeenOf(K, w) \cup SeenOf(F, w)
  BY DEF SeenOf
<1> QED
  BY <1>1

(* More evidence, on both sides.                                             *)
LEMMA HoldsMore ==
  ASSUME NEW K, NEW H, NEW F, Holds(K, H), \A e \in F : e.seen \subseteq UNION {x.seen : x \in F}
  PROVE  Holds(K \cup F, H \cup F)
<1>1. ASSUME NEW e \in K \cup F
      PROVE  (\E x \in H \cup F : x.word = e.word) /\ e.seen \subseteq UNION {x.seen : x \in H \cup F}
  <2>1. CASE e \in K
    BY <2>1 DEF Holds
  <2>2. CASE e \in F
    BY <2>2
  <2> QED
    BY <2>1, <2>2
<1>2. ASSUME NEW x \in H \cup F, AllValid(H \cup F, x.word)
      PROVE  /\ AllValid(K \cup F, x.word) /\ SeenOf(K \cup F, x.word) = SeenOf(H \cup F, x.word)
             /\ \E e \in K \cup F : e.word = x.word
  <2> DEFINE w == x.word
  <2>0. SeenOf(K \cup F, w) = SeenOf(K, w) \cup SeenOf(F, w) /\ SeenOf(H \cup F, w) = SeenOf(H, w) \cup SeenOf(F, w)
    BY SeenOfBoth
  <2>1. AllValid(H, x.word) /\ AllValid(F, x.word)
    BY <1>2 DEF AllValid
  <2>2. CASE \E y \in H : y.word = x.word
    <3>1. AllValid(K, x.word) /\ SeenOf(K, x.word) = SeenOf(H, x.word) /\ \E e \in K : e.word = x.word
      BY <2>1, <2>2 DEF Holds
    <3>2. AllValid(K \cup F, x.word)
      BY <2>1, <3>1 DEF AllValid
    <3> QED
      BY <2>0, <3>1, <3>2
  <2>3. CASE ~\E y \in H : y.word = x.word
    <3>1. \A e \in K : e.word # x.word
      BY <2>3 DEF Holds
    <3>2. AllValid(K \cup F, x.word)
      BY <2>1, <3>1 DEF AllValid
    <3>3. SeenOf(K, x.word) = {} /\ SeenOf(H, x.word) = {}
      BY <2>3, <3>1 DEF SeenOf
    <3>4. x \in F
      BY <2>3
    <3> QED
      BY <2>0, <3>2, <3>3, <3>4
  <2> QED
    BY <2>2, <2>3
<1> QED
  BY <1>1, <1>2 DEF Holds

(* What is ranked holds what was to be ranked.                               *)
LEMMA HoldsRanked ==
  ASSUME NEW K, NEW H, NEW r, Holds(K, H), Ranking(r, K)
  PROVE  Holds(Elements(r), H)
<1>1. \A e \in Elements(r) : \E k \in DOMAIN r : e = r[k]
  BY DEF Elements
<1>2. ASSUME NEW k \in DOMAIN r
      PROVE  /\ r[k] \in Elements(r) /\ r[k].valid /\ r[k].seen = SeenOf(K, r[k].word)
             /\ \A e \in Elements(r) : e.word = r[k].word => e = r[k]
  BY <1>1 DEF Ranking, Elements, Distincts
<1>3. ASSUME NEW e \in Elements(r)
      PROVE  (\E x \in H : x.word = e.word) /\ e.seen \subseteq UNION {x.seen : x \in H}
  <2>1. PICK k \in DOMAIN r : e = r[k]
    BY <1>1
  <2>2. PICK f \in K : f.word = e.word
    BY <2>1 DEF Ranking
  <2>3. \E x \in H : x.word = e.word
    BY <2>2 DEF Holds
  <2>4. SeenOf(K, e.word) \subseteq UNION {x.seen : x \in H}
    BY DEF SeenOf, Holds
  <2> QED
    BY <1>2, <2>1, <2>3, <2>4
<1>4. ASSUME NEW x \in H, AllValid(H, x.word)
      PROVE  /\ AllValid(Elements(r), x.word) /\ SeenOf(Elements(r), x.word) = SeenOf(H, x.word)
             /\ \E e \in Elements(r) : e.word = x.word
  <2>1. AllValid(K, x.word) /\ SeenOf(K, x.word) = SeenOf(H, x.word) /\ \E e \in K : e.word = x.word
    BY <1>4 DEF Holds
  <2>2. PICK k \in DOMAIN r : r[k].word = x.word
    BY <2>1 DEF Ranking, AllValid
  <2>3. r[k] \in Elements(r) /\ \A e \in Elements(r) : e.word = x.word => e = r[k]
    BY <1>2, <2>2
  <2>4. SeenOf(Elements(r), x.word) = r[k].seen
    BY <2>2, <2>3 DEF SeenOf
  <2>5. AllValid(Elements(r), x.word)
    BY <1>2, <2>3 DEF AllValid
  <2> QED
    BY <1>2, <2>1, <2>2, <2>3, <2>4, <2>5
<1> QED
  BY <1>3, <1>4 DEF Holds

(* A record of a reply is evidence for its keyword.                          *)
LEMMA EvidenceIs ==
  ASSUME NEW p \in Listing!KeywordProviders, NEW q \in Query, NEW record \in [word : STRING, relevance : Nat]
  PROVE  Listing!Evidence(p, q, record) \in Item
<1> DEFINE relevance == IF record.relevance = 0 THEN Listing!Default(p, q) ELSE record.relevance
           score == 3 * relevance + Listing!Confidence(p)
           note == {<<p, q>>}
           valid == relevance >= 700
<1>1. relevance \in Nat
  BY DEF Listing!Default
<1>2. Listing!Confidence(p) \in Nat
  BY DEF Listing!Confidence
<1> HIDE DEF relevance
<1>3. score \in Nat
  BY <1>1, <1>2
<1>4. note \in SUBSET Observation
  BY DEF Observation
<1>5. valid \in BOOLEAN /\ record.word \in STRING
  OBVIOUS
<1>6. Listing!Evidence(p, q, record) = [word |-> record.word, score |-> score, seen |-> note, valid |-> valid]
  BY DEF Listing!Evidence, relevance
<1> HIDE DEF score, note, valid
<1> QED
  BY <1>3, <1>4, <1>5, <1>6 DEF Item

(* The evidence of a reply, in its order.                                    *)
LEMMA ReplyIs ==
  ASSUME NEW p \in Listing!KeywordProviders, NEW q \in Query, NEW reply \in Keywords
  PROVE  [i \in DOMAIN reply |-> Listing!Evidence(p, q, reply[i])] \in Seq(Item)
<1> DEFINE found == [i \in DOMAIN reply |-> Listing!Evidence(p, q, reply[i])]
<1> DEFINE R == [word : STRING, relevance : Nat]
<1>1. reply \in Seq(R)
  <2>1. Keywords \subseteq Seq(R)
    BY ListingAssumption
  <2> HIDE DEF R
  <2> QED
    BY <2>1
<1>2. Len(reply) \in Nat /\ DOMAIN reply = 1 .. Len(reply) /\ \A i \in DOMAIN reply : reply[i] \in R
  <2> HIDE DEF R
  <2> QED
    BY <1>1
<1>3. \A i \in DOMAIN reply : found[i] \in Item
  BY <1>2, EvidenceIs
<1>4. found = [i \in 1 .. Len(reply) |-> found[i]]
  BY <1>2
<1> HIDE DEF found
<1> QED
  BY <1>2, <1>3, <1>4 DEF found

-----------------------------------------------------------------------------
(* The evidence.                                                             *)
LEMMA EvidenceInit == Listing!Init => EvidenceInv
<1> SUFFICES ASSUME Listing!Init PROVE EvidenceInv
  OBVIOUS
<1>1. keywords = <<>> /\ fresh = Listing!Idle /\ heard = {}
  BY DEF Listing!Init
<1>2. /\ Listing!Idle \in [Listing!KeywordProviders -> Seq(Item)]
      /\ Listing!Idle["seller_sprite"] = <<>> /\ Listing!Idle["sif"] = <<>>
  BY DEF Listing!Idle, Listing!KeywordProviders
<1>3. Elements(<<>>) = {} /\ Distincts(<<>>) /\ Falling(<<>>) /\ <<>> \in Seq(Item)
  BY DEF Elements, Distincts, Falling
<1>4. Known = {}
  BY <1>1, <1>2, <1>3 DEF Known
<1>5. Holds({}, {})
  BY DEF Holds
<1>6. heard \subseteq Item /\ Holds(Known, heard)
  BY <1>1, <1>4, <1>5
<1> QED
  BY <1>1, <1>2, <1>3, <1>6 DEF EvidenceInv

(* A step that leaves the evidence alone.                                    *)
LEMMA EvidenceStays ==
  ASSUME EvidenceInv, UNCHANGED <<keywords, fresh, heard>>, fresh = Listing!Idle \/ listing' = "research"
  PROVE  EvidenceInv'
<1>1. Known' = Known
  BY DEF Known
<1> QED
  BY <1>1 DEF EvidenceInv

(* A provider answers, or does not.                                          *)
LEMMA EvidenceHeard ==
  ASSUME QueryInv, EvidenceInv, NEW p \in Listing!KeywordProviders, Listing!Call(p)
  PROVE  EvidenceInv'
<1> DEFINE q == Head(pending[p])
           found(reply) == [i \in DOMAIN reply |-> Listing!Evidence(p, q, reply[i])]
<1>1. /\ listing = "research" /\ listing' = "research" /\ keywords' = keywords
      /\ \/ UNCHANGED <<fresh, heard>>
         \/ \E reply \in Keywords : fresh' = [fresh EXCEPT ![p] = @ \o found(reply)]
                                    /\ heard' = heard \cup Elements(found(reply))
  BY DEF Listing!Call, Elements
<1>2. q \in Query
  <2>1. pending[p] \in Seq(Query) /\ pending[p] # <<>>
    BY DEF Listing!Call, QueryInv
  <2> QED
    BY <2>1
<1> HIDE DEF q
<1>3. CASE UNCHANGED <<fresh, heard>>
  BY <1>1, <1>3, EvidenceStays
<1>4. ASSUME NEW reply \in Keywords, fresh' = [fresh EXCEPT ![p] = @ \o found(reply)], heard' = heard \cup Elements(found(reply))
      PROVE  EvidenceInv'
  <2> DEFINE f == found(reply)
             KP == Listing!KeywordProviders
             r == fresh[p] \o f
             F == Elements(f)
  <2>1. f \in Seq(Item)
    BY <1>2, ReplyIs
  <2> HIDE DEF f
  <2>2. fresh \in [KP -> Seq(Item)] /\ fresh[p] \in Seq(Item) /\ fresh' = [fresh EXCEPT ![p] = r]
    BY <1>4 DEF EvidenceInv, f
  <2>3. r \in Seq(Item) /\ Elements(r) = Elements(fresh[p]) \cup F
    BY <2>1, <2>2, ElementsConcat
  <2> HIDE DEF r
  <2>4. fresh' \in [KP -> Seq(Item)]
    BY <2>2, <2>3
  <2>5. F \subseteq Item
    BY <2>1 DEF Elements
  <2>6. KP = {"seller_sprite", "sif"}
    BY DEF Listing!KeywordProviders
  <2>7. Known' = Known \cup F
    <3>1. CASE p = "seller_sprite"
      <4>1. fresh'["seller_sprite"] = r /\ fresh'["sif"] = fresh["sif"]
        BY <2>2, <2>6, <3>1
      <4> QED
        BY <1>1, <2>3, <3>1, <4>1 DEF Known
    <3>2. CASE p = "sif"
      <4>1. fresh'["sif"] = r /\ fresh'["seller_sprite"] = fresh["seller_sprite"]
        BY <2>2, <2>6, <3>2
      <4> QED
        BY <1>1, <2>3, <3>2, <4>1 DEF Known
    <3> QED
      BY <2>6, <3>1, <3>2
  <2>8. heard' = heard \cup F
    BY <1>4 DEF f
  <2> HIDE DEF F
  <2>9. Holds(Known \cup F, heard \cup F)
    <3>1. Holds(Known, heard)
      BY DEF EvidenceInv
    <3>2. \A e \in F : e.seen \subseteq UNION {x.seen : x \in F}
      OBVIOUS
    <3> QED
      BY <3>1, <3>2, HoldsMore
  <2>10. heard' \subseteq Item
    BY <2>5, <2>8 DEF EvidenceInv
  <2>11. Holds(Known', heard')
    BY <2>7, <2>8, <2>9
  <2>12. keywords' \in Seq(Item) /\ Distincts(keywords') /\ Falling(keywords')
    BY <1>1 DEF EvidenceInv
  <2> QED
    BY <1>1, <2>4, <2>10, <2>11, <2>12 DEF EvidenceInv, KP
<1> QED
  BY <1>1, <1>3, <1>4

(* The keywords are ranked anew.                                             *)
LEMMA EvidenceRanked ==
  ASSUME EvidenceInv, Listing!Evaluate
  PROVE  EvidenceInv'
<1> DEFINE a == fresh["seller_sprite"]
           b == fresh["sif"]
           c == keywords \o a
           s == c \o b
           r == Listing!Ranked(s)
<1>1. keywords' = r /\ fresh' = Listing!Idle /\ heard' = heard
  BY DEF Listing!Evaluate
<1>2. keywords \in Seq(Item) /\ a \in Seq(Item) /\ b \in Seq(Item) /\ Holds(Known, heard) /\ heard \subseteq Item
  BY DEF EvidenceInv, Listing!KeywordProviders
<1>3. Known = (Elements(keywords) \cup Elements(a)) \cup Elements(b)
  BY DEF Known
<1> HIDE DEF a, b
<1>4. c \in Seq(Item) /\ Elements(c) = Elements(keywords) \cup Elements(a)
  BY <1>2, ElementsConcat
<1> HIDE DEF c
<1>5. s \in Seq(Item) /\ Elements(s) = Elements(c) \cup Elements(b)
  BY <1>2, <1>4, ElementsConcat
<1> HIDE DEF s
<1>6. Ranking(r, Elements(s)) /\ Elements(s) = Known
  BY <1>3, <1>4, <1>5, RankedIs
<1> HIDE DEF r
<1>7. Holds(Elements(r), heard)
  BY <1>2, <1>6, HoldsRanked
<1>8. r \in Seq(Item) /\ Distincts(r) /\ Falling(r)
  BY <1>6 DEF Ranking
<1>9. /\ Listing!Idle \in [Listing!KeywordProviders -> Seq(Item)]
      /\ Listing!Idle["seller_sprite"] = <<>> /\ Listing!Idle["sif"] = <<>>
  BY DEF Listing!Idle, Listing!KeywordProviders
<1>10. Elements(<<>>) = {}
  BY DEF Elements
<1>11. Known' = Elements(r)
  BY <1>1, <1>9, <1>10 DEF Known
<1>12. Holds(Known', heard')
  BY <1>1, <1>7, <1>11
<1>13. fresh' \in [Listing!KeywordProviders -> Seq(Item)]
  BY <1>1, <1>9
<1> QED
  BY <1>1, <1>2, <1>8, <1>12, <1>13 DEF EvidenceInv

(* No step of the agent loses evidence.                                      *)
LEMMA EvidenceLasts ==
  ASSUME QueryInv, EvidenceInv, Listing!Next
  PROVE  EvidenceInv'
<1>1. ASSUME Listing!InitialResearch \/ Listing!Supplement PROVE EvidenceInv'
  <2>1. /\ listing' = "research" /\ listing # "research" /\ fresh' = Listing!Idle /\ UNCHANGED <<keywords, heard>>
    BY <1>1 DEF Listing!InitialResearch, Listing!Supplement, Listing!Research
  <2>2. fresh = Listing!Idle
    BY <2>1 DEF EvidenceInv
  <2> QED
    BY <2>1, <2>2, EvidenceStays
<1>2. ASSUME Listing!ValidateInput \/ Listing!BuildPlan \/ Listing!GenerateCopy \/ Listing!ReviseCopy \/ Listing!ValidateCopy \/ Listing!Deliver
      PROVE  EvidenceInv'
  <2>1. listing # "research" /\ UNCHANGED <<keywords, fresh, heard>>
    BY <1>2 DEF Listing!ValidateInput, Listing!BuildPlan, Listing!GenerateCopy, Listing!ReviseCopy, Listing!Write,
                Listing!ValidateCopy, Listing!Deliver, Listing!Final
  <2>2. fresh = Listing!Idle
    BY <2>1 DEF EvidenceInv
  <2> QED
    BY <2>1, <2>2, EvidenceStays
<1> QED
  BY <1>1, <1>2, EvidenceHeard, EvidenceRanked DEF Listing!Next

-----------------------------------------------------------------------------
(* The copy.  Plans, gaps and checks depend on the keywords and the plan.    *)
LEMMA PlanDepends ==
  /\ Listing!Gaps(keywords)' = Listing!Gaps(keywords') /\ Listing!Assigned(keywords)' = Listing!Assigned(keywords')
  /\ UNCHANGED selected => \A d : Listing!Passed(d)' = Listing!Passed(d)
<1>1. Listing!Gaps(keywords)' = Listing!Gaps(keywords')
  BY DEF Listing!Gaps, Listing!Target, Listing!Filled, Listing!Duals, Listing!Dual, Listing!Sources, Listing!Cardinality
<1>2. Listing!Assigned(keywords)' = Listing!Assigned(keywords')
  BY DEF Listing!Assigned, Listing!FirstOf, Listing!Picked, Listing!Nth, Listing!Place, Listing!Tier, Listing!Target,
         Listing!Filled, Listing!Duals, Listing!Dual, Listing!Sources, Listing!Cardinality, Listing!Range
<1>3. UNCHANGED selected => \A d : Listing!Passed(d)' = Listing!Passed(d)
  BY DEF Listing!Passed, Listing!Covered
<1> QED
  BY <1>1, <1>2, <1>3

(* Nothing is delivered yet.                                                 *)
LEMMA CopyInit == Listing!Init => CopyInv
<1> SUFFICES ASSUME Listing!Init PROVE CopyInv
  OBVIOUS
<1>1. listing = "validate_input" /\ revision = 0 /\ delivered = Listing!Undelivered
  BY DEF Listing!Init
<1>2. delivered.draft = Listing!NoDraft
  BY <1>1 DEF Listing!Undelivered
<1>3. revision \in Nat /\ revision <= MaxRevisions
  BY <1>1, ListingAssumption
<1> QED
  BY <1>1, <1>2, <1>3 DEF CopyInv

(* A step that delivers nothing and leads into the copy only with a plan.    *)
LEMMA CopyStays ==
  ASSUME CopyInv, delivered.draft = Listing!NoDraft, delivered' = delivered, listing' \notin {"completed", "end"},
         revision' \in Nat, revision' <= MaxRevisions, listing' = "revise_copy" => revision' < MaxRevisions,
         listing' = "build_keyword_plan" => ~Listing!Gaps(keywords'),
         listing' \in {"generate_copy", "validate_copy", "revise_copy"} =>
            ~Listing!Gaps(keywords') /\ selected' = Listing!Assigned(keywords')
  PROVE  CopyInv'
<1>1. delivered'.draft = Listing!NoDraft
  OBVIOUS
<1>2. Listing!NoDraft' = Listing!NoDraft
  BY DEF Listing!NoDraft
<1> QED
  BY <1>1, <1>2, PlanDepends DEF CopyInv

(* A draft is delivered after it passed, on a plan without gaps.             *)
LEMMA CopyKept ==
  ASSUME CopyInv, Listing!Next
  PROVE  CopyInv'
<1>0. /\ revision \in Nat /\ revision <= MaxRevisions /\ MaxRevisions \in Nat
      /\ listing # "end" => delivered.draft = Listing!NoDraft
  BY ListingAssumption DEF CopyInv
<1>1. ASSUME Listing!ValidateInput \/ Listing!InitialResearch \/ Listing!Supplement \/ \E p \in Listing!KeywordProviders : Listing!Call(p)
      PROVE  CopyInv'
  <2>1. /\ listing # "end" /\ listing' \in {"initial_research", "needs_input", "research"} /\ UNCHANGED <<delivered, revision>>
    BY <1>1 DEF Listing!ValidateInput, Listing!InitialResearch, Listing!Supplement, Listing!Call, Listing!Research
  <2> QED
    BY <1>0, <2>1, CopyStays
<1>2. ASSUME Listing!Evaluate PROVE CopyInv'
  <2>1. /\ listing = "research" /\ UNCHANGED <<delivered, revision>>
        /\ listing' = IF ~Listing!Gaps(keywords') THEN "build_keyword_plan"
                      ELSE IF round < MaxRounds THEN "supplement" ELSE "insufficient"
    BY <1>2 DEF Listing!Evaluate
  <2>2. listing' = "build_keyword_plan" => ~Listing!Gaps(keywords')
    BY <2>1
  <2>3. listing' \in {"build_keyword_plan", "supplement", "insufficient"}
    BY <2>1
  <2> QED
    BY <1>0, <2>1, <2>2, <2>3, CopyStays
<1>3. ASSUME Listing!BuildPlan PROVE CopyInv'
  <2>1. /\ listing = "build_keyword_plan" /\ listing' = "generate_copy" /\ selected' = Listing!Assigned(keywords)
        /\ UNCHANGED <<keywords, delivered, revision>>
    BY <1>3 DEF Listing!BuildPlan
  <2>2. ~Listing!Gaps(keywords') /\ selected' = Listing!Assigned(keywords')
    BY <2>1 DEF CopyInv
  <2> QED
    BY <1>0, <2>1, <2>2, CopyStays
<1>4. ASSUME Listing!GenerateCopy \/ Listing!ReviseCopy PROVE CopyInv'
  <2>1. /\ listing \in {"generate_copy", "revise_copy"} /\ listing' \in {"validate_copy", "failed"}
        /\ UNCHANGED <<keywords, selected, delivered>>
        /\ revision' = revision \/ (listing = "revise_copy" /\ revision' = revision + 1)
    BY <1>4 DEF Listing!GenerateCopy, Listing!ReviseCopy, Listing!Write
  <2>2. ~Listing!Gaps(keywords') /\ selected' = Listing!Assigned(keywords')
    BY <2>1 DEF CopyInv
  <2>3. revision' \in Nat /\ revision' <= MaxRevisions
    <3>1. listing = "revise_copy" => revision < MaxRevisions
      BY DEF CopyInv
    <3> QED
      BY <1>0, <2>1, <3>1
  <2> QED
    BY <1>0, <2>1, <2>2, <2>3, CopyStays
<1>5. ASSUME Listing!ValidateCopy PROVE CopyInv'
  <2>1. /\ listing = "validate_copy" /\ checked' = draft /\ UNCHANGED <<keywords, selected, draft, revision, delivered>>
        /\ listing' = IF Listing!Passed(draft) THEN "completed" ELSE IF revision < MaxRevisions THEN "revise_copy" ELSE "needs_review"
    BY <1>5 DEF Listing!ValidateCopy
  <2>2. ~Listing!Gaps(keywords') /\ selected' = Listing!Assigned(keywords')
    BY <2>1 DEF CopyInv
  <2>3. CASE Listing!Passed(draft)
    <3>1. listing' = "completed" /\ delivered'.draft = Listing!NoDraft
      BY <1>0, <2>1, <2>3
    <3>2. Listing!Passed(draft') /\ draft' = draft /\ selected' = selected
      BY <2>1, <2>3
    <3>3. Passing(draft)'
      <4>1. Listing!Passed(draft)'
        BY <3>2 DEF Listing!Passed, Listing!Covered
      <4> QED
        BY <2>1, <2>2, <4>1, PlanDepends DEF Passing
    <3>4. Listing!NoDraft' = Listing!NoDraft
      BY DEF Listing!NoDraft
    <3> QED
      BY <1>0, <2>1, <3>1, <3>3, <3>4 DEF CopyInv
  <2>4. CASE ~Listing!Passed(draft)
    <3>1. listing' \in {"revise_copy", "needs_review"} /\ (listing' = "revise_copy" => revision < MaxRevisions)
      BY <2>1, <2>4
    <3> QED
      BY <1>0, <2>1, <2>2, <3>1, CopyStays
  <2> QED
    BY <2>3, <2>4
<1>6. ASSUME Listing!Deliver PROVE CopyInv'
  <2>1. /\ listing \in Listing!Final /\ listing' = "end" /\ delivered' = Listing!Result(listing)
        /\ UNCHANGED <<keywords, selected, draft, checked, revision>>
    BY <1>6 DEF Listing!Deliver
  <2>2. Listing!NoDraft' = Listing!NoDraft
    BY DEF Listing!NoDraft
  <2>3. CASE listing = "completed"
    <3>1. /\ delivered'.draft = draft /\ delivered'.seen = UNION {selected[k].item.seen : k \in DOMAIN selected}
      BY <2>1, <2>3 DEF Listing!Result
    <3>2. Passing(draft)
      BY <2>3 DEF CopyInv
    <3>3. Passing(delivered.draft)'
      <4>1. Listing!Passed(delivered.draft)' = Listing!Passed(draft)
        BY <2>1, <3>1 DEF Listing!Passed, Listing!Covered
      <4> QED
        BY <2>1, <3>1, <3>2, <4>1, PlanDepends DEF Passing
    <3>4. delivered'.seen = UNION {selected'[k].item.seen : k \in DOMAIN selected'}
      BY <2>1, <3>1
    <3> QED
      BY <1>0, <2>1, <3>3, <3>4 DEF CopyInv
  <2>4. CASE listing # "completed"
    <3>1. delivered'.draft = Listing!NoDraft
      BY <2>1, <2>4 DEF Listing!Result, Listing!Undelivered
    <3> QED
      BY <1>0, <2>1, <2>2, <3>1 DEF CopyInv
  <2> QED
    BY <2>3, <2>4
<1> QED
  BY <1>1, <1>2, <1>3, <1>4, <1>5, <1>6 DEF Listing!Next

-----------------------------------------------------------------------------
(* A part of a sequence in which nothing stands twice.                       *)
LEMMA OnceFirst ==
  ASSUME NEW S, NEW s \in Seq(S), NEW t \in Seq(S), Once(s \o t)
  PROVE  Once(s)
<1>1. \A i \in DOMAIN s : i \in DOMAIN (s \o t) /\ (s \o t)[i] = s[i]
  OBVIOUS
<1> DEFINE r == s \o t
<1>2. Once(r) /\ \A i \in DOMAIN s : i \in DOMAIN r /\ r[i] = s[i]
  BY <1>1
<1> HIDE DEF r
<1> QED
  BY <1>2 DEF Once

(* What is told apart can be counted by what tells it.                       *)
LEMMA CountedBy ==
  ASSUME NEW n \in Nat, NEW D \in SUBSET (1 .. n), NEW f, \A k, l \in D : f[k] = f[l] => k = l
  PROVE  IsFiniteSet(D) /\ Cardinality(D) \in Nat /\ Cardinality({f[k] : k \in D}) = Cardinality(D)
<1> DEFINE R == {f[k] : k \in D}
           g == [k \in D |-> f[k]]
<1>1. IsFiniteSet(D)
  <2>1. IsFiniteSet(1 .. n)
    BY Counted
  <2> QED
    BY <2>1, FS_Subset
<1>2. g \in [D -> R] /\ (\A k, l \in D : g[k] = g[l] => k = l) /\ \A x \in R : \E k \in D : g[k] = x
  OBVIOUS
<1> HIDE DEF g, R
<1>3. g \in Bijection(D, R)
  BY <1>2 DEF Bijection, Injection, Surjection, IsInjective
<1>4. Cardinality(R) = Cardinality(D)
  <2>1. ExistsBijection(D, R)
    BY <1>3 DEF ExistsBijection
  <2> QED
    BY <1>1, <2>1, FS_Bijection
<1>5. Cardinality(D) \in Nat
  BY <1>1, FS_CardinalityType
<1> QED
  BY <1>1, <1>4, <1>5 DEF R

(* The invariant implies what is checked of the agent.                       *)
LEMMA OnceFollows == QueryInv => Listing!ResearchOnce
<1> SUFFICES ASSUME QueryInv PROVE Listing!ResearchOnce
  OBVIOUS
<1>1. ASSUME NEW p \in Listing!KeywordProviders, NEW i \in DOMAIN sent[p], NEW j \in DOMAIN sent[p],
             sent[p][i] = sent[p][j], Listing!SeedsApart
      PROVE  i = j
  <2>1. sent[p] \in Seq(Query) /\ pending[p] \in Seq(Query) /\ Once(sent[p] \o pending[p])
    BY <1>1 DEF QueryInv
  <2>2. Once(sent[p])
    BY <2>1, OnceFirst
  <2> QED
    BY <1>1, <2>2 DEF Once
<1>2. listing = "insufficient" => round = MaxRounds /\ Listing!Gaps(keywords)
  BY DEF QueryInv
<1> QED
  BY <1>1, <1>2 DEF Listing!ResearchOnce

(* Outside a batch the keywords hold all that was heard.                     *)
LEMMA AllKnown ==
  ASSUME EvidenceInv, listing # "research"
  PROVE  Known = Elements(keywords)
<1>1. fresh["seller_sprite"] = <<>> /\ fresh["sif"] = <<>>
  BY DEF EvidenceInv, Listing!Idle, Listing!KeywordProviders
<1>2. Elements(<<>>) = {}
  BY DEF Elements
<1> QED
  BY <1>1, <1>2 DEF Known

(* Of a keyword that all found relevant, the keywords hold all that was heard. *)
LEMMA KeptFollows == EvidenceInv => Listing!EvidenceKept
<1> SUFFICES ASSUME EvidenceInv, listing \in {"supplement", "build_keyword_plan", "insufficient", "generate_copy"},
                    NEW x \in heard, \A e \in {e \in heard : e.word = x.word} : e.valid
             PROVE  \E i \in DOMAIN keywords : keywords[i].word = x.word
                       /\ keywords[i].seen = UNION {e.seen : e \in {e \in heard : e.word = x.word}}
  BY DEF Listing!EvidenceKept
<1> DEFINE w == x.word
           K == Elements(keywords)
<1>1. Holds(K, heard)
  BY AllKnown DEF EvidenceInv
<1>2. AllValid(heard, w)
  BY DEF AllValid
<1>3. SeenOf(K, w) = SeenOf(heard, w) /\ \E e \in K : e.word = w
  BY <1>1, <1>2 DEF Holds
<1>4. PICK i \in DOMAIN keywords : keywords[i].word = w
  BY <1>3 DEF Elements
<1>5. \A e \in K : e.word = w => e = keywords[i]
  BY <1>4 DEF EvidenceInv, Distincts, Elements
<1>6. keywords[i] \in K
  BY <1>4 DEF Elements
<1> HIDE DEF K
<1>7. SeenOf(K, w) = keywords[i].seen
  BY <1>4, <1>5, <1>6 DEF SeenOf
<1> QED
  BY <1>3, <1>4, <1>7 DEF SeenOf

(* What passed and was delivered.                                            *)
LEMMA CopyFollows == EvidenceInv /\ CopyInv => Listing!CopySound
<1> SUFFICES ASSUME EvidenceInv, CopyInv, delivered.draft # Listing!NoDraft PROVE Listing!CopySound
  BY DEF Listing!CopySound
<1> DEFINE d == delivered.draft
           a == selected
           N == Listing!Target
           words == {selected[k].item.word : k \in DOMAIN selected}
           f == [k \in DOMAIN a |-> a[k].item.word]
           D == {k \in DOMAIN a : a[k].item.word \in d.words}
<1>1. /\ listing = "end" /\ ~Listing!Gaps(keywords) /\ a = Listing!Assigned(keywords) /\ checked = d /\ Listing!Passed(d)
      /\ delivered.seen = UNION {selected[k].item.seen : k \in DOMAIN selected} /\ revision <= MaxRevisions
  BY DEF CopyInv, Passing
<1>2. keywords \in Seq(Item) /\ Distincts(keywords) /\ Falling(keywords) /\ Holds(Elements(keywords), heard)
  BY <1>1, AllKnown DEF EvidenceInv
<1>3. Planning(a, keywords)
  BY <1>1, <1>2, AssignedPlans
<1>4. Len(a) = N /\ DOMAIN a = 1 .. Len(a) /\ Len(a) \in Nat
  BY <1>3 DEF Planning
<1>5. \A k, l \in DOMAIN a : f[k] = f[l] => k = l
  BY <1>3 DEF Planning
<1>6. Cardinality(words) = N
  <2>1. words = {f[k] : k \in DOMAIN a}
    OBVIOUS
  <2>2. Cardinality(1 .. Len(a)) = N
    BY <1>4, Counted
  <2> HIDE DEF f, words
  <2> DEFINE m == Len(a)
             E == 1 .. m
  <2>3. E \in SUBSET (1 .. m) /\ (\A k, l \in E : f[k] = f[l] => k = l) /\ m \in Nat
    BY <1>4, <1>5
  <2>5. DOMAIN a = E
    BY <1>4
  <2> HIDE DEF E, m
  <2>4. Cardinality({f[k] : k \in E}) = Cardinality(E)
    BY <2>3, CountedBy
  <2> QED
    BY <2>1, <2>2, <2>4, <2>5 DEF E, m
<1>7. 5 * Cardinality(d.words \cap words) >= 3 * N
  <2>1. 10 * Cardinality(D) >= 6 * Len(a)
    BY <1>1, ListingCounts DEF Listing!Passed, Listing!Covered
  <2>2. d.words \cap words = {f[k] : k \in D}
    OBVIOUS
  <2>3. D \in SUBSET (1 .. Len(a)) /\ \A k, l \in D : f[k] = f[l] => k = l
    BY <1>4, <1>5
  <2> HIDE DEF f, words, D
  <2>4. Cardinality({f[k] : k \in D}) = Cardinality(D) /\ Cardinality(D) \in Nat
    BY <1>4, <2>3, CountedBy
  <2>5. Cardinality(d.words \cap words) = Cardinality(D)
    BY <2>2, <2>4
  <2> QED
    BY <1>4, <2>1, <2>4, <2>5
<1>8. delivered.seen \subseteq UNION {e.seen : e \in heard}
  <2>1. \A k \in DOMAIN a : a[k].item \in Elements(keywords)
    BY <1>3 DEF Planning
  <2>2. \A e \in Elements(keywords) : e.seen \subseteq UNION {x.seen : x \in heard}
    BY <1>2 DEF Holds
  <2> QED
    BY <1>1, <2>1, <2>2
<1>9. /\ \A k \in DOMAIN a : a[k].tier = 1 => Listing!Dual(a[k].item)
      /\ \A i \in DOMAIN keywords : keywords[i] \notin {a[k].item : k \in DOMAIN a} =>
            \A k \in DOMAIN a : a[k].tier > 1 => a[k].item.score >= keywords[i].score
  BY <1>3 DEF Planning
<1>10. ~d.claim /\ ~d.long
  BY <1>1 DEF Listing!Passed
<1>11. Listing!Cardinality(words) = N /\ 5 * Listing!Cardinality(d.words \cap words) >= 3 * N
  BY <1>6, <1>7, ListingCounts
<1> QED
  BY <1>1, <1>4, <1>8, <1>9, <1>10, <1>11 DEF Listing!CopySound

(* The listing agent keeps what is checked of it.                            *)
LEMMA ListingHolds == Listing!Spec => []Listing!ListingSound
<1>1. Listing!Init => ListingInv
  BY QueryInit, EvidenceInit, CopyInit DEF ListingInv
<1>2. ListingInv /\ Listing!Next => ListingInv'
  BY QueryKept, EvidenceLasts, CopyKept DEF ListingInv
<1>3. ListingInv /\ UNCHANGED Listing!vars => ListingInv'
  <2> SUFFICES ASSUME ListingInv, UNCHANGED Listing!vars PROVE ListingInv'
    OBVIOUS
  <2>1. UNCHANGED listingVars
    BY DEF Listing!vars, listingVars
  <2>2. EvidenceInv'
    <3>1. UNCHANGED <<listing, keywords, fresh, heard>>
      BY <2>1 DEF listingVars
    <3>2. Known' = Known
      BY <3>1 DEF Known
    <3> QED
      BY <3>1, <3>2 DEF ListingInv, EvidenceInv
  <2>3. QueryInv'
    <3>1. UNCHANGED <<listing, task, round, pending, executed, keywords, sent>>
      BY <2>1 DEF listingVars
    <3>2. Listing!SeedsApart' = Listing!SeedsApart
      BY <3>1 DEF Listing!SeedsApart
    <3> QED
      BY <3>1, <3>2, PlanDepends DEF ListingInv, QueryInv
  <2>4. CopyInv'
    <3>1. UNCHANGED <<listing, keywords, selected, draft, checked, revision, delivered>>
      BY <2>1 DEF listingVars
    <3>2. Listing!NoDraft' = Listing!NoDraft
      BY DEF Listing!NoDraft
    <3>3. Passing(draft)' = Passing(draft) /\ Passing(delivered.draft)' = Passing(delivered.draft)
      <4>1. Listing!Passed(draft)' = Listing!Passed(draft) /\ Listing!Passed(delivered.draft)' = Listing!Passed(delivered.draft)
        BY <3>1 DEF Listing!Passed, Listing!Covered
      <4> QED
        BY <3>1, <4>1, PlanDepends DEF Passing
    <3> QED
      BY <3>1, <3>2, <3>3, PlanDepends DEF ListingInv, CopyInv
  <2> QED
    BY <2>2, <2>3, <2>4 DEF ListingInv
<1>4. ListingInv => Listing!ListingSound
  BY OnceFollows, KeptFollows, CopyFollows DEF ListingInv, Listing!ListingSound
<1> QED
  BY <1>1, <1>2, <1>3, <1>4, PTL DEF Listing!Spec

(* What the other services do changes nothing in the listing agent.          *)
LEMMA ListingAlone == Services => Listing!Spec
<1>1. InitServices => Listing!Init
  BY DEF InitServices
<1>2. [NextServices]_servicesVars => [Listing!Next]_(Listing!vars)
  BY DEF NextServices, servicesVars, listingVars, Listing!vars
<1> QED
  BY <1>1, <1>2, PTL DEF Services, Listing!Spec

(* No provider is asked the same twice in a task that names no seed twice,   *)
(* and research gives up only after all its rounds; a keyword that every     *)
(* record found relevant is kept, with all that was observed of it; and a    *)
(* draft is delivered only for a full plan of different keywords, after it   *)
(* was checked, with evidence that was heard.                                *)
THEOREM ListingIsSound == Services => []ListingSound
<1>1. Listing!ListingSound => ListingSound
  BY DEF ListingSound
<1> QED
  BY <1>1, ListingAlone, ListingHolds, PTL

-----------------------------------------------------------------------------
(***************************************************************************)
(* Report imports: the rows of the table are those of whole files, one     *)
(* after the other.                                                        *)
(***************************************************************************)
Total(m, S) == Import!MapThenSumSet(LAMBDA x : m[x], S)

(* A sum takes the elements of its set one after the other, whichever it     *)
(* chooses next; Adds says that g does so for all sets in D.                 *)
Some(s) == CHOOSE x \in s : TRUE
Added(m, g, s) == IF s = {} THEN 0 ELSE m[Some(s)] + g[s \ {Some(s)}]
Adds(m, g, D) == g = [s \in D |-> Added(m, g, s)]

(* The sum as the module of finite sets computes it.                         *)
LEMMA TotalDef ==
  ASSUME NEW m, NEW S
  PROVE  Total(m, S) = (CHOOSE g : Adds(m, g, SUBSET S))[S]
BY DEF Total, Import!MapThenSumSet, Import!MapThenFoldSet, Adds, Added, Some

(* The picked member of a set that is not empty is in it.                    *)
LEMMA SomeIn ==
  ASSUME NEW s, s # {}
  PROVE  Some(s) \in s
BY DEF Some

(* There is a function that adds over all subsets of a finite set.           *)
LEMMA Adding ==
  ASSUME NEW m, NEW S, IsFiniteSet(S)
  PROVE  \E g : Adds(m, g, SUBSET S)
<1> DEFINE D(n) == {s \in SUBSET S : Cardinality(s) <= n}
           P(n) == \E g : Adds(m, g, D(n))
           T == {n \in Nat : P(n)}
<1>0. \A s \in SUBSET S : IsFiniteSet(s) /\ Cardinality(s) \in Nat /\ Cardinality(s) <= Cardinality(S)
  BY FS_Subset, FS_CardinalityType
<1>1. 0 \in T
  <2>1. D(0) = {{}}
    BY <1>0, FS_EmptySet
  <2>2. Adds(m, [s \in {{}} |-> 0], {{}})
    BY DEF Adds, Added
  <2> QED
    BY <2>1, <2>2
<1>2. ASSUME NEW n \in T PROVE n + 1 \in T
  <2>1. PICK g : Adds(m, g, D(n))
    OBVIOUS
  <2> DEFINE h == [s \in D(n + 1) |-> IF s \in D(n) THEN g[s] ELSE Added(m, g, s)]
  <2>2. ASSUME NEW s \in D(n + 1), s # {}
        PROVE  s \ {Some(s)} \in D(n)
    <3>1. Some(s) \in s
      BY <2>2, SomeIn
    <3>2. Cardinality(s \ {Some(s)}) = Cardinality(s) - 1
      BY <1>0, <3>1, FS_RemoveElement
    <3> QED
      BY <1>0, <3>2
  <2>3. D(n) \subseteq D(n + 1)
    BY <1>0
  <2>4. \A s \in D(n) : g[s] = Added(m, g, s)
    BY <2>1 DEF Adds
  <2>5. ASSUME NEW s \in D(n + 1)
        PROVE  h[s] = Added(m, h, s)
    <3>1. h[s] = Added(m, g, s)
      BY <2>4
    <3>2. CASE s = {}
      BY <3>1, <3>2 DEF Added
    <3>3. CASE s # {}
      <4>1. h[s \ {Some(s)}] = g[s \ {Some(s)}]
        BY <2>2, <2>3, <3>3
      <4> QED
        BY <3>1, <3>3, <4>1 DEF Added
    <3> QED
      BY <3>2, <3>3
  <2>6. Adds(m, h, D(n + 1))
    BY <2>5 DEF Adds
  <2> HIDE DEF h
  <2>7. P(n + 1)
    BY <2>6
  <2> HIDE DEF P
  <2> QED
    BY <2>7
<1>3. T = Nat
  <2> HIDE DEF T
  <2>1. T \in SUBSET Nat
    BY DEF T
  <2> QED
    BY <1>1, <1>2, <2>1, Induced
<1>4. Cardinality(S) \in T
  BY <1>0, <1>3
<1>5. D(Cardinality(S)) = SUBSET S
  BY <1>0
<1> QED
  BY <1>4, <1>5

(* Two such functions agree where both are defined.                          *)
LEMMA AddedAlike ==
  ASSUME NEW m, NEW A, NEW B, IsFiniteSet(A), NEW g, NEW h, Adds(m, g, SUBSET A), Adds(m, h, SUBSET B),
         NEW U \in SUBSET A, U \in SUBSET B
  PROVE  g[U] = h[U]
<1> DEFINE T == {n \in Nat : \A s \in SUBSET A : s \in SUBSET B /\ Cardinality(s) <= n => g[s] = h[s]}
<1>0. \A s \in SUBSET A : IsFiniteSet(s) /\ Cardinality(s) \in Nat
  BY FS_Subset, FS_CardinalityType
<1>1. \A s : (s \in SUBSET A => g[s] = Added(m, g, s)) /\ (s \in SUBSET B => h[s] = Added(m, h, s))
  BY DEF Adds
<1>2. 0 \in T
  <2>1. \A s \in SUBSET A : Cardinality(s) <= 0 => s = {}
    BY <1>0, FS_EmptySet
  <2>2. g[{}] = 0 /\ h[{}] = 0
    BY <1>1 DEF Added
  <2> QED
    BY <2>1, <2>2
<1>3. ASSUME NEW n \in T PROVE n + 1 \in T
  <2> SUFFICES ASSUME NEW s \in SUBSET A, s \in SUBSET B, Cardinality(s) <= n + 1
               PROVE  g[s] = h[s]
    OBVIOUS
  <2>1. CASE s = {}
    BY <1>1, <2>1 DEF Added
  <2>2. CASE s # {}
    <3>1. Some(s) \in s
      BY <2>2, SomeIn
    <3>2. Cardinality(s \ {Some(s)}) = Cardinality(s) - 1
      BY <1>0, <3>1, FS_RemoveElement
    <3>3. Cardinality(s \ {Some(s)}) <= n /\ s \ {Some(s)} \in SUBSET A /\ s \ {Some(s)} \in SUBSET B
      BY <1>0, <3>2
    <3>4. g[s \ {Some(s)}] = h[s \ {Some(s)}]
      BY <3>3
    <3> QED
      BY <1>1, <2>2, <3>4 DEF Added
  <2> QED
    BY <2>1, <2>2
<1>4. T = Nat
  <2> HIDE DEF T
  <2>1. T \in SUBSET Nat
    BY DEF T
  <2> QED
    BY <1>2, <1>3, <2>1, Induced
<1>5. Cardinality(U) \in T
  BY <1>0, <1>4
<1> QED
  BY <1>0, <1>5

(* The sum, one element at a time.                                           *)
LEMMA TotalStep ==
  ASSUME NEW m, NEW S, IsFiniteSet(S)
  PROVE  Total(m, S) = IF S = {} THEN 0 ELSE m[Some(S)] + Total(m, S \ {Some(S)})
<1> DEFINE g == CHOOSE g : Adds(m, g, SUBSET S)
           R == S \ {Some(S)}
           h == CHOOSE h : Adds(m, h, SUBSET R)
<1>1. Adds(m, g, SUBSET S)
  BY Adding
<1>2. IsFiniteSet(R)
  BY FS_Subset
<1>3. Adds(m, h, SUBSET R)
  BY <1>2, Adding
<1>4. Total(m, S) = g[S] /\ Total(m, R) = h[R]
  BY TotalDef
<1> HIDE DEF g, h
<1>5. g[S] = Added(m, g, S)
  BY <1>1 DEF Adds
<1>6. g[R] = h[R]
  <2>1. R \in SUBSET S /\ R \in SUBSET R
    OBVIOUS
  <2> HIDE DEF R
  <2> QED
    BY <1>1, <1>3, <2>1, AddedAlike
<1> QED
  BY <1>4, <1>5, <1>6 DEF Added

(* Any element can be the first that is taken.                               *)
LEMMA TotalWithout ==
  ASSUME NEW S, IsFiniteSet(S), NEW m, \A y \in S : m[y] \in Int, NEW x \in S
  PROVE  Total(m, S) \in Int /\ Total(m, S) = m[x] + Total(m, S \ {x})
<1> DEFINE Fine(U) == Total(m, U) \in Int /\ \A y \in U : Total(m, U) = m[y] + Total(m, U \ {y})
           T == {n \in Nat : \A U \in SUBSET S : Cardinality(U) <= n => Fine(U)}
<1>0. \A U \in SUBSET S : IsFiniteSet(U) /\ Cardinality(U) \in Nat /\ \A y \in U : Cardinality(U \ {y}) = Cardinality(U) - 1
  BY FS_Subset, FS_CardinalityType, FS_RemoveElement
<1>1. 0 \in T
  <2>1. \A U \in SUBSET S : Cardinality(U) <= 0 => U = {}
    BY <1>0, FS_EmptySet
  <2>2. Total(m, {}) = 0
    BY TotalStep, FS_EmptySet
  <2>3. Fine({})
    BY <2>2
  <2> HIDE DEF Fine
  <2> QED
    BY <2>1, <2>3
<1>2. ASSUME NEW n \in T PROVE n + 1 \in T
  <2> SUFFICES ASSUME NEW U \in SUBSET S, Cardinality(U) <= n + 1
               PROVE  Fine(U)
    OBVIOUS
  <2>1. CASE U = {}
    BY <2>1, TotalStep, FS_EmptySet
  <2>2. CASE U # {}
    <3> DEFINE c == Some(U)
    <3>1. c \in U
      BY <2>2, SomeIn
    <3> HIDE DEF c
    <3>2. \A V \in SUBSET S : Cardinality(V) <= n => Fine(V)
      OBVIOUS
    <3>3. \A y \in U : Cardinality(U \ {y}) <= n /\ U \ {y} \in SUBSET S /\ IsFiniteSet(U \ {y})
      BY <1>0
    <3>4. Total(m, U) = m[c] + Total(m, U \ {c})
      BY <1>0, <2>2, TotalStep DEF c
    <3>5. Fine(U \ {c})
      BY <3>1, <3>2, <3>3
    <3>6. Total(m, U) \in Int
      BY <3>1, <3>4, <3>5
    <3>7. ASSUME NEW y \in U, y # c
          PROVE  Total(m, U) = m[y] + Total(m, U \ {y})
      <4>1. Total(m, U \ {c}) = m[y] + Total(m, (U \ {c}) \ {y})
        BY <3>5, <3>7
      <4>2. Fine(U \ {y}) /\ c \in U \ {y}
        BY <3>1, <3>2, <3>3, <3>7
      <4>3. (U \ {y}) \ {c} = (U \ {c}) \ {y}
        OBVIOUS
      <4>4. Total(m, U \ {y}) = m[c] + Total(m, (U \ {c}) \ {y})
        BY <4>2, <4>3
      <4>5. m[c] \in Int /\ m[y] \in Int /\ Total(m, U \ {c}) \in Int /\ Total(m, U \ {y}) \in Int
        BY <3>1, <3>5, <4>2
      <4>6. Total(m, (U \ {c}) \ {y}) \in Int
        <5>1. U \ {c, y} \in SUBSET S /\ Cardinality(U \ {c}) \in Nat /\ (U \ {c}) \ {y} \in SUBSET S
          BY <1>0, <3>1
        <5>2. Cardinality((U \ {c}) \ {y}) <= n
          <6>1. Cardinality((U \ {c}) \ {y}) = Cardinality(U \ {c}) - 1
            BY <1>0, <3>7
          <6> QED
            BY <1>0, <3>1, <3>3, <5>1, <6>1
        <5> QED
          BY <3>2, <5>1, <5>2
      <4> QED
        BY <3>4, <4>1, <4>4, <4>5, <4>6
    <3> QED
      BY <3>4, <3>6, <3>7
  <2> QED
    BY <2>1, <2>2
<1>3. T = Nat
  <2> HIDE DEF T
  <2>1. T \in SUBSET Nat
    BY DEF T
  <2> QED
    BY <1>1, <1>2, <2>1, Induced
<1>4. Cardinality(S) \in T
  BY <1>0, <1>3
<1> QED
  BY <1>0, <1>4

(* Functions that agree on a set have one sum over it.                       *)
LEMMA TotalAlike ==
  ASSUME NEW S, IsFiniteSet(S), NEW m, NEW n, \A y \in S : m[y] = n[y]
  PROVE  Total(m, S) = Total(n, S)
<1> DEFINE T == {k \in Nat : \A U \in SUBSET S : Cardinality(U) <= k => Total(m, U) = Total(n, U)}
<1>0. \A U \in SUBSET S : IsFiniteSet(U) /\ Cardinality(U) \in Nat /\ \A y \in U : Cardinality(U \ {y}) = Cardinality(U) - 1
  BY FS_Subset, FS_CardinalityType, FS_RemoveElement
<1>1. Total(m, {}) = Total(n, {})
  BY TotalStep, FS_EmptySet
<1>2. 0 \in T
  <2>1. \A U \in SUBSET S : Cardinality(U) <= 0 => U = {}
    BY <1>0, FS_EmptySet
  <2> QED
    BY <1>1, <2>1
<1>3. ASSUME NEW k \in T PROVE k + 1 \in T
  <2> SUFFICES ASSUME NEW U \in SUBSET S, Cardinality(U) <= k + 1
               PROVE  Total(m, U) = Total(n, U)
    OBVIOUS
  <2>1. CASE U = {}
    BY <1>1, <2>1
  <2>2. CASE U # {}
    <3> DEFINE R == U \ {Some(U)}
    <3>1. Some(U) \in U
      BY <2>2, SomeIn
    <3>2. Cardinality(R) <= k /\ R \in SUBSET S
      BY <1>0, <3>1
    <3>3. Total(m, R) = Total(n, R)
      BY <3>2
    <3>4. Total(m, U) = m[Some(U)] + Total(m, R) /\ Total(n, U) = n[Some(U)] + Total(n, R)
      BY <1>0, <2>2, TotalStep
    <3>5. m[Some(U)] = n[Some(U)]
      BY <3>1
    <3> QED
      BY <3>3, <3>4, <3>5
  <2> QED
    BY <2>1, <2>2
<1>4. T = Nat
  <2> HIDE DEF T
  <2>1. T \in SUBSET Nat
    BY DEF T
  <2> QED
    BY <1>2, <1>3, <2>1, Induced
<1>5. Cardinality(S) \in T
  BY <1>0, <1>4
<1> QED
  BY <1>0, <1>5

(* The sum with one more.                                                    *)
LEMMA TotalWith ==
  ASSUME NEW S, IsFiniteSet(S), NEW x, x \notin S, NEW m, NEW n,
         \A y \in S : n[y] \in Int /\ m[y] = n[y], n[x] \in Int
  PROVE  Total(n, S \cup {x}) = Total(m, S) + n[x] /\ Total(m, S) \in Int
<1> DEFINE R == S \cup {x}
<1>1. IsFiniteSet(R) /\ x \in R /\ R \ {x} = S
  BY FS_AddElement
<1>2. \A y \in R : n[y] \in Int
  OBVIOUS
<1> HIDE DEF R
<1>3. Total(n, R) \in Int /\ Total(n, R) = n[x] + Total(n, S)
  BY <1>1, <1>2, TotalWithout
<1>4. Total(n, S) \in Int
  <2>1. CASE S = {}
    <3>1. Total(n, {}) = 0
      BY TotalStep, FS_EmptySet
    <3> QED
      BY <2>1, <3>1
  <2>2. CASE S # {}
    BY <2>2, TotalWithout
  <2> QED
    BY <2>1, <2>2
<1>5. Total(m, S) = Total(n, S)
  BY TotalAlike
<1> QED
  BY <1>3, <1>4, <1>5 DEF R

(* The imports count as everything else does.                                *)
LEMMA SameCardinality == \A S : Import!Cardinality(S) = Cardinality(S)
BY DEF Import!Cardinality, Cardinality, Import!IsFiniteSet, IsFiniteSet

(* What the rows of a file are stored under.                                 *)
KeysOf(f) == [k \in Import!Lines(f) |-> Import!Key(f, f.rows[k])]
Stored(f) == {KeysOf(f)[k] : k \in Import!Lines(f)}
Possible == Reports \cup {Import!NoFile}

(* The keys of an import depend on its file alone.                           *)
LEMMA KeysAre ==
  ASSUME NEW i \in Imports
  PROVE  Import!Keys(i) = KeysOf(report[i]) /\ Import!Range(Import!Keys(i)) = Stored(report[i])
BY DEF Import!Keys, KeysOf, Stored, Import!Range

(* The lines of a file are finitely many.                                    *)
LEMMA LinesFinite ==
  ASSUME NEW f \in Possible
  PROVE  /\ Import!Lines(f) \subseteq 1 .. Len(f.rows) /\ Len(f.rows) \in Nat
         /\ IsFiniteSet(Import!Lines(f)) /\ Cardinality(Import!Lines(f)) \in Nat
<1>1. f.rows \in Seq(ReportRow)
  <2>1. <<>> \in Seq(ReportRow)
    OBVIOUS
  <2>2. CASE f = Import!NoFile
    BY <2>1, <2>2 DEF Import!NoFile
  <2>3. CASE f \in Reports
    <3> DEFINE R == Seq(ReportRow)
    <3>1. Reports \subseteq [given : STRING, headers : SUBSET STRING, rows : R]
      BY ReportsAssumption
    <3> HIDE DEF R
    <3>2. f.rows \in R
      BY <2>3, <3>1
    <3> QED
      BY <3>2 DEF R
  <2> QED
    BY <2>2, <2>3 DEF Possible
<1>2. Len(f.rows) \in Nat /\ Import!Lines(f) \subseteq 1 .. Len(f.rows)
  BY <1>1 DEF Import!Lines
<1>3. IsFiniteSet(1 .. Len(f.rows))
  BY <1>2, FS_Interval
<1> QED
  BY <1>2, <1>3, FS_Subset, FS_CardinalityType

(* A file has at most as many keys as lines.                                 *)
LEMMA StoredFew ==
  ASSUME NEW f \in Possible
  PROVE  IsFiniteSet(Stored(f)) /\ Cardinality(Stored(f)) \in Nat /\ Cardinality(Stored(f)) <= Cardinality(Import!Lines(f))
<1> DEFINE g == KeysOf(f)
<1>1. g \in Surjection(Import!Lines(f), Stored(f))
  BY DEF Stored, KeysOf, Surjection
<1>2. IsFiniteSet(Import!Lines(f))
  BY LinesFinite
<1> HIDE DEF g
<1>3. IsFiniteSet(Stored(f)) /\ Cardinality(Stored(f)) <= Cardinality(Import!Lines(f))
  BY <1>1, <1>2, FS_Surjection
<1> QED
  BY <1>3, FS_CardinalityType

(* The row that is written last under a key.                                 *)
LEMMA LastRowIs ==
  ASSUME NEW i \in Imports, report[i] \in Possible, NEW key \in Stored(report[i])
  PROVE  Import!LastRow(i, key) \in Import!Lines(report[i]) /\ KeysOf(report[i])[Import!LastRow(i, key)] = key
<1> DEFINE L == Import!Lines(report[i])
           g == KeysOf(report[i])
           S == {k \in L : g[k] = key}
<1>1. S # {}
  BY DEF Stored
<1>2. S \in SUBSET (1 .. Len(report[i].rows)) /\ Len(report[i].rows) \in Nat
  BY LinesFinite
<1>3. Import!LastRow(i, key) = CHOOSE k \in L : g[k] = key /\ \A l \in L : g[l] = key => l <= k
  BY KeysAre DEF Import!LastRow
<1> HIDE DEF L, g
<1>4. \E k \in S : \A l \in S : l <= k
  <2> HIDE DEF S
  <2> QED
    BY <1>1, <1>2, Greatest
<1>5. \E k \in L : g[k] = key /\ \A l \in L : g[l] = key => l <= k
  BY <1>4
<1> QED
  BY <1>3, <1>5 DEF L, g

(* With the keys of one more file, the table has no more rows than that file *)
(* has lines it did not find.                                                *)
LEMMA GrowsBy ==
  ASSUME NEW f \in Possible, NEW D, IsFiniteSet(D), NEW c \in Nat, c <= Cardinality(Stored(f) \cap D)
  PROVE  /\ IsFiniteSet(Stored(f) \cup D)
         /\ Cardinality(Stored(f) \cup D) <= Cardinality(D) + (Cardinality(Import!Lines(f)) - c)
         /\ Cardinality(Stored(f) \cup D) \in Nat /\ Cardinality(D) \in Nat
<1> DEFINE K == Stored(f)
<1>1. IsFiniteSet(K) /\ Cardinality(K) \in Nat /\ Cardinality(K) <= Cardinality(Import!Lines(f))
  BY StoredFew
<1> HIDE DEF K
<1>2. /\ IsFiniteSet(K \cup D)
      /\ Cardinality(K \cup D) = Cardinality(K) + Cardinality(D) - Cardinality(K \cap D)
  BY <1>1, FS_Union
<1>3. IsFiniteSet(K \cap D)
  BY <1>1, FS_Subset
<1>4. Cardinality(K \cap D) \in Nat /\ Cardinality(D) \in Nat /\ Cardinality(K \cup D) \in Nat
  BY <1>2, <1>3, FS_CardinalityType
<1>5. c <= Cardinality(K \cap D)
  BY DEF K
<1>6. Cardinality(Import!Lines(f)) \in Nat
  BY LinesFinite
<1> QED
  BY <1>1, <1>2, <1>4, <1>5, <1>6 DEF K

(* More of the table is found when the table has more.                       *)
LEMMA FoundMore ==
  ASSUME NEW f \in Possible, NEW D, NEW E, D \subseteq E
  PROVE  Cardinality(Stored(f) \cap D) <= Cardinality(Stored(f) \cap E) /\ Cardinality(Stored(f) \cap D) \in Nat
                /\ Cardinality(Stored(f) \cap E) \in Nat
<1>1. IsFiniteSet(Stored(f) \cap E) /\ Stored(f) \cap D \subseteq Stored(f) \cap E
  BY StoredFew, FS_Subset
<1> QED
  BY <1>1, FS_Subset, FS_CardinalityType

(* The invariant of the imports.                                             *)
ImportTypes ==
    /\ report \in [Imports -> Possible]
    /\ importing \in [Imports -> {"waiting", "refused", "count", "upsert", "done", "unavailable"}]
    /\ overwritten \in [Imports -> Nat] /\ upserted \in [Imports -> Nat]
    /\ told \in [Imports -> Int] /\ committed \in Seq(Imports)
Accepted(i) == importing[i] \notin {"waiting", "refused"} => Import!Acceptable(report[i])
FoundStays(i) == importing[i] = "upsert" => overwritten[i] <= Cardinality(Stored(report[i]) \cap DOMAIN table)
DoneCommitted(i) == importing[i] = "done" <=> \E n \in DOMAIN committed : committed[n] = i
(* A row is that of the last committed file that has its key.                *)
RowOf(key, n, k) ==
    /\ k \in Import!Lines(report[committed[n]]) /\ KeysOf(report[committed[n]])[k] = key
    /\ table[key] = <<committed[n], k>>
    /\ \A l \in DOMAIN committed : key \in Stored(report[committed[l]]) => l <= n
TableTrue ==
    /\ IsFiniteSet(DOMAIN table)
    /\ DOMAIN table = UNION {Stored(report[committed[n]]) : n \in DOMAIN committed}
    /\ \A key \in DOMAIN table : \E n \in DOMAIN committed : \E k \in Import!Lines(report[committed[n]]) : RowOf(key, n, k)
AllTold == Total(told, Import!Range(committed)) \in Int /\ Total(told, Import!Range(committed)) >= Cardinality(DOMAIN table)
ImportInv ==
    /\ ImportTypes /\ TableTrue /\ AllTold
    /\ \A i \in Imports : Accepted(i) /\ FoundStays(i) /\ DoneCommitted(i)

(* A file is uploaded before anything is stored of its import.               *)
LEMMA UploadKept == ImportInv /\ (\E i \in Imports : Import!Upload(i)) => ImportInv'
<1> SUFFICES ASSUME ImportInv, NEW i \in Imports, Import!Upload(i)
             PROVE  ImportInv'
  OBVIOUS
<1>1. PICK f \in Reports :
        /\ report' = [report EXCEPT ![i] = f]
        /\ importing[i] = "waiting"
        /\ importing' = [importing EXCEPT ![i] = IF Import!Acceptable(f) THEN "count" ELSE "refused"]
  BY DEF Import!Upload, Import!Move
<1>2. UNCHANGED <<overwritten, upserted, table, committed, told>>
  BY DEF Import!Upload
<1>3. ImportTypes'
  BY <1>1, <1>2 DEF ImportInv, ImportTypes, Possible
<1>4. \A n \in DOMAIN committed : committed[n] \in Imports /\ committed[n] # i /\ report'[committed[n]] = report[committed[n]]
  <2>1. \A n \in DOMAIN committed : committed[n] \in Imports
    BY DEF ImportInv, ImportTypes
  <2>2. \A n \in DOMAIN committed : importing[committed[n]] = "done"
    BY <2>1 DEF ImportInv, DoneCommitted
  <2> QED
    BY <1>1, <2>1, <2>2 DEF ImportInv, ImportTypes
<1>5. TableTrue'
  <2>1. {Stored(report'[committed[n]]) : n \in DOMAIN committed} = {Stored(report[committed[n]]) : n \in DOMAIN committed}
    BY <1>4
  <2>2. ASSUME NEW key \in DOMAIN table
        PROVE  \E n \in DOMAIN committed : \E k \in Import!Lines(report'[committed[n]]) : RowOf(key, n, k)'
    <3>1. PICK n \in DOMAIN committed : \E k \in Import!Lines(report[committed[n]]) : RowOf(key, n, k)
      BY DEF ImportInv, TableTrue
    <3>2. PICK k \in Import!Lines(report[committed[n]]) : RowOf(key, n, k)
      BY <3>1
    <3>3. RowOf(key, n, k)'
      BY <1>2, <1>4, <3>2 DEF RowOf
    <3> QED
      BY <1>4, <3>3
  <2> QED
    BY <1>2, <2>1, <2>2 DEF ImportInv, TableTrue
<1>6. AllTold'
  BY <1>2 DEF ImportInv, AllTold
<1>7. ASSUME NEW j \in Imports
      PROVE  Accepted(j)' /\ FoundStays(j)' /\ DoneCommitted(j)'
  <2>1. CASE j = i
    <3>1. importing'[i] \in {"count", "refused"} /\ report'[i] = f /\ (importing'[i] = "count" => Import!Acceptable(f))
      BY <1>1 DEF ImportInv, ImportTypes
    <3> QED
      BY <1>1, <1>2, <2>1, <3>1 DEF ImportInv, Accepted, FoundStays, DoneCommitted
  <2>2. CASE j # i
    <3>1. importing'[j] = importing[j] /\ report'[j] = report[j]
      BY <1>1, <2>2 DEF ImportInv, ImportTypes
    <3> QED
      BY <1>2, <3>1 DEF ImportInv, Accepted, FoundStays, DoneCommitted
  <2> QED
    BY <2>1, <2>2
<1> QED
  BY <1>3, <1>5, <1>6, <1>7 DEF ImportInv

(* A step that neither uploads nor commits.                                  *)
LEMMA TableStays ==
  ASSUME TableTrue, AllTold, UNCHANGED <<report, table, committed, told>>
  PROVE  TableTrue' /\ AllTold'
<1>1. AllTold'
  BY DEF AllTold
<1>2. \A key, n, k : RowOf(key, n, k) => RowOf(key, n, k)'
  BY DEF RowOf
<1>3. TableTrue'
  BY <1>2 DEF TableTrue
<1> QED
  BY <1>1, <1>3

(* The count, the upsert and the abort of an import.                         *)
LEMMA StepKept ==
  ASSUME ImportInv, NEW i \in Imports, Import!Count(i) \/ Import!Upsert(i) \/ Import!Abort(i)
  PROVE  ImportInv'
<1>1. UNCHANGED <<report, table, committed, told>>
  BY DEF Import!Count, Import!Upsert, Import!Abort, Import!LeftBehind
<1>2. TableTrue' /\ AllTold'
  BY <1>1, TableStays DEF ImportInv
<1>3. CASE Import!Count(i)
  <2>1. importing[i] = "count" /\ importing' = [importing EXCEPT ![i] = "upsert"] /\ upserted' = upserted
    BY <1>3 DEF Import!Count, Import!Move
  <2>2. overwritten' = [overwritten EXCEPT ![i] = Cardinality(Stored(report[i]) \cap DOMAIN table)]
    BY <1>3, KeysAre, SameCardinality DEF Import!Count, Import!Found
  <2>3. Cardinality(Stored(report[i]) \cap DOMAIN table) \in Nat
    BY FoundMore DEF ImportInv, ImportTypes
  <2>4. ImportTypes'
    BY <1>1, <2>1, <2>2, <2>3 DEF ImportInv, ImportTypes
  <2>5. ASSUME NEW j \in Imports
        PROVE  Accepted(j)' /\ FoundStays(j)' /\ DoneCommitted(j)'
    <3>1. CASE j = i
      <4>1. importing'[i] = "upsert" /\ overwritten'[i] = Cardinality(Stored(report[i]) \cap DOMAIN table)
        BY <2>1, <2>2 DEF ImportInv, ImportTypes
      <4> QED
        BY <1>1, <2>1, <2>3, <3>1, <4>1 DEF ImportInv, Accepted, FoundStays, DoneCommitted
    <3>2. CASE j # i
      <4>1. importing'[j] = importing[j] /\ overwritten'[j] = overwritten[j]
        BY <2>1, <2>2, <3>2 DEF ImportInv, ImportTypes
      <4> QED
        BY <1>1, <4>1 DEF ImportInv, Accepted, FoundStays, DoneCommitted
    <3> QED
      BY <3>1, <3>2
  <2> QED
    BY <1>2, <2>4, <2>5 DEF ImportInv
<1>4. CASE Import!Upsert(i) \/ Import!Abort(i)
  <2>1. /\ importing[i] \in {"count", "upsert"} /\ overwritten' = overwritten
        /\ \E s \in {"upsert", "unavailable"} :
              importing' = [importing EXCEPT ![i] = s] /\ (s = "upsert" => importing[i] = "upsert")
    BY <1>4 DEF Import!Upsert, Import!Abort, Import!Move
  <2>2. upserted' \in [Imports -> Nat]
    <3>1. CASE Import!Upsert(i)
      <4>1. PICK k \in Import!Left(i) : upserted' = [upserted EXCEPT ![i] = k]
        BY <3>1 DEF Import!Upsert
      <4>2. k \in Nat
        BY LinesFinite DEF Import!Left, ImportInv, ImportTypes
      <4> QED
        BY <4>1, <4>2 DEF ImportInv, ImportTypes
    <3>2. CASE Import!Abort(i)
      BY <3>2 DEF Import!Abort, ImportInv, ImportTypes
    <3> QED
      BY <1>4, <3>1, <3>2
  <2>3. ImportTypes'
    BY <1>1, <2>1, <2>2 DEF ImportInv, ImportTypes
  <2>4. ASSUME NEW j \in Imports
        PROVE  Accepted(j)' /\ FoundStays(j)' /\ DoneCommitted(j)'
    <3>1. \/ importing'[j] = importing[j]
          \/ importing[j] \in {"count", "upsert"} /\ importing'[j] = "unavailable"
      BY <2>1 DEF ImportInv, ImportTypes
    <3> QED
      BY <1>1, <2>1, <3>1 DEF ImportInv, Accepted, FoundStays, DoneCommitted
  <2> QED
    BY <1>2, <2>3, <2>4 DEF ImportInv
<1> QED
  BY <1>3, <1>4

(* A commit makes the file the last one with its keys.  It tells of at least *)
(* as many new rows as the table gains: what was found before the upsert is  *)
(* in the table still, and a key is on one line of the file or more.         *)
LEMMA CommitKept == ImportInv /\ (\E i \in Imports : Import!Commit(i)) => ImportInv'
<1> SUFFICES ASSUME ImportInv, NEW i \in Imports, Import!Commit(i)
             PROVE  ImportInv'
  OBVIOUS
<1> DEFINE f == report[i]
           K == Stored(f)
           D == DOMAIN table
<1>0. f \in Possible /\ committed \in Seq(Imports)
  BY DEF ImportInv, ImportTypes
<1>. PICK N \in Nat : N = Len(committed) + 1
  BY <1>0
<1>1. /\ importing[i] = "upsert" /\ importing' = [importing EXCEPT ![i] = "done"]
      /\ Import!Left(i) = {} /\ table' = Import!Written(i) /\ committed' = Append(committed, i)
      /\ told' = [told EXCEPT ![i] = Import!Inserted(i)]
      /\ UNCHANGED <<report, overwritten, upserted>>
  BY DEF Import!Commit, Import!Move
<1>2. Import!Holds(i) = K
  BY <1>1, KeysAre DEF Import!Holds, Stored
<1>3. DOMAIN table' = K \cup D
  BY <1>1, <1>2 DEF Import!Written
<1>4. \A key \in K : table'[key] = <<i, Import!LastRow(i, key)>>
  BY <1>1, <1>2 DEF Import!Written
<1>5. \A key \in D \ K : table'[key] = table[key]
  BY <1>1, <1>2 DEF Import!Written
<1>6. Import!Inserted(i) = Cardinality(Import!Lines(f)) - overwritten[i]
  BY SameCardinality DEF Import!Inserted
<1>7. overwritten[i] \in Nat /\ overwritten[i] <= Cardinality(K \cap D) /\ IsFiniteSet(D)
  BY <1>1 DEF ImportInv, ImportTypes, FoundStays, TableTrue
<1>8. Cardinality(Import!Lines(f)) \in Nat
  BY <1>0, LinesFinite
<1>9. /\ IsFiniteSet(K \cup D) /\ Cardinality(K \cup D) \in Nat /\ Cardinality(D) \in Nat
      /\ Cardinality(K \cup D) <= Cardinality(D) + Import!Inserted(i)
  BY <1>0, <1>6, <1>7, GrowsBy
<1>10. Import!Inserted(i) \in Int
  BY <1>6, <1>7, <1>8
<1>11. /\ DOMAIN committed' = DOMAIN committed \cup {N} /\ committed'[N] = i
       /\ \A n \in DOMAIN committed : n \in Nat /\ n < N /\ committed[n] \in Imports /\ committed'[n] = committed[n]
       /\ committed' \in Seq(Imports)
  <2>1. committed' = Append(committed, i)
    BY <1>1
  <2> QED
    BY <1>0, <2>1
<1>12. ImportTypes'
  BY <1>1, <1>10, <1>11 DEF ImportInv, ImportTypes
<1> HIDE DEF f, K, D
<1>13. ASSUME NEW key \in K \cup D
       PROVE  \E n \in DOMAIN committed' : \E k \in Import!Lines(report'[committed'[n]]) : RowOf(key, n, k)'
  <2>1. CASE key \in K
    <3>1. Import!LastRow(i, key) \in Import!Lines(f) /\ KeysOf(f)[Import!LastRow(i, key)] = key
      BY <1>0, <2>1, LastRowIs DEF K, f
    <3>2. PICK k \in Import!Lines(f) : KeysOf(f)[k] = key /\ table'[key] = <<i, k>>
      BY <1>4, <2>1, <3>1
    <3>3. report'[committed'[N]] = f /\ committed'[N] = i /\ N \in DOMAIN committed'
      BY <1>1, <1>11 DEF f
    <3>4. \A l \in DOMAIN committed' : l <= N
      BY <1>0, <1>11
    <3>5. RowOf(key, N, k)'
      BY <3>2, <3>3, <3>4 DEF RowOf
    <3> QED
      BY <3>2, <3>3, <3>5
  <2>2. CASE key \in D \ K
    <3>1. PICK n \in DOMAIN committed : \E k \in Import!Lines(report[committed[n]]) : RowOf(key, n, k)
      BY <2>2 DEF ImportInv, TableTrue, D
    <3>2. PICK k \in Import!Lines(report[committed[n]]) : RowOf(key, n, k)
      BY <3>1
    <3>3. committed'[n] = committed[n] /\ report' = report /\ n \in DOMAIN committed'
      BY <1>1, <1>11
    <3>4. table'[key] = <<committed[n], k>> /\ KeysOf(report[committed[n]])[k] = key
      BY <1>5, <2>2, <3>2 DEF RowOf
    <3>5. ASSUME NEW l \in DOMAIN committed', key \in Stored(report'[committed'[l]])
          PROVE  l <= n
      <4>1. l # N
        BY <1>1, <1>11, <2>2, <3>5 DEF K, f
      <4>2. l \in DOMAIN committed /\ key \in Stored(report[committed[l]])
        BY <1>1, <1>11, <3>5, <4>1
      <4> QED
        BY <3>2, <4>2 DEF RowOf
    <3>6. RowOf(key, n, k)'
      BY <3>2, <3>3, <3>4, <3>5 DEF RowOf
    <3> QED
      BY <3>3, <3>6
  <2> QED
    BY <2>1, <2>2
<1>14. TableTrue'
  <2>1. K \cup D = UNION {Stored(report'[committed'[n]]) : n \in DOMAIN committed'}
    <3>1. D = UNION {Stored(report[committed[n]]) : n \in DOMAIN committed}
      BY DEF ImportInv, TableTrue, D
    <3>2. \A n \in DOMAIN committed : Stored(report'[committed'[n]]) = Stored(report[committed[n]])
      BY <1>1, <1>11
    <3>3. Stored(report'[committed'[N]]) = K
      BY <1>1, <1>11 DEF K, f
    <3> QED
      BY <1>11, <3>1, <3>2, <3>3
  <2> QED
    BY <1>3, <1>9, <1>13, <2>1 DEF TableTrue
<1>15. AllTold'
  <2> DEFINE S == Import!Range(committed)
  <2>1. i \notin S
    BY <1>1, <1>11 DEF ImportInv, DoneCommitted, Import!Range
  <2>2. Import!Range(committed') = S \cup {i}
    BY <1>11 DEF Import!Range
  <2>3. S \subseteq Imports
    BY <1>11 DEF Import!Range
  <2>4. IsFiniteSet(S)
    <3>1. committed \in Surjection(1 .. Len(committed), S)
      BY <1>0 DEF Import!Range, Surjection
    <3>2. IsFiniteSet(1 .. Len(committed))
      BY <1>0, FS_Interval
    <3> HIDE DEF S
    <3> QED
      BY <3>1, <3>2, FS_Surjection
  <2>5. told'[i] = Import!Inserted(i) /\ \A j \in S : told'[j] \in Int /\ told[j] = told'[j]
    BY <1>1, <2>1, <2>3 DEF ImportInv, ImportTypes
  <2> HIDE DEF S
  <2>6. Total(told', S \cup {i}) = Total(told, S) + told'[i] /\ Total(told, S) \in Int
    <3>1. \A j \in S : told'[j] \in Int /\ told[j] = told'[j]
      BY <2>5
    <3>2. told'[i] \in Int
      BY <1>10, <2>5
    <3> QED
      BY <2>1, <2>4, <3>1, <3>2, TotalWith
  <2>7. Total(told, S) >= Cardinality(D)
    BY DEF ImportInv, AllTold, S, D
  <2>8. Total(told', S \cup {i}) \in Int /\ Total(told', S \cup {i}) >= Cardinality(K \cup D)
    BY <1>9, <1>10, <2>5, <2>6, <2>7
  <2> QED
    BY <1>3, <2>2, <2>8 DEF AllTold
<1>16. ASSUME NEW j \in Imports
       PROVE  Accepted(j)' /\ FoundStays(j)' /\ DoneCommitted(j)'
  <2>1. report'[j] = report[j] /\ overwritten'[j] = overwritten[j]
    BY <1>1
  <2>2. CASE j = i
    <3>1. importing'[i] = "done"
      BY <1>1 DEF ImportInv, ImportTypes
    <3>2. Import!Acceptable(report[i])
      BY <1>1 DEF ImportInv, Accepted
    <3> QED
      BY <1>11, <2>1, <2>2, <3>1, <3>2 DEF Accepted, FoundStays, DoneCommitted
  <2>3. CASE j # i
    <3>1. importing'[j] = importing[j]
      BY <1>1, <2>3 DEF ImportInv, ImportTypes
    <3>2. DoneCommitted(j)'
      BY <1>11, <2>3, <3>1 DEF ImportInv, DoneCommitted
    <3>3. FoundStays(j)'
      <4>1. Cardinality(Stored(report[j]) \cap D) <= Cardinality(Stored(report[j]) \cap (K \cup D))
        /\ Cardinality(Stored(report[j]) \cap D) \in Nat /\ Cardinality(Stored(report[j]) \cap (K \cup D)) \in Nat
        BY FoundMore DEF ImportInv, ImportTypes
      <4>2. overwritten[j] \in Nat
        BY DEF ImportInv, ImportTypes
      <4>3. Stored(report'[j]) \cap DOMAIN table' = Stored(report[j]) \cap (K \cup D)
        BY <1>3, <2>1
      <4>4. importing[j] = "upsert" => overwritten[j] <= Cardinality(Stored(report[j]) \cap D)
        BY DEF ImportInv, FoundStays, D
      <4>5. importing'[j] = "upsert" => overwritten'[j] <= Cardinality(Stored(report'[j]) \cap DOMAIN table')
        <5>1. SUFFICES ASSUME importing'[j] = "upsert"
                       PROVE  overwritten'[j] <= Cardinality(Stored(report'[j]) \cap DOMAIN table')
          OBVIOUS
        <5>2. overwritten[j] <= Cardinality(Stored(report[j]) \cap (K \cup D))
          BY <3>1, <4>1, <4>2, <4>4, <5>1
        <5> QED
          BY <2>1, <4>3, <5>2
      <4> QED
        BY <4>5 DEF FoundStays
    <3> QED
      BY <2>1, <3>1, <3>2, <3>3 DEF ImportInv, Accepted
  <2> QED
    BY <2>2, <2>3
<1> QED
  BY <1>12, <1>14, <1>15, <1>16 DEF ImportInv

(* What tells two rows of a search term report apart.                        *)
LEMMA TermsApart ==
  ASSUME NEW f \in Reports, Import!Type(f) \in {"search_term", "search_term_share"},
         NEW k \in Import!Lines(f), NEW l \in Import!Lines(f), KeysOf(f)[k] = KeysOf(f)[l]
  PROVE  LET a == f.rows[k]  b == f.rows[l] IN <<a.term, a.match, a.target, a.group>> = <<b.term, b.match, b.target, b.group>>
<1> DEFINE a == f.rows[k]
           b == f.rows[l]
           F == {"campaign", "group", "target", "term", "match"}
<1>1. Import!KeyFields(Import!Type(f)) = F
  BY DEF Import!KeyFields
<1>2. a \in ReportRow /\ b \in ReportRow
  <2>1. f.rows \in Seq(ReportRow)
    <3> DEFINE R == Seq(ReportRow)
    <3>1. Reports \subseteq [given : STRING, headers : SUBSET STRING, rows : R]
      BY ReportsAssumption
    <3> HIDE DEF R
    <3>2. f.rows \in R
      BY <3>1
    <3> QED
      BY <3>2 DEF R
  <2> QED
    BY <2>1 DEF Import!Lines
<1>3. \A raw \in ReportRow : LET r == Import!Row(f, raw) IN
         r.term = raw.term /\ r.match = raw.match /\ r.target = raw.target /\ r.group = raw.group
  BY DEF Import!Row, Import!Target, ReportRow
<1>4. Import!Restrict(Import!Row(f, a), F) = Import!Restrict(Import!Row(f, b), F)
  BY <1>1 DEF KeysOf, Import!Key
<1>5. \A x \in F : Import!Row(f, a)[x] = Import!Row(f, b)[x]
  BY <1>4 DEF Import!Restrict
<1> HIDE DEF a, b
<1>6. a.term = b.term /\ a.match = b.match /\ a.target = b.target /\ a.group = b.group
  BY <1>2, <1>3, <1>5
<1> QED
  BY <1>6 DEF a, b

(* Each part of the property follows from the invariant.                     *)
LEMMA SerialHolds == ImportInv => Import!ImportsSerial
<1> SUFFICES ASSUME ImportInv
             PROVE  Import!ImportsSerial
  OBVIOUS
<1>1. \A n \in DOMAIN committed : committed[n] \in Imports /\ Import!Range(Import!Keys(committed[n])) = Stored(report[committed[n]])
  BY KeysAre DEF ImportInv, ImportTypes
<1>2. DOMAIN table = UNION {Import!Range(Import!Keys(committed[n])) : n \in DOMAIN committed}
  BY <1>1 DEF ImportInv, TableTrue
<1>3. ASSUME NEW key \in DOMAIN table
      PROVE  table[key][1] = committed[Import!LastWith(key)]
  <2>1. PICK n \in DOMAIN committed : \E k \in Import!Lines(report[committed[n]]) : RowOf(key, n, k)
    BY DEF ImportInv, TableTrue
  <2>2. /\ table[key][1] = committed[n] /\ key \in Stored(report[committed[n]])
        /\ \A l \in DOMAIN committed : key \in Stored(report[committed[l]]) => l <= n
    BY <2>1 DEF RowOf, Stored
  <2> DEFINE Last(m) == key \in Import!Range(Import!Keys(committed[m])) /\
                 \A l \in DOMAIN committed : key \in Import!Range(Import!Keys(committed[l])) => l <= m
  <2>3. Last(n)
    BY <1>1, <2>2
  <2>4. \A m \in DOMAIN committed : Last(m) => m = n
    <3>1. DOMAIN committed \subseteq Nat
      BY DEF ImportInv, ImportTypes
    <3> QED
      BY <2>3, <3>1
  <2>5. Import!LastWith(key) = CHOOSE m \in DOMAIN committed : Last(m)
    BY DEF Import!LastWith
  <2> HIDE DEF Last
  <2> QED
    BY <2>2, <2>3, <2>4, <2>5
<1> QED
  BY <1>2, <1>3 DEF Import!ImportsSerial

(* The invariant says what ImportsWhole says.                                *)
LEMMA WholeHolds == ImportInv => Import!ImportsWhole
<1> SUFFICES ASSUME ImportInv
             PROVE  Import!ImportsWhole
  OBVIOUS
<1>1. ASSUME NEW n \in DOMAIN committed
      PROVE  committed[n] \in Imports /\ importing[committed[n]] = "done" /\ report[committed[n]] \in Reports
             /\ Import!Acceptable(report[committed[n]])
  <2>1. committed[n] \in Imports /\ importing[committed[n]] = "done"
    BY DEF ImportInv, ImportTypes, DoneCommitted
  <2>2. Import!Acceptable(report[committed[n]])
    BY <2>1 DEF ImportInv, Accepted
  <2>3. ~Import!Acceptable(Import!NoFile)
    <3>1. Import!Lines(Import!NoFile) = {}
      BY DEF Import!Lines, Import!NoFile
    <3> QED
      BY <3>1 DEF Import!Acceptable
  <2> QED
    BY <2>1, <2>2, <2>3 DEF ImportInv, ImportTypes, Possible
<1>2. ASSUME NEW key \in DOMAIN table
      PROVE  LET i == table[key][1] IN
             /\ \A k \in DOMAIN report[i].rows : report[i].rows[k].kind \in {"ok", "blank"}
             /\ importing[i] = "done" /\ Import!Keys(i)[table[key][2]] = key
  <2>1. PICK n \in DOMAIN committed : \E k \in Import!Lines(report[committed[n]]) : RowOf(key, n, k)
    BY DEF ImportInv, TableTrue
  <2>2. PICK k \in Import!Lines(report[committed[n]]) : RowOf(key, n, k)
    BY <2>1
  <2> DEFINE i == committed[n]
  <2>3. table[key] = <<i, k>> /\ KeysOf(report[i])[k] = key
    BY <2>2 DEF RowOf
  <2>4. i \in Imports /\ importing[i] = "done" /\ Import!Acceptable(report[i])
    BY <1>1
  <2> HIDE DEF i
  <2>5. \A m \in DOMAIN report[i].rows : report[i].rows[m].kind \in {"ok", "blank"}
    BY <2>4 DEF Import!Acceptable, Import!Lines, Import!Wrong
  <2>6. Import!Keys(i)[k] = key
    BY <2>3, <2>4, KeysAre
  <2> QED
    BY <2>3, <2>4, <2>5, <2>6
<1>3. ASSUME NEW i \in Import!Range(committed), NEW k \in Import!Lines(report[i]), NEW l \in Import!Lines(report[i]),
             Import!Type(report[i]) \in {"search_term", "search_term_share"}, Import!Keys(i)[k] = Import!Keys(i)[l]
      PROVE  LET a == report[i].rows[k]  b == report[i].rows[l] IN
             <<a.term, a.match, a.target, a.group>> = <<b.term, b.match, b.target, b.group>>
  <2>1. i \in Imports /\ report[i] \in Reports
    BY <1>1 DEF Import!Range
  <2>2. KeysOf(report[i])[k] = KeysOf(report[i])[l]
    BY <1>3, <2>1, KeysAre
  <2> QED
    BY <1>3, <2>1, <2>2, TermsApart
<1> QED
  BY <1>2, <1>3 DEF Import!ImportsWhole

(* The invariant says what ImportsCounted says.                              *)
LEMMA CountedHolds == ImportInv => Import!ImportsCounted
<1>1. AllTold => Import!MapThenSumSet(LAMBDA i : told[i], Import!Range(committed)) >= Cardinality(DOMAIN table)
  BY DEF AllTold, Total
<1> QED
  BY <1>1, SameCardinality DEF ImportInv, Import!ImportsCounted

(* The imports by themselves.                                                *)
LEMMA ImportsHold == Import!Spec => []Import!ImportsSound
<1>1. Import!Init => ImportInv
  <2> SUFFICES ASSUME Import!Init
               PROVE  ImportInv
    OBVIOUS
  <2>1. DOMAIN table = {} /\ IsFiniteSet(DOMAIN table) /\ Cardinality(DOMAIN table) = 0
    BY FS_EmptySet DEF Import!Init
  <2>2. committed = <<>> /\ DOMAIN committed = {} /\ committed \in Seq(Imports) /\ Import!Range(committed) = {}
    BY DEF Import!Init, Import!Range
  <2>3. Total(told, {}) = 0
    BY TotalStep, FS_EmptySet
  <2>4. AllTold
    BY <2>1, <2>2, <2>3 DEF AllTold
  <2>5. TableTrue
    BY <2>1, <2>2 DEF TableTrue
  <2>6. ImportTypes
    BY <2>2 DEF Import!Init, ImportTypes, Possible
  <2>7. \A i \in Imports : Accepted(i) /\ FoundStays(i) /\ DoneCommitted(i)
    BY <2>2 DEF Import!Init, Accepted, FoundStays, DoneCommitted
  <2> QED
    BY <2>4, <2>5, <2>6, <2>7 DEF ImportInv
<1>2. ImportInv /\ [Import!Next]_(Import!vars) => ImportInv'
  <2>1. ASSUME ImportInv, UNCHANGED Import!vars
        PROVE  ImportInv'
    <3>1. UNCHANGED <<report, importing, overwritten, upserted, table, committed, told>>
      BY <2>1 DEF Import!vars
    <3>2. TableTrue' /\ AllTold'
      BY <2>1, <3>1, TableStays DEF ImportInv
    <3> QED
      BY <2>1, <3>1, <3>2 DEF ImportInv, ImportTypes, Accepted, FoundStays, DoneCommitted
  <2> QED
    BY <2>1, UploadKept, StepKept, CommitKept DEF Import!Next
<1>3. ImportInv => Import!ImportsSound
  BY SerialHolds, WholeHolds, CountedHolds DEF Import!ImportsSound
<1> QED
  BY <1>1, <1>2, <1>3, PTL DEF Import!Spec

(* What the other services do changes nothing in the imports.                *)
LEMMA ImportAlone == Services => Import!Spec
<1>1. InitServices => Import!Init
  BY DEF InitServices
<1>2. [NextServices]_servicesVars => [Import!Next]_(Import!vars)
  BY DEF NextServices, servicesVars, importVars, Import!vars
<1> QED
  BY <1>1, <1>2, PTL DEF Services, Import!Spec

(* However transactions overlap and whichever of them fail, the shared table *)
(* is what the committed imports leave when they run one after the other,    *)
(* every row of it is a correct one of an accepted file, and the callers are *)
(* told of at least as many new rows as the table has gained.                *)
THEOREM ImportsKept == Services => []ImportsSound
<1>1. Import!ImportsSound => ImportsSound
  BY DEF ImportsSound
<1> QED
  BY <1>1, ImportAlone, ImportsHold, PTL
=============================================================================
