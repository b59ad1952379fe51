----------------------------- MODULE ProviderCalls -----------------------------
(***************************************************************************)
(* Calls to the tools of the data providers: which are allowed, the slots  *)
(* that bound the sessions with a provider, and what a caller learns of a  *)
(* failure (listing/mcp.py, listing/mcp_transport.py).                     *)
(*                                                                         *)
(* Callers are threads of the process: runs, and the two threads of a      *)
(* keyword search.  They share a transport.  What comes back of a session  *)
(* is a free choice.                                                       *)
(***************************************************************************)
EXTENDS Naturals, FiniteSets

CONSTANTS
    Callers,
    Providers,
    Limit,          \* max_concurrency of each provider
    Tools,
    Allowed,        \* the tools of each provider that may be called
    MaxCalls        \* bound: calls of one caller

ASSUME ProviderAssumption == IsFiniteSet(Callers) /\ Limit \in [Providers -> Nat] /\ MaxCalls \in Nat

VARIABLES
    call,           \* the call each caller is in
    slots,          \* what is left of the semaphore of each provider
    outcome,        \* what each caller learnt last
    came,           \* history: what came back of its last session
    made            \* calls each caller has begun

vars == <<call, slots, outcome, came, made>>

NoCall == [at |-> "idle", provider |-> "none", tool |-> "none"]
Told(kind, code, retry) == [kind |-> kind, code |-> code, retry |-> retry]
Error(code, retry) == Told("error", code, retry)
NotTold == Told("none", "none", FALSE)
Reply(kind, code, type, text) == [kind |-> kind, code |-> code, type |-> type, text |-> text]
Nothing == Reply("none", "none", "none", {})

Init ==
    /\ call = [c \in Callers |-> NoCall]
    /\ slots = [p \in Providers |-> Limit[p]]
    /\ outcome = [c \in Callers |-> NotTold] /\ came = [c \in Callers |-> Nothing]
    /\ made = [c \in Callers |-> 0]

-----------------------------------------------------------------------------
(* What may come back: a result; a result that is an error, with or without  *)
(* a code of the proper form; an exception in the session, known by its type *)
(* and by the phrases found in its text and in those of what it wraps: the   *)
(* group of tasks a session runs in hides the type, not the text; or an      *)
(* exception before or around the session, known by its type only.           *)
Temporary == {"TimeoutError", "ConnectionError"}
Types == Temporary \cup {"ExceptionGroup", "Exception"}
Phrases == {"unknown tool", "catalogversion", "rate limit", "timeout"}
Results == {Reply("payload", "none", "none", {})}
ToolErrors == {Reply("tool_error", code, "none", {}) : code \in {"QUOTA_EXCEEDED", "none"}}
Exceptions == {Reply("exception", "none", type, text) : type \in Types, text \in SUBSET Phrases}
Failures == {Reply("failure", "none", type, {}) : type \in Types}

ToolErrorCode(reply) == IF reply.code = "none" THEN "MCP_TOOL_ERROR" ELSE reply.code

(* An exception in the session, the first phrase that is found decides.      *)
Classified(reply) ==
    IF "unknown tool" \in reply.text THEN Error("MCP_TOOL_UNAVAILABLE", FALSE)
    ELSE IF "catalogversion" \in reply.text THEN Error("MCP_CATALOG_VERSION_STALE", FALSE)
    ELSE IF "rate limit" \in reply.text THEN Error("MCP_RATE_LIMITED", TRUE)
    ELSE Error("MCP_TRANSPORT_FAILURE", "timeout" \in reply.text \/ reply.type \in Temporary)

(* An exception that the transport did not turn into a gateway error.        *)
Unclassified(reply) ==
    IF reply.type \in Temporary THEN Error("MCP_TEMPORARY_FAILURE", TRUE) ELSE Error("MCP_TOOL_CALL_FAILED", FALSE)

LearntByText(reply) ==      \* mutated form of Learnt: failures of every kind are classified by their text
    CASE reply.kind = "payload" -> Told("payload", "none", FALSE)
      [] reply.kind = "tool_error" -> Error(ToolErrorCode(reply), FALSE)
      [] reply.kind \in {"exception", "failure"} -> Classified([reply EXCEPT !.type = "ExceptionGroup"])

(* A gateway error inside the group is taken out of it before the exception  *)
(* is classified.                                                            *)
Learnt(reply) ==
    CASE reply.kind = "payload" -> Told("payload", "none", FALSE)
      [] reply.kind = "tool_error" -> Error(ToolErrorCode(reply), FALSE)
      [] reply.kind = "exception" -> Classified(reply)
      [] reply.kind = "failure" -> Unclassified(reply)

-----------------------------------------------------------------------------
(* A tool that is not allowed is refused before anything is sent.            *)
Ends(c, what) == call' = [call EXCEPT ![c] = NoCall] /\ outcome' = [outcome EXCEPT ![c] = what]

Begin(c) ==
    /\ call[c].at = "idle" /\ made[c] < MaxCalls
    /\ made' = [made EXCEPT ![c] = @ + 1]
    /\ came' = [came EXCEPT ![c] = Nothing]
    /\ \E p \in Providers : \E t \in Tools :
          IF t \in Allowed[p]
          THEN call' = [call EXCEPT ![c] = [at |-> "secret", provider |-> p, tool |-> t]] /\ UNCHANGED outcome
          ELSE Ends(c, Error("MCP_TOOL_NOT_ALLOWED", FALSE))
    /\ UNCHANGED slots

(* The secret is read before a slot is taken: it may be missing, or its file *)
(* may not be read.                                                          *)
ReadSecret(c) ==
    /\ call[c].at = "secret"
    /\ \/ call' = [call EXCEPT ![c].at = "waiting"] /\ UNCHANGED <<outcome, came>>
       \/ Ends(c, Error("MCP_SECRET_MISSING", FALSE)) /\ UNCHANGED came
       \/ \E reply \in Failures : Ends(c, Learnt(reply)) /\ came' = [came EXCEPT ![c] = reply]
    /\ UNCHANGED <<slots, made>>

Acquire(c) ==
    /\ call[c].at = "waiting" /\ slots[call[c].provider] > 0
    /\ slots' = [slots EXCEPT ![call[c].provider] = @ - 1]
    /\ call' = [call EXCEPT ![c].at = "session"]
    /\ UNCHANGED <<outcome, came, made>>

(* The slot is given back however the session ends.                          *)
ReleasedOnSuccess(c, reply) == IF reply.kind = "payload" THEN [slots EXCEPT ![call[c].provider] = @ + 1] ELSE slots     \* mutated form of Released
Released(c, reply) == [slots EXCEPT ![call[c].provider] = @ + 1]
EndSession(c) ==
    /\ call[c].at = "session"
    /\ \E reply \in Results \cup ToolErrors \cup Exceptions \cup Failures :
          /\ came' = [came EXCEPT ![c] = reply]
          /\ slots' = Released(c, reply)
          /\ Ends(c, Learnt(reply))
    /\ UNCHANGED made

Next == \E c \in Callers : Begin(c) \/ ReadSecret(c) \/ Acquire(c) \/ EndSession(c)

Spec == Init /\ [][Next]_vars

-----------------------------------------------------------------------------
Codes == {"none", "QUOTA_EXCEEDED", "MCP_TOOL_ERROR", "MCP_TOOL_UNAVAILABLE", "MCP_CATALOG_VERSION_STALE", "MCP_RATE_LIMITED",
          "MCP_TRANSPORT_FAILURE", "MCP_TOOL_NOT_ALLOWED", "MCP_SECRET_MISSING", "MCP_TEMPORARY_FAILURE", "MCP_TOOL_CALL_FAILED"}
Outcomes == [kind : {"none", "payload", "error"}, code : Codes, retry : BOOLEAN]
Replies == [kind : {"none", "payload", "tool_error", "exception", "failure"}, code : {"none", "QUOTA_EXCEEDED"},
            type : Types \cup {"none"}, text : SUBSET Phrases]

Stages == {"idle", "secret", "waiting", "session"}

TypeOK ==
    /\ call \in [Callers -> [at : Stages, provider : Providers \cup {"none"}, tool : Tools \cup {"none"}]]
    /\ \A c \in Callers : call[c].at # "idle" => call[c].provider \in Providers
    /\ slots \in [Providers -> Nat]
    /\ outcome \in [Callers -> Outcomes] /\ came \in [Callers -> Replies]
    /\ made \in [Callers -> Nat]

(* However calls fail, no slot is lost and none is given twice: the sessions *)
(* with a provider and its free slots are its limit.                         *)
Sessions(p) == {c \in Callers : call[c].at = "session" /\ call[c].provider = p}
SlotsKept == \A p \in Providers : slots[p] + Cardinality(Sessions(p)) = Limit[p]

(* A caller takes for data only what is no error, and learns the provider's  *)
(* own code of an error.  It is told to try again only when no answer came   *)
(* and nothing says that the tool or the catalog is gone; and then always    *)
(* when a limit or a timeout is named, or a timeout or a lost connection is  *)
(* raised bare.  In a group, as the sessions raise it, a lost connection     *)
(* whose text does not name a timeout is final.                              *)
MayRetry(reply) ==
    /\ reply.kind \in {"exception", "failure"}
    /\ reply.text \cap {"unknown tool", "catalogversion"} = {}
    /\ reply.text \cap {"rate limit", "timeout"} # {} \/ reply.type \in Temporary
Fits(told, reply) ==
    /\ told.kind = "payload" => reply.kind = "payload"
    /\ reply.kind = "tool_error" /\ reply.code # "none" => told.code = reply.code
    /\ told.retry <=> MayRetry(reply)
OutcomeOf(c) == call[c].at = "idle" => Fits(outcome[c], came[c])
OutcomeTrue == \A c \in Callers : OutcomeOf(c)

(* All of it.                                                                *)
CallsSound == TypeOK /\ SlotsKept /\ OutcomeTrue
=============================================================================
