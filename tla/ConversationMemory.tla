------------------------- MODULE ConversationMemory -------------------------
(***************************************************************************)
(* One conversation in PostgresConversationStore (memory.py), and the runs  *)
(* that use it: submit (api.py) reads the history and appends the question, *)
(* _execute appends the answer and compacts.  InMemoryConversationStore has *)
(* the same steps under one lock, with a lease that does not expire.        *)
(*                                                                         *)
(* A turn is a run, numbered in the order of the questions.  A summary loses *)
(* text: it is abstracted to the turns that it lists, to those its text      *)
(* still mentions, and to those that it was made from.                       *)
(***************************************************************************)
EXTENDS Naturals, FiniteSets

CONSTANTS
  LastTurn,      \* bound: questions asked in the conversation
  MaxTurns,      \* max_turns: complete turns that start a compaction (30)
  CompactTurns,  \* compact_turns: the oldest ones it takes (20)
  MaxClears,     \* bound: times the user clears the conversation
  None

ASSUME LimitsAssumption ==
  /\ MaxTurns \in Nat /\ CompactTurns \in Nat \ {0} /\ CompactTurns < MaxTurns
  /\ LastTurn \in Nat /\ MaxClears \in Nat

Turns == 1 .. LastTurn

\* A row of conversation_summaries.  covered is covered_turn_ids, says the turns that
\* content mentions; from is history: the turns handed to its summarizer, in full or
\* by way of the summary before it.
Summaries == [covered : SUBSET Turns, says : SUBSET Turns, from : SUBSET Turns]

ASSUME NoneAssumption == None \notin Turns /\ None \notin Summaries

VARIABLES
  messages,   \* rows of conversation_messages: [turn, role]
  archived,   \* those with compacted_at set
  summary,    \* the row of conversation_summaries with is_active, or None
  retired,    \* the turns that the rows without is_active list
  state,      \* the row of conversation_states: [lease, expired, target], or None
  run,        \* per turn, where its run is
  history,    \* what a run has read: the turns its summary was made from, and those in full
  job,        \* what a run that claimed the compaction summarizes: [target, previous]
  compacted,  \* history: how often a turn has been compacted
  forgotten,  \* history: the turns cleared so far
  clears

rowVars == <<messages, archived, summary, retired, state>>
runVars == <<run, history, job>>
vars == <<rowVars, runVars, compacted, forgotten, clears>>

Roles == {"user", "assistant"}
Message(t, role) == [turn |-> t, role |-> role]

\* The row of conversation_states without a lease.
NoState == [lease |-> None, expired |-> FALSE, target |-> {}]

Init ==
  /\ messages = {} /\ archived = {} /\ summary = None /\ retired = {} /\ state = None
  /\ run = [t \in Turns |-> "new"]
  /\ history = [t \in Turns |-> [summary |-> {}, shown |-> {}, before |-> {}]]
  /\ job = [t \in Turns |-> [target |-> {}, previous |-> None]]
  /\ compacted = [t \in Turns |-> 0]
  /\ forgotten = {}
  /\ clears = 0

\* The turns a summary was made from, and those it mentions: none without a summary.
From(s) == IF s = None THEN {} ELSE s.from
Says(s) == IF s = None THEN {} ELSE s.says

\* Turns with both messages in full.
Complete == {t \in Turns : \A role \in Roles : Message(t, role) \in messages \ archived}

-----------------------------------------------------------------------------
(***************************************************************************)
(* submit: history, two statements with a snapshot each, then append.       *)
(***************************************************************************)

ReadSummary(t) ==
  /\ run[t] = "new"
  /\ \A u \in 1 .. t - 1 : run[u] \notin {"new", "reading", "read"}
  /\ history' = [history EXCEPT ![t] = [summary |-> From(summary), shown |-> {},
                                         before |-> From(summary) \cup Complete]]
  /\ run' = [run EXCEPT ![t] = "reading"]
  /\ UNCHANGED <<rowVars, job, compacted, forgotten, clears>>

\* Mutated form of Shown: archived messages are read too.
ShownAll == {m.turn : m \in messages}

\* The messages history reads: those not compacted.
Shown == {m.turn : m \in messages \ archived}

ReadMessages(t) ==
  /\ run[t] = "reading"
  /\ history' = [history EXCEPT ![t].shown = Shown]
  /\ run' = [run EXCEPT ![t] = "read"]
  /\ UNCHANGED <<rowVars, job, compacted, forgotten, clears>>

Ask(t) ==
  /\ run[t] = "read"
  /\ messages' = messages \cup {Message(t, "user")}
  /\ run' = [run EXCEPT ![t] = "asked"]
  /\ UNCHANGED <<archived, summary, retired, state, history, job, compacted, forgotten, clears>>

-----------------------------------------------------------------------------
(***************************************************************************)
(* _execute: append the answer, then compact.                               *)
(***************************************************************************)

Answer(t) ==
  /\ run[t] = "asked"
  /\ messages' = messages \cup {Message(t, "assistant")}
  /\ run' = [run EXCEPT ![t] = "answered"]
  /\ UNCHANGED <<archived, summary, retired, state, history, job, compacted, forgotten, clears>>

\* The run fails without an answer, or its process dies; a lease it holds stays.
Dies(t) ==
  /\ run[t] \in {"asked", "answered", "summarizing"}
  /\ run' = [run EXCEPT ![t] = "gone"]
  /\ UNCHANGED <<rowVars, history, job, compacted, forgotten, clears>>

\* The turns a compaction takes.
Oldest == {t \in Complete : Cardinality({u \in Complete : u < t}) < CompactTurns}

\* No one holds the conversation's lease, or the holder's has run out.
LeaseFree == state = None \/ state.lease = None \/ state.expired

\* _claim_compaction: under the lock of the state row, which it creates.
Claim(t) ==
  /\ run[t] = "answered"
  /\ IF LeaseFree /\ Cardinality(Complete) >= MaxTurns
     THEN /\ state' = [lease |-> t, expired |-> FALSE, target |-> Oldest]
          /\ job' = [job EXCEPT ![t] = [target |-> Oldest, previous |-> summary]]
          /\ run' = [run EXCEPT ![t] = "summarizing"]
     ELSE /\ state' = IF state = None THEN NoState ELSE state
          /\ run' = [run EXCEPT ![t] = "gone"]
          /\ UNCHANGED job
  /\ UNCHANGED <<messages, archived, summary, retired, history, compacted, forgotten, clears>>

\* Mutated form of MayFinalize: the lease is not looked at again.
MayFinalizeAlways(t) == state /= None

\* Mutated form of MayFinalize: neither is the row.
MayFinalizeCleared(t) == TRUE

\* The lease is still this run's, and for the same turns.
MayFinalize(t) == state /= None /\ state.lease = t /\ state.target = job[t].target

\* What the text may still mention.  The model's draft keeps what it likes of the
\* summary before and of the turns.  The fallback keeps less than all of both, too: the
\* first 3000 characters of the one, the last five questions and three answers of the
\* others.
Texts(t) == SUBSET (Says(job[t].previous) \cup job[t].target)

\* Mutated form of NewSummary: the summarizer is not given the summary before.
NewSummaryAlone(t, says) == [covered |-> job[t].target, says |-> says, from |-> job[t].target]

\* The summarizer, or its fallback, is handed the summary read with the claim and the
\* turns claimed; the row lists only these.
NewSummary(t, says) ==
  [covered |-> job[t].target, says |-> says, from |-> From(job[t].previous) \cup job[t].target]

\* The row in force so far loses is_active, and stays.
Retired == IF summary = None THEN retired ELSE retired \cup summary.covered

\* The summary is written: in one transaction, under the lock of the state row.
Finalize(t) ==
  /\ run[t] = "summarizing"
  /\ run' = [run EXCEPT ![t] = "gone"]
  /\ IF MayFinalize(t)
     THEN /\ archived' = archived \cup {m \in messages : m.turn \in job[t].target}
          /\ \E says \in Texts(t) : summary' = NewSummary(t, says)
         /\ retired' = Retired
          /\ state' = NoState
          /\ compacted' = [u \in Turns |-> IF u \in job[t].target THEN compacted[u] + 1 ELSE compacted[u]]
     ELSE UNCHANGED <<archived, summary, retired, state, compacted>>
  /\ UNCHANGED <<messages, history, job, forgotten, clears>>

-----------------------------------------------------------------------------

\* lease_expires_at passes, after 300 s: the summarizer may still be at work.
Expire ==
  /\ state /= None /\ state.lease /= None /\ ~state.expired
  /\ state' = [state EXCEPT !.expired = TRUE]
  /\ UNCHANGED <<messages, archived, summary, retired, runVars, compacted, forgotten, clears>>

\* clear: the rows of the conversation are deleted in one transaction, the
\* state row, which a claim or a finalization has locked, first.
Clear ==
  /\ clears < MaxClears
  /\ messages /= {}
  /\ messages' = {} /\ archived' = {} /\ summary' = None /\ retired' = {} /\ state' = None
  /\ forgotten' = forgotten \cup {m.turn : m \in messages}
  /\ clears' = clears + 1
  /\ UNCHANGED <<runVars, compacted>>

Next ==
  \/ \E t \in Turns :
       \/ ReadSummary(t) \/ ReadMessages(t) \/ Ask(t) \/ Answer(t)
       \/ Claim(t) \/ Finalize(t) \/ Dies(t)
  \/ Expire
  \/ Clear

Spec == Init /\ [][Next]_vars

-----------------------------------------------------------------------------
(***************************************************************************)
(* Properties.                                                              *)
(***************************************************************************)

TypeOK ==
  /\ messages \subseteq [turn : Turns, role : Roles]
  /\ archived \subseteq messages
  /\ summary \in Summaries \cup {None}
  /\ retired \subseteq Turns
  /\ state \in [lease : Turns \cup {None}, expired : BOOLEAN, target : SUBSET Turns] \cup {None}
  /\ run \in [Turns -> {"new", "reading", "read", "asked", "answered", "summarizing", "gone"}]
  /\ history \in [Turns -> [summary : SUBSET Turns, shown : SUBSET Turns, before : SUBSET Turns]]
  /\ job \in [Turns -> [target : SUBSET Turns, previous : Summaries \cup {None}]]
  /\ compacted \in [Turns -> Nat]
  /\ forgotten \subseteq Turns
  /\ clears \in Nat

\* Whoever compacted and however often a lease changed hands, every archived turn has
\* been handed down to the summary in force, which mentions no other; and it is listed
\* once in the rows of conversation_summaries, by which memory.py:411 has the original
\* messages traced.  The row in force alone lists only the turns compacted last.
ArchiveTraced ==
  LET turns == {m.turn : m \in archived}
  IN  IF summary = None
      THEN turns = {} /\ retired = {}
      ELSE /\ summary.from = turns /\ summary.says \subseteq turns
           /\ summary.covered \cup retired = turns /\ summary.covered \cap retired = {}

\* Only turns with a question and an answer are archived, both of them.
ArchivedWhole == \A m \in archived : \A role \in Roles : Message(m.turn, role) \in archived

\* No turn is compacted twice: the lease "prevents several processes from
\* compacting the same turns" (docs/controller-agent-responsibilities.md:19), also
\* when it has run out and the first holder comes back.
CompactedOnce == \A t \in Turns : compacted[t] <= 1

\* What the user cleared stays cleared: a compaction under way does not bring the
\* turns back as a summary.
ClearedForGood == (From(summary) \cup Says(summary) \cup retired) \cap forgotten = {}

\* A run is never given a turn twice, in full and in a summary made from it.
ReadOnce == \A t \in Turns : run[t] /= "reading" => history[t].summary \cap history[t].shown = {}

\* docs/controller-agent-responsibilities.md:17: before a request is understood the
\* summary and the turns not compacted are read.  A turn that was complete when
\* history began, and is not cleared, is in what it returns, or went into its summary.
ReadWhole ==
  \A t \in Turns :
    run[t] \notin {"new", "reading"} =>
      history[t].before \subseteq history[t].summary \cup history[t].shown \cup forgotten
=============================================================================
