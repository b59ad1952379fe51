----------------------- MODULE ConversationMemoryProofs -----------------------
(***************************************************************************)
(* Proofs about ConversationMemory: whoever compacts, whenever leases run   *)
(* out and the user clears, the summary is true to the archive.             *)
(***************************************************************************)
EXTENDS ConversationMemory, TLAPS

\* The turns that have been compacted, cleared since or not.
Done == {t \in Turns : compacted[t] > 0}

\* A message is appended by its run, at the place of the run that appends it.
OwnMessages ==
  \A m \in messages :
    run[m.turn] \notin (IF m.role = "user" THEN {"new", "reading", "read"}
                                           ELSE {"new", "reading", "read", "asked"})

\* A compacted turn has both messages behind it, and none to be compacted again.
Settled ==
  \A t \in Done : run[t] \notin {"new", "reading", "read", "asked"}
               /\ \A m \in messages \ archived : m.turn /= t

\* A summary is made from compacted turns only, also one that a run has read.
SummariesSettled == From(summary) \subseteq Done /\ \A t \in Turns : history[t].summary \subseteq Done

\* The question of a cleared turn is not asked again.
ForgottenAsked ==
  \A t \in forgotten : run[t] \notin {"new", "reading", "read"} /\ Message(t, "user") \notin messages

\* While a lease stands, run out or not, its holder's job is up to date: nothing
\* has been archived and nothing cleared since the claim.
LeaseCurrent ==
  state /= None => (state.lease /= None =>
    /\ state.target = job[state.lease].target
    /\ job[state.lease].previous = summary
    /\ state.target \subseteq Complete)

\* The inductive invariant.
Inv ==
  /\ TypeOK
  /\ OwnMessages /\ Settled /\ SummariesSettled /\ ForgottenAsked /\ LeaseCurrent
  /\ ArchiveTraced /\ ArchivedWhole /\ CompactedOnce /\ ClearedForGood /\ ReadOnce

LEMMA InitInv == Init => Inv
<1> SUFFICES ASSUME Init PROVE Inv
  OBVIOUS
<1>1. TypeOK
  <2>1. /\ history \in [Turns -> [summary : SUBSET Turns, shown : SUBSET Turns, before : SUBSET Turns]]
        /\ job \in [Turns -> [target : SUBSET Turns, previous : Summaries \cup {None}]]
    BY DEF Init
  <2>2. run \in [Turns -> {"new", "reading", "read", "asked", "answered", "summarizing", "gone"}]
    BY DEF Init
  <2> QED
    BY <2>1, <2>2 DEF Init, TypeOK
<1>2. OwnMessages /\ Settled /\ SummariesSettled /\ ForgottenAsked /\ LeaseCurrent
  BY DEF Init, OwnMessages, Settled, SummariesSettled, ForgottenAsked, LeaseCurrent, Done, From
<1>3. ArchiveTraced /\ ArchivedWhole /\ CompactedOnce /\ ClearedForGood /\ ReadOnce
  BY DEF Init, ArchiveTraced, ArchivedWhole, CompactedOnce, ClearedForGood, ReadOnce, From, Says
<1> QED
  BY <1>1, <1>2, <1>3 DEF Inv

-----------------------------------------------------------------------------
(***************************************************************************)
(* The steps of submit.                                                     *)
(***************************************************************************)

LEMMA ReadSummaryKeeps ==
  ASSUME Inv, NEW t \in Turns, ReadSummary(t)
  PROVE  Inv'
<1> USE DEF Inv
<1>1. /\ UNCHANGED <<messages, archived, summary, retired, state, job, compacted, forgotten, clears>>
      /\ run[t] = "new" /\ run' = [run EXCEPT ![t] = "reading"]
  BY DEF ReadSummary, rowVars
<1>2. Complete \subseteq Turns /\ From(summary) \subseteq Turns
  BY DEF Complete, SummariesSettled, Done
<1>3. history' = [history EXCEPT ![t] = [summary |-> From(summary), shown |-> {},
                                         before |-> From(summary) \cup Complete]]
  BY DEF ReadSummary
<1>4. TypeOK'
  <2>1. history' \in [Turns -> [summary : SUBSET Turns, shown : SUBSET Turns, before : SUBSET Turns]]
    BY <1>2, <1>3 DEF TypeOK
  <2> QED
    BY <1>1, <2>1 DEF TypeOK
<1>5. OwnMessages' /\ Settled' /\ ForgottenAsked' /\ LeaseCurrent'
  BY <1>1 DEF OwnMessages, Settled, ForgottenAsked, LeaseCurrent, Done, Complete, From, TypeOK
<1>6. SummariesSettled'
  BY <1>1, <1>3 DEF SummariesSettled, Done, From, TypeOK
<1>7. ReadOnce'
  BY <1>1, <1>3 DEF ReadOnce, TypeOK
<1>8. ArchiveTraced' /\ ArchivedWhole' /\ CompactedOnce' /\ ClearedForGood'
  BY <1>1 DEF ArchiveTraced, ArchivedWhole, CompactedOnce, ClearedForGood, From, Says
<1> QED
  BY <1>4, <1>5, <1>6, <1>7, <1>8

\* The turns of the summary a run has read are settled: none of them is shown.
LEMMA ReadMessagesKeeps ==
  ASSUME Inv, NEW t \in Turns, ReadMessages(t)
  PROVE  Inv'
<1> USE DEF Inv
<1>1. /\ UNCHANGED <<messages, archived, summary, retired, state, job, compacted, forgotten, clears>>
      /\ run[t] = "reading" /\ run' = [run EXCEPT ![t] = "read"]
  BY DEF ReadMessages, rowVars
<1>2. Shown \subseteq Turns
  BY DEF Shown, TypeOK
<1>3. history' = [history EXCEPT ![t] = [summary |-> history[t].summary, shown |-> Shown,
                                         before |-> history[t].before]]
  <2>1. history[t] \in [summary : SUBSET Turns, shown : SUBSET Turns, before : SUBSET Turns]
    BY DEF TypeOK
  <2>2. [history[t] EXCEPT !.shown = Shown]
          = [summary |-> history[t].summary, shown |-> Shown, before |-> history[t].before]
    BY <2>1
  <2>3. history' = [history EXCEPT ![t] = [history[t] EXCEPT !.shown = Shown]]
    BY DEF ReadMessages, TypeOK
  <2> QED
    BY <2>2, <2>3
<1>4. TypeOK'
  <2>1. history' \in [Turns -> [summary : SUBSET Turns, shown : SUBSET Turns, before : SUBSET Turns]]
    BY <1>2, <1>3 DEF TypeOK
  <2> QED
    BY <1>1, <2>1 DEF TypeOK
<1>5. OwnMessages' /\ Settled' /\ ForgottenAsked' /\ LeaseCurrent'
  BY <1>1 DEF OwnMessages, Settled, ForgottenAsked, LeaseCurrent, Done, Complete, From, TypeOK
<1>6. SummariesSettled'
  BY <1>1, <1>3 DEF SummariesSettled, Done, From, TypeOK
<1>7. history[t].summary \cap Shown = {}
  BY DEF Shown, Settled, SummariesSettled
<1>8. ReadOnce'
  BY <1>1, <1>3, <1>7 DEF ReadOnce, TypeOK
<1>9. ArchiveTraced' /\ ArchivedWhole' /\ CompactedOnce' /\ ClearedForGood'
  BY <1>1 DEF ArchiveTraced, ArchivedWhole, CompactedOnce, ClearedForGood, From, Says
<1> QED
  BY <1>4, <1>5, <1>6, <1>8, <1>9

\* The question of a turn comes once, before it is compacted or forgotten.
LEMMA AskKeeps ==
  ASSUME Inv, NEW t \in Turns, Ask(t)
  PROVE  Inv'
<1> USE DEF Inv
<1>1. /\ UNCHANGED <<archived, summary, retired, state, history, job, compacted, forgotten, clears>>
      /\ messages' = messages \cup {Message(t, "user")}
      /\ run[t] = "read" /\ run' = [run EXCEPT ![t] = "asked"]
  BY DEF Ask
<1>2. Message(t, "user").turn = t /\ Message(t, "user").role = "user"
      /\ Message(t, "user") \in [turn : Turns, role : Roles]
  BY DEF Message, Roles
<1>3. TypeOK'
  BY <1>1, <1>2 DEF TypeOK
<1>4. OwnMessages'
  BY <1>1, <1>2 DEF OwnMessages, TypeOK
<1>5. t \notin Done /\ t \notin forgotten
  BY <1>1 DEF Settled, ForgottenAsked
<1>6. Settled'
  BY <1>1, <1>2, <1>5 DEF Settled, Done, TypeOK
<1>7. ForgottenAsked'
  BY <1>1, <1>5 DEF ForgottenAsked, Message, TypeOK
<1>8. LeaseCurrent'
  BY <1>1 DEF LeaseCurrent, Complete, From
<1>9. SummariesSettled' /\ ReadOnce'
  BY <1>1 DEF SummariesSettled, Done, From, ReadOnce, TypeOK
<1>10. ArchiveTraced' /\ ArchivedWhole' /\ CompactedOnce' /\ ClearedForGood'
  BY <1>1 DEF ArchiveTraced, ArchivedWhole, CompactedOnce, ClearedForGood, From, Says
<1> QED
  BY <1>3, <1>4, <1>6, <1>7, <1>8, <1>9, <1>10

-----------------------------------------------------------------------------
(***************************************************************************)
(* The steps of _execute.                                                   *)
(***************************************************************************)

LEMMA AnswerKeeps ==
  ASSUME Inv, NEW t \in Turns, Answer(t)
  PROVE  Inv'
<1> USE DEF Inv
<1>1. /\ UNCHANGED <<archived, summary, retired, state, history, job, compacted, forgotten, clears>>
      /\ messages' = messages \cup {Message(t, "assistant")}
      /\ run[t] = "asked" /\ run' = [run EXCEPT ![t] = "answered"]
  BY DEF Answer
<1>2. Message(t, "assistant").turn = t /\ Message(t, "assistant").role = "assistant"
      /\ Message(t, "assistant") \in [turn : Turns, role : Roles]
  BY DEF Message, Roles
<1>3. TypeOK'
  BY <1>1, <1>2 DEF TypeOK
<1>4. OwnMessages'
  BY <1>1, <1>2 DEF OwnMessages, TypeOK
<1>5. t \notin Done
  BY <1>1 DEF Settled
<1>6. Settled'
  BY <1>1, <1>2, <1>5 DEF Settled, Done, TypeOK
<1>7. ForgottenAsked'
  BY <1>1 DEF ForgottenAsked, Message, TypeOK
<1>8. LeaseCurrent'
  BY <1>1 DEF LeaseCurrent, Complete, From
<1>9. SummariesSettled' /\ ReadOnce'
  BY <1>1 DEF SummariesSettled, Done, From, ReadOnce, TypeOK
<1>10. ArchiveTraced' /\ ArchivedWhole' /\ CompactedOnce' /\ ClearedForGood'
  BY <1>1 DEF ArchiveTraced, ArchivedWhole, CompactedOnce, ClearedForGood, From, Says
<1> QED
  BY <1>3, <1>4, <1>6, <1>7, <1>8, <1>9, <1>10

LEMMA DiesKeeps ==
  ASSUME Inv, NEW t \in Turns, Dies(t)
  PROVE  Inv'
<1> USE DEF Inv
<1>1. /\ UNCHANGED <<messages, archived, summary, retired, state, history, job, compacted, forgotten, clears>>
      /\ run[t] \in {"asked", "answered", "summarizing"} /\ run' = [run EXCEPT ![t] = "gone"]
  BY DEF Dies, rowVars
<1>2. TypeOK'
  BY <1>1 DEF TypeOK
<1>3. OwnMessages' /\ Settled' /\ ForgottenAsked'
  BY <1>1 DEF OwnMessages, Settled, ForgottenAsked, Done, TypeOK
<1>4. LeaseCurrent' /\ SummariesSettled' /\ ReadOnce'
  BY <1>1 DEF LeaseCurrent, SummariesSettled, Done, Complete, From, ReadOnce, TypeOK
<1>5. ArchiveTraced' /\ ArchivedWhole' /\ CompactedOnce' /\ ClearedForGood'
  BY <1>1 DEF ArchiveTraced, ArchivedWhole, CompactedOnce, ClearedForGood, From, Says
<1> QED
  BY <1>2, <1>3, <1>4, <1>5

\* A claim copies what is there: its job is up to date when the lease begins.
LEMMA ClaimKeeps ==
  ASSUME Inv, NEW t \in Turns, Claim(t)
  PROVE  Inv'
<1> USE DEF Inv
<1>1. /\ UNCHANGED <<messages, archived, summary, retired, history, compacted, forgotten, clears>>
      /\ run[t] = "answered" /\ (run' = [run EXCEPT ![t] = "summarizing"] \/ run' = [run EXCEPT ![t] = "gone"])
  BY DEF Claim
<1>2. Oldest \subseteq Complete /\ Complete \subseteq Turns /\ From(summary) \subseteq Turns
  BY DEF Oldest, Complete, SummariesSettled, Done
<1>3. TypeOK' /\ LeaseCurrent'
  <2>1. CASE UNCHANGED job /\ state' = IF state = None THEN NoState ELSE state
    <3>1. NoState \in [lease : Turns \cup {None}, expired : BOOLEAN, target : SUBSET Turns]
      BY DEF NoState
    <3>2. TypeOK'
      BY <1>1, <2>1, <3>1 DEF TypeOK
    <3>3. LeaseCurrent'
      BY <1>1, <2>1 DEF LeaseCurrent, NoState, Complete, From
    <3> QED
      BY <3>2, <3>3
  <2>2. CASE /\ state' = [lease |-> t, expired |-> FALSE, target |-> Oldest]
             /\ job' = [job EXCEPT ![t] = [target |-> Oldest, previous |-> summary]]
    <3>1. job' \in [Turns -> [target : SUBSET Turns, previous : Summaries \cup {None}]]
      BY <1>2, <2>2 DEF TypeOK
    <3>2. state' \in [lease : Turns \cup {None}, expired : BOOLEAN, target : SUBSET Turns]
      BY <1>2, <2>2
    <3>3. TypeOK'
      BY <1>1, <3>1, <3>2 DEF TypeOK
    <3>4. job'[t] = [target |-> Oldest, previous |-> summary]
      BY <2>2 DEF TypeOK
    <3>5. LeaseCurrent'
      BY <1>1, <1>2, <2>2, <3>4 DEF LeaseCurrent, Complete, From
    <3> QED
      BY <3>3, <3>5
  <2> QED
    BY <2>1, <2>2 DEF Claim
<1>4. OwnMessages' /\ Settled' /\ ForgottenAsked'
  BY <1>1 DEF OwnMessages, Settled, ForgottenAsked, Done, TypeOK
<1>5. SummariesSettled' /\ ReadOnce'
  BY <1>1 DEF SummariesSettled, Done, From, ReadOnce, TypeOK
<1>6. ArchiveTraced' /\ ArchivedWhole' /\ CompactedOnce' /\ ClearedForGood'
  BY <1>1 DEF ArchiveTraced, ArchivedWhole, CompactedOnce, ClearedForGood, From, Says
<1> QED
  BY <1>3, <1>4, <1>5, <1>6

\* What a successful compaction archives: complete turns, none of them compacted or
\* forgotten before, on top of the summary in force.
LEMMA JobCurrent ==
  ASSUME Inv, NEW t \in Turns, MayFinalize(t)
  PROVE  /\ job[t].target \subseteq Complete
         /\ job[t].previous = summary
         /\ \A u \in job[t].target : /\ u \in Turns /\ u \notin forgotten /\ compacted[u] = 0
                                    /\ run[u] \notin {"new", "reading", "read", "asked"}
                                    /\ \A role \in Roles : Message(u, role) \in messages
<1> USE DEF Inv
<1>1. state /= None /\ state.lease = t /\ state.lease /= None /\ state.target = job[t].target
  BY NoneAssumption DEF MayFinalize
<1>2. job[t].target \subseteq Complete /\ job[t].previous = summary
  BY <1>1 DEF LeaseCurrent
<1>3. ASSUME NEW u \in Complete
      PROVE  /\ u \in Turns /\ u \notin forgotten /\ compacted[u] = 0
             /\ run[u] \notin {"new", "reading", "read", "asked"}
             /\ \A role \in Roles : Message(u, role) \in messages
  <2>1. /\ u \in Turns
        /\ Message(u, "user") \in messages \ archived /\ Message(u, "assistant") \in messages \ archived
    BY DEF Complete, Roles
  <2>2. u \notin Done
    BY <2>1 DEF Settled, Message
  <2>3. compacted[u] = 0
    BY <2>1, <2>2 DEF Done, TypeOK
  <2>4. run[u] \notin {"new", "reading", "read", "asked"}
    BY <2>1 DEF OwnMessages, Message
  <2>5. u \notin forgotten
    BY <2>1 DEF ForgottenAsked
  <2> QED
    BY <2>1, <2>3, <2>4, <2>5 DEF Roles
<1> QED
  BY <1>2, <1>3

LEMMA FinalizeKeeps ==
  ASSUME Inv, NEW t \in Turns, Finalize(t)
  PROVE  Inv'
<1> USE DEF Inv
<1>1. /\ UNCHANGED <<messages, history, job, forgotten, clears>>
      /\ run[t] = "summarizing" /\ run' = [run EXCEPT ![t] = "gone"]
  BY DEF Finalize
<1>2. OwnMessages' /\ ForgottenAsked'
  BY <1>1 DEF OwnMessages, ForgottenAsked, TypeOK
<1>3. CASE MayFinalize(t)
  <2> DEFINE target == job[t].target
  <2>1. /\ archived' = archived \cup {m \in messages : m.turn \in target}
        /\ summary' \in {NewSummary(t, says) : says \in Texts(t)}
        /\ retired' = Retired
        /\ state' = NoState
        /\ compacted' = [u \in Turns |-> IF u \in target THEN compacted[u] + 1 ELSE compacted[u]]
    BY <1>3 DEF Finalize
  <2>2. /\ target \subseteq Turns /\ job[t].previous = summary
        /\ \A u \in target : /\ u \notin forgotten /\ compacted[u] = 0
                            /\ run[u] \notin {"new", "reading", "read", "asked"}
                            /\ \A role \in Roles : Message(u, role) \in messages
    BY <1>3, JobCurrent
  <2>3. PICK says \in SUBSET (Says(summary) \cup target) :
          summary' = [covered |-> target, says |-> says, from |-> From(summary) \cup target]
    BY <2>1, <2>2 DEF NewSummary, Texts
  <2> HIDE DEF target
  <2>a. /\ summary' \in Summaries /\ summary' /= None
        /\ summary'.covered = target /\ summary'.says = says
        /\ From(summary') = From(summary) \cup target /\ Says(summary') = says
        /\ summary'.from = From(summary) \cup target
    <3>1. From(summary) \subseteq Turns /\ Says(summary) \subseteq Turns
      BY DEF TypeOK, From, Says, Summaries
    <3>2. summary' \in Summaries
      BY <2>2, <2>3, <3>1 DEF Summaries
    <3> QED
      BY <2>3, <3>2, NoneAssumption DEF From, Says
  <2>4. Done' = Done \cup target
    BY <2>1, <2>2 DEF Done, TypeOK
  <2>5. TypeOK'
    <3>1. NoState \in [lease : Turns \cup {None}, expired : BOOLEAN, target : SUBSET Turns]
      BY DEF NoState
    <3>2. compacted' \in [Turns -> Nat]
      BY <2>1 DEF TypeOK
    <3>3. retired' \subseteq Turns
      BY <2>1 DEF Retired, TypeOK, Summaries
    <3> QED
      BY <1>1, <2>1, <2>a, <3>1, <3>2, <3>3 DEF TypeOK
  <2>6. Settled'
    BY <1>1, <2>1, <2>2, <2>4 DEF Settled, TypeOK
  <2>7. SummariesSettled'
    BY <1>1, <2>a, <2>4 DEF SummariesSettled
  <2>8. LeaseCurrent'
    BY <2>1 DEF LeaseCurrent, NoState
  <2>b. \A u \in target : \A m \in archived : m.turn /= u
    <3>1. \A m \in archived : m.turn \in From(summary)
      BY DEF ArchiveTraced, From
    <3>2. \A u \in From(summary) : compacted[u] > 0
      BY DEF SummariesSettled, Done
    <3> QED
      BY <2>2, <3>1, <3>2
  <2>9. ArchiveTraced'
    <3>1. \A u \in target : Message(u, "user") \in messages /\ Message(u, "user").turn = u
      BY <2>2 DEF Message, Roles
    <3>2. {m.turn : m \in archived'} = {m.turn : m \in archived} \cup target
      BY <2>1, <3>1
    <3>3. From(summary) = {m.turn : m \in archived} /\ Says(summary) \subseteq {m.turn : m \in archived}
      BY DEF ArchiveTraced, From, Says
    <3>4. Retired = {m.turn : m \in archived}
      BY DEF ArchiveTraced, Retired
    <3>5. target \cap {m.turn : m \in archived} = {}
      BY <2>2, <2>b
    <3> QED
      BY <2>1, <2>3, <2>a, <3>2, <3>3, <3>4, <3>5 DEF ArchiveTraced
  <2>10. ArchivedWhole'
    <3>1. ASSUME NEW m \in archived', NEW role \in Roles PROVE Message(m.turn, role) \in archived'
      <4>1. CASE m \in archived
        BY <2>1, <4>1 DEF ArchivedWhole
      <4>2. CASE m.turn \in target
        BY <2>1, <2>2, <4>2 DEF Message
      <4> QED
        BY <2>1, <4>1, <4>2
    <3> QED
      BY <3>1 DEF ArchivedWhole
  <2>11. CompactedOnce'
    BY <2>1, <2>2 DEF CompactedOnce, TypeOK
  <2>12. ClearedForGood'
    <3>1. (From(summary') \cup Says(summary') \cup Retired)
            \subseteq (From(summary) \cup Says(summary) \cup retired \cup target)
      BY <2>3, <2>a DEF Retired, ArchiveTraced, From
    <3> QED
      BY <1>1, <2>1, <2>2, <3>1 DEF ClearedForGood
  <2>13. ReadOnce'
    BY <1>1 DEF ReadOnce, TypeOK
  <2> QED
    BY <1>2, <2>5, <2>6, <2>7, <2>8, <2>9, <2>10, <2>11, <2>12, <2>13
<1>4. CASE ~MayFinalize(t)
  <2>1. UNCHANGED <<archived, summary, retired, state, compacted>>
    BY <1>4 DEF Finalize
  <2>2. TypeOK'
    BY <1>1, <2>1 DEF TypeOK
  <2>3. Settled' /\ SummariesSettled' /\ LeaseCurrent'
    BY <1>1, <2>1 DEF Settled, SummariesSettled, LeaseCurrent, Done, Complete, From, TypeOK
  <2>4. /\ ArchiveTraced' /\ ArchivedWhole' /\ CompactedOnce'
        /\ ClearedForGood' /\ ReadOnce'
    BY <1>1, <2>1
    DEF ArchiveTraced, ArchivedWhole, CompactedOnce, ClearedForGood, ReadOnce, From, Says, TypeOK
  <2> QED
    BY <1>2, <2>2, <2>3, <2>4
<1> QED
  BY <1>3, <1>4

-----------------------------------------------------------------------------

LEMMA ExpireKeeps ==
  ASSUME Inv, Expire
  PROVE  Inv'
<1> USE DEF Inv
<1>1. /\ UNCHANGED <<messages, archived, summary, retired, run, history, job, compacted, forgotten, clears>>
      /\ state /= None /\ state' = [state EXCEPT !.expired = TRUE]
  BY DEF Expire, runVars
<1>2. state \in [lease : Turns \cup {None}, expired : BOOLEAN, target : SUBSET Turns]
  BY <1>1 DEF TypeOK
<1>3. /\ state' \in [lease : Turns \cup {None}, expired : BOOLEAN, target : SUBSET Turns]
      /\ state'.lease = state.lease /\ state'.target = state.target
  BY <1>1, <1>2
<1>4. TypeOK'
  BY <1>1, <1>3 DEF TypeOK
<1>5. LeaseCurrent'
  BY <1>1, <1>3 DEF LeaseCurrent, Complete, From
<1>6. OwnMessages' /\ Settled' /\ SummariesSettled' /\ ForgottenAsked'
  BY <1>1 DEF OwnMessages, Settled, SummariesSettled, ForgottenAsked, Done, From
<1>7. ArchiveTraced' /\ ArchivedWhole' /\ CompactedOnce' /\ ClearedForGood' /\ ReadOnce'
  BY <1>1 DEF ArchiveTraced, ArchivedWhole, CompactedOnce, ClearedForGood, ReadOnce, From, Says
<1> QED
  BY <1>4, <1>5, <1>6, <1>7

\* What is cleared had its question asked, so it does not come back.
LEMMA ClearKeeps ==
  ASSUME Inv, Clear
  PROVE  Inv'
<1> USE DEF Inv
<1>1. /\ UNCHANGED <<run, history, job, compacted>>
      /\ messages' = {} /\ archived' = {} /\ summary' = None /\ retired' = {} /\ state' = None
      /\ forgotten' = forgotten \cup {m.turn : m \in messages} /\ clears' = clears + 1
  BY DEF Clear, runVars
<1>2. TypeOK'
  BY <1>1 DEF TypeOK
<1>3. \A m \in messages : run[m.turn] \notin {"new", "reading", "read"}
  BY DEF OwnMessages
<1>4. ForgottenAsked'
  BY <1>1, <1>3 DEF ForgottenAsked
<1>5. OwnMessages' /\ Settled' /\ SummariesSettled' /\ LeaseCurrent'
  BY <1>1 DEF OwnMessages, Settled, SummariesSettled, LeaseCurrent, Done, From
<1>6. ArchiveTraced' /\ ArchivedWhole' /\ CompactedOnce' /\ ClearedForGood' /\ ReadOnce'
  BY <1>1 DEF ArchiveTraced, ArchivedWhole, CompactedOnce, ClearedForGood, ReadOnce, From, Says
<1> QED
  BY <1>2, <1>4, <1>5, <1>6

LEMMA NextInv ==
  ASSUME Inv, [Next]_vars
  PROVE  Inv'
<1>1. ASSUME NEW t \in Turns, ReadSummary(t) \/ ReadMessages(t) \/ Ask(t) PROVE Inv'
  BY <1>1, ReadSummaryKeeps, ReadMessagesKeeps, AskKeeps
<1>2. ASSUME NEW t \in Turns, Answer(t) \/ Claim(t) \/ Finalize(t) \/ Dies(t) PROVE Inv'
  BY <1>2, AnswerKeeps, ClaimKeeps, FinalizeKeeps, DiesKeeps
<1>3. CASE Expire \/ Clear
  BY <1>3, ExpireKeeps, ClearKeeps
<1>4. CASE UNCHANGED vars
  <2>1. /\ UNCHANGED <<messages, archived, summary, retired, state, run, history, job>>
        /\ UNCHANGED <<compacted, forgotten, clears>>
    BY <1>4 DEF vars, rowVars, runVars
  <2> QED
    BY <2>1 DEF Inv, TypeOK, OwnMessages, Settled, SummariesSettled, ForgottenAsked, LeaseCurrent,
                Done, Complete, From, ArchiveTraced, ArchivedWhole, CompactedOnce,
                ClearedForGood, ReadOnce
<1> QED
  BY <1>1, <1>2, <1>3, <1>4 DEF Next

\* The inductive invariant holds, for every length of the conversation, every
\* limit and every number of clears.
THEOREM Invariant == Spec => []Inv
<1> QED
  BY InitInv, NextInv, PTL DEF Spec

\* Every variable keeps its type.
THEOREM TypeCorrect == Spec => []TypeOK
<1>1. Inv => TypeOK
  BY DEF Inv
<1> QED
  BY <1>1, Invariant, PTL

\* No turn falls out of the conversation unseen: each archived turn was handed down to
\* the summary in force, and is listed once in the rows of summaries.
THEOREM SummaryTraced == Spec => []ArchiveTraced
<1>1. Inv => ArchiveTraced
  BY DEF Inv
<1> QED
  BY <1>1, Invariant, PTL

\* Turns are archived with both their messages.
THEOREM WholeTurns == Spec => []ArchivedWhole
<1>1. Inv => ArchivedWhole
  BY DEF Inv
<1> QED
  BY <1>1, Invariant, PTL

\* The lease keeps two runs from compacting the same turn, even when it ran out.
THEOREM OneCompaction == Spec => []CompactedOnce
<1>1. Inv => CompactedOnce
  BY DEF Inv
<1> QED
  BY <1>1, Invariant, PTL

\* A compaction under way does not bring cleared turns back.
THEOREM NothingReturns == Spec => []ClearedForGood
<1>1. Inv => ClearedForGood
  BY DEF Inv
<1> QED
  BY <1>1, Invariant, PTL

\* A compaction between the two statements of history gives no turn twice.
THEOREM NothingTwice == Spec => []ReadOnce
<1>1. Inv => ReadOnce
  BY DEF Inv
<1> QED
  BY <1>1, Invariant, PTL
=============================================================================
