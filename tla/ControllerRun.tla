---------------------------- MODULE ControllerRun ----------------------------
(***************************************************************************)
(* One run of the controller, as a worker thread of AgentRunManager         *)
(* executes it: the nodes of graph.py, the calls they make on the           *)
(* StageController of events.py, and _execute of api.py around the graph.   *)
(*                                                                         *)
(* A node is split where it calls out (interpreter, responder, specialists, *)
(* data processor, report writer, aggregator, stores), because what it has  *)
(* emitted is visible meanwhile.  Of the progress events only those of the  *)
(* specialists and of the report's sections are kept: the others carry text.*)
(***************************************************************************)
EXTENDS Naturals, Sequences, FiniteSets

CONSTANTS
  Agents,       \* the specialists a plan can name
  Competitor,   \* the one whose result process_competitor_data reads
  MaxRounds,    \* the largest max_rounds of a plan (two in routing.py)
  Sections,     \* number of sections of a competitor report
  Attempts,     \* attempts at one section (three in graph.py)
  None

ASSUME CompetitorAssumption == Competitor \in Agents
ASSUME LimitsAssumption == MaxRounds \in Nat \ {0} /\ Sections \in Nat /\ Attempts \in Nat \ {0}

VARIABLES
  pc,         \* the node, or the call inside a node, the worker is at
  stages,     \* the StageController's state of the run, with the events emitted
  request,    \* what understand_request and create_plan put into the state
  tasks,      \* pending_tasks: the agents to call next
  unit,       \* progress of the specialists of the current round
  round,
  called,     \* called_agents, as a count per agent
  results,    \* specialist_results
  modules,    \* competitor_data_modules are there
  report,     \* progress of generate_competitor_report
  record,     \* status of the in-memory RunRecord
  row         \* status of the run's row in controller_chat_runs

graphVars == <<tasks, unit, round, called, results, modules, report>>
storeVars == <<record, row>>
vars == <<pc, stages, request, graphVars, storeVars>>

Waits == {"waiting_input", "waiting_approval"}
StageNames ==
  {"understanding", "planning", "analysis", "data_processing", "verification", "synthesis"}
    \cup Waits

ASSUME NoneAssumption == None \notin Agents \cup StageNames

Routes == {"execute", "respond", "clarify", "approval", "unsupported"}

Usable == {"completed", "degraded"}
Statuses == Usable \cup {"failed", "needs_input", "unavailable"}

-----------------------------------------------------------------------------
(***************************************************************************)
(* StageController.  Each operator is the state after the call; a call that *)
(* raises StageTransitionError only sets `refused'.                         *)
(***************************************************************************)

\* Mutated form of AllowedTransitions: no further round after a comparison.
AllowedTransitionsOneRound ==
  [s \in StageNames |->
     CASE s = "understanding" -> {"planning", "synthesis"} \cup Waits
       [] s = "analysis" -> {"data_processing", "verification", "synthesis", "waiting_input"}
       [] s = "planning" -> {"analysis"}
       [] OTHER -> {"synthesis"}]

AllowedTransitions ==
  [s \in StageNames |->
     CASE s = "understanding" -> {"planning", "synthesis"} \cup Waits
       [] s = "waiting_input" -> {"understanding"}
       [] s = "planning" -> {"analysis"}
       [] s = "analysis" -> {"data_processing", "verification", "synthesis", "waiting_input"}
       [] s = "data_processing" -> {"verification", "synthesis"}
       [] s = "verification" -> {"data_processing", "synthesis"}
       [] s = "synthesis" -> {"waiting_approval"}
       [] s = "waiting_approval" -> {"understanding", "synthesis"}]

Event(kind, stage, of) == [event |-> kind, stage |-> stage, of |-> of]

Emitted(c, kind, stage, of) == [c EXCEPT !.log = Append(@, Event(kind, stage, of))]

Refused(c) == [c EXCEPT !.refused = TRUE]

Closed(c, kind) ==
  [Emitted(c, kind, c.current, None) EXCEPT !.previous = c.current, !.current = None]

StartedRun(c) ==
  IF c.started THEN c ELSE [Emitted(c, "run.started", None, None) EXCEPT !.started = TRUE]

\* A stage that waits is completed by the start of the next one.
Resumed(c) == IF c.current \in Waits THEN Closed(c, "stage.completed") ELSE c

Start(c, stage) ==
  LET r == Resumed(StartedRun(c))
  IN IF \/ c.terminal
        \/ r.current /= None
        \/ r.previous /= None /\ stage \notin AllowedTransitions[r.previous]
     THEN Refused(c)
     ELSE [Emitted(r, "stage.started", stage, None) EXCEPT !.current = stage]

Progress(c, stage, kind, of) ==
  IF c.current /= stage THEN Refused(c) ELSE Emitted(c, kind, stage, of)

Complete(c, stage) ==
  IF c.current /= stage THEN Refused(c) ELSE Closed(c, "stage.completed")

Wait(c, stage) ==
  LET s == Start(c, stage)
  IN IF s.refused THEN s ELSE Emitted(s, "stage.waiting", stage, None)

\* Mutated form of Fail: the run's terminal flag is not looked at.
FailAgain(c, stage) ==
  LET f == IF c.current = stage THEN Closed(c, "stage.failed") ELSE c
  IN [Emitted(f, "run.failed", stage, None) EXCEPT !.terminal = TRUE]

\* Mutated form of Fail: nothing is told to the page.
FailSilently(c, stage) == [c EXCEPT !.terminal = TRUE]

\* Only the stage that is named is closed; another one stays open.
Fail(c, stage) ==
  LET f == IF c.current = stage THEN Closed(c, "stage.failed") ELSE c
  IN IF c.terminal THEN c
     ELSE [Emitted(f, "run.failed", stage, None) EXCEPT !.terminal = TRUE]

Finish(c) ==
  IF c.current /= None THEN Refused(c)
  ELSE IF c.terminal THEN c
  ELSE [Emitted(c, "run.completed", None, None) EXCEPT !.terminal = TRUE]

-----------------------------------------------------------------------------

\* The worker makes calls on the controller that end in state c and goes on to
\* next, unless one of them raised.
Go(c, next) ==
  /\ stages' = c
  /\ pc' = IF c.refused THEN "raised" ELSE next

(***************************************************************************)
(* understand_request and direct_response.                                  *)
(***************************************************************************)

UnderstandStart ==
  /\ pc = "understand_request"
  /\ Go(Start(stages, "understanding"), "interpreting")
  /\ UNCHANGED <<request, graphVars, storeVars>>

\* The interpreter answers.  A clarification_question may come with any route:
\* the guards that change the route (images, history) leave it in place.
Interpreted(route, asked, history, reporting) ==
  /\ pc = "interpreting"
  /\ history => route = "respond"
  /\ reporting => route = "execute"
  /\ request' = [request EXCEPT !.route = route, !.asked = asked, !.history = history,
                                !.report = reporting]
  /\ Go(Complete(stages, "understanding"),
        IF route = "execute" THEN "create_plan" ELSE "direct_response")
  /\ UNCHANGED <<graphVars, storeVars>>

InterpreterRaises ==
  /\ pc = "interpreting"
  /\ stages' = Fail(stages, "understanding")
  /\ pc' = "raised"
  /\ UNCHANGED <<request, graphVars, storeVars>>

AskUser ==
  /\ pc = "direct_response"
  /\ request.route \in {"clarify", "approval"}
  /\ Go(Wait(stages, IF request.route = "clarify" THEN "waiting_input" ELSE "waiting_approval"),
        "answered")
  /\ UNCHANGED <<request, graphVars, storeVars>>

ExplainUnsupported ==
  /\ pc = "direct_response"
  /\ request.route = "unsupported"
  /\ Go(Finish(Complete(Start(stages, "synthesis"), "synthesis")), "answered")
  /\ UNCHANGED <<request, graphVars, storeVars>>

RespondStart ==
  /\ pc = "direct_response"
  /\ request.route = "respond"
  /\ Go(Start(stages, "synthesis"), "responding")
  /\ UNCHANGED <<request, graphVars, storeVars>>

\* The responder answers, or fails on a question about the history and a fixed
\* sentence stands in for it.
Responded ==
  /\ pc = "responding"
  /\ Go(Finish(Complete(stages, "synthesis")), "answered")
  /\ UNCHANGED <<request, graphVars, storeVars>>

\* Nothing closes the stage: the exception goes up to _execute.
ResponderRaises ==
  /\ pc = "responding"
  /\ ~request.history
  /\ pc' = "raised"
  /\ UNCHANGED <<stages, request, graphVars, storeVars>>

(***************************************************************************)
(* create_plan and execute_specialists.                                     *)
(***************************************************************************)

PlanStart ==
  /\ pc = "create_plan"
  /\ Go(Start(stages, "planning"), "planning")
  /\ UNCHANGED <<request, graphVars, storeVars>>

\* A domain without a specialist yields an empty plan of one round.
Planned(agents, rounds) ==
  /\ pc = "planning"
  /\ agents = {} => rounds = 1
  /\ request.report => Competitor \in agents
  /\ request' = [request EXCEPT !.maxRounds = rounds]
  /\ tasks' = agents
  /\ Go(Complete(stages, "planning"), "execute_specialists")
  /\ UNCHANGED <<unit, round, called, results, modules, report, storeVars>>

PlanningRaises ==
  /\ pc = "planning"
  /\ stages' = Fail(stages, "planning")
  /\ pc' = "raised"
  /\ UNCHANGED <<request, graphVars, storeVars>>

RoundStage == IF round = 0 THEN "analysis" ELSE "verification"

ExecuteStart ==
  /\ pc = "execute_specialists"
  /\ Go(Start(stages, RoundStage), "executing")
  /\ unit' = [a \in Agents |-> "idle"]
  /\ UNCHANGED <<request, tasks, round, called, results, modules, report, storeVars>>

\* The pool has a thread for every task, so the units run in any order.
UnitStart(a) ==
  /\ pc = "executing"
  /\ a \in tasks
  /\ unit[a] = "idle"
  /\ unit' = [unit EXCEPT ![a] = "running"]
  /\ stages' = Progress(stages, RoundStage, "unit.started", a)
  /\ UNCHANGED <<pc, request, tasks, round, called, results, modules, report, storeVars>>

\* wants: the agents that the result's hypotheses require, at confidence 0.5 or
\* more.  An unregistered specialist is a result with status unavailable.
UnitReturns(a, status, wants) ==
  /\ pc = "executing"
  /\ unit[a] = "running"
  /\ unit' = [unit EXCEPT ![a] = "done"]
  /\ results' = results \cup {[agent |-> a, status |-> status, wants |-> wants, round |-> round]}
  /\ stages' = Progress(stages, RoundStage, "unit.ended", a)
  /\ UNCHANGED <<pc, request, tasks, round, called, modules, report, storeVars>>

\* An exception of one specialist becomes an entry of errors, and no result.
UnitRaises(a) ==
  /\ pc = "executing"
  /\ unit[a] = "running"
  /\ unit' = [unit EXCEPT ![a] = "done"]
  /\ stages' = Progress(stages, RoundStage, "unit.ended", a)
  /\ UNCHANGED <<pc, request, tasks, round, called, results, modules, report, storeVars>>

\* Mutated form of Joined: the first result is enough.
JoinedEarly == tasks = {} \/ \E a \in tasks : unit[a] = "done"

\* as_completed has seen every future.
Joined == \A a \in tasks : unit[a] = "done"

ExecuteDone ==
  /\ pc = "executing"
  /\ Joined
  /\ Go(Complete(stages, RoundStage),
        IF \E r \in results : r.status = "needs_input"
        THEN "specialist_waiting_input" ELSE "process_competitor_data")
  /\ called' = [a \in Agents |-> called[a] + IF a \in tasks THEN 1 ELSE 0]
  /\ round' = round + 1
  /\ tasks' = {}
  /\ UNCHANGED <<request, unit, results, modules, report, storeVars>>

(***************************************************************************)
(* process_competitor_data, prepare_followups, specialist_waiting_input.    *)
(***************************************************************************)

Comparable ==
  /\ ~modules
  /\ \E r \in results : r.agent = Competitor /\ r.status \in Usable

SkipProcessing ==
  /\ pc = "process_competitor_data"
  /\ ~Comparable
  /\ pc' = "prepare_followups"
  /\ UNCHANGED <<stages, request, graphVars, storeVars>>

ProcessStart ==
  /\ pc = "process_competitor_data"
  /\ Comparable
  /\ Go(Start(stages, "data_processing"), "processing")
  /\ UNCHANGED <<request, graphVars, storeVars>>

\* A failed processing is noted and tried again after another round.
Processed(ok) ==
  /\ pc = "processing"
  /\ modules' = ok
  /\ Go(Complete(stages, "data_processing"), "prepare_followups")
  /\ UNCHANGED <<request, tasks, unit, round, called, results, report, storeVars>>

Wanted == UNION {r.wants : r \in results}

\* Mutated form of Followups: a round too many.
FollowupsOneMore ==
  IF round > request.maxRounds THEN {} ELSE {a \in Wanted : called[a] = 0}

\* select_followup_tasks; only a plan for a diagnosis or a recommendation has
\* more than one round.
Followups ==
  IF round >= request.maxRounds THEN {} ELSE {a \in Wanted : called[a] = 0}

PrepareFollowups ==
  /\ pc = "prepare_followups"
  /\ tasks' = Followups
  /\ pc' = IF Followups /= {} THEN "execute_specialists"
           ELSE IF request.report THEN "generate_competitor_report"
           ELSE "aggregate_response"
  /\ UNCHANGED <<stages, request, unit, round, called, results, modules, report, storeVars>>

SpecialistWaitingInput ==
  /\ pc = "specialist_waiting_input"
  /\ Go(Wait(stages, "waiting_input"), "answered")
  /\ request' = [request EXCEPT !.asked = @ \/ ~stages'.refused]
  /\ UNCHANGED <<graphVars, storeVars>>

(***************************************************************************)
(* aggregate_response and generate_competitor_report.                       *)
(***************************************************************************)

AggregateStart ==
  /\ pc = "aggregate_response"
  /\ Go(Start(stages, "synthesis"), "aggregating")
  /\ UNCHANGED <<request, graphVars, storeVars>>

AllSpecialistsFailed == results /= {} /\ \A r \in results : r.status \notin Usable

Aggregated ==
  /\ pc = "aggregating"
  /\ Go(IF AllSpecialistsFailed THEN Fail(stages, "synthesis")
        ELSE Finish(Complete(stages, "synthesis")), "answered")
  /\ UNCHANGED <<request, graphVars, storeVars>>

AggregatorRaises ==
  /\ pc = "aggregating"
  /\ stages' = Fail(stages, "synthesis")
  /\ pc' = "raised"
  /\ UNCHANGED <<request, graphVars, storeVars>>

ReportStart ==
  /\ pc = "generate_competitor_report"
  /\ Go(Start(stages, "synthesis"), "reporting")
  /\ UNCHANGED <<request, graphVars, storeVars>>

Section == report.written + 1

Retries == report.attempt < Attempts

SectionFails ==
  /\ pc = "reporting"
  /\ report.written < Sections
  /\ Retries
  /\ report' = [report EXCEPT !.attempt = @ + 1]
  /\ UNCHANGED <<pc, stages, request, tasks, unit, round, called, results, modules, storeVars>>

\* A valid section, or the stand-in after the last attempt, is shown and then
\* checkpointed.
SectionShown(saved) ==
  /\ pc = "reporting"
  /\ report.written < Sections
  /\ report' = [written |-> Section, attempt |-> 1]
  /\ LET shown == Progress(stages, "synthesis", "report.section", Section)
     IN IF saved THEN Go(shown, "reporting") ELSE Go(Fail(shown, "synthesis"), "answered")
  /\ UNCHANGED <<request, tasks, unit, round, called, results, modules, storeVars>>

\* Mutated form of AllWritten: the loop ends before the last section.
AllWrittenButLast == report.written + 1 = Sections

AllWritten == report.written = Sections

\* The whole report is validated once more.
ReportEnds(valid) ==
  /\ pc = "reporting"
  /\ AllWritten
  /\ Go(IF valid THEN Finish(Complete(stages, "synthesis")) ELSE Fail(stages, "synthesis"),
        "answered")
  /\ UNCHANGED <<request, graphVars, storeVars>>

-----------------------------------------------------------------------------
(***************************************************************************)
(* _execute and _run_graph_with_checkpoints around the graph.               *)
(***************************************************************************)

\* Writing the checkpoint of a node, once its successor has run too, raises.
CheckpointRaises ==
  /\ pc \in {"execute_specialists", "specialist_waiting_input", "process_competitor_data",
             "prepare_followups", "aggregate_response", "generate_competitor_report", "answered"}
  /\ pc' = "raised"
  /\ UNCHANGED <<stages, request, graphVars, storeVars>>

\* The assistant's message is appended, or the store raises.
StoreAnswer(stored) ==
  /\ pc = "answered"
  /\ pc' = IF stored THEN "finishing" ELSE "raised"
  /\ UNCHANGED <<stages, request, graphVars, storeVars>>

Outcome ==
  IF request.route \in {"clarify", "approval"} \/ request.asked THEN "waiting" ELSE "completed"

FinishRow ==
  /\ pc = "finishing"
  /\ row' = Outcome
  /\ pc' = "recording"
  /\ UNCHANGED <<stages, request, graphVars, record>>

FinishRowRaises ==
  /\ pc = "finishing"
  /\ pc' = "raised"
  /\ UNCHANGED <<stages, request, graphVars, storeVars>>

SetRecord ==
  /\ pc = "recording"
  /\ record' = Outcome
  /\ pc' = "done"
  /\ UNCHANGED <<stages, request, graphVars, row>>

\* The except clause: the run is failed under the name of the first stage.
HandleException ==
  /\ pc = "raised"
  /\ stages' = Fail(stages, "understanding")
  /\ pc' = "failing"
  /\ UNCHANGED <<request, graphVars, storeVars>>

FailRow ==
  /\ pc = "failing"
  /\ row' = "failed"
  /\ record' = "failed"
  /\ pc' = "done"
  /\ UNCHANGED <<stages, request, graphVars>>

\* The row cannot be written: the exception is lost with the future.
FailRowRaises ==
  /\ pc = "failing"
  /\ pc' = "lost"
  /\ UNCHANGED <<stages, request, graphVars, storeVars>>

-----------------------------------------------------------------------------

Init ==
  /\ pc = "understand_request"
  /\ stages = [started |-> FALSE, current |-> None, previous |-> None, terminal |-> FALSE,
               refused |-> FALSE, log |-> <<>>]
  /\ request = [route |-> None, asked |-> FALSE, history |-> FALSE, report |-> FALSE,
                maxRounds |-> 1]
  /\ tasks = {}
  /\ unit = [a \in Agents |-> "idle"]
  /\ round = 0
  /\ called = [a \in Agents |-> 0]
  /\ results = {}
  /\ modules = FALSE
  /\ report = [written |-> 0, attempt |-> 1]
  /\ record = "running"
  /\ row = "running"

Understand ==
  \/ UnderstandStart
  \/ \E route \in Routes, asked, history, reporting \in BOOLEAN :
       Interpreted(route, asked, history, reporting)
  \/ InterpreterRaises

Respond == AskUser \/ ExplainUnsupported \/ RespondStart \/ Responded \/ ResponderRaises

Plan ==
  \/ PlanStart
  \/ \E agents \in SUBSET Agents, rounds \in 1..MaxRounds : Planned(agents, rounds)
  \/ PlanningRaises

Specialists ==
  \/ ExecuteStart
  \/ \E a \in Agents :
       \/ UnitStart(a)
       \/ UnitRaises(a)
       \/ \E status \in Statuses, wants \in {{}} \cup {{b} : b \in Agents} :
            UnitReturns(a, status, wants)
  \/ ExecuteDone

BetweenRounds ==
  \/ SkipProcessing
  \/ ProcessStart
  \/ \E ok \in BOOLEAN : Processed(ok)
  \/ PrepareFollowups
  \/ SpecialistWaitingInput

Synthesize ==
  \/ AggregateStart
  \/ Aggregated
  \/ AggregatorRaises
  \/ ReportStart
  \/ SectionFails
  \/ \E saved \in BOOLEAN : SectionShown(saved)
  \/ \E valid \in BOOLEAN : ReportEnds(valid)

Execute ==
  \/ CheckpointRaises
  \/ \E stored \in BOOLEAN : StoreAnswer(stored)
  \/ FinishRow
  \/ FinishRowRaises
  \/ SetRecord
  \/ HandleException
  \/ FailRow
  \/ FailRowRaises

Next ==
  Understand \/ Respond \/ Plan \/ Specialists \/ BetweenRounds \/ Synthesize \/ Execute

Spec == Init /\ [][Next]_vars

\* The pool's thread keeps running, and every call out returns or raises.
FairSpec == Spec /\ WF_vars(Next)

-----------------------------------------------------------------------------
(***************************************************************************)
(* Properties.                                                             *)
(***************************************************************************)

Ended == \E i \in DOMAIN stages.log : stages.log[i].event \in {"run.completed", "run.failed"}

Emits(kind) == \E i \in DOMAIN stages.log : stages.log[i].event = kind

\* Every variable has its type.
TypeOK ==
  /\ stages.current \in StageNames \cup {None} /\ stages.previous \in StageNames \cup {None}
  /\ {stages.started, stages.terminal, stages.refused} \subseteq BOOLEAN
  /\ \A i \in DOMAIN stages.log : stages.log[i].stage \in StageNames \cup {None}
  /\ request.route \in Routes \cup {None}
  /\ request.maxRounds \in 1..MaxRounds
  /\ tasks \subseteq Agents
  /\ unit \in [Agents -> {"idle", "running", "done"}]
  /\ round \in Nat
  /\ called \in [Agents -> Nat]
  /\ \A r \in results : r.agent \in Agents /\ r.status \in Statuses /\ r.wants \subseteq Agents
  /\ modules \in BOOLEAN
  /\ report.written \in 0..Sections /\ report.attempt \in 1..Attempts
  /\ record \in {"running", "completed", "waiting", "failed"}
  /\ row \in {"running", "completed", "waiting", "failed"}

\* The events of a run are only added to, none follows run.completed or
\* run.failed, and only run.failed follows stage.waiting: the page closes its
\* stream at the first of them (events.py fail/finish, api.py _execute).
NothingAfterTheEnd ==
  [][ /\ \A i \in DOMAIN stages.log : stages.log'[i] = stages.log[i]
      /\ Ended => stages.log' = stages.log
      /\ Emits("stage.waiting") =>
           \A i \in DOMAIN stages.log' \ DOMAIN stages.log : stages.log'[i].event = "run.failed"
    ]_vars

\* Every path through the nodes takes the stages in an order ALLOWED_TRANSITIONS
\* permits; the exception is a specialist that needs input in a verification
\* round (graph.py specialist_waiting_input).
OnlyVerificationRefused ==
  stages.refused => \E r \in results : r.status = "needs_input" /\ r.round > 0

\* A stage event that says a round is over comes after exactly one outcome for
\* each specialist it started: no card on the page stays "running" (graph.py run,
\* use-run-stream.ts specialists).
UnitsSettled ==
  LET log == stages.log
  IN \A i, j \in DOMAIN log :
       /\ i < j /\ log[i].event = "unit.started"
       /\ log[j].event = "stage.completed" /\ log[j].stage = log[i].stage
       => Cardinality({k \in i..j : log[k].event = "unit.ended" /\ log[k].of = log[i].of}) = 1

\* No specialist is asked twice in a run, whatever the hypotheses of the others
\* require (routing.py select_followup_tasks).
EachAgentOnce == \A a \in Agents : called[a] + (IF a \in tasks THEN 1 ELSE 0) <= 1

\* The rounds a run executes stay within its plan's max_rounds.
BoundedRounds == round + (IF tasks /= {} THEN 1 ELSE 0) <= request.maxRounds

\* Both: hypotheses that require further specialists come to an end.
FollowupsBounded == EachAgentOnce /\ BoundedRounds

\* When the stream is over no stage is left open, unless the direct responder
\* raised: every other failure closes the stage it happened in.
FailedStageClosed ==
  Ended /\ stages.current \notin {None} \cup Waits => request.route = "respond"

\* Both: a stage event that ends leaves nothing of its stage open.
StagesSettled == TypeOK /\ UnitsSettled /\ FailedStageClosed

Shown(i) == stages.log[i].event = "report.section"

\* A report that is announced as complete showed each of its sections once and
\* in order, whichever of them were stand-ins (graph.py
\* generate_competitor_report).
ReportComplete ==
  request.report /\ Emits("run.completed") =>
    LET shown == {i \in DOMAIN stages.log : Shown(i)}
    IN /\ {stages.log[i].of : i \in shown} = 1 .. Sections
       /\ \A i, j \in shown : i < j => stages.log[i].of < stages.log[j].of

\* Every run tells the page that it is over or waits.
StreamCloses == <>(Ended \/ Emits("stage.waiting"))
=============================================================================
