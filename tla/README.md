# A TLA+ verification of amazon-ops-agents

The repository is a multi-agent assistant for Amazon sellers: a FastAPI process
(`src/src/amazon_ops`) accepts a question, runs a LangGraph of specialist agents
in a thread pool, streams the stages of the run to a Next.js page over
server-sent events, and keeps conversations, checkpoints, diagnosis histories
and uploaded knowledge in Postgres. Beside the chat it has a workbench:
advertising diagnoses, a knowledge vault, report imports, a listing agent and
customs declarations. This directory models the parts of it where concurrency,
failure, ordering and the handling of partial data decide whether the program is
right. Paths below are relative to `src/src/amazon_ops` unless they start with
`src/`.

## 1. Inventory

| Component | State it keeps | Operations | Hard behaviour | What makes it correct |
|---|---|---|---|---|
| Event hub, SSE stream, stream client (`events.py`, `sse.py`, `use-run-stream.ts`) | stored events per run, subscribers with bounded queues, replay deques; the page's Last-Event-ID | `emit`, `subscribe`, `_deliver`, `next_event`, `close`, the SSE generator, EventSource reconnect | worker threads emit while the event loop delivers; overflow; lost connections | events in order, none missing or repeated, every page learns the end, no subscriber leaks |
| Stage controller (`events.py`) | per run: current and previous stage, terminal flag | `start`, `progress`, `complete`, `wait`, `fail`, `finish` | parallel specialists report progress; failure in any stage | stages bracketed, transitions allowed, one terminal event and nothing behind it |
| Controller graph (`graph.py`, `routing.py`, `state.py`) | plan, results, follow-up round | one node per step, conditional edges | partial failure of specialists, follow-up rounds, waiting for input | no agent called twice, bounded rounds, a run that ends says so |
| Chat run manager, checkpoints (`api.py`, `chat_runs.py`) | in-memory records, thread pool; `chat_runs` rows with checkpoint, lease, recovery count | `submit`, `_execute`, `_checkpoint`, `finish`, `claim_stale`, recovery monitor | crash and restart, takeover, several API processes | one answer per turn, nothing skipped, bounded recovery |
| Idempotency registry (`idempotency.py`) | one row per (scope, key) with fingerprint, payload, expiry | `resolve` around a run submission | crash between submission and commit, concurrent identical keys, expiry | one answer per key |
| Conversation memory (`memory.py`) | messages, summary, compaction lease | `append`, `compact`, `history`, `clear` | compaction outside the transaction, lease takeover, clear in between | summary and archive agree, no turn compacted twice |
| Advertising diagnosis runs (`advertising/runtime.py`, `history.py`, `graph.py`) | records, owners, scopes in memory; row, checkpoints, ledger in the store | `submit`, `_execute`, `_checkpoint`, `save`, recovery, `delete_history` | restart, takeover, delete against save | one execution, resumed where it was left, owner and scope kept, finished stays finished |
| Advertising attribution reads (`advertising/agents.py`, `runtime.py`) | evidence, findings, quotas, the ledger | plan, batches, waves, second round, baseline | hard call limits, a second round, takeover in between | limits kept, no focus report starved, evidence kept |
| Advertising advice (`agents.py`, `llm_agents.py`) | anomalies, causes, recommendations, todos | inspect, attribute, reason, recommend, review | the model may name what does not exist | a todo is proved, within bounds, asked once |
| Advertising data gateways (`gateway.py`, `openapi_transport.py`) | catalog cache; nothing | `help`, `search`, `action`; paged reports | tools published anew, rows arriving between pages | one retry suffices, only reads are sent, all rows asked for and no other |
| Advertising imports (`imports.py`) | the shared tables of reports, batches | recognition, rows and keys, count, upsert | concurrent imports, a failing statement | the rows are those of whole imports |
| Team knowledge vault (`team_knowledge.py`) | versions with status, chunks, archive file | upload, index, activate, search | crash while indexing, failure after activation | one active version, complete and found |
| Listing agent (`listing/`) | keywords, evidence, plan, draft | one node per step | research and revision rounds | research neither repeated nor lost, a delivered listing rests on it |
| MCP provider client (`listing/mcp.py`, `mcp_transport.py`) | semaphores | `call_tool` | any exit of a call | slots given back, outcomes true |
| Customs declarations (`customs_declaration/`, `european_customs_declaration/`) | orders, quantities, shipments | sheets row by row, categories, weight split | rows that belong to the order above, rounding | nothing of the sheets is lost |
| Report specialist, competitor research, LLM client, authentication, NL2SQL, presentation, frontend pages, deployment | see section 8 | | | |

How they interact: the page posts a question; the idempotency registry calls
the run manager, which stores the user's message and a row for the run and
submits the graph to the pool. The graph reads conversation memory, calls the
specialists (the listing agent among them, which calls the providers through the
MCP client) and reports every stage to the stage controller, which emits to the
hub; the page follows the hub over SSE. After every node the manager writes a
checkpoint, and a monitor in every process claims rows whose lease ran out and
runs them again. A diagnosis of the workbench has a run manager of its own; its
agents read through a gateway (the ledger and the private scope around the MCP
catalog or the Open API) and turn what they read into advice. Imports fill the
tables the report specialist reads. Vault, imports and customs declarations
share neither rows nor locks with each other or with the runs.

## 2. Modules

| Module | Models | Abstract specification | Proofs |
|---|---|---|---|
| `EventHub` | hub, SSE generator, reconnecting page, for one run | `EventFeed` | `EventHubProofs` |
| `ControllerRun` | stage controller, controller graph, `_execute`, for one run | | `ControllerRunProofs` |
| `ChatRecovery` | row, checkpoints, claims, workers, answer, for one run in several processes | | `ChatRecoveryProofs` |
| `Idempotency` | the registry and its two callers | `OnePromise` | `RequestedWorkProofs` |
| `ConversationMemory` | messages, summary, compaction, clear, for one conversation | | `ConversationMemoryProofs` |
| `AdvertisingRuns` | one diagnosis: row, process, restarts, recovery, deletion | | `AdvertisingRunsProofs` |
| `AdvertisingReads` | the reads of the two attribution rounds of a diagnosis | | `AdvertisingReadsProofs` |
| `AdvertisingAdvice` | from the campaigns' numbers to the todos | | `RequestedWorkProofs` |
| `CatalogCalls`, `OpenReports` | the two gateways a diagnosis reads through | | `SharedServicesProofs`, `RequestedWorkProofs` |
| `ReportImports` | imports of reports into the shared tables | | `SharedServicesProofs` |
| `TeamKnowledge` | uploads, indexing, activation and search | | `SharedServicesProofs` |
| `ListingWorkflow` | the listing agent's graph | | `SharedServicesProofs` |
| `ProviderCalls` | the client of the data providers | | `SharedServicesProofs` |
| `CustomsDeclaration`, `EuropeanDeclaration` | the two declarations | `WeightShares` (what a split of weights must be) | `RequestedWorkProofs` |

`SharedServices` composes the services behind the agents: the provider client, the
listing agent, which researches with it, the catalog, the vault and the imports.
`RequestedWork` composes what is worked off for one request: the advice, the reports
of the open platform and the two declarations. `Selections` says what a filtered list
and what lists one behind the other are, for the modules that a proof speaks of. `MCEventHub`, `MCControllerRun`, `MCChatRecovery`, `MCIdempotency` and
`MCAdvertisingReads` give the constants their values for TLC; `MCWorkbench` does that
for `SharedServices` and `RequestedWork` and checks both in one run.
`RequestedWorkProofs` also holds the proofs about `Idempotency`: the two share the
facts about finite sets and sums it begins with, and nothing else.

The order followed the importance of the behaviour: first what every chat run
goes through (hub, controller, recovery, registry, memory), then the diagnosis
(its life, its reads, its advice), then the services. Each modelled module keeps
what a proof needs: parameters with named assumptions, one action per operation,
invariants as conjunctions of named parts, no recursive operator.

## 3. The models

### EventHub

One run. `log` is `_events[run_id]`: an event is its position, of a kind that
matters to the stream (progress, waiting, terminal). `emit` has two parts, as in
the code: under the hub's lock it stores the event and copies the subscribers
(`Emit`), then it calls `call_soon_threadsafe` for each of them (`Schedule`), so
that anything can happen in between. Two emits of a run do not overlap because
`StageController` holds the run's lock around them. The event loop runs the
callbacks in order (`Deliver`, in its three cases: subscriber gone, room in the
queue, queue full). `Connect` is `subscribe`: replay and registration in one
critical section. `StreamReplay`, `StreamLive` and `StreamEnd` are the SSE
generator with `next_event`; `Disconnect` and `Reload` are the environment. A
page has a number of the newest subscription (`gen`), because callbacks for an
older one may still be on their way.

Bytes in transit are no state of their own: a connection that breaks loses them,
which is the same as breaking before they were yielded, since the page's
Last-Event-ID decides what the next connection replays. Left out: heartbeats,
payloads, the restart of the process (the hub is in memory and sequences begin at
1 again; the run is then no longer known to the page's URL).

`EventFeed` is what the page's code relies on: a list, followed one by one, from
which only an event that overflowed the queue of this page may be missing.

### ControllerRun

One run in its worker thread. The operators `Start`, `Progress`, `Complete`,
`Wait`, `Fail` and `Finish` are the methods of `StageController` as functions of
the controller's state, with the log of events; a refused transition sets
`refused`, and the exception goes where the code lets it go. There is an action
for every node of `graph.py`, and a node is split where it calls out
(interpreter, specialists, writer, stores), because what it emitted before is
visible meanwhile. Specialists run in any order between `ExecuteStart` and
`ExecuteDone`. Whatever is called may return or raise. `StoreAnswer`,
`FinishRow`, `SetRecord`, `HandleException`, `FailRow` are `_execute` behind the
graph. Texts, numbers and prompts are left out; of a result its agent, its status
and the agents its hypotheses require are kept.

### ChatRecovery

One run's durable life. `Submitted` workers go through the chain of nodes;
`NodeEnds`, `Step` and `LateCheckpoint` keep the order of
`_run_graph_with_checkpoints`, which writes the checkpoint of a node when its
successor is known, that is after the successor ran. The last node can be the
report, whose sections are checkpointed one by one (`Section`). `Claim` is
`claim_stale` with the submission behind it, in any process with a live monitor.
`LookForAnswer` and `InsertAnswer` are the two halves of `INSERT … WHERE NOT
EXISTS`. `StoreFails`, `MonitorFails` and `Crash` are the faults, counted by
`MaxFaults`; `Tick` is time, and ages the heartbeat and the lease.

The heartbeat is written by checkpoints only, so a worker that waits long in the
pool or in one node is taken over while it lives. `Tick` lets that happen: when the
row gets stale under live workers, they are put into `silent` and a fault is
counted. From then on two workers of the run interleave: both
write checkpoints, the older of which may come last, both look for the answer
before they insert it, and both call `finish`, which asks for nothing.
`OneWorker`, `AnsweredOnce`, `CheckpointLag` and `EndedForGood` say what `silent`
may do and what nobody else does; `NothingSkipped` holds in any case.

### Idempotency

A call is one HTTP request: `Begin`, then `Reserve`/`Create`/`Commit` when the
key is free, or `Replay` when it is not. `held` is the row an open transaction
has inserted and nobody else sees: it is why a second INSERT waits
(`Unlocked`). The factory submits the run in transactions of its own, so
`Aborted` (a process that dies, a statement or a commit that is refused) rolls
the key back and leaves the run. A later request for the key then creates a
second run: the promise of `OnePromise` is about answers, and the orphan is
bounded by `OrphansAreAborted`, not excluded. `Expire` is the passing of
`expires_at`. `InMemoryIdempotencyRegistry`, which holds one lock over the whole
operation, is left out.

### ConversationMemory

A conversation as its runs use it. Turn `t` is the run of the `t`-th question;
`submit` reads the history in two statements (`ReadSummary`, `ReadMessages`) and
appends the question (`Ask`), `_execute` appends the answer (`Answer`) and
compacts: `Claim` takes the lease under the row's lock, the summarizer works
outside any transaction, `Finalize` writes if the lease and the target are still
its own. `Expire` may come while the holder works. A row of
`conversation_summaries` is three sets of turns: those it lists
(`covered_turn_ids`: only the ones this compaction took), those its text still
mentions, which the model's draft and the fallback choose freely among what they
were handed (`Texts`), and, as history, those it was made from (`from`). `retired`
is what the rows without `is_active` list. A user asks one question at a time (the guard of
`ReadSummary`: the earlier questions are stored), while the runs of earlier
questions may still answer or compact.

### AdvertisingRuns

One diagnosis. What outlives the process is `row` and `ckpt` (the newest
checkpoint); the manager's `_runs`, `_owners` and `_execution_scopes` are `mem`
and go with a `Restart`. `worker` are the executions in the thread pool: `Begin`
takes a thread, `NodeReturns` and `NodeRaises` are the four nodes of
`advertising/graph.py`, `SaveCheckpoint` and `SaveRecord` are the two statements
of `_checkpoint` (the second writes the record as memory has it then), `Publish`
and `SaveResult` are the end of `_execute`. `Claim` is `reserve_recovery`, whose
conditions are one UPDATE, and `Adopt` what the monitor does with the claimed
record. `GoesStale` is time: thirty minutes without a heartbeat, for an execution
that died or for one that still waits in the queue or in a node; the latter sets
`hung`. `Delete` is `delete_history`. What the agents find is free: a node returns
any state `_next_node` and the edges tell apart.

### AdvertisingReads

The reads of the two attribution rounds. `case` is what the model's hypotheses
and the request choose: the report type that matters most for each campaign,
private scope or not, baseline or not. `Plan` makes the batches of each report
type, `StartWave` sends one batch of each type that has quota left, `Answer` takes
one result of a wave (rows, or a report that failed), `EndWaves` and
`ReadBaseline` follow, and `Conclude` ends the round with its checkpoint. `Resume`
is a takeover at any point, from the last checkpoint. With a private scope the
evidence names no campaigns, as in `_ScopedAdvertisingGateway`. The ledger is
modelled by its keys, which hold the stage and round its gateway was made with.

### AdvertisingAdvice

From numbers to todos: `Inspect` (the rules of detection), `Attribute` (findings of
the rows of the detail reports and of the targets compared with the period before,
and the deterministic causes), `Reason` (the next decision of the model's
attribution, as the loop of `DeepSeekProblemAttributionAgent.invoke` takes it;
`narrated` is its list of causes, and its abouts are `seen_anomalies`),
`EndReasoning` (the anomalies left keep their causes), `Recommend` (one decision of
the strategy model under the guard), `EndRecommending`, `ModelFails`, `Review`.
Ratios are compared by multiplication. A model's answer is any number of decisions
over the names that exist and one that does not, in any order: it may decide on one
anomaly twice, and name up to `MaxNamed` contributing findings, with and without
objects. A finding has the id the code gives it, which two compared targets may
share; `Known` are those that can be looked up.

### CatalogCalls, OpenReports

`CatalogCalls` is `LingxingAdvertisingGateway`: a caller works through the tools
of a job; each is resolved (`Help`, `Search`, `Keep`) unless the cache has it, and
called with the versions of its entry (`Answer`); an answer that says stale or
unavailable throws the entry away and looks up once more (`Again`). The provider
may `Publish` between any two steps. `OpenReports` is
`LingxingOpenAPIAdvertisingGateway`: `ReadPage` reads one page of one query,
`Arrive` is a row that comes in between, `Return` cuts the rows to the request.

### ReportImports

`Upload` recognises the type of the report and its rows, `Count` counts the rows
the table has already, `Upsert` writes one row under the table's row locks,
`Commit` and `Abort` end the transaction. Names of columns are reduced to those
that tell the types and keys apart.

### TeamKnowledge

`CreateCandidate`, `Parse`, `Replace`, `Begin`, `Activate`, `Report` and `Fail`
are the statements of an upload in the order of the handler; `Crash` may come
between any two of them. A text is a sequence of characters, each with its letter and
whether a word begins with it, blanks left out, so that what is stored can be
compared with what was uploaded and a chunk can end inside a word, as
`team_knowledge.py:375` cuts. A note has the path, and about it the names of its file,
title, tags and links. `Search` is one question of one word: which of the
`MaxCandidates` chunks come first by similarity is left open, as is the order of
equal scores, and either of its two queries may fail, which answers nothing. The
handler of the API does not yield, so uploads of one process do not overlap.

### ListingWorkflow, ProviderCalls

`ListingWorkflow` has an action for each node of `listing/graph.py`, and `Call(p)`
for one query of a batch, because the two providers are asked in parallel.
Merging, sorting and tiers are said by positions and numbers of positions instead of
loops: `Joint` is the record that the loop of `_merge_keyword_evidence` leaves of a
keyword, `Position` the place the stable sort gives it, and `Tier` counts the tiers
that are full before a place.
`ProviderCalls` is a call through `listing/mcp_transport.py`: `Begin` (the
allowlist), `ReadSecret`, `Acquire` (the semaphore of the provider), `EndSession`
(any reply, error answer or exception, with the code the caller is told). An
exception is known by its type, `ExceptionGroup` when the session's group of tasks
wraps it, and by the phrases that the code looks for in the joined text
(`Classified`); one raised before or around the session reaches
`MCPProviderClient.call` as it is (`Unclassified`).

### CustomsDeclaration, EuropeanDeclaration, WeightShares

The sheets are read row by row (`ReadShipping`, `ReadPacking`, `ReadDetail`,
`EndOfSheet`; `ReadRow`), since what a row means depends on the rows above it, and
`Analyze` makes the declarations. A cell that is empty or wrong is a value.
Weights are integers in hundredths of a kilogram, and `Shares` rounds as the code
does. `Split` in `WeightShares` says what a split must be; both declarations are
checked against it.

### SharedServices, RequestedWork, MCWorkbench

The services of the workbench share the process and the database, but no row, no
lock and no call of one reaches the state of another; nor does what is worked off for
one request call or read what is worked off for another. One of them is chosen first
(`part` in `SharedServices`, `work` in `RequestedWork`, `half` in `MCWorkbench`) and
the others stay as they began: their steps commute, so that a behaviour of all is an
interleaving of behaviours of each, and a property of one of them is a property of
its own behaviours. `SharedServices` and `RequestedWork` keep their constants open
for the proofs, with an assumption for each; `MCWorkbench` extends both, gives them
values, and TLC evaluates the assumptions for these.

## 4. Runs

| Run | Question | Bounds |
|---|---|---|
| `hub` | Do hub, streams and page implement the feed, liveness included; what may a page miss; can a subscriber leak? | one page, queue of 2, 5 events, 2 lost connections or reloads |
| `controller` | Are the stages bracketed and allowed, is the end unique and final, are rounds, calls and sections right on every path? | two specialists, two rounds, two sections, three attempts |
| `chat_recovery` | What survives crashes, refused store calls and takeovers? | two processes, four nodes, one section (two in `chat_report_sections`), two faults, two claims |
| `chat_report_sections` (violated) | Is a checkpointed section written once? | three nodes, two sections, one fault |
| `idempotency` | Does the registry keep `OnePromise`, and what of the runs no answer names? | three calls, two keys, two contents, two faults |
| `memory` | What do summaries and archive keep, whatever the texts drop? | four turns, compaction of one at two, one clear |
| `memory_gap` (violated) | Does a request see every turn? | four turns, no clear |
| `advertising_runs` | Are takeovers of a diagnosis safe, does it go on as it was left, does its end stay, does it settle? | two live executions on one thread, two takeovers, two rounds, one restart |
| `advertising_owner` (violated) | Does a diagnosis keep its owner? | one live execution, one takeover, one restart |
| `advertising_reads` | Are the quotas kept and enough, is evidence kept, is a read repeated only by a takeover? | three campaigns, focus of two, two report types, limit of two, batches of two, one takeover |
| `advertising_repeats` (violated) | Does the second round ask only what is open? | two campaigns, no takeover |
| `workbench` | Are the services sound, each for itself? | see below |

Why the bounds are enough. `hub`: a queue of two is the smallest in which an
eviction leaves a younger event in front of the sentinel; five events let a page
overflow, reconnect, and be overtaken by the terminal event. Pages share nothing
but the log, so one page stands for each; the proofs cover the other sizes for
all its safety properties and for the steps of the refinement. `controller`: two specialists can
require each other, and two rounds are the largest the planner gives; three
attempts are the code's own number, two sections make order visible.
`chat_recovery`: two claims are the code's limit; four nodes put at least one
node between a checkpoint and the one it is late for; time only matters relative
to `StaleAfter`, so three ticks stand for thirty minutes and one for the lease.
`idempotency`: a third call can come while the second waits for the first.
`memory`: with a limit of two and compactions of one, four turns allow three
compactions, two of them by overlapping holders, each of which may drop any of the
turns from the text. The numbers in the code (30 and
20) differ only in size. `advertising_runs`: takeovers and rounds are the code's
own; two live executions are what it takes for one to be overtaken, and one
thread makes the second wait. `advertising_reads`: one campaign is outside the
focus, a limit of two is used up by a batch and a baseline, and one report type is
read campaign by campaign and the other in batches. `workbench`: two uploads and a
crash (a version can replace another and die doing so); three imports of files
that share keys (the third comes while the second waits); two callers of two
providers with one slot and two, any exception with any of the phrases in its text; two catalog callers, three jobs, one
publication anew for each tool; three research rounds,
the code's limit, plans of three tiers, and tasks with three products or with a
seed named twice; customs sheets of two, two and three
rows and a European sheet of four (an order opened, continued by a row without
number, and followed by another); pages of two rows for reports of up to three;
chunks of three characters, so that a word of two is cut by some of them, and four
candidates, fewer than the chunks of the larger ZIP; two campaigns with three anomalies
of which two are reasoned about, reports with a group of four, so that a decision can
name three more than the main cause, two of them without a name, or with two compared
targets, and two decisions of the strategy. `MaxNamed` is three there, one more than
the schema of the answer lets through (`llm_models.py:71`), so that the cap of the loop
is met as well.

Each property has a mutant in `PROJECT.json`: a plausible error in one definition
that makes it fail. The mutated forms stand in the modules in front of the
definitions they replace and are used by nothing else.

Deadlock is not checked, because every one of these systems may stop: a run that
has ended, a conversation nobody continues, requests that are all answered.

## 5. Fairness

Safety needs none. Liveness assumes weak fairness of

- the event loop's callbacks, generators and the browser's own reconnection, and
  of a thread between storing an event and scheduling it (`EventHub`);
- the worker thread (`ControllerRun`): every call out returns or raises, which the
  clients' timeouts see to;
- a worker that can go on, time, and the claim by some monitor that lives
  (`ChatRecovery`): monitors wake every five minutes;
- the steps of a request (`Idempotency`): the statements return;
- an execution that can go on, time, and a monitor that lives
  (`AdvertisingRuns`). `EveryRunSettles` therefore holds as long as the monitor
  lives and a takeover is left, which the property says.

Never assumed: that a run emits, that a connection holds, that a process does not
die or is started again, that a specialist, a provider or the store succeeds, that
a user comes back.

## 6. What the violated runs show, and other disagreements

- **Report sections written again** (`api.py:461`, run `chat_report_sections`).
  The late checkpoint of the node before the report is newer than the report's
  own.
- **Gap in the history** (`memory.py:268`, run `memory_gap`). A compaction that
  commits between the two statements takes its turns out of both results.
- **Owner lost** (`advertising/runtime.py:617`, run `advertising_owner`).
  Recovery restores the record but neither owner nor scope; the next checkpoint
  writes no owner, and the reads go through the unscoped gateway.
- **Queries repeated** (`advertising/agents.py:1217`, run `advertising_repeats`).
  Under a private scope the evidence does not say what was asked, so that the
  second round asks again what was answered.

Met while modelling, allowed by the properties, and without a run of their own:

- *Hub.* `_deliver` drops the oldest event and leaves the younger ones in front
  of the sentinel (`events.py:183`); the reconnect replays above the last id the
  page has, so the dropped event is lost, though the comment of the class
  (`events.py:108`) says there is no silent loss. `MissingOnlyEvicted` says that
  nothing else is.
- *Controller.* When all specialists raise, no entry of `specialist_results`
  says so and the run ends as completed (`graph.py:687`); the tests
  (`src/tests/test_stage_graph.py:456`) expect a failure. Input that is needed in a
  verification round fails the run, because `verification` may not go to
  `waiting_input` (`graph.py:486`). `OnlyVerificationRefused` says that no other
  transition is refused; it needs at most two rounds, the planner's limit: a third
  round would go from `verification` to `verification`. When the graph ends with
  `run.failed` and returns, the row is recorded as completed (`api.py:403`).
- *Chat recovery.* A run that dies before its first checkpoint is claimed and not
  submitted, and stays `running` after two claims (`chat_runs.py:63`); so does one
  whose claims were spent before the first checkpoint of a slow worker, which then
  dies. The docstring of `_run_graph_with_checkpoints` (`api.py:447`) says that
  "recovery therefore replays at most the node that was still in flight": when the
  process dies in a node, the checkpoint of the completed node before it is not
  written yet, so that node is replayed too, with its model and provider calls, and
  its effects on the stream. `CheckpointLag` says that it is never more; the second
  half of the sentence, "and never skips one", is `NothingSkipped` and holds. A live
  worker that is silent for thirty minutes is taken over (`chat_runs.py:59`); it goes
  on, may append a second answer, since no unique index backs the append
  (`memory.py:289`), and its `finish` replaces the end the other one recorded:
  a run that was shown as failed becomes completed, and the other way round
  (`chat_runs.py:54`). A dead monitor is not started again (`api.py:506`).
- *Conversation memory.* The fallback of a failed summarizer keeps the first 3000
  characters of the summary before, the last five questions and the last three
  answers (`memory.py:109`), and archives all twenty turns; a draft keeps what the
  model puts into it. `covered_turn_ids` of the active row has the turns of the last
  compaction only (`memory.py:318`), while the comment on the column
  (`memory.py:411`) calls it the complete list of the turns that the current summary
  covers. `ArchiveTraced` says what does hold: every archived turn was handed down
  to the summary in force, and the rows together, active or not, list each once.
- *Idempotency.* After a crash between submission and commit a retry creates a
  second run of the key.
- *Diagnoses.* The design says that a run taken over twice is recorded as failed;
  nothing records it. The ledger's key has the stage and round its gateway was
  made with (`runtime.py:127`), so that a takeover after a later checkpoint asks
  again. An execution that waited for a thread while another took the run over saves
  its checkpoints and its result all the same (`runtime.py:598`), over a row that the
  other may have ended; only this case is excluded from `FinishedStays`. A delete
  between the record in memory and its save is undone by the save, which inserts the
  row again (`runtime.py:583`). Two takeovers use up the two
  heartbeats even when the executions live and wait.
- *Advice.* The design says (`docs/advertising-anomaly-multi-agent-design.md:93`)
  that the model must name anomaly, evidence and finding, and that what it leaves out
  or makes up falls back to the deterministic result. Only an unknown finding does: an
  anomaly that does not exist, one that was decided on already, or evidence that does
  not exist ends the run as failed (`llm_agents.py:184`, `llm_agents.py:213`). It also
  says (`:129` there) that a change without enough evidence becomes an observation.
  Such a decision is dropped (`llm_agents.py:422`); the branch that would make it an
  observation asks for a verified cause that misses evidence, which no step makes.
  Two targets compared in one report can share the id of a finding
  (`agents.py:1031`); what the model names is then the last of them. A contributing
  cause without a name may stand beside a main cause without one
  (`llm_agents.py:273`), so that both may be one group. The priority of a todo is that
  of the last anomaly of its campaign (`agents.py:1320`), not of the one that caused
  it; only the first thirty causes reach the strategy model, which the model of it does
  not cut; the index of facts has no period in its key.
- *Provider calls.* `docs/listing-mcp-integration.md:27` names timeouts and connection
  errors as a class of their own, and `src/tests/test_listing_mcp.py:115` tests it with
  a transport that raises `TimeoutError` bare. In a session the SDK wraps what is
  raised in a group, which `isinstance` does not see through
  (`listing/mcp_transport.py:79`): a lost connection whose text does not say
  "timeout" may not be retried. A rate limit may be, when an exception says so, and
  not when the provider answers with an error. `OutcomeTrue` states what holds.
- *Gateways.* An entry resolved before a publication may be cached after another
  caller threw the old one away (`gateway.py:566`). A stale entry refused with 400
  or 422 is taken for invalid arguments. A response without a total ends a report
  at its first page; the campaign report of the MCP gateway asks for one page
  only.
- *Imports.* The number of overwritten rows is counted before the upsert. Rows of
  an advertised-product report are keyed by ASIN when there is one. Two imports
  that lock the same rows in other orders are ended by the database.
- *Vault.* Two processes can activate two versions, since each archives only what
  it saw active. When the status query fails behind a successful activation the
  archive file is removed. A process that dies while indexing leaves a version in
  `indexing`. A note of headings only has no chunk. A long text is cut at a number of
  characters: a word that is cut through is in no chunk (`team_knowledge.py:375`). A
  question looks at the two hundred chunks that are most similar to it (`:192`), among
  which those with its word need not be, and is answered with nothing when a query
  fails (`:245`). `SearchFinds` is about the other cases. What is found need not have
  the word in its text: a heading, a path, a title, a tag or a link is enough, as
  `src/tests/test_team_knowledge.py:118` expects. Not modelled are the measure of
  similarity, the pieces a Chinese question is cut into, questions of several words, and
  the cuts of long titles and headings.
- *Listing.* A seed that a request names twice is asked about twice in the first
  batch: `_new_queries` looks only at earlier ones (`keyword_gateway.py:154`), and
  nothing makes the seeds distinct as `initial` does with the products.
  `ResearchOnce` is therefore about requests whose seeds differ (`SeedsApart`), and
  holds whatever the products and the seeds of later rounds are. A query that failed
  counts as executed. Evidence that was excluded in one round is forgotten in the
  next. A draft that needs review is not delivered.
- *Providers.* The wait for a slot has no timeout.
- *Customs.* The last item takes what the rounding left, which can be zero or
  less; a repeated order replaces the boxes of the first before the error is
  reported. The European reader does not look for repeated FBA numbers, and a very
  light item can have a net weight of zero.

## 7. What is proved

All theorems hold for every value of the constants that satisfies the `ASSUME`s
of the module; those say that bounds are numbers, that a queue has a place, and
that `None` is none of the values it is told from.

- `EventHubProofs`: the types (`TypeCorrect`); `NoLeakedSubscriber` (`NoLeak`),
  which is inductive together with the types: a subscription is only registered by
  `Connect`, which finds the page without any, and everything that ends a stream
  removes it; `NoHungStream` (`NoHang`), inductive with the former: the callback
  that removes a live subscription is for the page's newest one, because no other
  is registered, and the sentinel it puts in the queue is taken out only by the
  step that ends the stream. No run checks `NoHungStream`: in the run it follows
  from `EveryPageLearnsTheEnd`.
  The second half of the module is about the order of events:
  `MissingOnlyEvicted` (`OnlyEvictedMissing`) and `InOrder` (`ReceivedInOrder`).
  The inductive invariant (`OrderInv`, `UnbrokenLines`) says where every event
  above a page's last one is. Behind a registered page there is one line without a
  gap (`LineUnbroken`): what is left of its replay, its queue, the callbacks of its
  subscription, and the event `emit` has stored and not yet scheduled; callbacks of
  earlier subscriptions come before all of these. Behind a page whose subscriber
  was removed there is the rest of its queue, which begins at most one event late,
  and the sentinel (`LineCut`); the event it lacks is in `evicted`. Each action
  moves one event from one part of the line to the next.
  The third part proves the refinement, `Spec => Feed!Spec` (`FeedImplemented`,
  one lemma for each step that is not a stutter): `Next` of the hub maps to steps of
  `EventFeed` under the mapping that the module `EventHub` gives. It needs the
  line of events to know that what a page takes is what the feed has next for it,
  and that an overflow takes out the oldest of them (`OverflowEvicts`). This is
  `ImplementsFeed` without its fairness.
- `RequestedWorkProofs`, the registry: the types; `OneFactory` (`FactoryAlone`), because a call
  between INSERT and commit owns its key (`Reserved`); `OrphansAreAborted`
  (`OrphanedByAbort`); and the refinement `Spec => ImplementsPromise`
  (`Implements`). The mapping takes a row that has expired for no promise. The
  inductive invariant adds what the first answer to a key needs: a run named by
  a row or by an answer was answered (`NamedAnswered`), so the run of a commit is
  new.
- `ConversationMemoryProofs`: the types and the safety properties of the run
  `memory`. None of them is inductive. The strengthening says that a lease,
  run out or not, guarantees its holder that nothing was archived or cleared since
  its claim (`LeaseCurrent`: every claim, finalization and clear rewrites the row
  the lease is in), that a compacted turn has both messages behind it
  (`Settled`), and that the question of a cleared turn is not asked again
  (`ForgottenAsked`).
- `ChatRecoveryProofs`: `OneWorker` (`SingleWorker`), `AnsweredOnce`
  (`SingleAnswer`), `ResumedExactly` (`NothingLost`) and `EndedForGood`
  (`EndIsFinal`). They are proved together, for any number of workers alive at
  once. Whoever is alive when the row is stale is in `silent` (`MissedKnown`), so a
  claim adds at most one worker that is not; a row ends under a live worker only
  when `silent` is not empty (`EndsAlone`); every worker, and the checkpoint, hold
  the nodes before the one they are at (`Holds`, `SavedWhole`); while `silent` is
  empty the one worker is at most one node ahead of the checkpoint (`Near`); and the
  answers with those that workers are about to insert are no more than one and the
  size of `silent` (`Answered`), because of the workers that have looked in
  vain at the same time all but one are in it (`UnseenFew`).
- `SharedServicesProofs`: the services behind the agents. Each is proved for
  itself, from a specification of its own, which `SharedServices` implements because
  what happens in the others changes nothing in it
  (`CatalogAlone`, `VaultAlone`, `ListingAlone`, `ImportAlone`).
  *Providers:* the types, slots and outcomes of `CallsSound` (`CallsKept`), and
  that no provider has more sessions than its limit (`SessionsBounded`). The
  strengthening says that a caller inside a call has learnt nothing from it yet
  (`NothingCame`).
  *Catalog:* `CatalogSound` (`OneLookupMore`), from the assumption that a job is a
  sequence of names (`JobsAssumption`). The inductive invariant says that every entry, cached or in a
  caller's hands, was made from versions that were read-only (`Shared`,
  `EntryRead`: what was published keeps its place, a new version is appended), and
  that on its second attempt a caller is excused or has nothing out of date
  (`EntryCurrent`). The excuse is set by the two steps that could break that, a
  publication and a `Keep` of an old entry by somebody else.
  *Vault:* `VaultVersions` (`VaultKept`), from the assumption that uploads are
  numbered (`UploadsAssumption`), for the newest of a state. Neither half is
  inductive: that one version is active at most needs that a transaction saw all
  that are active (`seen` in `StageAndRow`), which holds because one upload is in
  hand at most; the truth of the answers needs what the stage of an upload and its
  row say of each other, and that a successful upload reads its own version back
  (`ShownActive`).
  `VaultSound` (`VaultIsSound`), from the assumption that a ZIP is a sequence of
  notes of lines, a text a sequence of characters, and that a chunk holds a character,
  a search looks at a candidate and finds a chunk at least, and terms are texts.
  Its invariant (`SoundInv`) is short: from the moment the chunks of an upload are
  stored, and as long as it is active, its ZIP was not refused and its chunks are
  the index of that ZIP; and a search that was answered found what is told of it, in
  versions whose ZIP cannot change any more. The rest is about the functions of the
  indexer. The loop over the lines of a note keeps that the characters in the chunks
  under a heading, with the buffer behind them if the heading is the one in force,
  are those of the lines read so far under that heading (`LineHolds`,
  `NoteHeld`); pieces cut at multiples of the limit hold the buffer
  (`PiecesHold`); two notes of a ZIP have two paths, so neither holds text of the
  other (`IndexHolds`). A note of some text has a chunk, and each chunk says what the
  note says of itself (`NoteStored`, `ItselfStored`); a chunk that has the word has a
  score (`ScoreHas`); and when the chunks without the word are fewer than the
  candidates, one with it is among these and so one is ranked (`RankHolds`). That each
  such function exists and follows its rule line by line is proved first
  (`Recursion`, `JoinedBy`, `GatheredBy`), by induction over the length.
  *Listing:* `ListingSound` (`ListingIsSound`), from the assumption that a task is a
  record of names, a reply a sequence of records with a relevance, and that there is a
  tier (`ListingAssumption`). The invariant has three parts. `QueryInv`: what a
  provider was asked and what waits for it are queries that count as executed, and no
  query is twice in the two together; a batch leaves out what is executed, and the
  queries of a batch differ because products are made distinct and a further batch has
  one of a kind. `EvidenceInv`: of each keyword whose records were all relevant, the
  ranked keywords and what came fresh hold all that was heard, and they hold nothing
  else (`Holds`). It is about both providers' answers in any order, and `HoldsRanked`
  carries it over the merge, which forgets excluded evidence and is for that reason
  not correct for the other keywords. `CopyInv`: from the plan to the delivery the
  plan is that of the keywords and has no gaps, and what is delivered passed on this
  plan. The rest is about the functions: a selection is drawn by an increasing
  function (`PickedPicks`); the joint records of a keyword have what all of them saw
  (`JointIs`, `MergedIs`); the order by score is total on positions, so each position
  is taken once (`Positions`, `ByScoreSorts`); and a plan without gaps has the size of
  all tiers, each keyword once, its first tier of keywords both providers know and
  nothing better left out of the others (`AssignedPlans`).
  *Imports:* `ImportsSound` (`ImportsKept`), from the assumption that a file is a
  sequence of rows with the fields the code reads (`ReportsAssumption`). The
  invariant (`TableTrue`) gives the table as the committed imports leave it, each
  row with the position of the last commit that has its key; `FoundStays` says that
  what an import counted as overwritten is in the table until it commits, because
  rows are never removed, and `AllTold` that the sum of what the callers were told
  is no less than the rows of the table. The order of the row locks plays no part:
  a transaction writes all its rows at its commit or none, so what is proved is
  that no order of commits, and no commit between the count and the upsert of
  another import, breaks it.
  The sum over a finite set and the greatest of finitely many numbers need
  induction, which the provers cannot take from the library (its theorems have an
  operator as parameter). `Induced` states it for sets of numbers, and is proved
  from the library's theorem that an injection of a finite set into itself is onto:
  if a set with 0 that is closed under successor left a number out, its part below
  that number would be injected into itself without 0.
- `RequestedWorkProofs`, the requested work: each is proved for itself, as above
  (`AdviceAlone`, `OpenAlone`, and the same step in the last two theorems).
  *Advice:* `AdviceSound` (`AdviceKept`), from the assumption that the rows of the
  detail reports are finitely many, told apart by their id, with amounts that are
  naturals, and that the target is above zero (`DetailsAssumption`). What is
  promised about a todo is about anomalies, findings, causes and recommendations of
  different steps; the invariant carries each link (`FindingTrue`, `CauseTrue`,
  `ProposalTrue`). That an anomaly has one main cause and at most two others
  (`OneMain`) rests on the order of the findings being total on the findings of one
  anomaly (`FindingsOrdered`), because then the first exists (`FirstIs`) and at most
  two are among the first two (`FirstTwoAre`). For the model's attribution the
  invariant says it of the anomalies decided on so far, in `narrated`: a decision adds
  an anomaly that was not among them, with one main cause and two others at most,
  however many it names and of whatever objects (`NarratedIs`), and those never decided
  on keep theirs. Todos are
  distinct because each takes the place of one new recommendation (`Places`: the
  places of n numbers are 1 to n, each taken once).
  *Open reports:* `ReportScoped` (`ReportsKept`), from the assumption that tables are
  sequences of rows and a page has room for one (`TablesAssumption`). The invariant
  gives what has been read at every page (`RowsRead`, `CampaignsRead`): the tables of
  the queries that are done, and of the query at hand the rows in front of the
  offset (`PageRead`: a page continues them, and the last one ends them). A row that
  arrives breaks this, as it moves the rows that come after it, but not that the
  campaigns found are those of the products asked for.
  *Sums and shares:* both declarations add up columns, so the module first proves what
  the sum over a finite set does (`SumWith`, `SumWithout`, `SumAlike`, `SumMapped`,
  `TotalLast`, `TotalOnly`): the community module defines it with a choice of the
  order, and `Induced` shows that the order does not matter. `WeightsAreSplit` is
  `Split` for every weight and all positive parts: the halves are rounded up
  (`Halves`), the shares add up because the last takes what is left (`SharesSum`),
  and net is below gross item by item because rounding is monotone (`NetLess`,
  `HalvesOrdered`).
  *Customs:* `DeclarationSound` (`DeclarationIsSound`), from the assumption that the
  rules of the catalog are distinct and their weights are numbers
  (`CustomsAssumption`; a missing weight is 0 and makes the row an error). The
  promise is about the files, the code keeps running totals; the invariant
  (`CustomsInv`) says of them, as long as nothing was reported, what they are of
  the rows read so far. Every order that a row names
  has a category (`AssignedFrom`); the boxes of an order are those of its rows, of which there is
  one (`PackedFrom`: a repeated order is an error); the quantity of a category and
  product is the sum over the rows that stand below an order of that category
  (`Counted`, `Itemized`), where the order of a row is the last one named above it
  or in it (`OwnerNext`). `CustomsDeclared` goes from there to the files: the sum over
  the items of a file is the sum over its products (`CustomsSums`, `CustomsNth`).
  *Europe:* `RowsDeclared` (`RowsAreDeclared`), from the assumption that a row's
  names are strings and its numbers naturals (`EuropeanAssumption`). As long as nothing was
  reported, the shipments say of each category what the rows below its headings say:
  the same boxes, the same pairs of product and price, and for each pair the same
  quantity (`Faithful`: sums over places in the shipments are sums over rows of the
  sheet; `RowKept` for one more row). The items of a file are the pairs that occur
  (`Ranked`, `EuropeanKeys`: finitely many places in an order without ties have an
  n-th one for each n).
- `AdvertisingRunsProofs`: `TakeoversSafe` (`TakenOverSafely`), `ResumedAsLeft`
  (`GoesOnAsLeft`) and `FinishedStays` (`EndedStays`: after an execution has hung it
  speaks only of a run without a live one). The inductive invariant has
  three parts. `Path`: checkpoints and executions hold states the uninterrupted
  graph reaches, and the function a takeover enters the graph by agrees with its
  edges on them. `Scope`: until a restart or a deletion, memory knows owner and
  scope. `Single`, as long as no execution has hung: one execution is live or
  claimed, and row, memory and claim count the same takeovers.
- `AdvertisingReadsProofs`: `QuotaCovers` (`AlwaysCovers`), `RepeatedByTakeover`
  (`OnlyTakeoversRepeat`) and `EvidenceKept` (`EvidenceNeverLost`), for any number
  of campaigns and report types and any quota, focus and batch size. They rest on
  lemmas about the batches of a set (`BatchOf`, `BatchedAll`: none is empty or
  larger than it may be, each campaign is in exactly one, and there are no more
  batches than campaigns; a campaign's batch is the quotient of its place, and every
  place is taken, since an injection between finite sets of one size is onto).
  Coverage is not inductive: `FirstRead` adds that the calls reserved in the first
  round and the batches that wait are together at most as many as the focus
  has campaigns, that what was not tried waits, and that nothing a type
  matters most for waits once something was read for depth. A round therefore ends
  its waves because nothing waits, not because the quota is used up. For the
  repetitions `Fresh` says that what waits or is on its way has no evidence and is
  in no other batch, and that a pair was answered once for its evidence and at
  most once for each takeover. The proof shows where the private scope breaks
  this (section 6): `Waiting` is about what `Queried` names, and only without a
  scope is that the evidence.
- `ControllerRunProofs`: `StagesSettled` (`Settled`), `FollowupsBounded`
  (`RoundsEnd`), `ReportComplete` (`ReportWhole`), `OnlyVerificationRefused` for
  `MaxRounds <= 2`, the planner's limit (`TransitionsAllowed`), and
  `NothingAfterTheEnd` (`EndIsLast`). The properties speak of the log of events, the
  code of nodes, so the invariant ties them together. `At` says for every node which
  stage is open, or which was the last; without it nothing says that a transition
  is an allowed one. `UnitLog` says of the log that each specialist has one start
  and one end, the end before its stage completes; `SectionLog`, that the sections
  stand in it once and in order. `Ends` says which end events it holds when the
  controller is terminal, `RefusedOnly` where a refusal can have come from. Lemmas on
  appending one or two events carry the log parts through the actions.

Only model-checked: all liveness (`EveryPageLearnsTheEnd`, `StreamCloses`,
`EndsAfterCheckpoint`, `EveryCallEnds`, `EveryRunSettles`, the fairness half of
`ImplementsFeed`), which is beyond the prover. Every invariant and every action property
of a run that passes is stated by a theorem.

## 8. What is not modelled

- The report specialist of the chat (`advertising/report_specialist.py`), NL2SQL
  and competitor research: queries a model writes and texts it reads, guarded by
  single checks without state.
- The LLM client, prompts, answers, report texts, presentation and observability:
  data without a protocol. In the models a model's answer is a free choice.
- Authentication and users: single statements.
- `InMemoryIdempotencyRegistry` and the in-memory stores, which hold one lock over
  each operation.
- The older import batches of one owner, which no route uses any more, and
  the selection gateway's reads, which pass through.
- Spreadsheets and documents as bytes: the wording of errors, the cells of a
  template, the protocol of a provider.
- The rest of the front end, which shows what the stream client gives it, and
  deployment.

`PROJECT.json` lists every part with its status and the reason.
