--------------------------- MODULE AdvertisingRuns ---------------------------
(***************************************************************************)
(* One advertising diagnosis: its row in PostgreSQL, the API process that  *)
(* runs it on a thread pool, the restarts of that process, the recovery    *)
(* monitor that takes a stale run over, and the deletion of its history    *)
(* (advertising/runtime.py, advertising/history.py, advertising/graph.py). *)
(*                                                                         *)
(* The database outlives the process: row and ckpt.  The process           *)
(* keeps mem (the manager's _runs, _owners and _execution_scopes of this   *)
(* run) and the workers of its executor.  What the agents find is a free   *)
(* choice here: AdvertisingReads and AdvertisingAdvice are about that.     *)
(***************************************************************************)
EXTENDS Naturals, FiniteSets

CONSTANTS
    MaxExecutions,  \* bound: executions of the run that are live together
    PoolSize,       \* max_workers of the executor
    MaxTakeovers,   \* recovery_count < 2 in reserve_recovery
    MaxRounds,      \* MAX_ATTRIBUTION_ROUNDS
    MaxRestarts     \* bound: restarts of the process

ASSUME RunsAssumption ==
    /\ MaxExecutions \in Nat \ {0}
    /\ PoolSize \in Nat \ {0}
    /\ MaxRounds \in Nat \ {0}
    /\ {MaxTakeovers, MaxRestarts} \subseteq Nat

VARIABLES
    row,        \* the row of advertising_diagnostic_runs
    ckpt,       \* the newest row of advertising_diagnostic_checkpoints
    mem,        \* what the manager remembers of the run
    worker,     \* the executions, by slot
    monitor,    \* the recovery thread: idle, holding a claimed record, or dead
    restarts,
    (* history *)
    hung,       \* an execution, live or claimed, went thirty minutes without a checkpoint
    takeovers,  \* claims of the run, counted up to one more than allowed
    deleted     \* the owner deleted the run

vars == <<row, ckpt, mem, worker, monitor, restarts, hung, takeovers, deleted>>

Workers == 1..MaxExecutions

Nodes == {"inspect_data", "attribute_problem", "recommend_strategy", "review_and_create_todos"}
Stages == {"queued", "data_inspection", "problem_attribution", "strategy_recommendation", "review_todo"}

GraphState == [stage: Stages, round: 0..MaxRounds, inspected: {"no", "clean", "anomalous"},
               attributed: BOOLEAN, more: BOOLEAN, strategy: BOOLEAN]
FreshState == [stage |-> "queued", round |-> 0, inspected |-> "no",
               attributed |-> FALSE, more |-> FALSE, strategy |-> FALSE]

Row == [there: BOOLEAN, owned: BOOLEAN, status: {"running", "completed", "failed"},
        count: 0..MaxTakeovers, fresh: BOOLEAN]
NoRow == [there |-> FALSE, owned |-> FALSE, status |-> "running", count |-> 0, fresh |-> FALSE]

Memory == [there: BOOLEAN, status: {"running", "completed", "failed"}, count: 0..MaxTakeovers,
           owned: BOOLEAN, scoped: BOOLEAN]
NoMemory == [there |-> FALSE, status |-> "running", count |-> 0, owned |-> FALSE, scoped |-> FALSE]

Steps == {"idle", "queued", "node", "checkpoint", "record", "publish", "save"}
Worker == [pc: Steps, lease: 0..MaxTakeovers, node: Nodes, st: GraphState,
           outcome: {"completed", "failed"}, scoped: BOOLEAN]
IdleWorker == [pc |-> "idle", lease |-> 0, node |-> "inspect_data", st |-> FreshState,
               outcome |-> "failed", scoped |-> FALSE]

Monitor == [state: {"idle", "claimed", "dead"}, count: 0..MaxTakeovers]
IdleMonitor == [state |-> "idle", count |-> 0]

Live == {w \in Workers : worker[w].pc # "idle"}
Busy == {w \in Live : worker[w].pc # "queued"}
Goes(w, pc) == [worker EXCEPT ![w].pc = pc]

(* The row a save writes: every column comes from the record in memory; the *)
(* record of a finished run has no heartbeat.                               *)
Saved(status, count, owned) ==
    [there |-> TRUE, owned |-> owned, status |-> status, count |-> count, fresh |-> status = "running"]

Init ==
    /\ row = NoRow /\ ckpt = FreshState
    /\ mem = NoMemory /\ worker = [w \in Workers |-> IdleWorker]
    /\ monitor = IdleMonitor /\ restarts = 0
    /\ hung = FALSE /\ takeovers = 0 /\ deleted = FALSE

(***************************************************************************)
(* Submission.  The record is in memory before it is saved; a save that    *)
(* fails leaves it there and nothing is queued.                            *)
(***************************************************************************)
Submit ==
    /\ ~mem.there /\ ~row.there /\ ~deleted /\ \A w \in Workers : worker[w].pc = "idle"
    /\ mem' = [there |-> TRUE, status |-> "running", count |-> 0, owned |-> TRUE, scoped |-> TRUE]
    /\ \/ /\ row' = Saved("running", 0, TRUE)
          /\ worker' = Goes(1, "queued")
       \/ UNCHANGED <<row, worker>>
    /\ UNCHANGED <<ckpt, monitor, restarts, hung, takeovers, deleted>>

(***************************************************************************)
(* _execute.  A takeover renews its lease and enters the graph where its   *)
(* checkpoint says; the private scope is the one this process remembers.   *)
(***************************************************************************)
NextNodeUnbounded(st) ==     \* mutated form of NextNode
    CASE st.stage = "queued" -> "inspect_data"
      [] st.stage = "data_inspection" ->
            IF st.inspected = "anomalous" THEN "attribute_problem" ELSE "review_and_create_todos"
      [] st.stage = "problem_attribution" -> IF st.more THEN "attribute_problem" ELSE "recommend_strategy"
      [] OTHER -> "review_and_create_todos"

NextNode(st) ==
    CASE st.stage = "queued" -> "inspect_data"
      [] st.stage = "data_inspection" ->
            IF st.inspected = "anomalous" THEN "attribute_problem" ELSE "review_and_create_todos"
      [] st.stage = "problem_attribution" ->
            IF st.more /\ st.round < MaxRounds THEN "attribute_problem" ELSE "recommend_strategy"
      [] OTHER -> "review_and_create_todos"

(* A heartbeat reaches the row while it still names this lease; a lease is  *)
(* told apart from the others by the recovery count it was given with.      *)
Heartbeat(w) ==
    [row EXCEPT !.fresh = @ \/ (worker[w].lease # 0 /\ row.count = worker[w].lease /\ row.status = "running")]

Begin(w) ==
    /\ worker[w].pc = "queued" /\ Cardinality(Busy) < PoolSize
    /\ worker' = [worker EXCEPT ![w].pc = "node",
                                ![w].node = NextNode(worker[w].st),
                                ![w].scoped = mem.scoped]
    /\ row' = Heartbeat(w)
    /\ UNCHANGED <<ckpt, mem, monitor, restarts, hung, takeovers, deleted>>

Ended(w, outcome) ==
    [worker EXCEPT ![w] = [IdleWorker EXCEPT !.pc = "publish", !.outcome = outcome, !.scoped = worker[w].scoped]]
Raised(w) == Ended(w, "failed")

(* The edges of the graph. *)
Edge(node, st) ==
    CASE node = "inspect_data" -> IF st.inspected = "anomalous" THEN "attribute_problem"
                                                                ELSE "review_and_create_todos"
      [] node = "attribute_problem" -> IF st.more /\ st.round < MaxRounds THEN "attribute_problem"
                                                                           ELSE "recommend_strategy"
      [] node = "recommend_strategy" -> "review_and_create_todos"

(* What the graph state is after a node, for each result of its agent. *)
After(node, st) ==
    CASE node = "inspect_data" ->
            {[st EXCEPT !.stage = "data_inspection", !.round = 0, !.inspected = found] :
                found \in {"clean", "anomalous"}}
      [] node = "attribute_problem" ->
            {[st EXCEPT !.stage = "problem_attribution", !.round = @ + 1, !.attributed = TRUE, !.more = more] :
                more \in BOOLEAN}
      [] node = "recommend_strategy" -> {[st EXCEPT !.stage = "strategy_recommendation", !.strategy = TRUE]}
      [] node = "review_and_create_todos" -> {[st EXCEPT !.stage = "review_todo"]}

NodeReturns(w) ==
    /\ worker[w].pc = "node"
    /\ \E st \in After(worker[w].node, worker[w].st) :
          worker' = [worker EXCEPT ![w].pc = "checkpoint", ![w].st = st]
    /\ UNCHANGED <<row, ckpt, mem, monitor, restarts, hung, takeovers, deleted>>

(* The model, the guardrails or a provider raise inside the node. *)
NodeRaises(w) ==
    /\ worker[w].pc = "node"
    /\ worker' = Raised(w)
    /\ UNCHANGED <<row, ckpt, mem, monitor, restarts, hung, takeovers, deleted>>

(***************************************************************************)
(* _checkpoint: the state, the heartbeat of a lease, then the record of    *)
(* memory over the row.  The checkpoint of a deleted run fails on its      *)
(* foreign key and with it the run.                                        *)
(***************************************************************************)
SaveCheckpoint(w) ==
    /\ worker[w].pc = "checkpoint"
    /\ IF row.there
       THEN /\ ckpt' = worker[w].st
            /\ row' = Heartbeat(w)
            /\ worker' = Goes(w, "record")
       ELSE /\ worker' = Raised(w)
            /\ UNCHANGED <<row, ckpt>>
    /\ UNCHANGED <<mem, monitor, restarts, hung, takeovers, deleted>>

(* The record as memory has it now, then the edge of the graph. *)
SaveRecord(w) ==
    /\ worker[w].pc = "record"
    /\ row' = IF mem.there THEN Saved(mem.status, mem.count, mem.owned) ELSE row
    /\ worker' = IF worker[w].node = "review_and_create_todos"
                 THEN Ended(w, "completed")
                 ELSE [worker EXCEPT ![w].pc = "node", ![w].node = Edge(worker[w].node, worker[w].st)]
    /\ UNCHANGED <<ckpt, mem, monitor, restarts, hung, takeovers, deleted>>

(* The end of _execute: the record in memory, then the row, with the owner   *)
(* memory has at that moment.                                               *)
Publish(w) ==
    /\ worker[w].pc = "publish"
    /\ mem' = [mem EXCEPT !.there = TRUE, !.status = worker[w].outcome, !.count = 0]
    /\ worker' = Goes(w, "save")
    /\ UNCHANGED <<row, ckpt, monitor, restarts, hung, takeovers, deleted>>

(* A save that fails leaves the row as it was: running. *)
SaveResult(w) ==
    /\ worker[w].pc = "save"
    /\ row' \in {row, Saved(worker[w].outcome, 0, mem.owned)}
    /\ worker' = [worker EXCEPT ![w] = IdleWorker]
    /\ UNCHANGED <<ckpt, mem, monitor, restarts, hung, takeovers, deleted>>

(***************************************************************************)
(* Time, recovery, restarts and deletion.                                  *)
(***************************************************************************)
(* Thirty minutes pass since the heartbeat.  The lease of five minutes is   *)
(* never written later than the heartbeat, so it has run out by then too.   *)
(* A live execution lets so much time pass only where it waits: in the      *)
(* executor's queue, for a provider, for the model.                         *)
GoesStale ==
    /\ \A w \in Live : worker[w].pc \in {"queued", "node"}
    /\ row.there /\ row.status = "running" /\ row.fresh
    /\ row' = [row EXCEPT !.fresh = FALSE]
    /\ hung' = (hung \/ Live # {} \/ monitor.state = "claimed")
    /\ UNCHANGED <<ckpt, mem, worker, monitor, restarts, takeovers, deleted>>

(* The conditions of reserve_recovery, in one UPDATE. *)
ClaimableAnyStatus == row.there /\ ~row.fresh /\ row.count < MaxTakeovers     \* mutated form of Claimable
ClaimableOnce == row.there /\ row.status = "running" /\ ~row.fresh /\ row.count + 1 < MaxTakeovers     \* mutated form of Claimable
Claimable == row.there /\ row.status = "running" /\ ~row.fresh /\ row.count < MaxTakeovers

Claimed == [row EXCEPT !.count = @ + 1, !.fresh = TRUE]

Claim ==
    /\ monitor.state = "idle" /\ Claimable
    /\ row' = Claimed
    /\ monitor' = [state |-> "claimed", count |-> Claimed.count]
    /\ takeovers' = IF takeovers <= MaxTakeovers THEN takeovers + 1 ELSE takeovers
    /\ UNCHANGED <<ckpt, mem, worker, restarts, hung, deleted>>

(* The claimed run goes to the executor with its newest checkpoint.  Its    *)
(* record enters memory; owner and scope stay what this process has.       *)
(* Bound: the first free slot, while there is one.                          *)
NextSlot(w) == worker[w].pc = "idle" /\ \A v \in 1..(w - 1) : worker[v].pc # "idle"

AdoptedZero == [mem EXCEPT !.there = TRUE, !.status = "running", !.count = 0]     \* mutated form of Adopted
Adopted == [mem EXCEPT !.there = TRUE, !.status = "running", !.count = monitor.count]

Adopt ==
    /\ monitor.state = "claimed"
    /\ mem' = Adopted
    /\ \E w \in Workers :
          /\ NextSlot(w)
          /\ worker' = [worker EXCEPT ![w] = [IdleWorker EXCEPT !.pc = "queued", !.lease = monitor.count, !.st = ckpt]]
    /\ monitor' = IdleMonitor
    /\ UNCHANGED <<row, ckpt, restarts, hung, takeovers, deleted>>

(* An exception of the store ends the monitor's thread, before or after a   *)
(* claim; nothing starts another until the process starts again.            *)
MonitorDies ==
    /\ monitor.state # "dead"
    /\ monitor' = [state |-> "dead", count |-> 0]
    /\ UNCHANGED <<row, ckpt, mem, worker, restarts, hung, takeovers, deleted>>

(* The process ends, by a crash or by close, and starts again. *)
Restart ==
    /\ restarts < MaxRestarts
    /\ restarts' = restarts + 1
    /\ mem' = NoMemory
    /\ worker' = [w \in Workers |-> IdleWorker]
    /\ monitor' = IdleMonitor
    /\ UNCHANGED <<row, ckpt, hung, takeovers, deleted>>

(* delete_history: refused while memory has it running; the rows of its     *)
(* checkpoints and calls go with it.                                        *)
Delete ==
    /\ ~(mem.there /\ mem.owned /\ mem.status = "running")
    /\ row.there /\ row.owned
    /\ row' = NoRow /\ ckpt' = FreshState
    /\ mem' = IF mem.owned THEN [NoMemory EXCEPT !.scoped = mem.scoped] ELSE mem
    /\ deleted' = TRUE
    /\ UNCHANGED <<worker, monitor, restarts, hung, takeovers>>

Execute(w) ==
    \/ Begin(w) \/ NodeReturns(w) \/ NodeRaises(w)
    \/ SaveCheckpoint(w) \/ SaveRecord(w) \/ Publish(w) \/ SaveResult(w)

Next ==
    \/ Submit \/ GoesStale \/ Claim \/ Adopt \/ MonitorDies \/ Restart \/ Delete
    \/ \E w \in Workers : Execute(w)

(* The executor's threads and the monitor's are scheduled, and time passes. *)
(* Users, failures of the store and restarts are not owed.                  *)
Fairness ==
    /\ \A w \in Workers : WF_vars(Execute(w))
    /\ WF_vars(GoesStale) /\ WF_vars(Claim) /\ WF_vars(Adopt)

Spec == Init /\ [][Next]_vars /\ Fairness

-----------------------------------------------------------------------------
(* Every variable has its type. *)
TypeOK ==
    /\ row \in Row /\ ckpt \in GraphState /\ mem \in Memory
    /\ worker \in [Workers -> Worker] /\ monitor \in Monitor /\ restarts \in 0..MaxRestarts
    /\ {hung, deleted} \subseteq BOOLEAN /\ takeovers \in Nat

(* A node runs only on the state the uninterrupted graph would give it: no  *)
(* attribution without an anomaly or beyond the last round, no strategy     *)
(* while evidence is missing, no review of an anomaly without a strategy.   *)
(* A takeover enters the graph by _next_node, the first execution walks its *)
(* edges; both must agree.                                                  *)
PathUnbroken ==
    \A w \in Workers : worker[w].pc = "node" =>
        LET st == worker[w].st IN
        CASE worker[w].node = "inspect_data" -> st.stage = "queued"
          [] worker[w].node = "attribute_problem" -> st.inspected = "anomalous" /\ st.round < MaxRounds
          [] worker[w].node = "recommend_strategy" -> st.attributed /\ (st.more => st.round = MaxRounds)
          [] worker[w].node = "review_and_create_todos" ->
                st.inspected = "clean" \/ (st.inspected = "anomalous" /\ st.strategy)

(* As long as no live execution goes thirty minutes without a checkpoint,   *)
(* a run has one execution at a time: the claim renews the heartbeat, and   *)
(* so does each checkpoint.                                                 *)
OneExecution == ~hung => Cardinality(Live) <= 1

(* ... and it is taken over at most twice, over every restart and through   *)
(* every save that copies the record of memory over the row.                *)
TakeoversBounded == ~hung => takeovers <= MaxTakeovers

(* A row that says completed or failed says nothing else later, unless an   *)
(* execution went thirty minutes without a checkpoint and one is still      *)
(* live: the late checkpoint or result of an execution that was overtaken   *)
(* is written over the row, since save asks for no lease.                   *)
FinishedStays ==
    [][(row.there /\ row.status # "running" /\ row'.there /\ (hung => Live = {}))
          => row'.status = row.status]_vars

(* While the process that took the run is up, its row is its owner's and    *)
(* every execution reads through the private scope, takeovers included.     *)
KeepsOwnerAndScope ==
    (restarts = 0 /\ ~deleted) =>
        /\ row.there => row.owned
        /\ \A w \in Busy : worker[w].scoped

(* Together: a run is executed once at a time and taken over twice at most.  *)
TakeoversSafe == TypeOK /\ OneExecution /\ TakeoversBounded

(* Together: what takes a run over goes on from its state and for its user.  *)
ResumedAsLeft == PathUnbroken /\ KeepsOwnerAndScope

(* A run that is saved ends, is deleted, or is beyond recovery: taken over  *)
(* as often as allowed, or without a monitor.                               *)
BeyondRecovery ==
    /\ Live = {}
    /\ row.count = MaxTakeovers \/ monitor.state = "dead"
EveryRunSettles ==
    row.there ~> (~row.there \/ row.status # "running" \/ BeyondRecovery)

(* The row of a run names the user who started it: history.py:381 says that *)
(* owner_id is that user and isolates the data of users.                    *)
OwnerKept == row.there => row.owned
=============================================================================
