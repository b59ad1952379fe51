------------------------ MODULE AdvertisingRunsProofs ------------------------
(***************************************************************************)
(* Proofs about AdvertisingRuns: whatever restarts, hangs or is deleted, a  *)
(* takeover enters the graph where the interrupted execution left it; and   *)
(* while no execution hangs, there is one at a time, the takeovers are      *)
(* bounded, and what has ended stays ended.                                 *)
(***************************************************************************)
EXTENDS AdvertisingRuns, FiniteSetTheorems, TLAPS

Alive(w) == worker[w].pc # "idle"

-----------------------------------------------------------------------------
(***************************************************************************)
(* The path through the graph.                                              *)
(***************************************************************************)

\* What a state that was left by a node says of itself, by its stage.
Consistent(st) ==
    /\ st.stage = "data_inspection" => st.inspected \in {"clean", "anomalous"} /\ st.round = 0
    /\ st.stage = "problem_attribution" => st.inspected = "anomalous" /\ st.attributed
    /\ st.stage = "strategy_recommendation" => st.inspected = "anomalous" /\ st.strategy
    /\ st.stage = "review_todo" => st.inspected = "clean" \/ (st.inspected = "anomalous" /\ st.strategy)

\* A state on which the node may run.
AtNode(node, st) ==
    /\ node = "inspect_data" => st.stage = "queued"
    /\ node = "attribute_problem" => st.inspected = "anomalous" /\ st.round < MaxRounds
    /\ node = "recommend_strategy" =>
          st.inspected = "anomalous" /\ st.attributed /\ (st.more => st.round = MaxRounds)
    /\ node = "review_and_create_todos" => st.inspected = "clean" \/ (st.inspected = "anomalous" /\ st.strategy)

\* A state as the node leaves it.
Left(node, st) ==
    /\ Consistent(st)
    /\ node = "inspect_data" => st.stage = "data_inspection"
    /\ node = "attribute_problem" => st.stage = "problem_attribution"
    /\ node = "recommend_strategy" => st.stage = "strategy_recommendation"

OnPath(w) ==
    /\ worker[w].pc \in {"idle", "queued"} => Consistent(worker[w].st)
    /\ worker[w].pc = "node" => AtNode(worker[w].node, worker[w].st)
    /\ worker[w].pc \in {"checkpoint", "record"} => Left(worker[w].node, worker[w].st)

Path == Consistent(ckpt) /\ \A w \in Workers : OnPath(w)

LEMMA FreshConsistent == FreshState \in GraphState /\ Consistent(FreshState)
<1>1. 0 \in 0..MaxRounds
  BY RunsAssumption
<1> QED
  BY <1>1 DEF FreshState, GraphState, Consistent, Stages

\* _next_node enters the graph at a node that may run on the checkpoint.
LEMMA Enters ==
  ASSUME NEW st \in GraphState, Consistent(st)
  PROVE  NextNode(st) \in Nodes /\ AtNode(NextNode(st), st)
<1>1. /\ st.stage \in Stages /\ st.round \in 0..MaxRounds /\ MaxRounds \in Nat \ {0}
      /\ st.inspected \in {"no", "clean", "anomalous"}
  BY RunsAssumption DEF GraphState
<1>2. CASE st.stage = "queued"
  <2>1. NextNode(st) = "inspect_data"
    BY <1>2 DEF NextNode
  <2> QED
    BY <1>2, <2>1 DEF Nodes, AtNode
<1>3. CASE st.stage = "data_inspection"
  <2>1. CASE st.inspected = "anomalous"
    <3>1. NextNode(st) = "attribute_problem"
      BY <1>3, <2>1 DEF NextNode
    <3>2. st.round < MaxRounds
      BY <1>1, <1>3 DEF Consistent
    <3> QED
      BY <2>1, <3>1, <3>2 DEF Nodes, AtNode
  <2>2. CASE st.inspected # "anomalous"
    <3>1. NextNode(st) = "review_and_create_todos"
      BY <1>3, <2>2 DEF NextNode
    <3>2. st.inspected = "clean"
      BY <1>3, <2>2 DEF Consistent
    <3> QED
      BY <3>1, <3>2 DEF Nodes, AtNode
  <2> QED
    BY <2>1, <2>2
<1>4. CASE st.stage = "problem_attribution"
  <2>1. st.inspected = "anomalous" /\ st.attributed
    BY <1>4 DEF Consistent
  <2>2. CASE st.more /\ st.round < MaxRounds
    <3>1. NextNode(st) = "attribute_problem"
      BY <1>4, <2>2 DEF NextNode
    <3> QED
      BY <2>1, <2>2, <3>1 DEF Nodes, AtNode
  <2>3. CASE ~(st.more /\ st.round < MaxRounds)
    <3>1. NextNode(st) = "recommend_strategy"
      BY <1>4, <2>3 DEF NextNode
    <3>2. st.more => st.round = MaxRounds
      BY <1>1, <2>3
    <3> QED
      BY <2>1, <3>1, <3>2 DEF Nodes, AtNode
  <2> QED
    BY <2>2, <2>3
<1>5. CASE st.stage \in {"strategy_recommendation", "review_todo"}
  <2>1. NextNode(st) = "review_and_create_todos"
    BY <1>5 DEF NextNode
  <2> QED
    BY <1>5, <2>1 DEF Nodes, AtNode, Consistent
<1> QED
  BY <1>1, <1>2, <1>3, <1>4, <1>5 DEF Stages

\* A node leaves a state that says where it was left.
LEMMA Walks ==
  ASSUME NEW node \in Nodes, NEW st \in GraphState, AtNode(node, st), NEW new \in After(node, st)
  PROVE  new \in GraphState /\ Left(node, new)
<1>1. st.round \in 0..MaxRounds /\ MaxRounds \in Nat \ {0} /\ 0 \in 0..MaxRounds
  BY RunsAssumption DEF GraphState
<1>2. CASE node = "inspect_data"
  <2>1. PICK found \in {"clean", "anomalous"} :
          new = [st EXCEPT !.stage = "data_inspection", !.round = 0, !.inspected = found]
    BY <1>2 DEF After
  <2> QED
    BY <1>1, <1>2, <2>1 DEF GraphState, Stages, Left, Consistent
<1>3. CASE node = "attribute_problem"
  <2>1. PICK more \in BOOLEAN :
          new = [st EXCEPT !.stage = "problem_attribution", !.round = @ + 1, !.attributed = TRUE, !.more = more]
    BY <1>3 DEF After
  <2>2. st.inspected = "anomalous" /\ st.round + 1 \in 0..MaxRounds
    BY <1>1, <1>3 DEF AtNode
  <2>3. new \in GraphState /\ new.stage = "problem_attribution" /\ new.inspected = "anomalous" /\ new.attributed
    BY <2>1, <2>2 DEF GraphState, Stages
  <2> QED
    BY <1>3, <2>3 DEF Left, Consistent
<1>4. CASE node = "recommend_strategy"
  <2>1. new = [st EXCEPT !.stage = "strategy_recommendation", !.strategy = TRUE]
    BY <1>4 DEF After
  <2>2. st.inspected = "anomalous"
    BY <1>4 DEF AtNode
  <2>3. new \in GraphState /\ new.stage = "strategy_recommendation" /\ new.inspected = "anomalous" /\ new.strategy
    BY <2>1, <2>2 DEF GraphState, Stages
  <2> QED
    BY <1>4, <2>3 DEF Left, Consistent
<1>5. CASE node = "review_and_create_todos"
  <2>1. new = [st EXCEPT !.stage = "review_todo"]
    BY <1>5 DEF After
  <2>2. st.inspected = "clean" \/ (st.inspected = "anomalous" /\ st.strategy)
    BY <1>5 DEF AtNode
  <2>3. /\ new \in GraphState /\ new.stage = "review_todo" /\ new.inspected = st.inspected
        /\ new.strategy = st.strategy
    BY <2>1 DEF GraphState, Stages
  <2> QED
    BY <1>5, <2>2, <2>3 DEF Left, Consistent
<1> QED
  BY <1>2, <1>3, <1>4, <1>5 DEF Nodes

\* The edges of the graph lead to a node that may run on what the last one left.
LEMMA Follows ==
  ASSUME NEW node \in Nodes \ {"review_and_create_todos"}, NEW st \in GraphState, Left(node, st)
  PROVE  Edge(node, st) \in Nodes /\ AtNode(Edge(node, st), st)
<1>1. /\ st.round \in 0..MaxRounds /\ MaxRounds \in Nat \ {0} /\ Consistent(st)
  BY RunsAssumption DEF GraphState, Left
<1>2. CASE node = "inspect_data"
  <2>1. st.inspected \in {"clean", "anomalous"} /\ st.round < MaxRounds
    BY <1>1, <1>2 DEF Left, Consistent
  <2>2. Edge(node, st) = IF st.inspected = "anomalous" THEN "attribute_problem" ELSE "review_and_create_todos"
    BY <1>2 DEF Edge
  <2> QED
    BY <2>1, <2>2 DEF Nodes, AtNode
<1>3. CASE node = "attribute_problem"
  <2>1. st.inspected = "anomalous" /\ st.attributed
    BY <1>1, <1>3 DEF Left, Consistent
  <2>2. CASE st.more /\ st.round < MaxRounds
    <3>1. Edge(node, st) = "attribute_problem"
      BY <1>3, <2>2 DEF Edge
    <3> QED
      BY <2>1, <2>2, <3>1 DEF Nodes, AtNode
  <2>3. CASE ~(st.more /\ st.round < MaxRounds)
    <3>1. Edge(node, st) = "recommend_strategy"
      BY <1>3, <2>3 DEF Edge
    <3>2. st.more => st.round = MaxRounds
      BY <1>1, <2>3
    <3> QED
      BY <2>1, <3>1, <3>2 DEF Nodes, AtNode
  <2> QED
    BY <2>2, <2>3
<1>4. CASE node = "recommend_strategy"
  <2>1. st.inspected = "anomalous" /\ st.strategy
    BY <1>1, <1>4 DEF Left, Consistent
  <2>2. Edge(node, st) = "review_and_create_todos"
    BY <1>4 DEF Edge
  <2> QED
    BY <2>1, <2>2 DEF Nodes, AtNode
<1> QED
  BY <1>2, <1>3, <1>4 DEF Nodes

-----------------------------------------------------------------------------
(***************************************************************************)
(* The inductive invariant.                                                 *)
(***************************************************************************)

Claims == monitor.state = "claimed"
Running == row.there /\ row.status = "running"

\* While nothing hangs: at most one execution, live or claimed; where there is
\* one, the row that still says running has a heartbeat; and the row, the
\* memory and the claim count the same takeovers.
Single ==
    /\ \A v, w \in Workers : Alive(v) /\ Alive(w) => v = w
    /\ Claims => (\A w \in Workers : ~Alive(w)) /\ monitor.count = takeovers /\ (row.there \/ deleted)
    /\ (Claims \/ \E w \in Workers : Alive(w)) => (row.there => Running /\ row.fresh)
    /\ \A w \in Workers : Alive(w) /\ worker[w].pc # "save" =>
          mem.there /\ mem.status = "running" /\ mem.count = takeovers
    /\ Running => row.count = takeovers
    /\ ~row.there /\ ~deleted => takeovers = 0
    /\ takeovers <= MaxTakeovers

\* Until the first restart or the deletion: where there is anything of the run,
\* memory knows its owner and its scope.
Scope ==
    (restarts = 0 /\ ~deleted) =>
        /\ (row.there \/ Claims \/ \E w \in Workers : Alive(w)) => mem.owned /\ mem.scoped
        /\ row.there => row.owned
        /\ \A w \in Workers : worker[w].pc \notin {"idle", "queued"} => worker[w].scoped

Inv == TypeOK /\ Path /\ Scope /\ (~hung => Single)

-----------------------------------------------------------------------------
(***************************************************************************)
(* One execution changes and the others stay.                               *)
(***************************************************************************)
Others(w) == \A v \in Workers \ {w} : worker'[v] = worker[v]

LEMMA Changes ==
  ASSUME TypeOK, NEW w \in Workers, NEW new \in Worker, worker' = [worker EXCEPT ![w] = new]
  PROVE  worker' \in [Workers -> Worker] /\ worker'[w] = new /\ Others(w)
BY DEF TypeOK, Others

LEMMA Moves ==
  ASSUME TypeOK, NEW w \in Workers, NEW pc \in Steps, worker' = Goes(w, pc)
  PROVE  /\ worker' \in [Workers -> Worker] /\ Others(w)
         /\ worker'[w].pc = pc /\ worker'[w].node = worker[w].node /\ worker'[w].st = worker[w].st
         /\ worker'[w].scoped = worker[w].scoped
<1> DEFINE new == [worker[w] EXCEPT !.pc = pc]
<1>1. worker[w] \in Worker
  BY DEF TypeOK
<1>2. /\ new \in Worker /\ new.pc = pc /\ new.node = worker[w].node /\ new.st = worker[w].st
      /\ new.scoped = worker[w].scoped
  BY <1>1 DEF Worker
<1>3. worker' = [worker EXCEPT ![w] = new]
  BY DEF Goes
<1> HIDE DEF new
<1> QED
  BY <1>2, <1>3, Changes

LEMMA IdleIsWorker == IdleWorker \in Worker
<1>1. 0 \in 0..MaxTakeovers
  BY RunsAssumption
<1> QED
  BY <1>1, FreshConsistent DEF IdleWorker, Worker, Steps, Nodes

LEMMA Ends ==
  ASSUME TypeOK, NEW w \in Workers, NEW outcome \in {"completed", "failed"}, worker' = Ended(w, outcome)
  PROVE  /\ worker' \in [Workers -> Worker] /\ Others(w)
         /\ worker'[w].pc = "publish" /\ worker'[w].scoped = worker[w].scoped
<1> DEFINE new == [IdleWorker EXCEPT !.pc = "publish", !.outcome = outcome, !.scoped = worker[w].scoped]
<1>1. worker[w].scoped \in BOOLEAN
  BY DEF TypeOK, Worker
<1>2. new \in Worker /\ new.pc = "publish" /\ new.scoped = worker[w].scoped
  BY <1>1, IdleIsWorker DEF Worker, Steps
<1>3. worker' = [worker EXCEPT ![w] = new]
  BY DEF Ended
<1> HIDE DEF new
<1> QED
  BY <1>2, <1>3, Changes

\* A heartbeat only refreshes.
LEMMA Beats ==
  ASSUME TypeOK, NEW w \in Workers
  PROVE  /\ Heartbeat(w) \in Row
         /\ Heartbeat(w).there = row.there /\ Heartbeat(w).owned = row.owned
         /\ Heartbeat(w).status = row.status /\ Heartbeat(w).count = row.count
         /\ row.fresh => Heartbeat(w).fresh
BY DEF TypeOK, Row, Heartbeat

\* The path where only the given execution and the checkpoint change.
LEMMA PathKept ==
  ASSUME Path, NEW w \in Workers, Others(w), OnPath(w)', Consistent(ckpt)'
  PROVE  Path'
BY DEF Path, OnPath, Others

\* While nothing hangs: an execution that moves on without leaving the executor.
LEMMA SingleKept ==
  ASSUME TypeOK, Single, NEW w \in Workers, Others(w), Alive(w), worker[w].pc # "save",
         worker'[w].pc \notin {"idle", "save"}, row' \in Row,
         row'.there = row.there, row'.status = row.status, row'.count = row.count, row.fresh => row'.fresh,
         UNCHANGED <<mem, monitor, takeovers, deleted>>
  PROVE  Single'
<1>1. \A v \in Workers : Alive(v)' => Alive(v)
  BY DEF Alive, Others
<1>2. \A v \in Workers : Alive(v)' => v = w
  BY <1>1 DEF Single
<1> QED
  BY <1>1, <1>2 DEF Single, Alive, Claims, Running

\* An execution that is not in the queue and reads what it read.
LEMMA ScopeKept ==
  ASSUME TypeOK, Scope, NEW w \in Workers, Others(w), Alive(w),
         worker'[w].pc \notin {"idle", "queued"} => worker'[w].scoped = worker[w].scoped,
         worker'[w].pc \notin {"idle", "queued"} => worker[w].pc # "queued",
         row'.there => row.there /\ row'.owned = row.owned,
         UNCHANGED <<mem, monitor, restarts, deleted>>
  PROVE  Scope'
BY DEF Scope, Alive, Others, Claims

-----------------------------------------------------------------------------
(***************************************************************************)
(* The steps of an execution.                                               *)
(***************************************************************************)
LEMMA BeginKeeps ==
  ASSUME Inv, NEW w \in Workers, Begin(w)
  PROVE  Inv'
<1> DEFINE new == [worker[w] EXCEPT !.pc = "node", !.node = NextNode(worker[w].st), !.scoped = mem.scoped]
<1>1. worker[w] \in Worker /\ mem.scoped \in BOOLEAN /\ worker[w].pc = "queued" /\ Alive(w)
  BY DEF Inv, TypeOK, Begin, Alive, Memory
<1>2. Consistent(worker[w].st) /\ worker[w].st \in GraphState
  BY <1>1 DEF Inv, Path, OnPath, Worker
<1>3. NextNode(worker[w].st) \in Nodes /\ AtNode(NextNode(worker[w].st), worker[w].st)
  BY <1>2, Enters
<1>4. /\ new \in Worker /\ new.pc = "node" /\ new.node = NextNode(worker[w].st) /\ new.st = worker[w].st
      /\ new.scoped = mem.scoped
  BY <1>1, <1>3 DEF Worker, Steps
<1>5. worker' = [worker EXCEPT ![w] = new]
  BY DEF Begin
<1> HIDE DEF new
<1>6. worker' \in [Workers -> Worker] /\ worker'[w] = new /\ Others(w)
  BY <1>4, <1>5, Changes DEF Inv
<1>7. /\ row' \in Row /\ row'.there = row.there /\ row'.owned = row.owned
      /\ row'.status = row.status /\ row'.count = row.count /\ (row.fresh => row'.fresh)
  BY Beats DEF Begin, Inv
<1>8. UNCHANGED <<ckpt, mem, monitor, restarts, hung, takeovers, deleted>>
  BY DEF Begin
<1>9. TypeOK'
  BY <1>6, <1>7, <1>8 DEF Inv, TypeOK
<1>10. Path'
  <2>1. OnPath(w)'
    BY <1>3, <1>4, <1>6 DEF OnPath
  <2> QED
    BY <1>6, <1>8, <2>1, PathKept DEF Inv, Path
<1>11. Scope'
  <2>1. restarts = 0 /\ ~deleted => mem.scoped
    BY <1>1 DEF Inv, Scope
  <2> QED
    BY <1>1, <1>4, <1>6, <1>7, <1>8, <2>1 DEF Inv, Scope, Alive, Others, Claims
<1>12. ~hung' => Single'
  BY <1>1, <1>4, <1>6, <1>7, <1>8, SingleKept DEF Inv
<1> QED
  BY <1>9, <1>10, <1>11, <1>12 DEF Inv

LEMMA NodeReturnsKeeps ==
  ASSUME Inv, NEW w \in Workers, NodeReturns(w)
  PROVE  Inv'
<1>1. PICK st \in After(worker[w].node, worker[w].st) :
        worker' = [worker EXCEPT ![w].pc = "checkpoint", ![w].st = st]
  BY DEF NodeReturns
<1> DEFINE new == [worker[w] EXCEPT !.pc = "checkpoint", !.st = st]
<1>2. worker[w] \in Worker /\ worker[w].pc = "node" /\ Alive(w)
  BY DEF Inv, TypeOK, NodeReturns, Alive
<1>3. st \in GraphState /\ Left(worker[w].node, st)
  BY <1>1, <1>2, Walks DEF Inv, Path, OnPath, Worker
<1>4. /\ new \in Worker /\ new.pc = "checkpoint" /\ new.node = worker[w].node /\ new.st = st
      /\ new.scoped = worker[w].scoped
  BY <1>2, <1>3 DEF Worker, Steps
<1>5. worker' = [worker EXCEPT ![w] = new]
  BY <1>1
<1> HIDE DEF new
<1>6. worker' \in [Workers -> Worker] /\ worker'[w] = new /\ Others(w)
  BY <1>4, <1>5, Changes DEF Inv
<1>7. UNCHANGED <<row, ckpt, mem, monitor, restarts, hung, takeovers, deleted>>
  BY DEF NodeReturns
<1>8. TypeOK'
  BY <1>6, <1>7 DEF Inv, TypeOK
<1>9. Path'
  <2>1. OnPath(w)'
    BY <1>3, <1>4, <1>6 DEF OnPath
  <2> QED
    BY <1>6, <1>7, <2>1, PathKept DEF Inv, Path
<1>10. Scope'
  BY <1>2, <1>4, <1>6, <1>7, ScopeKept DEF Inv
<1>11. ~hung' => Single'
  BY <1>2, <1>4, <1>6, <1>7, <1>8, SingleKept DEF Inv, TypeOK
<1> QED
  BY <1>8, <1>9, <1>10, <1>11 DEF Inv

\* An execution that ends with the row, the memory and the checkpoint as they are.
LEMMA EndsKeeps ==
  ASSUME Inv, NEW w \in Workers, worker[w].pc \in {"node", "checkpoint"}, worker' = Raised(w),
         UNCHANGED <<row, ckpt, mem, monitor, restarts, hung, takeovers, deleted>>
  PROVE  Inv'
<1>1. /\ worker' \in [Workers -> Worker] /\ Others(w)
      /\ worker'[w].pc = "publish" /\ worker'[w].scoped = worker[w].scoped
  BY Ends DEF Inv, Raised
<1>2. Alive(w)
  BY DEF Alive
<1>3. TypeOK'
  BY <1>1 DEF Inv, TypeOK
<1>4. Path'
  <2>1. OnPath(w)'
    BY <1>1 DEF OnPath
  <2> QED
    BY <1>1, <2>1, PathKept DEF Inv, Path
<1>5. Scope'
  BY <1>1, <1>2, ScopeKept DEF Inv
<1>6. ~hung' => Single'
  BY <1>1, <1>2, <1>3, SingleKept DEF Inv, TypeOK
<1> QED
  BY <1>3, <1>4, <1>5, <1>6 DEF Inv

LEMMA NodeRaisesKeeps ==
  ASSUME Inv, NEW w \in Workers, NodeRaises(w)
  PROVE  Inv'
BY EndsKeeps DEF NodeRaises

LEMMA SaveCheckpointKeeps ==
  ASSUME Inv, NEW w \in Workers, SaveCheckpoint(w)
  PROVE  Inv'
<1>1. CASE ~row.there
  BY <1>1, EndsKeeps DEF SaveCheckpoint
<1>2. CASE row.there
  <2>1. /\ worker[w].pc = "checkpoint" /\ Alive(w) /\ ckpt' = worker[w].st
        /\ row' = Heartbeat(w) /\ worker' = Goes(w, "record")
        /\ UNCHANGED <<mem, monitor, restarts, hung, takeovers, deleted>>
    BY <1>2 DEF SaveCheckpoint, Alive
  <2>2. /\ worker' \in [Workers -> Worker] /\ Others(w)
        /\ worker'[w].pc = "record" /\ worker'[w].node = worker[w].node /\ worker'[w].st = worker[w].st
        /\ worker'[w].scoped = worker[w].scoped
    BY <2>1, Moves DEF Inv, Steps
  <2>3. /\ row' \in Row /\ row'.there = row.there /\ row'.owned = row.owned
        /\ row'.status = row.status /\ row'.count = row.count /\ (row.fresh => row'.fresh)
    BY <2>1, Beats DEF Inv
  <2>4. Left(worker[w].node, worker[w].st) /\ worker[w].st \in GraphState
    BY <2>1 DEF Inv, Path, OnPath, TypeOK, Worker
  <2>5. TypeOK'
    BY <2>1, <2>2, <2>3, <2>4 DEF Inv, TypeOK
  <2>6. Path'
    <3>1. OnPath(w)'
      BY <2>2, <2>4 DEF OnPath
    <3>2. Consistent(ckpt)'
      BY <2>1, <2>4 DEF Left
    <3> QED
      BY <2>2, <3>1, <3>2, PathKept DEF Inv
  <2>7. Scope'
    BY <2>1, <2>2, <2>3, ScopeKept DEF Inv
  <2>8. ~hung' => Single'
    BY <2>1, <2>2, <2>3, SingleKept DEF Inv
  <2> QED
    BY <2>5, <2>6, <2>7, <2>8 DEF Inv
<1> QED
  BY <1>1, <1>2

\* The record of memory over the row, while memory has what Single says of it.
LEMMA SaveRecordKeeps ==
  ASSUME Inv, NEW w \in Workers, SaveRecord(w)
  PROVE  Inv'
<1>1. /\ worker[w].pc = "record" /\ Alive(w) /\ worker[w] \in Worker
      /\ row' = IF mem.there THEN Saved(mem.status, mem.count, mem.owned) ELSE row
      /\ UNCHANGED <<ckpt, mem, monitor, restarts, hung, takeovers, deleted>>
  BY DEF SaveRecord, Alive, Inv, TypeOK
<1>2. Left(worker[w].node, worker[w].st)
  BY <1>1 DEF Inv, Path, OnPath
<1>3. /\ worker' \in [Workers -> Worker] /\ Others(w)
      /\ worker'[w].pc \in {"node", "publish"} /\ worker'[w].scoped = worker[w].scoped
      /\ OnPath(w)'
  <2>1. CASE worker[w].node = "review_and_create_todos"
    <3>1. worker' = Ended(w, "completed")
      BY <2>1 DEF SaveRecord
    <3>2. /\ worker' \in [Workers -> Worker] /\ Others(w)
          /\ worker'[w].pc = "publish" /\ worker'[w].scoped = worker[w].scoped
      BY <3>1, Ends DEF Inv
    <3> QED
      BY <3>2 DEF OnPath
  <2>2. CASE worker[w].node # "review_and_create_todos"
    <3> DEFINE next == Edge(worker[w].node, worker[w].st)
               new == [worker[w] EXCEPT !.pc = "node", !.node = next]
    <3>1. worker[w].st \in GraphState /\ worker[w].node \in Nodes \ {"review_and_create_todos"}
      BY <1>1, <2>2 DEF Worker
    <3>2. next \in Nodes /\ AtNode(next, worker[w].st)
      BY <1>2, <3>1, Follows
    <3>3. /\ new \in Worker /\ new.pc = "node" /\ new.node = next /\ new.st = worker[w].st
          /\ new.scoped = worker[w].scoped
      BY <1>1, <3>2 DEF Worker, Steps
    <3>4. worker' = [worker EXCEPT ![w] = new]
      BY <2>2 DEF SaveRecord
    <3> HIDE DEF next, new
    <3>5. worker' \in [Workers -> Worker] /\ worker'[w] = new /\ Others(w)
      BY <3>3, <3>4, Changes DEF Inv
    <3> QED
      BY <3>2, <3>3, <3>5 DEF OnPath
  <2> QED
    BY <2>1, <2>2
<1>4. row' \in Row /\ (mem.there => row'.there)
  BY <1>1 DEF Inv, TypeOK, Memory, Row, Saved
<1>5. TypeOK'
  BY <1>1, <1>3, <1>4 DEF Inv, TypeOK
<1>6. Path'
  BY <1>1, <1>3, PathKept DEF Inv, Path
<1>7. Scope'
  <2>1. restarts = 0 /\ ~deleted /\ row'.there => row'.owned
    <3>1. restarts = 0 /\ ~deleted => mem.owned /\ (row.there => row.owned)
      BY <1>1 DEF Inv, Scope
    <3> QED
      BY <1>1, <3>1 DEF Saved
  <2> QED
    BY <1>1, <1>3, <2>1 DEF Inv, Scope, Alive, Others, Claims
<1>8. ~hung' => Single'
  <2> SUFFICES ASSUME ~hung
               PROVE  Single'
    BY <1>1
  <2>1. Single
    BY DEF Inv
  <2>2. mem.there /\ mem.status = "running" /\ mem.count = takeovers
    BY <1>1, <2>1 DEF Single
  <2>3. row'.there /\ row'.status = "running" /\ row'.count = takeovers /\ row'.fresh
    BY <1>1, <2>2 DEF Saved
  <2>4. \A v \in Workers : Alive(v)' => v = w
    BY <1>1, <1>3, <2>1 DEF Single, Alive, Others
  <2>5. ~Claims
    BY <1>1, <2>1 DEF Single
  <2> QED
    BY <1>1, <1>3, <2>1, <2>2, <2>3, <2>4, <2>5 DEF Single, Alive, Others, Claims, Running
<1> QED
  BY <1>5, <1>6, <1>7, <1>8 DEF Inv

LEMMA PublishKeeps ==
  ASSUME Inv, NEW w \in Workers, Publish(w)
  PROVE  Inv'
<1>1. /\ worker[w].pc = "publish" /\ Alive(w) /\ worker' = Goes(w, "save")
      /\ mem' = [mem EXCEPT !.there = TRUE, !.status = worker[w].outcome, !.count = 0]
      /\ UNCHANGED <<row, ckpt, monitor, restarts, hung, takeovers, deleted>>
  BY DEF Publish, Alive
<1>2. /\ worker' \in [Workers -> Worker] /\ Others(w)
      /\ worker'[w].pc = "save" /\ worker'[w].scoped = worker[w].scoped
  BY <1>1, Moves DEF Inv, Steps
<1>3. mem' \in Memory /\ mem'.owned = mem.owned /\ mem'.scoped = mem.scoped
  <2>1. worker[w].outcome \in {"completed", "failed"} /\ 0 \in 0..MaxTakeovers /\ mem \in Memory
    BY RunsAssumption DEF Inv, TypeOK, Worker
  <2> QED
    BY <1>1, <2>1 DEF Memory
<1>4. TypeOK'
  BY <1>1, <1>2, <1>3 DEF Inv, TypeOK
<1>5. Path'
  <2>1. OnPath(w)'
    BY <1>2 DEF OnPath
  <2> QED
    BY <1>1, <1>2, <2>1, PathKept DEF Inv, Path
<1>6. Scope'
  BY <1>1, <1>2, <1>3 DEF Inv, Scope, Alive, Others, Claims
<1>7. ~hung' => Single'
  <2> SUFFICES ASSUME ~hung
               PROVE  Single'
    BY <1>1
  <2>1. Single
    BY DEF Inv
  <2>2. \A v \in Workers : Alive(v)' => v = w
    BY <1>1, <1>2, <2>1 DEF Single, Alive, Others
  <2> QED
    BY <1>1, <1>2, <2>1, <2>2 DEF Single, Alive, Others, Claims, Running
<1> QED
  BY <1>4, <1>5, <1>6, <1>7 DEF Inv

LEMMA SaveResultKeeps ==
  ASSUME Inv, NEW w \in Workers, SaveResult(w)
  PROVE  Inv'
<1>1. /\ worker[w].pc = "save" /\ Alive(w) /\ row' \in {row, Saved(worker[w].outcome, 0, mem.owned)}
      /\ worker' = [worker EXCEPT ![w] = IdleWorker]
      /\ UNCHANGED <<ckpt, mem, monitor, restarts, hung, takeovers, deleted>>
  BY DEF SaveResult, Alive
<1>2. worker' \in [Workers -> Worker] /\ worker'[w] = IdleWorker /\ Others(w)
  BY <1>1, IdleIsWorker, Changes DEF Inv
<1>3. worker[w].outcome \in {"completed", "failed"} /\ 0 \in 0..MaxTakeovers /\ mem.owned \in BOOLEAN
  BY RunsAssumption DEF Inv, TypeOK, Worker, Memory
<1>4. row' \in Row
  <2>1. Saved(worker[w].outcome, 0, mem.owned) \in Row
    BY <1>3 DEF Row, Saved
  <2> QED
    BY <1>1, <2>1 DEF Inv, TypeOK
<1>5. TypeOK'
  BY <1>1, <1>2, <1>4 DEF Inv, TypeOK
<1>6. Path'
  <2>1. OnPath(w)'
    BY <1>2, FreshConsistent DEF OnPath, IdleWorker
  <2> QED
    BY <1>1, <1>2, <2>1, PathKept DEF Inv, Path
<1>7. Scope'
  <2>1. restarts = 0 /\ ~deleted => mem.owned /\ mem.scoped /\ (row.there => row.owned)
    BY <1>1 DEF Inv, Scope
  <2>2. restarts = 0 /\ ~deleted /\ row'.there => row'.owned
    BY <1>1, <2>1 DEF Saved
  <2> QED
    BY <1>1, <1>2, <2>1, <2>2 DEF Inv, Scope, IdleWorker, Others
<1>8. ~hung' => Single'
  <2> SUFFICES ASSUME ~hung
               PROVE  Single'
    BY <1>1
  <2>1. Single
    BY DEF Inv
  <2>2. \A v \in Workers : ~Alive(v)'
    BY <1>1, <1>2, <2>1 DEF Single, Alive, Others, IdleWorker
  <2>3. ~Claims'
    BY <1>1, <2>1 DEF Single, Claims
  <2>4. row' = row \/ (row'.there /\ row'.status # "running")
    BY <1>1, <1>3 DEF Saved
  <2> QED
    BY <1>1, <2>1, <2>2, <2>3, <2>4 DEF Single, Running
<1> QED
  BY <1>5, <1>6, <1>7, <1>8 DEF Inv

LEMMA ExecuteKeeps ==
  ASSUME Inv, NEW w \in Workers, Execute(w)
  PROVE  Inv'
BY BeginKeeps, NodeReturnsKeeps, NodeRaisesKeeps, SaveCheckpointKeeps, SaveRecordKeeps, PublishKeeps,
   SaveResultKeeps DEF Execute

-----------------------------------------------------------------------------
(***************************************************************************)
(* Submission, time, recovery, restarts and deletion.                       *)
(***************************************************************************)
LEMMA SubmitKeeps ==
  ASSUME Inv, Submit
  PROVE  Inv'
<1>1. /\ ~mem.there /\ ~row.there /\ ~deleted /\ \A w \in Workers : ~Alive(w)
      /\ mem' = [there |-> TRUE, status |-> "running", count |-> 0, owned |-> TRUE, scoped |-> TRUE]
      /\ UNCHANGED <<ckpt, monitor, restarts, hung, takeovers, deleted>>
  BY DEF Submit, Alive
<1>2. 0 \in 0..MaxTakeovers /\ 1 \in Workers
  BY RunsAssumption DEF Workers
<1>3. mem' \in Memory
  BY <1>1, <1>2 DEF Memory
<1>4. CASE row' = Saved("running", 0, TRUE) /\ worker' = Goes(1, "queued")
  <2>1. /\ worker' \in [Workers -> Worker] /\ Others(1)
        /\ worker'[1].pc = "queued" /\ worker'[1].st = worker[1].st
    BY <1>2, <1>4, Moves DEF Inv, Steps
  <2>2. /\ row' \in Row /\ row'.there /\ row'.owned /\ row'.status = "running" /\ row'.count = 0 /\ row'.fresh
    BY <1>2, <1>4 DEF Saved, Row
  <2>3. TypeOK'
    BY <1>1, <1>3, <2>1, <2>2 DEF Inv, TypeOK
  <2>4. Path'
    <3>1. worker[1].pc = "idle"
      BY <1>1, <1>2 DEF Alive
    <3>2. OnPath(1)'
      BY <1>2, <2>1, <3>1 DEF Inv, Path, OnPath
    <3> QED
      BY <1>1, <1>2, <2>1, <3>2, PathKept DEF Inv, Path
  <2>5. Scope'
    BY <1>1, <2>1, <2>2 DEF Inv, Scope, Alive, Others
  <2>6. ~hung' => Single'
    <3> SUFFICES ASSUME ~hung
                 PROVE  Single'
      BY <1>1
    <3>1. Single /\ takeovers = 0 /\ ~Claims
      BY <1>1 DEF Inv, Single
    <3>2. \A v \in Workers : Alive(v)' => v = 1
      BY <1>1, <2>1 DEF Alive, Others
    <3> QED
      BY <1>1, <2>1, <2>2, <3>1, <3>2 DEF Single, Alive, Others, Claims, Running
  <2> QED
    BY <2>3, <2>4, <2>5, <2>6 DEF Inv
<1>5. CASE UNCHANGED <<row, worker>>
  <2>1. TypeOK'
    BY <1>1, <1>3, <1>5 DEF Inv, TypeOK
  <2>2. Path'
    BY <1>1, <1>5 DEF Inv, Path, OnPath
  <2>3. Scope'
    BY <1>1, <1>5 DEF Inv, Scope, Alive, Claims
  <2>4. ~hung' => Single'
    BY <1>1, <1>5 DEF Inv, Single, Alive, Claims, Running
  <2> QED
    BY <2>1, <2>2, <2>3, <2>4 DEF Inv
<1> QED
  BY <1>4, <1>5 DEF Submit

LEMMA GoesStaleKeeps ==
  ASSUME Inv, GoesStale
  PROVE  Inv'
<1>1. /\ row.there /\ row' = [row EXCEPT !.fresh = FALSE]
      /\ hung' = (hung \/ Live # {} \/ Claims)
      /\ UNCHANGED <<ckpt, mem, worker, monitor, restarts, takeovers, deleted>>
  BY DEF GoesStale, Claims
<1>2. /\ row' \in Row /\ row'.there = row.there /\ row'.owned = row.owned /\ row'.status = row.status
      /\ row'.count = row.count
  BY <1>1 DEF Inv, TypeOK, Row
<1>3. TypeOK'
  <2>1. (hung \/ Live # {} \/ Claims) \in BOOLEAN
    BY Zenon DEF Inv, TypeOK
  <2> QED
    BY <1>1, <1>2, <2>1 DEF Inv, TypeOK
<1>4. Path'
  BY <1>1 DEF Inv, Path, OnPath
<1>5. Scope'
  BY <1>1, <1>2 DEF Inv, Scope, Alive, Claims
<1>6. ~hung' => Single'
  <2> SUFFICES ASSUME ~hung'
               PROVE  Single'
    OBVIOUS
  <2>1. ~hung /\ Live = {} /\ ~Claims
    BY <1>1
  <2>2. \A w \in Workers : ~Alive(w)
    BY <2>1 DEF Live, Alive
  <2> QED
    BY <1>1, <1>2, <2>1, <2>2 DEF Inv, Single, Alive, Claims, Running
<1> QED
  BY <1>3, <1>4, <1>5, <1>6 DEF Inv

LEMMA ClaimKeeps ==
  ASSUME Inv, Claim
  PROVE  Inv'
<1>1. /\ monitor.state = "idle" /\ row.there /\ row.status = "running" /\ ~row.fresh /\ row.count < MaxTakeovers
      /\ row' = [row EXCEPT !.count = @ + 1, !.fresh = TRUE]
      /\ monitor' = [state |-> "claimed", count |-> row'.count]
      /\ takeovers' = IF takeovers <= MaxTakeovers THEN takeovers + 1 ELSE takeovers
      /\ UNCHANGED <<ckpt, mem, worker, restarts, hung, deleted>>
  BY DEF Claim, Claimable, Claimed
<1>2. row.count + 1 \in 0..MaxTakeovers /\ MaxTakeovers \in Nat /\ takeovers \in Nat
  BY <1>1, RunsAssumption DEF Inv, TypeOK, Row
<1>3. /\ row' \in Row /\ row'.there /\ row'.owned = row.owned /\ row'.status = "running"
      /\ row'.count = row.count + 1 /\ row'.fresh
  BY <1>1, <1>2 DEF Inv, TypeOK, Row
<1>4. monitor' \in Monitor /\ monitor'.state = "claimed" /\ monitor'.count = row.count + 1
  BY <1>1, <1>2, <1>3 DEF Monitor
<1>5. TypeOK'
  BY <1>1, <1>2, <1>3, <1>4 DEF Inv, TypeOK
<1>6. Path'
  BY <1>1 DEF Inv, Path, OnPath
<1>7. Scope'
  BY <1>1, <1>3 DEF Inv, Scope, Alive, Claims
<1>8. ~hung' => Single'
  <2> SUFFICES ASSUME ~hung
               PROVE  Single'
    BY <1>1
  <2>1. Single /\ row.count = takeovers /\ \A w \in Workers : ~Alive(w)
    BY <1>1 DEF Inv, Single, Running
  <2>2. takeovers' = row.count + 1 /\ takeovers' <= MaxTakeovers
    BY <1>1, <1>2, <2>1
  <2>3. \A w \in Workers : ~Alive(w)'
    BY <1>1, <2>1 DEF Alive
  <2> QED
    BY <1>3, <1>4, <2>2, <2>3 DEF Single, Claims, Running
<1> QED
  BY <1>5, <1>6, <1>7, <1>8 DEF Inv

LEMMA AdoptKeeps ==
  ASSUME Inv, Adopt
  PROVE  Inv'
<1>1. PICK w \in Workers :
        /\ NextSlot(w)
        /\ worker' = [worker EXCEPT ![w] = [IdleWorker EXCEPT !.pc = "queued", !.lease = monitor.count, !.st = ckpt]]
  BY DEF Adopt
<1>2. /\ Claims /\ mem' = [mem EXCEPT !.there = TRUE, !.status = "running", !.count = monitor.count]
      /\ monitor' = [state |-> "idle", count |-> 0]
      /\ UNCHANGED <<row, ckpt, restarts, hung, takeovers, deleted>>
  BY DEF Adopt, Adopted, IdleMonitor, Claims
<1>3. monitor.count \in 0..MaxTakeovers /\ 0 \in 0..MaxTakeovers /\ ckpt \in GraphState
  BY RunsAssumption DEF Inv, TypeOK, Monitor
<1> DEFINE new == [IdleWorker EXCEPT !.pc = "queued", !.lease = monitor.count, !.st = ckpt]
<1>4. new \in Worker /\ new.pc = "queued" /\ new.st = ckpt
  BY <1>3, IdleIsWorker DEF Worker, Steps
<1>5. worker' = [worker EXCEPT ![w] = new]
  BY <1>1
<1> HIDE DEF new
<1>6. worker' \in [Workers -> Worker] /\ worker'[w] = new /\ Others(w)
  BY <1>4, <1>5, Changes DEF Inv
<1>7. /\ mem' \in Memory /\ mem'.there /\ mem'.status = "running" /\ mem'.count = monitor.count
      /\ mem'.owned = mem.owned /\ mem'.scoped = mem.scoped
  BY <1>2, <1>3 DEF Inv, TypeOK, Memory
<1>8. monitor' \in Monitor /\ ~Claims'
  BY <1>2, <1>3 DEF Monitor, Claims
<1>9. TypeOK'
  BY <1>2, <1>6, <1>7, <1>8 DEF Inv, TypeOK
<1>10. Path'
  <2>1. OnPath(w)'
    BY <1>4, <1>6 DEF OnPath, Inv, Path
  <2> QED
    BY <1>2, <1>6, <2>1, PathKept DEF Inv, Path
<1>11. Scope'
  BY <1>2, <1>4, <1>6, <1>7, <1>8 DEF Inv, Scope, Alive, Others, Claims
<1>12. ~hung' => Single'
  <2> SUFFICES ASSUME ~hung
               PROVE  Single'
    BY <1>2
  <2>1. Single /\ monitor.count = takeovers /\ \A v \in Workers : ~Alive(v)
    BY <1>2 DEF Inv, Single
  <2>2. \A v \in Workers : Alive(v)' => v = w
    BY <1>6, <2>1 DEF Alive, Others
  <2>3. row.there => Running /\ row.fresh
    BY <1>2, <2>1 DEF Single
  <2> QED
    BY <1>2, <1>6, <1>7, <1>8, <2>1, <2>2, <2>3 DEF Single, Alive, Others, Running
<1> QED
  BY <1>9, <1>10, <1>11, <1>12 DEF Inv

LEMMA MonitorDiesKeeps ==
  ASSUME Inv, MonitorDies
  PROVE  Inv'
<1>1. /\ monitor' = [state |-> "dead", count |-> 0] /\ 0 \in 0..MaxTakeovers
      /\ UNCHANGED <<row, ckpt, mem, worker, restarts, hung, takeovers, deleted>>
  BY RunsAssumption DEF MonitorDies
<1>2. monitor' \in Monitor /\ ~Claims'
  BY <1>1 DEF Monitor, Claims
<1>3. TypeOK'
  BY <1>1, <1>2 DEF Inv, TypeOK
<1>4. Path'
  BY <1>1 DEF Inv, Path, OnPath
<1>5. Scope'
  BY <1>1, <1>2 DEF Inv, Scope, Alive
<1>6. ~hung' => Single'
  BY <1>1, <1>2 DEF Inv, Single, Alive, Running
<1> QED
  BY <1>3, <1>4, <1>5, <1>6 DEF Inv

LEMMA RestartKeeps ==
  ASSUME Inv, Restart
  PROVE  Inv'
<1>1. /\ restarts < MaxRestarts /\ restarts' = restarts + 1 /\ mem' = NoMemory
      /\ worker' = [w \in Workers |-> IdleWorker] /\ monitor' = [state |-> "idle", count |-> 0]
      /\ UNCHANGED <<row, ckpt, hung, takeovers, deleted>>
  BY DEF Restart, IdleMonitor
<1>2. 0 \in 0..MaxTakeovers /\ restarts' \in 0..MaxRestarts /\ restarts' # 0
  BY <1>1, RunsAssumption DEF Inv, TypeOK
<1>3. mem' \in Memory /\ monitor' \in Monitor /\ ~Claims'
  BY <1>1, <1>2 DEF Memory, NoMemory, Monitor, Claims
<1>4. /\ worker' \in [Workers -> Worker]
      /\ \A w \in Workers : worker'[w].pc = "idle" /\ worker'[w].st = FreshState
  BY <1>1, IdleIsWorker DEF IdleWorker
<1>5. TypeOK'
  BY <1>1, <1>2, <1>3, <1>4 DEF Inv, TypeOK
<1>6. Path'
  BY <1>1, <1>4, FreshConsistent DEF Inv, Path, OnPath
<1>7. Scope'
  BY <1>2 DEF Scope
<1>8. ~hung' => Single'
  BY <1>1, <1>3, <1>4 DEF Inv, Single, Alive, Running
<1> QED
  BY <1>5, <1>6, <1>7, <1>8 DEF Inv

LEMMA DeleteKeeps ==
  ASSUME Inv, Delete
  PROVE  Inv'
<1>1. /\ ~(mem.there /\ mem.owned /\ mem.status = "running")
      /\ row' = NoRow /\ ckpt' = FreshState
      /\ mem' = IF mem.owned THEN [NoMemory EXCEPT !.scoped = mem.scoped] ELSE mem
      /\ deleted' = TRUE
      /\ UNCHANGED <<worker, monitor, restarts, hung, takeovers>>
  BY DEF Delete
<1>2. 0 \in 0..MaxTakeovers
  BY RunsAssumption
<1>3. row' \in Row /\ ~row'.there
  BY <1>1, <1>2 DEF Row, NoRow
<1>4. mem' \in Memory /\ (~mem.owned => mem' = mem)
  BY <1>1, <1>2 DEF Inv, TypeOK, Memory, NoMemory
<1>5. TypeOK'
  BY <1>1, <1>3, <1>4, FreshConsistent DEF Inv, TypeOK
<1>6. Path'
  BY <1>1, FreshConsistent DEF Inv, Path, OnPath
<1>7. Scope'
  BY <1>1 DEF Scope
<1>8. ~hung' => Single'
  <2> SUFFICES ASSUME ~hung
               PROVE  Single'
    BY <1>1
  <2>1. Single
    BY DEF Inv
  <2>2. ASSUME NEW w \in Workers, Alive(w), worker[w].pc # "save"
        PROVE  mem' = mem
    BY <1>1, <1>4, <2>1, <2>2 DEF Single
  <2> QED
    BY <1>1, <1>3, <2>1, <2>2 DEF Single, Alive, Claims, Running
<1> QED
  BY <1>5, <1>6, <1>7, <1>8 DEF Inv

-----------------------------------------------------------------------------
(***************************************************************************)
(* The theorems.                                                            *)
(***************************************************************************)
LEMMA InitInv == Init => Inv
<1> SUFFICES ASSUME Init
             PROVE  Inv
  OBVIOUS
<1>1. 0 \in 0..MaxTakeovers /\ 0 \in 0..MaxRestarts /\ MaxTakeovers \in Nat
  BY RunsAssumption
<1>2. /\ row = NoRow /\ ckpt = FreshState /\ mem = NoMemory /\ worker = [w \in Workers |-> IdleWorker]
      /\ monitor = [state |-> "idle", count |-> 0] /\ restarts = 0
      /\ hung = FALSE /\ takeovers = 0 /\ deleted = FALSE
  BY DEF Init, IdleMonitor
<1>3. /\ worker \in [Workers -> Worker]
      /\ \A w \in Workers : ~Alive(w) /\ worker[w].pc = "idle" /\ worker[w].st = FreshState
  BY <1>2, IdleIsWorker DEF IdleWorker, Alive
<1>4. row \in Row /\ ~row.there /\ mem \in Memory /\ monitor \in Monitor /\ ~Claims
  BY <1>1, <1>2 DEF Row, NoRow, Memory, NoMemory, Monitor, Claims
<1>5. TypeOK
  BY <1>1, <1>2, <1>3, <1>4, FreshConsistent DEF TypeOK
<1>6. Path
  BY <1>2, <1>3, FreshConsistent DEF Path, OnPath
<1>7. Scope
  BY <1>3, <1>4 DEF Scope
<1>8. Single
  BY <1>1, <1>2, <1>3, <1>4 DEF Single, Running
<1> QED
  BY <1>5, <1>6, <1>7, <1>8 DEF Inv

LEMMA NextInv == Inv /\ [Next]_vars => Inv'
<1> SUFFICES ASSUME Inv, [Next]_vars
             PROVE  Inv'
  OBVIOUS
<1>1. CASE UNCHANGED vars
  BY <1>1 DEF vars, Inv, TypeOK, Path, OnPath, Scope, Single, Alive, Claims, Running
<1>2. CASE Next
  BY <1>2, SubmitKeeps, GoesStaleKeeps, ClaimKeeps, AdoptKeeps, MonitorDiesKeeps, RestartKeeps, DeleteKeeps,
     ExecuteKeeps DEF Next
<1> QED
  BY <1>1, <1>2

LEMMA InvHolds == Spec => []Inv
BY InitInv, NextInv, PTL DEF Spec

LEMMA OneIsOne ==
  ASSUME Inv
  PROVE  OneExecution
<1> SUFFICES ASSUME ~hung
             PROVE  Cardinality(Live) <= 1
  BY DEF OneExecution
<1>1. \A v, w \in Live : v = w
  BY DEF Inv, Single, Live, Alive
<1>2. CASE Live = {}
  BY <1>2, FS_EmptySet
<1>3. CASE Live # {}
  <2>1. PICK w : Live = {w}
    BY <1>1, <1>3
  <2>2. Cardinality({w}) = 1
    BY FS_Singleton
  <2> QED
    BY <2>1, <2>2
<1> QED
  BY <1>2, <1>3

\* Whatever restarts or is deleted, and however many rounds and takeovers are
\* allowed: as long as no execution hangs, a run is executed once at a time and
\* taken over no more often than reserve_recovery allows.
THEOREM TakenOverSafely == Spec => []TakeoversSafe
<1>1. Inv => TakeoversSafe
  <2> SUFFICES ASSUME Inv
               PROVE  TakeoversSafe
    OBVIOUS
  <2>1. TakeoversBounded
    BY DEF Inv, Single, TakeoversBounded
  <2> QED
    BY <2>1, OneIsOne DEF Inv, TakeoversSafe
<1> QED
  BY <1>1, InvHolds, PTL

\* Every node runs on the state the uninterrupted graph would give it, even where
\* executions hang and overlap; and until a restart the run keeps its owner and
\* its scope.
THEOREM GoesOnAsLeft == Spec => []ResumedAsLeft
<1>1. Inv => ResumedAsLeft
  <2> SUFFICES ASSUME Inv
               PROVE  ResumedAsLeft
    OBVIOUS
  <2>1. PathUnbroken
    <3> SUFFICES ASSUME NEW w \in Workers, worker[w].pc = "node"
                 PROVE  LET st == worker[w].st IN
                        CASE worker[w].node = "inspect_data" -> st.stage = "queued"
                          [] worker[w].node = "attribute_problem" -> st.inspected = "anomalous" /\ st.round < MaxRounds
                          [] worker[w].node = "recommend_strategy" -> st.attributed /\ (st.more => st.round = MaxRounds)
                          [] worker[w].node = "review_and_create_todos" ->
                                st.inspected = "clean" \/ (st.inspected = "anomalous" /\ st.strategy)
      BY DEF PathUnbroken
    <3>1. AtNode(worker[w].node, worker[w].st) /\ worker[w].node \in Nodes
      BY DEF Inv, Path, OnPath, TypeOK, Worker
    <3> QED
      BY <3>1 DEF AtNode, Nodes
  <2>2. KeepsOwnerAndScope
    BY DEF Inv, Scope, KeepsOwnerAndScope, Busy, Live
  <2> QED
    BY <2>1, <2>2 DEF ResumedAsLeft
<1> QED
  BY <1>1, InvHolds, PTL

\* A takeover never changes the status of a row that has ended.  While no execution
\* has hung none is left when the row ends, so nothing else does either; after one
\* has, only executions that are still live may write it, as save allows.
THEOREM EndedStays == Spec => FinishedStays
<1>1. Inv /\ [Next]_vars =>
        [(row.there /\ row.status # "running" /\ row'.there /\ (hung => Live = {}))
            => row'.status = row.status]_vars
  <2> SUFFICES ASSUME Inv, Next, hung => Live = {}, row.there, row.status # "running", row'.there
               PROVE  row'.status = row.status
    BY DEF vars
  <2>1. \A w \in Workers : worker[w].pc = "idle"
    <3>1. CASE ~hung
      BY <3>1 DEF Inv, Single, Running, Alive
    <3>2. CASE Live = {}
      BY <3>2 DEF Live
    <3> QED
      BY <3>1, <3>2
  <2>2. ASSUME NEW w \in Workers
        PROVE  ~Execute(w)
    BY <2>1 DEF Execute, Begin, NodeReturns, NodeRaises, SaveCheckpoint, SaveRecord, Publish, SaveResult
  <2>3. ~Submit /\ ~GoesStale /\ ~Claim
    BY DEF Submit, GoesStale, Claim, Claimable
  <2>4. CASE Delete
    BY <2>4 DEF Delete, NoRow
  <2>5. CASE Adopt \/ MonitorDies \/ Restart
    BY <2>5 DEF Adopt, MonitorDies, Restart
  <2> QED
    BY <2>2, <2>3, <2>4, <2>5 DEF Next
<1> QED
  BY <1>1, InvHolds, PTL DEF Spec, FinishedStays
=============================================================================
