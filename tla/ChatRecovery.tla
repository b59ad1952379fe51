---------------------------- MODULE ChatRecovery ----------------------------
(***************************************************************************)
(* One ordinary chat run and its durable row: the worker threads of         *)
(* AgentRunManager (api.py) that execute it in the API processes, the       *)
(* checkpoints and claims of PostgresChatRunStore (chat_runs.py), and the   *)
(* message ConversationStore.append (memory.py) records for the turn.       *)
(*                                                                         *)
(* The graph of a run is a chain of nodes 1..Nodes; with Sections > 0 the   *)
(* last one is generate_competitor_report, which also checkpoints after     *)
(* every section.  What a node computes is abstracted to the fact that its  *)
(* result is in the state.  The module starts where submit has created the  *)
(* row and given the run to the pool.                                       *)
(***************************************************************************)
EXTENDS Naturals, FiniteSets

CONSTANTS
  Procs,          \* API processes; one that crashes is restarted
  Nodes,          \* length of the chain
  Sections,       \* sections of the report the last node writes, 0 for none
  MaxRecoveries,  \* claims a row allows: two
  StaleAfter,     \* ticks after which a row without heartbeat is stale: 30 min
  LeaseTicks,     \* ticks a claim's lease lasts: 300 s
  MaxFaults,      \* bound: crashes, failed store calls and missed heartbeats
  None

ASSUME ChainAssumption == Nodes \in Nat \ {0, 1} /\ Sections \in Nat
ASSUME LimitsAssumption ==
  MaxRecoveries \in Nat /\ StaleAfter \in Nat \ {0} /\ LeaseTicks \in Nat /\ MaxFaults \in Nat

VARIABLES
  row,      \* the run's row: status, recoveries, age of the heartbeat, lease left
  saved,    \* the newest checkpoint, None before the first
  work,     \* the workers, one per execution of the run: the first and the recovered
  ctl,      \* per process, what its StageController knows of the run
  monitors, \* processes whose recovery monitor thread lives
  answers,  \* rows of the turn's assistant message in conversation_messages
  ran,      \* history: the nodes that have run to their end
  written,  \* history: how often a section has been generated
  silent,   \* history: workers that were alive when their heartbeat was missed
  faults

history == <<ran, written>>
vars == <<row, saved, work, ctl, monitors, answers, history, silent, faults>>

Workers == 0 .. MaxRecoveries
Chain == 1 .. Nodes

\* A graph state: the nodes whose results it holds, and the report's sections.
States == [has : SUBSET Chain, sections : 0 .. Sections]
Checkpoints == [next : Chain, state : States]

ASSUME NoneAssumption == None \notin States /\ None \notin Checkpoints

Idle == [pc |-> "idle", proc |-> None, node |-> 1, state |-> [has |-> {}, sections |-> 0],
         pending |-> None, part |-> 0, seen |-> FALSE]

\* _execute of the state, from the node it names as resume_next.
Submitted(p, next, state) ==
  [Idle EXCEPT !.pc = "ready", !.proc = p, !.node = next, !.state = state]

Fresh == [open |-> 0, last |-> 0, ended |-> FALSE]

Alive(w) == work[w].pc \notin {"idle", "gone"}

Init ==
  /\ row = [status |-> "running", recoveries |-> 0, age |-> 0, lease |-> 0]
  /\ saved = None
  /\ \E p \in Procs :
       work = [w \in Workers |->
                 IF w = 0 THEN Submitted(p, 1, Idle.state) ELSE Idle]
  /\ ctl = [p \in Procs |-> Fresh]
  /\ monitors = Procs
  /\ answers = 0
  /\ ran = {}
  /\ written = [k \in 1 .. Sections |-> 0]
  /\ silent = {}
  /\ faults = 0

-----------------------------------------------------------------------------
(***************************************************************************)
(* The durable row.                                                         *)
(***************************************************************************)

\* checkpoint: the newest checkpoint, and a heartbeat if the row still runs.
Checkpoint(next, state) ==
  /\ saved' = [next |-> next, state |-> state]
  /\ row' = [row EXCEPT !.age = IF row.status = "running" THEN 0 ELSE @]

\* finish: not conditional on the status or on who holds the lease.
FinishRow(status) == row' = [row EXCEPT !.status = status, !.lease = 0]

\* Mutated form of Claimable: how old the heartbeat is does not matter.
ClaimableAtOnce ==
  row.status = "running" /\ row.recoveries < MaxRecoveries /\ row.lease = 0

\* Mutated form of Claimable: one claim less.
ClaimableOnce ==
  /\ row.status = "running"
  /\ row.recoveries + 1 < MaxRecoveries
  /\ row.age >= StaleAfter
  /\ row.lease = 0

\* Mutated form of Claimable: a run that has ended can be claimed too.
ClaimableEnded ==
  row.recoveries < MaxRecoveries /\ row.age >= StaleAfter /\ row.lease = 0

\* The WHERE clause of claim_stale.
Claimable ==
  /\ row.status = "running"
  /\ row.recoveries < MaxRecoveries
  /\ row.age >= StaleAfter
  /\ row.lease = 0

(***************************************************************************)
(* recover_interrupted_chat_runs in process p, at its start and every five  *)
(* minutes.  A row without checkpoint is claimed too, and then left out of  *)
(* what is submitted.                                                       *)
(***************************************************************************)
Claim(p) ==
  /\ p \in monitors
  /\ Claimable
  /\ row' = [row EXCEPT !.recoveries = @ + 1, !.age = 0, !.lease = LeaseTicks]
  /\ work' = IF saved = None THEN work
             ELSE [work EXCEPT ![row.recoveries + 1] = Submitted(p, saved.next, saved.state)]
  /\ UNCHANGED <<saved, ctl, monitors, answers, history, silent, faults>>

-----------------------------------------------------------------------------
(***************************************************************************)
(* _run_graph_with_checkpoints.                                             *)
(***************************************************************************)

\* StageController.start, for the stage a node opens.
Startable(c, n) == ~c.ended /\ c.open = 0 /\ c.last \in {0, n - 1}

Start(w) ==
  LET p == work[w].proc  n == work[w].node
  IN /\ work[w].pc = "ready"
     /\ IF Startable(ctl[p], n)
        THEN /\ ctl' = [ctl EXCEPT ![p].open = n]
             /\ work' = [work EXCEPT ![w].pc = "node", ![w].part = 0]
        ELSE /\ work' = [work EXCEPT ![w].pc = "raised"]
             /\ UNCHANGED ctl
     /\ UNCHANGED <<row, saved, monitors, answers, history, silent, faults>>

\* A section the state brought from a checkpoint is only replayed.
Generated(w) == work[w].part >= work[w].state.sections

(***************************************************************************)
(* One section of the report and _checkpoint_report_progress: the           *)
(* checkpoint holds the state the node started with and the sections gone   *)
(* through so far.                                                          *)
(***************************************************************************)
Section(w) ==
  /\ work[w].pc = "node" /\ work[w].node = Nodes
  /\ work[w].part < Sections
  /\ LET k == work[w].part + 1
     IN /\ work' = [work EXCEPT ![w].part = k]
        /\ written' = IF Generated(w) THEN [written EXCEPT ![k] = @ + 1] ELSE written
        /\ Checkpoint(Nodes, [work[w].state EXCEPT !.sections = k])
  /\ UNCHANGED <<ctl, monitors, answers, ran, silent, faults>>

\* The node completes its stage, the last one the run: finish ends the stream.
NodeEnds(w) ==
  LET p == work[w].proc  n == work[w].node
  IN /\ work[w].pc = "node"
     /\ n = Nodes => work[w].part = Sections
     /\ IF ctl[p].open = n
        THEN /\ ctl' = [ctl EXCEPT ![p] = [open |-> 0, last |-> n, ended |-> @.ended \/ n = Nodes]]
             /\ work' = [work EXCEPT ![w].pc = "step"]
             /\ ran' = ran \cup {n}
        ELSE /\ work' = [work EXCEPT ![w].pc = "raised"]
             /\ UNCHANGED <<ctl, ran>>
     /\ UNCHANGED <<row, saved, monitors, answers, written, silent, faults>>

\* The node, or the interpreter, specialist or writer it calls, raises; the
\* node fails its stage first.
NodeRaises(w) ==
  /\ work[w].pc = "node"
  /\ work' = [work EXCEPT ![w].pc = "raised"]
  /\ ctl' = [ctl EXCEPT ![work[w].proc].ended = TRUE]
  /\ UNCHANGED <<row, saved, monitors, answers, history, silent, faults>>

\* Mutated form of LateCheckpoint: the node itself is named, not its successor.
LateCheckpointBehind(w, n) == Checkpoint(n - 1, work[w].pending)

\* The checkpoint of the node before n, written when n is known as its successor:
\* it holds the state n started from.
LateCheckpoint(w, n) == Checkpoint(n, work[w].pending)

\* The stream reports the step of node n, and then the state after it.
Step(w) ==
  LET n == work[w].node
      after == [work[w].state EXCEPT !.has = @ \cup {n}]
  IN /\ work[w].pc = "step"
     /\ IF work[w].pending = None THEN UNCHANGED <<row, saved>> ELSE LateCheckpoint(w, n)
     /\ work' = [work EXCEPT ![w].state = after, ![w].pending = after,
                             ![w].pc = IF n = Nodes THEN "answer" ELSE "ready",
                             ![w].node = IF n = Nodes THEN n ELSE n + 1]
     /\ UNCHANGED <<ctl, monitors, answers, history, silent, faults>>

-----------------------------------------------------------------------------
(***************************************************************************)
(* _execute around the graph.                                               *)
(***************************************************************************)

\* append is INSERT ... WHERE NOT EXISTS: the row is looked for in the
\* statement's snapshot, and a row another process has not committed is not
\* in it; no unique index backs the test.
LookForAnswer(w) ==
  /\ work[w].pc = "answer"
  /\ work' = [work EXCEPT ![w].pc = "insert", ![w].seen = answers > 0]
  /\ UNCHANGED <<row, saved, ctl, monitors, answers, history, silent, faults>>

InsertAnswer(w) ==
  /\ work[w].pc = "insert"
  /\ answers' = IF work[w].seen THEN answers ELSE answers + 1
  /\ work' = [work EXCEPT ![w].pc = "finish"]
  /\ UNCHANGED <<row, saved, ctl, monitors, history, silent, faults>>

\* Mutated form of Finishes: the row is finished before the answer is appended.
FinishesFirst(w) ==
  /\ work[w].pc \in {"answer", "finish"}
  /\ IF work[w].pc = "answer" /\ row.status = "running"
     THEN FinishRow("done") /\ UNCHANGED work
     ELSE /\ work[w].pc = "finish"
          /\ work' = [work EXCEPT ![w].pc = "gone"]
          /\ UNCHANGED row
  /\ UNCHANGED <<saved, ctl, monitors, answers, history, silent, faults>>

\* "done" stands for "completed" and "waiting".
Finishes(w) ==
  /\ work[w].pc = "finish"
  /\ FinishRow("done")
  /\ work' = [work EXCEPT ![w].pc = "gone"]
  /\ UNCHANGED <<saved, ctl, monitors, answers, history, silent, faults>>

\* The except branch: a run.failed unless the stream has ended, and the row.
Fails(w) ==
  /\ work[w].pc = "raised"
  /\ ctl' = [ctl EXCEPT ![work[w].proc].ended = TRUE]
  /\ FinishRow("failed")
  /\ work' = [work EXCEPT ![w].pc = "gone"]
  /\ UNCHANGED <<saved, monitors, answers, history, silent, faults>>

-----------------------------------------------------------------------------
(***************************************************************************)
(* Faults and time.                                                         *)
(***************************************************************************)

\* Postgres refuses one call.  Every call of the try block ends in the except
\* branch, and a finish refused there ends the thread.  A section's checkpoint
\* is refused inside the node, which takes it for a report that failed.
StoreFails(w) ==
  /\ faults < MaxFaults
  /\ \/ /\ work[w].pc \in {"insert", "finish"} \/ (work[w].pc = "step" /\ work[w].pending /= None)
        /\ work' = [work EXCEPT ![w].pc = "raised"]
        /\ UNCHANGED ctl
     \/ /\ work[w].pc = "raised"
        /\ work' = [work EXCEPT ![w].pc = "gone"]
        /\ ctl' = [ctl EXCEPT ![work[w].proc].ended = TRUE]
     \/ /\ work[w].pc = "node" /\ work[w].node = Nodes /\ work[w].part < Sections
        /\ work' = [work EXCEPT ![w].pc = "step"]
        /\ ctl' = [ctl EXCEPT ![work[w].proc] = [open |-> 0, last |-> Nodes, ended |-> TRUE]]
  /\ faults' = faults + 1
  /\ UNCHANGED <<row, saved, monitors, answers, history, silent>>

\* Postgres refuses claim_stale: nothing catches it, and the thread ends.
MonitorFails(p) ==
  /\ faults < MaxFaults
  /\ p \in monitors
  /\ monitors' = monitors \ {p}
  /\ faults' = faults + 1
  /\ UNCHANGED <<row, saved, work, ctl, answers, history, silent>>

\* Process p dies and is started again: its workers and its stages are gone.
Crash(p) ==
  /\ faults < MaxFaults
  /\ p \notin monitors \/ \E w \in Workers : Alive(w) /\ work[w].proc = p
  /\ work' = [w \in Workers |->
                IF Alive(w) /\ work[w].proc = p THEN [work[w] EXCEPT !.pc = "gone"] ELSE work[w]]
  /\ ctl' = [ctl EXCEPT ![p] = Fresh]
  /\ monitors' = monitors \cup {p}
  /\ faults' = faults + 1
  /\ UNCHANGED <<row, saved, answers, history, silent>>

\* The live workers whose run becomes stale with the next tick, though none has
\* been missed before: one that waits in the pool, or in one long node, writes no
\* heartbeat, since only a checkpoint does.
Missed ==
  IF row.status = "running" /\ row.age + 1 = StaleAfter
  THEN {w \in Workers : Alive(w)} \ silent ELSE {}

\* Time: the heartbeat ages, the lease runs out.  That a live worker's heartbeat is
\* missed is one of the behaviour's faults.
Tick ==
  /\ row.age < StaleAfter \/ row.lease > 0
  /\ Missed /= {} => faults < MaxFaults
  /\ row' = [row EXCEPT !.age = IF @ < StaleAfter THEN @ + 1 ELSE @,
                        !.lease = IF @ > 0 THEN @ - 1 ELSE @]
  /\ silent' = silent \cup Missed
  /\ faults' = IF Missed = {} THEN faults ELSE faults + 1
  /\ UNCHANGED <<saved, work, ctl, monitors, answers, history>>

Work(w) ==
  \/ Start(w) \/ Section(w) \/ NodeEnds(w) \/ Step(w)
  \/ LookForAnswer(w) \/ InsertAnswer(w) \/ Finishes(w) \/ Fails(w)

Next ==
  \/ \E w \in Workers : Work(w) \/ NodeRaises(w) \/ StoreFails(w)
  \/ \E p \in Procs : Claim(p) \/ Crash(p) \/ MonitorFails(p)
  \/ Tick

\* A thread that can go on does, time passes, and some process's monitor wakes
\* every five minutes.
Fairness ==
  /\ \A w \in Workers : WF_vars(Work(w))
  /\ WF_vars(Tick)
  /\ WF_vars(\E p \in Procs : Claim(p))

Spec == Init /\ [][Next]_vars
FairSpec == Spec /\ Fairness

-----------------------------------------------------------------------------
(***************************************************************************)
(* Properties.                                                              *)
(***************************************************************************)

TypeOK ==
  /\ row \in [status : {"running", "done", "failed"}, recoveries : 0 .. MaxRecoveries,
              age : 0 .. StaleAfter, lease : 0 .. LeaseTicks]
  /\ saved \in Checkpoints \cup {None}
  /\ work \in [Workers -> [pc : {"idle", "ready", "node", "step", "answer", "insert", "finish",
                                 "raised", "gone"},
                           proc : Procs \cup {None}, node : Chain, state : States,
                           pending : States \cup {None}, part : 0 .. Sections, seen : BOOLEAN]]
  /\ ctl \in [Procs -> [open : 0 .. Nodes, last : 0 .. Nodes, ended : BOOLEAN]]
  /\ monitors \subseteq Procs
  /\ answers \in Nat
  /\ ran \subseteq Chain
  /\ written \in [1 .. Sections -> Nat]
  /\ silent \subseteq Workers
  /\ faults \in 0 .. MaxFaults

\* Whatever was replayed or restored on the way, and by however many workers at
\* once, a worker that answers has the result of every node: recovery "never
\* skips one" (api.py:448).
NothingSkipped ==
  \A w \in Workers : work[w].pc \in {"answer", "insert", "finish"} => work[w].state.has = Chain

\* As long as no heartbeat of a live worker was missed, a takeover replays the
\* node in flight and, when the crash came before its late checkpoint, the
\* completed node before it, but never two completed ones.
\* (_run_graph_with_checkpoints says "at most the node that was still in flight"
\* (api.py:447): that is one node less than what it does.)
CheckpointLag ==
  silent = {} => \A n \in ran : IF saved = None THEN n <= 2 ELSE n <= saved.next + 1

\* Both: a resumed run has what was done, and repeats no more than it must.
ResumedExactly == TypeOK /\ NothingSkipped /\ CheckpointLag

\* The claims of claim_stale make two threads execute the run only if one of them
\* lived while its heartbeat was missed, whatever else crashes or is refused.
OneWorker ==
  \A v, w \in Workers : Alive(v) /\ Alive(w) => v = w \/ v \in silent \/ w \in silent

\* A row finished as completed or waiting has its answer in the conversation:
\* _execute appends before it finishes, and a turn replayed after a crash in
\* between finds its answer there.  Each worker whose heartbeat was missed can
\* make one answer more, since append looks before it inserts.
AnsweredOnce ==
  /\ answers <= 1 + Cardinality(silent)
  /\ row.status = "done" => answers > 0

\* A row that has ended is never running again and never claimed, and only a run
\* that was taken over from a live worker ends a second time: finish checks neither
\* the status nor the lease, so the end of that worker replaces the first one.
EndedForGood ==
  [][row.status /= "running" =>
       /\ row'.status /= "running"
       /\ row'.recoveries = row.recoveries
       /\ silent = {} => row'.status = row.status]_vars

\* Once a checkpoint is there and no claim was spent before it, two faults - a
\* process that dies, a call the store refuses, a heartbeat that is missed - still
\* end in a finished row: the two claims are enough.
EndsAfterCheckpoint == (saved /= None /\ row.recoveries = 0) ~> (row.status /= "running")

\* "test_report_recovery_skips_checkpointed_sections" (tests/test_competitor_
\* report.py:293): a section of the report, checkpointed when it was written, is
\* not generated again.
SectionsWrittenOnce == \A k \in 1 .. Sections : written[k] <= 1
=============================================================================
