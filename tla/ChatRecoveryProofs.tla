------------------------- MODULE ChatRecoveryProofs -------------------------
(***************************************************************************)
(* Proofs about ChatRecovery: whichever processes crash, store calls are    *)
(* refused, heartbeats are missed and monitors claim, a run goes on from    *)
(* where it was left, and what several workers of it can do is bounded by   *)
(* the heartbeats that were missed.                                         *)
(***************************************************************************)
EXTENDS ChatRecovery, FiniteSetTheorems, TLAPS

Executing == {"ready", "node", "step"}
Answering == {"answer", "insert", "finish"}

WorkerRecords ==
  [pc : {"idle", "ready", "node", "step", "answer", "insert", "finish", "raised", "gone"},
   proc : Procs \cup {None}, node : Chain, state : States,
   pending : States \cup {None}, part : 0 .. Sections, seen : BOOLEAN]
Controls == [open : 0 .. Nodes, last : 0 .. Nodes, ended : BOOLEAN]
Rows == [status : {"running", "done", "failed"}, recoveries : 0 .. MaxRecoveries,
         age : 0 .. StaleAfter, lease : 0 .. LeaseTicks]

\* The types, with names for their parts.
Types ==
  /\ row \in Rows
  /\ saved \in Checkpoints \cup {None}
  /\ work \in [Workers -> WorkerRecords]
  /\ ctl \in [Procs -> Controls]
  /\ monitors \subseteq Procs
  /\ answers \in Nat
  /\ ran \subseteq Chain
  /\ written \in [1 .. Sections -> Nat]
  /\ silent \subseteq Workers
  /\ faults \in 0 .. MaxFaults

\* What a worker and the checkpoint hold: the nodes before the one they are at.
Holds(w) ==
  /\ work[w].state.has = 1 .. work[w].node - 1
  /\ work[w].pending /= None => work[w].pending.has = 1 .. work[w].node - 1
SavedWhole == saved /= None => saved.state.has = 1 .. saved.next - 1

\* A lone worker is at most one node ahead of the newest checkpoint, and its first
\* checkpoint is still to come only at the node it was submitted with.
Near(w) ==
  /\ saved = None => work[w].node <= 2
  /\ saved /= None => saved.next <= work[w].node /\ work[w].node <= saved.next + 1
  /\ work[w].pending = None => (IF saved = None THEN work[w].node = 1 ELSE work[w].node = saved.next)

WorkerSound(w) ==
  /\ work[w].pc \in Executing => Holds(w)
  /\ work[w].pc \in Answering => work[w].state.has = Chain
  /\ work[w].pc = "insert" /\ work[w].seen => answers > 0
  /\ work[w].pc = "finish" => answers > 0

LoneSound ==
  silent = {} => \A w \in Workers : work[w].pc \in Executing => Near(w)

\* Whoever lives when the run can be claimed has been missed; and a row ends under
\* a live worker only after a heartbeat was missed.
MissedKnown ==
  row.status = "running" /\ row.age >= StaleAfter => \A w \in Workers : Alive(w) => w \in silent
EndsAlone ==
  row.status /= "running" /\ silent = {} => \A w \in Workers : ~Alive(w)

\* The answers there are, and those that will be added by workers that have looked.
Unseen == {w \in Workers : work[w].pc = "insert" /\ ~work[w].seen}
Answered == answers + Cardinality(Unseen) <= 1 + Cardinality(silent)
DoneAnswered == row.status = "done" => answers > 0

\* The inductive invariant.
Inv ==
  /\ Types /\ OneWorker /\ MissedKnown /\ EndsAlone
  /\ \A w \in Workers : WorkerSound(w)
  /\ LoneSound /\ CheckpointLag /\ SavedWhole
  /\ Answered /\ DoneAnswered

-----------------------------------------------------------------------------
(***************************************************************************)
(* Who lives, and who has been missed.                                      *)
(***************************************************************************)

\* The sets of workers that are counted are finite.
LEMMA WorkersFinite ==
  /\ IsFiniteSet(Workers)
  /\ \A S \in SUBSET Workers : IsFiniteSet(S) /\ Cardinality(S) \in Nat
<1>1. IsFiniteSet(0 .. MaxRecoveries)
  BY FS_Interval, LimitsAssumption
<1>2. \A S \in SUBSET Workers : IsFiniteSet(S)
  BY <1>1, FS_Subset DEF Workers
<1> QED
  BY <1>1, <1>2, FS_CardinalityType DEF Workers

\* A step after which nobody lives that did not live before, and that forgets no
\* missed heartbeat, brings no two workers together.
LEMMA NobodyWakes ==
  ASSUME OneWorker, silent \subseteq silent', \A v \in Workers : Alive(v)' => Alive(v)
  PROVE  OneWorker'
BY DEF OneWorker

\* The count of answers grows with nobody's look.
LEMMA NobodyLooks ==
  ASSUME Types, Answered, Unseen' \subseteq Unseen, silent \subseteq silent', silent' \subseteq Workers,
         answers' = answers
  PROVE  Answered'
<1>1. Unseen \subseteq Workers /\ silent \subseteq Workers
  BY DEF Unseen, Types
<1>2. Cardinality(Unseen') <= Cardinality(Unseen)
  BY <1>1, WorkersFinite, FS_Subset
<1>3. Cardinality(silent) <= Cardinality(silent')
  BY <1>1, WorkersFinite, FS_Subset
<1>4. /\ Cardinality(Unseen') \in Nat /\ Cardinality(Unseen) \in Nat
      /\ Cardinality(silent) \in Nat /\ Cardinality(silent') \in Nat
  BY <1>1, WorkersFinite
<1> QED
  BY <1>2, <1>3, <1>4 DEF Answered, Types

\* What a step of worker w has to keep, when it wakes nobody, looks for no answer,
\* and leaves the row running, ended as it was, or with a fresh heartbeat.
LEMMA OneMoves ==
  ASSUME Inv, NEW w \in Workers, Alive(w),
         \A v \in Workers \ {w} : work'[v] = work[v],
         work'[w].pc = "insert" => work'[w] = work[w],
         UNCHANGED silent, answers' = answers,
         UNCHANGED row \/ (row'.status = row.status /\ row'.age < StaleAfter),
         Types', WorkerSound(w)', LoneSound', CheckpointLag', SavedWhole'
  PROVE  Inv'
<1>1. \A v \in Workers : Alive(v)' => Alive(v)
  BY DEF Alive
<1>2. OneWorker'
  BY <1>1, NobodyWakes DEF Inv
<1>3. MissedKnown'
  <2> SUFFICES ASSUME row'.status = "running", row'.age >= StaleAfter, NEW v \in Workers, Alive(v)'
               PROVE  v \in silent
    BY DEF MissedKnown
  <2>1. row'.age \in Nat /\ StaleAfter \in Nat
    BY LimitsAssumption DEF Types, Rows
  <2>2. UNCHANGED row
    BY <2>1
  <2> QED
    BY <1>1, <2>2 DEF Inv, MissedKnown
<1>4. EndsAlone'
  BY <1>1 DEF Inv, EndsAlone
<1>5. \A v \in Workers : WorkerSound(v)'
  <2> SUFFICES ASSUME NEW v \in Workers, v /= w PROVE WorkerSound(v)'
    OBVIOUS
  <2>1. work'[v] = work[v] /\ WorkerSound(v)
    BY DEF Inv
  <2> QED
    BY <2>1 DEF WorkerSound, Holds
<1>6. Answered'
  <2>1. Unseen' \subseteq Unseen
    BY DEF Unseen
  <2>2. silent \subseteq silent' /\ silent' \subseteq Workers
    BY DEF Inv, Types
  <2> QED
    BY <2>1, <2>2, NobodyLooks DEF Inv
<1>7. DoneAnswered'
  BY DEF Inv, DoneAnswered
<1> QED
  BY <1>2, <1>3, <1>4, <1>5, <1>6, <1>7 DEF Inv

\* While no heartbeat was missed, what is said of a lone worker is said of w.
LEMMA Lone ==
  ASSUME Inv, NEW w \in Workers, Alive(w),
         \A v \in Workers \ {w} : work'[v] = work[v], UNCHANGED silent,
         silent = {} => (work'[w].pc \in Executing => Near(w)')
  PROVE  LoneSound'
<1> SUFFICES ASSUME silent = {}, NEW v \in Workers, v /= w PROVE work'[v].pc \notin Executing
  BY DEF LoneSound
<1>1. ~Alive(v) /\ work'[v] = work[v]
  BY DEF Inv, OneWorker
<1> QED
  BY <1>1 DEF Alive, Executing

-----------------------------------------------------------------------------
(***************************************************************************)
(* Shapes.                                                                  *)
(***************************************************************************)

Positions == {"idle", "ready", "node", "step", "answer", "insert", "finish", "raised", "gone"}

LEMMA IdleShape ==
  /\ Idle.state \in States /\ Idle.state.has = {}
  /\ Idle \in WorkerRecords /\ Idle.pc = "idle" /\ Idle.pending = None /\ Idle.part = 0
<1>1. 1 \in Chain /\ 0 \in 0 .. Sections
  BY ChainAssumption DEF Chain
<1>2. [has |-> {}, sections |-> 0] \in States
  BY <1>1 DEF States
<1>3. Idle.state = [has |-> {}, sections |-> 0]
  BY DEF Idle
<1>4. Idle \in WorkerRecords
  BY <1>1, <1>2 DEF Idle, WorkerRecords
<1>5. Idle.pc = "idle" /\ Idle.pending = None /\ Idle.part = 0
  BY DEF Idle
<1>6. Idle.state.has = {}
  BY <1>3
<1>7. Idle.state \in States
  BY <1>2, <1>3
<1> QED
  BY <1>4, <1>5, <1>6, <1>7

LEMMA SubmittedShape ==
  ASSUME NEW p \in Procs, NEW next \in Chain, NEW state \in States
  PROVE  LET sent == Submitted(p, next, state)
         IN  /\ sent \in WorkerRecords
             /\ sent.pc = "ready" /\ sent.node = next /\ sent.state = state
             /\ sent.pending = None /\ sent.part = 0
<1>1. Idle \in WorkerRecords /\ Idle.pending = None /\ Idle.part = 0
  BY IdleShape
<1> QED
  BY <1>1 DEF Submitted, WorkerRecords

\* A worker that only goes on to another position keeps all it carries.
LEMMA Moves ==
  ASSUME Types, NEW w \in Workers, NEW pc \in Positions, work' = [work EXCEPT ![w].pc = pc]
  PROVE  /\ work' \in [Workers -> WorkerRecords]
         /\ \A v \in Workers \ {w} : work'[v] = work[v]
         /\ work'[w].pc = pc /\ work'[w].node = work[w].node /\ work'[w].state = work[w].state
         /\ work'[w].pending = work[w].pending /\ work'[w].part = work[w].part
         /\ work'[w].seen = work[w].seen
<1> DEFINE r == work[w]
           new == [r EXCEPT !.pc = pc]
<1>1. r \in WorkerRecords
  BY DEF Types
<1>2. work' = [work EXCEPT ![w] = new]
  BY <1>1 DEF Types
<1>3. /\ new \in WorkerRecords
      /\ new.pc = pc /\ new.node = r.node /\ new.state = r.state
      /\ new.pending = r.pending /\ new.part = r.part /\ new.seen = r.seen
  BY <1>1 DEF WorkerRecords, Positions
<1>4. work'[w] = new /\ \A v \in Workers \ {w} : work'[v] = work[v]
  BY <1>2 DEF Types
<1> HIDE DEF new
<1>5. work' \in [Workers -> WorkerRecords]
  BY <1>2, <1>3 DEF Types
<1> QED
  BY <1>3, <1>4, <1>5

\* A thread that raises leaves what is durable, and the others, as they are.
LEMMA Leaves ==
  ASSUME Inv, NEW w \in Workers, Alive(w), NEW pc \in {"raised", "gone"},
         work' = [work EXCEPT ![w].pc = pc], Types',
         UNCHANGED <<row, saved, answers, ran, silent>>
  PROVE  Inv'
<1>1. work'[w].pc = pc /\ \A v \in Workers \ {w} : work'[v] = work[v]
  BY Moves DEF Inv, Positions
<1>2. WorkerSound(w)'
  BY <1>1 DEF WorkerSound, Executing, Answering
<1>3. LoneSound'
  BY <1>1, Lone DEF Executing
<1>4. CheckpointLag' /\ SavedWhole'
  BY DEF Inv, CheckpointLag, SavedWhole
<1> QED
  BY <1>1, <1>2, <1>3, <1>4, OneMoves
-----------------------------------------------------------------------------
LEMMA InitInv == Init => Inv
<1> SUFFICES ASSUME Init PROVE Inv
  OBVIOUS
<1>1. PICK p \in Procs :
        work = [w \in Workers |-> IF w = 0 THEN Submitted(p, 1, Idle.state) ELSE Idle]
  BY DEF Init
<1>2. 1 \in Chain /\ 0 \in Workers /\ 0 \in 0 .. Sections
  BY ChainAssumption, LimitsAssumption DEF Chain, Workers
<1> DEFINE first == Submitted(p, 1, Idle.state)
<1>3. /\ first \in WorkerRecords
      /\ first.pc = "ready" /\ first.node = 1 /\ first.state = Idle.state
      /\ first.pending = None /\ first.part = 0
  BY <1>2, IdleShape, SubmittedShape
<1> HIDE DEF first
<1>4. /\ work \in [Workers -> WorkerRecords] /\ work[0] = first
      /\ \A w \in Workers \ {0} : work[w] = Idle
  BY <1>1, <1>2, <1>3, IdleShape DEF first
<1>5. \A w \in Workers : work[w].pc \in {"ready", "idle"} /\ (Alive(w) => w = 0)
  BY <1>3, <1>4, IdleShape DEF Alive
<1>6. row.status = "running" /\ row.age = 0 /\ row \in Rows
  BY LimitsAssumption DEF Init, Rows
<1>7. Types
  <2>1. ctl \in [Procs -> Controls]
    BY ChainAssumption DEF Init, Fresh, Controls
  <2> QED
    BY <1>4, <1>6, <2>1, LimitsAssumption DEF Init, Types
<1>8. OneWorker
  BY <1>5 DEF OneWorker
<1>9. MissedKnown /\ EndsAlone
  BY <1>6, LimitsAssumption DEF MissedKnown, EndsAlone
<1>10. \A w \in Workers : WorkerSound(w)
  <2> SUFFICES ASSUME NEW w \in Workers, work[w].pc \in Executing PROVE Holds(w)
    BY <1>5 DEF WorkerSound, Answering
  <2>1. w = 0
    BY <1>5 DEF Executing, Alive
  <2>2. work[w].state.has = {} /\ work[w].node = 1 /\ work[w].pending = None
    BY <1>3, <1>4, <2>1, IdleShape
  <2>3. 1 .. 1 - 1 = {}
    OBVIOUS
  <2> QED
    BY <2>2, <2>3 DEF Holds
<1>11. LoneSound
  <2> SUFFICES ASSUME NEW w \in Workers, work[w].pc \in Executing PROVE Near(w)
    BY DEF LoneSound
  <2>1. w = 0
    BY <1>5 DEF Executing, Alive
  <2> QED
    BY <1>3, <1>4, <2>1 DEF Init, Near
<1>12. CheckpointLag /\ SavedWhole /\ DoneAnswered
  BY <1>6 DEF Init, CheckpointLag, SavedWhole, DoneAnswered
<1>13. Answered
  <2>1. Unseen = {}
    BY <1>5 DEF Unseen
  <2> QED
    BY <2>1, FS_EmptySet DEF Init, Answered
<1> QED
  BY <1>7, <1>8, <1>9, <1>10, <1>11, <1>12, <1>13 DEF Inv

-----------------------------------------------------------------------------
(***************************************************************************)
(* The graph.                                                               *)
(***************************************************************************)

LEMMA StartKeeps ==
  ASSUME Inv, NEW w \in Workers, Start(w)
  PROVE  Inv'
<1> DEFINE p == work[w].proc
           n == work[w].node
<1>1. /\ work[w].pc = "ready" /\ Alive(w)
      /\ UNCHANGED <<row, saved, monitors, answers, ran, written, silent, faults>>
  BY DEF Start, Alive, history
<1>2. Types /\ WorkerSound(w)
  BY DEF Inv
<1>4. CASE Startable(ctl[p], n)
  <2> DEFINE r == work[w]
             new == [r EXCEPT !.pc = "node", !.part = 0]
  <2>1. ctl' = [ctl EXCEPT ![p].open = n] /\ work' = [work EXCEPT ![w].pc = "node", ![w].part = 0]
    BY <1>4 DEF Start
  <2>2. r \in WorkerRecords /\ 0 \in 0 .. Sections
    BY <1>2, ChainAssumption DEF Types
  <2>3. work' = [work EXCEPT ![w] = new]
    BY <1>2, <2>1 DEF Types
  <2>4. /\ new \in WorkerRecords
        /\ new.pc = "node" /\ new.node = r.node /\ new.state = r.state /\ new.pending = r.pending
    BY <2>2 DEF WorkerRecords
  <2>5. work'[w] = new /\ \A v \in Workers \ {w} : work'[v] = work[v]
    BY <1>2, <2>3 DEF Types
  <2> HIDE DEF new
  <2>6. Types'
    <3>1. work' \in [Workers -> WorkerRecords]
      BY <1>2, <2>3, <2>4 DEF Types
    <3>2. ctl' \in [Procs -> Controls]
      <4>1. n \in 0 .. Nodes
        BY <2>2, ChainAssumption DEF WorkerRecords, Chain
      <4> QED
        BY <1>2, <2>1, <4>1 DEF Types, Controls
    <3> QED
      BY <1>1, <1>2, <3>1, <3>2 DEF Types
  <2>7. WorkerSound(w)'
    BY <1>1, <1>2, <2>4, <2>5 DEF WorkerSound, Executing, Answering, Holds
  <2>8. LoneSound'
    <3>1. silent = {} => Near(w)'
      BY <1>1, <2>4, <2>5 DEF Inv, LoneSound, Near, Executing
    <3> QED
      BY <1>1, <2>5, <3>1, Lone
  <2>9. CheckpointLag' /\ SavedWhole'
    BY <1>1 DEF Inv, CheckpointLag, SavedWhole
  <2> QED
    BY <1>1, <2>4, <2>5, <2>6, <2>7, <2>8, <2>9, OneMoves
<1>5. CASE ~Startable(ctl[p], n)
  <2>1. work' = [work EXCEPT ![w].pc = "raised"] /\ UNCHANGED ctl
    BY <1>5 DEF Start
  <2>2. Types'
    BY <1>1, <1>2, <2>1, Moves DEF Types, Positions
  <2> QED
    BY <1>1, <2>1, <2>2, Leaves
<1> QED
  BY <1>4, <1>5

\* A checkpoint leaves the row's status, and refreshes the heartbeat of a run that
\* has not ended.
LEMMA CheckpointShape ==
  ASSUME Types, NEW next \in Chain, NEW state \in States, Checkpoint(next, state)
  PROVE  /\ saved' \in Checkpoints /\ saved' /= None
         /\ saved'.next = next /\ saved'.state = state
         /\ row' \in Rows
         /\ UNCHANGED row \/ (row'.status = row.status /\ row'.age < StaleAfter)
<1>1. saved' = [next |-> next, state |-> state]
  BY DEF Checkpoint
<1>2. saved' \in Checkpoints
  BY <1>1 DEF Checkpoints
<1>3. CASE row.status = "running"
  <2>1. row' = [row EXCEPT !.age = 0]
    BY <1>3 DEF Checkpoint
  <2> QED
    BY <1>1, <1>2, <2>1, NoneAssumption, LimitsAssumption DEF Types, Rows
<1>4. CASE row.status /= "running"
  <2>1. row' = row
    BY <1>4 DEF Checkpoint, Types, Rows
  <2> QED
    BY <1>1, <1>2, <2>1, NoneAssumption DEF Types
<1> QED
  BY <1>3, <1>4

LEMMA SectionKeeps ==
  ASSUME Inv, NEW w \in Workers, Section(w)
  PROVE  Inv'
<1> DEFINE r == work[w]
           k == r.part + 1
           new == [r EXCEPT !.part = k]
           state == [r.state EXCEPT !.sections = k]
<1>1. /\ r.pc = "node" /\ r.node = Nodes /\ r.part < Sections /\ Alive(w)
      /\ work' = [work EXCEPT ![w].part = k]
      /\ written' = IF Generated(w) THEN [written EXCEPT ![k] = @ + 1] ELSE written
      /\ Checkpoint(Nodes, state)
      /\ UNCHANGED <<ctl, monitors, answers, ran, silent, faults>>
  BY DEF Section, Alive
<1>2. Types /\ WorkerSound(w)
  BY DEF Inv
<1>3. /\ r \in WorkerRecords /\ r.state \in States /\ k \in 1 .. Sections /\ Nodes \in Chain
  BY <1>1, <1>2, ChainAssumption DEF Types, WorkerRecords, Chain
<1>4. Holds(w)
  BY <1>1, <1>2 DEF WorkerSound, Executing
<1>6. /\ state \in States /\ state.has = r.state.has
      /\ new \in WorkerRecords /\ new.pc = "node" /\ new.node = Nodes /\ new.state = r.state
      /\ new.pending = r.pending
  <2>1. k \in 0 .. Sections
    BY <1>3, ChainAssumption
  <2>2. state \in States /\ state.has = r.state.has
    BY <1>3, <2>1 DEF States
  <2>3. /\ new \in WorkerRecords /\ new.pc = "node" /\ new.node = Nodes /\ new.state = r.state
        /\ new.pending = r.pending
    BY <1>1, <1>3, <2>1 DEF WorkerRecords
  <2> QED
    BY <2>2, <2>3
<1>7. work' = [work EXCEPT ![w] = new]
  BY <1>1, <1>2 DEF Types
<1>8. work'[w] = new /\ \A v \in Workers \ {w} : work'[v] = work[v]
  BY <1>2, <1>7 DEF Types
<1> HIDE DEF new, state
<1>9. /\ saved' \in Checkpoints /\ saved' /= None /\ saved'.next = Nodes /\ saved'.state = state
      /\ row' \in Rows /\ (UNCHANGED row \/ (row'.status = row.status /\ row'.age < StaleAfter))
  BY <1>1, <1>2, <1>3, <1>6, CheckpointShape
<1>10. written' \in [1 .. Sections -> Nat]
  BY <1>1, <1>2, <1>3 DEF Types
<1>12. Types'
  <2>1. work' \in [Workers -> WorkerRecords]
    BY <1>2, <1>6, <1>7 DEF Types
  <2> QED
    BY <1>1, <1>2, <1>9, <1>10, <2>1 DEF Types
<1>13. SavedWhole' /\ CheckpointLag'
  <2>1. SavedWhole'
    BY <1>1, <1>4, <1>6, <1>9 DEF SavedWhole, Holds
  <2>2. CheckpointLag'
    <3> SUFFICES ASSUME NEW n \in ran PROVE n <= Nodes + 1
      BY <1>1, <1>9 DEF CheckpointLag
    <3> QED
      BY <1>2, ChainAssumption DEF Types, Chain
  <2> QED
    BY <2>1, <2>2
<1>14. WorkerSound(w)'
  BY <1>1, <1>4, <1>6, <1>8 DEF WorkerSound, Executing, Answering, Holds
<1>15. LoneSound'
  <2>1. silent = {} => Near(w)'
    <3> SUFFICES ASSUME silent = {} PROVE Near(w)'
      OBVIOUS
    <3>1. Nodes <= Nodes /\ Nodes <= Nodes + 1
      BY ChainAssumption
    <3> QED
      BY <1>6, <1>8, <1>9, <3>1 DEF Near
  <2> QED
    BY <1>1, <1>8, <2>1, Lone
<1> QED
  BY <1>1, <1>6, <1>8, <1>9, <1>12, <1>13, <1>14, <1>15, OneMoves

LEMMA NodeEndsKeeps ==
  ASSUME Inv, NEW w \in Workers, NodeEnds(w)
  PROVE  Inv'
<1> DEFINE p == work[w].proc
           n == work[w].node
<1>1. /\ work[w].pc = "node" /\ Alive(w)
      /\ UNCHANGED <<row, saved, monitors, answers, written, silent, faults>>
  BY DEF NodeEnds, Alive
<1>2. Types /\ WorkerSound(w)
  BY DEF Inv
<1>3. n \in Chain /\ Holds(w) /\ (silent = {} => Near(w))
  BY <1>1, <1>2 DEF Types, WorkerRecords, WorkerSound, Executing, Inv, LoneSound
<1>4. CASE ctl[p].open = n
  <2>1. /\ ctl' = [ctl EXCEPT ![p] = [open |-> 0, last |-> n, ended |-> @.ended \/ n = Nodes]]
        /\ work' = [work EXCEPT ![w].pc = "step"] /\ ran' = ran \cup {n}
    BY <1>4 DEF NodeEnds
  <2>2. /\ work' \in [Workers -> WorkerRecords] /\ \A v \in Workers \ {w} : work'[v] = work[v]
        /\ work'[w].pc = "step" /\ work'[w].node = n /\ work'[w].state = work[w].state
        /\ work'[w].pending = work[w].pending
    BY <1>2, <2>1, Moves DEF Positions
  <2>5. Types'
    <3>1. ctl' \in [Procs -> Controls]
      <4>1. 0 \in 0 .. Nodes /\ n \in 0 .. Nodes
        BY <1>3, ChainAssumption DEF Chain
      <4>2. [open |-> 0, last |-> n, ended |-> ctl[p].ended \/ n = Nodes] \in Controls
        BY <4>1 DEF Controls
      <4> QED
        BY <1>2, <2>1, <4>2 DEF Types
    <3> QED
      BY <1>1, <1>2, <1>3, <2>1, <2>2, <3>1 DEF Types
  <2>6. CheckpointLag' /\ SavedWhole'
    BY <1>1, <1>3, <2>1 DEF Inv, CheckpointLag, SavedWhole, Near
  <2>7. WorkerSound(w)'
    BY <1>1, <1>3, <2>2 DEF WorkerSound, Executing, Answering, Holds
  <2>8. LoneSound'
    <3>1. silent = {} => Near(w)'
      BY <1>1, <1>3, <2>2 DEF Near
    <3> QED
      BY <1>1, <2>2, <3>1, Lone
  <2> QED
    BY <1>1, <2>2, <2>5, <2>6, <2>7, <2>8, OneMoves
<1>5. CASE ctl[p].open /= n
  <2>1. work' = [work EXCEPT ![w].pc = "raised"] /\ UNCHANGED <<ctl, ran>>
    BY <1>5 DEF NodeEnds
  <2>2. Types'
    BY <1>1, <1>2, <2>1, Moves DEF Types, Positions
  <2> QED
    BY <1>1, <2>1, <2>2, Leaves
<1> QED
  BY <1>4, <1>5

LEMMA NodeRaisesKeeps ==
  ASSUME Inv, NEW w \in Workers, NodeRaises(w)
  PROVE  Inv'
<1>1. /\ Alive(w) /\ work' = [work EXCEPT ![w].pc = "raised"]
      /\ ctl' = [ctl EXCEPT ![work[w].proc].ended = TRUE]
      /\ UNCHANGED <<row, saved, monitors, answers, ran, written, silent, faults>>
  BY DEF NodeRaises, Alive, history
<1>2. Types
  BY DEF Inv
<1>3. Types'
  <2>1. ctl' \in [Procs -> Controls]
    BY <1>1, <1>2 DEF Types, Controls
  <2> QED
    BY <1>1, <1>2, <2>1, Moves DEF Types, Positions
<1> QED
  BY <1>1, <1>3, Leaves

LEMMA StepKeeps ==
  ASSUME Inv, NEW w \in Workers, Step(w)
  PROVE  Inv'
<1> DEFINE r == work[w]
           n == r.node
           after == [r.state EXCEPT !.has = @ \cup {n}]
           new == [r EXCEPT !.state = after, !.pending = after,
                            !.pc = IF n = Nodes THEN "answer" ELSE "ready",
                            !.node = IF n = Nodes THEN n ELSE n + 1]
<1>1. /\ r.pc = "step" /\ Alive(w)
      /\ IF r.pending = None THEN UNCHANGED <<row, saved>> ELSE LateCheckpoint(w, n)
      /\ work' = [work EXCEPT ![w].state = after, ![w].pending = after,
                              ![w].pc = IF n = Nodes THEN "answer" ELSE "ready",
                              ![w].node = IF n = Nodes THEN n ELSE n + 1]
      /\ UNCHANGED <<ctl, monitors, answers, ran, written, silent, faults>>
  BY DEF Step, Alive, history
<1>2. Types /\ WorkerSound(w)
  BY DEF Inv
<1>3. r \in WorkerRecords /\ r.state \in States /\ n \in Chain
  BY <1>2 DEF Types, WorkerRecords
<1>4. Holds(w) /\ (silent = {} => Near(w))
  BY <1>1, <1>2 DEF WorkerSound, Executing, Inv, LoneSound
<1>5. after \in States /\ after.has = r.state.has \cup {n}
  BY <1>3 DEF States
<1>6. after.has = 1 .. n
  BY <1>3, <1>4, <1>5, ChainAssumption DEF Holds, Chain
<1> HIDE DEF after
<1>7. /\ new \in WorkerRecords /\ new.state = after /\ new.pending = after
      /\ n = Nodes => new.pc = "answer" /\ new.node = n
      /\ n /= Nodes => new.pc = "ready" /\ new.node = n + 1
  <2>1. n /= Nodes => n + 1 \in Chain
    BY <1>3, ChainAssumption DEF Chain
  <2> QED
    BY <1>3, <1>5, <2>1 DEF WorkerRecords
<1>8. work' = [work EXCEPT ![w] = new]
  BY <1>1, <1>2 DEF Types
<1>9. work'[w] = new /\ \A v \in Workers \ {w} : work'[v] = work[v]
  BY <1>2, <1>8 DEF Types
<1> HIDE DEF new
<1>11. /\ row' \in Rows /\ (UNCHANGED row \/ (row'.status = row.status /\ row'.age < StaleAfter))
       /\ \/ /\ r.pending = None /\ saved' = saved
          \/ /\ r.pending /= None /\ saved'.next = n /\ saved'.state = r.pending
             /\ saved' \in Checkpoints /\ saved' /= None
  <2>1. CASE r.pending = None
    BY <1>1, <1>2, <2>1 DEF Types
  <2>2. CASE r.pending /= None
    <3>1. r.pending \in States
      BY <1>3, <2>2 DEF WorkerRecords
    <3>2. Checkpoint(n, r.pending)
      BY <1>1, <2>2 DEF LateCheckpoint
    <3> QED
      BY <1>2, <1>3, <2>2, <3>1, <3>2, CheckpointShape
  <2> QED
    BY <2>1, <2>2
<1>12. Types'
  <2>1. work' \in [Workers -> WorkerRecords]
    BY <1>2, <1>7, <1>8 DEF Types
  <2> QED
    BY <1>1, <1>2, <1>11, <2>1 DEF Types
<1>13. SavedWhole'
  BY <1>4, <1>11 DEF Inv, SavedWhole, Holds
<1>14. CheckpointLag'
  <2> SUFFICES ASSUME silent = {} PROVE CheckpointLag'
    BY <1>1 DEF CheckpointLag
  <2>1. CASE saved' = saved
    BY <1>1, <2>1 DEF Inv, CheckpointLag
  <2>2. CASE saved'.next = n /\ saved' /= None
    <3> SUFFICES ASSUME NEW m \in ran PROVE m <= n + 1
      BY <1>1, <2>2 DEF CheckpointLag
    <3>1. m \in Chain
      BY <1>2 DEF Types
    <3>2. CASE saved = None
      <4>1. m <= 2
        BY <3>2 DEF Inv, CheckpointLag
      <4> QED
        BY <1>3, <3>1, <4>1 DEF Chain
    <3>3. CASE saved /= None
      <4>1. m <= saved.next + 1 /\ saved.next <= n /\ saved.next \in Chain
        BY <1>2, <1>4, <3>3 DEF Inv, CheckpointLag, Near, Types, Checkpoints
      <4> QED
        BY <1>3, <3>1, <4>1 DEF Chain
    <3> QED
      BY <3>2, <3>3
  <2> QED
    BY <1>11, <2>1, <2>2
<1>15. CASE n = Nodes
  <2>1. work'[w].pc = "answer" /\ work'[w].state.has = Chain
    BY <1>6, <1>7, <1>9, <1>15 DEF Chain
  <2>2. WorkerSound(w)'
    BY <2>1 DEF WorkerSound, Executing
  <2>3. LoneSound'
    BY <1>1, <1>9, <2>1, Lone DEF Executing
  <2> QED
    BY <1>1, <1>9, <1>11, <1>12, <1>13, <1>14, <2>1, <2>2, <2>3, OneMoves
<1>16. CASE n /= Nodes
  <2>1. work'[w].pc = "ready" /\ work'[w].node = n + 1 /\ work'[w].state = after /\ work'[w].pending = after
    BY <1>7, <1>9, <1>16
  <2>2. (n + 1) - 1 = n /\ n <= n + 1 /\ n + 1 <= n + 1
    BY <1>3 DEF Chain
  <2>3. WorkerSound(w)'
    <3>1. after.has = 1 .. (n + 1) - 1
      BY <1>6, <2>2, Zenon
    <3>2. Holds(w)'
      BY <2>1, <3>1 DEF Holds
    <3> QED
      BY <2>1, <3>2 DEF WorkerSound, Answering
  <2>4. LoneSound'
    <3>1. ASSUME silent = {} PROVE Near(w)'
      <4>1. saved' = None => n + 1 <= 2
        BY <1>3, <1>4, <1>11, <3>1 DEF Near, Chain
      <4>2. saved' /= None => saved'.next <= n + 1 /\ n + 1 <= saved'.next + 1
        BY <1>3, <1>4, <1>11, <2>2, <3>1 DEF Near, Chain
      <4>3. after /= None
        BY <1>5, NoneAssumption
      <4> QED
        BY <2>1, <4>1, <4>2, <4>3 DEF Near
    <3> QED
      BY <1>1, <1>9, <3>1, Lone
  <2> QED
    BY <1>1, <1>9, <1>11, <1>12, <1>13, <1>14, <2>1, <2>3, <2>4, OneMoves
<1> QED
  BY <1>15, <1>16

-----------------------------------------------------------------------------
(***************************************************************************)
(* The answer, and the end of a run.                                        *)
(***************************************************************************)

\* Of the workers that live together all but one have been missed, and so have the
\* workers that have looked and not found an answer.
LEMMA UnseenFew == Types /\ OneWorker => Cardinality(Unseen) <= 1 + Cardinality(silent)
<1> SUFFICES ASSUME Types, OneWorker PROVE Cardinality(Unseen) <= 1 + Cardinality(silent)
  OBVIOUS
<1>1. \A v \in Unseen : v \in Workers /\ Alive(v)
  BY DEF Unseen, Alive
<1>2. Unseen \subseteq Workers /\ silent \subseteq Workers
  BY DEF Unseen, Types
<1>3. /\ IsFiniteSet(silent) /\ Cardinality(silent) \in Nat /\ Cardinality(Unseen) \in Nat
  BY <1>2, WorkersFinite
<1>4. CASE Unseen \subseteq silent
  <2>1. Cardinality(Unseen) <= Cardinality(silent)
    BY <1>3, <1>4, FS_Subset
  <2> QED
    BY <1>3, <2>1
<1>5. CASE ~(Unseen \subseteq silent)
  <2>1. PICK v \in Unseen : v \notin silent
    BY <1>5
  <2>2. Unseen \subseteq silent \cup {v}
    BY <1>1, <2>1 DEF OneWorker
  <2>3. /\ IsFiniteSet(silent \cup {v})
        /\ Cardinality(silent \cup {v}) = Cardinality(silent) + 1
    BY <1>3, <2>1, FS_AddElement
  <2>4. Cardinality(Unseen) <= Cardinality(silent) + 1
    BY <2>2, <2>3, FS_Subset
  <2> QED
    BY <1>3, <2>4
<1> QED
  BY <1>4, <1>5

\* The same of the state a step leads to.
LEMMA UnseenStayFew == (Types /\ OneWorker => Cardinality(Unseen) <= 1 + Cardinality(silent))'
BY UnseenFew, PTL

LEMMA LookForAnswerKeeps ==
  ASSUME Inv, NEW w \in Workers, LookForAnswer(w)
  PROVE  Inv'
<1> DEFINE r == work[w]
           new == [r EXCEPT !.pc = "insert", !.seen = answers > 0]
<1>1. /\ r.pc = "answer" /\ Alive(w)
      /\ work' = [work EXCEPT ![w].pc = "insert", ![w].seen = answers > 0]
      /\ UNCHANGED <<row, saved, ctl, monitors, answers, ran, written, silent, faults>>
  BY DEF LookForAnswer, Alive, history
<1>2. Types /\ WorkerSound(w)
  BY DEF Inv
<1>3. r \in WorkerRecords
  BY <1>2 DEF Types
<1>4. /\ new \in WorkerRecords /\ new.pc = "insert" /\ new.state = r.state
      /\ new.seen <=> answers > 0
  <2>1. CASE answers > 0
    <3>1. new = [r EXCEPT !.pc = "insert", !.seen = TRUE]
      BY <2>1
    <3> QED
      BY <1>3, <2>1, <3>1 DEF WorkerRecords
  <2>2. CASE ~(answers > 0)
    <3>1. (answers > 0) = FALSE
      BY <2>2
    <3>2. new = [r EXCEPT !.pc = "insert", !.seen = FALSE]
      BY <3>1, Zenon
    <3> QED
      BY <1>3, <2>2, <3>2 DEF WorkerRecords
  <2> QED
    BY <2>1, <2>2
<1>5. work' = [work EXCEPT ![w] = new]
  BY <1>1, <1>2 DEF Types
<1>6. work'[w] = new /\ \A v \in Workers \ {w} : work'[v] = work[v]
  BY <1>2, <1>5 DEF Types
<1> HIDE DEF new
<1>7. Types'
  <2>1. work' \in [Workers -> WorkerRecords]
    BY <1>2, <1>4, <1>5 DEF Types
  <2> QED
    BY <1>1, <1>2, <2>1 DEF Types
<1>8. \A v \in Workers : Alive(v)' => Alive(v)
  BY <1>1, <1>6 DEF Alive
<1>9. OneWorker'
  BY <1>1, <1>8, NobodyWakes DEF Inv
<1>10. MissedKnown' /\ EndsAlone'
  BY <1>1, <1>8 DEF Inv, MissedKnown, EndsAlone
<1>11. \A v \in Workers : WorkerSound(v)'
  <2> SUFFICES ASSUME NEW v \in Workers PROVE WorkerSound(v)'
    OBVIOUS
  <2>1. CASE v = w
    <3>1. r.state.has = Chain
      BY <1>1, <1>2 DEF WorkerSound, Answering
    <3> QED
      BY <1>1, <1>4, <1>6, <2>1, <3>1 DEF WorkerSound, Executing
  <2>2. CASE v /= w
    <3>1. work'[v] = work[v] /\ WorkerSound(v)
      BY <1>6, <2>2 DEF Inv
    <3> QED
      BY <1>1, <3>1 DEF WorkerSound, Holds
  <2> QED
    BY <2>1, <2>2
<1>12. LoneSound'
  BY <1>1, <1>4, <1>6, Lone DEF Executing
<1>13. CheckpointLag' /\ SavedWhole' /\ DoneAnswered'
  BY <1>1 DEF Inv, CheckpointLag, SavedWhole, DoneAnswered
<1>14. Answered'
  <2>1. CASE answers > 0
    <3>1. Unseen' \subseteq Unseen
      BY <1>4, <1>6, <2>1 DEF Unseen
    <3> QED
      BY <1>1, <1>2, <3>1, NobodyLooks DEF Inv, Types
  <2>2. CASE ~(answers > 0)
    <3>1. answers' = 0
      BY <1>1, <1>2, <2>2 DEF Types
    <3>2. Cardinality(Unseen') <= 1 + Cardinality(silent')
      BY <1>7, <1>9, UnseenStayFew
    <3>3. Unseen' \subseteq Workers
      BY DEF Unseen
    <3>4. Cardinality(Unseen') \in Nat
      BY <3>3, WorkersFinite
    <3> QED
      BY <3>1, <3>2, <3>4 DEF Answered
  <2> QED
    BY <2>1, <2>2
<1> QED
  BY <1>7, <1>9, <1>10, <1>11, <1>12, <1>13, <1>14 DEF Inv

LEMMA InsertAnswerKeeps ==
  ASSUME Inv, NEW w \in Workers, InsertAnswer(w)
  PROVE  Inv'
<1>1. /\ work[w].pc = "insert" /\ Alive(w) /\ work' = [work EXCEPT ![w].pc = "finish"]
      /\ answers' = IF work[w].seen THEN answers ELSE answers + 1
      /\ UNCHANGED <<row, saved, ctl, monitors, ran, written, silent, faults>>
  BY DEF InsertAnswer, Alive, history
<1>2. Types /\ WorkerSound(w)
  BY DEF Inv
<1>3. /\ work' \in [Workers -> WorkerRecords] /\ \A v \in Workers \ {w} : work'[v] = work[v]
      /\ work'[w].pc = "finish" /\ work'[w].state = work[w].state
  BY <1>1, <1>2, Moves DEF Positions
<1>4. answers' > 0 /\ answers' \in Nat /\ answers <= answers'
  <2>1. answers \in Nat /\ (work[w].seen => answers > 0)
    BY <1>1, <1>2 DEF Types, WorkerSound
  <2> QED
    BY <1>1, <2>1
<1>5. Types'
  BY <1>1, <1>2, <1>3, <1>4 DEF Types
<1>8. \A v \in Workers : Alive(v)' => Alive(v)
  BY <1>1, <1>3 DEF Alive
<1>9. OneWorker'
  BY <1>1, <1>8, NobodyWakes DEF Inv
<1>10. MissedKnown' /\ EndsAlone'
  BY <1>1, <1>8 DEF Inv, MissedKnown, EndsAlone
<1>11. \A v \in Workers : WorkerSound(v)'
  <2> SUFFICES ASSUME NEW v \in Workers PROVE WorkerSound(v)'
    OBVIOUS
  <2>1. CASE v = w
    <3>1. work[w].state.has = Chain
      BY <1>1, <1>2 DEF WorkerSound, Answering
    <3> QED
      BY <1>3, <1>4, <2>1, <3>1 DEF WorkerSound, Executing
  <2>2. CASE v /= w
    <3>1. work'[v] = work[v] /\ WorkerSound(v)
      BY <1>3, <2>2 DEF Inv
    <3> QED
      BY <1>4, <3>1 DEF WorkerSound, Holds
  <2> QED
    BY <2>1, <2>2
<1>12. LoneSound'
  BY <1>1, <1>3, Lone DEF Executing
<1>13. CheckpointLag' /\ SavedWhole' /\ DoneAnswered'
  BY <1>1, <1>4 DEF Inv, CheckpointLag, SavedWhole, DoneAnswered
<1>14. Answered'
  <2>1. Unseen' = Unseen \ {w}
    BY <1>1, <1>3 DEF Unseen
  <2>2. CASE work[w].seen
    <3>1. answers' = answers /\ Unseen' \subseteq Unseen
      BY <1>1, <2>1, <2>2
    <3> QED
      BY <1>1, <1>2, <3>1, NobodyLooks DEF Inv, Types
  <2>3. CASE ~work[w].seen
    <3>1. w \in Unseen /\ Unseen \subseteq Workers
      BY <1>1, <2>3 DEF Unseen
    <3>2. Cardinality(Unseen') = Cardinality(Unseen) - 1
      BY <2>1, <3>1, WorkersFinite, FS_RemoveElement
    <3>3. Cardinality(Unseen) \in Nat /\ Cardinality(silent) \in Nat
      BY <1>2, <3>1, WorkersFinite DEF Types
    <3>4. answers' = answers + 1 /\ answers \in Nat
      BY <1>1, <1>2, <2>3 DEF Types
    <3>5. answers + Cardinality(Unseen) <= 1 + Cardinality(silent)
      BY DEF Inv, Answered
    <3>6. answers' + Cardinality(Unseen') <= 1 + Cardinality(silent)
      BY <3>2, <3>3, <3>4, <3>5
    <3> QED
      BY <1>1, <3>6 DEF Answered
  <2> QED
    BY <2>2, <2>3
<1> QED
  BY <1>5, <1>9, <1>10, <1>11, <1>12, <1>13, <1>14 DEF Inv

\* A worker that ends, with the row finished or not: while no heartbeat was missed
\* it was the last one.
LEMMA EndKeeps ==
  ASSUME Inv, NEW w \in Workers, Alive(w), NEW status \in {"done", "failed"},
         UNCHANGED row \/ FinishRow(status), status = "done" => answers > 0,
         work' = [work EXCEPT ![w].pc = "gone"], ctl' \in [Procs -> Controls],
         faults' \in 0 .. MaxFaults,
         UNCHANGED <<saved, monitors, answers, ran, written, silent>>
  PROVE  Inv'
<1>1. Types
  BY DEF Inv
<1>2. row' \in Rows /\ (UNCHANGED row \/ row'.status = status)
  <2>1. FinishRow(status) => row' = [row EXCEPT !.status = status, !.lease = 0]
    BY DEF FinishRow
  <2>2. row \in Rows /\ 0 \in 0 .. LeaseTicks /\ status \in {"running", "done", "failed"}
    BY <1>1, LimitsAssumption DEF Types
  <2> QED
    BY <2>1, <2>2 DEF Rows
<1>3. Types'
  BY <1>1, <1>2, Moves DEF Types, Positions
<1>4. work'[w].pc = "gone" /\ \A v \in Workers \ {w} : work'[v] = work[v]
  BY <1>1, Moves DEF Positions
<1>5. \A v \in Workers : Alive(v)' => Alive(v) /\ v /= w
  BY <1>4 DEF Alive
<1>6. OneWorker'
  BY <1>5, NobodyWakes DEF Inv
<1>7. MissedKnown'
  BY <1>2, <1>5 DEF Inv, MissedKnown
<1>8. EndsAlone'
  BY <1>5 DEF Inv, OneWorker, EndsAlone
<1>9. \A v \in Workers : WorkerSound(v)'
  <2> SUFFICES ASSUME NEW v \in Workers PROVE WorkerSound(v)'
    OBVIOUS
  <2>1. CASE v = w
    BY <1>4, <2>1 DEF WorkerSound, Executing, Answering
  <2>2. CASE v /= w
    <3>1. work'[v] = work[v] /\ WorkerSound(v)
      BY <1>4, <2>2 DEF Inv
    <3> QED
      BY <3>1 DEF WorkerSound, Holds
  <2> QED
    BY <2>1, <2>2
<1>10. LoneSound'
  BY <1>4, Lone DEF Executing
<1>11. CheckpointLag' /\ SavedWhole' /\ DoneAnswered'
  BY <1>2 DEF Inv, CheckpointLag, SavedWhole, DoneAnswered
<1>12. Answered'
  <2>1. Unseen' \subseteq Unseen
    BY <1>4 DEF Unseen
  <2> QED
    BY <1>1, <2>1, NobodyLooks DEF Inv, Types
<1> QED
  BY <1>3, <1>6, <1>7, <1>8, <1>9, <1>10, <1>11, <1>12 DEF Inv

LEMMA FinishesKeeps ==
  ASSUME Inv, NEW w \in Workers, Finishes(w)
  PROVE  Inv'
<1>1. /\ Alive(w) /\ FinishRow("done") /\ work' = [work EXCEPT ![w].pc = "gone"]
      /\ UNCHANGED <<saved, ctl, monitors, answers, ran, written, silent, faults>>
  BY DEF Finishes, Alive, history
<1>2. answers > 0 /\ ctl \in [Procs -> Controls] /\ faults \in 0 .. MaxFaults
  BY DEF Inv, Types, WorkerSound, Finishes
<1> QED
  BY <1>1, <1>2, EndKeeps

LEMMA FailsKeeps ==
  ASSUME Inv, NEW w \in Workers, Fails(w)
  PROVE  Inv'
<1>1. /\ Alive(w) /\ FinishRow("failed") /\ work' = [work EXCEPT ![w].pc = "gone"]
      /\ ctl' = [ctl EXCEPT ![work[w].proc].ended = TRUE]
      /\ UNCHANGED <<saved, monitors, answers, ran, written, silent, faults>>
  BY DEF Fails, Alive, history
<1>2. ctl' \in [Procs -> Controls] /\ faults \in 0 .. MaxFaults
  BY <1>1 DEF Inv, Types, Controls
<1> QED
  BY <1>1, <1>2, EndKeeps

-----------------------------------------------------------------------------
(***************************************************************************)
(* Faults, claims and time.                                                 *)
(***************************************************************************)

LEMMA StoreFailsKeeps ==
  ASSUME Inv, NEW w \in Workers, StoreFails(w)
  PROVE  Inv'
<1> DEFINE p == work[w].proc
<1>1. /\ faults < MaxFaults /\ faults' = faults + 1
      /\ UNCHANGED <<row, saved, monitors, answers, ran, written, silent>>
  BY DEF StoreFails, history
<1>2. Types /\ WorkerSound(w)
  BY DEF Inv
<1>3. faults' \in 0 .. MaxFaults
  BY <1>1, <1>2, LimitsAssumption DEF Types
<1>5. CASE /\ Alive(w) /\ work' = [work EXCEPT ![w].pc = "raised"] /\ UNCHANGED ctl
  <2>1. Types'
    BY <1>1, <1>2, <1>3, <1>5, Moves DEF Types, Positions
  <2> QED
    BY <1>1, <1>5, <2>1, Leaves
<1>6. CASE /\ Alive(w) /\ work' = [work EXCEPT ![w].pc = "gone"]
           /\ ctl' = [ctl EXCEPT ![p].ended = TRUE]
  <2>1. ctl' \in [Procs -> Controls]
    BY <1>2, <1>6 DEF Types, Controls
  <2> QED
    BY <1>1, <1>3, <1>6, <2>1, EndKeeps
<1>7. CASE /\ work[w].pc = "node" /\ work[w].node = Nodes /\ work' = [work EXCEPT ![w].pc = "step"]
           /\ ctl' = [ctl EXCEPT ![p] = [open |-> 0, last |-> Nodes, ended |-> TRUE]]
  <2>1. /\ work' \in [Workers -> WorkerRecords] /\ \A v \in Workers \ {w} : work'[v] = work[v]
        /\ work'[w].pc = "step" /\ work'[w].node = Nodes /\ work'[w].state = work[w].state
        /\ work'[w].pending = work[w].pending
    BY <1>2, <1>7, Moves DEF Positions
  <2>2. ctl' \in [Procs -> Controls]
    <3>1. 0 \in 0 .. Nodes /\ Nodes \in 0 .. Nodes
      BY ChainAssumption
    <3>2. [open |-> 0, last |-> Nodes, ended |-> TRUE] \in Controls
      BY <3>1 DEF Controls
    <3> QED
      BY <1>2, <1>7, <3>2 DEF Types
  <2>3. Types'
    BY <1>1, <1>2, <1>3, <2>1, <2>2 DEF Types
  <2>4. WorkerSound(w)'
    BY <1>1, <1>2, <1>7, <2>1 DEF WorkerSound, Executing, Answering, Holds
  <2>5. LoneSound'
    <3>1. silent = {} => Near(w)'
      BY <1>1, <1>7, <2>1 DEF Inv, LoneSound, Executing, Near
    <3> QED
      BY <1>1, <1>7, <2>1, <3>1, Lone DEF Alive
  <2>6. CheckpointLag' /\ SavedWhole'
    BY <1>1 DEF Inv, CheckpointLag, SavedWhole
  <2> QED
    BY <1>1, <1>7, <2>1, <2>3, <2>4, <2>5, <2>6, OneMoves DEF Alive
<1> QED
  BY <1>5, <1>6, <1>7 DEF StoreFails, Alive

\* A step that leaves the workers as they are, or ends some, and leaves the row's
\* status, keeps what is said of them, if who lives when the run gets stale is known.
LEMMA OthersEnd ==
  ASSUME Inv, \A v \in Workers : ~Alive(v)' \/ work'[v] = work[v],
         row'.status = row.status, silent \subseteq silent', Types', MissedKnown',
         UNCHANGED <<saved, answers, ran>>
  PROVE  Inv'
<1>1. \A v \in Workers : Alive(v)' => Alive(v)
  BY DEF Alive
<1>2. OneWorker'
  BY <1>1, NobodyWakes DEF Inv
<1>3. EndsAlone'
  BY <1>1 DEF Inv, EndsAlone
<1>4. ASSUME NEW v \in Workers PROVE WorkerSound(v)'
  <2>1. CASE ~Alive(v)'
    BY <2>1 DEF Alive, WorkerSound, Executing, Answering
  <2>2. CASE work'[v] = work[v]
    <3>1. WorkerSound(v)
      BY DEF Inv
    <3> QED
      BY <2>2, <3>1 DEF WorkerSound, Holds
  <2> QED
    BY <2>1, <2>2
<1>5. LoneSound'
  <2> SUFFICES ASSUME silent' = {}, NEW v \in Workers, work'[v].pc \in Executing PROVE Near(v)'
    BY DEF LoneSound
  <2>1. work'[v] = work[v] /\ silent = {}
    BY DEF Alive, Executing
  <2> QED
    BY <2>1 DEF Inv, LoneSound, Near
<1>6. CheckpointLag' /\ SavedWhole' /\ DoneAnswered'
  BY DEF Inv, CheckpointLag, SavedWhole, DoneAnswered
<1>7. Answered'
  <2>1. Unseen' \subseteq Unseen
    BY DEF Unseen, Alive
  <2> QED
    BY <2>1, NobodyLooks DEF Inv, Types
<1> QED
  BY <1>2, <1>3, <1>4, <1>5, <1>6, <1>7 DEF Inv

LEMMA CrashKeeps ==
  ASSUME Inv, NEW p \in Procs, Crash(p)
  PROVE  Inv'
<1>1. /\ work' = [w \in Workers |->
                    IF Alive(w) /\ work[w].proc = p THEN [work[w] EXCEPT !.pc = "gone"] ELSE work[w]]
      /\ ctl' = [ctl EXCEPT ![p] = Fresh] /\ monitors' = monitors \cup {p}
      /\ faults < MaxFaults /\ faults' = faults + 1
      /\ UNCHANGED <<row, saved, answers, ran, written, silent>>
  BY DEF Crash, history
<1>2. Types
  BY DEF Inv
<1>3. ASSUME NEW v \in Workers
      PROVE  /\ work'[v] \in WorkerRecords
             /\ ~Alive(v)' \/ work'[v] = work[v]
  <2>1. work[v] \in WorkerRecords
    BY <1>2 DEF Types
  <2>2. [work[v] EXCEPT !.pc = "gone"] \in WorkerRecords /\ [work[v] EXCEPT !.pc = "gone"].pc = "gone"
    BY <2>1 DEF WorkerRecords
  <2>3. work'[v] \in {work[v], [work[v] EXCEPT !.pc = "gone"]}
    BY <1>1
  <2> QED
    BY <2>1, <2>2, <2>3 DEF Alive
<1>4. Types'
  <2>1. ctl' \in [Procs -> Controls]
    <3>1. Fresh \in Controls
      BY ChainAssumption DEF Fresh, Controls
    <3> QED
      BY <1>1, <1>2, <3>1 DEF Types
  <2>2. faults' \in 0 .. MaxFaults
    BY <1>1, <1>2, LimitsAssumption DEF Types
  <2>3. work' \in [Workers -> WorkerRecords]
    BY <1>1, <1>3
  <2> QED
    BY <1>1, <1>2, <2>1, <2>2, <2>3 DEF Types
<1>5. MissedKnown'
  <2>1. \A v \in Workers : Alive(v)' => Alive(v)
    BY <1>3 DEF Alive
  <2> QED
    BY <1>1, <2>1 DEF Inv, MissedKnown
<1> QED
  BY <1>1, <1>3, <1>4, <1>5, OthersEnd

LEMMA MonitorFailsKeeps ==
  ASSUME Inv, NEW p \in Procs, MonitorFails(p)
  PROVE  Inv'
<1>1. /\ monitors' = monitors \ {p} /\ faults < MaxFaults /\ faults' = faults + 1
      /\ UNCHANGED <<row, saved, work, ctl, answers, ran, written, silent>>
  BY DEF MonitorFails, history
<1>2. Types'
  <2>1. faults' \in 0 .. MaxFaults
    BY <1>1, LimitsAssumption DEF Inv, Types
  <2> QED
    BY <1>1, <2>1 DEF Inv, Types
<1>3. MissedKnown'
  BY <1>1 DEF Inv, MissedKnown, Alive
<1> QED
  BY <1>1, <1>2, <1>3, OthersEnd

LEMMA TickKeeps == Inv /\ Tick => Inv'
<1> SUFFICES ASSUME Inv, Tick PROVE Inv'
  OBVIOUS
<1>1. /\ Missed /= {} => faults < MaxFaults
      /\ row' = [row EXCEPT !.age = IF @ < StaleAfter THEN @ + 1 ELSE @,
                            !.lease = IF @ > 0 THEN @ - 1 ELSE @]
      /\ silent' = silent \cup Missed
      /\ faults' = IF Missed = {} THEN faults ELSE faults + 1
      /\ UNCHANGED <<saved, work, ctl, monitors, answers, ran, written>>
  BY DEF Tick, history
<1>2. row \in Rows /\ Types
  BY DEF Inv, Types
<1>3. /\ row'.status = row.status /\ row' \in Rows
      /\ row'.age = IF row.age < StaleAfter THEN row.age + 1 ELSE row.age
  <2>1. (IF row.age < StaleAfter THEN row.age + 1 ELSE row.age) \in 0 .. StaleAfter
    BY <1>2, LimitsAssumption DEF Rows
  <2>2. (IF row.lease > 0 THEN row.lease - 1 ELSE row.lease) \in 0 .. LeaseTicks
    BY <1>2, LimitsAssumption DEF Rows
  <2> QED
    BY <1>1, <1>2, <2>1, <2>2 DEF Rows
<1>4. Types'
  <2>1. faults' \in 0 .. MaxFaults
    BY <1>1, <1>2, LimitsAssumption DEF Types
  <2>2. silent' \subseteq Workers
    BY <1>1, <1>2 DEF Types, Missed
  <2> QED
    BY <1>1, <1>2, <1>3, <2>1, <2>2 DEF Types
<1>5. MissedKnown'
  <2> SUFFICES ASSUME row.status = "running", row'.age >= StaleAfter, NEW v \in Workers, Alive(v)
               PROVE  v \in silent'
    BY <1>1, <1>3 DEF MissedKnown, Alive
  <2>1. row.age \in Nat /\ StaleAfter \in Nat
    BY <1>2, LimitsAssumption DEF Rows
  <2>2. CASE row.age >= StaleAfter
    BY <1>1, <2>2 DEF Inv, MissedKnown
  <2>3. CASE ~(row.age >= StaleAfter)
    <3>1. row.age + 1 = StaleAfter
      BY <1>3, <2>1, <2>3
    <3>2. Missed = {u \in Workers : Alive(u)} \ silent
      BY <3>1 DEF Missed
    <3> QED
      BY <1>1, <3>2
  <2> QED
    BY <2>2, <2>3
<1>6. silent \subseteq silent' /\ \A v \in Workers : work'[v] = work[v]
  BY <1>1
<1> QED
  BY <1>1, <1>3, <1>4, <1>5, <1>6, OthersEnd

LEMMA ClaimKeeps ==
  ASSUME Inv, NEW p \in Procs, Claim(p)
  PROVE  Inv'
<1> DEFINE r == row.recoveries + 1
           sent == Submitted(p, saved.next, saved.state)
<1>1. /\ row.status = "running" /\ row.recoveries < MaxRecoveries /\ row.age >= StaleAfter
      /\ row' = [row EXCEPT !.recoveries = @ + 1, !.age = 0, !.lease = LeaseTicks]
      /\ work' = IF saved = None THEN work ELSE [work EXCEPT ![r] = sent]
      /\ UNCHANGED <<saved, ctl, monitors, answers, ran, written, silent, faults>>
  BY DEF Claim, Claimable, history
<1>2. Types
  BY DEF Inv
<1>3. /\ row' \in Rows /\ row'.status = "running" /\ row'.age = 0
      /\ r \in Workers
  <2>1. row \in Rows /\ row.recoveries \in 0 .. MaxRecoveries
    BY <1>2 DEF Types, Rows
  <2>2. r \in 0 .. MaxRecoveries
    BY <1>1, <2>1, LimitsAssumption
  <2>3. 0 \in 0 .. StaleAfter /\ LeaseTicks \in 0 .. LeaseTicks
    BY LimitsAssumption
  <2> QED
    BY <1>1, <2>1, <2>2, <2>3 DEF Rows, Workers
<1> PICK slot \in Workers : slot = r
  BY <1>3
<1>4. \A v \in Workers : Alive(v) => v \in silent
  BY <1>1 DEF Inv, MissedKnown
<1>5. MissedKnown' /\ EndsAlone' /\ DoneAnswered'
  BY <1>3, LimitsAssumption DEF MissedKnown, EndsAlone, DoneAnswered
<1>6. CheckpointLag' /\ SavedWhole'
  BY <1>1 DEF Inv, CheckpointLag, SavedWhole
<1>7. CASE saved = None
  <2>1. work' = work
    BY <1>1, <1>7
  <2>2. Types'
    BY <1>1, <1>2, <1>3, <2>1 DEF Types
  <2>3. OneWorker' /\ LoneSound' /\ \A v \in Workers : WorkerSound(v)'
    BY <1>1, <2>1 DEF Inv, OneWorker, Alive, LoneSound, Near, WorkerSound, Holds
  <2>4. Answered'
    BY <1>1, <2>1 DEF Inv, Answered, Unseen
  <2> QED
    BY <1>5, <1>6, <2>2, <2>3, <2>4 DEF Inv
<1>8. CASE saved /= None
  <2>1. saved.next \in Chain /\ saved.state \in States
    BY <1>2, <1>8 DEF Types, Checkpoints
  <2>2. /\ sent \in WorkerRecords /\ sent.pc = "ready" /\ sent.node = saved.next /\ sent.state = saved.state
        /\ sent.pending = None
    BY <2>1, SubmittedShape
  <2> HIDE DEF sent
  <2>3. /\ work' \in [Workers -> WorkerRecords] /\ work'[slot] = sent
        /\ \A v \in Workers \ {slot} : work'[v] = work[v]
    BY <1>1, <1>2, <1>3, <1>8, <2>2 DEF Types
  <2>4. \A v \in Workers \ {slot} : Alive(v)' => v \in silent
    BY <1>4, <2>3 DEF Alive
  <2>5. Types'
    BY <1>1, <1>2, <1>3, <2>3 DEF Types
  <2>6. OneWorker'
    BY <1>1, <2>4 DEF OneWorker
  <2>7. \A v \in Workers : WorkerSound(v)'
    <3> SUFFICES ASSUME NEW v \in Workers PROVE WorkerSound(v)'
      OBVIOUS
    <3>1. CASE v = slot
      <4>1. saved.state.has = 1 .. saved.next - 1
        BY <1>8 DEF Inv, SavedWhole
      <4> QED
        BY <2>2, <2>3, <3>1, <4>1 DEF WorkerSound, Holds, Answering
    <3>2. CASE v /= slot
      <4>1. work'[v] = work[v] /\ WorkerSound(v)
        BY <2>3, <3>2 DEF Inv
      <4> QED
        BY <1>1, <4>1 DEF WorkerSound, Holds
    <3> QED
      BY <3>1, <3>2
  <2>8. LoneSound'
    <3> SUFFICES ASSUME silent = {}, NEW v \in Workers, work'[v].pc \in Executing PROVE Near(v)'
      BY <1>1 DEF LoneSound
    <3>1. v = slot
      BY <2>4 DEF Alive, Executing
    <3>2. saved.next <= saved.next /\ saved.next <= saved.next + 1
      BY <2>1 DEF Chain
    <3> QED
      BY <1>1, <1>8, <2>2, <2>3, <3>1, <3>2 DEF Near
  <2>9. Answered'
    <3>1. Unseen' \subseteq Unseen
      BY <2>2, <2>3 DEF Unseen
    <3> QED
      BY <1>1, <1>2, <3>1, NobodyLooks DEF Inv, Types
  <2> QED
    BY <1>5, <1>6, <2>5, <2>6, <2>7, <2>8, <2>9 DEF Inv
<1> QED
  BY <1>7, <1>8

-----------------------------------------------------------------------------
LEMMA StepInv == Inv /\ [Next]_vars => Inv'
<1> SUFFICES ASSUME Inv, [Next]_vars PROVE Inv'
  OBVIOUS
<1>1. ASSUME NEW w \in Workers, Work(w) PROVE Inv'
  BY <1>1, StartKeeps, SectionKeeps, NodeEndsKeeps, StepKeeps, LookForAnswerKeeps,
     InsertAnswerKeeps, FinishesKeeps, FailsKeeps DEF Work
<1>2. ASSUME NEW w \in Workers, NodeRaises(w) \/ StoreFails(w) PROVE Inv'
  BY <1>2, NodeRaisesKeeps, StoreFailsKeeps
<1>3. ASSUME NEW p \in Procs, Claim(p) \/ Crash(p) \/ MonitorFails(p) PROVE Inv'
  BY <1>3, ClaimKeeps, CrashKeeps, MonitorFailsKeeps
<1>4. CASE UNCHANGED vars
  <2>1. UNCHANGED <<row, saved, work, ctl, monitors, answers, ran, written, silent, faults>>
    BY <1>4 DEF vars, history
  <2>2. Types'
    BY <2>1 DEF Inv, Types
  <2>3. MissedKnown'
    BY <2>1 DEF Inv, MissedKnown, Alive
  <2> QED
    BY <2>1, <2>2, <2>3, OthersEnd
<1> QED
  BY <1>1, <1>2, <1>3, <1>4, TickKeeps DEF Next

LEMMA InvKept == Spec => []Inv
BY InitInv, StepInv, PTL DEF Spec

\* The claims of claim_stale make two threads execute the run only if one of them
\* lived while its heartbeat was missed, whatever crashes or is refused.
THEOREM SingleWorker == Spec => []OneWorker
<1>1. Inv => OneWorker
  BY DEF Inv
<1> QED
  BY <1>1, InvKept, PTL

\* What is known of the answers follows from the count of those still to come.
LEMMA AnswersBounded == Inv => AnsweredOnce
<1> SUFFICES ASSUME Inv PROVE AnsweredOnce
  OBVIOUS
<1>1. Unseen \subseteq Workers /\ silent \subseteq Workers /\ answers \in Nat
  BY DEF Inv, Types, Unseen
<1>2. Cardinality(Unseen) \in Nat /\ Cardinality(silent) \in Nat
  BY <1>1, WorkersFinite
<1>3. answers + Cardinality(Unseen) <= 1 + Cardinality(silent)
  BY DEF Inv, Answered
<1>4. answers <= 1 + Cardinality(silent)
  BY <1>1, <1>2, <1>3
<1> QED
  BY <1>4 DEF Inv, DoneAnswered, AnsweredOnce

\* _execute appends the answer before it finishes the row, and a takeover that
\* replays the turn finds it: a finished row has an answer, and no more than one
\* for each worker whose heartbeat was missed besides.
THEOREM SingleAnswer == Spec => []AnsweredOnce
BY AnswersBounded, InvKept, PTL

\* A takeover goes on from the checkpoint of _run_graph_with_checkpoints: no node
\* is skipped, and while no live worker's heartbeat was missed no more than one
\* completed node is repeated.
THEOREM NothingLost == Spec => []ResumedExactly
<1>1. Inv => ResumedExactly
  <2> SUFFICES ASSUME Inv PROVE ResumedExactly
    OBVIOUS
  <2>1. Types /\ CheckpointLag /\ \A w \in Workers : WorkerSound(w)
    BY DEF Inv
  <2>3. TypeOK
    BY <2>1 DEF Types, TypeOK, Rows, WorkerRecords, Controls
  <2>4. NothingSkipped
    BY <2>1 DEF NothingSkipped, WorkerSound, Answering
  <2> QED
    BY <2>1, <2>3, <2>4 DEF ResumedExactly
<1> QED
  BY <1>1, InvKept, PTL

\* A row that has ended is never running again and never claimed; it ends a second
\* time only under a worker that was taken over while it lived.
THEOREM EndIsFinal == Spec => EndedForGood
<1> DEFINE Final ==
      row.status /= "running" =>
        /\ row'.status /= "running"
        /\ row'.recoveries = row.recoveries
        /\ silent = {} => row'.status = row.status
<1>1. Inv /\ [Next]_vars => [Final]_vars
  <2> SUFFICES ASSUME Inv, Next, row.status /= "running"
               PROVE  /\ row'.status /= "running" /\ row'.recoveries = row.recoveries
                      /\ silent = {} => row'.status = row.status
    OBVIOUS
  <2>1. row \in Rows
    BY DEF Inv, Types
  <2>2. ASSUME NEW w \in Workers, ~Alive(w), Work(w) \/ NodeRaises(w) \/ StoreFails(w) PROVE FALSE
    BY <2>2 DEF Work, NodeRaises, StoreFails, Start, Section, NodeEnds, Step,
       LookForAnswer, InsertAnswer, Finishes, Fails, Alive
  <2>3. silent = {} => \A w \in Workers : ~Alive(w)
    BY DEF Inv, EndsAlone
  <2>4. ASSUME NEW w \in Workers, Work(w)
        PROVE  row'.status /= "running" /\ row'.recoveries = row.recoveries
    <3>1. CASE Finishes(w) \/ Fails(w)
      BY <2>1, <3>1 DEF Finishes, Fails, FinishRow, Rows
    <3>2. CASE Section(w) \/ Step(w)
      BY <2>1, <3>2 DEF Section, Step, LateCheckpoint, Checkpoint, Rows
    <3>3. CASE Start(w) \/ NodeEnds(w) \/ LookForAnswer(w) \/ InsertAnswer(w)
      BY <3>3 DEF Start, NodeEnds, LookForAnswer, InsertAnswer
    <3> QED
      BY <2>4, <3>1, <3>2, <3>3 DEF Work
  <2>5. ASSUME NEW w \in Workers, NodeRaises(w) \/ StoreFails(w) PROVE UNCHANGED row
    BY <2>5 DEF NodeRaises, StoreFails
  <2>6. ASSUME NEW p \in Procs, Claim(p) \/ Crash(p) \/ MonitorFails(p) PROVE UNCHANGED row
    BY <2>6 DEF Claim, Claimable, Crash, MonitorFails
  <2>7. CASE Tick
    BY <2>1, <2>7 DEF Tick, Rows
  <2>8. CASE \E w \in Workers : Work(w) \/ NodeRaises(w) \/ StoreFails(w)
    BY <2>2, <2>3, <2>4, <2>5, <2>8
  <2> QED
    BY <2>6, <2>7, <2>8 DEF Next
<1> QED
  BY <1>1, InvKept, PTL DEF Spec, EndedForGood
=============================================================================
