------------------------- MODULE ControllerRunProofs -------------------------
(***************************************************************************)
(* Proofs about ControllerRun: what the stage events of a run promise the  *)
(* page, for every set of specialists, number of rounds and sections.      *)
(***************************************************************************)
EXTENDS ControllerRun, FiniteSetTheorems, SequenceTheorems, TLAPS

-----------------------------------------------------------------------------
(***************************************************************************)
(* What a log of events says.                                               *)
(***************************************************************************)
Events ==
  [event : {"run.started", "run.completed", "run.failed", "stage.started", "stage.completed",
            "stage.failed", "stage.waiting", "unit.started", "unit.ended", "report.section"},
   stage : StageNames \cup {None},
   of : Agents \cup (1 .. Sections) \cup {None}]

Is(log, i, kind) == i \in DOMAIN log /\ log[i].event = kind
Has(log, kind) == \E i \in DOMAIN log : log[i].event = kind

\* The specialists' events, while those of `going' work and those of `free' have
\* not been asked: one start and one end of each, the end before any event that
\* says their stage is completed.
UnitLog(log, going, free) ==
  /\ \A i \in DOMAIN log :
        log[i].event \in {"unit.started", "unit.ended"} => log[i].of \notin free
  /\ \A i \in DOMAIN log : log[i].event = "unit.ended" => log[i].of \notin going
  /\ \A i, j \in DOMAIN log :
        Is(log, i, "unit.ended") /\ Is(log, j, "unit.ended") /\ log[i].of = log[j].of => i = j
  /\ \A i \in DOMAIN log : log[i].event = "unit.started" =>
        IF log[i].of \in going
        THEN \A j \in DOMAIN log : Is(log, j, "stage.completed") /\ log[j].stage = log[i].stage => j < i
        ELSE \E k \in DOMAIN log :
               /\ i < k /\ Is(log, k, "unit.ended") /\ log[k].of = log[i].of
               /\ \A j \in DOMAIN log :
                    i < j /\ Is(log, j, "stage.completed") /\ log[j].stage = log[i].stage => k < j

\* The report's sections, while n of them have been shown.
SectionLog(log, n) ==
  /\ \A i \in DOMAIN log : log[i].event = "report.section" => log[i].of \in 1 .. n
  /\ \A m \in 1 .. n : \E i \in DOMAIN log : log[i].event = "report.section" /\ log[i].of = m
  /\ \A i, j \in DOMAIN log :
        i < j /\ log[i].event = "report.section" /\ log[j].event = "report.section" =>
          log[i].of < log[j].of

Prefix(old, new) == Len(old) <= Len(new) /\ \A i \in DOMAIN old : new[i] = old[i]

\* The new log is the old one with events of neither specialists nor sections
\* behind it, while no specialist works.
Follows(old, new) ==
  /\ Prefix(old, new)
  /\ \A free : UnitLog(old, {}, free) => UnitLog(new, {}, free)
  /\ \A n \in Nat : SectionLog(old, n) => SectionLog(new, n)

EndKinds == {"run.completed", "run.failed", "stage.waiting"}

\* ... and none of them ends the run or makes it wait.
Calm(old, new) == Follows(old, new) /\ \A kind \in EndKinds : Has(new, kind) <=> Has(old, kind)

LEMMA Appended ==
  ASSUME NEW log \in Seq(Events), NEW e \in Events
  PROVE  /\ Append(log, e) \in Seq(Events)
         /\ DOMAIN log = 1 .. Len(log) /\ DOMAIN Append(log, e) = 1 .. (Len(log) + 1) /\ Len(log) \in Nat
         /\ \A i \in DOMAIN log : Append(log, e)[i] = log[i]
         /\ Append(log, e)[Len(log) + 1] = e
         /\ Len(Append(log, e)) = Len(log) + 1
         /\ Prefix(log, Append(log, e))
         /\ \A kind : Has(Append(log, e), kind) <=> Has(log, kind) \/ e.event = kind
<1>1. /\ Append(log, e) \in Seq(Events)
      /\ DOMAIN log = 1 .. Len(log) /\ DOMAIN Append(log, e) = 1 .. (Len(log) + 1) /\ Len(log) \in Nat
      /\ \A i \in DOMAIN log : Append(log, e)[i] = log[i]
      /\ Append(log, e)[Len(log) + 1] = e
      /\ Len(Append(log, e)) = Len(log) + 1
  OBVIOUS
<1>2. Prefix(log, Append(log, e))
  BY <1>1 DEF Prefix
<1> DEFINE new == Append(log, e)
<1>3. ASSUME NEW kind
      PROVE  Has(new, kind) <=> Has(log, kind) \/ e.event = kind
  <2> HIDE DEF new
  <2>1. DOMAIN new = DOMAIN log \cup {Len(log) + 1}
    BY <1>1 DEF new
  <2> QED
    BY <1>1, <2>1 DEF Has, new
<1> QED
  BY <1>1, <1>2, <1>3

LEMMA PrefixTransitive ==
  ASSUME NEW a \in Seq(Events), NEW b \in Seq(Events), NEW c \in Seq(Events), Prefix(a, b), Prefix(b, c)
  PROVE  Prefix(a, c)
BY DEF Prefix

LEMMA CalmTransitive ==
  ASSUME NEW a \in Seq(Events), NEW b \in Seq(Events), NEW c \in Seq(Events), Calm(a, b), Calm(b, c)
  PROVE  Calm(a, c)
<1>1. Prefix(a, c)
  BY PrefixTransitive DEF Calm, Follows
<1> QED
  BY <1>1 DEF Calm, Follows

LEMMA FollowsTransitive ==
  ASSUME NEW a \in Seq(Events), NEW b \in Seq(Events), NEW c \in Seq(Events), Follows(a, b), Follows(b, c)
  PROVE  Follows(a, c)
<1>1. Prefix(a, c)
  BY PrefixTransitive DEF Follows
<1> QED
  BY <1>1 DEF Follows

LEMMA CalmReflexive ==
  ASSUME NEW a \in Seq(Events)
  PROVE  Calm(a, a)
BY DEF Calm, Follows, Prefix

\* An event of neither a specialist nor a section.
LEMMA PlainUnits ==
  ASSUME NEW log \in Seq(Events), NEW e \in Events, NEW free,
         e.event \notin {"unit.started", "unit.ended"}, UnitLog(log, {}, free)
  PROVE  UnitLog(Append(log, e), {}, free)
<1> DEFINE new == Append(log, e)
           n == Len(log) + 1
<1>1. /\ DOMAIN log = 1 .. Len(log) /\ DOMAIN new = 1 .. n /\ Len(log) \in Nat
      /\ \A i \in DOMAIN log : new[i] = log[i]
      /\ new[n] = e
  BY Appended
<1> HIDE DEF new
<1>2. /\ \A i \in DOMAIN new : i \in DOMAIN log \/ i = n
      /\ \A i \in DOMAIN log : i \in DOMAIN new /\ i < n /\ i \in Nat
  BY <1>1
<1>3. \A i \in DOMAIN new : new[i].event \in {"unit.started", "unit.ended"} => i \in DOMAIN log
  BY <1>1, <1>2
<1>4. /\ \A i \in DOMAIN new : new[i].event \in {"unit.started", "unit.ended"} => new[i].of \notin free
      /\ \A i, j \in DOMAIN new :
           Is(new, i, "unit.ended") /\ Is(new, j, "unit.ended") /\ new[i].of = new[j].of => i = j
  BY <1>1, <1>3 DEF UnitLog, Is
<1>5. ASSUME NEW i \in DOMAIN new, new[i].event = "unit.started"
      PROVE  \E k \in DOMAIN new :
               /\ i < k /\ Is(new, k, "unit.ended") /\ new[k].of = new[i].of
               /\ \A j \in DOMAIN new :
                    i < j /\ Is(new, j, "stage.completed") /\ new[j].stage = new[i].stage => k < j
  <2>1. i \in DOMAIN log /\ log[i].event = "unit.started"
    BY <1>1, <1>3, <1>5
  <2>2. PICK k \in DOMAIN log :
          /\ i < k /\ Is(log, k, "unit.ended") /\ log[k].of = log[i].of
          /\ \A j \in DOMAIN log :
               i < j /\ Is(log, j, "stage.completed") /\ log[j].stage = log[i].stage => k < j
    BY <2>1 DEF UnitLog
  <2>3. k \in DOMAIN new /\ Is(new, k, "unit.ended") /\ new[k].of = new[i].of
    BY <1>1, <1>2, <2>1, <2>2 DEF Is
  <2>4. ASSUME NEW j \in DOMAIN new, i < j, Is(new, j, "stage.completed"), new[j].stage = new[i].stage
        PROVE  k < j
    <3>1. CASE j \in DOMAIN log
      BY <1>1, <2>1, <2>2, <2>4, <3>1 DEF Is
    <3>2. CASE j = n
      BY <1>2, <2>2, <3>2
    <3> QED
      BY <1>2, <3>1, <3>2
  <2> QED
    BY <2>2, <2>3, <2>4
<1>6. \A i \in DOMAIN new : new[i].event = "unit.ended" => new[i].of \notin {}
  OBVIOUS
<1> QED
  BY <1>4, <1>5, <1>6 DEF UnitLog, new

LEMMA PlainSections ==
  ASSUME NEW log \in Seq(Events), NEW e \in Events, NEW m \in Nat,
         e.event # "report.section", SectionLog(log, m)
  PROVE  SectionLog(Append(log, e), m)
<1> DEFINE new == Append(log, e)
           n == Len(log) + 1
<1>1. /\ DOMAIN log = 1 .. Len(log) /\ DOMAIN new = 1 .. n /\ Len(log) \in Nat
      /\ \A i \in DOMAIN log : new[i] = log[i]
      /\ new[n] = e
  BY Appended
<1> HIDE DEF new
<1>2. /\ \A i \in DOMAIN new : new[i].event = "report.section" => i \in DOMAIN log
      /\ \A i \in DOMAIN log : i \in DOMAIN new
  BY <1>1
<1> QED
  BY <1>1, <1>2 DEF SectionLog, new

Plain(e) == e.event \notin {"unit.started", "unit.ended", "report.section"}

LEMMA PlainFollows ==
  ASSUME NEW log \in Seq(Events), NEW e \in Events, Plain(e)
  PROVE  Follows(log, Append(log, e))
BY Appended, PlainUnits, PlainSections DEF Plain, Follows

LEMMA PlainCalm ==
  ASSUME NEW log \in Seq(Events), NEW e \in Events, Plain(e), e.event \notin EndKinds
  PROVE  Calm(log, Append(log, e))
<1>1. \A kind \in EndKinds : Has(Append(log, e), kind) <=> Has(log, kind)
  BY Appended
<1> QED
  BY <1>1, PlainFollows DEF Calm

-----------------------------------------------------------------------------
(***************************************************************************)
(* The calls on the StageController: what d is after the call on c.         *)
(***************************************************************************)
Places == StageNames \cup {None}
Controllers ==
  [started : BOOLEAN, current : Places, previous : Places, terminal : BOOLEAN, refused : BOOLEAN,
   log : Seq(Events)]

\* A stage is open; no stage is open, and the last one is of the given set.
Open(c, stage) == c.current = stage /\ c.started /\ ~c.terminal /\ ~c.refused
Between(c, last) == c.current = None /\ c.previous \in last /\ c.started /\ ~c.terminal /\ ~c.refused

EndsBy(c, d, kind) == \A k \in EndKinds : Has(d.log, k) <=> (Has(c.log, k) \/ k = kind)

StageEvents == {"run.started", "run.completed", "run.failed", "stage.started", "stage.completed",
                "stage.failed", "stage.waiting"}

AsEmitted(c, d, kind, stage) ==
  /\ d \in Controllers /\ Follows(c.log, d.log)
  /\ d.started = c.started /\ d.current = c.current /\ d.previous = c.previous
  /\ d.terminal = c.terminal /\ d.refused = c.refused
  /\ kind \notin EndKinds => Calm(c.log, d.log)
  /\ EndsBy(c, d, kind)
  /\ d.log = Append(c.log, Event(kind, stage, None))

AsClosed(c, d, kind) ==
  /\ d \in Controllers /\ Calm(c.log, d.log)
  /\ d.started = c.started /\ d.current = None /\ d.previous = c.current
  /\ d.terminal = c.terminal /\ d.refused = c.refused
  /\ d.log = Append(c.log, Event(kind, c.current, None))

AsRefused(c, d) ==
  /\ d \in Controllers /\ d.log = c.log /\ d.refused
  /\ d.started = c.started /\ d.current = c.current /\ d.previous = c.previous
  /\ d.terminal = c.terminal

AsStarted(c, d, stage) ==
  /\ d \in Controllers /\ Calm(c.log, d.log)
  /\ stage \in AllowedTransitions[c.previous] => Open(d, stage)
  /\ stage \notin AllowedTransitions[c.previous] => AsRefused(c, d)

AsFirst(c, d, stage) == d \in Controllers /\ Calm(c.log, d.log) /\ Open(d, stage)

AsCompleted(c, d, stage) ==
  /\ d \in Controllers /\ Calm(c.log, d.log) /\ Between(d, {stage})
  /\ d.log = Append(c.log, Event("stage.completed", stage, None))

AsFailed(c, d, stage) ==
  /\ d \in Controllers /\ Follows(c.log, d.log) /\ d.terminal /\ d.refused = c.refused
  /\ EndsBy(c, d, "run.failed")
  /\ d.current = IF c.current = stage THEN None ELSE c.current
  /\ c.current # stage => d.log = Append(c.log, Event("run.failed", stage, None))

AsFinished(c, d) ==
  /\ d \in Controllers /\ Follows(c.log, d.log) /\ d.terminal /\ ~d.refused /\ d.current = None
  /\ EndsBy(c, d, "run.completed")

AsWaiting(c, d, stage) ==
  /\ d \in Controllers /\ Follows(c.log, d.log)
  /\ stage \in AllowedTransitions[c.previous] => Open(d, stage) /\ EndsBy(c, d, "stage.waiting")
  /\ stage \notin AllowedTransitions[c.previous] => AsRefused(c, d)

LEMMA StageIsNotNone == \A s \in StageNames : s # None /\ s \in Places
BY NoneAssumption DEF Places

LEMMA NoneIsPlace == None \in Places
BY DEF Places

LEMMA PlainEvent ==
  ASSUME NEW kind \in StageEvents, NEW stage \in Places
  PROVE  /\ Event(kind, stage, None) \in Events /\ Plain(Event(kind, stage, None))
         /\ Event(kind, stage, None).event = kind
BY DEF Event, Events, Plain, Places, StageEvents

\* The same controller with a plain event behind its log.
LEMMA Says ==
  ASSUME NEW c \in Controllers, NEW kind \in StageEvents, NEW stage \in Places
  PROVE  AsEmitted(c, Emitted(c, kind, stage, None), kind, stage)
<1> DEFINE e == Event(kind, stage, None)
           d == Emitted(c, kind, stage, None)
<1>1. e \in Events /\ Plain(e) /\ e.event = kind /\ c.log \in Seq(Events)
  BY PlainEvent DEF Controllers
<1> HIDE DEF e
<1>2. Append(c.log, e) \in Seq(Events)
  BY <1>1
<1>3. d = [c EXCEPT !.log = Append(c.log, e)]
  BY DEF Emitted, e
<1> HIDE DEF d
<1>4. /\ d \in Controllers /\ d.log = Append(c.log, e)
      /\ d.started = c.started /\ d.current = c.current /\ d.previous = c.previous
      /\ d.terminal = c.terminal /\ d.refused = c.refused
  BY <1>2, <1>3 DEF Controllers
<1>5. Follows(c.log, Append(c.log, e)) /\ (kind \notin EndKinds => Calm(c.log, Append(c.log, e)))
  BY <1>1, PlainFollows, PlainCalm
<1>6. \A k : Has(Append(c.log, e), k) <=> (Has(c.log, k) \/ k = kind)
  BY <1>1, Appended
<1>7. EndsBy(c, d, kind)
  BY <1>4, <1>6 DEF EndsBy
<1> QED
  BY <1>4, <1>5, <1>7 DEF AsEmitted, d, e

LEMMA ClosesIt ==
  ASSUME NEW c \in Controllers, NEW kind \in {"stage.completed", "stage.failed"}
  PROVE  AsClosed(c, Closed(c, kind), kind)
<1> DEFINE d == Emitted(c, kind, c.current, None)
           f == [d EXCEPT !.previous = c.current, !.current = None]
<1>1. c.current \in Places
  BY DEF Controllers
<1>2. AsEmitted(c, d, kind, c.current)
  BY <1>1, Says DEF StageEvents
<1>3. Closed(c, kind) = f
  BY DEF Closed
<1> HIDE DEF d
<1>4. d \in Controllers
  BY <1>2 DEF AsEmitted
<1>5. /\ f \in Controllers /\ f.log = d.log /\ f.started = d.started /\ f.current = None
      /\ f.previous = c.current /\ f.terminal = d.terminal /\ f.refused = d.refused
  BY <1>1, <1>4 DEF Controllers, Places
<1> HIDE DEF f
<1> QED
  BY <1>2, <1>3, <1>5 DEF AsClosed, AsEmitted, EndKinds

LEMMA RefusesIt ==
  ASSUME NEW c \in Controllers
  PROVE  AsRefused(c, Refused(c))
BY DEF Refused, Controllers, AsRefused

\* start, between two stages: refused if the table does not have the transition.
LEMMA Starts ==
  ASSUME NEW c \in Controllers, NEW last \in SUBSET StageNames, Between(c, last), NEW stage \in StageNames
  PROVE  AsStarted(c, Start(c, stage), stage)
<1> DEFINE e == Emitted(c, "stage.started", stage, None)
           d == [e EXCEPT !.current = stage]
<1>1. /\ c.started /\ ~c.terminal /\ ~c.refused /\ c.current = None /\ c.previous \in StageNames
      /\ c.previous # None
  BY StageIsNotNone DEF Between
<1>2. StartedRun(c) = c
  BY <1>1 DEF StartedRun
<1>3. c.current \notin Waits
  BY <1>1, StageIsNotNone DEF StageNames
<1>4. Resumed(StartedRun(c)) = c
  BY <1>2, <1>3 DEF Resumed
<1>5. AsEmitted(c, e, "stage.started", stage)
  BY Says, StageIsNotNone DEF StageEvents
<1>6. CASE stage \in AllowedTransitions[c.previous]
  <2>1. Start(c, stage) = d
    BY <1>1, <1>4, <1>6 DEF Start
  <2> HIDE DEF e
  <2>2. /\ e \in Controllers /\ Calm(c.log, e.log) /\ e.started = c.started /\ e.terminal = c.terminal
        /\ e.refused = c.refused
    BY <1>5 DEF AsEmitted, EndKinds
  <2>3. /\ d \in Controllers /\ d.log = e.log /\ d.started = e.started /\ d.terminal = e.terminal
        /\ d.refused = e.refused /\ d.current = stage
    BY <2>2, StageIsNotNone DEF Controllers
  <2> HIDE DEF d
  <2> QED
    BY <1>1, <1>6, <2>1, <2>2, <2>3 DEF AsStarted, Open
<1>7. CASE stage \notin AllowedTransitions[c.previous]
  <2>1. Start(c, stage) = Refused(c)
    BY <1>1, <1>4, <1>7 DEF Start
  <2>2. AsRefused(c, Refused(c)) /\ Calm(c.log, c.log)
    BY RefusesIt, CalmReflexive DEF Controllers
  <2> QED
    BY <1>7, <2>1, <2>2 DEF AsStarted, AsRefused
<1> QED
  BY <1>6, <1>7

\* start, as the first call of a run.
LEMMA StartsFirst ==
  ASSUME NEW c \in Controllers, ~c.started, c.current = None, c.previous = None, ~c.terminal, ~c.refused,
         NEW stage \in StageNames
  PROVE  AsFirst(c, Start(c, stage), stage)
<1> DEFINE a == Emitted(c, "run.started", None, None)
           r == [a EXCEPT !.started = TRUE]
           e == Emitted(r, "stage.started", stage, None)
           d == [e EXCEPT !.current = stage]
<1>1. AsEmitted(c, a, "run.started", None)
  BY Says, NoneIsPlace DEF StageEvents
<1>2. StartedRun(c) = r
  BY DEF StartedRun
<1> HIDE DEF a
<1>3. /\ a \in Controllers /\ Calm(c.log, a.log) /\ a.current = None /\ a.previous = None
      /\ a.terminal = c.terminal /\ a.refused = c.refused
  BY <1>1 DEF AsEmitted, EndKinds
<1>4. /\ r \in Controllers /\ r.log = a.log /\ r.started = TRUE /\ r.current = None /\ r.previous = None
      /\ r.terminal = a.terminal /\ r.refused = a.refused
  BY <1>3 DEF Controllers
<1> HIDE DEF r
<1>5. None \notin Waits
  BY StageIsNotNone DEF StageNames
<1>6. Resumed(StartedRun(c)) = r
  BY <1>2, <1>4, <1>5 DEF Resumed
<1>7. AsEmitted(r, e, "stage.started", stage)
  BY <1>4, Says, StageIsNotNone DEF StageEvents
<1>8. ~r.terminal
  BY <1>3, <1>4
<1>9. Start(c, stage) = d
  BY <1>4, <1>6, <1>8 DEF Start
<1> HIDE DEF e
<1>10. /\ e \in Controllers /\ Calm(r.log, e.log) /\ e.started = r.started /\ e.terminal = r.terminal
       /\ e.refused = r.refused
  BY <1>7 DEF AsEmitted, EndKinds
<1>11. /\ d \in Controllers /\ d.log = e.log /\ d.started = e.started /\ d.terminal = e.terminal
       /\ d.refused = e.refused /\ d.current = stage
  BY <1>10, StageIsNotNone DEF Controllers
<1> HIDE DEF d
<1>12. Calm(c.log, e.log)
  BY <1>3, <1>4, <1>10, CalmTransitive DEF Controllers
<1> QED
  BY <1>3, <1>4, <1>9, <1>10, <1>11, <1>12 DEF AsFirst, Open

LEMMA Completes ==
  ASSUME NEW c \in Controllers, NEW stage \in StageNames, Open(c, stage)
  PROVE  AsCompleted(c, Complete(c, stage), stage)
<1>1. Complete(c, stage) = Closed(c, "stage.completed") /\ c.current = stage
  BY DEF Complete, Open
<1>2. AsClosed(c, Closed(c, "stage.completed"), "stage.completed")
  BY ClosesIt
<1> QED
  BY <1>1, <1>2 DEF AsClosed, AsCompleted, Open, Between

\* fail: what is open in its name is closed, and the run is over.
LEMMA Fails ==
  ASSUME NEW c \in Controllers, NEW stage \in StageNames, ~c.terminal
  PROVE  AsFailed(c, Fail(c, stage), stage)
<1> DEFINE f == IF c.current = stage THEN Closed(c, "stage.failed") ELSE c
           e == Emitted(f, "run.failed", stage, None)
           d == [e EXCEPT !.terminal = TRUE]
<1>1. AsClosed(c, Closed(c, "stage.failed"), "stage.failed") /\ Calm(c.log, c.log)
  BY ClosesIt, CalmReflexive DEF Controllers
<1>2. /\ f \in Controllers /\ Calm(c.log, f.log) /\ f.terminal = c.terminal /\ f.refused = c.refused
      /\ f.current = IF c.current = stage THEN None ELSE c.current
  BY <1>1 DEF AsClosed
<1>3. c.current # stage => f = c
  OBVIOUS
<1>4. Fail(c, stage) = d
  BY DEF Fail
<1> HIDE DEF f
<1>5. AsEmitted(f, e, "run.failed", stage)
  BY <1>2, Says, StageIsNotNone DEF StageEvents
<1> HIDE DEF e
<1>6. /\ e \in Controllers /\ Follows(f.log, e.log) /\ e.refused = f.refused /\ e.current = f.current
      /\ EndsBy(f, e, "run.failed") /\ e.log = Append(f.log, Event("run.failed", stage, None))
  BY <1>5 DEF AsEmitted
<1>7. /\ d \in Controllers /\ d.log = e.log /\ d.terminal = TRUE /\ d.refused = e.refused
      /\ d.current = e.current
  BY <1>6 DEF Controllers
<1> HIDE DEF d
<1>8. Follows(c.log, e.log)
  BY <1>2, <1>6, FollowsTransitive DEF Controllers, Calm
<1>9. EndsBy(c, d, "run.failed")
  BY <1>2, <1>6, <1>7 DEF Calm, EndsBy
<1> QED
  BY <1>2, <1>3, <1>4, <1>6, <1>7, <1>8, <1>9 DEF AsFailed

LEMMA Finishes ==
  ASSUME NEW c \in Controllers, NEW last, Between(c, last)
  PROVE  AsFinished(c, Finish(c))
<1> DEFINE e == Emitted(c, "run.completed", None, None)
           d == [e EXCEPT !.terminal = TRUE]
<1>1. AsEmitted(c, e, "run.completed", None)
  BY Says, NoneIsPlace DEF StageEvents
<1>2. Finish(c) = d
  BY DEF Finish, Between
<1> HIDE DEF e
<1>3. /\ e \in Controllers /\ Follows(c.log, e.log) /\ e.refused = c.refused /\ e.current = c.current
      /\ EndsBy(c, e, "run.completed")
  BY <1>1 DEF AsEmitted
<1>4. /\ d \in Controllers /\ d.log = e.log /\ d.terminal = TRUE /\ d.refused = e.refused
      /\ d.current = e.current
  BY <1>3 DEF Controllers
<1> HIDE DEF d
<1> QED
  BY <1>2, <1>3, <1>4 DEF AsFinished, Between, EndsBy

LEMMA Waits_ ==
  ASSUME NEW c \in Controllers, NEW last \in SUBSET StageNames, Between(c, last), NEW stage \in Waits
  PROVE  AsWaiting(c, Wait(c, stage), stage)
<1> DEFINE s == Start(c, stage)
           e == Emitted(s, "stage.waiting", stage, None)
<1>1. stage \in StageNames
  BY DEF StageNames
<1>2. AsStarted(c, s, stage)
  BY <1>1, Starts
<1>3. Wait(c, stage) = IF s.refused THEN s ELSE e
  BY DEF Wait
<1> HIDE DEF s
<1>4. CASE stage \in AllowedTransitions[c.previous]
  <2>1. s \in Controllers /\ Calm(c.log, s.log) /\ Open(s, stage)
    BY <1>2, <1>4 DEF AsStarted
  <2>2. Wait(c, stage) = e
    BY <1>3, <2>1 DEF Open
  <2>3. AsEmitted(s, e, "stage.waiting", stage)
    BY <1>1, <2>1, Says, StageIsNotNone DEF StageEvents
  <2> HIDE DEF e
  <2>4. e \in Controllers /\ Follows(s.log, e.log) /\ EndsBy(s, e, "stage.waiting") /\ Open(e, stage)
    BY <2>1, <2>3 DEF AsEmitted, Open
  <2>5. Follows(c.log, e.log)
    BY <2>1, <2>4, FollowsTransitive DEF Controllers, Calm
  <2>6. EndsBy(c, e, "stage.waiting")
    BY <2>1, <2>4 DEF Calm, EndsBy
  <2> QED
    BY <1>4, <2>2, <2>4, <2>5, <2>6 DEF AsWaiting
<1>5. CASE stage \notin AllowedTransitions[c.previous]
  <2>1. AsRefused(c, s) /\ s \in Controllers /\ Follows(c.log, s.log)
    BY <1>2, <1>5 DEF AsStarted, Calm
  <2>2. Wait(c, stage) = s
    BY <1>3, <2>1 DEF AsRefused
  <2> QED
    BY <1>5, <2>1, <2>2 DEF AsWaiting
<1> QED
  BY <1>4, <1>5

LEMMA Allowed ==
  /\ {"planning", "synthesis"} \cup Waits \subseteq AllowedTransitions["understanding"]
  /\ "analysis" \in AllowedTransitions["planning"]
  /\ {"data_processing", "verification", "synthesis", "waiting_input"} \subseteq AllowedTransitions["analysis"]
  /\ {"verification", "synthesis"} \subseteq AllowedTransitions["data_processing"]
  /\ {"data_processing", "synthesis"} \subseteq AllowedTransitions["verification"]
BY DEF AllowedTransitions, StageNames, Waits

-----------------------------------------------------------------------------
(***************************************************************************)
(* The inductive invariant.                                                 *)
(***************************************************************************)
Ends4 == {"running", "completed", "waiting", "failed"}
Types ==
  /\ stages \in Controllers
  /\ request \in [route : Routes \cup {None}, asked : BOOLEAN, history : BOOLEAN, report : BOOLEAN,
                  maxRounds : 1 .. MaxRounds]
  /\ tasks \subseteq Agents
  /\ unit \in [Agents -> {"idle", "running", "done"}]
  /\ round \in Nat
  /\ called \in [Agents -> Nat]
  /\ results \subseteq [agent : Agents, status : Statuses, wants : SUBSET Agents, round : Nat]
  /\ modules \in BOOLEAN
  /\ report \in [written : 0 .. Sections, attempt : 1 .. Attempts]
  /\ record \in Ends4 /\ row \in Ends4

\* Where the graph is over: _execute goes on.
Over == {"answered", "finishing", "recording", "done", "raised", "failing", "lost"}

NeedsInput == {r \in results : r.status = "needs_input"}

\* Behind a round of specialists: the stage of the first is not the others'.
Between3 ==
  /\ Between(stages, {"analysis", "verification", "data_processing"})
  /\ round > 0 /\ (round = 1 => stages.previous # "verification")

\* What holds where the worker is.
At ==
  /\ pc = "understand_request" =>
       /\ ~stages.started /\ stages.current = None /\ stages.previous = None
       /\ ~stages.terminal /\ ~stages.refused
  /\ pc = "interpreting" => Open(stages, "understanding")
  /\ pc \in {"direct_response", "create_plan"} => Between(stages, {"understanding"})
  /\ pc = "direct_response" => request.route # "execute"
  /\ pc = "responding" => Open(stages, "synthesis") /\ request.route = "respond"
  /\ pc = "planning" => Open(stages, "planning")
  /\ pc \in {"understand_request", "interpreting", "direct_response", "create_plan", "planning"} =>
       round = 0 /\ results = {} /\ \A a \in Agents : called[a] = 0
  /\ pc \in {"execute_specialists", "executing"} => round < request.maxRounds
  /\ pc = "execute_specialists" =>
       (round = 0 /\ Between(stages, {"planning"})) \/ Between3
  /\ pc = "executing" =>
       /\ Open(stages, RoundStage)
       /\ \A r \in NeedsInput : r.round = round
       /\ \A a \in Agents : unit[a] # "idle" => a \in tasks
  /\ pc \in {"specialist_waiting_input", "process_competitor_data"} =>
       round > 0 /\ Between(stages, {IF round = 1 THEN "analysis" ELSE "verification"})
  /\ pc = "specialist_waiting_input" => \E r \in NeedsInput : r.round + 1 = round
  /\ pc = "processing" => Open(stages, "data_processing") /\ round > 0
  /\ pc \in {"prepare_followups", "generate_competitor_report", "aggregate_response"} => Between3
  /\ pc \in {"execute_specialists", "process_competitor_data", "processing", "prepare_followups"} =>
       NeedsInput = {}
  /\ pc \in {"aggregating", "reporting"} => Open(stages, "synthesis")
  /\ pc \in {"aggregate_response", "aggregating"} => ~request.report
  /\ pc \in Over => stages.current \in {None} \cup Waits \/ request.route = "respond"
  /\ pc \notin Over => ~stages.terminal /\ ~stages.refused

ReportRoute == request.report => request.route = "execute"

\* A transition is refused to a specialist's question in a later round, or where
\* a plan may have a third round, whose stage cannot follow the second's.
RefusedOnly == stages.refused => MaxRounds > 2 \/ \E r \in NeedsInput : r.round > 0

Going == {a \in Agents : pc = "executing" /\ unit[a] = "running"}
Free == {a \in Agents : called[a] = 0 /\ ~(pc = "executing" /\ unit[a] # "idle")}

Logs == UnitLog(stages.log, Going, Free) /\ SectionLog(stages.log, report.written)

Ends ==
  /\ Has(stages.log, "run.completed") \/ Has(stages.log, "run.failed") => stages.terminal
  /\ Has(stages.log, "run.completed") /\ request.report => report.written = Sections
  /\ Has(stages.log, "stage.waiting") => pc \in Over /\ stages.current \in Waits

Inv == Types /\ At /\ ReportRoute /\ RefusedOnly /\ FollowupsBounded /\ Logs /\ Ends

\* A step keeps the invariant and the events.
Kept == Inv' /\ Prefix(stages.log, stages.log')

-----------------------------------------------------------------------------
(***************************************************************************)
(* Steps outside a round of specialists.                                    *)
(***************************************************************************)
Requests ==
  [route : Routes \cup {None}, asked : BOOLEAN, history : BOOLEAN, report : BOOLEAN,
   maxRounds : 1 .. MaxRounds]

LEMMA LogsKept ==
  ASSUME Inv, Follows(stages.log, stages.log'), UNCHANGED called, report'.written = report.written,
         pc # "executing", pc' # "executing"
  PROVE  Logs'
<1>1. Going = {} /\ Going' = {} /\ Free' = Free
  BY DEF Going, Free
<1>2. report.written \in Nat
  <2>1. report.written \in 0 .. Sections
    BY DEF Inv, Types
  <2> QED
    BY <2>1, LimitsAssumption
<1>3. UnitLog(stages.log', {}, Free)
  BY <1>1 DEF Inv, Logs, Follows
<1>4. SectionLog(stages.log', report.written)
  BY <1>2 DEF Inv, Logs, Follows
<1> QED
  BY <1>1, <1>3, <1>4 DEF Logs

\* What such a step cannot disturb, whatever events it emits.
LEMMA Undisturbed ==
  ASSUME Inv, stages' \in Controllers, Follows(stages.log, stages.log'),
         request' \in Requests, request'.maxRounds = request.maxRounds,
         UNCHANGED graphVars, record' \in Ends4, row' \in Ends4,
         pc # "executing", pc' # "executing"
  PROVE  Types' /\ FollowupsBounded' /\ Logs'
<1>1. Types'
  BY DEF Inv, Types, graphVars, Requests
<1>2. FollowupsBounded'
  BY DEF Inv, FollowupsBounded, EachAgentOnce, BoundedRounds, graphVars
<1>3. Logs'
  BY LogsKept DEF graphVars
<1> QED
  BY <1>1, <1>2, <1>3

\* A step that emits no event that ends the run, from where none was emitted.
LEMMA NoEnd ==
  ASSUME Inv, pc \notin Over, Calm(stages.log, stages.log')
  PROVE  Ends'
<1>1. \A kind \in EndKinds : ~Has(stages.log, kind)
  BY DEF Inv, Ends, At, EndKinds
<1>2. \A kind \in EndKinds : ~Has(stages.log', kind)
  BY <1>1 DEF Calm
<1> QED
  BY <1>2 DEF Ends, EndKinds

LEMMA Onward ==
  ASSUME Inv, stages' \in Controllers, Calm(stages.log, stages.log'), ~stages'.refused,
         UNCHANGED <<request, graphVars, storeVars>>, pc \notin Over, pc # "executing", pc' # "executing", At'
  PROVE  Kept
<1>1. Types' /\ FollowupsBounded' /\ Logs'
  BY Undisturbed DEF Inv, Types, Requests, Calm, storeVars
<1>2. Ends'
  BY NoEnd
<1>3. ReportRoute' /\ RefusedOnly'
  BY DEF Inv, ReportRoute, RefusedOnly
<1> QED
  BY <1>1, <1>2, <1>3 DEF Inv, Kept, Calm, Follows

LEMMA UnderstandStartKeeps ==
  ASSUME Inv, UnderstandStart
  PROVE  Kept
<1>1. /\ stages \in Controllers /\ ~stages.started /\ stages.current = None /\ stages.previous = None
      /\ ~stages.terminal /\ ~stages.refused
  BY DEF Inv, Types, At, UnderstandStart
<1>2. AsFirst(stages, stages', "understanding")
  BY <1>1, StartsFirst DEF UnderstandStart, Go, StageNames
<1>3. pc' = "interpreting" /\ pc = "understand_request"
  BY <1>2 DEF UnderstandStart, Go, AsFirst, Open
<1>4. At'
  BY <1>2, <1>3 DEF Inv, At, UnderstandStart, graphVars, AsFirst, Open, Over
<1> QED
  BY <1>2, <1>3, <1>4, Onward DEF UnderstandStart, AsFirst, Open, Over

LEMMA InterpretedKeeps ==
  ASSUME Inv, NEW route \in Routes, NEW asked \in BOOLEAN, NEW history \in BOOLEAN, NEW reporting \in BOOLEAN,
         Interpreted(route, asked, history, reporting)
  PROVE  Kept
<1>1. stages \in Controllers /\ Open(stages, "understanding") /\ request \in Requests /\ pc = "interpreting"
  BY DEF Inv, Types, At, Interpreted, Requests
<1>2. AsCompleted(stages, stages', "understanding")
  BY <1>1, Completes DEF Interpreted, Go, StageNames
<1>3. pc' = IF route = "execute" THEN "create_plan" ELSE "direct_response"
  BY <1>2 DEF Interpreted, Go, AsCompleted, Between
<1>4. /\ request' \in Requests /\ request'.maxRounds = request.maxRounds
      /\ request'.route = route /\ request'.report = reporting
  BY <1>1 DEF Interpreted, Requests
<1>5. Types' /\ FollowupsBounded' /\ Logs'
  BY <1>1, <1>2, <1>3, <1>4, Undisturbed DEF Inv, Types, Interpreted, AsCompleted, Calm, storeVars
<1>6. Ends'
  BY <1>1, <1>2, NoEnd DEF AsCompleted, Over
<1>7. ReportRoute' /\ RefusedOnly'
  BY <1>2, <1>4 DEF ReportRoute, RefusedOnly, Interpreted, AsCompleted, Between
<1>8. At'
  BY <1>1, <1>2, <1>3, <1>4 DEF Inv, At, Interpreted, graphVars, AsCompleted, Between, Over
<1> QED
  BY <1>2, <1>5, <1>6, <1>7, <1>8 DEF Inv, Kept, AsCompleted, Calm, Follows

LEMMA RespondStartKeeps ==
  ASSUME Inv, RespondStart
  PROVE  Kept
<1>1. stages \in Controllers /\ Between(stages, {"understanding"}) /\ pc = "direct_response"
  BY DEF Inv, Types, At, RespondStart
<1>2. AsStarted(stages, stages', "synthesis")
  BY <1>1, Starts DEF RespondStart, Go, StageNames
<1>3. stages' \in Controllers /\ Calm(stages.log, stages.log') /\ Open(stages', "synthesis")
  BY <1>1, <1>2, Allowed DEF AsStarted, Between
<1>4. pc' = "responding"
  BY <1>3 DEF RespondStart, Go, Open
<1>5. At'
  BY <1>1, <1>3, <1>4 DEF Inv, At, RespondStart, Open, Over
<1> QED
  BY <1>1, <1>3, <1>4, <1>5, Onward DEF RespondStart, Open, Over

LEMMA PlanStartKeeps ==
  ASSUME Inv, PlanStart
  PROVE  Kept
<1>1. stages \in Controllers /\ Between(stages, {"understanding"}) /\ pc = "create_plan"
  BY DEF Inv, Types, At, PlanStart
<1>2. AsStarted(stages, stages', "planning")
  BY <1>1, Starts DEF PlanStart, Go, StageNames
<1>3. stages' \in Controllers /\ Calm(stages.log, stages.log') /\ Open(stages', "planning")
  BY <1>1, <1>2, Allowed DEF AsStarted, Between
<1>4. pc' = "planning"
  BY <1>3 DEF PlanStart, Go, Open
<1>5. At'
  BY <1>1, <1>3, <1>4 DEF Inv, At, PlanStart, graphVars, Open, Over
<1> QED
  BY <1>1, <1>3, <1>4, <1>5, Onward DEF PlanStart, Open, Over

LEMMA PlannedKeeps ==
  ASSUME Inv, NEW agents \in SUBSET Agents, NEW rounds \in 1 .. MaxRounds, Planned(agents, rounds)
  PROVE  Kept
<1>1. stages \in Controllers /\ Open(stages, "planning") /\ request \in Requests /\ pc = "planning"
  BY DEF Inv, Types, At, Planned, Requests
<1>2. AsCompleted(stages, stages', "planning")
  BY <1>1, Completes DEF Planned, Go, StageNames
<1>3. pc' = "execute_specialists"
  BY <1>2 DEF Planned, Go, AsCompleted, Between
<1>4. /\ request' \in Requests /\ request'.maxRounds = rounds
      /\ request'.route = request.route /\ request'.report = request.report
  BY <1>1 DEF Planned, Requests
<1>5. round = 0 /\ results = {} /\ \A a \in Agents : called[a] = 0
  BY <1>1 DEF Inv, At
<1>6. Types'
  BY <1>2, <1>4 DEF Inv, Types, Planned, Requests, AsCompleted, storeVars
<1>7. FollowupsBounded'
  <2>1. EachAgentOnce'
    BY <1>5 DEF EachAgentOnce, Planned
  <2>2. BoundedRounds'
    BY <1>4, <1>5, LimitsAssumption DEF BoundedRounds, Planned
  <2> QED
    BY <2>1, <2>2 DEF FollowupsBounded
<1>8. Logs'
  BY <1>1, <1>2, <1>3, LogsKept DEF Planned, AsCompleted, Calm
<1>9. Ends'
  BY <1>1, <1>2, NoEnd DEF AsCompleted, Over
<1>10. ReportRoute' /\ RefusedOnly'
  BY <1>2, <1>4 DEF Inv, ReportRoute, RefusedOnly, AsCompleted, Between
<1>11. round' < request'.maxRounds
  BY <1>4, <1>5, LimitsAssumption DEF Planned
<1>12. At'
  BY <1>2, <1>3, <1>5, <1>11 DEF At, Planned, AsCompleted, Between, Over, NeedsInput
<1> QED
  BY <1>2, <1>6, <1>7, <1>8, <1>9, <1>10, <1>12 DEF Inv, Kept, AsCompleted, Calm, Follows

LEMMA ProcessStartKeeps ==
  ASSUME Inv, ProcessStart
  PROVE  Kept
<1>1. /\ stages \in Controllers /\ Between(stages, {IF round = 1 THEN "analysis" ELSE "verification"})
      /\ pc = "process_competitor_data" /\ round > 0 /\ NeedsInput = {}
  BY DEF Inv, Types, At, ProcessStart
<1>2. AsStarted(stages, stages', "data_processing")
  BY <1>1, Starts DEF ProcessStart, Go, StageNames
<1>3. "data_processing" \in AllowedTransitions[stages.previous]
  BY <1>1, Allowed DEF Between
<1>4. stages' \in Controllers /\ Calm(stages.log, stages.log') /\ Open(stages', "data_processing")
  BY <1>2, <1>3 DEF AsStarted
<1>5. pc' = "processing"
  BY <1>4 DEF ProcessStart, Go, Open
<1>6. At'
  BY <1>1, <1>4, <1>5 DEF Inv, At, ProcessStart, graphVars, Open, Over, NeedsInput
<1> QED
  BY <1>1, <1>4, <1>5, <1>6, Onward DEF ProcessStart, Open, Over

LEMMA SynthesisStarts ==
  ASSUME Inv, Between3, stages' = Start(stages, "synthesis")
  PROVE  stages' \in Controllers /\ Calm(stages.log, stages.log') /\ Open(stages', "synthesis")
<1>1. stages \in Controllers /\ Between(stages, {"analysis", "verification", "data_processing"})
  BY DEF Inv, Types, Between3
<1>2. AsStarted(stages, stages', "synthesis")
  BY <1>1, Starts DEF StageNames
<1>3. "synthesis" \in AllowedTransitions[stages.previous]
  BY <1>1, Allowed DEF Between
<1> QED
  BY <1>2, <1>3 DEF AsStarted

LEMMA AggregateStartKeeps ==
  ASSUME Inv, AggregateStart
  PROVE  Kept
<1>1. Between3 /\ pc = "aggregate_response"
  BY DEF Inv, At, AggregateStart
<1>2. stages' \in Controllers /\ Calm(stages.log, stages.log') /\ Open(stages', "synthesis")
  BY <1>1, SynthesisStarts DEF AggregateStart, Go
<1>3. pc' = "aggregating"
  BY <1>2 DEF AggregateStart, Go, Open
<1>4. At'
  BY <1>1, <1>2, <1>3 DEF Inv, At, AggregateStart, Open, Over
<1> QED
  BY <1>1, <1>2, <1>3, <1>4, Onward DEF AggregateStart, Open, Over

LEMMA ReportStartKeeps ==
  ASSUME Inv, ReportStart
  PROVE  Kept
<1>1. Between3 /\ pc = "generate_competitor_report"
  BY DEF Inv, At, ReportStart
<1>2. stages' \in Controllers /\ Calm(stages.log, stages.log') /\ Open(stages', "synthesis")
  BY <1>1, SynthesisStarts DEF ReportStart, Go
<1>3. pc' = "reporting"
  BY <1>2 DEF ReportStart, Go, Open
<1>4. At'
  BY <1>1, <1>2, <1>3 DEF Inv, At, ReportStart, Open, Over
<1> QED
  BY <1>1, <1>2, <1>3, <1>4, Onward DEF ReportStart, Open, Over

LEMMA ProcessedKeeps ==
  ASSUME Inv, NEW ok \in BOOLEAN, Processed(ok)
  PROVE  Kept
<1>1. stages \in Controllers /\ Open(stages, "data_processing") /\ pc = "processing" /\ round > 0 /\ NeedsInput = {}
  BY DEF Inv, Types, At, Processed
<1>2. AsCompleted(stages, stages', "data_processing")
  BY <1>1, Completes DEF Processed, Go, StageNames
<1>3. pc' = "prepare_followups"
  BY <1>2 DEF Processed, Go, AsCompleted, Between
<1>4. Types'
  BY <1>2 DEF Inv, Types, Processed, AsCompleted, storeVars
<1>5. FollowupsBounded'
  BY DEF Inv, FollowupsBounded, EachAgentOnce, BoundedRounds, Processed
<1>6. Logs'
  BY <1>1, <1>2, <1>3, LogsKept DEF Processed, AsCompleted, Calm
<1>7. Ends'
  BY <1>1, <1>2, NoEnd DEF AsCompleted, Over
<1>8. ReportRoute' /\ RefusedOnly'
  BY <1>2 DEF Inv, ReportRoute, RefusedOnly, Processed, AsCompleted, Between
<1>9. NeedsInput' = {} /\ Between3'
  BY <1>1, <1>2 DEF NeedsInput, Processed, Between3, AsCompleted, Between
<1>10. At'
  BY <1>2, <1>3, <1>9 DEF At, AsCompleted, Between, Over
<1> QED
  BY <1>2, <1>4, <1>5, <1>6, <1>7, <1>8, <1>10 DEF Inv, Kept, AsCompleted, Calm, Follows

LEMMA SkipProcessingKeeps ==
  ASSUME Inv, SkipProcessing
  PROVE  Kept
<1>1. /\ stages \in Controllers /\ Between(stages, {IF round = 1 THEN "analysis" ELSE "verification"})
      /\ pc = "process_competitor_data" /\ round > 0 /\ NeedsInput = {} /\ pc' = "prepare_followups"
  BY DEF Inv, Types, At, SkipProcessing
<1>2. Between3' /\ NeedsInput' = {} /\ ~stages'.refused
  BY <1>1 DEF Between3, Between, SkipProcessing, graphVars, NeedsInput
<1>3. At'
  BY <1>1, <1>2 DEF At, Over, SkipProcessing, Between
<1> QED
  BY <1>1, <1>2, <1>3, Onward, CalmReflexive DEF SkipProcessing, Over, Controllers

LEMMA PrepareFollowupsKeeps ==
  ASSUME Inv, PrepareFollowups
  PROVE  Kept
<1>1. stages \in Controllers /\ pc = "prepare_followups" /\ Between3 /\ NeedsInput = {} /\ ~stages.refused
  BY DEF Inv, Types, At, PrepareFollowups, Over
<1>2. Calm(stages.log, stages.log') /\ stages' = stages
  BY <1>1, CalmReflexive DEF PrepareFollowups, Controllers
<1>3. pc' \in {"execute_specialists", "generate_competitor_report", "aggregate_response"}
  BY DEF PrepareFollowups
<1>4. Followups \subseteq Agents /\ \A a \in Followups : called[a] = 0
  BY DEF Inv, Types, Followups, Wanted
<1>5. Types'
  BY <1>4 DEF Inv, Types, PrepareFollowups, storeVars
<1>6. Followups # {} => round < request.maxRounds
  BY DEF Followups, Inv, Types
<1>7. FollowupsBounded'
  <2>1. \A a \in Agents : called[a] \in Nat /\ called[a] + (IF a \in tasks THEN 1 ELSE 0) <= 1
    BY DEF Inv, Types, FollowupsBounded, EachAgentOnce
  <2>2. EachAgentOnce'
    BY <1>4, <2>1 DEF EachAgentOnce, PrepareFollowups
  <2>3. round \in Nat /\ request.maxRounds \in Nat /\ round <= request.maxRounds
    BY DEF Inv, Types, FollowupsBounded, BoundedRounds
  <2>4. BoundedRounds'
    BY <1>6, <2>3 DEF BoundedRounds, PrepareFollowups
  <2> QED
    BY <2>2, <2>4 DEF FollowupsBounded
<1>8. Logs'
  BY <1>1, <1>2, <1>3, LogsKept DEF PrepareFollowups, Calm
<1>9. Ends'
  BY <1>1, <1>2, NoEnd DEF Over
<1>10. ReportRoute' /\ RefusedOnly'
  BY <1>1, <1>2 DEF Inv, ReportRoute, RefusedOnly, PrepareFollowups
<1>11. Between3' /\ NeedsInput' = {} /\ UNCHANGED <<round, request>>
  BY <1>1, <1>2 DEF Between3, NeedsInput, PrepareFollowups
<1>12. /\ pc' = "execute_specialists" => round' < request'.maxRounds
       /\ pc' = "aggregate_response" => ~request'.report
       /\ ~stages'.terminal /\ ~stages'.refused
  BY <1>1, <1>2, <1>6 DEF PrepareFollowups, Between3, Between
<1>13. At'
  BY <1>3, <1>11, <1>12 DEF At, Over
<1> QED
  BY <1>2, <1>5, <1>7, <1>8, <1>9, <1>10, <1>13 DEF Inv, Kept, Calm, Follows

\* The end of a run, announced by the node that is the last.
LEMMA Terminates ==
  ASSUME Inv, stages' \in Controllers, Follows(stages.log, stages.log'), stages'.terminal, ~stages'.refused,
         NEW kind \in {"run.completed", "run.failed"}, EndsBy(stages, stages', kind),
         kind = "run.completed" => ~request.report \/ report.written = Sections,
         stages'.current = None, UNCHANGED <<request, graphVars, storeVars>>,
         pc \notin Over, pc # "executing", pc' \in Over
  PROVE  Kept
<1>1. Types' /\ FollowupsBounded' /\ Logs'
  BY Undisturbed DEF Inv, Types, Requests, storeVars, Over
<1>2. ReportRoute' /\ RefusedOnly'
  BY DEF Inv, ReportRoute, RefusedOnly
<1>3. \A k \in EndKinds : ~Has(stages.log, k)
  BY DEF Inv, Ends, At, EndKinds
<1>4. \A k \in EndKinds : Has(stages.log', k) => k = kind
  BY <1>3 DEF EndsBy
<1>5. Ends'
  BY <1>4 DEF Ends, EndKinds, graphVars
<1>6. At'
  BY DEF At, Over
<1> QED
  BY <1>1, <1>2, <1>5, <1>6 DEF Inv, Kept, Follows

LEMMA FinishesOpen ==
  ASSUME NEW c \in Controllers, NEW stage \in StageNames, Open(c, stage)
  PROVE  AsFinished(c, Finish(Complete(c, stage)))
<1> DEFINE d == Complete(c, stage)
           f == Finish(d)
<1>1. AsCompleted(c, d, stage)
  BY Completes
<1> HIDE DEF d
<1>2. d \in Controllers /\ Calm(c.log, d.log) /\ Between(d, {stage})
  BY <1>1 DEF AsCompleted
<1>3. AsFinished(d, f)
  BY <1>2, Finishes
<1> HIDE DEF f
<1>4. f \in Controllers /\ Follows(d.log, f.log) /\ EndsBy(d, f, "run.completed")
  BY <1>3 DEF AsFinished
<1>5. Follows(c.log, f.log)
  BY <1>2, <1>4, FollowsTransitive DEF Controllers, Calm
<1>6. EndsBy(c, f, "run.completed")
  BY <1>2, <1>4 DEF Calm, EndsBy
<1> QED
  BY <1>3, <1>5, <1>6 DEF AsFinished, f, d

\* The last stage is completed and the run with it.
LEMMA CompletesRun ==
  ASSUME Inv, NEW stage \in StageNames, Open(stages, stage), Go(Finish(Complete(stages, stage)), "answered"),
         ~request.report \/ report.written = Sections, UNCHANGED <<request, graphVars, storeVars>>,
         pc \notin Over, pc # "executing"
  PROVE  Kept
<1>1. AsFinished(stages, stages')
  BY FinishesOpen DEF Inv, Types, Go
<1>2. pc' \in Over
  BY <1>1 DEF Go, AsFinished, Over
<1> QED
  BY <1>1, <1>2, Terminates DEF AsFinished

\* The stage that is open fails and the run with it.
LEMMA FailsRun ==
  ASSUME Inv, NEW stage \in StageNames, Open(stages, stage), stages' = Fail(stages, stage), pc' \in Over,
         UNCHANGED <<request, graphVars, storeVars>>, pc \notin Over, pc # "executing"
  PROVE  Kept
<1>1. AsFailed(stages, stages', stage)
  BY Fails DEF Inv, Types, Open
<1>2. stages'.current = None /\ ~stages'.refused
  BY <1>1 DEF AsFailed, Open
<1> QED
  BY <1>1, <1>2, Terminates DEF AsFailed

LEMMA RaisesKeep ==
  ASSUME Inv, InterpreterRaises \/ PlanningRaises \/ AggregatorRaises
  PROVE  Kept
<1>1. pc' = "raised" /\ pc' \in Over
  BY DEF InterpreterRaises, PlanningRaises, AggregatorRaises, Over
<1>2. CASE InterpreterRaises
  BY <1>1, <1>2, FailsRun DEF InterpreterRaises, Inv, At, Over, StageNames
<1>3. CASE PlanningRaises
  BY <1>1, <1>3, FailsRun DEF PlanningRaises, Inv, At, Over, StageNames
<1>4. CASE AggregatorRaises
  BY <1>1, <1>4, FailsRun DEF AggregatorRaises, Inv, At, Over, StageNames
<1> QED
  BY <1>2, <1>3, <1>4

LEMMA RespondedKeeps ==
  ASSUME Inv, Responded
  PROVE  Kept
<1>1. Open(stages, "synthesis") /\ ~request.report /\ pc = "responding" /\ "synthesis" \in StageNames
  BY DEF Inv, At, ReportRoute, Responded, StageNames
<1> QED
  BY <1>1, CompletesRun DEF Responded, Over

LEMMA AggregatedKeeps ==
  ASSUME Inv, Aggregated
  PROVE  Kept
<1>1. Open(stages, "synthesis") /\ ~request.report /\ pc = "aggregating" /\ "synthesis" \in StageNames
  BY DEF Inv, At, Aggregated, StageNames
<1>2. CASE AllSpecialistsFailed
  <2>1. stages' = Fail(stages, "synthesis") /\ pc' = IF stages'.refused THEN "raised" ELSE "answered"
    BY <1>2 DEF Aggregated, Go
  <2> QED
    BY <1>1, <2>1, FailsRun DEF Aggregated, Over
<1>3. CASE ~AllSpecialistsFailed
  BY <1>1, <1>3, CompletesRun DEF Aggregated, Over
<1> QED
  BY <1>2, <1>3

LEMMA ReportEndsKeeps ==
  ASSUME Inv, NEW valid \in BOOLEAN, ReportEnds(valid)
  PROVE  Kept
<1>1. /\ Open(stages, "synthesis") /\ report.written = Sections /\ pc = "reporting" /\ "synthesis" \in StageNames
  BY DEF Inv, At, ReportEnds, AllWritten, StageNames
<1>2. CASE ~valid
  <2>1. stages' = Fail(stages, "synthesis") /\ pc' = IF stages'.refused THEN "raised" ELSE "answered"
    BY <1>2 DEF ReportEnds, Go
  <2> QED
    BY <1>1, <2>1, FailsRun DEF ReportEnds, Over
<1>3. CASE valid
  BY <1>1, <1>3, CompletesRun DEF ReportEnds, Over
<1> QED
  BY <1>2, <1>3

LEMMA ExplainUnsupportedKeeps ==
  ASSUME Inv, ExplainUnsupported
  PROVE  Kept
<1> DEFINE s == Start(stages, "synthesis")
           f == Finish(Complete(s, "synthesis"))
<1>1. /\ stages \in Controllers /\ Between(stages, {"understanding"}) /\ pc = "direct_response" /\ ~request.report
      /\ "synthesis" \in StageNames
  BY DEF Inv, Types, At, ReportRoute, ExplainUnsupported, StageNames
<1>2. AsStarted(stages, s, "synthesis")
  BY <1>1, Starts DEF StageNames
<1>3. stages' = f /\ pc' = IF f.refused THEN "raised" ELSE "answered"
  BY DEF ExplainUnsupported, Go
<1> HIDE DEF s
<1>4. s \in Controllers /\ Calm(stages.log, s.log) /\ Open(s, "synthesis")
  BY <1>1, <1>2, Allowed DEF AsStarted, Between
<1>5. AsFinished(s, f)
  BY <1>1, <1>4, FinishesOpen
<1> HIDE DEF f
<1>6. f \in Controllers /\ Follows(s.log, f.log) /\ EndsBy(s, f, "run.completed")
  BY <1>5 DEF AsFinished
<1>7. Follows(stages.log, f.log)
  BY <1>1, <1>4, <1>6, FollowsTransitive DEF Controllers, Calm
<1>8. EndsBy(stages, f, "run.completed")
  BY <1>4, <1>6 DEF Calm, EndsBy
<1> QED
  BY <1>1, <1>3, <1>5, <1>7, <1>8, Terminates DEF AsFinished, ExplainUnsupported, Over

LEMMA AskUserKeeps ==
  ASSUME Inv, AskUser
  PROVE  Kept
<1> DEFINE w == IF request.route = "clarify" THEN "waiting_input" ELSE "waiting_approval"
<1>1. /\ stages \in Controllers /\ Between(stages, {"understanding"}) /\ pc = "direct_response"
      /\ w \in Waits /\ w \in AllowedTransitions[stages.previous]
  BY Allowed DEF Inv, Types, At, AskUser, Waits, Between
<1>2. AsWaiting(stages, stages', w)
  BY <1>1, Waits_ DEF AskUser, Go, StageNames
<1> HIDE DEF w
<1>3. Open(stages', w) /\ EndsBy(stages, stages', "stage.waiting") /\ Follows(stages.log, stages.log')
      /\ stages' \in Controllers
  BY <1>1, <1>2 DEF AsWaiting
<1>4. pc' = "answered"
  BY <1>3 DEF AskUser, Go, Open
<1>5. Types' /\ FollowupsBounded' /\ Logs'
  BY <1>1, <1>3, <1>4, Undisturbed DEF AskUser, Inv, Types, Requests, storeVars
<1>6. ReportRoute' /\ RefusedOnly'
  BY <1>3 DEF Inv, ReportRoute, RefusedOnly, AskUser, Open
<1>7. \A k \in EndKinds : ~Has(stages.log, k)
  BY <1>1 DEF Inv, Ends, At, EndKinds, Over
<1>8. Ends'
  BY <1>1, <1>3, <1>4, <1>7 DEF Ends, EndKinds, EndsBy, Open, Over
<1>9. At'
  BY <1>1, <1>3, <1>4 DEF At, Over, Open
<1> QED
  BY <1>3, <1>5, <1>6, <1>8, <1>9 DEF Inv, Kept, Follows

LEMMA SpecialistWaitingInputKeeps ==
  ASSUME Inv, SpecialistWaitingInput
  PROVE  Kept
<1>1. /\ stages \in Controllers /\ Between(stages, {IF round = 1 THEN "analysis" ELSE "verification"})
      /\ pc = "specialist_waiting_input" /\ round \in Nat /\ round > 0 /\ request \in Requests
  BY DEF Inv, Types, At, SpecialistWaitingInput, Requests
<1>2. AsWaiting(stages, stages', "waiting_input")
  BY <1>1, Waits_ DEF SpecialistWaitingInput, Go, StageNames, Waits
<1>3. stages' \in Controllers /\ Follows(stages.log, stages.log')
  BY <1>2 DEF AsWaiting
<1>4. pc' \in {"raised", "answered"}
  BY DEF SpecialistWaitingInput, Go
<1>5. /\ request' \in Requests /\ request'.maxRounds = request.maxRounds /\ request'.report = request.report
      /\ request'.route = request.route
  BY <1>1, <1>3 DEF SpecialistWaitingInput, Requests
<1>6. Types' /\ FollowupsBounded' /\ Logs'
  BY <1>1, <1>3, <1>4, <1>5, Undisturbed DEF SpecialistWaitingInput, Inv, Types, storeVars
<1>7. ReportRoute' /\ UNCHANGED <<results, report>>
  BY <1>5 DEF Inv, ReportRoute, SpecialistWaitingInput, graphVars
<1>8. \A k \in EndKinds : ~Has(stages.log, k)
  BY <1>1 DEF Inv, Ends, At, EndKinds, Over
<1>9. CASE "waiting_input" \in AllowedTransitions[stages.previous]
  <2>1. Open(stages', "waiting_input") /\ EndsBy(stages, stages', "stage.waiting")
    BY <1>2, <1>9 DEF AsWaiting
  <2>2. Ends'
    BY <1>4, <1>8, <2>1 DEF Ends, EndKinds, EndsBy, Open, Over, Waits
  <2>3. At' /\ RefusedOnly'
    BY <1>4, <2>1 DEF At, Over, Open, RefusedOnly, Waits
  <2> QED
    BY <1>3, <1>6, <1>7, <2>2, <2>3 DEF Inv, Kept, Follows
<1>10. CASE "waiting_input" \notin AllowedTransitions[stages.previous]
  <2>1. AsRefused(stages, stages')
    BY <1>2, <1>10 DEF AsWaiting
  <2>2. Ends'
    BY <1>4, <1>8, <2>1 DEF Ends, EndKinds, AsRefused
  <2>3. At'
    BY <1>1, <1>4, <2>1 DEF At, Over, AsRefused, Between
  <2>4. round # 1
    BY <1>1, <1>10, Allowed DEF Between
  <2>5. PICK r \in NeedsInput : r.round + 1 = round
    BY <1>1 DEF Inv, At
  <2>6. r.round \in Nat
    BY <2>5 DEF NeedsInput, Inv, Types
  <2>7. NeedsInput' = NeedsInput
    BY <1>7 DEF NeedsInput
  <2>8. RefusedOnly'
    BY <1>1, <2>4, <2>5, <2>6, <2>7 DEF RefusedOnly
  <2> QED
    BY <1>3, <1>6, <1>7, <2>2, <2>3, <2>8 DEF Inv, Kept, Follows
<1> QED
  BY <1>9, <1>10

-----------------------------------------------------------------------------
(***************************************************************************)
(* The report, section by section.                                          *)
(***************************************************************************)
LEMMA SectionFailsKeeps ==
  ASSUME Inv, SectionFails
  PROVE  Kept
<1>1. stages \in Controllers /\ pc = "reporting" /\ report \in [written : 0 .. Sections, attempt : 1 .. Attempts]
  BY DEF Inv, Types, SectionFails
<1>2. /\ report' \in [written : 0 .. Sections, attempt : 1 .. Attempts] /\ report'.written = report.written
  BY <1>1, LimitsAssumption DEF SectionFails, Retries
<1>3. Types'
  BY <1>2 DEF Inv, Types, SectionFails, storeVars
<1>4. FollowupsBounded'
  BY DEF Inv, FollowupsBounded, EachAgentOnce, BoundedRounds, SectionFails
<1>5. Calm(stages.log, stages.log')
  BY <1>1, CalmReflexive DEF SectionFails, Controllers
<1>6. Logs'
  BY <1>1, <1>2, <1>5, LogsKept DEF SectionFails, Calm
<1>7. Ends'
  BY <1>1, <1>5, NoEnd DEF Over
<1>8. ReportRoute' /\ RefusedOnly'
  BY DEF Inv, ReportRoute, RefusedOnly, SectionFails, NeedsInput
<1>9. At'
  BY <1>1 DEF Inv, At, SectionFails, Over, Open
<1> QED
  BY <1>3, <1>4, <1>5, <1>6, <1>7, <1>8, <1>9 DEF Inv, Kept, Calm, Follows

SectionEvent(stage, n) == Event("report.section", stage, n)

LEMMA NextSection ==
  ASSUME NEW log \in Seq(Events), NEW n \in Nat, n + 1 \in 1 .. Sections, NEW stage \in Places,
         SectionLog(log, n)
  PROVE  SectionLog(Append(log, SectionEvent(stage, n + 1)), n + 1)
<1> DEFINE e == SectionEvent(stage, n + 1)
           new == Append(log, e)
           l == Len(log) + 1
<1>1. e \in Events /\ e.event = "report.section" /\ e.of = n + 1
  BY DEF SectionEvent, Event, Events, Places
<1> HIDE DEF e
<1>2. /\ DOMAIN log = 1 .. Len(log) /\ DOMAIN new = 1 .. l /\ Len(log) \in Nat
      /\ \A i \in DOMAIN log : new[i] = log[i]
      /\ new[l] = e
  BY <1>1, Appended
<1> HIDE DEF new
<1>3. /\ \A i \in DOMAIN new : i \in DOMAIN log \/ i = l
      /\ \A i \in DOMAIN log : i \in DOMAIN new /\ i < l /\ i \in Nat
      /\ l \in DOMAIN new
  BY <1>2
<1>4. \A i \in DOMAIN new : new[i].event = "report.section" => new[i].of \in 1 .. (n + 1)
  BY <1>1, <1>2, <1>3 DEF SectionLog
<1>5. ASSUME NEW m \in 1 .. (n + 1)
      PROVE  \E i \in DOMAIN new : new[i].event = "report.section" /\ new[i].of = m
  <2>1. CASE m \in 1 .. n
    <3>1. PICK i \in DOMAIN log : log[i].event = "report.section" /\ log[i].of = m
      BY <2>1 DEF SectionLog
    <3> QED
      BY <1>2, <1>3, <3>1
  <2>2. CASE m = n + 1
    BY <1>1, <1>2, <1>3, <2>2
  <2> QED
    BY <2>1, <2>2
<1>6. ASSUME NEW i \in DOMAIN new, NEW j \in DOMAIN new, i < j,
             new[i].event = "report.section", new[j].event = "report.section"
      PROVE  new[i].of < new[j].of
  <2>1. i \in DOMAIN log
    BY <1>2, <1>3, <1>6
  <2>2. CASE j \in DOMAIN log
    BY <1>2, <1>6, <2>1, <2>2 DEF SectionLog
  <2>3. CASE j = l
    <3>1. log[i].of \in 1 .. n
      BY <1>2, <1>6, <2>1 DEF SectionLog
    <3> QED
      BY <1>1, <1>2, <2>1, <2>3, <3>1
  <2> QED
    BY <1>3, <2>2, <2>3
<1> QED
  BY <1>4, <1>5, <1>6 DEF SectionLog, new, e

\* The controller after the event of section n + 1.
AsShown(c, d, n) ==
  /\ d \in Controllers /\ Open(d, "synthesis")
  /\ \A free : UnitLog(c.log, {}, free) => UnitLog(d.log, {}, free)
  /\ SectionLog(c.log, n) => SectionLog(d.log, n + 1)
  /\ \A kind \in EndKinds : Has(d.log, kind) <=> Has(c.log, kind)
  /\ Prefix(c.log, d.log)

LEMMA Shows ==
  ASSUME NEW c \in Controllers, Open(c, "synthesis"), NEW n \in Nat, n + 1 \in 1 .. Sections
  PROVE  AsShown(c, Progress(c, "synthesis", "report.section", n + 1), n)
<1> DEFINE e == SectionEvent("synthesis", n + 1)
           d == Progress(c, "synthesis", "report.section", n + 1)
<1>1. e \in Events /\ e.event = "report.section" /\ c.log \in Seq(Events) /\ "synthesis" \in Places
  BY DEF SectionEvent, Event, Events, Places, Controllers, StageNames
<1>2. d = [c EXCEPT !.log = Append(c.log, e)]
  BY DEF Progress, Open, Emitted, SectionEvent
<1> HIDE DEF e, d
<1>3. Append(c.log, e) \in Seq(Events)
  BY <1>1
<1>4. d \in Controllers /\ d.log = Append(c.log, e) /\ Open(d, "synthesis")
  BY <1>2, <1>3 DEF Controllers, Open
<1>5. \A free : UnitLog(c.log, {}, free) => UnitLog(Append(c.log, e), {}, free)
  BY <1>1, PlainUnits
<1>6. SectionLog(c.log, n) => SectionLog(Append(c.log, e), n + 1)
  BY <1>1, NextSection DEF e
<1>7. \A kind \in EndKinds : Has(Append(c.log, e), kind) <=> Has(c.log, kind)
  BY <1>1, Appended DEF EndKinds
<1>8. Prefix(c.log, Append(c.log, e))
  BY <1>1, Appended
<1> QED
  BY <1>4, <1>5, <1>6, <1>7, <1>8 DEF AsShown, d, e

LEMMA SectionShownKeeps ==
  ASSUME Inv, NEW saved \in BOOLEAN, SectionShown(saved)
  PROVE  Kept
<1> DEFINE n == report.written
           s == Progress(stages, "synthesis", "report.section", n + 1)
<1>1. /\ stages \in Controllers /\ Open(stages, "synthesis") /\ pc = "reporting"
      /\ n \in Nat /\ n < Sections /\ Sections \in Nat /\ n + 1 \in 1 .. Sections
  <2>1. /\ stages \in Controllers /\ Open(stages, "synthesis") /\ pc = "reporting"
        /\ n \in 0 .. Sections /\ n < Sections
    BY DEF Inv, Types, At, SectionShown
  <2> QED
    BY <2>1, LimitsAssumption
<1>2. AsShown(stages, s, n)
  BY <1>1, Shows
<1>3. report' = [written |-> n + 1, attempt |-> 1]
  BY DEF SectionShown, Section
<1>4. IF saved THEN Go(s, "reporting") ELSE Go(Fail(s, "synthesis"), "answered")
  BY DEF SectionShown, Section
<1> HIDE DEF s
<1>5. s \in Controllers /\ Open(s, "synthesis")
  BY <1>2 DEF AsShown
<1>6. Going = {} /\ Free = {a \in Agents : called[a] = 0}
  BY <1>1 DEF Going, Free
<1>7. UnitLog(s.log, {}, Free) /\ SectionLog(s.log, n + 1)
  BY <1>1, <1>2, <1>6 DEF AsShown, Inv, Logs
<1>8. \A k \in EndKinds : ~Has(s.log, k)
  BY <1>1, <1>2 DEF Inv, Ends, At, EndKinds, Over, AsShown
<1>9. FollowupsBounded' /\ ReportRoute'
  BY DEF Inv, FollowupsBounded, EachAgentOnce, BoundedRounds, SectionShown, ReportRoute
<1>10. report' \in [written : 0 .. Sections, attempt : 1 .. Attempts] /\ report'.written = n + 1
  BY <1>1, <1>3, LimitsAssumption
<1>11. CASE saved
  <2>1. stages' = s /\ pc' = "reporting"
    BY <1>4, <1>5, <1>11 DEF Go, Open
  <2>2. Types'
    BY <1>5, <1>10, <2>1 DEF Inv, Types, SectionShown, storeVars
  <2>3. Going' = {} /\ Free' = Free
    BY <1>6, <2>1 DEF Going, Free, SectionShown
  <2>4. Logs'
    BY <1>7, <1>10, <2>1, <2>3 DEF Logs
  <2>5. Ends'
    BY <1>8, <2>1 DEF Ends, EndKinds
  <2>6. At' /\ RefusedOnly'
    BY <1>5, <2>1 DEF At, RefusedOnly, Open, Over
  <2> QED
    BY <1>2, <1>9, <2>1, <2>2, <2>4, <2>5, <2>6 DEF Inv, Kept, AsShown
<1>12. CASE ~saved
  <2>1. stages' = Fail(s, "synthesis") /\ pc' \in {"raised", "answered"}
    BY <1>4, <1>12 DEF Go
  <2>2. AsFailed(s, stages', "synthesis")
    BY <1>5, <2>1, Fails DEF StageNames, Open
  <2>3. /\ stages' \in Controllers /\ Follows(s.log, stages.log') /\ stages'.terminal /\ ~stages'.refused
        /\ EndsBy(s, stages', "run.failed") /\ stages'.current = None
    BY <1>5, <2>2 DEF AsFailed, Open
  <2>4. Types'
    BY <1>10, <2>3 DEF Inv, Types, SectionShown, storeVars
  <2>5. Going' = {} /\ Free' = Free
    BY <1>6, <2>1 DEF Going, Free, SectionShown
  <2>6. n + 1 \in Nat
    BY <1>1
  <2>7. UnitLog(stages.log', {}, Free) /\ SectionLog(stages.log', n + 1)
    BY <1>7, <2>3, <2>6 DEF Follows
  <2>8. Logs'
    BY <1>10, <2>5, <2>7 DEF Logs
  <2>9. Ends'
    BY <1>8, <2>3 DEF Ends, EndKinds, EndsBy
  <2>10. At' /\ RefusedOnly'
    BY <2>1, <2>3 DEF At, RefusedOnly, Over
  <2>11. Prefix(stages.log, stages.log')
    BY <1>1, <1>2, <1>5, <2>3, PrefixTransitive DEF AsShown, Follows, Controllers
  <2> QED
    BY <1>9, <2>4, <2>8, <2>9, <2>10, <2>11 DEF Inv, Kept
<1> QED
  BY <1>11, <1>12

-----------------------------------------------------------------------------
(***************************************************************************)
(* _execute around the graph.                                               *)
(***************************************************************************)
LEMMA StaysOver ==
  ASSUME Inv, pc \in Over, pc' \in Over, UNCHANGED <<stages, request, graphVars>>,
         record' \in Ends4, row' \in Ends4
  PROVE  Kept
<1>1. Follows(stages.log, stages.log') /\ stages' \in Controllers
  BY CalmReflexive DEF Inv, Types, Controllers, Calm
<1>2. Types' /\ FollowupsBounded' /\ Logs'
  BY <1>1, Undisturbed DEF Inv, Types, Requests, Over
<1>3. ReportRoute' /\ RefusedOnly' /\ Ends'
  BY DEF Inv, ReportRoute, RefusedOnly, Ends, graphVars, NeedsInput
<1>4. At'
  BY DEF Inv, At, Over
<1> QED
  BY <1>1, <1>2, <1>3, <1>4 DEF Inv, Kept, Follows

LEMMA Raised ==
  ASSUME Inv, pc \notin Over, pc # "executing", pc' = "raised", UNCHANGED <<stages, request, graphVars, storeVars>>,
         stages.current = None \/ request.route = "respond"
  PROVE  Kept
<1>1. Calm(stages.log, stages.log') /\ stages' \in Controllers /\ ~stages'.refused
  BY CalmReflexive DEF Inv, Types, Controllers, At
<1>2. At'
  BY DEF At, Over
<1> QED
  BY <1>1, <1>2, Onward

LEMMA ResponderRaisesKeeps ==
  ASSUME Inv, ResponderRaises
  PROVE  Kept
BY Raised DEF Inv, At, ResponderRaises, Over

LEMMA CheckpointRaisesKeeps ==
  ASSUME Inv, CheckpointRaises
  PROVE  Kept
<1>1. CASE pc = "answered"
  BY <1>1, StaysOver DEF CheckpointRaises, Over, Inv, Types, storeVars
<1>2. CASE pc # "answered"
  <2>1. stages.current = None /\ pc \notin Over /\ pc # "executing"
    BY <1>2 DEF Inv, At, CheckpointRaises, Between3, Between, Over
  <2> QED
    BY <2>1, Raised DEF CheckpointRaises
<1> QED
  BY <1>1, <1>2

LEMMA HandleExceptionKeeps ==
  ASSUME Inv, HandleException
  PROVE  Kept
<1>1. pc = "raised" /\ pc' = "failing" /\ pc \in Over /\ pc' \in Over
  BY DEF HandleException, Over
<1>2. CASE stages.terminal
  <2>1. stages' = stages
    BY <1>2 DEF HandleException, Fail
  <2> QED
    BY <1>1, <2>1, StaysOver DEF HandleException, Inv, Types, storeVars
<1>3. CASE ~stages.terminal
  <2>1. AsFailed(stages, stages', "understanding")
    BY <1>3, Fails DEF HandleException, Inv, Types, StageNames
  <2>2. /\ stages' \in Controllers /\ Follows(stages.log, stages.log') /\ stages'.terminal
        /\ stages'.refused = stages.refused /\ EndsBy(stages, stages', "run.failed")
        /\ stages'.current = IF stages.current = "understanding" THEN None ELSE stages.current
    BY <2>1 DEF AsFailed
  <2>3. Types' /\ FollowupsBounded' /\ Logs'
    BY <1>1, <2>2, Undisturbed DEF HandleException, Inv, Types, Requests, storeVars
  <2>4. ReportRoute' /\ RefusedOnly'
    BY <2>2 DEF Inv, ReportRoute, RefusedOnly, HandleException, graphVars, NeedsInput
  <2>5. Ends'
    BY <1>1, <2>2 DEF Inv, Ends, EndsBy, EndKinds, HandleException, graphVars, Waits
  <2>6. At'
    BY <1>1, <2>2 DEF Inv, At, Over, HandleException
  <2> QED
    BY <2>2, <2>3, <2>4, <2>5, <2>6 DEF Inv, Kept, Follows
<1> QED
  BY <1>2, <1>3

LEMMA RecordsKeep ==
  ASSUME Inv,
         \/ \E stored \in BOOLEAN : StoreAnswer(stored)
         \/ FinishRow \/ FinishRowRaises \/ SetRecord \/ FailRow \/ FailRowRaises
  PROVE  Kept
<1>1. Outcome \in Ends4
  BY DEF Outcome, Ends4
<1>2. /\ pc \in Over /\ pc' \in Over /\ UNCHANGED <<stages, request, graphVars>>
  BY DEF StoreAnswer, FinishRow, FinishRowRaises, SetRecord, FailRow, FailRowRaises, Over
<1>3. record' \in Ends4 /\ row' \in Ends4
  BY <1>1 DEF StoreAnswer, FinishRow, FinishRowRaises, SetRecord, FailRow, FailRowRaises, Inv, Types, Ends4, storeVars
<1> QED
  BY <1>2, <1>3, StaysOver

-----------------------------------------------------------------------------
(***************************************************************************)
(* A round of specialists.                                                  *)
(***************************************************************************)
LEMMA UnitStarts ==
  ASSUME NEW log \in Seq(Events), NEW e \in Events, e.event = "unit.started",
         NEW going, NEW free, e.of \in free, e.of \notin going, UnitLog(log, going, free)
  PROVE  UnitLog(Append(log, e), going \cup {e.of}, free \ {e.of})
<1> DEFINE new == Append(log, e)
           n == Len(log) + 1
           more == going \cup {e.of}
<1>1. /\ DOMAIN log = 1 .. Len(log) /\ DOMAIN new = 1 .. n /\ Len(log) \in Nat
      /\ \A i \in DOMAIN log : new[i] = log[i]
      /\ new[n] = e
  BY Appended
<1> HIDE DEF new
<1>2. /\ \A i \in DOMAIN new : i \in DOMAIN log \/ i = n
      /\ \A i \in DOMAIN log : i \in DOMAIN new /\ i < n /\ i \in Nat
  BY <1>1
<1>3. \A i \in DOMAIN new : new[i].event \in {"unit.ended", "stage.completed"} => i \in DOMAIN log
  BY <1>1, <1>2
<1>4. \A i \in DOMAIN log : log[i].event \in {"unit.started", "unit.ended"} => log[i].of # e.of
  BY DEF UnitLog
<1>5. \A i \in DOMAIN new : new[i].event \in {"unit.started", "unit.ended"} => new[i].of \notin free \ {e.of}
  BY <1>1, <1>2 DEF UnitLog
<1>6. \A i \in DOMAIN new : new[i].event = "unit.ended" => new[i].of \notin more
  BY <1>1, <1>3, <1>4 DEF UnitLog
<1>7. \A i, j \in DOMAIN new :
        Is(new, i, "unit.ended") /\ Is(new, j, "unit.ended") /\ new[i].of = new[j].of => i = j
  BY <1>1, <1>3 DEF UnitLog, Is
<1>8. ASSUME NEW i \in DOMAIN new, new[i].event = "unit.started", new[i].of \in more,
             NEW j \in DOMAIN new, Is(new, j, "stage.completed"), new[j].stage = new[i].stage
      PROVE  j < i
  <2>1. j \in DOMAIN log
    BY <1>3, <1>8 DEF Is
  <2>2. CASE i = n
    BY <1>2, <2>1, <2>2
  <2>3. CASE i \in DOMAIN log
    <3>1. log[i].of \in going
      BY <1>1, <1>4, <1>8, <2>3
    <3> QED
      BY <1>1, <1>8, <2>1, <2>3, <3>1 DEF UnitLog, Is
  <2> QED
    BY <1>2, <2>2, <2>3
<1>9. ASSUME NEW i \in DOMAIN new, new[i].event = "unit.started", new[i].of \notin more
      PROVE  \E k \in DOMAIN new :
               /\ i < k /\ Is(new, k, "unit.ended") /\ new[k].of = new[i].of
               /\ \A j \in DOMAIN new :
                    i < j /\ Is(new, j, "stage.completed") /\ new[j].stage = new[i].stage => k < j
  <2>1. i \in DOMAIN log /\ log[i].event = "unit.started" /\ log[i].of \notin going
    BY <1>1, <1>2, <1>9
  <2>2. PICK k \in DOMAIN log :
          /\ i < k /\ Is(log, k, "unit.ended") /\ log[k].of = log[i].of
          /\ \A j \in DOMAIN log :
               i < j /\ Is(log, j, "stage.completed") /\ log[j].stage = log[i].stage => k < j
    BY <2>1 DEF UnitLog
  <2>3. k \in DOMAIN new /\ Is(new, k, "unit.ended") /\ new[k].of = new[i].of
    BY <1>1, <1>2, <2>1, <2>2 DEF Is
  <2>4. ASSUME NEW j \in DOMAIN new, i < j, Is(new, j, "stage.completed"), new[j].stage = new[i].stage
        PROVE  k < j
    <3>1. j \in DOMAIN log
      BY <1>3, <2>4 DEF Is
    <3> QED
      BY <1>1, <2>1, <2>2, <2>4, <3>1 DEF Is
  <2> QED
    BY <2>2, <2>3, <2>4
<1> QED
  BY <1>5, <1>6, <1>7, <1>8, <1>9 DEF UnitLog, new

LEMMA UnitEnds ==
  ASSUME NEW log \in Seq(Events), NEW e \in Events, e.event = "unit.ended",
         NEW going, NEW free, e.of \notin free, e.of \in going, UnitLog(log, going, free)
  PROVE  UnitLog(Append(log, e), going \ {e.of}, free)
<1> DEFINE new == Append(log, e)
           n == Len(log) + 1
           less == going \ {e.of}
<1>1. /\ DOMAIN log = 1 .. Len(log) /\ DOMAIN new = 1 .. n /\ Len(log) \in Nat
      /\ \A i \in DOMAIN log : new[i] = log[i]
      /\ new[n] = e
  BY Appended
<1> HIDE DEF new
<1>2. /\ \A i \in DOMAIN new : i \in DOMAIN log \/ i = n
      /\ \A i \in DOMAIN log : i \in DOMAIN new /\ i < n /\ i \in Nat
      /\ n \in DOMAIN new
  BY <1>1
<1>3. \A i \in DOMAIN new : new[i].event \in {"unit.started", "stage.completed"} => i \in DOMAIN log
  BY <1>1, <1>2
<1>4. \A i \in DOMAIN log : log[i].event = "unit.ended" => log[i].of # e.of
  BY DEF UnitLog
<1>5. \A i \in DOMAIN new : new[i].event \in {"unit.started", "unit.ended"} => new[i].of \notin free
  BY <1>1, <1>2 DEF UnitLog
<1>6. \A i \in DOMAIN new : new[i].event = "unit.ended" => new[i].of \notin less
  BY <1>1, <1>2 DEF UnitLog
<1>7. \A i, j \in DOMAIN new :
        Is(new, i, "unit.ended") /\ Is(new, j, "unit.ended") /\ new[i].of = new[j].of => i = j
  BY <1>1, <1>2, <1>4 DEF UnitLog, Is
<1>8. ASSUME NEW i \in DOMAIN new, new[i].event = "unit.started", new[i].of \in less,
             NEW j \in DOMAIN new, Is(new, j, "stage.completed"), new[j].stage = new[i].stage
      PROVE  j < i
  <2>1. j \in DOMAIN log /\ i \in DOMAIN log
    BY <1>3, <1>8 DEF Is
  <2> QED
    BY <1>1, <1>8, <2>1 DEF UnitLog, Is
<1>9. ASSUME NEW i \in DOMAIN new, new[i].event = "unit.started", new[i].of \notin less
      PROVE  \E k \in DOMAIN new :
               /\ i < k /\ Is(new, k, "unit.ended") /\ new[k].of = new[i].of
               /\ \A j \in DOMAIN new :
                    i < j /\ Is(new, j, "stage.completed") /\ new[j].stage = new[i].stage => k < j
  <2>1. i \in DOMAIN log /\ log[i].event = "unit.started"
    BY <1>1, <1>3, <1>9
  <2>2. CASE log[i].of \notin going
    <3>1. PICK k \in DOMAIN log :
            /\ i < k /\ Is(log, k, "unit.ended") /\ log[k].of = log[i].of
            /\ \A j \in DOMAIN log :
                 i < j /\ Is(log, j, "stage.completed") /\ log[j].stage = log[i].stage => k < j
      BY <2>1, <2>2 DEF UnitLog
    <3>2. k \in DOMAIN new /\ Is(new, k, "unit.ended") /\ new[k].of = new[i].of
      BY <1>1, <1>2, <2>1, <3>1 DEF Is
    <3>3. ASSUME NEW j \in DOMAIN new, i < j, Is(new, j, "stage.completed"), new[j].stage = new[i].stage
          PROVE  k < j
      <4>1. j \in DOMAIN log
        BY <1>3, <3>3 DEF Is
      <4> QED
        BY <1>1, <2>1, <3>1, <3>3, <4>1 DEF Is
    <3> QED
      BY <3>1, <3>2, <3>3
  <2>3. CASE log[i].of \in going
    <3>1. log[i].of = e.of
      BY <1>1, <1>9, <2>1, <2>3
    <3>2. i < n /\ Is(new, n, "unit.ended") /\ new[n].of = new[i].of
      BY <1>1, <1>2, <2>1, <3>1 DEF Is
    <3>3. ASSUME NEW j \in DOMAIN new, i < j, Is(new, j, "stage.completed"), new[j].stage = new[i].stage
          PROVE  FALSE
      <4>1. j \in DOMAIN log
        BY <1>3, <3>3 DEF Is
      <4>2. j < i
        BY <1>1, <2>1, <2>3, <3>3, <4>1 DEF UnitLog, Is
      <4> QED
        BY <1>2, <2>1, <3>3, <4>1, <4>2
    <3> QED
      BY <1>2, <3>2, <3>3
  <2> QED
    BY <2>2, <2>3
<1> QED
  BY <1>5, <1>6, <1>7, <1>8, <1>9 DEF UnitLog, new

\* The controller after an event of specialist a.
AsUnit(c, d, stage, kind, a) ==
  /\ d \in Controllers /\ Open(d, stage)
  /\ \A n \in Nat : SectionLog(c.log, n) => SectionLog(d.log, n)
  /\ \A k \in EndKinds : Has(d.log, k) <=> Has(c.log, k)
  /\ Prefix(c.log, d.log)
  /\ Event(kind, stage, a) \in Events
  /\ d.log = Append(c.log, Event(kind, stage, a))

LEMMA SaysUnit ==
  ASSUME NEW c \in Controllers, NEW stage \in StageNames, Open(c, stage),
         NEW kind \in {"unit.started", "unit.ended"}, NEW a \in Agents
  PROVE  AsUnit(c, Progress(c, stage, kind, a), stage, kind, a)
<1> DEFINE e == Event(kind, stage, a)
           d == Progress(c, stage, kind, a)
<1>1. e \in Events /\ e.event = kind /\ c.log \in Seq(Events)
  BY DEF Event, Events, Controllers
<1>2. d = [c EXCEPT !.log = Append(c.log, e)]
  BY DEF Progress, Open, Emitted
<1> HIDE DEF e, d
<1>3. Append(c.log, e) \in Seq(Events)
  BY <1>1
<1>4. d \in Controllers /\ d.log = Append(c.log, e) /\ Open(d, stage)
  BY <1>2, <1>3 DEF Controllers, Open
<1>5. \A n \in Nat : SectionLog(c.log, n) => SectionLog(Append(c.log, e), n)
  BY <1>1, PlainSections
<1>6. \A k \in EndKinds : Has(Append(c.log, e), k) <=> Has(c.log, k)
  BY <1>1, Appended DEF EndKinds
<1>7. Prefix(c.log, Append(c.log, e))
  BY <1>1, Appended
<1> QED
  BY <1>1, <1>4, <1>5, <1>6, <1>7 DEF AsUnit, d, e

LEMMA RoundStageIsStage == RoundStage \in StageNames
BY DEF RoundStage, StageNames

LEMMA ExecuteStartKeeps ==
  ASSUME Inv, ExecuteStart
  PROVE  Kept
<1>1. /\ stages \in Controllers /\ pc = "execute_specialists" /\ round < request.maxRounds /\ NeedsInput = {}
      /\ round \in Nat /\ request.maxRounds \in 1 .. MaxRounds
      /\ (round = 0 /\ Between(stages, {"planning"})) \/ Between3
  BY DEF Inv, Types, At, ExecuteStart
<1>2. Between(stages, {"planning", "analysis", "verification", "data_processing"})
  BY <1>1 DEF Between3, Between
<1>3. AsStarted(stages, stages', RoundStage)
  BY <1>1, <1>2, Starts, RoundStageIsStage DEF ExecuteStart, Go, StageNames
<1>4. stages' \in Controllers /\ Calm(stages.log, stages.log')
  BY <1>3 DEF AsStarted
<1>5. pc' \in {"raised", "executing"} /\ (pc' = "raised" <=> stages'.refused)
  BY DEF ExecuteStart, Go
<1>6. unit' \in [Agents -> {"idle", "running", "done"}] /\ \A a \in Agents : unit'[a] = "idle"
  BY DEF ExecuteStart
<1>7. Types'
  BY <1>4, <1>6 DEF Inv, Types, ExecuteStart, storeVars
<1>8. FollowupsBounded'
  BY DEF Inv, FollowupsBounded, EachAgentOnce, BoundedRounds, ExecuteStart
<1>9. Going = {} /\ Going' = {} /\ Free' = Free
  BY <1>1, <1>6 DEF Going, Free, ExecuteStart
<1>10. report.written \in Nat
  <2>1. report.written \in 0 .. Sections
    BY DEF Inv, Types
  <2> QED
    BY <2>1, LimitsAssumption
<1>11. UnitLog(stages.log', {}, Free) /\ SectionLog(stages.log', report.written)
  BY <1>4, <1>9, <1>10 DEF Inv, Logs, Calm, Follows
<1>12. Logs'
  BY <1>9, <1>11 DEF Logs, ExecuteStart
<1>13. Ends'
  BY <1>1, <1>4, NoEnd DEF Over
<1>14. ReportRoute' /\ NeedsInput' = {} /\ UNCHANGED <<request, round, tasks>>
  BY <1>1 DEF Inv, ReportRoute, ExecuteStart, NeedsInput
<1>15. CASE RoundStage \in AllowedTransitions[stages.previous]
  <2>1. Open(stages', RoundStage)
    BY <1>3, <1>15 DEF AsStarted
  <2>2. Open(stages', RoundStage')
    BY <1>14, <2>1 DEF RoundStage
  <2>3. At' /\ RefusedOnly'
    BY <1>1, <1>5, <1>6, <1>14, <2>2 DEF At, Over, Open, RefusedOnly
  <2> QED
    BY <1>4, <1>7, <1>8, <1>12, <1>13, <1>14, <2>3 DEF Inv, Kept, Calm, Follows
<1>16. CASE RoundStage \notin AllowedTransitions[stages.previous]
  <2>1. AsRefused(stages, stages')
    BY <1>3, <1>16 DEF AsStarted
  <2>2. pc' = "raised" /\ stages'.current = None
    BY <1>2, <1>5, <2>1 DEF AsRefused, Between
  <2>3. At'
    BY <2>2 DEF At, Over
  <2>4. Between3 /\ stages.previous = "verification"
    BY <1>1, <1>16, Allowed DEF Between3, Between, RoundStage
  <2>5. round # 0 /\ round # 1
    BY <1>1, <2>4 DEF Between3
  <2>6. MaxRounds > 2
    BY <1>1, <2>5, LimitsAssumption
  <2> QED
    BY <1>4, <1>7, <1>8, <1>12, <1>13, <1>14, <2>3, <2>6 DEF Inv, RefusedOnly, Kept, Calm, Follows
<1> QED
  BY <1>15, <1>16

\* What a specialist's event leaves of the invariant, given what it does to the
\* specialists.
LEMMA UnitStep ==
  ASSUME Inv, pc = "executing", pc' = "executing", NEW a \in Agents, NEW kind \in {"unit.started", "unit.ended"},
         stages' = Progress(stages, RoundStage, kind, a),
         UNCHANGED <<request, tasks, round, called, modules, report, storeVars>>,
         unit' \in [Agents -> {"idle", "running", "done"}],
         \A b \in Agents : unit'[b] # "idle" => b \in tasks,
         results' \subseteq [agent : Agents, status : Statuses, wants : SUBSET Agents, round : Nat],
         \A r \in NeedsInput' : r.round = round,
         UnitLog(Append(stages.log, Event(kind, RoundStage, a)), Going', Free')
  PROVE  Kept
<1>1. stages \in Controllers /\ Open(stages, RoundStage) /\ round < request.maxRounds
  BY DEF Inv, Types, At
<1>2. AsUnit(stages, stages', RoundStage, kind, a)
  BY <1>1, SaysUnit, RoundStageIsStage
<1>3. stages' \in Controllers /\ Open(stages', RoundStage) /\ RoundStage' = RoundStage
  BY <1>2 DEF AsUnit, RoundStage
<1>4. Types'
  BY <1>3 DEF Inv, Types, storeVars
<1>5. FollowupsBounded' /\ ReportRoute'
  BY DEF Inv, FollowupsBounded, EachAgentOnce, BoundedRounds, ReportRoute
<1>6. report.written \in Nat
  <2>1. report.written \in 0 .. Sections
    BY DEF Inv, Types
  <2> QED
    BY <2>1, LimitsAssumption
<1>7. Logs'
  BY <1>2, <1>6 DEF Inv, Logs, AsUnit
<1>8. \A k \in EndKinds : ~Has(stages.log, k)
  BY DEF Inv, Ends, At, EndKinds, Over
<1>9. Ends'
  BY <1>2, <1>8 DEF Ends, EndKinds, AsUnit
<1>10. At' /\ RefusedOnly'
  BY <1>1, <1>3 DEF At, Over, RefusedOnly, Open
<1> QED
  BY <1>2, <1>4, <1>5, <1>7, <1>9, <1>10 DEF Inv, Kept, AsUnit

LEMMA UnitStartKeeps ==
  ASSUME Inv, NEW a \in Agents, UnitStart(a)
  PROVE  Kept
<1> DEFINE e == Event("unit.started", RoundStage, a)
<1>1. /\ stages \in Controllers /\ pc = "executing" /\ pc' = "executing" /\ a \in tasks /\ unit[a] = "idle"
      /\ unit \in [Agents -> {"idle", "running", "done"}] /\ \A b \in Agents : unit[b] # "idle" => b \in tasks
      /\ unit' = [unit EXCEPT ![a] = "running"]
  BY DEF Inv, Types, At, UnitStart
<1>2. /\ unit' \in [Agents -> {"idle", "running", "done"}] /\ unit'[a] = "running"
      /\ \A b \in Agents : b # a => unit'[b] = unit[b]
  BY <1>1
<1>3. called[a] = 0
  BY <1>1 DEF Inv, Types, FollowupsBounded, EachAgentOnce
<1>4. /\ a \in Free /\ a \notin Going
      /\ Going' = Going \cup {a} /\ Free' = Free \ {a}
  BY <1>1, <1>2, <1>3 DEF Going, Free, UnitStart
<1>5. e \in Events /\ e.event = "unit.started" /\ e.of = a /\ stages.log \in Seq(Events)
  BY <1>1, RoundStageIsStage DEF Event, Events, Controllers
<1> HIDE DEF e
<1>6. UnitLog(Append(stages.log, e), Going', Free')
  BY <1>4, <1>5, UnitStarts DEF Inv, Logs
<1>7. results' \subseteq [agent : Agents, status : Statuses, wants : SUBSET Agents, round : Nat]
      /\ \A r \in NeedsInput' : r.round = round
  BY <1>1 DEF Inv, Types, At, UnitStart, NeedsInput
<1>8. \A b \in Agents : unit'[b] # "idle" => b \in tasks
  BY <1>1, <1>2
<1> QED
  BY <1>1, <1>2, <1>6, <1>7, <1>8, UnitStep DEF UnitStart, e

\* A specialist that works ends, with a result or without.
LEMMA UnitEndsKeeps ==
  ASSUME Inv, pc = "executing", pc' = "executing", NEW a \in Agents, unit[a] = "running",
         unit' = [unit EXCEPT ![a] = "done"], stages' = Progress(stages, RoundStage, "unit.ended", a),
         UNCHANGED <<request, tasks, round, called, modules, report, storeVars>>,
         results' \subseteq [agent : Agents, status : Statuses, wants : SUBSET Agents, round : Nat],
         \A r \in NeedsInput' : r.round = round
  PROVE  Kept
<1> DEFINE e == Event("unit.ended", RoundStage, a)
<1>1. /\ stages \in Controllers
      /\ unit \in [Agents -> {"idle", "running", "done"}] /\ \A b \in Agents : unit[b] # "idle" => b \in tasks
  BY DEF Inv, Types, At
<1>2. /\ unit' \in [Agents -> {"idle", "running", "done"}] /\ unit'[a] = "done"
      /\ \A b \in Agents : b # a => unit'[b] = unit[b]
  BY <1>1
<1>3. /\ a \notin Free /\ a \in Going
      /\ Going' = Going \ {a} /\ Free' = Free
  BY <1>1, <1>2 DEF Going, Free
<1>4. e \in Events /\ e.event = "unit.ended" /\ e.of = a /\ stages.log \in Seq(Events)
  BY <1>1, RoundStageIsStage DEF Event, Events, Controllers
<1> HIDE DEF e
<1>5. UnitLog(Append(stages.log, e), Going', Free')
  BY <1>3, <1>4, UnitEnds DEF Inv, Logs
<1>6. \A b \in Agents : unit'[b] # "idle" => b \in tasks
  BY <1>1, <1>2
<1> QED
  BY <1>2, <1>5, <1>6, UnitStep DEF e

LEMMA UnitReturnsKeeps ==
  ASSUME Inv, NEW a \in Agents, NEW status \in Statuses, NEW wants \in {{}} \cup {{b} : b \in Agents},
         UnitReturns(a, status, wants)
  PROVE  Kept
<1> DEFINE r == [agent |-> a, status |-> status, wants |-> wants, round |-> round]
<1>1. pc = "executing" /\ pc' = "executing" /\ results' = results \cup {r} /\ round \in Nat
  BY DEF Inv, Types, UnitReturns
<1>2. r \in [agent : Agents, status : Statuses, wants : SUBSET Agents, round : Nat] /\ r.round = round
  BY <1>1
<1> HIDE DEF r
<1>3. results' \subseteq [agent : Agents, status : Statuses, wants : SUBSET Agents, round : Nat]
  BY <1>1, <1>2 DEF Inv, Types
<1>4. \A x \in NeedsInput' : x.round = round
  BY <1>1, <1>2 DEF NeedsInput, Inv, At
<1> QED
  BY <1>1, <1>3, <1>4, UnitEndsKeeps DEF UnitReturns

LEMMA UnitRaisesKeeps ==
  ASSUME Inv, NEW a \in Agents, UnitRaises(a)
  PROVE  Kept
<1>1. /\ pc = "executing" /\ pc' = "executing"
      /\ results' \subseteq [agent : Agents, status : Statuses, wants : SUBSET Agents, round : Nat]
      /\ \A r \in NeedsInput' : r.round = round
  BY DEF Inv, Types, At, UnitRaises, NeedsInput
<1> QED
  BY <1>1, UnitEndsKeeps DEF UnitRaises

LEMMA ExecuteDoneKeeps ==
  ASSUME Inv, ExecuteDone
  PROVE  Kept
<1>1. /\ stages \in Controllers /\ pc = "executing" /\ Open(stages, RoundStage) /\ round < request.maxRounds
      /\ round \in Nat /\ tasks \subseteq Agents /\ called \in [Agents -> Nat]
      /\ unit \in [Agents -> {"idle", "running", "done"}] /\ \A a \in Agents : unit[a] # "idle" => a \in tasks
      /\ \A a \in tasks : unit[a] = "done"
      /\ \A r \in NeedsInput : r.round = round
      /\ request.maxRounds \in Nat
  BY LimitsAssumption DEF Inv, Types, At, ExecuteDone, Joined
<1>2. AsCompleted(stages, stages', RoundStage)
  BY <1>1, Completes, RoundStageIsStage DEF ExecuteDone, Go
<1>3. stages' \in Controllers /\ Calm(stages.log, stages.log') /\ Between(stages', {RoundStage})
  BY <1>2 DEF AsCompleted
<1>4. pc' = IF NeedsInput # {} THEN "specialist_waiting_input" ELSE "process_competitor_data"
  BY <1>3 DEF ExecuteDone, Go, Between, NeedsInput
<1>5. /\ called' \in [Agents -> Nat]
      /\ \A a \in Agents : called'[a] = called[a] + IF a \in tasks THEN 1 ELSE 0
      /\ tasks' = {} /\ round' = round + 1
  BY <1>1 DEF ExecuteDone
<1>6. Types'
  BY <1>1, <1>3, <1>5 DEF Inv, Types, ExecuteDone, storeVars
<1>7. FollowupsBounded'
  <2>1. \A a \in Agents : called[a] + (IF a \in tasks THEN 1 ELSE 0) <= 1
    BY DEF Inv, FollowupsBounded, EachAgentOnce
  <2>2. EachAgentOnce'
    BY <1>5, <2>1 DEF EachAgentOnce
  <2>3. BoundedRounds'
    BY <1>1, <1>5 DEF BoundedRounds, ExecuteDone
  <2> QED
    BY <2>2, <2>3 DEF FollowupsBounded
<1>8. Going = {} /\ Going' = {}
  BY <1>1, <1>4 DEF Going
<1>9. \A a \in Agents : a \in Free <=> a \in Free'
  <2> TAKE a \in Agents
  <2>1. CASE a \in tasks
    BY <1>1, <1>4, <1>5, <2>1 DEF Free
  <2>2. CASE a \notin tasks
    BY <1>1, <1>4, <1>5, <2>2 DEF Free
  <2> QED
    BY <2>1, <2>2
<1>10. Free' = Free
  BY <1>9 DEF Free
<1>11. report.written \in Nat
  <2>1. report.written \in 0 .. Sections
    BY DEF Inv, Types
  <2> QED
    BY <2>1, LimitsAssumption
<1>12. UnitLog(stages.log', {}, Free) /\ SectionLog(stages.log', report.written)
  BY <1>3, <1>8, <1>11 DEF Inv, Logs, Calm, Follows
<1>13. Logs'
  BY <1>8, <1>10, <1>12 DEF Logs, ExecuteDone
<1>14. Ends'
  BY <1>1, <1>3, NoEnd DEF Over
<1>15. ReportRoute' /\ RefusedOnly' /\ NeedsInput' = NeedsInput
  BY <1>3 DEF Inv, ReportRoute, RefusedOnly, ExecuteDone, NeedsInput, Between
<1>16. Between(stages', {IF round' = 1 THEN "analysis" ELSE "verification"}) /\ round' > 0
  BY <1>1, <1>3, <1>5 DEF RoundStage
<1>17. \A r \in NeedsInput : r.round + 1 = round'
  BY <1>1, <1>5
<1>18. At'
  BY <1>4, <1>15, <1>16, <1>17 DEF At, Over, Between
<1> QED
  BY <1>3, <1>6, <1>7, <1>13, <1>14, <1>15, <1>18 DEF Inv, Kept, Calm, Follows

-----------------------------------------------------------------------------
(***************************************************************************)
(* The theorems.                                                            *)
(***************************************************************************)
LEMMA InitInv == Init => Inv
<1> SUFFICES ASSUME Init
             PROVE  Inv
  OBVIOUS
<1>1. stages.log = <<>> /\ stages \in Controllers
  <2>1. <<>> \in Seq(Events)
    OBVIOUS
  <2>2. stages = [started |-> FALSE, current |-> None, previous |-> None, terminal |-> FALSE,
                  refused |-> FALSE, log |-> <<>>]
    BY DEF Init
  <2>3. stages.log = <<>>
    BY <2>2
  <2>4. \A log \in Seq(Events) :
          [started |-> FALSE, current |-> None, previous |-> None, terminal |-> FALSE,
           refused |-> FALSE, log |-> log] \in Controllers
    BY NoneIsPlace DEF Controllers
  <2>5. stages \in Controllers
    BY <2>1, <2>2, <2>4
  <2> QED
    BY <2>3, <2>5
<1>2. Types
  <2>1. request \in [route : Routes \cup {None}, asked : BOOLEAN, history : BOOLEAN, report : BOOLEAN,
                     maxRounds : 1 .. MaxRounds]
    BY LimitsAssumption DEF Init
  <2>2. /\ tasks \subseteq Agents /\ unit \in [Agents -> {"idle", "running", "done"}]
        /\ round \in Nat /\ called \in [Agents -> Nat]
    BY DEF Init
  <2>3. /\ results \subseteq [agent : Agents, status : Statuses, wants : SUBSET Agents, round : Nat]
        /\ modules \in BOOLEAN
    BY DEF Init
  <2>4. report \in [written : 0 .. Sections, attempt : 1 .. Attempts]
    BY LimitsAssumption DEF Init
  <2>5. record \in Ends4 /\ row \in Ends4
    BY DEF Init, Ends4
  <2> QED
    BY <1>1, <2>1, <2>2, <2>3, <2>4, <2>5 DEF Types
<1>3. At
  BY DEF Init, At, Over
<1>4. ReportRoute /\ RefusedOnly
  BY DEF Init, ReportRoute, RefusedOnly
<1>5. FollowupsBounded
  BY DEF Init, FollowupsBounded, EachAgentOnce, BoundedRounds
<1>6. DOMAIN stages.log = {}
  BY <1>1
<1>7. Logs
  BY <1>6 DEF Logs, UnitLog, SectionLog, Init
<1>8. Ends
  BY <1>6 DEF Ends, Has
<1> QED
  BY <1>2, <1>3, <1>4, <1>5, <1>7, <1>8 DEF Inv

LEMMA NextKeeps ==
  ASSUME Inv, Next
  PROVE  Kept
<1>1. CASE Understand
  BY <1>1, UnderstandStartKeeps, InterpretedKeeps, RaisesKeep DEF Understand
<1>2. CASE Respond
  BY <1>2, AskUserKeeps, ExplainUnsupportedKeeps, RespondStartKeeps, RespondedKeeps, ResponderRaisesKeeps
  DEF Respond
<1>3. CASE Plan
  BY <1>3, PlanStartKeeps, PlannedKeeps, RaisesKeep DEF Plan
<1>4. CASE Specialists
  <2>1. CASE ExecuteStart
    BY <2>1, ExecuteStartKeeps
  <2>2. ASSUME NEW a \in Agents, UnitStart(a)
        PROVE  Kept
    BY <2>2, UnitStartKeeps
  <2>3. ASSUME NEW a \in Agents, UnitRaises(a)
        PROVE  Kept
    BY <2>3, UnitRaisesKeeps
  <2>4. ASSUME NEW a \in Agents, NEW status \in Statuses, NEW wants \in {{}} \cup {{b} : b \in Agents},
               UnitReturns(a, status, wants)
        PROVE  Kept
    BY <2>4, UnitReturnsKeeps
  <2>5. CASE ExecuteDone
    BY <2>5, ExecuteDoneKeeps
  <2> QED
    BY <1>4, <2>1, <2>2, <2>3, <2>4, <2>5 DEF Specialists
<1>5. CASE BetweenRounds
  BY <1>5, SkipProcessingKeeps, ProcessStartKeeps, ProcessedKeeps, PrepareFollowupsKeeps,
     SpecialistWaitingInputKeeps DEF BetweenRounds
<1>6. CASE Synthesize
  BY <1>6, AggregateStartKeeps, AggregatedKeeps, RaisesKeep, ReportStartKeeps, SectionFailsKeeps,
     SectionShownKeeps, ReportEndsKeeps DEF Synthesize
<1>7. CASE Execute
  BY <1>7, CheckpointRaisesKeeps, RecordsKeep, HandleExceptionKeeps DEF Execute
<1> QED
  BY <1>1, <1>2, <1>3, <1>4, <1>5, <1>6, <1>7 DEF Next

LEMMA StutterKeeps ==
  ASSUME Inv, UNCHANGED vars
  PROVE  Inv'
BY DEF Inv, vars, graphVars, storeVars, Types, At, ReportRoute, RefusedOnly, FollowupsBounded, EachAgentOnce,
       BoundedRounds, Logs, Ends, Going, Free, NeedsInput, Between3, RoundStage

\* The invariant of a run: what its controller, its log and its rounds say of
\* each other at every node of the graph.
THEOREM Invariant == Spec => []Inv
<1>1. Inv /\ [Next]_vars => Inv'
  BY NextKeeps, StutterKeeps DEF Kept
<1> QED
  BY InitInv, <1>1, PTL DEF Spec

LEMMA TypesSettled ==
  ASSUME Inv
  PROVE  TypeOK
<1>1. \A i \in DOMAIN stages.log : stages.log[i].stage \in StageNames \cup {None}
  <2>1. stages.log \in Seq(Events)
    BY DEF Inv, Types, Controllers
  <2>2. \A i \in DOMAIN stages.log : stages.log[i] \in Events
    BY <2>1
  <2> QED
    BY <2>2 DEF Events
<1>2. /\ stages.current \in StageNames \cup {None} /\ stages.previous \in StageNames \cup {None}
      /\ {stages.started, stages.terminal, stages.refused} \subseteq BOOLEAN
  BY DEF Inv, Types, Controllers, Places
<1> QED
  BY <1>1, <1>2 DEF Inv, Types, TypeOK, Ends4

LEMMA UnitsOnce ==
  ASSUME Inv
  PROVE  UnitsSettled
<1> DEFINE log == stages.log
<1> SUFFICES ASSUME NEW i \in DOMAIN log, NEW j \in DOMAIN log, i < j, log[i].event = "unit.started",
                    log[j].event = "stage.completed", log[j].stage = log[i].stage
             PROVE  Cardinality({k \in i .. j : log[k].event = "unit.ended" /\ log[k].of = log[i].of}) = 1
  BY DEF UnitsSettled
<1> DEFINE of == {k \in i .. j : log[k].event = "unit.ended" /\ log[k].of = log[i].of}
<1>1. log \in Seq(Events) /\ UnitLog(log, Going, Free)
  BY DEF Inv, Types, Controllers, Logs
<1>2. DOMAIN log = 1 .. Len(log) /\ Len(log) \in Nat
  BY <1>1
<1> HIDE DEF log
<1>3. log[i].of \notin Going
  BY <1>1, <1>2 DEF UnitLog, Is
<1>4. PICK k \in DOMAIN log :
        i < k /\ Is(log, k, "unit.ended") /\ log[k].of = log[i].of /\ k < j
  BY <1>1, <1>3 DEF UnitLog, Is
<1>5. k \in of
  BY <1>2, <1>4 DEF Is
<1>6. ASSUME NEW l \in of
      PROVE  l = k
  <2>1. l \in DOMAIN log /\ Is(log, l, "unit.ended") /\ log[l].of = log[k].of
    BY <1>2, <1>4 DEF Is
  <2> QED
    BY <1>1, <1>4, <2>1 DEF UnitLog
<1>7. of = {k}
  BY <1>5, <1>6
<1> HIDE DEF of
<1>8. Cardinality(of) = 1
  BY <1>7, FS_Singleton
<1> QED
  BY <1>8 DEF of, log

\* Every card of a specialist is settled before its stage is, and a stream that
\* is over leaves no stage open but that of a responder that raised (events.py,
\* graph.py execute_specialists).
THEOREM Settled == Spec => []StagesSettled
<1>1. Inv => FailedStageClosed
  BY DEF Inv, At, Ends, FailedStageClosed, Ended, Has
<1>2. Inv => StagesSettled
  BY <1>1, TypesSettled, UnitsOnce DEF StagesSettled
<1> QED
  BY <1>2, Invariant, PTL

\* No specialist is asked twice, and the rounds stay within the plan's
\* (routing.py select_followup_tasks).
THEOREM RoundsEnd == Spec => []FollowupsBounded
<1>1. Inv => FollowupsBounded
  BY DEF Inv
<1> QED
  BY <1>1, Invariant, PTL

\* A report announced as complete has shown every section, in order (graph.py
\* generate_competitor_report).
THEOREM ReportWhole == Spec => []ReportComplete
<1>1. ASSUME Inv
      PROVE  ReportComplete
  <2> SUFFICES ASSUME request.report, Emits("run.completed")
               PROVE  LET shown == {i \in DOMAIN stages.log : Shown(i)}
                      IN /\ {stages.log[i].of : i \in shown} = 1 .. Sections
                         /\ \A i, j \in shown : i < j => stages.log[i].of < stages.log[j].of
    BY DEF ReportComplete
  <2>1. SectionLog(stages.log, Sections)
    BY <1>1 DEF Inv, Ends, Logs, Emits, Has
  <2> QED
    BY <2>1 DEF SectionLog, Shown
<1> QED
  BY <1>1, Invariant, PTL

\* With the two rounds of the planner, only a specialist's question in the
\* second is refused a stage (events.py ALLOWED_TRANSITIONS, graph.py
\* specialist_waiting_input).
THEOREM TransitionsAllowed == Spec => [](MaxRounds <= 2 => OnlyVerificationRefused)
<1>1. Inv => (MaxRounds <= 2 => OnlyVerificationRefused)
  BY LimitsAssumption DEF Inv, RefusedOnly, NeedsInput, OnlyVerificationRefused
<1> QED
  BY <1>1, Invariant, PTL

\* What a step adds to the log of a run that is over, or that waits.
LEMMA OverAdds ==
  ASSUME Inv, Next, pc \in Over
  PROVE  /\ stages.terminal => stages' = stages
         /\ stages.current \in Waits /\ stages' # stages =>
              stages'.log = Append(stages.log, Event("run.failed", "understanding", None))
<1>1. \/ HandleException
      \/ UNCHANGED stages
  BY DEF Next, Understand, UnderstandStart, Interpreted, InterpreterRaises, Respond, AskUser, ExplainUnsupported,
         RespondStart, Responded, ResponderRaises, Plan, PlanStart, Planned, PlanningRaises, Specialists,
         ExecuteStart, UnitStart, UnitRaises, UnitReturns, ExecuteDone, BetweenRounds, SkipProcessing, ProcessStart,
         Processed, PrepareFollowups, SpecialistWaitingInput, Synthesize, AggregateStart, Aggregated,
         AggregatorRaises, ReportStart, SectionFails, SectionShown, ReportEnds, Execute, CheckpointRaises,
         StoreAnswer, FinishRow, FinishRowRaises, SetRecord, FailRow, FailRowRaises, Over
<1>2. ASSUME HandleException, ~stages.terminal, stages.current \in Waits
      PROVE  stages'.log = Append(stages.log, Event("run.failed", "understanding", None))
  <2>1. stages.current # "understanding"
    BY <1>2 DEF Waits
  <2>2. AsFailed(stages, stages', "understanding")
    BY <1>2, Fails DEF HandleException, Inv, Types, StageNames
  <2> QED
    BY <2>1, <2>2 DEF AsFailed
<1>3. HandleException /\ stages.terminal => stages' = stages
  BY DEF HandleException, Fail
<1> QED
  BY <1>1, <1>2, <1>3

\* The page may close its stream at the first event that ends the run: nothing
\* follows, and behind a stage that waits only the failure of the run (events.py
\* fail and finish, api.py _execute).
THEOREM EndIsLast == Spec => NothingAfterTheEnd
<1> DEFINE Told ==
      /\ \A i \in DOMAIN stages.log : stages.log'[i] = stages.log[i]
      /\ Ended => stages.log' = stages.log
      /\ Emits("stage.waiting") =>
           \A i \in DOMAIN stages.log' \ DOMAIN stages.log : stages.log'[i].event = "run.failed"
<1>1. ASSUME Inv, Next
      PROVE  Told
  <2>1. \A i \in DOMAIN stages.log : stages.log'[i] = stages.log[i]
    BY <1>1, NextKeeps DEF Kept, Prefix
  <2>2. Ended => stages.terminal /\ pc \in Over
    BY <1>1 DEF Inv, Ends, At, Ended, Has
  <2>3. Ended => stages.log' = stages.log
    BY <1>1, <2>2, OverAdds
  <2>4. ASSUME Emits("stage.waiting"), NEW i \in DOMAIN stages.log' \ DOMAIN stages.log
        PROVE  stages.log'[i].event = "run.failed"
    <3> DEFINE e == Event("run.failed", "understanding", None)
    <3>1. pc \in Over /\ stages.current \in Waits
      BY <1>1, <2>4 DEF Inv, Ends, Emits, Has
    <3>2. stages' # stages
      BY <2>4
    <3>3. stages.log' = Append(stages.log, e)
      BY <1>1, <3>1, <3>2, OverAdds
    <3>4. e \in Events /\ e.event = "run.failed" /\ stages.log \in Seq(Events)
      BY <1>1, PlainEvent DEF StageEvents, Places, StageNames, Inv, Types, Controllers
    <3> HIDE DEF e
    <3>5. /\ DOMAIN stages.log = 1 .. Len(stages.log) /\ DOMAIN stages.log' = 1 .. (Len(stages.log) + 1)
          /\ Len(stages.log) \in Nat /\ stages.log'[Len(stages.log) + 1] = e
      BY <3>3, <3>4, Appended
    <3>6. i = Len(stages.log) + 1
      BY <2>4, <3>5
    <3> QED
      BY <3>4, <3>5, <3>6
  <2> QED
    BY <2>1, <2>3, <2>4
<1>2. ASSUME UNCHANGED vars
      PROVE  Told
  BY <1>2 DEF vars
<1>3. Inv /\ [Next]_vars => [Told]_vars
  BY <1>1, <1>2
<1> QED
  BY <1>3, Invariant, PTL DEF Spec, NothingAfterTheEnd
=============================================================================
