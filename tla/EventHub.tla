------------------------------ MODULE EventHub ------------------------------
(***************************************************************************)
(* Live delivery of the events of ONE run: the hub of events.py, the SSE   *)
(* generator of sse.py that drains a subscription, and the browser's       *)
(* EventSource that reconnects with Last-Event-ID (use-run-stream.ts).     *)
(*                                                                         *)
(* An event is its sequence number, its position in `log'.  The bytes a    *)
(* stream has yielded and the browser has not read yet are not a state of  *)
(* their own: a connection that breaks loses them, and that is the same as *)
(* breaking before they were yielded, because the browser's lastId alone   *)
(* decides what the next connection replays.  Heartbeats change no state.  *)
(***************************************************************************)
EXTENDS Naturals, Sequences, FiniteSets

CONSTANTS
  Clients,     \* the browser tabs that follow the run
  QueueSize,   \* subscriber_queue_size of the hub
  MaxSeq,      \* bound: events emitted for the run
  MaxFaults    \* bound: connections lost plus pages reloaded, in total

ASSUME QueueSizeAssumption == QueueSize \in Nat \ {0}
ASSUME BoundsAssumption == MaxSeq \in Nat /\ MaxFaults \in Nat

VARIABLES
  log,          \* _events[run_id]: the kinds of the stored events, in order
  pending,      \* <<client, gen, seq>> an emit has still to hand to the loop
  calls,        \* the event loop's _deliver callbacks, per client, in order
  subscribers,  \* _subscribers[run_id]: <<client, gen>> of the live ones
  gen,          \* number of the client's newest subscription
  live,         \* whether that subscription has a _Subscriber
  replayNext,   \* its _replay deque holds the events from replayNext ...
  replayLast,   \* ... to replayLast
  queue,        \* the asyncio.Queue of the newest subscription
  conn,         \* the browser's connection
  lastId,       \* EventSource's last event id, 0 for none
  seen,         \* the events in the page's state
  evicted,      \* history: events _deliver took out of a full queue
  faults        \* history: connections lost and reloads so far

hubVars    == <<log, pending, calls, subscribers, evicted>>
streamVars == <<gen, live, replayNext, replayLast, queue>>
pageVars   == <<conn, lastId, seen>>
vars == <<hubVars, streamVars, pageVars, faults>>

Kinds == {"progress", "waiting", "terminal"}

\* STREAM_CLOSING_EVENT_TYPES, and the kinds on which the page closes its source.
Closing == {"waiting", "terminal"}

\* The None that tells the reader of a queue that its subscriber was removed.
Sentinel == 0

AlreadyTerminal == \E i \in DOMAIN log : log[i] = "terminal"

Waiting == \E i \in DOMAIN log : log[i] = "waiting"

\* Mutated forms of FirstReplayed: an event too few, Last-Event-ID ignored, and
\* no replay at all.
FirstReplayedSkipsOne(after) == after + 2
FirstReplayedIgnoresId(after) == 1
FirstReplayedNever(after) == Len(log) + 1

\* subscribe replays the stored events with a sequence number above after.
FirstReplayed(after) == after + 1

ReplayLeft(c) == replayNext[c] <= replayLast[c]

-----------------------------------------------------------------------------
(***************************************************************************)
(* The writers.  StageController holds the run's lock around emit, so one  *)
(* emit stores its event and hands it to every subscriber's loop before    *)
(* the next emit of the run begins.                                        *)
(***************************************************************************)

\* The part of emit under the hub's lock.  A run emits nothing after its
\* terminal event (finish and fail set terminal, and no node runs after them),
\* and after stage.waiting, which a last node emits, only a failure of what
\* _execute does next.
Emit(kind) ==
  /\ pending = {}
  /\ ~AlreadyTerminal
  /\ Waiting => kind = "terminal"
  /\ Len(log) < MaxSeq
  /\ log' = Append(log, kind)
  /\ pending' = {<<s[1], s[2], Len(log) + 1>> : s \in subscribers}
  /\ UNCHANGED <<calls, subscribers, evicted, streamVars, pageVars, faults>>

\* call_soon_threadsafe for one of the subscribers emit saw.
Schedule(p) ==
  /\ p \in pending
  /\ pending' = pending \ {p}
  /\ calls' = [calls EXCEPT ![p[1]] = Append(@, <<p[2], p[3]>>)]
  /\ UNCHANGED <<log, subscribers, evicted, streamVars, pageVars, faults>>

-----------------------------------------------------------------------------
(***************************************************************************)
(* The event loop: the _deliver callbacks.                                 *)
(***************************************************************************)

NextCall(c) ==
  /\ calls[c] /= <<>>
  /\ calls' = [calls EXCEPT ![c] = Tail(@)]

\* The subscriber went away after the callback was scheduled.
DeliverToRemoved(c) ==
  /\ NextCall(c)
  /\ <<c, Head(calls[c])[1]>> \notin subscribers
  /\ UNCHANGED <<log, pending, subscribers, evicted, streamVars, pageVars, faults>>

DeliverToQueue(c) ==
  /\ NextCall(c)
  /\ <<c, Head(calls[c])[1]>> \in subscribers
  /\ Len(queue[c]) < QueueSize
  /\ queue' = [queue EXCEPT ![c] = Append(@, Head(calls[c])[2])]
  /\ UNCHANGED <<log, pending, subscribers, evicted, gen, live, replayNext, replayLast, pageVars, faults>>

\* QueueFull: what the reader of the queue finds afterwards.
Overflowed(q) == Append(Tail(q), Sentinel)

\* QueueFull: unsubscribe, make room by taking the oldest event out, and put the
\* sentinel behind the events that stay.
DeliverToFull(c) ==
  /\ NextCall(c)
  /\ <<c, Head(calls[c])[1]>> \in subscribers
  /\ Len(queue[c]) >= QueueSize
  /\ subscribers' = subscribers \ {<<c, Head(calls[c])[1]>>}
  /\ queue' = [queue EXCEPT ![c] = Overflowed(@)]
  /\ evicted' = [evicted EXCEPT ![c] = @ \cup {Head(queue[c])}]
  /\ UNCHANGED <<log, pending, gen, live, replayNext, replayLast, pageVars, faults>>

Deliver(c) == DeliverToRemoved(c) \/ DeliverToQueue(c) \/ DeliverToFull(c)

-----------------------------------------------------------------------------
(***************************************************************************)
(* The SSE generator and the page.                                         *)
(***************************************************************************)

\* EventSource opens, or reopens by itself with Last-Event-ID.  subscribe takes
\* the replay and registers the subscriber in one critical section.
Connect(c) ==
  /\ conn[c] = "idle"
  /\ conn' = [conn EXCEPT ![c] = "open"]
  /\ gen' = [gen EXCEPT ![c] = @ + 1]
  /\ replayNext' = [replayNext EXCEPT ![c] = FirstReplayed(lastId[c])]
  /\ replayLast' = [replayLast EXCEPT ![c] = Len(log)]
  /\ queue' = [queue EXCEPT ![c] = <<>>]
  /\ live' = [live EXCEPT ![c] = ~AlreadyTerminal]
  /\ subscribers' =
       IF AlreadyTerminal THEN subscribers ELSE subscribers \cup {<<c, gen[c] + 1>>}
  /\ UNCHANGED <<log, pending, calls, evicted, lastId, seen, faults>>

\* Mutated form of Closed: the subscriber stays registered.
ClosedStaysRegistered(c) == subscribers

\* The finally of stage_sse_stream: EventSubscription.close.
Closed(c) == subscribers \ {<<c, gen[c]>>}

\* One event reaches the page.  A closing kind ends both the generator and the
\* EventSource; any other kind leaves the connection open.
Receive(c, n) ==
  /\ lastId' = [lastId EXCEPT ![c] = n]
  /\ seen' = [seen EXCEPT ![c] = @ \cup {n}]
  /\ IF log[n] \in Closing
       THEN conn' = [conn EXCEPT ![c] = "done"] /\ subscribers' = Closed(c)
       ELSE UNCHANGED <<conn, subscribers>>
  /\ UNCHANGED <<log, pending, calls, evicted, gen, live, replayLast, faults>>

StreamReplay(c) ==
  /\ conn[c] = "open"
  /\ ReplayLeft(c)
  /\ replayNext' = [replayNext EXCEPT ![c] = @ + 1]
  /\ Receive(c, replayNext[c])
  /\ UNCHANGED queue

StreamLive(c) ==
  /\ conn[c] = "open"
  /\ ~ReplayLeft(c)
  /\ live[c]
  /\ queue[c] /= <<>>
  /\ Head(queue[c]) /= Sentinel
  /\ queue' = [queue EXCEPT ![c] = Tail(@)]
  /\ Receive(c, Head(queue[c]))
  /\ UNCHANGED replayNext

\* next_event returns None: the run was over when the client subscribed, or the
\* sentinel says the subscriber was removed.  The page will reconnect.
StreamEnd(c) ==
  /\ conn[c] = "open"
  /\ ~ReplayLeft(c)
  /\ \/ ~live[c] /\ UNCHANGED queue
     \/ /\ live[c]
        /\ queue[c] /= <<>>
        /\ Head(queue[c]) = Sentinel
        /\ queue' = [queue EXCEPT ![c] = Tail(@)]
  /\ conn' = [conn EXCEPT ![c] = "idle"]
  /\ subscribers' = Closed(c)
  /\ UNCHANGED <<log, pending, calls, evicted, gen, live, replayNext, replayLast, lastId,
                 seen, faults>>

\* The connection breaks; the generator is cancelled and runs its finally.
Disconnect(c) ==
  /\ conn[c] = "open"
  /\ faults < MaxFaults
  /\ faults' = faults + 1
  /\ conn' = [conn EXCEPT ![c] = "idle"]
  /\ subscribers' = Closed(c)
  /\ UNCHANGED <<log, pending, calls, evicted, streamVars, lastId, seen>>

\* The page is opened anew, or the user asks for a restart of the stream: a new
\* EventSource without Last-Event-ID, on an empty state.
Reload(c) ==
  /\ faults < MaxFaults
  /\ faults' = faults + 1
  /\ conn' = [conn EXCEPT ![c] = "idle"]
  /\ lastId' = [lastId EXCEPT ![c] = 0]
  /\ seen' = [seen EXCEPT ![c] = {}]
  /\ subscribers' = Closed(c)
  /\ evicted' = [evicted EXCEPT ![c] = {}]
  /\ UNCHANGED <<log, pending, calls, streamVars>>

Stream(c) == StreamReplay(c) \/ StreamLive(c) \/ StreamEnd(c)

-----------------------------------------------------------------------------

Init ==
  /\ log = <<>>
  /\ pending = {}
  /\ calls = [c \in Clients |-> <<>>]
  /\ subscribers = {}
  /\ gen = [c \in Clients |-> 0]
  /\ live = [c \in Clients |-> FALSE]
  /\ replayNext = [c \in Clients |-> 1]
  /\ replayLast = [c \in Clients |-> 0]
  /\ queue = [c \in Clients |-> <<>>]
  /\ conn = [c \in Clients |-> "idle"]
  /\ lastId = [c \in Clients |-> 0]
  /\ seen = [c \in Clients |-> {}]
  /\ evicted = [c \in Clients |-> {}]
  /\ faults = 0

Next ==
  \/ \E kind \in Kinds : Emit(kind)
  \/ \E p \in pending : Schedule(p)
  \/ \E c \in Clients :
       Deliver(c) \/ Connect(c) \/ Stream(c) \/ Disconnect(c) \/ Reload(c)

Spec == Init /\ [][Next]_vars

(***************************************************************************)
(* The event loop keeps running callbacks and generators, a writer that    *)
(* stored an event goes on to schedule it, and EventSource reopens by      *)
(* itself.  Whether the run emits at all, and whether connections break,   *)
(* is left open.                                                           *)
(***************************************************************************)
Fairness ==
  /\ WF_vars(\E p \in pending : Schedule(p))
  /\ \A c \in Clients : WF_vars(Deliver(c)) /\ WF_vars(Connect(c)) /\ WF_vars(Stream(c))

FairSpec == Spec /\ Fairness

-----------------------------------------------------------------------------
(***************************************************************************)
(* Properties.                                                             *)
(***************************************************************************)

\* Every variable has its type.
TypeOK ==
  /\ log \in Seq(Kinds)
  /\ pending \in SUBSET (Clients \X Nat \X Nat)
  /\ calls \in [Clients -> Seq(Nat \X Nat)]
  /\ subscribers \in SUBSET (Clients \X Nat)
  /\ gen \in [Clients -> Nat]
  /\ live \in [Clients -> BOOLEAN]
  /\ replayNext \in [Clients -> Nat]
  /\ replayLast \in [Clients -> Nat]
  /\ queue \in [Clients -> Seq(Nat)]
  /\ conn \in [Clients -> {"idle", "open", "done"}]
  /\ lastId \in [Clients -> Nat]
  /\ seen \in [Clients -> SUBSET Nat]
  /\ evicted \in [Clients -> SUBSET Nat]
  /\ faults \in Nat

\* Whatever the order of emits, deliveries, lost connections and reconnections
\* (events.py subscribe/_deliver, sse.py), the only events a page can have
\* skipped below its Last-Event-ID are those _deliver took out of a full queue:
\* the switch from replay to live delivery loses nothing and the replay after a
\* lost connection fetches everything that was in flight.
MissingOnlyEvicted ==
  \A c \in Clients : \A i \in 1..lastId[c] : i \in seen[c] \cup evicted[c]

\* The event a page receives is newer than every event it has, until the page is
\* reloaded: the replay does not repeat what was delivered live, and no delivery
\* of an earlier emit overtakes or follows that of a later one.
InOrder ==
  [][\A c \in Clients : faults' = faults => lastId'[c] >= lastId[c]]_vars

\* A stream that is still open on an unfinished run can be woken: either its
\* subscriber is registered, or the sentinel waits in its queue.  Otherwise the
\* connection would send heartbeats forever and the page would never reconnect.
NoHungStream ==
  \A c \in Clients :
    conn[c] = "open" /\ live[c] =>
      <<c, gen[c]>> \in subscribers \/ \E i \in DOMAIN queue[c] : queue[c][i] = Sentinel

\* The hub keeps no subscriber of a stream that has ended: closing, overflow,
\* a lost connection and a reload each remove the one they end.
NoLeakedSubscriber ==
  \A s \in subscribers : s[2] = gen[s[1]] /\ conn[s[1]] = "open" /\ live[s[1]]

\* Once the run is over or waits, every page that follows it learns so, however
\* often its queue overflowed or its connection broke before.
EveryPageLearnsTheEnd ==
  \A c \in Clients : (\E i \in DOMAIN log : log[i] \in Closing) ~> conn[c] = "done"

Feed == INSTANCE EventFeed

\* The hub, its streams and the reconnecting pages together are an ordered feed
\* that every page follows to its end and that leaves out nothing but what
\* overflowed: replay, live delivery and reconnection cannot be told apart.
ImplementsFeed == Feed!FairSpec
=============================================================================
