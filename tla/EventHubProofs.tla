--------------------------- MODULE EventHubProofs ---------------------------
(***************************************************************************)
(* Proofs about EventHub: the types and the subscriptions; the order of    *)
(* the events a page receives, and what it can miss; and that hub, streams *)
(* and pages implement the ordered feed of EventFeed.                      *)
(***************************************************************************)
EXTENDS EventHub, Integers, TLAPS

\* Taking the next callback of a page's loop keeps the type of calls, and the
\* callback names a subscription and an event.
LEMMA NextCallType ==
  ASSUME TypeOK, NEW c \in Clients, NextCall(c)
  PROVE  /\ calls' \in [Clients -> Seq(Nat \X Nat)]
         /\ Head(calls[c]) \in Nat \X Nat
<1>1. calls[c] \in Seq(Nat \X Nat) /\ calls[c] /= <<>>
  BY DEF TypeOK, NextCall
<1>2. Head(calls[c]) \in Nat \X Nat /\ Tail(calls[c]) \in Seq(Nat \X Nat)
  BY <1>1
<1> QED
  BY <1>2 DEF TypeOK, NextCall

\* Showing a page one more event keeps the types of what it changes.
LEMMA ReceiveType ==
  ASSUME TypeOK, NEW c \in Clients, NEW n \in Nat, Receive(c, n)
  PROVE  /\ lastId' \in [Clients -> Nat]
         /\ seen' \in [Clients -> SUBSET Nat]
         /\ conn' \in [Clients -> {"idle", "open", "done"}]
         /\ subscribers' \in SUBSET (Clients \X Nat)
<1>1. lastId' \in [Clients -> Nat] /\ seen' \in [Clients -> SUBSET Nat]
  BY DEF TypeOK, Receive
<1>2. CASE log[n] \in Closing
  BY <1>2 DEF TypeOK, Receive, Closed
<1>3. CASE log[n] \notin Closing
  BY <1>3 DEF TypeOK, Receive
<1> QED
  BY <1>1, <1>2, <1>3

\* Every variable keeps its type, for every set of pages, queue size and bound.
THEOREM TypeCorrect == Spec => []TypeOK
<1>1. Init => TypeOK
  BY DEF Init, TypeOK, Kinds
<1>2. TypeOK /\ [Next]_vars => TypeOK'
  <2> SUFFICES ASSUME TypeOK, [Next]_vars PROVE TypeOK'
    OBVIOUS
  <2>1. ASSUME NEW kind \in Kinds, Emit(kind) PROVE TypeOK'
    <3>1. log' \in Seq(Kinds)
      BY <2>1 DEF TypeOK, Emit
    <3>2. pending' \in SUBSET (Clients \X Nat \X Nat)
      BY <2>1 DEF TypeOK, Emit
    <3> QED
      BY <2>1, <3>1, <3>2 DEF TypeOK, Emit, streamVars, pageVars
  <2>2. ASSUME NEW p \in pending, Schedule(p) PROVE TypeOK'
    <3>1. p[1] \in Clients /\ <<p[2], p[3]>> \in Nat \X Nat
      BY <2>2 DEF Schedule, TypeOK
    <3>2. Append(calls[p[1]], <<p[2], p[3]>>) \in Seq(Nat \X Nat)
      BY <3>1 DEF TypeOK
    <3>3. calls' \in [Clients -> Seq(Nat \X Nat)]
      BY <2>2, <3>1, <3>2 DEF Schedule, TypeOK
    <3> QED
      BY <2>2, <3>3 DEF Schedule, TypeOK, streamVars, pageVars
  <2>3. ASSUME NEW c \in Clients, DeliverToRemoved(c) PROVE TypeOK'
    BY <2>3, NextCallType DEF DeliverToRemoved, TypeOK, streamVars, pageVars
  <2>4. ASSUME NEW c \in Clients, DeliverToQueue(c) PROVE TypeOK'
    <3>1. NextCall(c)
      BY <2>4 DEF DeliverToQueue
    <3>2. queue[c] \in Seq(Nat) /\ Head(calls[c])[2] \in Nat
      BY <3>1, NextCallType DEF TypeOK
    <3>3. queue' \in [Clients -> Seq(Nat)]
      BY <2>4, <3>2 DEF DeliverToQueue, TypeOK
    <3>4. calls' \in [Clients -> Seq(Nat \X Nat)]
      BY <3>1, NextCallType
    <3> QED
      BY <2>4, <3>3, <3>4 DEF DeliverToQueue, TypeOK, pageVars
  <2>5. ASSUME NEW c \in Clients, DeliverToFull(c) PROVE TypeOK'
    <3>1. NextCall(c)
      BY <2>5 DEF DeliverToFull
    <3>2. queue[c] \in Seq(Nat) /\ queue[c] /= <<>>
      BY <2>5, QueueSizeAssumption DEF DeliverToFull, TypeOK
    <3>3. Head(queue[c]) \in Nat /\ Overflowed(queue[c]) \in Seq(Nat)
      BY <3>2 DEF Overflowed, Sentinel
    <3>4. queue' \in [Clients -> Seq(Nat)] /\ evicted' \in [Clients -> SUBSET Nat]
      BY <2>5, <3>3 DEF DeliverToFull, TypeOK
    <3> QED
      BY <2>5, <3>1, <3>4, NextCallType DEF DeliverToFull, TypeOK, pageVars
  <2>6. ASSUME NEW c \in Clients, Connect(c) PROVE TypeOK'
    <3>1. subscribers' \in SUBSET (Clients \X Nat)
      BY <2>6 DEF Connect, TypeOK
    <3>2. /\ gen' \in [Clients -> Nat] /\ live' \in [Clients -> BOOLEAN]
          /\ replayNext' \in [Clients -> Nat] /\ replayLast' \in [Clients -> Nat]
      BY <2>6 DEF Connect, FirstReplayed, AlreadyTerminal, TypeOK
    <3>3. queue' \in [Clients -> Seq(Nat)] /\ conn' \in [Clients -> {"idle", "open", "done"}]
      BY <2>6 DEF Connect, TypeOK
    <3> QED
      BY <2>6, <3>1, <3>2, <3>3 DEF Connect, TypeOK
  <2>7. ASSUME NEW c \in Clients, StreamReplay(c) PROVE TypeOK'
    <3>1. replayNext[c] \in Nat /\ Receive(c, replayNext[c])
      BY <2>7 DEF StreamReplay, TypeOK
    <3>2. replayNext' \in [Clients -> Nat] /\ UNCHANGED queue
      BY <2>7 DEF StreamReplay, TypeOK
    <3>3. UNCHANGED <<log, pending, calls, evicted, gen, live, replayLast, faults>>
      BY <3>1 DEF Receive
    <3> QED
      BY <3>1, <3>2, <3>3, ReceiveType DEF TypeOK
  <2>8. ASSUME NEW c \in Clients, StreamLive(c) PROVE TypeOK'
    <3>1. Head(queue[c]) \in Nat /\ Tail(queue[c]) \in Seq(Nat)
      BY <2>8 DEF StreamLive, TypeOK
    <3>2. Receive(c, Head(queue[c])) /\ UNCHANGED replayNext
      BY <2>8 DEF StreamLive
    <3>3. queue' \in [Clients -> Seq(Nat)]
      BY <2>8, <3>1 DEF StreamLive, TypeOK
    <3>4. UNCHANGED <<log, pending, calls, evicted, gen, live, replayLast, faults>>
      BY <3>2 DEF Receive
    <3> QED
      BY <3>1, <3>2, <3>3, <3>4, ReceiveType DEF TypeOK
  <2>9. ASSUME NEW c \in Clients, StreamEnd(c) PROVE TypeOK'
    <3>1. queue' \in [Clients -> Seq(Nat)]
      <4>1. CASE UNCHANGED queue
        BY <4>1 DEF TypeOK
      <4>2. CASE queue[c] /= <<>> /\ queue' = [queue EXCEPT ![c] = Tail(@)]
        <5>1. queue[c] \in Seq(Nat) /\ Tail(queue[c]) \in Seq(Nat)
          BY <4>2 DEF TypeOK
        <5> QED
          BY <4>2, <5>1 DEF TypeOK
      <4> QED
        BY <2>9, <4>1, <4>2 DEF StreamEnd
    <3>2. /\ subscribers' \in SUBSET (Clients \X Nat)
          /\ conn' \in [Clients -> {"idle", "open", "done"}]
      BY <2>9 DEF StreamEnd, Closed, TypeOK
    <3> QED
      BY <2>9, <3>1, <3>2 DEF StreamEnd, TypeOK
  <2>10. ASSUME NEW c \in Clients, Disconnect(c) PROVE TypeOK'
    <3>1. /\ subscribers' \in SUBSET (Clients \X Nat)
          /\ conn' \in [Clients -> {"idle", "open", "done"}]
      BY <2>10 DEF Disconnect, Closed, TypeOK
    <3> QED
      BY <2>10, <3>1 DEF Disconnect, TypeOK, streamVars
  <2>11. ASSUME NEW c \in Clients, Reload(c) PROVE TypeOK'
    <3>1. /\ subscribers' \in SUBSET (Clients \X Nat)
          /\ conn' \in [Clients -> {"idle", "open", "done"}]
      BY <2>11 DEF Reload, Closed, TypeOK
    <3> QED
      BY <2>11, <3>1 DEF Reload, TypeOK, streamVars
  <2>12. CASE UNCHANGED vars
    BY <2>12 DEF vars, hubVars, streamVars, pageVars, TypeOK
  <2> QED
    BY <2>1, <2>2, <2>3, <2>4, <2>5, <2>6, <2>7, <2>8, <2>9, <2>10, <2>11, <2>12
    DEF Next, Deliver, Stream
<1> QED
  BY <1>1, <1>2, PTL DEF Spec

-----------------------------------------------------------------------------

\* Ending the newest subscription of a page leaves none of its own behind.
LEMMA ClosedKeepsOthers ==
  ASSUME TypeOK, NoLeakedSubscriber, NEW c \in Clients
  PROVE  \A s \in Closed(c) : /\ s \in subscribers /\ s[1] \in Clients \ {c}
                              /\ s[2] = gen[s[1]] /\ conn[s[1]] = "open" /\ live[s[1]]
BY DEF TypeOK, NoLeakedSubscriber, Closed

\* A received event closes the connection together with its subscriber, or neither.
LEMMA ReceiveKeepsSubscribers ==
  ASSUME TypeOK, NoLeakedSubscriber, NEW c \in Clients, NEW n, Receive(c, n)
  PROVE  NoLeakedSubscriber'
<1>1. CASE log[n] \in Closing
  <2>1. subscribers' = Closed(c) /\ UNCHANGED <<gen, live>>
    BY <1>1 DEF Receive
  <2>2. \A d \in Clients \ {c} : conn'[d] = conn[d]
    BY <1>1 DEF Receive, TypeOK
  <2> QED
    BY <2>1, <2>2, ClosedKeepsOthers DEF NoLeakedSubscriber
<1>2. CASE log[n] \notin Closing
  BY <1>2 DEF NoLeakedSubscriber, Receive
<1> QED
  BY <1>1, <1>2

LEMMA NextKeepsSubscribers ==
  ASSUME TypeOK, NoLeakedSubscriber, [Next]_vars
  PROVE  NoLeakedSubscriber'
<1> USE DEF NoLeakedSubscriber
<1>1. ASSUME NEW kind \in Kinds, Emit(kind) PROVE NoLeakedSubscriber'
  BY <1>1 DEF Emit, streamVars, pageVars
<1>2. ASSUME NEW p \in pending, Schedule(p) PROVE NoLeakedSubscriber'
  BY <1>2 DEF Schedule, streamVars, pageVars
<1>3. ASSUME NEW c \in Clients, Deliver(c) PROVE NoLeakedSubscriber'
  <2>1. subscribers' \subseteq subscribers /\ UNCHANGED <<gen, conn, live>>
    BY <1>3 DEF Deliver, DeliverToRemoved, DeliverToQueue, DeliverToFull, streamVars, pageVars
  <2> QED
    BY <2>1
<1>4. ASSUME NEW c \in Clients, Connect(c) PROVE NoLeakedSubscriber'
  <2>1. \A s \in subscribers : s[1] \in Clients \ {c}
    BY <1>4 DEF Connect, TypeOK
  <2>2. \A d \in Clients \ {c} : gen'[d] = gen[d] /\ conn'[d] = conn[d] /\ live'[d] = live[d]
    BY <1>4 DEF Connect, TypeOK
  <2>3. gen'[c] = gen[c] + 1 /\ conn'[c] = "open"
    BY <1>4 DEF Connect, TypeOK
  <2>4. CASE AlreadyTerminal
    BY <1>4, <2>1, <2>2, <2>4 DEF Connect
  <2>5. CASE ~AlreadyTerminal
    <3>1. subscribers' = subscribers \cup {<<c, gen[c] + 1>>}
      BY <1>4, <2>5 DEF Connect
    <3>2. ASSUME NEW s \in subscribers
          PROVE  s[2] = gen'[s[1]] /\ conn'[s[1]] = "open" /\ live'[s[1]]
      BY <2>1, <2>2
    <3>3. live'[c]
      BY <1>4, <2>5 DEF Connect, TypeOK
    <3> QED
      BY <2>3, <3>1, <3>2, <3>3
  <2> QED
    BY <2>4, <2>5
<1>5. ASSUME NEW c \in Clients, Stream(c) PROVE NoLeakedSubscriber'
  <2>1. CASE StreamReplay(c)
    BY <2>1, ReceiveKeepsSubscribers DEF StreamReplay
  <2>2. CASE StreamLive(c)
    BY <2>2, ReceiveKeepsSubscribers DEF StreamLive
  <2>3. CASE StreamEnd(c)
    BY <2>3, ClosedKeepsOthers DEF StreamEnd, TypeOK
  <2> QED
    BY <1>5, <2>1, <2>2, <2>3 DEF Stream
<1>6. ASSUME NEW c \in Clients, Disconnect(c) PROVE NoLeakedSubscriber'
  BY <1>6, ClosedKeepsOthers DEF Disconnect, TypeOK, streamVars
<1>7. ASSUME NEW c \in Clients, Reload(c) PROVE NoLeakedSubscriber'
  BY <1>7, ClosedKeepsOthers DEF Reload, TypeOK, streamVars
<1>8. CASE UNCHANGED vars
  BY <1>8 DEF vars, hubVars, streamVars, pageVars
<1> QED
  BY <1>1, <1>2, <1>3, <1>4, <1>5, <1>6, <1>7, <1>8 DEF Next

\* The hub never keeps a subscriber whose stream has ended: overflow, the end of
\* the generator, a lost connection and a reload each remove the one they end.
THEOREM NoLeak == Spec => []NoLeakedSubscriber
<1>1. Init => NoLeakedSubscriber
  BY DEF Init, NoLeakedSubscriber
<1> QED
  BY <1>1, NextKeepsSubscribers, TypeCorrect, PTL DEF Spec

-----------------------------------------------------------------------------

\* The sentinel is in the queue of the page's newest subscription.
Woken(c) == \E i \in DOMAIN queue[c] : queue[c][i] = Sentinel

\* The elements of a queue stay in it when another is put behind them, and all but
\* the head when that is taken.
LEMMA AppendKeeps ==
  ASSUME NEW q \in Seq(Nat), NEW n \in Nat, NEW i \in DOMAIN q
  PROVE  i \in DOMAIN Append(q, n) /\ Append(q, n)[i] = q[i]
OBVIOUS

LEMMA TailKeeps ==
  ASSUME NEW q \in Seq(Nat), NEW i \in DOMAIN q, q[i] /= Head(q)
  PROVE  i - 1 \in DOMAIN Tail(q) /\ Tail(q)[i - 1] = q[i]
<1>1. DOMAIN q = 1 .. Len(q) /\ i \in 2 .. Len(q) /\ q /= <<>>
  OBVIOUS
<1>2. Tail(q) \in Seq(Nat) /\ Len(Tail(q)) = Len(q) - 1
  BY <1>1
<1> QED
  BY <1>1, <1>2

\* What a page's own stream and the deliveries to it do to its sentinel: a
\* subscription still open is registered or has one in its queue.
LEMMA NextKeepsWoken ==
  ASSUME TypeOK, NoLeakedSubscriber, NoHungStream, [Next]_vars
  PROVE  NoHungStream'
<1> DEFINE Fine(c) == conn[c] = "open" /\ live[c] => <<c, gen[c]>> \in subscribers \/ Woken(c)
<1>0. \A c \in Clients : Fine(c)
  BY DEF NoHungStream, Woken
<1> SUFFICES ASSUME NEW c \in Clients PROVE Fine(c)'
  BY DEF NoHungStream, Woken
<1>a. Fine(c)
  BY <1>0
<1>1. ASSUME NEW d \in Clients, DeliverToFull(d) PROVE Fine(c)'
  <2>1. NextCall(d) /\ queue[d] \in Seq(Nat) /\ queue[d] /= <<>> /\ UNCHANGED <<conn, live, gen>>
    BY <1>1, QueueSizeAssumption DEF DeliverToFull, TypeOK, pageVars
  <2>2. CASE d = c
    <3>1. queue'[c] = Append(Tail(queue[c]), Sentinel)
      BY <1>1, <2>2 DEF DeliverToFull, Overflowed, TypeOK
    <3>2. Tail(queue[c]) \in Seq(Nat)
      BY <2>1, <2>2
    <3>3. Len(queue'[c]) \in DOMAIN queue'[c] /\ queue'[c][Len(queue'[c])] = Sentinel
      BY <3>1, <3>2 DEF Sentinel
    <3> QED
      BY <3>3 DEF Woken
  <2>3. CASE d /= c
    BY <1>1, <1>a, <2>1, <2>3 DEF DeliverToFull, Woken, TypeOK
  <2> QED
    BY <2>2, <2>3
<1>2. ASSUME NEW d \in Clients, DeliverToQueue(d) PROVE Fine(c)'
  <2>1. NextCall(d) /\ UNCHANGED <<conn, live, gen, subscribers>>
    BY <1>2 DEF DeliverToQueue, pageVars
  <2>2. Head(calls[d])[2] \in Nat /\ queue[d] \in Seq(Nat)
    BY <2>1, NextCallType DEF TypeOK
  <2>3. queue' = [queue EXCEPT ![d] = Append(queue[d], Head(calls[d])[2])]
    BY <1>2 DEF DeliverToQueue
  <2>4. Woken(c) => Woken(c)'
    <3>1. CASE c = d
      BY <2>2, <2>3, <3>1, AppendKeeps DEF Woken, TypeOK
    <3>2. CASE c /= d
      BY <2>3, <3>2 DEF Woken, TypeOK
    <3> QED
      BY <3>1, <3>2
  <2> QED
    BY <1>a, <2>1, <2>4
<1>3. ASSUME NEW d \in Clients, Connect(d) PROVE Fine(c)'
  BY <1>3, <1>a DEF Connect, Woken, TypeOK
<1>4. ASSUME NEW d \in Clients, NEW n, Receive(d, n) PROVE
        /\ <<c, gen[c]>> \in subscribers /\ conn'[c] = "open" => <<c, gen'[c]>> \in subscribers'
        /\ conn'[c] = "open" => conn[c] = "open"
        /\ UNCHANGED <<live, gen>>
  BY <1>4 DEF Receive, Closed, TypeOK
<1>5. ASSUME NEW d \in Clients, StreamReplay(d) PROVE Fine(c)'
  BY <1>5, <1>a, <1>4 DEF StreamReplay, Woken
<1>6. ASSUME NEW d \in Clients, StreamLive(d) PROVE Fine(c)'
  <2>1. queue[d] \in Seq(Nat) /\ queue[d] /= <<>> /\ Head(queue[d]) /= Sentinel
    BY <1>6 DEF StreamLive, TypeOK
  <2>2. queue' = [queue EXCEPT ![d] = Tail(queue[d])] /\ Receive(d, Head(queue[d]))
    BY <1>6 DEF StreamLive
  <2>3. Woken(c) => Woken(c)'
    <3>1. CASE c = d
      <4>1. SUFFICES ASSUME NEW i \in DOMAIN queue[c], queue[c][i] = Sentinel PROVE Woken(c)'
        BY DEF Woken
      <4>2. i - 1 \in DOMAIN Tail(queue[c]) /\ Tail(queue[c])[i - 1] = Sentinel
        BY <2>1, <3>1, <4>1, TailKeeps
      <4>3. queue'[c] = Tail(queue[c])
        BY <2>2, <3>1 DEF TypeOK
      <4> QED
        BY <4>2, <4>3 DEF Woken
    <3>2. CASE c /= d
      BY <2>2, <3>2 DEF Woken, TypeOK
    <3> QED
      BY <3>1, <3>2
  <2> QED
    BY <1>a, <1>4, <2>2, <2>3
<1>7. ASSUME NEW d \in Clients,
             UNCHANGED <<gen, live, queue, conn, subscribers>> \/ StreamEnd(d) \/ Disconnect(d) \/ Reload(d)
      PROVE  Fine(c)'
  <2>1. CASE UNCHANGED <<gen, live, queue, conn, subscribers>>
    BY <2>1, <1>a DEF Woken
  <2>2. CASE StreamEnd(d)
    BY <2>2, <1>a DEF StreamEnd, Closed, Woken, TypeOK
  <2>3. CASE Disconnect(d)
    BY <2>3, <1>a DEF Disconnect, Closed, Woken, TypeOK, streamVars
  <2>4. CASE Reload(d)
    BY <2>4, <1>a DEF Reload, Closed, Woken, TypeOK, streamVars
  <2> QED
    BY <1>7, <2>1, <2>2, <2>3, <2>4
<1>8. ASSUME \/ \E kind \in Kinds : Emit(kind)
             \/ \E p \in pending : Schedule(p)
             \/ \E d \in Clients : DeliverToRemoved(d)
             \/ UNCHANGED vars
      PROVE  UNCHANGED <<gen, live, queue, conn, subscribers>>
  BY <1>8 DEF Emit, Schedule, DeliverToRemoved, vars, hubVars, streamVars, pageVars
<1> QED
  BY <1>1, <1>2, <1>3, <1>5, <1>6, <1>7, <1>8 DEF Next, Deliver, Stream

\* A stream that waits on an unfinished run can always be woken, so no connection
\* sends heartbeats for ever after an overflow took its subscriber away.
THEOREM NoHang == Spec => []NoHungStream
<1>1. Init => NoHungStream
  BY DEF Init, NoHungStream
<1> QED
  BY <1>1, NextKeepsWoken, TypeCorrect, NoLeak, PTL DEF Spec

-----------------------------------------------------------------------------
(***************************************************************************)
(* The order of events.  The inductive invariant follows the line of       *)
(* events behind a page: its replay, its queue, the callbacks of the event *)
(* loop, and the event that emit has stored and not yet scheduled.         *)
(***************************************************************************)

\* The queue holds the events behind base, one by one.
Consecutive(q, base) == \A i \in 1 .. Len(q) : q[i] = base + i

\* The queue holds events behind base, and the sentinel.
EndsEarly(q, base) ==
  /\ q /= <<>>
  /\ q[Len(q)] = Sentinel
  /\ \A i \in 1 .. Len(q) - 1 : q[i] = base + i

\* The last n callbacks are for subscription g and bring the events up to last, one
\* by one; those before them are for earlier subscriptions.
Line(s, n, g, last) ==
  /\ n \in 0 .. Len(s)
  /\ \A i \in 1 .. Len(s) - n : s[i][1] < g
  /\ \A i \in Len(s) - n + 1 .. Len(s) : s[i][1] = g /\ s[i][2] = last - (Len(s) - i)

\* No callback is for a subscription that comes after g.
NoneAfter(s, g) == \A i \in 1 .. Len(s) : s[i][1] <= g

\* The next event behind a queue continues it.
LEMMA ConsecutiveAppend ==
  ASSUME NEW q \in Seq(Nat), NEW base \in Nat, Consecutive(q, base)
  PROVE  Consecutive(Append(q, base + Len(q) + 1), base)
BY DEF Consecutive

\* The head of a queue is the event behind base, the rest begins behind the head.
LEMMA ConsecutiveTail ==
  ASSUME NEW q \in Seq(Nat), NEW base \in Nat, Consecutive(q, base), q /= <<>>
  PROVE  Head(q) = base + 1 /\ Consecutive(Tail(q), base + 1) /\ Len(Tail(q)) = Len(q) - 1
BY DEF Consecutive

\* What _deliver leaves in a full queue.
LEMMA ConsecutiveOverflowed ==
  ASSUME NEW q \in Seq(Nat), NEW base \in Nat, Consecutive(q, base), q /= <<>>
  PROVE  EndsEarly(Overflowed(q), base + 1) /\ Len(Overflowed(q)) = Len(q)
BY DEF Consecutive, EndsEarly, Overflowed, Sentinel

\* The same of a queue that ends early, as long as its head is an event.
LEMMA EndsEarlyTail ==
  ASSUME NEW q \in Seq(Nat), NEW base \in Nat, EndsEarly(q, base), Head(q) /= Sentinel
  PROVE  /\ Head(q) = base + 1 /\ EndsEarly(Tail(q), base + 1)
         /\ Len(q) \in Nat /\ Len(q) >= 2 /\ Len(Tail(q)) = Len(q) - 1
<1>1. Len(q) \in Nat /\ q /= <<>> /\ Head(q) = q[1] /\ Len(q) /= 0 /\ Len(q) /= 1
  BY DEF EndsEarly
<1>2. Head(q) = base + 1
  BY <1>1 DEF EndsEarly
<1>3. Len(Tail(q)) = Len(q) - 1 /\ \A i \in 1 .. Len(q) - 1 : Tail(q)[i] = q[i + 1]
  BY <1>1
<1>4. Tail(q) /= <<>>
  <2>1. Len(Tail(q)) /= 0
    BY <1>1, <1>3
  <2>2. Len(<<>>) = 0
    OBVIOUS
  <2> QED
    BY <2>1, <2>2
<1>5. EndsEarly(Tail(q), base + 1)
  BY <1>1, <1>3, <1>4 DEF EndsEarly
<1> QED
  BY <1>1, <1>2, <1>3, <1>5

\* A callback for a subscription there is comes after none to come.
LEMMA NoneAfterAppend ==
  ASSUME NEW s \in Seq(Nat \X Nat), NEW g \in Nat, NEW h \in Nat, NEW x \in Nat,
         NoneAfter(s, g), h <= g
  PROVE  NoneAfter(Append(s, <<h, x>>), g)
<1> DEFINE t == Append(s, <<h, x>>)
<1>1. Len(t) = Len(s) + 1 /\ t[Len(s) + 1] = <<h, x>> /\ Len(s) \in Nat
      /\ \A i \in 1 .. Len(s) : t[i] = s[i]
  OBVIOUS
<1>2. ASSUME NEW i \in 1 .. Len(s) + 1 PROVE t[i][1] <= g
  <2>1. CASE i = Len(s) + 1
    BY <1>1, <2>1
  <2>2. CASE i \in 1 .. Len(s)
    BY <1>1, <2>2 DEF NoneAfter
  <2> QED
    BY <1>1, <1>2, <2>1, <2>2
<1> QED
  BY <1>1, <1>2 DEF NoneAfter

\* Nor does taking a callback put one there.
LEMMA NoneAfterTail ==
  ASSUME NEW s \in Seq(Nat \X Nat), NEW g \in Nat, NoneAfter(s, g), s /= <<>>
  PROVE  NoneAfter(Tail(s), g)
BY DEF NoneAfter

\* The next subscription starts with an empty line.
LEMMA LineStarts ==
  ASSUME NEW s \in Seq(Nat \X Nat), NEW g \in Nat, NEW last \in Int, NoneAfter(s, g)
  PROVE  NoneAfter(s, g + 1) /\ Line(s, 0, g + 1, last)
<1>1. PICK m \in Nat : m = Len(s)
  OBVIOUS
<1>2. ASSUME NEW i \in 1 .. m PROVE s[i][1] <= g + 1 /\ s[i][1] < g + 1
  <2>1. s[i] \in Nat \X Nat
    BY <1>1
  <2>2. s[i][1] \in Nat
    BY <2>1
  <2>3. s[i][1] <= g
    BY <1>1 DEF NoneAfter
  <2> QED
    BY <2>2, <2>3
<1> QED
  BY <1>1, <1>2 DEF NoneAfter, Line

\* The callback of the next event joins the line.
LEMMA LineAppend ==
  ASSUME NEW s \in Seq(Nat \X Nat), NEW n \in Int, NEW g \in Nat, NEW last \in Int,
         NEW x \in Nat, x = last + 1, Line(s, n, g, last)
  PROVE  Line(Append(s, <<g, x>>), n + 1, g, x)
<1> DEFINE t == Append(s, <<g, x>>)
<1>1. PICK m \in Nat : m = Len(s)
  OBVIOUS
<1>2. Len(t) = m + 1 /\ t[m + 1] = <<g, x>> /\ \A i \in 1 .. m : t[i] = s[i]
  BY <1>1
<1> HIDE DEF t
<1>3. n + 1 \in 0 .. m + 1 /\ m + 1 - (n + 1) = m - n /\ n \in 0 .. m
  BY <1>1 DEF Line
<1>4. ASSUME NEW i \in 1 .. m - n PROVE t[i][1] < g
  <2>1. i \in 1 .. m /\ s[i][1] < g
    BY <1>1, <1>3, <1>4 DEF Line
  <2> QED
    BY <1>2, <2>1
<1>5. ASSUME NEW i \in m - n + 1 .. m + 1 PROVE t[i][1] = g /\ t[i][2] = x - (m + 1 - i)
  <2>1. CASE i = m + 1
    BY <1>2, <2>1
  <2>2. CASE i /= m + 1
    <3>1. i \in m - n + 1 .. m /\ i \in 1 .. m
      BY <1>3, <2>2
    <3>2. s[i][1] = g /\ s[i][2] = last - (m - i)
      BY <1>1, <3>1 DEF Line
    <3>3. t[i] = s[i] /\ last - (m - i) = x - (m + 1 - i)
      BY <1>2, <3>1
    <3> QED
      BY <3>2, <3>3
  <2> QED
    BY <2>1, <2>2
<1>6. \A i \in 1 .. Len(t) - (n + 1) : t[i][1] < g
  BY <1>2, <1>3, <1>4
<1>7. \A i \in Len(t) - (n + 1) + 1 .. Len(t) : t[i][1] = g /\ t[i][2] = x - (Len(t) - i)
  BY <1>2, <1>3, <1>5
<1>8. Line(t, n + 1, g, x)
  BY <1>2, <1>3, <1>6, <1>7 DEF Line
<1> QED
  BY <1>8 DEF t

\* A callback for an earlier subscription joins it only while it is empty.
LEMMA LineAppendOld ==
  ASSUME NEW s \in Seq(Nat \X Nat), NEW g \in Nat, NEW h \in Nat, NEW x \in Nat,
         NEW last \in Int, h < g, Line(s, 0, g, last)
  PROVE  Line(Append(s, <<h, x>>), 0, g, last)
<1> DEFINE t == Append(s, <<h, x>>)
<1>1. Len(t) = Len(s) + 1 /\ t[Len(s) + 1] = <<h, x>> /\ Len(s) \in Nat
      /\ \A i \in 1 .. Len(s) : t[i] = s[i]
  OBVIOUS
<1> HIDE DEF t
<1>2. \A i \in 1 .. Len(s) : s[i][1] < g
  BY <1>1 DEF Line
<1>3. ASSUME NEW i \in 1 .. Len(s) + 1 PROVE t[i][1] < g
  <2>1. CASE i = Len(s) + 1
    BY <1>1, <2>1
  <2>2. CASE i \in 1 .. Len(s)
    BY <1>1, <1>2, <2>2
  <2> QED
    BY <1>1, <1>3, <2>1, <2>2
<1>4. \A i \in Len(t) - 0 + 1 .. Len(t) : FALSE
  BY <1>1
<1>5. 0 \in 0 .. Len(t) /\ \A i \in 1 .. Len(t) - 0 : t[i][1] < g
  BY <1>1, <1>3
<1>6. Line(t, 0, g, last)
  BY <1>4, <1>5 DEF Line
<1> QED
  BY <1>6 DEF t

\* The event loop takes a callback of the line only when no other is before it.
LEMMA LineHead ==
  ASSUME NEW s \in Seq(Nat \X Nat), NEW n \in Int, NEW g \in Nat, NEW last \in Int,
         s /= <<>>, Line(s, n, g, last), Head(s)[1] = g
  PROVE  n = Len(s) /\ Head(s)[2] = last - n + 1 /\ Line(Tail(s), n - 1, g, last)
<1>1. PICK m \in Nat : m = Len(s)
  OBVIOUS
<1>2. m >= 1 /\ Head(s) = s[1]
  BY <1>1
<1>3. n = m
  BY <1>1, <1>2 DEF Line
<1>4. s[1][2] = last - n + 1
  BY <1>1, <1>2, <1>3 DEF Line
<1>5. Len(Tail(s)) = m - 1 /\ \A i \in 1 .. m - 1 : Tail(s)[i] = s[i + 1]
  BY <1>1, <1>2
<1>6. ASSUME NEW i \in 1 .. m - 1
      PROVE  Tail(s)[i][1] = g /\ Tail(s)[i][2] = last - (m - 1 - i)
  <2>1. i + 1 \in m - n + 1 .. m
    BY <1>3
  <2>2. s[i + 1][1] = g /\ s[i + 1][2] = last - (m - (i + 1))
    BY <1>1, <2>1 DEF Line
  <2>3. m - (i + 1) = m - 1 - i
    OBVIOUS
  <2> QED
    BY <1>5, <2>2, <2>3
<1> QED
  BY <1>1, <1>2, <1>3, <1>4, <1>5, <1>6 DEF Line

\* A callback for another subscription leaves the line as it is.
LEMMA LineBehindHead ==
  ASSUME NEW s \in Seq(Nat \X Nat), NEW n \in Int, NEW g \in Nat, NEW last \in Int,
         s /= <<>>, Line(s, n, g, last), Head(s)[1] /= g
  PROVE  Line(Tail(s), n, g, last)
<1>1. PICK m \in Nat : m = Len(s)
  OBVIOUS
<1>2. m >= 1 /\ Head(s) = s[1]
  BY <1>1
<1>3. n \in 0 .. m - 1
  BY <1>1, <1>2 DEF Line
<1>4. Len(Tail(s)) = m - 1 /\ \A i \in 1 .. m - 1 : Tail(s)[i] = s[i + 1]
  BY <1>1, <1>2
<1>5. ASSUME NEW i \in 1 .. m - 1 - n PROVE Tail(s)[i][1] < g
  <2>1. i + 1 \in 1 .. m - n /\ i \in 1 .. m - 1
    BY <1>3
  <2> QED
    BY <1>1, <1>4, <2>1 DEF Line
<1>6. ASSUME NEW i \in m - 1 - n + 1 .. m - 1
      PROVE  Tail(s)[i][1] = g /\ Tail(s)[i][2] = last - (m - 1 - i)
  <2>1. i + 1 \in m - n + 1 .. m /\ i \in 1 .. m - 1
    BY <1>3
  <2>2. s[i + 1][1] = g /\ s[i + 1][2] = last - (m - (i + 1))
    BY <1>1, <2>1 DEF Line
  <2>3. m - (i + 1) = m - 1 - i
    OBVIOUS
  <2> QED
    BY <1>4, <2>1, <2>2, <2>3
<1> QED
  BY <1>3, <1>4, <1>5, <1>6 DEF Line

-----------------------------------------------------------------------------

\* The page's newest subscription has a subscriber in the hub.
Registered(c) == <<c, gen[c]>> \in subscribers

\* The events up to Base are behind the page or in its replay, those up to
\* Delivered also in its queue, those up to Scheduled also in a callback.
Base(c) == IF ReplayLeft(c) THEN replayLast[c] ELSE lastId[c]
Delivered(c) == Base(c) + Len(queue[c])
Scheduled(c) == IF <<c, gen[c], Len(log)>> \in pending THEN Len(log) - 1 ELSE Len(log)
InFlight(c) == Scheduled(c) - Delivered(c)

\* What emit has still to schedule is the newest event, for subscriptions there are.
PendingNewest == \A p \in pending : p[2] <= gen[p[1]] /\ p[3] = Len(log)

\* No page knows more than the hub, no callback is for a subscription to come.
Known(c) == lastId[c] <= Len(log) /\ NoneAfter(calls[c], gen[c])

\* A replay goes through the stored events one by one.
ReplayInOrder(c) ==
  conn[c] = "open" =>
    /\ replayLast[c] <= Len(log)
    /\ ReplayLeft(c) => lastId[c] = replayNext[c] - 1
    /\ ~ReplayLeft(c) => lastId[c] >= replayLast[c]

\* Behind the replay of a registered page come its queue, the callbacks of its
\* subscription and the event still to be scheduled, without a gap.  What is still
\* to be scheduled for an earlier subscription is in the replay.
LineUnbroken(c) ==
  Registered(c) =>
    /\ Consecutive(queue[c], Base(c))
    /\ Line(calls[c], InFlight(c), gen[c], Scheduled(c))
    /\ \A p \in pending : p[1] = c /\ p[2] < gen[c] => Len(log) = replayLast[c]

\* What is left to an open page whose subscriber was removed, when skip events were
\* taken out of its queue: younger events, and the sentinel.
Remains(c, skip) ==
  /\ EndsEarly(queue[c], Base(c) + skip)
  /\ Base(c) + skip + Len(queue[c]) - 1 <= Len(log)
  /\ skip = 1 => Base(c) + 1 \in evicted[c]

LineCut(c) ==
  conn[c] = "open" /\ live[c] /\ ~Registered(c) => Remains(c, 0) \/ Remains(c, 1)

Explained(c) == \A i \in 1 .. lastId[c] : i \in seen[c] \cup evicted[c]

PageInv(c) == Known(c) /\ ReplayInOrder(c) /\ LineUnbroken(c) /\ LineCut(c) /\ Explained(c)

\* The inductive invariant of the order of events.
OrderInv == TypeOK /\ NoLeakedSubscriber /\ PendingNewest /\ \A c \in Clients : PageInv(c)

\* The page's part of the types.
LEMMA PageTypes ==
  ASSUME TypeOK, NEW c \in Clients
  PROVE  /\ Len(log) \in Nat /\ gen[c] \in Nat /\ lastId[c] \in Nat /\ replayNext[c] \in Nat
         /\ replayLast[c] \in Nat /\ Base(c) \in Nat /\ Len(queue[c]) \in Nat
         /\ Delivered(c) \in Nat /\ Scheduled(c) \in Int /\ InFlight(c) \in Int
         /\ Scheduled(c) <= Len(log)
<1>1. /\ log \in Seq(Kinds) /\ gen[c] \in Nat /\ lastId[c] \in Nat /\ replayNext[c] \in Nat
      /\ replayLast[c] \in Nat /\ queue[c] \in Seq(Nat)
  BY DEF TypeOK
<1>2. Len(log) \in Nat /\ Len(queue[c]) \in Nat
  BY <1>1
<1>3. Base(c) \in Nat
  BY <1>1 DEF Base
<1>4. Scheduled(c) \in Int /\ Scheduled(c) <= Len(log)
  BY <1>2 DEF Scheduled
<1>5. Delivered(c) \in Nat /\ InFlight(c) \in Int
  BY <1>2, <1>3, <1>4 DEF InFlight, Delivered
<1> QED
  BY <1>1, <1>2, <1>3, <1>4, <1>5

\* The types of a page's two queues.
LEMMA SeqTypes ==
  ASSUME TypeOK, NEW c \in Clients
  PROVE  calls[c] \in Seq(Nat \X Nat) /\ queue[c] \in Seq(Nat)
BY DEF TypeOK

\* A step that leaves a page's own variables and the hub's log alone keeps what
\* holds of the page.
LEMMA OtherPage ==
  ASSUME NEW c \in Clients, PageInv(c),
         log' = log, gen'[c] = gen[c], lastId'[c] = lastId[c], replayNext'[c] = replayNext[c],
         replayLast'[c] = replayLast[c], queue'[c] = queue[c], calls'[c] = calls[c],
         conn'[c] = conn[c], live'[c] = live[c], seen'[c] = seen[c], evicted'[c] = evicted[c],
         Registered(c)' = Registered(c),
         pending' \subseteq pending, \A p \in pending \ pending' : p[1] /= c
  PROVE  PageInv(c)'
<1>1. (<<c, gen[c], Len(log)>> \in pending)' = (<<c, gen[c], Len(log)>> \in pending)
  OBVIOUS
<1>2. ReplayLeft(c)' = ReplayLeft(c) /\ Base(c)' = Base(c) /\ Scheduled(c)' = Scheduled(c)
      /\ InFlight(c)' = InFlight(c)
  BY <1>1 DEF ReplayLeft, Base, Scheduled, InFlight, Delivered
<1>3. Known(c)' /\ ReplayInOrder(c)' /\ Explained(c)'
  BY <1>2 DEF PageInv, Known, ReplayInOrder, Explained
<1>4. LineUnbroken(c)'
  BY <1>2 DEF PageInv, LineUnbroken
<1>5. LineCut(c)'
  BY <1>2 DEF PageInv, LineCut, Remains
<1> QED
  BY <1>3, <1>4, <1>5 DEF PageInv

\* A page without an open connection and without a subscriber has only what it
\* knows to be right about.
LEMMA ClosedPage ==
  ASSUME NEW c \in Clients, conn'[c] /= "open", ~Registered(c)', Known(c)', Explained(c)'
  PROVE  PageInv(c)'
BY DEF PageInv, ReplayInOrder, LineUnbroken, LineCut

-----------------------------------------------------------------------------

\* emit stores the next event and will hand it to every subscriber.
LEMMA EmitKeeps ==
  ASSUME OrderInv, NEW kind \in Kinds, Emit(kind), NEW c \in Clients
  PROVE  PageInv(c)'
<1>1. /\ UNCHANGED <<gen, lastId, replayNext, replayLast, queue, calls, conn, live, seen, evicted,
                     subscribers>>
      /\ pending = {} /\ log' = Append(log, kind)
      /\ pending' = {<<s[1], s[2], Len(log) + 1>> : s \in subscribers}
  BY DEF Emit, streamVars, pageVars
<1>2. Len(log) \in Nat /\ Len(log') = Len(log) + 1
  BY <1>1 DEF OrderInv, TypeOK
<1>3. ReplayLeft(c)' = ReplayLeft(c) /\ Base(c)' = Base(c) /\ Delivered(c)' = Delivered(c)
      /\ Registered(c)' = Registered(c)
  BY <1>1 DEF ReplayLeft, Base, Delivered, Registered
<1>4. PageInv(c) /\ Base(c) \in Nat /\ Len(queue[c]) \in Nat /\ lastId[c] \in Nat /\ replayLast[c] \in Nat
  BY PageTypes DEF OrderInv
<1>5. Known(c)' /\ ReplayInOrder(c)' /\ Explained(c)'
  BY <1>1, <1>2, <1>3, <1>4 DEF PageInv, Known, ReplayInOrder, Explained
<1>6. LineCut(c)'
  BY <1>1, <1>2, <1>3, <1>4 DEF PageInv, LineCut, Remains
<1>7. ASSUME Registered(c) PROVE Scheduled(c)' = Scheduled(c) /\ InFlight(c)' = InFlight(c)
  <2>1. <<c, gen[c], Len(log) + 1>> \in pending'
    BY <1>1, <1>7 DEF Registered
  <2>2. Scheduled(c)' = Len(log)
    BY <1>1, <1>2, <2>1 DEF Scheduled
  <2>3. Scheduled(c) = Len(log)
    BY <1>1 DEF Scheduled
  <2> QED
    BY <1>3, <2>2, <2>3 DEF InFlight
<1>8. \A p \in pending' : p[2] = gen[p[1]]
  BY <1>1 DEF OrderInv, NoLeakedSubscriber
<1>9. ASSUME NEW p \in pending', p[1] = c PROVE ~(p[2] < gen'[c])
  <2>1. p[2] = gen[c] /\ gen[c] \in Nat
    BY <1>8, <1>9 DEF OrderInv, TypeOK
  <2> QED
    BY <1>1, <2>1
<1>10. LineUnbroken(c)'
  BY <1>1, <1>3, <1>4, <1>7, <1>9 DEF PageInv, LineUnbroken
<1> QED
  BY <1>5, <1>6, <1>10 DEF PageInv

\* The callback of the newest event is the next of the line.
LEMMA ScheduleKeeps ==
  ASSUME OrderInv, NEW p \in pending, Schedule(p), NEW c \in Clients
  PROVE  PageInv(c)'
<1>1. /\ UNCHANGED <<log, gen, lastId, replayNext, replayLast, queue, conn, live, seen, evicted,
                     subscribers>>
      /\ pending' = pending \ {p}
      /\ calls' = [calls EXCEPT ![p[1]] = Append(calls[p[1]], <<p[2], p[3]>>)]
  BY DEF Schedule, streamVars, pageVars
<1>2. /\ p[1] \in Clients /\ p[2] \in Nat /\ p[3] \in Nat /\ p = <<p[1], p[2], p[3]>>
      /\ p[2] <= gen[p[1]] /\ p[3] = Len(log)
  BY DEF OrderInv, PendingNewest, TypeOK
<1>3. CASE p[1] /= c
  BY <1>1, <1>2, <1>3, OtherPage DEF OrderInv, TypeOK, Registered
<1>4. CASE p[1] = c
  <2>1. PageInv(c) /\ TypeOK /\ calls[c] \in Seq(Nat \X Nat) /\ gen[c] \in Nat /\ Len(log) \in Nat
        /\ Scheduled(c) \in Int /\ InFlight(c) \in Int
    BY PageTypes, SeqTypes DEF OrderInv
  <2>2. calls'[c] = Append(calls[c], <<p[2], Len(log)>>)
    BY <1>1, <1>2, <1>4 DEF OrderInv, TypeOK
  <2>3. ReplayLeft(c)' = ReplayLeft(c) /\ Base(c)' = Base(c) /\ Delivered(c)' = Delivered(c)
        /\ Registered(c)' = Registered(c)
    BY <1>1 DEF ReplayLeft, Base, Delivered, Registered
  <2>4. Known(c)'
    <3>1. NoneAfter(Append(calls[c], <<p[2], Len(log)>>), gen[c])
      BY <1>2, <1>4, <2>1, NoneAfterAppend DEF PageInv, Known
    <3> QED
      BY <1>1, <2>1, <2>2, <3>1 DEF PageInv, Known
  <2>5. ReplayInOrder(c)' /\ Explained(c)'
    BY <1>1, <2>1, <2>3 DEF PageInv, ReplayInOrder, Explained
  <2>6. LineCut(c)'
    BY <1>1, <2>1, <2>3 DEF PageInv, LineCut, Remains
  <2>7. ASSUME Registered(c), p[2] = gen[c] PROVE LineUnbroken(c)'
    <3>1. p = <<c, gen[c], Len(log)>>
      BY <1>2, <1>4, <2>7
    <3>2. Scheduled(c) = Len(log) - 1 /\ Scheduled(c)' = Len(log)
      BY <1>1, <3>1 DEF Scheduled
    <3>3. InFlight(c)' = InFlight(c) + 1
      <4>1. Delivered(c) \in Nat
        BY <2>1, PageTypes
      <4> QED
        BY <2>1, <2>3, <3>2, <4>1 DEF InFlight
    <3>4. Line(calls[c], InFlight(c), gen[c], Scheduled(c)) /\ Len(log) = Scheduled(c) + 1
      BY <2>1, <2>7, <3>2 DEF PageInv, LineUnbroken
    <3>5. Line(Append(calls[c], <<gen[c], Len(log)>>), InFlight(c) + 1, gen[c], Len(log))
      BY <2>1, <3>4, LineAppend
    <3>6. Line(calls'[c], InFlight(c)', gen'[c], Scheduled(c)')
      BY <1>1, <2>2, <2>7, <3>2, <3>3, <3>5
    <3> QED
      BY <1>1, <2>1, <2>3, <2>7, <3>6 DEF PageInv, LineUnbroken
  <2>8. ASSUME Registered(c), p[2] < gen[c] PROVE LineUnbroken(c)'
    <3>1. Len(log) = replayLast[c] /\ LineUnbroken(c)
      BY <1>4, <2>1, <2>8 DEF PageInv, LineUnbroken
    <3>2. conn[c] = "open"
      BY <2>8 DEF OrderInv, NoLeakedSubscriber, Registered
    <3>3. Base(c) = Len(log)
      <4>1. lastId[c] \in Nat /\ lastId[c] <= Len(log)
        BY <2>1, PageTypes DEF PageInv, Known
      <4> QED
        BY <2>1, <3>1, <3>2, <4>1 DEF PageInv, ReplayInOrder, Base
    <3>4. InFlight(c) = 0 /\ <<c, gen[c], Len(log)>> \notin pending
      <4>1. InFlight(c) \in 0 .. Len(calls[c]) /\ Len(queue[c]) \in Nat
        BY <2>1, <2>8, <3>1, PageTypes DEF LineUnbroken, Line
      <4>2. InFlight(c) = Scheduled(c) - (Len(log) + Len(queue[c]))
        BY <3>3 DEF InFlight, Delivered
      <4>3. Scheduled(c) = Len(log) - 1 \/ Scheduled(c) = Len(log)
        BY DEF Scheduled
      <4>4. Scheduled(c) = Len(log) /\ InFlight(c) = 0
        BY <2>1, <4>1, <4>2, <4>3
      <4> QED
        BY <2>1, <4>4 DEF Scheduled
    <3>5. Scheduled(c)' = Scheduled(c) /\ InFlight(c)' = 0
      <4>1. Scheduled(c)' = Scheduled(c)
        BY <1>1, <3>4 DEF Scheduled
      <4> QED
        BY <2>3, <3>4, <4>1 DEF InFlight
    <3>6. Line(calls'[c], 0, gen[c], Scheduled(c))
      BY <1>2, <2>1, <2>2, <2>8, <3>1, <3>4, LineAppendOld DEF LineUnbroken
    <3> QED
      BY <1>1, <2>3, <2>8, <3>1, <3>5, <3>6 DEF LineUnbroken
  <2>9. LineUnbroken(c)'
    <3>1. CASE Registered(c)
      BY <1>2, <1>4, <2>1, <2>7, <2>8, <3>1
    <3>2. CASE ~Registered(c)
      BY <2>3, <3>2 DEF LineUnbroken
    <3> QED
      BY <3>1, <3>2
  <2> QED
    BY <2>4, <2>5, <2>6, <2>9 DEF PageInv
<1> QED
  BY <1>3, <1>4

-----------------------------------------------------------------------------

\* A callback whose subscriber was removed is not of a registered page's line.
LEMMA DeliverToRemovedKeeps ==
  ASSUME OrderInv, NEW d \in Clients, DeliverToRemoved(d), NEW c \in Clients
  PROVE  PageInv(c)'
<1>1. /\ UNCHANGED <<log, pending, gen, lastId, replayNext, replayLast, queue, conn, live, seen,
                     evicted, subscribers>>
      /\ calls[d] /= <<>> /\ calls' = [calls EXCEPT ![d] = Tail(calls[d])]
      /\ <<d, Head(calls[d])[1]>> \notin subscribers
  BY DEF DeliverToRemoved, NextCall, streamVars, pageVars
<1>2. PageInv(c) /\ TypeOK /\ calls[c] \in Seq(Nat \X Nat) /\ gen[c] \in Nat
      /\ Scheduled(c) \in Int /\ InFlight(c) \in Int
  BY PageTypes, SeqTypes DEF OrderInv
<1>3. CASE d /= c
  BY <1>1, <1>2, <1>3, OtherPage DEF TypeOK, Registered
<1>4. CASE d = c
  <2>1. calls'[c] = Tail(calls[c])
    BY <1>1, <1>2, <1>4 DEF TypeOK
  <2>2. ReplayLeft(c)' = ReplayLeft(c) /\ Base(c)' = Base(c) /\ Scheduled(c)' = Scheduled(c)
        /\ InFlight(c)' = InFlight(c) /\ Registered(c)' = Registered(c)
    BY <1>1 DEF ReplayLeft, Base, Scheduled, InFlight, Delivered, Registered
  <2>3. Known(c)'
    BY <1>1, <1>2, <1>4, <2>1, NoneAfterTail DEF PageInv, Known
  <2>4. ReplayInOrder(c)' /\ Explained(c)' /\ LineCut(c)'
    BY <1>1, <1>2, <2>2 DEF PageInv, ReplayInOrder, Explained, LineCut, Remains
  <2>5. ASSUME Registered(c) PROVE Line(Tail(calls[c]), InFlight(c), gen[c], Scheduled(c))
    <3>1. Head(calls[c])[1] /= gen[c] /\ Line(calls[c], InFlight(c), gen[c], Scheduled(c))
      BY <1>1, <1>2, <1>4, <2>5 DEF PageInv, LineUnbroken, Registered
    <3> QED
      BY <1>1, <1>2, <1>4, <3>1, LineBehindHead
  <2>6. LineUnbroken(c)'
    BY <1>1, <1>2, <2>1, <2>2, <2>5 DEF PageInv, LineUnbroken
  <2> QED
    BY <2>3, <2>4, <2>6 DEF PageInv
<1> QED
  BY <1>3, <1>4

\* A callback that finds its subscriber brings the event behind the queue.
LEMMA NextInLine ==
  ASSUME OrderInv, NEW c \in Clients, NextCall(c), <<c, Head(calls[c])[1]>> \in subscribers
  PROVE  /\ Registered(c) /\ Head(calls[c])[2] = Delivered(c) + 1 /\ Delivered(c) < Len(log)
         /\ NoneAfter(Tail(calls[c]), gen[c])
         /\ Line(Tail(calls[c]), InFlight(c) - 1, gen[c], Scheduled(c))
<1>1. PageInv(c) /\ TypeOK /\ calls[c] \in Seq(Nat \X Nat) /\ gen[c] \in Nat /\ Len(log) \in Nat
      /\ Scheduled(c) \in Int /\ InFlight(c) \in Int /\ Delivered(c) \in Nat
      /\ Scheduled(c) <= Len(log)
  BY PageTypes, SeqTypes DEF OrderInv
<1>2. calls[c] /= <<>>
  BY DEF NextCall
<1>3. Head(calls[c])[1] = gen[c] /\ Registered(c)
  BY DEF OrderInv, NoLeakedSubscriber, Registered
<1>4. Line(calls[c], InFlight(c), gen[c], Scheduled(c)) /\ NoneAfter(calls[c], gen[c])
  BY <1>1, <1>3 DEF PageInv, LineUnbroken, Known
<1>5. /\ InFlight(c) = Len(calls[c]) /\ Head(calls[c])[2] = Scheduled(c) - InFlight(c) + 1
      /\ Line(Tail(calls[c]), InFlight(c) - 1, gen[c], Scheduled(c))
  BY <1>1, <1>2, <1>3, <1>4, LineHead
<1>6. NoneAfter(Tail(calls[c]), gen[c])
  BY <1>1, <1>2, <1>4, NoneAfterTail
<1>7. InFlight(c) >= 1
  BY <1>1, <1>2, <1>5
<1>8. Head(calls[c])[2] = Delivered(c) + 1 /\ Delivered(c) < Len(log)
  BY <1>1, <1>5, <1>7 DEF InFlight
<1> QED
  BY <1>3, <1>5, <1>6, <1>8

\* The event moves from the callbacks to the queue.
LEMMA DeliverToQueueKeeps ==
  ASSUME OrderInv, NEW d \in Clients, DeliverToQueue(d), NEW c \in Clients
  PROVE  PageInv(c)'
<1>1. /\ UNCHANGED <<log, pending, gen, lastId, replayNext, replayLast, conn, live, seen, evicted,
                     subscribers>>
      /\ calls' = [calls EXCEPT ![d] = Tail(calls[d])] /\ NextCall(d)
      /\ queue' = [queue EXCEPT ![d] = Append(queue[d], Head(calls[d])[2])]
      /\ <<d, Head(calls[d])[1]>> \in subscribers
  BY DEF DeliverToQueue, NextCall, pageVars
<1>2. PageInv(c) /\ TypeOK /\ queue[c] \in Seq(Nat) /\ Base(c) \in Nat /\ Len(queue[c]) \in Nat
      /\ Scheduled(c) \in Int /\ InFlight(c) \in Int
  BY PageTypes, SeqTypes DEF OrderInv
<1>3. CASE d /= c
  BY <1>1, <1>2, <1>3, OtherPage DEF TypeOK, Registered
<1>4. CASE d = c
  <2>1. calls'[c] = Tail(calls[c]) /\ queue'[c] = Append(queue[c], Delivered(c) + 1)
    BY <1>1, <1>2, <1>4, NextInLine DEF TypeOK
  <2>2. ReplayLeft(c)' = ReplayLeft(c) /\ Base(c)' = Base(c) /\ Scheduled(c)' = Scheduled(c)
        /\ Registered(c)' = Registered(c)
    BY <1>1 DEF ReplayLeft, Base, Scheduled, Registered
  <2>3. Len(queue'[c]) = Len(queue[c]) + 1
    BY <1>2, <2>1
  <2>4. InFlight(c)' = InFlight(c) - 1
    BY <1>2, <2>2, <2>3 DEF InFlight, Delivered
  <2>5. Known(c)'
    BY <1>1, <1>2, <1>4, <2>1, NextInLine DEF PageInv, Known
  <2>6. ReplayInOrder(c)' /\ Explained(c)'
    BY <1>1, <1>2, <2>2 DEF PageInv, ReplayInOrder, Explained
  <2>7. Registered(c)
    BY <1>1, <1>4, NextInLine
  <2>8. LineCut(c)'
    BY <2>2, <2>7 DEF LineCut
  <2>9. Consecutive(queue'[c], Base(c))
    BY <1>2, <2>1, <2>7, ConsecutiveAppend DEF PageInv, LineUnbroken, Delivered
  <2>10. Line(calls'[c], InFlight(c)', gen[c], Scheduled(c))
    BY <1>1, <1>4, <2>1, <2>4, NextInLine
  <2>11. LineUnbroken(c)'
    BY <1>1, <1>2, <2>2, <2>7, <2>9, <2>10 DEF PageInv, LineUnbroken
  <2> QED
    BY <2>5, <2>6, <2>8, <2>11 DEF PageInv
<1> QED
  BY <1>3, <1>4

\* Overflow cuts the line: what remains in the queue lacks its oldest event.
LEMMA DeliverToFullKeeps ==
  ASSUME OrderInv, NEW d \in Clients, DeliverToFull(d), NEW c \in Clients
  PROVE  PageInv(c)'
<1>1. /\ UNCHANGED <<log, pending, gen, lastId, replayNext, replayLast, conn, live, seen>>
      /\ calls' = [calls EXCEPT ![d] = Tail(calls[d])] /\ NextCall(d)
      /\ queue' = [queue EXCEPT ![d] = Overflowed(queue[d])]
      /\ evicted' = [evicted EXCEPT ![d] = evicted[d] \cup {Head(queue[d])}]
      /\ subscribers' = subscribers \ {<<d, Head(calls[d])[1]>>}
      /\ <<d, Head(calls[d])[1]>> \in subscribers /\ Len(queue[d]) >= QueueSize
  BY DEF DeliverToFull, NextCall, pageVars
<1>2. PageInv(c) /\ TypeOK /\ queue[c] \in Seq(Nat) /\ Base(c) \in Nat /\ Len(queue[c]) \in Nat
      /\ Len(log) \in Nat
  BY PageTypes, SeqTypes DEF OrderInv
<1>3. CASE d /= c
  <2>1. Registered(c)' = Registered(c)
    BY <1>1, <1>3 DEF Registered
  <2>2. queue'[c] = queue[c] /\ calls'[c] = calls[c] /\ evicted'[c] = evicted[c]
    BY <1>1, <1>2, <1>3 DEF TypeOK
  <2> QED
    BY <1>1, <1>2, <2>1, <2>2, OtherPage
<1>4. CASE d = c
  <2>1. /\ calls'[c] = Tail(calls[c]) /\ queue'[c] = Overflowed(queue[c])
        /\ evicted'[c] = evicted[c] \cup {Head(queue[c])}
    BY <1>1, <1>2, <1>4 DEF TypeOK
  <2>2. ReplayLeft(c)' = ReplayLeft(c) /\ Base(c)' = Base(c)
    BY <1>1 DEF ReplayLeft, Base
  <2>3. Registered(c) /\ Head(calls[c])[1] = gen[c]
    BY <1>1, <1>4, NextInLine DEF OrderInv, NoLeakedSubscriber
  <2>4. ~Registered(c)'
    BY <1>1, <1>4, <2>3 DEF Registered
  <2>5. queue[c] /= <<>>
    BY <1>1, <1>2, <1>4, QueueSizeAssumption
  <2>6. Consecutive(queue[c], Base(c))
    BY <1>2, <2>3 DEF PageInv, LineUnbroken
  <2>7. EndsEarly(queue'[c], Base(c) + 1) /\ Len(queue'[c]) = Len(queue[c])
    BY <1>2, <2>1, <2>5, <2>6, ConsecutiveOverflowed
  <2>8. Base(c) + 1 \in evicted'[c]
    BY <1>2, <2>1, <2>5, <2>6, ConsecutiveTail
  <2>9. Base(c) + 1 + Len(queue'[c]) - 1 <= Len(log)
    <3>1. Base(c) + Len(queue[c]) < Len(log)
      BY <1>1, <1>4, NextInLine DEF Delivered
    <3> QED
      BY <1>2, <2>7, <3>1
  <2>10. Remains(c, 1)'
    BY <1>1, <2>2, <2>7, <2>8, <2>9 DEF Remains
  <2>11. LineCut(c)' /\ LineUnbroken(c)'
    BY <2>4, <2>10 DEF LineCut, LineUnbroken
  <2>12. Known(c)'
    BY <1>1, <1>2, <1>4, <2>1, NextInLine DEF PageInv, Known
  <2>13. ReplayInOrder(c)'
    BY <1>1, <1>2, <2>2 DEF PageInv, ReplayInOrder
  <2>14. Explained(c)'
    BY <1>1, <1>2, <2>1 DEF PageInv, Explained
  <2> QED
    BY <2>11, <2>12, <2>13, <2>14 DEF PageInv
<1> QED
  BY <1>3, <1>4

\* A new subscription begins behind the events stored so far, which its replay holds.
LEMMA ConnectKeeps ==
  ASSUME OrderInv, NEW d \in Clients, Connect(d), NEW c \in Clients
  PROVE  PageInv(c)'
<1>1. /\ UNCHANGED <<log, pending, calls, evicted, lastId, seen>>
      /\ conn' = [conn EXCEPT ![d] = "open"] /\ gen' = [gen EXCEPT ![d] = gen[d] + 1]
      /\ replayNext' = [replayNext EXCEPT ![d] = lastId[d] + 1]
      /\ replayLast' = [replayLast EXCEPT ![d] = Len(log)]
      /\ queue' = [queue EXCEPT ![d] = <<>>]
      /\ live' = [live EXCEPT ![d] = ~AlreadyTerminal]
      /\ AlreadyTerminal => subscribers' = subscribers
      /\ ~AlreadyTerminal => subscribers' = subscribers \cup {<<d, gen[d] + 1>>}
  BY DEF Connect, FirstReplayed
<1>2. PageInv(c) /\ TypeOK /\ Len(log) \in Nat /\ lastId[c] \in Nat /\ gen[c] \in Nat
      /\ calls[c] \in Seq(Nat \X Nat)
  BY PageTypes, SeqTypes DEF OrderInv
<1>3. CASE d /= c
  <2>1. /\ gen'[c] = gen[c] /\ replayNext'[c] = replayNext[c] /\ replayLast'[c] = replayLast[c]
        /\ queue'[c] = queue[c] /\ conn'[c] = conn[c] /\ live'[c] = live[c]
    BY <1>1, <1>2, <1>3 DEF TypeOK
  <2>2. Registered(c)' = Registered(c)
    BY <1>1, <1>3, <2>1 DEF Registered
  <2> QED
    BY <1>1, <1>2, <2>1, <2>2, OtherPage
<1>4. CASE d = c
  <2>1. /\ conn'[c] = "open" /\ gen'[c] = gen[c] + 1 /\ replayNext'[c] = lastId[c] + 1
        /\ replayLast'[c] = Len(log) /\ queue'[c] = <<>>
    BY <1>1, <1>2, <1>4 DEF TypeOK
  <2>2. lastId[c] <= Len(log)
    BY <1>2 DEF PageInv, Known
  <2>3. ReplayInOrder(c)'
    <3>1. ReplayLeft(c)' <=> lastId[c] + 1 <= Len(log)
      BY <2>1 DEF ReplayLeft
    <3>2. lastId'[c] = lastId[c] /\ log' = log
      BY <1>1
    <3>3. lastId'[c] = replayNext'[c] - 1
      BY <1>2, <2>1, <3>2
    <3>4. replayLast'[c] <= Len(log')
      BY <1>2, <2>1, <3>2
    <3>5. ASSUME ~ReplayLeft(c)' PROVE lastId'[c] >= replayLast'[c]
      BY <1>2, <2>1, <3>1, <3>2, <3>5
    <3> QED
      BY <3>3, <3>4, <3>5 DEF ReplayInOrder
  <2>4. Base(c)' = Len(log)
    BY <1>1, <1>2, <2>1, <2>2 DEF Base, ReplayLeft
  <2>5. Scheduled(c)' = Len(log)
    <3>1. <<c, gen[c] + 1, Len(log)>> \notin pending
      BY <1>2 DEF OrderInv, PendingNewest
    <3> QED
      BY <1>1, <2>1, <3>1 DEF Scheduled
  <2>6. InFlight(c)' = 0
    <3>1. Len(queue'[c]) = 0
      BY <2>1
    <3> QED
      BY <1>2, <2>4, <2>5, <3>1 DEF InFlight, Delivered
  <2>7. NoneAfter(calls[c], gen[c] + 1) /\ Line(calls[c], 0, gen[c] + 1, Len(log))
    BY <1>2, LineStarts DEF PageInv, Known
  <2>8. Known(c)'
    BY <1>1, <2>1, <2>2, <2>7 DEF Known
  <2>9. Line(calls'[c], 0, gen[c] + 1, Len(log))
    BY <1>1, <2>7
  <2>10. Consecutive(<<>>, Len(log))
    BY DEF Consecutive
  <2>11. LineUnbroken(c)'
    BY <1>1, <2>1, <2>4, <2>5, <2>6, <2>9, <2>10 DEF LineUnbroken
  <2>12. LineCut(c)'
    <3>1. CASE AlreadyTerminal
      <4>1. ~live'[c]
        BY <1>1, <1>2, <1>4, <3>1 DEF TypeOK
      <4> QED
        BY <4>1 DEF LineCut
    <3>2. CASE ~AlreadyTerminal
      BY <1>1, <1>4, <2>1, <3>2 DEF LineCut, Registered
    <3> QED
      BY <3>1, <3>2
  <2>13. Explained(c)'
    BY <1>1, <1>2 DEF PageInv, Explained
  <2> QED
    BY <2>3, <2>8, <2>11, <2>12, <2>13 DEF PageInv
<1> QED
  BY <1>3, <1>4

-----------------------------------------------------------------------------

\* A page is not touched by what another page receives.
LEMMA ReceiveElsewhere ==
  ASSUME TypeOK, NEW d \in Clients, NEW n, Receive(d, n), NEW c \in Clients, d /= c
  PROVE  /\ lastId'[c] = lastId[c] /\ seen'[c] = seen[c] /\ conn'[c] = conn[c]
         /\ Registered(c)' = Registered(c)
         /\ UNCHANGED <<log, pending, calls, evicted, gen, live, replayLast, faults>>
<1>1. /\ UNCHANGED <<log, pending, calls, evicted, gen, live, replayLast, faults>>
      /\ lastId' = [lastId EXCEPT ![d] = n] /\ seen' = [seen EXCEPT ![d] = seen[d] \cup {n}]
  BY DEF Receive
<1>2. lastId'[c] = lastId[c] /\ seen'[c] = seen[c]
  BY <1>1 DEF TypeOK
<1>3. CASE log[n] \in Closing
  <2>1. subscribers' = subscribers \ {<<d, gen[d]>>} /\ conn' = [conn EXCEPT ![d] = "done"]
    BY <1>3 DEF Receive, Closed
  <2>2. Registered(c)' = Registered(c)
    BY <1>1, <2>1 DEF Registered
  <2>3. conn'[c] = conn[c]
    BY <2>1 DEF TypeOK
  <2> QED
    BY <1>1, <1>2, <2>2, <2>3
<1>4. CASE log[n] \notin Closing
  <2>1. subscribers' = subscribers /\ conn' = conn
    BY <1>4 DEF Receive
  <2> QED
    BY <1>1, <1>2, <2>1 DEF Registered
<1> QED
  BY <1>3, <1>4

\* What a page receives closes it together with its subscriber, or neither.
LEMMA ReceiveHere ==
  ASSUME TypeOK, NEW c \in Clients, NEW n, Receive(c, n)
  PROVE  /\ lastId'[c] = n /\ seen'[c] = seen[c] \cup {n}
         /\ \/ conn'[c] /= "open" /\ ~Registered(c)'
            \/ conn'[c] = conn[c] /\ Registered(c)' = Registered(c)
         /\ UNCHANGED <<log, pending, calls, evicted, gen, live, replayLast, faults>>
<1>1. /\ UNCHANGED <<log, pending, calls, evicted, gen, live, replayLast, faults>>
      /\ lastId' = [lastId EXCEPT ![c] = n] /\ seen' = [seen EXCEPT ![c] = seen[c] \cup {n}]
  BY DEF Receive
<1>2. lastId'[c] = n /\ seen'[c] = seen[c] \cup {n}
  BY <1>1 DEF TypeOK
<1>3. CASE log[n] \in Closing
  <2>1. subscribers' = subscribers \ {<<c, gen[c]>>} /\ conn' = [conn EXCEPT ![c] = "done"]
    BY <1>3 DEF Receive, Closed
  <2>2. ~Registered(c)'
    BY <1>1, <2>1 DEF Registered
  <2>3. conn'[c] = "done"
    BY <2>1 DEF TypeOK
  <2> QED
    BY <1>1, <1>2, <2>2, <2>3
<1>4. CASE log[n] \notin Closing
  <2>1. subscribers' = subscribers /\ conn' = conn
    BY <1>4 DEF Receive
  <2> QED
    BY <1>1, <1>2, <2>1 DEF Registered
<1> QED
  BY <1>3, <1>4

\* A replayed event is the one behind the page's last.
LEMMA StreamReplayKeeps ==
  ASSUME OrderInv, NEW d \in Clients, StreamReplay(d), NEW c \in Clients
  PROVE  PageInv(c)'
<1>1. /\ replayNext' = [replayNext EXCEPT ![d] = replayNext[d] + 1] /\ UNCHANGED queue
      /\ Receive(d, replayNext[d]) /\ conn[d] = "open" /\ ReplayLeft(d)
  BY DEF StreamReplay
<1>2. PageInv(c) /\ TypeOK /\ Len(log) \in Nat /\ lastId[c] \in Nat /\ replayNext[c] \in Nat
      /\ replayLast[c] \in Nat
  BY PageTypes DEF OrderInv
<1>3. CASE d /= c
  <2>1. replayNext'[c] = replayNext[c]
    BY <1>1, <1>2, <1>3 DEF TypeOK
  <2> QED
    BY <1>1, <1>2, <1>3, <2>1, ReceiveElsewhere, OtherPage
<1>4. CASE d = c
  <2>1. /\ lastId'[c] = replayNext[c] /\ seen'[c] = seen[c] \cup {replayNext[c]}
        /\ \/ conn'[c] /= "open" /\ ~Registered(c)'
           \/ conn'[c] = conn[c] /\ Registered(c)' = Registered(c)
        /\ UNCHANGED <<log, pending, calls, evicted, gen, live, replayLast, faults>>
    <3>1. TypeOK /\ Receive(c, replayNext[c])
      BY <1>1, <1>2, <1>4
    <3> QED
      BY <3>1, ReceiveHere, Zenon
  <2>2. replayNext'[c] = replayNext[c] + 1
    BY <1>1, <1>2, <1>4 DEF TypeOK
  <2>3. lastId[c] = replayNext[c] - 1 /\ replayNext[c] <= replayLast[c] /\ replayLast[c] <= Len(log)
    BY <1>1, <1>2, <1>4 DEF PageInv, ReplayInOrder, ReplayLeft
  <2>4. ReplayLeft(c)' <=> replayNext[c] + 1 <= replayLast[c]
    BY <2>1, <2>2 DEF ReplayLeft
  <2>5. Base(c)' = Base(c)
    BY <1>1, <1>2, <1>4, <2>1, <2>3, <2>4 DEF Base
  <2>6. Scheduled(c)' = Scheduled(c) /\ InFlight(c)' = InFlight(c)
    <3>1. Scheduled(c)' = Scheduled(c)
      BY <2>1 DEF Scheduled
    <3> QED
      BY <1>1, <2>5, <3>1 DEF InFlight, Delivered
  <2>7. Known(c)'
    <3>1. lastId'[c] <= Len(log')
      BY <1>2, <2>1, <2>3
    <3> QED
      BY <1>2, <2>1, <3>1 DEF PageInv, Known
  <2>8. Explained(c)'
    <3>1. ASSUME NEW i \in 1 .. replayNext[c] PROVE i \in seen'[c] \cup evicted'[c]
      <4>1. CASE i = replayNext[c]
        BY <2>1, <4>1
      <4>2. CASE i /= replayNext[c]
        <5>1. i \in 1 .. lastId[c]
          BY <1>2, <2>3, <4>2
        <5> QED
          BY <1>2, <2>1, <5>1 DEF PageInv, Explained
      <4> QED
        BY <4>1, <4>2
    <3> QED
      BY <2>1, <3>1 DEF Explained
  <2>9. CASE conn'[c] /= "open" /\ ~Registered(c)'
    BY <2>7, <2>8, <2>9, ClosedPage
  <2>10. CASE conn'[c] = conn[c] /\ Registered(c)' = Registered(c)
    <3>1. ReplayInOrder(c)'
      <4>1. replayLast'[c] <= Len(log')
        BY <2>1, <2>3
      <4>2. lastId'[c] = replayNext'[c] - 1
        BY <1>2, <2>1, <2>2
      <4>3. ASSUME ~ReplayLeft(c)' PROVE lastId'[c] >= replayLast'[c]
        BY <1>2, <2>1, <2>4, <4>3
      <4> QED
        BY <4>1, <4>2, <4>3 DEF ReplayInOrder
    <3>2. LineUnbroken(c)'
      BY <1>1, <1>2, <2>1, <2>5, <2>6, <2>10 DEF PageInv, LineUnbroken
    <3>3. LineCut(c)'
      BY <1>1, <1>2, <2>1, <2>5, <2>10 DEF PageInv, LineCut, Remains
    <3> QED
      BY <2>7, <2>8, <3>1, <3>2, <3>3 DEF PageInv
  <2> QED
    BY <2>1, <2>9, <2>10
<1> QED
  BY <1>3, <1>4

\* The event at the head of the queue of an open page is behind the page's last one,
\* with at most one event between them, which _deliver took out.
LEMMA HeadIsNext ==
  ASSUME OrderInv, NEW c \in Clients, StreamLive(c)
  PROVE  \E skip \in {0, 1} :
           /\ Head(queue[c]) = lastId[c] + skip + 1
           /\ Head(queue[c]) <= Len(log)
           /\ skip = 1 => lastId[c] + 1 \in evicted[c]
           /\ Registered(c) => skip = 0 /\ Consecutive(Tail(queue[c]), Head(queue[c]))
           /\ ~Registered(c) =>
                /\ EndsEarly(Tail(queue[c]), Head(queue[c]))
                /\ Head(queue[c]) + Len(Tail(queue[c])) - 1 <= Len(log)
           /\ Len(Tail(queue[c])) = Len(queue[c]) - 1
<1>1. conn[c] = "open" /\ ~ReplayLeft(c) /\ live[c] /\ queue[c] /= <<>> /\ Head(queue[c]) /= Sentinel
  BY DEF StreamLive
<1>2. /\ PageInv(c) /\ TypeOK /\ queue[c] \in Seq(Nat) /\ Len(queue[c]) \in Nat /\ Len(log) \in Nat
      /\ lastId[c] \in Nat /\ Scheduled(c) \in Int /\ InFlight(c) \in Int
      /\ Scheduled(c) <= Len(log)
  BY PageTypes, SeqTypes DEF OrderInv
<1>3. Base(c) = lastId[c]
  BY <1>1 DEF Base
<1>4. CASE Registered(c)
  <2>1. Consecutive(queue[c], lastId[c]) /\ InFlight(c) >= 0
    BY <1>2, <1>3, <1>4 DEF PageInv, LineUnbroken, Line
  <2>2. /\ Head(queue[c]) = lastId[c] + 1 /\ Consecutive(Tail(queue[c]), lastId[c] + 1)
        /\ Len(Tail(queue[c])) = Len(queue[c]) - 1
    BY <1>1, <1>2, <2>1, ConsecutiveTail
  <2>3. Len(queue[c]) >= 1
    BY <1>1, <1>2
  <2>4. lastId[c] + 1 <= Len(log)
    BY <1>2, <1>3, <2>1, <2>3 DEF InFlight, Delivered
  <2>5. lastId[c] + 1 = lastId[c] + 0 + 1
    BY <1>2
  <2> QED
    BY <1>4, <2>2, <2>4, <2>5
<1>5. ASSUME NEW skip \in {0, 1}, ~Registered(c), Remains(c, skip)
      PROVE  /\ Head(queue[c]) = lastId[c] + skip + 1
             /\ Head(queue[c]) <= Len(log)
             /\ skip = 1 => lastId[c] + 1 \in evicted[c]
             /\ EndsEarly(Tail(queue[c]), Head(queue[c]))
             /\ Head(queue[c]) + Len(Tail(queue[c])) - 1 <= Len(log)
             /\ Len(Tail(queue[c])) = Len(queue[c]) - 1
  <2>1. EndsEarly(queue[c], lastId[c] + skip) /\ lastId[c] + skip + Len(queue[c]) - 1 <= Len(log)
        /\ (skip = 1 => lastId[c] + 1 \in evicted[c])
    BY <1>3, <1>5 DEF Remains
  <2>2. lastId[c] + skip \in Nat /\ skip \in Nat
    BY <1>2
  <2>3. /\ Head(queue[c]) = lastId[c] + skip + 1 /\ EndsEarly(Tail(queue[c]), lastId[c] + skip + 1)
        /\ Len(queue[c]) >= 2 /\ Len(Tail(queue[c])) = Len(queue[c]) - 1
    BY <1>1, <1>2, <2>1, <2>2, EndsEarlyTail
  <2>4. \A x, m, l \in Nat :
          x + m - 1 <= l /\ m >= 2 => x + 1 <= l /\ x + 1 + (m - 1) - 1 <= l
    OBVIOUS
  <2>5. lastId[c] + skip + 1 <= Len(log) /\ lastId[c] + skip + 1 + (Len(queue[c]) - 1) - 1 <= Len(log)
    BY <1>2, <2>1, <2>2, <2>3, <2>4
  <2> QED
    BY <2>1, <2>3, <2>5
<1>6. CASE ~Registered(c)
  <2>1. Remains(c, 0) \/ Remains(c, 1)
    BY <1>1, <1>2, <1>6 DEF PageInv, LineCut
  <2>2. CASE Remains(c, 0)
    <3> WITNESS 0 \in {0, 1}
    <3> QED
      BY <1>5, <1>6, <2>2
  <2>3. CASE Remains(c, 1)
    <3> WITNESS 1 \in {0, 1}
    <3> QED
      BY <1>5, <1>6, <2>3
  <2> QED
    BY <2>1, <2>2, <2>3
<1> QED
  BY <1>4, <1>6

\* A live event leaves the page behind it, and the rest of the queue as its line.
LEMMA StreamLiveKeeps ==
  ASSUME OrderInv, NEW d \in Clients, StreamLive(d), NEW c \in Clients
  PROVE  PageInv(c)'
<1>1. /\ queue' = [queue EXCEPT ![d] = Tail(queue[d])] /\ UNCHANGED replayNext
      /\ Receive(d, Head(queue[d])) /\ conn[d] = "open" /\ ~ReplayLeft(d)
  BY DEF StreamLive
<1>2. PageInv(c) /\ TypeOK /\ Len(log) \in Nat /\ lastId[c] \in Nat /\ Len(queue[c]) \in Nat
      /\ replayLast[c] \in Nat /\ queue[c] \in Seq(Nat)
  BY PageTypes, SeqTypes DEF OrderInv
<1>3. CASE d /= c
  <2>1. queue'[c] = queue[c]
    BY <1>1, <1>2, <1>3 DEF TypeOK
  <2> QED
    BY <1>1, <1>2, <1>3, <2>1, ReceiveElsewhere, OtherPage
<1>4. CASE d = c
  <2> DEFINE n == Head(queue[c])
  <2>1. PICK skip \in {0, 1} :
          /\ n = lastId[c] + skip + 1 /\ n <= Len(log)
          /\ skip = 1 => lastId[c] + 1 \in evicted[c]
          /\ Registered(c) => skip = 0 /\ Consecutive(Tail(queue[c]), n)
          /\ ~Registered(c) =>
               EndsEarly(Tail(queue[c]), n) /\ n + Len(Tail(queue[c])) - 1 <= Len(log)
          /\ Len(Tail(queue[c])) = Len(queue[c]) - 1
    BY <1>4, HeadIsNext
  <2>2. /\ lastId'[c] = n /\ seen'[c] = seen[c] \cup {n}
        /\ \/ conn'[c] /= "open" /\ ~Registered(c)'
           \/ conn'[c] = conn[c] /\ Registered(c)' = Registered(c)
        /\ UNCHANGED <<log, pending, calls, evicted, gen, live, replayLast, faults>>
    <3>1. TypeOK /\ Receive(c, n)
      BY <1>1, <1>2, <1>4
    <3> QED
      BY <3>1, ReceiveHere, Zenon
  <2>3. queue'[c] = Tail(queue[c])
    BY <1>1, <1>2, <1>4 DEF TypeOK
  <2> HIDE DEF n
  <2>4. /\ lastId[c] \in Nat /\ Len(queue[c]) \in Nat
        /\ skip \in {0, 1} /\ n = lastId[c] + skip + 1 /\ n \in Nat /\ n >= lastId[c] + 1
    <3>1. lastId[c] \in Nat /\ Len(queue[c]) \in Nat /\ n = lastId[c] + skip + 1
      BY <1>2, <2>1
    <3> QED
      BY <3>1
  <2>5. Known(c)'
    BY <1>2, <2>1, <2>2 DEF PageInv, Known
  <2>6. Explained(c)'
    <3>1. ASSUME NEW i \in 1 .. n PROVE i \in seen'[c] \cup evicted'[c]
      <4>1. i \in 1 .. lastId[c] \/ i = n \/ (skip = 1 /\ i = lastId[c] + 1)
        BY <2>4
      <4> QED
        BY <1>2, <2>1, <2>2, <4>1 DEF PageInv, Explained
    <3> QED
      BY <2>2, <3>1 DEF Explained
  <2>7. CASE conn'[c] /= "open" /\ ~Registered(c)'
    BY <2>5, <2>6, <2>7, ClosedPage
  <2>8. CASE conn'[c] = conn[c] /\ Registered(c)' = Registered(c)
    <3>1. ~ReplayLeft(c)'
      BY <1>1, <1>4, <2>2 DEF ReplayLeft
    <3>2. Base(c) = lastId[c] /\ Base(c)' = n
      BY <1>1, <1>4, <2>2, <3>1 DEF Base
    <3>3. ReplayInOrder(c)'
      <4>1. replayLast[c] <= Len(log) /\ lastId[c] >= replayLast[c]
        BY <1>1, <1>2, <1>4 DEF PageInv, ReplayInOrder
      <4>2. n >= replayLast[c]
        BY <1>2, <2>4, <4>1
      <4> QED
        BY <2>2, <3>1, <4>1, <4>2 DEF ReplayInOrder
    <3>4. LineUnbroken(c)'
      <4>1. CASE Registered(c)
        <5>1. n = lastId[c] + 1
          BY <1>2, <2>1, <4>1
        <5>2. Scheduled(c)' = Scheduled(c) /\ Delivered(c)' = Delivered(c)
          <6>1. \A x, m \in Nat : x + 1 + (m - 1) = x + m
            OBVIOUS
          <6>2. lastId[c] + 1 + (Len(queue[c]) - 1) = lastId[c] + Len(queue[c])
            BY <2>4, <6>1
          <6> QED
            BY <2>1, <2>2, <2>3, <3>2, <5>1, <6>2 DEF Scheduled, Delivered
        <5>3. InFlight(c)' = InFlight(c)
          BY <5>2 DEF InFlight
        <5> QED
          BY <1>2, <2>1, <2>2, <2>3, <2>8, <3>2, <4>1, <5>2, <5>3 DEF PageInv, LineUnbroken
      <4>2. CASE ~Registered(c)
        BY <2>8, <4>2 DEF LineUnbroken
      <4> QED
        BY <4>1, <4>2
    <3>5. LineCut(c)'
      <4>1. CASE ~Registered(c)
        <5>1. n + 0 = n
          BY <2>4
        <5>2. Remains(c, 0)'
          BY <2>1, <2>2, <2>3, <3>2, <4>1, <5>1 DEF Remains
        <5> QED
          BY <5>2 DEF LineCut
      <4>2. CASE Registered(c)
        BY <2>8, <4>2 DEF LineCut
      <4> QED
        BY <4>1, <4>2
    <3> QED
      BY <2>5, <2>6, <3>3, <3>4, <3>5 DEF PageInv
  <2> QED
    BY <2>2, <2>7, <2>8
<1> QED
  BY <1>3, <1>4

\* The end of a stream, a lost connection and a reload leave the page idle, without
\* a subscriber, and knowing what it knew or nothing.
LEMMA EndKeeps ==
  ASSUME OrderInv, NEW d \in Clients, StreamEnd(d) \/ Disconnect(d) \/ Reload(d), NEW c \in Clients
  PROVE  PageInv(c)'
<1>1. /\ UNCHANGED <<log, pending, calls, gen, live, replayNext, replayLast>>
      /\ conn' = [conn EXCEPT ![d] = "idle"] /\ subscribers' = subscribers \ {<<d, gen[d]>>}
  BY DEF StreamEnd, Disconnect, Reload, Closed, streamVars
<1>2. PageInv(c) /\ TypeOK /\ Len(log) \in Nat
  BY PageTypes DEF OrderInv
<1>3. CASE d /= c
  <2>1. Registered(c)' = Registered(c)
    BY <1>1, <1>3 DEF Registered
  <2>2. conn'[c] = conn[c]
    BY <1>1, <1>2, <1>3 DEF TypeOK
  <2>3. queue'[c] = queue[c] /\ lastId'[c] = lastId[c] /\ seen'[c] = seen[c] /\ evicted'[c] = evicted[c]
    <3>1. CASE StreamEnd(d)
      BY <1>2, <1>3, <3>1 DEF StreamEnd, TypeOK
    <3>2. CASE Disconnect(d)
      BY <3>2 DEF Disconnect, streamVars
    <3>3. CASE Reload(d)
      BY <1>2, <1>3, <3>3 DEF Reload, TypeOK, streamVars
    <3> QED
      BY <3>1, <3>2, <3>3
  <2> QED
    BY <1>1, <1>2, <2>1, <2>2, <2>3, OtherPage
<1>4. CASE d = c
  <2>1. conn'[c] = "idle" /\ ~Registered(c)'
    BY <1>1, <1>2, <1>4 DEF Registered, TypeOK
  <2>2. \/ lastId'[c] = lastId[c] /\ seen'[c] = seen[c] /\ evicted'[c] = evicted[c]
        \/ lastId'[c] = 0
    <3>1. CASE StreamEnd(d) \/ Disconnect(d)
      BY <3>1 DEF StreamEnd, Disconnect
    <3>2. CASE Reload(d)
      BY <1>2, <1>4, <3>2 DEF Reload, TypeOK
    <3> QED
      BY <3>1, <3>2
  <2>3. Known(c)' /\ Explained(c)'
    <3>1. CASE lastId'[c] = lastId[c] /\ seen'[c] = seen[c] /\ evicted'[c] = evicted[c]
      BY <1>1, <1>2, <3>1 DEF PageInv, Known, Explained
    <3>2. CASE lastId'[c] = 0
      BY <1>1, <1>2, <3>2 DEF PageInv, Known, Explained
    <3> QED
      BY <2>2, <3>1, <3>2
  <2> QED
    BY <2>1, <2>3, ClosedPage
<1> QED
  BY <1>3, <1>4

-----------------------------------------------------------------------------

\* emit adds the newest event for subscriptions there are, and no step makes another
\* event the newest before all of it is scheduled.
LEMMA PendingStaysNewest ==
  ASSUME OrderInv, [Next]_vars
  PROVE  PendingNewest'
<1> SUFFICES ASSUME NEW p \in pending' PROVE p[2] <= gen'[p[1]] /\ p[3] = Len(log')
  BY DEF PendingNewest
<1>1. ASSUME NEW kind \in Kinds, Emit(kind) PROVE p[2] <= gen'[p[1]] /\ p[3] = Len(log')
  <2>1. PICK s \in subscribers : p = <<s[1], s[2], Len(log) + 1>>
    BY <1>1 DEF Emit
  <2>2. s[2] = gen[s[1]] /\ gen[s[1]] \in Nat
    BY DEF OrderInv, NoLeakedSubscriber, TypeOK
  <2>3. Len(log') = Len(log) + 1 /\ gen' = gen
    BY <1>1 DEF Emit, OrderInv, TypeOK, streamVars
  <2> QED
    BY <2>1, <2>2, <2>3
<1>2. ASSUME pending' \subseteq pending, log' = log, gen' = gen
      PROVE  p[2] <= gen'[p[1]] /\ p[3] = Len(log')
  BY <1>2 DEF OrderInv, PendingNewest
<1>3. ASSUME NEW c \in Clients, Connect(c) PROVE p[2] <= gen'[p[1]] /\ p[3] = Len(log')
  <2>1. p \in pending /\ log' = log /\ gen' = [gen EXCEPT ![c] = gen[c] + 1]
    BY <1>3 DEF Connect
  <2>2. p[1] \in Clients /\ p[2] \in Nat /\ gen[p[1]] \in Nat /\ p[2] <= gen[p[1]] /\ p[3] = Len(log)
    BY <2>1 DEF OrderInv, PendingNewest, TypeOK
  <2>3. gen'[p[1]] = gen[p[1]] \/ gen'[p[1]] = gen[p[1]] + 1
    BY <2>1, <2>2 DEF OrderInv, TypeOK
  <2> QED
    BY <2>1, <2>2, <2>3
<1>4. ASSUME NEW q \in pending, Schedule(q) PROVE pending' \subseteq pending /\ log' = log /\ gen' = gen
  BY <1>4 DEF Schedule, streamVars
<1>5. ASSUME NEW c \in Clients, Deliver(c) \/ Stream(c) \/ Disconnect(c) \/ Reload(c)
      PROVE  pending' \subseteq pending /\ log' = log /\ gen' = gen
  BY <1>5 DEF Deliver, DeliverToRemoved, DeliverToQueue, DeliverToFull, Stream, StreamReplay,
              StreamLive, StreamEnd, Receive, Disconnect, Reload, streamVars
<1>6. CASE UNCHANGED vars
  BY <1>2, <1>6 DEF vars, hubVars, streamVars
<1> QED
  BY <1>1, <1>2, <1>3, <1>4, <1>5, <1>6 DEF Next

\* No step breaks the line of any page.
LEMMA NextKeepsPages ==
  ASSUME OrderInv, [Next]_vars, NEW c \in Clients
  PROVE  PageInv(c)'
<1>1. CASE UNCHANGED vars
  <2>1. PageInv(c) /\ Registered(c)' = Registered(c)
    BY <1>1 DEF OrderInv, Registered, vars, hubVars, streamVars
  <2> QED
    BY <1>1, <2>1, OtherPage DEF vars, hubVars, streamVars, pageVars
<1>2. ASSUME NEW kind \in Kinds, Emit(kind) PROVE PageInv(c)'
  BY <1>2, EmitKeeps
<1>3. ASSUME NEW p \in pending, Schedule(p) PROVE PageInv(c)'
  BY <1>3, ScheduleKeeps
<1>4. ASSUME NEW d \in Clients, Deliver(d) PROVE PageInv(c)'
  BY <1>4, DeliverToRemovedKeeps, DeliverToQueueKeeps, DeliverToFullKeeps DEF Deliver
<1>5. ASSUME NEW d \in Clients, Connect(d) PROVE PageInv(c)'
  BY <1>5, ConnectKeeps
<1>6. ASSUME NEW d \in Clients, Stream(d) PROVE PageInv(c)'
  BY <1>6, StreamReplayKeeps, StreamLiveKeeps, EndKeeps DEF Stream
<1>7. ASSUME NEW d \in Clients, Disconnect(d) \/ Reload(d) PROVE PageInv(c)'
  BY <1>7, EndKeeps
<1> QED
  BY <1>1, <1>2, <1>3, <1>4, <1>5, <1>6, <1>7 DEF Next

\* Replay, queue, callbacks and the event still to be scheduled are one line of
\* events behind every page, whatever the order of emits, deliveries, lost
\* connections and reconnections.
THEOREM UnbrokenLines == Spec => []OrderInv
<1>1. Init => OrderInv
  <2> SUFFICES ASSUME Init PROVE OrderInv
    OBVIOUS
  <2>1. TypeOK /\ NoLeakedSubscriber /\ PendingNewest
    BY DEF Init, TypeOK, Kinds, NoLeakedSubscriber, PendingNewest
  <2>2. ASSUME NEW c \in Clients PROVE PageInv(c)
    <3>1. /\ lastId[c] = 0 /\ calls[c] = <<>> /\ conn[c] = "idle" /\ log = <<>>
          /\ subscribers = {}
      BY DEF Init
    <3>2. Known(c) /\ Explained(c)
      BY <3>1 DEF Known, Explained, NoneAfter
    <3>3. ReplayInOrder(c) /\ LineUnbroken(c) /\ LineCut(c)
      BY <3>1 DEF ReplayInOrder, LineUnbroken, LineCut, Registered
    <3> QED
      BY <3>2, <3>3 DEF PageInv
  <2> QED
    BY <2>1, <2>2 DEF OrderInv
<1>2. OrderInv /\ [Next]_vars /\ TypeOK' => OrderInv'
  <2> SUFFICES ASSUME OrderInv, [Next]_vars, TypeOK' PROVE OrderInv'
    OBVIOUS
  <2>1. NoLeakedSubscriber'
    BY NextKeepsSubscribers DEF OrderInv
  <2> QED
    BY <2>1, PendingStaysNewest, NextKeepsPages DEF OrderInv
<1> QED
  BY <1>1, <1>2, TypeCorrect, PTL DEF Spec

\* The events a page lacks below its Last-Event-ID are those an overflow took out of
\* its queue: the switch from replay to live delivery and every reconnection lose
\* nothing.
THEOREM OnlyEvictedMissing == Spec => []MissingOnlyEvicted
<1>1. OrderInv => MissingOnlyEvicted
  BY DEF OrderInv, PageInv, Explained, MissingOnlyEvicted
<1> QED
  BY <1>1, UnbrokenLines, PTL

\* A page never receives an event older than one it has, unless it is reloaded.
THEOREM ReceivedInOrder == Spec => InOrder
<1> DEFINE Ordered == \A c \in Clients : faults' = faults => lastId'[c] >= lastId[c]
<1>1. OrderInv /\ [Next]_vars => [Ordered]_vars
  <2> SUFFICES ASSUME OrderInv, [Next]_vars, NEW c \in Clients, faults' = faults
               PROVE  lastId'[c] >= lastId[c]
    OBVIOUS
  <2>1. lastId[c] \in Nat /\ TypeOK
    BY DEF OrderInv, TypeOK
  <2>2. ASSUME lastId' = lastId PROVE lastId'[c] >= lastId[c]
    BY <2>1, <2>2
  <2>3. ASSUME NEW d \in Clients, StreamReplay(d) PROVE lastId'[c] >= lastId[c]
    <3>1. TypeOK /\ Receive(d, replayNext[d]) /\ conn[d] = "open" /\ ReplayLeft(d)
      BY <2>1, <2>3 DEF StreamReplay
    <3>2. CASE d /= c
      <4>1. lastId'[c] = lastId[c]
        BY <3>1, <3>2, ReceiveElsewhere, Zenon
      <4> QED
        BY <2>1, <4>1
    <3>3. CASE d = c
      <4>1. lastId'[c] = replayNext[c]
        BY <3>1, <3>3, ReceiveHere, Zenon
      <4>2. lastId[c] = replayNext[c] - 1 /\ replayNext[c] \in Nat
        BY <3>1, <3>3 DEF OrderInv, PageInv, ReplayInOrder, TypeOK
      <4> QED
        BY <4>1, <4>2
    <3> QED
      BY <3>2, <3>3
  <2>4. ASSUME NEW d \in Clients, StreamLive(d) PROVE lastId'[c] >= lastId[c]
    <3>1. TypeOK /\ Receive(d, Head(queue[d]))
      BY <2>1, <2>4 DEF StreamLive
    <3>2. CASE d /= c
      <4>1. lastId'[c] = lastId[c]
        BY <3>1, <3>2, ReceiveElsewhere, Zenon
      <4> QED
        BY <2>1, <4>1
    <3>3. CASE d = c
      <4>1. lastId'[c] = Head(queue[c])
        BY <3>1, <3>3, ReceiveHere, Zenon
      <4>2. \E skip \in {0, 1} : Head(queue[c]) = lastId[c] + skip + 1
        BY <2>4, <3>3, HeadIsNext
      <4> QED
        BY <2>1, <4>1, <4>2
    <3> QED
      BY <3>2, <3>3
  <2>5. ASSUME NEW d \in Clients, Reload(d) PROVE FALSE
    <3>1. faults' = faults + 1 /\ faults \in Nat
      BY <2>1, <2>5 DEF Reload, TypeOK
    <3> QED
      BY <3>1
  <2>6. ASSUME \/ UNCHANGED vars
               \/ \E kind \in Kinds : Emit(kind)
               \/ \E p \in pending : Schedule(p)
               \/ \E d \in Clients : Deliver(d) \/ Connect(d) \/ StreamEnd(d) \/ Disconnect(d)
        PROVE  lastId' = lastId
    BY <2>6 DEF vars, Emit, Schedule, Deliver, DeliverToRemoved, DeliverToQueue, DeliverToFull,
                Connect, StreamEnd, Disconnect, pageVars
  <2> QED
    BY <2>2, <2>3, <2>4, <2>5, <2>6 DEF Next, Stream
<1> QED
  BY <1>1, UnbrokenLines, PTL DEF Spec, InOrder

-----------------------------------------------------------------------------
(***************************************************************************)
(* The feed.  The variables of EventFeed are those of the same name here,  *)
(* so the refinement mapping is the identity; what has to be shown is that *)
(* the streams deliver as the feed allows.                                 *)
(***************************************************************************)

\* A page that still follows the run has not seen an event that closes it.
StillFollowing == \A c \in Clients : conn[c] /= "done" => Feed!Following(c)

FeedInv == OrderInv /\ StillFollowing

\* The event a stream hands to its page is stored, and what the page passes over
\* was taken out of its queue.
LEMMA NextOfFeed ==
  ASSUME OrderInv, NEW c \in Clients, StreamReplay(c) \/ StreamLive(c)
  PROVE  \E n \in lastId[c] + 1 .. Len(log) :
           Receive(c, n) /\ lastId[c] + 1 .. n - 1 \subseteq evicted[c]
<1>1. PageInv(c) /\ TypeOK /\ Len(log) \in Nat /\ lastId[c] \in Nat /\ replayNext[c] \in Nat
      /\ replayLast[c] \in Nat
  BY PageTypes DEF OrderInv
<1>2. CASE StreamReplay(c)
  <2>1. Receive(c, replayNext[c])
    BY <1>2 DEF StreamReplay
  <2>2. /\ lastId[c] = replayNext[c] - 1 /\ replayNext[c] <= replayLast[c]
        /\ replayLast[c] <= Len(log)
    BY <1>1, <1>2 DEF StreamReplay, PageInv, ReplayInOrder, ReplayLeft
  <2>3. replayNext[c] \in lastId[c] + 1 .. Len(log) /\ lastId[c] + 1 .. replayNext[c] - 1 = {}
    BY <1>1, <2>2
  <2> QED
    BY <2>1, <2>3
<1>3. CASE StreamLive(c)
  <2>1. Receive(c, Head(queue[c]))
    BY <1>3 DEF StreamLive
  <2>2. PICK skip \in {0, 1} :
          /\ Head(queue[c]) = lastId[c] + skip + 1
          /\ Head(queue[c]) <= Len(log)
          /\ skip = 1 => lastId[c] + 1 \in evicted[c]
    BY <1>3, HeadIsNext
  <2>3. Head(queue[c]) \in lastId[c] + 1 .. Len(log)
    BY <1>1, <2>2
  <2>4. lastId[c] + 1 .. Head(queue[c]) - 1 \subseteq {lastId[c] + 1} /\ (skip = 0 => lastId[c] + 1 .. Head(queue[c]) - 1 = {})
    BY <1>1, <2>2
  <2>5. lastId[c] + 1 .. Head(queue[c]) - 1 \subseteq evicted[c]
    BY <2>2, <2>4
  <2> QED
    BY <2>1, <2>3, <2>5
<1> QED
  BY <1>2, <1>3

LEMMA FollowingInitially == Init => StillFollowing
BY DEF Init, StillFollowing, Feed!Following

LEMMA FollowingKept ==
  ASSUME FeedInv, [Next]_vars
  PROVE  StillFollowing'
<1> SUFFICES ASSUME NEW c \in Clients, conn'[c] /= "done", lastId'[c] \in DOMAIN log'
             PROVE  log'[lastId'[c]] \notin Closing
  BY DEF StillFollowing, Feed!Following
<1>1. PageInv(c) /\ TypeOK /\ Len(log) \in Nat /\ lastId[c] \in Nat /\ log \in Seq(Kinds)
  BY PageTypes DEF FeedInv, OrderInv, TypeOK
<1>2. ASSUME lastId'[c] = lastId[c], log' = log, conn[c] /= "done"
      PROVE  log'[lastId'[c]] \notin Closing
  BY <1>2 DEF FeedInv, StillFollowing, Feed!Following
<1>3. ASSUME NEW kind \in Kinds, Emit(kind)
      PROVE  log'[lastId'[c]] \notin Closing
  <2>1. log' = Append(log, kind) /\ lastId' = lastId /\ conn' = conn
    BY <1>3 DEF Emit, pageVars
  <2>2. lastId[c] <= Len(log)
    BY <1>1 DEF PageInv, Known
  <2>3. lastId[c] \in DOMAIN log /\ log'[lastId[c]] = log[lastId[c]]
    BY <1>1, <2>1, <2>2
  <2> QED
    BY <2>1, <2>3 DEF FeedInv, StillFollowing, Feed!Following
<1>4. ASSUME NEW p \in pending, Schedule(p)
      PROVE  log'[lastId'[c]] \notin Closing
  BY <1>2, <1>4 DEF Schedule, pageVars
<1>5. ASSUME NEW d \in Clients, Deliver(d)
      PROVE  log'[lastId'[c]] \notin Closing
  BY <1>2, <1>5 DEF Deliver, DeliverToRemoved, DeliverToQueue, DeliverToFull, pageVars
<1>6. ASSUME NEW d \in Clients, Connect(d)
      PROVE  log'[lastId'[c]] \notin Closing
  BY <1>1, <1>2, <1>6 DEF Connect, TypeOK
<1>7. ASSUME NEW d \in Clients, StreamReplay(d) \/ StreamLive(d)
      PROVE  log'[lastId'[c]] \notin Closing
  <2>1. PICK n : Receive(d, n)
    BY <1>7 DEF StreamReplay, StreamLive
  <2>2. /\ lastId' = [lastId EXCEPT ![d] = n] /\ log' = log
        /\ log[n] \in Closing => conn' = [conn EXCEPT ![d] = "done"]
        /\ log[n] \notin Closing => conn' = conn
    BY <2>1 DEF Receive
  <2>3. CASE d = c
    BY <1>1, <2>2, <2>3 DEF TypeOK
  <2>4. CASE d /= c
    BY <1>1, <1>2, <2>2, <2>4 DEF TypeOK
  <2> QED
    BY <2>3, <2>4
<1>8. ASSUME NEW d \in Clients, StreamEnd(d) \/ Disconnect(d)
      PROVE  log'[lastId'[c]] \notin Closing
  <2>1. lastId' = lastId /\ log' = log /\ conn[d] = "open" /\ conn' = [conn EXCEPT ![d] = "idle"]
    BY <1>8 DEF StreamEnd, Disconnect
  <2> QED
    BY <1>1, <1>2, <2>1 DEF TypeOK
<1>9. ASSUME NEW d \in Clients, Reload(d)
      PROVE  log'[lastId'[c]] \notin Closing
  <2>1. lastId' = [lastId EXCEPT ![d] = 0] /\ log' = log /\ conn' = [conn EXCEPT ![d] = "idle"]
    BY <1>9 DEF Reload
  <2>2. d /= c
    BY <1>1, <2>1 DEF TypeOK
  <2> QED
    BY <1>1, <1>2, <2>1, <2>2 DEF TypeOK
<1>10. CASE UNCHANGED vars
  BY <1>2, <1>10 DEF vars, hubVars, pageVars
<1> QED
  BY <1>3, <1>4, <1>5, <1>6, <1>7, <1>8, <1>9, <1>10 DEF Next, Stream

\* An overflow takes an event out that the page has not seen.
LEMMA OverflowEvicts ==
  ASSUME FeedInv, NEW c \in Clients, DeliverToFull(c)
  PROVE  Feed!Evict(c)
<1>1. /\ UNCHANGED <<log, lastId, seen>>
      /\ evicted' = [evicted EXCEPT ![c] = @ \cup {Head(queue[c])}]
      /\ NextCall(c) /\ <<c, Head(calls[c])[1]>> \in subscribers /\ Len(queue[c]) >= QueueSize
  BY DEF DeliverToFull, pageVars
<1>2. /\ PageInv(c) /\ TypeOK /\ queue[c] \in Seq(Nat) /\ Len(queue[c]) \in Nat /\ Len(log) \in Nat
      /\ lastId[c] \in Nat /\ Base(c) \in Nat /\ Delivered(c) \in Nat /\ replayNext[c] \in Nat
      /\ replayLast[c] \in Nat
  BY PageTypes, SeqTypes DEF FeedInv, OrderInv
<1>3. Registered(c) /\ Delivered(c) < Len(log)
  BY <1>1, NextInLine DEF FeedInv
<1>4. Len(queue[c]) >= 1
  BY <1>1, <1>2, QueueSizeAssumption
<1>5. Head(queue[c]) = Base(c) + 1
  BY <1>2, <1>3, <1>4 DEF PageInv, LineUnbroken, Consecutive
<1>6. lastId[c] <= Base(c)
  <2>1. conn[c] = "open"
    BY <1>3 DEF FeedInv, OrderInv, NoLeakedSubscriber, Registered
  <2> QED
    BY <1>2, <2>1 DEF PageInv, ReplayInOrder, Base, ReplayLeft
<1>7. Head(queue[c]) \in lastId[c] + 1 .. Len(log)
  BY <1>2, <1>3, <1>4, <1>5, <1>6 DEF Delivered
<1> QED
  BY <1>1, <1>7 DEF Feed!Evict

LEMMA StepOfFeed ==
  ASSUME FeedInv, [Next]_vars
  PROVE  [Feed!Next]_(Feed!vars)
<1>1. ASSUME UNCHANGED <<log, lastId, seen, evicted>>
      PROVE  UNCHANGED Feed!vars
  BY <1>1 DEF Feed!vars
<1>2. ASSUME NEW kind \in Kinds, Emit(kind)
      PROVE  Feed!Next
  BY <1>2 DEF Emit, pageVars, Feed!Next, Feed!Publish
<1>3. ASSUME \/ UNCHANGED vars
             \/ \E p \in pending : Schedule(p)
             \/ \E d \in Clients : DeliverToRemoved(d) \/ DeliverToQueue(d) \/ Connect(d) \/ StreamEnd(d) \/ Disconnect(d)
      PROVE  UNCHANGED <<log, lastId, seen, evicted>>
  BY <1>3 DEF vars, hubVars, pageVars, Schedule, DeliverToRemoved, DeliverToQueue, Connect, StreamEnd, Disconnect
<1>4. ASSUME NEW c \in Clients, DeliverToFull(c)
      PROVE  Feed!Next
  BY <1>4, OverflowEvicts DEF Feed!Next
<1>5. ASSUME NEW c \in Clients, StreamReplay(c) \/ StreamLive(c)
      PROVE  Feed!Next
  <2>1. PICK n \in lastId[c] + 1 .. Len(log) :
          Receive(c, n) /\ lastId[c] + 1 .. n - 1 \subseteq evicted[c]
    BY <1>5, NextOfFeed DEF FeedInv
  <2>2. conn[c] = "open"
    BY <1>5 DEF StreamReplay, StreamLive
  <2>3. Feed!Following(c)
    BY <2>2 DEF FeedInv, StillFollowing
  <2>4. /\ lastId' = [lastId EXCEPT ![c] = n] /\ seen' = [seen EXCEPT ![c] = @ \cup {n}]
        /\ UNCHANGED <<log, evicted>>
    BY <2>1 DEF Receive
  <2>5. Feed!Observe(c)
    BY <2>1, <2>3, <2>4 DEF Feed!Observe
  <2> QED
    BY <2>5 DEF Feed!Next
<1>6. ASSUME NEW c \in Clients, Reload(c)
      PROVE  Feed!Next
  BY <1>6 DEF Reload, Feed!Next, Feed!Restart
<1> QED
  BY <1>1, <1>2, <1>3, <1>4, <1>5, <1>6 DEF Next, Deliver, Stream

\* Hub, streams and pages are an ordered feed: a page sees the events of the run one
\* by one up to the one that closes it, and passes over none but those that
\* overflowed (the safety of ImplementsFeed).
THEOREM FeedImplemented == Spec => Feed!Spec
<1>1. Init => Feed!Init
  BY DEF Init, Feed!Init
<1>2. FeedInv /\ [Next]_vars => [Feed!Next]_(Feed!vars)
  BY StepOfFeed
<1>3. FeedInv /\ [Next]_vars => StillFollowing'
  BY FollowingKept
<1> QED
  BY <1>1, <1>2, <1>3, FollowingInitially, UnbrokenLines, PTL DEF Spec, Feed!Spec, FeedInv
=============================================================================
