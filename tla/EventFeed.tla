------------------------------ MODULE EventFeed -----------------------------
(***************************************************************************)
(* What the event stream of a run promises (README.md: "the server first   *)
(* replays the missed events, then switches to the live subscription"): a  *)
(* page sees the events of the run one by one, in order and without gaps,  *)
(* up to the first event that closes the stream.  Only an event that       *)
(* overflowed the queue of the page may be missing.                        *)
(***************************************************************************)
EXTENDS Naturals, Sequences

CONSTANTS Clients, Kinds, Closing

VARIABLES log, lastId, seen, evicted

vars == <<log, lastId, seen, evicted>>

Following(c) == \A i \in DOMAIN log : i = lastId[c] => log[i] \notin Closing

Init ==
  /\ log = <<>>
  /\ lastId = [c \in Clients |-> 0]
  /\ seen = [c \in Clients |-> {}]
  /\ evicted = [c \in Clients |-> {}]

Publish(kind) ==
  /\ log' = Append(log, kind)
  /\ UNCHANGED <<lastId, seen, evicted>>

\* An event that still waits for the page is taken out of its full queue.
Evict(c) ==
  /\ \E i \in (lastId[c] + 1) .. Len(log) : evicted' = [evicted EXCEPT ![c] = @ \cup {i}]
  /\ UNCHANGED <<log, lastId, seen>>

\* The page sees the next event; it passes over none but evicted ones.
Observe(c) ==
  /\ Following(c)
  /\ \E i \in (lastId[c] + 1) .. Len(log) :
        /\ (lastId[c] + 1) .. (i - 1) \subseteq evicted[c]
        /\ lastId' = [lastId EXCEPT ![c] = i]
        /\ seen' = [seen EXCEPT ![c] = @ \cup {i}]
  /\ UNCHANGED <<log, evicted>>

\* The page starts over.
Restart(c) ==
  /\ lastId' = [lastId EXCEPT ![c] = 0]
  /\ seen' = [seen EXCEPT ![c] = {}]
  /\ evicted' = [evicted EXCEPT ![c] = {}]
  /\ UNCHANGED log

Next ==
  \/ \E kind \in Kinds : Publish(kind)
  \/ \E c \in Clients : Evict(c) \/ Observe(c) \/ Restart(c)

Spec == Init /\ [][Next]_vars

FairSpec == Spec /\ \A c \in Clients : WF_vars(Observe(c))
=============================================================================
