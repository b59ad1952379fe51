----------------------------- MODULE Idempotency -----------------------------
(***************************************************************************)
(* PostgresIdempotencyRegistry.resolve (idempotency.py) as create_run and   *)
(* create_advertising_run (api.py) call it: concurrent HTTP requests, in any *)
(* number of API processes, on one table.                                   *)
(*                                                                         *)
(* A key stands for a namespace and a key.  A run is named by the call that *)
(* created it, since a call creates at most one.  Calls with a malformed    *)
(* key are refused before the table is read and are left out.               *)
(***************************************************************************)
EXTENDS Naturals, FiniteSets

CONSTANTS
  Keys,
  Prints,     \* fingerprints of requests
  Calls,      \* the HTTP requests
  MaxFaults,  \* bound: processes or database connections that die
  None

ASSUME NoneAssumption == None \notin Calls
ASSUME NoneIsNoRow ==
  \A f \in Prints, c \in Calls : /\ [print |-> f, run |-> c, expired |-> FALSE] /= None
                                /\ [print |-> f, run |-> c] /= None
ASSUME BoundsAssumption == MaxFaults \in Nat

VARIABLES
  table,   \* committed rows of idempotency_records: [print, run, expired] or None
  held,    \* the call whose open transaction has inserted the key, or None
  call,    \* per HTTP request: pc, key, print, the run it was told
  runs,    \* calls that have created a run
  told,    \* history: the answers with a run, and the conflicts (run None)
  faults

vars == <<table, held, call, runs, told, faults>>

Fresh == [pc |-> "idle", key |-> None, print |-> None]

Init ==
  /\ table = [k \in Keys |-> None]
  /\ held = [k \in Keys |-> None]
  /\ call = [c \in Calls |-> Fresh]
  /\ runs = {}
  /\ told = {}
  /\ faults = 0

\* Between the INSERT and the commit.
Submitting(c) == call[c].pc \in {"reserved", "created"}

Answer(k, f, r) == [key |-> k, print |-> f, run |-> r]

\* A request arrives: its transaction begins.
Begin(c, k, f) ==
  /\ call[c].pc = "idle"
  /\ call' = [call EXCEPT ![c] = [pc |-> "begun", key |-> k, print |-> f]]
  /\ UNCHANGED <<table, held, runs, told, faults>>

\* INSERT ... ON CONFLICT waits for the transaction that has inserted the key.
Unlocked(c) == held[call[c].key] = None

\* A row that the DELETE of expired rows leaves.
Valid(k) == table[k] /= None /\ ~table[k].expired

\* The key is free: DELETE and INSERT, a reservation no one else sees.
Reserve(c) ==
  /\ call[c].pc = "begun"
  /\ Unlocked(c)
  /\ ~Valid(call[c].key)
  /\ held' = [held EXCEPT ![call[c].key] = c]
  /\ call' = [call EXCEPT ![c].pc = "reserved"]
  /\ UNCHANGED <<table, runs, told, faults>>

\* factory(): the run is submitted, in stores and transactions of its own.
Create(c) ==
  /\ call[c].pc = "reserved"
  /\ runs' = runs \cup {c}
  /\ call' = [call EXCEPT ![c].pc = "created"]
  /\ UNCHANGED <<table, held, told, faults>>

\* Mutated form of CreateRaises: it can raise when the run is there.
CreateRaisesLate(c) ==
  /\ Submitting(c)
  /\ held' = [held EXCEPT ![call[c].key] = None]
  /\ call' = [call EXCEPT ![c].pc = "refused"]
  /\ UNCHANGED <<table, runs, told, faults>>

\* factory() raises: the request is refused and the reservation rolled back.
CreateRaises(c) ==
  /\ call[c].pc = "reserved"
  /\ held' = [held EXCEPT ![call[c].key] = None]
  /\ call' = [call EXCEPT ![c].pc = "refused"]
  /\ UNCHANGED <<table, runs, told, faults>>

\* UPDATE of the payload and commit; the answer is the new run.
Commit(c) ==
  LET k == call[c].key  f == call[c].print
  IN /\ call[c].pc = "created"
     /\ table' = [table EXCEPT ![k] = [print |-> f, run |-> c, expired |-> FALSE]]
     /\ held' = [held EXCEPT ![k] = None]
     /\ told' = told \cup {Answer(k, f, c)}
     /\ call' = [call EXCEPT ![c].pc = "answered"]
     /\ UNCHANGED <<runs, faults>>

\* Mutated form of Replayed: the fingerprint is not compared.
ReplayedAnyPrint(c) == table[call[c].key].run

\* What a call is told of a row that is there: its run, or None for a conflict.
Replayed(c) ==
  IF table[call[c].key].print = call[c].print THEN table[call[c].key].run ELSE None

Replay(c) ==
  /\ call[c].pc = "begun"
  /\ Unlocked(c)
  /\ Valid(call[c].key)
  /\ told' = told \cup {Answer(call[c].key, call[c].print, Replayed(c))}
  /\ call' = [call EXCEPT ![c].pc = "answered"]
  /\ UNCHANGED <<table, held, runs, faults>>

\* Mutated form of Released: a rolled back reservation stays.
ReleasedNever(c) == held

\* The rollback takes the reservation with it.
Released(c) == [k \in Keys |-> IF held[k] = c THEN None ELSE held[k]]

\* The process dies, or the database refuses the statement or the commit (503):
\* the transaction is rolled back, the run of the factory stays.
Aborted(c) ==
  /\ faults < MaxFaults
  /\ call[c].pc \in {"begun", "reserved", "created"}
  /\ faults' = faults + 1
  /\ held' = Released(c)
  /\ call' = [call EXCEPT ![c].pc = "refused"]
  /\ UNCHANGED <<table, runs, told>>

\* expires_at passes.
Expire(k) ==
  /\ Valid(k)
  /\ table' = [table EXCEPT ![k].expired = TRUE]
  /\ UNCHANGED <<held, call, runs, told, faults>>

Resolve(c) == Reserve(c) \/ Create(c) \/ Commit(c) \/ Replay(c)

Next ==
  \/ \E c \in Calls :
       \/ \E k \in Keys, f \in Prints : Begin(c, k, f)
       \/ Resolve(c) \/ CreateRaises(c) \/ Aborted(c)
  \/ \E k \in Keys : Expire(k)

Fairness == \A c \in Calls : WF_vars(Resolve(c))

Spec == Init /\ [][Next]_vars
FairSpec == Spec /\ Fairness

-----------------------------------------------------------------------------
(***************************************************************************)
(* Properties.                                                              *)
(***************************************************************************)

TypeOK ==
  /\ table \in [Keys -> [print : Prints, run : Calls, expired : BOOLEAN] \cup {None}]
  /\ held \in [Keys -> Calls \cup {None}]
  /\ call \in [Calls -> [pc : {"idle", "begun", "reserved", "created", "answered", "refused"},
                         key : Keys \cup {None}, print : Prints \cup {None}]]
  /\ runs \subseteq Calls
  /\ told \subseteq [key : Keys, print : Prints, run : Calls \cup {None}]
  /\ faults \in Nat

\* Two requests, in whatever processes, are never between INSERT and commit for
\* one key: the factory does not run for a key beside another.
OneFactory ==
  \A c, d \in Calls : Submitting(c) /\ Submitting(d) /\ call[c].key = call[d].key => c = d

\* A run that no answer names was made by a call that died between the factory
\* and its commit: no other path loses or doubles one.
OrphansAreAborted ==
  \A c \in runs :
    (\E a \in told : a.run = c) \/ call[c].pc = "created" \/ (call[c].pc = "refused" /\ faults > 0)

\* A request that waits behind another for its key is answered, whatever becomes
\* of the other.
EveryCallEnds == \A c \in Calls : call[c].pc = "begun" ~> call[c].pc \in {"answered", "refused"}

\* What the table promises for a key.
Promised(k) == IF Valid(k) THEN [print |-> table[k].print, run |-> table[k].run] ELSE None

Promises == INSTANCE OnePromise WITH
  Runs <- Calls,
  promise <- [k \in Keys |-> Promised(k)]

\* docs/idempotency.md, rules 2 to 4: until a key's record expires every answer to
\* it is for the same request and names the run of the first.
ImplementsPromise == Promises!Spec
=============================================================================
