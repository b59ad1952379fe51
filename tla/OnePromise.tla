----------------------------- MODULE OnePromise -----------------------------
(***************************************************************************)
(* What docs/idempotency.md promises the callers of the two endpoints that  *)
(* create runs: all answers to one key, until its record expires, name the  *)
(* same run and are for the same request; a different request under the key *)
(* is told so.                                                              *)
(***************************************************************************)
CONSTANTS Keys, Prints, Runs, None

VARIABLES
  promise,  \* per key, the request and the run it stands for, or None
  told      \* the answers given: key, request, and a run or None for a conflict

vars == <<promise, told>>

Init == promise = [k \in Keys |-> None] /\ told = {}

\* The first answer to a key fixes what it stands for.
First(k, f, r) ==
  /\ promise[k] = None
  /\ \A a \in told : a.run /= r
  /\ promise' = [promise EXCEPT ![k] = [print |-> f, run |-> r]]
  /\ told' = told \cup {[key |-> k, print |-> f, run |-> r]}

Repeat(k, f) ==
  /\ promise[k] /= None
  /\ told' = told \cup {[key |-> k, print |-> f,
                         run |-> IF promise[k].print = f THEN promise[k].run ELSE None]}
  /\ UNCHANGED promise

Expire(k) ==
  /\ promise[k] /= None
  /\ promise' = [promise EXCEPT ![k] = None]
  /\ UNCHANGED told

Next ==
  \E k \in Keys :
    \/ Expire(k)
    \/ \E f \in Prints : Repeat(k, f) \/ \E r \in Runs : First(k, f, r)

Spec == Init /\ [][Next]_vars
=============================================================================
