------------------------------ MODULE Selections ------------------------------
(* Sequences made from others, said so that a proof can speak of them.        *)
EXTENDS Naturals, Sequences, FiniteSets

(* Those elements of a sequence that pass a test, in their order.  SelectSeq  *)
(* says it by a recursion; here the positions that pass are a set of numbers, *)
(* which a proof can count.                                                   *)
Place(passing, i) == Cardinality({j \in passing : j <= i})
Nth(passing, k) == CHOOSE i \in passing : Place(passing, i) = k
Picked(s, passing) == [k \in 1..Cardinality(passing) |-> s[Nth(passing, k)]]
Within(s, wanted) == Picked(s, {i \in DOMAIN s : s[i] \in wanted})

(* The sequences of a sequence, one behind the other.                        *)
Joined(ss) ==
    LET upTo[n \in 0..Len(ss)] == IF n = 0 THEN <<>> ELSE upTo[n - 1] \o ss[n]
    IN upTo[Len(ss)]
=============================================================================
