------------------------------ MODULE WeightShares ------------------------------
(***************************************************************************)
(* How a customs declaration splits the weight of a category over its      *)
(* items: each item but the last takes its part, rounded half up to a      *)
(* hundredth, and the last takes what is left                              *)
(* (customs_declaration/service.py, european_customs_declaration/service.py).*)
(* Weights are integers, in hundredths of a kilogram.                      *)
(***************************************************************************)
EXTENDS Integers, Sequences, Functions

HalfUp(a, b) == (2 * a + b) \div (2 * b)
Total(f) == SumFunction(f)
Net(gross) == HalfUp(92 * gross, 100)

(* parts: what each item weighs by the catalog.                              *)
Rounded(total, parts) == [k \in DOMAIN parts |-> HalfUp(total * parts[k], Total(parts))]
Shares(total, parts) ==
    LET rounded == Rounded(total, parts)  n == Len(parts) IN
    [k \in DOMAIN parts |-> IF k < n THEN rounded[k] ELSE total - Total(SubSeq(rounded, 1, n - 1))]

(* Nothing is lost by the rounding, no item but the last is off by more than *)
(* half a hundredth, and none but the last weighs more net than gross.       *)
Split(gross, parts, grossShares, netShares) ==
    /\ Total(grossShares) = gross /\ Total(netShares) = Net(gross)
    /\ \A k \in 1..(Len(parts) - 1) :
          /\ grossShares[k] \in 0..gross /\ netShares[k] <= grossShares[k]
          /\ 2 * (grossShares[k] * Total(parts) - gross * parts[k]) \in (-Total(parts))..Total(parts)
=============================================================================
