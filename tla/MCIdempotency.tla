---------------------------- MODULE MCIdempotency ----------------------------
\* Three requests on two keys with two different contents.
EXTENDS Idempotency

CONSTANTS c1, c2, c3, k1, k2, f1, f2

ThreeCalls == {c1, c2, c3}
TwoKeys == {k1, k2}
TwoPrints == {f1, f2}
=============================================================================
