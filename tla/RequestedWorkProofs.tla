-------------------------- MODULE RequestedWorkProofs --------------------------
(***************************************************************************)
(* Proofs about what becomes of a request: the work it asks for - advice,  *)
(* reports, declarations - and, in the last part, the registry that keeps  *)
(* it from being started twice.  Each part speaks of one of them for       *)
(* itself; its last theorem is about all of RequestedWork.                 *)
(***************************************************************************)
EXTENDS Idempotency, RequestedWork, WeightShares, FiniteSetTheorems, SequenceTheorems, TLAPS

-----------------------------------------------------------------------------
(***************************************************************************)
(* Induction and sums.                                                     *)
(***************************************************************************)

(* Induction.  The library states it with an operator as its parameter; here *)
(* it is a set of numbers, and holds because a finite set is not injected    *)
(* into a proper part of itself.                                             *)
LEMMA Induced ==
  ASSUME NEW T \in SUBSET Nat, 0 \in T, \A n \in T : n + 1 \in T
  PROVE  T = Nat
<1> SUFFICES ASSUME NEW n \in Nat, n \notin T
             PROVE  FALSE
  OBVIOUS
<1> DEFINE D == T \cap (0 .. n)
           f == [m \in D |-> m + 1]
<1>1. IsFiniteSet(D)
  <2>1. IsFiniteSet(0 .. n)
    BY FS_Interval
  <2> QED
    BY <2>1, FS_Subset
<1>2. f \in [D -> D]
  <2> SUFFICES ASSUME NEW m \in D PROVE m + 1 \in D
    OBVIOUS
  <2>1. m + 1 \in T /\ m # n /\ m \in 0 .. n
    OBVIOUS
  <2> QED
    BY <2>1
<1>3. f \in Injection(D, D)
  <2>1. \A a, b \in D : f[a] = f[b] => a = b
    OBVIOUS
  <2> QED
    BY <1>2, <2>1 DEF Injection, IsInjective
<1>4. f \in Surjection(D, D)
  BY <1>1, <1>3, FS_Injection
<1>5. 0 \in D
  OBVIOUS
<1>6. PICK m \in D : f[m] = 0
  BY <1>4, <1>5 DEF Surjection
<1> QED
  BY <1>6

(* Of finitely many numbers one is the greatest.                             *)
LEMMA Greatest ==
  ASSUME NEW n \in Nat, NEW S \in SUBSET (1 .. n), S # {}
  PROVE  \E k \in S : \A l \in S : l <= k
<1> DEFINE T == {m \in Nat : \A U \in SUBSET (1 .. m) : U # {} => \E k \in U : \A l \in U : l <= k}
<1>1. 0 \in T
  <2>1. 1 .. 0 = {}
    OBVIOUS
  <2> QED
    BY <2>1
<1>2. ASSUME NEW m \in T PROVE m + 1 \in T
  <2> SUFFICES ASSUME NEW U \in SUBSET (1 .. m + 1), U # {}
               PROVE  \E k \in U : \A l \in U : l <= k
    OBVIOUS
  <2>1. CASE m + 1 \in U
    BY <2>1
  <2>2. CASE m + 1 \notin U
    <3>1. U \in SUBSET (1 .. m)
      BY <2>2
    <3> QED
      BY <3>1
  <2> QED
    BY <2>1, <2>2
<1>3. T = Nat
  <2> HIDE DEF T
  <2>1. T \in SUBSET Nat
    BY DEF T
  <2> QED
    BY <1>1, <1>2, <2>1, Induced
<1>4. n \in T
  BY <1>3
<1> QED
  BY <1>4

(* The sum of the values of a function over a set.                           *)
Sum(m, S) == SumFunctionOnSet(m, S)

(* A sum takes the elements of its set one after the other, whichever it     *)
(* chooses next; Adds says that g does so for all sets in D.                 *)
Some(s) == CHOOSE x \in s : TRUE
Added(m, g, s) == IF s = {} THEN 0 ELSE m[Some(s)] + g[s \ {Some(s)}]
Adds(m, g, D) == g = [s \in D |-> Added(m, g, s)]

(* The sum as the module of functions computes it.                            *)
LEMMA SumDef ==
  ASSUME NEW m, NEW S
  PROVE  Sum(m, S) = (CHOOSE g : Adds(m, g, SUBSET S))[S]
BY DEF Sum, SumFunctionOnSet, FoldFunctionOnSet, MapThenFoldSet, Adds, Added, Some

(* The picked member of a set that is not empty is in it.                    *)
LEMMA SomeIn ==
  ASSUME NEW s, s # {}
  PROVE  Some(s) \in s
BY DEF Some

(* There is a function that adds over all subsets of a finite set.           *)
LEMMA Adding ==
  ASSUME NEW m, NEW S, IsFiniteSet(S)
  PROVE  \E g : Adds(m, g, SUBSET S)
<1> DEFINE D(n) == {s \in SUBSET S : Cardinality(s) <= n}
           P(n) == \E g : Adds(m, g, D(n))
           T == {n \in Nat : P(n)}
<1>0. \A s \in SUBSET S : IsFiniteSet(s) /\ Cardinality(s) \in Nat /\ Cardinality(s) <= Cardinality(S)
  BY FS_Subset, FS_CardinalityType
<1>1. 0 \in T
  <2>1. D(0) = {{}}
    BY <1>0, FS_EmptySet
  <2>2. Adds(m, [s \in {{}} |-> 0], {{}})
    BY DEF Adds, Added
  <2> QED
    BY <2>1, <2>2
<1>2. ASSUME NEW n \in T PROVE n + 1 \in T
  <2>1. PICK g : Adds(m, g, D(n))
    OBVIOUS
  <2> DEFINE h == [s \in D(n + 1) |-> IF s \in D(n) THEN g[s] ELSE Added(m, g, s)]
  <2>2. ASSUME NEW s \in D(n + 1), s # {}
        PROVE  s \ {Some(s)} \in D(n)
    <3>1. Some(s) \in s
      BY <2>2, SomeIn
    <3>2. Cardinality(s \ {Some(s)}) = Cardinality(s) - 1
      BY <1>0, <3>1, FS_RemoveElement
    <3> QED
      BY <1>0, <3>2
  <2>3. D(n) \subseteq D(n + 1)
    BY <1>0
  <2>4. \A s \in D(n) : g[s] = Added(m, g, s)
    BY <2>1 DEF Adds
  <2>5. ASSUME NEW s \in D(n + 1)
        PROVE  h[s] = Added(m, h, s)
    <3>1. h[s] = Added(m, g, s)
      BY <2>4
    <3>2. CASE s = {}
      BY <3>1, <3>2 DEF Added
    <3>3. CASE s # {}
      <4>1. h[s \ {Some(s)}] = g[s \ {Some(s)}]
        BY <2>2, <2>3, <3>3
      <4> QED
        BY <3>1, <3>3, <4>1 DEF Added
    <3> QED
      BY <3>2, <3>3
  <2>6. Adds(m, h, D(n + 1))
    BY <2>5 DEF Adds
  <2> HIDE DEF h
  <2>7. P(n + 1)
    BY <2>6
  <2> HIDE DEF P
  <2> QED
    BY <2>7
<1>3. T = Nat
  <2> HIDE DEF T
  <2>1. T \in SUBSET Nat
    BY DEF T
  <2> QED
    BY <1>1, <1>2, <2>1, Induced
<1>4. Cardinality(S) \in T
  BY <1>0, <1>3
<1>5. D(Cardinality(S)) = SUBSET S
  BY <1>0
<1> QED
  BY <1>4, <1>5

(* Two such functions agree where both are defined.                          *)
LEMMA AddedAlike ==
  ASSUME NEW m, NEW A, NEW B, IsFiniteSet(A), NEW g, NEW h, Adds(m, g, SUBSET A), Adds(m, h, SUBSET B),
         NEW U \in SUBSET A, U \in SUBSET B
  PROVE  g[U] = h[U]
<1> DEFINE T == {n \in Nat : \A s \in SUBSET A : s \in SUBSET B /\ Cardinality(s) <= n => g[s] = h[s]}
<1>0. \A s \in SUBSET A : IsFiniteSet(s) /\ Cardinality(s) \in Nat
  BY FS_Subset, FS_CardinalityType
<1>1. \A s : (s \in SUBSET A => g[s] = Added(m, g, s)) /\ (s \in SUBSET B => h[s] = Added(m, h, s))
  BY DEF Adds
<1>2. 0 \in T
  <2>1. \A s \in SUBSET A : Cardinality(s) <= 0 => s = {}
    BY <1>0, FS_EmptySet
  <2>2. g[{}] = 0 /\ h[{}] = 0
    BY <1>1 DEF Added
  <2> QED
    BY <2>1, <2>2
<1>3. ASSUME NEW n \in T PROVE n + 1 \in T
  <2> SUFFICES ASSUME NEW s \in SUBSET A, s \in SUBSET B, Cardinality(s) <= n + 1
               PROVE  g[s] = h[s]
    OBVIOUS
  <2>1. CASE s = {}
    BY <1>1, <2>1 DEF Added
  <2>2. CASE s # {}
    <3>1. Some(s) \in s
      BY <2>2, SomeIn
    <3>2. Cardinality(s \ {Some(s)}) = Cardinality(s) - 1
      BY <1>0, <3>1, FS_RemoveElement
    <3>3. Cardinality(s \ {Some(s)}) <= n /\ s \ {Some(s)} \in SUBSET A /\ s \ {Some(s)} \in SUBSET B
      BY <1>0, <3>2
    <3>4. g[s \ {Some(s)}] = h[s \ {Some(s)}]
      BY <3>3
    <3> QED
      BY <1>1, <2>2, <3>4 DEF Added
  <2> QED
    BY <2>1, <2>2
<1>4. T = Nat
  <2> HIDE DEF T
  <2>1. T \in SUBSET Nat
    BY DEF T
  <2> QED
    BY <1>2, <1>3, <2>1, Induced
<1>5. Cardinality(U) \in T
  BY <1>0, <1>4
<1> QED
  BY <1>0, <1>5

(* The sum, one element at a time.                                           *)
LEMMA SumStep ==
  ASSUME NEW m, NEW S, IsFiniteSet(S)
  PROVE  Sum(m, S) = IF S = {} THEN 0 ELSE m[Some(S)] + Sum(m, S \ {Some(S)})
<1> DEFINE g == CHOOSE g : Adds(m, g, SUBSET S)
           R == S \ {Some(S)}
           h == CHOOSE h : Adds(m, h, SUBSET R)
<1>1. Adds(m, g, SUBSET S)
  BY Adding
<1>2. IsFiniteSet(R)
  BY FS_Subset
<1>3. Adds(m, h, SUBSET R)
  BY <1>2, Adding
<1>4. Sum(m, S) = g[S] /\ Sum(m, R) = h[R]
  BY SumDef
<1> HIDE DEF g, h
<1>5. g[S] = Added(m, g, S)
  BY <1>1 DEF Adds
<1>6. g[R] = h[R]
  <2>1. R \in SUBSET S /\ R \in SUBSET R
    OBVIOUS
  <2> HIDE DEF R
  <2> QED
    BY <1>1, <1>3, <2>1, AddedAlike
<1> QED
  BY <1>4, <1>5, <1>6 DEF Added

(* Any element can be the first that is taken.                               *)
LEMMA SumWithout ==
  ASSUME NEW S, IsFiniteSet(S), NEW m, \A y \in S : m[y] \in Int, NEW x \in S
  PROVE  Sum(m, S) \in Int /\ Sum(m, S) = m[x] + Sum(m, S \ {x})
<1> DEFINE Fine(U) == Sum(m, U) \in Int /\ \A y \in U : Sum(m, U) = m[y] + Sum(m, U \ {y})
           T == {n \in Nat : \A U \in SUBSET S : Cardinality(U) <= n => Fine(U)}
<1>0. \A U \in SUBSET S : IsFiniteSet(U) /\ Cardinality(U) \in Nat /\ \A y \in U : Cardinality(U \ {y}) = Cardinality(U) - 1
  BY FS_Subset, FS_CardinalityType, FS_RemoveElement
<1>1. 0 \in T
  <2>1. \A U \in SUBSET S : Cardinality(U) <= 0 => U = {}
    BY <1>0, FS_EmptySet
  <2>2. Sum(m, {}) = 0
    BY SumStep, FS_EmptySet
  <2>3. Fine({})
    BY <2>2
  <2> HIDE DEF Fine
  <2> QED
    BY <2>1, <2>3
<1>2. ASSUME NEW n \in T PROVE n + 1 \in T
  <2> SUFFICES ASSUME NEW U \in SUBSET S, Cardinality(U) <= n + 1
               PROVE  Fine(U)
    OBVIOUS
  <2>1. CASE U = {}
    BY <2>1, SumStep, FS_EmptySet
  <2>2. CASE U # {}
    <3> DEFINE c == Some(U)
    <3>1. c \in U
      BY <2>2, SomeIn
    <3> HIDE DEF c
    <3>2. \A V \in SUBSET S : Cardinality(V) <= n => Fine(V)
      OBVIOUS
    <3>3. \A y \in U : Cardinality(U \ {y}) <= n /\ U \ {y} \in SUBSET S /\ IsFiniteSet(U \ {y})
      BY <1>0
    <3>4. Sum(m, U) = m[c] + Sum(m, U \ {c})
      BY <1>0, <2>2, SumStep DEF c
    <3>5. Fine(U \ {c})
      BY <3>1, <3>2, <3>3
    <3>6. Sum(m, U) \in Int
      BY <3>1, <3>4, <3>5
    <3>7. ASSUME NEW y \in U, y # c
          PROVE  Sum(m, U) = m[y] + Sum(m, U \ {y})
      <4>1. Sum(m, U \ {c}) = m[y] + Sum(m, (U \ {c}) \ {y})
        BY <3>5, <3>7
      <4>2. Fine(U \ {y}) /\ c \in U \ {y}
        BY <3>1, <3>2, <3>3, <3>7
      <4>3. (U \ {y}) \ {c} = (U \ {c}) \ {y}
        OBVIOUS
      <4>4. Sum(m, U \ {y}) = m[c] + Sum(m, (U \ {c}) \ {y})
        BY <4>2, <4>3
      <4>5. m[c] \in Int /\ m[y] \in Int /\ Sum(m, U \ {c}) \in Int /\ Sum(m, U \ {y}) \in Int
        BY <3>1, <3>5, <4>2
      <4>6. Sum(m, (U \ {c}) \ {y}) \in Int
        <5>1. U \ {c, y} \in SUBSET S /\ Cardinality(U \ {c}) \in Nat /\ (U \ {c}) \ {y} \in SUBSET S
          BY <1>0, <3>1
        <5>2. Cardinality((U \ {c}) \ {y}) <= n
          <6>1. Cardinality((U \ {c}) \ {y}) = Cardinality(U \ {c}) - 1
            BY <1>0, <3>7
          <6> QED
            BY <1>0, <3>1, <3>3, <5>1, <6>1
        <5> QED
          BY <3>2, <5>1, <5>2
      <4> QED
        BY <3>4, <4>1, <4>4, <4>5, <4>6
    <3> QED
      BY <3>4, <3>6, <3>7
  <2> QED
    BY <2>1, <2>2
<1>3. T = Nat
  <2> HIDE DEF T
  <2>1. T \in SUBSET Nat
    BY DEF T
  <2> QED
    BY <1>1, <1>2, <2>1, Induced
<1>4. Cardinality(S) \in T
  BY <1>0, <1>3
<1> QED
  BY <1>0, <1>4

(* Functions that agree on a set have one sum over it.                       *)
LEMMA SumAlike ==
  ASSUME NEW S, IsFiniteSet(S), NEW m, NEW n, \A y \in S : m[y] = n[y]
  PROVE  Sum(m, S) = Sum(n, S)
<1> DEFINE T == {k \in Nat : \A U \in SUBSET S : Cardinality(U) <= k => Sum(m, U) = Sum(n, U)}
<1>0. \A U \in SUBSET S : IsFiniteSet(U) /\ Cardinality(U) \in Nat /\ \A y \in U : Cardinality(U \ {y}) = Cardinality(U) - 1
  BY FS_Subset, FS_CardinalityType, FS_RemoveElement
<1>1. Sum(m, {}) = Sum(n, {})
  BY SumStep, FS_EmptySet
<1>2. 0 \in T
  <2>1. \A U \in SUBSET S : Cardinality(U) <= 0 => U = {}
    BY <1>0, FS_EmptySet
  <2> QED
    BY <1>1, <2>1
<1>3. ASSUME NEW k \in T PROVE k + 1 \in T
  <2> SUFFICES ASSUME NEW U \in SUBSET S, Cardinality(U) <= k + 1
               PROVE  Sum(m, U) = Sum(n, U)
    OBVIOUS
  <2>1. CASE U = {}
    BY <1>1, <2>1
  <2>2. CASE U # {}
    <3> DEFINE R == U \ {Some(U)}
    <3>1. Some(U) \in U
      BY <2>2, SomeIn
    <3>2. Cardinality(R) <= k /\ R \in SUBSET S
      BY <1>0, <3>1
    <3>3. Sum(m, R) = Sum(n, R)
      BY <3>2
    <3>4. Sum(m, U) = m[Some(U)] + Sum(m, R) /\ Sum(n, U) = n[Some(U)] + Sum(n, R)
      BY <1>0, <2>2, SumStep
    <3>5. m[Some(U)] = n[Some(U)]
      BY <3>1
    <3> QED
      BY <3>3, <3>4, <3>5
  <2> QED
    BY <2>1, <2>2
<1>4. T = Nat
  <2> HIDE DEF T
  <2>1. T \in SUBSET Nat
    BY DEF T
  <2> QED
    BY <1>2, <1>3, <2>1, Induced
<1>5. Cardinality(S) \in T
  BY <1>0, <1>4
<1> QED
  BY <1>0, <1>5

(* The sum with one more.                                                    *)
LEMMA SumWith ==
  ASSUME NEW S, IsFiniteSet(S), NEW x, x \notin S, NEW m, NEW n,
         \A y \in S : n[y] \in Int /\ m[y] = n[y], n[x] \in Int
  PROVE  Sum(n, S \cup {x}) = Sum(m, S) + n[x] /\ Sum(m, S) \in Int
<1> DEFINE R == S \cup {x}
<1>1. IsFiniteSet(R) /\ x \in R /\ R \ {x} = S
  BY FS_AddElement
<1>2. \A y \in R : n[y] \in Int
  OBVIOUS
<1> HIDE DEF R
<1>3. Sum(n, R) \in Int /\ Sum(n, R) = n[x] + Sum(n, S)
  BY <1>1, <1>2, SumWithout
<1>4. Sum(n, S) \in Int
  <2>1. CASE S = {}
    <3>1. Sum(n, {}) = 0
      BY SumStep, FS_EmptySet
    <3> QED
      BY <2>1, <3>1
  <2>2. CASE S # {}
    BY <2>2, SumWithout
  <2> QED
    BY <2>1, <2>2
<1>5. Sum(m, S) = Sum(n, S)
  BY SumAlike
<1> QED
  BY <1>3, <1>4, <1>5 DEF R

(* The sum of a function is the sum over its domain.                         *)
LEMMA TotalIs == \A f : Total(f) = Sum(f, DOMAIN f)
BY DEF Total, SumFunction, Sum

(* A sum of numbers is a number, and takes the number of an argument added.  *)
LEMMA TotalGrows ==
  ASSUME NEW f, IsFiniteSet(DOMAIN f), \A y \in DOMAIN f : f[y] \in Int,
         NEW x, x \notin DOMAIN f, NEW g, DOMAIN g = DOMAIN f \cup {x}, \A y \in DOMAIN f : g[y] = f[y], g[x] \in Int
  PROVE  Total(g) = Total(f) + g[x] /\ Total(f) \in Int
<1>1. Sum(g, DOMAIN f \cup {x}) = Sum(f, DOMAIN f) + g[x] /\ Sum(f, DOMAIN f) \in Int
  BY SumWith
<1> QED
  BY <1>1, TotalIs

(* Nothing sums to zero.                                                     *)
LEMMA TotalNone == \A f : DOMAIN f = {} => Total(f) = 0
BY TotalIs, SumStep, FS_EmptySet

(* Functions that agree have one sum.                                        *)
LEMMA TotalSame ==
  ASSUME NEW f, NEW g, DOMAIN f = DOMAIN g, IsFiniteSet(DOMAIN f), \A y \in DOMAIN f : f[y] = g[y]
  PROVE  Total(f) = Total(g)
BY TotalIs, SumAlike

(* A sum over a part is no more than the whole, if nothing is negative.      *)
LEMMA SumBounds ==
  ASSUME NEW S, IsFiniteSet(S), NEW m, \A y \in S : m[y] \in Nat
  PROVE  Sum(m, S) \in Nat /\ \A y \in S : m[y] <= Sum(m, S)
<1> DEFINE T == {n \in Nat : \A U \in SUBSET S : Cardinality(U) <= n => Sum(m, U) \in Nat /\ \A y \in U : m[y] <= Sum(m, U)}
<1>0. \A U \in SUBSET S : IsFiniteSet(U) /\ Cardinality(U) \in Nat /\ \A y \in U : Cardinality(U \ {y}) = Cardinality(U) - 1
  BY FS_Subset, FS_CardinalityType, FS_RemoveElement
<1>1. 0 \in T
  <2>1. \A U \in SUBSET S : Cardinality(U) <= 0 => U = {}
    BY <1>0, FS_EmptySet
  <2>2. Sum(m, {}) = 0
    BY SumStep, FS_EmptySet
  <2> QED
    BY <2>1, <2>2
<1>2. ASSUME NEW n \in T PROVE n + 1 \in T
  <2> SUFFICES ASSUME NEW U \in SUBSET S, Cardinality(U) <= n + 1
               PROVE  Sum(m, U) \in Nat /\ \A y \in U : m[y] <= Sum(m, U)
    OBVIOUS
  <2>1. CASE U = {}
    BY <2>1, SumStep, FS_EmptySet
  <2>2. CASE U # {}
    <3>1. ASSUME NEW y \in U
          PROVE  Sum(m, U) \in Nat /\ m[y] <= Sum(m, U)
      <4>1. Sum(m, U) = m[y] + Sum(m, U \ {y})
        BY <1>0, SumWithout
      <4>2. Cardinality(U \ {y}) <= n /\ U \ {y} \in SUBSET S
        BY <1>0
      <4>3. Sum(m, U \ {y}) \in Nat
        BY <4>2
      <4>4. m[y] \in Nat
        OBVIOUS
      <4> QED
        BY <4>1, <4>3, <4>4
    <3> QED
      BY <2>2, <3>1
  <2> QED
    BY <2>1, <2>2
<1>3. T = Nat
  <2> HIDE DEF T
  <2>1. T \in SUBSET Nat
    BY DEF T
  <2> QED
    BY <1>1, <1>2, <2>1, Induced
<1>4. Cardinality(S) \in T
  BY <1>0, <1>3
<1> QED
  BY <1>0, <1>4

(* The same of a function.                                                   *)
LEMMA TotalBounds ==
  ASSUME NEW f, IsFiniteSet(DOMAIN f), \A y \in DOMAIN f : f[y] \in Nat
  PROVE  Total(f) \in Nat /\ \A y \in DOMAIN f : f[y] <= Total(f)
BY TotalIs, SumBounds

(* The sum of a sequence is that of all but the last, and the last.          *)
LEMMA TotalLast ==
  ASSUME NEW n \in Nat, n # 0, NEW s, DOMAIN s = 1 .. n, \A k \in 1 .. n : s[k] \in Int,
         NEW r, DOMAIN r = 1 .. (n - 1), \A k \in 1 .. (n - 1) : r[k] = s[k]
  PROVE  Total(s) = Total(r) + s[n] /\ Total(r) \in Int
<1>1. IsFiniteSet(DOMAIN r) /\ n \notin DOMAIN r /\ DOMAIN s = DOMAIN r \cup {n}
  <2>1. n - 1 \in Int /\ 1 .. n = (1 .. (n - 1)) \cup {n} /\ n \notin 1 .. (n - 1)
    OBVIOUS
  <2>2. IsFiniteSet(1 .. (n - 1))
    BY <2>1, FS_Interval
  <2> QED
    BY <2>1, <2>2
<1>2. \A k \in DOMAIN r : s[k] = r[k] /\ r[k] \in Int
  OBVIOUS
<1>3. s[n] \in Int
  OBVIOUS
<1> QED
  BY <1>1, <1>2, <1>3, TotalGrows

(* A set with one more, if there is one.                                     *)
More(S, test, x) == S \cup (IF test THEN {x} ELSE {})

(* The function g is f, with the argument x of value v more if there is one. *)
Growing(f, g, test, x, v) ==
    /\ IsFiniteSet(DOMAIN f) /\ \A y \in DOMAIN f : f[y] \in Nat /\ g[y] = f[y]
    /\ DOMAIN g = More(DOMAIN f, test, x) /\ v \in Nat /\ (test => x \notin DOMAIN f /\ g[x] = v)

(* The sums on both sides grow by the same.                                  *)
LEMMA OneGrows ==
  ASSUME NEW f, NEW g, NEW test \in BOOLEAN, NEW x, NEW v, Growing(f, g, test, x, v)
  PROVE  Total(g) = Total(f) + (IF test THEN v ELSE 0)
<1>1. IsFiniteSet(DOMAIN f) /\ (\A y \in DOMAIN f : f[y] \in Nat) /\ (\A y \in DOMAIN f : f[y] \in Int)
      /\ (\A y \in DOMAIN f : g[y] = f[y]) /\ v \in Nat
      /\ DOMAIN g = More(DOMAIN f, test, x) /\ (test => x \notin DOMAIN f /\ g[x] = v)
  BY DEF Growing
<1>2. CASE test
  <2>1. DOMAIN g = DOMAIN f \cup {x} /\ g[x] = v /\ g[x] \in Int /\ x \notin DOMAIN f
    BY <1>1, <1>2 DEF More
  <2>2. Total(g) = Total(f) + g[x]
    BY <1>1, <2>1, TotalGrows, Zenon
  <2> QED
    BY <1>2, <2>1, <2>2
<1>3. CASE ~test
  <2>1. DOMAIN g = DOMAIN f
    BY <1>1, <1>3 DEF More
  <2>2. Total(g) = Total(f)
    BY <1>1, <2>1, TotalSame, Zenon
  <2>3. Total(f) \in Nat
    BY <1>1, TotalBounds
  <2> QED
    BY <1>3, <2>2, <2>3
<1> QED
  BY <1>2, <1>3

(* What stands in a sequence is one of what it is made of.                   *)
LEMMA ElementOf == \A S : \A q \in Seq(S) : \A k \in DOMAIN q : q[k] \in S
  OBVIOUS

(* A sum of zeros is zero.                                                   *)
LEMMA SumZero ==
  ASSUME NEW S, IsFiniteSet(S), NEW m, \A y \in S : m[y] = 0
  PROVE  Sum(m, S) = 0
<1> DEFINE T == {n \in Nat : \A U \in SUBSET S : Cardinality(U) <= n => Sum(m, U) = 0}
<1>0. \A U \in SUBSET S : IsFiniteSet(U) /\ Cardinality(U) \in Nat /\ \A y \in U : Cardinality(U \ {y}) = Cardinality(U) - 1
  BY FS_Subset, FS_CardinalityType, FS_RemoveElement
<1>1. Sum(m, {}) = 0
  BY SumStep, FS_EmptySet
<1>2. 0 \in T
  <2>1. \A U \in SUBSET S : Cardinality(U) <= 0 => U = {}
    BY <1>0, FS_EmptySet
  <2> QED
    BY <1>1, <2>1
<1>3. ASSUME NEW n \in T PROVE n + 1 \in T
  <2> SUFFICES ASSUME NEW U \in SUBSET S, Cardinality(U) <= n + 1
               PROVE  Sum(m, U) = 0
    OBVIOUS
  <2>1. CASE U = {}
    BY <1>1, <2>1
  <2>2. CASE U # {}
    <3> DEFINE R == U \ {Some(U)}
    <3>1. Some(U) \in U
      BY <2>2, SomeIn
    <3>2. Cardinality(R) <= n /\ R \in SUBSET S
      BY <1>0, <3>1
    <3>3. Sum(m, R) = 0
      BY <3>2
    <3>4. Sum(m, U) = m[Some(U)] + Sum(m, R)
      BY <1>0, <2>2, SumStep
    <3> QED
      BY <3>1, <3>3, <3>4
  <2> QED
    BY <2>1, <2>2
<1>4. T = Nat
  <2> HIDE DEF T
  <2>1. T \in SUBSET Nat
    BY DEF T
  <2> QED
    BY <1>2, <1>3, <2>1, Induced
<1>5. Cardinality(S) \in T
  BY <1>0, <1>4
<1> QED
  BY <1>0, <1>5

(* A function that is zero but for one argument sums to its value there.     *)
LEMMA TotalOnly ==
  ASSUME NEW f, IsFiniteSet(DOMAIN f), NEW x \in DOMAIN f, \A y \in DOMAIN f : y # x => f[y] = 0, f[x] \in Int
  PROVE  Total(f) = f[x]
<1> DEFINE S == DOMAIN f \ {x}
<1>1. IsFiniteSet(S)
  BY FS_Subset
<1>2. Sum(f, S) = 0
  BY <1>1, SumZero
<1>3. \A y \in DOMAIN f : f[y] \in Int
  OBVIOUS
<1>4. Sum(f, DOMAIN f) = f[x] + Sum(f, S)
  BY <1>3, SumWithout
<1> QED
  BY <1>2, <1>4, TotalIs

(* A sum does not depend on what its arguments are called.                   *)
LEMMA SumMapped ==
  ASSUME NEW S, IsFiniteSet(S), NEW g, \A x, y \in S : g[x] = g[y] => x = y,
         IsFiniteSet({g[x] : x \in S}), NEW f, \A x \in S : f[g[x]] \in Int, NEW h, \A x \in S : h[x] = f[g[x]]
  PROVE  Sum(h, S) = Sum(f, {g[x] : x \in S})
<1> DEFINE G(U) == {g[x] : x \in U}
           T == {n \in Nat : \A U \in SUBSET S : Cardinality(U) <= n => Sum(h, U) = Sum(f, G(U))}
<1>0. \A U \in SUBSET S : IsFiniteSet(U) /\ Cardinality(U) \in Nat /\ \A y \in U : Cardinality(U \ {y}) = Cardinality(U) - 1
  BY FS_Subset, FS_CardinalityType, FS_RemoveElement
<1>1. ASSUME NEW U \in SUBSET S PROVE IsFiniteSet(G(U))
  <2>1. G(U) \in SUBSET G(S)
    OBVIOUS
  <2> QED
    BY <2>1, FS_Subset
<1>2. 0 \in T
  <2>1. \A U \in SUBSET S : Cardinality(U) <= 0 => U = {}
    BY <1>0, FS_EmptySet
  <2>2. G({}) = {}
    OBVIOUS
  <2>3. Sum(h, {}) = 0 /\ Sum(f, {}) = 0
    BY SumStep, FS_EmptySet
  <2>4. Sum(h, {}) = Sum(f, G({}))
    BY <2>2, <2>3
  <2> HIDE DEF G
  <2> QED
    BY <2>1, <2>4
<1>3. ASSUME NEW n \in T PROVE n + 1 \in T
  <2> SUFFICES ASSUME NEW U \in SUBSET S, Cardinality(U) <= n + 1
               PROVE  Sum(h, U) = Sum(f, G(U))
    OBVIOUS
  <2>1. CASE U = {}
    <3>1. U \in SUBSET S /\ Cardinality(U) <= 0
      BY <2>1, FS_EmptySet
    <3> QED
      BY <1>2, <3>1
  <2>2. CASE U # {}
    <3> DEFINE y == Some(U)
               R == U \ {y}
    <3>1. y \in U
      BY <2>2, SomeIn
    <3> HIDE DEF y
    <3>2. Cardinality(R) <= n /\ R \in SUBSET S
      BY <1>0, <3>1
    <3>3. Sum(h, R) = Sum(f, G(R))
      BY <3>2
    <3>4. Sum(h, U) = h[y] + Sum(h, R)
      BY <1>0, <2>2, SumStep DEF y
    <3>5. g[y] \in G(U) /\ G(U) \ {g[y]} = G(R)
      <4>1. \A x \in U : x # y => g[x] # g[y]
        BY <3>1
      <4> QED
        BY <3>1, <4>1
    <3>6. IsFiniteSet(G(U)) /\ \A z \in G(U) : f[z] \in Int
      BY <1>1
    <3> HIDE DEF G
    <3>7. Sum(f, G(U)) = f[g[y]] + Sum(f, G(U) \ {g[y]})
      BY <3>5, <3>6, SumWithout
    <3>8. h[y] = f[g[y]]
      BY <3>1
    <3> QED
      BY <3>3, <3>4, <3>5, <3>7, <3>8
  <2> QED
    BY <2>1, <2>2
<1>4. T = Nat
  <2> HIDE DEF T
  <2>1. T \in SUBSET Nat
    BY DEF T
  <2> QED
    BY <1>2, <1>3, <2>1, Induced
<1>5. Cardinality(S) \in T
  BY <1>0, <1>4
<1> QED
  BY <1>0, <1>5

-----------------------------------------------------------------------------
(***************************************************************************)
(* The advice of a diagnosis: its causes and what becomes a todo.          *)
(***************************************************************************)
(* The advice counts as everything else does.                                *)
LEMMA AdviceCardinality == \A S : Advice!Cardinality(S) = Cardinality(S)
BY DEF Advice!Cardinality, Cardinality, Advice!IsFiniteSet, IsFiniteSet

(* Findings about one anomaly are in one order.                              *)
Ordered(S) ==
    /\ IsFiniteSet(S)
    /\ \A f \in S : f.row \in Nat /\ f.position \in Nat /\ f.weight[1] \in Int /\ f.weight[2] \in Int
    /\ \A f, g \in S : f.row = g.row /\ f.position = g.position => f = g

(* Of two findings, one goes before the other.                               *)
LEMMA BeforeOrders ==
  ASSUME NEW S, Ordered(S), NEW f \in S, NEW g \in S, NEW h \in S
  PROVE  /\ f # g => Advice!Before(f, g) \/ Advice!Before(g, f)
         /\ ~(Advice!Before(f, g) /\ Advice!Before(g, f))
         /\ Advice!Before(f, g) /\ Advice!Before(g, h) => Advice!Before(f, h)
<1>1. \A n \in Int : Advice!Min10(n) \in Int
  BY DEF Advice!Min10
<1>2. \A e \in {f, g, h} : e.row \in Int /\ Advice!Min10(e.weight[1]) \in Int /\ e.weight[2] \in Int
                              /\ e.position \in Int
  BY <1>1 DEF Ordered
<1>3. f # g => f.row # g.row \/ f.position # g.position
  BY DEF Ordered
<1> QED
  BY <1>2, <1>3 DEF Advice!Before, Advice!Earlier

(* One of them is the first.                                                 *)
LEMMA FirstIs ==
  ASSUME NEW S, Ordered(S), S # {}
  PROVE  Advice!First(S) \in S /\ \A g \in S \ {Advice!First(S)} : Advice!Before(Advice!First(S), g)
<1> DEFINE Has(U) == U # {} => \E f \in U : \A g \in U \ {f} : Advice!Before(f, g)
           T == {n \in Nat : \A U \in SUBSET S : Cardinality(U) <= n => Has(U)}
<1>0. \A U \in SUBSET S : IsFiniteSet(U) /\ Cardinality(U) \in Nat /\ \A y \in U : Cardinality(U \ {y}) = Cardinality(U) - 1
  BY FS_Subset, FS_CardinalityType, FS_RemoveElement DEF Ordered
<1>1. 0 \in T
  <2>1. \A U \in SUBSET S : Cardinality(U) <= 0 => U = {}
    BY <1>0, FS_EmptySet
  <2> QED
    BY <2>1
<1>2. ASSUME NEW n \in T PROVE n + 1 \in T
  <2> SUFFICES ASSUME NEW U \in SUBSET S, Cardinality(U) <= n + 1
               PROVE  Has(U)
    OBVIOUS
  <2> SUFFICES ASSUME NEW x \in U
               PROVE  \E f \in U : \A g \in U \ {f} : Advice!Before(f, g)
    OBVIOUS
  <2>1. Cardinality(U \ {x}) <= n /\ U \ {x} \in SUBSET S
    BY <1>0
  <2>2. Has(U \ {x})
    BY <2>1
  <2>3. CASE U \ {x} = {}
    BY <2>3
  <2>4. CASE U \ {x} # {}
    <3>1. PICK f \in U \ {x} : \A g \in (U \ {x}) \ {f} : Advice!Before(f, g)
      BY <2>2, <2>4
    <3>2. CASE Advice!Before(f, x)
      BY <3>1, <3>2
    <3>3. CASE Advice!Before(x, f)
      <4>1. \A g \in U \ {x} : Advice!Before(x, g)
        BY <3>1, <3>3, BeforeOrders
      <4> QED
        BY <4>1
    <3> QED
      BY <3>2, <3>3, BeforeOrders
  <2> QED
    BY <2>3, <2>4
<1>3. T = Nat
  <2> HIDE DEF T
  <2>1. T \in SUBSET Nat
    BY DEF T
  <2> QED
    BY <1>1, <1>2, <2>1, Induced
<1>4. Cardinality(S) \in T
  BY <1>0, <1>3
<1>5. \E f \in S : \A g \in S \ {f} : Advice!Before(f, g)
  BY <1>0, <1>4
<1> QED
  BY <1>5 DEF Advice!First

(* There are not three that have fewer than two before them.                 *)
LEMMA FirstTwoAre ==
  ASSUME NEW S, Ordered(S)
  PROVE  Advice!FirstTwo(S) \subseteq S /\ \E x, y : Advice!FirstTwo(S) \subseteq {x, y}
<1> DEFINE F == Advice!FirstTwo(S)
<1>1. F \subseteq S /\ \A f \in F : Cardinality({g \in S : Advice!Before(g, f)}) < 2
  BY AdviceCardinality DEF Advice!FirstTwo
<1> HIDE DEF F
<1>2. ASSUME NEW x \in F, NEW y \in F, NEW z \in F, x # y, Advice!Before(x, z), Advice!Before(y, z)
      PROVE  FALSE
  <2> DEFINE B == {g \in S : Advice!Before(g, z)}
  <2>1. {x, y} \subseteq B /\ IsFiniteSet(B)
    BY <1>1, <1>2, FS_Subset DEF Ordered
  <2>2. Cardinality({x, y}) = 2
    <3>1. IsFiniteSet({x}) /\ Cardinality({x}) = 1
      BY FS_Singleton
    <3>2. {x} \cup {y} = {x, y} /\ y \notin {x}
      BY <1>2
    <3>3. Cardinality({x} \cup {y}) = Cardinality({x}) + 1
      BY <3>1, <3>2, FS_AddElement
    <3> QED
      BY <3>1, <3>2, <3>3
  <2>3. Cardinality(B) < 2 /\ Cardinality(B) \in Nat
    BY <1>1, <2>1, FS_CardinalityType
  <2> HIDE DEF B
  <2> QED
    BY <2>1, <2>2, <2>3, FS_Subset
<1>3. ASSUME NEW x \in F, NEW y \in F, NEW z \in F, x # y, y # z, x # z
      PROVE  FALSE
  <2>1. x \in S /\ y \in S /\ z \in S
    BY <1>1
  <2>2. \/ Advice!Before(x, z) /\ Advice!Before(y, z)
        \/ Advice!Before(x, y) /\ Advice!Before(z, y)
        \/ Advice!Before(y, x) /\ Advice!Before(z, x)
    BY <1>3, <2>1, BeforeOrders
  <2> QED
    BY <1>2, <1>3, <2>2
<1>4. \E x, y : F \subseteq {x, y}
  <2>1. CASE F = {}
    BY <2>1
  <2>2. CASE F # {}
    <3>1. PICK x : x \in F
      BY <2>2
    <3>2. CASE F \subseteq {x}
      BY <3>2
    <3>3. CASE \E y : y \in F /\ y # x
      <4>1. PICK y : y \in F /\ y # x
        BY <3>3
      <4>2. F \subseteq {x, y}
        BY <1>3, <3>1, <4>1
      <4> QED
        BY <4>2
    <3> QED
      BY <3>1, <3>2, <3>3
  <2> QED
    BY <2>1, <2>2
<1> QED
  BY <1>1, <1>4 DEF F

(* Of a set that holds no more than two, all are among some two.             *)
LEMMA TwoAtMost ==
  ASSUME NEW S, IsFiniteSet(S), Cardinality(S) <= 2
  PROVE  \E x, y : S \subseteq {x, y}
<1>1. ASSUME NEW x \in S, NEW y \in S, NEW z \in S, x # y, y # z, x # z
      PROVE  FALSE
  <2>1. IsFiniteSet({x}) /\ Cardinality({x}) = 1
    BY FS_Singleton
  <2> DEFINE A == {x}  B == A \cup {y}  C == B \cup {z}
  <2>2. IsFiniteSet(B) /\ Cardinality(B) = 2
    <3>1. IsFiniteSet(A) /\ Cardinality(A) = 1 /\ y \notin A
      BY <1>1, <2>1
    <3> HIDE DEF A
    <3> QED
      BY <3>1, FS_AddElement
  <2>3. IsFiniteSet(C) /\ Cardinality(C) = 3
    <3>1. z \notin B
      BY <1>1
    <3> HIDE DEF B
    <3> QED
      BY <2>2, <3>1, FS_AddElement
  <2>4. C \in SUBSET S
    BY <1>1
  <2> HIDE DEF C
  <2>5. Cardinality(C) <= Cardinality(S) /\ Cardinality(S) \in Nat
    BY <2>4, FS_Subset, FS_CardinalityType
  <2> QED
    BY <2>3, <2>5
<1>2. CASE S = {}
  BY <1>2
<1>3. CASE S # {}
  <2>1. PICK x : x \in S
    BY <1>3
  <2>2. CASE S \subseteq {x}
    BY <2>2
  <2>3. CASE \E y : y \in S /\ y # x
    <3>1. PICK y : y \in S /\ y # x
      BY <2>3
    <3>2. S \subseteq {x, y}
      BY <1>1, <2>1, <3>1
    <3> QED
      BY <3>2
  <2> QED
    BY <2>1, <2>2, <2>3
<1> QED
  BY <1>2, <1>3

(* So are those that the loop lets through.                                  *)
LEMMA AnyTwoAre ==
  ASSUME NEW S, IsFiniteSet(S), NEW T \in Advice!AnyTwo(S)
  PROVE  T \subseteq S /\ \E x, y : T \subseteq {x, y}
<1>1. T \in SUBSET S /\ Cardinality(T) = IF Cardinality(S) < 2 THEN Cardinality(S) ELSE 2
  BY AdviceCardinality DEF Advice!AnyTwo
<1>2. IsFiniteSet(T) /\ Cardinality(S) \in Nat
  BY <1>1, FS_Subset, FS_CardinalityType
<1>3. Cardinality(T) <= 2
  BY <1>1, <1>2
<1> QED
  BY <1>1, <1>2, <1>3, TwoAtMost

(* One main cause and at most two others are at most three.                  *)
LEMMA ThreeAtMost ==
  ASSUME NEW S, NEW x, NEW y, NEW z, S \subseteq {x, y, z}
  PROVE  IsFiniteSet(S) /\ Cardinality(S) \in Nat /\ Cardinality(S) <= 3
<1>1. IsFiniteSet({x}) /\ Cardinality({x}) = 1
  BY FS_Singleton
<1> DEFINE A == {x}  B == A \cup {y}  C == B \cup {z}
<1>2. IsFiniteSet(B) /\ Cardinality(B) <= 2 /\ Cardinality(B) \in Nat
  <2>1. IsFiniteSet(A) /\ Cardinality(A) = 1
    BY <1>1
  <2> HIDE DEF A
  <2>2. IsFiniteSet(B) /\ Cardinality(B) = IF y \in A THEN Cardinality(A) ELSE Cardinality(A) + 1
    BY <2>1, FS_AddElement
  <2> QED
    BY <2>1, <2>2
<1>3. IsFiniteSet(C) /\ Cardinality(C) <= 3 /\ Cardinality(C) \in Nat
  <2> HIDE DEF B
  <2>1. IsFiniteSet(C) /\ Cardinality(C) = IF z \in B THEN Cardinality(B) ELSE Cardinality(B) + 1
    BY <1>2, FS_AddElement
  <2> QED
    BY <1>2, <2>1
<1>4. S \in SUBSET C
  OBVIOUS
<1> HIDE DEF C
<1> QED
  BY <1>3, <1>4, FS_Subset, FS_CardinalityType

(* The n-th of a set of positions.                                           *)
LEMMA Places ==
  ASSUME NEW n \in Nat, NEW K \in SUBSET (1 .. n),
         NEW g, g = [i \in K |-> Cardinality({j \in K : j <= i})]
  PROVE  /\ IsFiniteSet(K) /\ Cardinality(K) \in Nat
         /\ \A i \in K : g[i] \in 1 .. Cardinality(K)
         /\ \A k \in 1 .. Cardinality(K) : \E i \in K : g[i] = k
         /\ \A i, j \in K : g[i] = g[j] => i = j
<1>1. IsFiniteSet(K) /\ Cardinality(K) \in Nat
  <2>1. IsFiniteSet(1 .. n)
    BY FS_Interval
  <2>2. IsFiniteSet(K)
    BY <2>1, FS_Subset
  <2> QED
    BY <2>2, FS_CardinalityType
<1>2. ASSUME NEW i \in K
      PROVE  g[i] \in 1 .. Cardinality(K)
  <2> DEFINE B == {j \in K : j <= i}
  <2>1. B \in SUBSET K /\ B # {}
    OBVIOUS
  <2>2. IsFiniteSet(B) /\ Cardinality(B) \in Nat /\ Cardinality(B) <= Cardinality(K) /\ Cardinality(B) # 0
    BY <1>1, <2>1, FS_Subset, FS_CardinalityType, FS_EmptySet
  <2> QED
    BY <1>1, <2>2
<1>3. ASSUME NEW i \in K, NEW j \in K, i < j
      PROVE  g[i] # g[j]
  <2> DEFINE B(m) == {l \in K : l <= m}
  <2>0. \A l \in K : l \in Int
    OBVIOUS
  <2>1. B(i) \in SUBSET B(j) /\ j \in B(j) /\ j \notin B(i)
    <3>1. \A l \in K : l <= i => l <= j
      BY <1>3, <2>0
    <3>2. j <= j /\ ~(j <= i)
      BY <1>3, <2>0
    <3> QED
      BY <3>1, <3>2
  <2>2. IsFiniteSet(B(j))
    BY <1>1, FS_Subset
  <2>3. g[i] = Cardinality(B(i)) /\ g[j] = Cardinality(B(j))
    OBVIOUS
  <2> HIDE DEF B
  <2> QED
    BY <2>1, <2>2, <2>3, FS_Subset
<1>4. IsFiniteSet(1 .. Cardinality(K)) /\ Cardinality(1 .. Cardinality(K)) = Cardinality(K)
  BY <1>1, FS_Interval
<1>5. g \in Injection(K, 1 .. Cardinality(K))
  <2>1. g \in [K -> 1 .. Cardinality(K)]
    BY <1>2
  <2>2. \A a, b \in K : g[a] = g[b] => a = b
    <3>1. \A a, b \in K : a < b \/ b < a \/ a = b
      OBVIOUS
    <3> QED
      BY <1>3, <3>1
  <2> QED
    BY <2>1, <2>2 DEF Injection, IsInjective
<1>6. g \in Surjection(K, 1 .. Cardinality(K))
  BY <1>4, <1>5, FS_Injection
<1> QED
  BY <1>1, <1>2, <1>5, <1>6 DEF Surjection, Injection, IsInjective

(* What a row proves about an anomaly are finitely many statements, each at  *)
(* a place of its own.                                                       *)
LEMMA ProvedIs ==
  ASSUME NEW D \in Details, NEW row \in D, NEW a
  PROVE  /\ IsFiniteSet(Advice!Proved(row, a))
         /\ \A w \in Advice!Proved(row, a) : w.position \in Nat /\ w.weight[1] \in Int /\ w.weight[2] \in Int
         /\ \A v, w \in Advice!Proved(row, a) : v.position = w.position => v = w
<1> DEFINE P == Advice!Proved(row, a)
<1>1. CASE row.tool = "compared"
  <2> DEFINE K == Advice!Changed(row)
             g == [i \in K |-> Cardinality({j \in K : j <= i})]
             of == [k \in K |-> [position |-> Advice!Place(K, k), weight |-> <<8, Advice!Statements[k].sure>>]]
  <2>1. K \in SUBSET (1 .. 3)
    BY DEF Advice!Changed
  <2>2. \A k \in K : g[k] = Advice!Place(K, k)
    BY AdviceCardinality DEF Advice!Place
  <2>3. P = {of[k] : k \in K}
    BY <1>1 DEF Advice!Proved
  <2>4. \A k \in 1 .. 3 : Advice!Statements[k].sure \in Int
    <3>1. Advice!Statements[1].sure = 86 /\ Advice!Statements[2].sure = 86 /\ Advice!Statements[3].sure = 80
      BY DEF Advice!Statements
    <3>2. \A k \in 1 .. 3 : k = 1 \/ k = 2 \/ k = 3
      OBVIOUS
    <3> QED
      BY <3>1, <3>2
  <2> HIDE DEF K, P
  <2>5. /\ IsFiniteSet(K) /\ Cardinality(K) \in Nat /\ \A k \in K : g[k] \in 1 .. Cardinality(K)
        /\ \A i, j \in K : g[i] = g[j] => i = j
    <3>1. g = [i \in K |-> Cardinality({j \in K : j <= i})]
      OBVIOUS
    <3> HIDE DEF g
    <3> QED
      BY <2>1, <3>1, Places
  <2> HIDE DEF g
  <2>6. \A k \in K : of[k].position = g[k] /\ of[k].weight[1] = 8 /\ of[k].weight[2] = Advice!Statements[k].sure
    BY <2>2
  <2>7. of \in Surjection(K, P)
    <3>1. DOMAIN of = K /\ of = [k \in K |-> of[k]]
      OBVIOUS
    <3> HIDE DEF of
    <3> QED
      BY <2>3, <3>1 DEF Surjection
  <2> HIDE DEF of
  <2>8. IsFiniteSet(P)
    BY <2>5, <2>7, FS_Surjection
  <2>9. \A w \in P : w.position \in Nat /\ w.weight[1] \in Int /\ w.weight[2] \in Int
    BY <2>1, <2>3, <2>4, <2>5, <2>6
  <2>10. \A v, w \in P : v.position = w.position => v = w
    BY <2>3, <2>5, <2>6
  <2> QED
    BY <2>8, <2>9, <2>10 DEF P
<1>2. CASE row.tool # "compared"
  <2> DEFINE W == Advice!Proof(row, a)
  <2>1. P = {[position |-> 0, weight |-> w] : w \in W}
    BY <1>2 DEF Advice!Proved
  <2>2. W = {} \/ \E x, y \in Int : W = {<<x, y>>}
    <3>1. row.sales \in Nat /\ row.spend \in Nat /\ row.budget \in Nat /\ TargetAcos \in Nat \ {0}
      BY DetailsAssumption
    <3>2. ASSUME NEW n \in Nat, NEW d \in Nat \ {0}
          PROVE  n \div d \in Int
      BY <3>2
    <3> DEFINE d == TargetAcos * row.sales
               share == (100 * row.spend) \div d - 10
               part == (10 * row.spend) \div row.budget
    <3>3. row.sales > 0 => share \in Int
      <4> SUFFICES ASSUME row.sales > 0
                   PROVE  share \in Int
        OBVIOUS
      <4>1. d \in Nat \ {0} /\ 100 * row.spend \in Nat
        BY <3>1
      <4> HIDE DEF d
      <4>2. (100 * row.spend) \div d \in Int
        BY <3>2, <4>1
      <4> QED
        BY <4>2
    <3>4. row.budget > 0 => part \in Int
      <4> SUFFICES ASSUME row.budget > 0
                   PROVE  part \in Int
        OBVIOUS
      <4>1. row.budget \in Nat \ {0} /\ 10 * row.spend \in Nat
        BY <3>1
      <4> QED
        BY <3>2, <4>1
    <3>5. \/ W \in {{}, {<<6, 92>>}}
          \/ row.sales > 0 /\ W = {<<share, 84>>}
          \/ row.budget > 0 /\ W = {<<part, 80>>}
      <4> HIDE DEF share, part
      <4> QED
        BY DEF Advice!Proof, share, part
    <3> HIDE DEF W, share, part
    <3> QED
      BY <3>3, <3>4, <3>5
  <2> HIDE DEF W, P
  <2>3. CASE W = {}
    <3>1. P = {}
      BY <2>1, <2>3
    <3> QED
      BY <3>1, FS_EmptySet DEF P
  <2>4. CASE \E x, y \in Int : W = {<<x, y>>}
    <3>1. PICK x \in Int, y \in Int : W = {<<x, y>>}
      BY <2>4
    <3> DEFINE r == [position |-> 0, weight |-> <<x, y>>]
    <3>2. P = {r}
      BY <2>1, <3>1
    <3>3. r.position = 0 /\ r.weight[1] = x /\ r.weight[2] = y
      OBVIOUS
    <3> HIDE DEF r
    <3>4. IsFiniteSet(P)
      BY <3>2, FS_Singleton
    <3>5. \A w \in P : w = r
      BY <3>2
    <3>6. \A w \in P : w.position \in Nat /\ w.weight[1] \in Int /\ w.weight[2] \in Int
      BY <3>3, <3>5
    <3> QED
      BY <3>4, <3>5, <3>6 DEF P
  <2> QED
    BY <2>2, <2>3, <2>4
<1> QED
  BY <1>1, <1>2

(* What is known of the findings of some rows about one anomaly.             *)
LEMMA FindingsOrdered ==
  ASSUME NEW D \in Details, NEW p \in Advice!Positions
  PROVE  Ordered({f \in Advice!FindingsOf(D) : f.about = p})
<1> DEFINE S == {f \in Advice!FindingsOf(D) : f.about = p}
           a == anomalies[p]
           R == {row \in D : row.campaign = a.campaign}
           of(row) == {Advice!Finding(row, p, w) : w \in Advice!Proved(row, a)}
<1>1. \A row, q, w : LET f == Advice!Finding(row, q, w) IN
         f.about = q /\ f.row = row.id /\ f.position = w.position /\ f.weight = w.weight
  BY DEF Advice!Finding
<1>2. \A f \in S : \E row \in R : \E w \in Advice!Proved(row, a) : f = Advice!Finding(row, p, w)
  <2> SUFFICES ASSUME NEW f \in S
               PROVE  \E row \in R : \E w \in Advice!Proved(row, a) : f = Advice!Finding(row, p, w)
    OBVIOUS
  <2>1. PICK row \in D : \E q \in Advice!Positions : \E w \in Advice!Proved(row, anomalies[q]) :
           row.campaign = anomalies[q].campaign /\ f = Advice!Finding(row, q, w)
    BY DEF Advice!FindingsOf
  <2>2. PICK q \in Advice!Positions : \E w \in Advice!Proved(row, anomalies[q]) :
           row.campaign = anomalies[q].campaign /\ f = Advice!Finding(row, q, w)
    BY <2>1
  <2>3. q = p
    BY <1>1, <2>2
  <2> QED
    BY <2>2, <2>3
<1>3. \A row \in R : \A w \in Advice!Proved(row, a) : Advice!Finding(row, p, w) \in S
  BY <1>1 DEF Advice!FindingsOf
<1>4. \A row \in R : /\ IsFiniteSet(Advice!Proved(row, a))
                     /\ \A w \in Advice!Proved(row, a) : w.position \in Nat /\ w.weight[1] \in Int /\ w.weight[2] \in Int
                     /\ \A v, w \in Advice!Proved(row, a) : v.position = w.position => v = w
  BY ProvedIs
<1>5. /\ IsFiniteSet(R) /\ \A row \in R : row.id \in Nat
      /\ \A row \in R : \A other \in R : row.id = other.id => row = other
  BY DetailsAssumption, FS_Subset
<1> HIDE DEF S, R, a
<1>6. IsFiniteSet(S)
  <2> DEFINE g == [row \in R |-> of(row)]
             T == {of(row) : row \in R}
  <2>1. ASSUME NEW row \in R
        PROVE  IsFiniteSet(of(row))
    <3> DEFINE V == Advice!Proved(row, a)
               h == [w \in V |-> Advice!Finding(row, p, w)]
               U == {Advice!Finding(row, p, w) : w \in V}
    <3>1. IsFiniteSet(V)
      BY <1>4
    <3> HIDE DEF V
    <3>2. h \in Surjection(V, U)
      BY DEF Surjection
    <3> HIDE DEF h, U
    <3>3. IsFiniteSet(U)
      BY <3>1, <3>2, FS_Surjection
    <3> QED
      BY <3>3 DEF U, V
  <2>2. \A f : f \in S <=> \E row \in R : f \in of(row)
    BY <1>2, <1>3
  <2> HIDE DEF of
  <2>3. S = UNION T
    BY <2>2
  <2>4. g \in Surjection(R, T)
    BY DEF Surjection
  <2>5. \A U \in T : IsFiniteSet(U)
    BY <2>1
  <2> HIDE DEF T, g
  <2>6. IsFiniteSet(T)
    BY <1>5, <2>4, FS_Surjection
  <2> QED
    BY <2>3, <2>5, <2>6, FS_UNION
<1>7. \A f \in S : f.row \in Nat /\ f.position \in Nat /\ f.weight[1] \in Int /\ f.weight[2] \in Int
  BY <1>1, <1>2, <1>4, <1>5
<1>8. ASSUME NEW f \in S, NEW h \in S, f.row = h.row, f.position = h.position
      PROVE  f = h
  <2>1. PICK row \in R : \E w \in Advice!Proved(row, a) : f = Advice!Finding(row, p, w)
    BY <1>2
  <2>2. PICK w \in Advice!Proved(row, a) : f = Advice!Finding(row, p, w)
    BY <2>1
  <2>3. PICK other \in R : \E v \in Advice!Proved(other, a) : h = Advice!Finding(other, p, v)
    BY <1>2
  <2>4. PICK v \in Advice!Proved(other, a) : h = Advice!Finding(other, p, v)
    BY <2>3
  <2>5. row = other
    BY <1>1, <1>5, <1>8, <2>2, <2>4
  <2>6. w = v
    BY <1>1, <1>4, <1>8, <2>2, <2>4, <2>5
  <2> QED
    BY <2>2, <2>4, <2>5, <2>6
<1>9. Ordered(S)
  BY <1>6, <1>7, <1>8 DEF Ordered
<1> QED
  BY <1>9 DEF S, a

(* The invariant of the advice.                                              *)
FindingTrue(f) ==
    f.about \in Advice!Positions /\ f.evidence = <<f.evidence[1], anomalies[f.about].campaign>>
CauseTrue(c) ==
    /\ c.about \in Advice!Positions /\ c.role \in {"primary", "contributing"}
    /\ c.role = "contributing" => c.verified
    /\ c.verified => c.finding \in findings /\ c.finding.about = c.about /\ c.finding.evidence \in c.evidence
    /\ c.verified \/ ~\E f \in findings : f.about = c.about
Narrative(p) == {c \in narrated : c.about = p}
About(p) == {c \in causes : c.about = p}
OneMain(S) ==
    /\ \E c : {x \in S : x.role = "primary"} = {c}
    /\ \E x, y : {z \in S : z.role = "contributing"} \subseteq {x, y}
    /\ \A c, d \in S : c # d /\ c.role = "primary" => d.finding.object = Advice!Unnamed \/ c.finding.object # d.finding.object
ProposalTrue(r) ==
    /\ r.about \in causes /\ r.about.verified /\ r.about.role = "primary"
    /\ r.campaign = anomalies[r.about.about].campaign
    /\ r.evidence # {} /\ r.evidence \subseteq r.about.evidence
    /\ r.action = "adjust_bid" => r.change # 0 /\ r.change \in -30..30
    /\ r.action = "adjust_budget" => r.change # 0 /\ r.change \in -20..30
Listed(s) == Len(s) \in Nat /\ DOMAIN s = 1 .. Len(s)
AdviceEnds == {"no_anomaly", "completed", "needs_review"}
Reviewed ==
    /\ rejected = Advice!Repeats
    /\ {todos[i].of : i \in DOMAIN todos} = Advice!New
    /\ \A i, j \in DOMAIN todos : i # j => todos[i].of # todos[j].of
AdviceInv ==
    /\ advice \in {"inspect", "attribute", "reason", "recommend", "review", "failed"} \cup AdviceEnds
    /\ advice \in {"inspect", "attribute"} => findings = {} /\ causes = {}
    /\ advice \in {"inspect", "attribute", "reason", "failed"} => proposals = <<>>
    /\ IF advice \in AdviceEnds THEN Reviewed ELSE todos = <<>>
    /\ \A f \in findings : FindingTrue(f)
    /\ \A c \in causes : CauseTrue(c)
    /\ \A p \in Advice!Positions : IsFiniteSet({f \in findings : f.about = p})
    /\ advice # "reason" => narrated = {}
    /\ \A c \in narrated : CauseTrue(c)
    /\ \A p \in Advice!Seen : OneMain(Narrative(p))
    /\ advice = "reason" => \A p \in Advice!Positions : OneMain(About(p))
    /\ advice \in {"recommend", "review", "completed", "needs_review"} => \A p \in Advice!Reasoned : OneMain(About(p))
    /\ proposals \in Seq([about : causes, campaign : {anomalies[p].campaign : p \in Advice!Positions}, action : Advice!Actions,
                          change : Int, evidence : SUBSET UNION {c.evidence : c \in causes}])
    /\ \A i \in DOMAIN proposals : ProposalTrue(proposals[i])

(* The rules give an anomaly one main cause, verified by a finding or not.   *)
LEMMA DeterministicIs ==
  ASSUME NEW found, NEW p \in Advice!Positions, Ordered({f \in found : f.about = p})
  PROVE  /\ OneMain(Advice!Deterministic(p, found))
         /\ \A c \in Advice!Deterministic(p, found) :
               /\ c.about = p /\ c.role \in {"primary", "contributing"} /\ (c.role = "contributing" => c.verified)
               /\ c.verified => c.finding \in found /\ c.finding.about = p /\ c.finding.evidence \in c.evidence
               /\ c.verified \/ ~\E f \in found : f.about = p
<1> DEFINE proved == {f \in found : f.about = p}
           D == Advice!Deterministic(p, found)
<1>1. CASE proved = {}
  <2>1. D = {Advice!Unproved(p)}
    BY <1>1 DEF Advice!Deterministic
  <2>2. /\ Advice!Unproved(p).role = "primary" /\ Advice!Unproved(p).about = p /\ Advice!Unproved(p).verified = FALSE
    BY DEF Advice!Unproved
  <2> HIDE DEF D
  <2>3. {x \in D : x.role = "primary"} = {Advice!Unproved(p)} /\ {x \in D : x.role = "contributing"} = {}
    BY <2>1, <2>2
  <2>4. OneMain(D)
    BY <2>1, <2>3 DEF OneMain
  <2>5. ~\E f \in found : f.about = p
    BY <1>1
  <2> QED
    BY <2>1, <2>2, <2>4, <2>5 DEF D
<1>2. CASE proved # {}
  <2> DEFINE f0 == Advice!First(proved)
             S == Advice!PerObject({g \in proved : g.object # f0.object})
             c0 == Advice!Cause(p, "primary", f0)
  <2>1. f0 \in proved
    BY <1>2, FirstIs
  <2>2. S \subseteq {g \in proved : g.object # f0.object}
    BY DEF Advice!PerObject
  <2>3. Ordered(S)
    <3>1. S \in SUBSET proved
      BY <2>2
    <3> HIDE DEF S
    <3> QED
      BY <3>1, FS_Subset DEF Ordered
  <2>4. PICK x, y : Advice!FirstTwo(S) \subseteq {x, y}
    BY <2>3, FirstTwoAre
  <2>5. Advice!FirstTwo(S) \subseteq S
    BY <2>3, FirstTwoAre
  <2>6. D = {c0} \cup {Advice!Cause(p, "contributing", f) : f \in Advice!FirstTwo(S)}
    BY <1>2 DEF Advice!Deterministic
  <2>7. \A role, f : LET c == Advice!Cause(p, role, f) IN
           c.about = p /\ c.role = role /\ c.verified = TRUE /\ c.finding = f /\ f.evidence \in c.evidence
    BY DEF Advice!Cause
  <2> HIDE DEF f0, S, D
  <2>8. {z \in D : z.role = "primary"} = {c0}
    BY <2>6, <2>7
  <2> HIDE DEF c0
  <2>9. {z \in D : z.role = "contributing"} \subseteq {Advice!Cause(p, "contributing", x), Advice!Cause(p, "contributing", y)}
    BY <2>4, <2>6, <2>7 DEF c0
  <2>10. ASSUME NEW c \in D, NEW d \in D, c # d, c.role = "primary"
         PROVE  c.finding.object # d.finding.object
    <3>1. c = c0 /\ c.finding = f0
      BY <2>7, <2>8, <2>10 DEF c0
    <3>2. PICK f \in Advice!FirstTwo(S) : d = Advice!Cause(p, "contributing", f)
      BY <2>6, <2>10, <3>1
    <3>3. d.finding = f /\ f.object # f0.object
      BY <2>2, <2>5, <2>7, <3>2
    <3> QED
      BY <3>1, <3>3
  <2>11. OneMain(D)
    BY <2>8, <2>9, <2>10 DEF OneMain
  <2>12. \A c \in D : /\ c.about = p /\ c.role \in {"primary", "contributing"} /\ c.verified
                      /\ c.finding \in proved /\ c.finding.evidence \in c.evidence
    BY <2>1, <2>2, <2>5, <2>6, <2>7 DEF c0
  <2> QED
    BY <2>11, <2>12 DEF D
<1> QED
  BY <1>1, <1>2

(* The inspection.                                                           *)
LEMMA InspectKept == AdviceInv /\ Advice!Inspect => AdviceInv'
<1> SUFFICES ASSUME AdviceInv, Advice!Inspect
             PROVE  AdviceInv'
  OBVIOUS
<1>1. /\ advice = "inspect" /\ advice' \in {"attribute", "review"} /\ (advice' = "review" => anomalies' = <<>>)
      /\ UNCHANGED <<findings, causes, narrated, decided, proposals, todos, rejected>>
  BY DEF Advice!Inspect
<1>2. findings' = {} /\ causes' = {} /\ narrated' = {} /\ proposals' = <<>> /\ todos' = <<>>
  BY <1>1 DEF AdviceInv, AdviceEnds
<1>3. advice' = "review" => Advice!Positions' = {}
  BY <1>1 DEF Advice!Positions
<1>4. Advice!Reasoned' \subseteq Advice!Positions'
  BY DEF Advice!Reasoned
<1>5. Advice!Seen' = {} /\ \A p : {f \in findings' : f.about = p} = {}
  BY <1>2 DEF Advice!Seen
<1>6. IsFiniteSet({})
  BY FS_EmptySet
<1> QED
  BY <1>1, <1>2, <1>3, <1>4, <1>5, <1>6 DEF AdviceInv, AdviceEnds

(* What the rules say of an anomaly, a cause at a time.                      *)
OfRules(c, p, found) ==
    /\ c.about = p /\ c.role \in {"primary", "contributing"} /\ (c.role = "contributing" => c.verified)
    /\ c.verified => c.finding \in found /\ c.finding.about = p /\ c.finding.evidence \in c.evidence
    /\ c.verified \/ ~\E f \in found : f.about = p

(* The attribution by rules.                                                 *)
LEMMA AttributeKept == AdviceInv /\ Advice!Attribute => AdviceInv'
<1> SUFFICES ASSUME AdviceInv, Advice!Attribute
             PROVE  AdviceInv'
  OBVIOUS
<1>1. /\ advice = "attribute" /\ advice' = "reason" /\ UNCHANGED <<anomalies, narrated, decided, proposals, todos, rejected>>
      /\ causes' = UNION {Advice!Deterministic(p, findings') : p \in Advice!Positions}
  BY DEF Advice!Attribute
<1>2. PICK D \in Details : findings' = Advice!FindingsOf(D)
  BY DEF Advice!Attribute
<1>3. \A f \in findings' : FindingTrue(f)'
  <2> SUFFICES ASSUME NEW f \in findings'
               PROVE  FindingTrue(f)'
    OBVIOUS
  <2>1. PICK row \in D : \E p \in Advice!Positions : \E w \in Advice!Proved(row, anomalies[p]) :
           f = Advice!Finding(row, p, w) /\ row.campaign = anomalies[p].campaign
    BY <1>2 DEF Advice!FindingsOf
  <2> DEFINE tool == IF row.tool = "compared" THEN "targeting" ELSE row.tool
  <2>2. PICK p \in Advice!Positions : \E w \in Advice!Proved(row, anomalies[p]) :
           f = Advice!Finding(row, p, w) /\ row.campaign = anomalies[p].campaign
    BY <2>1
  <2>3. f.about = p /\ f.evidence = <<tool, row.campaign>> /\ f.evidence[1] = tool
    BY <2>2 DEF Advice!Finding
  <2> HIDE DEF tool
  <2> QED
    BY <1>1, <2>2, <2>3 DEF FindingTrue, Advice!Positions
<1>4. Advice!Positions' = Advice!Positions
  BY <1>1 DEF Advice!Positions
<1>5. \A p \in Advice!Positions : Ordered({f \in findings' : f.about = p})
  BY <1>2, FindingsOrdered
<1>11. \A p \in Advice!Positions : OneMain(Advice!Deterministic(p, findings'))
  BY <1>5, DeterministicIs
<1>12. \A p \in Advice!Positions : \A c \in Advice!Deterministic(p, findings') : OfRules(c, p, findings')
  BY <1>5, DeterministicIs DEF OfRules
<1>6. \A c \in causes' : CauseTrue(c)'
  <2> SUFFICES ASSUME NEW c \in causes'
               PROVE  CauseTrue(c)'
    OBVIOUS
  <2>1. PICK p \in Advice!Positions : c \in Advice!Deterministic(p, findings')
    BY <1>1
  <2>2. OfRules(c, p, findings')
    BY <1>12, <2>1
  <2> QED
    BY <1>4, <2>1, <2>2 DEF CauseTrue, OfRules
<1>7. \A p \in Advice!Positions' : OneMain(About(p))'
  <2> SUFFICES ASSUME NEW p \in Advice!Positions
               PROVE  OneMain(About(p))'
    BY <1>4
  <2>1. {c \in causes' : c.about = p} = Advice!Deterministic(p, findings')
    <3>1. \A q \in Advice!Positions : \A c \in Advice!Deterministic(q, findings') : c.about = q
      BY <1>12 DEF OfRules
    <3> QED
      BY <1>1, <3>1
  <2>2. OneMain({c \in causes' : c.about = p})
    BY <1>11, <2>1
  <2> QED
    BY <2>2 DEF About
<1>8. proposals' = <<>> /\ todos' = <<>> /\ narrated' = {}
  BY <1>1 DEF AdviceInv, AdviceEnds
<1>9. Advice!Seen' = {}
  BY <1>8 DEF Advice!Seen
<1>10. \A p \in Advice!Positions' : IsFiniteSet({f \in findings : f.about = p})'
  BY <1>4, <1>5 DEF Ordered
<1> QED
  BY <1>1, <1>3, <1>6, <1>7, <1>8, <1>9, <1>10 DEF AdviceInv, AdviceEnds

(* What the model makes of the causes of one anomaly.                        *)
LEMMA NarratedIs ==
  ASSUME AdviceInv, advice = "reason", NEW d \in Advice!Decision, d.about \in Advice!Reasoned, Advice!Direct(d),
         NEW more \in Advice!Further(d)
  PROVE  /\ OneMain(Advice!Narrated(d, more))
         /\ \A c \in Advice!Narrated(d, more) : c.about = d.about /\ CauseTrue(c)
<1> DEFINE p == d.about
           of(S) == {f \in S \ {d.finding} : f.about = p}
           ruled == {f \in of(Advice!Known) : \E c \in causes : c.role = "contributing" /\ Advice!Id(c.finding) = Advice!Id(f)}
           chosen == {g \in more : g.object = Advice!Unnamed \/ g.object # d.finding.object}
           c0 == [Advice!Cause(d.about, "primary", d.finding) EXCEPT !.evidence = @ \cup d.cited]
           N == Advice!Narrated(d, more)
<1>1. p \in Advice!Positions
  BY DEF Advice!Reasoned
<1>2. Advice!Known \subseteq findings
  BY DEF Advice!Known
<1>3. d.finding \in findings /\ d.finding.about = p
  BY <1>2 DEF Advice!Direct, Advice!Decision
<1>4. N = {c0} \cup {Advice!Cause(d.about, "contributing", f) : f \in chosen}
  BY DEF Advice!Narrated
<1>5. PICK S \in Advice!Named : more \in Advice!AnyTwo(IF of(S) # {} THEN of(S) ELSE ruled)
  BY DEF Advice!Further
<1> DEFINE T == IF of(S) # {} THEN of(S) ELSE ruled
<1>6. T \in SUBSET {f \in findings : f.about = p}
  <2>1. S \subseteq findings
    BY <1>2 DEF Advice!Named
  <2> QED
    BY <1>2, <2>1
<1>7. IsFiniteSet(T)
  <2>1. IsFiniteSet({f \in findings : f.about = p})
    BY <1>1 DEF AdviceInv
  <2> HIDE DEF T
  <2> QED
    BY <1>6, <2>1, FS_Subset
<1>8. more \in Advice!AnyTwo(T)
  BY <1>5
<1> HIDE DEF T
<1>9. more \subseteq T /\ \E x, y : more \subseteq {x, y}
  BY <1>7, <1>8, AnyTwoAre
<1>10. PICK a, b : chosen \subseteq {a, b}
  BY <1>9
<1>11. \A f \in chosen : /\ f \in findings /\ f.about = p
                         /\ f.object = Advice!Unnamed \/ d.finding.object # f.object
  BY <1>6, <1>9
<1>12. \A role, f : LET c == Advice!Cause(p, role, f) IN
          c.about = p /\ c.role = role /\ c.verified = TRUE /\ c.finding = f /\ f.evidence \in c.evidence
  BY DEF Advice!Cause
<1>13. c0.about = p /\ c0.role = "primary" /\ c0.verified = TRUE /\ c0.finding = d.finding /\ d.finding.evidence \in c0.evidence
  BY DEF Advice!Cause
<1> HIDE DEF chosen, c0, N
<1>14. {z \in N : z.role = "primary"} = {c0}
  BY <1>4, <1>12, <1>13
<1>15. {z \in N : z.role = "contributing"} \subseteq {Advice!Cause(p, "contributing", a), Advice!Cause(p, "contributing", b)}
  BY <1>4, <1>13, <1>10
<1>16. ASSUME NEW c \in N, NEW e \in N, c # e, c.role = "primary"
       PROVE  e.finding.object = Advice!Unnamed \/ c.finding.object # e.finding.object
  <2>1. c = c0
    BY <1>14, <1>16
  <2>2. PICK f \in chosen : e = Advice!Cause(p, "contributing", f)
    BY <1>4, <1>16, <2>1
  <2>3. e.finding = f /\ c.finding = d.finding
    BY <1>12, <1>13, <2>1, <2>2
  <2> QED
    BY <1>11, <2>3
<1>17. OneMain(N)
  BY <1>14, <1>15, <1>16 DEF OneMain
<1>18. \A c \in N : /\ c.about = p /\ c.role \in {"primary", "contributing"} /\ c.verified
                    /\ c.finding \in findings /\ c.finding.about = c.about /\ c.finding.evidence \in c.evidence
  BY <1>3, <1>4, <1>11, <1>12, <1>13
<1>19. \A c \in N : c.about = p /\ CauseTrue(c)
  BY <1>1, <1>18 DEF CauseTrue
<1> QED
  BY <1>17, <1>19 DEF N

(* What the model's attribution leaves alone keeps the truth of the causes.  *)
LEMMA CausesStay ==
  ASSUME UNCHANGED <<anomalies, findings>>
  PROVE  /\ Advice!Positions' = Advice!Positions /\ Advice!Reasoned' = Advice!Reasoned
         /\ \A c : CauseTrue(c) => CauseTrue(c)'
         /\ \A f : FindingTrue(f) => FindingTrue(f)'
<1>1. Advice!Positions' = Advice!Positions /\ Advice!Reasoned' = Advice!Reasoned
  BY DEF Advice!Positions, Advice!Reasoned, Advice!Sooner
<1> QED
  BY <1>1 DEF CauseTrue, FindingTrue

(* A decision of the model's attribution, whatever it is.                    *)
LEMMA ReasonKept == AdviceInv /\ Advice!Reason => AdviceInv'
<1> SUFFICES ASSUME AdviceInv, Advice!Reason
             PROVE  AdviceInv'
  OBVIOUS
<1>1. advice = "reason" /\ UNCHANGED <<anomalies, findings, causes, decided, proposals, todos, rejected>>
  BY DEF Advice!Reason
<1>2. /\ Advice!Positions' = Advice!Positions /\ Advice!Reasoned' = Advice!Reasoned /\ Advice!Reasoned \subseteq Advice!Positions
      /\ \A c : CauseTrue(c) => CauseTrue(c)'
      /\ \A f : FindingTrue(f) => FindingTrue(f)'
  BY <1>1, CausesStay DEF Advice!Reasoned
<1>3. /\ proposals' = <<>> /\ todos' = <<>> /\ \A f \in findings' : FindingTrue(f)'
      /\ \A c \in causes' : CauseTrue(c)'
      /\ \A p \in Advice!Positions' : IsFiniteSet({f \in findings : f.about = p})'
      /\ \A p \in Advice!Positions' : OneMain(About(p))'
  BY <1>1, <1>2 DEF AdviceInv, AdviceEnds, About
<1>4. PICK d \in Advice!Decision :
         \/ advice' = "failed" /\ narrated' = {}
         \/ /\ ~Advice!Invalid(d) /\ Advice!Direct(d) /\ UNCHANGED advice
            /\ \E more \in Advice!Further(d) : narrated' = narrated \cup Advice!Narrated(d, more)
  BY DEF Advice!Reason
<1>5. CASE advice' = "failed" /\ narrated' = {}
  <2>1. Advice!Seen' = {}
    BY <1>5 DEF Advice!Seen
  <2> QED
    BY <1>3, <1>5, <2>1 DEF AdviceInv, AdviceEnds
<1>6. CASE /\ ~Advice!Invalid(d) /\ Advice!Direct(d) /\ UNCHANGED advice
           /\ \E more \in Advice!Further(d) : narrated' = narrated \cup Advice!Narrated(d, more)
  <2>1. PICK more \in Advice!Further(d) : narrated' = narrated \cup Advice!Narrated(d, more)
    BY <1>6
  <2> DEFINE N == Advice!Narrated(d, more)
  <2>2. d.about \in Advice!Reasoned /\ d.about \notin Advice!Seen
    BY <1>6 DEF Advice!Invalid
  <2>3. OneMain(N) /\ \A c \in N : c.about = d.about /\ CauseTrue(c)
    BY <1>1, <1>6, <2>2, NarratedIs
  <2> HIDE DEF N
  <2>4. narrated' = narrated \cup N
    BY <2>1 DEF N
  <2>5. \A c \in narrated' : CauseTrue(c)'
    BY <1>2, <2>3, <2>4 DEF AdviceInv
  <2>6. ASSUME NEW p \in Advice!Seen'
        PROVE  OneMain(Narrative(p))'
    <3>1. CASE p = d.about
      <4>1. {c \in narrated' : c.about = p} = N
        BY <2>2, <2>3, <2>4, <3>1 DEF Advice!Seen
      <4>2. OneMain({c \in narrated' : c.about = p})
        BY <2>3, <4>1
      <4> QED
        BY <4>2 DEF Narrative
    <3>2. CASE p # d.about
      <4>1. {c \in narrated' : c.about = p} = Narrative(p)
        BY <2>3, <2>4, <3>2 DEF Narrative
      <4>2. p \in Advice!Seen
        BY <2>3, <2>4, <2>6, <3>2 DEF Advice!Seen
      <4>3. OneMain({c \in narrated' : c.about = p})
        BY <4>1, <4>2 DEF AdviceInv
      <4> QED
        BY <4>3 DEF Narrative
    <3> QED
      BY <3>1, <3>2
  <2> QED
    BY <1>1, <1>3, <1>6, <2>5, <2>6 DEF AdviceInv, AdviceEnds
<1> QED
  BY <1>4, <1>5, <1>6

(* The end of the attribution.                                               *)
LEMMA EndReasoningKept == AdviceInv /\ Advice!EndReasoning => AdviceInv'
<1> SUFFICES ASSUME AdviceInv, Advice!EndReasoning
             PROVE  AdviceInv'
  OBVIOUS
<1>1. /\ advice = "reason" /\ advice' \in {"failed", "recommend"} /\ narrated' = {} /\ causes' = narrated \cup Advice!Kept
      /\ UNCHANGED <<anomalies, findings, decided, proposals, todos, rejected>>
  BY DEF Advice!EndReasoning
<1>2. /\ Advice!Positions' = Advice!Positions /\ Advice!Reasoned' = Advice!Reasoned /\ Advice!Reasoned \subseteq Advice!Positions
      /\ \A c : CauseTrue(c) => CauseTrue(c)'
      /\ \A f : FindingTrue(f) => FindingTrue(f)'
  BY <1>1, CausesStay DEF Advice!Reasoned
<1>3. /\ proposals' = <<>> /\ todos' = <<>> /\ \A f \in findings' : FindingTrue(f)'
      /\ \A p \in Advice!Positions' : IsFiniteSet({f \in findings : f.about = p})'
  BY <1>1, <1>2 DEF AdviceInv, AdviceEnds
<1>4. \A c \in causes' : CauseTrue(c)'
  BY <1>1, <1>2 DEF AdviceInv, Advice!Kept
<1>5. ASSUME NEW p \in Advice!Reasoned'
      PROVE  OneMain(About(p))'
  <2>1. CASE p \in Advice!Seen
    <3>1. {c \in causes' : c.about = p} = Narrative(p)
      BY <1>1, <2>1 DEF Advice!Kept, Narrative
    <3>2. OneMain({c \in causes' : c.about = p})
      BY <2>1, <3>1 DEF AdviceInv
    <3> QED
      BY <3>2 DEF About
  <2>2. CASE p \notin Advice!Seen
    <3>1. {c \in causes' : c.about = p} = About(p)
      BY <1>1, <1>2, <2>2 DEF Advice!Kept, Advice!Seen, About
    <3>2. OneMain({c \in causes' : c.about = p})
      BY <1>1, <1>2, <3>1 DEF AdviceInv
    <3> QED
      BY <3>2 DEF About
  <2> QED
    BY <2>1, <2>2
<1>6. Advice!Seen' = {}
  BY <1>1 DEF Advice!Seen
<1> QED
  BY <1>1, <1>3, <1>4, <1>5, <1>6 DEF AdviceInv, AdviceEnds

(* A change stays within the limits of the guard.                            *)
LEMMA GuardHolds ==
  ASSUME NEW action \in Advice!Actions, NEW n \in Advice!Changes(action)
  PROVE  LET g == Advice!Guarded(action, n) IN
         /\ g[1] \in Advice!Actions /\ g[2] \in Int
         /\ g[1] = "adjust_bid" => g[2] # 0 /\ g[2] \in -30..30
         /\ g[1] = "adjust_budget" => g[2] # 0 /\ g[2] \in -20..30
<1>1. n \in {-50, 0, 50}
  BY DEF Advice!Changes
<1>2. /\ Advice!Clamp(-50, -30, 30) = -30 /\ Advice!Clamp(50, -30, 30) = 30
      /\ Advice!Clamp(-50, -20, 30) = -20 /\ Advice!Clamp(50, -20, 30) = 30
      /\ Advice!Clamp(-50, 1, 14) = 1 /\ Advice!Clamp(50, 1, 14) = 14 /\ Advice!Clamp(3, 1, 14) = 3
  BY DEF Advice!Clamp
<1>3. action \in {"observe", "optimize_listing", "adjust_bid", "adjust_budget", "add_negative"}
  BY DEF Advice!Actions, Advice!ReadOnly
<1>4. Advice!Guarded(action, n) \in
        {<<"observe", 3>>, <<"observe", 1>>, <<"observe", 14>>, <<"optimize_listing", 0>>, <<"add_negative", 0>>,
         <<"adjust_bid", -30>>, <<"adjust_bid", 30>>, <<"adjust_budget", -20>>, <<"adjust_budget", 30>>}
  <2>1. CASE action = "adjust_bid"
    BY <1>1, <1>2, <2>1 DEF Advice!Guarded
  <2>2. CASE action = "adjust_budget"
    BY <1>1, <1>2, <2>2 DEF Advice!Guarded
  <2>3. CASE action = "observe"
    BY <1>1, <1>2, <2>3 DEF Advice!Guarded
  <2>4. CASE action \in {"optimize_listing", "add_negative"}
    BY <2>4 DEF Advice!Guarded
  <2> QED
    BY <1>3, <2>1, <2>2, <2>3, <2>4
<1> QED
  BY <1>4 DEF Advice!Actions, Advice!ReadOnly

(* Once the attribution is over, a step that leaves the causes alone leaves  *)
(* the invariant about them as it was.                                       *)
LEMMA SettledStays ==
  ASSUME AdviceInv, advice # "reason", UNCHANGED <<anomalies, findings, causes, narrated>>
  PROVE  /\ Advice!Positions' = Advice!Positions /\ Advice!Reasoned' = Advice!Reasoned
         /\ \A f \in findings' : FindingTrue(f)'
         /\ \A c \in causes' : CauseTrue(c)'
         /\ \A p \in Advice!Positions' : IsFiniteSet({f \in findings : f.about = p})'
         /\ narrated' = {} /\ Advice!Seen' = {}
<1>1. /\ Advice!Positions' = Advice!Positions /\ Advice!Reasoned' = Advice!Reasoned
      /\ (\A c : CauseTrue(c) => CauseTrue(c)') /\ (\A f : FindingTrue(f) => FindingTrue(f)')
  BY CausesStay
<1>2. \A f \in findings' : FindingTrue(f)'
  BY <1>1 DEF AdviceInv
<1>3. \A c \in causes' : CauseTrue(c)'
  BY <1>1 DEF AdviceInv
<1>4. \A p \in Advice!Positions' : IsFiniteSet({f \in findings : f.about = p})'
  BY <1>1 DEF AdviceInv
<1>5. narrated' = {}
  BY DEF AdviceInv
<1>6. Advice!Seen' = {}
  BY <1>5 DEF Advice!Seen
<1> QED
  BY <1>1, <1>2, <1>3, <1>4, <1>5, <1>6

(* A recommendation that is accepted.                                        *)
LEMMA RecommendKept == AdviceInv /\ Advice!Recommend => AdviceInv'
<1> SUFFICES ASSUME AdviceInv, Advice!Recommend
             PROVE  AdviceInv'
  OBVIOUS
<1>1. advice = "recommend" /\ UNCHANGED <<advice, anomalies, findings, causes, narrated, todos, rejected>>
  BY DEF Advice!Recommend
<1>2. PICK d \in Advice!Proposed :
        /\ Advice!Accepted(d)
        /\ proposals' = Append(proposals, [about |-> d.about, campaign |-> anomalies[d.about.about].campaign,
                                           action |-> Advice!Guarded(d.action, d.change)[1],
                                           change |-> Advice!Guarded(d.action, d.change)[2], evidence |-> d.evidence])
  BY DEF Advice!Recommend
<1> DEFINE r == [about |-> d.about, campaign |-> anomalies[d.about.about].campaign,
                 action |-> Advice!Guarded(d.action, d.change)[1],
                 change |-> Advice!Guarded(d.action, d.change)[2], evidence |-> d.evidence]
           P == [about : causes, campaign : {anomalies[p].campaign : p \in Advice!Positions}, action : Advice!Actions,
                 change : Int, evidence : SUBSET UNION {c.evidence : c \in causes}]
<1>3. d.about \in causes /\ d.about.verified /\ d.about.role = "primary" /\ d.evidence # {} /\ d.evidence \subseteq d.about.evidence
  BY <1>2 DEF Advice!Accepted, Advice!Eligible
<1>4. d.action \in Advice!Actions /\ d.change \in Advice!Changes(d.action)
  BY DEF Advice!Proposed
<1>5. d.about.about \in Advice!Positions
  BY <1>3 DEF AdviceInv, CauseTrue
<1>6. r \in P /\ ProposalTrue(r)
  <2>1. r.action \in Advice!Actions /\ r.change \in Int
        /\ (r.action = "adjust_bid" => r.change # 0 /\ r.change \in -30..30)
        /\ (r.action = "adjust_budget" => r.change # 0 /\ r.change \in -20..30)
    BY <1>4, GuardHolds
  <2>2. d.evidence \in SUBSET UNION {c.evidence : c \in causes}
    BY <1>3
  <2>3. ProposalTrue(r)
    BY <1>3, <2>1 DEF ProposalTrue
  <2> QED
    BY <1>3, <1>5, <2>1, <2>2, <2>3
<1>7. proposals' = Append(proposals, r)
  BY <1>2
<1>8. proposals \in Seq(P) /\ \A i \in DOMAIN proposals : ProposalTrue(proposals[i])
  BY DEF AdviceInv
<1> HIDE DEF r, P
<1>9. proposals' \in Seq(P) /\ \A i \in DOMAIN proposals' : ProposalTrue(proposals'[i])
  <2>1. proposals' \in Seq(P) /\ Len(proposals') = Len(proposals) + 1 /\ DOMAIN proposals' = 1 .. Len(proposals) + 1
        /\ \A i \in 1 .. Len(proposals) : proposals'[i] = proposals[i] 
    BY <1>6, <1>7, <1>8
  <2>2. proposals'[Len(proposals) + 1] = r
    BY <1>6, <1>7, <1>8
  <2>3. DOMAIN proposals = 1 .. Len(proposals) /\ Len(proposals) \in Nat
    BY <1>8
  <2> QED
    BY <1>6, <1>8, <2>1, <2>2, <2>3
<1>10. \A x : ProposalTrue(x) => ProposalTrue(x)'
  BY <1>1 DEF ProposalTrue
<1>11. proposals' \in Seq(P)'
  BY <1>1, <1>9 DEF P, Advice!Positions
<1>12. \A i \in DOMAIN proposals' : ProposalTrue(proposals[i])'
  BY <1>1, <1>9 DEF ProposalTrue
<1>13. /\ Advice!Positions' = Advice!Positions /\ Advice!Reasoned' = Advice!Reasoned
       /\ (\A f \in findings' : FindingTrue(f)') /\ (\A c \in causes' : CauseTrue(c)')
       /\ (\A p \in Advice!Positions' : IsFiniteSet({f \in findings : f.about = p})')
       /\ narrated' = {} /\ Advice!Seen' = {}
  BY <1>1, SettledStays
<1>14. \A p \in Advice!Reasoned' : OneMain(About(p))'
  BY <1>1, <1>13 DEF AdviceInv, About
<1>15. todos' = <<>>
  BY <1>1 DEF AdviceInv, AdviceEnds
<1> QED
  BY <1>1, <1>11, <1>12, <1>13, <1>14, <1>15 DEF AdviceInv, AdviceEnds, P

(* The review, which makes todos of those that are new.                      *)
LEMMA ReviewKept == AdviceInv /\ Advice!Review => AdviceInv'
<1> SUFFICES ASSUME AdviceInv, Advice!Review
             PROVE  AdviceInv'
  OBVIOUS
<1>1. advice = "review" /\ rejected' = Advice!Repeats /\ UNCHANGED <<anomalies, findings, causes, narrated, decided, proposals>>
  BY DEF Advice!Review
<1>2. todos' = [k \in 1 .. Cardinality(Advice!New) |-> Advice!Todo(Advice!Nth(Advice!New, k))]
  BY AdviceCardinality DEF Advice!Review
<1>3. advice' \in AdviceEnds
  BY DEF Advice!Review, AdviceEnds
<1> DEFINE K == Advice!New
           n == Len(proposals)
           g == [i \in K |-> Cardinality({j \in K : j <= i})]
           At(k) == Advice!Nth(K, k)
<1>4. n \in Nat /\ K \in SUBSET (1 .. n)
  BY DEF AdviceInv, Advice!New
<1>5. \A i \in K : g[i] = Advice!Place(K, i)
  BY AdviceCardinality DEF Advice!Place
<1> HIDE DEF K
<1>6. /\ Cardinality(K) \in Nat /\ \A i \in K : g[i] \in 1 .. Cardinality(K)
      /\ \A k \in 1 .. Cardinality(K) : \E i \in K : g[i] = k
      /\ \A i, j \in K : g[i] = g[j] => i = j
  <2>1. g = [i \in K |-> Cardinality({j \in K : j <= i})]
    OBVIOUS
  <2> HIDE DEF g, n
  <2> QED
    BY <1>4, <2>1, Places
<1> HIDE DEF g
<1>7. \A k \in 1 .. Cardinality(K) : At(k) \in K /\ g[At(k)] = k
  <2> SUFFICES ASSUME NEW k \in 1 .. Cardinality(K)
               PROVE  At(k) \in K /\ g[At(k)] = k
    OBVIOUS
  <2>1. \E i \in K : Advice!Place(K, i) = k
    BY <1>5, <1>6
  <2>2. At(k) \in K /\ Advice!Place(K, At(k)) = k
    BY <2>1 DEF Advice!Nth
  <2> QED
    BY <1>5, <2>2
<1>8. \A k \in 1 .. Cardinality(K) : todos'[k].of = At(k)
  BY <1>2 DEF Advice!Todo, K
<1>9. DOMAIN todos' = 1 .. Cardinality(K)
  BY <1>2 DEF K
<1> HIDE DEF At
<1>10. \A i, j \in DOMAIN todos' : i # j => todos'[i].of # todos'[j].of
  BY <1>7, <1>8, <1>9
<1>11. {todos'[i].of : i \in DOMAIN todos'} = K
  <2>1. \A k \in DOMAIN todos' : todos'[k].of \in K
    BY <1>7, <1>8, <1>9
  <2>2. \A i \in K : \E k \in DOMAIN todos' : todos'[k].of = i
    <3> SUFFICES ASSUME NEW i \in K
                 PROVE  \E k \in DOMAIN todos' : todos'[k].of = i
      OBVIOUS
    <3>1. g[i] \in DOMAIN todos'
      BY <1>6, <1>9
    <3>2. At(g[i]) = i
      BY <1>6, <1>7
    <3> QED
      BY <1>8, <1>9, <3>1, <3>2
  <2> QED
    BY <2>1, <2>2
<1>12. Advice!New' = K /\ Advice!Repeats' = Advice!Repeats
  BY <1>1 DEF Advice!New, Advice!Repeats, Advice!Twin, K
<1>13. Reviewed'
  BY <1>1, <1>10, <1>11, <1>12 DEF Reviewed
<1>14. /\ Advice!Positions' = Advice!Positions /\ Advice!Reasoned' = Advice!Reasoned
       /\ (\A f \in findings' : FindingTrue(f)') /\ (\A c \in causes' : CauseTrue(c)')
       /\ (\A p \in Advice!Positions' : IsFiniteSet({f \in findings : f.about = p})')
       /\ narrated' = {} /\ Advice!Seen' = {}
  BY <1>1, SettledStays
<1>17. \A p \in Advice!Reasoned' : OneMain(About(p))'
  BY <1>1, <1>14 DEF AdviceInv, About
<1>18. \A i \in DOMAIN proposals' : ProposalTrue(proposals[i])'
  BY <1>1 DEF AdviceInv, ProposalTrue
<1>19. (proposals \in Seq([about : causes, campaign : {anomalies[p].campaign : p \in Advice!Positions}, action : Advice!Actions,
                          change : Int, evidence : SUBSET UNION {c.evidence : c \in causes}]))'
  BY <1>1, <1>14 DEF AdviceInv
<1> QED
  BY <1>3, <1>13, <1>14, <1>17, <1>18, <1>19 DEF AdviceInv, AdviceEnds

(* Every step of the advice.                                                 *)
LEMMA AdviceStep == AdviceInv /\ [Advice!Next]_(Advice!vars) => AdviceInv'
<1> SUFFICES ASSUME AdviceInv, [Advice!Next]_(Advice!vars)
             PROVE  AdviceInv'
  OBVIOUS
<1>1. CASE Advice!EndRecommending
  <2>1. advice = "recommend" /\ advice' = "review" /\ UNCHANGED <<anomalies, findings, causes, narrated, decided, proposals, todos, rejected>>
    BY <1>1 DEF Advice!EndRecommending
  <2>2. /\ Advice!Positions' = Advice!Positions /\ Advice!Reasoned' = Advice!Reasoned
        /\ (\A f \in findings' : FindingTrue(f)') /\ (\A c \in causes' : CauseTrue(c)')
        /\ (\A p \in Advice!Positions' : IsFiniteSet({f \in findings : f.about = p})')
        /\ narrated' = {} /\ Advice!Seen' = {}
    BY <2>1, SettledStays
  <2> QED
    BY <2>1, <2>2 DEF AdviceInv, AdviceEnds, About, ProposalTrue
<1>2. CASE UNCHANGED Advice!vars
  <2>1. UNCHANGED <<advice, anomalies, findings, causes, narrated, decided, proposals, todos, rejected>>
    BY <1>2 DEF Advice!vars
  <2>2. Advice!Positions' = Advice!Positions /\ Advice!Reasoned' = Advice!Reasoned
    BY <2>1 DEF Advice!Positions, Advice!Reasoned, Advice!Sooner
  <2>3. Advice!Repeats' = Advice!Repeats /\ Advice!New' = Advice!New /\ Advice!Seen' = Advice!Seen
    BY <2>1 DEF Advice!New, Advice!Repeats, Advice!Twin, Advice!Seen
  <2> QED
    BY <2>1, <2>2, <2>3 DEF AdviceInv, AdviceEnds, FindingTrue, CauseTrue, About, Narrative, ProposalTrue, Reviewed
<1>3. CASE Advice!ModelFails
  <2>1. /\ advice \in {"reason", "recommend"} /\ advice' = "failed" /\ proposals = <<>> /\ narrated = {}
        /\ UNCHANGED <<anomalies, findings, causes, narrated, decided, proposals, todos, rejected>>
    BY <1>3 DEF Advice!ModelFails, AdviceInv
  <2>2. /\ Advice!Positions' = Advice!Positions
        /\ (\A c : CauseTrue(c) => CauseTrue(c)') /\ (\A f : FindingTrue(f) => FindingTrue(f)')
    BY <2>1, CausesStay
  <2>3. Advice!Seen' = {}
    BY <2>1 DEF Advice!Seen
  <2>4. todos' = <<>>
    BY <2>1 DEF AdviceInv, AdviceEnds
  <2> QED
    BY <2>1, <2>2, <2>3, <2>4 DEF AdviceInv, AdviceEnds, ProposalTrue
<1> QED
  BY <1>1, <1>2, <1>3, InspectKept, AttributeKept, ReasonKept, EndReasoningKept, RecommendKept, ReviewKept DEF Advice!Next

(* The invariant says what CausesComplete says.                              *)
LEMMA CausesHold == AdviceInv => Advice!CausesComplete
<1> SUFFICES ASSUME AdviceInv, advice \in {"recommend", "review", "completed", "needs_review"}, NEW p \in Advice!Reasoned
             PROVE  LET of == {c \in causes : c.about = p} IN
                    /\ Cardinality({c \in of : c.role = "primary"}) = 1
                    /\ Cardinality(of) <= 3
                    /\ \A c \in of : c.verified => (c.finding \in findings /\ c.finding.about = p /\ c.finding.evidence \in c.evidence)
                    /\ \A c \in of : c.verified \/ ~\E f \in findings : f.about = p
                    /\ \A c \in of : \A d \in of :
                          (c # d /\ c.role = "primary") => (d.finding.object = Advice!Unnamed \/ c.finding.object # d.finding.object)
  BY AdviceCardinality DEF Advice!CausesComplete
<1> DEFINE S == About(p)
<1>1. OneMain(S)
  BY DEF AdviceInv
<1>2. \A c \in S : CauseTrue(c) /\ c.about = p
  BY DEF AdviceInv, About
<1> HIDE DEF S
<1>3. PICK c0 : {x \in S : x.role = "primary"} = {c0}
  BY <1>1 DEF OneMain
<1>4. PICK x, y : {z \in S : z.role = "contributing"} \subseteq {x, y}
  BY <1>1 DEF OneMain
<1>5. S \subseteq {c0, x, y}
  BY <1>2, <1>3, <1>4 DEF CauseTrue
<1>6. Cardinality(S) <= 3
  BY <1>5, ThreeAtMost
<1>7. Cardinality({c \in S : c.role = "primary"}) = 1
  BY <1>3, FS_Singleton
<1>8. \A c \in S : c.verified => (c.finding \in findings /\ c.finding.about = p /\ c.finding.evidence \in c.evidence)
  BY <1>2 DEF CauseTrue
<1>9. \A c \in S : c.verified \/ ~\E f \in findings : f.about = p
  BY <1>2 DEF CauseTrue
<1>10. \A c \in S : \A d \in S :
          (c # d /\ c.role = "primary") => (d.finding.object = Advice!Unnamed \/ c.finding.object # d.finding.object)
  BY <1>1 DEF OneMain
<1> QED
  BY <1>6, <1>7, <1>8, <1>9, <1>10 DEF S, About

(* The invariant says what TodosSound says.                                  *)
LEMMA TodosHold == AdviceInv => Advice!TodosSound
<1> SUFFICES ASSUME AdviceInv
             PROVE  Advice!TodosSound
  OBVIOUS
<1>1. \A i \in DOMAIN todos : todos[i].of \in DOMAIN proposals /\ Reviewed
  <2> SUFFICES ASSUME NEW i \in DOMAIN todos
               PROVE  todos[i].of \in DOMAIN proposals /\ Reviewed
    OBVIOUS
  <2>1. Reviewed
    <3>1. todos # <<>>
      OBVIOUS
    <3> QED
      BY <3>1 DEF AdviceInv
  <2>2. todos[i].of \in Advice!New
    BY <2>1 DEF Reviewed
  <2> QED
    BY <2>1, <2>2 DEF Advice!New
<1>2. Advice!TodosGrounded
  <2> SUFFICES ASSUME NEW i \in DOMAIN todos
               PROVE  LET r == proposals[todos[i].of] IN
                      /\ r.about.verified /\ r.about.role = "primary" /\ r.about \in causes
                      /\ \E f \in findings : f.evidence = <<f.evidence[1], r.campaign>> /\ f.about = r.about.about
                      /\ r.evidence # {} /\ r.evidence \subseteq r.about.evidence
                      /\ r.action = "adjust_bid" => r.change # 0 /\ r.change \in -30..30
                      /\ r.action = "adjust_budget" => r.change # 0 /\ r.change \in -20..30
    BY DEF Advice!TodosGrounded
  <2> DEFINE r == proposals[todos[i].of]
  <2>1. ProposalTrue(r)
    BY <1>1 DEF AdviceInv
  <2> HIDE DEF r
  <2>2. r.about.finding \in findings /\ r.about.finding.about = r.about.about
    BY <2>1 DEF ProposalTrue, AdviceInv, CauseTrue
  <2>3. r.about.finding.evidence = <<r.about.finding.evidence[1], r.campaign>>
    BY <2>1, <2>2 DEF ProposalTrue, AdviceInv, FindingTrue
  <2>4. \E f \in findings : f.evidence = <<f.evidence[1], r.campaign>> /\ f.about = r.about.about
    BY <2>2, <2>3
  <2> QED
    BY <2>1, <2>4 DEF ProposalTrue, r
<1>3. Advice!TodosDistinct
  <2> SUFFICES ASSUME advice \in {"completed", "needs_review"}
               PROVE  /\ {todos[i].of : i \in DOMAIN todos} = DOMAIN proposals \ rejected
                      /\ \A i, j \in DOMAIN todos :
                            i # j => <<proposals[todos[i].of].action, proposals[todos[i].of].campaign>> #
                                     <<proposals[todos[j].of].action, proposals[todos[j].of].campaign>>
    BY DEF Advice!TodosDistinct
  <2>1. Reviewed
    BY DEF AdviceInv, AdviceEnds
  <2>2. {todos[i].of : i \in DOMAIN todos} = DOMAIN proposals \ rejected
    BY <2>1 DEF Reviewed, Advice!New
  <2>3. ASSUME NEW i \in DOMAIN todos, NEW j \in DOMAIN todos, i # j
        PROVE  ~Advice!Twin(todos[i].of, todos[j].of)
    <3>1. todos[i].of \in Advice!New /\ todos[j].of \in Advice!New /\ todos[i].of # todos[j].of
      BY <2>1, <2>3 DEF Reviewed
    <3> DEFINE a == todos[i].of
               b == todos[j].of
    <3>2. a \in 1 .. Len(proposals) /\ b \in 1 .. Len(proposals) /\ a # b /\ Len(proposals) \in Nat /\ DOMAIN proposals = 1 .. Len(proposals)
      BY <3>1 DEF AdviceInv, Advice!New
    <3>3. a \notin Advice!Repeats /\ b \notin Advice!Repeats
      BY <3>1 DEF Advice!New
    <3> HIDE DEF a, b
    <3>4. ~Advice!Twin(a, b)
      <4>1. CASE a < b
        <5>1. a \in 1 .. (b - 1)
          BY <3>2, <4>1
        <5>2. ~Advice!Twin(b, a)
          BY <3>2, <3>3, <5>1 DEF Advice!Repeats
        <5> QED
          BY <5>2 DEF Advice!Twin
      <4>2. CASE b < a
        <5>1. b \in 1 .. (a - 1)
          BY <3>2, <4>2
        <5> QED
          BY <3>2, <3>3, <5>1 DEF Advice!Repeats
      <4> QED
        BY <3>2, <4>1, <4>2
    <3> QED
      BY <3>4 DEF a, b
  <2>4. \A i, j \in DOMAIN todos :
           i # j => <<proposals[todos[i].of].action, proposals[todos[i].of].campaign>> #
                    <<proposals[todos[j].of].action, proposals[todos[j].of].campaign>>
    BY <2>3 DEF Advice!Twin
  <2> QED
    BY <2>2, <2>4
<1> QED
  BY <1>2, <1>3 DEF Advice!TodosSound

(* The advice by itself.                                                     *)
LEMMA AdviceHolds == Advice!Spec => []Advice!AdviceSound
<1>1. Advice!Init => AdviceInv
  <2> SUFFICES ASSUME Advice!Init
               PROVE  AdviceInv
    OBVIOUS
  <2>1. advice = "inspect" /\ findings = {} /\ causes = {} /\ narrated = {} /\ proposals = <<>> /\ todos = <<>>
    BY DEF Advice!Init
  <2>2. Advice!Seen = {} /\ \A p : {f \in findings : f.about = p} = {}
    BY <2>1 DEF Advice!Seen
  <2>3. IsFiniteSet({})
    BY FS_EmptySet
  <2> QED
    BY <2>1, <2>2, <2>3 DEF AdviceInv, AdviceEnds
<1>2. AdviceInv => Advice!AdviceSound
  BY CausesHold, TodosHold DEF Advice!AdviceSound
<1> QED
  BY <1>1, <1>2, AdviceStep, PTL DEF Advice!Spec


(* What else is worked off changes nothing in the advice.                    *)
LEMMA AdviceAlone == Work => Advice!Spec
<1>1. InitWork => Advice!Init
  BY DEF InitWork
<1>2. [NextWork]_workVars => [Advice!Next]_(Advice!vars)
  BY DEF NextWork, workVars, adviceVars, Advice!vars
<1> QED
  BY <1>1, <1>2, PTL DEF Work, Advice!Spec

(* Whatever the numbers are and whatever the models answer, each anomaly     *)
(* that was reasoned about has one main cause and at most two more, of other *)
(* objects if they have a name, each proved by a finding of its own if there *)
(* is one; and a todo comes from a proved main cause, cites its evidence,    *)
(* changes bids and budgets within the limits and is asked once.             *)
THEOREM AdviceKept == Work => []AdviceSound
<1>1. Advice!AdviceSound => AdviceSound
  BY DEF AdviceSound
<1> QED
  BY <1>1, AdviceAlone, AdviceHolds, PTL

-----------------------------------------------------------------------------
(***************************************************************************)
(* The reports of the open platform: all that was asked for, nothing else. *)
(***************************************************************************)
(* The elements of a set of positions, by their place.                       *)
LEMMA NthElement ==
  ASSUME NEW n \in Nat, NEW K \in SUBSET (1 .. n)
  PROVE  \A k \in 1 .. Cardinality(K) : Open!Nth(K, k) \in K
<1> DEFINE g == [i \in K |-> Cardinality({j \in K : j <= i})]
<1>1. \A T : Open!Cardinality(T) = Cardinality(T)
  BY DEF Open!Cardinality, Cardinality, Open!IsFiniteSet, IsFiniteSet
<1>2. \A i \in K : g[i] = Open!Place(K, i)
  BY <1>1 DEF Open!Place
<1>3. g = [i \in K |-> Cardinality({j \in K : j <= i})]
  OBVIOUS
<1> HIDE DEF g
<1>4. \A k \in 1 .. Cardinality(K) : \E i \in K : g[i] = k
  BY <1>3, Places
<1> QED
  BY <1>2, <1>4 DEF Open!Nth

(* Whatever a selection holds has passed, and was in the sequence.           *)
LEMMA WithinHolds ==
  ASSUME NEW S, NEW s \in Seq(S), NEW W
  PROVE  \A k \in DOMAIN Open!Within(s, W) : Open!Within(s, W)[k] \in W /\ Open!Within(s, W)[k] \in Open!Range(s)
<1> DEFINE P == {i \in DOMAIN s : s[i] \in W}
<1>1. \A T : Open!Cardinality(T) = Cardinality(T)
  BY DEF Open!Cardinality, Cardinality, Open!IsFiniteSet, IsFiniteSet
<1>2. Open!Within(s, W) = [k \in 1 .. Cardinality(P) |-> s[Open!Nth(P, k)]]
  BY <1>1 DEF Open!Within, Open!Picked
<1>3. P \in SUBSET (1 .. Len(s)) /\ Len(s) \in Nat
  OBVIOUS
<1>4. \A i \in P : s[i] \in W /\ s[i] \in Open!Range(s)
  BY DEF Open!Range
<1> HIDE DEF P
<1>5. \A k \in 1 .. Cardinality(P) : Open!Nth(P, k) \in P
  BY <1>3, NthElement
<1> QED
  BY <1>2, <1>4, <1>5

(* The invariant of a report of the open platform.                           *)
Kinds == {"sp", "sb", "details", "products"}
Stands == request.report = "detail"
NeedsProducts == request.report # "detail" /\ request.products # {}
(* How far the queries are, and what has been read when no row was missed.   *)
Reading(q) == todo # <<>> /\ Head(todo) = q
Queue ==
    IF Stands THEN todo \in {<<"details">>, <<>>}
    ELSE IF NeedsProducts THEN todo \in {<<"sp", "sb", "products">>, <<"sb", "products">>, <<"products">>, <<>>}
    ELSE todo \in {<<"sp", "sb">>, <<"sb">>, <<>>}
Begun(q) == SubSeq(served[q], 1, offset)
RowsRead ==
    CASE Reading("details") -> Begun("details")
      [] Reading("sp") -> Begun("sp")
      [] Reading("sb") -> served["sp"] \o Begun("sb")
      [] OTHER -> Open!Service
CampaignsRead ==
    CASE Reading("products") -> {row.campaign : row \in {r \in Open!Range(Begun("products")) : r.product \in request.products}}
      [] todo = <<>> /\ NeedsProducts -> Open!CampaignsOf(request.products)
      [] OTHER -> {}
ReportInv ==
    /\ served \in [Kinds -> Seq(SoldRow)] /\ offset \in Nat /\ rows \in Seq(SoldRow) /\ exact \in BOOLEAN /\ Queue
    /\ scoped \subseteq Open!CampaignsOf(request.products)
    /\ exact => rows = RowsRead /\ scoped = CampaignsRead /\ (todo # <<>> => offset <= Len(served[Head(todo)]))
    /\ returned # Open!NoReport => Open!ReportScoped /\ todo = <<>>

(* A report that has not been read.                                          *)
LEMMA OpenInitially == Open!Init => ReportInv
<1> SUFFICES ASSUME Open!Init
             PROVE  ReportInv
  OBVIOUS
<1>1. served \in [Kinds -> Seq(SoldRow)]
  BY TablesAssumption DEF Open!Init, Kinds
<1>2. offset = 0 /\ rows = <<>> /\ scoped = {} /\ returned = Open!NoReport /\ exact = TRUE /\ todo = Open!Queries(request)
  BY DEF Open!Init
<1>3. todo = IF Stands THEN <<"details">> ELSE IF NeedsProducts THEN <<"sp", "sb", "products">> ELSE <<"sp", "sb">>
  BY <1>2 DEF Open!Queries, Stands, NeedsProducts, Open!Products
<1>4. Queue /\ todo # <<>> /\ Head(todo) \in {"sp", "details"}
  BY <1>3 DEF Queue
<1>5. \A q \in Kinds : SubSeq(served[q], 1, 0) = <<>> /\ Len(served[q]) \in Nat
  BY <1>1, SubSeqEmpty
<1>6. Begun("details") = <<>> /\ Begun("sp") = <<>>
  BY <1>2, <1>5 DEF Begun, Kinds
<1>7. RowsRead = <<>> /\ CampaignsRead = {}
  BY <1>4, <1>6 DEF RowsRead, CampaignsRead, Reading
<1> QED
  BY <1>1, <1>2, <1>4, <1>5, <1>7 DEF ReportInv, Kinds

(* A row that arrives between two pages.                                     *)
LEMMA ArriveKept == ReportInv /\ Open!Arrive => ReportInv'
<1> SUFFICES ASSUME ReportInv, Open!Arrive
             PROVE  ReportInv'
  OBVIOUS
<1>1. todo # <<>> /\ exact' = FALSE /\ UNCHANGED <<request, todo, offset, rows, scoped, returned>>
  BY DEF Open!Arrive
<1>2. served \in [Kinds -> Seq(SoldRow)]
  BY DEF ReportInv
<1>3. PICK q \in Kinds, row \in UNION {Open!Range(served[p]) : p \in Kinds} : served' = [served EXCEPT ![q] = <<row>> \o @]
  BY <1>2 DEF Open!Arrive
<1>4. row \in SoldRow
  BY <1>2 DEF Open!Range
<1>5. <<row>> \o served[q] \in Seq(SoldRow)
  BY <1>2, <1>4
<1>6. served' \in [Kinds -> Seq(SoldRow)]
  BY <1>2, <1>3, <1>5
<1>7. Open!Range(served["products"]) \subseteq Open!Range(served["products"])'
  <2>1. CASE q # "products"
    BY <1>2, <1>3, <2>1 DEF Kinds, Open!Range
  <2>2. CASE q = "products"
    <3>1. served'["products"] = <<row>> \o served["products"] /\ served["products"] \in Seq(SoldRow)
      BY <1>2, <1>3, <2>2
    <3>2. \A i \in DOMAIN served["products"] : i + 1 \in DOMAIN served'["products"] /\ served'["products"][i + 1] = served["products"][i]
      BY <1>4, <3>1
    <3> QED
      BY <3>2 DEF Open!Range
  <2> QED
    BY <2>1, <2>2
<1>8. Open!CampaignsOf(request.products) \subseteq Open!CampaignsOf(request.products)'
  BY <1>1, <1>7 DEF Open!CampaignsOf, Open!Products
<1>9. returned' = Open!NoReport
  BY <1>1 DEF ReportInv
<1>10. Queue'
  BY <1>1 DEF ReportInv, Queue, Stands, NeedsProducts
<1>11. scoped' \subseteq Open!CampaignsOf(request.products)'
  BY <1>1, <1>8 DEF ReportInv
<1> QED
  BY <1>1, <1>6, <1>9, <1>10, <1>11 DEF ReportInv, Open!NoReport

(* A sequence over a set holds members of the set.                           *)
LEMMA RangeIn ==
  ASSUME NEW T, NEW t \in Seq(T)
  PROVE  Open!Range(t) \subseteq T
<1>1. \A i \in DOMAIN t : t[i] \in T
  OBVIOUS
<1>2. \A y \in Open!Range(t) : \E i \in DOMAIN t : t[i] = y
  BY DEF Open!Range
<1> QED
  BY <1>1, <1>2

(* The page behind o rows, and the position of its last row.                 *)
PageEnd(s, o) == Open!Min({o + PageLength, Len(s)})
PageAt(s, o) == SubSeq(s, o + 1, PageEnd(s, o))

(* A page continues what was read, and the last one ends it.                 *)
LEMMA PageRead ==
  ASSUME NEW S, NEW s \in Seq(S), NEW o \in Nat
  PROVE  /\ PageAt(s, o) \in Seq(S) /\ Open!Range(PageAt(s, o)) \subseteq Open!Range(s)
         /\ o <= Len(s) =>
               /\ PageEnd(s, o) \in o .. Len(s) /\ o + Len(PageAt(s, o)) = PageEnd(s, o)
               /\ SubSeq(s, 1, o) \o PageAt(s, o) = SubSeq(s, 1, PageEnd(s, o))
               /\ (PageAt(s, o) = <<>> \/ PageEnd(s, o) >= Len(s)) <=> PageEnd(s, o) = Len(s)
<1>01. PICK length \in Nat \ {0} : length = PageLength
  BY TablesAssumption
<1>02. PICK m : m = PageEnd(s, o) /\ m = Open!Min({o + length, Len(s)})
  BY <1>01 DEF PageEnd
<1>03. PICK page : page = PageAt(s, o) /\ page = SubSeq(s, o + 1, m)
  BY <1>02 DEF PageAt
<1>0. Len(s) \in Nat /\ \A i \in 1 .. Len(s) : s[i] \in S
  OBVIOUS
<1>1. m \in {o + length, Len(s)} /\ m <= o + length /\ m <= Len(s) /\ m \in Nat
  <2> DEFINE low == IF o + length <= Len(s) THEN o + length ELSE Len(s)
  <2>1. low \in {o + length, Len(s)} /\ \A y \in {o + length, Len(s)} : low <= y
    BY <1>0
  <2>2. m \in {o + length, Len(s)} /\ \A y \in {o + length, Len(s)} : m <= y
    BY <1>02, <2>1 DEF Open!Min
  <2> QED
    BY <1>0, <2>2
<1>2. \A i \in (o + 1) .. m : s[i] \in S /\ s[i] \in Open!Range(s)
  <2>1. \A i \in (o + 1) .. m : i \in 1 .. Len(s)
    BY <1>0, <1>1
  <2>2. DOMAIN s = 1 .. Len(s)
    OBVIOUS
  <2> QED
    BY <1>0, <2>1, <2>2 DEF Open!Range
<1>3. /\ page \in Seq(S) /\ page \in Seq(Open!Range(s))
      /\ Len(page) = IF o + 1 <= m THEN m - (o + 1) + 1 ELSE 0
  <2>1. o + 1 \in Int /\ m \in Int
    BY <1>1
  <2>2. page \in Seq(S) /\ Len(page) = IF o + 1 <= m THEN m - (o + 1) + 1 ELSE 0
    BY <1>2, <1>03, <2>1, SubSeqProperties
  <2>3. page \in Seq(Open!Range(s))
    BY <1>2, <1>03, <2>1, SubSeqProperties
  <2> QED
    BY <2>2, <2>3
<1>4. Open!Range(page) \subseteq Open!Range(s)
  BY <1>3, RangeIn
<1>5. ASSUME o <= Len(s)
      PROVE  /\ m \in o .. Len(s) /\ o + Len(page) = m
             /\ SubSeq(s, 1, o) \o page = SubSeq(s, 1, m)
             /\ page = <<>> \/ m >= Len(s) <=> m = Len(s)
  <2>1. m \in o .. Len(s)
    BY <1>0, <1>1, <1>5
  <2>2. o + Len(page) = m
    BY <1>3, <2>1
  <2>3. SubSeq(s, 1, o) \o page = SubSeq(s, 1, m)
    <3>1. 1 \in 1 .. Len(s) + 1 /\ o \in (1 - 1) .. Len(s) /\ m \in o .. Len(s)
      BY <1>0, <1>5, <2>1
    <3> QED
      BY <1>03, <3>1, ConcatAdjacentSubSeq
  <2>4. page = <<>> => Len(page) = 0
    OBVIOUS
  <2>5. ASSUME page = <<>>
        PROVE  m = Len(s)
    <3>1. Len(page) = 0
      BY <2>4, <2>5
    <3>2. m = o /\ o + length # o
      BY <1>1, <2>2, <3>1
    <3> QED
      BY <1>1, <3>2
  <2>6. m >= Len(s) <=> m = Len(s)
    BY <1>0, <2>1
  <2> QED
    BY <2>1, <2>2, <2>3, <2>5, <2>6
<1> QED
  BY <1>02, <1>03, <1>3, <1>4, <1>5

(* What is appended to the end of a concatenation is appended to its end.    *)
LEMMA Appended ==
  \A a, b, c \in Seq(SoldRow) : (a \o b) \o c = a \o (b \o c)
<1>1. ASSUME NEW S, NEW a \in Seq(S), NEW b \in Seq(S), NEW c \in Seq(S)
      PROVE  (a \o b) \o c = a \o (b \o c)
  BY ConcatAssociative
<1>2. PICK S : S = SoldRow
  OBVIOUS
<1> QED
  BY <1>1, <1>2

(* A concatenation holds what its parts hold.                                *)
LEMMA RangeConcat ==
  ASSUME NEW S, NEW s \in Seq(S), NEW t \in Seq(S)
  PROVE  Open!Range(s \o t) = Open!Range(s) \cup Open!Range(t)
<1>1. /\ s \o t \in Seq(S) /\ Len(s \o t) = Len(s) + Len(t)
      /\ \A i \in 1 .. Len(s) + Len(t) : (s \o t)[i] = IF i <= Len(s) THEN s[i] ELSE t[i - Len(s)]
  BY ConcatProperties
<1>2. DOMAIN s = 1 .. Len(s) /\ DOMAIN t = 1 .. Len(t) /\ DOMAIN (s \o t) = 1 .. Len(s) + Len(t) /\ Len(s) \in Nat /\ Len(t) \in Nat
  BY <1>1
<1>3. \A i \in DOMAIN s : i \in DOMAIN (s \o t) /\ (s \o t)[i] = s[i]
  BY <1>1, <1>2
<1>4. \A i \in DOMAIN t : i + Len(s) \in DOMAIN (s \o t) /\ (s \o t)[i + Len(s)] = t[i]
  BY <1>1, <1>2
<1>5. \A i \in DOMAIN (s \o t) : (i \in DOMAIN s /\ (s \o t)[i] = s[i]) \/ (i - Len(s) \in DOMAIN t /\ (s \o t)[i] = t[i - Len(s)])
  BY <1>1, <1>2
<1> DEFINE u == s \o t
<1>6. u = s \o t
  OBVIOUS
<1> HIDE DEF u
<1>7. \A y : y \in Open!Range(s) \/ y \in Open!Range(t) => y \in Open!Range(u)
  BY <1>3, <1>4, <1>6 DEF Open!Range
<1>8. \A y \in Open!Range(u) : y \in Open!Range(s) \/ y \in Open!Range(t)
  BY <1>5, <1>6 DEF Open!Range
<1> QED
  BY <1>6, <1>7, <1>8

(* Which query is read, and which is next.                                   *)
LEMMA QueueNext ==
  ASSUME Queue, todo # <<>>
  PROVE  /\ Head(todo) \in Kinds
         /\ Head(todo) = "details" => Stands /\ Tail(todo) = <<>>
         /\ Head(todo) = "sp" => ~Stands /\ Tail(todo) = IF NeedsProducts THEN <<"sb", "products">> ELSE <<"sb">>
         /\ Head(todo) = "sb" => ~Stands /\ Tail(todo) = IF NeedsProducts THEN <<"products">> ELSE <<>>
         /\ Head(todo) = "products" => ~Stands /\ NeedsProducts /\ Tail(todo) = <<>>
<1>0. Stands => ~NeedsProducts
  BY DEF Stands, NeedsProducts
<1>1. CASE Stands
  <2>1. todo = <<"details">>
    BY <1>1 DEF Queue
  <2> QED
    BY <1>1, <2>1 DEF Kinds
<1>2. CASE ~Stands /\ NeedsProducts
  <2>1. todo = <<"sp", "sb", "products">> \/ todo = <<"sb", "products">> \/ todo = <<"products">>
    BY <1>2 DEF Queue
  <2>2. CASE todo = <<"sp", "sb", "products">>
    BY <1>2, <2>2 DEF Kinds
  <2>3. CASE todo = <<"sb", "products">>
    BY <1>2, <2>3 DEF Kinds
  <2>4. CASE todo = <<"products">>
    BY <1>2, <2>4 DEF Kinds
  <2> QED
    BY <2>1, <2>2, <2>3, <2>4
<1>3. CASE ~Stands /\ ~NeedsProducts
  <2>1. todo = <<"sp", "sb">> \/ todo = <<"sb">>
    BY <1>3 DEF Queue
  <2>2. CASE todo = <<"sp", "sb">>
    BY <1>3, <2>2 DEF Kinds
  <2>3. CASE todo = <<"sb">>
    BY <1>3, <2>3 DEF Kinds
  <2> QED
    BY <2>1, <2>2, <2>3
<1> QED
  BY <1>1, <1>2, <1>3

(* The next query is in the queue too.                                       *)
LEMMA QueueKept ==
  ASSUME Queue, todo # <<>>, todo' = todo \/ todo' = Tail(todo), request' = request
  PROVE  Queue'
<1>1. Stands' = Stands /\ NeedsProducts' = NeedsProducts
  BY DEF Stands, NeedsProducts
<1>2. CASE todo' = todo
  BY <1>1, <1>2 DEF Queue
<1>3. CASE todo' = Tail(todo)
  <2>1. Head(todo) \in {"details", "sp", "sb", "products"}
    BY QueueNext DEF Kinds
  <2>2. CASE Stands
    BY <1>1, <1>3, <2>1, <2>2, QueueNext DEF Queue
  <2>3. CASE ~Stands /\ NeedsProducts
    BY <1>1, <1>3, <2>1, <2>3, QueueNext DEF Queue
  <2>4. CASE ~Stands /\ ~NeedsProducts
    BY <1>1, <1>3, <2>1, <2>4, QueueNext DEF Queue
  <2> QED
    BY <2>2, <2>3, <2>4
<1> QED
  BY <1>2, <1>3

(* What was read of the query at hand, and what that makes of the others.    *)
LEMMA ReadOf ==
  ASSUME NEW q, Reading(q), q \in Kinds
  PROVE  /\ q = "details" => RowsRead = Begun(q) /\ CampaignsRead = {}
         /\ q = "sp" => RowsRead = Begun(q) /\ CampaignsRead = {}
         /\ q = "sb" => RowsRead = served["sp"] \o Begun(q) /\ CampaignsRead = {}
         /\ q = "products" =>
               /\ RowsRead = Open!Service
               /\ CampaignsRead = {row.campaign : row \in {r \in Open!Range(Begun(q)) : r.product \in request.products}}
<1>1. CASE q = "products"
  BY <1>1 DEF RowsRead, CampaignsRead, Reading
<1>2. CASE q = "details"
  BY <1>2 DEF RowsRead, CampaignsRead, Reading
<1>3. CASE q = "sp"
  BY <1>3 DEF RowsRead, CampaignsRead, Reading
<1>4. CASE q = "sb"
  BY <1>4 DEF RowsRead, CampaignsRead, Reading
<1> QED
  BY <1>1, <1>2, <1>3, <1>4 DEF Kinds

(* The same of the next state.                                               *)
LEMMA ReadNext ==
  ASSUME NEW q, Reading(q)', q \in Kinds
  PROVE  /\ q = "details" => RowsRead' = Begun(q)' /\ CampaignsRead' = {}
         /\ q = "sp" => RowsRead' = Begun(q)' /\ CampaignsRead' = {}
         /\ q = "sb" => RowsRead' = served'["sp"] \o Begun(q)' /\ CampaignsRead' = {}
         /\ q = "products" =>
               /\ RowsRead' = Open!Service'
               /\ CampaignsRead' = {row.campaign : row \in {r \in Open!Range(Begun(q)') : r.product \in request'.products}}
<1>1. CASE q = "products"
  BY <1>1 DEF RowsRead, CampaignsRead, Reading
<1>2. CASE q = "details"
  BY <1>2 DEF RowsRead, CampaignsRead, Reading
<1>3. CASE q = "sp"
  BY <1>3 DEF RowsRead, CampaignsRead, Reading
<1>4. CASE q = "sb"
  BY <1>4 DEF RowsRead, CampaignsRead, Reading
<1> QED
  BY <1>1, <1>2, <1>3, <1>4 DEF Kinds

(* A page that is read.                                                      *)
LEMMA ReadPageKept == ReportInv /\ Open!ReadPage => ReportInv'
<1> SUFFICES ASSUME ReportInv, Open!ReadPage
             PROVE  ReportInv'
  OBVIOUS
<1>1. /\ served \in [Kinds -> Seq(SoldRow)] /\ offset \in Nat /\ rows \in Seq(SoldRow) /\ exact \in BOOLEAN /\ Queue
      /\ PageLength \in Nat \ {0}
  BY TablesAssumption DEF ReportInv
<1>2. todo # <<>> /\ UNCHANGED <<served, request, returned>>
  BY DEF Open!ReadPage
<1>3. returned = Open!NoReport
  BY <1>2 DEF ReportInv
<1>5. PICK q \in Kinds : q = Head(todo)
  BY <1>1, <1>2 DEF Queue, Kinds
<1>6. PICK s \in Seq(SoldRow) : s = served[q]
  BY <1>1, <1>5
<1>7. PICK m : m = PageEnd(s, offset)
  OBVIOUS
<1>70. PICK page : page = Open!Page(q) /\ page = PageAt(s, offset)
  BY <1>6, <1>7 DEF Open!Page, PageAt, PageEnd
<1>71. Len(s) \in Nat
  OBVIOUS
<1>4. PICK total \in {Len(s), Len(page)} :
         /\ exact' = (exact /\ total = Len(s))
         /\ IF Open!Ended(page, total) THEN offset' = 0 /\ todo' = Tail(todo)
            ELSE offset' = offset + Len(page) /\ UNCHANGED todo
         /\ IF q = "products" THEN scoped' = scoped \cup Open!OfProducts(page) /\ UNCHANGED rows
            ELSE rows' = rows \o page /\ UNCHANGED scoped
  BY <1>5, <1>6, <1>70 DEF Open!ReadPage, Open!Products
<1>8. /\ page \in Seq(SoldRow) /\ Open!Range(page) \subseteq Open!Range(s)
      /\ offset <= Len(s) =>
            /\ m \in offset .. Len(s) /\ offset + Len(page) = m
            /\ SubSeq(s, 1, offset) \o page = SubSeq(s, 1, m)
            /\ (page = <<>> \/ m >= Len(s)) <=> m = Len(s)
  <2>1. /\ PageAt(s, offset) \in Seq(SoldRow) /\ Open!Range(PageAt(s, offset)) \subseteq Open!Range(s)
        /\ offset <= Len(s) =>
               /\ PageEnd(s, offset) \in offset .. Len(s) /\ offset + Len(PageAt(s, offset)) = PageEnd(s, offset)
               /\ SubSeq(s, 1, offset) \o PageAt(s, offset) = SubSeq(s, 1, PageEnd(s, offset))
               /\ (PageAt(s, offset) = <<>> \/ PageEnd(s, offset) >= Len(s)) <=> PageEnd(s, offset) = Len(s)
    BY <1>1, PageRead
  <2> QED
    BY <1>7, <1>70, <2>1
<1>9. Len(page) \in Nat
  BY <1>8
<1>10. offset' \in Nat /\ exact' \in BOOLEAN /\ rows' \in Seq(SoldRow)
  <2>1. offset' \in Nat /\ exact' \in BOOLEAN
    BY <1>1, <1>4, <1>9
  <2>2. rows \o page \in Seq(SoldRow)
    BY <1>1, <1>8, ConcatProperties
  <2> QED
    BY <1>1, <1>4, <2>1, <2>2
<1>11. todo' = todo \/ todo' = Tail(todo)
  BY <1>4
<1>12. Queue'
  BY <1>1, <1>2, <1>11, QueueKept
<1>13. Open!OfProducts(page) = {row.campaign : row \in {r \in Open!Range(page) : r.product \in request.products}}
  BY DEF Open!OfProducts, Open!Range
<1>14. Open!CampaignsOf(request.products)' = Open!CampaignsOf(request.products)
  BY <1>2 DEF Open!CampaignsOf, Open!Products, Open!Range
<1>15. scoped' \subseteq Open!CampaignsOf(request.products)
  <2>1. scoped \subseteq Open!CampaignsOf(request.products)
    BY DEF ReportInv
  <2>2. q = "products" => Open!OfProducts(page) \subseteq Open!CampaignsOf(request.products)
    BY <1>6, <1>8, <1>13 DEF Open!CampaignsOf, Open!Products
  <2> QED
    BY <1>4, <2>1, <2>2
<1>16. ASSUME exact'
       PROVE  /\ exact /\ rows = RowsRead /\ scoped = CampaignsRead /\ offset <= Len(s)
              /\ IF m = Len(s) THEN offset' = 0 /\ todo' = Tail(todo) ELSE offset' = m /\ todo' = todo
              /\ Begun(q) \o page = SubSeq(s, 1, m) /\ m \in offset .. Len(s)
  <2>1. exact /\ total = Len(s)
    BY <1>4, <1>16
  <2>2. rows = RowsRead /\ scoped = CampaignsRead /\ offset <= Len(s)
    BY <1>2, <1>5, <1>6, <2>1 DEF ReportInv
  <2>3. Open!Ended(page, total) <=> m = Len(s)
    BY <1>8, <2>1, <2>2 DEF Open!Ended
  <2> QED
    BY <1>4, <1>6, <1>8, <2>1, <2>2, <2>3 DEF Begun
<1>17. Open!Service' = Open!Service
  BY <1>2 DEF Open!Service
<1>18. SubSeq(s, 1, Len(s)) = s /\ \A k \in Kinds : SubSeq(served[k], 1, 0) = <<>>
  <2>1. SubSeq(s, 1, Len(s)) = s
    BY <1>6, <1>71, SubSeqFull
  <2> QED
    BY <2>1, SubSeqEmpty
<1>19. Reading(q) /\ (exact' => Begun(q) \in Seq(SoldRow)) /\ served["sp"] \in Seq(SoldRow) /\ served["sb"] \in Seq(SoldRow)
  <2>1. Reading(q)
    BY <1>2, <1>5 DEF Reading
  <2>2. ASSUME exact'
        PROVE  Begun(q) \in Seq(SoldRow)
    <3>1. 1 \in Int /\ offset \in Int /\ offset <= Len(s)
      BY <1>1, <1>16, <2>2
    <3>2. \A i \in 1 .. offset : s[i] \in SoldRow
      BY <1>1, <1>71, <3>1
    <3>3. SubSeq(s, 1, offset) \in Seq(SoldRow)
      BY <3>1, <3>2, SubSeqProperties
    <3> QED
      BY <1>6, <3>3 DEF Begun
  <2> QED
    BY <1>1, <2>1, <2>2 DEF Kinds
<1>20. ASSUME exact', m # Len(s)
       PROVE  rows' = RowsRead' /\ scoped' = CampaignsRead' /\ offset' <= Len(s) /\ todo' = todo
  <2>1. todo' = todo /\ offset' = m /\ Begun(q) \o page = SubSeq(s, 1, m) /\ m \in offset .. Len(s)
    BY <1>16, <1>20
  <2>2. Reading(q)' /\ Begun(q)' = Begun(q) \o page /\ offset' <= Len(s)
    BY <1>1, <1>2, <1>6, <1>19, <1>71, <2>1 DEF Begun, Reading
  <2>3. CASE q = "products"
    <3>1. rows = Open!Service /\ scoped = {row.campaign : row \in {r \in Open!Range(Begun(q)) : r.product \in request.products}}
      BY <1>16, <1>19, <1>20, <2>3, ReadOf
    <3>2. rows' = Open!Service /\ scoped' = scoped \cup Open!OfProducts(page)
      BY <1>4, <2>3, <3>1
    <3>3. Open!Range(Begun(q) \o page) = Open!Range(Begun(q)) \cup Open!Range(page)
      BY <1>8, <1>19, <1>20, RangeConcat
    <3>4. scoped' = {row.campaign : row \in {r \in Open!Range(Begun(q)') : r.product \in request.products}}
      BY <1>13, <2>2, <3>1, <3>2, <3>3
    <3> QED
      BY <1>2, <1>17, <2>1, <2>2, <2>3, <3>2, <3>4, ReadNext
  <2>4. CASE q \in {"details", "sp"}
    <3>1. rows = Begun(q) /\ scoped = {} /\ RowsRead' = Begun(q)' /\ CampaignsRead' = {}
      BY <1>16, <1>19, <1>20, <2>2, <2>4, ReadOf, ReadNext
    <3>2. rows' = rows \o page /\ scoped' = scoped
      BY <1>4, <2>4
    <3> QED
      BY <2>1, <2>2, <3>1, <3>2
  <2>5. CASE q = "sb"
    <3>1. rows = served["sp"] \o Begun(q) /\ scoped = {} /\ RowsRead' = served["sp"] \o Begun(q)' /\ CampaignsRead' = {}
      BY <1>2, <1>16, <1>19, <1>20, <2>2, <2>5, ReadOf, ReadNext
    <3>2. (served["sp"] \o Begun(q)) \o page = served["sp"] \o (Begun(q) \o page)
      <4>1. served["sp"] \in Seq(SoldRow) /\ Begun(q) \in Seq(SoldRow) /\ page \in Seq(SoldRow)
        BY <1>8, <1>19, <1>20
      <4> QED
        BY <4>1, Appended
    <3>3. rows' = rows \o page /\ scoped' = scoped
      BY <1>4, <2>5
    <3> QED
      BY <2>1, <2>2, <3>1, <3>2, <3>3
  <2> QED
    BY <2>1, <2>2, <2>3, <2>4, <2>5 DEF Kinds
<1>21. ASSUME exact', m = Len(s)
       PROVE  /\ rows' = RowsRead' /\ scoped' = CampaignsRead'
              /\ todo' # <<>> => offset' <= Len(served[Head(todo')])
  <2>1. todo' = Tail(todo) /\ offset' = 0 /\ Begun(q) \o page = s
    BY <1>16, <1>18, <1>21
  <2>2. \A k \in Kinds : Begun(k)' = <<>>
    BY <1>2, <1>18, <2>1 DEF Begun
  <2>3. CASE q = "details"
    <3>1. rows = Begun(q) /\ scoped = {} /\ todo' = <<>> /\ Stands
      BY <1>1, <1>2, <1>5, <1>16, <1>19, <1>21, <2>1, <2>3, QueueNext, ReadOf
    <3>2. rows' = served["details"] /\ scoped' = {}
      BY <1>4, <1>6, <2>1, <2>3, <3>1
    <3>3. RowsRead' = Open!Service' /\ CampaignsRead' = {}
      BY <1>2, <3>1 DEF RowsRead, CampaignsRead, Reading, Stands, NeedsProducts
    <3>4. Open!Service = served["details"]
      BY <3>1 DEF Stands, Open!Service
    <3> QED
      BY <1>17, <3>1, <3>2, <3>3, <3>4
  <2>4. CASE q = "sp"
    <3>1. rows = Begun(q) /\ scoped = {}
      BY <1>16, <1>19, <1>21, <2>4, ReadOf
    <3>2. todo' = <<"sb", "products">> \/ todo' = <<"sb">>
      BY <1>1, <1>2, <1>5, <2>1, <2>4, QueueNext
    <3>3. Reading("sb")' /\ Head(todo') = "sb"
      <4>1. CASE todo' = <<"sb", "products">>
        BY <4>1 DEF Reading
      <4>2. CASE todo' = <<"sb">>
        BY <4>2 DEF Reading
      <4> QED
        BY <3>2, <4>1, <4>2
    <3>4. rows' = served["sp"] /\ scoped' = {}
      BY <1>4, <1>6, <2>1, <2>4, <3>1
    <3>5. RowsRead' = served["sp"] \o <<>> /\ CampaignsRead' = {}
      BY <1>2, <2>2, <3>3, ReadNext DEF Kinds
    <3>6. served["sp"] \o <<>> = served["sp"] /\ Len(served["sb"]) \in Nat
      BY <1>19, ConcatEmptySeq
    <3> QED
      BY <2>1, <3>3, <3>4, <3>5, <3>6
  <2>5. CASE q = "sb"
    <3>1. rows = served["sp"] \o Begun(q) /\ scoped = {}
      BY <1>16, <1>19, <1>21, <2>5, ReadOf
    <3>2. ~Stands /\ todo' = IF NeedsProducts THEN <<"products">> ELSE <<>>
      BY <1>1, <1>2, <1>5, <2>1, <2>5, QueueNext
    <3>3. (served["sp"] \o Begun(q)) \o page = served["sp"] \o (Begun(q) \o page)
      <4>1. served["sp"] \in Seq(SoldRow) /\ Begun(q) \in Seq(SoldRow) /\ page \in Seq(SoldRow)
        BY <1>8, <1>19, <1>21
      <4> QED
        BY <4>1, Appended
    <3>4. rows' = rows \o page /\ scoped' = scoped
      BY <1>4, <2>5
    <3>5. rows' = Open!Service /\ scoped' = {}
      BY <1>6, <2>1, <2>5, <3>1, <3>2, <3>3, <3>4 DEF Open!Service, Stands
    <3>6. CASE NeedsProducts
      <4>1. todo' = <<"products">>
        BY <3>2, <3>6
      <4>2. Reading("products")' /\ Head(todo') = "products"
        BY <4>1 DEF Reading
      <4>3. RowsRead' = Open!Service' /\ CampaignsRead' = {row.campaign : row \in {r \in Open!Range(<<>>) : r.product \in request'.products}}
        BY <2>2, <4>2, ReadNext DEF Kinds
      <4>4. Open!Range(<<>>) = {}
        BY DEF Open!Range
      <4>5. Len(served["products"]) \in Nat
        BY <1>1 DEF Kinds
      <4> QED
        BY <1>17, <2>1, <3>5, <4>2, <4>3, <4>4, <4>5
    <3>7. CASE ~NeedsProducts
      <4>1. todo' = <<>>
        BY <3>2, <3>7
      <4>2. RowsRead' = Open!Service' /\ CampaignsRead' = {}
        BY <1>2, <3>7, <4>1 DEF RowsRead, CampaignsRead, Reading, NeedsProducts
      <4> QED
        BY <1>17, <3>5, <4>1, <4>2
    <3> QED
      BY <3>6, <3>7
  <2>6. CASE q = "products"
    <3>1. NeedsProducts /\ todo' = <<>>
      BY <1>1, <1>2, <1>5, <2>1, <2>6, QueueNext
    <3>2. rows = Open!Service /\ scoped = {row.campaign : row \in {r \in Open!Range(Begun(q)) : r.product \in request.products}}
      BY <1>16, <1>19, <1>21, <2>6, ReadOf
    <3>3. rows' = rows /\ scoped' = scoped \cup Open!OfProducts(page)
      BY <1>4, <2>6
    <3>4. Open!Range(Begun(q) \o page) = Open!Range(Begun(q)) \cup Open!Range(page)
      BY <1>8, <1>19, <1>21, RangeConcat
    <3>5. scoped' = {row.campaign : row \in {r \in Open!Range(s) : r.product \in request.products}}
      BY <1>13, <2>1, <3>2, <3>3, <3>4
    <3>6. scoped' = Open!CampaignsOf(request.products)
      BY <1>6, <2>6, <3>5 DEF Open!CampaignsOf, Open!Products
    <3>7. RowsRead' = Open!Service' /\ CampaignsRead' = Open!CampaignsOf(request.products)'
      BY <1>2, <3>1 DEF RowsRead, CampaignsRead, Reading, NeedsProducts
    <3> QED
      BY <1>14, <1>17, <3>1, <3>2, <3>3, <3>6, <3>7
  <2> QED
    BY <2>3, <2>4, <2>5, <2>6 DEF Kinds
<1>22. exact' => /\ rows' = RowsRead' /\ scoped' = CampaignsRead'
                 /\ todo' # <<>> => offset' <= Len(served'[Head(todo')])
  <2>1. CASE m # Len(s)
    <3>1. todo' = todo => Len(served'[Head(todo')]) = Len(s)
      BY <1>2, <1>5, <1>6
    <3> QED
      BY <1>20, <2>1, <3>1
  <2>2. CASE m = Len(s)
    BY <1>2, <1>21, <2>2
  <2> QED
    BY <2>1, <2>2
<1>23. returned' = Open!NoReport
  BY <1>2, <1>3
<1> QED
  BY <1>1, <1>2, <1>10, <1>12, <1>14, <1>15, <1>22, <1>23 DEF ReportInv, Open!NoReport

(* What is returned is what was asked for, and of all of it.                 *)
LEMMA ReturnKept == ReportInv /\ Open!Return => ReportInv'
<1> SUFFICES ASSUME ReportInv, Open!Return
             PROVE  ReportInv'
  OBVIOUS
<1> DEFINE passed == {row \in Open!Range(rows) : Open!Narrowed => row.campaign \in Open!Wanted}
<1>1. /\ todo = <<>> /\ returned' = Open!Within(rows, passed)
      /\ UNCHANGED <<served, request, todo, offset, rows, scoped, exact>>
  BY DEF Open!Return
<1>2. /\ rows \in Seq(SoldRow) /\ scoped \subseteq Open!CampaignsOf(request.products)
      /\ exact => rows = RowsRead /\ scoped = CampaignsRead
  BY DEF ReportInv
<1>3. ASSUME NEW row
      PROVE  (Open!Narrowed => row.campaign \in Open!Wanted) => Open!Asked(row)
  BY <1>2 DEF Open!Narrowed, Open!Wanted, Open!Asked
<1>4. ASSUME exact, NEW row
      PROVE  Open!Asked(row) => (Open!Narrowed => row.campaign \in Open!Wanted)
  <2>1. NeedsProducts => scoped = Open!CampaignsOf(request.products)
    BY <1>1, <1>2, <1>4 DEF CampaignsRead, Reading
  <2> QED
    BY <2>1 DEF NeedsProducts, Open!Narrowed, Open!Wanted, Open!Asked
<1>5. \A row : Open!Asked(row)' <=> Open!Asked(row)
  BY <1>1 DEF Open!Asked, Open!CampaignsOf, Open!Range, Open!Products
<1>6. (\A i \in DOMAIN returned : Open!Asked(returned[i]))'
  <2>1. \A i \in DOMAIN returned' : returned'[i] \in passed
    <3>1. PICK W, s : W = passed /\ s = rows /\ s \in Seq(SoldRow)
      BY <1>2
    <3>2. \A i \in DOMAIN Open!Within(s, W) : Open!Within(s, W)[i] \in W
      BY <3>1, WithinHolds
    <3> HIDE DEF passed
    <3> QED
      BY <1>1, <3>1, <3>2
  <2>2. ASSUME NEW i \in DOMAIN returned'
        PROVE  Open!Asked(returned[i])'
    <3>1. PICK row : row = returned'[i] /\ row \in passed
      BY <2>1, <2>2
    <3>2. Open!Asked(row)
      BY <1>3, <3>1
    <3> QED
      BY <1>1, <3>1, <3>2 DEF Open!Asked, Open!CampaignsOf, Open!Range, Open!Products
  <2> QED
    BY <2>2
<1>7. ASSUME exact'
      PROVE  returned' = Open!Within(Open!Service, {row \in Open!Range(Open!Service) : Open!Asked(row)})'
  <2>1. exact /\ rows = Open!Service
    BY <1>1, <1>2, <1>7 DEF RowsRead, Reading
  <2>2. passed = {row \in Open!Range(Open!Service) : Open!Asked(row)}
    BY <1>3, <1>4, <2>1
  <2>3. Open!Service' = Open!Service /\ Open!Range(Open!Service)' = Open!Range(Open!Service)
    BY <1>1 DEF Open!Service, Open!Range
  <2>4. {row \in Open!Range(Open!Service) : Open!Asked(row)}' = {row \in Open!Range(Open!Service) : Open!Asked(row)}
    BY <1>5, <2>3
  <2>5. Open!Within(Open!Service, {row \in Open!Range(Open!Service) : Open!Asked(row)})' =
          Open!Within(Open!Service, {row \in Open!Range(Open!Service) : Open!Asked(row)})
    BY <2>3, <2>4
  <2> HIDE DEF passed
  <2> QED
    BY <1>1, <2>1, <2>2, <2>5
<1>8. Open!ReportScoped'
  BY <1>6, <1>7 DEF Open!ReportScoped
<1>9. /\ Open!CampaignsOf(request.products)' = Open!CampaignsOf(request.products)
      /\ Queue' = Queue /\ RowsRead' = RowsRead /\ CampaignsRead' = CampaignsRead
  BY <1>1 DEF Open!CampaignsOf, Open!Products, Open!Range, Queue, Stands, NeedsProducts, RowsRead, CampaignsRead, Reading, Begun, Open!Service
<1> QED
  BY <1>1, <1>8, <1>9 DEF ReportInv, Open!NoReport

(* A response that failed.                                                   *)
LEMMA FailureKept == ReportInv /\ Open!Fail => ReportInv'
<1> SUFFICES ASSUME ReportInv, Open!Fail
             PROVE  ReportInv'
  OBVIOUS
<1>1. todo' = <<>> /\ returned' = <<>> /\ exact' = FALSE /\ UNCHANGED <<served, request, offset, rows, scoped>>
  BY DEF Open!Fail
<1>2. Queue'
  BY <1>1 DEF Queue, Stands, NeedsProducts
<1>3. Open!CampaignsOf(request.products)' = Open!CampaignsOf(request.products)
  BY <1>1 DEF Open!CampaignsOf, Open!Products, Open!Range
<1>4. Open!ReportScoped'
  BY <1>1 DEF Open!ReportScoped
<1> QED
  BY <1>1, <1>2, <1>3, <1>4 DEF ReportInv, Open!NoReport

(* Open platform reports: all rows asked for and no other.                   *)
LEMMA OpenHolds == Open!Spec => []Open!ReportScoped
<1>1. ReportInv /\ UNCHANGED Open!vars => ReportInv'
  <2> SUFFICES ASSUME ReportInv, UNCHANGED Open!vars
               PROVE  ReportInv'
    OBVIOUS
  <2>1. UNCHANGED <<served, request, todo, offset, rows, scoped, returned, exact>>
    BY DEF Open!vars
  <2>2. /\ Open!CampaignsOf(request.products)' = Open!CampaignsOf(request.products)
        /\ Queue' = Queue /\ RowsRead' = RowsRead /\ CampaignsRead' = CampaignsRead
    BY <2>1 DEF Open!CampaignsOf, Open!Products, Open!Range, Queue, Stands, NeedsProducts, RowsRead, CampaignsRead, Reading, Begun, Open!Service
  <2>3. Open!Service' = Open!Service
    BY <2>1 DEF Open!Service
  <2>4. \A row : Open!Asked(row)' <=> Open!Asked(row)
    BY <2>1 DEF Open!Asked, Open!CampaignsOf, Open!Range, Open!Products
  <2>5. {row \in Open!Range(Open!Service) : Open!Asked(row)}' = {row \in Open!Range(Open!Service) : Open!Asked(row)}
    BY <2>3, <2>4 DEF Open!Range
  <2>6. Open!ReportScoped' = Open!ReportScoped
    BY <2>1, <2>3, <2>4, <2>5 DEF Open!ReportScoped
  <2> QED
    BY <2>1, <2>2, <2>6 DEF ReportInv, Open!NoReport
<1>2. ReportInv /\ [Open!Next]_Open!vars => ReportInv'
  BY <1>1, ArriveKept, ReadPageKept, ReturnKept, FailureKept DEF Open!Next
<1>3. ReportInv => Open!ReportScoped
  BY DEF ReportInv, Open!ReportScoped
<1> QED
  BY <1>2, <1>3, OpenInitially, PTL DEF Open!Spec

(* What else is worked off changes nothing in a report.                      *)
LEMMA OpenAlone == Work => Open!Spec
<1>1. InitWork => Open!Init
  BY DEF InitWork
<1>2. [NextWork]_workVars => [Open!Next]_(Open!vars)
  BY DEF NextWork, workVars, openVars, Open!vars
<1> QED
  BY <1>1, <1>2, PTL DEF Work, Open!Spec

(* However long the tables and the pages are and whatever comes between two  *)
(* pages, a report holds only rows that were asked for, and all of them,     *)
(* once and in order, when no row came and no total was missing.             *)
THEOREM ReportsKept == Work => []ReportScoped
<1>1. Open!ReportScoped => ReportScoped
  BY DEF ReportScoped
<1> QED
  BY <1>1, OpenAlone, OpenHolds, PTL


-----------------------------------------------------------------------------
(***************************************************************************)
(* The weights of a declaration.                                           *)
(***************************************************************************)

(* What is rounded to is no further than a half, and one number only.        *)
LEMMA Halves ==
  ASSUME NEW a \in Nat, NEW b \in Nat \ {0}
  PROVE  /\ HalfUp(a, b) \in Nat
         /\ 2 * b * HalfUp(a, b) <= 2 * a + b /\ 2 * a + b < 2 * b * HalfUp(a, b) + 2 * b
<1> DEFINE c == 2 * a + b
           d == 2 * b
<1>1. c \in Nat /\ d \in Nat \ {0}
  OBVIOUS
<1>2. HalfUp(a, b) = c \div d
  BY DEF HalfUp
<1> HIDE DEF c, d
<1>3. c \div d \in Int /\ d * (c \div d) <= c /\ c < d * (c \div d) + d
  BY <1>1
<1> DEFINE q == c \div d
<1>4. q \in Int /\ d * q <= c /\ c < d * q + d
  BY <1>3
<1> HIDE DEF q
<1>5. q >= 0
  <2>1. CASE q < 0
    <3>1. q + 1 <= 0 /\ d * (q + 1) = d * q + d
      BY <1>1, <1>4, <2>1
    <3>2. d * (q + 1) <= 0
      BY <1>1, <1>4, <3>1
    <3> QED
      BY <1>1, <1>4, <3>1, <3>2
  <2> QED
    BY <1>4, <2>1
<1> QED
  BY <1>2, <1>4, <1>5 DEF q, c, d

(* More rounds to no less.                                                   *)
LEMMA HalvesOrdered ==
  ASSUME NEW a \in Nat, NEW b \in Nat \ {0}, NEW x \in Nat, x <= a
  PROVE  HalfUp(x, b) <= HalfUp(a, b)
<1> DEFINE p == HalfUp(x, b)
           q == HalfUp(a, b)
           d == 2 * b
<1>1. p \in Nat /\ q \in Nat /\ d \in Nat \ {0}
  <2>1. p \in Nat /\ q \in Nat
    BY Halves
  <2> QED
    BY <2>1
<1>2. d * p <= 2 * x + b /\ 2 * a + b < d * q + d
  BY Halves
<1> HIDE DEF p, q
<1>3. d * p < d * q + d
  BY <1>1, <1>2
<1>4. d * q + d = d * (q + 1)
  BY <1>1
<1>5. p < q + 1
  <2> HIDE DEF d
  <2> QED
    BY <1>1, <1>3, <1>4
<1> QED
  BY <1>1, <1>5 DEF p, q

(* A number in hundredths of itself rounds to itself.                        *)
LEMMA HalvesExact ==
  ASSUME NEW a \in Nat, NEW b \in Nat \ {0}
  PROVE  HalfUp(a * b, b) = a
<1> DEFINE q == HalfUp(a * b, b)
<1>1. q \in Nat /\ 2 * b * q <= 2 * (a * b) + b /\ 2 * (a * b) + b < 2 * b * q + 2 * b
  BY Halves
<1> HIDE DEF q
<1>2. b * (2 * q) <= b * (2 * a + 1) /\ b * (2 * a + 1) < b * (2 * q + 2)
  BY <1>1
<1>3. 2 * q <= 2 * a + 1 /\ 2 * a + 1 < 2 * q + 2
  BY <1>1, <1>2
<1>4. q = a
  BY <1>1, <1>3
<1> QED
  BY <1>4 DEF q

(* The net weight is no more than the gross weight.                          *)
LEMMA NetLess ==
  ASSUME NEW gross \in Nat
  PROVE  Net(gross) \in Nat /\ Net(gross) <= gross
<1>1. 92 * gross \in Nat /\ 92 * gross <= gross * 100
  OBVIOUS
<1>2. HalfUp(92 * gross, 100) <= HalfUp(gross * 100, 100) /\ HalfUp(92 * gross, 100) \in Nat
  BY <1>1, HalvesOrdered, Halves
<1>3. HalfUp(gross * 100, 100) = gross
  BY HalvesExact
<1> QED
  BY <1>2, <1>3 DEF Net

(* The shares of a weight are that weight; all but the last are its parts.   *)
LEMMA SharesSum ==
  ASSUME NEW total \in Nat, NEW parts \in Seq(Nat), parts # <<>>, Total(parts) # 0
  PROVE  /\ Total(parts) \in Nat \ {0}
         /\ Total(Shares(total, parts)) = total
         /\ \A k \in 1 .. (Len(parts) - 1) : Shares(total, parts)[k] = HalfUp(total * parts[k], Total(parts))
<1> DEFINE n == Len(parts)
           sum == Total(parts)
           rounded == Rounded(total, parts)
           front == SubSeq(rounded, 1, n - 1)
           shares == Shares(total, parts)
<1>1. n \in Nat \ {0} /\ DOMAIN parts = 1 .. n /\ \A k \in 1 .. n : parts[k] \in Nat
  OBVIOUS
<1>2. sum \in Nat \ {0}
  <2>1. IsFiniteSet(1 .. n)
    BY <1>1, FS_Interval
  <2>2. IsFiniteSet(DOMAIN parts) /\ \A k \in DOMAIN parts : parts[k] \in Nat
    BY <1>1, <2>1
  <2>3. Total(parts) \in Nat
    BY <2>2, TotalBounds
  <2> QED
    BY <2>3
<1>3. rounded = [k \in 1 .. n |-> HalfUp(total * parts[k], sum)]
  BY <1>1 DEF Rounded
<1>4. \A k \in 1 .. n : rounded[k] \in Nat
  <2> SUFFICES ASSUME NEW k \in 1 .. n PROVE HalfUp(total * parts[k], sum) \in Nat
    BY <1>3
  <2>1. total * parts[k] \in Nat
    BY <1>1
  <2> HIDE DEF sum
  <2> QED
    BY <1>2, <2>1, Halves
<1>5. rounded \in Seq(Nat) /\ Len(rounded) = n
  BY <1>1, <1>3, <1>4
<1>6. front = [k \in 1 .. (n - 1) |-> rounded[k]]
  BY <1>1, <1>5
<1>7. shares = [k \in 1 .. n |-> IF k < n THEN rounded[k] ELSE total - Total(front)]
  BY <1>1 DEF Shares
<1> HIDE DEF n, sum, rounded, front, shares
<1>8. Total(front) \in Nat
  <2>1. DOMAIN front = 1 .. (n - 1) /\ IsFiniteSet(1 .. (n - 1))
    BY <1>1, <1>6, FS_Interval
  <2>2. \A k \in DOMAIN front : front[k] \in Nat
    BY <1>1, <1>4, <1>6
  <2> QED
    BY <2>1, <2>2, TotalBounds
<1>9. \A k \in 1 .. n : shares[k] \in Int
  BY <1>1, <1>4, <1>7, <1>8
<1>10. Total(shares) = Total(front) + shares[n]
  <2>1. DOMAIN shares = 1 .. n /\ DOMAIN front = 1 .. (n - 1) /\ \A k \in 1 .. (n - 1) : front[k] = shares[k]
    BY <1>1, <1>6, <1>7
  <2> QED
    BY <1>1, <1>9, <2>1, TotalLast
<1>11. shares[n] = total - Total(front)
  BY <1>1, <1>7
<1>12. \A k \in 1 .. (n - 1) : shares[k] = HalfUp(total * parts[k], sum)
  BY <1>1, <1>3, <1>7
<1>13. Total(shares) = total
  BY <1>8, <1>10, <1>11
<1> QED
  BY <1>2, <1>12, <1>13 DEF shares, sum, n

(* A part of a weight is within it, and close to what it should be.          *)
LEMMA PartClose ==
  ASSUME NEW total \in Nat, NEW sum \in Nat \ {0}, NEW part \in Nat, part <= sum
  PROVE  /\ HalfUp(total * part, sum) \in 0 .. total
         /\ 2 * (HalfUp(total * part, sum) * sum - total * part) \in (-sum) .. sum
<1> DEFINE q == HalfUp(total * part, sum)
           a == total * part
<1>1. a \in Nat /\ a <= total * sum /\ total * sum \in Nat
  OBVIOUS
<1>2. q \in Nat /\ 2 * sum * q <= 2 * a + sum /\ 2 * a + sum < 2 * sum * q + 2 * sum
  BY <1>1, Halves
<1>3. q <= HalfUp(total * sum, sum)
  BY <1>1, HalvesOrdered
<1>4. HalfUp(total * sum, sum) = total
  BY HalvesExact
<1> HIDE DEF q
<1>5. q * sum \in Nat /\ 2 * sum * q = 2 * (q * sum)
  BY <1>2
<1> HIDE DEF a
<1>6. 2 * (q * sum - a) \in (-sum) .. sum
  BY <1>1, <1>2, <1>5
<1> QED
  BY <1>2, <1>3, <1>4, <1>6 DEF q, a

(* A weight is split over any parts that weigh something.                    *)
LEMMA WeightsAreSplit ==
  ASSUME NEW gross \in Nat, NEW parts \in Seq(Nat), parts # <<>>, Total(parts) # 0
  PROVE  Split(gross, parts, Shares(gross, parts), Shares(Net(gross), parts))
<1>1. Net(gross) \in Nat /\ Net(gross) <= gross
  BY NetLess
<1>2. /\ Total(parts) \in Nat \ {0} /\ Total(Shares(gross, parts)) = gross
      /\ \A k \in 1 .. (Len(parts) - 1) : Shares(gross, parts)[k] = HalfUp(gross * parts[k], Total(parts))
  BY SharesSum
<1>3. /\ Total(Shares(Net(gross), parts)) = Net(gross)
      /\ \A k \in 1 .. (Len(parts) - 1) : Shares(Net(gross), parts)[k] = HalfUp(Net(gross) * parts[k], Total(parts))
  BY <1>1, SharesSum
<1>4. \A k \in DOMAIN parts : parts[k] \in Nat /\ parts[k] <= Total(parts)
  <2>1. IsFiniteSet(1 .. Len(parts)) /\ DOMAIN parts = 1 .. Len(parts)
    BY FS_Interval
  <2>2. IsFiniteSet(DOMAIN parts) /\ \A k \in DOMAIN parts : parts[k] \in Nat
    BY <2>1
  <2> QED
    BY <2>2, TotalBounds
<1>5. ASSUME NEW k \in 1 .. (Len(parts) - 1)
      PROVE  /\ Shares(gross, parts)[k] \in 0 .. gross
             /\ Shares(Net(gross), parts)[k] <= Shares(gross, parts)[k]
             /\ 2 * (Shares(gross, parts)[k] * Total(parts) - gross * parts[k]) \in (-Total(parts)) .. Total(parts)
  <2>1. k \in DOMAIN parts
    OBVIOUS
  <2>2. parts[k] \in Nat /\ parts[k] <= Total(parts)
    BY <1>4, <2>1
  <2>3. Net(gross) * parts[k] \in Nat /\ gross * parts[k] \in Nat /\ Net(gross) * parts[k] <= gross * parts[k]
    BY <1>1, <2>2
  <2>4. HalfUp(Net(gross) * parts[k], Total(parts)) <= HalfUp(gross * parts[k], Total(parts))
    BY <1>2, <2>3, HalvesOrdered
  <2>5. /\ HalfUp(gross * parts[k], Total(parts)) \in 0 .. gross
        /\ 2 * (HalfUp(gross * parts[k], Total(parts)) * Total(parts) - gross * parts[k]) \in (-Total(parts)) .. Total(parts)
    BY <1>2, <2>2, PartClose
  <2> QED
    BY <1>2, <1>3, <2>4, <2>5
<1> QED
  BY <1>2, <1>3, <1>5 DEF Split

-----------------------------------------------------------------------------
(***************************************************************************)
(* Customs declarations: nothing of the three sheets is lost.              *)
(***************************************************************************)

(* The rows s of a sheet: the i-th belongs to the order named last.          *)
OwnedBy(s, i, o) ==
    \E j \in 1 .. i : s[j].order = o /\ o # Customs!Nobody /\ \A k \in (j + 1) .. i : s[k].order = Customs!Nobody
CurrentIs(s, o) == IF o = Customs!Nobody THEN \A k \in DOMAIN s : s[k].order = Customs!Nobody ELSE OwnedBy(s, Len(s), o)

(* The rows of products under the orders that a puts into a category.        *)
RowsUnder(s, a, c) == {i \in DOMAIN s : \E o \in DOMAIN a : a[o] = c /\ OwnedBy(s, i, o)}
RowsOfRule(s, a, c, rule) == {i \in RowsUnder(s, a, c) : s[i].product = rule}
QuantityOf(q, c, rule) == IF c \in DOMAIN q /\ rule \in DOMAIN q[c] THEN q[c][rule] ELSE 0
WholeOf(q, c) == IF c \in DOMAIN q THEN Total(q[c]) ELSE 0

(* The quantities are those of the rows, and the rules are complete.         *)
Counted(s, a, q) ==
    \A c : /\ WholeOf(q, c) = Total([i \in RowsUnder(s, a, c) |-> s[i].quantity])
           /\ \A rule : QuantityOf(q, c, rule) = Total([i \in RowsOfRule(s, a, c, rule) |-> s[i].quantity])
Itemized(q) ==
    \A c \in DOMAIN q :
        /\ IsFiniteSet(DOMAIN q[c]) /\ DOMAIN q[c] # {}
        /\ \A rule \in DOMAIN q[c] : q[c][rule] \in Nat \ {0} /\ UnitWeight[rule] > 0 /\ \E k \in DOMAIN Rules : Rules[k] = rule

(* Every order of the shipping list is assigned, and none is nobody.         *)
AssignedFrom(s, a) ==
    /\ IsFiniteSet(DOMAIN a) /\ Customs!Nobody \notin DOMAIN a
    /\ \A i \in DOMAIN s : s[i].order # Customs!Nobody => s[i].order \in DOMAIN a

(* What is known of the boxes is what the rows say, and each order has one.  *)
PackedFrom(s, a, b, given, known) ==
    /\ given = {s[i].order : i \in DOMAIN s} \ {Customs!Nobody}
    /\ \A i, j \in DOMAIN s : s[i].order = s[j].order /\ s[i].order # Customs!Nobody => i = j
    /\ \A i \in DOMAIN s : s[i].order \in DOMAIN a => s[i].order \in DOMAIN b /\ b[s[i].order].boxes = s[i].boxes
    /\ \A o \in DOMAIN b : b[o].boxes \in Nat /\ b[o].weight \in Nat
    /\ \A o \in known : o \in DOMAIN a /\ \E i \in DOMAIN s : s[i].order = o

(* The inductive invariant.                                                  *)
CustomsTypes ==
    /\ sheet \in Customs!Sheets \cup {"analyze", "done"}
    /\ DOMAIN sheetRows = Customs!Sheets
    /\ sheetRows["shipping"] \in Seq(ShippingRow) /\ sheetRows["packing"] \in Seq(PackingRow) /\ sheetRows["details"] \in Seq(InvoiceRow)
Faultless ==
    /\ AssignedFrom(sheetRows["shipping"], assignments)
    /\ PackedFrom(sheetRows["packing"], assignments, shipments, shipped, packed)
    /\ Counted(sheetRows["details"], assignments, quantities) /\ Itemized(quantities)
    /\ \A o \in detailed : o \in DOMAIN assignments /\ assignments[o] \in DOMAIN quantities
    /\ sheet = "shipping" => sheetRows["packing"] = <<>>
    /\ sheet \in {"shipping", "packing"} => sheetRows["details"] = <<>>
    /\ sheet = "shipping" => order = Customs!Nobody
    /\ sheet = "packing" => CurrentIs(sheetRows["packing"], order)
    /\ sheet = "details" => CurrentIs(sheetRows["details"], order)
    /\ sheet \in {"analyze", "done"} => DOMAIN assignments \subseteq packed \cap detailed
CustomsInv ==
    /\ CustomsTypes
    /\ mistakes = {} => Faultless
    /\ results # <<>> => mistakes = {} /\ sheet = "done" /\ results = [c \in DOMAIN quantities |-> Customs!Declaration(c)]

(* A row belongs to one order.                                               *)
LEMMA OwnedOnce ==
  ASSUME NEW s, NEW i \in Nat, NEW x, NEW y, OwnedBy(s, i, x), OwnedBy(s, i, y)
  PROVE  x = y
<1>1. PICK j \in 1 .. i : s[j].order = x /\ x # Customs!Nobody /\ \A k \in (j + 1) .. i : s[k].order = Customs!Nobody
  BY DEF OwnedBy
<1>2. PICK l \in 1 .. i : s[l].order = y /\ y # Customs!Nobody /\ \A k \in (l + 1) .. i : s[k].order = Customs!Nobody
  BY DEF OwnedBy
<1>3. ~(j < l) /\ ~(l < j)
  <2>1. j < l => l \in (j + 1) .. i
    OBVIOUS
  <2>2. l < j => j \in (l + 1) .. i
    OBVIOUS
  <2> QED
    BY <1>1, <1>2, <2>1, <2>2
<1>4. j = l
  BY <1>3
<1> QED
  BY <1>1, <1>2, <1>4

(* A row that names an order has it, another that of the row above.          *)
LEMMA OwnerNext ==
  ASSUME NEW R, NEW s \in Seq(R), NEW row \in R
  PROVE  /\ \A i \in 1 .. Len(s) : \A x : OwnedBy(Append(s, row), i, x) <=> OwnedBy(s, i, x)
         /\ \A o : CurrentIs(s, o) =>
              /\ CurrentIs(Append(s, row), IF row.order = Customs!Nobody THEN o ELSE row.order)
              /\ \A x : OwnedBy(Append(s, row), Len(s) + 1, x) <=> x = (IF row.order = Customs!Nobody THEN o ELSE row.order) /\ x # Customs!Nobody
<1> DEFINE t == Append(s, row)
           n == Len(s)
<1>1. /\ t \in Seq(R) /\ Len(t) = n + 1 /\ n \in Nat /\ DOMAIN s = 1 .. n /\ DOMAIN t = 1 .. (n + 1)
      /\ t[n + 1] = row /\ \A i \in 1 .. n : t[i] = s[i]
  OBVIOUS
<1> HIDE DEF t, n
<1>2. ASSUME NEW i \in 1 .. n, NEW x
      PROVE  OwnedBy(t, i, x) <=> OwnedBy(s, i, x)
  <2>1. \A j \in 1 .. i : t[j] = s[j] /\ \A k \in (j + 1) .. i : t[k] = s[k]
    BY <1>1
  <2> QED
    BY <2>1 DEF OwnedBy
<1>3. ASSUME NEW o, CurrentIs(s, o)
      PROVE  /\ CurrentIs(t, IF row.order = Customs!Nobody THEN o ELSE row.order)
             /\ \A x : OwnedBy(t, n + 1, x) <=> x = (IF row.order = Customs!Nobody THEN o ELSE row.order) /\ x # Customs!Nobody
  <2>1. CASE row.order # Customs!Nobody
    <3>1. ASSUME NEW j \in 1 .. (n + 1), \A k \in (j + 1) .. (n + 1) : t[k].order = Customs!Nobody
          PROVE  j = n + 1
      <4>1. ~(n + 1 \in (j + 1) .. (n + 1))
        BY <1>1, <2>1, <3>1
      <4> QED
        BY <1>1, <4>1
    <3>2. n + 1 \in 1 .. (n + 1) /\ \A k \in (n + 2) .. (n + 1) : FALSE
      BY <1>1
    <3>3. (n + 1) + 1 = n + 2
      BY <1>1
    <3>4. \A x : OwnedBy(t, n + 1, x) => x = row.order
      BY <1>1, <3>1 DEF OwnedBy
    <3>5. OwnedBy(t, n + 1, row.order)
      BY <1>1, <2>1, <3>2, <3>3 DEF OwnedBy
    <3>6. CurrentIs(t, row.order)
      BY <1>1, <2>1, <3>5 DEF CurrentIs
    <3> QED
      BY <2>1, <3>4, <3>5, <3>6
  <2>2. CASE row.order = Customs!Nobody
    <3>1. ASSUME NEW j \in 1 .. (n + 1), t[j].order # Customs!Nobody
          PROVE  /\ j \in 1 .. n /\ t[j] = s[j]
                 /\ (\A k \in (j + 1) .. (n + 1) : t[k].order = Customs!Nobody) <=> (\A k \in (j + 1) .. n : s[k].order = Customs!Nobody)
      <4>0. n \in Nat /\ (j = n + 1 => t[j] = row)
        BY <1>1
      <4>1. j \in 1 .. n
        BY <2>2, <3>1, <4>0
      <4>2. (j + 1) .. (n + 1) = ((j + 1) .. n) \cup {n + 1} /\ \A k \in (j + 1) .. n : k \in 1 .. n
        BY <1>1, <4>1
      <4> QED
        BY <1>1, <2>2, <4>1, <4>2
    <3>2. \A x : OwnedBy(t, n + 1, x) => OwnedBy(s, n, x)
      BY <3>1 DEF OwnedBy
    <3>3. ASSUME NEW x, OwnedBy(s, n, x)
          PROVE  OwnedBy(t, n + 1, x)
      <4>1. PICK j \in 1 .. n : s[j].order = x /\ x # Customs!Nobody /\ \A k \in (j + 1) .. n : s[k].order = Customs!Nobody
        BY <3>3 DEF OwnedBy
      <4>2. n \in Nat /\ t[j] = s[j]
        BY <1>1
      <4>3. j \in 1 .. (n + 1) /\ t[j].order = x
        BY <4>1, <4>2
      <4>4. \A k \in (j + 1) .. (n + 1) : t[k].order = Customs!Nobody
        BY <3>1, <4>1, <4>3
      <4> QED
        BY <4>1, <4>3, <4>4 DEF OwnedBy
    <3>4. CASE o = Customs!Nobody
      <4>1. \A k \in DOMAIN t : t[k].order = Customs!Nobody
        BY <1>1, <1>3, <2>2, <3>4 DEF CurrentIs
      <4>2. \A x : ~OwnedBy(t, n + 1, x)
        BY <1>1, <4>1 DEF OwnedBy
      <4> QED
        BY <2>2, <3>4, <4>1, <4>2 DEF CurrentIs
    <3>5. CASE o # Customs!Nobody
      <4>1. OwnedBy(s, n, o)
        BY <1>3, <3>5 DEF CurrentIs, n
      <4>2. OwnedBy(t, n + 1, o)
        BY <3>3, <4>1
      <4>3. \A x : OwnedBy(s, n, x) => x = o
        BY <1>1, <4>1, OwnedOnce DEF n
      <4>4. CurrentIs(t, o)
        BY <1>1, <3>5, <4>2 DEF CurrentIs
      <4> QED
        BY <2>2, <3>2, <3>5, <4>2, <4>3, <4>4
    <3> QED
      BY <3>4, <3>5
  <2> QED
    BY <2>1, <2>2
<1> QED
  BY <1>2, <1>3 DEF t, n

(* Putting a value in a function changes its sum by the difference.          *)
LEMMA TotalPut ==
  ASSUME NEW f, IsFiniteSet(DOMAIN f), \A y \in DOMAIN f : f[y] \in Nat, NEW x, NEW v \in Nat
  PROVE  Total(Customs!Put(f, x, v)) + (IF x \in DOMAIN f THEN f[x] ELSE 0) = Total(f) + v
<1> DEFINE g == Customs!Put(f, x, v)
           S == DOMAIN f \ {x}
<1>1. DOMAIN g = S \cup {x} /\ g[x] = v /\ \A y \in S : g[y] = f[y]
  BY DEF Customs!Put
<1>2. IsFiniteSet(S) /\ x \notin S
  BY FS_Subset
<1> HIDE DEF g
<1>3. \A y \in S : g[y] \in Int /\ f[y] = g[y]
  BY <1>1
<1>4. g[x] \in Int
  BY <1>1
<1> HIDE DEF S
<1>5. Sum(g, S \cup {x}) = Sum(f, S) + g[x] /\ Sum(f, S) \in Int
  BY <1>2, <1>3, <1>4, SumWith
<1>6. Total(g) = Sum(f, S) + v /\ Sum(f, S) \in Int
  BY <1>1, <1>5, TotalIs
<1>7. CASE x \in DOMAIN f
  <2>1. \A y \in DOMAIN f : f[y] \in Int
    OBVIOUS
  <2>2. Sum(f, DOMAIN f) = f[x] + Sum(f, DOMAIN f \ {x})
    BY <1>7, <2>1, SumWithout
  <2>3. f[x] \in Nat
    BY <1>7
  <2> QED
    BY <1>6, <1>7, <2>2, <2>3, TotalIs DEF S, g
<1>8. CASE x \notin DOMAIN f
  <2>1. S = DOMAIN f
    BY <1>8 DEF S
  <2> QED
    BY <1>6, <1>8, <2>1, TotalIs DEF g
<1> QED
  BY <1>7, <1>8

(* One row of products more is under its order.                              *)
LEMMA UnderGrows ==
  ASSUME NEW R, NEW s \in Seq(R), NEW row \in R, NEW a, Customs!Nobody \notin DOMAIN a, NEW o, CurrentIs(s, o),
         NEW p, p = (IF row.order = Customs!Nobody THEN o ELSE row.order), NEW c
  PROVE  RowsUnder(Append(s, row), a, c) = More(RowsUnder(s, a, c), p \in DOMAIN a /\ a[p] = c, Len(s) + 1)
<1> DEFINE t == Append(s, row)
           n == Len(s) + 1
<1>1. /\ DOMAIN t = DOMAIN s \cup {n} /\ n \notin DOMAIN s /\ t[n] = row /\ \A i \in DOMAIN s : t[i] = s[i]
  OBVIOUS
<1>2. \A i \in DOMAIN s : \A x : OwnedBy(t, i, x) <=> OwnedBy(s, i, x)
  BY OwnerNext
<1>3. \A x : OwnedBy(t, n, x) <=> x = p /\ x # Customs!Nobody
  BY OwnerNext
<1> HIDE DEF t, n
<1>4. \A i \in DOMAIN s : i \in RowsUnder(t, a, c) <=> i \in RowsUnder(s, a, c)
  BY <1>1, <1>2 DEF RowsUnder
<1>5. n \in RowsUnder(t, a, c) <=> p \in DOMAIN a /\ a[p] = c
  BY <1>1, <1>3 DEF RowsUnder
<1>6. RowsUnder(t, a, c) \subseteq DOMAIN s \cup {n} /\ RowsUnder(s, a, c) \subseteq DOMAIN s
  BY <1>1 DEF RowsUnder
<1>7. RowsUnder(t, a, c) = More(RowsUnder(s, a, c), p \in DOMAIN a /\ a[p] = c, n)
  BY <1>1, <1>4, <1>5, <1>6 DEF More
<1> QED
  BY <1>7 DEF t, n

(* The same of one rule.                                                     *)
LEMMA OfRuleGrows ==
  ASSUME NEW R, NEW s \in Seq(R), NEW row \in R, NEW a, Customs!Nobody \notin DOMAIN a, NEW o, CurrentIs(s, o),
         NEW p, p = (IF row.order = Customs!Nobody THEN o ELSE row.order), NEW c, NEW rule,
         NEW test \in BOOLEAN, test <=> p \in DOMAIN a /\ a[p] = c /\ row.product = rule
  PROVE  RowsOfRule(Append(s, row), a, c, rule) = More(RowsOfRule(s, a, c, rule), test, Len(s) + 1)
<1> DEFINE t == Append(s, row)
           n == Len(s) + 1
           U == RowsUnder(t, a, c)
           S == RowsUnder(s, a, c)
<1>1. U = More(S, p \in DOMAIN a /\ a[p] = c, n)
  BY UnderGrows
<1>2. n \notin DOMAIN s /\ t[n] = row /\ \A i \in DOMAIN s : t[i] = s[i]
  OBVIOUS
<1>3. S \subseteq DOMAIN s
  BY DEF RowsUnder
<1>4. RowsOfRule(t, a, c, rule) = {i \in U : t[i].product = rule} /\ RowsOfRule(s, a, c, rule) = {i \in S : s[i].product = rule}
  BY DEF RowsOfRule
<1> HIDE DEF t, n, U, S
<1>5. {i \in U : t[i].product = rule} = More({i \in S : s[i].product = rule}, test, n)
  BY <1>1, <1>2, <1>3 DEF More
<1> QED
  BY <1>4, <1>5 DEF t, n

(* What the quantities of a set of rows sum to, with one row more.           *)
LEMMA QuantitiesGrow ==
  ASSUME NEW s \in Seq(InvoiceRow), NEW row \in InvoiceRow, NEW S \in SUBSET (DOMAIN s), NEW test \in BOOLEAN,
         NEW U, U = More(S, test, Len(s) + 1)
  PROVE  Total([i \in U |-> Append(s, row)[i].quantity]) = Total([i \in S |-> s[i].quantity]) + (IF test THEN row.quantity ELSE 0)
<1> DEFINE t == Append(s, row)
           n == Len(s) + 1
           f == [i \in S |-> s[i].quantity]
           g == [i \in U |-> t[i].quantity]
<1>1. n \notin DOMAIN s /\ t[n] = row /\ \A i \in DOMAIN s : t[i] = s[i]
  OBVIOUS
<1>2. \A i \in DOMAIN s : s[i].quantity \in Nat
  <2> SUFFICES ASSUME NEW i \in DOMAIN s
               PROVE  s[i].quantity \in Nat
    OBVIOUS
  <2>1. s[i] \in InvoiceRow
    OBVIOUS
  <2> QED
    BY <2>1 DEF InvoiceRow
<1>3. IsFiniteSet(DOMAIN f)
  <2>1. DOMAIN s = 1 .. Len(s) /\ Len(s) \in Nat
    OBVIOUS
  <2>2. IsFiniteSet(1 .. Len(s))
    BY <2>1, FS_Interval
  <2> QED
    BY <2>1, <2>2, FS_Subset
<1>4. row.quantity \in Nat
  <2>1. row \in InvoiceRow
    OBVIOUS
  <2> QED
    BY <2>1 DEF InvoiceRow
<1> HIDE DEF t, n
<1>5. \A i \in S : i \in U /\ g[i] = f[i] /\ f[i] \in Nat
  BY <1>1, <1>2 DEF More, n
<1>6. DOMAIN f = S /\ DOMAIN g = More(S, test, n)
  BY DEF n
<1>7. test => n \notin S /\ g[n] = row.quantity
  BY <1>1, <1>6 DEF More
<1> HIDE DEF f, g
<1>8. Growing(f, g, test, n, row.quantity)
  BY <1>3, <1>4, <1>5, <1>6, <1>7, Zenon DEF Growing
<1>9. Total(g) = Total(f) + (IF test THEN row.quantity ELSE 0)
  BY <1>8, OneGrows, Zenon
<1> QED
  BY <1>9 DEF f, g, t

(* The quantities r are the quantities q and v more of a rule.               *)
OneMore(q, r, c, rule, v) ==
    /\ DOMAIN r = DOMAIN q \cup {c} /\ Itemized(r)
    /\ \A d : WholeOf(r, d) = WholeOf(q, d) + (IF d = c THEN v ELSE 0)
    /\ \A d, x : QuantityOf(r, d, x) = QuantityOf(q, d, x) + (IF d = c /\ x = rule THEN v ELSE 0)

(* What is added to the quantities of a category and a rule.                 *)
LEMMA AddedIs ==
  ASSUME NEW q, Itemized(q), NEW c, NEW rule, NEW v \in Nat \ {0},
         UnitWeight[rule] > 0, \E k \in DOMAIN Rules : Rules[k] = rule, NEW r, r = Customs!Added(q, c, rule, v)
  PROVE  OneMore(q, r, c, rule, v)
<1> DEFINE old == IF c \in DOMAIN q THEN q[c] ELSE <<>>
           was == IF rule \in DOMAIN old THEN old[rule] ELSE 0
           new == Customs!Put(old, rule, was + v)
<1>1. r = Customs!Put(q, c, new)
  BY DEF Customs!Added
<1>2. IsFiniteSet(DOMAIN old) /\ \A x \in DOMAIN old : old[x] \in Nat \ {0} /\ UnitWeight[x] > 0 /\ \E l \in DOMAIN Rules : Rules[l] = x
  <2>1. CASE c \in DOMAIN q
    BY <2>1 DEF Itemized
  <2>2. CASE c \notin DOMAIN q
    <3>1. DOMAIN old = {}
      BY <2>2
    <3> QED
      BY <3>1, FS_EmptySet
  <2> QED
    BY <2>1, <2>2
<1>3. \A x \in DOMAIN old : old[x] \in Nat
  BY <1>2
<1> HIDE DEF old
<1>4. was \in Nat
  BY <1>3
<1> HIDE DEF was
<1>5. Total(old) \in Nat
  BY <1>2, <1>3, TotalBounds
<1>6. Total(new) + was = Total(old) + (was + v)
  <2>1. was + v \in Nat
    BY <1>4
  <2>2. Total(new) + (IF rule \in DOMAIN old THEN old[rule] ELSE 0) = Total(old) + (was + v)
    BY <1>2, <1>3, <2>1, TotalPut
  <2> QED
    BY <2>2 DEF was
<1>7. DOMAIN new = DOMAIN old \cup {rule} /\ new[rule] = was + v /\ \A x \in DOMAIN old : x # rule => new[x] = old[x]
  BY DEF Customs!Put
<1>8. IsFiniteSet(DOMAIN new)
  BY <1>2, <1>7, FS_AddElement
<1> HIDE DEF new
<1>9. DOMAIN r = DOMAIN q \cup {c} /\ r[c] = new /\ \A d \in DOMAIN q : d # c => r[d] = q[d]
  BY <1>1 DEF Customs!Put
<1>10. \A x \in DOMAIN new : new[x] \in Nat \ {0} /\ UnitWeight[x] > 0 /\ \E l \in DOMAIN Rules : Rules[l] = x
  <2> SUFFICES ASSUME NEW x \in DOMAIN new
               PROVE  new[x] \in Nat \ {0} /\ UnitWeight[x] > 0 /\ \E l \in DOMAIN Rules : Rules[l] = x
    OBVIOUS
  <2>1. CASE x = rule
    <3>1. was + v \in Nat \ {0}
      BY <1>4
    <3> QED
      BY <1>7, <2>1, <3>1
  <2>2. CASE x # rule
    <3>1. x \in DOMAIN old /\ new[x] = old[x]
      BY <1>7, <2>2
    <3> QED
      BY <1>2, <3>1
  <2> QED
    BY <2>1, <2>2
<1>11. Itemized(r)
  <2> SUFFICES ASSUME NEW d \in DOMAIN r
               PROVE  /\ IsFiniteSet(DOMAIN r[d]) /\ DOMAIN r[d] # {}
                      /\ \A x \in DOMAIN r[d] : r[d][x] \in Nat \ {0} /\ UnitWeight[x] > 0 /\ \E l \in DOMAIN Rules : Rules[l] = x
    BY DEF Itemized
  <2>1. CASE d = c
    BY <1>7, <1>8, <1>9, <1>10, <2>1
  <2>2. CASE d # c
    <3>1. d \in DOMAIN q /\ r[d] = q[d]
      BY <1>9, <2>2
    <3> QED
      BY <3>1 DEF Itemized
  <2> QED
    BY <2>1, <2>2
<1>12. ASSUME NEW d
       PROVE  WholeOf(r, d) = WholeOf(q, d) + (IF d = c THEN v ELSE 0)
  <2>1. CASE d = c
    <3>1. WholeOf(r, d) = Total(new)
      BY <1>9, <2>1 DEF WholeOf
    <3>2. WholeOf(q, d) = Total(old)
      <4>1. CASE c \in DOMAIN q
        BY <2>1, <4>1 DEF WholeOf, old
      <4>2. CASE c \notin DOMAIN q
        <5>1. DOMAIN old = {}
          BY <4>2 DEF old
        <5>2. Total(old) = 0
          BY <5>1, TotalNone
        <5> QED
          BY <2>1, <4>2, <5>2 DEF WholeOf
      <4> QED
        BY <4>1, <4>2
    <3>3. Total(new) = Total(old) + v
      <4>1. Total(new) \in Nat
        <5>1. \A x \in DOMAIN new : new[x] \in Nat
          BY <1>10
        <5> QED
          BY <1>8, <5>1, TotalBounds
      <4> QED
        BY <1>4, <1>5, <1>6, <4>1
    <3> QED
      BY <2>1, <3>1, <3>2, <3>3
  <2>2. CASE d # c
    <3>1. WholeOf(r, d) = WholeOf(q, d)
      BY <1>9, <2>2 DEF WholeOf
    <3>2. WholeOf(q, d) \in Nat
      <4>1. CASE d \in DOMAIN q
        <5>1. IsFiniteSet(DOMAIN q[d]) /\ \A x \in DOMAIN q[d] : q[d][x] \in Nat
          BY <4>1 DEF Itemized
        <5>2. Total(q[d]) \in Nat
          BY <5>1, TotalBounds
        <5> QED
          BY <4>1, <5>2 DEF WholeOf
      <4>2. CASE d \notin DOMAIN q
        BY <4>2 DEF WholeOf
      <4> QED
        BY <4>1, <4>2
    <3> QED
      BY <2>2, <3>1, <3>2
  <2> QED
    BY <2>1, <2>2
<1>13. ASSUME NEW d, NEW x
       PROVE  QuantityOf(r, d, x) = QuantityOf(q, d, x) + (IF d = c /\ x = rule THEN v ELSE 0)
  <2>1. CASE d = c /\ x = rule
    <3>1. QuantityOf(r, d, x) = was + v
      BY <1>7, <1>9, <2>1 DEF QuantityOf
    <3>2. QuantityOf(q, d, x) = was
      BY <2>1 DEF QuantityOf, was, old
    <3> QED
      BY <2>1, <3>1, <3>2
  <2>2. CASE ~(d = c /\ x = rule)
    <3>1. QuantityOf(r, d, x) = QuantityOf(q, d, x)
      <4>1. CASE d = c
        <5>1. x # rule
          BY <2>2, <4>1
        <5>2. x \in DOMAIN new <=> x \in DOMAIN old
          BY <1>7, <5>1
        <5>3. QuantityOf(r, d, x) = IF x \in DOMAIN old THEN old[x] ELSE 0
          BY <1>7, <1>9, <4>1, <5>1, <5>2 DEF QuantityOf
        <5>4. QuantityOf(q, d, x) = IF x \in DOMAIN old THEN old[x] ELSE 0
          BY <4>1 DEF QuantityOf, old
        <5> QED
          BY <5>3, <5>4
      <4>2. CASE d # c
        BY <1>9, <4>2 DEF QuantityOf
      <4> QED
        BY <4>1, <4>2
    <3>2. QuantityOf(q, d, x) \in Nat
      BY DEF QuantityOf, Itemized
    <3> QED
      BY <2>2, <3>1, <3>2
  <2> QED
    BY <2>1, <2>2
<1> QED
  BY <1>9, <1>11, <1>12, <1>13 DEF OneMore

(* What is true of no row at all.                                            *)
LEMMA NoRows ==
  ASSUME NEW s, s = <<>>, NEW a, NEW b, NEW q
  PROVE  /\ CurrentIs(s, Customs!Nobody)
         /\ Counted(s, a, q) => Counted(s, b, q)
<1>1. \A c : RowsUnder(s, a, c) = RowsUnder(s, b, c) /\ \A rule : RowsOfRule(s, a, c, rule) = RowsOfRule(s, b, c, rule)
  BY DEF RowsUnder, RowsOfRule
<1>2. CurrentIs(s, Customs!Nobody)
  BY DEF CurrentIs
<1> QED
  BY <1>1, <1>2 DEF Counted

(* The shipping list is read.                                                *)
LEMMA ShippingKept == CustomsInv /\ Customs!ReadShipping => CustomsInv'
<1> SUFFICES ASSUME CustomsInv, Customs!ReadShipping
             PROVE  CustomsInv'
  OBVIOUS
<1>1. PICK row \in ShippingRows :
        /\ Customs!Read("shipping", row)
        /\ mistakes' = mistakes \cup Customs!Wrong(row)
        /\ assignments' = IF row.order = Customs!Nobody \/ Customs!Wrong(row) # {} THEN assignments
                          ELSE Customs!Put(assignments, row.order, Customs!Category(row))
        /\ UNCHANGED <<order, shipped, packed, detailed, shipments, quantities, results>>
  BY DEF Customs!ReadShipping
<1> DEFINE s == sheetRows["shipping"]
           t == Append(s, row)
<1>2. row \in ShippingRow
  BY CustomsAssumption
<1>3. sheet = "shipping" /\ sheet' = sheet /\ sheetRows' = [sheetRows EXCEPT !["shipping"] = Append(@, row)]
  BY <1>1 DEF Customs!Read
<1>4. DOMAIN sheetRows = Customs!Sheets /\ s \in Seq(ShippingRow)
  BY DEF CustomsInv, CustomsTypes
<1>5. /\ DOMAIN sheetRows' = Customs!Sheets /\ sheetRows'["shipping"] = t
      /\ sheetRows'["packing"] = sheetRows["packing"] /\ sheetRows'["details"] = sheetRows["details"]
  BY <1>3, <1>4 DEF Customs!Sheets
<1>6. t \in Seq(ShippingRow)
  BY <1>2, <1>4
<1>7. CustomsTypes'
  BY <1>3, <1>5, <1>6 DEF CustomsInv, CustomsTypes
<1>8. results' = <<>>
  BY <1>1, <1>3 DEF CustomsInv
<1>9. ASSUME mistakes' = {}
      PROVE  Faultless'
  <2>1. Faultless /\ Customs!Wrong(row) = {}
    BY <1>1, <1>9 DEF CustomsInv
  <2>2. \A i \in DOMAIN t : t[i] = row \/ (i \in DOMAIN s /\ t[i] = s[i])
    BY <1>2, <1>4
  <2>3. /\ DOMAIN assignments' = DOMAIN assignments \cup ({row.order} \ {Customs!Nobody})
        /\ \A o \in DOMAIN assignments : assignments'[o] = assignments[o]
    <3>1. CASE row.order = Customs!Nobody
      BY <1>1, <3>1
    <3>2. CASE row.order # Customs!Nobody
      <4>1. assignments' = Customs!Put(assignments, row.order, Customs!Category(row))
        BY <1>1, <2>1, <3>2
      <4>2. row.order \in DOMAIN assignments => assignments[row.order] = Customs!Category(row)
        <5>1. \A x : {x} # {}
          OBVIOUS
        <5> QED
          BY <2>1, <3>2, <5>1 DEF Customs!Wrong
      <4> QED
        BY <3>2, <4>1, <4>2 DEF Customs!Put
    <3> QED
      BY <3>1, <3>2
  <2>4. AssignedFrom(t, assignments')
    <3>1. IsFiniteSet(DOMAIN assignments) /\ IsFiniteSet({row.order})
      BY <2>1, FS_Singleton DEF Faultless, AssignedFrom
    <3>2. IsFiniteSet({row.order} \ {Customs!Nobody})
      <4>1. {row.order} \ {Customs!Nobody} \in SUBSET {row.order}
        OBVIOUS
      <4> QED
        BY <3>1, <4>1, FS_Subset
    <3>3. IsFiniteSet(DOMAIN assignments')
      <4>1. IsFiniteSet(DOMAIN assignments \cup ({row.order} \ {Customs!Nobody}))
        BY <3>1, <3>2, FS_Union
      <4> QED
        BY <2>3, <4>1
    <3>4. \A i \in DOMAIN t : t[i].order # Customs!Nobody => t[i].order \in DOMAIN assignments'
      BY <2>1, <2>2, <2>3 DEF Faultless, AssignedFrom
    <3> QED
      BY <2>1, <2>3, <3>3, <3>4 DEF Faultless, AssignedFrom
  <2>5. sheetRows["packing"] = <<>> /\ sheetRows["details"] = <<>>
    BY <1>3, <2>1 DEF Faultless
  <2>6. PackedFrom(sheetRows["packing"], assignments', shipments, shipped, packed)
    BY <2>1, <2>5 DEF Faultless, PackedFrom
  <2>7. Counted(sheetRows["details"], assignments', quantities)
    BY <2>1, <2>5, NoRows DEF Faultless
  <2>8. \A o \in detailed : o \in DOMAIN assignments' /\ assignments'[o] \in DOMAIN quantities
    BY <2>1, <2>3 DEF Faultless
  <2>9. /\ order' = order /\ shipped' = shipped /\ packed' = packed /\ detailed' = detailed
        /\ shipments' = shipments /\ quantities' = quantities
    BY <1>1
  <2>10. Itemized(quantities')
    BY <2>1, <2>9 DEF Faultless
  <2>11. AssignedFrom(sheetRows'["shipping"], assignments')
    BY <1>5, <2>4
  <2>12. PackedFrom(sheetRows'["packing"], assignments', shipments', shipped', packed')
    BY <1>5, <2>6, <2>9
  <2>13. Counted(sheetRows'["details"], assignments', quantities')
    BY <1>5, <2>7, <2>9
  <2>14. sheetRows'["packing"] = <<>> /\ sheetRows'["details"] = <<>> /\ order' = Customs!Nobody
    BY <1>3, <1>5, <2>1, <2>5, <2>9 DEF Faultless
  <2>15. sheet' = "shipping"
    BY <1>3
  <2> QED
    BY <2>8, <2>9, <2>10, <2>11, <2>12, <2>13, <2>14, <2>15 DEF Faultless
<1> QED
  BY <1>7, <1>8, <1>9 DEF CustomsInv

(* One row of packing more is one order more, or says nothing.               *)
LEMMA PackedGrows ==
  ASSUME NEW s \in Seq(PackingRow), NEW row \in PackingRow, NEW a, Customs!Nobody \notin DOMAIN a, NEW b, NEW given, NEW known,
         PackedFrom(s, a, b, given, known), row.order \notin given,
         row.order \in DOMAIN a => row.order # Customs!Nobody,
         NEW o, CurrentIs(s, o), NEW p, p = (IF row.order = Customs!Nobody THEN o ELSE row.order)
  PROVE  PackedFrom(Append(s, row), a,
            IF row.order \in DOMAIN a THEN Customs!Put(b, row.order, [boxes |-> row.boxes, weight |-> row.weight]) ELSE b,
            given \cup ({row.order} \ {Customs!Nobody}), known \cup {x \in {p} : x \in DOMAIN a})
<1> DEFINE t == Append(s, row)
           n == Len(s) + 1
           new == [boxes |-> row.boxes, weight |-> row.weight]
           d == IF row.order \in DOMAIN a THEN Customs!Put(b, row.order, new) ELSE b
           g == given \cup ({row.order} \ {Customs!Nobody})
           k == known \cup {x \in {p} : x \in DOMAIN a}
<1>1. /\ t \in Seq(PackingRow) /\ DOMAIN t = DOMAIN s \cup {n} /\ n \notin DOMAIN s /\ t[n] = row /\ \A i \in DOMAIN s : t[i] = s[i]
  OBVIOUS
<1>2. row.boxes \in Nat /\ row.weight \in Nat
  <2>1. row \in PackingRow
    OBVIOUS
  <2> QED
    BY <2>1 DEF PackingRow
<1>3. /\ given = {s[i].order : i \in DOMAIN s} \ {Customs!Nobody}
      /\ \A i, j \in DOMAIN s : s[i].order = s[j].order /\ s[i].order # Customs!Nobody => i = j
      /\ \A i \in DOMAIN s : s[i].order \in DOMAIN a => s[i].order \in DOMAIN b /\ b[s[i].order].boxes = s[i].boxes
      /\ \A x \in DOMAIN b : b[x].boxes \in Nat /\ b[x].weight \in Nat
      /\ \A x \in known : x \in DOMAIN a /\ \E i \in DOMAIN s : s[i].order = x
  BY DEF PackedFrom
<1>4. new.boxes = row.boxes /\ new.weight = row.weight
  OBVIOUS
<1> HIDE DEF t, n, new
<1>5. /\ row.order \in DOMAIN a => row.order \in DOMAIN d /\ d[row.order] = new
      /\ \A x \in DOMAIN b : x \in DOMAIN d /\ (x # row.order => d[x] = b[x])
      /\ \A x \in DOMAIN d : x \in DOMAIN b \/ (row.order \in DOMAIN a /\ x = row.order)
      /\ row.order \notin DOMAIN a => d = b
  BY DEF Customs!Put
<1> HIDE DEF d
<1>6. g = {t[i].order : i \in DOMAIN t} \ {Customs!Nobody}
  BY <1>1, <1>3
<1>7. \A i, j \in DOMAIN t : t[i].order = t[j].order /\ t[i].order # Customs!Nobody => i = j
  BY <1>1, <1>3
<1>8. \A i \in DOMAIN s : s[i].order \in DOMAIN a => s[i].order # row.order
  BY <1>3
<1>9. \A i \in DOMAIN t : t[i].order \in DOMAIN a => t[i].order \in DOMAIN d /\ d[t[i].order].boxes = t[i].boxes
  BY <1>1, <1>3, <1>4, <1>5, <1>8
<1>10. \A x \in DOMAIN d : d[x].boxes \in Nat /\ d[x].weight \in Nat
  BY <1>2, <1>3, <1>4, <1>5
<1>11. p \in DOMAIN a => \E i \in DOMAIN t : t[i].order = p
  <2>1. CASE row.order # Customs!Nobody
    BY <1>1, <2>1
  <2>2. CASE row.order = Customs!Nobody
    <3>1. p \in DOMAIN a => \E i \in 1 .. Len(s) : s[i].order = p
      BY <2>2 DEF CurrentIs, OwnedBy
    <3>2. DOMAIN s = 1 .. Len(s)
      OBVIOUS
    <3> QED
      BY <1>1, <3>1, <3>2
  <2> QED
    BY <2>1, <2>2
<1>12. \A x \in k : x \in DOMAIN a /\ \E i \in DOMAIN t : t[i].order = x
  <2>1. \A x \in known : x \in DOMAIN a /\ \E i \in DOMAIN t : t[i].order = x
    BY <1>1, <1>3
  <2> QED
    BY <1>11, <2>1
<1> HIDE DEF g, k
<1>13. PackedFrom(t, a, d, g, k)
  BY <1>6, <1>7, <1>9, <1>10, <1>12 DEF PackedFrom
<1> QED
  BY <1>13 DEF t, d, g, k, new

(* The sheet of the boxes is read.                                           *)
LEMMA PackingKept == CustomsInv /\ Customs!ReadPacking => CustomsInv'
<1> SUFFICES ASSUME CustomsInv, Customs!ReadPacking
             PROVE  CustomsInv'
  OBVIOUS
<1>1. PICK row \in PackingRows :
        LET new == row.order # Customs!Nobody /\ Customs!Assigned(row.order) IN
        /\ Customs!Read("packing", row)
        /\ order' = Customs!Belongs(row)
        /\ shipped' = shipped \cup ({row.order} \ {Customs!Nobody})
        /\ mistakes' = mistakes \cup Customs!Repeated(row) \cup (IF new /\ ~Customs!Valid(row) THEN {"INVALID_NUMBER"} ELSE {})
        /\ shipments' = IF new /\ Customs!Valid(row) THEN Customs!Put(shipments, row.order, [boxes |-> row.boxes, weight |-> row.weight])
                        ELSE shipments
        /\ packed' = packed \cup {o \in {Customs!Belongs(row)} : Customs!Assigned(o)}
        /\ UNCHANGED <<assignments, detailed, quantities, results>>
  BY DEF Customs!ReadPacking
<1> DEFINE s == sheetRows["packing"]
           t == Append(s, row)
           p == IF row.order = Customs!Nobody THEN order ELSE row.order
<1>2. row \in PackingRow
  BY CustomsAssumption
<1>3. sheet = "packing" /\ sheet' = sheet /\ sheetRows' = [sheetRows EXCEPT !["packing"] = Append(@, row)]
  BY <1>1 DEF Customs!Read
<1>4. DOMAIN sheetRows = Customs!Sheets /\ s \in Seq(PackingRow)
  BY DEF CustomsInv, CustomsTypes
<1>5. /\ DOMAIN sheetRows' = Customs!Sheets /\ sheetRows'["packing"] = t
      /\ sheetRows'["shipping"] = sheetRows["shipping"] /\ sheetRows'["details"] = sheetRows["details"]
  BY <1>3, <1>4 DEF Customs!Sheets
<1>6. t \in Seq(PackingRow)
  BY <1>2, <1>4
<1>7. CustomsTypes'
  BY <1>3, <1>5, <1>6 DEF CustomsInv, CustomsTypes
<1>8. results' = <<>>
  BY <1>1, <1>3 DEF CustomsInv
<1>9. ASSUME mistakes' = {}
      PROVE  Faultless'
  <2>1. Faultless /\ Customs!Repeated(row) = {}
    BY <1>1, <1>9 DEF CustomsInv
  <2>2. row.order \notin shipped
    <3>1. \A x : {x} # {}
      OBVIOUS
    <3> QED
      BY <2>1, <3>1 DEF Customs!Repeated
  <2>3. /\ Customs!Nobody \notin DOMAIN assignments /\ PackedFrom(s, assignments, shipments, shipped, packed) /\ CurrentIs(s, order)
    BY <1>3, <2>1 DEF Faultless, AssignedFrom
  <2>4. row.order # Customs!Nobody /\ row.order \in DOMAIN assignments => Customs!Valid(row)
    BY <1>1, <1>9 DEF Customs!Assigned
  <2>5. shipments' = IF row.order \in DOMAIN assignments THEN Customs!Put(shipments, row.order, [boxes |-> row.boxes, weight |-> row.weight])
                     ELSE shipments
    BY <1>1, <2>3, <2>4 DEF Customs!Assigned
  <2>6. order' = p /\ packed' = packed \cup {o \in {p} : o \in DOMAIN assignments}
    BY <1>1 DEF Customs!Belongs, Customs!Assigned
  <2>7. shipped' = shipped \cup ({row.order} \ {Customs!Nobody})
    BY <1>1
  <2>8. PackedFrom(t, assignments,
            IF row.order \in DOMAIN assignments THEN Customs!Put(shipments, row.order, [boxes |-> row.boxes, weight |-> row.weight]) ELSE shipments,
            shipped \cup ({row.order} \ {Customs!Nobody}), packed \cup {o \in {p} : o \in DOMAIN assignments})
    BY <1>2, <1>4, <2>2, <2>3, PackedGrows
  <2>9. CurrentIs(t, p)
    BY <1>2, <1>4, <2>3, OwnerNext
  <2>10. assignments' = assignments /\ detailed' = detailed /\ quantities' = quantities
    BY <1>1
  <2>11. PackedFrom(sheetRows'["packing"], assignments', shipments', shipped', packed')
    BY <1>5, <2>5, <2>6, <2>7, <2>8, <2>10
  <2>12. CurrentIs(sheetRows'["packing"], order')
    BY <1>5, <2>6, <2>9
  <2>13. sheet' = "packing" /\ sheetRows'["details"] = <<>>
    BY <1>3, <1>5, <2>1 DEF Faultless
  <2>14. /\ AssignedFrom(sheetRows'["shipping"], assignments') /\ Counted(sheetRows'["details"], assignments', quantities')
         /\ Itemized(quantities') /\ \A o \in detailed' : o \in DOMAIN assignments' /\ assignments'[o] \in DOMAIN quantities'
    BY <1>5, <2>1, <2>10 DEF Faultless
  <2> QED
    BY <2>11, <2>12, <2>13, <2>14 DEF Faultless
<1> QED
  BY <1>7, <1>8, <1>9 DEF CustomsInv

(* A row of products more counts for its rule, in the category of its order. *)
LEMMA CountedGrows ==
  ASSUME NEW s \in Seq(InvoiceRow), NEW row \in InvoiceRow, NEW a, Customs!Nobody \notin DOMAIN a, NEW o, CurrentIs(s, o),
         NEW p, p = (IF row.order = Customs!Nobody THEN o ELSE row.order), NEW q, NEW r, Counted(s, a, q),
         \A c : WholeOf(r, c) = WholeOf(q, c) + (IF p \in DOMAIN a /\ a[p] = c THEN row.quantity ELSE 0),
         \A c, x : QuantityOf(r, c, x) = QuantityOf(q, c, x) + (IF p \in DOMAIN a /\ a[p] = c /\ row.product = x THEN row.quantity ELSE 0)
  PROVE  Counted(Append(s, row), a, r)
<1> DEFINE t == Append(s, row)
<1>1. ASSUME NEW c
      PROVE  WholeOf(r, c) = Total([i \in RowsUnder(t, a, c) |-> t[i].quantity])
  <2> DEFINE S == RowsUnder(s, a, c)
             U == RowsUnder(t, a, c)
             test == p \in DOMAIN a /\ a[p] = c
  <2>1. U = More(S, test, Len(s) + 1)
    BY UnderGrows
  <2>2. S \in SUBSET (DOMAIN s) /\ test \in BOOLEAN
    BY DEF RowsUnder
  <2>3. WholeOf(q, c) = Total([i \in S |-> s[i].quantity])
    BY DEF Counted
  <2>4. WholeOf(r, c) = WholeOf(q, c) + (IF test THEN row.quantity ELSE 0)
    OBVIOUS
  <2> HIDE DEF S, U, test
  <2>5. Total([i \in U |-> Append(s, row)[i].quantity]) = Total([i \in S |-> s[i].quantity]) + (IF test THEN row.quantity ELSE 0)
    BY <2>1, <2>2, QuantitiesGrow
  <2> QED
    BY <2>3, <2>4, <2>5 DEF U
<1>2. ASSUME NEW c, NEW x
      PROVE  QuantityOf(r, c, x) = Total([i \in RowsOfRule(t, a, c, x) |-> t[i].quantity])
  <2> DEFINE S == RowsOfRule(s, a, c, x)
             U == RowsOfRule(t, a, c, x)
             test == p \in DOMAIN a /\ a[p] = c /\ row.product = x
  <2>0. test \in BOOLEAN /\ (test <=> p \in DOMAIN a /\ a[p] = c /\ row.product = x)
    OBVIOUS
  <2> HIDE DEF test
  <2>1. U = More(S, test, Len(s) + 1)
    BY <2>0, OfRuleGrows
  <2> USE DEF test
  <2>2. S \in SUBSET (DOMAIN s) /\ test \in BOOLEAN
    BY DEF RowsOfRule, RowsUnder
  <2>3. QuantityOf(q, c, x) = Total([i \in S |-> s[i].quantity])
    BY DEF Counted
  <2>4. QuantityOf(r, c, x) = QuantityOf(q, c, x) + (IF test THEN row.quantity ELSE 0)
    OBVIOUS
  <2> HIDE DEF S, U, test
  <2>5. Total([i \in U |-> Append(s, row)[i].quantity]) = Total([i \in S |-> s[i].quantity]) + (IF test THEN row.quantity ELSE 0)
    BY <2>1, <2>2, QuantitiesGrow
  <2> QED
    BY <2>3, <2>4, <2>5 DEF U
<1> QED
  BY <1>1, <1>2 DEF Counted

(* What a faultless row of products says.                                    *)
LEMMA FaultlessRow ==
  ASSUME NEW row \in InvoiceRow, Customs!Faults(row) = {}
  PROVE  /\ row.quantity \in Nat \ {0} /\ row.product # Customs!Unnamed
         /\ \E k \in DOMAIN Rules : Rules[k] = row.product
         /\ UnitWeight[row.product] > 0
<1>1. \A x : {x} # {}
  OBVIOUS
<1>2. row.quantity \in Nat
  BY DEF InvoiceRow
<1>3. ~(row.quantity <= 0)
  BY <1>1 DEF Customs!Faults
<1>4. row.product # Customs!Unnamed
  BY <1>1 DEF Customs!Faults
<1>5. Customs!Known(row.product)
  BY <1>1, <1>3, <1>4 DEF Customs!Faults
<1>6. ~(UnitWeight[row.product] <= 0)
  BY <1>1, <1>3, <1>4, <1>5 DEF Customs!Faults
<1>7. PICK k \in DOMAIN Rules : Rules[k] = row.product
  BY <1>5 DEF Customs!Known, Customs!Range
<1>8. UnitWeight[row.product] \in Nat
  BY <1>7, CustomsAssumption
<1> QED
  BY <1>2, <1>3, <1>4, <1>6, <1>7, <1>8

(* Quantities are numbers.                                                   *)
LEMMA WholeTyped ==
  ASSUME NEW q, Itemized(q), NEW c
  PROVE  WholeOf(q, c) \in Nat /\ \A x : QuantityOf(q, c, x) \in Nat
<1>1. CASE c \in DOMAIN q
  <2>1. IsFiniteSet(DOMAIN q[c]) /\ \A x \in DOMAIN q[c] : q[c][x] \in Nat
    BY <1>1 DEF Itemized
  <2>2. Total(q[c]) \in Nat
    BY <2>1, TotalBounds
  <2> QED
    BY <1>1, <2>1, <2>2 DEF WholeOf, QuantityOf
<1>2. CASE c \notin DOMAIN q
  BY <1>2 DEF WholeOf, QuantityOf
<1> QED
  BY <1>1, <1>2

(* The sheet of the products is read.                                        *)
LEMMA DetailKept == CustomsInv /\ Customs!ReadDetail => CustomsInv'
<1> SUFFICES ASSUME CustomsInv, Customs!ReadDetail
             PROVE  CustomsInv'
  OBVIOUS
<1>1. PICK row \in InvoiceRows :
        LET of == Customs!Belongs(row)  wrong == IF Customs!Assigned(of) THEN Customs!Faults(row) ELSE {} IN
        /\ Customs!Read("details", row)
        /\ order' = of
        /\ mistakes' = mistakes \cup wrong
        /\ detailed' = IF Customs!Assigned(of) /\ row.product # Customs!Unnamed /\ row.quantity > 0 THEN detailed \cup {of} ELSE detailed
        /\ quantities' = IF Customs!Assigned(of) /\ wrong = {}
                         THEN Customs!Added(quantities, assignments[of], row.product, row.quantity) ELSE quantities
        /\ UNCHANGED <<assignments, shipped, packed, shipments, results>>
  BY DEF Customs!ReadDetail
<1> DEFINE s == sheetRows["details"]
           t == Append(s, row)
           p == IF row.order = Customs!Nobody THEN order ELSE row.order
<1>2. row \in InvoiceRow
  BY CustomsAssumption
<1>3. sheet = "details" /\ sheet' = sheet /\ sheetRows' = [sheetRows EXCEPT !["details"] = Append(@, row)]
  BY <1>1 DEF Customs!Read
<1>4. DOMAIN sheetRows = Customs!Sheets /\ s \in Seq(InvoiceRow)
  BY DEF CustomsInv, CustomsTypes
<1>5. /\ DOMAIN sheetRows' = Customs!Sheets /\ sheetRows'["details"] = t
      /\ sheetRows'["shipping"] = sheetRows["shipping"] /\ sheetRows'["packing"] = sheetRows["packing"]
  BY <1>3, <1>4 DEF Customs!Sheets
<1>6. t \in Seq(InvoiceRow)
  BY <1>2, <1>4
<1>7. CustomsTypes'
  BY <1>3, <1>5, <1>6 DEF CustomsInv, CustomsTypes
<1>8. results' = <<>>
  BY <1>1, <1>3 DEF CustomsInv
<1>9. ASSUME mistakes' = {}
      PROVE  Faultless'
  <2>1. Faultless
    BY <1>1, <1>9 DEF CustomsInv
  <2>2. /\ Customs!Nobody \notin DOMAIN assignments /\ Counted(s, assignments, quantities) /\ Itemized(quantities)
        /\ CurrentIs(s, order)
    BY <1>3, <2>1 DEF Faultless, AssignedFrom
  <2>3. Customs!Belongs(row) = p /\ order' = p
    BY <1>1 DEF Customs!Belongs
  <2>4. assignments' = assignments /\ shipped' = shipped /\ packed' = packed /\ shipments' = shipments
    BY <1>1
  <2>5. CurrentIs(t, p)
    BY <1>2, <1>4, <2>2, OwnerNext
  <2> HIDE DEF p
  <2>6. /\ Counted(t, assignments, quantities') /\ Itemized(quantities')
        /\ \A o \in detailed' : o \in DOMAIN assignments /\ assignments[o] \in DOMAIN quantities'
    <3>1. CASE p \in DOMAIN assignments
      <4>1. Customs!Faults(row) = {}
        BY <1>1, <1>9, <2>3, <3>1 DEF Customs!Assigned
      <4>2. quantities' = Customs!Added(quantities, assignments[p], row.product, row.quantity)
        BY <1>1, <2>3, <3>1, <4>1 DEF Customs!Assigned
      <4>3. detailed' = detailed \/ detailed' = detailed \cup {p}
        BY <1>1, <2>3
      <4>4. /\ row.quantity \in Nat \ {0} /\ UnitWeight[row.product] > 0
            /\ \E k \in DOMAIN Rules : Rules[k] = row.product
        BY <1>2, <4>1, FaultlessRow
      <4>6. /\ DOMAIN quantities' = DOMAIN quantities \cup {assignments[p]} /\ Itemized(quantities')
            /\ \A c : WholeOf(quantities', c) = WholeOf(quantities, c) + (IF c = assignments[p] THEN row.quantity ELSE 0)
            /\ \A c, x : QuantityOf(quantities', c, x)
                           = QuantityOf(quantities, c, x) + (IF c = assignments[p] /\ x = row.product THEN row.quantity ELSE 0)
        <5> DEFINE c == assignments[p]
                   x == row.product
                   v == row.quantity
        <5>1. v \in Nat \ {0} /\ UnitWeight[x] > 0 /\ (\E l \in DOMAIN Rules : Rules[l] = x) /\ Itemized(quantities)
          BY <2>2, <4>4
        <5>2. quantities' = Customs!Added(quantities, c, x, v)
          BY <4>2
        <5> HIDE DEF c, x, v
        <5>3. OneMore(quantities, quantities', c, x, v)
          BY <5>1, <5>2, AddedIs
        <5> QED
          BY <5>3 DEF OneMore, c, x, v
      <4>7. \A c : WholeOf(quantities', c) = WholeOf(quantities, c) + (IF p \in DOMAIN assignments /\ assignments[p] = c THEN row.quantity ELSE 0)
        BY <3>1, <4>6
      <4>8. \A c, x : QuantityOf(quantities', c, x) = QuantityOf(quantities, c, x)
                        + (IF p \in DOMAIN assignments /\ assignments[p] = c /\ row.product = x THEN row.quantity ELSE 0)
        BY <3>1, <4>6
      <4>9. p = (IF row.order = Customs!Nobody THEN order ELSE row.order)
        BY DEF p
      <4>10. Counted(t, assignments, quantities')
        <5> HIDE DEF t, s
        <5>1. Counted(Append(s, row), assignments, quantities')
          BY <1>2, <1>4, <2>2, <4>7, <4>8, <4>9, CountedGrows
        <5> QED
          BY <5>1 DEF t
      <4>11. \A o \in detailed : o \in DOMAIN assignments /\ assignments[o] \in DOMAIN quantities
        BY <2>1 DEF Faultless
      <4> QED
        BY <3>1, <4>3, <4>6, <4>10, <4>11
    <3>2. CASE p \notin DOMAIN assignments
      <4>1. quantities' = quantities /\ detailed' = detailed
        BY <1>1, <2>3, <3>2 DEF Customs!Assigned
      <4>2. \A c : WholeOf(quantities', c) = WholeOf(quantities, c) + (IF p \in DOMAIN assignments /\ assignments[p] = c THEN row.quantity ELSE 0)
        <5> SUFFICES ASSUME NEW c
                     PROVE  WholeOf(quantities, c) = WholeOf(quantities, c) + 0
          BY <3>2, <4>1
        <5>1. WholeOf(quantities, c) \in Nat
          BY <2>2, WholeTyped
        <5> QED
          BY <5>1
      <4>3. \A c, x : QuantityOf(quantities', c, x) = QuantityOf(quantities, c, x)
                        + (IF p \in DOMAIN assignments /\ assignments[p] = c /\ row.product = x THEN row.quantity ELSE 0)
        <5> SUFFICES ASSUME NEW c, NEW x
                     PROVE  QuantityOf(quantities, c, x) = QuantityOf(quantities, c, x) + 0
          BY <3>2, <4>1
        <5>1. QuantityOf(quantities, c, x) \in Nat
          BY <2>2, WholeTyped
        <5> QED
          BY <5>1
      <4>4. p = (IF row.order = Customs!Nobody THEN order ELSE row.order)
        BY DEF p
      <4>5. Counted(t, assignments, quantities')
        <5> HIDE DEF t, s
        <5>1. Counted(Append(s, row), assignments, quantities')
          BY <1>2, <1>4, <2>2, <4>2, <4>3, <4>4, CountedGrows
        <5> QED
          BY <5>1 DEF t
      <4> QED
        BY <2>1, <2>2, <4>1, <4>5 DEF Faultless
    <3> QED
      BY <3>1, <3>2
  <2>7. Counted(sheetRows'["details"], assignments', quantities') /\ CurrentIs(sheetRows'["details"], order')
    BY <1>5, <2>3, <2>4, <2>5, <2>6
  <2>8. AssignedFrom(sheetRows'["shipping"], assignments')
    BY <1>5, <2>1, <2>4 DEF Faultless
  <2>9. PackedFrom(sheetRows'["packing"], assignments', shipments', shipped', packed')
    BY <1>5, <2>1, <2>4 DEF Faultless
  <2>10. \A o \in detailed' : o \in DOMAIN assignments' /\ assignments'[o] \in DOMAIN quantities'
    BY <2>4, <2>6
  <2>11. sheet' = "details"
    BY <1>3
  <2> QED
    BY <2>6, <2>7, <2>8, <2>9, <2>10, <2>11 DEF Faultless
<1> QED
  BY <1>7, <1>8, <1>9 DEF CustomsInv

(* A sheet ends; after the last, what was assigned has been packed and       *)
(* detailed.                                                                 *)
LEMMA EndKept == CustomsInv /\ Customs!EndOfSheet => CustomsInv'
<1> SUFFICES ASSUME CustomsInv, Customs!EndOfSheet
             PROVE  CustomsInv'
  OBVIOUS
<1>1. /\ sheet \in Customs!Sheets /\ order' = Customs!Nobody
      /\ sheet' = CASE sheet = "shipping" -> "packing" [] sheet = "packing" -> "details" [] OTHER -> "analyze"
      /\ mistakes' = IF sheet = "details" THEN mistakes \cup Customs!Missing ELSE mistakes
      /\ sheetRows' = sheetRows /\ assignments' = assignments /\ shipped' = shipped /\ packed' = packed /\ detailed' = detailed
      /\ shipments' = shipments /\ quantities' = quantities /\ results' = results
  BY DEF Customs!EndOfSheet
<1>2. \/ sheet = "shipping" /\ sheet' = "packing" /\ mistakes' = mistakes
      \/ sheet = "packing" /\ sheet' = "details" /\ mistakes' = mistakes
      \/ sheet = "details" /\ sheet' = "analyze" /\ mistakes' = mistakes \cup Customs!Missing
  BY <1>1 DEF Customs!Sheets
<1>3. CustomsTypes'
  BY <1>1, <1>2 DEF CustomsInv, CustomsTypes, Customs!Sheets
<1>4. results' = <<>>
  BY <1>1, <1>2 DEF CustomsInv
<1>5. ASSUME mistakes' = {}
      PROVE  Faultless'
  <2>1. Faultless
    BY <1>2, <1>5 DEF CustomsInv
  <2>2. /\ AssignedFrom(sheetRows'["shipping"], assignments')
        /\ PackedFrom(sheetRows'["packing"], assignments', shipments', shipped', packed')
        /\ Counted(sheetRows'["details"], assignments', quantities') /\ Itemized(quantities')
        /\ \A o \in detailed' : o \in DOMAIN assignments' /\ assignments'[o] \in DOMAIN quantities'
    BY <1>1, <2>1 DEF Faultless
  <2>3. CASE sheet = "shipping" /\ sheet' = "packing"
    <3>1. sheetRows["packing"] = <<>> /\ sheetRows["details"] = <<>>
      BY <2>1, <2>3 DEF Faultless
    <3>2. CurrentIs(sheetRows'["packing"], order') /\ sheetRows'["details"] = <<>>
      BY <1>1, <3>1, NoRows
    <3> QED
      BY <2>2, <2>3, <3>2 DEF Faultless
  <2>4. CASE sheet = "packing" /\ sheet' = "details"
    <3>1. sheetRows["details"] = <<>>
      BY <2>1, <2>4 DEF Faultless
    <3>2. CurrentIs(sheetRows'["details"], order')
      BY <1>1, <3>1, NoRows
    <3> QED
      BY <2>2, <2>4, <3>2 DEF Faultless
  <2>5. CASE sheet = "details" /\ sheet' = "analyze"
    <3>1. Customs!Missing = {}
      BY <1>2, <1>5, <2>5
    <3>2. \A x : {x} # {}
      OBVIOUS
    <3>3. DOMAIN assignments' \subseteq packed' \cap detailed'
      BY <1>1, <3>1, <3>2 DEF Customs!Missing
    <3> QED
      BY <2>2, <2>5, <3>3 DEF Faultless
  <2> QED
    BY <1>2, <2>3, <2>4, <2>5
<1> QED
  BY <1>3, <1>4, <1>5 DEF CustomsInv

(* A file that cannot be read is a mistake.                                  *)
LEMMA UnreadableKept == CustomsInv /\ Customs!Unreadable => CustomsInv'
<1> SUFFICES ASSUME CustomsInv, Customs!Unreadable
             PROVE  CustomsInv'
  OBVIOUS
<1>1. /\ sheet \in Customs!Sheets /\ sheet' = "analyze" /\ sheetRows' = sheetRows /\ results' = results
      /\ \E fault \in Customs!FileFaults \cup Customs!SheetFaults : mistakes' = mistakes \cup {fault}
  BY DEF Customs!Unreadable
<1>2. mistakes' # {}
  BY <1>1
<1>3. CustomsTypes'
  BY <1>1 DEF CustomsInv, CustomsTypes
<1>4. results' = <<>>
  BY <1>1 DEF CustomsInv, Customs!Sheets
<1> QED
  BY <1>2, <1>3, <1>4 DEF CustomsInv

(* What is declared depends on what was read, not on how it is judged.       *)
LEMMA SameDeclaration ==
  ASSUME assignments' = assignments, shipments' = shipments, quantities' = quantities, NEW c
  PROVE  Customs!Declaration(c)' = Customs!Declaration(c)
<1>1. Customs!Orders(c)' = Customs!Orders(c)
  BY DEF Customs!Orders
<1>2. Customs!Items(c)' = Customs!Items(c)
  BY DEF Customs!Items
<1>3. Customs!Parts(c)' = Customs!Parts(c)
  BY <1>2 DEF Customs!Parts
<1>4. \A field : Customs!Sum(c, field)' = Customs!Sum(c, field)
  BY <1>1 DEF Customs!Sum
<1>5. \A k : Customs!Boxes(c, k)' = Customs!Boxes(c, k)
  BY <1>4 DEF Customs!Boxes
<1> QED
  BY <1>1, <1>2, <1>3, <1>4, <1>5 DEF Customs!Declaration

(* What was read is judged.                                                  *)
LEMMA AnalyzeKept == CustomsInv /\ Customs!Analyze => CustomsInv'
<1> SUFFICES ASSUME CustomsInv, Customs!Analyze
             PROVE  CustomsInv'
  OBVIOUS
<1>1. /\ sheet = "analyze" /\ sheet' = "done" /\ mistakes' = mistakes \cup Customs!Overfull
      /\ results' = IF mistakes' = {} THEN [c \in DOMAIN quantities |-> Customs!Declaration(c)] ELSE <<>>
      /\ sheetRows' = sheetRows /\ assignments' = assignments /\ order' = order /\ shipped' = shipped /\ packed' = packed
      /\ detailed' = detailed /\ shipments' = shipments /\ quantities' = quantities
  BY DEF Customs!Analyze
<1>2. CustomsTypes'
  BY <1>1 DEF CustomsInv, CustomsTypes
<1>3. ASSUME mistakes' = {}
      PROVE  Faultless'
  <2>1. Faultless
    BY <1>1, <1>3 DEF CustomsInv
  <2>2. /\ AssignedFrom(sheetRows'["shipping"], assignments')
        /\ PackedFrom(sheetRows'["packing"], assignments', shipments', shipped', packed')
        /\ Counted(sheetRows'["details"], assignments', quantities') /\ Itemized(quantities')
        /\ \A o \in detailed' : o \in DOMAIN assignments' /\ assignments'[o] \in DOMAIN quantities'
        /\ DOMAIN assignments' \subseteq packed' \cap detailed'
    BY <1>1, <2>1 DEF Faultless
  <2> QED
    BY <1>1, <2>2 DEF Faultless
<1>4. ASSUME results' # <<>>
      PROVE  mistakes' = {} /\ results' = [c \in DOMAIN quantities |-> Customs!Declaration(c)]'
  <2>1. mistakes' = {} /\ results' = [c \in DOMAIN quantities |-> Customs!Declaration(c)]
    BY <1>1, <1>4
  <2>2. \A c : Customs!Declaration(c)' = Customs!Declaration(c)
    BY <1>1, SameDeclaration
  <2> QED
    BY <1>1, <2>1, <2>2
<1> QED
  BY <1>1, <1>2, <1>3, <1>4 DEF CustomsInv

(* Nothing changes.                                                          *)
LEMMA CustomsStays == CustomsInv /\ UNCHANGED customsVars => CustomsInv'
<1> SUFFICES ASSUME CustomsInv, UNCHANGED customsVars
             PROVE  CustomsInv'
  OBVIOUS
<1>1. /\ sheet' = sheet /\ mistakes' = mistakes /\ results' = results
      /\ sheetRows' = sheetRows /\ assignments' = assignments /\ order' = order /\ shipped' = shipped /\ packed' = packed
      /\ detailed' = detailed /\ shipments' = shipments /\ quantities' = quantities
  BY DEF customsVars
<1>2. CustomsTypes'
  BY <1>1 DEF CustomsInv, CustomsTypes
<1>3. Faultless => Faultless'
  BY <1>1 DEF Faultless
<1>4. \A c : Customs!Declaration(c)' = Customs!Declaration(c)
  BY <1>1, SameDeclaration
<1>5. [c \in DOMAIN quantities |-> Customs!Declaration(c)]' = [c \in DOMAIN quantities |-> Customs!Declaration(c)]
  BY <1>1, <1>4
<1> QED
  BY <1>1, <1>2, <1>3, <1>5 DEF CustomsInv

(* At the start nothing was read.                                            *)
LEMMA CustomsBegins == Customs!Init => CustomsInv
<1> SUFFICES ASSUME Customs!Init
             PROVE  CustomsInv
  OBVIOUS
<1>1. /\ sheet = "shipping" /\ sheetRows = [s \in Customs!Sheets |-> <<>>]
      /\ assignments = <<>> /\ order = Customs!Nobody /\ shipped = {} /\ packed = {} /\ detailed = {}
      /\ shipments = <<>> /\ quantities = <<>> /\ mistakes = {} /\ results = <<>>
  BY DEF Customs!Init
<1>2. DOMAIN sheetRows = Customs!Sheets /\ sheetRows["shipping"] = <<>> /\ sheetRows["packing"] = <<>> /\ sheetRows["details"] = <<>>
  BY <1>1 DEF Customs!Sheets
<1>3. CustomsTypes
  BY <1>1, <1>2 DEF CustomsTypes, Customs!Sheets
<1>4. AssignedFrom(<<>>, <<>>)
  BY FS_EmptySet DEF AssignedFrom
<1>5. PackedFrom(<<>>, <<>>, <<>>, {}, {})
  BY DEF PackedFrom
<1>6. Counted(<<>>, <<>>, <<>>)
  <2>1. ASSUME NEW S, NEW s, S = {}
        PROVE  Total([i \in S |-> s[i].quantity]) = 0
    BY <2>1, TotalNone
  <2>2. \A c : RowsUnder(<<>>, <<>>, c) = {} /\ \A rule : RowsOfRule(<<>>, <<>>, c, rule) = {}
    BY DEF RowsUnder, RowsOfRule
  <2>3. \A c : WholeOf(<<>>, c) = 0 /\ \A rule : QuantityOf(<<>>, c, rule) = 0
    BY DEF WholeOf, QuantityOf
  <2> QED
    BY <2>1, <2>2, <2>3 DEF Counted
<1>7. Itemized(<<>>)
  BY DEF Itemized
<1>8. Faultless
  BY <1>1, <1>2, <1>4, <1>5, <1>6, <1>7 DEF Faultless
<1> QED
  BY <1>1, <1>3, <1>8 DEF CustomsInv

(* Every step of a customs declaration keeps the invariant.                  *)
LEMMA CustomsStep == CustomsInv /\ (Customs!Next \/ UNCHANGED customsVars) => CustomsInv'
BY ShippingKept, PackingKept, DetailKept, EndKept, UnreadableKept, AnalyzeKept, CustomsStays DEF Customs!Next

(* The module's sums, shares and counts are those of WeightShares.           *)
LEMMA CustomsSums ==
  /\ \A f : Customs!Total(f) = Total(f)
  /\ \A g : Customs!Net(g) = Net(g)
  /\ \A g, parts : Customs!Shares(g, parts) = Shares(g, parts)
  /\ \A g, parts, a, b : Customs!Split(g, parts, a, b) <=> Split(g, parts, a, b)
  /\ \A T : Customs!Cardinality(T) = Cardinality(T)
<1>1. \A f : Customs!Total(f) = Total(f)
  BY DEF Customs!Total, Customs!SumFunction, Customs!SumFunctionOnSet, Customs!FoldFunctionOnSet, Customs!MapThenFoldSet,
         Total, SumFunction, SumFunctionOnSet, FoldFunctionOnSet, MapThenFoldSet
<1>2. \A a, b : Customs!HalfUp(a, b) = HalfUp(a, b)
  BY DEF Customs!HalfUp, HalfUp
<1>3. \A g : Customs!Net(g) = Net(g)
  BY <1>2 DEF Customs!Net, Net
<1>4. \A g, parts : Customs!Rounded(g, parts) = Rounded(g, parts)
  BY <1>1, <1>2 DEF Customs!Rounded, Rounded
<1>5. \A g, parts : Customs!Shares(g, parts) = Shares(g, parts)
  BY <1>1, <1>4 DEF Customs!Shares, Shares
<1>6. \A g, parts, a, b : Customs!Split(g, parts, a, b) <=> Split(g, parts, a, b)
  BY <1>1, <1>3 DEF Customs!Split, Split
<1>7. \A T : Customs!Cardinality(T) = Cardinality(T)
  BY DEF Customs!Cardinality, Cardinality, Customs!IsFiniteSet, IsFiniteSet
<1> QED
  BY <1>1, <1>3, <1>5, <1>6, <1>7

(* The order a row belongs to.                                               *)
LEMMA CustomsOwner ==
  ASSUME NEW s, s = sheetRows["details"], s \in Seq(InvoiceRow), NEW i \in DOMAIN s, NEW o, o # Customs!Nobody
  PROVE  Customs!Owner(i) = o <=> OwnedBy(s, i, o)
<1> DEFINE H == {j \in 1 .. i : s[j].order # Customs!Nobody}
           m == Customs!Max(H)
<1>1. i \in Nat
  OBVIOUS
<1>2. m = CHOOSE x \in H : \A y \in H : x >= y
  BY DEF Customs!Max
<1>3. Customs!Owner(i) = IF H = {} THEN Customs!Nobody ELSE s[m].order
  BY DEF Customs!Owner
<1>4. \A j : j \in H <=> j \in 1 .. i /\ s[j].order # Customs!Nobody
  OBVIOUS
<1> HIDE DEF H, m
<1>5. H # {} => m \in H /\ \A y \in H : m >= y
  <2> SUFFICES ASSUME H # {}
               PROVE  m \in H /\ \A y \in H : m >= y
    OBVIOUS
  <2>1. H \in SUBSET (1 .. i)
    BY <1>4
  <2>2. PICK k \in H : \A l \in H : l <= k
    BY <1>1, <2>1, Greatest
  <2>3. \A l \in H : l \in Int
    BY <2>1
  <2>4. \A l \in H : k >= l
    BY <2>2, <2>3
  <2> QED
    BY <1>2, <2>4
<1>6. ASSUME H # {}, s[m].order = o
      PROVE  OwnedBy(s, i, o)
  <2>1. m \in 1 .. i /\ s[m].order = o /\ \A k \in (m + 1) .. i : ~(k \in H)
    BY <1>1, <1>4, <1>5, <1>6
  <2>2. \A k \in (m + 1) .. i : k \in 1 .. i
    BY <1>1, <2>1
  <2> QED
    BY <1>4, <2>1, <2>2 DEF OwnedBy
<1>7. ASSUME OwnedBy(s, i, o)
      PROVE  H # {} /\ s[m].order = o
  <2>1. PICK j \in 1 .. i : s[j].order = o /\ \A k \in (j + 1) .. i : s[k].order = Customs!Nobody
    BY <1>7 DEF OwnedBy
  <2>2. j \in H
    BY <1>4, <2>1
  <2>3. m \in H /\ m >= j /\ m \in 1 .. i
    BY <1>4, <1>5, <2>2
  <2>4. ~(m \in (j + 1) .. i)
    BY <1>4, <2>1, <2>3
  <2>5. m = j
    BY <1>1, <2>3, <2>4
  <2> QED
    BY <2>1, <2>2, <2>5
<1> QED
  BY <1>3, <1>6, <1>7

(* The positions that pass, by their place.                                  *)
LEMMA CustomsNth ==
  ASSUME NEW m \in Nat, NEW K \in SUBSET (1 .. m)
  PROVE  /\ Cardinality(K) \in Nat
         /\ \A k \in 1 .. Cardinality(K) : Customs!Nth(K, k) \in K
         /\ \A k, l \in 1 .. Cardinality(K) : Customs!Nth(K, k) = Customs!Nth(K, l) => k = l
         /\ \A i \in K : \E k \in 1 .. Cardinality(K) : Customs!Nth(K, k) = i
<1> DEFINE g == [i \in K |-> Cardinality({j \in K : j <= i})]
<1>1. \A i \in K : g[i] = Customs!Place(K, i)
  BY CustomsSums DEF Customs!Place
<1>2. g = [i \in K |-> Cardinality({j \in K : j <= i})]
  OBVIOUS
<1> HIDE DEF g
<1>3. Cardinality(K) \in Nat /\ \A i \in K : g[i] \in 1 .. Cardinality(K)
  BY <1>2, Places
<1>4. \A k \in 1 .. Cardinality(K) : \E i \in K : g[i] = k
  BY <1>2, Places
<1>5. \A i, j \in K : g[i] = g[j] => i = j
  <2> SUFFICES ASSUME NEW i \in K, NEW j \in K, g[i] = g[j]
               PROVE  i = j
    OBVIOUS
  <2> QED
    BY <1>2, Places
<1>6. \A k \in 1 .. Cardinality(K) : Customs!Nth(K, k) \in K /\ g[Customs!Nth(K, k)] = k
  BY <1>1, <1>4 DEF Customs!Nth
<1>7. ASSUME NEW i \in K
      PROVE  \E k \in 1 .. Cardinality(K) : Customs!Nth(K, k) = i
  <2>1. g[i] \in 1 .. Cardinality(K) /\ g[Customs!Nth(K, g[i])] = g[i] /\ Customs!Nth(K, g[i]) \in K
    BY <1>3, <1>6
  <2> QED
    BY <1>5, <2>1
<1> QED
  BY <1>3, <1>6, <1>7

(* The items of a category: each rule of W that the catalog has, once.       *)
LEMMA ItemsAre ==
  ASSUME NEW W, NEW it, it = Customs!Within(Rules, W)
  PROVE  /\ \E n \in Nat : DOMAIN it = 1 .. n /\ it \in Seq(STRING) /\ Len(it) = n
         /\ \A k \in DOMAIN it : it[k] \in W
         /\ \A k, l \in DOMAIN it : it[k] = it[l] => k = l
         /\ \A rule \in W : (\E k \in DOMAIN Rules : Rules[k] = rule) => \E k \in DOMAIN it : it[k] = rule
<1> DEFINE P == {i \in DOMAIN Rules : Rules[i] \in W}
           n == Cardinality(P)
           p(k) == Customs!Nth(P, k)
<1>1. Rules \in Seq(STRING) /\ Len(Rules) \in Nat /\ DOMAIN Rules = 1 .. Len(Rules) /\ \A k, l \in DOMAIN Rules : Rules[k] = Rules[l] => k = l
  BY CustomsAssumption
<1>2. P \in SUBSET (1 .. Len(Rules))
  BY <1>1
<1>3. it = [k \in 1 .. n |-> Rules[p(k)]]
  BY CustomsSums DEF Customs!Within, Customs!Picked
<1>6. \A i : i \in P <=> i \in DOMAIN Rules /\ Rules[i] \in W
  OBVIOUS
<1> HIDE DEF P
<1>8. n \in Nat /\ \A k \in 1 .. n : p(k) \in P
  BY <1>1, <1>2, CustomsNth
<1>9. \A k, l \in 1 .. n : p(k) = p(l) => k = l
  BY <1>1, <1>2, CustomsNth
<1>10. \A i \in P : \E k \in 1 .. n : p(k) = i
  BY <1>1, <1>2, CustomsNth
<1> HIDE DEF p
<1> HIDE DEF n
<1>11. DOMAIN it = 1 .. n /\ \A k \in 1 .. n : it[k] = Rules[p(k)] /\ it[k] \in W /\ p(k) \in DOMAIN Rules /\ it[k] \in STRING
  BY <1>1, <1>3, <1>6, <1>8
<1>12. it \in Seq(STRING) /\ Len(it) = n
  BY <1>3, <1>8, <1>11
<1>13. \A k, l \in DOMAIN it : it[k] = it[l] => k = l
  <2> SUFFICES ASSUME NEW k \in 1 .. n, NEW l \in 1 .. n, it[k] = it[l]
               PROVE  k = l
    BY <1>11
  <2>1. p(k) = p(l)
    BY <1>1, <1>11
  <2> QED
    BY <1>9, <2>1
<1>14. \A rule \in W : (\E k \in DOMAIN Rules : Rules[k] = rule) => \E k \in DOMAIN it : it[k] = rule
  BY <1>6, <1>10, <1>11
<1> QED
  BY <1>8, <1>11, <1>12, <1>13, <1>14

(* When what was read is declared.                                           *)
Declarable == Faultless /\ DOMAIN assignments \subseteq packed \cap detailed
              /\ sheetRows["packing"] \in Seq(PackingRow) /\ sheetRows["details"] \in Seq(InvoiceRow)

(* Each order of a category has been packed, and its boxes are its row's.    *)
LEMMA OrdersPacked ==
  ASSUME Declarable, NEW c, NEW o \in Customs!Orders(c)
  PROVE  /\ o \in DOMAIN shipments /\ o # Customs!Nobody /\ shipments[o].boxes \in Nat /\ shipments[o].weight \in Nat
         /\ Customs!PackedBoxes(o) = shipments[o].boxes
<1> DEFINE s == sheetRows["packing"]
           I == {j \in DOMAIN s : s[j].order = o}
           f == [i \in I |-> s[i].boxes]
<1>1. o \in DOMAIN assignments /\ o \in packed
  BY DEF Customs!Orders, Declarable
<1>2. PackedFrom(s, assignments, shipments, shipped, packed) /\ Customs!Nobody \notin DOMAIN assignments
  BY DEF Declarable, Faultless, AssignedFrom
<1>3. PICK i \in DOMAIN s : s[i].order = o
  BY <1>1, <1>2 DEF PackedFrom
<1>4. o # Customs!Nobody /\ o \in DOMAIN shipments /\ shipments[o].boxes = s[i].boxes /\ shipments[o].boxes \in Nat /\ shipments[o].weight \in Nat
  BY <1>1, <1>2, <1>3 DEF PackedFrom
<1>5. \A j \in DOMAIN s : s[j].order = o => j = i
  BY <1>2, <1>3, <1>4 DEF PackedFrom
<1>6. DOMAIN f = {i} /\ f[i] = s[i].boxes
  BY <1>3, <1>5
<1>7. Customs!PackedBoxes(o) = Total(f)
  BY CustomsSums DEF Customs!PackedBoxes
<1> HIDE DEF f, s
<1>8. IsFiniteSet(DOMAIN f) /\ i \in DOMAIN f /\ (\A y \in DOMAIN f : y # i => f[y] = 0) /\ f[i] \in Int
  <2>1. IsFiniteSet({i})
    BY FS_Singleton
  <2>2. f[i] \in Nat
    BY <1>4, <1>6
  <2> QED
    BY <1>6, <2>1, <2>2
<1>9. Total(f) = f[i]
  BY <1>8, TotalOnly
<1> QED
  BY <1>4, <1>6, <1>7, <1>9

(* The orders of a category are finitely many, and sum up to numbers.        *)
LEMMA OrdersSum ==
  ASSUME Declarable, NEW c
  PROVE  /\ Customs!Sum(c, "weight") \in Nat /\ Customs!Sum(c, "boxes") \in Nat
         /\ Customs!Sum(c, "boxes") = Total([o \in Customs!Orders(c) |-> Customs!PackedBoxes(o)])
<1> DEFINE O == Customs!Orders(c)
           b == [o \in O |-> shipments[o].boxes]
           w == [o \in O |-> shipments[o].weight]
           p == [o \in O |-> Customs!PackedBoxes(o)]
<1>1. IsFiniteSet(O)
  <2>1. IsFiniteSet(DOMAIN assignments)
    BY DEF Declarable, Faultless, AssignedFrom
  <2>2. O \in SUBSET (DOMAIN assignments)
    BY DEF Customs!Orders
  <2> QED
    BY <2>1, <2>2, FS_Subset
<1>2. \A o \in O : o \in DOMAIN shipments /\ shipments[o].boxes \in Nat /\ shipments[o].weight \in Nat /\ Customs!PackedBoxes(o) = shipments[o].boxes
  BY OrdersPacked
<1> HIDE DEF O
<1>3. O \cap DOMAIN shipments = O
  BY <1>2
<1>4. Customs!Sum(c, "boxes") = Total(b) /\ Customs!Sum(c, "weight") = Total(w)
  BY <1>3, CustomsSums DEF Customs!Sum, O
<1>5. Total(b) \in Nat
  <2>1. IsFiniteSet(DOMAIN b) /\ \A o \in DOMAIN b : b[o] \in Nat
    BY <1>1, <1>2
  <2> QED
    BY <2>1, TotalBounds
<1>6. Total(w) \in Nat
  <2>1. IsFiniteSet(DOMAIN w) /\ \A o \in DOMAIN w : w[o] \in Nat
    BY <1>1, <1>2
  <2> QED
    BY <2>1, TotalBounds
<1>7. b = p
  BY <1>2
<1> QED
  BY <1>4, <1>5, <1>6, <1>7 DEF O

(* The items of a category with quantities.                                  *)
LEMMA ItemsDeclared ==
  ASSUME Declarable, NEW c \in DOMAIN quantities, NEW it, it = Customs!Items(c)
  PROVE  /\ \E n \in Nat \ {0} : DOMAIN it = 1 .. n /\ it \in Seq(STRING) /\ Len(it) = n
         /\ \A k, l \in DOMAIN it : it[k] = it[l] => k = l
         /\ \A k \in DOMAIN it : it[k] \in DOMAIN quantities[c]
         /\ \A rule \in DOMAIN quantities[c] : \E k \in DOMAIN it : it[k] = rule
         /\ \A k \in DOMAIN it : quantities[c][it[k]] \in Nat \ {0} /\ UnitWeight[it[k]] \in Nat \ {0}
<1> DEFINE W == DOMAIN quantities[c]
<1>1. it = Customs!Within(Rules, W)
  BY DEF Customs!Items
<1>2. W # {} /\ \A rule \in W : /\ quantities[c][rule] \in Nat \ {0} /\ UnitWeight[rule] > 0
                               /\ \E k \in DOMAIN Rules : Rules[k] = rule
  BY DEF Declarable, Faultless, Itemized
<1> HIDE DEF W
<1>3. /\ \E n \in Nat : DOMAIN it = 1 .. n /\ it \in Seq(STRING) /\ Len(it) = n
      /\ \A k \in DOMAIN it : it[k] \in W
  BY <1>1, ItemsAre
<1>4. \A k, l \in DOMAIN it : it[k] = it[l] => k = l
  <2> SUFFICES ASSUME NEW k \in DOMAIN it, NEW l \in DOMAIN it, it[k] = it[l]
               PROVE  k = l
    OBVIOUS
  <2> QED
    BY <1>1, ItemsAre
<1>5. \A rule \in W : \E k \in DOMAIN it : it[k] = rule
  BY <1>1, <1>2, ItemsAre
<1>7. PICK n \in Nat : DOMAIN it = 1 .. n /\ it \in Seq(STRING) /\ Len(it) = n
  BY <1>3
<1>8. n # 0
  BY <1>2, <1>5, <1>7
<1>9. \A rule \in W : UnitWeight[rule] \in Nat \ {0}
  <2> SUFFICES ASSUME NEW rule \in W
               PROVE  UnitWeight[rule] \in Nat \ {0}
    OBVIOUS
  <2>1. UnitWeight[rule] \in Nat
    BY <1>2, CustomsAssumption
  <2> QED
    BY <1>2, <2>1
<1> QED
  BY <1>2, <1>3, <1>4, <1>5, <1>7, <1>8, <1>9 DEF W

(* The rows under a category, and those of one of its rules.                 *)
LEMMA RowsDeclaredUnder ==
  ASSUME Declarable, NEW c, NEW s, s = sheetRows["details"]
  PROVE  /\ {i \in DOMAIN s : Customs!Owner(i) \in Customs!Orders(c)} = RowsUnder(s, assignments, c)
         /\ \A I : Customs!Quantity(I) = Total([i \in I |-> s[i].quantity])
<1>1. \A o \in Customs!Orders(c) : o # Customs!Nobody
  BY DEF Declarable, Faultless, AssignedFrom, Customs!Orders
<1>2. s \in Seq(InvoiceRow)
  BY DEF Declarable
<1>3. ASSUME NEW i \in DOMAIN s
      PROVE  Customs!Owner(i) \in Customs!Orders(c) <=> \E o \in DOMAIN assignments : assignments[o] = c /\ OwnedBy(s, i, o)
  <2>1. \A o \in Customs!Orders(c) : Customs!Owner(i) = o <=> OwnedBy(s, i, o)
    <3> SUFFICES ASSUME NEW o \in Customs!Orders(c)
                 PROVE  Customs!Owner(i) = o <=> OwnedBy(s, i, o)
      OBVIOUS
    <3> QED
      BY <1>1, <1>2, CustomsOwner
  <2> QED
    BY <2>1 DEF Customs!Orders
<1>4. \A I : Customs!Quantity(I) = Total([i \in I |-> s[i].quantity])
  BY CustomsSums DEF Customs!Quantity
<1> QED
  BY <1>3, <1>4 DEF RowsUnder

(* What a declaration says of its items.                                     *)
LEMMA DeclaredItems ==
  ASSUME Declarable, NEW c \in DOMAIN quantities, NEW D, D = Customs!Declaration(c), NEW it, it = Customs!Items(c)
  PROVE  /\ D.orders = Customs!Orders(c) /\ D.weight = Customs!Sum(c, "weight")
         /\ DOMAIN D.blocks = DOMAIN it
         /\ \A k \in DOMAIN it : /\ D.blocks[k].item = it[k] /\ D.blocks[k].quantity = quantities[c][it[k]]
                                 /\ D.blocks[k].boxes = IF k = 1 THEN Customs!Sum(c, "boxes") ELSE 0
                                 /\ D.blocks[k].gross = Shares(Customs!Sum(c, "weight"), Customs!Parts(c))[k]
                                 /\ D.blocks[k].net = Shares(Net(Customs!Sum(c, "weight")), Customs!Parts(c))[k]
BY CustomsSums DEF Customs!Declaration, Customs!Boxes

(* The boxes of a declaration are those of its orders, and its quantities    *)
(* those of the rows under them.                                             *)
LEMMA DeclaredColumns ==
  ASSUME Declarable, NEW c \in DOMAIN quantities, c \in DOMAIN results, results[c] = Customs!Declaration(c)
  PROVE  LET its == {i \in DOMAIN sheetRows["details"] : Customs!Owner(i) \in results[c].orders} IN
         /\ Customs!Total(Customs!Column(c, "boxes")) = Customs!Total([o \in results[c].orders |-> Customs!PackedBoxes(o)])
         /\ Customs!Total(Customs!Column(c, "quantity")) = Customs!Quantity(its)
         /\ \A k \in DOMAIN results[c].blocks :
              Customs!Column(c, "quantity")[k]
                = Customs!Quantity({i \in its : sheetRows["details"][i].product = Customs!Column(c, "item")[k]})
<1> DEFINE its == {i \in DOMAIN sheetRows["details"] : Customs!Owner(i) \in results[c].orders}
           s == sheetRows["details"]
           it == Customs!Items(c)
           D == results[c]
           q == quantities[c]
           b == Customs!Column(c, "boxes")
           u == Customs!Column(c, "quantity")
           e == Customs!Column(c, "item")
           boxes == Customs!Sum(c, "boxes")
<1>1. /\ D.orders = Customs!Orders(c) /\ DOMAIN D.blocks = DOMAIN it
      /\ \A k \in DOMAIN it : D.blocks[k].item = it[k] /\ D.blocks[k].quantity = q[it[k]] /\ D.blocks[k].boxes = IF k = 1 THEN boxes ELSE 0
  BY DeclaredItems
<1>2. /\ DOMAIN b = DOMAIN D.blocks /\ \A k \in DOMAIN D.blocks : b[k] = D.blocks[k].boxes
      /\ DOMAIN u = DOMAIN D.blocks /\ \A k \in DOMAIN D.blocks : u[k] = D.blocks[k].quantity
      /\ DOMAIN e = DOMAIN D.blocks /\ \A k \in DOMAIN D.blocks : e[k] = D.blocks[k].item
  BY DEF Customs!Column
<1>3. /\ \E n \in Nat \ {0} : DOMAIN it = 1 .. n
      /\ {it[k] : k \in DOMAIN it} = DOMAIN q
      /\ \A k \in DOMAIN it : q[it[k]] \in Nat \ {0}
  <2>1. \E n \in Nat \ {0} : DOMAIN it = 1 .. n
    BY ItemsDeclared
  <2>2. {it[k] : k \in DOMAIN it} = DOMAIN q
    <3>1. \A k \in DOMAIN it : it[k] \in DOMAIN q
      BY ItemsDeclared
    <3>2. \A rule \in DOMAIN q : \E k \in DOMAIN it : it[k] = rule
      BY ItemsDeclared
    <3> QED
      BY <3>1, <3>2
  <2>3. \A k \in DOMAIN it : q[it[k]] \in Nat \ {0}
    BY ItemsDeclared
  <2> QED
    BY <2>1, <2>2, <2>3
<1>4. \A k, l \in DOMAIN it : it[k] = it[l] => k = l
  <2> SUFFICES ASSUME NEW k \in DOMAIN it, NEW l \in DOMAIN it, it[k] = it[l]
               PROVE  k = l
    OBVIOUS
  <2> QED
    BY ItemsDeclared
<1>5. boxes \in Nat /\ boxes = Total([o \in D.orders |-> Customs!PackedBoxes(o)])
  BY <1>1, OrdersSum
<1>6. its = RowsUnder(s, assignments, c) /\ \A I : Customs!Quantity(I) = Total([i \in I |-> s[i].quantity])
  BY <1>1, RowsDeclaredUnder
<1>7. \A rule : {i \in its : s[i].product = rule} = RowsOfRule(s, assignments, c, rule)
  BY <1>6 DEF RowsOfRule
<1>8. Counted(s, assignments, quantities)
  BY DEF Declarable, Faultless
<1> HIDE DEF its, s, it, D, q, b, u, e, boxes
<1>9. Total(b) = boxes
  <2>1. PICK n \in Nat \ {0} : DOMAIN it = 1 .. n
    BY <1>3
  <2>2. IsFiniteSet(1 .. n) /\ 1 \in 1 .. n
    BY FS_Interval
  <2>3. DOMAIN b = 1 .. n /\ \A k \in 1 .. n : b[k] = IF k = 1 THEN boxes ELSE 0
    BY <1>1, <1>2, <2>1
  <2>4. IsFiniteSet(DOMAIN b) /\ 1 \in DOMAIN b /\ (\A y \in DOMAIN b : y # 1 => b[y] = 0) /\ b[1] \in Int /\ b[1] = boxes
    BY <1>5, <2>2, <2>3
  <2>5. Total(b) = b[1]
    BY <2>4, TotalOnly
  <2> QED
    BY <2>4, <2>5
<1>10. Total(u) = Total(q)
  <2>1. PICK n \in Nat \ {0} : DOMAIN it = 1 .. n
    BY <1>3
  <2>2. IsFiniteSet(DOMAIN it)
    BY <2>1, FS_Interval
  <2>3. IsFiniteSet(DOMAIN q)
    BY DEF Declarable, Faultless, Itemized, q
  <2>4. IsFiniteSet({it[k] : k \in DOMAIN it})
    BY <1>3, <2>3
  <2>5. \A k \in DOMAIN it : q[it[k]] \in Int
    BY <1>3
  <2>6. DOMAIN u = DOMAIN it /\ \A k \in DOMAIN it : u[k] = q[it[k]]
    BY <1>1, <1>2
  <2>7. Sum(u, DOMAIN it) = Sum(q, {it[k] : k \in DOMAIN it})
    BY <1>4, <2>2, <2>4, <2>5, <2>6, SumMapped
  <2> QED
    BY <1>3, <2>6, <2>7, TotalIs
<1>11. Total(q) = Customs!Quantity(its)
  <2>1. Total(q) = WholeOf(quantities, c)
    BY DEF WholeOf, q
  <2>2. WholeOf(quantities, c) = Total([i \in RowsUnder(s, assignments, c) |-> s[i].quantity])
    BY <1>8 DEF Counted
  <2> QED
    BY <1>6, <2>1, <2>2
<1>12. ASSUME NEW k \in DOMAIN D.blocks
       PROVE  u[k] = Customs!Quantity({i \in its : s[i].product = e[k]})
  <2>1. u[k] = q[it[k]] /\ e[k] = it[k] /\ k \in DOMAIN it
    BY <1>1, <1>2
  <2>2. it[k] \in DOMAIN q
    BY <1>3, <2>1
  <2>3. q[it[k]] = QuantityOf(quantities, c, it[k])
    BY <2>2 DEF QuantityOf, q
  <2>4. QuantityOf(quantities, c, it[k]) = Total([i \in RowsOfRule(s, assignments, c, it[k]) |-> s[i].quantity])
    BY <1>8 DEF Counted
  <2>5. {i \in its : s[i].product = e[k]} = RowsOfRule(s, assignments, c, it[k])
    BY <1>7, <2>1
  <2> QED
    BY <1>6, <2>1, <2>3, <2>4, <2>5
<1>13. Customs!Total(b) = Customs!Total([o \in D.orders |-> Customs!PackedBoxes(o)]) /\ Customs!Total(u) = Customs!Quantity(its)
  BY <1>5, <1>9, <1>10, <1>11, CustomsSums
<1> QED
  BY <1>12, <1>13 DEF its, s, D, b, u, e

(* The weight of a declaration is split over its items.                      *)
LEMMA DeclaredWeights ==
  ASSUME Declarable, NEW c \in DOMAIN quantities, c \in DOMAIN results, results[c] = Customs!Declaration(c)
  PROVE  Customs!Split(results[c].weight, Customs!Parts(c), Customs!Column(c, "gross"), Customs!Column(c, "net"))
<1> DEFINE it == Customs!Items(c)
           D == results[c]
           w == Customs!Sum(c, "weight")
           p == Customs!Parts(c)
           g == Customs!Column(c, "gross")
           t == Customs!Column(c, "net")
<1>1. /\ D.weight = w /\ DOMAIN D.blocks = DOMAIN it
      /\ \A k \in DOMAIN it : D.blocks[k].gross = Shares(w, p)[k] /\ D.blocks[k].net = Shares(Net(w), p)[k]
  BY DeclaredItems
<1>2. g = [k \in DOMAIN D.blocks |-> D.blocks[k].gross] /\ t = [k \in DOMAIN D.blocks |-> D.blocks[k].net]
  BY DEF Customs!Column
<1>3. /\ \E n \in Nat \ {0} : DOMAIN it = 1 .. n
      /\ \A k \in DOMAIN it : quantities[c][it[k]] \in Nat \ {0} /\ UnitWeight[it[k]] \in Nat \ {0}
  BY ItemsDeclared
<1>4. p = [k \in DOMAIN it |-> quantities[c][it[k]] * UnitWeight[it[k]]]
  BY DEF Customs!Parts
<1>5. w \in Nat
  BY OrdersSum
<1> HIDE DEF it, D, w, p, g, t
<1>6. PICK n \in Nat \ {0} : DOMAIN it = 1 .. n
  BY <1>3
<1>7. \A k \in 1 .. n : p[k] \in Nat \ {0}
  <2>1. \A a, b \in Nat \ {0} : a * b \in Nat \ {0}
    OBVIOUS
  <2> QED
    BY <1>3, <1>4, <1>6, <2>1
<1>8. p \in Seq(Nat) /\ p # <<>> /\ DOMAIN p = 1 .. n
  <2>1. DOMAIN p = 1 .. n /\ \A k \in 1 .. n : p[k] \in Nat
    BY <1>4, <1>6, <1>7
  <2>2. p = [k \in 1 .. n |-> p[k]]
    BY <1>4, <1>6
  <2>3. p \in [1 .. n -> Nat]
    BY <2>1, <2>2
  <2>4. p \in Seq(Nat)
    BY <2>3
  <2>5. 1 \in DOMAIN p
    BY <2>1
  <2>6. DOMAIN <<>> = {}
    OBVIOUS
  <2> QED
    BY <2>1, <2>4, <2>5, <2>6
<1>9. Total(p) # 0
  <2>1. IsFiniteSet(DOMAIN p)
    BY <1>8, FS_Interval
  <2>2. \A y \in DOMAIN p : p[y] \in Nat
    BY <1>7, <1>8
  <2>3. Total(p) \in Nat /\ \A y \in DOMAIN p : p[y] <= Total(p)
    BY <2>1, <2>2, TotalBounds
  <2>4. 1 \in DOMAIN p /\ p[1] \in Nat \ {0}
    BY <1>7, <1>8
  <2> QED
    BY <2>3, <2>4
<1>10. Split(w, p, Shares(w, p), Shares(Net(w), p))
  BY <1>5, <1>8, <1>9, WeightsAreSplit
<1>11. g = Shares(w, p) /\ t = Shares(Net(w), p)
  <2>1. /\ Shares(w, p) = [k \in DOMAIN p |-> Shares(w, p)[k]]
        /\ Shares(Net(w), p) = [k \in DOMAIN p |-> Shares(Net(w), p)[k]]
    BY DEF Shares
  <2>2. DOMAIN D.blocks = DOMAIN p
    BY <1>1, <1>6, <1>8
  <2> QED
    BY <1>1, <1>2, <2>1, <2>2
<1>12. Split(D.weight, p, g, t)
  BY <1>1, <1>10, <1>11
<1> QED
  BY <1>12, CustomsSums DEF D, p, g, t

(* The invariant says that nothing is lost in a declaration.                 *)
LEMMA CustomsDeclared == CustomsInv => Customs!DeclarationSound
<1> SUFFICES ASSUME CustomsInv
             PROVE  Customs!DeclarationSound
  OBVIOUS
<1>1. CASE results = <<>>
  BY <1>1 DEF Customs!DeclarationSound, Customs!OrdersDeclared, Customs!WeightsSplit
<1>2. CASE results # <<>>
  <2>1. Faultless /\ sheet = "done" /\ results = [c \in DOMAIN quantities |-> Customs!Declaration(c)]
    BY <1>2 DEF CustomsInv
  <2>2. Declarable
    BY <2>1 DEF Declarable, Faultless, CustomsInv, CustomsTypes
  <2>3. DOMAIN results = DOMAIN quantities /\ \A c \in DOMAIN results : results[c] = Customs!Declaration(c)
    BY <2>1
  <2>4. \A c \in DOMAIN results : results[c].orders = Customs!Orders(c)
    BY <2>2, <2>3, DeclaredItems
  <2>5. ASSUME NEW i \in DOMAIN sheetRows["shipping"], sheetRows["shipping"][i].order # Customs!Nobody
        PROVE  Customs!Cardinality({c \in DOMAIN results : sheetRows["shipping"][i].order \in results[c].orders}) = 1
    <3> DEFINE o == sheetRows["shipping"][i].order
    <3>1. o \in DOMAIN assignments /\ o \in detailed
      BY <2>2, <2>5 DEF Declarable, Faultless, AssignedFrom
    <3>2. assignments[o] \in DOMAIN results
      BY <2>2, <2>3, <3>1 DEF Declarable, Faultless
    <3>3. \A c \in DOMAIN results : o \in results[c].orders <=> c = assignments[o]
      BY <2>4, <3>1 DEF Customs!Orders
    <3> HIDE DEF o
    <3>4. {c \in DOMAIN results : o \in results[c].orders} = {assignments[o]}
      BY <3>2, <3>3
    <3>5. Cardinality({assignments[o]}) = 1
      BY FS_Singleton
    <3>6. Customs!Cardinality({c \in DOMAIN results : o \in results[c].orders}) = 1
      BY <3>4, <3>5, CustomsSums
    <3> QED
      BY <3>6 DEF o
  <2>6. Customs!OrdersDeclared
    <3>1. ASSUME NEW c \in DOMAIN results
          PROVE  LET its == {i \in DOMAIN sheetRows["details"] : Customs!Owner(i) \in results[c].orders} IN
                 /\ Customs!Total(Customs!Column(c, "boxes")) = Customs!Total([o \in results[c].orders |-> Customs!PackedBoxes(o)])
                 /\ Customs!Total(Customs!Column(c, "quantity")) = Customs!Quantity(its)
                 /\ \A k \in DOMAIN results[c].blocks :
                      Customs!Column(c, "quantity")[k]
                        = Customs!Quantity({i \in its : sheetRows["details"][i].product = Customs!Column(c, "item")[k]})
      BY <2>2, <2>3, DeclaredColumns
    <3> QED
      BY <2>5, <3>1 DEF Customs!OrdersDeclared
  <2>7. Customs!WeightsSplit
    <3> SUFFICES ASSUME NEW c \in DOMAIN results
                 PROVE  Customs!Split(results[c].weight, Customs!Parts(c), Customs!Column(c, "gross"), Customs!Column(c, "net"))
      BY DEF Customs!WeightsSplit
    <3> QED
      BY <2>2, <2>3, DeclaredWeights
  <2> QED
    BY <2>6, <2>7 DEF Customs!DeclarationSound
<1> QED
  BY <1>1, <1>2

(* Nothing of the three sheets is lost in a declaration: every order is in   *)
(* one of them, its boxes once, its rows in the quantities, and the weight   *)
(* is split over the items without loss.                                     *)
THEOREM DeclarationIsSound == Work => []DeclarationSound
<1>1. InitWork => CustomsInv
  BY CustomsBegins DEF InitWork
<1>2. CustomsInv /\ [NextWork]_workVars => CustomsInv'
  <2> SUFFICES ASSUME CustomsInv, [NextWork]_workVars
               PROVE  CustomsInv'
    OBVIOUS
  <2>1. Customs!Next \/ UNCHANGED customsVars
    BY DEF NextWork, workVars
  <2> QED
    BY <2>1, CustomsStep
<1>3. CustomsInv => DeclarationSound
  BY CustomsDeclared DEF DeclarationSound
<1> QED
  BY <1>1, <1>2, <1>3, PTL DEF Work

-----------------------------------------------------------------------------
(***************************************************************************)
(* European declarations: the files hold every row of the sheet.           *)
(***************************************************************************)

Shipments == [category : STRING \X STRING \X STRING, boxes : Nat, gross : Nat,
              items : Seq([rule : STRING, price : Nat, quantity : Nat, weight : Nat])]
CategoryOf(row) == <<row.channel, row.prefix, row.country>>
KeyOf(row) == <<row.product, row.price>>

(* The rows s of a sheet: the i-th belongs to the last heading above it.     *)
RowOf(s, i, c) ==
    \E j \in 1 .. i : s[j].fba # European!Missing /\ c = CategoryOf(s[j]) /\ \A k \in (j + 1) .. i : s[k].fba = European!Missing
HeadsIn(s, c) == {i \in DOMAIN s : s[i].fba # European!Missing /\ RowOf(s, i, c)}
RowsIn(s, c, key) == {i \in DOMAIN s : RowOf(s, i, c) /\ KeyOf(s[i]) = key}
NamedIn(s, c) == {i \in DOMAIN s : RowOf(s, i, c) /\ s[i].product # European!Missing}

(* The shipments o of a sheet, and the places of their products.             *)
OfIn(o, c) == {i \in DOMAIN o : o[i].category = c}
PlacesIn(o, c) == {p \in Nat \X Nat : p[1] \in OfIn(o, c) /\ p[2] \in DOMAIN o[p[1]].items}
KeyIn(o, p) == <<o[p[1]].items[p[2]].rule, o[p[1]].items[p[2]].price>>
KeyedIn(o, c, key) == {p \in PlacesIn(o, c) : KeyIn(o, p) = key}

(* What is declared of the shipments is what the rows say.                   *)
SameBoxes(s, o) == \A c : Total([i \in OfIn(o, c) |-> o[i].boxes]) = Total([i \in HeadsIn(s, c) |-> s[i].boxes])
SameKeys(s, o) == \A c : {KeyIn(o, p) : p \in PlacesIn(o, c)} = {KeyOf(s[i]) : i \in NamedIn(s, c)}
SameQuantities(s, o) ==
    \A c, key : key[1] # European!Missing =>
        Total([p \in KeyedIn(o, c, key) |-> o[p[1]].items[p[2]].quantity]) = Total([i \in RowsIn(s, c, key) |-> s[i].quantity])
Placed(s, o) ==
    /\ \A i \in DOMAIN s : s[i].fba # European!Missing \/ s[i].product # European!Missing => \E k \in DOMAIN o : RowOf(s, i, o[k].category)
    /\ o # <<>> => RowOf(s, Len(s), o[Len(o)].category)
    /\ o = <<>> => \A c : ~RowOf(s, Len(s), c)
Weighty(o) ==
    \A k \in DOMAIN o : /\ o[k].gross > 0
                        /\ \A m \in DOMAIN o[k].items : o[k].items[m].weight > 0 /\ o[k].items[m].rule # European!Missing
FinitePlaces(o) == \A c : IsFiniteSet(PlacesIn(o, c))
Faithful(s, o) == FinitePlaces(o) /\ SameBoxes(s, o) /\ SameKeys(s, o) /\ SameQuantities(s, o) /\ Placed(s, o) /\ Weighty(o)

(* The inductive invariant.                                                  *)
EuropeanInv ==
    /\ read \in Seq(EuropeanRow)
    /\ errors = {} => opened \in Seq(Shipments) /\ current = Len(opened) /\ Faithful(read, opened)
    /\ files # <<>> => /\ errors = {} /\ ~reading /\ files = [c \in European!Categories |-> European!File(c)]
                       /\ \A k \in DOMAIN opened : opened[k].items # <<>>

(* One row more, in the rows and in the shipments.                           *)
Started(o, row) == IF row.fba # European!Missing THEN Append(o, European!Shipment(row)) ELSE o
Filled(o, row) == [o EXCEPT ![Len(o)].items = Append(@, European!Item(row))]

(* The rows above keep their heading when a row is read.                     *)
LEMMA RowsAbove ==
  ASSUME NEW s \in Seq(EuropeanRow), NEW row \in EuropeanRow
  PROVE  /\ \A i \in 1 .. Len(s) : \A c : RowOf(Append(s, row), i, c) <=> RowOf(s, i, c)
         /\ \A c : RowOf(Append(s, row), Len(s) + 1, c) <=> IF row.fba # European!Missing THEN c = CategoryOf(row) ELSE RowOf(s, Len(s), c)
<1> DEFINE t == Append(s, row)
           n == Len(s)
<1>1. /\ t \in Seq(EuropeanRow) /\ Len(t) = n + 1 /\ n \in Nat /\ DOMAIN s = 1 .. n /\ DOMAIN t = 1 .. (n + 1)
      /\ t[n + 1] = row /\ \A i \in 1 .. n : t[i] = s[i]
  OBVIOUS
<1> HIDE DEF t, n
<1>2. ASSUME NEW i \in 1 .. n, NEW c
      PROVE  RowOf(t, i, c) <=> RowOf(s, i, c)
  <2>1. \A j \in 1 .. i : t[j] = s[j] /\ \A k \in (j + 1) .. i : t[k] = s[k]
    BY <1>1
  <2> QED
    BY <2>1 DEF RowOf
<1>3. ASSUME NEW c
      PROVE  RowOf(t, n + 1, c) <=> IF row.fba # European!Missing THEN c = CategoryOf(row) ELSE RowOf(s, n, c)
  <2>1. CASE row.fba # European!Missing
    <3>1. ASSUME NEW j \in 1 .. (n + 1), \A k \in (j + 1) .. (n + 1) : t[k].fba = European!Missing
          PROVE  j = n + 1
      <4>1. ~(n + 1 \in (j + 1) .. (n + 1))
        BY <1>1, <2>1, <3>1
      <4> QED
        BY <1>1, <4>1
    <3>2. n + 1 \in 1 .. (n + 1) /\ \A k \in (n + 2) .. (n + 1) : FALSE
      BY <1>1
    <3>3. (n + 1) + 1 = n + 2
      BY <1>1
    <3>4. RowOf(t, n + 1, c) => c = CategoryOf(row)
      BY <1>1, <3>1 DEF RowOf
    <3>5. c = CategoryOf(row) => RowOf(t, n + 1, c)
      BY <1>1, <2>1, <3>2, <3>3 DEF RowOf
    <3> QED
      BY <2>1, <3>4, <3>5
  <2>2. CASE row.fba = European!Missing
    <3>1. ASSUME NEW j \in 1 .. (n + 1), t[j].fba # European!Missing
          PROVE  /\ j \in 1 .. n /\ t[j] = s[j]
                 /\ (\A k \in (j + 1) .. (n + 1) : t[k].fba = European!Missing) <=> (\A k \in (j + 1) .. n : s[k].fba = European!Missing)
      <4>0. n \in Nat /\ (j = n + 1 => t[j] = row)
        BY <1>1
      <4>1. j \in 1 .. n
        BY <2>2, <3>1, <4>0
      <4>2. (j + 1) .. (n + 1) = ((j + 1) .. n) \cup {n + 1} /\ \A k \in (j + 1) .. n : k \in 1 .. n
        BY <1>1, <4>1
      <4> QED
        BY <1>1, <2>2, <4>1, <4>2
    <3>2. RowOf(t, n + 1, c) => RowOf(s, n, c)
      BY <3>1 DEF RowOf
    <3>3. RowOf(s, n, c) => RowOf(t, n + 1, c)
      <4> SUFFICES ASSUME NEW j \in 1 .. n, s[j].fba # European!Missing, c = CategoryOf(s[j]), \A k \in (j + 1) .. n : s[k].fba = European!Missing
                   PROVE  RowOf(t, n + 1, c)
        BY DEF RowOf
      <4>0. n \in Nat /\ t[j] = s[j]
        BY <1>1
      <4>1. j \in 1 .. (n + 1) /\ t[j] = s[j]
        BY <4>0
      <4>2. \A k \in (j + 1) .. (n + 1) : t[k].fba = European!Missing
        BY <3>1, <4>1
      <4> QED
        BY <4>1, <4>2 DEF RowOf
    <3> QED
      BY <2>2, <3>2, <3>3
  <2> QED
    BY <2>1, <2>2
<1> QED
  BY <1>2, <1>3 DEF t, n

(* A row belongs to one category.                                            *)
LEMMA RowOnce ==
  ASSUME NEW s \in Seq(EuropeanRow), NEW i \in Nat, NEW c, NEW d, RowOf(s, i, c), RowOf(s, i, d)
  PROVE  c = d
<1>1. PICK j \in 1 .. i : s[j].fba # European!Missing /\ c = CategoryOf(s[j]) /\ \A k \in (j + 1) .. i : s[k].fba = European!Missing
  BY DEF RowOf
<1>2. PICK l \in 1 .. i : s[l].fba # European!Missing /\ d = CategoryOf(s[l]) /\ \A k \in (l + 1) .. i : s[k].fba = European!Missing
  BY DEF RowOf
<1>3. ~(j < l) /\ ~(l < j)
  <2>1. j < l => l \in (j + 1) .. i
    OBVIOUS
  <2>2. l < j => j \in (l + 1) .. i
    OBVIOUS
  <2> QED
    BY <1>1, <1>2, <2>1, <2>2
<1>4. j = l
  BY <1>3
<1> QED
  BY <1>1, <1>2, <1>4

(* A heading opens a shipment behind the others; it has no products yet.     *)
LEMMA StartedIs ==
  ASSUME NEW o \in Seq(Shipments), NEW row \in EuropeanRow, NEW q, q = Started(o, row)
  PROVE  /\ q \in Seq(Shipments) /\ \A i \in DOMAIN o : i \in DOMAIN q /\ q[i] = o[i]
         /\ row.fba = European!Missing => q = o
         /\ row.fba # European!Missing => /\ Len(q) = Len(o) + 1 /\ q[Len(q)].category = CategoryOf(row)
                                          /\ q[Len(q)].boxes = row.boxes /\ q[Len(q)].gross = row.gross /\ q[Len(q)].items = <<>>
         /\ \A c : PlacesIn(q, c) = PlacesIn(o, c)
<1>1. CASE row.fba = European!Missing
  BY <1>1 DEF Started
<1>2. CASE row.fba # European!Missing
  <2> DEFINE new == European!Shipment(row)
  <2>1. /\ new \in Shipments /\ new.category = CategoryOf(row) /\ new.boxes = row.boxes
        /\ new.gross = row.gross /\ new.items = <<>>
    BY DEF European!Shipment, Shipments, CategoryOf, EuropeanRow
  <2> HIDE DEF new
  <2>2. q = Append(o, new)
    BY <1>2 DEF Started, new
  <2>3. /\ q \in Seq(Shipments) /\ Len(q) = Len(o) + 1 /\ q[Len(q)] = new
        /\ \A i \in DOMAIN o : i \in DOMAIN q /\ q[i] = o[i]
    BY <2>1, <2>2
  <2>4. \A i \in DOMAIN q : i \in DOMAIN o \/ i = Len(q)
    BY <2>1, <2>2
  <2>5. \A i \in DOMAIN q : i \notin DOMAIN o => DOMAIN q[i].items = {}
    BY <2>1, <2>3, <2>4
  <2>6. \A c : PlacesIn(q, c) = PlacesIn(o, c)
    <3> TAKE c
    <3>1. ASSUME NEW p \in Nat \X Nat
          PROVE  (p[1] \in OfIn(q, c) /\ p[2] \in DOMAIN q[p[1]].items) <=> (p[1] \in OfIn(o, c) /\ p[2] \in DOMAIN o[p[1]].items)
      BY <2>3, <2>5 DEF OfIn
    <3> QED
      BY <3>1 DEF PlacesIn
  <2> QED
    BY <1>2, <2>1, <2>3, <2>6
<1> QED
  BY <1>1, <1>2

(* A product is the last of the last shipment.                               *)
NewPlace(o) == <<Len(o), Len(o[Len(o)].items) + 1>>
LEMMA FilledIs ==
  ASSUME NEW o \in Seq(Shipments), o # <<>>, NEW row \in EuropeanRow, NEW q, q = Filled(o, row)
  PROVE  /\ q \in Seq(Shipments) /\ DOMAIN q = DOMAIN o /\ Len(q) = Len(o)
         /\ \A i \in DOMAIN o : q[i].category = o[i].category /\ q[i].boxes = o[i].boxes /\ q[i].gross = o[i].gross
         /\ \A c : /\ PlacesIn(q, c) = PlacesIn(o, c) \cup (IF o[Len(o)].category = c THEN {NewPlace(o)} ELSE {})
                   /\ \A p \in PlacesIn(o, c) : p # NewPlace(o) /\ q[p[1]].items[p[2]] = o[p[1]].items[p[2]]
         /\ q[NewPlace(o)[1]].items[NewPlace(o)[2]] = European!Item(row)
         /\ \A i \in DOMAIN o : \A m \in DOMAIN q[i].items :
               (m \in DOMAIN o[i].items /\ q[i].items[m] = o[i].items[m]) \/ q[i].items[m] = European!Item(row)
<1> DEFINE L == Len(o)
           old == o[L].items
           item == European!Item(row)
           new == NewPlace(o)
           I == [rule : STRING, price : Nat, quantity : Nat, weight : Nat]
<1>1. L \in Nat \ {0} /\ L \in DOMAIN o /\ DOMAIN o = 1 .. L
  OBVIOUS
<1>2. item \in I
  <2>1. row.quantity \in Nat /\ row.weight \in Nat /\ row.product \in STRING /\ row.price \in Nat
    BY DEF EuropeanRow
  <2>2. row.quantity * row.weight \in Nat
    BY <2>1
  <2>3. \A w \in Nat : [rule |-> row.product, price |-> row.price, quantity |-> row.quantity, weight |-> w] \in I
    BY <2>1
  <2> QED
    BY <2>2, <2>3 DEF European!Item
<1>3. o[L] \in Shipments /\ old \in Seq(I)
  <2>1. o[L] \in Shipments
    BY <1>1
  <2> QED
    BY <2>1 DEF Shipments
<1>4. q = [o EXCEPT ![L].items = Append(@, item)]
  BY DEF Filled
<1> HIDE DEF L, item, I
<1>5. DOMAIN q = DOMAIN o /\ Len(q) = L /\ \A i \in DOMAIN o : i # L => q[i] = o[i]
  BY <1>1, <1>4 DEF L
<1>6. q[L] = [o[L] EXCEPT !.items = Append(old, item)]
  BY <1>1, <1>4
<1>7. q[L].category = o[L].category /\ q[L].boxes = o[L].boxes /\ q[L].gross = o[L].gross /\ q[L].items = Append(old, item)
  BY <1>3, <1>6 DEF Shipments
<1>8. q[L] \in Shipments
  <2>1. Append(old, item) \in Seq(I)
    BY <1>2, <1>3
  <2> QED
    BY <1>3, <1>6, <2>1 DEF Shipments, I
<1> DEFINE more == Append(old, item)
<1>9. /\ Len(old) \in Nat /\ DOMAIN old = 1 .. Len(old) /\ DOMAIN more = 1 .. (Len(old) + 1)
      /\ more[Len(old) + 1] = item /\ \A m \in DOMAIN old : more[m] = old[m]
  BY <1>2, <1>3
<1>10. q[L].items = more
  BY <1>7
<1> HIDE DEF more
<1>11. new = <<L, Len(old) + 1>>
  BY DEF L, NewPlace
<1> HIDE DEF new
<1>12. new \in Nat \X Nat /\ new[1] = L /\ new[2] = Len(old) + 1
  BY <1>1, <1>9, <1>11
<1> HIDE DEF old
<1>13. q \in Seq(Shipments)
  <2>1. \A i \in 1 .. L : q[i] \in Shipments
    BY <1>1, <1>5, <1>8
  <2>2. q = [i \in 1 .. L |-> q[i]]
    BY <1>1, <1>4
  <2> QED
    BY <1>1, <2>1, <2>2
<1>14. \A i \in DOMAIN o : q[i].category = o[i].category /\ q[i].boxes = o[i].boxes /\ q[i].gross = o[i].gross
  BY <1>5, <1>7
<1>15. ASSUME NEW c
       PROVE  /\ PlacesIn(q, c) = PlacesIn(o, c) \cup (IF o[L].category = c THEN {new} ELSE {})
              /\ \A p \in PlacesIn(o, c) : p # new /\ q[p[1]].items[p[2]] = o[p[1]].items[p[2]]
  <2>1. OfIn(q, c) = OfIn(o, c)
    BY <1>5, <1>14 DEF OfIn
  <2>2. ASSUME NEW p \in Nat \X Nat, p[1] \in OfIn(o, c)
        PROVE  p[2] \in DOMAIN q[p[1]].items <=> p[2] \in DOMAIN o[p[1]].items \/ p = new
    <3>1. p[1] \in DOMAIN o
      BY <2>2 DEF OfIn
    <3>2. p = new <=> p[1] = L /\ p[2] = Len(old) + 1
      <4>1. p = <<p[1], p[2]>>
        BY <2>2
      <4> HIDE DEF old
      <4>2. p[1] = L /\ p[2] = Len(old) + 1 => p = new
        BY <1>11, <4>1
      <4> QED
        BY <1>12, <4>2
    <3>3. CASE p[1] = L
      <4>1. DOMAIN q[p[1]].items = 1 .. (Len(old) + 1) /\ DOMAIN o[p[1]].items = 1 .. Len(old)
        <5>1. o[p[1]].items = old /\ q[p[1]].items = more
          BY <1>10, <3>3 DEF old
        <5> QED
          BY <1>9, <5>1
      <4>2. p[2] \in 1 .. (Len(old) + 1) <=> p[2] \in 1 .. Len(old) \/ p[2] = Len(old) + 1
        BY <1>9
      <4> QED
        BY <3>2, <3>3, <4>1, <4>2
    <3>4. CASE p[1] # L
      BY <1>5, <3>1, <3>2, <3>4
    <3> QED
      BY <3>3, <3>4
  <2>3. L \in OfIn(o, c) <=> o[L].category = c
    BY <1>1 DEF OfIn
  <2>4. \A p \in Nat \X Nat : p = new => p[1] = L
    BY <1>12
  <2>5. \A p \in Nat \X Nat : p \in PlacesIn(q, c) <=> p \in PlacesIn(o, c) \/ (p = new /\ o[L].category = c)
    BY <1>12, <2>1, <2>2, <2>3, <2>4 DEF PlacesIn
  <2>6. PlacesIn(q, c) = PlacesIn(o, c) \cup (IF o[L].category = c THEN {new} ELSE {})
    <3>1. PlacesIn(q, c) \subseteq Nat \X Nat /\ PlacesIn(o, c) \subseteq Nat \X Nat
      BY DEF PlacesIn
    <3> QED
      BY <1>12, <2>5, <3>1
  <2>7. ASSUME NEW p \in PlacesIn(o, c)
        PROVE  p # new /\ q[p[1]].items[p[2]] = o[p[1]].items[p[2]]
    <3>1. p[1] \in DOMAIN o /\ p[2] \in DOMAIN o[p[1]].items
      BY DEF PlacesIn, OfIn
    <3>2. p # new
      BY <1>9, <1>12, <3>1 DEF old
    <3>3. CASE p[1] = L
      <4>1. o[p[1]].items = old /\ q[p[1]].items = more
        BY <1>10, <3>3 DEF old
      <4>2. p[2] \in DOMAIN old
        BY <3>1, <4>1
      <4>3. more[p[2]] = old[p[2]]
        BY <1>9, <4>2
      <4> QED
        BY <3>2, <4>1, <4>3
    <3>4. CASE p[1] # L
      <4>1. q[p[1]] = o[p[1]]
        BY <1>5, <3>1, <3>4
      <4> QED
        BY <3>2, <4>1
    <3> QED
      BY <3>2, <3>3, <3>4
  <2> QED
    BY <2>6, <2>7
<1>16. q[new[1]].items[new[2]] = item
  BY <1>9, <1>10, <1>12
<1>17. \A i \in DOMAIN o : \A m \in DOMAIN q[i].items :
         (m \in DOMAIN o[i].items /\ q[i].items[m] = o[i].items[m]) \/ q[i].items[m] = item
  <2> SUFFICES ASSUME NEW i \in DOMAIN o, NEW m \in DOMAIN q[i].items
               PROVE  (m \in DOMAIN o[i].items /\ q[i].items[m] = o[i].items[m]) \/ q[i].items[m] = item
    OBVIOUS
  <2>1. CASE i = L
    <3>1. m \in 1 .. (Len(old) + 1) /\ q[i].items = more /\ o[i].items = old
      BY <1>9, <1>10, <2>1 DEF old
    <3> QED
      BY <1>9, <3>1
  <2>2. CASE i # L
    BY <1>5, <2>2
  <2> QED
    BY <2>1, <2>2
<1> QED
  BY <1>5, <1>13, <1>14, <1>15, <1>16, <1>17 DEF L, item, new

(* What one row adds to the shipments.                                       *)
Entered(o, row) ==
    IF row.product = European!Missing THEN Started(o, row) ELSE Filled(Started(o, row), row)
Hit(q, c) == q # <<>> /\ q[Len(q)].category = c
(* What can be said of a row without an error.                               *)
Fine(o, row) ==
    /\ row.fba # European!Missing => row.gross > 0
    /\ row.product # European!Missing => Started(o, row) # <<>> /\ row.weight > 0 /\ row.quantity > 0

(* The shipments have one more, or one more product in the last.             *)
LEMMA ShipmentsGrow ==
  ASSUME NEW o \in Seq(Shipments), NEW row \in EuropeanRow, Fine(o, row), Weighty(o)
  PROVE  /\ Entered(o, row) \in Seq(Shipments) /\ Len(Entered(o, row)) = Len(Started(o, row)) /\ DOMAIN Entered(o, row) = DOMAIN Started(o, row) /\ \A i \in DOMAIN o : i \in DOMAIN Entered(o, row)
         /\ \A i \in DOMAIN Entered(o, row) : i \notin DOMAIN o => row.fba # European!Missing /\ i = Len(Started(o, row))
         /\ row.fba # European!Missing => /\ Len(Started(o, row)) \notin DOMAIN o /\ Len(Started(o, row)) \in DOMAIN Entered(o, row)
                                          /\ Entered(o, row)[Len(Started(o, row))].boxes = row.boxes /\ Entered(o, row)[Len(Started(o, row))].category = CategoryOf(row)
         /\ \A i \in DOMAIN Started(o, row) : Entered(o, row)[i].category = Started(o, row)[i].category
         /\ \A i \in DOMAIN o : Entered(o, row)[i].category = o[i].category /\ Entered(o, row)[i].boxes = o[i].boxes
         /\ \E w \in Nat \X Nat : \A c :
               /\ PlacesIn(Entered(o, row), c) = PlacesIn(o, c) \cup (IF row.product # European!Missing /\ Hit(Started(o, row), c) THEN {w} ELSE {})
               /\ w \in PlacesIn(Entered(o, row), c) => w \notin PlacesIn(o, c) /\ Entered(o, row)[w[1]].items[w[2]] = European!Item(row)
               /\ \A p \in PlacesIn(o, c) : Entered(o, row)[p[1]].items[p[2]] = o[p[1]].items[p[2]]
         /\ Weighty(Entered(o, row))
<1> DEFINE q == Started(o, row)
           r == Entered(o, row)
<1>1. /\ q \in Seq(Shipments) /\ \A i \in DOMAIN o : i \in DOMAIN q /\ q[i] = o[i]
      /\ row.fba = European!Missing => q = o
      /\ row.fba # European!Missing => /\ Len(q) = Len(o) + 1 /\ q[Len(q)].category = CategoryOf(row)
                                       /\ q[Len(q)].boxes = row.boxes /\ q[Len(q)].gross = row.gross /\ q[Len(q)].items = <<>>
      /\ \A c : PlacesIn(q, c) = PlacesIn(o, c)
  BY StartedIs
<1>2. /\ Len(o) \in Nat /\ Len(q) \in Nat /\ DOMAIN o = 1 .. Len(o) /\ DOMAIN q = 1 .. Len(q)
  <2>1. q \in Seq(Shipments)
    BY <1>1
  <2> QED
    BY <2>1
<1>3. \A i \in DOMAIN q : i \notin DOMAIN o => row.fba # European!Missing /\ i = Len(q)
  <2>1. row.fba # European!Missing => Len(q) = Len(o) + 1
    BY <1>1
  <2>2. row.fba = European!Missing => q = o
    BY <1>1
  <2> SUFFICES ASSUME NEW i \in DOMAIN q, i \notin DOMAIN o
               PROVE  row.fba # European!Missing /\ i = Len(q)
    OBVIOUS
  <2>3. row.fba # European!Missing /\ Len(q) = Len(o) + 1
    BY <2>1, <2>2
  <2>4. i \in 1 .. (Len(o) + 1) /\ i \notin 1 .. Len(o)
    BY <1>2, <2>3
  <2> QED
    BY <1>2, <2>3, <2>4
<1>4. row.fba # European!Missing => Len(q) \notin DOMAIN o /\ Len(q) \in DOMAIN q
  <2>1. row.fba # European!Missing => Len(q) = Len(o) + 1
    BY <1>1
  <2>2. Len(o) + 1 \notin 1 .. Len(o) /\ Len(o) + 1 \in 1 .. (Len(o) + 1)
    BY <1>2
  <2> QED
    BY <1>2, <2>1, <2>2
<1>5. Weighty(q)
  <2> SUFFICES ASSUME NEW k \in DOMAIN q
               PROVE  q[k].gross > 0 /\ \A m \in DOMAIN q[k].items : q[k].items[m].weight > 0 /\ q[k].items[m].rule # European!Missing
    BY DEF Weighty
  <2>1. CASE k \in DOMAIN o
    BY <1>1, <2>1 DEF Weighty
  <2>2. CASE k \notin DOMAIN o
    BY <1>1, <1>3, <2>2 DEF Fine
  <2> QED
    BY <2>1, <2>2
<1>6. \A c : \A p \in PlacesIn(o, c) : q[p[1]] = o[p[1]]
  BY <1>1 DEF PlacesIn, OfIn
<1>7. CASE row.product = European!Missing
  <2>1. r = q
    BY <1>7 DEF Entered
  <2>2. \A c : PlacesIn(r, c) = PlacesIn(o, c)
    BY <1>1, <2>1
  <2> DEFINE w == <<Len(q) + 1, 0>>
  <2>3. w \in Nat \X Nat
    BY <1>2
  <2>4. \A c : w \notin PlacesIn(r, c)
    <3>1. w[1] \notin DOMAIN r
      BY <1>2, <2>1
    <3> HIDE DEF w
    <3> QED
      BY <3>1 DEF PlacesIn, OfIn
  <2> HIDE DEF w
  <2>5. \E v \in Nat \X Nat : \A c :
           /\ PlacesIn(r, c) = PlacesIn(o, c) \cup (IF row.product # European!Missing /\ Hit(q, c) THEN {v} ELSE {})
           /\ v \in PlacesIn(r, c) => v \notin PlacesIn(o, c) /\ r[v[1]].items[v[2]] = European!Item(row)
           /\ \A p \in PlacesIn(o, c) : r[p[1]].items[p[2]] = o[p[1]].items[p[2]]
    <3> SUFFICES ASSUME NEW c
                 PROVE  /\ PlacesIn(r, c) = PlacesIn(o, c) \cup (IF row.product # European!Missing /\ Hit(q, c) THEN {w} ELSE {})
                        /\ w \in PlacesIn(r, c) => w \notin PlacesIn(o, c) /\ r[w[1]].items[w[2]] = European!Item(row)
                        /\ \A p \in PlacesIn(o, c) : r[p[1]].items[p[2]] = o[p[1]].items[p[2]]
      BY <2>3
    <3> QED
      BY <1>6, <1>7, <2>1, <2>2, <2>4
  <2> QED
    BY <1>1, <1>2, <1>3, <1>4, <1>5, <2>1, <2>5
<1>8. CASE row.product # European!Missing
  <2>1. r = Filled(q, row) /\ q # <<>>
    BY <1>8 DEF Entered, Fine
  <2> DEFINE w == NewPlace(q)
  <2>2. /\ r \in Seq(Shipments) /\ DOMAIN r = DOMAIN q /\ Len(r) = Len(q)
        /\ \A i \in DOMAIN q : r[i].category = q[i].category /\ r[i].boxes = q[i].boxes /\ r[i].gross = q[i].gross
        /\ \A c : /\ PlacesIn(r, c) = PlacesIn(q, c) \cup (IF q[Len(q)].category = c THEN {w} ELSE {})
                  /\ \A p \in PlacesIn(q, c) : p # w /\ r[p[1]].items[p[2]] = q[p[1]].items[p[2]]
        /\ r[w[1]].items[w[2]] = European!Item(row)
        /\ \A i \in DOMAIN q : \A m \in DOMAIN r[i].items :
              (m \in DOMAIN q[i].items /\ r[i].items[m] = q[i].items[m]) \/ r[i].items[m] = European!Item(row)
    BY <1>1, <2>1, FilledIs
  <2>3. w \in Nat \X Nat
    <3>1. q[Len(q)] \in Shipments
      BY <1>1, <2>1
    <3>2. Len(q[Len(q)].items) \in Nat
      BY <3>1 DEF Shipments
    <3> QED
      BY <1>2, <3>2 DEF NewPlace
  <2> HIDE DEF w
  <2>4. ASSUME NEW c
        PROVE  /\ PlacesIn(r, c) = PlacesIn(o, c) \cup (IF row.product # European!Missing /\ Hit(q, c) THEN {w} ELSE {})
               /\ w \in PlacesIn(r, c) => w \notin PlacesIn(o, c) /\ r[w[1]].items[w[2]] = European!Item(row)
               /\ \A p \in PlacesIn(o, c) : r[p[1]].items[p[2]] = o[p[1]].items[p[2]]
    <3>1. Hit(q, c) <=> q[Len(q)].category = c
      BY <2>1 DEF Hit
    <3>2. PlacesIn(q, c) = PlacesIn(o, c)
      BY <1>1
    <3>3. w \notin PlacesIn(o, c)
      BY <2>2, <3>2
    <3>4. \A p \in PlacesIn(o, c) : r[p[1]].items[p[2]] = o[p[1]].items[p[2]]
      BY <1>6, <2>2, <3>2
    <3> QED
      BY <1>8, <2>2, <3>1, <3>2, <3>3, <3>4
  <2>5. Weighty(r)
    <3>1. European!Item(row).weight > 0 /\ European!Item(row).rule # European!Missing
      <4>1. row.weight \in Nat /\ row.quantity \in Nat /\ row.weight > 0 /\ row.quantity > 0
        BY <1>8 DEF Fine, EuropeanRow
      <4>2. row.quantity * row.weight > 0
        BY <4>1
      <4> QED
        BY <1>8, <4>2 DEF European!Item
    <3> QED
      BY <1>5, <2>2, <3>1 DEF Weighty
  <2>6. \E v \in Nat \X Nat : \A c :
           /\ PlacesIn(r, c) = PlacesIn(o, c) \cup (IF row.product # European!Missing /\ Hit(q, c) THEN {v} ELSE {})
           /\ v \in PlacesIn(r, c) => v \notin PlacesIn(o, c) /\ r[v[1]].items[v[2]] = European!Item(row)
           /\ \A p \in PlacesIn(o, c) : r[p[1]].items[p[2]] = o[p[1]].items[p[2]]
    <3> SUFFICES ASSUME NEW c
                 PROVE  /\ PlacesIn(r, c) = PlacesIn(o, c) \cup (IF row.product # European!Missing /\ Hit(q, c) THEN {w} ELSE {})
                        /\ w \in PlacesIn(r, c) => w \notin PlacesIn(o, c) /\ r[w[1]].items[w[2]] = European!Item(row)
                        /\ \A p \in PlacesIn(o, c) : r[p[1]].items[p[2]] = o[p[1]].items[p[2]]
      BY <2>3
    <3> QED
      BY <2>4
  <2>7. \A i \in DOMAIN o : r[i].category = o[i].category /\ r[i].boxes = o[i].boxes
    <3> SUFFICES ASSUME NEW i \in DOMAIN o
                 PROVE  r[i].category = o[i].category /\ r[i].boxes = o[i].boxes
      OBVIOUS
    <3>1. i \in DOMAIN q /\ q[i] = o[i]
      BY <1>1
    <3> QED
      BY <2>2, <3>1
  <2> QED
    BY <1>1, <1>3, <1>4, <2>2, <2>5, <2>6, <2>7
<1> QED
  BY <1>7, <1>8

(* The row stands below the last shipment.                                   *)
LEMMA LastHit ==
  ASSUME NEW s \in Seq(EuropeanRow), NEW o \in Seq(Shipments), NEW row \in EuropeanRow, Placed(s, o)
  PROVE  \A c : RowOf(Append(s, row), Len(s) + 1, c) <=> Hit(Started(o, row), c)
<1> DEFINE q == Started(o, row)
<1>1. /\ q \in Seq(Shipments)
      /\ row.fba = European!Missing => q = o
      /\ row.fba # European!Missing => Len(q) = Len(o) + 1 /\ q[Len(q)].category = CategoryOf(row)
  BY StartedIs
<1> HIDE DEF q
<1>2. \A c : RowOf(Append(s, row), Len(s) + 1, c) <=> IF row.fba # European!Missing THEN c = CategoryOf(row) ELSE RowOf(s, Len(s), c)
  BY RowsAbove
<1>3. CASE row.fba # European!Missing
  <2>1. q # <<>> /\ q[Len(q)].category = CategoryOf(row)
    <3>1. Len(q) = Len(o) + 1 /\ q \in Seq(Shipments)
      BY <1>1, <1>3
    <3>2. Len(q) # 0
      <4>1. Len(o) \in Nat
        OBVIOUS
      <4> QED
        BY <3>1, <4>1
    <3> QED
      BY <1>1, <1>3, <3>2
  <2>2. \A c : Hit(q, c) <=> c = CategoryOf(row)
    BY <2>1 DEF Hit
  <2>3. \A c : RowOf(Append(s, row), Len(s) + 1, c) <=> c = CategoryOf(row)
    BY <1>2, <1>3
  <2> QED
    BY <2>2, <2>3 DEF q
<1>4. CASE row.fba = European!Missing
  <2>1. q = o
    BY <1>1, <1>4
  <2>2. ASSUME NEW c
        PROVE  RowOf(s, Len(s), c) <=> Hit(o, c)
    <3>1. CASE o = <<>>
      BY <3>1 DEF Placed, Hit
    <3>2. CASE o # <<>>
      <4>1. RowOf(s, Len(s), o[Len(o)].category) /\ Len(s) \in Nat
        BY <3>2 DEF Placed
      <4> QED
        BY <3>2, <4>1, RowOnce DEF Hit
    <3> QED
      BY <3>1, <3>2
  <2> QED
    BY <1>2, <1>4, <2>1, <2>2 DEF q
<1> QED
  BY <1>3, <1>4

(* The rows of a category with one more.                                     *)
LEMMA RowsGrow ==
  ASSUME NEW s \in Seq(EuropeanRow), NEW row \in EuropeanRow, NEW c
  PROVE  /\ Append(s, row) \in Seq(EuropeanRow) /\ Len(Append(s, row)) = (Len(s) + 1) /\ Append(s, row)[(Len(s) + 1)] = row /\ (Len(s) + 1) \notin DOMAIN s /\ DOMAIN Append(s, row) = DOMAIN s \cup {(Len(s) + 1)}
         /\ \A i \in DOMAIN s : Append(s, row)[i] = s[i] /\ (RowOf(Append(s, row), i, c) <=> RowOf(s, i, c))
         /\ HeadsIn(Append(s, row), c) = More(HeadsIn(s, c), row.fba # European!Missing /\ RowOf(Append(s, row), (Len(s) + 1), c), (Len(s) + 1))
         /\ NamedIn(Append(s, row), c) = More(NamedIn(s, c), row.product # European!Missing /\ RowOf(Append(s, row), (Len(s) + 1), c), (Len(s) + 1))
         /\ \A key : RowsIn(Append(s, row), c, key) = More(RowsIn(s, c, key), KeyOf(row) = key /\ RowOf(Append(s, row), (Len(s) + 1), c), (Len(s) + 1))
<1> DEFINE t == Append(s, row)
           n == Len(s) + 1
<1>0. Len(s) \in Nat /\ DOMAIN s = 1 .. Len(s)
  OBVIOUS
<1>1. t \in Seq(EuropeanRow) /\ Len(t) = n /\ t[n] = row /\ \A i \in DOMAIN s : t[i] = s[i]
  OBVIOUS
<1>2. n \notin DOMAIN s /\ DOMAIN t = DOMAIN s \cup {n}
  BY <1>0, <1>1
<1>3. \A i \in DOMAIN s : RowOf(t, i, c) <=> RowOf(s, i, c)
  BY <1>0, RowsAbove
<1>4. HeadsIn(t, c) = More(HeadsIn(s, c), row.fba # European!Missing /\ RowOf(t, n, c), n)
  BY <1>1, <1>2, <1>3 DEF HeadsIn, More
<1>5. NamedIn(t, c) = More(NamedIn(s, c), row.product # European!Missing /\ RowOf(t, n, c), n)
  BY <1>1, <1>2, <1>3 DEF NamedIn, More
<1>6. ASSUME NEW key
      PROVE  RowsIn(t, c, key) = More(RowsIn(s, c, key), KeyOf(row) = key /\ RowOf(t, n, c), n)
  <2>1. \A i \in DOMAIN s : KeyOf(t[i]) = KeyOf(s[i])
    BY <1>1
  <2> QED
    BY <1>1, <1>2, <1>3, <2>1 DEF RowsIn, More
<1> QED
  BY <1>1, <1>2, <1>3, <1>4, <1>5, <1>6

(* Part of a finite range of numbers is finite.                              *)
LEMMA PartFinite == \A s : s \in Seq(EuropeanRow) \cup Seq(Shipments) => \A U : U \subseteq DOMAIN s => IsFiniteSet(U)
<1> TAKE s
<1> SUFFICES ASSUME s \in Seq(EuropeanRow) \cup Seq(Shipments), NEW U, U \subseteq DOMAIN s
             PROVE  IsFiniteSet(U)
  OBVIOUS
<1>1. DOMAIN s = 1 .. Len(s) /\ Len(s) \in Nat
  OBVIOUS
<1>2. IsFiniteSet(1 .. Len(s))
  BY <1>1, FS_Interval
<1> QED
  BY <1>1, <1>2, FS_Subset

(* One row more keeps what is declared and what the rows say alike.          *)
LEMMA RowKept ==
  ASSUME NEW s \in Seq(EuropeanRow), NEW o \in Seq(Shipments), NEW row \in EuropeanRow, Faithful(s, o), Fine(o, row)
  PROVE  Entered(o, row) \in Seq(Shipments) /\ Faithful(Append(s, row), Entered(o, row))
         /\ Len(Entered(o, row)) = Len(Started(o, row))
<1> DEFINE t == Append(s, row)
           n == Len(s) + 1
           q == Started(o, row)
           r == Entered(o, row)
           heads == row.fba # European!Missing
           named == row.product # European!Missing
<1>1. /\ FinitePlaces(o) /\ SameBoxes(s, o) /\ SameKeys(s, o) /\ SameQuantities(s, o) /\ Placed(s, o) /\ Weighty(o)
  BY DEF Faithful
<1>2. \A c : /\ t \in Seq(EuropeanRow) /\ Len(t) = n /\ t[n] = row /\ n \notin DOMAIN s /\ DOMAIN t = DOMAIN s \cup {n}
             /\ \A i \in DOMAIN s : t[i] = s[i] /\ (RowOf(t, i, c) <=> RowOf(s, i, c))
             /\ HeadsIn(t, c) = More(HeadsIn(s, c), heads /\ RowOf(t, n, c), n)
             /\ NamedIn(t, c) = More(NamedIn(s, c), named /\ RowOf(t, n, c), n)
             /\ \A key : RowsIn(t, c, key) = More(RowsIn(s, c, key), KeyOf(row) = key /\ RowOf(t, n, c), n)
  BY RowsGrow
<1>3. \A c : RowOf(t, n, c) <=> Hit(q, c)
  BY <1>1, LastHit
<1>4. /\ r \in Seq(Shipments) /\ Len(r) = Len(q) /\ DOMAIN r = DOMAIN q /\ \A i \in DOMAIN o : i \in DOMAIN r
      /\ \A i \in DOMAIN r : i \notin DOMAIN o => heads /\ i = Len(q)
      /\ heads => /\ Len(q) \notin DOMAIN o /\ Len(q) \in DOMAIN r
                  /\ r[Len(q)].boxes = row.boxes /\ r[Len(q)].category = CategoryOf(row)
      /\ \A i \in DOMAIN q : r[i].category = q[i].category
      /\ \A i \in DOMAIN o : r[i].category = o[i].category /\ r[i].boxes = o[i].boxes
      /\ Weighty(r)
  BY <1>1, ShipmentsGrow
<1>5. PICK w \in Nat \X Nat : \A c :
         /\ PlacesIn(r, c) = PlacesIn(o, c) \cup (IF named /\ Hit(q, c) THEN {w} ELSE {})
         /\ w \in PlacesIn(r, c) => w \notin PlacesIn(o, c) /\ r[w[1]].items[w[2]] = European!Item(row)
         /\ \A p \in PlacesIn(o, c) : r[p[1]].items[p[2]] = o[p[1]].items[p[2]]
  BY <1>1, ShipmentsGrow
<1>6. row.boxes \in Nat /\ row.quantity \in Nat
  <2>1. row \in EuropeanRow
    OBVIOUS
  <2> QED
    BY <2>1 DEF EuropeanRow
<1>7. \A i \in DOMAIN o : o[i].boxes \in Nat
  <2>1. \A i \in DOMAIN o : o[i] \in Shipments
    OBVIOUS
  <2> QED
    BY <2>1 DEF Shipments
<1>8. \A i \in DOMAIN s : s[i].boxes \in Nat /\ s[i].quantity \in Nat
  <2>1. \A i \in DOMAIN s : s[i] \in EuropeanRow
    OBVIOUS
  <2> QED
    BY <2>1 DEF EuropeanRow
<1> HIDE DEF t, n, q, r, heads, named
<1>9. FinitePlaces(r)
  <2> SUFFICES ASSUME NEW c PROVE IsFiniteSet(PlacesIn(r, c))
    BY DEF FinitePlaces
  <2>1. IsFiniteSet(PlacesIn(o, c))
    BY <1>1 DEF FinitePlaces
  <2>2. IsFiniteSet(PlacesIn(o, c) \cup {w})
    BY <2>1, FS_AddElement
  <2> QED
    BY <1>5, <2>1, <2>2
<1>10. SameBoxes(t, r)
  <2> SUFFICES ASSUME NEW c
               PROVE  Total([i \in OfIn(r, c) |-> r[i].boxes]) = Total([i \in HeadsIn(t, c) |-> t[i].boxes])
    BY DEF SameBoxes
  <2> DEFINE f == [i \in OfIn(o, c) |-> o[i].boxes]
             g == [i \in HeadsIn(s, c) |-> s[i].boxes]
             ff == [i \in OfIn(r, c) |-> r[i].boxes]
             gg == [i \in HeadsIn(t, c) |-> t[i].boxes]
             test == heads /\ Hit(q, c)
  <2>1. Total(f) = Total(g)
    BY <1>1 DEF SameBoxes
  <2>2. OfIn(o, c) \subseteq DOMAIN o /\ HeadsIn(s, c) \subseteq DOMAIN s
    BY DEF OfIn, HeadsIn
  <2>3. IsFiniteSet(DOMAIN f) /\ IsFiniteSet(DOMAIN g)
    BY <2>2, PartFinite
  <2>4. OfIn(r, c) = More(OfIn(o, c), test, Len(q))
    <3>1. heads => (Hit(q, c) <=> r[Len(q)].category = c)
      BY <1>4 DEF Hit
    <3> QED
      BY <1>4, <3>1 DEF OfIn, More
  <2>5. HeadsIn(t, c) = More(HeadsIn(s, c), test, n)
    <3>1. heads /\ RowOf(t, n, c) <=> test
      BY <1>3
    <3> QED
      BY <1>2, <3>1 DEF More
  <2>6. test => Len(q) \notin OfIn(o, c) /\ n \notin HeadsIn(s, c)
    BY <1>2, <1>4, <2>2
  <2>7. \A i \in OfIn(o, c) : ff[i] = f[i] /\ f[i] \in Nat
    <3> SUFFICES ASSUME NEW i \in OfIn(o, c)
                 PROVE  ff[i] = f[i] /\ f[i] \in Nat
      OBVIOUS
    <3>1. i \in DOMAIN o /\ i \in OfIn(r, c)
      BY <2>2, <2>4 DEF More
    <3>2. r[i].boxes = o[i].boxes /\ o[i].boxes \in Nat
      BY <1>4, <1>7, <3>1
    <3> QED
      BY <3>1, <3>2
  <2>8. \A i \in HeadsIn(s, c) : gg[i] = g[i] /\ g[i] \in Nat
    <3> SUFFICES ASSUME NEW i \in HeadsIn(s, c)
                 PROVE  gg[i] = g[i] /\ g[i] \in Nat
      OBVIOUS
    <3>1. i \in DOMAIN s /\ i \in HeadsIn(t, c)
      BY <2>2, <2>5 DEF More
    <3>2. t[i] = s[i] /\ s[i].boxes \in Nat
      BY <1>2, <1>8, <3>1
    <3> QED
      BY <3>1, <3>2
  <2>9. (test => ff[Len(q)] = row.boxes) /\ (test => gg[n] = row.boxes)
    <3> SUFFICES ASSUME test
                 PROVE  ff[Len(q)] = row.boxes /\ gg[n] = row.boxes
      OBVIOUS
    <3>1. Len(q) \in OfIn(r, c) /\ n \in HeadsIn(t, c)
      BY <2>4, <2>5 DEF More
    <3>2. t[n] = row /\ r[Len(q)].boxes = row.boxes
      BY <1>2, <1>4
    <3> QED
      BY <3>1, <3>2
  <2>10. /\ DOMAIN ff = More(DOMAIN f, test, Len(q)) /\ DOMAIN gg = More(DOMAIN g, test, n)
         /\ (test => Len(q) \notin DOMAIN f) /\ (test => n \notin DOMAIN g)
         /\ (\A i \in DOMAIN f : ff[i] = f[i]) /\ \A i \in DOMAIN f : f[i] \in Nat
         /\ (\A i \in DOMAIN g : gg[i] = g[i]) /\ \A i \in DOMAIN g : g[i] \in Nat
         /\ test \in BOOLEAN
    BY <2>4, <2>5, <2>6, <2>7, <2>8
  <2>11. row.boxes \in Nat
    BY <1>6
  <2> HIDE DEF f, g, ff, gg, test
  <2>12. Growing(f, ff, test, Len(q), row.boxes)
    BY <2>3, <2>9, <2>10, <2>11, Zenon DEF Growing
  <2>13. Growing(g, gg, test, n, row.boxes)
    BY <2>3, <2>9, <2>10, <2>11, Zenon DEF Growing
  <2>14. Total(ff) = Total(gg)
    <3>1. test \in BOOLEAN
      BY <2>10
    <3>2. Total(ff) = Total(f) + (IF test THEN row.boxes ELSE 0)
      BY <3>1, <2>12, OneGrows, Zenon
    <3>3. Total(gg) = Total(g) + (IF test THEN row.boxes ELSE 0)
      BY <3>1, <2>13, OneGrows, Zenon
    <3> QED
      BY <2>1, <3>2, <3>3
  <2> QED
    BY <2>14 DEF ff, gg
<1>11. \A c : \A p \in PlacesIn(o, c) : KeyIn(r, p) = KeyIn(o, p)
  BY <1>5 DEF KeyIn
<1>12. \A c : named /\ Hit(q, c) => w \notin PlacesIn(o, c) /\ KeyIn(r, w) = KeyOf(row) /\ r[w[1]].items[w[2]].quantity = row.quantity
  <2> SUFFICES ASSUME NEW c, named, Hit(q, c)
               PROVE  w \notin PlacesIn(o, c) /\ KeyIn(r, w) = KeyOf(row) /\ r[w[1]].items[w[2]].quantity = row.quantity
    OBVIOUS
  <2>1. w \notin PlacesIn(o, c) /\ r[w[1]].items[w[2]] = European!Item(row)
    BY <1>5
  <2>2. /\ European!Item(row).rule = row.product /\ European!Item(row).price = row.price
        /\ European!Item(row).quantity = row.quantity
    BY DEF European!Item
  <2> QED
    BY <2>1, <2>2 DEF KeyIn, KeyOf
<1>13. SameKeys(t, r)
  <2> SUFFICES ASSUME NEW c
               PROVE  {KeyIn(r, p) : p \in PlacesIn(r, c)} = {KeyOf(t[i]) : i \in NamedIn(t, c)}
    BY DEF SameKeys
  <2>1. {KeyIn(o, p) : p \in PlacesIn(o, c)} = {KeyOf(s[i]) : i \in NamedIn(s, c)}
    BY <1>1 DEF SameKeys
  <2>2. {KeyOf(t[i]) : i \in NamedIn(s, c)} = {KeyOf(s[i]) : i \in NamedIn(s, c)}
    BY <1>2 DEF NamedIn
  <2>3. {KeyIn(r, p) : p \in PlacesIn(o, c)} = {KeyIn(o, p) : p \in PlacesIn(o, c)}
    BY <1>11
  <2>4. KeyOf(t[n]) = KeyOf(row)
    BY <1>2
  <2>5. CASE named /\ Hit(q, c)
    <3>1. PlacesIn(r, c) = PlacesIn(o, c) \cup {w} /\ NamedIn(t, c) = NamedIn(s, c) \cup {n} /\ KeyIn(r, w) = KeyOf(row)
      BY <1>2, <1>3, <1>5, <1>12, <2>5 DEF More
    <3>2. {KeyIn(r, p) : p \in PlacesIn(r, c)} = {KeyIn(r, p) : p \in PlacesIn(o, c)} \cup {KeyOf(row)}
      BY <3>1
    <3>3. {KeyOf(t[i]) : i \in NamedIn(t, c)} = {KeyOf(t[i]) : i \in NamedIn(s, c)} \cup {KeyOf(row)}
      BY <2>4, <3>1
    <3> QED
      BY <2>1, <2>2, <2>3, <3>2, <3>3
  <2>6. CASE ~(named /\ Hit(q, c))
    <3>1. PlacesIn(r, c) = PlacesIn(o, c) /\ NamedIn(t, c) = NamedIn(s, c)
      BY <1>2, <1>3, <1>5, <2>6 DEF More
    <3> QED
      BY <2>1, <2>2, <2>3, <3>1
  <2> QED
    BY <2>5, <2>6
<1>14. \A c : \A p \in PlacesIn(o, c) : o[p[1]].items[p[2]].quantity \in Nat
  <2> SUFFICES ASSUME NEW c, NEW p \in PlacesIn(o, c)
               PROVE  o[p[1]].items[p[2]].quantity \in Nat
    OBVIOUS
  <2>1. p[1] \in DOMAIN o /\ p[2] \in DOMAIN o[p[1]].items
    BY DEF PlacesIn, OfIn
  <2>2. o[p[1]] \in Shipments
    BY <2>1
  <2>3. o[p[1]].items \in Seq([rule : STRING, price : Nat, quantity : Nat, weight : Nat])
    BY <2>2 DEF Shipments
  <2>4. o[p[1]].items[p[2]] \in [rule : STRING, price : Nat, quantity : Nat, weight : Nat]
    BY <2>1, <2>3, ElementOf, Zenon
  <2> QED
    BY <2>4
<1>15. SameQuantities(t, r)
  <2> SUFFICES ASSUME NEW c, NEW key, key[1] # European!Missing
               PROVE  Total([p \in KeyedIn(r, c, key) |-> r[p[1]].items[p[2]].quantity]) = Total([i \in RowsIn(t, c, key) |-> t[i].quantity])
    BY DEF SameQuantities
  <2> DEFINE f == [p \in KeyedIn(o, c, key) |-> o[p[1]].items[p[2]].quantity]
             g == [i \in RowsIn(s, c, key) |-> s[i].quantity]
             ff == [p \in KeyedIn(r, c, key) |-> r[p[1]].items[p[2]].quantity]
             gg == [i \in RowsIn(t, c, key) |-> t[i].quantity]
             test == named /\ Hit(q, c) /\ KeyOf(row) = key
  <2>1. Total(f) = Total(g)
    BY <1>1 DEF SameQuantities
  <2>2. KeyedIn(o, c, key) \subseteq PlacesIn(o, c) /\ RowsIn(s, c, key) \subseteq DOMAIN s
    BY DEF KeyedIn, RowsIn
  <2>3. IsFiniteSet(DOMAIN f) /\ IsFiniteSet(DOMAIN g)
    <3>1. IsFiniteSet(PlacesIn(o, c))
      BY <1>1 DEF FinitePlaces
    <3> QED
      BY <2>2, <3>1, PartFinite, FS_Subset
  <2>4. KeyedIn(r, c, key) = More(KeyedIn(o, c, key), test, w)
    BY <1>5, <1>11, <1>12 DEF KeyedIn, More
  <2>5. RowsIn(t, c, key) = More(RowsIn(s, c, key), test, n)
    <3>1. KeyOf(row) = key => named
      BY DEF KeyOf, named
    <3>2. KeyOf(row) = key /\ RowOf(t, n, c) <=> test
      BY <1>3, <3>1
    <3> QED
      BY <1>2, <3>2 DEF More
  <2>6. test => w \notin KeyedIn(o, c, key) /\ n \notin RowsIn(s, c, key)
    BY <1>2, <1>12, <2>2
  <2>7. \A p \in KeyedIn(o, c, key) : ff[p] = f[p] /\ f[p] \in Nat
    <3> SUFFICES ASSUME NEW p \in KeyedIn(o, c, key)
                 PROVE  ff[p] = f[p] /\ f[p] \in Nat
      OBVIOUS
    <3>1. p \in PlacesIn(o, c) /\ p \in KeyedIn(r, c, key)
      BY <2>2, <2>4 DEF More
    <3>2. r[p[1]].items[p[2]] = o[p[1]].items[p[2]] /\ o[p[1]].items[p[2]].quantity \in Nat
      BY <1>5, <1>14, <3>1
    <3> QED
      BY <3>1, <3>2
  <2>8. \A i \in RowsIn(s, c, key) : gg[i] = g[i] /\ g[i] \in Nat
    <3> SUFFICES ASSUME NEW i \in RowsIn(s, c, key)
                 PROVE  gg[i] = g[i] /\ g[i] \in Nat
      OBVIOUS
    <3>1. i \in DOMAIN s /\ i \in RowsIn(t, c, key)
      BY <2>2, <2>5 DEF More
    <3>2. t[i] = s[i] /\ s[i].quantity \in Nat
      BY <1>2, <1>8, <3>1
    <3> QED
      BY <3>1, <3>2
  <2>9. (test => ff[w] = row.quantity) /\ (test => gg[n] = row.quantity)
    <3> SUFFICES ASSUME test
                 PROVE  ff[w] = row.quantity /\ gg[n] = row.quantity
      OBVIOUS
    <3>1. w \in KeyedIn(r, c, key) /\ n \in RowsIn(t, c, key)
      BY <2>4, <2>5 DEF More
    <3>2. t[n] = row /\ r[w[1]].items[w[2]].quantity = row.quantity
      BY <1>2, <1>12
    <3> QED
      BY <3>1, <3>2
  <2>10. /\ DOMAIN ff = More(DOMAIN f, test, w) /\ DOMAIN gg = More(DOMAIN g, test, n)
         /\ (test => w \notin DOMAIN f) /\ (test => n \notin DOMAIN g)
         /\ (\A p \in DOMAIN f : ff[p] = f[p]) /\ \A p \in DOMAIN f : f[p] \in Nat
         /\ (\A i \in DOMAIN g : gg[i] = g[i]) /\ \A i \in DOMAIN g : g[i] \in Nat
         /\ test \in BOOLEAN
    BY <2>4, <2>5, <2>6, <2>7, <2>8
  <2>11. row.quantity \in Nat
    BY <1>6
  <2> HIDE DEF f, g, ff, gg, test
  <2>12. Growing(f, ff, test, w, row.quantity)
    BY <2>3, <2>9, <2>10, <2>11, Zenon DEF Growing
  <2>13. Growing(g, gg, test, n, row.quantity)
    BY <2>3, <2>9, <2>10, <2>11, Zenon DEF Growing
  <2>14. Total(ff) = Total(gg)
    <3>1. test \in BOOLEAN
      BY <2>10
    <3>2. Total(ff) = Total(f) + (IF test THEN row.quantity ELSE 0)
      BY <3>1, <2>12, OneGrows, Zenon
    <3>3. Total(gg) = Total(g) + (IF test THEN row.quantity ELSE 0)
      BY <3>1, <2>13, OneGrows, Zenon
    <3> QED
      BY <2>1, <3>2, <3>3
  <2> QED
    BY <2>14 DEF ff, gg
<1>16. /\ q \in Seq(Shipments) /\ DOMAIN q = 1 .. Len(q) /\ Len(q) \in Nat /\ (q = <<>> <=> Len(q) = 0)
       /\ r \in Seq(Shipments) /\ (r = <<>> <=> Len(r) = 0)
  <2>1. q \in Seq(Shipments)
    BY StartedIs DEF q
  <2> QED
    BY <1>4, <2>1
<1>17. q # <<>> => /\ Len(q) \in DOMAIN r /\ r[Len(q)].category = q[Len(q)].category
                   /\ RowOf(t, n, r[Len(q)].category)
  BY <1>3, <1>4, <1>16 DEF Hit
<1>18. heads \/ named => q # <<>>
  BY <1>4, <1>16 DEF Fine, named, q
<1>19. Placed(t, r)
  <2>1. ASSUME NEW i \in DOMAIN t, t[i].fba # European!Missing \/ t[i].product # European!Missing
        PROVE  \E k \in DOMAIN r : RowOf(t, i, r[k].category)
    <3>1. CASE i \in DOMAIN s
      <4>1. t[i] = s[i] /\ \A c : RowOf(t, i, c) <=> RowOf(s, i, c)
        BY <1>2, <3>1
      <4>2. PICK k \in DOMAIN o : RowOf(s, i, o[k].category)
        BY <1>1, <2>1, <3>1, <4>1 DEF Placed
      <4>3. k \in DOMAIN r /\ r[k].category = o[k].category
        BY <1>4
      <4> QED
        BY <4>1, <4>2, <4>3
    <3>2. CASE i = n
      <4>1. heads \/ named
        BY <1>2, <2>1, <3>2 DEF heads, named
      <4> QED
        BY <1>17, <1>18, <3>2, <4>1
    <3> QED
      BY <1>2, <3>1, <3>2
  <2>2. r # <<>> => RowOf(t, n, r[Len(r)].category)
    BY <1>4, <1>16, <1>17
  <2>3. r = <<>> => \A c : ~RowOf(t, n, c)
    BY <1>3, <1>4, <1>16 DEF Hit
  <2>4. Len(t) = n
    BY <1>2
  <2> QED
    BY <2>1, <2>2, <2>3, <2>4 DEF Placed
<1>20. Faithful(t, r)
  BY <1>4, <1>9, <1>10, <1>13, <1>15, <1>19 DEF Faithful
<1> QED
  BY <1>4, <1>20 DEF t, q, r

(* The module's sums and shares are those of WeightShares.                   *)
LEMMA EuropeanSums ==
  /\ \A f : European!Total(f) = Total(f)
  /\ \A g : European!Net(g) = Net(g)
  /\ \A g, parts : European!Shares(g, parts) = Shares(g, parts)
  /\ \A g, parts, a, b : European!Split(g, parts, a, b) <=> Split(g, parts, a, b)
<1>1. \A f : European!Total(f) = Total(f)
  BY DEF European!Total, European!SumFunction, European!SumFunctionOnSet, European!FoldFunctionOnSet, European!MapThenFoldSet,
         Total, SumFunction, SumFunctionOnSet, FoldFunctionOnSet, MapThenFoldSet
<1>2. \A a, b : European!HalfUp(a, b) = HalfUp(a, b)
  BY DEF European!HalfUp, HalfUp
<1>3. \A g : European!Net(g) = Net(g)
  BY <1>2 DEF European!Net, Net
<1>4. \A g, parts : European!Rounded(g, parts) = Rounded(g, parts)
  BY <1>1, <1>2 DEF European!Rounded, Rounded
<1>5. \A g, parts : European!Shares(g, parts) = Shares(g, parts)
  BY <1>1, <1>4 DEF European!Shares, Shares
<1>6. \A g, parts, a, b : European!Split(g, parts, a, b) <=> Split(g, parts, a, b)
  BY <1>1, <1>3 DEF European!Split, Split
<1> QED
  BY <1>1, <1>3, <1>5, <1>6

(* The module's shipments and places are those above.                        *)
LEMMA EuropeanPlaces ==
  ASSUME opened \in Seq(Shipments)
  PROVE  /\ \A c : European!Of(c) = OfIn(opened, c) /\ European!Places(c) = PlacesIn(opened, c)
         /\ \A p : European!Key(p) = KeyIn(opened, p) /\ European!At(p) = opened[p[1]].items[p[2]]
         /\ \A p, q : European!Before(p, q) <=> p[1] < q[1] \/ (p[1] = q[1] /\ p[2] < q[2])
<1>1. \A c : European!Of(c) = OfIn(opened, c)
  BY DEF European!Of, OfIn
<1>2. \A p : European!Key(p) = KeyIn(opened, p) /\ European!At(p) = opened[p[1]].items[p[2]]
  BY DEF European!Key, European!At, KeyIn
<1>3. ASSUME NEW c
      PROVE  European!Places(c) = PlacesIn(opened, c)
  <2>1. \A i \in OfIn(opened, c) : i \in Nat /\ DOMAIN opened[i].items \subseteq Nat
    <3> SUFFICES ASSUME NEW i \in OfIn(opened, c)
                 PROVE  i \in Nat /\ DOMAIN opened[i].items \subseteq Nat
      OBVIOUS
    <3>1. i \in DOMAIN opened
      BY DEF OfIn
    <3>2. i \in Nat /\ opened[i] \in Shipments
      BY <3>1
    <3>3. opened[i].items \in Seq([rule : STRING, price : Nat, quantity : Nat, weight : Nat])
      BY <3>2 DEF Shipments
    <3>4. DOMAIN opened[i].items = 1 .. Len(opened[i].items)
      BY <3>3
    <3> QED
      BY <3>2, <3>4
  <2>2. \A p : p \in PlacesIn(opened, c) => p \in European!Places(c)
    <3> SUFFICES ASSUME NEW p \in PlacesIn(opened, c)
                 PROVE  p \in European!Places(c)
      OBVIOUS
    <3>1. p \in Nat \X Nat /\ p = <<p[1], p[2]>> /\ p[1] \in OfIn(opened, c) /\ p[2] \in DOMAIN opened[p[1]].items
      BY DEF PlacesIn
    <3> QED
      BY <1>1, <3>1 DEF European!Places
  <2>3. \A p : p \in European!Places(c) => p \in PlacesIn(opened, c)
    <3> SUFFICES ASSUME NEW p \in European!Places(c)
                 PROVE  p \in PlacesIn(opened, c)
      OBVIOUS
    <3>1. PICK i \in OfIn(opened, c) : p \in {<<i, k>> : k \in DOMAIN opened[i].items}
      BY <1>1 DEF European!Places
    <3>2. PICK k \in DOMAIN opened[i].items : p = <<i, k>>
      BY <3>1
    <3>3. p \in Nat \X Nat /\ p[1] = i /\ p[2] = k
      BY <2>1, <3>2
    <3> QED
      BY <3>3 DEF PlacesIn
  <2> QED
    BY <2>2, <2>3
<1>4. \A p, q : European!Before(p, q) <=> p[1] < q[1] \/ (p[1] = q[1] /\ p[2] < q[2])
  BY DEF European!Before
<1> QED
  BY <1>1, <1>2, <1>3, <1>4

(* The module's rows are those above.                                        *)
LEMMA EuropeanBelongs ==
  ASSUME read \in Seq(EuropeanRow), NEW i \in DOMAIN read, NEW c
  PROVE  European!Belongs(i, c) <=> RowOf(read, i, c)
<1> DEFINE H == {j \in 1 .. i : European!Heading(read[j])}
           m == European!Above(i)
<1>1. i \in Nat
  OBVIOUS
<1>2. m = CHOOSE x \in H : \A y \in H : x >= y
  BY DEF European!Above, European!Max
<1>3. European!Headed(i) <=> H # {}
  BY DEF European!Headed
<1>4. European!Belongs(i, c) <=> H # {} /\ c = CategoryOf(read[m])
  BY <1>3 DEF European!Belongs, CategoryOf
<1>5. \A j : j \in H <=> j \in 1 .. i /\ read[j].fba # European!Missing
  BY DEF European!Heading
<1> HIDE DEF H, m
<1>6. H # {} => m \in H /\ \A y \in H : m >= y
  <2> SUFFICES ASSUME H # {}
               PROVE  m \in H /\ \A y \in H : m >= y
    OBVIOUS
  <2>1. H \in SUBSET (1 .. i)
    BY <1>5
  <2>2. PICK k \in H : \A l \in H : l <= k
    BY <1>1, <2>1, Greatest
  <2>3. \A l \in H : l \in Int
    BY <2>1
  <2>4. \A l \in H : k >= l
    BY <2>2, <2>3
  <2> QED
    BY <1>2, <2>4
<1>7. ASSUME H # {}, c = CategoryOf(read[m])
      PROVE  RowOf(read, i, c)
  <2>1. m \in 1 .. i /\ read[m].fba # European!Missing /\ \A k \in (m + 1) .. i : ~(k \in H)
    BY <1>1, <1>5, <1>6, <1>7
  <2>2. \A k \in (m + 1) .. i : k \in 1 .. i
    BY <1>1, <2>1
  <2> QED
    BY <1>5, <1>7, <2>1, <2>2 DEF RowOf
<1>8. ASSUME RowOf(read, i, c)
      PROVE  H # {} /\ c = CategoryOf(read[m])
  <2>1. PICK j \in 1 .. i : read[j].fba # European!Missing /\ c = CategoryOf(read[j]) /\ \A k \in (j + 1) .. i : read[k].fba = European!Missing
    BY <1>8 DEF RowOf
  <2>2. j \in H
    BY <1>5, <2>1
  <2>3. m \in H /\ m >= j /\ m \in 1 .. i
    BY <1>5, <1>6, <2>2
  <2>4. ~(m \in (j + 1) .. i)
    BY <1>5, <2>1, <2>3
  <2>5. m = j
    BY <1>1, <2>3, <2>4
  <2> QED
    BY <2>1, <2>2, <2>5
<1> QED
  BY <1>4, <1>7, <1>8

(* Places are in order, and those of a finite set are counted by it.         *)
Order(p, q) == p[1] < q[1] \/ (p[1] = q[1] /\ p[2] < q[2])
Lower(F, p) == {q \in F : Order(q, p)}
LEMMA Ranked ==
  ASSUME NEW F \in SUBSET (Nat \X Nat), IsFiniteSet(F)
  PROVE  /\ Cardinality(F) \in Nat
         /\ \A p \in F : Cardinality(Lower(F, p)) \in Nat /\ Cardinality(Lower(F, p)) + 1 \in 1 .. Cardinality(F)
         /\ \A n \in 1 .. Cardinality(F) : \E p \in F : Cardinality(Lower(F, p)) = n - 1
         /\ \A p, q \in F : Cardinality(Lower(F, p)) = Cardinality(Lower(F, q)) => p = q
<1>1. Cardinality(F) \in Nat
  BY FS_CardinalityType
<1>2. \A p, q, x \in Nat \X Nat : /\ p = q \/ Order(p, q) \/ Order(q, p)
                                  /\ Order(p, q) /\ Order(q, x) => Order(p, x)
                                  /\ ~Order(p, p)
  <2> SUFFICES ASSUME NEW p \in Nat \X Nat, NEW q \in Nat \X Nat, NEW x \in Nat \X Nat
               PROVE  /\ p = q \/ Order(p, q) \/ Order(q, p)
                      /\ Order(p, q) /\ Order(q, x) => Order(p, x)
                      /\ ~Order(p, p)
    OBVIOUS
  <2>1. p[1] \in Nat /\ p[2] \in Nat /\ q[1] \in Nat /\ q[2] \in Nat /\ x[1] \in Nat /\ x[2] \in Nat
    OBVIOUS
  <2>2. p = <<p[1], p[2]>> /\ q = <<q[1], q[2]>>
    OBVIOUS
  <2>3. p[1] = q[1] /\ p[2] = q[2] => p = q
    BY <2>2
  <2> QED
    BY <2>1, <2>3 DEF Order
<1>3. \A p \in F : IsFiniteSet(Lower(F, p)) /\ Cardinality(Lower(F, p)) \in Nat /\ Cardinality(Lower(F, p)) < Cardinality(F)
  <2> SUFFICES ASSUME NEW p \in F
               PROVE  IsFiniteSet(Lower(F, p)) /\ Cardinality(Lower(F, p)) \in Nat /\ Cardinality(Lower(F, p)) < Cardinality(F)
    OBVIOUS
  <2>1. Lower(F, p) \in SUBSET F /\ Lower(F, p) # F
    BY <1>2 DEF Lower
  <2>2. IsFiniteSet(Lower(F, p)) /\ Cardinality(Lower(F, p)) <= Cardinality(F) /\ Cardinality(Lower(F, p)) # Cardinality(F)
    BY <2>1, FS_Subset
  <2>3. Cardinality(Lower(F, p)) \in Nat
    BY <2>2, FS_CardinalityType
  <2> QED
    BY <1>1, <2>2, <2>3
<1>4. ASSUME NEW p \in F, NEW q \in F, Order(p, q)
      PROVE  Cardinality(Lower(F, p)) # Cardinality(Lower(F, q))
  <2>1. Lower(F, p) \in SUBSET Lower(F, q)
    BY <1>2, <1>4 DEF Lower
  <2>2. p \in Lower(F, q) /\ p \notin Lower(F, p)
    BY <1>2, <1>4 DEF Lower
  <2>3. IsFiniteSet(Lower(F, q))
    BY <1>3
  <2> QED
    BY <2>1, <2>2, <2>3, FS_Subset
<1>5. \A p, q \in F : Cardinality(Lower(F, p)) = Cardinality(Lower(F, q)) => p = q
  BY <1>2, <1>4
<1> DEFINE N == Cardinality(F)
           g == [p \in F |-> Cardinality(Lower(F, p)) + 1]
<1>6. IsFiniteSet(1 .. N) /\ Cardinality(1 .. N) = N
  BY <1>1, FS_Interval
<1>7. \A p \in F : Cardinality(Lower(F, p)) + 1 \in 1 .. N
  BY <1>1, <1>3
<1>8. g \in Injection(F, 1 .. N)
  <2>1. g \in [F -> 1 .. N]
    BY <1>7
  <2>2. \A p, q \in F : g[p] = g[q] => p = q
    <3>1. \A p, q \in F : Cardinality(Lower(F, p)) + 1 = Cardinality(Lower(F, q)) + 1 => Cardinality(Lower(F, p)) = Cardinality(Lower(F, q))
      BY <1>3
    <3> QED
      BY <1>5, <3>1
  <2> QED
    BY <2>1, <2>2 DEF Injection, IsInjective
<1>9. g \in Surjection(F, 1 .. N)
  BY <1>6, <1>8, FS_Injection
<1>10. ASSUME NEW n \in 1 .. N
       PROVE  \E p \in F : Cardinality(Lower(F, p)) = n - 1
  <2>1. PICK p \in F : g[p] = n
    BY <1>9 DEF Surjection
  <2>2. Cardinality(Lower(F, p)) + 1 = n /\ Cardinality(Lower(F, p)) \in Nat
    BY <1>3, <2>1
  <2>3. Cardinality(Lower(F, p)) = n - 1
    BY <2>2
  <2> QED
    BY <2>3
<1> QED
  BY <1>1, <1>3, <1>5, <1>7, <1>10

(* One of them is the first.                                                 *)
LEMMA FirstPlace ==
  ASSUME NEW F \in SUBSET (Nat \X Nat), IsFiniteSet(F), F # {}
  PROVE  \E p \in F : \A q \in F : ~Order(q, p)
<1>1. Cardinality(F) \in Nat /\ Cardinality(F) # 0
  BY FS_CardinalityType, FS_EmptySet
<1>2. PICK p \in F : Cardinality(Lower(F, p)) = 1 - 1
  BY <1>1, Ranked
<1>3. Lower(F, p) \in SUBSET F
  BY DEF Lower
<1>4. IsFiniteSet(Lower(F, p)) /\ Cardinality(Lower(F, p)) = 0
  BY <1>2, <1>3, FS_Subset
<1>5. Lower(F, p) = {}
  BY <1>4, FS_EmptySet
<1> QED
  BY <1>5 DEF Lower

(* The keys of a category are those of its places, one after the other.      *)
LEMMA EuropeanKeys ==
  ASSUME opened \in Seq(Shipments), NEW c, IsFiniteSet(PlacesIn(opened, c))
  PROVE  \E N \in Nat : /\ DOMAIN European!Keys(c) = 1 .. N
                        /\ European!Range(European!Keys(c)) = {KeyIn(opened, p) : p \in PlacesIn(opened, c)}
<1> DEFINE P == PlacesIn(opened, c)
           F == {p \in P : \A q \in P : European!Before(q, p) => European!Key(q) # European!Key(p)}
<1>1. P \subseteq Nat \X Nat /\ IsFiniteSet(P)
  BY DEF PlacesIn
<1>2. European!Keys(c) = [n \in 1 .. European!Cardinality(F) |-> European!Key(European!Nth(F, n))]
  <2>1. European!Places(c) = P
    BY EuropeanPlaces
  <2> HIDE DEF P
  <2> QED
    BY <2>1 DEF European!Keys
<1>3. \A S : European!Cardinality(S) = Cardinality(S)
  BY DEF European!Cardinality, Cardinality, European!IsFiniteSet, IsFiniteSet
<1>4. \A p, q : European!Before(q, p) <=> Order(q, p)
  BY EuropeanPlaces DEF Order
<1>5. \A p : European!Key(p) = KeyIn(opened, p)
  BY EuropeanPlaces
<1> HIDE DEF P
<1>6. F \in SUBSET (Nat \X Nat) /\ IsFiniteSet(F)
  <2>1. F \in SUBSET P
    OBVIOUS
  <2> QED
    BY <1>1, <2>1, FS_Subset
<1>7. \A p : p \in F <=> p \in P /\ \A q \in P : Order(q, p) => KeyIn(opened, q) # KeyIn(opened, p)
  BY <1>4, <1>5
<1> HIDE DEF F
<1> DEFINE N == Cardinality(F)
<1>8. \A n : European!Nth(F, n) = CHOOSE p \in F : Cardinality(Lower(F, p)) = n - 1
  BY <1>3, <1>4 DEF European!Nth, Lower
<1>9. /\ N \in Nat
      /\ \A p \in F : Cardinality(Lower(F, p)) \in Nat /\ Cardinality(Lower(F, p)) + 1 \in 1 .. N
      /\ \A n \in 1 .. N : \E p \in F : Cardinality(Lower(F, p)) = n - 1
      /\ \A p, q \in F : Cardinality(Lower(F, p)) = Cardinality(Lower(F, q)) => p = q
  BY <1>6, Ranked
<1>10. \A n \in 1 .. N : European!Nth(F, n) \in F /\ Cardinality(Lower(F, European!Nth(F, n))) = n - 1
  BY <1>8, <1>9
<1>11. \A p \in F : \E n \in 1 .. N : European!Nth(F, n) = p
  <2> SUFFICES ASSUME NEW p \in F
               PROVE  \E n \in 1 .. N : European!Nth(F, n) = p
    OBVIOUS
  <2> DEFINE n == Cardinality(Lower(F, p)) + 1
  <2>1. n \in 1 .. N /\ Cardinality(Lower(F, p)) = n - 1
    BY <1>9
  <2> HIDE DEF n
  <2>2. European!Nth(F, n) = p
    BY <1>9, <1>10, <2>1
  <2> QED
    BY <2>1, <2>2
<1>12. DOMAIN European!Keys(c) = 1 .. N /\ \A n \in 1 .. N : European!Keys(c)[n] = KeyIn(opened, European!Nth(F, n))
  BY <1>2, <1>3, <1>5
<1>13. \A p \in P : \E q \in F : KeyIn(opened, q) = KeyIn(opened, p)
  <2> SUFFICES ASSUME NEW p \in P
               PROVE  \E q \in F : KeyIn(opened, q) = KeyIn(opened, p)
    OBVIOUS
  <2> DEFINE E == {q \in P : KeyIn(opened, q) = KeyIn(opened, p)}
  <2>1. E \in SUBSET P /\ E # {}
    OBVIOUS
  <2>2. E \in SUBSET (Nat \X Nat) /\ IsFiniteSet(E)
    BY <1>1, <2>1, FS_Subset
  <2>3. PICK q \in E : \A x \in E : ~Order(x, q)
    BY <2>1, <2>2, FirstPlace
  <2>4. q \in F
    BY <1>7, <2>3
  <2> QED
    BY <2>3, <2>4
<1>14. \A x : x \in European!Range(European!Keys(c)) <=> \E n \in 1 .. N : x = KeyIn(opened, European!Nth(F, n))
  BY <1>12 DEF European!Range
<1>15. \A x : x \in European!Range(European!Keys(c)) => \E p \in P : x = KeyIn(opened, p)
  BY <1>7, <1>10, <1>14
<1>16. \A p \in P : KeyIn(opened, p) \in European!Range(European!Keys(c))
  BY <1>11, <1>13, <1>14
<1>17. European!Range(European!Keys(c)) = {KeyIn(opened, p) : p \in P}
  BY <1>15, <1>16
<1> QED
  BY <1>9, <1>12, <1>17 DEF P

(* What is declared depends on the shipments only.                           *)
LEMMA SameFiles ==
  ASSUME opened' = opened
  PROVE  European!Categories' = European!Categories /\ \A c : European!File(c)' = European!File(c)
<1>1. European!Categories' = European!Categories
  BY DEF European!Categories
<1>2. \A c : European!Of(c)' = European!Of(c)
  BY DEF European!Of
<1>3. \A c : European!Places(c)' = European!Places(c)
  BY <1>2 DEF European!Places
<1>4. \A p : European!At(p)' = European!At(p) /\ European!Key(p)' = European!Key(p)
  BY DEF European!At, European!Key
<1>5. \A c : European!Keys(c)' = European!Keys(c)
  BY <1>3, <1>4 DEF European!Keys
<1>6. \A c, key, field : European!Grouped(c, key, field)' = European!Grouped(c, key, field)
  BY <1>3, <1>4 DEF European!Grouped
<1>7. \A c, field : European!Column(c, field)' = European!Column(c, field)
  BY <1>5, <1>6 DEF European!Column
<1>8. \A c : European!Gross(c)' = European!Gross(c)
  BY <1>2 DEF European!Gross
<1>9. \A c : European!File(c)' = European!File(c)
  BY <1>2, <1>5, <1>7, <1>8 DEF European!File
<1> QED
  BY <1>1, <1>9

(* What a step of the sheet keeps.                                           *)
LEMMA EuropeanStep ==
  ASSUME EuropeanInv, [European!Next]_europeanVars
  PROVE  EuropeanInv'
<1>1. CASE UNCHANGED europeanVars
  BY <1>1, SameFiles DEF EuropeanInv, europeanVars
<1>2. CASE European!Analyze
  <2>1. read' = read /\ opened' = opened /\ current' = current /\ reading' = FALSE /\ errors \subseteq errors'
    BY <1>2 DEF European!Analyze
  <2>2. files' # <<>> => errors' = {} /\ files' = [c \in European!Categories |-> European!File(c)]
    BY <1>2 DEF European!Analyze
  <2>3. errors' = {} => \A k \in DOMAIN opened : opened[k].items # <<>>
    <3>1. errors' = {} => European!Empty = {}
      BY <1>2 DEF European!Analyze
    <3> QED
      BY <3>1 DEF European!Empty
  <2> QED
    BY <2>1, <2>2, <2>3, SameFiles DEF EuropeanInv
<1>3. CASE European!Unreadable
  BY <1>3 DEF EuropeanInv, European!Unreadable
<1>4. CASE European!ReadRow
  <2>1. PICK row \in EuropeanRows :
          LET skipped == European!Heading(row) /\ ~European!ValidHeading(row)
              started == IF European!Heading(row) /\ ~skipped THEN Append(opened, European!Shipment(row)) ELSE opened
              open == IF skipped THEN 0 ELSE IF European!Heading(row) THEN Len(started) ELSE current
              wrong == European!HeadingFault(row) \cup (IF skipped THEN {} ELSE European!ProductFault(row, open))
          IN
          /\ read' = Append(read, row)
          /\ current' = open
          /\ errors' = errors \cup wrong
          /\ opened' = IF skipped \/ row.product = European!Missing \/ open = 0 \/ European!ProductFault(row, open) # {} THEN started
                       ELSE [started EXCEPT ![open].items = Append(@, European!Item(row))]
    BY <1>4 DEF European!ReadRow
  <2>2. row \in EuropeanRow
    BY EuropeanAssumption
  <2>3. reading /\ reading' = reading /\ files' = files /\ files = <<>>
    BY <1>4 DEF European!ReadRow, EuropeanInv
  <2>4. read' = Append(read, row) /\ read' \in Seq(EuropeanRow)
    BY <2>1, <2>2 DEF EuropeanInv
  <2>5. ASSUME errors' = {}
        PROVE  opened' \in Seq(Shipments) /\ current' = Len(opened') /\ Faithful(read', opened')
    <3>1. errors = {} /\ European!HeadingFault(row) = {}
      BY <2>1, <2>5
    <3>2. opened \in Seq(Shipments) /\ current = Len(opened) /\ Faithful(read, opened)
      BY <3>1 DEF EuropeanInv
    <3>3. row.fba # European!Missing => row.gross > 0
      BY <3>1 DEF European!HeadingFault, European!ValidHeading, European!Heading
    <3>4. ~(European!Heading(row) /\ ~European!ValidHeading(row))
      BY <3>1 DEF European!HeadingFault
    <3> DEFINE q == Started(opened, row)
    <3>5. q = IF European!Heading(row) THEN Append(opened, European!Shipment(row)) ELSE opened
      BY DEF Started, European!Heading
    <3> HIDE DEF q
    <3>6. /\ current' = Len(q)
          /\ European!ProductFault(row, Len(q)) = {}
          /\ opened' = IF row.product = European!Missing \/ Len(q) = 0 THEN q
                       ELSE [q EXCEPT ![Len(q)].items = Append(@, European!Item(row))]
      <4>1. CASE European!Heading(row)
        BY <2>1, <2>5, <3>4, <3>5, <4>1
      <4>2. CASE ~European!Heading(row)
        BY <2>1, <2>5, <3>2, <3>4, <3>5, <4>2
      <4> QED
        BY <4>1, <4>2
    <3>7. q \in Seq(Shipments)
      BY <2>2, <3>2, StartedIs DEF q
    <3>8. row.product # European!Missing => Len(q) # 0 /\ row.weight > 0 /\ row.quantity > 0
      <4>1. row.weight \in Nat /\ row.quantity \in Nat
        BY <2>2 DEF EuropeanRow
      <4>2. row.product # European!Missing => Len(q) # 0 /\ ~(row.weight <= 0) /\ ~(row.quantity <= 0)
        <5> HIDE DEF European!Missing
        <5>1. \A x : {x} # {}
          OBVIOUS
        <5> QED
          BY <3>6, <5>1 DEF European!ProductFault
      <4> QED
        BY <4>1, <4>2
    <3>9. Fine(opened, row)
      BY <3>3, <3>7, <3>8 DEF Fine, q
    <3>10. opened' = Entered(opened, row)
      BY <3>6, <3>8 DEF Entered, Filled, q
    <3>11. /\ Entered(opened, row) \in Seq(Shipments) /\ Faithful(Append(read, row), Entered(opened, row))
           /\ Len(Entered(opened, row)) = Len(q)
      BY <2>2, <3>2, <3>9, RowKept DEF EuropeanInv, q
    <3> QED
      BY <2>4, <3>6, <3>10, <3>11
  <2> QED
    BY <2>3, <2>4, <2>5 DEF EuropeanInv
<1> QED
  BY <1>1, <1>2, <1>3, <1>4 DEF European!Next

(* Every item of a declared category weighs something, and there is one.     *)
LEMMA ColumnWeighs ==
  ASSUME opened \in Seq(Shipments), FinitePlaces(opened), Weighty(opened), \A k \in DOMAIN opened : opened[k].items # <<>>,
         NEW c \in European!Categories
  PROVE  /\ European!Column(c, "weight") \in Seq(Nat) /\ European!Column(c, "weight") # <<>>
         /\ Total(European!Column(c, "weight")) # 0
<1> DEFINE P == PlacesIn(opened, c)
           keys == European!Keys(c)
           column == European!Column(c, "weight")
<1>1. IsFiniteSet(P) /\ P \subseteq Nat \X Nat
  BY DEF FinitePlaces, PlacesIn
<1>2. \A p \in P : European!At(p)["weight"] \in Nat /\ European!At(p)["weight"] > 0
  <2> SUFFICES ASSUME NEW p \in P
               PROVE  European!At(p)["weight"] \in Nat /\ European!At(p)["weight"] > 0
    OBVIOUS
  <2>1. p[1] \in DOMAIN opened /\ p[2] \in DOMAIN opened[p[1]].items
    BY DEF PlacesIn, OfIn
  <2>2. opened[p[1]].items \in Seq([rule : STRING, price : Nat, quantity : Nat, weight : Nat])
    <3>1. opened[p[1]] \in Shipments
      BY <2>1
    <3> QED
      BY <3>1 DEF Shipments
  <2>3. opened[p[1]].items[p[2]] \in [rule : STRING, price : Nat, quantity : Nat, weight : Nat]
    BY <2>1, <2>2, ElementOf, Zenon
  <2>4. opened[p[1]].items[p[2]].weight > 0
    BY <2>1 DEF Weighty
  <2>5. European!At(p) = opened[p[1]].items[p[2]]
    BY EuropeanPlaces
  <2> QED
    BY <2>3, <2>4, <2>5
<1>3. PICK N \in Nat : DOMAIN keys = 1 .. N /\ European!Range(keys) = {KeyIn(opened, p) : p \in P}
  BY <1>1, EuropeanKeys
<1>4. P # {}
  <2>1. PICK k \in DOMAIN opened : opened[k].category = c
    BY DEF European!Categories
  <2>2. opened[k] \in Shipments /\ k \in Nat
    BY <2>1
  <2>3. opened[k].items \in Seq([rule : STRING, price : Nat, quantity : Nat, weight : Nat]) /\ opened[k].items # <<>>
    BY <2>2 DEF Shipments
  <2>4. 1 \in DOMAIN opened[k].items
    BY <2>3
  <2>5. <<k, 1>> \in P
    BY <2>1, <2>2, <2>4 DEF PlacesIn, OfIn
  <2> QED
    BY <2>5
<1>5. European!Places(c) = P /\ \A p : European!Key(p) = KeyIn(opened, p)
  BY EuropeanPlaces
<1> HIDE DEF P, keys
<1>6. N # 0
  <2>1. PICK p \in P : TRUE
    BY <1>4
  <2>2. KeyIn(opened, p) \in European!Range(keys)
    BY <1>3, <2>1
  <2> QED
    BY <1>3, <2>2 DEF European!Range
<1>7. column = [k \in 1 .. N |-> European!Grouped(c, keys[k], "weight")]
  BY <1>3 DEF European!Column, keys
<1>8. ASSUME NEW k \in 1 .. N
      PROVE  European!Grouped(c, keys[k], "weight") \in Nat /\ European!Grouped(c, keys[k], "weight") > 0
  <2> DEFINE D == {q \in P : European!Key(q) = keys[k]}
             f == [p \in D |-> European!At(p)["weight"]]
  <2>1. European!Grouped(c, keys[k], "weight") = Total(f)
    <3>1. European!Grouped(c, keys[k], "weight") = European!Total(f)
      BY <1>5 DEF European!Grouped
    <3> QED
      BY <3>1, EuropeanSums
  <2>2. D \in SUBSET P /\ IsFiniteSet(D)
    <3>1. D \in SUBSET P
      OBVIOUS
    <3> QED
      BY <1>1, <3>1, FS_Subset
  <2>3. keys[k] \in European!Range(keys)
    BY <1>3 DEF European!Range
  <2>4. PICK p \in D : TRUE
    BY <1>3, <1>5, <2>3
  <2>5. DOMAIN f = D /\ \A y \in D : f[y] \in Nat /\ f[y] > 0
    BY <1>2, <2>2
  <2> HIDE DEF f, D
  <2>6. Total(f) \in Nat /\ \A y \in DOMAIN f : f[y] <= Total(f)
    BY <2>2, <2>5, TotalBounds
  <2>7. Total(f) > 0
    <3>1. f[p] <= Total(f) /\ f[p] \in Nat /\ f[p] > 0
      BY <2>4, <2>5, <2>6
    <3> QED
      BY <2>6, <3>1
  <2> QED
    BY <2>1, <2>6, <2>7
<1> HIDE DEF column
<1>9. DOMAIN column = 1 .. N /\ \A k \in 1 .. N : column[k] \in Nat /\ column[k] > 0
  BY <1>7, <1>8
<1>10. column \in Seq(Nat) /\ column # <<>>
  <2>1. column = [k \in 1 .. N |-> column[k]]
    BY <1>7
  <2>2. column \in Seq(Nat)
    BY <1>3, <1>9, <2>1
  <2>3. 1 \in DOMAIN column
    BY <1>3, <1>6, <1>9
  <2> QED
    BY <2>2, <2>3
<1>11. Total(column) # 0
  <2>1. IsFiniteSet(DOMAIN column)
    BY <1>3, <1>9, FS_Interval
  <2>2. Total(column) \in Nat /\ \A k \in DOMAIN column : column[k] <= Total(column)
    BY <1>9, <2>1, TotalBounds
  <2>3. 1 \in DOMAIN column
    BY <1>3, <1>6, <1>9
  <2>4. column[1] \in Nat /\ column[1] > 0 /\ column[1] <= Total(column)
    BY <1>9, <2>2, <2>3
  <2> QED
    BY <2>2, <2>4
<1> QED
  BY <1>10, <1>11 DEF column

(* The invariant says what is to be declared.                                *)
LEMMA EuropeanDeclared == EuropeanInv => RowsDeclared
<1> SUFFICES ASSUME EuropeanInv, files # <<>>
             PROVE  /\ \A i \in DOMAIN read : European!Heading(read[i]) \/ read[i].product # European!Missing =>
                          \E c \in DOMAIN files : European!Belongs(i, c)
                    /\ \A c \in DOMAIN files :
                          /\ files[c].boxes = European!Total([i \in {j \in DOMAIN read : European!Heading(read[j]) /\ European!Belongs(j, c)} |-> read[i].boxes])
                          /\ \A k \in DOMAIN files[c].items :
                                files[c].quantity[k] = European!Total([i \in {j \in DOMAIN read :
                                    European!Belongs(j, c) /\ <<read[j].product, read[j].price>> = files[c].items[k]} |-> read[i].quantity])
                          /\ {<<read[i].product, read[i].price>> : i \in {j \in DOMAIN read : European!Belongs(j, c) /\ read[j].product # European!Missing}}
                                = European!Range(files[c].items)
                          /\ European!Split(European!Gross(c), European!Column(c, "weight"), files[c].gross, files[c].net)
  BY DEF RowsDeclared, European!RowsDeclared
<1>1. /\ read \in Seq(EuropeanRow) /\ opened \in Seq(Shipments) /\ Faithful(read, opened)
      /\ files = [c \in European!Categories |-> European!File(c)] /\ \A k \in DOMAIN opened : opened[k].items # <<>>
  BY DEF EuropeanInv
<1>2. /\ FinitePlaces(opened) /\ SameBoxes(read, opened) /\ SameKeys(read, opened) /\ SameQuantities(read, opened)
      /\ Placed(read, opened) /\ Weighty(opened)
  BY <1>1 DEF Faithful
<1>3. \A i \in DOMAIN read : \A c : European!Belongs(i, c) <=> RowOf(read, i, c)
  BY <1>1, EuropeanBelongs
<1>4. \A f : European!Total(f) = Total(f)
  BY EuropeanSums
<1>5. DOMAIN files = European!Categories /\ \A c \in European!Categories : files[c] = European!File(c)
  BY <1>1
<1>6. ASSUME NEW i \in DOMAIN read, European!Heading(read[i]) \/ read[i].product # European!Missing
      PROVE  \E c \in DOMAIN files : European!Belongs(i, c)
  <2>1. PICK k \in DOMAIN opened : RowOf(read, i, opened[k].category)
    BY <1>2, <1>6 DEF Placed, European!Heading
  <2>2. opened[k].category \in DOMAIN files
    BY <1>5 DEF European!Categories
  <2> QED
    BY <1>3, <2>1, <2>2
<1>7. ASSUME NEW c \in DOMAIN files
      PROVE  /\ files[c].boxes = European!Total([i \in {j \in DOMAIN read : European!Heading(read[j]) /\ European!Belongs(j, c)} |-> read[i].boxes])
             /\ \A k \in DOMAIN files[c].items :
                   files[c].quantity[k] = European!Total([i \in {j \in DOMAIN read :
                       European!Belongs(j, c) /\ <<read[j].product, read[j].price>> = files[c].items[k]} |-> read[i].quantity])
             /\ {<<read[i].product, read[i].price>> : i \in {j \in DOMAIN read : European!Belongs(j, c) /\ read[j].product # European!Missing}}
                   = European!Range(files[c].items)
             /\ European!Split(European!Gross(c), European!Column(c, "weight"), files[c].gross, files[c].net)
  <2>1. /\ files[c].boxes = European!Total([i \in European!Of(c) |-> opened[i].boxes]) /\ files[c].items = European!Keys(c)
        /\ files[c].quantity = European!Column(c, "quantity")
        /\ files[c].gross = European!Shares(European!Gross(c), European!Column(c, "weight"))
        /\ files[c].net = European!Shares(European!Net(European!Gross(c)), European!Column(c, "weight"))
    BY <1>5 DEF European!File
  <2>2. /\ European!Of(c) = OfIn(opened, c) /\ European!Places(c) = PlacesIn(opened, c)
        /\ \A p : European!Key(p) = KeyIn(opened, p) /\ European!At(p) = opened[p[1]].items[p[2]]
    BY <1>1, EuropeanPlaces
  <2>3. files[c].boxes = European!Total([i \in {j \in DOMAIN read : European!Heading(read[j]) /\ European!Belongs(j, c)} |-> read[i].boxes])
    <3>1. {j \in DOMAIN read : European!Heading(read[j]) /\ European!Belongs(j, c)} = HeadsIn(read, c)
      BY <1>3 DEF HeadsIn, European!Heading
    <3>2. Total([i \in OfIn(opened, c) |-> opened[i].boxes]) = Total([i \in HeadsIn(read, c) |-> read[i].boxes])
      BY <1>2 DEF SameBoxes
    <3> QED
      BY <1>4, <2>1, <2>2, <3>1, <3>2
  <2>4. PICK N \in Nat : DOMAIN European!Keys(c) = 1 .. N /\ European!Range(European!Keys(c)) = {KeyIn(opened, p) : p \in PlacesIn(opened, c)}
    BY <1>1, <1>2, EuropeanKeys DEF FinitePlaces
  <2>5. {KeyIn(opened, p) : p \in PlacesIn(opened, c)} = {KeyOf(read[i]) : i \in NamedIn(read, c)}
    BY <1>2 DEF SameKeys
  <2>6. {<<read[i].product, read[i].price>> : i \in {j \in DOMAIN read : European!Belongs(j, c) /\ read[j].product # European!Missing}}
           = European!Range(files[c].items)
    <3>1. {j \in DOMAIN read : European!Belongs(j, c) /\ read[j].product # European!Missing} = NamedIn(read, c)
      BY <1>3 DEF NamedIn
    <3> QED
      BY <2>1, <2>4, <2>5, <3>1 DEF KeyOf
  <2>7. ASSUME NEW k \in DOMAIN files[c].items
        PROVE  files[c].quantity[k] = European!Total([i \in {j \in DOMAIN read :
                   European!Belongs(j, c) /\ <<read[j].product, read[j].price>> = files[c].items[k]} |-> read[i].quantity])
    <3> DEFINE key == European!Keys(c)[k]
    <3>1. k \in DOMAIN European!Keys(c) /\ files[c].items[k] = key
      BY <2>1
    <3>2. key \in European!Range(European!Keys(c))
      BY <3>1 DEF European!Range
    <3>3. key[1] # European!Missing
      <4>1. PICK i \in NamedIn(read, c) : key = KeyOf(read[i])
        BY <2>4, <2>5, <3>2
      <4> HIDE DEF key
      <4>2. key[1] = read[i].product
        BY <4>1 DEF KeyOf
      <4> QED
        BY <4>2 DEF NamedIn
    <3>4. files[c].quantity[k] = European!Grouped(c, key, "quantity")
      BY <2>1, <3>1 DEF European!Column
    <3> HIDE DEF key
    <3>5. {q \in European!Places(c) : European!Key(q) = key} = KeyedIn(opened, c, key)
      BY <2>2 DEF KeyedIn
    <3>6. European!Grouped(c, key, "quantity") = Total([p \in KeyedIn(opened, c, key) |-> opened[p[1]].items[p[2]].quantity])
      BY <1>4, <2>2, <3>5 DEF European!Grouped
    <3>7. Total([p \in KeyedIn(opened, c, key) |-> opened[p[1]].items[p[2]].quantity]) = Total([i \in RowsIn(read, c, key) |-> read[i].quantity])
      BY <1>2, <3>3 DEF SameQuantities
    <3>8. {j \in DOMAIN read : European!Belongs(j, c) /\ <<read[j].product, read[j].price>> = key} = RowsIn(read, c, key)
      BY <1>3 DEF RowsIn, KeyOf
    <3> QED
      BY <1>4, <3>1, <3>4, <3>6, <3>7, <3>8
  <2>8. European!Split(European!Gross(c), European!Column(c, "weight"), files[c].gross, files[c].net)
    <3> DEFINE column == European!Column(c, "weight")
               gross == European!Gross(c)
    <3>1. column \in Seq(Nat) /\ column # <<>> /\ Total(column) # 0
      BY <1>1, <1>2, <1>5, ColumnWeighs
    <3>2. gross \in Nat
      <4> DEFINE f == [i \in OfIn(opened, c) |-> opened[i].gross]
      <4>1. gross = Total(f)
        BY <1>4, <2>2 DEF European!Gross
      <4>2. IsFiniteSet(OfIn(opened, c))
        BY <1>1, PartFinite DEF OfIn
      <4>3. \A i \in OfIn(opened, c) : opened[i].gross \in Nat
        <5>1. \A i \in OfIn(opened, c) : opened[i] \in Shipments
          BY <1>1 DEF OfIn
        <5> QED
          BY <5>1 DEF Shipments
      <4>4. DOMAIN f = OfIn(opened, c) /\ \A i \in OfIn(opened, c) : f[i] \in Nat
        BY <4>3
      <4> HIDE DEF f, gross
      <4>5. Total(f) \in Nat
        BY <4>2, <4>4, TotalBounds
      <4> QED
        BY <4>1, <4>5
    <3> HIDE DEF column, gross
    <3>3. Split(gross, column, Shares(gross, column), Shares(Net(gross), column))
      BY <3>1, <3>2, WeightsAreSplit
    <3>4. files[c].gross = Shares(gross, column) /\ files[c].net = Shares(Net(gross), column)
      BY <2>1, EuropeanSums DEF gross, column
    <3>5. European!Split(gross, column, files[c].gross, files[c].net)
      BY <3>3, <3>4, EuropeanSums
    <3> QED
      BY <3>5 DEF gross, column
  <2> QED
    BY <2>3, <2>6, <2>7, <2>8
<1> QED
  BY <1>6, <1>7

(* The files of a European declaration hold every row of the sheet: the     *)
(* boxes, the products and their quantities, and the weights without loss.   *)
THEOREM RowsAreDeclared == Work => []RowsDeclared
<1>1. InitWork => EuropeanInv
  <2> SUFFICES ASSUME InitWork PROVE EuropeanInv
    OBVIOUS
  <2>1. read = <<>> /\ opened = <<>> /\ current = 0 /\ files = <<>>
    BY DEF InitWork, European!Init
  <2>2. \A c : OfIn(opened, c) = {} /\ HeadsIn(read, c) = {} /\ NamedIn(read, c) = {} /\ PlacesIn(opened, c) = {}
    BY <2>1 DEF OfIn, HeadsIn, NamedIn, PlacesIn
  <2>3. \A c, key : KeyedIn(opened, c, key) = {} /\ RowsIn(read, c, key) = {}
    BY <2>1, <2>2 DEF KeyedIn, RowsIn
  <2>4. FinitePlaces(opened)
    BY <2>2, FS_EmptySet DEF FinitePlaces
  <2>5. SameBoxes(read, opened) /\ SameQuantities(read, opened)
    <3>1. ASSUME NEW f, NEW g, DOMAIN f = {}, DOMAIN g = {}
          PROVE  Total(f) = Total(g)
      BY <3>1, TotalNone
    <3> QED
      BY <2>2, <2>3, <3>1 DEF SameBoxes, SameQuantities
  <2>6. SameKeys(read, opened)
    BY <2>2 DEF SameKeys
  <2>7. Placed(read, opened) /\ Weighty(opened)
    BY <2>1 DEF Placed, Weighty, RowOf
  <2> QED
    BY <2>1, <2>4, <2>5, <2>6, <2>7 DEF EuropeanInv, Faithful
<1>2. EuropeanInv /\ [NextWork]_workVars => EuropeanInv'
  <2>1. [NextWork]_workVars => [European!Next]_europeanVars
    BY DEF NextWork, workVars
  <2> QED
    BY <2>1, EuropeanStep
<1> QED
  BY <1>1, <1>2, EuropeanDeclared, PTL DEF Work


-----------------------------------------------------------------------------
(***************************************************************************)
(* The registry of idempotency keys: a request that is repeated is answered *)
(* with the run of the first, for every set of keys, contents and requests *)
(* (the promise of OnePromise).                                            *)
(***************************************************************************)

\* A request that has arrived has a key and a content.
Arrived ==
  \A c \in Calls : call[c].pc /= "idle" => call[c].key \in Keys /\ call[c].print \in Prints

\* The key of a call between INSERT and commit is its own, and has no row that
\* an INSERT would see.
Reserved ==
  \A c \in Calls : Submitting(c) => held[call[c].key] = c /\ ~Valid(call[c].key)

\* A run that a row or an answer names was created by a call that was answered.
NamedAnswered ==
  /\ \A k \in Keys : table[k] /= None => call[table[k].run].pc = "answered"
  /\ \A a \in told : a.run /= None => call[a.run].pc = "answered"

\* The inductive invariant.
Inv == TypeOK /\ Arrived /\ Reserved /\ NamedAnswered

USE DEF Submitting, Valid

LEMMA InitInv == Init => Inv
<1> SUFFICES ASSUME Init PROVE Inv
  OBVIOUS
<1>1. TypeOK
  BY DEF Init, Fresh, TypeOK
<1>2. Arrived /\ Reserved /\ NamedAnswered
  BY DEF Init, Fresh, Arrived, Reserved, NamedAnswered
<1> QED
  BY <1>1, <1>2 DEF Inv

\* The type of every variable is kept.
LEMMA NextType ==
  ASSUME Inv, [Next]_vars
  PROVE  TypeOK'
<1> USE DEF Inv, TypeOK
<1>1. ASSUME NEW c \in Calls, NEW k \in Keys, NEW f \in Prints, Begin(c, k, f) PROVE TypeOK'
  BY <1>1 DEF Begin
<1>2. ASSUME NEW c \in Calls, Reserve(c) PROVE TypeOK'
  BY <1>2 DEF Reserve
<1>3. ASSUME NEW c \in Calls, Create(c) PROVE TypeOK'
  BY <1>3 DEF Create
<1>4. ASSUME NEW c \in Calls, CreateRaises(c) PROVE TypeOK'
  BY <1>4 DEF CreateRaises
<1>5. ASSUME NEW c \in Calls, Commit(c) PROVE TypeOK'
  <2>1. call[c].key \in Keys /\ call[c].print \in Prints
    BY <1>5 DEF Commit, Arrived
  <2>2. table' \in [Keys -> [print : Prints, run : Calls, expired : BOOLEAN] \cup {None}]
    BY <1>5, <2>1 DEF Commit
  <2>3. told' \subseteq [key : Keys, print : Prints, run : Calls \cup {None}]
    BY <1>5, <2>1 DEF Commit, Answer
  <2> QED
    BY <1>5, <2>2, <2>3 DEF Commit
<1>6. ASSUME NEW c \in Calls, Replay(c) PROVE TypeOK'
  <2>1. call[c].key \in Keys /\ call[c].print \in Prints
    BY <1>6 DEF Replay, Arrived
  <2>2. Replayed(c) \in Calls \cup {None}
    BY <1>6, <2>1 DEF Replay, Replayed
  <2>3. told' \subseteq [key : Keys, print : Prints, run : Calls \cup {None}]
    BY <1>6, <2>1, <2>2 DEF Replay, Answer
  <2> QED
    BY <1>6, <2>3 DEF Replay
<1>7. ASSUME NEW c \in Calls, Aborted(c) PROVE TypeOK'
  BY <1>7 DEF Aborted, Released
<1>8. ASSUME NEW k \in Keys, Expire(k) PROVE TypeOK'
  BY <1>8 DEF Expire
<1>9. CASE UNCHANGED vars
  BY <1>9 DEF vars
<1> QED
  BY <1>1, <1>2, <1>3, <1>4, <1>5, <1>6, <1>7, <1>8, <1>9 DEF Next, Resolve

\* What the calls know of their keys is kept.
LEMMA NextInv ==
  ASSUME Inv, [Next]_vars
  PROVE  Inv'
<1> USE NoneAssumption DEF Inv, TypeOK, Arrived, Reserved, NamedAnswered
<1>0. TypeOK'
  BY NextType
<1>1. ASSUME NEW c \in Calls, NEW k \in Keys, NEW f \in Prints, Begin(c, k, f) PROVE Inv'
  BY <1>0, <1>1 DEF Begin
<1>2. ASSUME NEW c \in Calls, Reserve(c) PROVE Inv'
  BY <1>0, <1>2 DEF Reserve, Unlocked
<1>3. ASSUME NEW c \in Calls, Create(c) PROVE Inv'
  BY <1>0, <1>3 DEF Create
<1>4. ASSUME NEW c \in Calls, CreateRaises(c) PROVE Inv'
  BY <1>0, <1>4 DEF CreateRaises
<1>5. ASSUME NEW c \in Calls, Commit(c) PROVE Inv'
  <2>1. Arrived'
    BY <1>5 DEF Commit
  <2>2. Reserved'
    BY <1>5 DEF Commit
  <2>3. NamedAnswered'
    BY <1>5 DEF Commit, Answer
  <2> QED
    BY <1>0, <2>1, <2>2, <2>3
<1>6. ASSUME NEW c \in Calls, Replay(c) PROVE Inv'
  <2>1. call[c].key \in Keys
    BY <1>6 DEF Replay
  <2>2. Arrived' /\ Reserved'
    BY <1>6 DEF Replay
  <2>3. Replayed(c) = None \/ call[Replayed(c)].pc = "answered"
    BY <1>6, <2>1 DEF Replay, Replayed
  <2>4. NamedAnswered'
    BY <1>6, <2>3 DEF Replay, Answer
  <2> QED
    BY <1>0, <2>2, <2>4
<1>7. ASSUME NEW c \in Calls, Aborted(c) PROVE Inv'
  <2>1. Arrived' /\ NamedAnswered'
    BY <1>7 DEF Aborted
  <2>2. Reserved'
    BY <1>7 DEF Aborted, Released
  <2> QED
    BY <1>0, <2>1, <2>2
<1>8. ASSUME NEW k \in Keys, Expire(k) PROVE Inv'
  BY <1>0, <1>8 DEF Expire
<1>9. CASE UNCHANGED vars
  BY <1>0, <1>9 DEF vars
<1> QED
  BY <1>1, <1>2, <1>3, <1>4, <1>5, <1>6, <1>7, <1>8, <1>9 DEF Next, Resolve

\* The inductive invariant holds.
THEOREM Invariant == Spec => []Inv
<1> QED
  BY InitInv, NextInv, PTL DEF Spec

\* Every variable keeps its type.
THEOREM TypeCorrect == Spec => []TypeOK
<1>1. Inv => TypeOK
  BY DEF Inv
<1> QED
  BY <1>1, Invariant, PTL

\* The factory never runs for a key beside another: both calls would own the key.
THEOREM FactoryAlone == Spec => []OneFactory
<1>1. Inv => OneFactory
  BY DEF Inv, Reserved, OneFactory
<1> QED
  BY <1>1, Invariant, PTL

\* An answer stays given, so a run stops being an orphan for good; it becomes one
\* only by an abort between factory and commit.
THEOREM OrphanedByAbort == Spec => []OrphansAreAborted
<1>1. Init => OrphansAreAborted
  BY DEF Init, OrphansAreAborted
<1>2. ASSUME Inv, OrphansAreAborted, [Next]_vars PROVE OrphansAreAborted'
  <2> USE <1>2 DEF Inv, TypeOK, OrphansAreAborted
  <2>1. ASSUME NEW c \in Calls, NEW k \in Keys, NEW f \in Prints, Begin(c, k, f)
        PROVE  OrphansAreAborted'
    BY <2>1 DEF Begin
  <2>2. ASSUME NEW c \in Calls, Reserve(c) PROVE OrphansAreAborted'
    BY <2>2 DEF Reserve
  <2>3. ASSUME NEW c \in Calls, Create(c) PROVE OrphansAreAborted'
    BY <2>3 DEF Create
  <2>4. ASSUME NEW c \in Calls, CreateRaises(c) PROVE OrphansAreAborted'
    BY <2>4 DEF CreateRaises
  <2>5. ASSUME NEW c \in Calls, Commit(c) PROVE OrphansAreAborted'
    <3>1. told \subseteq told' /\ runs' = runs /\ faults' = faults
      BY <2>5 DEF Commit
    <3>2. \E a \in told' : a.run = c
      <4>1. Answer(call[c].key, call[c].print, c) \in told'
        BY <2>5 DEF Commit
      <4> QED
        BY <4>1 DEF Answer
    <3>3. \A d \in Calls \ {c} : call'[d] = call[d]
      BY <2>5 DEF Commit
    <3> QED
      BY <3>1, <3>2, <3>3
  <2>6. ASSUME NEW c \in Calls, Replay(c) PROVE OrphansAreAborted'
    BY <2>6 DEF Replay
  <2>7. ASSUME NEW c \in Calls, Aborted(c) PROVE OrphansAreAborted'
    BY <2>7 DEF Aborted
  <2>8. ASSUME NEW k \in Keys, Expire(k) PROVE OrphansAreAborted'
    BY <2>8 DEF Expire
  <2>9. CASE UNCHANGED vars
    BY <2>9 DEF vars
  <2> QED
    BY <2>1, <2>2, <2>3, <2>4, <2>5, <2>6, <2>7, <2>8, <2>9 DEF Next, Resolve
<1> QED
  BY <1>1, <1>2, Invariant, PTL DEF Spec

-----------------------------------------------------------------------------

\* A commit is the first answer to its key, an answer from a row a repetition.
LEMMA StepPromise ==
  ASSUME Inv, [Next]_vars
  PROVE  [Promises!Next]_(Promises!vars)
<1> DEFINE promise == [k \in Keys |-> Promised(k)]
<1> USE NoneAssumption DEF Inv, TypeOK, Arrived, Reserved, NamedAnswered
<1>1. ASSUME NEW c \in Calls, Commit(c) PROVE Promises!Next
  <2>1. PICK k \in Keys, f \in Prints : k = call[c].key /\ f = call[c].print
    BY <1>1 DEF Commit
  <2>2. ~Valid(k) /\ \A a \in told : a.run /= c
    BY <1>1, <2>1 DEF Commit
  <2>3. table' = [table EXCEPT ![k] = [print |-> f, run |-> c, expired |-> FALSE]]
    BY <1>1, <2>1 DEF Commit
  <2>4. ASSUME NEW j \in Keys, j /= k PROVE Promised(j)' = Promised(j)
    BY <2>3, <2>4 DEF Promised
  <2>5. Promised(k)' = [print |-> f, run |-> c]
    <3>1. table'[k] = [print |-> f, run |-> c, expired |-> FALSE]
      BY <2>3
    <3>2. table'[k] /= None
      BY <3>1, NoneIsNoRow
    <3> QED
      BY <3>1, <3>2 DEF Promised
  <2>6. promise' = [promise EXCEPT ![k] = [print |-> f, run |-> c]]
    BY <2>4, <2>5
  <2>7. promise[k] = None
    BY <2>2 DEF Promised
  <2>8. told' = told \cup {[key |-> k, print |-> f, run |-> c]}
    BY <1>1, <2>1 DEF Commit, Answer
  <2>9. Promises!First(k, f, c)
    BY <2>2, <2>6, <2>7, <2>8 DEF Promises!First
  <2> QED
    BY <2>9 DEF Promises!Next
<1>2. ASSUME NEW c \in Calls, Replay(c) PROVE Promises!Next
  <2>1. PICK k \in Keys, f \in Prints : k = call[c].key /\ f = call[c].print
    BY <1>2 DEF Replay
  <2>2. Valid(k) /\ table' = table
    BY <1>2, <2>1 DEF Replay
  <2>3. told' = told \cup {[key |-> k, print |-> f, run |-> Replayed(c)]}
    BY <1>2, <2>1 DEF Replay, Answer
  <2>4. promise[k] = [print |-> table[k].print, run |-> table[k].run]
    BY <2>2 DEF Promised
  <2>5. Replayed(c) = IF promise[k].print = f THEN promise[k].run ELSE None
    BY <2>1, <2>4 DEF Replayed
  <2>6. promise[k] /= None
    BY <2>2, <2>4, NoneIsNoRow
  <2>7. promise' = promise
    BY <2>2 DEF Promised
  <2>8. Promises!Repeat(k, f)
    BY <2>3, <2>5, <2>6, <2>7 DEF Promises!Repeat
  <2> QED
    BY <2>8 DEF Promises!Next
<1>3. ASSUME NEW k \in Keys, Expire(k) PROVE Promises!Next
  <2>1. Valid(k) /\ table' = [table EXCEPT ![k].expired = TRUE] /\ told' = told
    BY <1>3 DEF Expire
  <2>2. promise[k] = [print |-> table[k].print, run |-> table[k].run]
    BY <2>1 DEF Promised
  <2>3. promise[k] /= None
    BY <2>1, <2>2, NoneIsNoRow
  <2>4. ASSUME NEW j \in Keys, j /= k PROVE Promised(j)' = Promised(j)
    BY <2>1, <2>4 DEF Promised
  <2>5. table'[k].expired
    BY <2>1
  <2>6. Promised(k)' = None
    BY <2>5 DEF Promised
  <2>7. promise' = [promise EXCEPT ![k] = None]
    BY <2>4, <2>6
  <2>8. Promises!Expire(k)
    BY <2>1, <2>3, <2>7 DEF Promises!Expire
  <2> QED
    BY <2>8 DEF Promises!Next
<1>4. ASSUME UNCHANGED <<table, told>> PROVE UNCHANGED Promises!vars
  BY <1>4 DEF Promises!vars, Promised
<1>5. ASSUME NEW c \in Calls,
             \/ \E k \in Keys, f \in Prints : Begin(c, k, f)
             \/ Reserve(c) \/ Create(c) \/ CreateRaises(c) \/ Aborted(c)
      PROVE  UNCHANGED <<table, told>>
  BY <1>5 DEF Begin, Reserve, Create, CreateRaises, Aborted
<1>6. CASE UNCHANGED vars
  BY <1>4, <1>6 DEF vars
<1> QED
  BY <1>1, <1>2, <1>3, <1>4, <1>5, <1>6 DEF Next, Resolve

\* Whatever requests come, wait, die or are repeated, and whenever records expire,
\* the answers are those of OnePromise: one run per key.
THEOREM Implements == Spec => ImplementsPromise
<1>1. Init => Promises!Init
  BY DEF Init, Promised, Promises!Init
<1> QED
  BY <1>1, Invariant, StepPromise, PTL DEF Spec, ImplementsPromise, Promises!Spec
=============================================================================
