----------------------- MODULE AdvertisingReadsProofs -----------------------
(***************************************************************************)
(* Proofs about AdvertisingReads: the batches of a plan, the quota of a    *)
(* round and what it covers, and which reads a run repeats.                *)
(***************************************************************************)
EXTENDS AdvertisingReads, Integers, FiniteSetTheorems, TLAPS

-----------------------------------------------------------------------------
(***************************************************************************)
(* The batches of a set of campaigns.                                      *)
(***************************************************************************)

\* A quotient is the number of whole batches below a rank.
LEMMA Quotient ==
  ASSUME NEW a \in Nat, NEW n \in Nat \ {0}
  PROVE  /\ a \div n \in Nat
         /\ n * (a \div n) <= a /\ a < n * (a \div n) + n
         /\ (a + n) \div n = a \div n + 1
         /\ (a + n - 1) \div n <= a
         /\ (a + n - 1) \div n \in Nat
OBVIOUS

LEMMA QuotientGrows ==
  ASSUME NEW a \in Nat, NEW b \in Nat, a <= b, NEW n \in Nat \ {0}
  PROVE  a \div n <= b \div n
OBVIOUS

LEMMA QuotientOf ==
  ASSUME NEW q \in Nat, NEW n \in Nat \ {0}
  PROVE  (n * q) \div n = q
<1>1. n * q \in Nat /\ n * q <= n * q /\ n * q < n * q + n
  OBVIOUS
<1> QED
  BY <1>1

LEMMA FewCampaigns ==
  ASSUME NEW S \in SUBSET Campaigns
  PROVE  IsFiniteSet(S) /\ Cardinality(S) \in Nat /\ S \subseteq Nat
<1>1. MaxAnomalous \in Nat
  BY ReadsAssumption
<1>2. IsFiniteSet(1 .. MaxAnomalous)
  BY <1>1, FS_Interval
<1>3. IsFiniteSet(S)
  BY <1>2, FS_Subset DEF Campaigns
<1> QED
  BY <1>1, <1>3, FS_CardinalityType DEF Campaigns

\* The place of a campaign among those of a set tells it from the others.
LEMMA Placed ==
  ASSUME NEW S \in SUBSET Campaigns
  PROVE  /\ \A c \in S : Before(S, c) \in 0 .. Cardinality(S) - 1
         /\ \A c, d \in S : c < d => Before(S, c) < Before(S, d)
<1> DEFINE below(c) == {d \in S : d < c}
<1>1. IsFiniteSet(S) /\ Cardinality(S) \in Nat /\ S \subseteq Nat
  BY FewCampaigns
<1>2. ASSUME NEW c \in S
      PROVE  IsFiniteSet(below(c)) /\ Cardinality(below(c)) \in Nat
  BY <1>1, FS_Subset, FS_CardinalityType
<1>3. ASSUME NEW c \in S, NEW T \in SUBSET S, below(c) \subseteq T, c \in T
      PROVE  Cardinality(below(c)) < Cardinality(T)
  <2>1. IsFiniteSet(T) /\ Cardinality(T) \in Nat
    BY <1>1, FS_Subset, FS_CardinalityType
  <2>2. c \notin below(c) /\ below(c) \in SUBSET T
    BY <1>1, <1>3
  <2>3. Cardinality(below(c)) <= Cardinality(T) /\ Cardinality(below(c)) # Cardinality(T)
    BY <2>1, <2>2, FS_Subset, <1>3
  <2> QED
    BY <1>2, <2>1, <2>3
<1>4. ASSUME NEW c \in S
      PROVE  Before(S, c) \in 0 .. Cardinality(S) - 1
  <2>1. Cardinality(below(c)) < Cardinality(S)
    BY <1>3
  <2> QED
    BY <1>1, <1>2, <2>1 DEF Before
<1>5. ASSUME NEW c \in S, NEW d \in S, c < d
      PROVE  Before(S, c) < Before(S, d)
  <2>1. below(c) \subseteq below(d) /\ c \in below(d) /\ below(d) \in SUBSET S
    <3>1. \A e \in S : e < c => e < d
      BY <1>1, <1>5
    <3> QED
      BY <1>5, <3>1
  <2>2. Cardinality(below(c)) < Cardinality(below(d))
    BY <1>3, <2>1
  <2> QED
    BY <2>2 DEF Before
<1> QED
  BY <1>4, <1>5

\* Every place is taken.
LEMMA EachPlaceTaken ==
  ASSUME NEW S \in SUBSET Campaigns, NEW n \in 0 .. Cardinality(S) - 1
  PROVE  \E c \in S : Before(S, c) = n
<1> DEFINE places == 0 .. Cardinality(S) - 1
           f == [c \in S |-> Before(S, c)]
<1>1. IsFiniteSet(S) /\ Cardinality(S) \in Nat /\ S \subseteq Nat
  BY FewCampaigns
<1>2. IsFiniteSet(places) /\ Cardinality(places) = Cardinality(S)
  BY <1>1, FS_Interval
<1>3. f \in [S -> places]
  BY Placed
<1>4. ASSUME NEW c \in S, NEW d \in S, f[c] = f[d]
      PROVE  c = d
  <2>1. ~(c < d) /\ ~(d < c)
    <3>1. Before(S, c) \in Int /\ Before(S, c) = Before(S, d)
      BY <1>4, Placed
    <3> QED
      BY <3>1, Placed
  <2> QED
    BY <1>1, <2>1
<1>5. f \in Injection(S, places)
  BY <1>3, <1>4 DEF Injection, IsInjective
<1>6. f \in Surjection(S, places)
  BY <1>1, <1>2, <1>5, FS_Injection
<1> QED
  BY <1>6 DEF Surjection

\* The batches of a set: as many campaigns in each as it may hold, each campaign
\* in one, and no more batches than campaigns.
LEMMA SizeType ==
  ASSUME NEW t \in Types
  PROVE  Size(t) \in Nat \ {0} /\ Size(t) <= BatchSize /\ (t = Single => Size(t) = 1)
BY ReadsAssumption DEF Size

LEMMA BatchOf ==
  ASSUME NEW t \in Types, NEW S \in SUBSET Campaigns, NEW i \in DOMAIN Batched(t, S)
  PROVE  /\ Batched(t, S)[i] = {c \in S : Before(S, c) \div Size(t) = i - 1}
         /\ Batched(t, S)[i] \in Batches
         /\ Cardinality(Batched(t, S)[i]) <= Size(t)
<1> DEFINE n == Size(t)
           m == Cardinality(S)
           batch == {c \in S : Before(S, c) \div n = i - 1}
           from == n * (i - 1)
           places == from .. from + n - 1
           f == [c \in batch |-> Before(S, c)]
<1>1. n \in Nat \ {0} /\ n <= BatchSize /\ m \in Nat /\ IsFiniteSet(S) /\ BatchSize \in Nat
  BY SizeType, FewCampaigns, ReadsAssumption
<1>2. i \in 1 .. (m + n - 1) \div n /\ Batched(t, S)[i] = batch
  BY DEF Batched
<1> HIDE DEF n, m
<1>3. i \in Nat \ {0} /\ i - 1 \in Nat /\ i <= (m + n - 1) \div n
  BY <1>1, <1>2, Quotient
<1>4. from \in Nat /\ from + n - 1 \in Nat
  BY <1>1, <1>3
<1> HIDE DEF from
<1>5. IsFiniteSet(places) /\ Cardinality(places) = n
  BY <1>1, <1>4, FS_Interval
<1>6. ASSUME NEW c \in batch
      PROVE  Before(S, c) \in places
  <2>1. Before(S, c) \in Nat
    BY <1>1, Placed DEF m
  <2>2. n * (i - 1) <= Before(S, c) /\ Before(S, c) < n * (i - 1) + n
    BY <1>1, <2>1, Quotient
  <2> QED
    BY <1>1, <1>4, <2>1, <2>2 DEF from
<1>7. ASSUME NEW c \in batch, NEW d \in batch, f[c] = f[d]
      PROVE  c = d
  <2>1. Before(S, c) = Before(S, d) /\ Before(S, c) \in Int /\ c \in S /\ d \in S /\ S \subseteq Nat
    BY <1>7, Placed, FewCampaigns
  <2>2. ~(c < d) /\ ~(d < c)
    BY <2>1, Placed
  <2> QED
    BY <2>1, <2>2
<1>8. f \in Injection(batch, places)
  BY <1>6, <1>7 DEF Injection, IsInjective
<1>9. IsFiniteSet(batch) /\ Cardinality(batch) <= n
  BY <1>5, <1>8, FS_Injection
<1>10. from < m
  <2>1. n * i <= m + n - 1
    <3>1. n * ((m + n - 1) \div n) <= m + n - 1 /\ (m + n - 1) \div n \in Nat
      BY <1>1, Quotient
    <3>2. n * i <= n * ((m + n - 1) \div n)
      BY <1>1, <1>3, <3>1
    <3>3. n * i \in Nat /\ n * ((m + n - 1) \div n) \in Nat
      BY <1>1, <1>3, <3>1
    <3> QED
      BY <1>1, <3>1, <3>2, <3>3
  <2>2. n * i = from + n
    BY <1>1, <1>3 DEF from
  <2> QED
    BY <1>1, <1>4, <2>1, <2>2
<1>11. batch # {}
  <2>1. from \in 0 .. m - 1
    BY <1>1, <1>4, <1>10
  <2>2. PICK c \in S : Before(S, c) = from
    BY <2>1, EachPlaceTaken DEF m
  <2>3. from \div n = i - 1
    BY <1>1, <1>3, QuotientOf DEF from
  <2> QED
    BY <2>2, <2>3
<1>12. Cardinality(batch) <= BatchSize
  BY <1>1, <1>9, FS_CardinalityType
<1> QED
  BY <1>2, <1>9, <1>11, <1>12 DEF Batches, n

LEMMA BatchedAll ==
  ASSUME NEW t \in Types, NEW S \in SUBSET Campaigns
  PROVE  /\ Batched(t, S) \in Seq(Batches)
         /\ Len(Batched(t, S)) <= Cardinality(S)
         /\ \A i \in DOMAIN Batched(t, S) : Batched(t, S)[i] \subseteq S
         /\ \A c \in S : \E i \in DOMAIN Batched(t, S) : c \in Batched(t, S)[i]
         /\ \A i, j \in DOMAIN Batched(t, S) : i # j => Batched(t, S)[i] \cap Batched(t, S)[j] = {}
         /\ t = Single => \A i \in DOMAIN Batched(t, S) : Cardinality(Batched(t, S)[i]) = 1
<1> DEFINE n == Size(t)
           m == Cardinality(S)
           last == (m + n - 1) \div n
           s == Batched(t, S)
<1>1. n \in Nat \ {0} /\ m \in Nat /\ (t = Single => n = 1)
  BY SizeType, FewCampaigns
<1>2. last \in Nat /\ last <= m
  BY <1>1, Quotient
<1>3. DOMAIN s = 1 .. last /\ s = [i \in 1 .. last |-> s[i]]
  BY DEF Batched
<1> HIDE DEF n, m, last, s
<1>4. \A i \in DOMAIN s : s[i] = {c \in S : Before(S, c) \div n = i - 1} /\ s[i] \in Batches /\ Cardinality(s[i]) <= n
  BY BatchOf DEF s, n
<1>5. s \in Seq(Batches) /\ Len(s) = last
  BY <1>2, <1>3, <1>4
<1>6. ASSUME NEW c \in S
      PROVE  \E i \in DOMAIN s : c \in s[i]
  <2> DEFINE b == Before(S, c)
  <2>1. b \in Nat /\ b <= m - 1
    BY <1>1, Placed DEF m
  <2> HIDE DEF b
  <2>2. b \div n + 1 = (b + n) \div n /\ b \div n \in Nat
    BY <1>1, <2>1, Quotient
  <2>3. (b + n) \div n <= last
    <3>1. b + n <= m + n - 1 /\ b + n \in Nat /\ m + n - 1 \in Nat
      BY <1>1, <2>1
    <3> QED
      BY <1>1, <3>1, QuotientGrows DEF last
  <2>4. b \div n + 1 \in DOMAIN s /\ (b \div n + 1) - 1 = b \div n
    BY <1>2, <1>3, <2>2, <2>3
  <2>5. c \in s[b \div n + 1]
    BY <1>4, <2>4 DEF b
  <2> QED
    BY <2>4, <2>5
<1>7. ASSUME NEW i \in DOMAIN s, NEW j \in DOMAIN s, i # j
      PROVE  s[i] \cap s[j] = {}
  <2>1. i - 1 # j - 1
    BY <1>2, <1>3, <1>7
  <2> QED
    BY <1>4, <2>1
<1>8. ASSUME t = Single, NEW i \in DOMAIN s
      PROVE  Cardinality(s[i]) = 1
  <2>1. s[i] # {} /\ s[i] \in SUBSET Campaigns /\ Cardinality(s[i]) <= 1
    BY <1>1, <1>4, <1>8 DEF Batches
  <2>2. IsFiniteSet(s[i]) /\ Cardinality(s[i]) \in Nat
    BY <2>1, FewCampaigns
  <2>3. Cardinality(s[i]) # 0
    BY <2>1, <2>2, FS_EmptySet
  <2> QED
    BY <2>1, <2>2, <2>3
<1> QED
  BY <1>2, <1>4, <1>5, <1>6, <1>7, <1>8 DEF s, m

LEMMA Joined ==
  ASSUME NEW s \in Seq(Batches), NEW u \in Seq(Batches)
  PROVE  /\ s \o u \in Seq(Batches) /\ Len(s \o u) = Len(s) + Len(u)
         /\ \A i \in DOMAIN s : i \in DOMAIN (s \o u) /\ (s \o u)[i] = s[i]
         /\ \A j \in DOMAIN u : Len(s) + j \in DOMAIN (s \o u) /\ (s \o u)[Len(s) + j] = u[j]
         /\ \A i \in DOMAIN (s \o u) : i \in DOMAIN s \/ (i - Len(s) \in DOMAIN u /\ i > Len(s))
         /\ \A i \in DOMAIN (s \o u) : i \notin DOMAIN s => (s \o u)[i] = u[i - Len(s)]
OBVIOUS

-----------------------------------------------------------------------------
(***************************************************************************)
(* The plan of a round.                                                    *)
(***************************************************************************)
LEMMA FocusSets ==
  ASSUME TypeOK, NEW t \in Types
  PROVE  /\ Focus \in SUBSET Campaigns /\ Cardinality(Focus) <= MaxFocus
         /\ Primary(t) \in SUBSET Focus /\ Secondary(t) \in SUBSET Focus
         /\ Primary(t) \cap Secondary(t) = {} /\ Primary(t) \cup Secondary(t) = Focus
         /\ FollowUp(t) \in SUBSET Focus
         /\ Cardinality(Primary(t)) + Cardinality(Secondary(t)) = Cardinality(Focus)
<1> DEFINE most == IF MaxAnomalous < MaxFocus THEN MaxAnomalous ELSE MaxFocus
<1>1. most \in Nat /\ most <= MaxAnomalous /\ most <= MaxFocus
  BY ReadsAssumption
<1>2. Focus = 1 .. most
  BY DEF Focus
<1> HIDE DEF most
<1>3. Focus \in SUBSET Campaigns /\ Cardinality(Focus) <= MaxFocus
  <2>1. Cardinality(Focus) = most
    BY <1>1, <1>2, FS_Interval
  <2>2. Focus \subseteq Campaigns
    BY <1>1, <1>2, ReadsAssumption DEF Campaigns
  <2> QED
    BY <1>1, <2>1, <2>2
<1>4. /\ Primary(t) \in SUBSET Focus /\ Secondary(t) \in SUBSET Focus
      /\ Primary(t) \cap Secondary(t) = {} /\ Primary(t) \cup Secondary(t) = Focus
  BY DEF Primary, Secondary
<1>5. FollowUp(t) \in SUBSET Focus
  BY DEF FollowUp, Unresolved
<1>6. Cardinality(Primary(t)) + Cardinality(Secondary(t)) = Cardinality(Focus)
  <2>1. IsFiniteSet(Primary(t)) /\ IsFiniteSet(Secondary(t)) /\ Cardinality(Primary(t)) \in Nat /\ Cardinality(Secondary(t)) \in Nat
    BY <1>3, <1>4, FewCampaigns
  <2>2. Cardinality({}) = 0
    BY FS_EmptySet
  <2>3. Cardinality(Primary(t) \cup Secondary(t)) =
          Cardinality(Primary(t)) + Cardinality(Secondary(t)) - Cardinality(Primary(t) \cap Secondary(t))
    BY <2>1, FS_Union
  <2>4. Cardinality(Focus) = Cardinality(Primary(t)) + Cardinality(Secondary(t)) - 0
    BY <1>4, <2>2, <2>3
  <2> QED
    BY <2>1, <2>4
<1> QED
  BY <1>3, <1>4, <1>5, <1>6

\* The batches that wait hold campaigns that are still wanted, each in one batch.
Waiting(t, s) ==
  /\ \A i \in DOMAIN s : \A c \in s[i] : <<t, c>> \notin Queried
  /\ \A i, j \in DOMAIN s : i # j => s[i] \cap s[j] = {}

\* The campaigns a report type matters most for come before the others.
MainFirst(t, s) ==
  \A i, j \in DOMAIN s : s[i] \cap Secondary(t) # {} /\ s[j] \cap Primary(t) # {} => j <= i

LEMMA PlannedBatches ==
  ASSUME TypeOK, NEW t \in Types
  PROVE  /\ Planned(t) \in Seq(Batches)
         /\ t = Single => \A i \in DOMAIN Planned(t) : Cardinality(Planned(t)[i]) = 1
         /\ Waiting(t, Planned(t))
         /\ round = 0 => Len(Planned(t)) <= Cardinality(Focus) /\ MainFirst(t, Planned(t))
         /\ round = 0 /\ evidence = {} =>
              \A c \in Focus : \E i \in DOMAIN Planned(t) : c \in Planned(t)[i]
<1>1. /\ Focus \in SUBSET Campaigns /\ Primary(t) \in SUBSET Focus /\ Secondary(t) \in SUBSET Focus
      /\ Primary(t) \cap Secondary(t) = {} /\ Primary(t) \cup Secondary(t) = Focus
      /\ FollowUp(t) \in SUBSET Focus
      /\ Cardinality(Primary(t)) + Cardinality(Secondary(t)) = Cardinality(Focus)
  BY FocusSets
<1>2. ASSUME NEW S \in SUBSET Campaigns
      PROVE  /\ Wanted(t, S) \in SUBSET S /\ \A c \in Wanted(t, S) : <<t, c>> \notin Queried
             /\ evidence = {} => Wanted(t, S) = S
             /\ Cardinality(Wanted(t, S)) <= Cardinality(S) /\ Cardinality(S) \in Nat
             /\ Cardinality(Wanted(t, S)) \in Nat
  <2>1. /\ Wanted(t, S) \in SUBSET S /\ \A c \in Wanted(t, S) : <<t, c>> \notin Queried
        /\ evidence = {} => Wanted(t, S) = S
    BY DEF Wanted, Queried
  <2>2. IsFiniteSet(S) /\ Cardinality(S) \in Nat /\ Cardinality(Wanted(t, S)) \in Nat
    BY <2>1, FewCampaigns
  <2> QED
    BY <2>1, <2>2, FS_Subset
<1>3. CASE round # 0
  <2> DEFINE S == Wanted(t, FollowUp(t))
  <2>1. S \in SUBSET Campaigns /\ \A c \in S : <<t, c>> \notin Queried
    BY <1>1, <1>2
  <2>2. Planned(t) = Batched(t, S)
    BY <1>3 DEF Planned
  <2> HIDE DEF S
  <2> QED
    BY <1>3, <2>1, <2>2, BatchedAll DEF Waiting
<1>4. CASE round = 0
  <2> DEFINE p == Batched(t, Wanted(t, Primary(t)))
             q == Batched(t, Wanted(t, Secondary(t)))
             P == Wanted(t, Primary(t))
             Q == Wanted(t, Secondary(t))
             s == Planned(t)
  <2>1. /\ P \in SUBSET Primary(t) /\ Q \in SUBSET Secondary(t)
        /\ \A c \in P \cup Q : <<t, c>> \notin Queried
        /\ evidence = {} => P = Primary(t) /\ Q = Secondary(t)
        /\ Cardinality(P) + Cardinality(Q) <= Cardinality(Focus)
        /\ Cardinality(P) \in Nat /\ Cardinality(Q) \in Nat /\ Cardinality(Focus) \in Nat
    <3>1. Primary(t) \in SUBSET Campaigns /\ Secondary(t) \in SUBSET Campaigns
      BY <1>1
    <3>2. /\ Cardinality(P) <= Cardinality(Primary(t)) /\ Cardinality(Q) <= Cardinality(Secondary(t))
          /\ Cardinality(P) \in Nat /\ Cardinality(Q) \in Nat /\ Cardinality(Focus) \in Nat
          /\ Cardinality(Primary(t)) \in Nat /\ Cardinality(Secondary(t)) \in Nat
      BY <1>1, <1>2, <3>1
    <3>3. Cardinality(P) + Cardinality(Q) <= Cardinality(Focus)
      BY <1>1, <3>2
    <3> QED
      BY <1>2, <3>1, <3>2, <3>3
  <2>2. /\ p \in Seq(Batches) /\ Len(p) <= Cardinality(P)
        /\ \A i \in DOMAIN p : p[i] \subseteq P
        /\ \A c \in P : \E i \in DOMAIN p : c \in p[i]
        /\ \A i, j \in DOMAIN p : i # j => p[i] \cap p[j] = {}
        /\ t = Single => \A i \in DOMAIN p : Cardinality(p[i]) = 1
    BY <1>1, <2>1, BatchedAll
  <2>3. /\ q \in Seq(Batches) /\ Len(q) <= Cardinality(Q)
        /\ \A i \in DOMAIN q : q[i] \subseteq Q
        /\ \A c \in Q : \E i \in DOMAIN q : c \in q[i]
        /\ \A i, j \in DOMAIN q : i # j => q[i] \cap q[j] = {}
        /\ t = Single => \A i \in DOMAIN q : Cardinality(q[i]) = 1
    BY <1>1, <2>1, BatchedAll
  <2>4. s = p \o q
    BY <1>4 DEF Planned
  <2> HIDE DEF p, q, P, Q, s
  <2>5. /\ s \in Seq(Batches) /\ Len(s) = Len(p) + Len(q) /\ Len(p) \in Nat /\ Len(q) \in Nat
        /\ \A i \in DOMAIN p : i \in DOMAIN s /\ s[i] = p[i]
        /\ \A j \in DOMAIN q : Len(p) + j \in DOMAIN s /\ s[Len(p) + j] = q[j]
        /\ \A i \in DOMAIN s : i \in DOMAIN p \/ (i - Len(p) \in DOMAIN q /\ i > Len(p))
        /\ \A i \in DOMAIN s : i \notin DOMAIN p => s[i] = q[i - Len(p)]
    BY <2>2, <2>3, <2>4, Joined
  <2>6. P \cap Q = {}
    BY <1>1, <2>1
  <2>7. ASSUME NEW i \in DOMAIN s
        PROVE  /\ i \in DOMAIN p => s[i] \subseteq P
               /\ i \notin DOMAIN p => s[i] \subseteq Q
               /\ t = Single => Cardinality(s[i]) = 1
    BY <2>2, <2>3, <2>5
  <2>8. ASSUME NEW i \in DOMAIN s, NEW j \in DOMAIN s, i # j
        PROVE  s[i] \cap s[j] = {}
    <3>1. CASE i \in DOMAIN p /\ j \in DOMAIN p
      BY <2>2, <2>5, <2>8, <3>1
    <3>2. CASE i \notin DOMAIN p /\ j \notin DOMAIN p
      <4>1. i - Len(p) \in DOMAIN q /\ j - Len(p) \in DOMAIN q /\ i - Len(p) # j - Len(p)
        BY <2>5, <2>8, <3>2
      <4> QED
        BY <2>3, <2>5, <3>2, <4>1
    <3>3. CASE (i \in DOMAIN p) # (j \in DOMAIN p)
      BY <2>6, <2>7, <3>3
    <3> QED
      BY <3>1, <3>2, <3>3
  <2>9. Waiting(t, s)
    <3>1. \A i \in DOMAIN s : \A c \in s[i] : <<t, c>> \notin Queried
      BY <2>1, <2>7
    <3> QED
      BY <2>8, <3>1 DEF Waiting
  <2>10. Len(s) <= Cardinality(Focus)
    BY <2>1, <2>2, <2>3, <2>5
  <2>11. MainFirst(t, s)
    <3> SUFFICES ASSUME NEW i \in DOMAIN s, NEW j \in DOMAIN s, s[i] \cap Secondary(t) # {}, s[j] \cap Primary(t) # {}
                 PROVE  j <= i
      BY DEF MainFirst
    <3>1. i \notin DOMAIN p
      BY <1>1, <2>1, <2>7
    <3>2. j \in DOMAIN p
      BY <1>1, <2>1, <2>7
    <3> QED
      BY <2>2, <2>5, <3>1, <3>2
  <2>12. ASSUME evidence = {}, NEW c \in Focus
         PROVE  \E i \in DOMAIN s : c \in s[i]
    <3>1. CASE c \in P
      BY <2>2, <2>5, <3>1
    <3>2. CASE c \in Q
      BY <2>3, <2>5, <3>2
    <3> QED
      BY <1>1, <2>1, <2>12, <3>1, <3>2
  <2>13. s \in Seq(Batches) /\ (t = Single => \A i \in DOMAIN s : Cardinality(s[i]) = 1)
    BY <2>5, <2>7
  <2> QED
    BY <1>4, <2>9, <2>10, <2>11, <2>12, <2>13 DEF s
<1> QED
  BY <1>3, <1>4

-----------------------------------------------------------------------------
(***************************************************************************)
(* The types.                                                              *)
(***************************************************************************)

\* What a checkpoint holds, and where the calls of a wave can be.
Stages ==
  /\ saved \in [round : 0..2, used : [Rounds -> [Types -> Nat]], evidence : SUBSET Pairs,
                findings : SUBSET Campaigns, requested : SUBSET Types]
  /\ saved.round = round
  /\ pc # "done" => round \in 0..1
  /\ pc # "read" => wave = {}
  /\ \A k \in wave : k.period = "current"
  /\ \A i \in DOMAIN pending[Single] : Cardinality(pending[Single][i]) = 1

TypeInv == TypeOK /\ Stages

LEMMA TypesInitially == Init => TypeInv
<1> SUFFICES ASSUME Init
             PROVE  TypeInv
  OBVIOUS
<1>1. MaxCrashes \in Nat /\ Single \in Types
  BY ReadsAssumption
<1>2. used \in [Rounds -> [Types -> Nat]]
  BY DEF Init, NoCalls
<1>3. pending \in [Types -> Seq(Batches)] /\ reports \in Seq(Batches) /\ pending[Single] = <<>>
  BY <1>1 DEF Init, Nothing
<1>4. answered \in [Pairs -> Nat] /\ tried \subseteq Pairs /\ evidence \subseteq Pairs
  BY DEF Init
<1>5. saved \in [round : 0..2, used : [Rounds -> [Types -> Nat]], evidence : SUBSET Pairs,
                 findings : SUBSET Campaigns, requested : SUBSET Types]
      /\ saved.round = round
  BY <1>2, <1>4 DEF Init, State
<1>6. Stages
  BY <1>3, <1>5 DEF Init, Stages
<1>7. base \in Bases /\ crashes \in 0..MaxCrashes /\ case \in Cases
  BY <1>1 DEF Init, Bases
<1>8. wave = {} /\ pc = "plan" /\ round = 0 /\ findings = {} /\ requested = {} /\ saved.round \in 0..2
  BY <1>5 DEF Init
<1> QED
  BY <1>2, <1>3, <1>4, <1>6, <1>7, <1>8 DEF TypeOK, TypeInv

LEMMA WaveUses ==
  ASSUME TypeInv, StartWave
  PROVE  /\ Number \in Rounds /\ used' \in [Rounds -> [Types -> Nat]]
         /\ \A r \in Rounds, t \in Types :
              used'[r][t] = IF r = Number /\ t \in Starting THEN used[r][t] + 1 ELSE used[r][t]
<1>1. Number \in Rounds
  BY DEF TypeInv, Stages, StartWave, Number, Rounds
<1>2. /\ used \in [Rounds -> [Types -> Nat]]
      /\ used' = [used EXCEPT ![Number] = [t \in Types |-> IF t \in Starting THEN used[Number][t] + 1 ELSE used[Number][t]]]
  BY DEF TypeInv, TypeOK, StartWave
<1> QED
  BY <1>1, <1>2

LEMMA BaselineUses ==
  ASSUME TypeInv, ReadBaseline
  PROVE  /\ Number \in Rounds /\ Trended \in Types /\ used' \in [Rounds -> [Types -> Nat]]
         /\ \A r \in Rounds, t \in Types :
              used'[r][t] = IF r = Number /\ t = Trended /\ MayReserve(t) THEN used[r][t] + 1 ELSE used[r][t]
<1>1. Number \in Rounds /\ Trended \in Types
  BY ReadsAssumption DEF TypeInv, Stages, ReadBaseline, Number, Rounds
<1>2. used \in [Rounds -> [Types -> Nat]]
  BY DEF TypeInv, TypeOK
<1>3. CASE MayReserve(Trended)
  <2>1. used' = [used EXCEPT ![Number][Trended] = used[Number][Trended] + 1]
    BY <1>3 DEF ReadBaseline
  <2>2. used' = [used EXCEPT ![Number] = [used[Number] EXCEPT ![Trended] = used[Number][Trended] + 1]]
    BY <2>1
  <2>3. [used[Number] EXCEPT ![Trended] = used[Number][Trended] + 1] \in [Types -> Nat]
    BY <1>1, <1>2
  <2>4. used' \in [Rounds -> [Types -> Nat]]
    BY <1>1, <1>2, <2>2, <2>3
  <2>5. ASSUME NEW r \in Rounds, NEW t \in Types
        PROVE  used'[r][t] = IF r = Number /\ t = Trended THEN used[r][t] + 1 ELSE used[r][t]
    BY <1>1, <1>2, <2>2
  <2> QED
    BY <1>1, <1>3, <2>4, <2>5
<1>4. CASE ~MayReserve(Trended)
  <2>1. used' = used
    BY <1>4 DEF ReadBaseline
  <2> QED
    BY <1>1, <1>2, <1>4, <2>1
<1> QED
  BY <1>3, <1>4

\* The batch at the head of a line that may start.
LEMMA HeadBatch ==
  ASSUME TypeInv, NEW t \in Starting
  PROVE  /\ t \in Types /\ pending[t] \in Seq(Batches) /\ pending[t] # <<>>
         /\ Head(pending[t]) = pending[t][1] /\ Head(pending[t]) \in Batches /\ 1 \in DOMAIN pending[t]
         /\ Tail(pending[t]) \in Seq(Batches) /\ Len(Tail(pending[t])) = Len(pending[t]) - 1
         /\ \A i \in DOMAIN Tail(pending[t]) : i + 1 \in DOMAIN pending[t] /\ Tail(pending[t])[i] = pending[t][i + 1]
         /\ \A i \in DOMAIN pending[t] : i = 1 \/ (i - 1 \in DOMAIN Tail(pending[t]) /\ Tail(pending[t])[i - 1] = pending[t][i])
<1>1. t \in Types /\ pending[t] \in Seq(Batches) /\ pending[t] # <<>>
  BY DEF TypeInv, TypeOK, Starting
<1> DEFINE s == pending[t]
<1>2. s \in Seq(Batches) /\ s # <<>>
  BY <1>1
<1> HIDE DEF s
<1>3. /\ Head(s) = s[1] /\ Head(s) \in Batches /\ 1 \in DOMAIN s
      /\ Tail(s) \in Seq(Batches) /\ Len(Tail(s)) = Len(s) - 1
      /\ \A i \in DOMAIN Tail(s) : i + 1 \in DOMAIN s /\ Tail(s)[i] = s[i + 1]
  BY <1>2
<1>4. \A i \in DOMAIN s : i = 1 \/ (i - 1 \in DOMAIN Tail(s) /\ Tail(s)[i - 1] = s[i])
  BY <1>2
<1> QED
  BY <1>1, <1>3, <1>4 DEF s

LEMMA WaveCalls ==
  ASSUME TypeInv, StartWave
  PROVE  /\ wave' \subseteq Calls
         /\ \A k \in wave' : /\ k.tool \in Starting /\ k.batch = Head(pending[k.tool]) /\ k.period = "current"
                             /\ k.tool = Single => Cardinality(k.batch) = 1
         /\ pending' \in [Types -> Seq(Batches)]
         /\ \A t \in Types : pending'[t] = IF t \in Starting THEN Tail(pending[t]) ELSE pending[t]
<1>1. /\ wave' = {Call(t) : t \in Starting}
      /\ pending' = [t \in Types |-> IF t \in Starting THEN Tail(pending[t]) ELSE pending[t]]
  BY DEF StartWave
<1>2. ASSUME NEW t \in Starting
      PROVE  /\ Call(t) \in Calls /\ Call(t).tool = t /\ Call(t).batch = Head(pending[t])
             /\ Call(t).period = "current"
             /\ t = Single => Cardinality(Call(t).batch) = 1
  BY HeadBatch DEF Call, Calls, TypeInv, Stages
<1>3. pending' \in [Types -> Seq(Batches)]
  BY <1>1, HeadBatch DEF TypeInv, TypeOK
<1> QED
  BY <1>1, <1>2, <1>3

LEMMA ProvidedType ==
  ASSUME TypeInv, NEW k, Provided(k)
  PROVE  answered' \in [Pairs -> Nat]
BY DEF TypeInv, TypeOK, Provided

LEMMA PlanTypes ==
  ASSUME TypeInv, Plan
  PROVE  TypeInv'
<1>1. /\ pending' = [t \in Types |-> Planned(t)] /\ reports' = <<>> /\ pc = "plan" /\ pc' = "read"
      /\ UNCHANGED <<case, round, wave, used, evidence, findings, requested, base, ledger, saved, crashes, tried, answered>>
  BY DEF Plan
<1>2. pending' \in [Types -> Seq(Batches)] /\ \A i \in DOMAIN pending'[Single] : Cardinality(pending'[Single][i]) = 1
  BY <1>1, PlannedBatches, ReadsAssumption DEF TypeInv
<1>3. TypeOK'
  BY <1>1, <1>2 DEF TypeInv, TypeOK
<1>4. Stages'
  BY <1>1, <1>2 DEF TypeInv, Stages
<1> QED
  BY <1>3, <1>4 DEF TypeInv

LEMMA StartWaveTypes ==
  ASSUME TypeInv, StartWave
  PROVE  TypeInv'
<1>1. /\ pc = "read"
      /\ UNCHANGED <<case, pc, round, reports, evidence, findings, requested, base, ledger, saved, crashes, answered>>
  BY DEF StartWave
<1>2. tried' \subseteq Pairs
  <2>1. ASSUME NEW k \in wave'
        PROVE  Of(k) \subseteq Pairs
    <3>1. k \in Calls
      BY WaveCalls
    <3> QED
      BY <3>1 DEF Of, Calls, Batches, Pairs
  <2>2. tried' \subseteq tried \cup UNION {Of(k) : k \in wave'}
    BY DEF StartWave
  <2> QED
    BY <2>1, <2>2 DEF TypeInv, TypeOK
<1>3. TypeOK'
  BY <1>1, <1>2, WaveUses, WaveCalls DEF TypeInv, TypeOK
<1>4. ASSUME NEW i \in DOMAIN pending'[Single]
      PROVE  Cardinality(pending'[Single][i]) = 1
  <2>1. Single \in Types
    BY ReadsAssumption
  <2>2. CASE Single \in Starting
    <3>1. pending'[Single] = Tail(pending[Single])
      BY <2>1, <2>2, WaveCalls
    <3>2. i + 1 \in DOMAIN pending[Single] /\ pending'[Single][i] = pending[Single][i + 1]
      BY <1>4, <2>2, <3>1, HeadBatch
    <3> QED
      BY <3>2 DEF TypeInv, Stages
  <2>3. CASE Single \notin Starting
    BY <1>4, <2>1, <2>3, WaveCalls DEF TypeInv, Stages
  <2> QED
    BY <2>2, <2>3
<1>5. Stages'
  BY <1>1, <1>4, WaveCalls DEF TypeInv, Stages
<1> QED
  BY <1>3, <1>5 DEF TypeInv

\* A call of the wave is taken: it is answered, or it failed.
LEMMA AnswerTypes ==
  ASSUME TypeInv, Answer
  PROVE  TypeInv'
<1>1. PICK k \in wave :
        /\ wave' = wave \ {k}
        /\ \/ /\ Provided(k)
              /\ \E found \in SUBSET k.batch : findings' = findings \cup found
              /\ evidence' = evidence \cup Of(k)
              /\ reports' = IF k.tool = Trended /\ case.baseline THEN Append(reports, k.batch) ELSE reports
           \/ UNCHANGED <<ledger, answered, findings, evidence, reports>>
  BY DEF Answer
<1>2. pc = "read" /\ UNCHANGED <<case, pc, round, pending, used, requested, base, saved, crashes, tried>>
  BY DEF Answer
<1>3. k.tool \in Types /\ k.batch \in Batches /\ k.batch \subseteq Campaigns /\ Of(k) \subseteq Pairs
  <2>1. k \in Calls
    BY DEF TypeInv, TypeOK
  <2> QED
    BY <2>1 DEF Calls, Batches, Of, Pairs
<1>4. findings' \subseteq Campaigns /\ evidence' \subseteq Pairs
  BY <1>1, <1>3 DEF TypeInv, TypeOK
<1>5. reports' \in Seq(Batches)
  <2>1. reports \in Seq(Batches) /\ Append(reports, k.batch) \in Seq(Batches)
    <3>1. reports \in Seq(Batches) /\ k.batch \in Batches
      BY <1>3 DEF TypeInv, TypeOK
    <3> QED
      BY <3>1
  <2>2. reports' = reports \/ reports' = Append(reports, k.batch)
    BY <1>1
  <2> QED
    BY <2>1, <2>2
<1>6. answered' \in [Pairs -> Nat]
  BY <1>1, ProvidedType DEF TypeInv, TypeOK
<1>7. TypeOK'
  BY <1>1, <1>2, <1>4, <1>5, <1>6 DEF TypeInv, TypeOK
<1>8. Stages'
  BY <1>1, <1>2 DEF TypeInv, Stages
<1> QED
  BY <1>7, <1>8 DEF TypeInv

LEMMA EndWavesTypes ==
  ASSUME TypeInv, EndWaves
  PROVE  TypeInv'
<1>1. /\ pc = "read" /\ wave = {} /\ pc' = "baseline" /\ pending' = Nothing
      /\ UNCHANGED <<case, round, wave, reports, used, evidence, findings, requested, base, ledger, saved, crashes,
                     tried, answered>>
  BY DEF EndWaves
<1>2. pending' \in [Types -> Seq(Batches)] /\ pending'[Single] = <<>>
  BY <1>1, ReadsAssumption DEF Nothing
<1> QED
  BY <1>1, <1>2 DEF TypeInv, TypeOK, Stages

LEMMA ReadBaselineTypes ==
  ASSUME TypeInv, ReadBaseline
  PROVE  TypeInv'
<1> DEFINE k == [tool |-> Trended, batch |-> Head(reports), period |-> "baseline"]
<1>1. /\ pc = "baseline" /\ reports # <<>> /\ reports' = Tail(reports)
      /\ UNCHANGED <<case, pc, round, pending, wave, evidence, requested, base, saved, crashes, tried>>
      /\ \/ Provided(k) /\ \E found \in SUBSET k.batch : findings' = findings \cup found
         \/ UNCHANGED <<ledger, answered, findings>>
  BY DEF ReadBaseline
<1>2. reports' \in Seq(Batches) /\ k.batch \in Batches
  BY <1>1 DEF TypeInv, TypeOK
<1>3. findings' \subseteq Campaigns
  BY <1>1, <1>2 DEF TypeInv, TypeOK, Batches
<1>4. answered' \in [Pairs -> Nat]
  BY <1>1, ProvidedType DEF TypeInv, TypeOK
<1> QED
  BY <1>1, <1>2, <1>3, <1>4, BaselineUses DEF TypeInv, TypeOK, Stages

LEMMA ConcludeTypes ==
  ASSUME TypeInv, Conclude
  PROVE  TypeInv'
<1>1. /\ pc = "baseline" /\ round' = round + 1
      /\ saved' = [round |-> round', used |-> used, evidence |-> evidence, findings |-> findings, requested |-> requested']
      /\ UNCHANGED <<case, pending, wave, reports, used, evidence, findings, base, ledger, crashes, tried, answered>>
  BY DEF Conclude
<1>2. PICK asks \in BOOLEAN, named \in SUBSET Types :
        /\ pc' = IF More(asks) THEN "plan" ELSE "done"
        /\ requested' = IF round = 0 /\ More(asks) THEN CandidateTools \cup named ELSE {}
  BY DEF Conclude
<1>3. round \in 0..1 /\ round' \in 1..2 /\ (pc' # "done" => round' = 1)
  BY <1>1, <1>2 DEF TypeInv, Stages, More
<1>4. requested' \subseteq Types
  BY <1>2 DEF CandidateTools, Cases, TypeInv, TypeOK
<1>5. saved'.round = round'
  BY <1>1
<1>6. saved' \in [round : 0..2, used : [Rounds -> [Types -> Nat]], evidence : SUBSET Pairs,
                  findings : SUBSET Campaigns, requested : SUBSET Types]
  BY <1>1, <1>3, <1>4 DEF TypeInv, TypeOK
<1>7. pc' \in {"plan", "done"}
  BY <1>2
<1>8. TypeOK'
  BY <1>1, <1>3, <1>4, <1>5, <1>7 DEF TypeInv, TypeOK
<1>9. Stages'
  BY <1>1, <1>3, <1>5, <1>6 DEF TypeInv, Stages
<1> QED
  BY <1>8, <1>9 DEF TypeInv

LEMMA ResumeTypes ==
  ASSUME TypeInv, Resume
  PROVE  TypeInv'
<1>1. /\ pc' = "plan" /\ pending' = Nothing /\ wave' = {} /\ reports' = <<>> /\ crashes' = crashes + 1
      /\ crashes < MaxCrashes /\ pc # "done"
      /\ round' = saved.round /\ used' = saved.used /\ evidence' = saved.evidence
      /\ findings' = saved.findings /\ requested' = saved.requested
      /\ base' = IF saved.round = 0 THEN <<"data_inspection", 0>> ELSE <<"problem_attribution", saved.round>>
      /\ UNCHANGED <<case, ledger, saved, tried, answered>>
  BY DEF Resume, Restored
<1>2. pending' \in [Types -> Seq(Batches)] /\ pending'[Single] = <<>> /\ reports' \in Seq(Batches)
  BY <1>1, ReadsAssumption DEF Nothing
<1>3. saved.round = round /\ round \in 0..1
  BY <1>1 DEF TypeInv, Stages
<1>4. base' \in Bases
  BY <1>1, <1>3 DEF Bases
<1>5. crashes' \in 0..MaxCrashes
  BY <1>1, ReadsAssumption DEF TypeInv, TypeOK
<1>6. /\ round' \in 0..2 /\ used' \in [Rounds -> [Types -> Nat]] /\ evidence' \subseteq Pairs
      /\ findings' \subseteq Campaigns /\ requested' \subseteq Types
  BY <1>1 DEF TypeInv, Stages
<1>7. TypeOK'
  BY <1>1, <1>2, <1>4, <1>5, <1>6 DEF TypeInv, TypeOK
<1>8. Stages'
  BY <1>1, <1>2, <1>3 DEF TypeInv, Stages
<1> QED
  BY <1>7, <1>8 DEF TypeInv

LEMMA TypesKept ==
  ASSUME TypeInv, [Next]_vars
  PROVE  TypeInv'
<1>1. CASE UNCHANGED vars
  <2>1. TypeOK'
    BY <1>1 DEF vars, TypeInv, TypeOK
  <2>2. Stages'
    BY <1>1 DEF vars, TypeInv, Stages
  <2> QED
    BY <2>1, <2>2 DEF TypeInv
<1> QED
  BY <1>1, PlanTypes, StartWaveTypes, AnswerTypes, EndWavesTypes, ReadBaselineTypes, ConcludeTypes, ResumeTypes
  DEF Next, Attribute

THEOREM AlwaysTyped == Spec => []TypeInv
<1>1. Init => TypeInv
  BY TypesInitially
<1>2. TypeInv /\ [Next]_vars => TypeInv'
  BY TypesKept
<1> QED
  BY <1>1, <1>2, PTL DEF Spec

-----------------------------------------------------------------------------
(***************************************************************************)
(* What is learnt is kept.                                                 *)
(***************************************************************************)
Kept == saved.evidence \subseteq evidence /\ saved.findings \subseteq findings

LEMMA KeptGrows ==
  ASSUME TypeInv, Kept, [Next]_vars
  PROVE  /\ saved.evidence \subseteq evidence' /\ saved.findings \subseteq findings'
         /\ Kept'
<1>1. CASE Resume
  BY <1>1 DEF Resume, Restored, Kept
<1>2. CASE Conclude
  <2>1. /\ saved' = [round |-> round', used |-> used, evidence |-> evidence, findings |-> findings, requested |-> requested']
        /\ UNCHANGED <<evidence, findings>>
    BY <1>2 DEF Conclude
  <2>2. saved'.evidence = evidence /\ saved'.findings = findings
    BY <2>1
  <2> QED
    BY <2>1, <2>2 DEF Kept
<1>3. CASE Answer
  <2>1. saved' = saved /\ findings \subseteq findings' /\ evidence \subseteq evidence'
    BY <1>3 DEF Answer
  <2> QED
    BY <2>1 DEF Kept
<1>4. CASE ReadBaseline
  <2>1. saved' = saved /\ findings \subseteq findings' /\ evidence' = evidence
    BY <1>4 DEF ReadBaseline
  <2> QED
    BY <2>1 DEF Kept
<1>5. CASE Plan \/ StartWave \/ EndWaves \/ UNCHANGED vars
  <2>1. UNCHANGED <<saved, findings, evidence>>
    BY <1>5 DEF Plan, StartWave, EndWaves, vars
  <2> QED
    BY <2>1 DEF Kept
<1> QED
  BY <1>1, <1>2, <1>3, <1>4, <1>5 DEF Next, Attribute

\* The evidence and the findings of a checkpoint are never lost, by a round nor by a
\* takeover (DetailAttribution of the state that run_state.json keeps).
THEOREM EvidenceNeverLost == Spec => EvidenceKept
<1>1. Init => Kept
  BY DEF Init, State, Kept
<1>2. TypeInv /\ Kept /\ [Next]_vars => Kept'
  BY KeptGrows
<1>3. TypeInv /\ Kept /\ [Next]_vars => [saved.evidence \subseteq evidence' /\ saved.findings \subseteq findings']_vars
  BY KeptGrows
<1> QED
  BY <1>1, <1>2, <1>3, AlwaysTyped, PTL DEF Spec, EvidenceKept

-----------------------------------------------------------------------------
(***************************************************************************)
(* The quota, and what the first round reads.                              *)
(***************************************************************************)

\* No type is over its quota, neither in the state nor in the checkpoint.
Limits == HardLimit /\ \A r \in Rounds, t \in Types : saved.used[r][t] <= Limit

\* The first round of a run that was never taken over: the batches that wait fit in
\* the quota with the calls that were reserved, they hold what was not tried, and no
\* campaign a type matters most for waits behind one read for depth.
FirstWaiting(t) ==
  /\ used[1][t] + Len(pending[t]) <= Cardinality(Focus)
  /\ MainFirst(t, pending[t])
  /\ (\E c \in Secondary(t) : <<t, c>> \in tried) => \A i \in DOMAIN pending[t] : pending[t][i] \cap Primary(t) = {}
  /\ \A c \in Focus : <<t, c>> \in tried \/ \E i \in DOMAIN pending[t] : c \in pending[t][i]

FirstRead ==
  crashes = 0 /\ round = 0 =>
    /\ pc = "plan" => tried = {} /\ evidence = {} /\ \A t \in Types : used[1][t] = 0
    /\ pc = "read" => \A t \in Types : FirstWaiting(t)
    /\ pc = "baseline" /\ Limit >= MaxFocus => Types \X Focus \subseteq tried

Covered == RoundOneCovers /\ PrimaryFirst /\ FirstRead

LEMMA LimitsKept ==
  ASSUME TypeInv, Limits, [Next]_vars
  PROVE  Limits'
<1>1. Limit \in Nat /\ used \in [Rounds -> [Types -> Nat]]
  BY ReadsAssumption DEF TypeInv, TypeOK
<1>2. CASE StartWave
  <2>1. saved' = saved /\ \A t \in Starting : used[Number][t] < Limit
    BY <1>2 DEF StartWave, Starting, MayReserve
  <2> QED
    BY <1>1, <1>2, <2>1, WaveUses DEF Limits, HardLimit
<1>3. CASE ReadBaseline
  <2>1. saved' = saved
    BY <1>3 DEF ReadBaseline
  <2> QED
    BY <1>1, <1>3, <2>1, BaselineUses DEF Limits, HardLimit, MayReserve
<1>4. CASE Conclude
  <2>1. saved' = [round |-> round', used |-> used, evidence |-> evidence, findings |-> findings, requested |-> requested']
        /\ used' = used
    BY <1>4 DEF Conclude
  <2>2. saved'.used = used
    BY <2>1
  <2> QED
    BY <2>1, <2>2 DEF Limits, HardLimit
<1>5. CASE Resume
  BY <1>5 DEF Resume, Restored, Limits, HardLimit
<1>6. CASE Plan \/ Answer \/ EndWaves \/ UNCHANGED vars
  <2>1. UNCHANGED <<used, saved>>
    BY <1>6 DEF Plan, Answer, EndWaves, vars
  <2> QED
    BY <2>1 DEF Limits, HardLimit
<1> QED
  BY <1>2, <1>3, <1>4, <1>5, <1>6 DEF Next, Attribute

\* A focus campaign is the most important or not for a type, whatever the step.
LEMMA SameFocus ==
  ASSUME UNCHANGED case
  PROVE  \A t : Primary(t)' = Primary(t) /\ Secondary(t)' = Secondary(t)
BY DEF Primary, Secondary, Focus

LEMMA PlanCovers ==
  ASSUME TypeInv, Covered, Plan
  PROVE  Covered'
<1>1. /\ pending' = [t \in Types |-> Planned(t)] /\ pc = "plan" /\ pc' = "read"
      /\ UNCHANGED <<case, round, used, evidence, crashes, tried>>
  BY DEF Plan
<1>2. RoundOneCovers' /\ PrimaryFirst'
  BY <1>1, SameFocus DEF Covered, RoundOneCovers, PrimaryFirst
<1>3. ASSUME crashes = 0, round = 0, NEW t \in Types
      PROVE  FirstWaiting(t)'
  <2>1. tried = {} /\ evidence = {} /\ used[1][t] = 0
    BY <1>1, <1>3 DEF Covered, FirstRead
  <2>2. /\ Planned(t) \in Seq(Batches) /\ Len(Planned(t)) <= Cardinality(Focus) /\ MainFirst(t, Planned(t))
        /\ \A c \in Focus : \E i \in DOMAIN Planned(t) : c \in Planned(t)[i]
    BY <1>3, <2>1, PlannedBatches DEF TypeInv
  <2>3. pending'[t] = Planned(t) /\ used'[1][t] = 0 /\ tried' = {}
    BY <1>1, <2>1
  <2>4. MainFirst(t, pending[t])'
    BY <1>1, <2>2, <2>3, SameFocus DEF MainFirst
  <2>5. 0 + Len(Planned(t)) = Len(Planned(t))
    BY <2>2
  <2> QED
    BY <2>2, <2>3, <2>4, <2>5 DEF FirstWaiting
<1>4. FirstRead'
  BY <1>1, <1>3 DEF FirstRead
<1> QED
  BY <1>2, <1>4 DEF Covered

LEMMA StartWaveCovers ==
  ASSUME TypeInv, Covered, StartWave
  PROVE  Covered'
<1>1. /\ pc = "read" /\ UNCHANGED <<case, pc, round, crashes>>
      /\ wave' = {Call(t) : t \in Starting}
      /\ tried' = IF round = 0 /\ crashes = 0 THEN tried \cup UNION {Of(k) : k \in wave'} ELSE tried
  BY DEF StartWave
<1>2. CASE round # 0 \/ crashes # 0
  BY <1>1, <1>2, SameFocus DEF Covered, RoundOneCovers, PrimaryFirst, FirstRead
<1>3. CASE round = 0 /\ crashes = 0
  <2>1. \A t \in Types : \A c : <<t, c>> \in tried' <=> <<t, c>> \in tried \/ (t \in Starting /\ c \in Head(pending[t]))
    <3>1. tried' = tried \cup UNION {Of(Call(t)) : t \in Starting}
      BY <1>1, <1>3
    <3>2. \A t \in Starting : Of(Call(t)) = {t} \X Head(pending[t])
      BY DEF Of, Call
    <3>3. \A t, c : <<t, c>> \in UNION {Of(Call(u)) : u \in Starting} <=> t \in Starting /\ c \in Head(pending[t])
      BY <3>2
    <3> QED
      BY <3>1, <3>3
  <2>2. \A t \in Types : FirstWaiting(t)
    BY <1>1, <1>3 DEF Covered, FirstRead
  <2>3. ASSUME NEW t \in Types
        PROVE  /\ FirstWaiting(t)'
               /\ (\E c \in Secondary(t) : <<t, c>> \in tried') => {t} \X Primary(t) \subseteq tried'
    <3>1. Primary(t) \subseteq Focus /\ Primary(t)' = Primary(t) /\ Secondary(t)' = Secondary(t)
      BY <1>1, SameFocus DEF Primary
    <3>2. CASE t \notin Starting
      <4>1. pending'[t] = pending[t]
        BY <2>3, <3>2, WaveCalls
      <4>2. used'[1][t] = used[1][t]
        BY <3>2, WaveUses DEF Rounds
      <4>3. \A c : <<t, c>> \in tried' <=> <<t, c>> \in tried
        BY <2>1, <3>2
      <4>4. FirstWaiting(t)'
        BY <2>2, <3>1, <4>1, <4>2, <4>3 DEF FirstWaiting, MainFirst
      <4>5. (\E c \in Secondary(t) : <<t, c>> \in tried) => {t} \X Primary(t) \subseteq tried
        BY DEF Covered, PrimaryFirst
      <4> QED
        BY <4>3, <4>4, <4>5
    <3>3. CASE t \in Starting
      <4> DEFINE p == pending[t]
                 q == Tail(p)
      <4>1. /\ p \in Seq(Batches) /\ 1 \in DOMAIN p /\ Head(p) = p[1] /\ q \in Seq(Batches) /\ Len(q) = Len(p) - 1
            /\ \A i \in DOMAIN q : i + 1 \in DOMAIN p /\ q[i] = p[i + 1]
            /\ \A i \in DOMAIN p : i = 1 \/ (i - 1 \in DOMAIN q /\ q[i - 1] = p[i])
        BY <3>3, HeadBatch
      <4>2. pending'[t] = q /\ used'[1][t] = used[1][t] + 1 /\ used[1][t] \in Nat
        <5>1. Number = 1 /\ 1 \in Rounds
          BY <1>3 DEF Number, Rounds
        <5>2. used'[1][t] = used[1][t] + 1 /\ used[1][t] \in Nat
          BY <2>3, <3>3, <5>1, WaveUses DEF TypeInv, TypeOK
        <5> QED
          BY <2>3, <3>3, <5>2, WaveCalls
      <4>3. /\ used[1][t] + Len(p) <= Cardinality(Focus) /\ MainFirst(t, p)
            /\ (\E c \in Secondary(t) : <<t, c>> \in tried) => \A i \in DOMAIN p : p[i] \cap Primary(t) = {}
            /\ \A c \in Focus : <<t, c>> \in tried \/ \E i \in DOMAIN p : c \in p[i]
        BY <2>2 DEF FirstWaiting
      <4>4. Cardinality(Focus) \in Nat
        BY FocusSets, FewCampaigns DEF TypeInv
      <4> HIDE DEF p, q
      <4>5. used'[1][t] + Len(q) <= Cardinality(Focus)
        BY <4>1, <4>2, <4>3, <4>4
      <4>6. MainFirst(t, q)
        <5> SUFFICES ASSUME NEW i \in DOMAIN q, NEW j \in DOMAIN q, q[i] \cap Secondary(t) # {}, q[j] \cap Primary(t) # {}
                     PROVE  j <= i
          BY DEF MainFirst
        <5>1. j + 1 <= i + 1
          BY <4>1, <4>3 DEF MainFirst
        <5> QED
          BY <4>1, <5>1
      <4>7. ASSUME NEW c \in Secondary(t), <<t, c>> \in tried'
            PROVE  /\ \A i \in DOMAIN q : q[i] \cap Primary(t) = {}
                   /\ \A d \in Primary(t) : <<t, d>> \in tried'
        <5>1. CASE <<t, c>> \in tried
          <6>1. \A i \in DOMAIN q : q[i] \cap Primary(t) = {}
            BY <4>1, <4>3, <5>1
          <6>2. \A d \in Primary(t) : <<t, d>> \in tried
            BY <5>1 DEF Covered, PrimaryFirst
          <6> QED
            BY <2>1, <6>1, <6>2
        <5>2. CASE c \in p[1]
          <6>1. \A i \in DOMAIN p : p[i] \cap Primary(t) # {} => i <= 1
            BY <4>1, <4>3, <5>2 DEF MainFirst
          <6>2. \A i \in DOMAIN q : q[i] \cap Primary(t) = {}
            <7> SUFFICES ASSUME NEW i \in DOMAIN q, q[i] \cap Primary(t) # {}
                         PROVE  FALSE
              OBVIOUS
            <7>1. i + 1 <= 1 /\ i >= 1 /\ i \in Nat
              BY <4>1, <6>1
            <7> QED
              BY <7>1
          <6>3. ASSUME NEW d \in Primary(t)
                PROVE  <<t, d>> \in tried \/ d \in p[1]
            <7>1. <<t, d>> \in tried \/ \E i \in DOMAIN p : d \in p[i]
              BY <3>1, <4>3
            <7>2. ASSUME NEW i \in DOMAIN p, d \in p[i]
                  PROVE  d \in p[1]
              <8>1. i <= 1
                BY <6>1, <7>2
              <8>2. i = 1
                BY <4>1, <8>1
              <8> QED
                BY <7>2, <8>2
            <7> QED
              BY <7>1, <7>2
          <6> QED
            BY <2>1, <3>3, <4>1, <6>2, <6>3 DEF p
        <5> QED
          BY <2>1, <4>1, <4>7, <5>1, <5>2 DEF p
      <4>8. ASSUME NEW c \in Focus
            PROVE  <<t, c>> \in tried' \/ \E i \in DOMAIN q : c \in q[i]
        <5>1. CASE <<t, c>> \in tried
          BY <2>1, <5>1
        <5>2. CASE \E i \in DOMAIN p : c \in p[i]
          <6>1. PICK i \in DOMAIN p : c \in p[i]
            BY <5>2
          <6>2. CASE i = 1
            BY <2>1, <3>3, <4>1, <6>1, <6>2 DEF p
          <6>3. CASE i # 1
            BY <4>1, <6>1, <6>3
          <6> QED
            BY <6>2, <6>3
        <5> QED
          BY <4>3, <5>1, <5>2
      <4>9. Focus' = Focus
        BY DEF Focus
      <4>10. MainFirst(t, pending[t])'
        BY <3>1, <4>2, <4>6 DEF MainFirst
      <4>11. FirstWaiting(t)'
        <5>1. (used[1][t] + Len(pending[t]) <= Cardinality(Focus))'
          BY <4>2, <4>5, <4>9
        <5>2. ((\E c \in Secondary(t) : <<t, c>> \in tried) => \A i \in DOMAIN pending[t] : pending[t][i] \cap Primary(t) = {})'
          BY <3>1, <4>2, <4>7
        <5>3. (\A c \in Focus : <<t, c>> \in tried \/ \E i \in DOMAIN pending[t] : c \in pending[t][i])'
          BY <4>2, <4>8, <4>9
        <5> QED
          BY <4>10, <5>1, <5>2, <5>3 DEF FirstWaiting
      <4>12. ASSUME NEW c \in Secondary(t), <<t, c>> \in tried'
             PROVE  {t} \X Primary(t) \subseteq tried'
        <5>1. \A d \in Primary(t) : <<t, d>> \in tried'
          BY <4>7, <4>12
        <5> QED
          BY <5>1
      <4> QED
        BY <4>11, <4>12
    <3> QED
      BY <3>2, <3>3
  <2>4. RoundOneCovers' /\ FirstRead'
    BY <1>1, <1>3, <2>3 DEF RoundOneCovers, FirstRead
  <2>5. PrimaryFirst'
    BY <1>1, <2>3, SameFocus DEF PrimaryFirst
  <2> QED
    BY <2>4, <2>5 DEF Covered
<1> QED
  BY <1>2, <1>3

LEMMA EndWavesCovers ==
  ASSUME TypeInv, Covered, EndWaves
  PROVE  Covered'
<1>1. /\ pc = "read" /\ pc' = "baseline" /\ Starting = {}
      /\ UNCHANGED <<case, round, used, evidence, crashes, tried>>
  BY DEF EndWaves
<1>2. RoundOneCovers' /\ PrimaryFirst'
  BY <1>1, SameFocus DEF Covered, RoundOneCovers, PrimaryFirst
<1>3. ASSUME crashes = 0, round = 0, Limit >= MaxFocus, NEW t \in Types, NEW c \in Focus
      PROVE  <<t, c>> \in tried
  <2>1. FirstWaiting(t)
    BY <1>1, <1>3 DEF Covered, FirstRead
  <2>2. Number = 1 /\ used[1][t] \in Nat /\ pending[t] \in Seq(Batches)
    BY <1>3 DEF Number, TypeInv, TypeOK, Rounds
  <2>3. pending[t] = <<>> \/ used[1][t] >= Limit
    BY <1>1, <2>2, ReadsAssumption DEF Starting, MayReserve
  <2>4. used[1][t] + Len(pending[t]) <= Cardinality(Focus) /\ Cardinality(Focus) <= MaxFocus /\ Cardinality(Focus) \in Nat
    BY <2>1, FocusSets, FewCampaigns DEF FirstWaiting, TypeInv
  <2>5. Limit \in Nat /\ MaxFocus \in Nat
    BY ReadsAssumption
  <2>6. Len(pending[t]) \in Nat /\ (Len(pending[t]) = 0 => DOMAIN pending[t] = {})
    BY <2>2
  <2>7. DOMAIN pending[t] = {}
    BY <1>3, <2>2, <2>3, <2>4, <2>5, <2>6
  <2> QED
    BY <2>1, <2>7 DEF FirstWaiting
<1>4. FirstRead'
  <2>1. Focus' = Focus
    BY DEF Focus
  <2> QED
    BY <1>1, <1>3, <2>1 DEF FirstRead
<1> QED
  BY <1>2, <1>4 DEF Covered

LEMMA CoveredKept ==
  ASSUME TypeInv, Covered, [Next]_vars
  PROVE  Covered'
<1>1. CASE Answer
  <2>1. pc = "read" /\ UNCHANGED <<case, pc, round, pending, used, crashes, tried>>
    BY <1>1 DEF Answer
  <2>2. RoundOneCovers' /\ PrimaryFirst'
    BY <2>1, SameFocus DEF Covered, RoundOneCovers, PrimaryFirst
  <2>3. ASSUME NEW t \in Types, FirstWaiting(t)
        PROVE  FirstWaiting(t)'
    BY <2>1, <2>3, SameFocus DEF FirstWaiting, MainFirst, Focus
  <2>4. FirstRead'
    BY <2>1, <2>3 DEF Covered, FirstRead
  <2> QED
    BY <2>2, <2>4 DEF Covered
<1>2. CASE ReadBaseline
  <2>1. pc = "baseline" /\ UNCHANGED <<case, pc, round, crashes, tried>>
    BY <1>2 DEF ReadBaseline
  <2> QED
    BY <2>1, SameFocus DEF Covered, RoundOneCovers, PrimaryFirst, FirstRead, Focus
<1>3. CASE Conclude
  <2>1. pc = "baseline" /\ round' = round + 1 /\ round \in Nat /\ UNCHANGED <<case, crashes, tried>>
    BY <1>3 DEF Conclude, TypeInv, TypeOK
  <2>2. RoundOneCovers'
    BY <2>1 DEF Covered, RoundOneCovers, FirstRead, Focus
  <2>3. PrimaryFirst' /\ FirstRead'
    BY <2>1, SameFocus DEF Covered, PrimaryFirst, FirstRead
  <2> QED
    BY <2>2, <2>3 DEF Covered
<1>4. CASE Resume
  <2>1. crashes' # 0 /\ UNCHANGED <<case, tried>>
    BY <1>4, ReadsAssumption DEF Resume, TypeInv, TypeOK
  <2> QED
    BY <2>1, SameFocus DEF Covered, RoundOneCovers, PrimaryFirst, FirstRead
<1>5. CASE UNCHANGED vars
  BY <1>5 DEF vars, Covered, RoundOneCovers, PrimaryFirst, FirstRead, FirstWaiting, MainFirst, Primary, Secondary, Focus
<1> QED
  BY <1>1, <1>2, <1>3, <1>4, <1>5, PlanCovers, StartWaveCovers, EndWavesCovers DEF Next, Attribute

\* No report type is called more often than its quota allows in a round, and with a
\* quota of at least one call per focus campaign the first round tries every report of
\* every focus campaign, those a type matters most for first.
THEOREM AlwaysCovers == Spec => []QuotaCovers
<1>1. Init => Limits /\ Covered
  <2> SUFFICES ASSUME Init
               PROVE  Limits /\ Covered
    OBVIOUS
  <2>1. \A r \in Rounds, t \in Types : used[r][t] = 0
    BY DEF Init, NoCalls
  <2>2. saved.used = used
    BY DEF Init, State
  <2>3. Limits
    BY <2>1, <2>2, ReadsAssumption DEF Limits, HardLimit
  <2>4. \A t \in Types : used[1][t] = 0
    BY <2>1 DEF Rounds
  <2>5. Covered
    BY <2>4 DEF Init, Covered, RoundOneCovers, PrimaryFirst, FirstRead
  <2> QED
    BY <2>3, <2>5
<1>2. TypeInv /\ Limits /\ Covered /\ [Next]_vars => (Limits /\ Covered)'
  BY LimitsKept, CoveredKept
<1>3. TypeInv /\ Limits /\ Covered => QuotaCovers
  BY DEF TypeInv, Limits, Covered, QuotaCovers
<1> QED
  BY <1>1, <1>2, <1>3, AlwaysTyped, PTL DEF Spec

-----------------------------------------------------------------------------
(***************************************************************************)
(* Which reads are repeated.                                               *)
(***************************************************************************)
\* Without a private scope: nothing that waits or is on its way has evidence, no pair
\* is in two of these places, and a pair was answered once for its evidence and at most
\* once for each takeover.
FreshCalls ==
  /\ \A t \in Types : Waiting(t, pending[t])
  /\ \A k \in wave : Of(k) \cap evidence = {} /\ \A i \in DOMAIN pending[k.tool] : pending[k.tool][i] \cap k.batch = {}
  /\ \A k, l \in wave : k.tool = l.tool => k = l

Answers(p) == answered[p] <= crashes + (IF p \in evidence THEN 1 ELSE 0)

Fresh == ~case.scoped => (pc = "read" => FreshCalls) /\ \A p \in Pairs : Answers(p)

LEMMA StartWaveFresh ==
  ASSUME TypeInv, ~case.scoped, FreshCalls, StartWave
  PROVE  FreshCalls'
<1>1. UNCHANGED <<case, evidence>> /\ wave' = {Call(t) : t \in Starting}
  BY DEF StartWave
<1>2. \A t \in Types : Waiting(t, pending[t])
  BY DEF FreshCalls
<1>3. Queried = evidence /\ Queried' = evidence
  BY <1>1 DEF Queried
<1>4. ASSUME NEW t \in Types
      PROVE  Waiting(t, pending[t])'
  <2>1. CASE t \notin Starting
    <3>1. pending'[t] = pending[t]
      BY <1>4, <2>1, WaveCalls
    <3> QED
      BY <1>2, <1>3, <3>1 DEF Waiting
  <2>2. CASE t \in Starting
    <3> DEFINE p == pending[t]
               q == Tail(p)
    <3>1. p \in Seq(Batches) /\ q \in Seq(Batches) /\ \A i \in DOMAIN q : i + 1 \in DOMAIN p /\ q[i] = p[i + 1]
      BY <2>2, HeadBatch
    <3>2. pending'[t] = q
      BY <1>4, <2>2, WaveCalls
    <3>3. Waiting(t, p)
      BY <1>2
    <3> HIDE DEF p, q
    <3>4. \A i \in DOMAIN q : \A c \in q[i] : <<t, c>> \notin evidence
      BY <1>3, <3>1, <3>3 DEF Waiting
    <3>5. ASSUME NEW i \in DOMAIN q, NEW j \in DOMAIN q, i # j
          PROVE  q[i] \cap q[j] = {}
      <4>1. i + 1 # j + 1
        BY <3>1, <3>5
      <4> QED
        BY <3>1, <3>3, <4>1 DEF Waiting
    <3> QED
      BY <1>3, <3>2, <3>4, <3>5 DEF Waiting
  <2> QED
    BY <2>1, <2>2
<1>5. ASSUME NEW t \in Starting
      PROVE  /\ Of(Call(t)) \cap evidence = {}
             /\ \A i \in DOMAIN pending'[t] : pending'[t][i] \cap Call(t).batch = {}
  <2> DEFINE p == pending[t]
             q == Tail(p)
  <2>1. /\ p \in Seq(Batches) /\ 1 \in DOMAIN p /\ Head(p) = p[1] /\ q \in Seq(Batches) /\ t \in Types
        /\ \A i \in DOMAIN q : i + 1 \in DOMAIN p /\ q[i] = p[i + 1]
    BY HeadBatch
  <2>2. pending'[t] = q
    BY <1>5, <2>1, WaveCalls
  <2>3. Waiting(t, p)
    BY <1>2, <2>1
  <2>4. Call(t).batch = p[1] /\ Of(Call(t)) = {t} \X p[1]
    BY <2>1 DEF Call, Of
  <2> HIDE DEF p, q
  <2>5. \A c \in p[1] : <<t, c>> \notin evidence
    BY <1>3, <2>1, <2>3 DEF Waiting
  <2>6. ASSUME NEW i \in DOMAIN q
        PROVE  q[i] \cap p[1] = {}
    <3>1. i + 1 # 1 /\ i + 1 \in DOMAIN p /\ q[i] = p[i + 1]
      BY <2>1, <2>6
    <3> QED
      BY <2>1, <2>3, <3>1 DEF Waiting
  <2> QED
    BY <2>2, <2>4, <2>5, <2>6
<1>6. \A t \in Starting : Call(t).tool = t
  BY DEF Call
<1>7. (\A k \in wave : Of(k) \cap evidence = {} /\ \A i \in DOMAIN pending[k.tool] : pending[k.tool][i] \cap k.batch = {})'
  <2>1. ASSUME NEW k \in wave'
        PROVE  (Of(k) \cap evidence = {} /\ \A i \in DOMAIN pending[k.tool] : pending[k.tool][i] \cap k.batch = {})'
    <3>1. PICK t \in Starting : k = Call(t)
      BY <1>1, <2>1
    <3>2. k.tool = t /\ Of(k) = Of(Call(t)) /\ k.batch = Call(t).batch
      BY <1>6, <3>1
    <3>3. Of(k)' = Of(k) /\ evidence' = evidence
      BY <1>1 DEF Of
    <3> QED
      BY <1>5, <3>2, <3>3
  <2> QED
    BY <2>1
<1>8. (\A k, l \in wave : k.tool = l.tool => k = l)'
  BY <1>1, <1>6
<1> QED
  BY <1>4, <1>7, <1>8 DEF FreshCalls

LEMMA AnswerFresh ==
  ASSUME TypeInv, ~case.scoped, FreshCalls, \A p \in Pairs : Answers(p), Answer
  PROVE  FreshCalls' /\ \A p \in Pairs : Answers(p)'
<1>1. PICK k \in wave :
        /\ wave' = wave \ {k}
        /\ \/ Provided(k) /\ evidence' = evidence \cup Of(k)
           \/ UNCHANGED <<answered, evidence>>
  BY DEF Answer
<1>2. UNCHANGED <<case, crashes, pending>>
  BY DEF Answer
<1>3. k.tool \in Types /\ k.batch \in SUBSET Campaigns /\ Of(k) = {k.tool} \X k.batch
  <2>1. k \in Calls
    BY DEF TypeInv, TypeOK
  <2> QED
    BY <2>1 DEF Calls, Batches, Of
<1>4. /\ \A t \in Types : Waiting(t, pending[t])
      /\ \A l \in wave : Of(l) \cap evidence = {} /\ \A i \in DOMAIN pending[l.tool] : pending[l.tool][i] \cap l.batch = {}
      /\ \A l, m \in wave : l.tool = m.tool => l = m
  BY DEF FreshCalls
<1>5. Queried = evidence /\ Queried' = evidence'
  BY <1>2 DEF Queried
<1>6. evidence' \subseteq evidence \cup Of(k)
  BY <1>1
<1>7. ASSUME NEW t \in Types
      PROVE  Waiting(t, pending[t])'
  <2>1. Waiting(t, pending[t])
    BY <1>4
  <2>2. ASSUME NEW i \in DOMAIN pending[t], NEW c \in pending[t][i]
        PROVE  <<t, c>> \notin evidence'
    <3>1. <<t, c>> \notin evidence
      BY <1>5, <2>1, <2>2 DEF Waiting
    <3>2. t = k.tool => c \notin k.batch
      BY <1>4, <2>2
    <3> QED
      BY <1>3, <1>6, <3>1, <3>2
  <2> QED
    BY <1>2, <1>5, <2>1, <2>2 DEF Waiting
<1>8. ASSUME NEW l \in wave'
      PROVE  Of(l)' \cap evidence' = {}
  <2>1. l \in wave /\ l # k /\ Of(l)' = Of(l)
    BY <1>1, <1>8 DEF Of
  <2>2. l.tool # k.tool /\ Of(l) \cap evidence = {}
    BY <1>4, <2>1
  <2>3. Of(l) \cap Of(k) = {}
    BY <2>2 DEF Of
  <2> QED
    BY <1>6, <2>1, <2>2, <2>3
<1>9. FreshCalls'
  BY <1>1, <1>2, <1>4, <1>7, <1>8 DEF FreshCalls
<1>10. ASSUME NEW p \in Pairs
       PROVE  Answers(p)'
  <2>1. crashes \in Nat /\ answered \in [Pairs -> Nat]
    BY ReadsAssumption DEF TypeInv, TypeOK
  <2>2. Answers(p) /\ answered[p] \in Nat
    BY <1>10, <2>1
  <2>3. CASE answered'[p] = answered[p] /\ (p \in evidence => p \in evidence')
    BY <1>2, <2>1, <2>2, <2>3 DEF Answers
  <2>4. CASE p \in Of(k) /\ answered'[p] = answered[p] + 1 /\ evidence' = evidence \cup Of(k)
    <3>1. p \notin evidence /\ p \in evidence'
      BY <1>4, <2>4
    <3> QED
      BY <1>2, <2>1, <2>2, <2>4, <3>1 DEF Answers
  <2>5. CASE Provided(k) /\ evidence' = evidence \cup Of(k)
    <3>1. answered'[p] = answered[p] \/ (p \in Of(k) /\ answered'[p] = answered[p] + 1)
      BY <1>10, <2>1, <2>5 DEF Provided
    <3> QED
      BY <2>3, <2>4, <2>5, <3>1
  <2>6. CASE UNCHANGED <<answered, evidence>>
    BY <2>3, <2>6
  <2> QED
    BY <1>1, <2>5, <2>6
<1> QED
  BY <1>9, <1>10

LEMMA FreshKept ==
  ASSUME TypeInv, Fresh, [Next]_vars
  PROVE  Fresh'
<1> SUFFICES ASSUME ~case'.scoped
             PROVE  (pc' = "read" => FreshCalls') /\ \A p \in Pairs : Answers(p)'
  BY DEF Fresh
<1>1. case' = case
  BY DEF Next, Attribute, Plan, StartWave, Answer, EndWaves, ReadBaseline, Conclude, Resume, vars
<1>2. ~case.scoped /\ (pc = "read" => FreshCalls) /\ \A p \in Pairs : Answers(p)
  BY <1>1 DEF Fresh
<1>3. ASSUME UNCHANGED <<answered, crashes, evidence>>
      PROVE  \A p \in Pairs : Answers(p)'
  BY <1>2, <1>3 DEF Answers
<1>4. CASE Plan
  <2>1. /\ pending' = [t \in Types |-> Planned(t)] /\ pc = "plan"
        /\ UNCHANGED <<case, wave, evidence, answered, crashes>>
    BY <1>4 DEF Plan
  <2>2. wave' = {}
    BY <2>1 DEF TypeInv, Stages
  <2>3. \A t \in Types : Waiting(t, Planned(t))
    BY PlannedBatches DEF TypeInv
  <2>4. Queried' = Queried
    BY <2>1 DEF Queried
  <2>5. \A t \in Types : Waiting(t, pending[t])'
    BY <2>1, <2>3, <2>4 DEF Waiting
  <2> QED
    BY <1>3, <2>1, <2>2, <2>5 DEF FreshCalls
<1>5. CASE StartWave
  <2>1. pc = "read" /\ UNCHANGED <<answered, crashes, evidence>>
    BY <1>5 DEF StartWave
  <2> QED
    BY <1>2, <1>3, <1>5, <2>1, StartWaveFresh
<1>6. CASE Answer
  <2>1. pc = "read"
    BY <1>6 DEF Answer
  <2> QED
    BY <1>2, <1>6, <2>1, AnswerFresh
<1>7. CASE EndWaves \/ Conclude
  <2>1. pc' # "read" /\ UNCHANGED <<answered, crashes, evidence>>
    BY <1>7 DEF EndWaves, Conclude
  <2> QED
    BY <1>3, <2>1
<1>8. CASE ReadBaseline
  <2>1. pc' # "read" /\ UNCHANGED <<crashes, evidence>>
    BY <1>8 DEF ReadBaseline
  <2>2. answered' = answered
    BY <1>8 DEF ReadBaseline, Provided
  <2> QED
    BY <1>3, <2>1, <2>2
<1>9. CASE Resume
  <2>1. pc' = "plan" /\ crashes' = crashes + 1 /\ answered' = answered
    BY <1>9 DEF Resume
  <2>2. crashes \in Nat /\ answered \in [Pairs -> Nat]
    BY ReadsAssumption DEF TypeInv, TypeOK
  <2>3. ASSUME NEW p \in Pairs
        PROVE  Answers(p)'
    <3>1. answered[p] \in Nat /\ answered[p] <= crashes + 1
      BY <1>2, <2>2, <2>3 DEF Answers
    <3> QED
      BY <2>1, <2>2, <3>1 DEF Answers
  <2> QED
    BY <2>1, <2>3
<1>10. CASE UNCHANGED vars
  <2>1. UNCHANGED <<pc, pending, wave, answered, crashes, evidence>>
    BY <1>10 DEF vars
  <2>2. Queried' = Queried
    BY <1>1, <2>1 DEF Queried
  <2>3. pc = "read" => FreshCalls'
    BY <1>2, <2>1, <2>2 DEF FreshCalls, Waiting, Of
  <2> QED
    BY <1>3, <2>1, <2>3
<1> QED
  BY <1>4, <1>5, <1>6, <1>7, <1>8, <1>9, <1>10 DEF Next, Attribute

\* Without a private scope a report of a campaign is read at most once more than the
\* run was taken over, whatever the waves, the failed calls and the second round do.
THEOREM OnlyTakeoversRepeat == Spec => []RepeatedByTakeover
<1>1. Init => Fresh
  BY DEF Init, Fresh, Answers
<1>2. TypeInv /\ Fresh /\ [Next]_vars => Fresh'
  BY FreshKept
<1>3. TypeInv /\ Fresh => RepeatedByTakeover
  <2> SUFFICES ASSUME TypeInv, Fresh, ~case.scoped, NEW p \in Pairs
               PROVE  answered[p] <= 1 + crashes
    BY DEF RepeatedByTakeover
  <2>1. crashes \in Nat /\ answered[p] \in Nat
    BY ReadsAssumption DEF TypeInv, TypeOK
  <2>2. Answers(p)
    BY DEF Fresh
  <2> QED
    BY <2>1, <2>2 DEF Answers
<1> QED
  BY <1>1, <1>2, <1>3, AlwaysTyped, PTL DEF Spec
=============================================================================
