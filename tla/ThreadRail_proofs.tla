--------------------------- MODULE ThreadRail_proofs ---------------------------
(***************************************************************************)
(* Theorems about the chat rail, for every value of the constants: any     *)
(* Mons, any number of messages and of fetches that fail.  First what the  *)
(* operators on lists keep of them (their entries, their order, no id      *)
(* twice), then the invariant, then what a step may do to the rail.        *)
(***************************************************************************)
EXTENDS ThreadRail, FiniteSetTheorems, TLAPS

\* No id is in the list twice.
Distinct(l) == \A i, j \in DOMAIN l : l[i].id = l[j].id => i = j
Rail == {l \in Seq(Entry) : Distinct(l)}

\* t comes before u in l.
Before(l, t, u) == \E i, j \in DOMAIN l : i < j /\ l[i].id = t /\ l[j].id = u
Holds(l, e) == \E i \in DOMAIN l : l[i] = e

\* The ids of T that are in both lists have the same order in both.
SameOrder(a, b, T) ==
    \A t, u \in IdsOf(a) \cap IdsOf(b) \cap T : Before(a, t, u) <=> Before(b, t, u)

-----------------------------------------------------------------------------
(* The order of a set of numbers *)

\* How many numbers of K are at most i.
Rank(K, i) == Cardinality({j \in K : j <= i})

LEMMA RankGrows ==
    ASSUME NEW n \in Nat, NEW K \in SUBSET (1..n)
    PROVE  /\ IsFiniteSet(K) /\ Cardinality(K) \in Nat
           /\ \A i \in K : Rank(K, i) \in 1..Cardinality(K)
           /\ \A i, j \in K : i < j => Rank(K, i) < Rank(K, j)
<1>1. IsFiniteSet(K) /\ Cardinality(K) \in Nat
  <2>1. IsFiniteSet(1..n)
    BY FS_Interval
  <2>2. IsFiniteSet(K)
    BY <2>1, FS_Subset
  <2> QED
    BY <2>2, FS_CardinalityType
<1>2. ASSUME NEW i \in K
      PROVE  Rank(K, i) \in 1..Cardinality(K)
  <2> DEFINE S == {j \in K : j <= i}
  <2>1. S \in SUBSET K /\ i \in S
    OBVIOUS
  <2>2. IsFiniteSet(S) /\ Cardinality(S) <= Cardinality(K)
    BY <1>1, <2>1, FS_Subset
  <2>3. Cardinality(S) \in Nat /\ Cardinality(S) # 0
    BY <2>1, <2>2, FS_CardinalityType, FS_EmptySet
  <2> QED
    BY <1>1, <2>2, <2>3 DEF Rank
<1>3. ASSUME NEW i \in K, NEW j \in K, i < j
      PROVE  Rank(K, i) < Rank(K, j)
  <2> DEFINE S == {k \in K : k <= i}
             T == {k \in K : k <= j}
  <2>1. T \in SUBSET K /\ S \in SUBSET T /\ j \in T /\ j \notin S
    <3>1. i \in Int /\ j \in Int /\ \A k \in K : k \in Int
      OBVIOUS
    <3>2. \A k \in K : k <= i => k <= j
      BY <1>3, <3>1
    <3>3. j <= j /\ ~(j <= i)
      BY <1>3, <3>1
    <3> QED
      BY <3>2, <3>3
  <2>2. IsFiniteSet(T)
    BY <1>1, <2>1, FS_Subset
  <2> HIDE DEF S, T
  <2>3. Cardinality(S) <= Cardinality(T) /\ Cardinality(S) # Cardinality(T)
    BY <2>1, <2>2, FS_Subset
  <2>4. Cardinality(S) \in Nat /\ Cardinality(T) \in Nat
    BY <2>1, <2>2, FS_Subset, FS_CardinalityType
  <2> QED
    BY <2>3, <2>4 DEF Rank, S, T
<1> QED
  BY <1>1, <1>2, <1>3

\* A set of numbers can be put in order, and an order leaves none of them out.
LEMMA OrderExists ==
    ASSUME NEW n \in Nat, NEW K \in SUBSET (1..n)
    PROVE  \E f \in [1..Cardinality(K) -> K] :
              \A i, j \in 1..Cardinality(K) : i < j => f[i] < f[j]
<1> DEFINE P == 1..Cardinality(K)
           rank == [i \in K |-> Rank(K, i)]
           f == [k \in P |-> CHOOSE i \in K : rank[i] = k]
<1>1. /\ IsFiniteSet(K) /\ Cardinality(K) \in Nat
      /\ \A i \in K : Rank(K, i) \in P
      /\ \A i, j \in K : i < j => Rank(K, i) < Rank(K, j)
  BY RankGrows
<1>2. rank \in [K -> P] /\ \A i, j \in K : i < j => rank[i] < rank[j]
  BY <1>1
<1>3. \A i, j \in K : rank[i] = rank[j] => i = j
  <2> SUFFICES ASSUME NEW i \in K, NEW j \in K, rank[i] = rank[j] PROVE i = j
    OBVIOUS
  <2>1. i \in Int /\ j \in Int /\ rank[i] \in Int /\ rank[j] \in Int
    BY <1>1, <1>2
  <2>2. ~(i < j) /\ ~(j < i)
    BY <1>2, <2>1
  <2> QED
    BY <2>1, <2>2
<1> HIDE DEF rank
<1>4. rank \in Injection(K, P)
  BY <1>2, <1>3 DEF Injection, IsInjective
<1>5. IsFiniteSet(P) /\ Cardinality(P) = Cardinality(K)
  BY <1>1, FS_Interval
<1>6. rank \in Surjection(K, P)
  BY <1>1, <1>4, <1>5, FS_Injection
<1>7. \A k \in P : f[k] \in K /\ rank[f[k]] = k
  BY <1>6 DEF Surjection
<1>8. f \in [P -> K]
  BY <1>7
<1> HIDE DEF f
<1>9. \A i, j \in P : i < j => f[i] < f[j]
  <2> SUFFICES ASSUME NEW i \in P, NEW j \in P, i < j PROVE f[i] < f[j]
    OBVIOUS
  <2>1. f[i] \in K /\ f[j] \in K /\ rank[f[i]] = i /\ rank[f[j]] = j
    BY <1>7
  <2>3. f[i] \in Int /\ f[j] \in Int
    <3>1. \A k \in K : k \in Int
      OBVIOUS
    <3> QED
      BY <2>1, <3>1
  <2>2. f[i] # f[j] /\ ~(f[j] < f[i])
    BY <1>2, <2>1, <2>3
  <2> QED
    BY <2>2, <2>3
<1> QED
  BY <1>8, <1>9

\* What is increasing on 1..c is increasing both ways.
LEMMA IncreasingBothWays ==
    ASSUME NEW c \in Nat, NEW f \in [1..c -> Int],
           \A i, j \in 1..c : i < j => f[i] < f[j]
    PROVE  /\ \A i, j \in 1..c : i < j <=> f[i] < f[j]
           /\ \A i, j \in 1..c : f[i] = f[j] => i = j
OBVIOUS

LEMMA OrderCovers ==
    ASSUME NEW n \in Nat, NEW K \in SUBSET (1..n), NEW f \in [1..Cardinality(K) -> K],
           \A i, j \in 1..Cardinality(K) : i < j => f[i] < f[j]
    PROVE  /\ Cardinality(K) \in Nat
           /\ \A i, j \in 1..Cardinality(K) : i < j <=> f[i] < f[j]
           /\ \A k \in K : \E i \in 1..Cardinality(K) : f[i] = k
<1> DEFINE c == Cardinality(K)
<1>1. IsFiniteSet(K) /\ c \in Nat /\ K \subseteq Int
  <2>1. K \subseteq Int
    OBVIOUS
  <2> QED
    BY <2>1, RankGrows
<1>2. f \in [1..c -> K] /\ \A i, j \in 1..c : i < j => f[i] < f[j]
  OBVIOUS
<1> HIDE DEF c
<1>3. f \in [1..c -> Int]
  BY <1>1, <1>2
<1>4. /\ \A i, j \in 1..c : i < j <=> f[i] < f[j]
      /\ \A i, j \in 1..c : f[i] = f[j] => i = j
  BY <1>1, <1>2, <1>3, IncreasingBothWays
<1>5. f \in Injection(1..c, K)
  BY <1>2, <1>4 DEF Injection, IsInjective
<1>6. IsFiniteSet(1..c) /\ Cardinality(1..c) = c
  BY <1>1, FS_Interval
<1>7. f \in Surjection(1..c, K)
  BY <1>1, <1>5, <1>6, FS_Injection DEF c
<1> QED
  BY <1>1, <1>4, <1>7 DEF Surjection, c

-----------------------------------------------------------------------------
(* Lists of threads *)

LEMMA RailFields ==
    ASSUME NEW l \in Rail
    PROVE  /\ Len(l) \in Nat /\ DOMAIN l = 1..Len(l)
           /\ \A i \in DOMAIN l : l[i] \in Entry /\ l[i].id \in Ids /\ i \in Int
           /\ \A i, j \in DOMAIN l : l[i].id = l[j].id => i = j
<1>1. l \in Seq(Entry) /\ \A i, j \in DOMAIN l : l[i].id = l[j].id => i = j
  BY DEF Rail, Distinct
<1>2. Len(l) \in Nat /\ DOMAIN l = 1..Len(l) /\ \A i \in DOMAIN l : l[i] \in Entry
  BY <1>1
<1>3. \A x \in Entry : x.id \in Ids
  BY DEF Entry
<1>4. \A i \in 1..Len(l) : i \in Int
  BY <1>2
<1> QED
  BY <1>1, <1>2, <1>3, <1>4

LEMMA RailIntro ==
    ASSUME NEW n \in Nat, NEW l, DOMAIN l = 1..n, l = [i \in 1..n |-> l[i]],
           \A i \in 1..n : l[i] \in Entry,
           \A i, j \in 1..n : l[i].id = l[j].id => i = j
    PROVE  l \in Rail
BY DEF Rail, Distinct

\* In a list without repetitions the ids have the order of their places.
LEMMA PositionOf ==
    ASSUME NEW l \in Rail, NEW i \in DOMAIN l
    PROVE  Position(l, l[i].id) = i /\ EntryOf(l, l[i].id) = l[i]
BY RailFields DEF Position, EntryOf

LEMMA BeforeIsPosition ==
    ASSUME NEW l \in Rail, NEW t \in IdsOf(l), NEW u \in IdsOf(l)
    PROVE  Before(l, t, u) <=> Position(l, t) < Position(l, u)
<1>1. PICK i \in DOMAIN l, j \in DOMAIN l : l[i].id = t /\ l[j].id = u
  BY DEF IdsOf
<1>2. Position(l, t) = i /\ Position(l, u) = j
  BY <1>1, PositionOf
<1>3. \A k \in DOMAIN l : (l[k].id = t => k = i) /\ (l[k].id = u => k = j)
  BY <1>1, RailFields
<1> QED
  BY <1>1, <1>2, <1>3 DEF Before

\* Keep() keeps the entries with these ids, and their order.
LEMMA KeepKeeps ==
    ASSUME NEW l \in Rail, NEW ids
    PROVE  LET k == Keep(l, ids)
           IN  /\ k \in Rail /\ IdsOf(k) = IdsOf(l) \cap ids
               /\ \A i \in DOMAIN k : k[i].id \in ids /\ Holds(l, k[i])
               /\ \A i \in DOMAIN l : l[i].id \in ids => Holds(k, l[i])
               /\ SameOrder(l, k, ids)
<1> DEFINE kept == {i \in DOMAIN l : l[i].id \in ids}
           c == Cardinality(kept)
           order == CHOOSE f \in [1..c -> kept] : \A i, j \in 1..c : i < j => f[i] < f[j]
           k == [i \in 1..c |-> l[order[i]]]
<1>1. Keep(l, ids) = k
  BY DEF Keep
<1>2. kept \in SUBSET (1..Len(l)) /\ Len(l) \in Nat
  BY RailFields
<1>3. \A i \in kept : i \in DOMAIN l /\ l[i].id \in ids
  OBVIOUS
<1>4. \A i \in DOMAIN l : l[i].id \in ids => i \in kept
  OBVIOUS
<1> HIDE DEF kept
<1>5. order \in [1..c -> kept] /\ \A i, j \in 1..c : i < j => order[i] < order[j]
  BY <1>2, OrderExists
<1> HIDE DEF order
<1>6. /\ c \in Nat
      /\ \A i, j \in 1..c : i < j <=> order[i] < order[j]
      /\ \A m \in kept : \E i \in 1..c : order[i] = m
  BY <1>2, <1>5, OrderCovers
<1> HIDE DEF c
<1>7. \A i, j \in 1..c : order[i] = order[j] => i = j
  <2>1. \A m \in kept : m \in Int
    BY <1>2
  <2>2. order \in [1..c -> Int]
    BY <1>5, <2>1
  <2> QED
    BY <1>5, <1>6, <2>2, IncreasingBothWays
<1>8. \A i \in 1..c : order[i] \in DOMAIN l /\ k[i] = l[order[i]] /\ k[i].id \in ids
  BY <1>3, <1>5
<1>9. k \in Rail
  <2>1. \A i \in 1..c : k[i] \in Entry
    BY <1>8, RailFields
  <2>2. \A i, j \in 1..c : k[i].id = k[j].id => i = j
    BY <1>7, <1>8, RailFields
  <2>3. DOMAIN k = 1..c /\ k = [i \in 1..c |-> k[i]]
    OBVIOUS
  <2> HIDE DEF k
  <2> QED
    BY <1>6, <2>1, <2>2, <2>3, RailIntro
<1>10. DOMAIN k = 1..c
  OBVIOUS
<1> HIDE DEF k
<1>11. \A i \in DOMAIN k : k[i].id \in ids /\ Holds(l, k[i])
  BY <1>8, <1>10 DEF Holds
<1>12. \A i \in DOMAIN l : l[i].id \in ids => Holds(k, l[i])
  BY <1>4, <1>6, <1>8, <1>10 DEF Holds
<1>13. IdsOf(k) = IdsOf(l) \cap ids
  BY <1>11, <1>12 DEF IdsOf, Holds
<1>14. SameOrder(l, k, ids)
  <2> SUFFICES ASSUME NEW t \in ids, NEW u \in ids, t \in IdsOf(k), u \in IdsOf(k)
               PROVE  Before(l, t, u) <=> Before(k, t, u)
    BY DEF SameOrder
  <2>1. PICK i \in 1..c, j \in 1..c : k[i].id = t /\ k[j].id = u
    BY <1>10 DEF IdsOf
  <2>2. Before(k, t, u) <=> i < j
    BY <1>9, <1>10, <2>1, RailFields DEF Before
  <2>3. Before(l, t, u) <=> order[i] < order[j]
    <3>1. order[i] \in DOMAIN l /\ order[j] \in DOMAIN l
          /\ l[order[i]].id = t /\ l[order[j]].id = u
      BY <1>8, <2>1
    <3>2. \A m \in DOMAIN l : (l[m].id = t => m = order[i]) /\ (l[m].id = u => m = order[j])
      BY <3>1, RailFields
    <3> QED
      BY <3>1, <3>2 DEF Before
  <2> QED
    BY <1>6, <2>2, <2>3
<1> QED
  BY <1>1, <1>9, <1>11, <1>12, <1>13, <1>14
\* Lists with the same ids at the same places.
LEMMA SamePlaces ==
    ASSUME NEW l \in Rail, NEW m, DOMAIN m = DOMAIN l, m = [i \in DOMAIN l |-> m[i]],
           \A i \in DOMAIN l : m[i] \in Entry /\ m[i].id = l[i].id
    PROVE  m \in Rail /\ IdsOf(m) = IdsOf(l) /\ SameOrder(l, m, Ids)
<1>1. m \in Rail
  <2>1. /\ Len(l) \in Nat /\ DOMAIN l = 1..Len(l)
        /\ \A i, j \in DOMAIN l : l[i].id = l[j].id => i = j
    BY RailFields
  <2> QED
    BY <2>1, RailIntro
<1>2. IdsOf(m) = IdsOf(l)
  BY DEF IdsOf
<1>3. \A t, u : Before(l, t, u) <=> Before(m, t, u)
  BY DEF Before
<1> QED
  BY <1>1, <1>2, <1>3 DEF SameOrder

\* Two lists that have no id in common, one after the other.
LEMMA Joined ==
    ASSUME NEW a \in Rail, NEW b \in Rail, IdsOf(a) \cap IdsOf(b) = {}
    PROVE  LET l == a \o b
           IN  /\ l \in Rail /\ IdsOf(l) = IdsOf(a) \cup IdsOf(b)
               /\ SameOrder(a, l, IdsOf(a)) /\ SameOrder(b, l, IdsOf(b))
               /\ \A i \in DOMAIN a : Holds(l, a[i])
               /\ \A i \in DOMAIN b : Holds(l, b[i])
<1> DEFINE l == a \o b
           m == Len(a)
           n == Len(b)
<1>1. /\ a \in Seq(Entry) /\ b \in Seq(Entry) /\ m \in Nat /\ n \in Nat
      /\ DOMAIN a = 1..m /\ DOMAIN b = 1..n
  BY RailFields DEF Rail
<1>2. /\ l \in Seq(Entry) /\ Len(l) = m + n /\ DOMAIN l = 1..(m + n)
      /\ \A i \in 1..m : l[i] = a[i]
      /\ \A i \in 1..n : l[m + i] = b[i]
  BY <1>1
<1> HIDE DEF l, m, n
<1>3. \A i \in DOMAIN l : i \in 1..m \/ \E j \in 1..n : i = m + j
  <2> SUFFICES ASSUME NEW i \in 1..(m + n), i \notin 1..m PROVE i - m \in 1..n /\ i = m + (i - m)
    BY <1>2
  <2> QED
    BY <1>1
<1>4. /\ \A i \in 1..m : i \in DOMAIN l /\ l[i].id \in IdsOf(a)
      /\ \A i \in 1..n : m + i \in DOMAIN l /\ l[m + i].id \in IdsOf(b)
  <2>1. \A i \in 1..m : i \in 1..(m + n)
    BY <1>1
  <2>2. \A i \in 1..n : m + i \in 1..(m + n)
    BY <1>1
  <2> QED
    BY <1>1, <1>2, <2>1, <2>2 DEF IdsOf
<1>5. IdsOf(l) = IdsOf(a) \cup IdsOf(b)
  <2>1. IdsOf(l) \subseteq IdsOf(a) \cup IdsOf(b)
    BY <1>3, <1>4 DEF IdsOf
  <2>2. IdsOf(a) \subseteq IdsOf(l)
    BY <1>1, <1>2, <1>4 DEF IdsOf
  <2>3. IdsOf(b) \subseteq IdsOf(l)
    <3> SUFFICES ASSUME NEW i \in 1..n PROVE b[i].id \in IdsOf(l)
      BY <1>1 DEF IdsOf
    <3>1. m + i \in DOMAIN l /\ l[m + i].id = b[i].id
      BY <1>2, <1>4
    <3> QED
      BY <3>1 DEF IdsOf
  <2> QED
    BY <2>1, <2>2, <2>3
<1>6. ASSUME NEW i \in DOMAIN l, NEW j \in DOMAIN l, l[i].id = l[j].id
      PROVE  i = j
  <2>1. CASE i \in 1..m /\ j \in 1..m
    BY <1>1, <1>2, <1>6, <2>1, RailFields
  <2>2. CASE (\E k \in 1..n : i = m + k) /\ (\E k \in 1..n : j = m + k)
    <3>1. PICK v \in 1..n, w \in 1..n : i = m + v /\ j = m + w
      BY <2>2
    <3>2. b[v].id = b[w].id
      BY <1>2, <1>6, <3>1
    <3> QED
      BY <1>1, <3>1, <3>2, RailFields
  <2>3. CASE (i \in 1..m /\ \E k \in 1..n : j = m + k) \/ (j \in 1..m /\ \E k \in 1..n : i = m + k)
    BY <1>4, <1>6, <2>3
  <2> QED
    BY <1>3, <2>1, <2>2, <2>3
<1>7. l \in Rail
  BY <1>2, <1>6 DEF Rail, Distinct
<1>8. SameOrder(a, l, IdsOf(a))
  <2> SUFFICES ASSUME NEW t \in IdsOf(a), NEW u \in IdsOf(a)
               PROVE  Before(a, t, u) <=> Before(l, t, u)
    BY DEF SameOrder
  <2>1. PICK i \in 1..m, j \in 1..m : a[i].id = t /\ a[j].id = u
    BY <1>1 DEF IdsOf
  <2>2. i \in DOMAIN l /\ j \in DOMAIN l /\ l[i].id = t /\ l[j].id = u
    BY <1>2, <1>4, <2>1
  <2>3. \A k \in DOMAIN l : (l[k].id = t => k = i) /\ (l[k].id = u => k = j)
    BY <1>6, <2>2
  <2>4. \A k \in DOMAIN a : (a[k].id = t => k = i) /\ (a[k].id = u => k = j)
    BY <1>1, <2>1, RailFields
  <2> QED
    BY <1>1, <2>1, <2>2, <2>3, <2>4 DEF Before
<1>9. SameOrder(b, l, IdsOf(b))
  <2> SUFFICES ASSUME NEW t \in IdsOf(b), NEW u \in IdsOf(b)
               PROVE  Before(b, t, u) <=> Before(l, t, u)
    BY DEF SameOrder
  <2>1. PICK i \in 1..n, j \in 1..n : b[i].id = t /\ b[j].id = u
    BY <1>1 DEF IdsOf
  <2>2. m + i \in DOMAIN l /\ m + j \in DOMAIN l /\ l[m + i].id = t /\ l[m + j].id = u
    BY <1>2, <1>4, <2>1
  <2>3. \A k \in DOMAIN l : (l[k].id = t => k = m + i) /\ (l[k].id = u => k = m + j)
    BY <1>6, <2>2
  <2>4. \A k \in DOMAIN b : (b[k].id = t => k = i) /\ (b[k].id = u => k = j)
    BY <1>1, <2>1, RailFields
  <2>5. i < j <=> m + i < m + j
    BY <1>1
  <2> QED
    BY <1>1, <2>1, <2>2, <2>3, <2>4, <2>5 DEF Before
<1>10. (\A i \in DOMAIN a : Holds(l, a[i])) /\ (\A i \in DOMAIN b : Holds(l, b[i]))
  BY <1>1, <1>2, <1>4 DEF Holds
<1> QED
  BY <1>5, <1>7, <1>8, <1>9, <1>10 DEF l

LEMMA SingleRail ==
    ASSUME NEW e \in Entry
    PROVE  <<e>> \in Rail /\ IdsOf(<<e>>) = {e.id} /\ Holds(<<e>>, e)
<1> DEFINE l == <<e>>
<1>1. l \in Seq(Entry) /\ DOMAIN l = {1} /\ l[1] = e
  OBVIOUS
<1> HIDE DEF l
<1>2. l \in Rail
  BY <1>1 DEF Rail, Distinct
<1>3. IdsOf(l) = {e.id}
  BY <1>1 DEF IdsOf
<1>4. Holds(l, e)
  BY <1>1 DEF Holds
<1> QED
  BY <1>2, <1>3, <1>4 DEF l
-----------------------------------------------------------------------------
(* What the operators do to a list *)

\* The entries of l but those of the ids in T are in m.
KeepsEntries(l, m, T) == \A i \in DOMAIN l : l[i].id \notin T => Holds(m, l[i])

LEMMA HeldId ==
    ASSUME NEW l, NEW e, Holds(l, e)
    PROVE  e.id \in IdsOf(l)
BY DEF Holds, IdsOf

\* The id keeps its place, its entry has the state.
LEMMA WithStateKeeps ==
    ASSUME NEW l \in Rail, NEW t \in Ids, NEW state \in OpenState
    PROVE  LET m == WithState(l, t, state)
           IN  /\ m \in Rail /\ IdsOf(m) = IdsOf(l) /\ SameOrder(l, m, Ids)
               /\ KeepsEntries(l, m, {t})
               /\ t \in IdsOf(l) => Holds(m, [id |-> t, state |-> state])
<1> DEFINE m == WithState(l, t, state)
<1>1. \A i \in DOMAIN l : l[i] \in Entry
  BY RailFields
<1>2. /\ DOMAIN m = DOMAIN l /\ m = [i \in DOMAIN l |-> m[i]]
      /\ \A i \in DOMAIN l : /\ l[i].id = t => m[i] = [id |-> t, state |-> state]
                             /\ l[i].id # t => m[i] = l[i]
  BY <1>1 DEF WithState, Entry
<1> HIDE DEF m
<1>3. \A i \in DOMAIN l : m[i] \in Entry /\ m[i].id = l[i].id
  <2>1. [id |-> t, state |-> state] \in Entry
    BY DEF Entry
  <2> QED
    BY <1>1, <1>2, <2>1
<1>4. m \in Rail /\ IdsOf(m) = IdsOf(l) /\ SameOrder(l, m, Ids)
  BY <1>2, <1>3, SamePlaces
<1>5. KeepsEntries(l, m, {t})
  BY <1>2 DEF KeepsEntries, Holds
<1>6. t \in IdsOf(l) => Holds(m, [id |-> t, state |-> state])
  BY <1>2 DEF IdsOf, Holds
<1> QED
  BY <1>4, <1>5, <1>6 DEF m

\* e takes the place of the entry with the id t, which e has or nobody else has.
Put(l, t, e) == [i \in DOMAIN l |-> IF l[i].id = t THEN e ELSE l[i]]

LEMMA PutInPlace ==
    ASSUME NEW l \in Rail, NEW t \in IdsOf(l), NEW e \in Entry, e.id \notin IdsOf(l) \ {t}
    PROVE  LET m == Put(l, t, e)
           IN  /\ m \in Rail /\ \A v : v \in IdsOf(m) <=> v = e.id \/ (v \in IdsOf(l) /\ v # t)
               /\ SameOrder(l, m, Ids \ {t, e.id}) /\ (e.id = t => SameOrder(l, m, Ids))
               /\ KeepsEntries(l, m, {t})
<1> DEFINE m == Put(l, t, e)
<1>1. /\ Len(l) \in Nat /\ DOMAIN l = 1..Len(l)
      /\ \A i \in DOMAIN l : l[i] \in Entry
      /\ \A i, j \in DOMAIN l : l[i].id = l[j].id => i = j
  BY RailFields
<1>2. /\ DOMAIN m = DOMAIN l /\ m = [i \in DOMAIN l |-> m[i]]
      /\ \A i \in DOMAIN l : (l[i].id = t => m[i] = e) /\ (l[i].id # t => m[i] = l[i])
  BY DEF Put
<1> HIDE DEF m
<1>3. \A i \in DOMAIN l : m[i] \in Entry
  BY <1>1, <1>2
<1>4. \A i \in DOMAIN l : m[i].id = e.id => l[i].id = t
  BY <1>2 DEF IdsOf
<1>5. \A i, j \in DOMAIN l : m[i].id = m[j].id => i = j
  BY <1>1, <1>2, <1>4
<1>6. m \in Rail
  BY <1>1, <1>2, <1>3, <1>5, RailIntro
<1>7. IdsOf(m) = (IdsOf(l) \ {t}) \cup {e.id}
  <2>1. IdsOf(m) \subseteq (IdsOf(l) \ {t}) \cup {e.id}
    BY <1>2 DEF IdsOf
  <2>2. IdsOf(l) \ {t} \subseteq IdsOf(m)
    BY <1>2 DEF IdsOf
  <2>3. e.id \in IdsOf(m)
    BY <1>2 DEF IdsOf
  <2> QED
    BY <2>1, <2>2, <2>3
<1>8. \A v \in Ids \ {t, e.id} : \A i \in DOMAIN l : l[i].id = v <=> m[i].id = v
  BY <1>2
<1>9. SameOrder(l, m, Ids \ {t, e.id})
  BY <1>2, <1>8 DEF SameOrder, Before
<1>10. e.id = t => SameOrder(l, m, Ids)
  BY <1>2 DEF SameOrder, Before
<1>11. KeepsEntries(l, m, {t})
  BY <1>2 DEF KeepsEntries, Holds
<1> QED
  BY <1>6, <1>7, <1>9, <1>10, <1>11 DEF m

LEMMA UpsertByIdKeeps ==
    ASSUME NEW l \in Rail, NEW e \in Entry
    PROVE  LET m == UpsertById(l, e)
           IN  /\ m \in Rail /\ IdsOf(m) = IdsOf(l) \cup {e.id}
               /\ SameOrder(l, m, Ids) /\ KeepsEntries(l, m, {e.id})
<1>1. CASE e.id \in IdsOf(l)
  <2> DEFINE m == Put(l, e.id, e)
  <2>1. UpsertById(l, e) = m
    BY <1>1 DEF UpsertById, Put
  <2> HIDE DEF m
  <2>2. /\ m \in Rail /\ \A v : v \in IdsOf(m) <=> v = e.id \/ (v \in IdsOf(l) /\ v # e.id)
        /\ SameOrder(l, m, Ids) /\ KeepsEntries(l, m, {e.id})
    BY <1>1, PutInPlace DEF m
  <2>3. IdsOf(m) = IdsOf(l) \cup {e.id}
    BY <1>1, <2>2
  <2> QED
    BY <2>1, <2>2, <2>3
<1>2. CASE e.id \notin IdsOf(l)
  <2> DEFINE m == <<e>> \o l
  <2>1. UpsertById(l, e) = m
    BY <1>2 DEF UpsertById
  <2>2. <<e>> \in Rail /\ IdsOf(<<e>>) = {e.id}
    BY SingleRail
  <2>3. /\ m \in Rail /\ IdsOf(m) = {e.id} \cup IdsOf(l)
        /\ SameOrder(l, m, IdsOf(l)) /\ \A i \in DOMAIN l : Holds(m, l[i])
    BY <1>2, <2>2, Joined
  <2> HIDE DEF m
  <2> QED
    BY <2>1, <2>3 DEF SameOrder, KeepsEntries
<1> QED
  BY <1>1, <1>2

LEMMA AppendByIdKeeps ==
    ASSUME NEW l \in Rail, NEW e \in Entry
    PROVE  LET m == AppendById(l, e)
           IN  /\ m \in Rail /\ IdsOf(m) = IdsOf(l) \cup {e.id}
               /\ SameOrder(l, m, Ids) /\ KeepsEntries(l, m, {})
<1>1. CASE e.id \in IdsOf(l)
  BY <1>1 DEF AppendById, SameOrder, KeepsEntries, Holds
<1>2. CASE e.id \notin IdsOf(l)
  <2> DEFINE m == l \o <<e>>
  <2>1. AppendById(l, e) = m
    BY <1>2 DEF AppendById, Rail
  <2>2. <<e>> \in Rail /\ IdsOf(<<e>>) = {e.id}
    BY SingleRail
  <2>3. /\ m \in Rail /\ IdsOf(m) = IdsOf(l) \cup {e.id}
        /\ SameOrder(l, m, IdsOf(l)) /\ \A i \in DOMAIN l : Holds(m, l[i])
    BY <1>2, <2>2, Joined
  <2> HIDE DEF m
  <2> QED
    BY <2>1, <2>3 DEF SameOrder, KeepsEntries
<1> QED
  BY <1>1, <1>2
LEMMA IdsAreIds == ASSUME NEW l \in Rail PROVE IdsOf(l) \subseteq Ids
BY RailFields DEF IdsOf

\* Only the entries of the id that is replaced and of the one put there move or go.
LEMMA ReplaceByIdKeeps ==
    ASSUME NEW l \in Rail, NEW d \in Ids, NEW e \in Entry, d # e.id
    PROVE  LET m == ReplaceById(l, d, e)
           IN  /\ m \in Rail /\ IdsOf(m) = (IdsOf(l) \ {d}) \cup {e.id}
               /\ SameOrder(l, m, Ids \ {e.id}) /\ KeepsEntries(l, m, {d, e.id})
<1> DEFINE o == Keep(l, Ids \ {e.id})
           m == ReplaceById(l, d, e)
<1>1. /\ o \in Rail /\ IdsOf(o) = IdsOf(l) \cap (Ids \ {e.id})
      /\ SameOrder(l, o, Ids \ {e.id})
      /\ \A i \in DOMAIN l : l[i].id \in Ids \ {e.id} => Holds(o, l[i])
  BY KeepKeeps
<1>2. IdsOf(o) = IdsOf(l) \ {e.id}
  BY <1>1, IdsAreIds
<1>3. /\ d \in IdsOf(l) => m = [i \in DOMAIN o |-> IF o[i].id = d THEN e ELSE o[i]]
      /\ d \notin IdsOf(l) => m = o \o <<e>>
  BY <1>1 DEF ReplaceById, Rail
<1> HIDE DEF o, m
<1>4. /\ m \in Rail /\ IdsOf(m) = (IdsOf(o) \ {d}) \cup {e.id}
      /\ SameOrder(o, m, Ids \ {d, e.id}) /\ KeepsEntries(o, m, {d})
  <2>1. CASE d \in IdsOf(l)
    <3> DEFINE q == Put(o, d, e)
    <3>1. o \in Rail /\ d \in IdsOf(o) /\ e.id \notin IdsOf(o) \ {d}
      BY <1>1, <1>2, <2>1
    <3>2. /\ q \in Rail /\ \A v : v \in IdsOf(q) <=> v = e.id \/ (v \in IdsOf(o) /\ v # d)
          /\ SameOrder(o, q, Ids \ {d, e.id}) /\ KeepsEntries(o, q, {d})
      BY <3>1, PutInPlace
    <3>3. m = q
      BY <1>3, <2>1 DEF Put
    <3> HIDE DEF q
    <3>4. IdsOf(m) = (IdsOf(o) \ {d}) \cup {e.id}
      BY <3>2, <3>3
    <3> QED
      BY <3>2, <3>3, <3>4
  <2>2. CASE d \notin IdsOf(l)
    <3>1. <<e>> \in Rail /\ IdsOf(<<e>>) = {e.id}
      BY SingleRail
    <3> DEFINE q == o \o <<e>>
    <3>2. IdsOf(o) \cap IdsOf(<<e>>) = {}
      BY <1>2, <3>1
    <3>3. /\ q \in Rail /\ IdsOf(q) = IdsOf(o) \cup IdsOf(<<e>>)
          /\ SameOrder(o, q, IdsOf(o)) /\ \A i \in DOMAIN o : Holds(q, o[i])
      BY <1>1, <3>1, <3>2, Joined
    <3>4. m = q
      BY <1>3, <2>2
    <3> HIDE DEF q
    <3>5. IdsOf(m) = (IdsOf(o) \ {d}) \cup {e.id}
      BY <1>2, <2>2, <3>1, <3>3, <3>4
    <3> QED
      BY <1>2, <2>2, <3>3, <3>4, <3>5 DEF SameOrder, KeepsEntries
  <2> QED
    BY <2>1, <2>2
<1>5. IdsOf(m) = (IdsOf(l) \ {d}) \cup {e.id}
  BY <1>2, <1>4
<1>6. SameOrder(l, m, Ids \ {e.id})
  BY <1>1, <1>2, <1>4, <1>5 DEF SameOrder
<1>7. KeepsEntries(l, m, {d, e.id})
  <2> SUFFICES ASSUME NEW i \in DOMAIN l, l[i].id \notin {d, e.id} PROVE Holds(m, l[i])
    BY DEF KeepsEntries
  <2>1. Holds(o, l[i])
    BY <1>1, RailFields
  <2> QED
    BY <1>4, <2>1 DEF Holds, KeepsEntries
<1> QED
  BY <1>4, <1>5, <1>6, <1>7 DEF m

LEMMA DraftsAreNoServers == Drafts \cap Servers = {} /\ Drafts \cup Servers = Ids
BY DEF Drafts, Servers, Ids

\* Drafts stay as they are, what is in the list stays in its order.
LEMMA MergeKeeps ==
    ASSUME NEW server \in Rail, IdsOf(server) \subseteq Servers, NEW current \in Rail
    PROVE  LET m == MergeServerAndDraftThreads(server, current)
           IN  /\ m \in Rail
               /\ IdsOf(m) = IdsOf(server) \cup (IdsOf(current) \cap Drafts)
               /\ SameOrder(current, m, Ids) /\ KeepsEntries(current, m, Servers)
<1> DEFINE k == Keep(current, Drafts \cup IdsOf(server))
           f == Keep(server, Ids \ IdsOf(current))
           n == [i \in DOMAIN k |-> IF IsDraft(k[i].id) THEN k[i]
                                                        ELSE EntryOf(server, k[i].id)]
           m == n \o f
<1>1. MergeServerAndDraftThreads(server, current) = m
  BY DEF MergeServerAndDraftThreads
<1>2. /\ k \in Rail /\ IdsOf(k) = IdsOf(current) \cap (Drafts \cup IdsOf(server))
      /\ \A i \in DOMAIN k : k[i].id \in Drafts \cup IdsOf(server)
      /\ \A i \in DOMAIN current :
            current[i].id \in Drafts \cup IdsOf(server) => Holds(k, current[i])
      /\ SameOrder(current, k, Drafts \cup IdsOf(server))
  BY KeepKeeps
<1>3. f \in Rail /\ IdsOf(f) = IdsOf(server) \cap (Ids \ IdsOf(current))
  BY KeepKeeps
<1>4. /\ DOMAIN n = DOMAIN k /\ n = [i \in DOMAIN k |-> n[i]]
      /\ \A i \in DOMAIN k : /\ k[i].id \in Drafts => n[i] = k[i]
                             /\ k[i].id \notin Drafts => n[i] = EntryOf(server, k[i].id)
  BY DEF IsDraft
<1> HIDE DEF k, f, n
<1>5. \A i \in DOMAIN k : n[i] \in Entry /\ n[i].id = k[i].id
  <2> SUFFICES ASSUME NEW i \in DOMAIN k PROVE n[i] \in Entry /\ n[i].id = k[i].id
    OBVIOUS
  <2>1. CASE k[i].id \in Drafts
    BY <1>2, <1>4, <2>1, RailFields
  <2>2. CASE k[i].id \notin Drafts
    <3>1. PICK j \in DOMAIN server : server[j].id = k[i].id
      BY <1>2, <2>2 DEF IdsOf
    <3>2. EntryOf(server, k[i].id) = server[j]
      BY <3>1, PositionOf
    <3> QED
      BY <1>4, <2>2, <3>1, <3>2, RailFields
  <2> QED
    BY <2>1, <2>2
<1>6. n \in Rail /\ IdsOf(n) = IdsOf(k) /\ SameOrder(k, n, Ids)
  BY <1>2, <1>4, <1>5, SamePlaces
<1>7. IdsOf(n) \cap IdsOf(f) = {}
  BY <1>2, <1>3, <1>6
<1>8. /\ m \in Rail /\ IdsOf(m) = IdsOf(n) \cup IdsOf(f) /\ SameOrder(n, m, IdsOf(n))
      /\ \A i \in DOMAIN n : Holds(m, n[i])
  BY <1>3, <1>6, <1>7, Joined
<1> HIDE DEF m
<1>9. IdsOf(m) = IdsOf(server) \cup (IdsOf(current) \cap Drafts)
  BY <1>2, <1>3, <1>6, <1>8, IdsAreIds
<1>10. SameOrder(current, m, Ids)
  <2> SUFFICES ASSUME NEW t \in IdsOf(current) \cap IdsOf(m),
                      NEW u \in IdsOf(current) \cap IdsOf(m)
               PROVE  Before(current, t, u) <=> Before(m, t, u)
    BY DEF SameOrder
  <2>1. t \in IdsOf(k) /\ u \in IdsOf(k) /\ t \in Ids /\ u \in Ids
    BY <1>2, <1>3, <1>6, <1>8, IdsAreIds
  <2>2. Before(current, t, u) <=> Before(k, t, u)
    BY <1>2, <2>1 DEF SameOrder
  <2>3. Before(k, t, u) <=> Before(n, t, u)
    BY <1>6, <2>1 DEF SameOrder
  <2>4. Before(n, t, u) <=> Before(m, t, u)
    BY <1>6, <1>8, <2>1 DEF SameOrder
  <2> QED
    BY <2>2, <2>3, <2>4
<1>11. KeepsEntries(current, m, Servers)
  <2> SUFFICES ASSUME NEW i \in DOMAIN current, current[i].id \notin Servers
               PROVE  Holds(m, current[i])
    BY DEF KeepsEntries
  <2>1. current[i].id \in Drafts
    BY RailFields, DraftsAreNoServers
  <2>2. PICK j \in DOMAIN k : k[j] = current[i]
    BY <1>2, <2>1 DEF Holds
  <2>3. n[j] = current[i]
    BY <1>4, <2>1, <2>2
  <2> QED
    BY <1>4, <1>8, <2>3
<1> QED
  BY <1>1, <1>8, <1>9, <1>10, <1>11

\* A list of the service has open threads of the service, each of them once.
LEMMA ServersFinite == IsFiniteSet(Servers)
<1> DEFINE P == Mons \X Sends
           f == [p \in P |-> <<"run", p[1], p[2]>>]
<1>1. IsFiniteSet(P)
  <2>1. IsFiniteSet(Sends)
    BY BoundsAssumption, FS_Interval DEF Sends
  <2> QED
    BY <2>1, MonsAssumption, FS_Product
<1>2. f \in [P -> Servers]
  BY DEF Servers
<1>3. \A t \in Servers : \E p \in P : f[p] = t
  <2> SUFFICES ASSUME NEW t \in Servers PROVE \E p \in P : f[p] = t
    OBVIOUS
  <2>1. PICK m \in Mons, n \in Sends : t = <<"run", m, n>>
    BY DEF Servers
  <2>2. <<m, n>> \in P /\ f[<<m, n>>] = t
    BY <2>1
  <2> QED
    BY <2>2
<1> HIDE DEF f, P
<1>4. f \in Surjection(P, Servers)
  BY <1>2, <1>3 DEF Surjection
<1> QED
  BY <1>1, <1>4, FS_Surjection

LEMMA OpenThreadsAreRails ==
    ASSUME TypeOK, NEW l \in OpenThreads
    PROVE  l \in Rail /\ IdsOf(l) \subseteq Servers
<1> DEFINE S == {t \in Servers : IsOpen(t)}
           c == Cardinality(S)
<1>1. S \in SUBSET Servers /\ \A t \in S : srv[t].state \in OpenState
  BY DEF IsOpen
<1> HIDE DEF S
<1>2. c \in Nat
  BY <1>1, ServersFinite, FS_Subset, FS_CardinalityType
<1>3. PICK order \in SetToSeqs(S) :
         l = [i \in DOMAIN order |-> [id |-> order[i], state |-> srv[order[i]].state]]
  BY DEF OpenThreads, S
<1>4. order \in [1..c -> S] /\ \A i, j \in 1..c : i # j => order[i] # order[j]
  BY <1>3 DEF SetToSeqs
<1>5. /\ DOMAIN l = 1..c /\ l = [i \in 1..c |-> l[i]]
      /\ \A i \in 1..c : l[i] = [id |-> order[i], state |-> srv[order[i]].state]
  BY <1>3, <1>4
<1>6. \A i \in 1..c : l[i] \in Entry /\ l[i].id = order[i] /\ order[i] \in Servers
  <2> SUFFICES ASSUME NEW i \in 1..c
               PROVE  l[i] \in Entry /\ l[i].id = order[i] /\ order[i] \in Servers
    OBVIOUS
  <2>1. order[i] \in Servers /\ order[i] \in Ids /\ srv[order[i]].state \in OpenState
    BY <1>1, <1>4 DEF Ids
  <2> QED
    BY <1>5, <2>1 DEF Entry
<1> HIDE DEF c
<1>7. l \in Rail
  BY <1>2, <1>4, <1>5, <1>6, RailIntro
<1>8. IdsOf(l) \subseteq Servers
  BY <1>5, <1>6 DEF IdsOf
<1> QED
  BY <1>7, <1>8-----------------------------------------------------------------------------
(* The invariant *)

SrvRow == [state : OpenState \cup {"none", "closed"}, turn : 0..MaxSends]
Srv == [Servers -> SrvRow]
Ui == [threads : Rail, expanded : SUBSET Ids, sending : SUBSET Ids]
Op == [stage : Stage, id : Ids \cup {NoId}, made : Servers \cup {NoId}]

\* A draft whose message is on its way is in the list, as one that is running.
GoodUi(u) ==
    /\ u \in Ui
    /\ \A d \in Drafts \cap u.sending : Holds(u.threads, [id |-> d, state |-> "running"])

\* A call begins with a draft and ends with a thread of the service.
GoodOp(o) ==
    /\ o.stage \in {"create", "created"} => o.id \in Drafts
    /\ o.stage = "created" => o.made \in Servers
    /\ o.stage \in {"post", "refused", "turn", "answered", "refresh"} => o.id \in Servers

IInv ==
    /\ TypeOK
    /\ GoodUi(ui) /\ ExpandedIsListed
    /\ \A l \in list : l \in Rail /\ IdsOf(l) \subseteq Servers
    /\ \A n \in Sends : GoodOp(ops[n])

\* The ids that are in the rail before and after a step, but for those of T, keep their order.
OrderKept(T) == SameOrder(ui.threads, ui'.threads, Ids \ T)

\* No draft leaves the rail.
DraftsStay == IdsOf(ui.threads) \cap Drafts \subseteq IdsOf(ui'.threads)

LEMMA RailIsTyped ==
    /\ \A u \in Ui : u \in [threads : Seq(Entry), expanded : SUBSET Ids, sending : SUBSET Ids]
    /\ \A u \in [threads : Seq(Entry), expanded : SUBSET Ids, sending : SUBSET Ids] :
          Distinct(u.threads) => u \in Ui
BY DEF Ui, Rail

LEMMA UiFields ==
    ASSUME NEW u \in Ui
    PROVE  u.threads \in Rail /\ u.expanded \subseteq Ids /\ u.sending \subseteq Ids
BY DEF Ui

LEMMA SetThreads ==
    ASSUME NEW u \in Ui, NEW l \in Rail
    PROVE  LET v == [u EXCEPT !.threads = l]
           IN  v \in Ui /\ v.threads = l /\ v.expanded = u.expanded /\ v.sending = u.sending
BY DEF Ui

LEMMA SetExpanded ==
    ASSUME NEW u \in Ui, NEW x \in SUBSET Ids
    PROVE  LET v == [u EXCEPT !.expanded = x]
           IN  v \in Ui /\ v.threads = u.threads /\ v.expanded = x /\ v.sending = u.sending
BY DEF Ui

LEMMA SetSending ==
    ASSUME NEW u \in Ui, NEW x \in SUBSET Ids
    PROVE  LET v == [u EXCEPT !.sending = x]
           IN  v \in Ui /\ v.threads = u.threads /\ v.expanded = u.expanded /\ v.sending = x
BY DEF Ui

\* What is rendered is good if it was good before the effect that runs then.
LEMMA RenderGood ==
    ASSUME NEW u \in Ui, GoodUi(u), Render(u)
    PROVE  /\ GoodUi(ui') /\ ExpandedIsListed'
           /\ ui' \in [threads : Seq(Entry), expanded : SUBSET Ids, sending : SUBSET Ids]
           /\ ui'.threads = u.threads /\ ui'.sending = u.sending
<1> DEFINE x == u.expanded \cap IdsOf(u.threads)
           v == [u EXCEPT !.expanded = x]
<1>1. ui' = v
  BY DEF Render, Effects
<1>2. x \in SUBSET Ids
  BY UiFields
<1>3. v \in Ui /\ v.threads = u.threads /\ v.expanded = x /\ v.sending = u.sending
  BY <1>2, SetExpanded
<1> HIDE DEF v
<1>4. GoodUi(v)
  BY <1>3 DEF GoodUi
<1>5. x \subseteq IdsOf(u.threads)
  OBVIOUS
<1> HIDE DEF x
<1>6. ExpandedIsListed'
  BY <1>1, <1>3, <1>5 DEF ExpandedIsListed, IdsOf
<1> QED
  BY <1>1, <1>3, <1>4, <1>6, RailIsTyped

LEMMA OpsStep ==
    ASSUME IInv, NEW n \in Sends, NEW o \in Op, GoodOp(o), ops' = [ops EXCEPT ![n] = o]
    PROVE  ops' \in [Sends -> Op] /\ \A k \in Sends : GoodOp(ops'[k])
<1>1. ops \in [Sends -> Op] /\ \A k \in Sends : GoodOp(ops[k])
  BY DEF IInv, TypeOK, Op
<1> QED
  BY <1>1

LEMMA AdvanceGood ==
    ASSUME IInv, NEW n \in Sends, ops[n].id \in Servers,
           NEW stage \in {"post", "refused", "turn", "answered", "refresh"}, Advance(n, stage)
    PROVE  ops' \in [Sends -> Op] /\ \A k \in Sends : GoodOp(ops'[k])
<1> DEFINE o == [ops[n] EXCEPT !.stage = stage]
<1>1. ops[n] \in Op
  BY DEF IInv, TypeOK, Op
<1>2. o \in Op /\ o.stage = stage /\ o.id = ops[n].id
  BY <1>1 DEF Op, Stage
<1>3. GoodOp(o)
  BY <1>2 DEF GoodOp
<1>4. ops' = [ops EXCEPT ![n] = o]
  BY DEF Advance
<1> HIDE DEF o
<1> QED
  BY <1>2, <1>3, <1>4, OpsStep

LEMMA ReturnGood ==
    ASSUME IInv, NEW n \in Sends, Return(n)
    PROVE  ops' \in [Sends -> Op] /\ \A k \in Sends : GoodOp(ops'[k])
<1> DEFINE o == [stage |-> "done", id |-> NoId, made |-> NoId]
<1>1. o \in Op /\ GoodOp(o)
  BY DEF Op, Stage, GoodOp
<1>2. ops' = [ops EXCEPT ![n] = o]
  BY DEF Return
<1> HIDE DEF o
<1> QED
  BY <1>1, <1>2, OpsStep

LEMMA SrvStep ==
    ASSUME IInv, NEW t \in Servers, NEW v \in SrvRow,
           srv' = [srv EXCEPT ![t] = v]
    PROVE  srv' \in Srv
BY DEF IInv, TypeOK, Srv, SrvRow

\* The parts of the invariant, after a step.
LEMMA IInvParts ==
    ASSUME IInv
    PROVE  /\ ui \in Ui /\ GoodUi(ui) /\ ui.threads \in Rail
           /\ ui.expanded \subseteq IdsOf(ui.threads) /\ ui.sending \subseteq Ids
           /\ ui.expanded \subseteq Ids
           /\ ops \in [Sends -> Op] /\ \A n \in Sends : GoodOp(ops[n])
<1>1. ui \in Ui /\ GoodUi(ui) /\ ops \in [Sends -> Op] /\ \A n \in Sends : GoodOp(ops[n])
  BY DEF IInv, TypeOK, GoodUi, Op
<1>2. ui.threads \in Rail /\ ui.sending \subseteq Ids /\ ui.expanded \subseteq Ids
  BY <1>1, UiFields
<1> QED
  BY <1>1, <1>2 DEF IInv, ExpandedIsListed

\* A step of the console that leaves the service, the calls and the lists alone.
LEMMA UiStep ==
    ASSUME IInv, NEW u \in Ui, GoodUi(u), Render(u), srv' \in Srv,
           ops' \in [Sends -> Op], \A k \in Sends : GoodOp(ops'[k]),
           closing' \subseteq Servers, list' \subseteq list, losses' \in 0..MaxLosses
    PROVE  IInv' /\ ui'.threads = u.threads /\ ui'.sending = u.sending
<1>1. /\ GoodUi(ui') /\ ExpandedIsListed'
      /\ ui' \in [threads : Seq(Entry), expanded : SUBSET Ids, sending : SUBSET Ids]
      /\ ui'.threads = u.threads /\ ui'.sending = u.sending
  BY RenderGood
<1>2. TypeOK'
  BY <1>1 DEF IInv, TypeOK, Op, Srv, SrvRow
<1> QED
  BY <1>1, <1>2 DEF IInv, GoodUi

\* A step of the service.
LEMMA ServiceStep ==
    ASSUME IInv, ui' = ui, ops' \in [Sends -> Op], \A k \in Sends : GoodOp(ops'[k]),
           srv' \in Srv,
           closing' \subseteq Servers, losses' \in 0..MaxLosses,
           \A l \in list' : l \in Rail /\ IdsOf(l) \subseteq Servers
    PROVE  IInv' /\ OrderKept({}) /\ DraftsStay
<1>1. TypeOK'
  <2>1. \A l \in list' : l \in Seq(Entry)
    BY DEF Rail
  <2> QED
    BY <2>1 DEF IInv, TypeOK, Op, Srv, SrvRow
<1>2. ExpandedIsListed'
  BY DEF IInv, ExpandedIsListed, IdsOf
<1>3. IInv'
  BY <1>1, <1>2 DEF IInv, GoodUi
<1>4. OrderKept({}) /\ DraftsStay
  BY DEF OrderKept, SameOrder, DraftsStay
<1> QED
  BY <1>3, <1>4
-----------------------------------------------------------------------------
(* The steps *)

\* The list that stands for one that cannot be read.
LEMMA EmptyRail == <<>> \in Rail /\ IdsOf(<<>>) = {}
<1>1. <<>> \in Seq(Entry) /\ DOMAIN <<>> = {}
  OBVIOUS
<1> QED
  BY <1>1 DEF Rail, Distinct, IdsOf

LEMMA LossesGood ==
    ASSUME IInv, UNCHANGED losses \/ Failing
    PROVE  losses' \in 0..MaxLosses
BY BoundsAssumption DEF IInv, TypeOK, Failing

LEMMA OpsUnchanged ==
    ASSUME IInv, ops' = ops
    PROVE  ops' \in [Sends -> Op] /\ \A k \in Sends : GoodOp(ops'[k])
BY IInvParts

LEMMA SameRail == ASSUME NEW l PROVE KeepsEntries(l, l, {}) /\ SameOrder(l, l, Ids)
BY DEF KeepsEntries, Holds, SameOrder

\* A step that renders u: it may move the ids of M and change the entries of the ids of T,
\* but leaves the drafts whose message is on its way as they are.
LEMMA ConsoleStep ==
    ASSUME IInv, NEW u \in Ui, NEW M, NEW T, Render(u),
           SameOrder(ui.threads, u.threads, Ids \ M), KeepsEntries(ui.threads, u.threads, T),
           \A d \in Drafts \cap u.sending :
              (d \in ui.sending /\ d \notin T) \/ Holds(u.threads, [id |-> d, state |-> "running"]),
           srv' \in Srv, ops' \in [Sends -> Op], \A k \in Sends : GoodOp(ops'[k]),
           closing' \subseteq Servers, list' \subseteq list, losses' \in 0..MaxLosses
    PROVE  IInv' /\ OrderKept(M) /\ ui'.threads = u.threads
<1>1. ASSUME NEW d \in Drafts \cap u.sending
      PROVE  Holds(u.threads, [id |-> d, state |-> "running"])
  <2>1. CASE d \in ui.sending /\ d \notin T
    <3>1. Holds(ui.threads, [id |-> d, state |-> "running"])
      BY <2>1, IInvParts DEF GoodUi
    <3>2. PICK i \in DOMAIN ui.threads : ui.threads[i] = [id |-> d, state |-> "running"]
      BY <3>1 DEF Holds
    <3>3. ui.threads[i].id = d
      BY <3>2
    <3> QED
      BY <2>1, <3>2, <3>3 DEF KeepsEntries
  <2> QED
    BY <2>1
<1>2. GoodUi(u)
  BY <1>1 DEF GoodUi
<1>3. IInv' /\ ui'.threads = u.threads
  BY <1>2, UiStep
<1> QED
  BY <1>3 DEF OrderKept

LEMMA OpenMonThreadGood ==
    ASSUME IInv, NEW m \in Mons, OpenMonThread(m)
    PROVE  IInv' /\ OrderKept({}) /\ DraftsStay
<1> DEFINE draft == <<"draft", m, 0>>
           e == [id |-> draft, state |-> "idle_open"]
           l == AppendById(ui.threads, e)
           x == ui.expanded \cup {draft}
           u == [ui EXCEPT !.threads = l, !.expanded = x]
<1>1. Render(u) /\ UNCHANGED <<srv, ops, closing, list, losses>>
  BY DEF OpenMonThread
<1>2. draft \in Ids /\ e \in Entry
  BY DEF Ids, Drafts, Entry, OpenState
<1> HIDE DEF draft, e
<1>3. /\ l \in Rail /\ IdsOf(l) = IdsOf(ui.threads) \cup {e.id}
      /\ SameOrder(ui.threads, l, Ids) /\ KeepsEntries(ui.threads, l, {})
  BY <1>2, IInvParts, AppendByIdKeeps
<1>4. x \in SUBSET Ids
  BY <1>2, IInvParts
<1> HIDE DEF l, x
<1>5. u \in Ui /\ u.threads = l /\ u.sending = ui.sending
  <2>1. ui \in Ui
    BY IInvParts
  <2> QED
    BY <1>3, <1>4, <2>1 DEF Ui
<1> HIDE DEF u
<1>6. closing' \subseteq Servers /\ losses' \in 0..MaxLosses /\ srv' \in Srv
  BY <1>1 DEF IInv, TypeOK, Srv, SrvRow
<1>7. SameOrder(ui.threads, u.threads, Ids \ {}) /\ KeepsEntries(ui.threads, u.threads, {})
  BY <1>3, <1>5
<1>8. ops' \in [Sends -> Op] /\ \A k \in Sends : GoodOp(ops'[k])
  BY <1>1, OpsUnchanged
<1>9. IInv' /\ OrderKept({}) /\ ui'.threads = u.threads
  BY <1>1, <1>5, <1>6, <1>7, <1>8, ConsoleStep
<1> QED
  BY <1>3, <1>5, <1>9 DEF DraftsStay

LEMMA OpenThreadGood ==
    ASSUME IInv, NEW t \in Ids, OpenThread(t)
    PROVE  IInv' /\ OrderKept({}) /\ DraftsStay
<1> DEFINE x == ui.expanded \cup {t}
           u == [ui EXCEPT !.expanded = x]
<1>1. Render(u) /\ UNCHANGED <<srv, ops, closing, list, losses>>
  BY DEF OpenThread
<1>2. x \in SUBSET Ids
  BY IInvParts
<1> HIDE DEF x
<1>3. u \in Ui /\ u.threads = ui.threads /\ u.sending = ui.sending
  BY <1>2, IInvParts, SetExpanded
<1> HIDE DEF u
<1>4. closing' \subseteq Servers /\ losses' \in 0..MaxLosses /\ srv' \in Srv
  BY <1>1 DEF IInv, TypeOK, Srv, SrvRow
<1>5. SameOrder(ui.threads, u.threads, Ids \ {}) /\ KeepsEntries(ui.threads, u.threads, {})
  BY <1>3, SameRail
<1>6. ops' \in [Sends -> Op] /\ \A k \in Sends : GoodOp(ops'[k])
  BY <1>1, OpsUnchanged
<1>7. IInv' /\ OrderKept({}) /\ ui'.threads = u.threads
  BY <1>1, <1>3, <1>4, <1>5, <1>6, ConsoleStep
<1> QED
  BY <1>3, <1>7 DEF DraftsStay

LEMMA SendGood ==
    ASSUME IInv, NEW n \in Sends, NEW t \in Ids, Send(n, t)
    PROVE  IInv' /\ OrderKept({}) /\ DraftsStay
<1> DEFINE l == WithState(ui.threads, t, "running")
           y == ui.sending \cup {t}
           u == [ui EXCEPT !.threads = l, !.sending = y]
           o == [stage |-> IF t \in Drafts THEN "create" ELSE "post", id |-> t, made |-> NoId]
<1>1. /\ Listed(t) /\ Render(u) /\ ops' = [ops EXCEPT ![n] = o]
      /\ UNCHANGED <<srv, closing, list, losses>>
  BY DEF Send, IsDraft
<1>2. "running" \in OpenState
  BY DEF OpenState
<1>3. /\ l \in Rail /\ IdsOf(l) = IdsOf(ui.threads)
      /\ SameOrder(ui.threads, l, Ids) /\ KeepsEntries(ui.threads, l, {t})
      /\ Holds(l, [id |-> t, state |-> "running"])
  BY <1>1, <1>2, IInvParts, WithStateKeeps DEF Listed
<1>4. y \in SUBSET Ids
  BY IInvParts
<1>5. o \in Op /\ GoodOp(o)
  BY DraftsAreNoServers DEF Op, Stage, GoodOp
<1> HIDE DEF o
<1>6. ops' \in [Sends -> Op] /\ \A k \in Sends : GoodOp(ops'[k])
  BY <1>1, <1>5, OpsStep
<1>7. \A d \in Drafts \cap y : (d \in ui.sending /\ d \notin {t}) \/ d = t
  OBVIOUS
<1> HIDE DEF l, y
<1>8. u \in Ui /\ u.threads = l /\ u.sending = y
  <2>1. ui \in Ui
    BY IInvParts
  <2> QED
    BY <1>3, <1>4, <2>1 DEF Ui
<1> HIDE DEF u
<1>9. closing' \subseteq Servers /\ losses' \in 0..MaxLosses /\ srv' \in Srv
  BY <1>1 DEF IInv, TypeOK, Srv, SrvRow
<1>10. \A d \in Drafts \cap u.sending :
          (d \in ui.sending /\ d \notin {t}) \/ Holds(u.threads, [id |-> d, state |-> "running"])
  BY <1>3, <1>7, <1>8
<1>11. SameOrder(ui.threads, u.threads, Ids \ {}) /\ KeepsEntries(ui.threads, u.threads, {t})
  BY <1>3, <1>8
<1>12. IInv' /\ OrderKept({}) /\ ui'.threads = u.threads
  BY <1>1, <1>6, <1>8, <1>9, <1>10, <1>11, ConsoleStep
<1> QED
  BY <1>3, <1>8, <1>12 DEF DraftsStay

\* What is dropped with a thread, and that alone.
LEMMA ForgetKeeps ==
    ASSUME IInv, NEW t \in Ids
    PROVE  LET u == Forget(t)
           IN  /\ u \in Ui /\ IdsOf(u.threads) = IdsOf(ui.threads) \ {t}
               /\ u.sending = ui.sending \ {t}
               /\ SameOrder(ui.threads, u.threads, Ids) /\ KeepsEntries(ui.threads, u.threads, {t})
<1> DEFINE l == Keep(ui.threads, Ids \ {t})
           x == ui.expanded \ {t}
           y == ui.sending \ {t}
           u == [ui EXCEPT !.threads = l, !.expanded = x, !.sending = y]
<1>1. Forget(t) = u
  BY DEF Forget
<1>2. /\ l \in Rail /\ IdsOf(l) = IdsOf(ui.threads) \cap (Ids \ {t})
      /\ \A i \in DOMAIN ui.threads :
            ui.threads[i].id \in Ids \ {t} => Holds(l, ui.threads[i])
      /\ SameOrder(ui.threads, l, Ids \ {t})
  BY IInvParts, KeepKeeps
<1>3. x \in SUBSET Ids /\ y \in SUBSET Ids
  BY IInvParts
<1> HIDE DEF l, x
<1>4. u \in Ui /\ u.threads = l /\ u.sending = y
  <2> HIDE DEF y
  <2>1. ui \in Ui
    BY IInvParts
  <2> QED
    BY <1>2, <1>3, <2>1 DEF Ui
<1> HIDE DEF u
<1>5. IdsOf(l) = IdsOf(ui.threads) \ {t}
  BY <1>2, IInvParts, IdsAreIds
<1>6. SameOrder(ui.threads, l, Ids)
  BY <1>2, <1>5 DEF SameOrder
<1>7. KeepsEntries(ui.threads, l, {t})
  BY <1>2, IInvParts, RailFields DEF KeepsEntries
<1> QED
  BY <1>1, <1>4, <1>5, <1>6, <1>7
\* A draft that is closed has no message on its way: it would be running.
LEMMA IdleIsNotSending ==
    ASSUME IInv, NEW t \in Drafts, Listed(t), StateOf(t) # "running"
    PROVE  t \notin ui.sending
<1> SUFFICES ASSUME t \in ui.sending PROVE FALSE
  OBVIOUS
<1>1. PICK i \in DOMAIN ui.threads : ui.threads[i] = [id |-> t, state |-> "running"]
  BY IInvParts DEF GoodUi, Holds
<1>2. ui.threads[i].id = t /\ ui.threads[i].state = "running"
  BY <1>1
<1>3. EntryOf(ui.threads, t) = ui.threads[i]
  BY <1>2, IInvParts, PositionOf
<1> QED
  BY <1>2, <1>3 DEF StateOf

\* The step of an operator that closes a draft.
Dropped == \A d \in Drafts : d \in IdsOf(ui.threads) /\ d \notin IdsOf(ui'.threads) =>
              d \notin ui.sending /\ UNCHANGED <<ops, list>>

LEMMA CloseThreadGood ==
    ASSUME IInv, NEW t \in Ids, CloseThread(t)
    PROVE  IInv' /\ OrderKept({}) /\ Dropped
<1>1. Listed(t) /\ StateOf(t) # "running" /\ UNCHANGED <<srv, ops, list, losses>>
  BY DEF CloseThread
<1>2. closing \subseteq Servers /\ losses' \in 0..MaxLosses /\ srv' \in Srv
  BY <1>1 DEF IInv, TypeOK, Srv, SrvRow
<1>3. ops' \in [Sends -> Op] /\ \A k \in Sends : GoodOp(ops'[k])
  BY <1>1, OpsUnchanged
<1>4. CASE t \in Drafts
  <2> DEFINE u == Forget(t)
  <2>1. Render(u) /\ closing' = closing
    BY <1>4 DEF CloseThread, IsDraft
  <2>2. /\ u \in Ui /\ IdsOf(u.threads) = IdsOf(ui.threads) \ {t}
        /\ u.sending = ui.sending \ {t}
        /\ SameOrder(ui.threads, u.threads, Ids) /\ KeepsEntries(ui.threads, u.threads, {t})
    BY ForgetKeeps
  <2> HIDE DEF u
  <2>3. SameOrder(ui.threads, u.threads, Ids \ {})
    BY <2>2
  <2>4. \A d \in Drafts \cap u.sending : d \in ui.sending /\ d \notin {t}
    BY <2>2
  <2>5. IInv' /\ OrderKept({}) /\ ui'.threads = u.threads
    BY <1>1, <1>2, <1>3, <2>1, <2>2, <2>3, <2>4, ConsoleStep
  <2>6. t \notin ui.sending
    BY <1>1, <1>4, IdleIsNotSending
  <2> QED
    BY <1>1, <2>2, <2>5, <2>6 DEF Dropped
<1>5. CASE t \notin Drafts
  <2>1. ui' = ui /\ closing' \subseteq Servers
    BY <1>2, <1>5, DraftsAreNoServers DEF CloseThread, IsDraft
  <2>2. \A l \in list' : l \in Rail /\ IdsOf(l) \subseteq Servers
    BY <1>1 DEF IInv
  <2>3. IInv' /\ OrderKept({}) /\ DraftsStay
    BY <1>2, <1>3, <2>1, <2>2, ServiceStep
  <2> QED
    BY <2>3 DEF DraftsStay, Dropped
<1> QED
  BY <1>4, <1>5

LEMMA ServeCreateGood ==
    ASSUME IInv, NEW n \in Sends, ServeCreate(n)
    PROVE  IInv' /\ OrderKept({}) /\ DraftsStay
<1>1. PICK t \in Servers :
         /\ ops' = [ops EXCEPT ![n].stage = "created", ![n].made = t]
         /\ srv' = srv \/ srv' = [srv EXCEPT ![t].state = "idle_open"]
  BY DEF ServeCreate
<1>2. At(n, "create") /\ UNCHANGED <<ui, closing, list, losses>>
  BY DEF ServeCreate
<1> DEFINE o == [ops[n] EXCEPT !.stage = "created", !.made = t]
           v == [srv[t] EXCEPT !.state = "idle_open"]
<1>3. ops[n] \in Op /\ ops[n].id \in Drafts
  BY <1>2, IInvParts DEF GoodOp, At
<1>4. o \in Op /\ o.stage = "created" /\ o.id = ops[n].id /\ o.made = t
  BY <1>3 DEF Op, Stage
<1>5. ops' = [ops EXCEPT ![n] = o]
  BY <1>1
<1>6. GoodOp(o)
  <2> HIDE DEF o
  <2> QED
    BY <1>3, <1>4 DEF GoodOp
<1> HIDE DEF o
<1>7. ops' \in [Sends -> Op] /\ \A k \in Sends : GoodOp(ops'[k])
  BY <1>4, <1>5, <1>6, OpsStep
<1>8. v \in SrvRow
  BY DEF IInv, TypeOK, SrvRow, OpenState
<1>9. srv' \in Srv
  <2>1. CASE srv' = srv
    BY <2>1 DEF IInv, TypeOK, Srv, SrvRow
  <2>2. CASE srv' = [srv EXCEPT ![t].state = "idle_open"]
    <3>1. srv' = [srv EXCEPT ![t] = v]
      BY <2>2
    <3> HIDE DEF v
    <3> QED
      BY <1>8, <3>1, SrvStep
  <2> QED
    BY <1>1, <2>1, <2>2
<1>10. /\ ui' = ui /\ closing' \subseteq Servers /\ losses' \in 0..MaxLosses
       /\ \A l \in list' : l \in Rail /\ IdsOf(l) \subseteq Servers
  BY <1>2 DEF IInv, TypeOK
<1> QED
  BY <1>7, <1>9, <1>10, ServiceStep

LEMMA ServePostGood ==
    ASSUME IInv, NEW n \in Sends, NEW begun \in BOOLEAN, ServePost(n, begun)
    PROVE  IInv' /\ OrderKept({}) /\ DraftsStay
<1> DEFINE t == ops[n].id
           v == [srv[t] EXCEPT !.state = IF begun THEN "running" ELSE "waiting_for_user",
                               !.turn = IF begun THEN n ELSE @]
<1>1. At(n, "post") /\ UNCHANGED <<ui, closing, list, losses>>
  BY DEF ServePost
<1>2. t \in Servers
  BY <1>1, IInvParts DEF GoodOp, At
<1>3. v \in SrvRow
  <2>1. srv[t] \in SrvRow
    BY <1>2 DEF IInv, TypeOK, SrvRow
  <2>2. n \in 0..MaxSends
    BY BoundsAssumption DEF Sends
  <2> HIDE DEF t
  <2> QED
    BY <2>1, <2>2 DEF SrvRow, OpenState
<1>4. /\ Advance(n, "refused") \/ Advance(n, "turn") \/ Advance(n, "answered")
      /\ srv' = srv \/ srv' = [srv EXCEPT ![t] = v]
  <2>1. CASE ~IsOpen(t)
    BY <2>1 DEF ServePost
  <2>2. CASE IsOpen(t) /\ begun
    BY <2>2 DEF ServePost
  <2>3. CASE IsOpen(t) /\ ~begun
    BY <2>3 DEF ServePost
  <2> QED
    BY <2>1, <2>2, <2>3
<1> HIDE DEF v
<1>5. srv' \in Srv
  <2>1. CASE srv' = srv
    BY <2>1 DEF IInv, TypeOK, Srv, SrvRow
  <2>2. CASE srv' = [srv EXCEPT ![t] = v]
    BY <1>2, <1>3, <2>2, SrvStep
  <2> QED
    BY <1>4, <2>1, <2>2
<1>6. ops' \in [Sends -> Op] /\ \A k \in Sends : GoodOp(ops'[k])
  BY <1>2, <1>4, AdvanceGood
<1>7. /\ ui' = ui /\ closing' \subseteq Servers /\ losses' \in 0..MaxLosses
      /\ \A l \in list' : l \in Rail /\ IdsOf(l) \subseteq Servers
  BY <1>1 DEF IInv, TypeOK
<1> QED
  BY <1>5, <1>6, <1>7, ServiceStep

LEMMA TurnEndsGood ==
    ASSUME IInv, NEW t \in Servers, TurnEnds(t)
    PROVE  IInv' /\ OrderKept({}) /\ DraftsStay
<1> DEFINE n == srv[t].turn
           v == [state |-> "waiting_for_user", turn |-> 0]
<1>1. /\ srv[t].turn # 0 /\ srv' = [srv EXCEPT ![t] = v]
      /\ UNCHANGED <<ui, closing, list, losses>>
  BY DEF TurnEnds
<1>2. n \in Sends
  BY <1>1, BoundsAssumption DEF IInv, TypeOK, Sends
<1>3. v \in SrvRow
  BY BoundsAssumption DEF SrvRow, OpenState
<1> HIDE DEF v
<1>4. srv' \in Srv
  BY <1>1, <1>3, SrvStep
<1>5. ops' \in [Sends -> Op] /\ \A k \in Sends : GoodOp(ops'[k])
  <2>1. CASE At(n, "turn")
    <3>1. ops[n].id \in Servers
      BY <1>2, <2>1, IInvParts DEF GoodOp, At
    <3>2. Advance(n, "answered")
      BY <2>1 DEF TurnEnds
    <3> HIDE DEF n
    <3> QED
      BY <1>2, <3>1, <3>2, AdvanceGood
  <2>2. CASE ~At(n, "turn")
    BY <2>2, OpsUnchanged DEF TurnEnds
  <2> QED
    BY <2>1, <2>2
<1>6. /\ ui' = ui /\ closing' \subseteq Servers /\ losses' \in 0..MaxLosses
      /\ \A l \in list' : l \in Rail /\ IdsOf(l) \subseteq Servers
  BY <1>1 DEF IInv, TypeOK
<1> QED
  BY <1>4, <1>5, <1>6, ServiceStep

LEMMA CloseGood ==
    ASSUME IInv, NEW t \in Servers, Close(t)
    PROVE  IInv' /\ OrderKept({}) /\ DraftsStay
<1> DEFINE u == Forget(t)
           v == [srv[t] EXCEPT !.state = "closed"]
<1>1. /\ Render(u) /\ srv' = [srv EXCEPT ![t] = v] /\ closing' = closing \ {t}
      /\ UNCHANGED <<ops, list, losses>>
  BY DEF Close
<1>2. t \in Ids /\ t \notin Drafts
  BY DraftsAreNoServers
<1>3. /\ u \in Ui /\ IdsOf(u.threads) = IdsOf(ui.threads) \ {t}
      /\ u.sending = ui.sending \ {t}
      /\ SameOrder(ui.threads, u.threads, Ids) /\ KeepsEntries(ui.threads, u.threads, {t})
  BY <1>2, ForgetKeeps
<1>4. v \in SrvRow
  BY DEF IInv, TypeOK, SrvRow
<1> HIDE DEF u, v
<1>5. srv' \in Srv
  BY <1>1, <1>4, SrvStep
<1>6. closing' \subseteq Servers /\ losses' \in 0..MaxLosses
  BY <1>1 DEF IInv, TypeOK
<1>7. ops' \in [Sends -> Op] /\ \A k \in Sends : GoodOp(ops'[k])
  BY <1>1, OpsUnchanged
<1>8. SameOrder(ui.threads, u.threads, Ids \ {})
  BY <1>3
<1>9. \A d \in Drafts \cap u.sending : d \in ui.sending /\ d \notin {t}
  BY <1>3
<1>10. IInv' /\ OrderKept({}) /\ ui'.threads = u.threads
  BY <1>1, <1>3, <1>5, <1>6, <1>7, <1>8, <1>9, ConsoleStep
<1> QED
  BY <1>2, <1>3, <1>10 DEF DraftsStay

LEMMA PollListGood == ASSUME IInv, PollList PROVE IInv' /\ OrderKept({}) /\ DraftsStay
<1>1. PICK threads \in OpenThreads \cup {<<>>} : list' = {threads}
  BY DEF PollList
<1>2. TypeOK
  BY DEF IInv
<1>3. threads \in Rail /\ IdsOf(threads) \subseteq Servers
  BY <1>2, OpenThreadsAreRails, EmptyRail
<1>4. UNCHANGED <<srv, ui, ops, closing>> /\ losses' \in 0..MaxLosses
  <2>1. UNCHANGED losses \/ Failing
    BY DEF PollList
  <2> QED
    BY <2>1, LossesGood DEF PollList
<1>5. /\ ui' = ui /\ closing' \subseteq Servers /\ losses' \in 0..MaxLosses /\ srv' \in Srv
  BY <1>4 DEF IInv, TypeOK, Srv, SrvRow
<1>6. ops' \in [Sends -> Op] /\ \A k \in Sends : GoodOp(ops'[k])
  BY <1>4, OpsUnchanged
<1>7. \A l \in list' : l \in Rail /\ IdsOf(l) \subseteq Servers
  BY <1>1, <1>3
<1> QED
  BY <1>5, <1>6, <1>7, ServiceStep
\* The draft leaves, and the thread takes its place.
Replaced == \A d \in Drafts : d \in IdsOf(ui.threads) /\ d \notin IdsOf(ui'.threads) =>
               \E n \in Sends : ops[n].id = d /\ At(n, "created") /\ At(n, "post")'

LEMMA GetThreadGood ==
    ASSUME IInv, NEW n \in Sends, GetThread(n)
    PROVE  IInv' /\ OrderKept({ops[n].made}) /\ Replaced /\ At(n, "created") /\ At(n, "post")'
<1> DEFINE draft == ops[n].id
           t == ops[n].made
           e == [id |-> t, state |-> "running"]
           l == ReplaceById(ui.threads, draft, e)
           x == (ui.expanded \ {draft}) \cup {t}
           y == (ui.sending \ {draft}) \cup {t}
           u == [ui EXCEPT !.threads = l, !.expanded = x, !.sending = y]
           o == [stage |-> "post", id |-> t, made |-> NoId]
<1>1. /\ At(n, "created") /\ Render(u) /\ ops' = [ops EXCEPT ![n] = o]
      /\ UNCHANGED <<srv, closing, list, losses>>
  BY DEF GetThread
<1>2. draft \in Drafts /\ t \in Servers
  BY <1>1, IInvParts DEF GoodOp, At
<1>3. draft \in Ids /\ t \in Ids /\ draft # t
  BY <1>2, DraftsAreNoServers
<1>4. e \in Entry /\ e.id = t
  BY <1>3 DEF Entry, OpenState
<1> HIDE DEF draft, t, e
<1>5. o \in Op /\ GoodOp(o) /\ o.stage = "post"
  <2>1. o \in Op
    BY <1>3 DEF Op, Stage
  <2>2. o.stage = "post" /\ o.id = t
    OBVIOUS
  <2> HIDE DEF o
  <2> QED
    BY <1>2, <2>1, <2>2 DEF GoodOp
<1> HIDE DEF o
<1>6. ops' \in [Sends -> Op] /\ \A k \in Sends : GoodOp(ops'[k])
  BY <1>1, <1>5, OpsStep
<1>7. At(n, "post")'
  BY <1>1, <1>5, IInvParts DEF At
<1>8. /\ l \in Rail /\ IdsOf(l) = (IdsOf(ui.threads) \ {draft}) \cup {t}
      /\ SameOrder(ui.threads, l, Ids \ {t}) /\ KeepsEntries(ui.threads, l, {draft, t})
  <2>1. ui.threads \in Rail /\ draft # e.id
    BY <1>3, <1>4, IInvParts
  <2> QED
    BY <1>3, <1>4, <2>1, ReplaceByIdKeeps
<1>9. x \in SUBSET Ids /\ y \in SUBSET Ids
  BY <1>3, IInvParts
<1>10. \A d \in Drafts \cap y : d \in ui.sending /\ d \notin {draft, t}
  BY <1>2, DraftsAreNoServers
<1> HIDE DEF l, x, y
<1>11. u \in Ui /\ u.threads = l /\ u.sending = y
  <2>1. ui \in Ui
    BY IInvParts
  <2> QED
    BY <1>8, <1>9, <2>1 DEF Ui
<1> HIDE DEF u
<1>12. closing' \subseteq Servers /\ losses' \in 0..MaxLosses /\ srv' \in Srv
  BY <1>1 DEF IInv, TypeOK, Srv, SrvRow
<1>13. \A d \in Drafts \cap u.sending : d \in ui.sending /\ d \notin {draft, t}
  BY <1>10, <1>11
<1>14. /\ SameOrder(ui.threads, u.threads, Ids \ {t})
       /\ KeepsEntries(ui.threads, u.threads, {draft, t})
  BY <1>8, <1>11
<1>15. IInv' /\ OrderKept({t}) /\ ui'.threads = u.threads
  BY <1>1, <1>6, <1>11, <1>12, <1>13, <1>14, ConsoleStep
<1>16. Replaced
  BY <1>1, <1>7, <1>8, <1>11, <1>15 DEF Replaced, draft
<1> QED
  BY <1>1, <1>7, <1>15, <1>16 DEF t

LEMMA GetAnswerGood ==
    ASSUME IInv, NEW n \in Sends, GetAnswer(n)
    PROVE  IInv' /\ OrderKept({}) /\ DraftsStay
<1> DEFINE t == ops[n].id
           e == [id |-> t, state |-> "waiting_for_user"]
           l == UpsertById(ui.threads, e)
           u == [ui EXCEPT !.threads = l]
<1>1. /\ At(n, "answered") /\ Advance(n, "refresh") /\ Render(u)
      /\ UNCHANGED <<srv, closing, list, losses>>
  BY DEF GetAnswer
<1>2. t \in Servers
  BY <1>1, IInvParts DEF GoodOp, At
<1>3. ops' \in [Sends -> Op] /\ \A k \in Sends : GoodOp(ops'[k])
  BY <1>1, <1>2, AdvanceGood
<1>4. e \in Entry /\ e.id = t
  BY <1>2, DraftsAreNoServers DEF Entry, OpenState
<1> HIDE DEF t, e
<1>5. /\ l \in Rail /\ IdsOf(l) = IdsOf(ui.threads) \cup {e.id}
      /\ SameOrder(ui.threads, l, Ids) /\ KeepsEntries(ui.threads, l, {e.id})
  BY <1>4, IInvParts, UpsertByIdKeeps
<1> HIDE DEF l
<1>6. u \in Ui /\ u.threads = l /\ u.sending = ui.sending
  BY <1>5, IInvParts, SetThreads
<1> HIDE DEF u
<1>7. closing' \subseteq Servers /\ losses' \in 0..MaxLosses /\ srv' \in Srv
  BY <1>1 DEF IInv, TypeOK, Srv, SrvRow
<1>8. \A d \in Drafts \cap u.sending : d \in ui.sending /\ d \notin {t}
  BY <1>2, <1>6, DraftsAreNoServers
<1>9. SameOrder(ui.threads, u.threads, Ids \ {}) /\ KeepsEntries(ui.threads, u.threads, {t})
  BY <1>4, <1>5, <1>6
<1>10. IInv' /\ OrderKept({}) /\ ui'.threads = u.threads
  BY <1>1, <1>3, <1>6, <1>7, <1>8, <1>9, ConsoleStep
<1> QED
  BY <1>5, <1>6, <1>10 DEF DraftsStay

\* A list of the service arrives, and a call may end with it.
LEMMA MergeGood ==
    ASSUME IInv, NEW server \in Rail, IdsOf(server) \subseteq Servers, NEW y \in SUBSET Ids,
           y \subseteq ui.sending,
           Render([ui EXCEPT !.threads = MergeServerAndDraftThreads(server, ui.threads),
                             !.sending = y]),
           UNCHANGED <<srv, closing>>, losses' \in 0..MaxLosses, list' \subseteq list,
           ops' \in [Sends -> Op], \A k \in Sends : GoodOp(ops'[k])
    PROVE  IInv' /\ OrderKept({}) /\ DraftsStay
<1> DEFINE l == MergeServerAndDraftThreads(server, ui.threads)
           u == [ui EXCEPT !.threads = l, !.sending = y]
<1>1. Render(u)
  OBVIOUS
<1>2. ui.threads \in Rail
  BY IInvParts
<1>3. /\ l \in Rail /\ IdsOf(l) = IdsOf(server) \cup (IdsOf(ui.threads) \cap Drafts)
      /\ SameOrder(ui.threads, l, Ids) /\ KeepsEntries(ui.threads, l, Servers)
  BY <1>2, MergeKeeps
<1> HIDE DEF l
<1>4. u \in Ui /\ u.threads = l /\ u.sending = y
  <2>1. ui \in Ui
    BY IInvParts
  <2> QED
    BY <1>3, <2>1 DEF Ui
<1> HIDE DEF u
<1>5. closing' \subseteq Servers /\ losses' \in 0..MaxLosses /\ srv' \in Srv
  BY DEF IInv, TypeOK, Srv, SrvRow
<1>6. \A d \in Drafts \cap u.sending : d \in ui.sending /\ d \notin Servers
  BY <1>4, DraftsAreNoServers
<1>7. SameOrder(ui.threads, u.threads, Ids \ {}) /\ KeepsEntries(ui.threads, u.threads, Servers)
  BY <1>3, <1>4
<1>8. IInv' /\ OrderKept({}) /\ ui'.threads = u.threads
  BY <1>1, <1>4, <1>5, <1>6, <1>7, ConsoleStep
<1> QED
  BY <1>3, <1>4, <1>8 DEF DraftsStay

LEMMA GetRefreshGood ==
    ASSUME IInv, NEW n \in Sends, GetRefresh(n)
    PROVE  IInv' /\ OrderKept({}) /\ DraftsStay
<1> DEFINE y == ui.sending \ {ops[n].id}
           idle == [ui EXCEPT !.sending = y]
<1>1. \/ \E server \in OpenThreads \cup {<<>>} :
            Render([idle EXCEPT !.threads = MergeServerAndDraftThreads(server, idle.threads)])
      \/ Render(idle)
  BY DEF GetRefresh
<1>2. /\ Return(n) /\ UNCHANGED <<srv, closing, list>> /\ losses' \in 0..MaxLosses
  <2>1. UNCHANGED losses \/ Failing
    BY DEF GetRefresh
  <2> QED
    BY <2>1, LossesGood DEF GetRefresh
<1>3. y \in SUBSET Ids /\ y \subseteq ui.sending
  BY IInvParts
<1>4. ops' \in [Sends -> Op] /\ \A k \in Sends : GoodOp(ops'[k])
  BY <1>2, ReturnGood
<1>5. idle \in Ui /\ idle.threads = ui.threads /\ idle.sending = y
  BY <1>3, IInvParts, SetSending
<1>6. CASE Render(idle)
  <2>1. SameOrder(ui.threads, idle.threads, Ids) /\ KeepsEntries(ui.threads, idle.threads, {})
    BY <1>5, SameRail
  <2>2. \A d \in Drafts \cap idle.sending : d \in ui.sending /\ d \notin {}
    BY <1>3, <1>5
  <2>3. closing' \subseteq Servers /\ srv' \in Srv /\ list' \subseteq list
    BY <1>2 DEF IInv, TypeOK, Srv, SrvRow
  <2> HIDE DEF idle, y
  <2>4. Ids \ {} = Ids
    OBVIOUS
  <2>5. IInv' /\ OrderKept({}) /\ ui'.threads = idle.threads
    BY <1>2, <1>4, <1>5, <1>6, <2>1, <2>2, <2>3, <2>4, ConsoleStep
  <2> QED
    BY <1>5, <2>5 DEF DraftsStay
<1>7. CASE \E server \in OpenThreads \cup {<<>>} :
             Render([idle EXCEPT !.threads = MergeServerAndDraftThreads(server, idle.threads)])
  <2>1. PICK server \in OpenThreads \cup {<<>>} :
           Render([idle EXCEPT !.threads = MergeServerAndDraftThreads(server, idle.threads)])
    BY <1>7
  <2>2. server \in Rail /\ IdsOf(server) \subseteq Servers
    BY OpenThreadsAreRails, EmptyRail DEF IInv
  <2> DEFINE l == MergeServerAndDraftThreads(server, ui.threads)
  <2>3. [idle EXCEPT !.threads = l] = [ui EXCEPT !.threads = l, !.sending = y]
    <3>1. ui \in Ui
      BY IInvParts
    <3> HIDE DEF l, y
    <3> QED
      BY <3>1 DEF Ui
  <2>4. Render([ui EXCEPT !.threads = l, !.sending = y])
    <3> HIDE DEF idle
    <3> QED
      BY <1>5, <2>1, <2>3
  <2> HIDE DEF y
  <2> QED
    BY <1>2, <1>3, <1>4, <2>2, <2>4, MergeGood
<1> QED
  BY <1>1, <1>6, <1>7

LEMMA GetPolledListGood ==
    ASSUME IInv, GetPolledList
    PROVE  IInv' /\ OrderKept({}) /\ DraftsStay
<1>1. PICK server \in list :
         Render([ui EXCEPT !.threads = MergeServerAndDraftThreads(server, ui.threads)])
  BY DEF GetPolledList
<1>2. list' = {} /\ UNCHANGED <<srv, ops, closing>> /\ losses' \in 0..MaxLosses
  BY LossesGood DEF GetPolledList
<1>3. server \in Rail /\ IdsOf(server) \subseteq Servers
  BY DEF IInv
<1> DEFINE y == ui.sending
           l == MergeServerAndDraftThreads(server, ui.threads)
<1>4. y \in SUBSET Ids /\ y \subseteq ui.sending
  BY IInvParts
<1>5. [ui EXCEPT !.threads = l] = [ui EXCEPT !.threads = l, !.sending = y]
  <2>1. ui \in Ui
    BY IInvParts
  <2> HIDE DEF l
  <2> QED
    BY <2>1 DEF Ui
<1>6. Render([ui EXCEPT !.threads = l, !.sending = y])
  BY <1>1, <1>5
<1>7. ops' \in [Sends -> Op] /\ \A k \in Sends : GoodOp(ops'[k])
  BY <1>2, OpsUnchanged
<1> HIDE DEF y
<1> QED
  BY <1>2, <1>3, <1>4, <1>6, <1>7, MergeGood

LEMMA FailGood ==
    ASSUME IInv, NEW n \in Sends, ops[n].id \in Ids, Fail(n), losses' \in 0..MaxLosses
    PROVE  IInv' /\ OrderKept({}) /\ DraftsStay
<1> DEFINE t == ops[n].id
           l == WithState(ui.threads, t, "waiting_for_user")
           y == ui.sending \ {t}
           u == [ui EXCEPT !.threads = l, !.sending = y]
<1>1. Render(u) /\ Return(n) /\ UNCHANGED <<srv, closing, list>>
  BY DEF Fail, Failed
<1>2. "waiting_for_user" \in OpenState
  BY DEF OpenState
<1>3. /\ l \in Rail /\ IdsOf(l) = IdsOf(ui.threads)
      /\ SameOrder(ui.threads, l, Ids) /\ KeepsEntries(ui.threads, l, {t})
  BY <1>2, IInvParts, WithStateKeeps
<1>4. y \in SUBSET Ids /\ \A d \in Drafts \cap y : d \in ui.sending /\ d \notin {t}
  BY IInvParts
<1>5. ops' \in [Sends -> Op] /\ \A k \in Sends : GoodOp(ops'[k])
  BY <1>1, ReturnGood
<1> HIDE DEF t, l, y
<1>6. u \in Ui /\ u.threads = l /\ u.sending = y
  <2>1. ui \in Ui
    BY IInvParts
  <2> QED
    BY <1>3, <1>4, <2>1 DEF Ui
<1> HIDE DEF u
<1>7. closing' \subseteq Servers /\ srv' \in Srv /\ list' \subseteq list
  BY <1>1 DEF IInv, TypeOK, Srv, SrvRow
<1>8. \A d \in Drafts \cap u.sending : d \in ui.sending /\ d \notin {t}
  BY <1>4, <1>6
<1>9. SameOrder(ui.threads, u.threads, Ids \ {}) /\ KeepsEntries(ui.threads, u.threads, {t})
  BY <1>3, <1>6
<1>10. IInv' /\ OrderKept({}) /\ ui'.threads = u.threads
  BY <1>1, <1>5, <1>6, <1>7, <1>8, <1>9, ConsoleStep
<1> QED
  BY <1>3, <1>6, <1>10 DEF DraftsStay

LEMMA GetRefusalGood ==
    ASSUME IInv, NEW n \in Sends, GetRefusal(n)
    PROVE  IInv' /\ OrderKept({}) /\ DraftsStay
<1>1. Fail(n) /\ losses' = losses /\ ops[n].id \in Servers
  BY IInvParts DEF GetRefusal, GoodOp, At
<1>2. ops[n].id \in Ids /\ losses' \in 0..MaxLosses
  BY <1>1, DraftsAreNoServers DEF IInv, TypeOK
<1> QED
  BY <1>1, <1>2, FailGood

LEMMA LoseGood ==
    ASSUME IInv, NEW n \in Sends, Lose(n)
    PROVE  IInv' /\ OrderKept({}) /\ DraftsStay
<1>1. /\ ops[n].stage \in {"create", "created", "post", "turn", "answered", "refresh"}
      /\ Failing /\ Fail(n)
  BY DEF Lose
<1>2. ops[n].id \in Ids
  BY <1>1, IInvParts, DraftsAreNoServers DEF GoodOp
<1>3. losses' \in 0..MaxLosses
  BY <1>1, LossesGood
<1> QED
  BY <1>1, <1>2, <1>3, FailGood

LEMMA LoseCloseGood ==
    ASSUME IInv, NEW t \in Servers, LoseClose(t)
    PROVE  IInv' /\ OrderKept({}) /\ DraftsStay
<1>1. closing' = closing \ {t} /\ UNCHANGED <<srv, ui, ops, list, losses>>
  BY DEF LoseClose
<1>2. /\ ui' = ui /\ closing' \subseteq Servers /\ losses' \in 0..MaxLosses /\ srv' \in Srv
      /\ \A l \in list' : l \in Rail /\ IdsOf(l) \subseteq Servers
  BY <1>1 DEF IInv, TypeOK, Srv, SrvRow
<1>3. ops' \in [Sends -> Op] /\ \A k \in Sends : GoodOp(ops'[k])
  BY <1>1, OpsUnchanged
<1> QED
  BY <1>2, <1>3, ServiceStep

-----------------------------------------------------------------------------
(* The theorems *)

\* The order of the ids that no answer of a create moves.
OrderStep ==
    \A t, u \in IdsOf(ui.threads) \cap IdsOf(ui.threads)' :
        /\ \A n \in Sends : At(n, "created") /\ At(n, "post")' => ops[n].made \notin {t, u}
        => (Position(ui.threads, t) < Position(ui.threads, u)
                <=> Position(ui.threads', t) < Position(ui.threads', u))

DraftStep ==
    \A d \in Drafts : d \in IdsOf(ui.threads) /\ d \notin IdsOf(ui.threads)' =>
        \/ \E n \in Sends : ops[n].id = d /\ At(n, "created") /\ At(n, "post")'
        \/ d \notin ui.sending /\ UNCHANGED <<ops, list>>

LEMMA OrderStepHolds ==
    ASSUME IInv, IInv', NEW M, OrderKept(M),
           \A t \in M : \E n \in Sends : At(n, "created") /\ At(n, "post")' /\ ops[n].made = t
    PROVE  OrderStep
<1> SUFFICES ASSUME NEW t \in IdsOf(ui.threads) \cap IdsOf(ui'.threads),
                    NEW u \in IdsOf(ui.threads) \cap IdsOf(ui'.threads),
                    \A n \in Sends :
                       At(n, "created") /\ At(n, "post")' => ops[n].made \notin {t, u}
             PROVE  Position(ui.threads, t) < Position(ui.threads, u)
                        <=> Position(ui'.threads, t) < Position(ui'.threads, u)
  BY DEF OrderStep, IdsOf, Position
<1>1. t \notin M /\ u \notin M
  OBVIOUS
<1>2. ui.threads \in Rail /\ ui'.threads \in Rail
  <2>1. ui.threads \in Rail
    BY IInvParts
  <2>2. GoodUi(ui')
    BY DEF IInv, GoodUi
  <2> QED
    BY <2>1, <2>2 DEF GoodUi, Ui
<1>3. t \in Ids /\ u \in Ids
  BY <1>2, IdsAreIds
<1>4. Before(ui.threads, t, u) <=> Before(ui'.threads, t, u)
  BY <1>1, <1>3 DEF OrderKept, SameOrder
<1>5. Before(ui.threads, t, u) <=> Position(ui.threads, t) < Position(ui.threads, u)
  BY <1>2, BeforeIsPosition
<1>6. Before(ui'.threads, t, u) <=> Position(ui'.threads, t) < Position(ui'.threads, u)
  BY <1>2, BeforeIsPosition
<1> QED
  BY <1>4, <1>5, <1>6
\* Every step of the rail keeps the invariant, the order and the drafts.
LEMMA DraftStepHolds ==
    ASSUME DraftsStay \/ Dropped \/ Replaced
    PROVE  DraftStep
<1>1. CASE DraftsStay
  BY <1>1 DEF DraftsStay, DraftStep, IdsOf
<1>2. CASE Dropped
  BY <1>2 DEF Dropped, DraftStep, IdsOf
<1>3. CASE Replaced
  BY <1>3 DEF Replaced, DraftStep, IdsOf
<1> QED
  BY <1>1, <1>2, <1>3

LEMMA QuietStep ==
    ASSUME IInv, IInv', OrderKept({}), DraftsStay \/ Dropped
    PROVE  IInv' /\ OrderStep /\ DraftStep
<1>1. \A t \in {} : \E n \in Sends : At(n, "created") /\ At(n, "post")' /\ ops[n].made = t
  OBVIOUS
<1>2. OrderStep
  BY <1>1, OrderStepHolds
<1> QED
  BY <1>2, DraftStepHolds

LEMMA StutterGood == ASSUME IInv, UNCHANGED vars PROVE IInv' /\ OrderKept({}) /\ DraftsStay
<1>1. /\ ui' = ui /\ closing' \subseteq Servers /\ losses' \in 0..MaxLosses /\ srv' \in Srv
      /\ \A l \in list' : l \in Rail /\ IdsOf(l) \subseteq Servers
  BY DEF IInv, TypeOK, Srv, SrvRow, vars
<1>2. ops' \in [Sends -> Op] /\ \A k \in Sends : GoodOp(ops'[k])
  BY OpsUnchanged DEF vars
<1> QED
  BY <1>1, <1>2, ServiceStep

LEMMA StepGood ==
    ASSUME IInv, [Next]_vars
    PROVE  IInv' /\ OrderStep /\ DraftStep
<1>1. CASE Operator
  <2>1. CASE \E m \in Mons : OpenMonThread(m)
    BY <2>1, OpenMonThreadGood, QuietStep
  <2>2. CASE \E t \in Ids : OpenThread(t)
    BY <2>2, OpenThreadGood, QuietStep
  <2>3. CASE \E t \in Ids : CloseThread(t)
    BY <2>3, CloseThreadGood, QuietStep
  <2>4. CASE \E n \in Sends, t \in Ids : Send(n, t)
    BY <2>4, SendGood, QuietStep
  <2> QED
    BY <1>1, <2>1, <2>2, <2>3, <2>4 DEF Operator
<1>2. CASE Service
  <2>1. CASE \E n \in Sends : ServeCreate(n)
    BY <2>1, ServeCreateGood, QuietStep
  <2>2. CASE \E n \in Sends : \E begun \in BOOLEAN : ServePost(n, begun)
    BY <2>2, ServePostGood, QuietStep
  <2>3. CASE \E t \in Servers : TurnEnds(t)
    BY <2>3, TurnEndsGood, QuietStep
  <2>4. CASE \E t \in Servers : Close(t)
    BY <2>4, CloseGood, QuietStep
  <2>5. CASE PollList
    BY <2>5, PollListGood, QuietStep
  <2> QED
    BY <1>2, <2>1, <2>2, <2>3, <2>4, <2>5 DEF Service
<1>3. CASE Console
  <2>1. CASE \E n \in Sends : GetThread(n)
    <3>1. PICK n \in Sends : GetThread(n)
      BY <2>1
    <3>2. /\ IInv' /\ OrderKept({ops[n].made}) /\ Replaced
          /\ At(n, "created") /\ At(n, "post")'
      BY <3>1, GetThreadGood
    <3>3. \A t \in {ops[n].made} :
             \E k \in Sends : At(k, "created") /\ At(k, "post")' /\ ops[k].made = t
      BY <3>2
    <3>4. OrderStep
      BY <3>2, <3>3, OrderStepHolds
    <3> QED
      BY <3>2, <3>4, DraftStepHolds
  <2>2. CASE \E n \in Sends : GetAnswer(n)
    BY <2>2, GetAnswerGood, QuietStep
  <2>3. CASE \E n \in Sends : GetRefresh(n)
    BY <2>3, GetRefreshGood, QuietStep
  <2>4. CASE \E n \in Sends : GetRefusal(n)
    BY <2>4, GetRefusalGood, QuietStep
  <2>5. CASE \E n \in Sends : Lose(n)
    BY <2>5, LoseGood, QuietStep
  <2>6. CASE \E t \in Servers : LoseClose(t)
    BY <2>6, LoseCloseGood, QuietStep
  <2>7. CASE GetPolledList
    BY <2>7, GetPolledListGood, QuietStep
  <2> QED
    BY <1>3, <2>1, <2>2, <2>3, <2>4, <2>5, <2>6, <2>7 DEF Console, Call
<1>4. CASE UNCHANGED vars
  BY <1>4, StutterGood, QuietStep
<1> QED
  BY <1>1, <1>2, <1>3, <1>4 DEF Next

LEMMA InitGood == Init => IInv
<1> SUFFICES ASSUME Init PROVE IInv
  OBVIOUS
<1>1. ui = [threads |-> <<>>, expanded |-> {}, sending |-> {}]
  BY DEF Init
<1>2. <<>> \in Rail /\ IdsOf(<<>>) = {}
  BY DEF Rail, Distinct, IdsOf
<1>3. ui \in Ui /\ ui.threads = <<>> /\ ui.expanded = {} /\ ui.sending = {}
  BY <1>1, <1>2 DEF Ui
<1>4. GoodUi(ui) /\ ExpandedIsListed
  BY <1>3 DEF GoodUi, ExpandedIsListed
<1>5. \A n \in Sends : ops[n] = [stage |-> "none", id |-> NoId, made |-> NoId]
  BY DEF Init
<1>6. \A n \in Sends : GoodOp(ops[n])
  BY <1>5 DEF GoodOp
<1>7. TypeOK
  <2>1. srv \in [Servers -> [state : OpenState \cup {"none", "closed"}, turn : 0..MaxSends]]
    BY BoundsAssumption DEF Init
  <2>2. ops \in [Sends -> [stage : Stage, id : Ids \cup {NoId}, made : Servers \cup {NoId}]]
    BY DEF Init, Stage
  <2>3. closing \subseteq Servers /\ list = {} /\ losses \in 0..MaxLosses
    BY BoundsAssumption DEF Init
  <2> QED
    BY <1>3, <2>1, <2>2, <2>3, RailIsTyped DEF TypeOK
<1>8. list = {}
  BY DEF Init
<1> QED
  BY <1>4, <1>6, <1>7, <1>8 DEF IInv

LEMMA Invariance == Spec => []IInv
<1>1. IInv /\ [Next]_vars => IInv'
  BY StepGood
<1> QED
  BY <1>1, InitGood, PTL DEF Spec

\* No thread is in the rail twice and nothing is expanded that is not there, for any number
\* of Mons, messages and lost answers: drafts answered with a thread that the list brought
\* before (sendThreadMessage(), replaceById()), lists read before and arriving after
\* (mergeServerAndDraftThreads()), threads closed meanwhile.
THEOREM RailStaysConsistent == Spec => []RailInv
<1>1. IInv => RailInv
  <2> SUFFICES ASSUME IInv PROVE RailInv
    OBVIOUS
  <2>1. TypeOK /\ ExpandedIsListed
    BY DEF IInv
  <2>2. Distinct(ui.threads)
    BY IInvParts DEF Rail
  <2> QED
    BY <2>1, <2>2 DEF RailInv, ThreadListedOnce, Distinct
<1> QED
  BY <1>1, Invariance, PTL

\* No list of the service reorders the rail, and none takes a draft away: threads that stay
\* keep their order, but for the one that takes the place of its draft, and a draft leaves
\* when its thread does that or when the operator closes it while nothing is on its way.
THEOREM RailKeepsOrderAndDrafts == Spec => RailIsStable
<1>1. IInv /\ [Next]_vars => [OrderStep]_vars /\ [DraftStep]_vars
  BY StepGood
<1>2. Spec => [][OrderStep]_vars /\ [][DraftStep]_vars
  BY <1>1, Invariance, PTL DEF Spec
<1> QED
  BY <1>2 DEF RailIsStable, OrderIsStable, DraftIsKept, OrderStep, DraftStep
=============================================================================
