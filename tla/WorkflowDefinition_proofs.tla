---------------------- MODULE WorkflowDefinition_proofs ----------------------
(***************************************************************************)
(* What the validation of a workflow definition accepts, for every         *)
(* definition: no run enumerates these graphs, the loops of                *)
(* test-workflow-graph.ts are followed round by round instead.             *)
(*                                                                         *)
(* The argument.  A set of numbers with 0 and closed under + 1 holds every *)
(* number (NumbersInSet, from the least element of a set of numbers), so   *)
(* an invariant of a round holds after any number of rounds.  Kahn's loop: *)
(* in-degrees count the edges that do not come from the order, and the     *)
(* nodes without any are those ordered or queued (KahnInv); after as many  *)
(* rounds as nodes the queue is empty, and a node is left out exactly when *)
(* there is a cycle (KahnDecides).  The search: what is off the stack has  *)
(* all its children found, and each round takes one node off the stack for *)
(* good, so it ends within one round per edge and one for the start        *)
(* (SearchEnds), with the descendants found.  Cutting a topological order  *)
(* by phase keeps it topological when no edge leads to an earlier phase    *)
(* (PhasesKeepOrder).  On the canvas, an edge is only drawn when its       *)
(* source is not reachable from its target, which keeps the drawing        *)
(* without a cycle (EdgeAdded).                                            *)
(***************************************************************************)
EXTENDS WorkflowDefinition, WorkflowCanvas, FiniteSetTheorems, WellFoundedInduction, TLAPS

(***************************************************************************)
(* Numbers and lists.                                                      *)
(***************************************************************************)
ElementsOf(list) == {list[i] : i \in DOMAIN list}
Distinct(list) == \A i, j \in DOMAIN list : list[i] = list[j] => i = j

\* How many of the positions kept are not after i.
Rank(kept, i) == Cardinality({j \in kept : j <= i})

\* A nonempty set of numbers up to n has a greatest one.
LEMMA GreatestExists ==
    ASSUME NEW n \in Nat, NEW S \in SUBSET (1..n), S # {}
    PROVE  \E m \in S : \A k \in S : k <= m
  <1> DEFINE Above(x) == {y \in S : x < y}
             T == {Above(x) : x \in S}
  <1>1. IsFiniteSet(S)
    <2>1. IsFiniteSet(1..n)
      BY FS_Interval
    <2> QED BY <2>1, FS_Subset
  <1>2. FiniteSubsetsOf(S) = SUBSET S
    BY <1>1, FS_FiniteSubsetsOfFinite
  <1>3. IsWellFoundedOn(StrictSubsetOrdering(S), SUBSET S)
    BY <1>2, FS_StrictSubsetOrderingWellFounded
  <1>4. T \subseteq SUBSET S /\ T # {}
    OBVIOUS
  <1>5. PICK A \in T : \A B \in T : ~(<<B, A>> \in StrictSubsetOrdering(S))
    <2> HIDE DEF T
    <2> QED BY <1>3, <1>4, WFMin
  <1>6. PICK m \in S : A = Above(m)
    BY <1>5
  <1>7. ASSUME NEW k \in S, ~(k <= m) PROVE FALSE
    <2>1. m \in Nat /\ k \in Nat /\ m < k /\ \A y \in S : y \in Nat
      <3>1. \A y \in S : y \in 1..n
        OBVIOUS
      <3> QED BY <1>7, <3>1
    <2>2. Above(k) \subseteq Above(m) /\ k \in Above(m) /\ k \notin Above(k)
      <3>1. ASSUME NEW y \in S, k < y PROVE m < y
        BY <2>1, <3>1
      <3>2. ~(k < k)
        BY <2>1
      <3> QED BY <2>1, <3>1, <3>2
    <2>3. <<Above(k), Above(m)>> \in StrictSubsetOrdering(S)
      BY <2>2 DEF StrictSubsetOrdering
    <2> QED BY <1>5, <1>6, <2>3
  <1> QED BY <1>7

LEMMA LeastExists ==
    ASSUME NEW n \in Nat, NEW S \in SUBSET (1..n), S # {}
    PROVE  \E m \in S : \A k \in S : m <= k
  <1> DEFINE T == {n + 1 - x : x \in S}
  <1>1. T \in SUBSET (1..n) /\ T # {}
    <2>1. ASSUME NEW x \in S PROVE n + 1 - x \in 1..n
      <3>1. x \in 1..n
        OBVIOUS
      <3> QED BY <3>1
    <2> QED BY <2>1
  <1>2. PICK t \in T : \A k \in T : k <= t
    <2> HIDE DEF T
    <2> QED BY <1>1, GreatestExists
  <1>3. PICK m \in S : t = n + 1 - m
    OBVIOUS
  <1>4. ASSUME NEW k \in S PROVE m <= k
    <2>1. n + 1 - k <= n + 1 - m
      BY <1>2, <1>3
    <2> QED BY <2>1
  <1> QED BY <1>4

\* Induction over the numbers, for a set of them.
LEMMA NumbersInSet ==
    ASSUME NEW S, 0 \in S, \A n \in Nat : n \in S => n + 1 \in S
    PROVE  Nat \subseteq S
  <1> SUFFICES ASSUME NEW n \in Nat, n \notin S PROVE FALSE
    OBVIOUS
  <1> DEFINE T == {k \in 1..n : k \notin S}
  <1>1. n # 0
    OBVIOUS
  <1>2. T \in SUBSET (1..n) /\ n \in T
    BY <1>1
  <1>3. PICK m \in T : \A k \in T : m <= k
    <2> HIDE DEF T
    <2> QED BY <1>2, LeastExists
  <1>4. m - 1 \in Nat /\ m \in 1..n /\ m \notin S
    OBVIOUS
  <1>5. m - 1 \notin S
    BY <1>4
  <1>6. m - 1 # 0
    BY <1>5
  <1>7. m - 1 \in T
    BY <1>4, <1>5, <1>6
  <1> QED BY <1>3, <1>4, <1>7
------------------------------------------------------------------------------
(***************************************************************************)
(* A filter keeps the elements at its positions, once each.                *)
(***************************************************************************)
LEMMA RankBounds ==
    ASSUME NEW n \in Nat, NEW K \in SUBSET (1..n), NEW i \in K
    PROVE  /\ IsFiniteSet(K) /\ Cardinality(K) \in Nat /\ Rank(K, i) \in 1..Cardinality(K)
           /\ \A j \in K : j < i => Rank(K, j) < Rank(K, i)
  <1>0. \A j \in K : j \in Nat
    <2>1. \A j \in K : j \in 1..n
      OBVIOUS
    <2> QED BY <2>1
  <1>1. IsFiniteSet(K)
    <2>1. IsFiniteSet(1..n)
      BY FS_Interval
    <2> QED BY <2>1, FS_Subset
  <1> DEFINE upto(j) == {l \in K : l <= j}
  <1>2. \A j \in K : upto(j) \in SUBSET K /\ j \in upto(j) /\ Rank(K, j) = Cardinality(upto(j))
    BY DEF Rank
  <1>3. \A j \in K : IsFiniteSet(upto(j)) /\ Cardinality(upto(j)) \in Nat /\ Cardinality(upto(j)) <= Cardinality(K)
    BY <1>1, <1>2, FS_Subset, FS_CardinalityType
  <1>4. Cardinality(upto(i)) # 0
    BY <1>2, <1>3, FS_EmptySet
  <1>5. ASSUME NEW j \in K, j < i PROVE Rank(K, j) < Rank(K, i)
    <2>1. upto(j) \in SUBSET upto(i) /\ i \notin upto(j)
      <3>1. \A l \in K : l <= j => l <= i
        BY <1>0, <1>5
      <3>2. ~(i <= j)
        BY <1>0, <1>5
      <3> QED BY <3>1, <3>2
    <2>2. upto(j) # upto(i)
      BY <1>2, <2>1
    <2>3. Cardinality(upto(j)) <= Cardinality(upto(i)) /\ Cardinality(upto(j)) # Cardinality(upto(i))
      BY <1>3, <2>1, <2>2, FS_Subset
    <2> QED BY <1>2, <1>3, <2>3
  <1>6. Cardinality(K) \in Nat
    BY <1>1, FS_CardinalityType
  <1> HIDE DEF upto
  <1> QED BY <1>1, <1>2, <1>3, <1>4, <1>5, <1>6

LEMMA RankOnto ==
    ASSUME NEW n \in Nat, NEW K \in SUBSET (1..n), NEW k \in 1..Cardinality(K)
    PROVE  \E i \in K : Rank(K, i) = k
  <1>0. \A j \in K : j \in Nat
    <2>1. \A j \in K : j \in 1..n
      OBVIOUS
    <2> QED BY <2>1
  <1>1. IsFiniteSet(K) /\ Cardinality(K) \in Nat
    <2>1. IsFiniteSet(1..n)
      BY FS_Interval
    <2>2. IsFiniteSet(K)
      BY <2>1, FS_Subset
    <2> QED BY <2>2, FS_CardinalityType
  <1>2. K # {}
    BY <1>1, FS_EmptySet
  <1>3. PICK g \in K : \A j \in K : j <= g
    BY <1>2, GreatestExists
  <1>4. Rank(K, g) = Cardinality(K)
    <2>1. {j \in K : j <= g} = K
      BY <1>3
    <2> QED BY <2>1 DEF Rank
  <1> DEFINE S == {i \in K : k <= Rank(K, i)}
  <1>5. g \in S
    BY <1>1, <1>4
  <1>6. PICK i \in S : \A j \in S : i <= j
    <2>1. S \in SUBSET (1..n) /\ S # {}
      BY <1>5
    <2> HIDE DEF S
    <2> QED BY <2>1, LeastExists
  <1>7. i \in K /\ i \in Nat /\ k <= Rank(K, i) /\ Rank(K, i) \in Nat
    BY <1>6, RankBounds
  <1> DEFINE B == {j \in K : j < i}
  <1>8. IsFiniteSet(B) /\ Cardinality(B) \in Nat /\ i \notin B /\ B \in SUBSET (1..n)
    <2>1. B \in SUBSET K
      OBVIOUS
    <2>2. IsFiniteSet(B)
      BY <1>1, <2>1, FS_Subset
    <2>3. i \notin B
      BY <1>7
    <2> QED BY <2>1, <2>2, <2>3, FS_CardinalityType
  <1>9. Rank(K, i) = Cardinality(B) + 1
    <2>1. {j \in K : j <= i} = B \union {i}
      <3>1. \A j \in K : j <= i <=> j < i \/ j = i
        BY <1>0, <1>7
      <3> QED BY <1>7, <3>1
    <2>2. Cardinality(B \union {i}) = Cardinality(B) + 1
      <3> HIDE DEF B
      <3> QED BY <1>8, FS_AddElement
    <2> QED BY <2>1, <2>2 DEF Rank
  <1>10. CASE Rank(K, i) = k
    BY <1>7, <1>10
  <1>11. CASE Rank(K, i) # k
    <2>1. k <= Cardinality(B) /\ B # {}
      <3>1. k <= Cardinality(B) /\ Cardinality(B) # 0
        BY <1>7, <1>8, <1>9, <1>11
      <3> QED BY <3>1, FS_EmptySet
    <2>2. PICK p \in B : \A j \in B : j <= p
      <3> HIDE DEF B
      <3> QED BY <1>8, <2>1, GreatestExists
    <2>3. {j \in K : j <= p} = B
      <3>1. \A j \in K : j <= p <=> j < i
        BY <1>0, <1>7, <2>2
      <3> QED BY <3>1
    <2>4. p \in S
      BY <2>1, <2>3 DEF Rank
    <2> QED BY <1>6, <1>7, <2>2, <2>4
  <1> QED BY <1>10, <1>11

LEMMA PositionFacts ==
    ASSUME NEW n \in Nat, NEW K \in SUBSET (1..n)
    PROVE  /\ \A k \in 1..Cardinality(K) : Position(K, k) \in K /\ Rank(K, Position(K, k)) = k
           /\ \A i \in K : Rank(K, i) \in 1..Cardinality(K) /\ Position(K, Rank(K, i)) = i
  <1>1. ASSUME NEW k \in 1..Cardinality(K) PROVE Position(K, k) \in K /\ Rank(K, Position(K, k)) = k
    <2>1. \E i \in K : Rank(K, i) = k
      BY RankOnto
    <2> QED BY <2>1 DEF Position, Rank
  <1>2. ASSUME NEW i \in K PROVE Rank(K, i) \in 1..Cardinality(K) /\ Position(K, Rank(K, i)) = i
    <2>1. Rank(K, i) \in 1..Cardinality(K)
      BY RankBounds
    <2>2. PICK j : j = Position(K, Rank(K, i)) /\ j \in K /\ Rank(K, j) = Rank(K, i)
      BY <1>1, <2>1
    <2>3. Rank(K, i) \in Nat /\ (j < i => Rank(K, j) < Rank(K, i)) /\ (i < j => Rank(K, i) < Rank(K, j))
      <3>1. \A a \in K : /\ Cardinality(K) \in Nat /\ Rank(K, a) \in 1..Cardinality(K)
                         /\ \A b \in K : b < a => Rank(K, b) < Rank(K, a)
        BY RankBounds
      <3>2. Rank(K, i) \in Nat
        BY <3>1
      <3> QED BY <2>2, <3>1, <3>2
    <2>4. i \in 1..n /\ j \in 1..n
      BY <2>2
    <2>5. i = j
      BY <2>2, <2>3, <2>4
    <2> QED BY <2>1, <2>2, <2>5
  <1> QED BY <1>1, <1>2

LEMMA FilterFacts ==
    ASSUME NEW S, NEW list \in Seq(S), NEW K \in SUBSET (DOMAIN list), NEW out, out = Filter(list, K)
    PROVE  out \in Seq(S) /\ ElementsOf(out) = {list[i] : i \in K}
  <1>1. Len(list) \in Nat /\ K \in SUBSET (1..Len(list)) /\ \A i \in DOMAIN list : list[i] \in S
    OBVIOUS
  <1>2. IsFiniteSet(K) /\ Cardinality(K) \in Nat
    <2>1. IsFiniteSet(1..Len(list))
      BY <1>1, FS_Interval
    <2>2. IsFiniteSet(K)
      BY <1>1, <2>1, FS_Subset
    <2> QED BY <2>2, FS_CardinalityType
  <1>3. /\ \A k \in 1..Cardinality(K) : Position(K, k) \in K /\ Rank(K, Position(K, k)) = k
        /\ \A i \in K : Rank(K, i) \in 1..Cardinality(K) /\ Position(K, Rank(K, i)) = i
    BY <1>1, PositionFacts
  <1>4. DOMAIN out = 1..Cardinality(K) /\ \A k \in 1..Cardinality(K) : out[k] = list[Position(K, k)]
    BY DEF Filter
  <1>5. out \in Seq(S)
    <2>1. out = [k \in 1..Cardinality(K) |-> out[k]] /\ \A k \in 1..Cardinality(K) : out[k] \in S
      BY <1>1, <1>3, <1>4 DEF Filter
    <2> QED BY <1>2, <2>1
  <1>6. ElementsOf(out) = {list[i] : i \in K}
    <2>1. ASSUME NEW e \in ElementsOf(out) PROVE e \in {list[i] : i \in K}
      BY <1>3, <1>4 DEF ElementsOf
    <2>2. ASSUME NEW i \in K PROVE list[i] \in ElementsOf(out)
      BY <1>3, <1>4 DEF ElementsOf
    <2> QED BY <2>1, <2>2
  <1> QED BY <1>5, <1>6

\* It keeps their order.
LEMMA FilterOrder ==
    ASSUME NEW S, NEW list \in Seq(S), NEW K \in SUBSET (DOMAIN list), NEW out, out = Filter(list, K)
    PROVE  \A k, l \in DOMAIN out : \E i, j \in K :
               out[k] = list[i] /\ out[l] = list[j] /\ (i = j => k = l) /\ (i < j => k < l)
  <1>1. Len(list) \in Nat /\ K \in SUBSET (1..Len(list))
    OBVIOUS
  <1>3. /\ \A k \in 1..Cardinality(K) : Position(K, k) \in K /\ Rank(K, Position(K, k)) = k
        /\ \A i \in K : Rank(K, i) \in 1..Cardinality(K) /\ Position(K, Rank(K, i)) = i
    BY <1>1, PositionFacts
  <1>4. DOMAIN out = 1..Cardinality(K) /\ \A k \in 1..Cardinality(K) : out[k] = list[Position(K, k)]
    BY DEF Filter
  <1>7. ASSUME NEW k \in DOMAIN out, NEW l \in DOMAIN out
        PROVE  \E i, j \in K : out[k] = list[i] /\ out[l] = list[j] /\ (i = j => k = l) /\ (i < j => k < l)
    <2>1. Position(K, k) \in K /\ Position(K, l) \in K /\ (Position(K, k) = Position(K, l) => k = l)
      BY <1>3, <1>4
    <2>2. Position(K, k) < Position(K, l) => k < l
      <3>1. \A j \in K : j < Position(K, l) => Rank(K, j) < Rank(K, Position(K, l))
        BY <1>1, <2>1, RankBounds
      <3> QED BY <1>3, <1>4, <2>1, <3>1
    <2> QED BY <1>4, <2>1, <2>2
  <1> QED BY <1>7

\* A list without repetitions is as long as it has elements.
LEMMA DistinctLength ==
    ASSUME NEW S, NEW list \in Seq(S), Distinct(list)
    PROVE  IsFiniteSet(ElementsOf(list)) /\ Cardinality(ElementsOf(list)) = Len(list)
  <1>1. Len(list) \in Nat /\ DOMAIN list = 1..Len(list)
    OBVIOUS
  <1>2. list \in Bijection(1..Len(list), ElementsOf(list))
    <2>1. list \in [1..Len(list) -> ElementsOf(list)]
      BY <1>1 DEF ElementsOf
    <2>2. \A i, j \in 1..Len(list) : list[i] = list[j] => i = j
      BY <1>1 DEF Distinct
    <2>3. \A e \in ElementsOf(list) : \E i \in 1..Len(list) : list[i] = e
      BY <1>1 DEF ElementsOf
    <2> QED BY <2>1, <2>2, <2>3 DEF Bijection, Injection, Surjection, IsInjective
  <1>3. ExistsBijection(1..Len(list), ElementsOf(list))
    BY <1>2 DEF ExistsBijection
  <1>4. IsFiniteSet(1..Len(list)) /\ Cardinality(1..Len(list)) = Len(list)
    BY <1>1, FS_Interval
  <1> QED BY <1>3, <1>4, FS_Bijection

\* Lists that grow at the end, that are joined, and that lose their first element.
LEMMA AppendElements ==
    ASSUME NEW S, NEW list \in Seq(S), NEW x \in S, NEW out, out = Append(list, x)
    PROVE  \A e : e \in ElementsOf(out) <=> e \in ElementsOf(list) \/ e = x
  <1>1. /\ DOMAIN out = DOMAIN list \union {Len(list) + 1}
        /\ out[Len(list) + 1] = x /\ \A i \in DOMAIN list : out[i] = list[i]
    OBVIOUS
  <1>2. ElementsOf(out) = ElementsOf(list) \union {x}
    BY <1>1 DEF ElementsOf
  <1> QED BY <1>2

LEMMA AppendDistinct ==
    ASSUME NEW S, NEW list \in Seq(S), NEW x \in S, NEW out, out = Append(list, x),
           Distinct(list), x \notin ElementsOf(list)
    PROVE  Distinct(out)
  <1>1. /\ DOMAIN out = DOMAIN list \union {Len(list) + 1}
        /\ out[Len(list) + 1] = x /\ \A i \in DOMAIN list : out[i] = list[i]
    OBVIOUS
  <1> QED BY <1>1 DEF Distinct, ElementsOf

LEMMA JoinPlaces ==
    ASSUME NEW S, NEW a \in Seq(S), NEW b \in Seq(S), NEW out, out = a \o b
    PROVE  \A i \in DOMAIN out : \/ i \in DOMAIN a /\ out[i] = a[i]
                                 \/ i > Len(a) /\ i - Len(a) \in DOMAIN b /\ out[i] = b[i - Len(a)]
  <1>1. Len(a) \in Nat /\ Len(b) \in Nat /\ DOMAIN a = 1..Len(a) /\ DOMAIN b = 1..Len(b)
    OBVIOUS
  <1>2. out \in Seq(S) /\ Len(out) = Len(a) + Len(b) /\ DOMAIN out = 1..Len(a) + Len(b)
    OBVIOUS
  <1>3. \A i \in 1..Len(a) : i \in DOMAIN out /\ out[i] = a[i]
    BY <1>1, <1>2
  <1>4. \A i \in 1..Len(b) : Len(a) + i \in DOMAIN out /\ out[Len(a) + i] = b[i]
    BY <1>1, <1>2
  <1>5. ASSUME NEW i \in DOMAIN out
        PROVE  \/ i \in DOMAIN a /\ out[i] = a[i]
               \/ i > Len(a) /\ i - Len(a) \in DOMAIN b /\ out[i] = b[i - Len(a)]
    <2>1. CASE i <= Len(a)
      BY <1>1, <1>2, <1>3, <2>1
    <2>2. CASE i > Len(a)
      <3>1. i - Len(a) \in 1..Len(b) /\ Len(a) + (i - Len(a)) = i
        BY <1>1, <1>2, <2>2
      <3> QED BY <1>1, <1>4, <2>2, <3>1
    <2> QED BY <1>1, <1>2, <2>1, <2>2
  <1> QED BY <1>5

LEMMA JoinElements ==
    ASSUME NEW S, NEW a \in Seq(S), NEW b \in Seq(S), NEW out, out = a \o b
    PROVE  \A e : e \in ElementsOf(out) <=> e \in ElementsOf(a) \/ e \in ElementsOf(b)
  <1>1. Len(a) \in Nat /\ Len(b) \in Nat /\ DOMAIN a = 1..Len(a) /\ DOMAIN b = 1..Len(b)
    OBVIOUS
  <1>2. out \in Seq(S) /\ Len(out) = Len(a) + Len(b) /\ DOMAIN out = 1..Len(a) + Len(b)
    OBVIOUS
  <1>3. \A i \in 1..Len(a) : i \in DOMAIN out /\ out[i] = a[i]
    BY <1>1, <1>2
  <1>4. \A i \in 1..Len(b) : Len(a) + i \in DOMAIN out /\ out[Len(a) + i] = b[i]
    BY <1>1, <1>2
  <1>5. \A i \in DOMAIN out : \/ i \in DOMAIN a /\ out[i] = a[i]
                              \/ i > Len(a) /\ i - Len(a) \in DOMAIN b /\ out[i] = b[i - Len(a)]
    BY JoinPlaces
  <1>6. ElementsOf(out) = ElementsOf(a) \union ElementsOf(b)
    <2>1. ElementsOf(out) \subseteq ElementsOf(a) \union ElementsOf(b)
      BY <1>5 DEF ElementsOf
    <2>2. ElementsOf(a) \subseteq ElementsOf(out)
      BY <1>1, <1>3 DEF ElementsOf
    <2>3. ElementsOf(b) \subseteq ElementsOf(out)
      BY <1>1, <1>4 DEF ElementsOf
    <2> QED BY <2>1, <2>2, <2>3
  <1> QED BY <1>6

LEMMA JoinDistinct ==
    ASSUME NEW S, NEW a \in Seq(S), NEW b \in Seq(S), NEW out, out = a \o b,
           Distinct(a), Distinct(b), ElementsOf(a) \intersect ElementsOf(b) = {}
    PROVE  Distinct(out)
  <1>1. Len(a) \in Nat /\ Len(b) \in Nat /\ DOMAIN a = 1..Len(a) /\ DOMAIN b = 1..Len(b)
    OBVIOUS
  <1>2. out \in Seq(S) /\ Len(out) = Len(a) + Len(b) /\ DOMAIN out = 1..Len(a) + Len(b)
    OBVIOUS
  <1>5. \A i \in DOMAIN out : \/ i \in DOMAIN a /\ out[i] = a[i]
                              \/ i > Len(a) /\ i - Len(a) \in DOMAIN b /\ out[i] = b[i - Len(a)]
    BY JoinPlaces
  <1>7. Distinct(out)
    <2> SUFFICES ASSUME NEW i \in DOMAIN out, NEW j \in DOMAIN out, out[i] = out[j] PROVE i = j
      BY DEF Distinct
    <2>1. i \in Nat /\ j \in Nat
      BY <1>1, <1>2
    <2>2. CASE i \in DOMAIN a /\ out[i] = a[i] /\ j \in DOMAIN a /\ out[j] = a[j]
      BY <2>2 DEF Distinct
    <2>3. CASE i \in DOMAIN a /\ out[i] = a[i] /\ j - Len(a) \in DOMAIN b /\ out[j] = b[j - Len(a)]
      BY <2>3 DEF ElementsOf
    <2>4. CASE j \in DOMAIN a /\ out[j] = a[j] /\ i - Len(a) \in DOMAIN b /\ out[i] = b[i - Len(a)]
      BY <2>4 DEF ElementsOf
    <2>5. CASE i - Len(a) \in DOMAIN b /\ out[i] = b[i - Len(a)] /\ j - Len(a) \in DOMAIN b /\ out[j] = b[j - Len(a)]
      <3>1. i - Len(a) = j - Len(a)
        BY <2>5 DEF Distinct
      <3> QED BY <1>1, <2>1, <3>1
    <2> QED BY <1>5, <2>2, <2>3, <2>4, <2>5
  <1> QED BY <1>7

LEMMA TailFacts ==
    ASSUME NEW S, NEW list \in Seq(S), list # <<>>
    PROVE  /\ Head(list) \in S /\ Tail(list) \in Seq(S)
           /\ ElementsOf(list) = ElementsOf(Tail(list)) \union {Head(list)}
           /\ Distinct(list) => Distinct(Tail(list)) /\ Head(list) \notin ElementsOf(Tail(list))
  <1>1. PICK first, rest : first = Head(list) /\ rest = Tail(list)
    OBVIOUS
  <1>2. /\ Len(list) \in Nat /\ Len(list) > 0 /\ DOMAIN list = 1..Len(list) /\ first = list[1] /\ first \in S
        /\ rest \in Seq(S) /\ Len(rest) = Len(list) - 1 /\ DOMAIN rest = 1..Len(list) - 1
        /\ \A i \in 1..Len(list) - 1 : rest[i] = list[i + 1]
    BY <1>1
  <1>3. ElementsOf(list) = ElementsOf(rest) \union {first}
    <2>1. ASSUME NEW i \in 1..Len(list) PROVE list[i] = first \/ \E j \in DOMAIN rest : list[i] = rest[j]
      <3>1. CASE i = 1
        BY <1>2, <3>1
      <3>2. CASE i # 1
        <4>1. i - 1 \in 1..Len(list) - 1 /\ (i - 1) + 1 = i
          BY <1>2, <3>2
        <4>2. rest[i - 1] = list[i] /\ i - 1 \in DOMAIN rest
          BY <1>2, <4>1
        <4> QED BY <4>2
      <3> QED BY <3>1, <3>2
    <2>2. ASSUME NEW i \in DOMAIN rest PROVE \E j \in DOMAIN list : rest[i] = list[j]
      <3>1. i + 1 \in DOMAIN list /\ rest[i] = list[i + 1]
        BY <1>2
      <3> QED BY <3>1
    <2>3. 1 \in DOMAIN list
      BY <1>2
    <2>4. \A i \in DOMAIN list : list[i] \in ElementsOf(rest) \union {first}
      BY <1>2, <2>1 DEF ElementsOf
    <2>5. \A i \in DOMAIN rest : rest[i] \in ElementsOf(list)
      BY <2>2 DEF ElementsOf
    <2>6. first \in ElementsOf(list)
      BY <1>2, <2>3 DEF ElementsOf
    <2> QED BY <2>4, <2>5, <2>6 DEF ElementsOf
  <1>4. ASSUME Distinct(list) PROVE Distinct(rest) /\ first \notin ElementsOf(rest)
    <2>1. \A i \in 1..Len(list) - 1 : i \in Nat /\ i + 1 \in 1..Len(list) /\ i + 1 # 1
      BY <1>2
    <2>2. Distinct(rest)
      <3> SUFFICES ASSUME NEW i \in 1..Len(list) - 1, NEW j \in 1..Len(list) - 1, rest[i] = rest[j] PROVE i = j
        BY <1>2 DEF Distinct
      <3>1. i + 1 = j + 1
        BY <1>2, <1>4, <2>1 DEF Distinct
      <3> QED BY <2>1, <3>1
    <2>3. first \notin ElementsOf(rest)
      <3>1. \A i \in 1..Len(list) - 1 : rest[i] # first
        BY <1>2, <1>4, <2>1 DEF Distinct
      <3> QED BY <1>2, <3>1 DEF ElementsOf
    <2> QED BY <2>2, <2>3
  <1> QED BY <1>1, <1>2, <1>3, <1>4

\* The targets of edges at some places, when no two of these edges lead to the same node.
LEMMA TargetsFacts ==
    ASSUME NEW N, NEW es \in Seq(N \X N), NEW places \in SUBSET (DOMAIN es),
           \A i, j \in places : es[i][2] = es[j][2] => i = j
    PROVE  /\ Targets(es, places) \in Seq(N) /\ ElementsOf(Targets(es, places)) = {es[i][2] : i \in places}
           /\ Distinct(Targets(es, places))
  <1>1. PICK out : out = Filter(es, places)
    OBVIOUS
  <1>2. /\ out \in Seq(N \X N) /\ ElementsOf(out) = {es[i] : i \in places}
        /\ \A k, l \in DOMAIN out : \E i, j \in places : out[k] = es[i] /\ out[l] = es[j] /\ (i = j => k = l)
    <2>1. out \in Seq(N \X N) /\ ElementsOf(out) = {es[i] : i \in places}
      BY <1>1, FilterFacts
    <2>2. \A k, l \in DOMAIN out : \E i, j \in places :
              out[k] = es[i] /\ out[l] = es[j] /\ (i = j => k = l) /\ (i < j => k < l)
      BY <1>1, FilterOrder
    <2> QED BY <2>1, <2>2
  <1>3. PICK to : to = [k \in DOMAIN out |-> out[k][2]]
    OBVIOUS
  <1>4. to = Targets(es, places)
    BY <1>1, <1>3 DEF Targets
  <1>5. DOMAIN out = 1..Len(out) /\ Len(out) \in Nat /\ \A k \in DOMAIN out : out[k] \in N \X N
    BY <1>2
  <1>6. to \in Seq(N)
    <2>1. \A k \in DOMAIN out : out[k][2] \in N
      BY <1>5
    <2>2. to \in [1..Len(out) -> N]
      BY <1>3, <1>5, <2>1
    <2> QED BY <1>5, <2>2
  <1>7. ElementsOf(to) = {es[i][2] : i \in places}
    <2>1. ElementsOf(to) = {e[2] : e \in ElementsOf(out)}
      BY <1>3 DEF ElementsOf
    <2> QED BY <1>2, <2>1
  <1>8. Distinct(to)
    <2> SUFFICES ASSUME NEW k \in DOMAIN out, NEW l \in DOMAIN out, out[k][2] = out[l][2] PROVE k = l
      BY <1>3 DEF Distinct
    <2> QED BY <1>2
  <1> QED BY <1>4, <1>6, <1>7, <1>8

LEMMA LastAndFirstPlace ==
    ASSUME NEW S, NEW es \in Seq(S), NEW i \in DOMAIN es
    PROVE  /\ \E k \in DOMAIN es : es[k] = es[i] /\ \A j \in DOMAIN es : es[j] = es[i] => j <= k
           /\ \E k \in DOMAIN es : es[k] = es[i] /\ \A j \in DOMAIN es : es[j] = es[i] => k <= j
  <1> DEFINE T == {j \in DOMAIN es : es[j] = es[i]}
  <1>1. Len(es) \in Nat /\ T \in SUBSET (1..Len(es)) /\ i \in T
    OBVIOUS
  <1>2. (\E k \in T : \A j \in T : j <= k) /\ (\E k \in T : \A j \in T : k <= j)
    <2> HIDE DEF T
    <2> QED BY <1>1, GreatestExists, LeastExists
  <1> QED BY <1>2
------------------------------------------------------------------------------
(***************************************************************************)
(* Descendants: the least set that is closed under the edges.              *)
(***************************************************************************)
Acyclic(ids, es) == \A n \in ids : n \notin Descendants(ids, es, n)

LEMMA DescendantsClosed ==
    ASSUME NEW ids, NEW es, es \subseteq ids \X ids, NEW n \in ids
    PROVE  LET D == Descendants(ids, es, n) IN D \subseteq ids /\ Children(es, n) \subseteq D /\ ClosedUnder(es, D)
  <1> DEFINE D == Descendants(ids, es, n)
  <1>1. D \subseteq ids
    BY DEF Descendants
  <1>2. Children(es, n) \subseteq D
    BY DEF Descendants, Children
  <1>3. ClosedUnder(es, D)
    <2> SUFFICES ASSUME NEW e \in es, e[1] \in D PROVE e[2] \in D
      BY DEF ClosedUnder
    <2>1. e[2] \in ids
      OBVIOUS
    <2>2. ASSUME NEW S \in SUBSET ids, Children(es, n) \subseteq S, ClosedUnder(es, S) PROVE e[2] \in S
      BY <2>2 DEF Descendants, ClosedUnder
    <2> QED BY <2>1, <2>2 DEF Descendants
  <1> QED BY <1>1, <1>2, <1>3

\* Any closed set with the children has all descendants.
LEMMA DescendantsLeast ==
    ASSUME NEW ids, NEW es, NEW n, NEW S \in SUBSET ids, Children(es, n) \subseteq S, ClosedUnder(es, S)
    PROVE  Descendants(ids, es, n) \subseteq S
  BY DEF Descendants

LEMMA ChildrenOfMember ==
    ASSUME NEW es, NEW n, NEW S, n \in S, ClosedUnder(es, S)
    PROVE  Children(es, n) \subseteq S
  BY DEF Children, ClosedUnder

\* Fewer edges among some of the nodes, or new nodes without edges.
LEMMA FewerEdges ==
    ASSUME NEW ids, NEW es, es \subseteq ids \X ids, Acyclic(ids, es),
           NEW some, NEW fewer, fewer \subseteq es, fewer \subseteq some \X some
    PROVE  Acyclic(some, fewer)
  <1> SUFFICES ASSUME NEW n \in some PROVE n \notin Descendants(some, fewer, n)
    BY DEF Acyclic
  <1>1. CASE n \in ids
    <2> DEFINE D == Descendants(ids, es, n)
               S == D \intersect some
    <2>1. Children(es, n) \subseteq D /\ ClosedUnder(es, D)
      BY <1>1, DescendantsClosed
    <2>2. Children(fewer, n) \subseteq S
      BY <2>1 DEF Children
    <2>3. ClosedUnder(fewer, S)
      BY <2>1 DEF ClosedUnder
    <2>4. n \notin S
      BY <1>1 DEF Acyclic
    <2> QED BY <2>2, <2>3, <2>4, DescendantsLeast
  <1>2. CASE n \notin ids
    <2>1. Children(fewer, n) \subseteq {}
      BY <1>2 DEF Children
    <2>2. ClosedUnder(fewer, {})
      BY DEF ClosedUnder
    <2> QED BY <2>1, <2>2, DescendantsLeast
  <1> QED BY <1>1, <1>2

\* An edge whose source is not found from its target closes no cycle.
LEMMA EdgeAdded ==
    ASSUME NEW ids, NEW es, es \subseteq ids \X ids, Acyclic(ids, es),
           NEW source \in ids, NEW target \in ids, source # target, source \notin Descendants(ids, es, target)
    PROVE  Acyclic(ids, es \union {<<source, target>>})
  <1> DEFINE more == es \union {<<source, target>>}
             D(n) == Descendants(ids, es, n)
  <1> SUFFICES ASSUME NEW n \in ids PROVE n \notin Descendants(ids, more, n)
    BY DEF Acyclic
  <1>1. \A m \in ids : D(m) \subseteq ids /\ Children(es, m) \subseteq D(m) /\ ClosedUnder(es, D(m)) /\ m \notin D(m)
    BY DescendantsClosed DEF Acyclic
  <1>2. ASSUME NEW a \in ids, NEW b \in D(a) PROVE D(b) \subseteq D(a)
    <2>1. Children(es, b) \subseteq D(a)
      BY <1>1, <1>2, ChildrenOfMember
    <2> QED BY <1>1, <2>1, DescendantsLeast
  <1> HIDE DEF D
  <1>3. CASE n # source /\ source \notin D(n)
    <2>1. Children(more, n) \subseteq D(n)
      BY <1>1, <1>3 DEF Children
    <2>2. ClosedUnder(more, D(n))
      BY <1>1, <1>3 DEF ClosedUnder
    <2> QED BY <1>1, <2>1, <2>2, DescendantsLeast
  <1>4. CASE n = source \/ source \in D(n)
    <2> DEFINE S == D(n) \union {target} \union D(target)
    <2>1. Children(more, n) \subseteq S
      BY <1>1 DEF Children
    <2>2. ClosedUnder(more, S)
      <3> SUFFICES ASSUME NEW e \in more, e[1] \in S PROVE e[2] \in S
        BY DEF ClosedUnder
      <3>1. CASE e = <<source, target>>
        BY <3>1
      <3>2. CASE e \in es /\ e[1] = target
        BY <1>1, <3>2 DEF Children
      <3>3. CASE e \in es /\ e[1] # target
        BY <1>1, <3>3 DEF ClosedUnder
      <3> QED BY <3>1, <3>2, <3>3
    <2>3. n \notin S
      <3>1. source \notin D(target)
        BY DEF D
      <3>2. n # target /\ n \notin D(target)
        BY <1>2, <1>4, <3>1
      <3> QED BY <1>1, <3>2
    <2>4. S \in SUBSET ids
      BY <1>1
    <2> HIDE DEF S
    <2> QED BY <2>1, <2>2, <2>3, <2>4, DescendantsLeast
  <1> QED BY <1>3, <1>4
------------------------------------------------------------------------------
(***************************************************************************)
(* The rounds of Kahn's algorithm.                                         *)
(***************************************************************************)
\* The first n rounds.
KahnUpTo(ids, es, n, h) ==
    h[0] = KahnStart(ids, es) /\ \A i \in 1..n : h[i] = KahnStep(es, h[i - 1])

LEMMA KahnRounds ==
    ASSUME NEW ids, NEW es
    PROVE  /\ KahnStates(ids, es)[0] = KahnStart(ids, es)
           /\ \A i \in Nat : KahnStates(ids, es)[i + 1] = KahnStep(es, KahnStates(ids, es)[i])
  <1> DEFINE Fits(n, h) == KahnUpTo(ids, es, n, h)
  <1>1. \A n \in Nat : \E h : Fits(n, h)
    <2> DEFINE S == {n \in Nat : \E h : Fits(n, h)}
    <2>1. 0 \in S
      <3>1. Fits(0, [i \in {0} |-> KahnStart(ids, es)])
        BY DEF KahnUpTo
      <3> QED BY <3>1
    <2>2. ASSUME NEW n \in Nat, n \in S PROVE n + 1 \in S
      <3>1. PICK h : Fits(n, h)
        BY <2>2
      <3>2. Fits(n + 1, [i \in 0..n + 1 |-> IF i = n + 1 THEN KahnStep(es, h[n]) ELSE h[i]])
        BY <3>1 DEF KahnUpTo
      <3> QED BY <3>2
    <2> HIDE DEF S
    <2>3. Nat \subseteq S
      BY <2>1, <2>2, NumbersInSet
    <2> QED BY <2>3 DEF S
  <1>2. ASSUME NEW n \in Nat, NEW m \in Nat, NEW h, NEW g, Fits(n, h), Fits(m, g)
        PROVE  \A i \in Nat : i <= n /\ i <= m => h[i] = g[i]
    <2> DEFINE S == {i \in Nat : i <= n /\ i <= m => h[i] = g[i]}
    <2>1. 0 \in S
      BY <1>2 DEF KahnUpTo
    <2>2. ASSUME NEW i \in Nat, i \in S PROVE i + 1 \in S
      <3> SUFFICES ASSUME i + 1 <= n, i + 1 <= m PROVE h[i + 1] = g[i + 1]
        OBVIOUS
      <3>1. i + 1 \in 1..n /\ i + 1 \in 1..m /\ (i + 1) - 1 = i /\ h[i] = g[i]
        BY <2>2
      <3> QED BY <1>2, <3>1 DEF KahnUpTo
    <2> HIDE DEF S
    <2>3. Nat \subseteq S
      BY <2>1, <2>2, NumbersInSet
    <2> QED BY <2>3 DEF S
  <1> DEFINE at(n) == CHOOSE h : Fits(n, h)
             g == [n \in Nat |-> at(n)[n]]
             Whole(f) == f = [i \in Nat |-> IF i = 0 THEN KahnStart(ids, es) ELSE KahnStep(es, f[i - 1])]
  <1>3. \A n \in Nat : Fits(n, at(n))
    BY <1>1
  <1>4. Whole(g)
    <2>1. ASSUME NEW n \in Nat PROVE g[n] = IF n = 0 THEN KahnStart(ids, es) ELSE KahnStep(es, g[n - 1])
      <3>1. CASE n = 0
        BY <1>3, <3>1 DEF KahnUpTo
      <3>2. CASE n # 0
        <4>1. n - 1 \in Nat /\ n \in 1..n /\ n - 1 <= n
          BY <3>2
        <4>2. at(n)[n] = KahnStep(es, at(n)[n - 1])
          BY <1>3, <4>1 DEF KahnUpTo
        <4>3. at(n)[n - 1] = at(n - 1)[n - 1]
          <5> HIDE DEF at
          <5> QED BY <1>2, <1>3, <4>1
        <4> QED BY <3>2, <4>1, <4>2, <4>3
      <3> QED BY <3>1, <3>2
    <2> HIDE DEF at
    <2> QED BY <2>1
  <1>5. KahnStates(ids, es) = CHOOSE f : Whole(f)
    BY DEF KahnStates
  <1>6. Whole(CHOOSE f : Whole(f))
    <2> HIDE DEF Whole, g
    <2> QED BY <1>4
  <1>7. Whole(KahnStates(ids, es))
    <2> HIDE DEF Whole
    <2> QED BY <1>5, <1>6
  <1>8. PICK f : f = KahnStates(ids, es)
    OBVIOUS
  <1>9. f = [i \in Nat |-> IF i = 0 THEN KahnStart(ids, es) ELSE KahnStep(es, f[i - 1])]
    BY <1>7, <1>8
  <1>10. f[0] = KahnStart(ids, es)
    BY <1>9
  <1>11. \A i \in Nat : f[i + 1] = KahnStep(es, f[i])
    <2> TAKE i \in Nat
    <2>1. i + 1 \in Nat /\ i + 1 # 0 /\ (i + 1) - 1 = i
      OBVIOUS
    <2>2. f[i + 1] = IF i + 1 = 0 THEN KahnStart(ids, es) ELSE KahnStep(es, f[(i + 1) - 1])
      BY <1>9, <2>1
    <2> QED BY <2>1, <2>2
  <1> QED BY <1>8, <1>10, <1>11

\* The edges into m that do not come from a node of R.
Into(es, m, R) == {i \in DOMAIN es : es[i][2] = m /\ es[i][1] \notin R}

(* Between two rounds: the order and the queue are of different nodes, in-degrees count the
   edges that are left, and the nodes without any are exactly those ordered or queued. *)
KahnInv(N, es, s) ==
    /\ s.order \in Seq(N) /\ s.queue \in Seq(N) /\ s.inDegree \in [N -> Nat]
    /\ Distinct(s.order) /\ Distinct(s.queue) /\ ElementsOf(s.order) \intersect ElementsOf(s.queue) = {}
    /\ \A m \in N : /\ s.inDegree[m] = Cardinality(Into(es, m, ElementsOf(s.order)))
                    /\ s.inDegree[m] = 0 <=> m \in ElementsOf(s.order) \union ElementsOf(s.queue)
    /\ \A i, j \in DOMAIN s.order : <<s.order[i], s.order[j]>> \in EdgeSet(es) => i < j

LEMMA IntoIsFinite ==
    ASSUME NEW S, NEW es \in Seq(S), NEW m, NEW R
    PROVE  IsFiniteSet(Into(es, m, R)) /\ Cardinality(Into(es, m, R)) \in Nat
  <1>1. Into(es, m, R) \in SUBSET (1..Len(es)) /\ Len(es) \in Nat
    BY DEF Into
  <1>2. IsFiniteSet(1..Len(es))
    BY <1>1, FS_Interval
  <1>3. IsFiniteSet(Into(es, m, R))
    BY <1>1, <1>2, FS_Subset
  <1> QED BY <1>3, FS_CardinalityType

LEMMA KahnStarts ==
    ASSUME NEW N, NEW ids \in Seq(N), ElementsOf(ids) = N, Distinct(ids), NEW es \in Seq(N \X N)
    PROVE  KahnInv(N, es, KahnStart(ids, es))
  <1> DEFINE degree == InDegrees(ids, es)
             K == {i \in DOMAIN ids : degree[ids[i]] = 0}
  <1>1. PICK s : s = [inDegree |-> degree, queue |-> Filter(ids, K), order |-> <<>>]
    OBVIOUS
  <1>2. s = KahnStart(ids, es)
    BY <1>1 DEF KahnStart
  <1>3. s.order = <<>> /\ s.queue = Filter(ids, K) /\ s.inDegree = degree
    BY <1>1
  <1>4. s.order \in Seq(N) /\ ElementsOf(s.order) = {} /\ DOMAIN s.order = {} /\ Distinct(s.order)
    BY <1>3 DEF ElementsOf, Distinct
  <1>5. \A m \in N : degree[m] = Cardinality(Into(es, m, {})) /\ degree[m] \in Nat
    <2>1. degree = [n \in N |-> Cardinality({i \in DOMAIN es : es[i][2] = n})]
      BY DEF InDegrees, ElementsOf
    <2>2. \A m : {i \in DOMAIN es : es[i][2] = m} = Into(es, m, {})
      BY DEF Into
    <2>3. \A m : Cardinality(Into(es, m, {})) \in Nat
      BY IntoIsFinite
    <2> HIDE DEF degree
    <2> QED BY <2>1, <2>2, <2>3
  <1>6. degree \in [N -> Nat]
    <2>1. degree = [n \in N |-> degree[n]]
      BY DEF InDegrees, ElementsOf
    <2> HIDE DEF degree
    <2> QED BY <1>5, <2>1
  <1>7. /\ s.queue \in Seq(N) /\ ElementsOf(s.queue) = {ids[i] : i \in K}
        /\ \A k, l \in DOMAIN s.queue : \E i, j \in K : s.queue[k] = ids[i] /\ s.queue[l] = ids[j] /\ (i = j => k = l)
    <2>1. K \in SUBSET (DOMAIN ids)
      OBVIOUS
    <2>2. PICK q : q = s.queue
      OBVIOUS
    <2> HIDE DEF K
    <2>3. q = Filter(ids, K)
      BY <1>3, <2>2
    <2>4. /\ q \in Seq(N) /\ ElementsOf(q) = {ids[i] : i \in K}
          /\ \A k, l \in DOMAIN q : \E i, j \in K : q[k] = ids[i] /\ q[l] = ids[j] /\ (i = j => k = l)
      <3>1. q \in Seq(N) /\ ElementsOf(q) = {ids[i] : i \in K}
        BY <2>1, <2>3, FilterFacts
      <3>2. \A k, l \in DOMAIN q : \E i, j \in K :
                q[k] = ids[i] /\ q[l] = ids[j] /\ (i = j => k = l) /\ (i < j => k < l)
        BY <2>1, <2>3, FilterOrder
      <3> QED BY <3>1, <3>2
    <2> QED BY <2>2, <2>4
  <1> HIDE DEF degree
  <1>8. Distinct(s.queue)
    BY <1>7 DEF Distinct
  <1>9. \A m \in N : degree[m] = 0 <=> m \in ElementsOf(s.queue)
    <2> TAKE m \in N
    <2>1. PICK i \in DOMAIN ids : ids[i] = m
      BY DEF ElementsOf
    <2>2. degree[m] = 0 => i \in K
      BY <2>1
    <2>3. \A j \in K : ids[j] = m => degree[m] = 0
      OBVIOUS
    <2> QED BY <1>7, <2>1, <2>2, <2>3
  <1> QED BY <1>2, <1>3, <1>4, <1>5, <1>6, <1>7, <1>8, <1>9 DEF KahnInv

LEMMA KahnAdvances ==
    ASSUME NEW N, NEW es \in Seq(N \X N), NEW s, KahnInv(N, es, s), s.queue # <<>>,
           NEW t, t = KahnRound(es, s)
    PROVE  KahnInv(N, es, t)
  <1> DEFINE current == Head(s.queue)
             used(m) == {i \in DOMAIN es : es[i] = <<current, m>>}
             left == [m \in DOMAIN s.inDegree |-> s.inDegree[m] - Cardinality(used(m))]
             freed == {i \in DOMAIN es : /\ es[i][1] = current /\ left[es[i][2]] = 0
                                         /\ \A j \in DOMAIN es : es[j] = es[i] => j <= i}
             old == ElementsOf(s.order) \union ElementsOf(s.queue)
             done == ElementsOf(s.order)
  <1>1. t = [inDegree |-> left, queue |-> Tail(s.queue) \o Targets(es, freed), order |-> Append(s.order, current)]
    BY DEF KahnRound
  <1>2. current = Head(s.queue)
    OBVIOUS
  <1>3. left = [m \in DOMAIN s.inDegree |-> s.inDegree[m] - Cardinality(used(m))]
    OBVIOUS
  <1> HIDE DEF current, left
  <1>4. /\ s.order \in Seq(N) /\ s.queue \in Seq(N) /\ s.inDegree \in [N -> Nat]
        /\ Distinct(s.order) /\ Distinct(s.queue) /\ done \intersect ElementsOf(s.queue) = {}
        /\ \A m \in N : s.inDegree[m] = Cardinality(Into(es, m, done)) /\ (s.inDegree[m] = 0 <=> m \in old)
        /\ \A i, j \in DOMAIN s.order : <<s.order[i], s.order[j]>> \in EdgeSet(es) => i < j
    BY DEF KahnInv
  <1>5. /\ current \in N /\ Tail(s.queue) \in Seq(N) /\ ElementsOf(s.queue) = ElementsOf(Tail(s.queue)) \union {current}
        /\ Distinct(Tail(s.queue)) /\ current \notin ElementsOf(Tail(s.queue))
    BY <1>2, <1>4, TailFacts
  <1>6. current \notin done
    BY <1>4, <1>5
  <1>7. /\ t.order \in Seq(N) /\ Len(t.order) = Len(s.order) + 1 /\ ElementsOf(t.order) = done \union {current}
        /\ DOMAIN t.order = DOMAIN s.order \union {Len(s.order) + 1} /\ t.order[Len(s.order) + 1] = current
        /\ \A i \in DOMAIN s.order : t.order[i] = s.order[i]
        /\ Distinct(t.order)
    <2>1. PICK o : o = t.order
      OBVIOUS
    <2>2. o = Append(s.order, current)
      BY <1>1, <2>1
    <2>3. /\ o \in Seq(N) /\ Len(o) = Len(s.order) + 1 /\ ElementsOf(o) = done \union {current}
          /\ DOMAIN o = DOMAIN s.order \union {Len(s.order) + 1} /\ o[Len(s.order) + 1] = current
          /\ \A i \in DOMAIN s.order : o[i] = s.order[i]
          /\ Distinct(o)
      <3>1. s.order \in Seq(N) /\ Distinct(s.order) /\ current \in N /\ current \notin ElementsOf(s.order)
        BY <1>4, <1>5, <1>6
      <3>2. PICK a : a = s.order
        OBVIOUS
      <3>3. a \in Seq(N) /\ Distinct(a) /\ current \notin ElementsOf(a) /\ o = Append(a, current)
        BY <2>2, <3>1, <3>2
      <3>4. /\ o \in Seq(N) /\ Len(o) = Len(a) + 1
            /\ DOMAIN o = DOMAIN a \union {Len(a) + 1} /\ o[Len(a) + 1] = current
            /\ \A i \in DOMAIN a : o[i] = a[i]
        BY <3>1, <3>3
      <3>5. (\A e : e \in ElementsOf(o) <=> e \in ElementsOf(a) \/ e = current) /\ Distinct(o)
        <4>1. \A e : e \in ElementsOf(o) <=> e \in ElementsOf(a) \/ e = current
          BY <3>1, <3>3, AppendElements
        <4>2. Distinct(o)
          BY <3>1, <3>2, <3>3, AppendDistinct
        <4> QED BY <4>1, <4>2
      <3>6. ElementsOf(o) = ElementsOf(a) \union {current}
        BY <3>5
      <3> QED BY <3>2, <3>4, <3>5, <3>6
    <2> QED BY <2>1, <2>3
  <1>8. ASSUME NEW m \in N
        PROVE  /\ IsFiniteSet(used(m)) /\ Cardinality(used(m)) \in Nat
               /\ left[m] \in Nat /\ left[m] = Cardinality(Into(es, m, done \union {current}))
               /\ s.inDegree[m] = left[m] + Cardinality(used(m))
    <2> DEFINE rest == Into(es, m, done \union {current})
    <2>1. \A i \in DOMAIN es : es[i] \in N \X N /\ es[i] = <<es[i][1], es[i][2]>>
      OBVIOUS
    <2>2. Into(es, m, done) = rest \union used(m) /\ rest \intersect used(m) = {}
      <3>1. \A i \in DOMAIN es : es[i] = <<current, m>> <=> es[i][1] = current /\ es[i][2] = m
        BY <2>1
      <3> HIDE DEF done
      <3> QED BY <1>6, <3>1 DEF Into
    <2>3. IsFiniteSet(Into(es, m, done))
      BY IntoIsFinite
    <2>4. IsFiniteSet(rest) /\ Cardinality(rest) \in Nat
      BY IntoIsFinite
    <2>5. IsFiniteSet(used(m))
      <3>1. used(m) \in SUBSET Into(es, m, done)
        BY <2>2
      <3> HIDE DEF used
      <3> QED BY <2>3, <3>1, FS_Subset
    <2>6. Cardinality(used(m)) \in Nat
      BY <2>5, FS_CardinalityType
    <2>7. Cardinality(Into(es, m, done)) = Cardinality(rest) + Cardinality(used(m))
      <3>1. Cardinality(rest \union used(m)) = Cardinality(rest) + Cardinality(used(m)) - Cardinality(rest \intersect used(m))
        <4> HIDE DEF rest, used
        <4> QED BY <2>4, <2>5, FS_Union
      <3>2. Cardinality({}) = 0
        BY FS_EmptySet
      <3> HIDE DEF rest, used
      <3>3. Cardinality(rest \intersect used(m)) = 0
        BY <2>2, <3>2
      <3>4. Cardinality(Into(es, m, done)) = Cardinality(rest \union used(m))
        BY <2>2
      <3> QED BY <2>4, <2>6, <3>1, <3>3, <3>4
    <2>8. left[m] = s.inDegree[m] - Cardinality(used(m))
      BY <1>3, <1>4
    <2> HIDE DEF used, rest
    <2>9. s.inDegree[m] = Cardinality(Into(es, m, done))
      BY <1>4
    <2>10. left[m] = Cardinality(rest)
      BY <2>4, <2>6, <2>7, <2>8, <2>9
    <2> QED BY <2>4, <2>5, <2>6, <2>8, <2>9, <2>10, <1>4 DEF rest
  <1>9. left \in [N -> Nat]
    <2>1. DOMAIN left = N /\ left = [m \in N |-> left[m]]
      BY <1>3, <1>4
    <2> QED BY <1>8, <2>1
  <1>10. ASSUME NEW m \in N PROVE Cardinality(used(m)) # 0 <=> <<current, m>> \in EdgeSet(es)
    <2>1. Cardinality(used(m)) = 0 <=> used(m) = {}
      <3> HIDE DEF used
      <3> QED BY <1>8, FS_EmptySet
    <2>2. used(m) = {} <=> <<current, m>> \notin EdgeSet(es)
      BY DEF EdgeSet
    <2> QED BY <2>1, <2>2
  <1> HIDE DEF used
  <1>11. /\ Targets(es, freed) \in Seq(N) /\ ElementsOf(Targets(es, freed)) = {es[i][2] : i \in freed}
         /\ Distinct(Targets(es, freed))
    <2>1. freed \in SUBSET (DOMAIN es)
      OBVIOUS
    <2>2. ASSUME NEW i \in freed, NEW j \in freed, es[i][2] = es[j][2] PROVE i = j
      <3>1. es[i] = es[j]
        <4>1. es[i] \in N \X N /\ es[j] \in N \X N
          OBVIOUS
        <4> QED BY <2>2, <4>1
      <3>2. i <= j /\ j <= i /\ i \in Nat /\ j \in Nat
        <4>1. i \in 1..Len(es) /\ j \in 1..Len(es)
          OBVIOUS
        <4> QED BY <3>1, <4>1
      <3> QED BY <3>2
    <2> HIDE DEF freed
    <2> QED BY <2>1, <2>2, TargetsFacts
  <1>12. ASSUME NEW m \in N PROVE m \in ElementsOf(Targets(es, freed)) <=> left[m] = 0 /\ <<current, m>> \in EdgeSet(es)
    <2>1. ASSUME NEW i \in freed, es[i][2] = m PROVE left[m] = 0 /\ <<current, m>> \in EdgeSet(es)
      <3>1. es[i] \in N \X N
        OBVIOUS
      <3> QED BY <2>1, <3>1 DEF EdgeSet
    <2>2. ASSUME left[m] = 0, <<current, m>> \in EdgeSet(es) PROVE \E i \in freed : es[i][2] = m
      <3>1. PICK i \in DOMAIN es : es[i] = <<current, m>>
        BY <2>2 DEF EdgeSet
      <3>2. PICK k \in DOMAIN es : es[k] = es[i] /\ \A j \in DOMAIN es : es[j] = es[i] => j <= k
        BY LastAndFirstPlace
      <3>3. es[k][1] = current /\ es[k][2] = m
        BY <3>1, <3>2
      <3> QED BY <2>2, <3>2, <3>3
    <2> QED BY <1>11, <2>1, <2>2
  <1> HIDE DEF freed
  <1>13. ElementsOf(Targets(es, freed)) \intersect old = {} /\ ElementsOf(Targets(es, freed)) \subseteq N
    <2>1. ElementsOf(Targets(es, freed)) \subseteq N
      <3>1. \A i \in DOMAIN Targets(es, freed) : Targets(es, freed)[i] \in N
        BY <1>11
      <3> QED BY <3>1 DEF ElementsOf
    <2>2. ASSUME NEW m \in ElementsOf(Targets(es, freed)) PROVE m \notin old
      <3>1. m \in N /\ Cardinality(used(m)) # 0
        BY <1>10, <1>12, <2>1
      <3>2. left[m] \in Nat /\ Cardinality(used(m)) \in Nat /\ s.inDegree[m] = left[m] + Cardinality(used(m))
        BY <1>8, <3>1
      <3>3. s.inDegree[m] # 0
        BY <3>1, <3>2
      <3> QED BY <1>4, <3>1, <3>3
    <2> QED BY <2>1, <2>2
  <1>14. /\ t.queue \in Seq(N) /\ ElementsOf(t.queue) = ElementsOf(Tail(s.queue)) \union ElementsOf(Targets(es, freed))
         /\ Distinct(t.queue)
    <2>1. PICK q : q = t.queue
      OBVIOUS
    <2>2. q = Tail(s.queue) \o Targets(es, freed)
      BY <1>1, <2>1
    <2>3. ElementsOf(Tail(s.queue)) \intersect ElementsOf(Targets(es, freed)) = {}
      BY <1>5, <1>13
    <2>4. /\ q \in Seq(N) /\ ElementsOf(q) = ElementsOf(Tail(s.queue)) \union ElementsOf(Targets(es, freed))
          /\ Distinct(q)
      <3>1. /\ Tail(s.queue) \in Seq(N) /\ Targets(es, freed) \in Seq(N)
            /\ Distinct(Tail(s.queue)) /\ Distinct(Targets(es, freed))
        BY <1>5, <1>11
      <3>2. PICK a, b : a = Tail(s.queue) /\ b = Targets(es, freed)
        OBVIOUS
      <3>3. a \in Seq(N) /\ b \in Seq(N) /\ q = a \o b /\ Distinct(a) /\ Distinct(b) /\ ElementsOf(a) \intersect ElementsOf(b) = {}
        BY <2>2, <2>3, <3>1, <3>2
      <3>4. q \in Seq(N)
        BY <3>3
      <3>5. \A e : e \in ElementsOf(q) <=> e \in ElementsOf(a) \/ e \in ElementsOf(b)
        BY <3>3, JoinElements
      <3>6. Distinct(q)
        BY <3>3, JoinDistinct
      <3>7. ElementsOf(q) = ElementsOf(a) \union ElementsOf(b)
        BY <3>5
      <3> QED BY <3>2, <3>4, <3>6, <3>7
    <2> QED BY <2>1, <2>4
  <1>15. ElementsOf(t.order) \intersect ElementsOf(t.queue) = {}
    BY <1>4, <1>5, <1>7, <1>13, <1>14
  <1>16. t.inDegree = left
    BY <1>1
  <1>17. ASSUME NEW m \in N PROVE left[m] = 0 <=> m \in ElementsOf(t.order) \union ElementsOf(t.queue)
    <2>1. ElementsOf(t.order) \union ElementsOf(t.queue) = old \union ElementsOf(Targets(es, freed))
      BY <1>5, <1>7, <1>14
    <2>2. m \in old => left[m] = 0
      BY <1>4, <1>8
    <2>3. left[m] = 0 /\ m \notin old => m \in ElementsOf(Targets(es, freed))
      <3> SUFFICES ASSUME left[m] = 0, m \notin old PROVE m \in ElementsOf(Targets(es, freed))
        OBVIOUS
      <3>1. s.inDegree[m] # 0
        BY <1>4
      <3>2. Cardinality(used(m)) # 0
        BY <1>8, <3>1
      <3> QED BY <1>10, <1>12, <3>2
    <2> QED BY <1>12, <2>1, <2>2, <2>3
  <1>18. \A i, j \in DOMAIN t.order : <<t.order[i], t.order[j]>> \in EdgeSet(es) => i < j
    <2>1. ASSUME NEW m \in done \union {current} PROVE <<current, m>> \notin EdgeSet(es)
      <3>1. m \in N /\ s.inDegree[m] = 0
        <4>1. m \in old
          BY <1>5
        <4>2. m \in N
          BY <1>5, <1>4 DEF ElementsOf
        <4> QED BY <1>4, <4>1, <4>2
      <3>2. Cardinality(used(m)) = 0
        BY <1>8, <3>1
      <3> QED BY <1>10, <3>1, <3>2
    <2> SUFFICES ASSUME NEW i \in DOMAIN t.order, NEW j \in DOMAIN t.order, <<t.order[i], t.order[j]>> \in EdgeSet(es)
                 PROVE  i < j
      OBVIOUS
    <2>2. t.order[j] \in done \union {current}
      BY <1>7 DEF ElementsOf
    <2>3. i \in DOMAIN s.order
      BY <1>7, <2>1, <2>2
    <2>4. CASE j \in DOMAIN s.order
      BY <1>4, <1>7, <2>3, <2>4
    <2>5. CASE j = Len(s.order) + 1
      <3>1. i \in 1..Len(s.order) /\ Len(s.order) \in Nat
        BY <1>4, <2>3
      <3> QED BY <2>5, <3>1
    <2> QED BY <1>7, <2>4, <2>5
  <1> QED BY <1>7, <1>8, <1>9, <1>14, <1>15, <1>16, <1>17, <1>18 DEF KahnInv

\* The queue is empty after as many rounds as there are nodes.
LEMMA KahnEnds ==
    ASSUME NEW N, NEW ids \in Seq(N), ElementsOf(ids) = N, Distinct(ids), NEW es \in Seq(N \X N)
    PROVE  LET s == KahnStates(ids, es)[Len(ids)] IN KahnInv(N, es, s) /\ s.queue = <<>>
  <1> DEFINE at(i) == KahnStates(ids, es)[i]
             S == {i \in Nat : KahnInv(N, es, at(i)) /\ (at(i).queue = <<>> \/ Len(at(i).order) = i)}
  <1>1. at(0) = KahnStart(ids, es) /\ \A i \in Nat : at(i + 1) = KahnStep(es, at(i))
    BY KahnRounds
  <1> HIDE DEF at
  <1>2. 0 \in S
    <2>1. KahnInv(N, es, at(0))
      BY <1>1, KahnStarts
    <2>2. Len(at(0).order) = 0
      BY <1>1 DEF KahnStart
    <2> QED BY <2>1, <2>2
  <1>3. ASSUME NEW i \in Nat, i \in S PROVE i + 1 \in S
    <2>1. CASE at(i).queue = <<>>
      <3>1. at(i + 1) = at(i)
        BY <1>1, <2>1 DEF KahnStep
      <3> QED BY <1>3, <2>1, <3>1
    <2>2. CASE at(i).queue # <<>>
      <3>1. PICK s, t : s = at(i) /\ t = at(i + 1)
        OBVIOUS
      <3>2. t = KahnRound(es, s)
        BY <1>1, <2>2, <3>1 DEF KahnStep
      <3>3. KahnInv(N, es, s) /\ s.queue # <<>> /\ Len(s.order) = i
        BY <1>3, <2>2, <3>1
      <3>4. KahnInv(N, es, t) /\ Len(t.order) = Len(s.order) + 1
        <4>1. KahnInv(N, es, t)
          BY <3>2, <3>3, KahnAdvances
        <4>2. t.order = Append(s.order, Head(s.queue)) /\ s.order \in Seq(N)
          BY <3>2, <3>3 DEF KahnRound, KahnInv
        <4> QED BY <4>1, <4>2
      <3> QED BY <3>1, <3>3, <3>4
    <2> QED BY <2>1, <2>2
  <1>4. Nat \subseteq S
    <2> HIDE DEF S
    <2> QED BY <1>2, <1>3, NumbersInSet
  <1>5. PICK s : s = at(Len(ids))
    OBVIOUS
  <1>6. KahnInv(N, es, s) /\ (s.queue = <<>> \/ Len(s.order) = Len(ids))
    <2>1. Len(ids) \in S
      BY <1>4
    <2> QED BY <1>5, <2>1
  <1>7. ASSUME Len(s.order) = Len(ids), s.queue # <<>> PROVE FALSE
    <2>1. s.order \in Seq(N) /\ s.queue \in Seq(N) /\ Distinct(s.order) /\ ElementsOf(s.order) \intersect ElementsOf(s.queue) = {}
      BY <1>6 DEF KahnInv
    <2>2. IsFiniteSet(N) /\ Cardinality(N) = Len(ids)
      BY DistinctLength
    <2>3. Cardinality(ElementsOf(s.order)) = Len(s.order)
      BY <2>1, DistinctLength
    <2>4. ElementsOf(s.order) \in SUBSET N
      BY <2>1 DEF ElementsOf
    <2>5. ElementsOf(s.order) = N
      BY <1>7, <2>2, <2>3, <2>4, FS_Subset
    <2>6. Head(s.queue) \in N /\ Head(s.queue) \in ElementsOf(s.queue)
      BY <1>7, <2>1, TailFacts
    <2> QED BY <2>1, <2>5, <2>6
  <1> QED BY <1>5, <1>6, <1>7 DEF at

(* What the algorithm returns: an order without repetitions in which edges lead forward,
   of exactly those nodes whose predecessors are all in it. *)
KahnOrder(N, es, order) ==
    /\ order \in Seq(N) /\ Distinct(order)
    /\ \A i, j \in DOMAIN order : <<order[i], order[j]>> \in EdgeSet(es) => i < j
    /\ \A m \in N : (\A p \in N : <<p, m>> \in EdgeSet(es) => p \in ElementsOf(order)) => m \in ElementsOf(order)

LEMMA KahnReturns ==
    ASSUME NEW N, NEW ids \in Seq(N), ElementsOf(ids) = N, Distinct(ids), NEW es \in Seq(N \X N)
    PROVE  KahnOrder(N, es, BuildTopologicalOrder(ids, es))
  <1>1. PICK s : s = KahnStates(ids, es)[Len(ids)]
    OBVIOUS
  <1>2. KahnInv(N, es, s) /\ s.queue = <<>>
    BY <1>1, KahnEnds
  <1>3. ElementsOf(s.queue) = {}
    BY <1>2 DEF ElementsOf
  <1>4. /\ s.order \in Seq(N) /\ Distinct(s.order)
        /\ \A i, j \in DOMAIN s.order : <<s.order[i], s.order[j]>> \in EdgeSet(es) => i < j
        /\ \A m \in N : Cardinality(Into(es, m, ElementsOf(s.order))) = 0 => m \in ElementsOf(s.order)
    BY <1>2, <1>3 DEF KahnInv
  <1>5. ASSUME NEW m \in N, \A p \in N : <<p, m>> \in EdgeSet(es) => p \in ElementsOf(s.order)
        PROVE  m \in ElementsOf(s.order)
    <2>1. ASSUME NEW i \in DOMAIN es, es[i][2] = m PROVE es[i][1] \in ElementsOf(s.order)
      <3>1. es[i] \in N \X N
        OBVIOUS
      <3>2. es[i] = <<es[i][1], m>> /\ es[i][1] \in N /\ es[i] \in EdgeSet(es)
        BY <2>1, <3>1 DEF EdgeSet
      <3> QED BY <1>5, <3>2
    <2>2. Into(es, m, ElementsOf(s.order)) = {}
      BY <2>1 DEF Into
    <2>3. Cardinality(Into(es, m, ElementsOf(s.order))) = 0
      BY <2>2, FS_EmptySet
    <2> QED BY <1>4, <2>3
  <1> QED BY <1>1, <1>4, <1>5 DEF KahnOrder, BuildTopologicalOrder

\* In an order of the graph whatever depends on a node comes after it.
LEMMA DescendantsAreLater ==
    ASSUME NEW N, NEW E, E \subseteq N \X N, NEW order, LinearExtension(N, E, order), NEW i \in DOMAIN order
    PROVE  Descendants(N, E, order[i]) \subseteq {order[j] : j \in {k \in DOMAIN order : i < k}}
  <1> DEFINE later == {order[j] : j \in {k \in DOMAIN order : i < k}}
  <1>1. /\ order \in Seq(N) /\ DOMAIN order = 1..Len(order) /\ Len(order) \in Nat
        /\ \A m \in N : \E k \in DOMAIN order : order[k] = m
        /\ \A k, l \in DOMAIN order : <<order[k], order[l]>> \in E => k < l
    <2>1. order \in Seq(N)
      BY DEF LinearExtension
    <2>2. DOMAIN order = 1..Len(order) /\ Len(order) \in Nat
      BY <2>1
    <2> QED BY <2>1, <2>2 DEF LinearExtension
  <1>2. ASSUME NEW a \in DOMAIN order, NEW m \in N, <<order[a], m>> \in E, a = i \/ i < a PROVE m \in later
    <2>1. PICK b \in DOMAIN order : order[b] = m
      BY <1>1
    <2>2. a < b /\ a \in Nat /\ b \in Nat /\ i \in Nat
      BY <1>1, <1>2, <2>1
    <2> QED BY <1>2, <2>1, <2>2
  <1>3. Children(E, order[i]) \subseteq later
    <2> SUFFICES ASSUME NEW e \in E, e[1] = order[i] PROVE e[2] \in later
      BY DEF Children
    <2>1. e = <<order[i], e[2]>> /\ e[2] \in N
      OBVIOUS
    <2> HIDE DEF later
    <2> QED BY <1>2, <2>1
  <1>4. ClosedUnder(E, later)
    <2> SUFFICES ASSUME NEW e \in E, e[1] \in later PROVE e[2] \in later
      BY DEF ClosedUnder
    <2>1. PICK a \in DOMAIN order : i < a /\ e[1] = order[a]
      OBVIOUS
    <2>2. e = <<order[a], e[2]>> /\ e[2] \in N
      BY <2>1
    <2> HIDE DEF later
    <2> QED BY <1>2, <2>1, <2>2
  <1>5. later \in SUBSET N
    <2>1. \A k \in DOMAIN order : order[k] \in N
      BY <1>1
    <2> QED BY <2>1
  <1> HIDE DEF later
  <1>6. Descendants(N, E, order[i]) \subseteq later
    BY <1>3, <1>4, <1>5, DescendantsLeast
  <1> QED BY <1>6 DEF later

LEMMA KahnDecides ==
    ASSUME NEW N, NEW ids \in Seq(N), ElementsOf(ids) = N, Distinct(ids), NEW es \in Seq(N \X N),
           NEW order, order = BuildTopologicalOrder(ids, es)
    PROVE  /\ Len(order) = Len(ids) <=> Acyclic(N, EdgeSet(es))
           /\ Len(order) = Len(ids) => LinearExtension(N, EdgeSet(es), order)
  <1> DEFINE E == EdgeSet(es)
             D(m) == Descendants(N, E, m)
             done == ElementsOf(order)
  <1>1. KahnOrder(N, es, order)
    BY KahnReturns
  <1>2. IsFiniteSet(N) /\ Cardinality(N) = Len(ids) /\ IsFiniteSet(done) /\ Cardinality(done) = Len(order) /\ done \in SUBSET N
    <2>1. order \in Seq(N) /\ Distinct(order)
      BY <1>1 DEF KahnOrder
    <2>2. IsFiniteSet(N) /\ Cardinality(N) = Len(ids)
      BY DistinctLength
    <2>3. IsFiniteSet(done) /\ Cardinality(done) = Len(order)
      BY <2>1, DistinctLength
    <2>4. done \in SUBSET N
      BY <2>1 DEF ElementsOf
    <2> QED BY <2>2, <2>3, <2>4
  <1>3. Len(order) = Len(ids) <=> done = N
    BY <1>2, FS_Subset
  <1>4. E \subseteq N \X N
    <2>1. \A i \in DOMAIN es : es[i] \in N \X N
      OBVIOUS
    <2> QED BY <2>1 DEF EdgeSet
  <1>5. ASSUME done = N PROVE LinearExtension(N, E, order) /\ Acyclic(N, E)
    <2>1. /\ order \in Seq(N) /\ DOMAIN order = 1..Len(order)
          /\ \A m \in N : \E i \in DOMAIN order : order[i] = m
          /\ \A i, j \in DOMAIN order : order[i] = order[j] => i = j
          /\ \A i, j \in DOMAIN order : <<order[i], order[j]>> \in E => i < j
      <3>1. order \in Seq(N) /\ DOMAIN order = 1..Len(order)
        BY <1>1 DEF KahnOrder
      <3>2. \A m \in N : \E i \in DOMAIN order : order[i] = m
        BY <1>5 DEF ElementsOf
      <3> QED BY <1>1, <3>1, <3>2 DEF KahnOrder, Distinct
    <2>2. LinearExtension(N, E, order)
      <3> HIDE DEF E
      <3> QED BY <2>1 DEF LinearExtension
    <2>3. ASSUME NEW n \in N PROVE n \notin D(n)
      <3>1. PICK i \in DOMAIN order : order[i] = n
        BY <2>1
      <3>2. ASSUME n \in D(n) PROVE FALSE
        <4> HIDE DEF E
        <4>1. D(order[i]) \subseteq {order[j] : j \in {k \in DOMAIN order : i < k}}
          BY <1>4, <2>2, DescendantsAreLater
        <4>2. PICK j \in DOMAIN order : i < j /\ order[j] = n
          BY <3>1, <3>2, <4>1
        <4>3. i = j /\ i \in Nat
          BY <2>1, <3>1, <4>2
        <4> QED BY <4>2, <4>3
      <3> QED BY <3>2
    <2> QED BY <2>2, <2>3 DEF Acyclic
  <1>6. ASSUME Acyclic(N, E), done # N PROVE FALSE
    <2> DEFINE R == N \ done
               Rest(m) == N \ D(m)
               T == {Rest(m) : m \in R}
    <2>1. ASSUME NEW m \in R PROVE \E p \in R : <<p, m>> \in E
      BY <1>1 DEF KahnOrder
    <2>2. IsWellFoundedOn(StrictSubsetOrdering(N), SUBSET N)
      <3>1. FiniteSubsetsOf(N) = SUBSET N
        BY <1>2, FS_FiniteSubsetsOfFinite
      <3> QED BY <3>1, FS_StrictSubsetOrderingWellFounded
    <2>3. T \subseteq SUBSET N /\ T # {}
      BY <1>2, <1>6
    <2>4. PICK A \in T : \A B \in T : ~(<<B, A>> \in StrictSubsetOrdering(N))
      <3> HIDE DEF T
      <3> QED BY <2>2, <2>3, WFMin
    <2>5. PICK m \in R : A = Rest(m)
      BY <2>4
    <2>6. PICK p \in R : <<p, m>> \in E
      BY <2>1
    <2>7. m \in D(p) /\ D(m) \subseteq D(p)
      <3>1. D(p) \subseteq N /\ Children(E, p) \subseteq D(p) /\ ClosedUnder(E, D(p))
        BY <1>4, DescendantsClosed
      <3>2. m \in D(p)
        BY <2>6, <3>1 DEF Children
      <3>3. Children(E, m) \subseteq D(p)
        BY <3>1, <3>2, ChildrenOfMember
      <3> HIDE DEF E
      <3>4. D(m) \subseteq D(p)
        BY <3>1, <3>3, DescendantsLeast
      <3> QED BY <3>2, <3>4
    <2>8. m \notin D(m)
      BY <1>6 DEF Acyclic
    <2>9. Rest(p) \subseteq Rest(m) /\ m \in Rest(m) /\ m \notin Rest(p)
      <3> HIDE DEF D
      <3> QED BY <2>7, <2>8
    <2>10. <<Rest(p), Rest(m)>> \in StrictSubsetOrdering(N)
      <3>1. Rest(p) \in SUBSET N /\ Rest(m) \in SUBSET N /\ Rest(p) # Rest(m)
        BY <2>9
      <3> HIDE DEF Rest
      <3> QED BY <2>9, <3>1 DEF StrictSubsetOrdering
    <2>11. Rest(p) \in T
      OBVIOUS
    <2> QED BY <2>4, <2>5, <2>10, <2>11
  <1> QED BY <1>3, <1>5, <1>6
------------------------------------------------------------------------------
(***************************************************************************)
(* Cutting an order into phases.                                           *)
(***************************************************************************)
Forward(list, E) == \A i, j \in DOMAIN list : <<list[i], list[j]>> \in E => i < j

\* A list of the nodes of M, each once, in which no edge leads back.
Orderly(N, E, list, M) == list \in Seq(N) /\ Distinct(list) /\ Forward(list, E) /\ ElementsOf(list) = M

LEMMA PhaseIsCut ==
    ASSUME NEW N, NEW E, NEW phase, NEW order, LinearExtension(N, E, order), NEW p,
           NEW out, out = NodesForPhase(phase, order, p)
    PROVE  Orderly(N, E, out, {m \in N : phase[m] = p})
  <1> DEFINE K == {i \in DOMAIN order : phase[order[i]] = p}
  <1>1. /\ order \in Seq(N) /\ DOMAIN order = 1..Len(order) /\ Len(order) \in Nat
        /\ \A m \in N : \E k \in DOMAIN order : order[k] = m
        /\ \A k \in DOMAIN order : order[k] \in N
        /\ \A k, l \in DOMAIN order : order[k] = order[l] => k = l
        /\ \A k, l \in DOMAIN order : <<order[k], order[l]>> \in E => k < l
    <2>1. order \in Seq(N)
      BY DEF LinearExtension
    <2>2. DOMAIN order = 1..Len(order) /\ Len(order) \in Nat /\ \A k \in DOMAIN order : order[k] \in N
      BY <2>1
    <2> QED BY <2>1, <2>2 DEF LinearExtension
  <1>2. out = Filter(order, K) /\ K \in SUBSET (DOMAIN order)
    BY DEF NodesForPhase
  <1>3. \A m : m \in {order[i] : i \in K} <=> m \in N /\ phase[m] = p
    BY <1>1
  <1> HIDE DEF K
  <1>4. /\ out \in Seq(N) /\ ElementsOf(out) = {order[i] : i \in K}
        /\ \A k, l \in DOMAIN out : \E i, j \in K :
               out[k] = order[i] /\ out[l] = order[j] /\ (i = j => k = l) /\ (i < j => k < l)
    <2>0. order \in Seq(N) /\ K \in SUBSET (DOMAIN order) /\ out = Filter(order, K)
      BY <1>1, <1>2
    <2>1. out \in Seq(N)
      BY <2>0, FilterFacts
    <2>2. ElementsOf(out) = {order[i] : i \in K}
      BY <2>0, FilterFacts
    <2>3. \A k, l \in DOMAIN out : \E i, j \in K :
              out[k] = order[i] /\ out[l] = order[j] /\ (i = j => k = l) /\ (i < j => k < l)
      BY <2>0, FilterOrder
    <2> QED BY <2>1, <2>2, <2>3
  <1>5. Distinct(out)
    <2> SUFFICES ASSUME NEW k \in DOMAIN out, NEW l \in DOMAIN out, out[k] = out[l] PROVE k = l
      BY DEF Distinct
    <2>1. PICK i \in K, j \in K : out[k] = order[i] /\ out[l] = order[j] /\ (i = j => k = l)
      BY <1>4
    <2> QED BY <1>1, <1>2, <2>1
  <1>6. Forward(out, E)
    <2> SUFFICES ASSUME NEW k \in DOMAIN out, NEW l \in DOMAIN out, <<out[k], out[l]>> \in E PROVE k < l
      BY DEF Forward
    <2>1. PICK i \in K, j \in K : out[k] = order[i] /\ out[l] = order[j] /\ (i < j => k < l)
      BY <1>4
    <2> QED BY <1>1, <1>2, <2>1
  <1>7. ElementsOf(out) = {m \in N : phase[m] = p}
    BY <1>3, <1>4
  <1> QED BY <1>4, <1>5, <1>6, <1>7 DEF Orderly

LEMMA JoinForward ==
    ASSUME NEW S, NEW a \in Seq(S), NEW b \in Seq(S), NEW E, Forward(a, E), Forward(b, E),
           \A x \in ElementsOf(b), y \in ElementsOf(a) : <<x, y>> \notin E,
           NEW out, out = a \o b
    PROVE  Forward(out, E)
  <1> SUFFICES ASSUME NEW i \in DOMAIN out, NEW j \in DOMAIN out, <<out[i], out[j]>> \in E PROVE i < j
    BY DEF Forward
  <1>1. \A k \in DOMAIN out : \/ k \in DOMAIN a /\ out[k] = a[k]
                              \/ k > Len(a) /\ k - Len(a) \in DOMAIN b /\ out[k] = b[k - Len(a)]
    BY JoinPlaces
  <1>2. Len(a) \in Nat /\ Len(b) \in Nat /\ DOMAIN a = 1..Len(a) /\ DOMAIN b = 1..Len(b) /\ i \in Nat /\ j \in Nat
    OBVIOUS
  <1>3. CASE i \in DOMAIN a /\ out[i] = a[i] /\ j \in DOMAIN a /\ out[j] = a[j]
    BY <1>3 DEF Forward
  <1>4. CASE i \in DOMAIN a /\ j > Len(a)
    BY <1>2, <1>4
  <1>5. CASE i - Len(a) \in DOMAIN b /\ out[i] = b[i - Len(a)] /\ j \in DOMAIN a /\ out[j] = a[j]
    BY <1>5 DEF ElementsOf
  <1>6. CASE i - Len(a) \in DOMAIN b /\ out[i] = b[i - Len(a)] /\ j - Len(a) \in DOMAIN b /\ out[j] = b[j - Len(a)]
    <2>1. i - Len(a) < j - Len(a)
      BY <1>6 DEF Forward
    <2> QED BY <1>2, <2>1
  <1> QED BY <1>1, <1>3, <1>4, <1>5, <1>6

LEMMA JoinOrderly ==
    ASSUME NEW N, NEW E, NEW a, NEW A, Orderly(N, E, a, A), NEW b, NEW B, Orderly(N, E, b, B),
           A \intersect B = {}, \A x \in B, y \in A : <<x, y>> \notin E
    PROVE  Orderly(N, E, a \o b, A \union B)
  <1>1. PICK out : out = a \o b
    OBVIOUS
  <1>2. /\ a \in Seq(N) /\ Distinct(a) /\ Forward(a, E) /\ ElementsOf(a) = A
        /\ b \in Seq(N) /\ Distinct(b) /\ Forward(b, E) /\ ElementsOf(b) = B
    BY DEF Orderly
  <1>3. out \in Seq(N)
    BY <1>1, <1>2
  <1>4. \A e : e \in ElementsOf(out) <=> e \in ElementsOf(a) \/ e \in ElementsOf(b)
    BY <1>1, <1>2, JoinElements
  <1>5. Distinct(out)
    BY <1>1, <1>2, JoinDistinct
  <1>6. Forward(out, E)
    BY <1>1, <1>2, JoinForward
  <1>7. ElementsOf(out) = A \union B
    BY <1>2, <1>4
  <1> QED BY <1>1, <1>3, <1>5, <1>6, <1>7 DEF Orderly

LEMMA OrderlyIsLinear ==
    ASSUME NEW N, NEW E, NEW list, Orderly(N, E, list, N)
    PROVE  LinearExtension(N, E, list)
  <1>1. list \in Seq(N) /\ Distinct(list) /\ Forward(list, E) /\ ElementsOf(list) = N
    BY DEF Orderly
  <1>2. DOMAIN list = 1..Len(list)
    BY <1>1
  <1>3. \A m \in N : \E i \in 1..Len(list) : list[i] = m
    BY <1>1, <1>2 DEF ElementsOf
  <1>4. \A i, j \in 1..Len(list) : list[i] = list[j] => i = j
    BY <1>1, <1>2 DEF Distinct
  <1>5. \A i, j \in 1..Len(list) : <<list[i], list[j]>> \in E => i < j
    BY <1>1, <1>2 DEF Forward
  <1> QED BY <1>1, <1>3, <1>4, <1>5 DEF LinearExtension

LEMMA PhasesKeepOrder ==
    ASSUME NEW N, NEW E, E \subseteq N \X N, NEW phase \in [N -> Phases], PhasesMoveForward(phase, E),
           NEW order, LinearExtension(N, E, order)
    PROVE  LinearExtension(N, E, NodesForPhase(phase, order, "setup") \o NodesForPhase(phase, order, "test")
                                     \o NodesForPhase(phase, order, "teardown"))
  <1> DEFINE M(p) == {m \in N : phase[m] = p}
             list(p) == NodesForPhase(phase, order, p)
  <1>1. Orderly(N, E, list("setup"), M("setup")) /\ Orderly(N, E, list("test"), M("test"))
        /\ Orderly(N, E, list("teardown"), M("teardown"))
    BY PhaseIsCut
  <1>2. ASSUME NEW x \in N, NEW y \in N, <<x, y>> \in E PROVE PhaseOrder(phase[x]) <= PhaseOrder(phase[y])
    BY <1>2 DEF PhasesMoveForward
  <1>3. PhaseOrder("setup") = 0 /\ PhaseOrder("test") = 1 /\ PhaseOrder("teardown") = 2
    BY DEF PhaseOrder
  <1>4. /\ M("setup") \intersect M("test") = {} /\ (M("setup") \union M("test")) \intersect M("teardown") = {}
        /\ (M("setup") \union M("test")) \union M("teardown") = N
    BY DEF Phases
  <1>5. ASSUME NEW x \in M("test"), NEW y \in M("setup") PROVE <<x, y>> \notin E
    <2>1. x \in N /\ y \in N /\ phase[x] = "test" /\ phase[y] = "setup"
      OBVIOUS
    <2> QED BY <1>2, <1>3, <2>1
  <1>6. ASSUME NEW x \in M("teardown"), NEW y \in M("setup") \union M("test") PROVE <<x, y>> \notin E
    <2>1. x \in N /\ y \in N /\ phase[x] = "teardown" /\ (phase[y] = "setup" \/ phase[y] = "test")
      OBVIOUS
    <2> QED BY <1>2, <1>3, <2>1
  <1> HIDE DEF M, list
  <1>7. Orderly(N, E, list("setup") \o list("test"), M("setup") \union M("test"))
    BY <1>1, <1>4, <1>5, JoinOrderly
  <1>8. Orderly(N, E, (list("setup") \o list("test")) \o list("teardown"), N)
    BY <1>1, <1>4, <1>6, <1>7, JoinOrderly
  <1>9. LinearExtension(N, E, (list("setup") \o list("test")) \o list("teardown"))
    BY <1>8, OrderlyIsLinear
  <1> QED BY <1>9 DEF list

\* A node that another one is reachable from is before it in an order of the graph.
LEMMA AncestorsAreEarlier ==
    ASSUME NEW N, NEW E, E \subseteq N \X N, NEW order, LinearExtension(N, E, order),
           NEW n \in N, NEW p \in Ancestors(N, E, n)
    PROVE  \E i, j \in DOMAIN order : i < j /\ order[i] = p /\ order[j] = n
  <1>1. p \in N /\ n \in Descendants(N, E, p)
    BY DEF Ancestors
  <1>2. PICK i \in DOMAIN order : order[i] = p
    BY <1>1 DEF LinearExtension
  <1>3. Descendants(N, E, order[i]) \subseteq {order[j] : j \in {k \in DOMAIN order : i < k}}
    BY DescendantsAreLater
  <1> QED BY <1>1, <1>2, <1>3
------------------------------------------------------------------------------
(***************************************************************************)
(* The rounds of the depth-first search.                                   *)
(***************************************************************************)
SearchStart(n) == [stack |-> <<n>>, found |-> {}]

\* The first k rounds of a search.
SearchUpTo(n, es, k, h) ==
    h[0] = SearchStart(n) /\ \A i \in 1..k : h[i] = SearchStep(es, h[i - 1])

LEMMA SearchRounds ==
    ASSUME NEW n, NEW es
    PROVE  /\ SearchStates(n, es)[0] = SearchStart(n)
           /\ \A i \in Nat : SearchStates(n, es)[i + 1] = SearchStep(es, SearchStates(n, es)[i])
  <1> DEFINE Fits(k, h) == SearchUpTo(n, es, k, h)
  <1>1. \A k \in Nat : \E h : Fits(k, h)
    <2> DEFINE S == {k \in Nat : \E h : Fits(k, h)}
    <2>1. 0 \in S
      <3>1. Fits(0, [i \in {0} |-> SearchStart(n)])
        BY DEF SearchUpTo
      <3> QED BY <3>1
    <2>2. ASSUME NEW k \in Nat, k \in S PROVE k + 1 \in S
      <3>1. PICK h : Fits(k, h)
        BY <2>2
      <3>2. Fits(k + 1, [i \in 0..k + 1 |-> IF i = k + 1 THEN SearchStep(es, h[k]) ELSE h[i]])
        BY <3>1 DEF SearchUpTo
      <3> QED BY <3>2
    <2> HIDE DEF S
    <2>3. Nat \subseteq S
      BY <2>1, <2>2, NumbersInSet
    <2> QED BY <2>3 DEF S
  <1>2. ASSUME NEW k \in Nat, NEW m \in Nat, NEW h, NEW g, Fits(k, h), Fits(m, g)
        PROVE  \A i \in Nat : i <= k /\ i <= m => h[i] = g[i]
    <2> DEFINE S == {i \in Nat : i <= k /\ i <= m => h[i] = g[i]}
    <2>1. 0 \in S
      BY <1>2 DEF SearchUpTo
    <2>2. ASSUME NEW i \in Nat, i \in S PROVE i + 1 \in S
      <3> SUFFICES ASSUME i + 1 <= k, i + 1 <= m PROVE h[i + 1] = g[i + 1]
        OBVIOUS
      <3>1. i + 1 \in 1..k /\ i + 1 \in 1..m /\ (i + 1) - 1 = i /\ h[i] = g[i]
        BY <2>2
      <3> QED BY <1>2, <3>1 DEF SearchUpTo
    <2> HIDE DEF S
    <2>3. Nat \subseteq S
      BY <2>1, <2>2, NumbersInSet
    <2> QED BY <2>3 DEF S
  <1> DEFINE at(k) == CHOOSE h : Fits(k, h)
             g == [k \in Nat |-> at(k)[k]]
             Whole(f) == f = [i \in Nat |-> IF i = 0 THEN SearchStart(n) ELSE SearchStep(es, f[i - 1])]
  <1>3. \A k \in Nat : Fits(k, at(k))
    BY <1>1
  <1>4. Whole(g)
    <2>1. ASSUME NEW k \in Nat PROVE g[k] = IF k = 0 THEN SearchStart(n) ELSE SearchStep(es, g[k - 1])
      <3>1. CASE k = 0
        BY <1>3, <3>1 DEF SearchUpTo
      <3>2. CASE k # 0
        <4>1. k - 1 \in Nat /\ k \in 1..k /\ k - 1 <= k
          BY <3>2
        <4>2. at(k)[k] = SearchStep(es, at(k)[k - 1])
          BY <1>3, <4>1 DEF SearchUpTo
        <4>3. at(k)[k - 1] = at(k - 1)[k - 1]
          <5> HIDE DEF at
          <5> QED BY <1>2, <1>3, <4>1
        <4> QED BY <3>2, <4>1, <4>2, <4>3
      <3> QED BY <3>1, <3>2
    <2> HIDE DEF at
    <2> QED BY <2>1
  <1>5. SearchStates(n, es) = CHOOSE f : Whole(f)
    BY DEF SearchStates, SearchStart
  <1>6. Whole(CHOOSE f : Whole(f))
    <2> HIDE DEF Whole, g
    <2> QED BY <1>4
  <1>7. Whole(SearchStates(n, es))
    <2> HIDE DEF Whole
    <2> QED BY <1>5, <1>6
  <1>8. PICK f : f = SearchStates(n, es)
    OBVIOUS
  <1>9. f = [i \in Nat |-> IF i = 0 THEN SearchStart(n) ELSE SearchStep(es, f[i - 1])]
    BY <1>7, <1>8
  <1>10. f[0] = SearchStart(n)
    BY <1>9
  <1>11. \A i \in Nat : f[i + 1] = SearchStep(es, f[i])
    <2> TAKE i \in Nat
    <2>1. i + 1 \in Nat /\ i + 1 # 0 /\ (i + 1) - 1 = i
      OBVIOUS
    <2>2. f[i + 1] = IF i + 1 = 0 THEN SearchStart(n) ELSE SearchStep(es, f[(i + 1) - 1])
      BY <1>9, <2>1
    <2> QED BY <2>1, <2>2
  <1> QED BY <1>8, <1>10, <1>11

(* Between two rounds: what was found is reachable from n, what is on the stack was found
   (or is n), and a node that is off the stack has all its children found. *)
SearchInv(N, es, n, s) ==
    /\ s.stack \in Seq(N) /\ s.found \subseteq Descendants(N, EdgeSet(es), n)
    /\ ElementsOf(s.stack) \subseteq s.found \union {n}
    /\ \A x \in s.found \union {n} : x \in ElementsOf(s.stack) \/ Children(EdgeSet(es), x) \subseteq s.found
    /\ s.found \subseteq {es[i][2] : i \in DOMAIN es}

\* The set of the targets is no larger than the list of the edges.
LEMMA TargetsAreFew ==
    ASSUME NEW S, NEW es \in Seq(S)
    PROVE  LET T == {es[i][2] : i \in DOMAIN es} IN IsFiniteSet(T) /\ Cardinality(T) <= Len(es)
  <1> DEFINE T == {es[i][2] : i \in DOMAIN es}
             f == [i \in 1..Len(es) |-> es[i][2]]
  <1>1. Len(es) \in Nat /\ DOMAIN es = 1..Len(es)
    OBVIOUS
  <1>2. f \in [1..Len(es) -> T] /\ \A t \in T : \E i \in 1..Len(es) : f[i] = t
    BY <1>1
  <1>3. f \in Surjection(1..Len(es), T)
    <2> HIDE DEF f, T
    <2> QED BY <1>2 DEF Surjection
  <1>4. IsFiniteSet(1..Len(es)) /\ Cardinality(1..Len(es)) = Len(es)
    BY <1>1, FS_Interval
  <1> HIDE DEF f, T
  <1>5. IsFiniteSet(T) /\ Cardinality(T) <= Cardinality(1..Len(es))
    BY <1>3, <1>4, FS_Surjection
  <1> QED BY <1>4, <1>5 DEF T

LEMMA PoppedElements ==
    ASSUME NEW S, NEW list \in Seq(S), list # <<>>, NEW out, out = SubSeq(list, 1, Len(list) - 1)
    PROVE  \A e : e \in ElementsOf(list) <=> e \in ElementsOf(out) \/ e = list[Len(list)]
  <1>1. Len(list) \in Nat /\ Len(list) > 0 /\ DOMAIN list = 1..Len(list) /\ list[Len(list)] \in S
    OBVIOUS
  <1>2. out \in Seq(S) /\ Len(out) = Len(list) - 1 /\ DOMAIN out = 1..Len(list) - 1
    BY <1>1
  <1>3. \A i \in 1..Len(list) - 1 : out[i] = list[i] /\ i \in DOMAIN list
    BY <1>1
  <1>4. \A i \in DOMAIN list : i = Len(list) \/ i \in 1..Len(list) - 1
    BY <1>1
  <1>5. ElementsOf(list) = ElementsOf(out) \union {list[Len(list)]}
    <2>1. \A i \in DOMAIN list : list[i] = list[Len(list)] \/ \E k \in DOMAIN out : out[k] = list[i]
      BY <1>2, <1>3, <1>4
    <2>2. Len(list) \in DOMAIN list
      BY <1>1
    <2>3. \A k \in DOMAIN out : k \in DOMAIN list /\ out[k] = list[k]
      BY <1>2, <1>3
    <2> QED BY <2>1, <2>2, <2>3 DEF ElementsOf
  <1> QED BY <1>5

\* A round takes one node off the stack and puts on it what it finds.
SearchCounts(s, t) == Len(t.stack) - Cardinality(t.found) = Len(s.stack) - Cardinality(s.found) - 1

LEMMA SearchAdvances ==
    ASSUME NEW N, NEW es \in Seq(N \X N), NEW n \in N, NEW s, SearchInv(N, es, n, s), s.stack # <<>>,
           NEW t, t = SearchRound(es, s)
    PROVE  SearchInv(N, es, n, t) /\ SearchCounts(s, t)
  <1> DEFINE E == EdgeSet(es)
             D == Descendants(N, E, n)
             current == s.stack[Len(s.stack)]
             rest == SubSeq(s.stack, 1, Len(s.stack) - 1)
             new == {i \in DOMAIN es : /\ es[i][1] = current /\ es[i][2] \notin s.found
                                       /\ \A j \in DOMAIN es : es[j] = es[i] => i <= j}
             fresh == {es[i][2] : i \in new}
  <1>1. t = [stack |-> rest \o Targets(es, new), found |-> s.found \union fresh]
    BY DEF SearchRound
  <1>2. /\ s.stack \in Seq(N) /\ s.found \subseteq D /\ ElementsOf(s.stack) \subseteq s.found \union {n}
        /\ \A x \in s.found \union {n} : x \in ElementsOf(s.stack) \/ Children(E, x) \subseteq s.found
        /\ s.found \subseteq {es[i][2] : i \in DOMAIN es}
    BY DEF SearchInv
  <1>3. /\ rest \in Seq(N) /\ Len(rest) = Len(s.stack) - 1 /\ current \in N
        /\ \A e : e \in ElementsOf(s.stack) <=> e \in ElementsOf(rest) \/ e = current
    <2>1. PICK list, out : list = s.stack /\ out = rest
      OBVIOUS
    <2>2. list \in Seq(N) /\ list # <<>> /\ out = SubSeq(list, 1, Len(list) - 1)
      BY <1>2, <2>1
    <2>3. Len(list) \in Nat /\ Len(list) > 0 /\ DOMAIN list = 1..Len(list) /\ list[Len(list)] \in N
      BY <2>2
    <2>4. out \in Seq(N) /\ Len(out) = Len(list) - 1
      <3>1. \A i \in 1..Len(list) - 1 : list[i] \in N
        BY <2>2, <2>3
      <3> QED BY <2>2, <2>3, <3>1
    <2>5. \A e : e \in ElementsOf(list) <=> e \in ElementsOf(out) \/ e = list[Len(list)]
      BY <2>2, PoppedElements
    <2> QED BY <2>1, <2>3, <2>4, <2>5
  <1>4. \A i \in DOMAIN es : es[i] \in N \X N /\ es[i] = <<es[i][1], es[i][2]>> /\ i \in Nat
    OBVIOUS
  <1>5. E \subseteq N \X N
    BY <1>4 DEF EdgeSet
  <1> HIDE DEF current, rest
  <1>6. \A m : m \in fresh <=> <<current, m>> \in E /\ m \notin s.found
    <2> TAKE m
    <2>1. ASSUME m \in fresh PROVE <<current, m>> \in E /\ m \notin s.found
      <3>1. PICK i \in new : es[i][2] = m
        BY <2>1
      <3> QED BY <1>4, <3>1 DEF EdgeSet
    <2>2. ASSUME <<current, m>> \in E, m \notin s.found PROVE m \in fresh
      <3>1. PICK i \in DOMAIN es : es[i] = <<current, m>>
        BY <2>2 DEF EdgeSet
      <3>2. PICK k \in DOMAIN es : es[k] = es[i] /\ \A j \in DOMAIN es : es[j] = es[i] => k <= j
        BY LastAndFirstPlace
      <3>3. es[k][1] = current /\ es[k][2] = m
        BY <3>1, <3>2
      <3>4. k \in new
        BY <2>2, <3>2, <3>3
      <3> QED BY <3>3, <3>4
    <2> QED BY <2>1, <2>2
  <1>7. /\ Targets(es, new) \in Seq(N) /\ ElementsOf(Targets(es, new)) = fresh
        /\ Distinct(Targets(es, new))
    <2>1. new \in SUBSET (DOMAIN es)
      OBVIOUS
    <2>2. ASSUME NEW i \in new, NEW j \in new, es[i][2] = es[j][2] PROVE i = j
      <3>1. es[i] = es[j] /\ i \in Nat /\ j \in Nat
        BY <1>4, <2>2
      <3>2. i <= j /\ j <= i
        BY <3>1
      <3> QED BY <3>1, <3>2
    <2> HIDE DEF new
    <2> QED BY <2>1, <2>2, TargetsFacts
  <1> HIDE DEF new
  <1>8. IsFiniteSet(fresh) /\ Cardinality(fresh) = Len(Targets(es, new)) /\ Cardinality(fresh) \in Nat
    <2>1. IsFiniteSet(ElementsOf(Targets(es, new))) /\ Cardinality(ElementsOf(Targets(es, new))) = Len(Targets(es, new))
      BY <1>7, DistinctLength
    <2> HIDE DEF fresh
    <2> QED BY <1>7, <2>1, FS_CardinalityType
  <1>9. fresh \subseteq {es[i][2] : i \in DOMAIN es}
    BY DEF new
  <1> HIDE DEF fresh
  <1>10. /\ t.found = s.found \union fresh /\ t.stack \in Seq(N) /\ Len(t.stack) = Len(rest) + Len(Targets(es, new))
         /\ \A e : e \in ElementsOf(t.stack) <=> e \in ElementsOf(rest) \/ e \in fresh
    <2>1. PICK a, b : a = rest /\ b = Targets(es, new)
      OBVIOUS
    <2>2. PICK out : out = t.stack
      OBVIOUS
    <2>3. out = a \o b /\ t.found = s.found \union fresh
      BY <1>1, <2>1, <2>2
    <2>4. a \in Seq(N) /\ b \in Seq(N)
      BY <1>3, <1>7, <2>1
    <2>5. out \in Seq(N) /\ Len(out) = Len(a) + Len(b)
      BY <2>3, <2>4
    <2>6. \A e : e \in ElementsOf(out) <=> e \in ElementsOf(a) \/ e \in ElementsOf(b)
      BY <2>3, <2>4, JoinElements
    <2> QED BY <1>7, <2>1, <2>2, <2>3, <2>5, <2>6
  <1>11. Cardinality(t.found) = Cardinality(s.found) + Cardinality(fresh) /\ Cardinality(s.found) \in Nat
    <2>1. IsFiniteSet(s.found)
      <3>1. IsFiniteSet({es[i][2] : i \in DOMAIN es})
        BY TargetsAreFew
      <3> QED BY <1>2, <3>1, FS_Subset
    <2>2. s.found \intersect fresh = {}
      BY <1>6
    <2>3. Cardinality(s.found) \in Nat /\ Cardinality({}) = 0
      BY <2>1, FS_CardinalityType, FS_EmptySet
    <2>4. Cardinality(s.found \union fresh) = Cardinality(s.found) + Cardinality(fresh) - Cardinality(s.found \intersect fresh)
      BY <1>8, <2>1, FS_Union
    <2>5. Cardinality(t.found) = Cardinality(s.found \union fresh) /\ Cardinality(s.found \intersect fresh) = 0
      BY <1>10, <2>2, <2>3
    <2> QED BY <1>8, <2>3, <2>4, <2>5
  <1>12. Len(t.stack) - Cardinality(t.found) = Len(s.stack) - Cardinality(s.found) - 1
    <2>1. Len(s.stack) \in Nat
      BY <1>2
    <2> QED BY <1>3, <1>8, <1>10, <1>11, <2>1
  <1>13. \A m : m \in Children(E, current) <=> <<current, m>> \in E
    <2>1. \A e \in E : e = <<e[1], e[2]>>
      BY <1>5
    <2> HIDE DEF E
    <2> QED BY <2>1 DEF Children
  <1>14. Children(E, current) \subseteq t.found
    BY <1>6, <1>10, <1>13
  <1>15. current \in s.found \union {n}
    BY <1>2, <1>3
  <1>16. t.found \subseteq D
    <2>1. Children(E, n) \subseteq D /\ ClosedUnder(E, D)
      BY <1>5, DescendantsClosed
    <2>2. Children(E, current) \subseteq D
      <3>1. CASE current = n
        BY <2>1, <3>1
      <3>2. CASE current # n
        <4>1. current \in D
          BY <1>2, <1>15, <3>2
        <4> HIDE DEF D
        <4> QED BY <2>1, <4>1, ChildrenOfMember
      <3> QED BY <3>1, <3>2
    <2> HIDE DEF D
    <2> QED BY <1>2, <1>6, <1>10, <1>13, <2>2
  <1>17. ElementsOf(t.stack) \subseteq t.found \union {n}
    BY <1>2, <1>3, <1>10
  <1>18. ASSUME NEW x \in t.found \union {n} PROVE x \in ElementsOf(t.stack) \/ Children(E, x) \subseteq t.found
    <2>1. CASE x \in fresh
      BY <1>10, <2>1
    <2>2. CASE x \notin fresh /\ x = current
      BY <1>14, <2>2
    <2>3. CASE x \notin fresh /\ x # current
      <3>1. x \in s.found \union {n}
        BY <1>10, <2>3
      <3> HIDE DEF E
      <3> QED BY <1>2, <1>3, <1>10, <2>3, <3>1
    <2> QED BY <2>1, <2>2, <2>3
  <1>19. t.found \subseteq {es[i][2] : i \in DOMAIN es}
    BY <1>2, <1>9, <1>10
  <1> QED BY <1>10, <1>12, <1>16, <1>17, <1>18, <1>19 DEF SearchInv, SearchCounts

\* The stack is empty after one round for the start and one for each edge at most.
LEMMA SearchEnds ==
    ASSUME NEW N, NEW es \in Seq(N \X N), NEW n \in N
    PROVE  LET s == SearchStates(n, es)[Len(es) + 1] IN SearchInv(N, es, n, s) /\ s.stack = <<>>
  <1> DEFINE at(i) == SearchStates(n, es)[i]
             Count(s, i) == s.stack = <<>> \/ Len(s.stack) - Cardinality(s.found) = 1 - i
             S == {i \in Nat : SearchInv(N, es, n, at(i)) /\ Count(at(i), i)}
  <1>1. at(0) = SearchStart(n) /\ \A i \in Nat : at(i + 1) = SearchStep(es, at(i))
    BY SearchRounds
  <1> HIDE DEF at
  <1>2. 0 \in S
    <2>1. PICK s : s = at(0)
      OBVIOUS
    <2>2. s.stack = <<n>> /\ s.found = {}
      BY <1>1, <2>1 DEF SearchStart
    <2>3. s.stack \in Seq(N) /\ Len(s.stack) = 1 /\ ElementsOf(s.stack) = {n}
      <3>1. DOMAIN <<n>> = 1..1 /\ <<n>>[1] = n /\ <<n>> \in Seq(N) /\ Len(<<n>>) = 1
        OBVIOUS
      <3> QED BY <2>2, <3>1 DEF ElementsOf
    <2>4. SearchInv(N, es, n, s)
      BY <2>2, <2>3 DEF SearchInv
    <2>5. Len(s.stack) - Cardinality(s.found) = 1 - 0
      <3>1. Cardinality({}) = 0
        BY FS_EmptySet
      <3> QED BY <2>2, <2>3, <3>1
    <2> QED BY <2>1, <2>4, <2>5
  <1>3. ASSUME NEW i \in Nat, i \in S PROVE i + 1 \in S
    <2>1. CASE at(i).stack = <<>>
      <3>1. at(i + 1) = at(i)
        BY <1>1, <2>1 DEF SearchStep
      <3> QED BY <1>3, <2>1, <3>1
    <2>2. CASE at(i).stack # <<>>
      <3>1. PICK s, t : s = at(i) /\ t = at(i + 1)
        OBVIOUS
      <3>2. t = SearchRound(es, s)
        BY <1>1, <2>2, <3>1 DEF SearchStep
      <3>3. SearchInv(N, es, n, s) /\ s.stack # <<>> /\ Len(s.stack) - Cardinality(s.found) = 1 - i
        BY <1>3, <2>2, <3>1
      <3>4. SearchInv(N, es, n, t)
        BY <3>2, <3>3, SearchAdvances
      <3>5. SearchCounts(s, t)
        BY <3>2, <3>3, SearchAdvances
      <3>6. Len(t.stack) - Cardinality(t.found) = 1 - (i + 1)
        BY <3>3, <3>5 DEF SearchCounts
      <3> QED BY <3>1, <3>4, <3>6
    <2> QED BY <2>1, <2>2
  <1>4. Nat \subseteq S
    <2> HIDE DEF S
    <2> QED BY <1>2, <1>3, NumbersInSet
  <1>5. PICK s, rounds : s = at(rounds) /\ rounds = Len(es) + 1
    OBVIOUS
  <1>6. SearchInv(N, es, n, s) /\ (s.stack = <<>> \/ Len(s.stack) - Cardinality(s.found) = 1 - rounds) /\ Len(es) \in Nat
    <2>1. rounds \in S
      BY <1>4, <1>5
    <2> QED BY <1>5, <2>1
  <1>7. ASSUME s.stack # <<>> PROVE FALSE
    <2>1. s.stack \in Seq(N) /\ s.found \subseteq {es[i][2] : i \in DOMAIN es}
      BY <1>6 DEF SearchInv
    <2>2. IsFiniteSet({es[i][2] : i \in DOMAIN es}) /\ Cardinality({es[i][2] : i \in DOMAIN es}) <= Len(es)
      BY TargetsAreFew
    <2>3. Cardinality({es[i][2] : i \in DOMAIN es}) \in Nat
      BY <2>2, FS_CardinalityType
    <2>4. Cardinality(s.found) <= Cardinality({es[i][2] : i \in DOMAIN es}) /\ IsFiniteSet(s.found)
      BY <2>1, <2>2, FS_Subset
    <2>5. Cardinality(s.found) \in Nat
      BY <2>4, FS_CardinalityType
    <2>6. Len(s.stack) > 0 /\ Len(s.stack) \in Nat
      BY <1>7, <2>1
    <2> QED BY <1>5, <1>6, <1>7, <2>2, <2>3, <2>4, <2>5, <2>6
  <1> QED BY <1>5, <1>6, <1>7 DEF at

LEMMA SearchFindsDescendants ==
    ASSUME NEW N, NEW es \in Seq(N \X N), NEW n \in N
    PROVE  GetDescendants(n, es) = Descendants(N, EdgeSet(es), n)
  <1> DEFINE E == EdgeSet(es)
  <1>1. PICK s : s = SearchStates(n, es)[Len(es) + 1]
    OBVIOUS
  <1>2. SearchInv(N, es, n, s) /\ s.stack = <<>>
    BY <1>1, SearchEnds
  <1>3. s.found \subseteq Descendants(N, E, n) /\ \A x \in s.found \union {n} : Children(E, x) \subseteq s.found
    <2>1. ElementsOf(s.stack) = {}
      BY <1>2 DEF ElementsOf
    <2> QED BY <1>2, <2>1 DEF SearchInv
  <1>4. ClosedUnder(E, s.found)
    <2> SUFFICES ASSUME NEW e \in E, e[1] \in s.found PROVE e[2] \in s.found
      BY DEF ClosedUnder
    <2>1. e[2] \in Children(E, e[1])
      BY DEF Children
    <2> QED BY <1>3, <2>1
  <1>5. s.found \in SUBSET N /\ Children(E, n) \subseteq s.found
    BY <1>3 DEF Descendants
  <1> HIDE DEF E
  <1>6. Descendants(N, E, n) \subseteq s.found
    BY <1>4, <1>5, DescendantsLeast
  <1> QED BY <1>1, <1>3, <1>6 DEF GetDescendants, E

\* Reachability along the edges read backwards.
LEMMA ReachedBackwards ==
    ASSUME NEW N, NEW E, E \subseteq N \X N, NEW R, R \subseteq N \X N,
           \A x, y \in N : <<x, y>> \in E => <<y, x>> \in R,
           NEW a \in N, NEW n \in N, n \in Descendants(N, E, a)
    PROVE  a \in Descendants(N, R, n)
  <1> DEFINE D(x) == Descendants(N, R, x)
             S == {x \in N : a \in D(x)}
  <1>1. \A x \in N : D(x) \subseteq N /\ Children(R, x) \subseteq D(x) /\ ClosedUnder(R, D(x))
    BY DescendantsClosed
  <1>2. ASSUME NEW x \in N, NEW y \in N, <<x, y>> \in E PROVE x \in D(y) /\ D(x) \subseteq D(y)
    <2>1. <<y, x>> \in R
      BY <1>2
    <2>2. x \in D(y)
      BY <1>1, <2>1 DEF Children
    <2>3. Children(R, x) \subseteq D(y)
      BY <1>1, <2>2, ChildrenOfMember
    <2> QED BY <1>1, <2>2, <2>3, DescendantsLeast
  <1> HIDE DEF D
  <1>3. Children(E, a) \subseteq S
    <2> SUFFICES ASSUME NEW e \in E, e[1] = a PROVE e[2] \in S
      BY DEF Children
    <2>1. e = <<a, e[2]>> /\ e[2] \in N
      OBVIOUS
    <2> QED BY <1>2, <2>1
  <1>4. ClosedUnder(E, S)
    <2> SUFFICES ASSUME NEW e \in E, e[1] \in S PROVE e[2] \in S
      BY DEF ClosedUnder
    <2>1. e = <<e[1], e[2]>> /\ e[1] \in N /\ e[2] \in N
      OBVIOUS
    <2> QED BY <1>2, <2>1
  <1>5. Descendants(N, E, a) \subseteq S
    <2>1. S \in SUBSET N
      OBVIOUS
    <2> HIDE DEF S
    <2> QED BY <1>3, <1>4, <2>1, DescendantsLeast
  <1> QED BY <1>5 DEF D

LEMMA SearchFindsAncestors ==
    ASSUME NEW N, NEW es \in Seq(N \X N), NEW n \in N
    PROVE  GetAncestors(n, es) = Ancestors(N, EdgeSet(es), n)
  <1> DEFINE E == EdgeSet(es)
  <1>1. PICK back : back = Backwards(es)
    OBVIOUS
  <1> DEFINE R == EdgeSet(back)
  <1>2. Len(es) \in Nat /\ DOMAIN es = 1..Len(es) /\ \A i \in DOMAIN es : es[i] \in N \X N
    OBVIOUS
  <1>3. back = [i \in 1..Len(es) |-> <<es[i][2], es[i][1]>>]
    BY <1>1, <1>2 DEF Backwards
  <1>4. back \in Seq(N \X N)
    <2>1. \A i \in 1..Len(es) : <<es[i][2], es[i][1]>> \in N \X N
      BY <1>2
    <2>2. back \in [1..Len(es) -> N \X N]
      BY <1>3, <2>1
    <2> QED BY <1>2, <2>2
  <1>5. E \subseteq N \X N /\ R \subseteq N \X N
    <2>1. \A i \in DOMAIN back : back[i] \in N \X N
      BY <1>4
    <2> QED BY <1>2, <2>1 DEF EdgeSet
  <1>6. ASSUME NEW x \in N, NEW y \in N PROVE <<x, y>> \in E <=> <<y, x>> \in R
    <2>1. \A i \in DOMAIN es : es[i] = <<x, y>> <=> back[i] = <<y, x>>
      <3>1. \A i \in DOMAIN es : es[i] = <<es[i][1], es[i][2]>>
        BY <1>2
      <3> QED BY <1>2, <1>3, <3>1
    <2>2. DOMAIN back = DOMAIN es
      BY <1>2, <1>3
    <2> QED BY <2>1, <2>2 DEF EdgeSet
  <1>7. GetAncestors(n, es) = Descendants(N, R, n)
    <2>1. GetDescendants(n, back) = Descendants(N, EdgeSet(back), n)
      BY <1>4, SearchFindsDescendants
    <2> QED BY <1>1, <2>1 DEF GetAncestors
  <1>8. ASSUME NEW a \in N PROVE a \in Descendants(N, R, n) <=> n \in Descendants(N, E, a)
    <2> HIDE DEF E, R
    <2>1. n \in Descendants(N, E, a) => a \in Descendants(N, R, n)
      BY <1>5, <1>6, ReachedBackwards
    <2>2. a \in Descendants(N, R, n) => n \in Descendants(N, E, a)
      BY <1>5, <1>6, ReachedBackwards
    <2> QED BY <2>1, <2>2
  <1>9. Descendants(N, R, n) \subseteq N
    BY DEF Descendants
  <1>10. Descendants(N, R, n) = Ancestors(N, E, n)
    <2> HIDE DEF E, R
    <2> QED BY <1>8, <1>9 DEF Ancestors
  <1> QED BY <1>7, <1>10
------------------------------------------------------------------------------
(***************************************************************************)
(* What the two validations accept.                                        *)
(***************************************************************************)
NodeList(I) == Seq([id : I, phase : Phases])

LEMMA ListedNodes ==
    ASSUME NEW I, NEW L \in NodeList(I)
    PROVE  /\ Ids(L) \in Seq(IdSet(L)) /\ Len(Ids(L)) = Len(L) /\ ElementsOf(Ids(L)) = IdSet(L)
           /\ PhaseOf(L) \in [IdSet(L) -> Phases] /\ IdSet(L) \subseteq I
           /\ ~DuplicateIds(L) => Distinct(Ids(L))
  <1>1. Len(L) \in Nat /\ DOMAIN L = 1..Len(L) /\ \A i \in DOMAIN L : L[i] \in [id : I, phase : Phases]
    <2>1. PICK R : R = [id : I, phase : Phases]
      OBVIOUS
    <2>2. L \in Seq(R)
      BY <2>1 DEF NodeList
    <2>3. Len(L) \in Nat /\ DOMAIN L = 1..Len(L) /\ \A i \in DOMAIN L : L[i] \in R
      BY <2>2
    <2> QED BY <2>1, <2>3
  <1>2. \A i \in DOMAIN L : L[i].id \in I /\ L[i].phase \in Phases
    BY <1>1
  <1>3. Ids(L) \in Seq(IdSet(L)) /\ Len(Ids(L)) = Len(L) /\ DOMAIN Ids(L) = DOMAIN L /\ \A i \in DOMAIN L : Ids(L)[i] = L[i].id
    <2>1. Ids(L) = [i \in 1..Len(L) |-> L[i].id] /\ \A i \in 1..Len(L) : L[i].id \in IdSet(L)
      BY <1>1 DEF Ids, IdSet
    <2>2. Ids(L) \in [1..Len(L) -> IdSet(L)]
      BY <2>1
    <2>3. Ids(L) \in Seq(IdSet(L))
      BY <1>1, <2>2
    <2>4. Len(Ids(L)) = Len(L)
      BY <1>1, <2>2, <2>3
    <2> QED BY <1>1, <2>1, <2>3, <2>4
  <1>4. ElementsOf(Ids(L)) = IdSet(L)
    BY <1>3 DEF ElementsOf, IdSet
  <1>5. PhaseOf(L) \in [IdSet(L) -> Phases]
    <2>1. ASSUME NEW n \in IdSet(L) PROVE L[CHOOSE i \in DOMAIN L : L[i].id = n].phase \in Phases
      <3>1. \E i \in DOMAIN L : L[i].id = n
        BY DEF IdSet
      <3>2. (CHOOSE i \in DOMAIN L : L[i].id = n) \in DOMAIN L
        BY <3>1
      <3> QED BY <1>2, <3>2
    <2> QED BY <2>1 DEF PhaseOf
  <1>6. ~DuplicateIds(L) => Distinct(Ids(L))
    BY <1>3 DEF DuplicateIds, Repeats, Distinct
  <1>7. IdSet(L) \subseteq I
    BY <1>2 DEF IdSet
  <1> QED BY <1>3, <1>4, <1>5, <1>6, <1>7

LEMMA ListedEdges ==
    ASSUME NEW I, NEW es \in Seq(I \X I), NEW L, ~DanglingEdge(L, es)
    PROVE  es \in Seq(IdSet(L) \X IdSet(L))
  <1>1. Len(es) \in Nat /\ es \in [1..Len(es) -> I \X I]
    OBVIOUS
  <1>2. ASSUME NEW i \in 1..Len(es) PROVE es[i] \in IdSet(L) \X IdSet(L)
    <2>1. es[i][1] \in IdSet(L) /\ es[i][2] \in IdSet(L)
      BY <1>1 DEF DanglingEdge, EdgeSet
    <2>2. es[i] \in I \X I
      BY <1>1
    <2> QED BY <2>1, <2>2
  <1>3. es \in [1..Len(es) -> IdSet(L) \X IdSet(L)]
    BY <1>1, <1>2
  <1> QED BY <1>1, <1>3

LEMMA EdgesAreOfNodes ==
    ASSUME NEW N, NEW es \in Seq(N \X N)
    PROVE  EdgeSet(es) \subseteq N \X N
  <1>1. \A i \in DOMAIN es : es[i] \in N \X N
    OBVIOUS
  <1> QED BY <1>1 DEF EdgeSet

(* A definition with unique ids and edges between its nodes has a cycle for detectCycle
   exactly when some node depends on itself, and otherwise a topological order. *)
LEMMA CycleFoundIsCycle ==
    ASSUME NEW I, NEW L \in NodeList(I), NEW es \in Seq(I \X I), ~DuplicateIds(L), ~DanglingEdge(L, es)
    PROVE  /\ CycleFound(L, es) <=> ~Acyclic(IdSet(L), EdgeSet(es))
           /\ ~CycleFound(L, es) => LinearExtension(IdSet(L), EdgeSet(es), BuildTopologicalOrder(Ids(L), es))
  <1>1. PICK N, ids, order : N = IdSet(L) /\ ids = Ids(L) /\ order = BuildTopologicalOrder(ids, es)
    OBVIOUS
  <1>2. ids \in Seq(N) /\ ElementsOf(ids) = N /\ Distinct(ids) /\ Len(ids) = Len(L)
    BY <1>1, ListedNodes
  <1>3. es \in Seq(N \X N)
    BY <1>1, ListedEdges
  <1>4. /\ Len(order) = Len(ids) <=> Acyclic(N, EdgeSet(es))
        /\ Len(order) = Len(ids) => LinearExtension(N, EdgeSet(es), order)
    BY <1>1, <1>2, <1>3, KahnDecides
  <1> QED BY <1>1, <1>2, <1>4 DEF CycleFound

LEMMA AcceptedMeans ==
    ASSUME NEW I, NEW L \in NodeList(I), NEW es \in Seq(I \X I), NEW ids, NEW names
    PROVE  ParseAndValidateDefinition(L, es, ids, names) = "ok" <=>
               /\ ~DuplicateIds(L) /\ ~Repeats(ids) /\ ~Repeats(names) /\ ~DanglingEdge(L, es)
               /\ PhasesMoveForward(PhaseOf(L), EdgeSet(es))
               /\ Acyclic(IdSet(L), EdgeSet(es))
  <1>1. ParseAndValidateDefinition(L, es, ids, names) = "ok" <=>
            /\ ~DuplicateIds(L) /\ ~Repeats(ids) /\ ~Repeats(names) /\ ~DanglingEdge(L, es)
            /\ PhasesMoveForward(PhaseOf(L), EdgeSet(es)) /\ ~CycleFound(L, es)
    BY DEF ParseAndValidateDefinition
  <1>2. ~DuplicateIds(L) /\ ~DanglingEdge(L, es) => (CycleFound(L, es) <=> ~Acyclic(IdSet(L), EdgeSet(es)))
    BY CycleFoundIsCycle
  <1> QED BY <1>1, <1>2

LEMMA AcceptedRunsInOrder ==
    ASSUME NEW I, NEW L \in NodeList(I), NEW es \in Seq(I \X I), NEW ids, NEW names,
           ParseAndValidateDefinition(L, es, ids, names) = "ok"
    PROVE  LinearExtension(IdSet(L), EdgeSet(es), ExecutionOrder(L, es))
  <1>1. PICK N, E, phase, order : /\ N = IdSet(L) /\ E = EdgeSet(es) /\ phase = PhaseOf(L)
                                  /\ order = BuildTopologicalOrder(Ids(L), es)
    OBVIOUS
  <1>2. ~DuplicateIds(L) /\ ~DanglingEdge(L, es) /\ PhasesMoveForward(phase, E) /\ ~CycleFound(L, es)
    BY <1>1 DEF ParseAndValidateDefinition
  <1>3. phase \in [N -> Phases]
    BY <1>1, ListedNodes
  <1>4. LinearExtension(N, E, order)
    BY <1>1, <1>2, CycleFoundIsCycle
  <1>5. E \subseteq N \X N
    <2>1. es \in Seq(N \X N)
      BY <1>1, <1>2, ListedEdges
    <2> QED BY <1>1, <2>1, EdgesAreOfNodes
  <1>6. LinearExtension(N, E, NodesForPhase(phase, order, "setup") \o NodesForPhase(phase, order, "test")
                                   \o NodesForPhase(phase, order, "teardown"))
    BY <1>2, <1>3, <1>4, <1>5, PhasesKeepOrder
  <1>7. ExecutionOrder(L, es) = NodesForPhase(phase, order, "setup") \o NodesForPhase(phase, order, "test")
                                    \o NodesForPhase(phase, order, "teardown")
    BY <1>1 DEF ExecutionOrder, NodesByPhase, Phases
  <1> QED BY <1>1, <1>6, <1>7
------------------------------------------------------------------------------
(***************************************************************************)
(* Every definition an author can send.                                    *)
(***************************************************************************)
DefinitionTypes ==
    /\ nodes \in NodeList(NodeIds) /\ edges \in Seq(NodeIds \X NodeIds)
    /\ reads \subseteq IdSet(nodes) \X IdSet(nodes)

LEMMA DefinitionIsTyped == Spec => []DefinitionTypes
  <1>1. Init => DefinitionTypes
    BY DEF Init, DefinitionTypes, NodeList
  <1>2. DefinitionTypes /\ [Next]_definitionVars => DefinitionTypes'
    <2> SUFFICES ASSUME DefinitionTypes, [Next]_definitionVars PROVE DefinitionTypes'
      OBVIOUS
    <2>1. ASSUME NEW id \in NodeIds, NEW phase \in PhaseChoices, AddNode(id, phase) PROVE DefinitionTypes'
      <3>1. [id |-> id, phase |-> phase] \in [id : NodeIds, phase : Phases]
        BY PhaseChoicesAssumption
      <3>2. nodes' \in NodeList(NodeIds)
        BY <2>1, <3>1 DEF AddNode, DefinitionTypes, NodeList
      <3>3. reads' = {} /\ edges' = edges
        BY <2>1 DEF AddNode
      <3> QED BY <3>2, <3>3 DEF DefinitionTypes
    <2>2. ASSUME NEW source \in NodeIds, NEW target \in NodeIds, NEW id, AddEdge(source, target, id) PROVE DefinitionTypes'
      <3>1. edges' \in Seq(NodeIds \X NodeIds)
        BY <2>2 DEF AddEdge, DefinitionTypes
      <3>2. nodes' = nodes /\ reads' = reads
        BY <2>2 DEF AddEdge
      <3> QED BY <3>1, <3>2 DEF DefinitionTypes
    <2>3. ASSUME NEW reader \in NodeIds, NEW producer \in NodeIds, AddRead(reader, producer) PROVE DefinitionTypes'
      <3>1. reads' \subseteq IdSet(nodes) \X IdSet(nodes) /\ nodes' = nodes /\ edges' = edges
        BY <2>3 DEF AddRead, DefinitionTypes, IdSet
      <3> QED BY <3>1 DEF DefinitionTypes
    <2>4. ASSUME NEW name, DeclareExport(name) PROVE DefinitionTypes'
      BY <2>4 DEF DeclareExport, DefinitionTypes
    <2>5. CASE UNCHANGED definitionVars
      BY <2>5 DEF definitionVars, DefinitionTypes
    <2> QED BY <2>1, <2>2, <2>3, <2>4, <2>5 DEF Next
  <1> QED BY <1>1, <1>2, PTL DEF Spec

(* parseAndValidateDefinition accepts exactly the definitions whose node ids, edge ids and
   export names are unique, with edges between nodes, no edge to an earlier phase and no cycle:
   Kahn's algorithm misses no cycle and reports none that is not there. *)
THEOREM AcceptsExactlyDagsHolds == Spec => []AcceptsExactlyDags
  <1>1. DefinitionTypes => AcceptsExactlyDags
    <2> SUFFICES ASSUME DefinitionTypes PROVE AcceptsExactlyDags
      OBVIOUS
    <2>1. nodes \in NodeList(NodeIds) /\ edges \in Seq(NodeIds \X NodeIds)
      BY DEF DefinitionTypes
    <2>2. Verdict = "ok" <=>
              /\ ~DuplicateIds(nodes) /\ ~Repeats(edgeIds) /\ ~Repeats(exports) /\ ~DanglingEdge(nodes, edges)
              /\ PhasesMoveForward(PhaseOf(nodes), EdgeSet(edges))
              /\ Acyclic(IdSet(nodes), EdgeSet(edges))
      BY <2>1, AcceptedMeans DEF Verdict
    <2> QED BY <2>2 DEF AcceptsExactlyDags, Acyclic
  <1> QED BY <1>1, DefinitionIsTyped, PTL

(* Cutting the topological order of an accepted definition into its setup, test and teardown
   nodes, as executeRun does, keeps every dependency in order. *)
THEOREM PhasedOrderIsTopologicalHolds == Spec => []PhasedOrderIsTopological
  <1>1. DefinitionTypes => PhasedOrderIsTopological
    BY AcceptedRunsInOrder DEF DefinitionTypes, PhasedOrderIsTopological, Verdict
  <1> QED BY <1>1, DefinitionIsTyped, PTL

(* getDescendants and getAncestors return exactly the nodes reachable from a node, and those it
   is reachable from, on every graph whose edges lie between its nodes. *)
THEOREM SearchesAreReachabilityHolds == Spec => []SearchesAreReachability
  <1>1. DefinitionTypes => SearchesAreReachability
    <2> SUFFICES ASSUME DefinitionTypes, ~DanglingEdge(nodes, edges), NEW n \in IdSet(nodes)
                 PROVE  /\ GetDescendants(n, edges) = Descendants(IdSet(nodes), EdgeSet(edges), n)
                        /\ GetAncestors(n, edges) = Ancestors(IdSet(nodes), EdgeSet(edges), n)
      BY DEF SearchesAreReachability
    <2>1. edges \in Seq(IdSet(nodes) \X IdSet(nodes))
      BY ListedEdges DEF DefinitionTypes
    <2> QED BY <2>1, SearchFindsDescendants, SearchFindsAncestors
  <1> QED BY <1>1, DefinitionIsTyped, PTL

\* What validateDefinitionForRun accepts reads only from ancestors.
LEMMA AcceptedReads ==
    ASSUME DefinitionTypes, Verdict = "ok",
           ValidateDefinitionForRun(edges, reads) = "ok", NEW r \in reads
    PROVE  r[1] \in IdSet(nodes) /\ r[2] \in Ancestors(IdSet(nodes), EdgeSet(edges), r[1])
  <1>1. r[1] \in IdSet(nodes)
    BY DEF DefinitionTypes
  <1>2. r[2] \in GetAncestors(r[1], edges)
    BY DEF ValidateDefinitionForRun
  <1>3. ~DanglingEdge(nodes, edges)
    BY DEF Verdict, ParseAndValidateDefinition
  <1>4. edges \in Seq(IdSet(nodes) \X IdSet(nodes))
    BY <1>3, ListedEdges DEF DefinitionTypes
  <1>5. GetAncestors(r[1], edges) = Ancestors(IdSet(nodes), EdgeSet(edges), r[1])
    BY <1>1, <1>4, SearchFindsAncestors
  <1> QED BY <1>1, <1>2, <1>5

(* In a definition accepted for a run the node that exports a variable is executed before
   every node whose template reads it. *)
THEOREM ProducersRunFirstHolds == Spec => []ProducersRunFirst
  <1>1. DefinitionTypes => ProducersRunFirst
    <2> SUFFICES ASSUME DefinitionTypes, Verdict = "ok",
                        ValidateDefinitionForRun(edges, reads) = "ok", NEW r \in reads
                 PROVE  LET order == ExecutionOrder(nodes, edges)
                        IN \E i, j \in DOMAIN order : i < j /\ order[i] = r[2] /\ order[j] = r[1]
      BY DEF ProducersRunFirst
    <2>1. PICK N, E, order : N = IdSet(nodes) /\ E = EdgeSet(edges) /\ order = ExecutionOrder(nodes, edges)
      OBVIOUS
    <2>2. r[1] \in N /\ r[2] \in Ancestors(N, E, r[1])
      BY <2>1, AcceptedReads
    <2>3. LinearExtension(N, E, order)
      BY <2>1, AcceptedRunsInOrder DEF DefinitionTypes, Verdict
    <2>4. E \subseteq N \X N
      <3>1. ~DanglingEdge(nodes, edges)
        BY DEF Verdict, ParseAndValidateDefinition
      <3>2. edges \in Seq(N \X N)
        BY <2>1, <3>1, ListedEdges DEF DefinitionTypes
      <3> QED BY <2>1, <3>2, EdgesAreOfNodes
    <2>5. \E i, j \in DOMAIN order : i < j /\ order[i] = r[2] /\ order[j] = r[1]
      BY <2>2, <2>3, <2>4, AncestorsAreEarlier
    <2> QED BY <2>1, <2>5
  <1> QED BY <1>1, DefinitionIsTyped, PTL

\* The plan executeRun makes of a definition.
Plan == [phase   |-> PhaseOf(nodes),
         edges   |-> EdgeSet(edges),
         byPhase |-> NodesByPhase(nodes, edges),
         reads   |-> [n \in IdSet(nodes) |-> {r[2] : r \in {q \in reads : q[1] = n}}]]

AcceptedPlansAreDefinitions ==
    Verdict = "ok" /\ ValidateDefinitionForRun(edges, reads) = "ok" =>
        IsDefinition(IdSet(nodes), Plan)

(* What both validations accept is a definition as the model of a run assumes it
   (DefinitionsAssumption): the theorems about runs start from nothing that the
   validation does not establish. *)
THEOREM AcceptedPlansAreDefinitionsHolds == Spec => []AcceptedPlansAreDefinitions
  <1>1. DefinitionTypes => AcceptedPlansAreDefinitions
    <2> SUFFICES ASSUME DefinitionTypes, Verdict = "ok",
                        ValidateDefinitionForRun(edges, reads) = "ok"
                 PROVE  IsDefinition(IdSet(nodes), Plan)
      BY DEF AcceptedPlansAreDefinitions
    <2>1. PICK N, E, phase, byPhase, from, order :
              /\ N = IdSet(nodes) /\ E = EdgeSet(edges) /\ phase = PhaseOf(nodes) /\ byPhase = NodesByPhase(nodes, edges)
              /\ from = [n \in N |-> {r[2] : r \in {q \in reads : q[1] = n}}]
              /\ order = BuildTopologicalOrder(Ids(nodes), edges)
      OBVIOUS
    <2>2. Plan = [phase |-> phase, edges |-> E, byPhase |-> byPhase, reads |-> from]
      BY <2>1 DEF Plan
    <2>3. ~DuplicateIds(nodes) /\ ~DanglingEdge(nodes, edges) /\ PhasesMoveForward(phase, E) /\ ~CycleFound(nodes, edges)
      BY <2>1 DEF Verdict, ParseAndValidateDefinition
    <2>4. phase \in [N -> Phases]
      BY <2>1, ListedNodes DEF DefinitionTypes
    <2>5. E \subseteq N \X N
      <3>1. edges \in Seq(N \X N)
        BY <2>1, <2>3, ListedEdges DEF DefinitionTypes
      <3> QED BY <2>1, <3>1, EdgesAreOfNodes
    <2>6. LinearExtension(N, E, order)
      BY <2>1, <2>3, CycleFoundIsCycle DEF DefinitionTypes
    <2>7. byPhase = [p \in Phases |-> NodesForPhase(phase, order, p)]
      BY <2>1 DEF NodesByPhase
    <2>8. \A p \in Phases : Orderly(N, E, byPhase[p], {m \in N : phase[m] = p})
      BY <2>6, <2>7, PhaseIsCut
    <2>9. byPhase \in [Phases -> Seq(N)]
      <3>1. \A p \in Phases : byPhase[p] \in Seq(N)
        BY <2>8 DEF Orderly
      <3> QED BY <2>7, <3>1
    <2>10. ASSUME NEW p \in Phases, NEW i \in 1..Len(byPhase[p]) PROVE phase[byPhase[p][i]] = p
      <3>1. byPhase[p] \in Seq(N) /\ ElementsOf(byPhase[p]) = {m \in N : phase[m] = p}
        BY <2>8 DEF Orderly
      <3>2. byPhase[p][i] \in ElementsOf(byPhase[p])
        BY <3>1 DEF ElementsOf
      <3> QED BY <3>1, <3>2
    <2>11. LinearExtension(N, E, byPhase["setup"] \o byPhase["test"] \o byPhase["teardown"])
      <3>1. LinearExtension(N, E, ExecutionOrder(nodes, edges))
        BY <2>1, AcceptedRunsInOrder DEF DefinitionTypes, Verdict
      <3> QED BY <2>1, <3>1 DEF ExecutionOrder
    <2>12. ASSUME NEW n \in N PROVE from[n] \subseteq Ancestors(N, E, n)
      <3>1. ASSUME NEW r \in reads, r[1] = n PROVE r[2] \in Ancestors(N, E, n)
        BY <2>1, <3>1, AcceptedReads
      <3> QED BY <2>1, <3>1
    <2>13. from \in [N -> SUBSET N]
      <3>1. \A n \in N : from[n] \subseteq N
        BY <2>12 DEF Ancestors
      <3> QED BY <2>1, <3>1
    <2> QED BY <2>1, <2>2, <2>3, <2>4, <2>5, <2>9, <2>10, <2>11, <2>12, <2>13 DEF IsDefinition
  <1> QED BY <1>1, DefinitionIsTyped, PTL
------------------------------------------------------------------------------
(***************************************************************************)
(* The canvas.                                                             *)
(***************************************************************************)
UniqueIds(list) == \A i, j \in DOMAIN list : list[i].id = list[j].id => i = j

\* An edge does not lead to a node of an earlier phase.
MovesForward(list, es) ==
    \A e \in es : \A i, j \in DOMAIN list :
        list[i].id = e[1] /\ list[j].id = e[2] => PhaseOrder(list[i].phase) <= PhaseOrder(list[j].phase)

DrawnNode == [id : CanvasIds, phase : Phases]
Drawing(list, es, chosen) ==
    /\ list \in Seq(DrawnNode) /\ UniqueIds(list)
    /\ es \subseteq IdSet(list) \X IdSet(list) /\ Acyclic(IdSet(list), es)
    /\ chosen \in IdSet(list) \union {NotSelected}

CanvasInv ==
    /\ Drawing(drawnNodes, EdgeSet(drawnEdges), selected) /\ drawnEdges \in Seq(CanvasIds \X CanvasIds)
    /\ rephased \in BOOLEAN
    /\ ~rephased => MovesForward(drawnNodes, EdgeSet(drawnEdges))
\* The nodes and edges that are kept of a drawing are a drawing.
LEMMA DrawingKept ==
    ASSUME NEW list, NEW es, NEW chosen, Drawing(list, es, chosen), NEW K \in SUBSET (DOMAIN list),
           NEW out, out = Filter(list, K), NEW fewer, fewer \subseteq es,
           \A e \in fewer : e[1] \in {list[i].id : i \in K} /\ e[2] \in {list[i].id : i \in K}
    PROVE  Drawing(out, fewer, NotSelected) /\ (MovesForward(list, es) => MovesForward(out, fewer))
  <1>1. list \in Seq(DrawnNode) /\ UniqueIds(list) /\ es \subseteq IdSet(list) \X IdSet(list) /\ Acyclic(IdSet(list), es)
    BY DEF Drawing
  <1>2. /\ out \in Seq(DrawnNode) /\ ElementsOf(out) = {list[i] : i \in K}
        /\ \A k, l \in DOMAIN out : \E i, j \in K : out[k] = list[i] /\ out[l] = list[j] /\ (i = j => k = l)
    <2>1. out \in Seq(DrawnNode) /\ ElementsOf(out) = {list[i] : i \in K}
      BY <1>1, FilterFacts
    <2>2. \A k, l \in DOMAIN out : \E i, j \in K :
              out[k] = list[i] /\ out[l] = list[j] /\ (i = j => k = l) /\ (i < j => k < l)
      BY <1>1, FilterOrder
    <2> QED BY <2>1, <2>2
  <1>3. IdSet(out) = {list[i].id : i \in K}
    <2>1. IdSet(out) = {x.id : x \in ElementsOf(out)}
      BY DEF IdSet, ElementsOf
    <2> QED BY <1>2, <2>1
  <1>4. UniqueIds(out)
    BY <1>1, <1>2 DEF UniqueIds
  <1>5. fewer \subseteq IdSet(out) \X IdSet(out)
    <2> SUFFICES ASSUME NEW e \in fewer PROVE e \in IdSet(out) \X IdSet(out)
      OBVIOUS
    <2>1. e = <<e[1], e[2]>>
      BY <1>1
    <2> QED BY <1>3, <2>1
  <1>6. Acyclic(IdSet(out), fewer)
    BY <1>1, <1>5, FewerEdges
  <1>7. ASSUME MovesForward(list, es) PROVE MovesForward(out, fewer)
    BY <1>2, <1>7 DEF MovesForward
  <1> QED BY <1>2, <1>4, <1>5, <1>6, <1>7 DEF Drawing
------------------------------------------------------------------------------
LEMMA OnDropKeeps ==
    ASSUME CanvasInv, NEW id \in CanvasIds, OnDrop(id)
    PROVE  CanvasInv'
  <1>1. PICK node : node = [id |-> id, phase |-> "test"]
    OBVIOUS
  <1>2. id \notin IdSet(drawnNodes) /\ drawnNodes' = Append(drawnNodes, node) /\ UNCHANGED <<drawnEdges, selected, rephased>>
    BY <1>1 DEF OnDrop, DrawnIds
  <1>3. node \in DrawnNode /\ node.id = id
    BY <1>1 DEF DrawnNode, Phases
  <1>4. drawnNodes \in Seq(DrawnNode) /\ UniqueIds(drawnNodes)
        /\ EdgeSet(drawnEdges) \subseteq IdSet(drawnNodes) \X IdSet(drawnNodes)
        /\ Acyclic(IdSet(drawnNodes), EdgeSet(drawnEdges)) /\ selected \in IdSet(drawnNodes) \union {NotSelected}
    BY DEF CanvasInv, Drawing
  <1> DEFINE last == Len(drawnNodes) + 1
  <1>5. /\ drawnNodes' \in Seq(DrawnNode) /\ DOMAIN drawnNodes' = DOMAIN drawnNodes \union {last}
        /\ drawnNodes'[last] = node /\ \A i \in DOMAIN drawnNodes : drawnNodes'[i] = drawnNodes[i]
    BY <1>2, <1>3, <1>4
  <1>6. IdSet(drawnNodes') = IdSet(drawnNodes) \union {id}
    BY <1>3, <1>5 DEF IdSet
  <1>7. UniqueIds(drawnNodes')
    BY <1>2, <1>3, <1>4, <1>5 DEF UniqueIds, IdSet
  <1>8. EdgeSet(drawnEdges) \subseteq IdSet(drawnNodes') \X IdSet(drawnNodes')
    BY <1>4, <1>6
  <1>9. Acyclic(IdSet(drawnNodes'), EdgeSet(drawnEdges))
    BY <1>4, <1>8, FewerEdges
  <1>10. ASSUME MovesForward(drawnNodes, EdgeSet(drawnEdges)) PROVE MovesForward(drawnNodes', EdgeSet(drawnEdges))
    <2> SUFFICES ASSUME NEW e \in EdgeSet(drawnEdges), NEW i \in DOMAIN drawnNodes', NEW j \in DOMAIN drawnNodes',
                        drawnNodes'[i].id = e[1], drawnNodes'[j].id = e[2]
                 PROVE  PhaseOrder(drawnNodes'[i].phase) <= PhaseOrder(drawnNodes'[j].phase)
      BY DEF MovesForward
    <2>1. e[1] # id /\ e[2] # id
      BY <1>2, <1>4
    <2>2. i \in DOMAIN drawnNodes /\ j \in DOMAIN drawnNodes
      BY <1>3, <1>5, <2>1
    <2> QED BY <1>5, <1>10, <2>2 DEF MovesForward
  <1>11. Drawing(drawnNodes', EdgeSet(drawnEdges), selected)
    BY <1>4, <1>5, <1>6, <1>7, <1>8, <1>9 DEF Drawing
  <1> QED BY <1>2, <1>10, <1>11 DEF CanvasInv, EdgeSet

\* With unique ids, the phase of a node is that of its one position.
LEMMA PhaseOfPosition ==
    ASSUME UniqueIds(drawnNodes), NEW i \in DOMAIN drawnNodes
    PROVE  DrawnPhase(drawnNodes[i].id) = drawnNodes[i].phase
  BY DEF UniqueIds, DrawnPhase

LEMMA PhaseOrderNat == \A p \in Phases : PhaseOrder(p) \in Nat
  BY DEF Phases, PhaseOrder

LEMMA OnConnectKeeps ==
    ASSUME CanvasInv, NEW source, NEW target, OnConnect(source, target)
    PROVE  CanvasInv'
  <1>1. /\ ~HasCycle(source, target) /\ ~GetPhaseConnectionError(source, target)
        /\ drawnEdges' = Append(drawnEdges, <<source, target>>) /\ UNCHANGED <<drawnNodes, selected, rephased>>
    BY DEF OnConnect
  <1>2. /\ drawnNodes \in Seq(DrawnNode) /\ UniqueIds(drawnNodes) /\ drawnEdges \in Seq(CanvasIds \X CanvasIds)
        /\ EdgeSet(drawnEdges) \subseteq IdSet(drawnNodes) \X IdSet(drawnNodes)
        /\ Acyclic(IdSet(drawnNodes), EdgeSet(drawnEdges)) /\ selected \in IdSet(drawnNodes) \union {NotSelected}
    BY DEF CanvasInv, Drawing
  <1>3. source \in IdSet(drawnNodes) /\ target \in IdSet(drawnNodes)
    BY <1>1 DEF GetPhaseConnectionError, DrawnIds
  <1>4. source # target /\ source \notin Descendants(IdSet(drawnNodes), EdgeSet(drawnEdges), target)
    BY <1>1 DEF HasCycle, DrawnIds, DrawnEdgeSet
  <1>5. IdSet(drawnNodes) \subseteq CanvasIds
    <2>1. \A i \in DOMAIN drawnNodes : drawnNodes[i] \in DrawnNode
      BY <1>2
    <2> QED BY <2>1 DEF IdSet, DrawnNode
  <1>6. drawnEdges' \in Seq(CanvasIds \X CanvasIds) /\ EdgeSet(drawnEdges') = EdgeSet(drawnEdges) \union {<<source, target>>}
    <2>1. <<source, target>> \in CanvasIds \X CanvasIds
      BY <1>3, <1>5
    <2>2. PICK edge : edge = <<source, target>>
      OBVIOUS
    <2> DEFINE last == Len(drawnEdges) + 1
    <2>3. /\ drawnEdges' \in Seq(CanvasIds \X CanvasIds) /\ DOMAIN drawnEdges' = DOMAIN drawnEdges \union {last}
          /\ drawnEdges'[last] = edge /\ \A i \in DOMAIN drawnEdges : drawnEdges'[i] = drawnEdges[i]
      BY <1>1, <1>2, <2>1, <2>2
    <2>4. EdgeSet(drawnEdges') = EdgeSet(drawnEdges) \union {edge}
      BY <2>3 DEF EdgeSet
    <2> QED BY <2>2, <2>3, <2>4
  <1>7. Acyclic(IdSet(drawnNodes), EdgeSet(drawnEdges'))
    BY <1>2, <1>3, <1>4, <1>6, EdgeAdded
  <1>8. EdgeSet(drawnEdges') \subseteq IdSet(drawnNodes) \X IdSet(drawnNodes)
    BY <1>2, <1>3, <1>6
  <1>9. ASSUME MovesForward(drawnNodes, EdgeSet(drawnEdges)) PROVE MovesForward(drawnNodes, EdgeSet(drawnEdges'))
    <2> SUFFICES ASSUME NEW e \in EdgeSet(drawnEdges'), NEW i \in DOMAIN drawnNodes, NEW j \in DOMAIN drawnNodes,
                        drawnNodes[i].id = e[1], drawnNodes[j].id = e[2]
                 PROVE  PhaseOrder(drawnNodes[i].phase) <= PhaseOrder(drawnNodes[j].phase)
      BY DEF MovesForward
    <2>1. CASE e \in EdgeSet(drawnEdges)
      BY <1>9, <2>1 DEF MovesForward
    <2>2. CASE e = <<source, target>>
      <3>1. DrawnPhase(source) = drawnNodes[i].phase /\ DrawnPhase(target) = drawnNodes[j].phase
        <4>1. drawnNodes[i].id = source /\ drawnNodes[j].id = target
          BY <2>2
        <4>2. DrawnPhase(drawnNodes[i].id) = drawnNodes[i].phase /\ DrawnPhase(drawnNodes[j].id) = drawnNodes[j].phase
          BY <1>2, PhaseOfPosition
        <4> QED BY <4>1, <4>2
      <3>2. ~(PhaseOrder(drawnNodes[i].phase) > PhaseOrder(drawnNodes[j].phase))
        BY <1>1, <3>1 DEF GetPhaseConnectionError
      <3>3. drawnNodes[i].phase \in Phases /\ drawnNodes[j].phase \in Phases
        <4>1. drawnNodes[i] \in DrawnNode /\ drawnNodes[j] \in DrawnNode
          BY <1>2
        <4> QED BY <4>1 DEF DrawnNode
      <3>4. PhaseOrder(drawnNodes[i].phase) \in Nat /\ PhaseOrder(drawnNodes[j].phase) \in Nat
        BY <3>3, PhaseOrderNat
      <3> QED BY <3>2, <3>4
    <2> QED BY <1>6, <2>1, <2>2
  <1>10. Drawing(drawnNodes, EdgeSet(drawnEdges'), selected)
    BY <1>2, <1>7, <1>8 DEF Drawing
  <1> QED BY <1>1, <1>6, <1>9, <1>10 DEF CanvasInv, EdgeSet
LEMMA OnEdgesDeleteKeeps ==
    ASSUME CanvasInv, NEW i \in DOMAIN drawnEdges, OnEdgesDelete(i)
    PROVE  CanvasInv'
  <1>1. /\ drawnNodes \in Seq(DrawnNode) /\ UniqueIds(drawnNodes) /\ drawnEdges \in Seq(CanvasIds \X CanvasIds)
        /\ EdgeSet(drawnEdges) \subseteq IdSet(drawnNodes) \X IdSet(drawnNodes)
        /\ Acyclic(IdSet(drawnNodes), EdgeSet(drawnEdges)) /\ selected \in IdSet(drawnNodes) \union {NotSelected}
    BY DEF CanvasInv, Drawing
  <1>2. PICK K \in SUBSET (DOMAIN drawnEdges) :
            drawnEdges' = Filter(drawnEdges, K) /\ UNCHANGED <<drawnNodes, selected, rephased>>
    BY DEF OnEdgesDelete
  <1>3. drawnEdges' \in Seq(CanvasIds \X CanvasIds) /\ EdgeSet(drawnEdges') = {drawnEdges[k] : k \in K}
    <2>1. drawnEdges' \in Seq(CanvasIds \X CanvasIds) /\ ElementsOf(drawnEdges') = {drawnEdges[k] : k \in K}
      BY <1>1, <1>2, FilterFacts
    <2> QED BY <2>1 DEF ElementsOf, EdgeSet
  <1>4. EdgeSet(drawnEdges') \subseteq EdgeSet(drawnEdges)
    BY <1>3 DEF EdgeSet
  <1>5. EdgeSet(drawnEdges') \subseteq IdSet(drawnNodes) \X IdSet(drawnNodes)
    BY <1>1, <1>4
  <1>6. Acyclic(IdSet(drawnNodes), EdgeSet(drawnEdges'))
    BY <1>1, <1>4, <1>5, FewerEdges
  <1>7. MovesForward(drawnNodes, EdgeSet(drawnEdges)) => MovesForward(drawnNodes, EdgeSet(drawnEdges'))
    BY <1>4 DEF MovesForward
  <1>8. Drawing(drawnNodes, EdgeSet(drawnEdges'), selected)
    BY <1>1, <1>5, <1>6 DEF Drawing
  <1> QED BY <1>2, <1>3, <1>7, <1>8 DEF CanvasInv, EdgeSet

LEMMA DeleteNodeKeeps ==
    ASSUME CanvasInv, DeleteNode
    PROVE  CanvasInv'
  <1> DEFINE K == {i \in DOMAIN drawnNodes : drawnNodes[i].id # selected}
             L == {i \in DOMAIN drawnEdges : selected \notin {drawnEdges[i][1], drawnEdges[i][2]}}
  <1>1. /\ drawnNodes \in Seq(DrawnNode) /\ drawnEdges \in Seq(CanvasIds \X CanvasIds)
        /\ EdgeSet(drawnEdges) \subseteq IdSet(drawnNodes) \X IdSet(drawnNodes)
        /\ Drawing(drawnNodes, EdgeSet(drawnEdges), selected)
    BY DEF CanvasInv, Drawing
  <1>2. drawnNodes' = Filter(drawnNodes, K) /\ drawnEdges' = Filter(drawnEdges, L) /\ selected' = NotSelected /\ rephased' = rephased
    BY DEF DeleteNode
  <1>3. K \in SUBSET (DOMAIN drawnNodes) /\ L \in SUBSET (DOMAIN drawnEdges)
    OBVIOUS
  <1>4. drawnEdges' \in Seq(CanvasIds \X CanvasIds) /\ EdgeSet(drawnEdges') = {drawnEdges[k] : k \in L}
    <2> HIDE DEF L
    <2>1. drawnEdges' \in Seq(CanvasIds \X CanvasIds) /\ ElementsOf(drawnEdges') = {drawnEdges[k] : k \in L}
      BY <1>1, <1>2, <1>3, FilterFacts
    <2> QED BY <2>1 DEF ElementsOf, EdgeSet
  <1>5. EdgeSet(drawnEdges') \subseteq EdgeSet(drawnEdges)
    BY <1>3, <1>4 DEF EdgeSet
  <1>6. ASSUME NEW e \in EdgeSet(drawnEdges')
        PROVE  e[1] \in {drawnNodes[k].id : k \in K} /\ e[2] \in {drawnNodes[k].id : k \in K}
    <2>1. e[1] # selected /\ e[2] # selected
      BY <1>4
    <2>2. e[1] \in IdSet(drawnNodes) /\ e[2] \in IdSet(drawnNodes)
      BY <1>1, <1>5, <1>6
    <2> QED BY <2>1, <2>2 DEF IdSet
  <1>7. /\ Drawing(drawnNodes', EdgeSet(drawnEdges'), NotSelected)
        /\ MovesForward(drawnNodes, EdgeSet(drawnEdges)) => MovesForward(drawnNodes', EdgeSet(drawnEdges'))
    <2> HIDE DEF K
    <2> QED BY <1>1, <1>2, <1>3, <1>5, <1>6, DrawingKept
  <1>8. Drawing(drawnNodes', EdgeSet(drawnEdges'), selected')
    BY <1>2, <1>7
  <1> QED BY <1>2, <1>4, <1>7, <1>8 DEF CanvasInv, EdgeSet

LEMMA UpdateNodePhaseKeeps ==
    ASSUME CanvasInv, NEW phase \in Phases, UpdateNodePhase(phase)
    PROVE  CanvasInv'
  <1>1. /\ drawnNodes \in Seq(DrawnNode) /\ UniqueIds(drawnNodes)
        /\ EdgeSet(drawnEdges) \subseteq IdSet(drawnNodes) \X IdSet(drawnNodes)
        /\ Acyclic(IdSet(drawnNodes), EdgeSet(drawnEdges)) /\ selected \in IdSet(drawnNodes) \union {NotSelected}
    BY DEF CanvasInv, Drawing
  <1>2. /\ drawnNodes' = [i \in DOMAIN drawnNodes |->
                             IF drawnNodes[i].id = selected THEN [drawnNodes[i] EXCEPT !.phase = phase] ELSE drawnNodes[i]]
        /\ rephased' = TRUE /\ UNCHANGED <<drawnEdges, selected>>
    BY DEF UpdateNodePhase
  <1>3. ASSUME NEW i \in DOMAIN drawnNodes PROVE drawnNodes'[i] \in DrawnNode /\ drawnNodes'[i].id = drawnNodes[i].id
    <2>1. drawnNodes[i] \in DrawnNode
      BY <1>1
    <2>2. [drawnNodes[i] EXCEPT !.phase = phase] \in DrawnNode
          /\ [drawnNodes[i] EXCEPT !.phase = phase].id = drawnNodes[i].id
      BY <2>1 DEF DrawnNode
    <2> QED BY <1>2, <2>1, <2>2
  <1>4. DOMAIN drawnNodes' = DOMAIN drawnNodes
    BY <1>2
  <1>5. drawnNodes' \in Seq(DrawnNode)
    <2>1. DOMAIN drawnNodes = 1..Len(drawnNodes) /\ Len(drawnNodes) \in Nat
      BY <1>1
    <2>2. drawnNodes' = [i \in 1..Len(drawnNodes) |-> drawnNodes'[i]]
      BY <1>2, <2>1
    <2>3. \A i \in 1..Len(drawnNodes) : drawnNodes'[i] \in DrawnNode
      BY <1>3, <2>1
    <2> QED BY <2>1, <2>2, <2>3
  <1>6. IdSet(drawnNodes') = IdSet(drawnNodes)
    BY <1>3, <1>4 DEF IdSet
  <1>7. UniqueIds(drawnNodes')
    BY <1>1, <1>3, <1>4 DEF UniqueIds
  <1>8. Drawing(drawnNodes', EdgeSet(drawnEdges), selected)
    BY <1>1, <1>5, <1>6, <1>7 DEF Drawing
  <1> QED BY <1>2, <1>8 DEF CanvasInv, EdgeSet
------------------------------------------------------------------------------
\* What the validation's rules say, in the words of the drawing.
LEMMA RulesOfDrawing ==
    ASSUME drawnNodes \in Seq(DrawnNode), UniqueIds(drawnNodes),
           EdgeSet(drawnEdges) \subseteq IdSet(drawnNodes) \X IdSet(drawnNodes)
    PROVE  /\ ~DuplicateIds(drawnNodes) /\ ~DanglingEdge(drawnNodes, drawnEdges)
           /\ PhasesMoveForward(PhaseOf(drawnNodes), DrawnEdgeSet) <=> MovesForward(drawnNodes, DrawnEdgeSet)
  <1> DEFINE phase == PhaseOf(drawnNodes)
  <1>1. \A i \in DOMAIN drawnNodes : phase[drawnNodes[i].id] = drawnNodes[i].phase
    BY DEF PhaseOf, IdSet, UniqueIds
  <1>2. ~DuplicateIds(drawnNodes)
    BY DEF DuplicateIds, Repeats, Ids, UniqueIds
  <1>3. ~DanglingEdge(drawnNodes, drawnEdges)
    BY DEF DanglingEdge
  <1>4. \A e \in EdgeSet(drawnEdges) : \E i, j \in DOMAIN drawnNodes : drawnNodes[i].id = e[1] /\ drawnNodes[j].id = e[2]
    BY DEF IdSet
  <1> HIDE DEF phase
  <1>5. ASSUME NEW e \in EdgeSet(drawnEdges), NEW i \in DOMAIN drawnNodes, NEW j \in DOMAIN drawnNodes,
               drawnNodes[i].id = e[1], drawnNodes[j].id = e[2]
        PROVE  phase[e[1]] = drawnNodes[i].phase /\ phase[e[2]] = drawnNodes[j].phase
    BY <1>1, <1>5
  <1>6. ASSUME MovesForward(drawnNodes, EdgeSet(drawnEdges)), NEW e \in EdgeSet(drawnEdges)
        PROVE  PhaseOrder(phase[e[1]]) <= PhaseOrder(phase[e[2]])
    <2>1. PICK i \in DOMAIN drawnNodes, j \in DOMAIN drawnNodes : drawnNodes[i].id = e[1] /\ drawnNodes[j].id = e[2]
      BY <1>4
    <2>2. PhaseOrder(drawnNodes[i].phase) <= PhaseOrder(drawnNodes[j].phase)
      BY <1>6, <2>1 DEF MovesForward
    <2> QED BY <1>5, <2>1, <2>2
  <1>7. ASSUME \A e \in EdgeSet(drawnEdges) : PhaseOrder(phase[e[1]]) <= PhaseOrder(phase[e[2]])
        PROVE  MovesForward(drawnNodes, EdgeSet(drawnEdges))
    BY <1>5, <1>7 DEF MovesForward
  <1> QED BY <1>2, <1>3, <1>6, <1>7 DEF phase, PhasesMoveForward, DrawnEdgeSet

LEMMA CanvasSavedKeeps ==
    ASSUME CanvasInv, Saved
    PROVE  CanvasInv'
  <1>1. /\ drawnNodes \in Seq(DrawnNode) /\ UniqueIds(drawnNodes)
        /\ EdgeSet(drawnEdges) \subseteq IdSet(drawnNodes) \X IdSet(drawnNodes)
    BY DEF CanvasInv, Drawing
  <1>2. ServerVerdict = "ok" /\ rephased' = FALSE /\ selected' = NotSelected
        /\ UNCHANGED <<drawnNodes, drawnEdges>>
    BY DEF Saved
  <1>3. PhasesMoveForward(PhaseOf(drawnNodes), DrawnEdgeSet)
    BY <1>2 DEF ServerVerdict, ParseAndValidateDefinition, DrawnEdgeSet
  <1>4. MovesForward(drawnNodes, EdgeSet(drawnEdges))
    BY <1>1, <1>3, RulesOfDrawing DEF DrawnEdgeSet
  <1>5. Drawing(drawnNodes, EdgeSet(drawnEdges), NotSelected)
    BY DEF CanvasInv, Drawing
  <1> QED BY <1>2, <1>4, <1>5 DEF CanvasInv, EdgeSet
LEMMA CanvasInitHolds ==
    ASSUME CanvasInit
    PROVE  CanvasInv
  <1>1. drawnNodes = <<>> /\ drawnEdges = <<>> /\ selected = NotSelected /\ rephased = FALSE
    BY DEF CanvasInit
  <1>2. IdSet(drawnNodes) = {} /\ EdgeSet(drawnEdges) = {} /\ UniqueIds(drawnNodes)
    BY <1>1 DEF IdSet, EdgeSet, UniqueIds
  <1>3. Acyclic(IdSet(drawnNodes), EdgeSet(drawnEdges)) /\ MovesForward(drawnNodes, EdgeSet(drawnEdges))
    BY <1>2 DEF Acyclic, MovesForward
  <1>4. drawnNodes \in Seq(DrawnNode) /\ drawnEdges \in Seq(CanvasIds \X CanvasIds)
    BY <1>1
  <1>5. Drawing(drawnNodes, EdgeSet(drawnEdges), selected)
    BY <1>1, <1>2, <1>3, <1>4 DEF Drawing
  <1> QED BY <1>1, <1>3, <1>4, <1>5 DEF CanvasInv

LEMMA CanvasStepHolds ==
    ASSUME CanvasInv, [CanvasNext]_canvasVars
    PROVE  CanvasInv'
  <1>1. ASSUME NEW n \in CanvasIds \union {NotSelected}, Select(n) PROVE CanvasInv'
    <2>1. /\ n \in IdSet(drawnNodes) \union {NotSelected} /\ selected' = n
          /\ UNCHANGED <<drawnNodes, drawnEdges, rephased>>
      BY <1>1 DEF Select, DrawnIds
    <2>2. Drawing(drawnNodes, EdgeSet(drawnEdges), n)
      BY <2>1 DEF CanvasInv, Drawing
    <2> QED BY <2>1, <2>2 DEF CanvasInv, EdgeSet
  <1>2. ASSUME NEW id \in CanvasIds, OnDrop(id) PROVE CanvasInv'
    BY <1>2, OnDropKeeps
  <1>3. ASSUME NEW source \in CanvasIds, NEW target \in CanvasIds, OnConnect(source, target) PROVE CanvasInv'
    BY <1>3, OnConnectKeeps
  <1>4. ASSUME NEW i \in DOMAIN drawnEdges, OnEdgesDelete(i) PROVE CanvasInv'
    BY <1>4, OnEdgesDeleteKeeps
  <1>5. ASSUME NEW phase \in Phases, UpdateNodePhase(phase) PROVE CanvasInv'
    BY <1>5, UpdateNodePhaseKeeps
  <1>6. CASE DeleteNode
    BY <1>6, DeleteNodeKeeps
  <1>7. CASE Saved
    BY <1>7, CanvasSavedKeeps
  <1>8. CASE UNCHANGED canvasVars
    BY <1>8 DEF CanvasInv, canvasVars, Drawing, EdgeSet
  <1>9. ASSUME UNCHANGED <<drawnNodes, drawnEdges, selected, rephased>> PROVE CanvasInv'
    BY <1>9 DEF CanvasInv, Drawing, EdgeSet
  <1>10. CASE AppendExport \/ \E i \in DOMAIN drawnExports : RemoveExport(i) \/ \E name \in ExportNames : RenameExport(i, name)
    BY <1>9, <1>10 DEF AppendExport, RemoveExport, RenameExport
  <1> QED BY <1>1, <1>2, <1>3, <1>4, <1>5, <1>6, <1>7, <1>8, <1>10 DEF CanvasNext

LEMMA CanvasInvHolds == CanvasSpec => []CanvasInv
  BY CanvasInitHolds, CanvasStepHolds, PTL DEF CanvasSpec
------------------------------------------------------------------------------
\* Every export belongs to a node of the drawing.
ExportsInv == drawnExports \in Seq(IdSet(drawnNodes) \X ExportNames)

LEMMA ExportsOfMore ==
    ASSUME NEW S, NEW T, S \subseteq T, NEW list \in Seq(S)
    PROVE  list \in Seq(T)
  <1>1. Len(list) \in Nat /\ list \in [1..Len(list) -> T]
    OBVIOUS
  <1> QED BY <1>1

LEMMA NodesStayExportsKeep ==
    ASSUME ExportsInv, IdSet(drawnNodes) \subseteq IdSet(drawnNodes'), drawnExports' = drawnExports
    PROVE  ExportsInv'
  <1>1. IdSet(drawnNodes) \X ExportNames \subseteq IdSet(drawnNodes') \X ExportNames
    OBVIOUS
  <1>2. drawnExports' \in Seq(IdSet(drawnNodes') \X ExportNames)
    BY <1>1, ExportsOfMore DEF ExportsInv
  <1> QED BY <1>2 DEF ExportsInv, ExportNames, IdSet

\* The exports of a removed node are removed with it.
LEMMA DeleteNodeExports ==
    ASSUME drawnNodes \in Seq(DrawnNode), ExportsInv, DeleteNode
    PROVE  ExportsInv'
  <1> DEFINE K == {i \in DOMAIN drawnNodes : drawnNodes[i].id # selected}
             M == {i \in DOMAIN drawnExports : drawnExports[i][1] # selected}
             R == IdSet(drawnNodes) \X ExportNames
             T == IdSet(drawnNodes') \X ExportNames
  <1>1. drawnExports \in Seq(R) /\ drawnNodes' = Filter(drawnNodes, K) /\ drawnExports' = Filter(drawnExports, M)
    BY DEF ExportsInv, DeleteNode
  <1>2. drawnExports' \in Seq(R) /\ ElementsOf(drawnExports') = {drawnExports[i] : i \in M}
    <2>1. M \in SUBSET (DOMAIN drawnExports)
      OBVIOUS
    <2> HIDE DEF M, R
    <2> QED BY <1>1, <2>1, FilterFacts
  <1>3. IdSet(drawnNodes') = {drawnNodes[i].id : i \in K}
    <2>1. ElementsOf(drawnNodes') = {drawnNodes[i] : i \in K}
      <3>1. K \in SUBSET (DOMAIN drawnNodes)
        OBVIOUS
      <3> HIDE DEF K
      <3> QED BY <1>1, <3>1, FilterFacts
    <2>2. IdSet(drawnNodes') = {x.id : x \in ElementsOf(drawnNodes')}
      BY DEF IdSet, ElementsOf
    <2> HIDE DEF K
    <2> QED BY <2>1, <2>2
  <1>4. ASSUME NEW i \in M PROVE drawnExports[i] \in T
    <2>1. drawnExports[i] \in R
      BY <1>1
    <2>2. drawnExports[i][1] \in IdSet(drawnNodes) /\ drawnExports[i][1] # selected
      BY <2>1
    <2>3. drawnExports[i][1] \in IdSet(drawnNodes')
      BY <1>3, <2>2 DEF IdSet
    <2> QED BY <2>1, <2>3
  <1>5. ElementsOf(drawnExports') \subseteq T
    BY <1>2, <1>4
  <1>6. drawnExports' \in [1..Len(drawnExports') -> T] /\ Len(drawnExports') \in Nat
    BY <1>2, <1>5 DEF ElementsOf
  <1>7. drawnExports' \in Seq(T)
    BY <1>6
  <1> QED BY <1>7 DEF ExportsInv, ExportNames, IdSet

LEMMA ExportsStepHolds ==
    ASSUME CanvasInv, ExportsInv, [CanvasNext]_canvasVars
    PROVE  ExportsInv'
  <1> DEFINE R == IdSet(drawnNodes) \X ExportNames
  <1>1. drawnExports \in Seq(R) /\ selected \in IdSet(drawnNodes) \union {NotSelected} /\ drawnNodes \in Seq(DrawnNode)
    BY DEF ExportsInv, CanvasInv, Drawing
  <1>2. ASSUME drawnExports' \in Seq(R), drawnNodes' = drawnNodes PROVE ExportsInv'
    BY <1>2 DEF ExportsInv, ExportNames, IdSet
  <1>3. ASSUME NEW id, OnDrop(id) PROVE ExportsInv'
    <2>1. drawnNodes' = Append(drawnNodes, [id |-> id, phase |-> "test"]) /\ drawnExports' = drawnExports
      BY <1>3 DEF OnDrop
    <2>2. PICK node : node = [id |-> id, phase |-> "test"]
      OBVIOUS
    <2>3. DOMAIN drawnNodes \subseteq DOMAIN drawnNodes' /\ \A i \in DOMAIN drawnNodes : drawnNodes'[i] = drawnNodes[i]
      BY <1>1, <2>1, <2>2
    <2>4. IdSet(drawnNodes) \subseteq IdSet(drawnNodes')
      BY <2>3 DEF IdSet
    <2> QED BY <2>1, <2>4, NodesStayExportsKeep
  <1>4. ASSUME NEW phase, UpdateNodePhase(phase) PROVE ExportsInv'
    <2>1. /\ drawnExports' = drawnExports
          /\ drawnNodes' = [i \in DOMAIN drawnNodes |->
                                IF drawnNodes[i].id = selected THEN [drawnNodes[i] EXCEPT !.phase = phase] ELSE drawnNodes[i]]
      BY <1>4 DEF UpdateNodePhase
    <2>2. ASSUME NEW i \in DOMAIN drawnNodes PROVE drawnNodes'[i].id = drawnNodes[i].id
      <3>1. drawnNodes[i] \in DrawnNode
        BY <1>1
      <3>2. [drawnNodes[i] EXCEPT !.phase = phase].id = drawnNodes[i].id
        BY <3>1 DEF DrawnNode
      <3> QED BY <2>1, <3>2
    <2>3. IdSet(drawnNodes) \subseteq IdSet(drawnNodes')
      BY <2>1, <2>2 DEF IdSet
    <2> QED BY <2>1, <2>3, NodesStayExportsKeep
  <1>5. CASE AppendExport
    <2>1. selected \in IdSet(drawnNodes) /\ drawnNodes' = drawnNodes /\ drawnExports' = Append(drawnExports, <<selected, DefaultName>>)
      BY <1>1, <1>5 DEF AppendExport
    <2>2. <<selected, DefaultName>> \in R
      BY <2>1 DEF ExportNames
    <2>3. drawnExports' \in Seq(R)
      <3> HIDE DEF R
      <3> QED BY <1>1, <2>1, <2>2
    <2> QED BY <1>2, <2>1, <2>3
  <1>6. ASSUME NEW i \in DOMAIN drawnExports, RemoveExport(i) PROVE ExportsInv'
    <2>1. PICK K \in SUBSET (DOMAIN drawnExports) : drawnExports' = Filter(drawnExports, K) /\ drawnNodes' = drawnNodes
      BY <1>6 DEF RemoveExport
    <2>2. drawnExports' \in Seq(R)
      <3> HIDE DEF R
      <3> QED BY <1>1, <2>1, FilterFacts
    <2> QED BY <1>2, <2>1, <2>2
  <1>7. ASSUME NEW i \in DOMAIN drawnExports, NEW name \in ExportNames, RenameExport(i, name) PROVE ExportsInv'
    <2>1. /\ drawnExports[i][1] = selected /\ drawnExports[i] \in R /\ drawnNodes' = drawnNodes
          /\ drawnExports' = [drawnExports EXCEPT ![i] = <<selected, name>>]
      BY <1>1, <1>7 DEF RenameExport
    <2>2. <<selected, name>> \in R
      BY <2>1
    <2>3. drawnExports' \in Seq(R)
      <3> HIDE DEF R
      <3> QED BY <1>1, <2>1, <2>2
    <2> QED BY <1>2, <2>1, <2>3
  <1>8. ASSUME drawnExports' = drawnExports, drawnNodes' = drawnNodes PROVE ExportsInv'
    BY <1>1, <1>2, <1>8
  <1>9. ASSUME \/ \E source, target \in CanvasIds : OnConnect(source, target)
               \/ \E i \in DOMAIN drawnEdges : OnEdgesDelete(i)
               \/ \E n \in CanvasIds \union {NotSelected} : Select(n)
               \/ Saved \/ UNCHANGED canvasVars
        PROVE  ExportsInv'
    BY <1>8, <1>9 DEF OnConnect, OnEdgesDelete, Select, Saved, canvasVars
  <1> QED BY <1>3, <1>4, <1>5, <1>6, <1>7, <1>9, DeleteNodeExports, <1>1 DEF CanvasNext

LEMMA ExportsInvHolds == CanvasSpec => []ExportsInv
  <1>1. CanvasInit => ExportsInv
    BY DEF CanvasInit, ExportsInv
  <1> QED BY <1>1, ExportsStepHolds, CanvasInvHolds, PTL DEF CanvasSpec

(* The lists stay lists of nodes and edges, and the selected node is on the canvas. *)
THEOREM CanvasTypes == CanvasSpec => []CanvasTypeOK
  <1>1. CanvasInv /\ ExportsInv => CanvasTypeOK
    BY DEF CanvasInv, ExportsInv, CanvasTypeOK, Drawing, DrawnNode, DrawnIds
  <1> QED BY <1>1, CanvasInvHolds, ExportsInvHolds, PTL

(* Of a drawing made on the canvas without a phase change since the last save the server finds
   nothing to refuse but two exports of one name, however many nodes and edges were drawn and
   removed: the search the canvas makes before it draws an edge, and the loop of the validation,
   find the same cycles. *)
THEOREM CanvasBuildsValidHolds == CanvasSpec => []CanvasBuildsValid
  <1>1. CanvasInv => CanvasBuildsValid
    <2> SUFFICES ASSUME CanvasInv, ~rephased
                 PROVE  ServerVerdict = IF Repeats(DrawnNames) THEN "duplicate export name" ELSE "ok"
      BY DEF CanvasBuildsValid
    <2>1. /\ drawnNodes \in Seq(DrawnNode) /\ UniqueIds(drawnNodes) /\ drawnEdges \in Seq(CanvasIds \X CanvasIds)
          /\ EdgeSet(drawnEdges) \subseteq IdSet(drawnNodes) \X IdSet(drawnNodes)
          /\ Acyclic(IdSet(drawnNodes), EdgeSet(drawnEdges)) /\ MovesForward(drawnNodes, EdgeSet(drawnEdges))
      BY DEF CanvasInv, Drawing
    <2>2. /\ ~DuplicateIds(drawnNodes) /\ ~DanglingEdge(drawnNodes, drawnEdges)
          /\ PhasesMoveForward(PhaseOf(drawnNodes), EdgeSet(drawnEdges))
      BY <2>1, RulesOfDrawing DEF DrawnEdgeSet
    <2>3. drawnNodes \in NodeList(CanvasIds)
      BY <2>1 DEF NodeList, DrawnNode
    <2>4. ~CycleFound(drawnNodes, drawnEdges)
      BY <2>1, <2>2, <2>3, CycleFoundIsCycle
    <2>5. ~Repeats([i \in DOMAIN drawnEdges |-> i])
      BY DEF Repeats
    <2> QED BY <2>2, <2>4, <2>5 DEF ServerVerdict, ParseAndValidateDefinition
  <1> QED BY <1>1, CanvasInvHolds, PTL
=============================================================================
