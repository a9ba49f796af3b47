----------------------------- MODULE FiniteLemmas -----------------------------
(***************************************************************************)
(* Induction for the proofs of this project.  The induction theorems of    *)
(* the library take a predicate as a parameter; a least counterexample     *)
(* does without: a claim about numbers holds when the set of the numbers   *)
(* without it has no least one.                                            *)
(***************************************************************************)
EXTENDS Integers, FiniteSets, FunctionTheorems, FiniteSetTheorems, TLAPS

\* A set of natural numbers that is not empty has a least one: of the intervals
\* 0..n that end in the set, one is minimal for inclusion.
LEMMA LeastNumber ==
    ASSUME NEW T \in SUBSET Nat, T # {}
    PROVE  \E n \in T : \A m \in T : n <= m
<1>1. PICK k \in T : TRUE
  OBVIOUS
<1> DEFINE F == {0..n : n \in {m \in T : m <= k}}
           R == StrictSubsetOrdering(0..k)
<1>2. F \subseteq FiniteSubsetsOf(0..k)
  <2> SUFFICES ASSUME NEW n \in T, n <= k PROVE 0..n \in FiniteSubsetsOf(0..k)
    OBVIOUS
  <2>1. 0..n \subseteq 0..k
    OBVIOUS
  <2>2. IsFiniteSet(0..n)
    BY FS_Interval
  <2> QED BY <2>1, <2>2 DEF FiniteSubsetsOf
<1>3. F # {}
  BY <1>1
<1>4. IsWellFoundedOn(R, FiniteSubsetsOf(0..k))
  BY FS_StrictSubsetOrderingWellFounded
<1> HIDE DEF R
<1>5. PICK x \in F : \A y \in F : ~ (<<y, x>> \in R)
  <2> HIDE DEF F
  <2> QED BY <1>2, <1>3, <1>4, WFMin
<1>6. PICK n \in T : n <= k /\ x = 0..n
  BY <1>5
<1>7. ASSUME NEW m \in T, m < n PROVE FALSE
  <2>1. 0..m \in F
    BY <1>6, <1>7
  <2>2. 0..m \subseteq 0..n /\ n \in 0..n /\ n \notin 0..m
    BY <1>6, <1>7
  <2>3. 0..m \in SUBSET (0..k) /\ 0..n \in SUBSET (0..k)
    BY <1>6, <1>7
  <2>4. <<0..m, 0..n>> \in R
    BY <2>2, <2>3 DEF R, StrictSubsetOrdering
  <2> QED BY <1>5, <1>6, <2>1, <2>4
<1> QED BY <1>6, <1>7

-----------------------------------------------------------------------------
(* Sorting.  An order is a set of pairs. *)

StrictTotalOrder(R, S) ==
    /\ \A x \in S : <<x, x>> \notin R
    /\ \A x, y, z \in S : <<x, y>> \in R /\ <<y, z>> \in R => <<x, z>> \in R
    /\ \A x, y \in S : <<x, y>> \in R \/ <<y, x>> \in R \/ x = y

\* The members of a finite set can be listed in order: the number of those that
\* come before one is its place.
LEMMA SortedListExists ==
    ASSUME NEW S, IsFiniteSet(S), NEW R, StrictTotalOrder(R, S)
    PROVE  \E list \in [1..Cardinality(S) -> S] :
              \A i, j \in 1..Cardinality(S) : i < j => <<list[i], list[j]>> \in R
<1> DEFINE Before(x) == {y \in S : <<y, x>> \in R}
           N == Cardinality(S)
           place == [x \in S |-> Cardinality(Before(x)) + 1]
<1>1. N \in Nat /\ IsFiniteSet(1..N) /\ Cardinality(1..N) = N
  BY FS_CardinalityType, FS_Interval
<1>2. ASSUME NEW x \in S
      PROVE  /\ IsFiniteSet(Before(x)) /\ Cardinality(Before(x)) \in Nat
             /\ Cardinality(Before(x)) < N
  <2>1. Before(x) \subseteq S /\ x \notin Before(x)
    BY DEF StrictTotalOrder
  <2>2. Before(x) # S
    BY <2>1
  <2> HIDE DEF Before
  <2> QED BY <2>1, <2>2, FS_Subset, FS_CardinalityType
<1>3. ASSUME NEW x \in S, NEW y \in S, <<x, y>> \in R
      PROVE  Cardinality(Before(x)) < Cardinality(Before(y))
  <2>1. Before(x) \subseteq Before(y) /\ x \in Before(y) /\ x \notin Before(x)
    BY <1>3 DEF StrictTotalOrder
  <2>2. Before(x) # Before(y)
    BY <2>1
  <2>3. /\ IsFiniteSet(Before(y)) /\ Cardinality(Before(y)) \in Nat
        /\ Cardinality(Before(x)) \in Nat
    BY <1>2
  <2> HIDE DEF Before
  <2> QED BY <2>1, <2>2, <2>3, FS_Subset
<1>4. place \in Injection(S, 1..N)
  <2>1. place \in [S -> 1..N]
    <3> SUFFICES ASSUME NEW x \in S PROVE Cardinality(Before(x)) + 1 \in 1..N
      OBVIOUS
    <3> HIDE DEF Before
    <3> QED BY <1>1, <1>2
  <2>2. ASSUME NEW x \in S, NEW y \in S, place[x] = place[y]
        PROVE  x = y
    <3>1. Cardinality(Before(x)) \in Nat /\ Cardinality(Before(y)) \in Nat
      BY <1>2
    <3>2. Cardinality(Before(x)) = Cardinality(Before(y))
      <4> HIDE DEF Before
      <4> QED BY <2>2, <3>1
    <3>3. <<x, y>> \notin R /\ <<y, x>> \notin R
      <4> HIDE DEF Before
      <4> QED BY <1>3, <3>1, <3>2
    <3> QED BY <3>3 DEF StrictTotalOrder
  <2> HIDE DEF place
  <2> QED BY <2>1, <2>2, Fun_IsInj
<1>5. place \in Surjection(S, 1..N)
  <2> HIDE DEF place
  <2> QED BY <1>1, <1>4, FS_Injection
<1>6. \A i \in 1..N : \E x \in S : place[x] = i
  <2> HIDE DEF place
  <2> QED BY <1>5 DEF Surjection
<1> DEFINE list == [i \in 1..N |-> CHOOSE x \in S : place[x] = i]
<1>7. \A i \in 1..N : list[i] \in S /\ place[list[i]] = i
  <2> HIDE DEF place
  <2> QED BY <1>6
<1>8. ASSUME NEW i \in 1..N, NEW j \in 1..N, i < j
      PROVE  <<list[i], list[j]>> \in R
  <2> HIDE DEF list
  <2>1. PICK x \in S : x = list[i] /\ Cardinality(Before(x)) + 1 = i
    BY <1>7
  <2>2. PICK y \in S : y = list[j] /\ Cardinality(Before(y)) + 1 = j
    BY <1>7
  <2>3. Cardinality(Before(x)) \in Nat /\ Cardinality(Before(y)) \in Nat
    BY <1>2
  <2>4. <<y, x>> \notin R /\ x # y
    <3> HIDE DEF Before
    <3> QED BY <1>3, <1>8, <2>1, <2>2, <2>3
  <2>5. <<x, y>> \in R
    BY <2>4 DEF StrictTotalOrder
  <2> QED BY <2>1, <2>2, <2>5
<1>9. list \in [1..N -> S]
  BY <1>7
<1> QED BY <1>8, <1>9

\* A list of a finite set without repetition, as long as the set, has every member.
LEMMA ListHasAll ==
    ASSUME NEW S, IsFiniteSet(S), NEW list \in [1..Cardinality(S) -> S],
           \A i, j \in 1..Cardinality(S) : i < j => list[i] # list[j]
    PROVE  \A x \in S : \E i \in 1..Cardinality(S) : list[i] = x
<1> DEFINE N == Cardinality(S)
<1>1. N \in Nat /\ IsFiniteSet(1..N) /\ Cardinality(1..N) = N
  BY FS_CardinalityType, FS_Interval
<1>2. \A i, j \in 1..N : list[i] = list[j] => i = j
  <2>1. \A i, j \in 1..N : i < j \/ j < i \/ i = j
    OBVIOUS
  <2> QED BY <2>1
<1>3. list \in Injection(1..N, S)
  BY <1>2, Fun_IsInj
<1>4. list \in Surjection(1..N, S)
  <2> HIDE DEF N
  <2> QED BY <1>1, <1>3, FS_Injection DEF N
<1> QED BY <1>4 DEF Surjection

=============================================================================
