------------------------------- MODULE SetSums -------------------------------
(***************************************************************************)
(* Lemmas about sums and extremes of finite sets, which the proofs about   *)
(* scores and edits need.  The operators of FiniteSetsExt recur on a set   *)
(* by taking out the element that CHOOSE picks; what they compute follows  *)
(* by induction on subsets.  The induction is first-order: the library's   *)
(* theorems with an operator parameter are not used, only that the strict  *)
(* subset ordering of finite sets is well founded, so that every set of    *)
(* counterexamples has a minimal one.                                      *)
(***************************************************************************)
EXTENDS Integers, FiniteSetsExt, FiniteSetTheorems, WellFoundedInduction, TLAPS

\* A set without a minimal element for a well-founded relation is empty.
LEMMA WithoutMinimum ==
  ASSUME NEW R, NEW D, IsWellFoundedOn(R, D), NEW F, F \subseteq D,
         \A s \in F : \E t \in F : <<t, s>> \in R
  PROVE  F = {}
BY WFMin

\* Finite sets of which each has a strictly smaller one: there are none.
LEMMA NoDescent ==
  ASSUME NEW F, \A s \in F : IsFiniteSet(s),
         \A s \in F : \E t \in F : t \subseteq s /\ t # s
  PROVE  F = {}
<1> DEFINE S == UNION F
           R == StrictSubsetOrdering(S)
           D == FiniteSubsetsOf(S)
<1>1. IsWellFoundedOn(R, D)
  BY FS_StrictSubsetOrderingWellFounded
<1>2. F \subseteq D
  BY DEF FiniteSubsetsOf
<1>3. \A s \in F : \E t \in F : <<t, s>> \in R
  BY DEF StrictSubsetOrdering
<1> HIDE DEF S, R, D
<1>4. QED BY <1>1, <1>2, <1>3, WithoutMinimum

\* A set of natural numbers that is not empty has a least element.
LEMMA LeastNatural ==
  ASSUME NEW T, T \subseteq Nat, T # {}
  PROVE  \E m \in T : \A k \in T : m <= k
<1>1. ASSUME \A m \in T : \E k \in T : k < m
      PROVE  FALSE
  <2> DEFINE F == {0..k : k \in T}
  <2>1. \A k \in T : IsFiniteSet(0..k)
    BY FS_Interval
  <2>2. \A s \in F : IsFiniteSet(s)
    BY <2>1
  <2>3. ASSUME NEW s \in F
        PROVE  \E t \in F : t \subseteq s /\ t # s
    <3>1. PICK m \in T : s = 0..m
      OBVIOUS
    <3>2. PICK k \in T : k < m
      BY <1>1
    <3>3. 0..k \subseteq 0..m /\ m \in 0..m /\ m \notin 0..k
      BY <3>2
    <3>4. QED BY <3>1, <3>3
  <2>4. F # {}
    OBVIOUS
  <2> HIDE DEF F
  <2>5. QED BY <2>2, <2>3, <2>4, NoDescent
<1>2. QED BY <1>1

-----------------------------------------------------------------------------
(* Sums.  Pick, Body and Sums repeat the recursion that MapThenSumSet expands to. *)

Pick(s) == CHOOSE x \in s : TRUE

Body(f, g, s) == IF s = {} THEN 0 ELSE f[Pick(s)] + g[s \ {Pick(s)}]

Sums(f, S) == CHOOSE g : g = [s \in SUBSET S |-> Body(f, g, s)]

Total(f, S) == MapThenSumSet(LAMBDA x : f[x], S)

\* The sum of f over S is what the recursion over the subsets of S ends with.
LEMMA TotalIs == ASSUME NEW f, NEW S PROVE Total(f, S) = Sums(f, S)[S]
  BY DEF Total, Sums, Body, Pick, MapThenSumSet, MapThenFoldSet

LEMMA PickIn == ASSUME NEW s, s # {} PROVE Pick(s) \in s
  BY DEF Pick

LEMMA Smaller ==
  ASSUME NEW S, IsFiniteSet(S), NEW s \in SUBSET S, s # {}
  PROVE  /\ s \ {Pick(s)} \in SUBSET S
         /\ Cardinality(s) \in Nat /\ Cardinality(s \ {Pick(s)}) \in Nat
         /\ Cardinality(s \ {Pick(s)}) = Cardinality(s) - 1
<1>1. IsFiniteSet(s)
  BY FS_Subset
<1>2. QED BY <1>1, PickIn, FS_RemoveElement, FS_CardinalityType

UpTo(S, n) == {s \in SUBSET S : Cardinality(s) <= n}

Partial(f, S, n) == \E g : g = [s \in UpTo(S, n) |-> Body(f, g, s)]

\* The recursion has a solution up to any number of elements.
LEMMA Partials ==
  ASSUME NEW f, NEW S, IsFiniteSet(S), NEW n \in Nat
  PROVE  Partial(f, S, n)
<1> DEFINE Bad == {k \in Nat : ~ Partial(f, S, k)}
<1>1. ASSUME NEW m \in Bad, \A k \in Bad : m <= k
      PROVE  FALSE
  <2>1. CASE m = 0
    <3> DEFINE g == [s \in UpTo(S, 0) |-> 0]
    <3>1. \A s \in UpTo(S, 0) : s = {}
      BY FS_Subset, FS_EmptySet, FS_CardinalityType DEF UpTo
    <3>2. g = [s \in UpTo(S, 0) |-> Body(f, g, s)]
      BY <3>1 DEF Body
    <3>3. QED BY <2>1, <3>2 DEF Partial
  <2>2. CASE m # 0
    <3>1. m - 1 \in Nat /\ m - 1 \notin Bad
      BY <1>1, <2>2
    <3>2. PICK g : g = [s \in UpTo(S, m - 1) |-> Body(f, g, s)]
      BY <3>1 DEF Partial
    <3> DEFINE h == [s \in UpTo(S, m) |-> Body(f, g, s)]
    <3>3. ASSUME NEW s \in UpTo(S, m) PROVE Body(f, g, s) = Body(f, h, s)
      <4>1. CASE s = {}
        BY <4>1 DEF Body
      <4>2. CASE s # {}
        <5>1. s \ {Pick(s)} \in UpTo(S, m - 1) /\ s \ {Pick(s)} \in UpTo(S, m)
          BY <4>2, <3>1, Smaller DEF UpTo
        <5>2. g[s \ {Pick(s)}] = Body(f, g, s \ {Pick(s)})
          BY <5>1, <3>2
        <5>3. h[s \ {Pick(s)}] = Body(f, g, s \ {Pick(s)})
          BY <5>1
        <5>4. QED BY <4>2, <5>2, <5>3 DEF Body
      <4>3. QED BY <4>1, <4>2
    <3>4. h = [s \in UpTo(S, m) |-> Body(f, h, s)]
      BY <3>3
    <3>5. QED BY <3>4 DEF Partial
  <2>3. QED BY <2>1, <2>2
<1>2. Bad = {}
  BY <1>1, LeastNatural
<1>3. QED BY <1>2

\* It has a solution for all subsets of a finite set.
LEMMA SumsFunction ==
  ASSUME NEW f, NEW S, IsFiniteSet(S)
  PROVE  \E g : g = [s \in SUBSET S |-> Body(f, g, s)]
<1>1. Cardinality(S) \in Nat /\ \A s \in SUBSET S : Cardinality(s) <= Cardinality(S)
  BY FS_CardinalityType, FS_Subset
<1>2. UpTo(S, Cardinality(S)) = SUBSET S
  BY <1>1 DEF UpTo
<1>3. Partial(f, S, Cardinality(S))
  BY <1>1, Partials
<1>4. QED BY <1>2, <1>3 DEF Partial

LEMMA SumsDef ==
  ASSUME NEW f, NEW S, IsFiniteSet(S)
  PROVE  \A s \in SUBSET S : Sums(f, S)[s] = Body(f, Sums(f, S), s)
<1>1. Sums(f, S) = [s \in SUBSET S |-> Body(f, Sums(f, S), s)]
  BY SumsFunction DEF Sums
<1> HIDE DEF Sums
<1>2. QED BY <1>1

\* What holds of the empty set, and of every set that it holds of without the
\* element picked, holds of every subset.
LEMMA SetInduction ==
  ASSUME NEW S, IsFiniteSet(S), NEW G, {} \in G,
         \A s \in SUBSET S : s # {} /\ s \ {Pick(s)} \in G => s \in G
  PROVE  \A s \in SUBSET S : s \in G
<1> DEFINE F == (SUBSET S) \ G
<1>1. ASSUME NEW s \in F
      PROVE  \E t \in F : t \subseteq s /\ t # s
  <2>1. s # {} /\ s \in SUBSET S /\ s \notin G
    OBVIOUS
  <2>2. Pick(s) \in s
    BY <2>1, PickIn
  <2>3. s \ {Pick(s)} \in SUBSET S /\ s \ {Pick(s)} \subseteq s /\ s \ {Pick(s)} # s
    BY <2>1, <2>2
  <2>4. s \ {Pick(s)} \in F
    BY <2>1, <2>3
  <2>5. QED BY <2>3, <2>4
<1>2. \A s \in F : IsFiniteSet(s)
  BY FS_Subset
<1>3. F = {} => \A s \in SUBSET S : s \in G
  OBVIOUS
<1> HIDE DEF F
<1>4. F = {}
  BY <1>1, <1>2, NoDescent
<1>5. QED BY <1>3, <1>4

\* The recursion gives a subset the same sum in every finite set around it.
LEMMA SumsIn ==
  ASSUME NEW f, NEW S, IsFiniteSet(S), NEW T \in SUBSET S
  PROVE  Sums(f, S)[T] = Sums(f, T)[T]
<1> DEFINE G == {s \in SUBSET T : Sums(f, S)[s] = Sums(f, T)[s]}
<1>1. IsFiniteSet(T)
  BY FS_Subset
<1>2. ASSUME NEW s \in SUBSET T
      PROVE  /\ Sums(f, S)[s] = Body(f, Sums(f, S), s)
             /\ Sums(f, T)[s] = Body(f, Sums(f, T), s)
  BY <1>1, SumsDef
<1>3. {} \in G
  BY <1>2 DEF Body
<1>4. \A s \in SUBSET T : s # {} /\ s \ {Pick(s)} \in G => s \in G
  BY <1>2 DEF Body
<1>5. \A s \in SUBSET T : s \in G
  <2> HIDE DEF G
  <2>1. QED BY <1>1, <1>3, <1>4, SetInduction
<1>6. QED BY <1>5

LEMMA TotalOfNone == ASSUME NEW f PROVE Total(f, {}) = 0
  BY TotalIs, SumsDef, FS_EmptySet DEF Body

\* The sum over S is the picked term and the sum over the others.
LEMMA TotalStep ==
  ASSUME NEW f, NEW S, IsFiniteSet(S), S # {}
  PROVE  Total(f, S) = f[Pick(S)] + Total(f, S \ {Pick(S)})
<1>1. Sums(f, S)[S] = f[Pick(S)] + Sums(f, S)[S \ {Pick(S)}]
  BY SumsDef DEF Body
<1>2. Sums(f, S)[S \ {Pick(S)}] = Sums(f, S \ {Pick(S)})[S \ {Pick(S)}]
  BY SumsIn
<1>3. QED BY <1>1, <1>2, TotalIs

LEMMA TotalType ==
  ASSUME NEW f, NEW S, IsFiniteSet(S), \A x \in S : f[x] \in Int
  PROVE  Total(f, S) \in Int
<1> DEFINE P(s) == Total(f, s) \in Int
           G == {s \in SUBSET S : P(s)}
<1>1. \A s \in SUBSET S : IsFiniteSet(s) /\ (s # {} => Pick(s) \in s)
  BY FS_Subset, PickIn
<1>2. P({})
  BY TotalOfNone
<1>3. ASSUME NEW s \in SUBSET S, s # {}, P(s \ {Pick(s)})
      PROVE  P(s)
  <2>1. f[Pick(s)] \in Int /\ IsFiniteSet(s)
    BY <1>1, <1>3
  <2>2. QED BY <1>3, <2>1, TotalStep
<1>4. \A s \in SUBSET S : s \in G
  <2>1. {} \in G
    BY <1>2
  <2>2. \A s \in SUBSET S : s # {} /\ s \ {Pick(s)} \in G => s \in G
    BY <1>3
  <2> HIDE DEF G
  <2>3. QED BY <2>1, <2>2, SetInduction
<1>5. P(S)
  BY <1>4
<1>6. QED BY <1>5

\* A sum lies between as many times the least and the greatest term.
LEMMA TotalBounds ==
  ASSUME NEW f, NEW S, IsFiniteSet(S), NEW a \in Int, NEW b \in Int,
         \A x \in S : f[x] \in Int /\ a <= f[x] /\ f[x] <= b
  PROVE  /\ Total(f, S) \in Int
         /\ a * Cardinality(S) <= Total(f, S)
         /\ Total(f, S) <= b * Cardinality(S)
<1> DEFINE P(s) == a * Cardinality(s) <= Total(f, s) /\ Total(f, s) <= b * Cardinality(s)
           G == {s \in SUBSET S : P(s)}
<1>1. \A s \in SUBSET S : IsFiniteSet(s) /\ (s # {} => Pick(s) \in s)
  BY FS_Subset, PickIn
<1>2. P({})
  BY TotalOfNone, FS_EmptySet
<1>3. ASSUME NEW s \in SUBSET S, s # {}, P(s \ {Pick(s)})
      PROVE  P(s)
  <2>1. PICK t : t = s \ {Pick(s)}
    OBVIOUS
  <2>2. Pick(s) \in S /\ IsFiniteSet(s) /\ t \in SUBSET S /\ IsFiniteSet(t)
    BY <1>1, <1>3, <2>1
  <2>3. Cardinality(s) = Cardinality(t) + 1 /\ Cardinality(t) \in Nat
    BY <1>3, <2>1, Smaller
  <2>4. Total(f, s) = f[Pick(s)] + Total(f, t) /\ Total(f, t) \in Int
    BY <1>3, <2>1, <2>2, TotalStep, TotalType
  <2>5. PICK u, v : u = a * Cardinality(t) /\ v = b * Cardinality(t)
    OBVIOUS
  <2>6. u \in Int /\ v \in Int /\ u <= Total(f, t) /\ Total(f, t) <= v
    BY <1>3, <2>1, <2>3, <2>5
  <2>7. a * Cardinality(s) = u + a /\ b * Cardinality(s) = v + b
    <3>1. PICK n \in Nat : n = Cardinality(t)
      BY <2>3
    <3>2. a * (n + 1) = a * n + a /\ b * (n + 1) = b * n + b
      OBVIOUS
    <3>3. QED BY <2>3, <2>5, <3>1, <3>2
  <2>8. f[Pick(s)] \in Int /\ a <= f[Pick(s)] /\ f[Pick(s)] <= b
    BY <2>2
  <2>9. QED BY <2>4, <2>6, <2>7, <2>8
<1>4. \A s \in SUBSET S : s \in G
  <2>1. {} \in G
    BY <1>2
  <2>2. \A s \in SUBSET S : s # {} /\ s \ {Pick(s)} \in G => s \in G
    BY <1>3
  <2> HIDE DEF G
  <2>3. QED BY <2>1, <2>2, SetInduction
<1>5. P(S)
  BY <1>4
<1>6. QED BY <1>5, TotalType

\* When only the term of k may grow, by at most d, so does the sum.
LEMMA TotalGrows ==
  ASSUME NEW f, NEW g, NEW S, IsFiniteSet(S), NEW k, NEW d \in Nat,
         \A x \in S : f[x] \in Int /\ g[x] \in Int,
         \A x \in S : g[x] <= f[x] + (IF x = k THEN d ELSE 0)
  PROVE  Total(g, S) <= Total(f, S) + d
<1> DEFINE P(s) == Total(g, s) <= Total(f, s) + (IF k \in s THEN d ELSE 0)
           G == {s \in SUBSET S : P(s)}
<1>1. \A s \in SUBSET S : IsFiniteSet(s) /\ (s # {} => Pick(s) \in s)
  BY FS_Subset, PickIn
<1>2. P({})
  BY TotalOfNone
<1>3. ASSUME NEW s \in SUBSET S, s # {}, P(s \ {Pick(s)})
      PROVE  P(s)
  <2>1. PICK t : t = s \ {Pick(s)}
    OBVIOUS
  <2>2. Pick(s) \in S /\ IsFiniteSet(s) /\ t \in SUBSET S /\ IsFiniteSet(t)
    BY <1>1, <1>3, <2>1
  <2>3. Total(f, s) = f[Pick(s)] + Total(f, t) /\ Total(g, s) = g[Pick(s)] + Total(g, t)
    BY <1>3, <2>1, <2>2, TotalStep
  <2>4. /\ f[Pick(s)] \in Int /\ g[Pick(s)] \in Int
        /\ Total(f, t) \in Int /\ Total(g, t) \in Int
    BY <2>2, TotalType
  <2>5. Total(g, t) <= Total(f, t) + (IF k \in t THEN d ELSE 0)
    BY <1>3, <2>1
  <2>6. CASE Pick(s) = k
    <3>1. k \in s /\ k \notin t /\ g[Pick(s)] <= f[Pick(s)] + d
      BY <1>1, <1>3, <2>1, <2>2, <2>6
    <3>2. QED BY <2>3, <2>4, <2>5, <3>1
  <2>7. CASE Pick(s) # k
    <3>1. (k \in s <=> k \in t) /\ g[Pick(s)] <= f[Pick(s)]
      BY <2>1, <2>2, <2>4, <2>7
    <3>2. QED BY <2>3, <2>4, <2>5, <3>1
  <2>8. QED BY <2>6, <2>7
<1>4. \A s \in SUBSET S : s \in G
  <2>1. {} \in G
    BY <1>2
  <2>2. \A s \in SUBSET S : s # {} /\ s \ {Pick(s)} \in G => s \in G
    BY <1>3
  <2> HIDE DEF G
  <2>3. QED BY <2>1, <2>2, SetInduction
<1>5. P(S)
  BY <1>4
<1>6. Total(f, S) \in Int /\ Total(g, S) \in Int
  BY TotalType
<1>7. QED BY <1>5, <1>6

\* No term grows, so neither does the sum.
LEMMA TotalMonotone ==
  ASSUME NEW f, NEW g, NEW S, IsFiniteSet(S),
         \A x \in S : f[x] \in Int /\ g[x] \in Int /\ g[x] <= f[x]
  PROVE  Total(g, S) <= Total(f, S)
<1>1. PICK d \in Nat : d = 0
  OBVIOUS
<1>2. \A x \in S : g[x] <= f[x] + (IF x = S THEN d ELSE 0)
  BY <1>1
<1>3. Total(g, S) <= Total(f, S) + d
  BY <1>2, TotalGrows
<1>4. QED BY <1>1, <1>3, TotalType

\* SumSet sums the identity.
LEMMA SumSetIsTotal ==
  ASSUME NEW S, IsFiniteSet(S)
  PROVE  SumSet(S) = Total([x \in S |-> x], S)
<1> DEFINE id == [x \in S |-> x]
           Step(g, s) == IF s = {} THEN 0 ELSE Pick(s) + g[s \ {Pick(s)}]
           H == CHOOSE g : g = [s \in SUBSET S |-> Step(g, s)]
           G == {s \in SUBSET S : H[s] = Sums(id, S)[s]}
<1>1. SumSet(S) = H[S]
  BY DEF SumSet, FoldSet, MapThenFoldSet, Pick
<1>2. \A s \in SUBSET S : Body(id, Sums(id, S), s) = Step(Sums(id, S), s)
  BY PickIn DEF Body
<1>3. Sums(id, S) = [s \in SUBSET S |-> Step(Sums(id, S), s)]
  <2>1. Sums(id, S) = [s \in SUBSET S |-> Body(id, Sums(id, S), s)]
    BY SumsFunction DEF Sums
  <2> HIDE DEF id, Step
  <2>2. QED BY <2>1, <1>2
<1>4. H = [s \in SUBSET S |-> Step(H, s)]
  <2> HIDE DEF Step
  <2>1. QED BY <1>3
<1>5. ASSUME NEW s \in SUBSET S
      PROVE  H[s] = Step(H, s) /\ Sums(id, S)[s] = Step(Sums(id, S), s)
  <2> HIDE DEF Step, H, id
  <2>1. QED BY <1>3, <1>4
<1> HIDE DEF H, id
<1>6. {} \in G
  BY <1>5
<1>7. \A s \in SUBSET S : s # {} /\ s \ {Pick(s)} \in G => s \in G
  BY <1>5
<1>8. \A s \in SUBSET S : s \in G
  <2> HIDE DEF G
  <2>1. QED BY <1>6, <1>7, SetInduction
<1>9. H[S] = Sums(id, S)[S]
  BY <1>8
<1>10. QED BY <1>1, <1>9, TotalIs DEF id

-----------------------------------------------------------------------------
(* Extremes *)

\* A finite set of integers that is not empty has a least and a greatest element.
LEMMA Extremes ==
  ASSUME NEW S, IsFiniteSet(S), S # {}, S \subseteq Int
  PROVE  /\ \E x \in S : \A y \in S : x <= y
         /\ \E x \in S : \A y \in S : x >= y
<1> DEFINE P(s) == s # {} => /\ \E x \in s : \A y \in s : x <= y
                             /\ \E x \in s : \A y \in s : x >= y
           G == {s \in SUBSET S : P(s)}
<1>1. \A s \in SUBSET S : s # {} => Pick(s) \in s
  BY PickIn
<1>2. P({})
  OBVIOUS
<1>3. ASSUME NEW s \in SUBSET S, s # {}, P(s \ {Pick(s)})
      PROVE  P(s)
  <2>1. PICK e \in s : e = Pick(s)
    BY <1>1, <1>3
  <2>2. CASE s \ {e} = {}
    <3>1. \A y \in s : y = e
      BY <2>2
    <3>2. QED BY <2>1, <3>1
  <2>3. CASE s \ {e} # {}
    <3>2. PICK lo \in s \ {e} : \A y \in s \ {e} : lo <= y
      BY <1>3, <2>1, <2>3
    <3>3. PICK hi \in s \ {e} : \A y \in s \ {e} : hi >= y
      BY <1>3, <2>1, <2>3
    <3>4. e \in Int /\ lo \in Int /\ hi \in Int /\ \A y \in s : y \in Int
      BY <2>1
    <3>5. \E x \in s : \A y \in s : x <= y
      <4>1. CASE lo <= e
        BY <3>2, <4>1
      <4>2. CASE e <= lo
        BY <2>1, <3>2, <3>4, <4>2
      <4>3. QED BY <3>4, <4>1, <4>2
    <3>6. \E x \in s : \A y \in s : x >= y
      <4>1. CASE hi >= e
        BY <3>3, <4>1
      <4>2. CASE e >= hi
        BY <2>1, <3>3, <3>4, <4>2
      <4>3. QED BY <3>4, <4>1, <4>2
    <3>7. QED BY <3>5, <3>6
  <2>4. QED BY <2>2, <2>3
<1>4. \A s \in SUBSET S : s \in G
  <2>1. {} \in G
    BY <1>2
  <2>2. \A s \in SUBSET S : s # {} /\ s \ {Pick(s)} \in G => s \in G
    BY <1>3
  <2> HIDE DEF G
  <2>3. QED BY <2>1, <2>2, SetInduction
<1>5. P(S)
  BY <1>4
<1>6. QED BY <1>5

=============================================================================
