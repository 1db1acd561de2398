---------------------------- MODULE JudgingProofs ----------------------------
(***************************************************************************)
(* Theorems about Judging, for any messages, sources, clusters, weights    *)
(* and thresholds: types, so that no score, threshold or metric leaves its *)
(* range; some cluster passes the percentile, and the threshold stays      *)
(* between its bounds; the threshold lets no story of one message pass;    *)
(* what is corroborated is not held.  The last two need facts about the    *)
(* settings and the sources, which are hypotheses of the theorems.         *)
(*                                                                         *)
(* What a cluster was scored by is its members without the last one to     *)
(* join, so the invariants speak of that set.                              *)
(***************************************************************************)
EXTENDS Judging, LineageProofs, SetSums

Assumptions == LineageAssumption /\ JudgingAssumption

-----------------------------------------------------------------------------
(* Divisions and sums *)

LEMMA Quotients ==
  ASSUME NEW a \in Nat, NEW b \in Nat, b > 0
  PROVE  a \div b \in Nat
  OBVIOUS

\* An average is at least the least of what is averaged.
LEMMA QuotientAtLeast ==
  ASSUME NEW a \in Nat, NEW b \in Nat, b > 0, NEW q \in Nat, q * b <= a
  PROVE  a \div b >= q
  OBVIOUS

LEMMA SourcesFacts ==
  ASSUME Assumptions, NEW S \in SUBSET Messages, S # {}
  PROVE  /\ IsFiniteSet(S) /\ IsFiniteSet(SourcesOf(S))
         /\ SourcesOf(S) \subseteq Sources
         /\ Cardinality(SourcesOf(S)) \in Nat /\ Cardinality(SourcesOf(S)) > 0
<1>1. IsFiniteSet(S)
  BY FS_Subset DEF Assumptions, LineageAssumption
<1>2. SourcesOf(S) = SourcesIn(S)
  BY DEF SourcesOf, SourcesIn
<1>3. IsFiniteSet(SourcesOf(S))
  BY <1>2, SourcesAreFinite DEF Assumptions
<1>4. SourcesOf(S) \subseteq Sources
  BY DEF Assumptions, LineageAssumption, SourcesOf
<1>5. SourcesOf(S) # {}
  BY DEF SourcesOf
<1>6. QED BY <1>1, <1>3, <1>4, <1>5, FS_CardinalityType, FS_EmptySet

-----------------------------------------------------------------------------
(* The score *)

LEMMA SourceScoreRange ==
  ASSUME Assumptions, NEW S \in SUBSET Messages
  PROVE  SourceScore(S) \in 0..3500
<1>1. PICK n \in Nat : n = RecalculateIndependentSources(S)
  BY CountIsNat DEF Assumptions
<1>2. QED BY <1>1 DEF SourceScore, Least

LEMMA CredibilityScoreRange ==
  ASSUME Assumptions, NEW S \in SUBSET Messages
  PROVE  CredibilityScore(S) \in 0..3000
<1>1. CASE S = {}
  BY <1>1 DEF CredibilityScore
<1>2. CASE S # {}
  <2>1. PICK T, n : T = SourcesOf(S) /\ n = Cardinality(T)
    OBVIOUS
  <2>2. IsFiniteSet(T) /\ T \subseteq Sources /\ n \in Nat /\ n > 0
    BY <1>2, <2>1, SourcesFacts
  <2>3. \A s \in T : Weight[s] \in Int /\ 0 <= Weight[s] /\ Weight[s] <= 15
    BY <2>2 DEF Assumptions, JudgingAssumption
  <2>4. PICK lo \in Int, hi \in Int : lo = 0 /\ hi = 15
    OBVIOUS
  <2>5. Total(Weight, T) \in Nat
    <3>1. \A s \in T : Weight[s] \in Int /\ lo <= Weight[s] /\ Weight[s] <= hi
      BY <2>3, <2>4
    <3>2. Total(Weight, T) \in Int /\ lo * Cardinality(T) <= Total(Weight, T)
      BY <2>2, <3>1, TotalBounds
    <3>3. QED BY <2>1, <2>2, <2>4, <3>2
  <2>6. (200 * Total(Weight, T)) \div n \in Nat
    BY <2>2, <2>5, Quotients
  <2>7. CredibilityScore(S) = Least(3000, (200 * Total(Weight, T)) \div n)
    BY <1>2, <2>1 DEF CredibilityScore, Total
  <2>8. QED BY <2>6, <2>7 DEF Least
<1>3. QED BY <1>1, <1>2

LEMMA SpanIsNat ==
  ASSUME Assumptions, NEW S \in SUBSET Messages, S # {}
  PROVE  Span(S) \in Nat
<1> DEFINE T == {PublishedAt[m] : m \in S}
<1>1. IsFiniteSet(T) /\ T # {} /\ T \subseteq Int
  <2> DEFINE f == [m \in S |-> PublishedAt[m]]
  <2>1. f \in Surjection(S, T)
    BY DEF Surjection
  <2>2. IsFiniteSet(S)
    BY SourcesFacts
  <2>3. IsFiniteSet(T)
    <3> HIDE DEF f, T
    <3>1. QED BY <2>1, <2>2, FS_Surjection
  <2>4. QED BY <2>3 DEF Assumptions, JudgingAssumption
<1> HIDE DEF T
<1>2. Min(T) \in T /\ \A y \in T : Min(T) <= y
  BY <1>1, Extremes DEF Min
<1>3. Max(T) \in T /\ \A y \in T : Max(T) >= y
  BY <1>1, Extremes DEF Max
<1>4. Max(T) - Min(T) \in Nat
  <2>1. PICK lo \in Int, hi \in Int : lo = Min(T) /\ hi = Max(T)
    BY <1>1, <1>2, <1>3
  <2>2. lo <= hi
    BY <1>2, <1>3, <2>1
  <2>3. QED BY <2>1, <2>2
<1>5. QED BY <1>4 DEF Span, T

LEMMA SpeedScoreRange ==
  ASSUME Assumptions, NEW S \in SUBSET Messages
  PROVE  SpeedScore(S) \in 0..2000
<1>1. CASE Cardinality(S) < 2
  BY <1>1 DEF SpeedScore
<1>2. CASE ~ (Cardinality(S) < 2)
  <2>1. S # {}
    BY <1>2, FS_EmptySet
  <2>2. PICK n \in Nat : n = Span(S)
    BY <2>1, SpanIsNat
  <2>3. Greatest(0, 60 - n) \in 0..60
    BY DEF Greatest
  <2>4. \A k \in 0..60 : (2000 * k) \div 60 \in 0..2000
    OBVIOUS
  <2>5. SpeedScore(S) = (2000 * Greatest(0, 60 - n)) \div 60
    BY <1>2, <2>2 DEF SpeedScore
  <2>6. QED BY <2>3, <2>4, <2>5
<1>3. QED BY <1>1, <1>2

LEMMA UrgencyScoreRange ==
  ASSUME Assumptions, NEW S \in SUBSET Messages
  PROVE  UrgencyScore(S) \in 0..1500
<1> DEFINE K == {Keywords[m] : m \in S}
           f == [m \in S |-> Keywords[m]]
<1>1. f \in Surjection(S, K)
  BY DEF Surjection
<1>2. IsFiniteSet(S)
  BY FS_Subset DEF Assumptions, LineageAssumption
<1>3. IsFiniteSet(K)
  <2> HIDE DEF f, K
  <2>1. QED BY <1>1, <1>2, FS_Surjection
<1>4. \A T \in K : IsFiniteSet(T)
  BY DEF Assumptions, JudgingAssumption
<1>5. PICK n \in Nat : n = Cardinality(UNION K)
  <2> HIDE DEF K
  <2>1. QED BY <1>3, <1>4, FS_UNION, FS_CardinalityType
<1>6. UrgencyScore(S) = 500 * Least(n, 3)
  BY <1>5 DEF UrgencyScore
<1>7. QED BY <1>6 DEF Least

\* A score lies between one point and ten.
LEMMA ScoreRange ==
  ASSUME Assumptions, NEW S \in SUBSET Messages
  PROVE  ComputeClusterScore(S) \in LeastScore..GreatestScore
<1>1. PICK a \in 0..3500 : a = SourceScore(S)
  BY SourceScoreRange
<1>2. PICK b \in 0..3000 : b = CredibilityScore(S)
  BY CredibilityScoreRange
<1>3. PICK c \in 0..2000 : c = SpeedScore(S)
  BY SpeedScoreRange
<1>4. PICK d \in 0..1500 : d = UrgencyScore(S)
  BY UrgencyScoreRange
<1>5. ComputeClusterScore(S) = LeastScore + 9 * (a + b + c + d)
  BY <1>1, <1>2, <1>3, <1>4 DEF ComputeClusterScore
<1>6. PICK x \in Int : x = LeastScore + 9 * (a + b + c + d)
  BY DEF LeastScore
<1>7. LeastScore <= x /\ x <= GreatestScore
  BY <1>6 DEF LeastScore, GreatestScore
<1>8. LeastScore \in Int /\ GreatestScore \in Int
  BY DEF LeastScore, GreatestScore
<1>9. QED BY <1>5, <1>6, <1>7, <1>8

\* A new cluster is scored before its message is visible: 2.8 points.
LEMMA ScoreOfNone == ComputeClusterScore({}) = 28000
<1>1. SourceScore({}) = 0
  BY CountOfNone DEF SourceScore, Least
<1>2. CredibilityScore({}) = 0 /\ SpeedScore({}) = 2000
  BY FS_EmptySet DEF CredibilityScore, SpeedScore
<1>3. UNION {Keywords[m] : m \in {}} = {}
  OBVIOUS
<1>4. UrgencyScore({}) = 0
  BY <1>3, FS_EmptySet DEF UrgencyScore, Least
<1>5. QED BY <1>1, <1>2, <1>4 DEF ComputeClusterScore, LeastScore

-----------------------------------------------------------------------------
(* The confidence *)

Hundredths == 0..100

LEMMA DiversityRange ==
  ASSUME Assumptions, NEW S \in SUBSET Messages
  PROVE  Diversity(S) \in Hundredths
<1>1. CASE S = {}
  BY <1>1 DEF Diversity, Hundredths
<1>2. CASE S # {}
  <2>1. PICK n \in Nat : n = Cardinality(SourcesOf(S))
    BY <1>2, SourcesFacts
  <2>2. PICK k \in Nat : k = RecalculateIndependentSources(S)
    BY CountIsNat DEF Assumptions
  <2>3. n > 0
    BY <1>2, <2>1, SourcesFacts
  <2>4. (100 * k) \div n \in Nat
    BY <2>3, Quotients
  <2>5. Diversity(S) = Least(100, (100 * k) \div n)
    BY <1>2, <2>1, <2>2 DEF Diversity
  <2>6. QED BY <2>4, <2>5 DEF Least, Hundredths
<1>3. QED BY <1>1, <1>2

\* The average credibility of messages whose sources have at least weight w,
\* of fifteen.
LEMMA AvgCredibilityRange ==
  ASSUME Assumptions, NEW S \in SUBSET Messages, NEW w \in 1..15,
         \A s \in Sources : w <= Weight[s]
  PROVE  /\ AvgCredibility(S) \in Hundredths
         /\ S # {} => AvgCredibility(S) >= (100 * w) \div 15
<1>1. CASE S = {}
  BY <1>1 DEF AvgCredibility, Hundredths
<1>2. CASE S # {}
  <2> DEFINE W == {Weight[s] : s \in SourcesOf(S)}
             f == [s \in SourcesOf(S) |-> Weight[s]]
  <2>1. IsFiniteSet(SourcesOf(S)) /\ SourcesOf(S) \subseteq Sources /\ SourcesOf(S) # {}
    BY <1>2, SourcesFacts, FS_EmptySet
  <2>2. f \in Surjection(SourcesOf(S), W)
    BY DEF Surjection
  <2>3. IsFiniteSet(W)
    <3> HIDE DEF f, W
    <3>1. QED BY <2>1, <2>2, FS_Surjection
  <2>4. W # {} /\ \A x \in W : x \in Int /\ w <= x /\ x <= 15
    BY <2>1 DEF Assumptions, JudgingAssumption
  <2>5. AvgCredibility(S) = Least(100, (100 * SumSet(W)) \div (15 * Cardinality(W)))
    BY <1>2 DEF AvgCredibility
  <2> HIDE DEF f, W
  <2>6. PICK n \in Nat : n = Cardinality(W) /\ n > 0
    BY <2>3, <2>4, FS_CardinalityType, FS_EmptySet
  <2>7. PICK id : id = [x \in W |-> x]
    OBVIOUS
  <2>8. PICK hi \in Int : hi = 15
    OBVIOUS
  <2>9. PICK t \in Int : t = SumSet(W) /\ w * n <= t
    <3>1. \A x \in W : id[x] \in Int /\ w <= id[x] /\ id[x] <= hi
      BY <2>4, <2>7, <2>8
    <3>2. Total(id, W) \in Int /\ w * Cardinality(W) <= Total(id, W)
      BY <2>3, <3>1, TotalBounds
    <3>3. QED BY <2>3, <2>6, <2>7, <3>2, SumSetIsTotal
  <2>10. w * n \in Nat
    OBVIOUS
  <2>11. t \in Nat /\ 15 * n \in Nat /\ 15 * n > 0 /\ 100 * t \in Nat
    BY <2>6, <2>9, <2>10
  <2>12. PICK q \in Nat : q = (100 * w) \div 15
    BY Quotients
  <2>13. q * 15 <= 100 * w
    BY <2>12
  <2>14. q * (15 * n) <= 100 * t
    <3>1. q * (15 * n) = (q * 15) * n
      OBVIOUS
    <3>2. (q * 15) * n <= (100 * w) * n
      BY <2>13
    <3>3. (100 * w) * n = 100 * (w * n)
      OBVIOUS
    <3>4. 100 * (w * n) <= 100 * t
      BY <2>9, <2>10
    <3>5. QED BY <3>1, <3>2, <3>3, <3>4, <2>10, <2>11
  <2>15. PICK x \in Nat : x = (100 * t) \div (15 * n)
    BY <2>11, Quotients
  <2>16. x >= q
    BY <2>11, <2>14, <2>15, QuotientAtLeast
  <2>17. q <= 100
    BY <2>12
  <2>18. AvgCredibility(S) = Least(100, x)
    BY <2>5, <2>6, <2>9, <2>15
  <2>19. QED BY <2>12, <2>16, <2>17, <2>18 DEF Least, Hundredths
<1>3. QED BY <1>1, <1>2

LEMMA VelocityRange ==
  ASSUME Assumptions, NEW S \in SUBSET Messages, NEW v \in Velocities(S)
  PROVE  v \in Hundredths
<1>1. PICK n \in 0..Cardinality(S), base \in Baselines : v = Least(100, (100 * n) \div base)
  BY DEF Velocities
<1>2. Cardinality(S) \in Nat
  BY FS_Subset, FS_CardinalityType DEF Assumptions, LineageAssumption
<1>3. base \in Nat /\ base > 0
  BY DEF Assumptions, JudgingAssumption
<1>4. 100 * n \in Nat
  BY <1>1, <1>2
<1>5. (100 * n) \div base \in Nat
  BY <1>3, <1>4, Quotients
<1>6. QED BY <1>1, <1>5 DEF Least, Hundredths

StabilityWeights == {5, 15}

LEMMA WeightIsOneOfTwo == ASSUME NEW c PROVE StabilityWeight(c) \in StabilityWeights
  BY DEF StabilityWeight, StabilityWeights

\* The weighted mean of numbers up to a hundred is one of them.
LEMMA MeanRange ==
  ASSUME NEW h \in Hundredths, NEW r \in Hundredths, NEW d \in Hundredths,
         NEW a \in Hundredths, NEW st \in Hundredths, NEW v \in Hundredths,
         NEW k \in StabilityWeights
  PROVE  (25 * h + 20 * r + 15 * 80 + 15 * d + 10 * a + k * st + (15 - k) * v + 50) \div 100
           \in Hundredths
<1>1. (25 * h + 20 * r + 15 * 80 + 15 * d + 10 * a + 5 * st + (15 - 5) * v + 50) \div 100
        \in Hundredths
  BY DEF Hundredths
<1>2. (25 * h + 20 * r + 15 * 80 + 15 * d + 10 * a + 15 * st + (15 - 15) * v + 50) \div 100
        \in Hundredths
  BY DEF Hundredths
<1>3. k = 5 \/ k = 15
  BY DEF StabilityWeights
<1>4. QED BY <1>1, <1>2, <1>3

LEMMA ConfidenceRange ==
  ASSUME Assumptions, NEW S \in SUBSET Messages, NEW h \in Hundredths, NEW r \in Hundredths,
         NEW st \in Hundredths, NEW v \in Velocities(S), NEW k \in StabilityWeights
  PROVE  ComputeClusterConfidence(S, h, r, k, st, v) \in Hundredths
<1>1. PICK w \in 1..15 : w = 1
  OBVIOUS
<1>2. \A s \in Sources : w <= Weight[s]
  BY <1>1 DEF Assumptions, JudgingAssumption
<1>3. PICK a \in Hundredths : a = AvgCredibility(S)
  BY <1>2, AvgCredibilityRange
<1>4. PICK d \in Hundredths : d = Diversity(S)
  BY DiversityRange
<1>5. v \in Hundredths
  BY VelocityRange
<1>6. QED BY <1>3, <1>4, <1>5, MeanRange DEF ComputeClusterConfidence

-----------------------------------------------------------------------------
(* The threshold *)

Values(f, S) == {f[c] : c \in S}

\* v comes at index i when the values of f on S are sorted.
HasRank(f, S, i, v) ==
  /\ Cardinality({c \in S : f[c] < v}) <= i
  /\ Cardinality({c \in S : f[c] <= v}) > i

\* Of the values f takes on a finite set, one has at most i members below it
\* and more than i members up to it, when there are more than i members.
LEMMA OrderStatistic ==
  ASSUME NEW S, IsFiniteSet(S), NEW f, \A c \in S : f[c] \in Nat,
         NEW i \in Nat, i < Cardinality(S)
  PROVE  \E v \in Values(f, S) : HasRank(f, S, i, v)
<1> DEFINE V == {f[c] : c \in S}
           Below(v) == {c \in S : f[c] < v}
           UpToV(v) == {c \in S : f[c] <= v}
           G == {v \in V : Cardinality(UpToV(v)) > i}
<1>1. V \subseteq Nat /\ Cardinality(S) \in Nat /\ S # {}
  BY FS_CardinalityType, FS_EmptySet
<1>2. \A v : /\ IsFiniteSet(UpToV(v)) /\ Cardinality(UpToV(v)) \in Nat
             /\ IsFiniteSet(Below(v)) /\ Cardinality(Below(v)) \in Nat
  BY FS_Subset, FS_CardinalityType
<1>3. ASSUME NEW T \in SUBSET S, T # {}
      PROVE  \E c \in T : \A d \in T : f[d] <= f[c]
  <2> DEFINE W == {f[c] : c \in T}
             g == [c \in T |-> f[c]]
  <2>1. g \in Surjection(T, W) /\ IsFiniteSet(T)
    BY <1>3, FS_Subset DEF Surjection
  <2>2. W # {} /\ W \subseteq Int /\ \A c \in T : f[c] \in W
    BY <1>3
  <2>3. \A x \in W : \E c \in T : f[c] = x
    OBVIOUS
  <2> HIDE DEF W, g
  <2>4. IsFiniteSet(W)
    BY <2>1, FS_Surjection
  <2>5. PICK x \in W : \A y \in W : x >= y
    BY <2>2, <2>4, Extremes
  <2>6. PICK c \in T : f[c] = x
    BY <2>3
  <2>7. \A d \in T : f[d] <= f[c]
    BY <2>2, <2>5, <2>6
  <2>8. QED BY <2>7
<1>4. PICK top \in S : \A d \in S : f[d] <= f[top]
  BY <1>1, <1>3
<1>5. UpToV(f[top]) = S
  BY <1>4
<1>6. f[top] \in G
  BY <1>5
<1>7. PICK v \in G : \A w \in G : v <= w
  <2>1. G # {} /\ G \subseteq Nat
    BY <1>1, <1>6
  <2> HIDE DEF G
  <2>2. QED BY <2>1, LeastNatural
<1>8. v \in V /\ Cardinality(UpToV(v)) > i /\ v \in Nat
  BY <1>1
<1>9. Cardinality(Below(v)) <= i
  <2>1. CASE Below(v) = {}
    <3>1. Cardinality(Below(v)) = 0
      BY <2>1, FS_EmptySet
    <3>2. QED BY <3>1
  <2>2. CASE Below(v) # {}
    <3>1. PICK c \in Below(v) : \A d \in Below(v) : f[d] <= f[c]
      BY <1>3, <2>2
    <3>2. c \in S /\ f[c] \in V /\ f[c] < v /\ f[c] \in Nat
      BY <3>1
    <3>3. Below(v) = UpToV(f[c])
      BY <3>1, <3>2, <1>8
    <3>4. f[c] \notin G
      BY <1>7, <1>8, <3>2
    <3>5. ~ (Cardinality(UpToV(f[c])) > i)
      BY <3>2, <3>4
    <3>6. PICK n \in Nat : n = Cardinality(UpToV(f[c]))
      BY <1>2
    <3>7. n <= i
      BY <3>5, <3>6
    <3>8. QED BY <3>3, <3>6, <3>7
  <2>3. QED BY <2>1, <2>2
<1>10. QED BY <1>8, <1>9 DEF Values, HasRank

\* The percentile is the score of one of the scored clusters.
LEMMA PercentileIsAScore ==
  ASSUME Assumptions, TypeOK, Scored # {}
  PROVE  \E c \in Scored : PercentileValue = score[c] /\ score[c] \in Nat
<1>1. IsFiniteSet(Scored)
  BY FS_Subset DEF Assumptions, JudgingAssumption, Scored
<1>2. \A c \in Scored : score[c] \in Nat
  <2>1. LeastScore \in Nat
    BY DEF LeastScore
  <2>2. \A c \in Scored : score[c] \in LeastScore..GreatestScore
    BY DEF TypeOK, Scored
  <2>3. QED BY <2>1, <2>2
<1>3. PICK n \in Nat : n = Cardinality(Scored) /\ n > 0
  BY <1>1, FS_CardinalityType, FS_EmptySet
<1>4. PICK i \in Nat : i = Least((n * Percentile) \div 100, n - 1) /\ i < n
  <2>1. Percentile \in Nat
    BY DEF Assumptions, JudgingAssumption
  <2>2. PICK x \in Nat : x = (n * Percentile) \div 100
    BY <2>1, Quotients
  <2>3. QED BY <1>3, <2>2 DEF Least
<1>5. \E v \in Values(score, Scored) : HasRank(score, Scored, i, v)
  <2>1. PICK S, f : S = Scored /\ f = score
    OBVIOUS
  <2>2. IsFiniteSet(S) /\ (\A c \in S : f[c] \in Nat) /\ i < Cardinality(S)
    BY <1>1, <1>2, <1>3, <1>4, <2>1
  <2>3. \E v \in Values(f, S) : HasRank(f, S, i, v)
    BY <2>2, OrderStatistic
  <2>4. QED BY <2>1, <2>3
<1>6. PercentileValue \in Values(score, Scored)
  <2>1. PercentileValue = CHOOSE v \in Values(score, Scored) : HasRank(score, Scored, i, v)
    BY <1>3, <1>4 DEF PercentileValue, Values, HasRank
  <2>2. QED BY <1>5, <2>1
<1>7. QED BY <1>2, <1>6 DEF Values

\* The threshold is a number between the lowest and the highest one; and either
\* it is the fixed or the lowest one, or a scored cluster reaches it.
LEMMA ThresholdFacts ==
  ASSUME Assumptions, TypeOK
  PROVE  /\ EffectiveThreshold \in Nat
         /\ EffectiveThreshold >= MinThreshold /\ EffectiveThreshold <= MaxThreshold
         /\ \/ EffectiveThreshold \in {Fallback, MinThreshold}
            \/ \E c \in Scored : score[c] >= EffectiveThreshold
<1>1. /\ Fallback \in Nat /\ MinThreshold \in Nat /\ MaxThreshold \in Nat
      /\ MinThreshold <= Fallback /\ Fallback <= MaxThreshold
  BY DEF Assumptions, JudgingAssumption
<1>2. CASE EffectiveThreshold = Fallback
  BY <1>1, <1>2
<1>3. CASE EffectiveThreshold # Fallback
  <2>1. EffectiveThreshold = Clamp(PercentileValue) /\ ~ (Cardinality(Active) < MinClusters)
    BY <1>3 DEF EffectiveThreshold
  <2>2. Active # {}
    <3>1. MinClusters \in Nat /\ MinClusters > 0
      BY DEF Assumptions, JudgingAssumption
    <3>2. QED BY <2>1, <3>1, FS_EmptySet
  <2>3. Scored # {}
    BY <2>2 DEF Active
  <2>4. PICK c \in Scored : PercentileValue = score[c] /\ score[c] \in Nat
    BY <2>3, PercentileIsAScore
  <2>5. QED BY <1>1, <2>1, <2>4 DEF Clamp, Greatest, Least
<1>4. QED BY <1>2, <1>3

-----------------------------------------------------------------------------
(* Steps *)

Joins(m, c) == MergeIntoCluster(m, c) \/ MergeIntoPublished(m, c) \/ NewCluster(m, c)

\* The AI task's answer, and what follows from it or is done by hand.
Answers(c) == Analyse(c) \/ CheckHold(c) \/ Publish(c) \/ SubmitReview(c) \/ ReprocessCluster(c)

LEMMA JoinIsPlace ==
  ASSUME NEW m, NEW c, Joins(m, c)
  PROVE  \E hybrid \in Similarities \union {70}, rerank \in Similarities \union {70} :
           Place(m, c, hybrid, rerank)
  BY DEF Joins, MergeIntoCluster, MergeIntoPublished, NewCluster

\* Members and metrics change when a message joins and when clusters are split.
LEMMA QuietSteps ==
  ASSUME [Next]_vars
  PROVE  \/ \E m \in Messages, c \in Clusters : Joins(m, c)
         \/ ReconcileOpenClusters
         \/ \E m \in Messages : Arrive(m)
         \/ UNCHANGED <<home, metrics, joined, audit>>
<1>1. ASSUME NEW c \in Clusters, Answers(c) PROVE UNCHANGED <<home, metrics, joined, audit>>
  BY <1>1 DEF Answers, Analyse, CheckHold, Publish, SubmitReview, ReprocessCluster, Act
<1>2. ASSUME TimePasses \/ Restart \/ StartTask \/ UNCHANGED vars
      PROVE  UNCHANGED <<home, metrics, joined, audit>>
  BY <1>2 DEF TimePasses, Restart, StartTask, vars, clusters, metrics
<1>3. CASE JudgeScored
  BY <1>3 DEF JudgeScored
<1>4. QED BY <1>1, <1>2, <1>3 DEF Next, Answers, Joins

\* What an answer leaves, and that it neither scores a cluster nor unmakes one.
LEMMA AnswerSteps ==
  ASSUME TypeOK, NEW c \in Clusters, Answers(c)
  PROVE  /\ UNCHANGED <<home, metrics, joined, audit, uptime, task>>
         /\ status' \in [Clusters -> Statuses]
         /\ queued' \in SUBSET Clusters /\ held' \in SUBSET Clusters /\ acts' \in Nat
         /\ \A d \in Clusters \ {c} : status'[d] = status[d]
         /\ status'[c] \notin {"none", "scored"}
         /\ held' \subseteq held \union {c} /\ queued' \subseteq queued \union {c}
<1>1. ASSUME Analyse(c) \/ CheckHold(c) \/ Publish(c)
      PROVE  \E s \in Statuses \ {"none", "scored"} : status' = [status EXCEPT ![c] = s]
  BY <1>1 DEF Analyse, CheckHold, Publish, Statuses
<1>2. ASSUME SubmitReview(c) \/ ReprocessCluster(c)
      PROVE  \E s \in Statuses \ {"none", "scored"} : status' = [status EXCEPT ![c] = s]
  BY <1>2 DEF SubmitReview, ReprocessCluster, Act, Statuses
<1>3. PICK s \in Statuses \ {"none", "scored"} : status' = [status EXCEPT ![c] = s]
  BY <1>1, <1>2 DEF Answers
<1>4. /\ status' \in [Clusters -> Statuses]
      /\ \A d \in Clusters \ {c} : status'[d] = status[d]
      /\ status'[c] \notin {"none", "scored"}
  BY <1>3 DEF TypeOK
<1>5. /\ UNCHANGED <<home, metrics, joined, audit, uptime, task>>
      /\ held' \subseteq held \union {c} /\ queued' \subseteq queued \union {c}
  BY DEF Answers, Analyse, CheckHold, Publish, SubmitReview, ReprocessCluster, Act
<1>6. acts' \in Nat
  BY DEF Answers, Analyse, CheckHold, Publish, SubmitReview, ReprocessCluster, Act, TypeOK
<1>7. QED BY <1>4, <1>5, <1>6 DEF TypeOK

-----------------------------------------------------------------------------
(* The split of open clusters *)

Movable == {m \in Messages : home[m] \in Clusters /\ status[home[m]] \in OpenStatuses}
Unused  == {c \in Clusters : status[c] = "none"}

Homes(moved)   == {home[m] : m \in moved}
Opened(moved, to) == {to[m] : m \in moved}

Reconciled(moved, to) ==
  /\ \A c \in Homes(moved) : Members(c) \ moved # {}
  /\ home'   = [m \in Messages |-> IF m \in moved THEN to[m] ELSE home[m]]
  /\ joined' = [c \in Clusters |-> joined[c] \union {m \in moved : to[m] = c}]
  /\ status' = [c \in Clusters |-> IF c \in Opened(moved, to) THEN "pending" ELSE status[c]]
  /\ stability' = [c \in Clusters |-> IF c \in Homes(moved) \union Opened(moved, to)
                                      THEN ComputeClusterStability(c) ELSE stability[c]]
  /\ \E speed \in [Homes(moved) \union Opened(moved, to) ->
                     UNION {Velocities(Members(c) \ moved) : c \in Homes(moved)}] :
       /\ \A c \in Homes(moved) \union Opened(moved, to) :
            speed[c] \in Velocities(Members(c) \ moved)
       /\ confidence' = [c \in Clusters |->
            IF c \in Homes(moved) \union Opened(moved, to)
            THEN ComputeClusterConfidence(Members(c) \ moved, 70, 70, StabilityWeight(c),
                                           stability'[c], speed[c])
            ELSE confidence[c]]

LEMMA ReconcileShape ==
  ASSUME ReconcileOpenClusters
  PROVE  \E moved \in SUBSET Movable : \E to \in [moved -> Unused] : Reconciled(moved, to)
  BY Zenon DEF ReconcileOpenClusters, Movable, Unused, Homes, Opened, Reconciled

-----------------------------------------------------------------------------
(* Stability *)

\* update_cluster_confidence_metrics looks for rows of entity type cluster;
\* merges and new clusters are audited under the message.
AuditInv == \A r \in audit : r.entity_type = "message"

StableInv ==
  /\ AuditInv
  /\ stability \in [Clusters -> {100, Nothing}]

LEMMA NoRowsNoLoss ==
  ASSUME AuditInv, NEW c \in Clusters PROVE ComputeClusterStability(c) = 100
<1>1. {r \in audit : r.entity_type = "cluster" /\ r.entity_id = c} = {}
  BY DEF AuditInv
<1>2. Cardinality({r \in audit : r.entity_type = "cluster" /\ r.entity_id = c}) = 0
  BY <1>1, FS_EmptySet
<1>3. QED BY <1>2 DEF ComputeClusterStability, Greatest

LEMMA PlaceStable ==
  ASSUME StableInv, NEW m \in Messages, NEW c \in Clusters, NEW hybrid, NEW rerank,
         Place(m, c, hybrid, rerank)
  PROVE  StableInv'
<1>1. audit' = audit \union {AuditRow(m, c)}
  BY DEF Place
<1>2. AuditInv'
  BY <1>1 DEF StableInv, AuditInv, AuditRow
<1>3. stability' = [stability EXCEPT ![c] = ComputeClusterStability(c)]
  BY DEF Place
<1>4. ComputeClusterStability(c) = 100
  BY NoRowsNoLoss DEF StableInv
<1>5. stability' \in [Clusters -> {100, Nothing}]
  BY <1>3, <1>4 DEF StableInv
<1>6. QED BY <1>2, <1>5 DEF StableInv

LEMMA NextStable ==
  ASSUME StableInv, [Next]_vars PROVE StableInv'
<1>1. ASSUME NEW m \in Messages, NEW c \in Clusters, Joins(m, c)
      PROVE  StableInv'
  <2>1. PICK hybrid, rerank : Place(m, c, hybrid, rerank)
    BY <1>1, JoinIsPlace
  <2>2. QED BY <2>1, PlaceStable
<1>2. CASE ReconcileOpenClusters
  <2>1. PICK moved, to : Reconciled(moved, to)
    BY <1>2, ReconcileShape, Zenon
  <2>2. audit' = audit
    BY <1>2 DEF ReconcileOpenClusters
  <2>3. stability' = [c \in Clusters |-> IF c \in Homes(moved) \union Opened(moved, to)
                                         THEN ComputeClusterStability(c) ELSE stability[c]]
    BY <2>1, Zenon DEF Reconciled
  <2>4. \A c \in Clusters : ComputeClusterStability(c) = 100
    BY NoRowsNoLoss DEF StableInv
  <2>5. stability' \in [Clusters -> {100, Nothing}]
    BY <2>3, <2>4 DEF StableInv
  <2>6. QED BY <2>2, <2>5 DEF StableInv, AuditInv
<1>3. ASSUME UNCHANGED <<metrics, audit>> PROVE StableInv'
  BY <1>3 DEF StableInv, AuditInv, metrics
<1>4. ASSUME NEW m \in Messages, Arrive(m) PROVE StableInv'
  BY <1>3, <1>4 DEF Arrive, clusters
<1>5. QED BY <1>1, <1>2, <1>3, <1>4, QuietSteps

-----------------------------------------------------------------------------
(* Types *)

LEMMA MembersAreMessages ==
  ASSUME NEW c PROVE Members(c) \in SUBSET Messages
  BY DEF Members

LEMMA SimilaritiesAreHundredths ==
  ASSUME Assumptions PROVE Similarities \subseteq Hundredths /\ 70 \in Hundredths
  BY DEF Assumptions, JudgingAssumption, Hundredths

LEMMA InitTypes == ASSUME Init PROVE TypeOK
  BY DEF Init, TypeOK, Statuses

LEMMA PlaceTypes ==
  ASSUME Assumptions, TypeOK, StableInv, NEW m \in Messages, NEW c \in Clusters,
         NEW hybrid \in Hundredths, NEW rerank \in Hundredths,
         Place(m, c, hybrid, rerank), status' \in [Clusters -> Statuses],
         score' \in [Clusters -> LeastScore..GreatestScore \union {Nothing}],
         debug' \in [Clusters -> [hybrid : Similarities, rerank : Similarities] \union {Nothing}],
         developing' \subseteq Clusters
  PROVE  TypeOK'
<1>1. PICK S \in SUBSET Messages : S = Visible(m, c)
  BY MembersAreMessages DEF Visible
<1>2. home' \in [Messages -> Clusters \union {"absent", "pending"}]
  BY DEF Place, TypeOK
<1>3. joined' \in [Clusters -> SUBSET Messages]
  BY DEF Place, TypeOK
<1>5. stability' = [stability EXCEPT ![c] = 100]
  <2>1. ComputeClusterStability(c) = 100
    BY NoRowsNoLoss DEF StableInv
  <2>2. QED BY <2>1 DEF Place
<1>6. stability' \in [Clusters -> 0..100 \union {Nothing}]
  BY <1>5 DEF TypeOK
<1>7. confidence' \in [Clusters -> 0..100 \union {Nothing}]
  <2>1. stability'[c] = 100 /\ 100 \in Hundredths
    BY <1>5 DEF TypeOK, Hundredths
  <2>2. PICK v \in Velocities(S) :
          confidence' = [confidence EXCEPT ![c] =
            ComputeClusterConfidence(S, hybrid, rerank, StabilityWeight(c), stability'[c], v)]
    BY <1>1 DEF Place
  <2>3. PICK st \in Hundredths : st = stability'[c]
    BY <2>1
  <2>4. PICK x \in Hundredths :
          x = ComputeClusterConfidence(S, hybrid, rerank, StabilityWeight(c), st, v)
    BY ConfidenceRange, WeightIsOneOfTwo
  <2>5. confidence' = [confidence EXCEPT ![c] = x]
    BY <2>2, <2>3, <2>4
  <2>6. QED BY <2>5 DEF TypeOK, Hundredths
<1>8. audit' \subseteq [entity_type : {"message", "cluster"},
                        entity_id : Messages \union Clusters, message : Messages]
  BY DEF Place, TypeOK, AuditRow
<1>9. /\ inbox' \subseteq Messages
      /\ UNCHANGED <<queued, held, acts, uptime, job, threshold>>
  BY DEF Place, TypeOK
<1>10. QED BY <1>2, <1>3, <1>6, <1>7, <1>8, <1>9 DEF TypeOK

LEMMA ScoreTypes ==
  ASSUME Assumptions, TypeOK, NEW m, NEW c \in Clusters, ScoreCluster(c, Visible(m, c))
  PROVE  /\ status' \in [Clusters -> Statuses]
         /\ score' \in [Clusters -> LeastScore..GreatestScore \union {Nothing}]
<1>1. PICK x \in LeastScore..GreatestScore : x = ComputeClusterScore(Visible(m, c))
  BY ScoreRange, MembersAreMessages DEF Visible
<1>2. score' = [score EXCEPT ![c] = x] /\ status' = [status EXCEPT ![c] = "scored"]
  BY <1>1 DEF ScoreCluster
<1>3. QED BY <1>2 DEF TypeOK, Statuses

LEMMA ReconcileTypes ==
  ASSUME Assumptions, TypeOK, StableInv, ReconcileOpenClusters PROVE TypeOK'
<1>a. PICK moved \in SUBSET Movable : \E to \in [moved -> Unused] : Reconciled(moved, to)
  BY ReconcileShape, Zenon
<1>1. PICK to \in [moved -> Unused] : Reconciled(moved, to)
  BY <1>a
<1> DEFINE taken == Homes(moved) \union Opened(moved, to)
<1>2. /\ home'   = [m \in Messages |-> IF m \in moved THEN to[m] ELSE home[m]]
      /\ joined' = [c \in Clusters |-> joined[c] \union {m \in moved : to[m] = c}]
      /\ status' = [c \in Clusters |-> IF c \in Opened(moved, to) THEN "pending" ELSE status[c]]
      /\ stability' = [c \in Clusters |-> IF c \in taken
                                          THEN ComputeClusterStability(c) ELSE stability[c]]
  BY <1>1, Zenon DEF Reconciled
<1>3. PICK speed :
        /\ \A c \in taken : speed[c] \in Velocities(Members(c) \ moved)
        /\ confidence' = [c \in Clusters |->
             IF c \in taken
             THEN ComputeClusterConfidence(Members(c) \ moved, 70, 70, StabilityWeight(c),
                                           stability'[c], speed[c])
             ELSE confidence[c]]
  BY <1>1, Zenon DEF Reconciled
<1>4. \A c \in Clusters : ComputeClusterStability(c) = 100
  BY NoRowsNoLoss DEF StableInv
<1> HIDE DEF taken
<1>5. stability' \in [Clusters -> 0..100 \union {Nothing}]
  BY <1>2, <1>4 DEF TypeOK
<1>6. ASSUME NEW c \in Clusters, c \in taken
      PROVE  confidence'[c] \in 0..100
  <2>1. PICK S \in SUBSET Messages : S = Members(c) \ moved
    BY MembersAreMessages
  <2>2. PICK st \in Hundredths, d \in Hundredths : st = stability'[c] /\ d = 70
    BY <1>2, <1>4, <1>6 DEF Hundredths
  <2>3. speed[c] \in Velocities(S)
    BY <1>3, <1>6, <2>1
  <2>4. ComputeClusterConfidence(S, d, d, StabilityWeight(c), st, speed[c]) \in Hundredths
    BY <2>3, ConfidenceRange, WeightIsOneOfTwo
  <2>5. confidence'[c] = ComputeClusterConfidence(S, d, d, StabilityWeight(c), st, speed[c])
    BY <1>3, <1>6, <2>1, <2>2
  <2>6. QED BY <2>4, <2>5 DEF Hundredths
<1>7. confidence' \in [Clusters -> 0..100 \union {Nothing}]
  <2>1. ASSUME NEW c \in Clusters PROVE confidence'[c] \in 0..100 \union {Nothing}
    BY <1>3, <1>6, <2>1 DEF TypeOK
  <2>2. QED BY <1>3, <2>1
<1>8. home' \in [Messages -> Clusters \union {"absent", "pending"}]
  BY <1>2 DEF TypeOK, Unused, Movable
<1>9. joined' \in [Clusters -> SUBSET Messages]
  BY <1>2 DEF TypeOK, Movable
<1>10. status' \in [Clusters -> Statuses]
  BY <1>2 DEF TypeOK, Statuses
<1>11. UNCHANGED <<score, debug, developing, queued, held, audit, acts, uptime, job, inbox, threshold>>
  BY DEF ReconcileOpenClusters, task
<1>12. QED BY <1>5, <1>7, <1>8, <1>9, <1>10, <1>11 DEF TypeOK

LEMMA NextTypes ==
  ASSUME Assumptions, TypeOK, StableInv, [Next]_vars PROVE TypeOK'
<1>1. ASSUME NEW m \in Messages, NEW c \in Clusters, MergeIntoCluster(m, c)
      PROVE  TypeOK'
  <2>1. PICK hybrid \in Similarities, rerank \in Similarities :
          /\ Place(m, c, hybrid, rerank)
          /\ debug' = [debug EXCEPT ![c] = [hybrid |-> hybrid, rerank |-> rerank]]
    BY <1>1 DEF MergeIntoCluster
  <2>2. hybrid \in Hundredths /\ rerank \in Hundredths
    BY SimilaritiesAreHundredths
  <2>3. debug' \in [Clusters -> [hybrid : Similarities, rerank : Similarities] \union {Nothing}]
    BY <2>1 DEF TypeOK
  <2>4. ScoreCluster(c, Visible(m, c))
    BY <1>1 DEF MergeIntoCluster
  <2>5. developing' \subseteq Clusters
    BY <1>1 DEF MergeIntoCluster, TypeOK
  <2>6. QED BY <2>1, <2>2, <2>3, <2>4, <2>5, ScoreTypes, PlaceTypes
<1>2. ASSUME NEW m \in Messages, NEW c \in Clusters, NewCluster(m, c) \/ MergeIntoPublished(m, c)
      PROVE  TypeOK'
  <2>1. Place(m, c, 70, 70) /\ debug' = debug
    BY <1>2 DEF NewCluster, MergeIntoPublished
  <2>2. debug' \in [Clusters -> [hybrid : Similarities, rerank : Similarities] \union {Nothing}]
    BY <2>1 DEF TypeOK
  <2>3. /\ status' \in [Clusters -> Statuses]
        /\ score' \in [Clusters -> LeastScore..GreatestScore \union {Nothing}]
    <3>1. CASE NewCluster(m, c)
      BY <3>1, ScoreTypes DEF NewCluster
    <3>2. CASE MergeIntoPublished(m, c)
      BY <3>2 DEF MergeIntoPublished, TypeOK, Statuses
    <3>3. QED BY <1>2, <3>1, <3>2
  <2>4. PICK d \in Hundredths : d = 70
    BY SimilaritiesAreHundredths
  <2>5. Place(m, c, d, d)
    BY <2>1, <2>4
  <2>6. developing' \subseteq Clusters
    BY <1>2 DEF NewCluster, MergeIntoPublished, TypeOK
  <2>7. QED BY <2>2, <2>3, <2>5, <2>6, PlaceTypes
<1>3. ASSUME NEW m \in Messages, Arrive(m) PROVE TypeOK'
  BY <1>3 DEF Arrive, TypeOK, clusters, metrics, task
<1>4. CASE TimePasses
  BY <1>4 DEF TimePasses, TypeOK, clusters, metrics, task
<1>5. CASE Restart
  BY <1>5 DEF Restart, EndTask, TypeOK, clusters, metrics
<1>6. CASE StartTask
  <2>1. EffectiveThreshold \in Nat
    BY ThresholdFacts
  <2>2. QED BY <1>6, <2>1 DEF StartTask, TypeOK, clusters, metrics
<1>7. CASE JudgeScored
  <2>1. status' \in [Clusters -> Statuses]
    BY <1>7 DEF JudgeScored, TypeOK, Statuses
  <2>2. QED BY <1>7, <2>1 DEF JudgeScored, EndTask, TypeOK, metrics
<1>8. ASSUME NEW c \in Clusters, Answers(c) PROVE TypeOK'
  <2>1. /\ UNCHANGED <<home, metrics, joined, audit, uptime, task>>
        /\ status' \in [Clusters -> Statuses]
        /\ queued' \in SUBSET Clusters /\ held' \in SUBSET Clusters /\ acts' \in Nat
    BY <1>8, AnswerSteps
  <2>2. QED BY <2>1 DEF TypeOK, metrics, task
<1>9. CASE UNCHANGED vars
  BY <1>9 DEF TypeOK, vars
<1>10. QED BY <1>1, <1>2, <1>3, <1>4, <1>5, <1>6, <1>7, <1>8, <1>9, ReconcileTypes
           DEF Next, Answers

\* Types, with the ranges of the numbers: a score is between one point and ten
\* whatever the weights and however many messages and keywords; confidence and
\* stability are percentages; the threshold is always a number, the percentile
\* being found whenever it is asked for.
THEOREM SpecTypeOK == ASSUME Assumptions PROVE Spec => []TypeOK
<1>1. Init => TypeOK /\ StableInv
  BY InitTypes DEF Init, StableInv, AuditInv
<1>2. TypeOK /\ StableInv /\ [Next]_vars => TypeOK' /\ StableInv'
  BY NextTypes, NextStable
<1>3. QED BY <1>1, <1>2, PTL DEF Spec

\* The task begins, ends, is cut short, or goes on with the threshold it has.
LEMMA TaskSteps ==
  ASSUME TypeOK, [Next]_vars
  PROVE  StartTask \/ JudgeScored \/ Restart \/ (job' = job /\ threshold' = threshold)
<1>1. ASSUME NEW m \in Messages, NEW c \in Clusters, Joins(m, c)
      PROVE  job' = job /\ threshold' = threshold
  BY <1>1 DEF Joins, MergeIntoCluster, MergeIntoPublished, NewCluster, Place
<1>2. ASSUME NEW m \in Messages, Arrive(m) PROVE job' = job /\ threshold' = threshold
  BY <1>2 DEF Arrive, task
<1>3. ASSUME NEW c \in Clusters, Answers(c) PROVE job' = job /\ threshold' = threshold
  BY <1>3, AnswerSteps DEF task
<1>4. ASSUME TimePasses \/ ReconcileOpenClusters \/ UNCHANGED vars
      PROVE  job' = job /\ threshold' = threshold
  BY <1>4 DEF TimePasses, ReconcileOpenClusters, task, vars
<1>5. QED BY <1>1, <1>2, <1>3, <1>4 DEF Next, Joins, Answers

LEMMA ThresholdSteps ==
  ASSUME TypeOK, [Next]_vars PROVE StartTask \/ threshold' \in {threshold, Nothing}
  BY TaskSteps DEF Restart, JudgeScored, EndTask

\* The threshold is computed when the task begins and is kept until it ends.
\* Unless it is the fixed or the lowest one, a scored cluster reaches it then:
\* the percentile of effective_threshold never shuts every story out.
THEOREM SomeStoryPasses == ASSUME Assumptions PROVE Spec => TopStoryPasses
<1>1. TypeOK /\ [Next]_vars =>
        [threshold = Nothing /\ threshold' # Nothing =>
           \/ threshold' \in {Fallback, MinThreshold}
           \/ \E c \in Scored : score[c] >= threshold']_vars
  <2> SUFFICES ASSUME TypeOK, [Next]_vars, threshold = Nothing, threshold' # Nothing
               PROVE  \/ threshold' \in {Fallback, MinThreshold}
                      \/ \E c \in Scored : score[c] >= threshold'
    OBVIOUS
  <2>1. StartTask
    BY ThresholdSteps
  <2>2. QED BY <2>1, ThresholdFacts DEF StartTask
<1>2. QED BY <1>1, SpecTypeOK, PTL DEF Spec, TopStoryPasses

\* However the scores lie, the task judges by a threshold between the lowest
\* and the highest of the settings: the clamps of effective_threshold hold for
\* the percentile, and the fixed threshold is between them.
InBounds == threshold # Nothing => threshold >= MinThreshold /\ threshold <= MaxThreshold

THEOREM ThresholdInBounds == ASSUME Assumptions PROVE Spec => []InBounds
<1>1. Init => InBounds
  BY DEF Init, InBounds
<1>2. TypeOK /\ InBounds /\ [Next]_vars => InBounds'
  <2> SUFFICES ASSUME TypeOK, InBounds, [Next]_vars PROVE InBounds'
    OBVIOUS
  <2>1. CASE StartTask
    BY <2>1, ThresholdFacts DEF StartTask, InBounds
  <2>2. CASE threshold' \in {threshold, Nothing}
    BY <2>2 DEF InBounds
  <2>3. QED BY <2>1, <2>2, ThresholdSteps
<1>3. QED BY <1>1, <1>2, SpecTypeOK, PTL DEF Spec

-----------------------------------------------------------------------------
(* Who is in a cluster *)

Waiting == {m \in Messages : home[m] = "pending"}

\* What the task has yet to place is still waiting; a cluster has a row exactly
\* when it has messages, and whoever is in it once joined it.
MembersInv ==
  /\ inbox \subseteq Waiting
  /\ \A c \in Clusters : status[c] = "none" <=> Members(c) = {}
  /\ \A c \in Clusters : Members(c) \subseteq joined[c]
  /\ \A c \in held \union queued : status[c] # "none"

SameMembers == \A d \in Clusters : Members(d)' = Members(d)

LEMMA PlaceMembers ==
  ASSUME Assumptions, TypeOK, MembersInv, NEW m \in inbox, NEW c \in Clusters,
         NEW hybrid, NEW rerank, Place(m, c, hybrid, rerank)
  PROVE  /\ m \notin Members(c)
         /\ Members(c)' = Members(c) \union {m}
         /\ \A d \in Clusters \ {c} : Members(d)' = Members(d)
<1>1. home' = [home EXCEPT ![m] = c]
  BY DEF Place
<1>2. m \in Messages /\ home[m] = "pending"
  BY DEF MembersInv, Waiting
<1>3. \A d \in Clusters : home[m] # d
  BY <1>2 DEF Assumptions, JudgingAssumption
<1>4. \A n \in Messages : home'[n] = IF n = m THEN c ELSE home[n]
  BY <1>1 DEF TypeOK
<1>5. QED BY <1>2, <1>3, <1>4 DEF Members

\* The messages of a cluster that was split are those that stay; a cluster that
\* was opened has its message; the other clusters are left alone.
LEMMA ReconcileMembers ==
  ASSUME Assumptions, TypeOK, MembersInv, NEW moved \in SUBSET Movable,
         NEW to \in [moved -> Unused], Reconciled(moved, to)
  PROVE  /\ \A c \in Clusters : c \notin Opened(moved, to) => Members(c)' = Members(c) \ moved
         /\ \A c \in Opened(moved, to) : /\ c \in Clusters /\ status[c] = "none"
                                         /\ Members(c)' = {m \in moved : to[m] = c}
                                         /\ Members(c)' # {}
         /\ \A c \in Clusters : c \notin Homes(moved) => Members(c) \ moved = Members(c)
         /\ \A c \in Homes(moved) : c \in Clusters /\ status[c] # "none"
<1>1. home' = [m \in Messages |-> IF m \in moved THEN to[m] ELSE home[m]]
  BY Zenon DEF Reconciled
<1>2. moved \subseteq Messages /\ \A m \in moved : home[m] \in Clusters /\ to[m] \in Unused
  BY DEF Movable
<1>3. ASSUME NEW c \in Clusters
      PROVE  Members(c)' = (Members(c) \ moved) \union {m \in moved : to[m] = c}
  BY <1>1, <1>2 DEF Members, TypeOK
<1>4. ASSUME NEW c \in Clusters, c \notin Opened(moved, to)
      PROVE  Members(c)' = Members(c) \ moved
  BY <1>3, <1>4 DEF Opened
<1>5. ASSUME NEW c \in Opened(moved, to)
      PROVE  /\ c \in Clusters /\ status[c] = "none"
             /\ Members(c)' = {m \in moved : to[m] = c} /\ Members(c)' # {}
  <2>1. c \in Clusters /\ status[c] = "none" /\ \E m \in moved : to[m] = c
    BY <1>2 DEF Opened, Unused
  <2>2. Members(c) = {}
    BY <2>1 DEF MembersInv
  <2>3. QED BY <1>3, <2>1, <2>2
<1>6. ASSUME NEW c \in Clusters, c \notin Homes(moved)
      PROVE  Members(c) \ moved = Members(c)
  BY <1>6 DEF Homes, Members
<1>7. ASSUME NEW c \in Homes(moved) PROVE c \in Clusters /\ status[c] # "none"
  BY DEF Homes, Movable, OpenStatuses
<1>8. QED BY <1>4, <1>5, <1>6, <1>7

LEMMA ArriveMembers ==
  ASSUME Assumptions, TypeOK, NEW m \in Messages, Arrive(m)
  PROVE  SameMembers /\ Waiting \subseteq Waiting'
<1>1. home[m] = "absent" /\ home' = [home EXCEPT ![m] = "pending"]
  BY DEF Arrive
<1>2. \A n \in Messages : home'[n] = IF n = m THEN "pending" ELSE home[n]
  BY <1>1 DEF TypeOK
<1>3. \A d \in Clusters : d # "pending" /\ d # "absent"
  BY DEF Assumptions, JudgingAssumption
<1>4. QED BY <1>1, <1>2, <1>3 DEF SameMembers, Members, Waiting

LEMMA InitMembers == ASSUME Assumptions, Init PROVE MembersInv
<1>1. \A c \in Clusters : Members(c) = {}
  BY DEF Init, Members, Assumptions, JudgingAssumption
<1>2. QED BY <1>1 DEF Init, MembersInv, Waiting

\* A step that places a message.
LEMMA PlaceKeepsMembers ==
  ASSUME Assumptions, TypeOK, MembersInv, NEW m \in inbox, NEW c \in Clusters,
         NEW hybrid, NEW rerank, Place(m, c, hybrid, rerank),
         NEW s, s # "none", status' = [status EXCEPT ![c] = s]
  PROVE  MembersInv'
<1>1. /\ inbox' = inbox \ {m} /\ home' = [home EXCEPT ![m] = c]
      /\ joined' = [joined EXCEPT ![c] = @ \union {m}]
      /\ held' = held /\ queued' = queued
  BY DEF Place
<1>2. inbox' \subseteq Waiting'
  BY <1>1 DEF MembersInv, Waiting, TypeOK
<1>3. \A d \in Clusters \ {c} : /\ status'[d] = status[d] /\ Members(d)' = Members(d)
                                /\ joined'[d] = joined[d]
  BY <1>1, PlaceMembers DEF TypeOK
<1>4. /\ status'[c] = s /\ Members(c)' = Members(c) \union {m}
      /\ joined'[c] = joined[c] \union {m}
  BY <1>1, PlaceMembers DEF TypeOK
<1>5. \A d \in Clusters : status'[d] = "none" <=> Members(d)' = {}
  BY <1>3, <1>4 DEF MembersInv
<1>6. \A d \in Clusters : Members(d)' \subseteq joined'[d]
  BY <1>3, <1>4 DEF MembersInv
<1>7. \A d \in held' \union queued' : status'[d] # "none"
  BY <1>1, <1>3, <1>4 DEF MembersInv, TypeOK
<1>8. QED BY <1>2, <1>5, <1>6, <1>7 DEF MembersInv

LEMMA JoinKeepsMembers ==
  ASSUME Assumptions, TypeOK, MembersInv, NEW m \in Messages, NEW c \in Clusters, Joins(m, c)
  PROVE  MembersInv'
<1>1. PICK hybrid, rerank : Place(m, c, hybrid, rerank)
  BY JoinIsPlace
<1>2. m \in inbox
  BY DEF Joins, MergeIntoCluster, MergeIntoPublished, NewCluster, NextMessage
<1>3. PICK s : s # "none" /\ status' = [status EXCEPT ![c] = s]
  BY DEF Joins, MergeIntoCluster, MergeIntoPublished, NewCluster, ScoreCluster
<1>4. QED BY <1>1, <1>2, <1>3, PlaceKeepsMembers

LEMMA ReconcileKeepsMembers ==
  ASSUME Assumptions, TypeOK, MembersInv, ReconcileOpenClusters
  PROVE  MembersInv'
<1>a. PICK moved \in SUBSET Movable : \E to \in [moved -> Unused] : Reconciled(moved, to)
  BY ReconcileShape, Zenon
<1>1. PICK to \in [moved -> Unused] : Reconciled(moved, to)
  BY <1>a
<1>2. /\ home'   = [m \in Messages |-> IF m \in moved THEN to[m] ELSE home[m]]
      /\ joined' = [c \in Clusters |-> joined[c] \union {m \in moved : to[m] = c}]
      /\ status' = [c \in Clusters |-> IF c \in Opened(moved, to) THEN "pending" ELSE status[c]]
      /\ \A c \in Homes(moved) : Members(c) \ moved # {}
  BY <1>1, Zenon DEF Reconciled
<1>3. inbox' = inbox /\ held' = held /\ queued' = queued
  BY DEF ReconcileOpenClusters, task
<1>4. inbox' \subseteq Waiting'
  <2>1. "pending" \notin Clusters
    BY DEF Assumptions, JudgingAssumption
  <2>2. \A m \in inbox : m \in Messages /\ m \notin moved /\ home[m] = "pending"
    BY <2>1 DEF MembersInv, Waiting, Movable
  <2>3. QED BY <1>2, <1>3, <2>2 DEF Waiting
<1>5. /\ \A c \in Clusters : c \notin Opened(moved, to) => Members(c)' = Members(c) \ moved
      /\ \A c \in Opened(moved, to) : /\ c \in Clusters /\ status[c] = "none"
                                      /\ Members(c)' = {m \in moved : to[m] = c}
                                      /\ Members(c)' # {}
      /\ \A c \in Clusters : c \notin Homes(moved) => Members(c) \ moved = Members(c)
      /\ \A c \in Homes(moved) : c \in Clusters /\ status[c] # "none"
  BY <1>1, ReconcileMembers
<1>6. ASSUME NEW c \in Clusters
      PROVE  /\ status'[c] = "none" <=> Members(c)' = {}
             /\ Members(c)' \subseteq joined'[c]
  <2>1. CASE c \in Opened(moved, to)
    BY <1>2, <1>5, <2>1
  <2>2. CASE c \notin Opened(moved, to)
    <3>1. status'[c] = status[c] /\ Members(c)' = Members(c) \ moved
      BY <1>2, <1>5, <2>2
    <3>2. Members(c)' = {} <=> Members(c) = {}
      BY <1>2, <1>5, <3>1
    <3>3. QED BY <1>2, <3>1, <3>2 DEF MembersInv
  <2>3. QED BY <2>1, <2>2
<1>7. \A c \in held' \union queued' : status'[c] # "none"
  BY <1>2, <1>3 DEF MembersInv, TypeOK
<1>8. QED BY <1>4, <1>6, <1>7 DEF MembersInv

LEMMA NextMembers ==
  ASSUME Assumptions, TypeOK, MembersInv, [Next]_vars PROVE MembersInv'
<1>1. ASSUME NEW m \in Messages, Arrive(m) PROVE MembersInv'
  BY <1>1, ArriveMembers DEF Arrive, MembersInv, SameMembers, clusters, task
<1>2. ASSUME TimePasses \/ UNCHANGED vars PROVE MembersInv'
  BY <1>2 DEF TimePasses, MembersInv, Members, Waiting, vars, clusters, task
<1>3. ASSUME Restart \/ StartTask PROVE MembersInv'
  BY <1>3 DEF Restart, StartTask, EndTask, MembersInv, Members, Waiting, clusters
<1>4. CASE JudgeScored
  <2>1. \A c \in Clusters : status'[c] = "none" <=> status[c] = "none"
    BY <1>4 DEF JudgeScored
  <2>2. inbox' = {} /\ UNCHANGED <<home, held, queued, joined>>
    BY <1>4 DEF JudgeScored, EndTask
  <2>3. QED BY <2>1, <2>2 DEF MembersInv, Members, TypeOK
<1>5. ASSUME NEW c \in Clusters, Answers(c) PROVE MembersInv'
  <2>1. status[c] # "none"
    BY <1>5 DEF Answers, Analyse, CheckHold, Publish, SubmitReview, ReprocessCluster, Act,
                MembersInv
  <2>2. /\ \A d \in Clusters \ {c} : status'[d] = status[d]
        /\ status'[c] # "none"
        /\ held' \subseteq held \union {c} /\ queued' \subseteq queued \union {c}
        /\ held' \in SUBSET Clusters /\ queued' \in SUBSET Clusters
        /\ UNCHANGED <<home, joined, inbox>>
    BY <1>5, AnswerSteps DEF task
  <2>3. \A d \in Clusters : status'[d] = "none" <=> status[d] = "none"
    BY <2>1, <2>2
  <2>4. \A d \in held' \union queued' : status'[d] # "none"
    BY <2>2 DEF MembersInv
  <2>5. QED BY <2>2, <2>3, <2>4 DEF MembersInv, Members, Waiting
<1>6. QED BY <1>1, <1>2, <1>3, <1>4, <1>5, JoinKeepsMembers, ReconcileKeepsMembers
          DEF Next, Joins, Answers

BaseInv == TypeOK /\ StableInv /\ MembersInv

LEMMA SpecBase == ASSUME Assumptions PROVE Spec => []BaseInv
<1>1. Init => BaseInv
  BY InitTypes, InitMembers DEF Init, BaseInv, StableInv, AuditInv
<1>2. BaseInv /\ [Next]_vars => BaseInv'
  BY NextTypes, NextStable, NextMembers DEF BaseInv
<1>3. QED BY <1>1, <1>2, PTL DEF Spec

-----------------------------------------------------------------------------
(* News of one message *)

Several(c) == \E m, n \in joined[c] : m # n

\* What the task judges by is at least the lowest threshold; a cluster that is to
\* be judged has had several messages or has the score of none.
PassedInv ==
  /\ job = "placing" => threshold \in Nat /\ threshold >= MinThreshold
  /\ \A c \in Clusters : status[c] = "scored" => Several(c) \/ score[c] = 28000

LEMMA SeveralAreTwo ==
  ASSUME Assumptions, TypeOK, NEW c \in Clusters, Several(c) PROVE Cardinality(joined[c]) >= 2
<1>1. PICK m \in joined[c], n \in joined[c] : m # n
  BY DEF Several
<1>2. IsFiniteSet(joined[c])
  BY FS_Subset DEF Assumptions, LineageAssumption, TypeOK
<1>3. Cardinality({m}) = 1 /\ IsFiniteSet({m})
  BY FS_Singleton
<1>4. Cardinality({m} \union {n}) = 2
  BY <1>1, <1>3, FS_AddElement
<1>5. Cardinality({m} \union {n}) <= Cardinality(joined[c])
  BY <1>1, <1>2, FS_Subset
<1>6. QED BY <1>2, <1>4, <1>5, FS_CardinalityType

\* A step that leaves who had which messages, and the task or its threshold,
\* and scores nothing.
LEMMA QuietPassed ==
  ASSUME PassedInv, TypeOK, \A c \in Clusters : joined[c] \subseteq joined'[c], score' = score,
         \A c \in Clusters : status'[c] = "scored" => status[c] = "scored",
         job' = "placing" => threshold' \in Nat /\ threshold' >= MinThreshold
  PROVE  PassedInv'
<1>1. \A c \in Clusters : Several(c) => Several(c)'
  BY DEF Several
<1>2. QED BY <1>1 DEF PassedInv

\* A message that is scored with a cluster makes it one of several, but for the
\* first.
LEMMA ScoredJoinPassed ==
  ASSUME Assumptions, BaseInv, PassedInv, NEW m \in Messages, NEW c \in Clusters,
         MergeIntoCluster(m, c) \/ NewCluster(m, c)
  PROVE  PassedInv'
<1>1. /\ status' = [status EXCEPT ![c] = "scored"]
      /\ score' = [score EXCEPT ![c] = ComputeClusterScore(Members(c))]
      /\ joined' = [joined EXCEPT ![c] = @ \union {m}]
      /\ job' = job /\ threshold' = threshold /\ m \in inbox
  BY DEF MergeIntoCluster, NewCluster, NextMessage, Place, ScoreCluster, Visible
<1>2. m \notin Members(c) /\ Members(c) \subseteq joined[c]
  BY <1>1 DEF BaseInv, MembersInv, Waiting, Members, Assumptions, JudgingAssumption
<1>3. \A d \in Clusters \ {c} :
        status'[d] = status[d] /\ score'[d] = score[d] /\ joined'[d] = joined[d]
  BY <1>1 DEF BaseInv, TypeOK
<1>4. joined'[c] = joined[c] \union {m} /\ score'[c] = ComputeClusterScore(Members(c))
  BY <1>1 DEF BaseInv, TypeOK
<1>5. Several(c)' \/ score'[c] = 28000
  <2>1. CASE Members(c) = {}
    BY <1>4, <2>1, ScoreOfNone
  <2>2. CASE Members(c) # {}
    BY <1>2, <1>4, <2>2 DEF Several
  <2>3. QED BY <2>1, <2>2
<1>6. ASSUME NEW d \in Clusters, status'[d] = "scored"
      PROVE  Several(d)' \/ score'[d] = 28000
  <2>1. CASE d = c
    BY <1>5, <2>1
  <2>2. CASE d # c
    BY <1>3, <1>6, <2>2 DEF PassedInv, Several
  <2>3. QED BY <2>1, <2>2
<1>7. QED BY <1>1, <1>6 DEF PassedInv

LEMMA NextPassed ==
  ASSUME Assumptions, BaseInv, PassedInv, [Next]_vars
  PROVE  PassedInv'
<1>0. TypeOK
  BY DEF BaseInv
<1>1. ASSUME NEW m \in Messages, NEW c \in Clusters, MergeIntoPublished(m, c)
      PROVE  PassedInv'
  <2>1. /\ \A d \in Clusters : joined[d] \subseteq joined'[d]
        /\ \A d \in Clusters : status'[d] = "scored" => status[d] = "scored"
        /\ score' = score /\ job' = job /\ threshold' = threshold
    BY <1>0, <1>1 DEF MergeIntoPublished, Place, TypeOK
  <2>2. QED BY <1>0, <2>1, QuietPassed DEF PassedInv
<1>2. CASE ReconcileOpenClusters
  <2>1. PICK moved, to : Reconciled(moved, to)
    BY <1>2, ReconcileShape, Zenon
  <2>2. /\ \A d \in Clusters : joined[d] \subseteq joined'[d]
        /\ \A d \in Clusters : status'[d] = "scored" => status[d] = "scored"
    <3>1. /\ joined' = [c \in Clusters |-> joined[c] \union {m \in moved : to[m] = c}]
          /\ status' = [c \in Clusters |->
                          IF c \in Opened(moved, to) THEN "pending" ELSE status[c]]
      BY <2>1, Zenon DEF Reconciled
    <3>2. QED BY <3>1
  <2>3. score' = score /\ job' = job /\ threshold' = threshold
    BY <1>2 DEF ReconcileOpenClusters, task
  <2>4. QED BY <1>0, <2>2, <2>3, QuietPassed DEF PassedInv
<1>3. ASSUME NEW m \in Messages, Arrive(m) PROVE PassedInv'
  BY <1>3 DEF Arrive, PassedInv, Several, clusters, metrics, task
<1>4. ASSUME TimePasses \/ UNCHANGED vars PROVE PassedInv'
  BY <1>4 DEF TimePasses, PassedInv, Several, vars, clusters, metrics, task
<1>5. CASE Restart
  BY <1>5 DEF Restart, EndTask, PassedInv, Several, clusters, metrics
<1>6. CASE StartTask
  <2>1. EffectiveThreshold \in Nat /\ EffectiveThreshold >= MinThreshold
    BY <1>0, ThresholdFacts
  <2>2. QED BY <1>6, <2>1 DEF StartTask, PassedInv, Several, clusters, metrics
<1>7. CASE JudgeScored
  <2>1. /\ \A c \in Clusters : status'[c] # "scored"
        /\ job' = "idle"
    BY <1>7 DEF JudgeScored, EndTask
  <2>2. QED BY <2>1 DEF PassedInv
<1>8. ASSUME NEW c \in Clusters, Answers(c) PROVE PassedInv'
  <2>1. /\ \A d \in Clusters : joined[d] \subseteq joined'[d]
        /\ \A d \in Clusters : status'[d] = "scored" => status[d] = "scored"
        /\ score' = score /\ job' = job /\ threshold' = threshold
    BY <1>0, <1>8, AnswerSteps DEF metrics, task
  <2>2. QED BY <1>0, <2>1, QuietPassed DEF PassedInv
<1>9. QED BY <1>1, <1>2, <1>3, <1>4, <1>5, <1>6, <1>7, <1>8, ScoredJoinPassed
          DEF Next, Answers

\* While the lowest threshold is above the 2.8 points of an empty cluster (it
\* is 5.5 by default), the threshold passes no cluster that one message alone
\* ever joined, whatever its source's weight and its keywords: the score of a new
\* cluster does not see its message.
THEOREM LoneStoriesStayOut ==
  ASSUME Assumptions, MinThreshold > 28000 PROVE Spec => LoneStoryDoesNotPass
<1>1. Init => PassedInv
  BY DEF Init, PassedInv
<1>2. BaseInv /\ PassedInv /\ [Next]_vars => PassedInv'
  BY NextPassed
<1>3. BaseInv /\ PassedInv /\ [Next]_vars =>
        [\A c \in Clusters :
           job # job' /\ status[c] = "scored" /\ status'[c] = "ai_ready" =>
             Cardinality(joined[c]) >= 2]_vars
  <2> SUFFICES ASSUME BaseInv, PassedInv, [Next]_vars, NEW c \in Clusters,
                      job # job', status[c] = "scored", status'[c] = "ai_ready"
               PROVE  Cardinality(joined[c]) >= 2
    OBVIOUS
  <2>1. ~ (StartTask \/ Restart)
    BY DEF StartTask, Restart, clusters
  <2>2. JudgeScored
    BY <2>1, TaskSteps DEF BaseInv
  <2>3. score[c] >= threshold /\ job = "placing"
    BY <2>2 DEF JudgeScored
  <2>4. threshold \in Nat /\ threshold >= MinThreshold
    BY <2>3 DEF PassedInv
  <2>5. ~ (28000 >= threshold)
    BY <2>4 DEF Assumptions, JudgingAssumption
  <2>6. Several(c)
    BY <2>3, <2>5 DEF PassedInv
  <2>7. QED BY <2>6, SeveralAreTwo DEF BaseInv
<1>4. QED BY <1>1, <1>2, <1>3, SpecBase, PTL DEF Spec, LoneStoryDoesNotPass

-----------------------------------------------------------------------------
(* Confidence *)

\* The confidence of c is that of the messages S, with similarities h and r.
Measured(c, S, h, r) ==
  \E v \in Hundredths, k \in StabilityWeights :
    confidence[c] = ComputeClusterConfidence(S, h, r, k, 100, v)

\* The confidence of a cluster that a message was merged into is that of its
\* members, after a split, or of all but one, with the similarities of the last
\* match or the default ones.
Metrics(c) ==
  \E S \in {Members(c)} \union {Members(c) \ {m} : m \in Members(c)} :
    Measured(c, S, debug[c].hybrid, debug[c].rerank) \/ Measured(c, S, 70, 70)

MetricsInv ==
  \A c \in Clusters :
    /\ status[c] = "none" => debug[c] = Nothing
    /\ debug[c] # Nothing => Metrics(c)

LEMMA SameMetrics ==
  ASSUME NEW c, Metrics(c), Members(c)' = Members(c), confidence'[c] = confidence[c],
         debug'[c] = debug[c]
  PROVE  Metrics(c)'
  BY DEF Metrics, Measured

LEMMA QuietMetrics ==
  ASSUME MetricsInv, SameMembers, confidence' = confidence, debug' = debug,
         \A c \in Clusters : status'[c] = "none" => status[c] = "none"
  PROVE  MetricsInv'
  BY SameMetrics DEF MetricsInv, SameMembers

\* The metrics of a cluster that a message joins.
LEMMA PlaceMetrics ==
  ASSUME Assumptions, BaseInv, NEW m \in inbox, NEW c \in Clusters,
         NEW hybrid, NEW rerank, Place(m, c, hybrid, rerank)
  PROVE  /\ m \in Members(c)'
         /\ \E v \in Hundredths, k \in StabilityWeights : confidence'[c] =
              ComputeClusterConfidence(Members(c)' \ {m}, hybrid, rerank, k, 100, v)
         /\ \A d \in Clusters \ {c} :
              confidence'[d] = confidence[d] /\ Members(d)' = Members(d)
<1>1. /\ m \notin Members(c) /\ Members(c)' = Members(c) \union {m}
      /\ \A d \in Clusters \ {c} : Members(d)' = Members(d)
      /\ Members(c) \in SUBSET Messages
  BY PlaceMembers, MembersAreMessages DEF BaseInv
<1>2. Members(c)' \ {m} = Members(c)
  BY <1>1
<1>3. stability'[c] = 100
  <2>1. ComputeClusterStability(c) = 100
    BY NoRowsNoLoss DEF BaseInv, StableInv
  <2>2. QED BY <2>1 DEF Place, BaseInv, TypeOK
<1>4. PICK v \in Velocities(Members(c)) :
        confidence' = [confidence EXCEPT ![c] =
          ComputeClusterConfidence(Members(c), hybrid, rerank, StabilityWeight(c), stability'[c], v)]
  BY DEF Place, Visible
<1>5. v \in Hundredths
  BY <1>1, VelocityRange
<1>6. /\ confidence'[c] =
           ComputeClusterConfidence(Members(c), hybrid, rerank, StabilityWeight(c), 100, v)
      /\ \A d \in Clusters \ {c} : confidence'[d] = confidence[d]
  BY <1>3, <1>4 DEF BaseInv, TypeOK
<1>7. QED BY <1>1, <1>2, <1>5, <1>6, WeightIsOneOfTwo

LEMMA MergeMetrics ==
  ASSUME Assumptions, BaseInv, MetricsInv, NEW m \in Messages, NEW c \in Clusters,
         MergeIntoCluster(m, c)
  PROVE  MetricsInv'
<1>1. m \in inbox
  BY DEF MergeIntoCluster, NextMessage
<1>2. PICK hybrid \in Similarities, rerank \in Similarities :
        /\ Place(m, c, hybrid, rerank)
        /\ debug' = [debug EXCEPT ![c] = [hybrid |-> hybrid, rerank |-> rerank]]
  BY DEF MergeIntoCluster
<1>3. /\ m \in Members(c)'
      /\ \E v \in Hundredths, k \in StabilityWeights : confidence'[c] =
           ComputeClusterConfidence(Members(c)' \ {m}, hybrid, rerank, k, 100, v)
      /\ \A d \in Clusters \ {c} :
           confidence'[d] = confidence[d] /\ Members(d)' = Members(d)
  BY <1>1, <1>2, PlaceMetrics
<1>4. /\ status'[c] = "scored" /\ debug'[c].hybrid = hybrid /\ debug'[c].rerank = rerank
      /\ \A d \in Clusters \ {c} : status'[d] = status[d] /\ debug'[d] = debug[d]
  BY <1>2 DEF MergeIntoCluster, ScoreCluster, BaseInv, TypeOK
<1>5. Metrics(c)'
  BY <1>3, <1>4 DEF Metrics, Measured
<1>6. \A d \in Clusters \ {c} : debug'[d] # Nothing => Metrics(d)'
  BY <1>3, <1>4, SameMetrics DEF MetricsInv
<1>7. QED BY <1>4, <1>5, <1>6 DEF MetricsInv

\* A published cluster keeps the similarities of its last match; a new one has
\* none.
LEMMA DefaultMetrics ==
  ASSUME Assumptions, BaseInv, MetricsInv, NEW m \in Messages, NEW c \in Clusters,
         MergeIntoPublished(m, c) \/ NewCluster(m, c)
  PROVE  MetricsInv'
<1>1. m \in inbox /\ Place(m, c, 70, 70) /\ debug' = debug
  BY DEF MergeIntoPublished, NewCluster, NextMessage
<1>2. /\ m \in Members(c)'
      /\ \E v \in Hundredths, k \in StabilityWeights : confidence'[c] =
           ComputeClusterConfidence(Members(c)' \ {m}, 70, 70, k, 100, v)
      /\ \A d \in Clusters \ {c} :
           confidence'[d] = confidence[d] /\ Members(d)' = Members(d)
  BY <1>1, PlaceMetrics
<1>3. /\ status'[c] # "none"
      /\ \A d \in Clusters \ {c} : status'[d] = status[d]
  BY DEF MergeIntoPublished, NewCluster, ScoreCluster, BaseInv, TypeOK
<1>4. Metrics(c)'
  BY <1>2 DEF Metrics, Measured
<1>5. \A d \in Clusters \ {c} : debug'[d] # Nothing => Metrics(d)'
  BY <1>1, <1>2, SameMetrics DEF MetricsInv
<1>6. QED BY <1>1, <1>3, <1>4, <1>5 DEF MetricsInv

LEMMA ReconcileMetrics ==
  ASSUME Assumptions, BaseInv, MetricsInv, ReconcileOpenClusters
  PROVE  MetricsInv'
<1>0. TypeOK /\ MembersInv
  BY DEF BaseInv
<1>a. PICK moved \in SUBSET Movable : \E to \in [moved -> Unused] : Reconciled(moved, to)
  BY ReconcileShape, Zenon
<1>1. PICK to \in [moved -> Unused] : Reconciled(moved, to)
  BY <1>a
<1> DEFINE taken == Homes(moved) \union Opened(moved, to)
<1>2. /\ status' = [c \in Clusters |-> IF c \in Opened(moved, to) THEN "pending" ELSE status[c]]
      /\ stability' = [c \in Clusters |-> IF c \in taken
                                          THEN ComputeClusterStability(c) ELSE stability[c]]
  BY <1>1, Zenon DEF Reconciled
<1>3. PICK speed :
        /\ \A c \in taken : speed[c] \in Velocities(Members(c) \ moved)
        /\ confidence' = [c \in Clusters |->
             IF c \in taken
             THEN ComputeClusterConfidence(Members(c) \ moved, 70, 70, StabilityWeight(c),
                                           stability'[c], speed[c])
             ELSE confidence[c]]
  BY <1>1, Zenon DEF Reconciled
<1>4. /\ \A c \in Clusters : c \notin Opened(moved, to) => Members(c)' = Members(c) \ moved
      /\ \A c \in Opened(moved, to) : c \in Clusters /\ status[c] = "none"
      /\ \A c \in Clusters : c \notin Homes(moved) => Members(c) \ moved = Members(c)
  BY <1>0, <1>1, ReconcileMembers
<1>5. debug' = debug
  BY DEF ReconcileOpenClusters
<1>6. ASSUME NEW c \in Clusters, debug'[c] # Nothing PROVE Metrics(c)'
  <2>1. debug[c] # Nothing /\ c \notin Opened(moved, to)
    BY <1>4, <1>5, <1>6 DEF MetricsInv
  <2>2. Members(c)' = Members(c) \ moved
    BY <1>4, <2>1
  <2>3. CASE c \in Homes(moved)
    <3>1. ComputeClusterStability(c) = 100
      BY NoRowsNoLoss DEF BaseInv, StableInv
    <3>2. stability'[c] = 100
      BY <1>2, <2>3, <3>1
    <3>3. speed[c] \in Hundredths
      <4>1. PICK S \in SUBSET Messages : S = Members(c) \ moved
        BY MembersAreMessages
      <4>2. speed[c] \in Velocities(S)
        BY <1>3, <2>3, <4>1
      <4>3. QED BY <4>2, VelocityRange
    <3>4. confidence'[c] =
            ComputeClusterConfidence(Members(c)', 70, 70, StabilityWeight(c), 100, speed[c])
      BY <1>3, <2>2, <2>3, <3>2
    <3>5. QED BY <3>3, <3>4, WeightIsOneOfTwo DEF Metrics, Measured
  <2>4. CASE c \notin Homes(moved)
    <3>1. Members(c)' = Members(c)
      BY <1>4, <2>2, <2>4
    <3>2. confidence'[c] = confidence[c]
      BY <1>3, <2>1, <2>4
    <3>3. Metrics(c)
      BY <2>1 DEF MetricsInv
    <3>4. QED BY <1>5, <3>1, <3>2, <3>3, SameMetrics
  <2>5. QED BY <2>3, <2>4
<1>7. \A c \in Clusters : status'[c] = "none" => debug'[c] = Nothing
  BY <1>2, <1>5 DEF MetricsInv
<1>8. QED BY <1>6, <1>7 DEF MetricsInv

LEMMA NextMetrics ==
  ASSUME Assumptions, BaseInv, MetricsInv, [Next]_vars PROVE MetricsInv'
<1>1. ASSUME NEW m \in Messages, NEW c \in Clusters, Joins(m, c)
      PROVE  MetricsInv'
  BY <1>1, MergeMetrics, DefaultMetrics DEF Joins
<1>2. ASSUME NEW m \in Messages, Arrive(m) PROVE MetricsInv'
  <2>1. SameMembers
    BY <1>2, ArriveMembers DEF BaseInv
  <2>2. QED BY <1>2, <2>1, QuietMetrics DEF Arrive, clusters, metrics
<1>3. ASSUME home' = home, metrics' = metrics,
             \A c \in Clusters : status'[c] = "none" => status[c] = "none"
      PROVE  MetricsInv'
  BY <1>3, QuietMetrics DEF SameMembers, Members, metrics
<1>4. ASSUME TimePasses \/ Restart \/ StartTask \/ UNCHANGED vars PROVE MetricsInv'
  BY <1>3, <1>4 DEF TimePasses, Restart, StartTask, vars, clusters, metrics
<1>5. CASE JudgeScored
  BY <1>3, <1>5 DEF JudgeScored
<1>6. ASSUME NEW c \in Clusters, Answers(c) PROVE MetricsInv'
  <2>1. /\ home' = home /\ metrics' = metrics
        /\ \A d \in Clusters : status'[d] = "none" => status[d] = "none"
    BY <1>6, AnswerSteps DEF BaseInv
  <2>2. QED BY <1>3, <2>1
<1>7. QED BY <1>1, <1>2, <1>4, <1>5, <1>6, ReconcileMetrics DEF Next, Joins, Answers

\* Good similarities, a source for every lineage and no source without
\* credibility give the confidence the hold gate asks for.
LEMMA MeanOfCorroborated ==
  ASSUME NEW h \in Hundredths, NEW r \in Hundredths, NEW a \in Hundredths,
         NEW v \in Hundredths, NEW k \in StabilityWeights, h >= 70, r >= 70, a >= 13
  PROVE  ~ ((25 * h + 20 * r + 15 * 80 + 15 * 100 + 10 * a + k * 100 + (15 - k) * v + 50)
              \div 100 < 65)
<1>1. ~ ((25 * h + 20 * r + 15 * 80 + 15 * 100 + 10 * a + 5 * 100 + (15 - 5) * v + 50)
           \div 100 < 65)
  BY DEF Hundredths
<1>2. ~ ((25 * h + 20 * r + 15 * 80 + 15 * 100 + 10 * a + 15 * 100 + (15 - 15) * v + 50)
           \div 100 < 65)
  BY DEF Hundredths
<1>3. k = 5 \/ k = 15
  BY DEF StabilityWeights
<1>4. QED BY <1>1, <1>2, <1>3

\* The threshold and the hold gate agree: a cluster that is to be analysed, whose
\* last match was at least of the default similarities and whose messages repeat
\* nobody, has confidence 65 or more, so should_hold_for_cluster does not hold it
\* for its confidence, also after a split.  Sources of less weight than 0.2 (the
\* default of the column is 1) would break it, so that they do not exist is a
\* hypothesis.
THEOREM CorroboratedAreTrusted ==
  ASSUME Assumptions, \A s \in Sources : Weight[s] >= 2
  PROVE  Spec => []CorroboratedIsTrusted
<1>1. Init => MetricsInv
  BY DEF Init, MetricsInv
<1>2. BaseInv /\ MetricsInv /\ [Next]_vars => MetricsInv'
  BY NextMetrics
<1>3. BaseInv /\ MetricsInv => CorroboratedIsTrusted
  <2> SUFFICES ASSUME BaseInv, MetricsInv, NEW c \in Clusters, debug[c] # Nothing,
                      debug[c].hybrid >= 70, debug[c].rerank >= 70,
                      Diversity(Members(c)) = 100,
                      \A m \in Members(c) : Diversity(Members(c) \ {m}) = 100
               PROVE  ~ Doubtful(c)
    BY DEF CorroboratedIsTrusted
  <2>1. PICK S \in {Members(c)} \union {Members(c) \ {m} : m \in Members(c)} :
          Measured(c, S, debug[c].hybrid, debug[c].rerank) \/ Measured(c, S, 70, 70)
    BY DEF MetricsInv, Metrics
  <2>2. debug[c].hybrid \in Hundredths /\ debug[c].rerank \in Hundredths /\ 70 \in Hundredths
    BY SimilaritiesAreHundredths DEF BaseInv, TypeOK
  <2>3. PICK h \in Hundredths, r \in Hundredths : h >= 70 /\ r >= 70 /\ Measured(c, S, h, r)
    <3>1. CASE Measured(c, S, debug[c].hybrid, debug[c].rerank)
      BY <2>2, <3>1
    <3>2. CASE Measured(c, S, 70, 70)
      <4>1. 70 >= 70
        OBVIOUS
      <4>2. QED BY <2>2, <3>2, <4>1
    <3>3. QED BY <2>1, <3>1, <3>2
  <2>4. PICK v \in Hundredths, k \in StabilityWeights :
          confidence[c] = ComputeClusterConfidence(S, h, r, k, 100, v)
    BY <2>3 DEF Measured
  <2>5. Diversity(S) = 100 /\ S \in SUBSET Messages
    BY <2>1, MembersAreMessages
  <2>6. S # {}
    BY <2>5 DEF Diversity
  <2>7. PICK a \in Hundredths : a = AvgCredibility(S) /\ a >= 13
    <3>1. PICK w \in 1..15 : w = 2
      OBVIOUS
    <3>2. \A s \in Sources : w <= Weight[s]
      BY <3>1 DEF Assumptions, JudgingAssumption
    <3>3. AvgCredibility(S) \in Hundredths /\ AvgCredibility(S) >= (100 * w) \div 15
      BY <2>5, <2>6, <3>2, AvgCredibilityRange
    <3>4. (100 * w) \div 15 = 13
      BY <3>1
    <3>5. QED BY <3>3, <3>4
  <2>8. confidence[c] =
          (25 * h + 20 * r + 15 * 80 + 15 * 100 + 10 * a + k * 100 + (15 - k) * v + 50) \div 100
    BY <2>4, <2>5, <2>7 DEF ComputeClusterConfidence
  <2>9. ~ ((25 * h + 20 * r + 15 * 80 + 15 * 100 + 10 * a + k * 100 + (15 - k) * v + 50)
             \div 100 < 65)
    BY <2>3, <2>7, MeanOfCorroborated
  <2>10. QED BY <2>8, <2>9 DEF Doubtful
<1>4. QED BY <1>1, <1>2, <1>3, SpecBase, PTL DEF Spec

=============================================================================
