---------------------------- MODULE LineageProofs ----------------------------
(***************************************************************************)
(* Lemmas about the count of independent sources, which the proofs about   *)
(* Clusters and Judging use, and what the count is for: repetitions of a   *)
(* primary source do not raise it, primary sources always count, and what  *)
(* no primary source reported is counted by its sources.                   *)
(***************************************************************************)
EXTENDS Lineage, FiniteSetTheorems, TLAPS

SourcesIn(S) == {SourceOf[m] : m \in S}

\* The sources of finitely many messages are finitely many.
LEMMA SourcesAreFinite ==
  ASSUME LineageAssumption, NEW S \in SUBSET Messages
  PROVE  IsFiniteSet(SourcesIn(S))
<1> DEFINE f == [x \in S |-> SourceOf[x]]
<1>1. IsFiniteSet(S)
  BY FS_Subset DEF LineageAssumption
<1>2. f \in Surjection(S, SourcesIn(S))
  BY DEF Surjection, SourcesIn
<1>3. QED
  <2> HIDE DEF f
  <2>1. QED BY <1>1, <1>2, FS_Surjection

\* The count is a number, and at most that of the sources.
LEMMA CountIsNat ==
  ASSUME LineageAssumption, NEW S \in SUBSET Messages
  PROVE  /\ IsFiniteSet(IndependentLineages(S))
         /\ RecalculateIndependentSources(S) \in Nat
         /\ RecalculateIndependentSources(S) <= Cardinality(SourcesIn(S))
<1>1. IndependentLineages(S) \in SUBSET SourcesIn(S)
  BY DEF IndependentLineages, SourcesIn
<1>2. IsFiniteSet(IndependentLineages(S))
  BY <1>1, SourcesAreFinite, FS_Subset
<1>3. Cardinality(IndependentLineages(S)) <= Cardinality(SourcesIn(S))
  BY <1>1, SourcesAreFinite, FS_Subset
<1>4. QED BY <1>2, <1>3, FS_CardinalityType DEF RecalculateIndependentSources

LEMMA CountOfNone == RecalculateIndependentSources({}) = 0
<1>1. IndependentLineages({}) = {}
  BY DEF IndependentLineages
<1>2. QED BY <1>1, FS_EmptySet DEF RecalculateIndependentSources

\* A message that repeats a primary source's text, or is a forward while a
\* primary source reports the story, leaves the count as it was: copies do not
\* open the gates of recalculate_independent_sources.
THEOREM RepetitionAddsNothing ==
  ASSUME NEW S \in SUBSET Messages, NEW m \in Messages, Republished(m, S \union {m})
  PROVE  RecalculateIndependentSources(S \union {m}) = RecalculateIndependentSources(S \ {m})
<1>1. SourceOf[m] \notin Primary
  BY DEF Republished
<1>2. Primaries(S \union {m}) = Primaries(S \ {m})
  BY <1>1 DEF Primaries
<1>3. \A x : Republished(x, S \union {m}) <=> Republished(x, S \ {m})
  BY <1>2 DEF Republished
<1>4. IndependentLineages(S \union {m}) = IndependentLineages(S \ {m})
  BY <1>3 DEF IndependentLineages
<1>5. QED BY <1>4 DEF RecalculateIndependentSources

\* Every primary source of a story counts, whatever else was reported: no copy
\* or forward of others takes it away.
THEOREM PrimariesCount ==
  ASSUME LineageAssumption, NEW S \in SUBSET Messages
  PROVE  /\ SourcesIn(Primaries(S)) \subseteq IndependentLineages(S)
         /\ Cardinality(SourcesIn(Primaries(S))) <= RecalculateIndependentSources(S)
<1>1. SourcesIn(Primaries(S)) \in SUBSET IndependentLineages(S)
  BY DEF SourcesIn, Primaries, IndependentLineages, Republished
<1>2. QED BY <1>1, CountIsNat, FS_Subset DEF RecalculateIndependentSources

\* Without a primary message nothing is a repetition: every source counts, and
\* the same text in several ordinary channels counts as often as it appears.
THEOREM OrdinaryCopiesCount ==
  ASSUME NEW S \in SUBSET Messages, Primaries(S) = {}
  PROVE  RecalculateIndependentSources(S) = Cardinality(SourcesIn(S))
<1>1. IndependentLineages(S) = SourcesIn(S)
  BY DEF IndependentLineages, SourcesIn, Republished
<1>2. QED BY <1>1 DEF RecalculateIndependentSources

\* A report of a source that is not primary never lowers the count.  (A primary
\* one may: what had the same text before it then repeats it.)
THEOREM OrdinaryReportsNeverLower ==
  ASSUME LineageAssumption, NEW T \in SUBSET Messages, NEW S \in SUBSET T,
         Primaries(S) = Primaries(T)
  PROVE  RecalculateIndependentSources(S) <= RecalculateIndependentSources(T)
<1>1. \A x \in S : Republished(x, T) <=> Republished(x, S)
  BY DEF Republished
<1>2. IndependentLineages(S) \in SUBSET IndependentLineages(T)
  BY <1>1 DEF IndependentLineages
<1>3. QED BY <1>2, CountIsNat, FS_Subset DEF RecalculateIndependentSources

=============================================================================
