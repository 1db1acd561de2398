------------------------------- MODULE Lineage -------------------------------
(***************************************************************************)
(* How many independent sources a set of messages stands for: the number   *)
(* every gate after clustering decides on.                                 *)
(***************************************************************************)
EXTENDS Naturals, FiniteSets

CONSTANTS
  Messages,
  Sources,
  SourceOf,     (* the source of each message                              *)
  Primary,      (* sources with is_primary_source                          *)
  Forwarded,    (* messages whose payload says they were forwarded         *)
  SameText      (* pairs with text_similarity > REPUBLISH_SIM_THRESHOLD    *)

ASSUME LineageAssumption ==
  /\ IsFiniteSet(Messages)
  /\ SourceOf \in [Messages -> Sources]
  /\ Primary \subseteq Sources
  /\ Forwarded \subseteq Messages
  /\ SameText \subseteq Messages \X Messages
  /\ \A m, n \in Messages : <<m, n>> \in SameText => <<n, m>> \in SameText

Primaries(S) == {m \in S : SourceOf[m] \in Primary}

\* m adds no lineage of its own next to the other messages of S: it repeats a
\* primary source's text, or is a forward while S has a primary message.
Republished(m, S) ==
  /\ SourceOf[m] \notin Primary
  /\ \E p \in Primaries(S) : m \in Forwarded \/ <<m, p>> \in SameText

IndependentLineages(S) == {SourceOf[m] : m \in {x \in S : ~ Republished(x, S)}}

\* recalculate_independent_sources on the messages the query returns.
RecalculateIndependentSources(S) == Cardinality(IndependentLineages(S))

=============================================================================
