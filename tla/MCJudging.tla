----------------------------- MODULE MCJudging -----------------------------
(***************************************************************************)
(* Three messages of three sources, from the most to the least credible of *)
(* the seeded ones; the third repeats the first.                           *)
(***************************************************************************)
EXTENDS Judging, TLC

CONSTANTS m1, m2, m3, s1, s2, s3

MCSourceOf    == (m1 :> s1) @@ (m2 :> s2) @@ (m3 :> s3)
MCWeight      == (s1 :> 14) @@ (s2 :> 10) @@ (s3 :> 7)
MCKeywords    == (m1 :> {"urgent", "alarm", "final"}) @@ (m2 :> {}) @@ (m3 :> {"urgent"})
MCPublishedAt == (m1 :> 0) @@ (m2 :> 10) @@ (m3 :> 40)
MCSameText    == {<<m1, m3>>, <<m3, m1>>}

Symmetry == Permutations(Clusters)

=============================================================================
