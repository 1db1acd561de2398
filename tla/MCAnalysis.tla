----------------------------- MODULE MCAnalysis -----------------------------
EXTENDS Analysis, TLC

Raw(whole, out) ==
  [json |-> whole, given |-> Fields, valid |-> TRUE, out |-> out,
   headline |-> TRUE, summary |-> TRUE, html |-> "none"]

Out(s, p, k, x, y) ==
  [status |-> s, priority |-> p, confidence |-> k, sensitive |-> x, conflicts |-> y,
   review |-> FALSE]

Fast == Raw(TRUE, Out("publish", 5, 75, FALSE, FALSE))

\* An answer that two sources make fast, one whose conflicts keep it back, one
\* that two sources let pass, a truncated refusal, which is recovered as a batch
\* item, and a text without anything to recover.
MCAnswers ==
  {Fast,
   Raw(TRUE, Out("publish", 5, 75, FALSE, TRUE)),
   Raw(TRUE, Out("publish", 3, 75, TRUE, FALSE)),
   Raw(FALSE, Out("reject", 5, 90, TRUE, FALSE)),
   [Fast EXCEPT !.json = FALSE, !.headline = FALSE, !.summary = FALSE]}

Symmetry == Permutations(Procs) \union Permutations(Clusters)

=============================================================================
