----------------------------- MODULE MCClusters -----------------------------
(***************************************************************************)
(* Values for model-checking Clusters: three messages of one story, from a *)
(* primary source and two others, and the answers that fall on each side   *)
(* of the gates.                                                           *)
(***************************************************************************)
EXTENDS Clusters

CONSTANTS m1, m2, m3, s1, s2, s3

SourceOfMessage == [m \in Messages |-> CASE m = m1 -> s1 [] m = m2 -> s2 [] m = m3 -> s3]

NoCopies == {}

Answer(st, prio, conf, sens) ==
  [status |-> st, priority |-> prio, confidence |-> conf, sensitive |-> sens,
   conflicts |-> FALSE, review |-> FALSE]

Plain     == Answer("publish", 3, 80, FALSE)
Urgent    == Answer("publish", 5, 80, FALSE)   \* fast with two sources, else held
Sensitive == Answer("publish", 3, 80, TRUE)
Worthless == Answer("reject", 1, 80, FALSE)

AllAnswers == {Plain, Urgent, Sensitive, Worthless}

=============================================================================
