------------------------------ MODULE MCFetch ------------------------------
(***************************************************************************)
(* Values for model-checking Fetch: the messages belong to one source, and *)
(* the first of them may be edited.                                        *)
(***************************************************************************)
EXTENDS Fetch, TLC

CONSTANTS m1, m2, m3, s1, s2

SourceOfMessage == [m \in Messages |-> s1]

NoEdit    == [m \in Messages |-> 1]
EditOnce  == [m \in Messages |-> IF m = m1 THEN 2 ELSE 1]
EditTwice == [m \in Messages |-> IF m = m1 THEN 3 ELSE 1]

\* The messages that are never edited are interchangeable.
Interchangeable == Permutations(Messages \ {m1})

=============================================================================
