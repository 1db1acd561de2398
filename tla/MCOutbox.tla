------------------------------ MODULE MCOutbox ------------------------------
(***************************************************************************)
(* Values for model-checking Outbox: two clusters that cover the same      *)
(* story, or two unrelated ones.                                           *)
(***************************************************************************)
EXTENDS Outbox

CONSTANTS c1, c2, c3

SameStory == {<<c1, c2>>, <<c2, c1>>}
NoStory   == {}

=============================================================================
