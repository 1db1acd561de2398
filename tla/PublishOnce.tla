----------------------------- MODULE PublishOnce -----------------------------
(***************************************************************************)
(* What the outbox promises: each item is posted to the channel at most    *)
(* once, and each post is recorded at most once, after it was made.        *)
(***************************************************************************)
EXTENDS Naturals

CONSTANT Items

VARIABLES
  posts,   (* posts of each item on the channel    *)
  pubs     (* publications recorded for each item  *)

Init ==
  /\ posts = [i \in Items |-> 0]
  /\ pubs  = [i \in Items |-> 0]

Post(i) ==
  /\ posts[i] = 0
  /\ posts' = [posts EXCEPT ![i] = 1]
  /\ UNCHANGED pubs

Record(i) ==
  /\ posts[i] = 1
  /\ pubs[i] = 0
  /\ pubs' = [pubs EXCEPT ![i] = 1]
  /\ UNCHANGED posts

Next == \E i \in Items : Post(i) \/ Record(i)

Spec == Init /\ [][Next]_<<posts, pubs>>

=============================================================================
