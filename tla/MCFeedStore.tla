---------------------------- MODULE MCFeedStore ----------------------------
(* A small instance of FeedStore. *)
EXTENDS FeedStore

CONSTANTS r1, r2, r4, g1

OwnIds == Reqs                       \* every request has an id of its own
OwnIdOf == [r \in Reqs |-> r]
=============================================================================
