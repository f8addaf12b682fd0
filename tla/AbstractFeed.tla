---------------------------- MODULE AbstractFeed ----------------------------
(***************************************************************************)
(* What the message feeds of load balancer and backends promise, without   *)
(* channels, threads, locks or files: an accepted request is in "pending"  *)
(* until it is published, is published at most once, and the feed grows    *)
(* only at its end.  A reset empties the feed and may drop waiting         *)
(* requests; a restart forgets everything that waits and comes back with   *)
(* some duplicate-free selection of requests accepted before.              *)
(***************************************************************************)
EXTENDS Naturals, Sequences, Functions

CONSTANT Reqs                \* one element per request

VARIABLES
    accepted,                \* requests ever taken in
    pending,                 \* taken in, not yet in the feed
    feed,                    \* the published feed, oldest first
    restarts                 \* how often the store was restarted

vars == <<accepted, pending, feed, restarts>>

Init ==
    /\ accepted = {}
    /\ pending = {}
    /\ feed = <<>>
    /\ restarts = 0

Accept(r) ==
    /\ r \notin accepted
    /\ accepted' = accepted \union {r}
    /\ pending' = pending \union {r}
    /\ UNCHANGED <<feed, restarts>>

Publish(r) ==
    /\ r \in pending
    /\ pending' = pending \ {r}
    /\ feed' = Append(feed, r)
    /\ UNCHANGED <<accepted, restarts>>

\* A reset in progress drops one waiting request.
Drop(r) ==
    /\ r \in pending
    /\ pending' = pending \ {r}
    /\ UNCHANGED <<accepted, feed, restarts>>

Clear ==
    /\ feed' = <<>>
    /\ UNCHANGED <<accepted, pending, restarts>>

Restart ==
    /\ restarts' = restarts + 1
    /\ pending' = {}
    /\ IsInjective(feed')
    /\ Range(feed') \subseteq accepted
    /\ UNCHANGED accepted

Next ==
    \/ \E r \in Reqs : Accept(r) \/ Publish(r) \/ Drop(r)
    \/ Clear
    \/ Restart

Spec == Init /\ [][Next]_vars
=============================================================================
