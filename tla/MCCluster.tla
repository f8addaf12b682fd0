----------------------------- MODULE MCCluster -----------------------------
(* A small instance of Cluster: the client of p3 posts the message of p1 to
   the other backend, too. *)
EXTENDS Cluster, TLC

CONSTANTS b1, b2, p1, p2, p3

MCAt == p1 :> b1 @@ p2 :> b1 @@ p3 :> b2
MCIdOf == p1 :> p1 @@ p2 :> p2 @@ p3 :> p1
=============================================================================
