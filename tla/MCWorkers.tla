----------------------------- MODULE MCWorkers -----------------------------
(* A small instance of Workers: the clients of p1 and p2 chose one id. *)
EXTENDS Workers

CONSTANTS w1, w2, p1, p2, p3

MCIds == {p1, p3}
MCIdOf == [m \in Requests |-> IF m = p2 THEN p1 ELSE m]
=============================================================================
