----------------------------- MODULE MCChatHub -----------------------------
(* A small instance of ChatHub: b1 writes f1. *)
EXTENDS ChatHub, TLC

CONSTANTS b1, b2, p1, f1, i1

AuthorIsB1 == f1 :> b1

\* Everybody connects once, or loses a connection and comes back.
OneEach == [b \in Browsers |-> 1]
AllReturn == [b \in Browsers |-> 2]
=============================================================================
