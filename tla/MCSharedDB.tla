----------------------------- MODULE MCSharedDB -----------------------------
(* A small instance of SharedDB. *)
EXTENDS SharedDB, TLC

CONSTANTS b1, b2, b3, g1, g2

NoSeal == [f \in SealFields |-> Empty]
Sealed(v) == [f \in SealFields |-> v]
It(i, p, s) == [id |-> i, plaintext |-> p, seal |-> s]

MCValues == {"m1", "m2", "text", "other", "seal1", "seal2"}

\* b1 inserts two records, the second without a text; b2 repeats both ids with
\* seals, a late and a different text, and carries an item without an id.
MCItemsOf ==
    b1 :> <<It("m1", "text", NoSeal), It("m2", Empty, Sealed("seal1"))>>
    @@ b2 :> <<It("m2", "text", [NoSeal EXCEPT !["signature"] = "seal2"]),
               It(Empty, "text", NoSeal),
               It("m1", "other", Sealed("seal1"))>>
    @@ b3 :> <<>>
=============================================================================
