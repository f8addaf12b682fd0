---------------------------- MODULE MCDbService ----------------------------
(* A small instance of DbService. *)
EXTENDS DbService, TLC

CONSTANTS c1, c2, c3, c4, c5, r1

\* c1 and c2 share an id, which c2 repeats, beside an item without one; c3
\* fails at its second row; c4 is no list of objects, c5 no JSON.
MCBody ==
    c1 :> <<"m1", "m2">>
    @@ c2 :> <<"m2", NoId, "m3", "m2">>
    @@ c3 :> <<"m3", Unbindable>>
    @@ c4 :> <<"m4", NoObject>>
    @@ c5 :> <<>>
=============================================================================
