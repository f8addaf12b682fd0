----------------------------- MODULE MCSealing -----------------------------
(* A small instance of Sealing: two posts of one sender, and two equal      *)
(* frames of a connection.  What "a" wrote in p1 and "a|b" in f1 and f2, at *)
(* one time, has the same canonical message.                                *)
EXTENDS Sealing, TLC

CONSTANTS p1, p2, f1, f2, c1

MCUsername == p1 :> <<"a">> @@ p2 :> <<"a">> @@ f1 :> <<"a", "|", "b">> @@ f2 :> <<"a", "|", "b">>
MCText == p1 :> <<"b", "|", "c">> @@ p2 :> <<"c">> @@ f1 :> <<"c">> @@ f2 :> <<"c">>
MCTimestamp == p1 :> "1" @@ p2 :> "2" @@ f1 :> "1" @@ f2 :> "1"
MCConnOf == f1 :> c1 @@ f2 :> c1

EqualFrames == Permutations(Frames)
=============================================================================
