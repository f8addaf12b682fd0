---------------------------- MODULE MCServerPool ----------------------------
(* A small instance of ServerPool. *)
EXTENDS ServerPool

CONSTANTS b1, b2

TwoBackends == <<b1, b2>>

\* The probes of b1 may overlap as in the code, those of b2 are quick.
MCWindow == [b \in Backends |-> IF b = b1 THEN 2 ELSE 1]
=============================================================================
