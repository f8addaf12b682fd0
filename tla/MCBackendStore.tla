--------------------------- MODULE MCBackendStore ---------------------------
(* A small instance of BackendStore. *)
EXTENDS BackendStore

CONSTANTS p1, p2, p3, f1, i1

\* Every request has an id of its own.
OwnIds == Reqs
OwnIdOf == [r \in Reqs |-> r]

\* The clients of p1 and p2 chose the same id.
SharedIds == {p1, p3, f1, i1}
SharedIdOf == [r \in Reqs |-> IF r \in {p1, p2} THEN p1 ELSE r]

\* The record that another server sends as i1 is the message of p1.
IngestedIds == {p1, p2, p3, f1}
IngestedIdOf == [r \in Reqs |-> IF r = i1 THEN p1 ELSE r]
=============================================================================
