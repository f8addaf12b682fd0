--------------------------- MODULE AbstractTable ---------------------------
(***************************************************************************)
(* What every server of POST /messages/batch promises (SharedDB of the     *)
(* load balancer, dbservice), without mutex, SQLite or cached bytes: a     *)
(* table of ids in the order of arrival, each at most once unless it is    *)
(* Repeatable, that changes by whole batches and by being cleared.         *)
(***************************************************************************)
EXTENDS Sequences, SequencesExt

CONSTANTS
    Batches,       \* the sequences of items that clients may send
    Ids,           \* the items that are stored once
    Repeatable     \* the items that are stored whenever they come

VARIABLE table

Init == table = <<>>

\* The places of a batch that bring something new: the first mention of every
\* id that is not there yet, and every mention of what has no id.
Bringing(t, batch) ==
    {k \in DOMAIN batch :
        \/ batch[k] \in Repeatable
        \/ batch[k] \in Ids \ Range(t) /\ \A l \in 1 .. k - 1 : batch[l] # batch[k]}

\* They are stored in the order of the batch.
Add(batch) ==
    \E at \in BoundedSeq(Bringing(table, batch), Len(batch)) :
        /\ Range(at) = Bringing(table, batch)
        /\ \A i, j \in DOMAIN at : i < j => at[i] < at[j]
        /\ table' = table \o [i \in DOMAIN at |-> batch[at[i]]]

Clear == table' = <<>>

Next == (\E batch \in Batches : Add(batch)) \/ Clear

Spec == Init /\ [][Next]_table
=============================================================================
