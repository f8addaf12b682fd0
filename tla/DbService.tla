----------------------------- MODULE DbService -----------------------------
(***************************************************************************)
(* The stand-alone database service (dbservice/main.py): POST              *)
(* /messages/batch and POST /reset-state on one SQLite table.  Flask runs  *)
(* every call in a thread of its own; a lock admits one at a time, each    *)
(* opens a connection and so a transaction of its own, and whatever has    *)
(* not been committed when the connection closes or the process dies is    *)
(* rolled back.  GET /messages and GET /health read under the same lock    *)
(* and change nothing.                                                     *)
(***************************************************************************)
EXTENDS Naturals, Sequences, SequencesExt, FiniteSets

CONSTANTS
    Calls,         \* POST /messages/batch
    Body,          \* the items of each; none if it is no JSON list
    Ids,
    NoId,          \* an item without msg_id: NULL, which no UNIQUE rejects
    Unbindable,    \* an item whose msg_id is a list or an object
    NoObject,      \* an item that is no JSON object
    Resets,        \* POST /reset-state
    Free,          \* nobody holds _db_lock
    MaxFailures,   \* bound: statements that raise though their values are right
    MaxCrashes     \* bound: crashes in a behaviour

Threads == Calls \union Resets

ASSUME ServiceConstants ==
    /\ Calls \intersect Resets = {} /\ Free \notin Threads
    /\ Ids \intersect {NoId, Unbindable, NoObject} = {}
    /\ Cardinality({NoId, Unbindable, NoObject}) = 3
    /\ Body \in [Calls -> Seq(Ids \union {NoId, Unbindable, NoObject})]
    /\ MaxFailures \in Nat /\ MaxCrashes \in Nat

VARIABLES
    step,          \* control point of each call
    holder,        \* who holds _db_lock
    table,         \* committed rows: id, and the call that brought it
    open,          \* the table as the holder's transaction has it
    at,            \* the next item of the holder's executemany
    \* history and bounds
    cleared,       \* ids that a reset removed
    failures, crashes

bounds == <<failures, crashes>>
vars == <<step, holder, table, open, at, cleared, bounds>>

IdsIn(t) == {t[i].id : i \in DOMAIN t}

Init ==
    /\ step = [t \in Threads |-> "arrived"]
    /\ holder = Free
    /\ table = <<>> /\ open = <<>> /\ at = 1
    /\ cleared = {} /\ failures = 0 /\ crashes = 0

Goto(t, l) == step' = [step EXCEPT ![t] = l]

-----------------------------------------------------------------------------
(***************************************************************************)
(* The lock, and get_conn and close, which every use of the table is in    *)
(* between.                                                                *)
(***************************************************************************)
Acquire(t, l) ==
    /\ step[t] = "arrived"
    /\ holder = Free
    /\ holder' = t
    /\ open' = table
    /\ Goto(t, l)

\* Closing rolls back what was not committed.
Release(t, l) ==
    /\ holder' = Free
    /\ open' = table'
    /\ Goto(t, l)

\* Any statement may find the disk full.
StatementFails ==
    /\ failures < MaxFailures
    /\ failures' = failures + 1
    /\ UNCHANGED crashes

-----------------------------------------------------------------------------
(***************************************************************************)
(* POST /messages/batch.                                                   *)
(***************************************************************************)
\* Nothing to insert: "ok" all the same.
Ignore(c) ==
    /\ step[c] = "arrived"
    /\ Body[c] = <<>>
    /\ Goto(c, "ok")
    /\ UNCHANGED <<holder, table, open, at, cleared, bounds>>

\* item.get raises before the lock is taken.
Misshapen(c) ==
    /\ step[c] = "arrived"
    /\ Contains(Body[c], NoObject)
    /\ Goto(c, "error")
    /\ UNCHANGED <<holder, table, open, at, cleared, bounds>>

Lock(c) ==
    /\ Body[c] # <<>> /\ ~Contains(Body[c], NoObject)
    /\ Acquire(c, "rows")
    /\ at' = 1
    /\ UNCHANGED <<table, cleared, bounds>>

\* Fault: the column is not UNIQUE.
InsertRowAlways(c) ==
    /\ step[c] = "rows"
    /\ at \in DOMAIN Body[c]
    /\ Body[c][at] # Unbindable
    /\ open' = Append(open, [id |-> Body[c][at], call |-> c])
    /\ at' = at + 1
    /\ UNCHANGED <<step, holder, table, cleared, bounds>>

\* INSERT OR IGNORE, one row of executemany.
InsertRow(c) ==
    /\ step[c] = "rows"
    /\ at \in DOMAIN Body[c]
    /\ Body[c][at] # Unbindable
    /\ open' = IF Body[c][at] \in IdsIn(open) \ {NoId} THEN open
               ELSE Append(open, [id |-> Body[c][at], call |-> c])
    /\ at' = at + 1
    /\ UNCHANGED <<step, holder, table, cleared, bounds>>

\* Fault: the "finally" commits.
RowRaisesCommit(c) ==
    /\ step[c] = "rows"
    /\ \/ at \in DOMAIN Body[c] /\ Body[c][at] = Unbindable /\ UNCHANGED bounds
       \/ StatementFails
    /\ table' = open
    /\ Release(c, "error")
    /\ UNCHANGED <<at, cleared>>

\* executemany or commit raises: the rows inserted so far are rolled back.
RowRaises(c) ==
    /\ step[c] = "rows"
    /\ \/ at \in DOMAIN Body[c] /\ Body[c][at] = Unbindable /\ UNCHANGED bounds
       \/ StatementFails
    /\ UNCHANGED table
    /\ Release(c, "error")
    /\ UNCHANGED <<at, cleared>>

\* Fault: no commit before the connection is closed.
CommitForgotten(c) ==
    /\ step[c] = "rows"
    /\ at \notin DOMAIN Body[c]
    /\ Goto(c, "committed")
    /\ UNCHANGED <<holder, table, open, at, cleared, bounds>>

Commit(c) ==
    /\ step[c] = "rows"
    /\ at \notin DOMAIN Body[c]
    /\ table' = open
    /\ Goto(c, "committed")
    /\ UNCHANGED <<holder, open, at, cleared, bounds>>

Close(c) ==
    /\ step[c] = "committed"
    /\ UNCHANGED table
    /\ Release(c, "ok")
    /\ UNCHANGED <<at, cleared, bounds>>

-----------------------------------------------------------------------------
(***************************************************************************)
(* POST /reset-state.                                                      *)
(***************************************************************************)
ResetLock(r) ==
    /\ Acquire(r, "delete")
    /\ UNCHANGED <<table, at, cleared, bounds>>

\* Both DELETEs are in one transaction.
ResetDelete(r) ==
    /\ step[r] = "delete"
    /\ open' = <<>>
    /\ Goto(r, "deleted")
    /\ UNCHANGED <<holder, table, at, cleared, bounds>>

\* A DELETE or the commit raises.  There is no "finally" here: the connection
\* closes when the handler's frame is gone.
ResetRaises(r) ==
    /\ step[r] \in {"delete", "deleted"}
    /\ StatementFails
    /\ UNCHANGED table
    /\ Release(r, "error")
    /\ UNCHANGED <<at, cleared>>

\* The checkpoint behind the commit may raise, too; the rows are gone by then.
ResetCommit(r) ==
    /\ step[r] = "deleted"
    /\ table' = open
    /\ cleared' = cleared \union IdsIn(table)
    /\ \/ Release(r, "ok") /\ UNCHANGED bounds
       \/ Release(r, "error") /\ StatementFails
    /\ UNCHANGED at

-----------------------------------------------------------------------------
\* The process dies and starts again.  init_db creates what does not exist;
\* the clients of calls under way see a broken connection.
CrashRestart ==
    /\ crashes < MaxCrashes
    /\ crashes' = crashes + 1
    /\ step' = [t \in Threads |-> IF step[t] \in {"arrived", "ok", "error"} THEN step[t] ELSE "cut"]
    /\ holder' = Free
    /\ open' = table
    /\ UNCHANGED <<table, at, cleared, failures>>

CallStep(c) ==
    \/ Ignore(c) \/ Misshapen(c) \/ Lock(c)
    \/ InsertRow(c) \/ RowRaises(c) \/ Commit(c) \/ Close(c)
ResetStep(r) == ResetLock(r) \/ ResetDelete(r) \/ ResetRaises(r) \/ ResetCommit(r)

Next ==
    \/ \E c \in Calls : CallStep(c)
    \/ \E r \in Resets : ResetStep(r)
    \/ CrashRestart

Spec == Init /\ [][Next]_vars

-----------------------------------------------------------------------------
(***************************************************************************)
(* Properties.                                                             *)
(***************************************************************************)
Row == [id : Ids \union {NoId}, call : Calls]
Holding(t) == step[t] \in {"rows", "committed", "delete", "deleted"}

\* Shapes; the lock is held by exactly the call inside a critical section, and
\* no transaction outlives its connection.
TypeOK ==
    /\ step \in [Threads -> {"arrived", "rows", "committed", "delete", "deleted", "ok", "error", "cut"}]
    /\ holder \in Threads \union {Free} /\ \A t \in Threads : Holding(t) <=> holder = t
    /\ table \in Seq(Row) /\ open \in Seq(Row)
    /\ holder = Free => open = table
    /\ at \in Nat \ {0}
    /\ cleared \subseteq Ids \union {NoId}
    /\ failures \in 0 .. MaxFailures /\ crashes \in 0 .. MaxCrashes

\* A batch is stored whole or not at all, wherever it failed and whenever the
\* process died: if one of its rows is there, then all of its ids are, and
\* those without an id each have a row of their own.
Anonymous(c) == {i \in DOMAIN Body[c] : Body[c][i] = NoId}
AllOrNothing ==
    \A c \in Calls :
        (\E i \in DOMAIN table : table[i].call = c) =>
            /\ ToSet(Body[c]) \subseteq IdsIn(table)
            /\ Cardinality({i \in DOMAIN table : table[i] = [id |-> NoId, call |-> c]})
                   = Cardinality(Anonymous(c))

\* The status a client gets is the truth: after "ok" everything it sent is
\* there, or was until a reset, and after an error nothing it sent is.
AnsweredHonestly ==
    \A c \in Calls :
        /\ step[c] = "ok" => ToSet(Body[c]) \subseteq IdsIn(table) \union cleared
        /\ step[c] = "error" => \A i \in DOMAIN table : table[i].call # c

\* The service implements AbstractTable: it takes in whole batches, in the
\* order of the commits, each id once, and each item without an id as often
\* as it is sent.
IdsOf(t) == [i \in DOMAIN t |-> t[i].id]
Storable == {c \in Calls : ToSet(Body[c]) \subseteq Ids \union {NoId}}
Abs == INSTANCE AbstractTable WITH
    table <- IdsOf(table),
    Batches <- {Body[c] : c \in Storable}, Repeatable <- {NoId}
Refines == Abs!Spec
=============================================================================
