------------------------------ MODULE Cluster ------------------------------
(***************************************************************************)
(* Replication and reset across the cluster.  The writer thread of every   *)
(* backend (db.py) sends each batch it has committed to the shared table   *)
(* of the load balancer, once and with a timeout; POST /reset-state on the *)
(* balancer (load_balancer/main.go) clears the table and then tells the    *)
(* backends to reset themselves, without waiting for them.                 *)
(*                                                                         *)
(* Each component is here what its own module shows it to be: the table an *)
(* AbstractTable (SharedDB), a backend the seen set, queue, writer and     *)
(* rows of BackendStore, whose finer steps are left to that module.        *)
(***************************************************************************)
EXTENDS Naturals, Sequences, FiniteSets, Functions

CONSTANTS
    Backends,
    Posts,         \* messages that clients post
    At,            \* the backend each is posted to
    Ids, IdOf,     \* their ids; a client may post one message to two backends
    QueueCap,      \* maxsize of _write_queue
    BatchMax,      \* most rows in a batch, 200 in the code
    Fit,           \* records that the balancer's limit of 512 KiB admits
    MaxFaults,     \* bound: requests that do not arrive, writes that raise, crashes of backends
    MaxResets      \* bound: resets of the cluster

ASSUME ClusterConstants ==
    /\ At \in [Posts -> Backends] /\ IdOf \in [Posts -> Ids]
    /\ QueueCap \in Nat \ {0} /\ BatchMax \in Nat \ {0} /\ Fit \in Nat
    /\ MaxFaults \in Nat /\ MaxResets \in Nat

VARIABLES
    step,          \* of each post: "new", "claimed" (past the seen set), "done", "dead"
    \* of each backend
    seen, queue,
    stored,        \* posts in its messages table, as its one connection sees it
    committed,     \* the table without the open transaction
    writer, batch, \* control point of its writer thread, and its batch
    resetting,     \* control point of its POST /reset-state handler
    \* on the network
    wire,          \* batches on their way to the balancer
    orders,        \* resets on their way to each backend
    \* the balancer
    table,         \* ids in the shared table
    fanning,       \* its reset handler is past the table
    \* history and bounds
    unsent,        \* past the seen set, and no writer lived to send them
    undelivered,   \* in a batch that was lost or did not fit
    failed,        \* their write raised
    wiped,         \* ids that a reset removed from the table
    settled,       \* no longer on their way when a reset cleared the table
    missed,        \* backends that a reset did not reach, or did not finish on
    faults, resets

tables == <<stored, committed>>
backend == <<seen, queue, tables, writer, batch>>
reset == <<resetting, orders, fanning>>
history == <<unsent, undelivered, failed, wiped, settled, missed>>
bounds == <<faults, resets>>
vars == <<step, backend, reset, wire, table, history, bounds>>

IdsOf(s) == [i \in DOMAIN s |-> IdOf[s[i]]]
IdsIn(S) == {IdOf[p] : p \in S}

\* INSERT OR IGNORE of one message after the other.
Insert(rows, s) ==
    rows \union {s[i] : i \in {j \in DOMAIN s :
        IdOf[s[j]] \notin IdsIn(rows) \union {IdOf[s[k]] : k \in 1 .. j - 1}}}

Sent == UNION {Range(m) : m \in wire}

\* In the writer's hands, and not sent.
Unsent(b) == IF writer[b] = "wait" THEN {} ELSE Range(batch[b])

\* Accepted, and not yet in the table or given up.
OnItsWay ==
    {p \in Posts : step[p] = "claimed"} \union Sent
        \union UNION {Range(queue[b]) \union Unsent(b) : b \in Backends}

Service == INSTANCE AbstractTable WITH
    table <- table, Batches <- {IdsOf(s) : s \in UNION {[1 .. n -> Posts] : n \in 0 .. BatchMax}},
    Repeatable <- {}

Init ==
    /\ step = [p \in Posts |-> "new"]
    /\ seen = [b \in Backends |-> {}] /\ queue = [b \in Backends |-> <<>>]
    /\ stored = [b \in Backends |-> {}] /\ committed = [b \in Backends |-> {}]
    /\ writer = [b \in Backends |-> "idle"] /\ batch = [b \in Backends |-> <<>>]
    /\ resetting = [b \in Backends |-> "idle"]
    /\ wire = {} /\ orders = [b \in Backends |-> 0]
    /\ Service!Init
    /\ fanning = FALSE
    /\ unsent = {} /\ undelivered = {} /\ failed = {} /\ wiped = {} /\ settled = {} /\ missed = {}
    /\ faults = 0 /\ resets = 0

-----------------------------------------------------------------------------
(***************************************************************************)
(* A backend takes a message in.                                           *)
(***************************************************************************)
\* save_message up to the queue; a duplicate ends here.
Claim(p) ==
    LET b == At[p] IN
    /\ step[p] = "new"
    /\ step' = [step EXCEPT ![p] = IF IdOf[p] \in seen[b] THEN "done" ELSE "claimed"]
    /\ seen' = [seen EXCEPT ![b] = @ \union {IdOf[p]}]
    /\ UNCHANGED <<queue, tables, writer, batch, reset, wire, table, history, bounds>>

Enqueue(p) ==
    LET b == At[p] IN
    /\ step[p] = "claimed"
    /\ Len(queue[b]) < QueueCap
    /\ queue' = [queue EXCEPT ![b] = Append(@, p)]
    /\ step' = [step EXCEPT ![p] = "done"]
    /\ UNCHANGED <<seen, tables, writer, batch, reset, wire, table, history, bounds>>

\* A write of b that is committed leaves t, and ends the open transaction.
Write(b, t) ==
    /\ stored' = [stored EXCEPT ![b] = t]
    /\ committed' = [committed EXCEPT ![b] = t]

\* A write of s that raises: some rows of it are in the open transaction, which
\* the next commit of b ends, or the database has rolled that back.
Raised(b, s) == {Insert(stored[b], SubSeq(s, 1, n)) : n \in 0 .. Len(s)} \union {committed[b]}

Raise(b, outcomes) ==
    /\ faults < MaxFaults
    /\ faults' = faults + 1
    /\ \E t \in outcomes : stored' = [stored EXCEPT ![b] = t]
    /\ UNCHANGED committed

\* queue.Full: the handler inserts the row itself, and nobody replicates it.
Overflow(p) ==
    LET b == At[p] IN
    /\ step[p] = "claimed"
    /\ Len(queue[b]) = QueueCap
    /\ Write(b, Insert(stored[b], <<p>>))
    /\ step' = [step EXCEPT ![p] = "done"]
    /\ unsent' = unsent \union {p}
    /\ UNCHANGED <<seen, queue, writer, batch, reset, wire, table, undelivered, failed, wiped, settled, missed, bounds>>

\* Insert or commit raises: answered with an error.
OverflowFail(p) ==
    LET b == At[p] IN
    /\ step[p] = "claimed"
    /\ Len(queue[b]) = QueueCap
    /\ Raise(b, Raised(b, <<p>>))
    /\ step' = [step EXCEPT ![p] = "done"]
    /\ failed' = failed \union {p}
    /\ UNCHANGED <<seen, queue, writer, batch, reset, wire, table, unsent, undelivered, wiped, settled, missed, resets>>

-----------------------------------------------------------------------------
(***************************************************************************)
(* _background_writer.                                                     *)
(***************************************************************************)
WriterGet(b) ==
    /\ writer[b] = "idle"
    /\ queue[b] # <<>>
    /\ batch' = [batch EXCEPT ![b] = <<Head(queue[b])>>]
    /\ queue' = [queue EXCEPT ![b] = Tail(@)]
    /\ writer' = [writer EXCEPT ![b] = "more"]
    /\ UNCHANGED <<step, seen, tables, reset, wire, table, history, bounds>>

WriterGetMore(b) ==
    /\ writer[b] = "more"
    /\ queue[b] # <<>> /\ Len(batch[b]) < BatchMax
    /\ batch' = [batch EXCEPT ![b] = Append(@, Head(queue[b]))]
    /\ queue' = [queue EXCEPT ![b] = Tail(@)]
    /\ UNCHANGED <<step, seen, tables, writer, reset, wire, table, history, bounds>>

WriterGotAll(b) ==
    /\ writer[b] = "more"
    /\ queue[b] = <<>> \/ Len(batch[b]) = BatchMax
    /\ writer' = [writer EXCEPT ![b] = "commit"]
    /\ UNCHANGED <<step, seen, queue, tables, batch, reset, wire, table, history, bounds>>

WriterCommit(b) ==
    /\ writer[b] = "commit"
    /\ Write(b, Insert(stored[b], batch[b]))
    /\ writer' = [writer EXCEPT ![b] = "send"]
    /\ UNCHANGED <<step, seen, queue, batch, reset, wire, table, history, bounds>>

\* An insert or the commit raises, and the batch is forgotten.
WriterFail(b) ==
    /\ writer[b] = "commit"
    /\ Raise(b, Raised(b, batch[b]))
    /\ writer' = [writer EXCEPT ![b] = "idle"]
    /\ batch' = [batch EXCEPT ![b] = <<>>]
    /\ failed' = failed \union Range(batch[b])
    /\ UNCHANGED <<step, seen, queue, reset, wire, table, unsent, undelivered, wiped, settled, missed, resets>>

\* Fault: only the first row is sent.
WriterSendFirst(b) ==
    /\ writer[b] = "send"
    /\ wire' = wire \union {<<Head(batch[b])>>}
    /\ writer' = [writer EXCEPT ![b] = "wait"]
    /\ UNCHANGED <<step, seen, queue, tables, batch, reset, table, history, bounds>>

WriterSend(b) ==
    /\ writer[b] = "send"
    /\ wire' = wire \union {batch[b]}
    /\ writer' = [writer EXCEPT ![b] = "wait"]
    /\ UNCHANGED <<step, seen, queue, tables, batch, reset, table, history, bounds>>

\* Fault: a batch that was not answered in time is sent again.
WriterDoneRetry(b) ==
    /\ writer[b] = "wait"
    /\ \/ /\ writer' = [writer EXCEPT ![b] = "idle"]
          /\ batch' = [batch EXCEPT ![b] = <<>>]
       \/ /\ writer' = [writer EXCEPT ![b] = "send"]
          /\ UNCHANGED batch
    /\ UNCHANGED <<step, seen, queue, tables, reset, wire, table, history, bounds>>

\* Fault: no timeout, so that a request that got lost is waited for.
WriterDoneAnswered(b) ==
    /\ writer[b] = "wait"
    /\ batch[b] \notin wire
    /\ Range(batch[b]) \intersect undelivered = {}
    /\ writer' = [writer EXCEPT ![b] = "idle"]
    /\ batch' = [batch EXCEPT ![b] = <<>>]
    /\ UNCHANGED <<step, seen, queue, tables, reset, wire, table, history, bounds>>

\* Answered, refused, or two seconds have passed: the same to the writer.
WriterDone(b) ==
    /\ writer[b] = "wait"
    /\ writer' = [writer EXCEPT ![b] = "idle"]
    /\ batch' = [batch EXCEPT ![b] = <<>>]
    /\ UNCHANGED <<step, seen, queue, tables, reset, wire, table, history, bounds>>

-----------------------------------------------------------------------------
(***************************************************************************)
(* The network and the balancer's POST /messages/batch.  Batches of one    *)
(* backend may overtake each other: it does not wait for one that is late. *)
(***************************************************************************)
Arrive(m) ==
    /\ m \in wire
    /\ Len(m) <= Fit
    /\ Service!Add(IdsOf(m))
    /\ wire' = wire \ {m}
    /\ UNCHANGED <<step, backend, reset, history, bounds>>

\* The body is cut at the limit and does not decode: answered "ok".
ArriveTooLong(m) ==
    /\ m \in wire
    /\ Len(m) > Fit
    /\ wire' = wire \ {m}
    /\ undelivered' = undelivered \union Range(m)
    /\ UNCHANGED <<step, backend, reset, table, unsent, failed, wiped, settled, missed, bounds>>

Lose(m) ==
    /\ m \in wire
    /\ faults < MaxFaults
    /\ faults' = faults + 1
    /\ wire' = wire \ {m}
    /\ undelivered' = undelivered \union Range(m)
    /\ UNCHANGED <<step, backend, reset, table, unsent, failed, wiped, settled, missed, resets>>

-----------------------------------------------------------------------------
(***************************************************************************)
(* POST /reset-state on the balancer, and on the backends.                 *)
(***************************************************************************)
ResetTable ==
    /\ ~fanning
    /\ resets < MaxResets
    /\ resets' = resets + 1
    /\ Service!Clear
    /\ fanning' = TRUE
    /\ wiped' = wiped \union Range(table)
    /\ settled' = settled \union ({p \in Posts : step[p] # "new"} \ OnItsWay)
    /\ UNCHANGED <<step, backend, resetting, orders, wire, unsent, undelivered, failed, missed, faults>>

\* One goroutine per backend; the reply does not wait for them.
ResetFan ==
    /\ fanning
    /\ fanning' = FALSE
    /\ orders' = [b \in Backends |-> orders[b] + 1]
    /\ UNCHANGED <<step, backend, resetting, wire, table, history, bounds>>

\* The error of httpClient.Do is dropped.
OrderLost(b) ==
    /\ orders[b] > 0
    /\ faults < MaxFaults
    /\ faults' = faults + 1
    /\ orders' = [orders EXCEPT ![b] = @ - 1]
    /\ missed' = missed \union {b}
    /\ UNCHANGED <<step, backend, resetting, fanning, wire, table, unsent, undelivered, failed, wiped, settled, resets>>

\* reset_db: queue, seen set and feed, rows, each under its own lock.
ResetDrain(b) ==
    /\ orders[b] > 0
    /\ resetting[b] = "idle"
    /\ orders' = [orders EXCEPT ![b] = @ - 1]
    /\ resetting' = [resetting EXCEPT ![b] = "seen"]
    /\ queue' = [queue EXCEPT ![b] = <<>>]
    /\ UNCHANGED <<step, seen, tables, writer, batch, fanning, wire, table, history, bounds>>

ResetSeen(b) ==
    /\ resetting[b] = "seen"
    /\ resetting' = [resetting EXCEPT ![b] = "rows"]
    /\ seen' = [seen EXCEPT ![b] = {}]
    /\ UNCHANGED <<step, queue, tables, writer, batch, orders, fanning, wire, table, history, bounds>>

ResetRows(b) ==
    /\ resetting[b] = "rows"
    /\ resetting' = [resetting EXCEPT ![b] = "idle"]
    /\ Write(b, {})
    /\ UNCHANGED <<step, seen, queue, writer, batch, orders, fanning, wire, table, history, bounds>>

\* DELETE or commit raises; nobody tries again.
ResetRowsFail(b) ==
    /\ resetting[b] = "rows"
    /\ Raise(b, {stored[b], {}, committed[b]})
    /\ resetting' = [resetting EXCEPT ![b] = "idle"]
    /\ missed' = missed \union {b}
    /\ UNCHANGED <<step, seen, queue, writer, batch, orders, fanning, wire, table, unsent, undelivered, failed, wiped,
                   settled, resets>>

-----------------------------------------------------------------------------
\* A backend dies and starts again with its committed rows.  What its writer
\* had committed and not yet sent is never sent.
CrashRestart(b) ==
    /\ faults < MaxFaults
    /\ faults' = faults + 1
    /\ step' = [p \in Posts |-> IF At[p] = b /\ step[p] = "claimed" THEN "dead" ELSE step[p]]
    /\ seen' = [seen EXCEPT ![b] = IdsIn(committed[b])]
    /\ stored' = [stored EXCEPT ![b] = committed[b]]
    /\ queue' = [queue EXCEPT ![b] = <<>>]
    /\ writer' = [writer EXCEPT ![b] = "idle"]
    /\ batch' = [batch EXCEPT ![b] = <<>>]
    /\ resetting' = [resetting EXCEPT ![b] = "idle"]
    /\ unsent' = unsent \union Range(queue[b]) \union Unsent(b)
    /\ missed' = IF resetting[b] = "idle" THEN missed ELSE missed \union {b}
    /\ UNCHANGED <<committed, orders, fanning, wire, table, undelivered, failed, wiped, settled, resets>>

-----------------------------------------------------------------------------
WriterStep(b) ==
    \/ WriterGet(b) \/ WriterGetMore(b) \/ WriterGotAll(b)
    \/ WriterCommit(b) \/ WriterFail(b) \/ WriterSend(b) \/ WriterDone(b)
BackendReset(b) == ResetDrain(b) \/ ResetSeen(b) \/ ResetRows(b) \/ ResetRowsFail(b)
Delivery == \E m \in wire : Arrive(m) \/ ArriveTooLong(m) \/ Lose(m)

Next ==
    \/ \E p \in Posts : Claim(p) \/ Enqueue(p) \/ Overflow(p) \/ OverflowFail(p)
    \/ \E b \in Backends : WriterStep(b) \/ OrderLost(b) \/ BackendReset(b) \/ CrashRestart(b)
    \/ Delivery
    \/ ResetTable
    \/ ResetFan

Spec == Init /\ [][Next]_vars

\* Handlers and writers that can run do run, and a request arrives or is lost in
\* the end.  Nothing is asked of the reset: what it has to do by a certain time no
\* property says.
Fairness ==
    /\ WF_vars(\E p \in Posts : Enqueue(p) \/ Overflow(p) \/ OverflowFail(p))
    /\ \A b \in Backends : WF_vars(WriterStep(b))
    /\ WF_vars(Delivery)

FairSpec == Spec /\ Fairness

-----------------------------------------------------------------------------
(***************************************************************************)
(* Properties.                                                             *)
(***************************************************************************)
TypeOK ==
    /\ step \in [Posts -> {"new", "claimed", "done", "dead"}]
    /\ seen \in [Backends -> SUBSET Ids] /\ stored \in [Backends -> SUBSET Posts]
    /\ committed \in [Backends -> SUBSET Posts]
    /\ queue \in [Backends -> Seq(Posts)] /\ batch \in [Backends -> Seq(Posts)]
    /\ writer \in [Backends -> {"idle", "more", "commit", "send", "wait"}]
    /\ resetting \in [Backends -> {"idle", "seen", "rows"}]
    /\ orders \in [Backends -> Nat]
    /\ \A b \in Backends :
        /\ Len(queue[b]) <= QueueCap /\ Len(batch[b]) <= BatchMax
        /\ writer[b] = "idle" <=> batch[b] = <<>>
        /\ \A p, q \in stored[b] : IdOf[p] = IdOf[q] => p = q
        /\ \A p, q \in committed[b] : IdOf[p] = IdOf[q] => p = q
    /\ wire \subseteq Seq(Posts)
    /\ table \in Seq(Ids) /\ IsInjective(table)
    /\ fanning \in BOOLEAN
    /\ unsent \subseteq Posts /\ undelivered \subseteq Posts /\ failed \subseteq Posts /\ settled \subseteq Posts
    /\ wiped \subseteq Ids /\ missed \subseteq Backends
    /\ faults \in 0 .. MaxFaults /\ resets \in 0 .. MaxResets

\* Every row of every backend, committed or in its open transaction, is
\* accounted for at the balancer: it is in the shared table, on its way there,
\* removed by a reset, or belongs to one of the five classes the code gives up:
\* inserted by a handler whose queue was full, sent in vain, too long to decode,
\* committed just before a crash, or written with an exception, which forgets
\* the batch but not what of it is in the open transaction.
Accounted ==
    \A b \in Backends : \A p \in stored[b] \union committed[b] :
        \/ IdOf[p] \in Range(table) \union wiped
        \/ p \in Sent \union Unsent(b)
        \/ p \in unsent \union undelivered \union failed

\* A reset of the cluster, though nobody waits for its parts, is final for
\* whatever was at rest when the table was cleared: nothing of it comes back
\* to the table, not even out of a request that timed out long ago, and
\* a backend that has served its resets, without an exception, has none of it,
\* nor gets it back with a rollback.  Only what was on its way at that moment may
\* arrive afterwards.
Served(b) == ~fanning /\ orders[b] = 0 /\ resetting[b] = "idle" /\ b \notin missed
SettledStaysGone ==
    /\ resets > 0 => Range(table) \subseteq IdsIn(Posts \ settled)
    /\ \A b \in Backends : Served(b) => (stored[b] \union committed[b]) \intersect settled = {}

\* In the end every accepted message, and every one answered "duplicate" of it,
\* is in the shared table, unless it was given up in one of the ways of Accounted,
\* died with its handler, or a reset took it: a lost or late request, or a write
\* that raised, never holds up those after it.
EventuallyReplicated ==
    LET givenUp == unsent \union undelivered \union failed \union {p \in Posts : step[p] = "dead"} IN
    <>[](\A p \in Posts :
            step[p] \in {"claimed", "done"} /\ resets = 0 => IdOf[p] \in Range(table) \union IdsIn(givenUp))
=============================================================================
