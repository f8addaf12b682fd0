---------------------------- MODULE BackendStore ----------------------------
(***************************************************************************)
(* The message store of a Python backend (db.py) and the handlers that     *)
(* fill it: POST /message and POST /messages/batch (app.py), a "message"   *)
(* frame of the WebSocket, POST /reset-state, and the background writer.   *)
(*                                                                         *)
(* A message passes through the seen set, the memory feed, the write queue *)
(* and SQLite, each under a lock of its own; nothing holds two of them, so *)
(* any other thread may run between two of these steps.  The hash chain is *)
(* linked under yet another lock, before the message is known to be new.   *)
(* A crash keeps the committed rows.                                       *)
(*                                                                         *)
(* SHA-256 over (previous prev, record) is taken to be free of collisions: *)
(* a request's record hash is the request itself, and "prev" names the one *)
(* its hash was computed over.                                             *)
(***************************************************************************)
EXTENDS Naturals, Sequences, FiniteSets, Functions

CONSTANTS
    Rest,          \* POST /message requests
    Frames,        \* "message" frames of WebSocket clients that have joined
    Ingests,       \* POST /messages/batch requests, of one record each
    Malformed,     \* those of Rest without a client name or a text
    Ids,
    IdOf,          \* the message id of each request
    Genesis,       \* the hash before the first record, 64 zeros
    QueueCap,      \* maxsize of _write_queue, 200000 in the code
    BatchMax,      \* most rows in a write, 200 in the code
    SharedHost,    \* IS_SHARED_DB_HOST
    MaxResets,     \* bound: resets in a behaviour
    MaxCrashes,    \* bound: crashes in a behaviour
    MaxFailures    \* bound: failing writes in a behaviour

Reqs == Rest \union Frames \union Ingests

ASSUME BackendConstants ==
    /\ Rest \intersect Frames = {} /\ Rest \intersect Ingests = {} /\ Frames \intersect Ingests = {}
    /\ Malformed \subseteq Rest
    /\ IdOf \in [Reqs -> Ids]
    /\ Genesis \notin Reqs
    \* a frame gets a uuid4
    /\ \A f \in Frames, r \in Reqs : IdOf[f] = IdOf[r] => f = r
    /\ QueueCap \in Nat \ {0} /\ BatchMax \in Nat \ {0}
    /\ SharedHost \in BOOLEAN
    /\ MaxResets \in Nat /\ MaxCrashes \in Nat /\ MaxFailures \in Nat

VARIABLES
    step,          \* control point of each request's handler
    prev,          \* the hash a request was linked to
    seen,          \* _seen_msg_ids
    feed,          \* _memory_feed
    queue,         \* _write_queue
    writer,        \* control point of _background_writer
    batch, at,     \* its batch, and the next row of it to insert
    rows,          \* requests in the messages table, as its one connection sees it
    committed,     \* the table as last committed, what a crash leaves
    lastHash,      \* _last_hash_val
    resetPc,       \* control point of the POST /reset-state handler
    \* history, read by properties only
    replicated,    \* received by the shared database service
    straddled,     \* requests in flight while a reset ran
    unwritten,     \* requests whose write raised, row inserted or not
    survived,      \* rows that were there when a reset's DELETE raised
    gone,          \* stored or on their way, until a reset, crash or failed write
    resets, crashes, failures

memory == <<seen, feed, lastHash>>
writing == <<writer, batch, at>>
sqlite == <<rows, committed>>
history == <<replicated, straddled, unwritten, survived, gone>>
bounds == <<resets, crashes, failures>>
vars == <<step, prev, memory, queue, writing, sqlite, resetPc, history, bounds>>

RowIds == {IdOf[r] : r \in Range(rows)}
CommittedIds == {IdOf[r] : r \in Range(committed)}
TailHash(t) == IF t = <<>> THEN Genesis ELSE t[Len(t)]

\* Past the check of the seen set, or handed to SQLite by an ingest.
Accepted ==
    {r \in Reqs : step[r] \in
        {"feed", "queue", "insert", "ok", "error", "seen", "extend", "stored", "raised", "dead"}}

\* On the way from the seen set to a committed row.
InFlight ==
    {r \in Reqs : step[r] \in {"feed", "queue", "insert", "extend", "seen"}}
        \union Range(queue) \union Range(batch)

Init ==
    /\ step = [r \in Reqs |-> "new"]
    /\ prev = [r \in Reqs |-> Genesis]
    /\ seen = {} /\ feed = <<>> /\ lastHash = Genesis
    /\ queue = <<>>
    /\ writer = "idle" /\ batch = <<>> /\ at = 1
    /\ rows = <<>> /\ committed = <<>>
    /\ resetPc = "idle"
    /\ replicated = {} /\ straddled = {} /\ unwritten = {} /\ survived = {} /\ gone = {}
    /\ resets = 0 /\ crashes = 0 /\ failures = 0

Goto(r, l) == step' = [step EXCEPT ![r] = l]

-----------------------------------------------------------------------------
(***************************************************************************)
(* SQLite.  Every statement runs under _db_lock; the writer keeps it from  *)
(* the first row of a batch to the commit.                                 *)
(***************************************************************************)
DbFree == writer # "insert"

\* INSERT OR IGNORE: the id is UNIQUE.
InsertOrIgnore(r) ==
    rows' = IF IdOf[r] \in RowIds THEN rows ELSE Append(rows, r)

\* One row and its commit, which also commits what a failed batch left behind.
InsertAndCommit(r) ==
    /\ DbFree
    /\ InsertOrIgnore(r)
    /\ committed' = rows'

\* A statement or commit raises.
Raise ==
    /\ failures < MaxFailures
    /\ failures' = failures + 1

\* What becomes of the row: it stays in the open transaction until somebody
\* commits, or was never inserted, or SQLite rolled the transaction back, as it
\* does when the disk is full.
InsertRaises(r) == InsertOrIgnore(r) \/ UNCHANGED rows \/ rows' = committed

\* Messages lost by this step: those given, and those whose row it takes away.
Lose(given) == gone' = gone \union given \union {r \in Accepted : IdOf[r] \in RowIds \ RowIds'}

-----------------------------------------------------------------------------
(***************************************************************************)
(* POST /message.                                                          *)
(***************************************************************************)
PostReject(r) ==
    /\ r \in Malformed
    /\ step[r] = "new"
    /\ Goto(r, "rejected")
    /\ UNCHANGED <<prev, memory, queue, writing, sqlite, resetPc, history, bounds>>

\* message_exists
PostCheck(r) ==
    /\ r \in Rest \ Malformed
    /\ step[r] = "new"
    /\ Goto(r, IF IdOf[r] \in seen THEN "duplicate" ELSE "chain")
    /\ UNCHANGED <<prev, memory, queue, writing, sqlite, resetPc, history, bounds>>

\* get_next_hashes
PostChain(r) ==
    /\ step[r] = "chain"
    /\ prev' = [prev EXCEPT ![r] = lastHash]
    /\ lastHash' = r
    /\ Goto(r, "claim")
    /\ UNCHANGED <<seen, feed, queue, writing, sqlite, resetPc, history, bounds>>

(***************************************************************************)
(* A WebSocket frame links to the last row on disk instead.                *)
(***************************************************************************)
FrameChain(r) ==
    /\ r \in Frames
    /\ step[r] = "new"
    /\ DbFree
    /\ prev' = [prev EXCEPT ![r] = TailHash(rows)]
    /\ Goto(r, "claim")
    /\ UNCHANGED <<memory, queue, writing, sqlite, resetPc, history, bounds>>

-----------------------------------------------------------------------------
(***************************************************************************)
(* save_message, for both.                                                 *)
(***************************************************************************)
NoteStraddle(r) == straddled' = IF resetPc = "idle" THEN straddled ELSE straddled \union {r}

\* Fault: save_message relies on the caller's message_exists.
SaveClaimBlindly(r) ==
    /\ step[r] = "claim"
    /\ seen' = seen \union {IdOf[r]}
    /\ NoteStraddle(r)
    /\ Goto(r, "feed")
    /\ UNCHANGED <<prev, feed, lastHash, queue, writing, sqlite, resetPc, replicated, unwritten, survived, gone, bounds>>

SaveClaim(r) ==
    /\ step[r] = "claim"
    /\ IF IdOf[r] \in seen
       THEN /\ Goto(r, "ignored")
            /\ UNCHANGED <<seen, straddled>>
       ELSE /\ seen' = seen \union {IdOf[r]}
            /\ NoteStraddle(r)
            /\ Goto(r, "feed")
    /\ UNCHANGED <<prev, feed, lastHash, queue, writing, sqlite, resetPc, replicated, unwritten, survived, gone, bounds>>

SaveFeed(r) ==
    /\ step[r] = "feed"
    /\ feed' = Append(feed, r)
    /\ Goto(r, "queue")
    /\ UNCHANGED <<prev, seen, lastHash, queue, writing, sqlite, resetPc, history, bounds>>

\* Fault: a message that finds the queue full is dropped.
SaveQueueDrop(r) ==
    /\ step[r] = "queue"
    /\ queue' = IF Len(queue) < QueueCap THEN Append(queue, r) ELSE queue
    /\ Goto(r, "ok")
    /\ UNCHANGED <<prev, memory, writing, sqlite, resetPc, history, bounds>>

\* Fault: a full queue makes save_message start over.
SaveQueueRetry(r) ==
    /\ step[r] = "queue"
    /\ IF Len(queue) < QueueCap
       THEN queue' = Append(queue, r) /\ Goto(r, "ok")
       ELSE UNCHANGED queue /\ Goto(r, "feed")
    /\ UNCHANGED <<prev, memory, writing, sqlite, resetPc, history, bounds>>

SaveQueue(r) ==
    /\ step[r] = "queue"
    /\ IF Len(queue) < QueueCap
       THEN queue' = Append(queue, r) /\ Goto(r, "ok")
       ELSE UNCHANGED queue /\ Goto(r, "insert")
    /\ UNCHANGED <<prev, memory, writing, sqlite, resetPc, history, bounds>>

SaveInsert(r) ==
    /\ step[r] = "insert"
    /\ InsertAndCommit(r)
    /\ Goto(r, "ok")
    /\ UNCHANGED <<prev, memory, queue, writing, resetPc, history, bounds>>

\* The statement or its commit raises: the reply is a 500, and the message
\* stays in the seen set and the feed.
SaveInsertFail(r) ==
    /\ step[r] = "insert"
    /\ DbFree
    /\ Raise
    /\ InsertRaises(r)
    /\ unwritten' = unwritten \union {r}
    /\ Lose({r})
    /\ Goto(r, "error")
    /\ UNCHANGED <<prev, memory, queue, writing, committed, resetPc, replicated, straddled, survived, resets, crashes>>

-----------------------------------------------------------------------------
(***************************************************************************)
(* save_messages_batch.  The sender's hash comes with the record.  On the  *)
(* shared host the message is stored, but in the feed after a restart only.*)
(***************************************************************************)
IngestRow(r) ==
    /\ r \in Ingests
    /\ step[r] = "new"
    /\ InsertAndCommit(r)
    /\ Goto(r, IF SharedHost THEN "stored" ELSE "seen")
    /\ NoteStraddle(r)
    /\ UNCHANGED <<prev, memory, queue, writing, resetPc, replicated, unwritten, survived, gone, bounds>>

\* executemany or the commit raises: the reply is a 500, and the record does
\* not reach seen set and feed even if its row is committed later.
IngestRowFail(r) ==
    /\ r \in Ingests
    /\ step[r] = "new"
    /\ DbFree
    /\ Raise
    /\ InsertRaises(r)
    /\ unwritten' = unwritten \union {r}
    /\ Lose({r})
    /\ Goto(r, "raised")
    /\ UNCHANGED <<prev, memory, queue, writing, committed, resetPc, replicated, straddled, survived, resets, crashes>>

IngestSeen(r) ==
    /\ step[r] = "seen"
    /\ seen' = seen \union {IdOf[r]}
    /\ Goto(r, "extend")
    /\ UNCHANGED <<prev, feed, lastHash, queue, writing, sqlite, resetPc, history, bounds>>

IngestFeed(r) ==
    /\ step[r] = "extend"
    /\ feed' = Append(feed, r)
    /\ Goto(r, "ok")
    /\ UNCHANGED <<prev, seen, lastHash, queue, writing, sqlite, resetPc, history, bounds>>

-----------------------------------------------------------------------------
(***************************************************************************)
(* _background_writer.                                                     *)
(***************************************************************************)
WriterGet ==
    /\ writer = "idle"
    /\ queue # <<>>
    /\ batch' = <<Head(queue)>> /\ at' = 1
    /\ queue' = Tail(queue)
    /\ writer' = "collect"
    /\ UNCHANGED <<step, prev, memory, sqlite, resetPc, history, bounds>>

WriterGetMore ==
    /\ writer = "collect"
    /\ queue # <<>>
    /\ Len(batch) < BatchMax
    /\ batch' = Append(batch, Head(queue))
    /\ queue' = Tail(queue)
    /\ UNCHANGED <<step, prev, memory, writer, at, sqlite, resetPc, history, bounds>>

WriterGotAll ==
    /\ writer = "collect"
    /\ queue = <<>> \/ Len(batch) = BatchMax
    /\ writer' = "lock"
    /\ UNCHANGED <<step, prev, memory, queue, batch, at, sqlite, resetPc, history, bounds>>

WriterLock ==
    /\ writer = "lock"
    /\ writer' = "insert"
    /\ UNCHANGED <<step, prev, memory, queue, batch, at, sqlite, resetPc, history, bounds>>

\* One row of executemany.
WriterInsert ==
    /\ writer = "insert"
    /\ at <= Len(batch)
    /\ InsertOrIgnore(batch[at])
    /\ at' = at + 1
    /\ UNCHANGED <<step, prev, memory, queue, writer, batch, committed, resetPc, history, bounds>>

\* An exception in executemany or commit: the batch is forgotten, and the rows
\* inserted so far stay in the open transaction or are rolled back.
WriterFail ==
    /\ writer = "insert"
    /\ Raise
    /\ rows' \in {rows, committed}
    /\ unwritten' = unwritten \union Range(batch)
    /\ Lose({batch[i] : i \in at .. Len(batch)})
    /\ batch' = <<>> /\ at' = 1
    /\ writer' = "idle"
    /\ UNCHANGED <<step, prev, memory, queue, committed, resetPc, replicated, straddled, survived, resets, crashes>>

\* Fault: executemany without a commit.
WriterCommitForgotten ==
    /\ writer = "insert"
    /\ at > Len(batch)
    /\ IF SharedHost
       THEN writer' = "idle" /\ batch' = <<>> /\ at' = 1
       ELSE writer' = "replicate" /\ UNCHANGED <<batch, at>>
    /\ UNCHANGED <<step, prev, memory, queue, rows, committed, resetPc, history, bounds>>

\* Fault: the writer keeps its batch and starts over.
WriterCommitAgain ==
    /\ writer = "insert"
    /\ at > Len(batch)
    /\ committed' = rows
    /\ at' = 1
    /\ UNCHANGED <<step, prev, memory, queue, writer, batch, rows, resetPc, history, bounds>>

WriterCommit ==
    /\ writer = "insert"
    /\ at > Len(batch)
    /\ committed' = rows
    /\ IF SharedHost
       THEN writer' = "idle" /\ batch' = <<>> /\ at' = 1
       ELSE writer' = "replicate" /\ UNCHANGED <<batch, at>>
    /\ UNCHANGED <<step, prev, memory, queue, rows, resetPc, history, bounds>>

\* One request to the shared database service; refusal and timeout are
\* swallowed, and a request that timed out may have arrived.
WriterReplicate ==
    /\ writer = "replicate"
    /\ replicated' \in {replicated, replicated \union Range(batch)}
    /\ batch' = <<>> /\ at' = 1
    /\ writer' = "idle"
    /\ UNCHANGED <<step, prev, memory, queue, sqlite, resetPc, straddled, unwritten, survived, gone, bounds>>

-----------------------------------------------------------------------------
(***************************************************************************)
(* POST /reset-state: reset_db, then the chain.                            *)
(***************************************************************************)
ResetStart ==
    /\ resetPc = "idle"
    /\ resets < MaxResets
    /\ resets' = resets + 1
    /\ resetPc' = "drain"
    /\ straddled' = straddled \union InFlight
    /\ UNCHANGED <<step, prev, memory, queue, writing, sqlite, replicated, unwritten, survived, gone, crashes, failures>>

ResetDrain ==
    /\ resetPc = "drain"
    /\ queue # <<>>
    /\ queue' = Tail(queue)
    /\ gone' = gone \union {Head(queue)}
    /\ UNCHANGED <<step, prev, memory, writing, sqlite, resetPc, replicated, straddled, unwritten, survived, bounds>>

ResetDrained ==
    /\ resetPc = "drain"
    /\ queue = <<>>
    /\ resetPc' = "seen"
    /\ UNCHANGED <<step, prev, memory, queue, writing, sqlite, history, bounds>>

ResetSeen ==
    /\ resetPc = "seen"
    /\ seen' = {}
    /\ resetPc' = "feed"
    /\ UNCHANGED <<step, prev, feed, lastHash, queue, writing, sqlite, history, bounds>>

\* Fault: the memory feed is forgotten.
ResetFeedKept ==
    /\ resetPc = "feed"
    /\ resetPc' = "table"
    /\ UNCHANGED <<step, prev, memory, queue, writing, sqlite, history, bounds>>

ResetFeed ==
    /\ resetPc = "feed"
    /\ feed' = <<>>
    /\ resetPc' = "table"
    /\ UNCHANGED <<step, prev, seen, lastHash, queue, writing, sqlite, history, bounds>>

ResetTable ==
    /\ resetPc = "table"
    /\ DbFree
    /\ rows' = <<>> /\ committed' = <<>>
    /\ Lose({})
    /\ resetPc' = "hash"
    /\ UNCHANGED <<step, prev, memory, queue, writing, replicated, straddled, unwritten, survived, bounds>>

\* A DELETE or the commit raises: the rows stay, or are deleted in the open
\* transaction only, or are back after a rollback.  The reply is a 500, and the
\* last hash is not reset.
ResetTableFail ==
    /\ resetPc = "table"
    /\ DbFree
    /\ Raise
    /\ rows' \in {rows, <<>>, committed}
    /\ survived' = survived \union Range(rows) \union Range(committed)
    /\ Lose({})
    /\ resetPc' = "idle"
    /\ UNCHANGED <<step, prev, memory, queue, writing, committed, replicated, straddled, unwritten, resets, crashes>>

ResetHash ==
    /\ resetPc = "hash"
    /\ lastHash' = Genesis
    /\ resetPc' = "idle"
    /\ UNCHANGED <<step, prev, seen, feed, queue, writing, sqlite, history, bounds>>

-----------------------------------------------------------------------------
(***************************************************************************)
(* The process dies and is started again: init_db and the module level of  *)
(* app.py rebuild memory from the committed rows.                          *)
(***************************************************************************)
CrashRestart ==
    /\ crashes < MaxCrashes
    /\ crashes' = crashes + 1
    /\ rows' = committed
    /\ seen' = CommittedIds
    /\ feed' = committed
    /\ lastHash' = TailHash(committed)
    /\ queue' = <<>> /\ writer' = "idle" /\ batch' = <<>> /\ at' = 1
    /\ step' = [r \in Reqs |-> IF step[r] \in {"new", "rejected", "duplicate", "ignored", "ok", "error"} THEN step[r]
                               ELSE IF r \in Accepted THEN "dead" ELSE "failed"]
    /\ resetPc' = "idle"
    /\ gone' = gone \union {r \in Accepted : IdOf[r] \notin CommittedIds}
    /\ UNCHANGED <<prev, committed, replicated, straddled, unwritten, survived, resets, failures>>

-----------------------------------------------------------------------------
Handle(r) ==
    \/ PostReject(r) \/ PostCheck(r) \/ PostChain(r)
    \/ FrameChain(r)
    \/ SaveClaim(r) \/ SaveFeed(r) \/ SaveQueue(r) \/ SaveInsert(r) \/ SaveInsertFail(r)
    \/ IngestRow(r) \/ IngestRowFail(r) \/ IngestSeen(r) \/ IngestFeed(r)

\* What the writer does once started; whether a write fails is not its choice.
WriterStep ==
    WriterGet \/ WriterGetMore \/ WriterGotAll \/ WriterLock \/ WriterInsert \/ WriterCommit \/ WriterReplicate

ResetStep ==
    ResetDrain \/ ResetDrained \/ ResetSeen \/ ResetFeed \/ ResetTable \/ ResetHash

Next ==
    \/ \E r \in Reqs : Handle(r)
    \/ WriterStep
    \/ WriterFail
    \/ ResetStart
    \/ ResetStep
    \/ ResetTableFail
    \/ CrashRestart

Spec == Init /\ [][Next]_vars

\* The writer thread is scheduled, and so is a handler once its request is
\* past the check; requests, resets, failures and crashes may stay away.
\* CPython's lock hands the database to a waiting thread sooner or later.
Fairness ==
    /\ WF_vars(WriterStep)
    /\ \A r \in Reqs : WF_vars(SaveFeed(r)) /\ WF_vars(SaveQueue(r)) /\ SF_vars(SaveInsert(r))
    /\ WF_vars(ResetDrain \/ ResetDrained \/ ResetSeen \/ ResetFeed \/ ResetHash) /\ SF_vars(ResetTable)

FairSpec == Spec /\ Fairness

-----------------------------------------------------------------------------
Steps == {"new", "rejected", "duplicate", "chain", "claim", "ignored", "feed", "queue", "insert",
          "ok", "error", "seen", "extend", "stored", "raised", "dead", "failed"}

\* Types, and the limits of queue and batch.
TypeOK ==
    /\ step \in [Reqs -> Steps]
    /\ prev \in [Reqs -> Reqs \union {Genesis}] /\ lastHash \in Reqs \union {Genesis}
    /\ seen \subseteq Ids
    /\ feed \in Seq(Reqs)
    /\ queue \in Seq(Reqs) /\ Len(queue) <= QueueCap
    /\ writer \in {"idle", "collect", "lock", "insert", "replicate"}
    /\ batch \in Seq(Reqs) /\ Len(batch) <= BatchMax
    /\ at \in 1 .. Len(batch) + 1
    /\ rows \in Seq(Reqs)
    /\ committed \in Seq(Reqs)
    /\ resetPc \in {"idle", "drain", "seen", "feed", "table", "hash"}
    /\ replicated \union straddled \union unwritten \union survived \union gone \subseteq Reqs
    /\ resets \in 0 .. MaxResets /\ crashes \in 0 .. MaxCrashes /\ failures \in 0 .. MaxFailures

\* Two requests with one id never both show in the feed, although the check of
\* the seen set and the claim are two critical sections.  Messages ingested from
\* another server are appended unconditionally, and a reset between claim and
\* append forgets the claim.
FeedDistinct ==
    \A i, j \in DOMAIN feed :
        i # j /\ IdOf[feed[i]] = IdOf[feed[j]]
            => {feed[i], feed[j]} \intersect (Ingests \union straddled) # {}

\* A message past the seen set is never dropped on its way to the disk: full
\* queue, full batch and racing handlers included, it is in the table, in the
\* queue, in the writer's batch or in its handler's hand, unless a reset, a
\* crash or a failed write took it.
Durable ==
    \A r \in Accepted :
        \/ r \in gone
        \/ IdOf[r] \in RowIds
        \/ step[r] \in {"feed", "queue", "insert"}
        \/ r \in Range(queue) \union {batch[i] : i \in at .. Len(batch)}

\* Once nothing is on its way, feed and table agree: every feed entry has its
\* row unless its write raised, every row is in the feed unless it came by an
\* ingest on the shared host, by an ingest that raised, or a reset's DELETE
\* raised and left it.  A reset may split only what was in flight around it.
Settled ==
    InFlight = {} /\ resetPc = "idle" =>
        /\ \A r \in Range(feed) : IdOf[r] \in RowIds \/ r \in unwritten \union straddled
        /\ \A r \in Range(rows) :
              \/ \E q \in Range(feed) : IdOf[q] = IdOf[r]
              \/ step[r] \in {"stored", "raised"}
              \/ r \in straddled \union survived

\* What the shared database service was sent is on this backend's disk, for
\* good: no crash leaves the service with a message the backend has lost.
ReplicatedIsStored ==
    \A r \in replicated \ gone : IdOf[r] \in CommittedIds

\* Seen set, locks and feed list implement AbstractFeed: a message shows at most
\* once, the feed grows only at its end, and a restart brings back a selection
\* of what was accepted.
Abs == INSTANCE AbstractFeed WITH
    accepted <- Accepted,
    pending <- {r \in Reqs : step[r] \in {"feed", "seen", "extend", "stored", "raised"}},
    feed <- feed,
    restarts <- crashes
Refines == Abs!Spec

\* A message past the seen set reaches the disk, even if no other request ever
\* comes, unless a reset, a crash or a failed write takes it.
EventuallyStored ==
    \A r \in Reqs :
        step[r] = "feed" ~>
            IdOf[r] \in CommittedIds \/ r \in gone \union unwritten

-----------------------------------------------------------------------------
(***************************************************************************)
(* What docs and comments say and the code does not do.                    *)
(***************************************************************************)
\* integrity.py: verify_chain tells a tampered row from an intact one.
\* Violated: rows nobody touched fail it, because the order of the chain is
\* not the order of the rows, or a link was made to a row not yet the last.
ChainIntact ==
    \A i \in DOMAIN rows : prev[rows[i]] = TailHash(SubSeq(rows, 1, i - 1))
=============================================================================
