# Verification of the distributed chat: TLA+ models, TLC runs, TLAPS proofs

The system is a load balancer in Go (`load_balancer/main.go`) that keeps a
message feed and a shared message table of its own, and Python backends
(`app.py`, `db.py` and helpers) that each keep a feed, a write queue and an
SQLite file, replicate to the balancer's table and serve browsers over
WebSockets. This directory models the parts in which threads, goroutines,
processes, files, connections and restarts meet, checks them with TLC, and
proves with TLAPS, for all values of the constants, every safety property that
holds in the runs and every refinement.

Paths are relative to `src/`. `PROJECT.json` maps every definition to the lines
it models and lists hazards, findings, theorems and, for each property, a
mutation of the code that breaks it.

## 1. Inventory

| Component | State | Operations | Hard behaviour | What makes it correct |
|---|---|---|---|---|
| Feed store of the balancer (`AtomicFeedStore`, main.go 46-210; POST /message, GET /feed) | channel, feed bytes, count, seen set, worker's `bufio.Writer`, backup file in `/dev/shm` | add, worker loop, GET's drain loop, reset, recovery | many drainers of one channel; append and mirror in separate steps; full channel; crash; two writers of one file | no message twice or dropped, a drained channel owes nobody anything, backup neither ahead of the feed nor short of it |
| Shared table of the balancer (`SharedDB`, 212-382; POST /messages/batch, GET /messages) | records, index, counter, rendered bytes, dirty flag | batch, read, reset | lock-free reads of flag and bytes | reads linearizable, index exact, records only enriched |
| Backend pool (`Backend`, `ServerPool`, `healthCheck`, 388-589) | liveness, failure count, cooldown, score of each backend; threshold | probe, set alive, update health, adapt, select | overlapping probes out of order, reads without locks | selection sound, failures noticed, scores converge |
| Backend store (`db.py`, POST /message, /messages/batch, /reset-state of `app.py`, `integrity.py`) | seen set, memory feed, write queue, SQLite table, last hash | save, ingest, writer, reset, start | six critical sections under five locks per message; full queue; failing writes; crash | no duplicate in the feed, durable, feed and table agree, what is replicated is stored |
| WebSocket hub and browser client (`app.py` 334-438, `static/app.js`) | clients, keys, frames shown | join with history, message, broadcast, leave, reconnect | join against broadcast, clients that raise, one lock around all sends | a client misses nothing, all agree on the order, closed connections are dropped |
| Worker processes and key file (`crypto_utils.py` 22-45, start of `db.py`) | `secret.key`, connection, writer flag and thread of each process | create or read the key, start, fork, accept, write | several starting workers; a death with the file open; globals inherited by a fork | one key, own connections, everybody comes to serve |
| Sealing (`signatures.py`, `integrity.py`, `crypto_utils.py`, key cache and chain of `app.py`) | key pairs, cache, last hash, sealed rows | get a key, sign, encrypt, link, verify, reset | cache emptied under a handler; chain and rows in two places; rows changed behind the application's back | what is stored verifies, one key per sender, alterations are noticed |
| Replication and cluster reset (`db.py` 81-107, main.go 716-772) | batches and resets on the wire | replicate, fan-out of a reset | lost, late and oversized batches, asynchronous reset, crash | every row accounted for, a reset is final for what was at rest |
| Database service (`dbservice/main.py`) | SQLite table | batch, reset | statements failing midway, crash before the commit | batches whole or not at all, truthful status |
| Metrics, load generator, listeners, pages | samples, sockets | | | not modelled, section 9 |

Interaction. The balancer answers POST /message from its own store and does
not forward messages; `SelectBest` only counts. Backends probe nobody; they
answer probes and POST their committed batches to `DB_SERVICE_URL`, by default
the balancer's port 4000, which is `SharedDB`; `dbservice` is a stand-alone
server of the same API. POST /reset-state on the balancer clears both of its
stores and sends resets to the backends without waiting; nobody sends one to
`dbservice`. A backend saves a message first (`BackendStore`) and then broadcasts
it (`ChatHub`).

## 2. Plan

The order of construction was by what users of the system would miss most, and
is the order to read the modules in.

1. `AbstractFeed`, `FeedStore`: the feed of the balancer, implementing it.
2. `AbstractTable`, `SharedDB`: the shared table, implementing it.
3. `BackendStore`: the backend's store, implementing `AbstractFeed`, too.
4. `ServerPool`: probes, circuit breaker, selection.
5. `ChatHub`: join, history, broadcast, leave, reconnect.
6. `Sealing`, `Workers`: keys, chain and processes.
7. `DbService`: implements `AbstractTable`.
8. `Cluster`: backends, network and the balancer's table composed.

All of it is written, and the safety of all of it proved. What could follow:
failing writes to the backup file (section 9), and a proof that the backends of
`Cluster`, whose steps are coarser, are abstractions of `BackendStore`.

## 3. Modules

| Module | Content |
|---|---|
| `AbstractFeed` | What both feeds promise: an accepted request waits, is published at most once, the feed grows at its end only, a restart returns with a duplicate-free selection of what was accepted. |
| `AbstractTable` | What both servers of POST /messages/batch promise: ids in order of arrival, each once (those that are `Repeatable`, of items without an id, whenever they come), added by whole batches. |
| `FeedStore`, `SharedDB`, `BackendStore`, `ServerPool`, `ChatHub`, `Sealing`, `Workers`, `DbService` | One component each. |
| `Cluster` | The composition: several backends, the network, the balancer's table as an instance of `AbstractTable`, and the reset of all of them. |
| `MC...` | The instances for TLC: ids of requests, items of batches, who connects how often. |
| `...Proofs` | Inductive invariants and theorems of each component. Those of `Sealing` and `Workers` are in one module, `SealingWorkersProofs`, which extends both; this is why the names in `Workers` (`WorkersSpec`, `Requests`, `table`, ...) differ from those in `Sealing`. |

Critical sections are single actions; there is an action boundary wherever the
code releases a lock, touches a channel, a queue or the network, or writes to a
file. Definitions marked `Fault:` are variants of the action below them with a
plausible bug; no specification uses them. They serve to see that each property
really notices such a bug. Variables declared under "history" are read by
properties only, never by a guard; those with "bound" count against a constant.

### FeedStore

| Model | Code |
|---|---|
| `PostReject`, `PostEnqueue`, `PostOverflow`, `PostDirect` | POST /message and `Add`: refusal, channel send, the `default` branch and its append under the lock, which the reply follows at once |
| `Receive`, `AppendThen` | `<-s.msgChan` and the locked append, the same for worker and GET; between the two a message is in its carrier's hand and nowhere else |
| `WorkerMirror`, `WorkerTick` | `bufio.Writer`: fill, flush when full at any offset, flush by the ticker |
| `GetterWriteBody`, `GetterWriteNewline` | the two `shmFile.Write` calls of `GetFeedBytes` |
| `GetterDrained`, `GetterReply` | the empty channel, then the copy of `builder` |
| `ResetDrain`, `ResetDrained`, `ResetClear` | `Reset` |
| `CrashRestart` | the process dies anywhere; `NewAtomicFeedStore` scans the file (`IsRecord`, `Kept`, `Recovered`) and opens it again, successfully or not (`OpenOutcomes`) |

A line is three tokens, two halves of the body and the newline, so that a flush
may cut it within the body or before the newline.

### SharedDB

| Model | Code |
|---|---|
| `BatchIgnore`, `BatchLock`, `BatchItem`, `BatchUnlock` | POST /messages/batch and `AddBatch`, one action per turn of its loop: a new record (`Inserted`) or an earlier one whose empty fields are filled (`Enriched`) |
| `GetStart`, `GetLock`, `GetMarshal`, `GetClean`, `GetReply` | `GetMessagesBytes`, one action per access to a shared variable |
| `ResetLock`, `ResetTable`, `ResetCache`, `ResetClean` | `Reset`, one per group of assignments |

`mu` is explicit because GET reads `dirty` and `cacheBytes` without it. `truth` is
the table as of the last completed write; `during` collects its values while a
GET runs. The reads of `dirty` under the lock in `GetMessagesBytes` are plain, its
writes elsewhere atomic and under the same lock, so no outcome but the ordinary
one is possible there.

### BackendStore

| Model | Code |
|---|---|
| `PostCheck`, `PostChain` | `message_exists`, `get_next_hashes` |
| `FrameChain` | `get_last_hash` and the link of a WebSocket message |
| `SaveClaim`, `SaveFeed`, `SaveQueue`, `SaveInsert`, `SaveInsertFail` | `save_message`: seen set, feed, `put_nowait`, and on `queue.Full` the insert by the handler, which may raise |
| `IngestRow`, `IngestRowFail`, `IngestSeen`, `IngestFeed` | `save_messages_batch`, for batches of one record, whose write may raise; on the shared host the row only |
| `WriterGet` ... `WriterReplicate`, `WriterFail` | `_background_writer` |
| `ResetDrain` ... `ResetHash`, `ResetTableFail` | the `reset_db` that is in effect, i.e. the later of the two definitions in `db.py`, then `reset_state`; its DELETE or commit may raise |
| `CrashRestart` | the process dies; `init_db` and the module level of `app.py` rebuild memory from the committed rows |

The table is seen as the one connection of the process sees it; `committed`
says how much of it a crash keeps. SHA-256 is taken to be free of collisions: the
hash of a request's record is the request itself, and `prev` names the one it
was computed over.

Every write may raise: the writer's, a handler's own insert at a full queue, an
ingest's, and a reset's DELETE. Nothing in `db.py` rolls back, so the rows inserted
so far stay in the open transaction until the next commit of anybody, or there are
none, or SQLite has rolled the transaction back by itself, as it does when the
disk is full (`InsertRaises`). A batch whose write raised is forgotten, though
its rows may be committed later; an ingest whose write raised reaches neither
seen set nor feed, row or not; a reset whose DELETE raised has emptied the seen set
and the feed, leaves the rows and the last hash, and is answered 500.

### ServerPool

| Model | Code |
|---|---|
| `Tick`, `ProbeFailed`, `ProbeUndecodable`, `ProbeAlive`, `ProbeHealth` | `healthCheck` and its goroutines, with `SetAlive` and `UpdateHealth` in separate critical sections |
| `CooldownPasses` | the clock of `IsAvailable`, which may pass at any time |
| `AdaptLock` ... `AdaptEnd` | `AdaptThreshold`, one action per score it reads; the scores may change between its two passes |
| `SelectStart` ... `SelectReturn` | `SelectBest`, one action per availability and per score it reads |
| `Change`, `ProbeServed` | the backend's side, external |

A probe is at most `Window` ticks old (timeout over interval, 4 s over 2 s).
The pool's lock is implicit in the control points: `SelectBest` and
`AdaptThreshold` exclude each other, while neither excludes the probes.
`ConsecutiveFail` is kept up to 3, the only value the code compares with. Scores
are whole numbers; the threshold is then compared exactly although it is rounded.

### ChatHub

| Model | Code |
|---|---|
| `Connect`, `Submit` | `connect` and the send button of `static/app.js`; a new connection once the old one is closed |
| `Close` | either side or the network ends the connection; what is buffered stays readable |
| `JoinRegister`, `JoinLoad`, `JoinSend`, `JoinRaises` | `join` in `ws_handler`: registered under `clients_lock`, history read, history sent, in this order; the database may raise in between |
| `ReceiveMessage`, `Leave` | `message`, which is ignored from a client that was dropped, and the `finally` clause |
| `Save`, `SaveRaises` | `save_message` as the hub sees it: appended to the feed; or appended, and then its insert at a full queue raises, so that nothing is broadcast and the handler ends; a frame may raise before the append, too |
| `Ingest` | `save_messages_batch`: into the feed, and broadcast to nobody |
| `PostToNobody`, `BroadcastLock`, `BroadcastSend`, `BroadcastEnd` | the broadcast of POST and `_broadcast_ws`: the list under the lock, each send, the dropping of clients that raised |

A send to a closed connection raises or goes into the void, as TCP has it. The
web server closes a connection whose handler has ended (`Leave`). POST /reset-state
tells browsers nothing and is left to the other modules.

### Sealing

| Model | Code |
|---|---|
| `canonical_message`, `sign_message`, `verify_signature`, `encrypt_text`, `decrypt_text`, `compute_record_hash`, `verify_record`, `verify_chain` | the functions of these names, over ideal primitives |
| `get_or_create_keypair` | the function of `app.py`: its look-up, and clearing a cache above its limit |
| `get_next_hashes`, `FrameLink` | linking a post to `_last_hash_val`, a frame to the last row of the table |
| `Save`, `SaveNot`, `SaveFull`, `Overflow`, `OverflowRaises` | `save_message`: `put_nowait`; a duplicate; the full queue, and the handler's own insert, which may raise |
| `WriterTake`, `WriterCommit`, `WriterRaises` | `_background_writer`: rows leave the queue one by one, and are inserted some time later |
| `Join` | the key pair of a connection |
| `ResetDrain`, `ResetTable`, `ResetTableRaises`, `ResetHash`, `ResetKeys`, `Restart` | POST /reset-state and the module level of `app.py` |

A handler goes on when its row is in the queue, so the next message is linked while
that row may still wait (`waiting`, of which the writer holds the first `taken`).

`Alterations` are the changes of a table behind the application's back that
`TamperEvident` quantifies over: one cell overwritten with garbage or another
row's cell, or any sequence of at most as many rows of the table (rows deleted,
repeated, in another order). No handler of `app.py` calls `verify_record`,
`verify_chain` or `verify_signature`: they are for whoever audits the table.

### Workers

| Model | Code |
|---|---|
| `CheckKey`, `OpenKey`, `WriteKey`, `ReadKey` | `_load_or_create_key`: the existence test, `open(.., "wb")`, the write, and the read that fails on an empty file |
| `InitDb` | `init_db` with `ensure_writer_started` and the first `get_conn` |
| `Fork` | a worker made from a master that has imported the application |
| `Accept`, `Write` | a message through seen set and queue, and the writer thread; `GetConn` compares the process ids |
| `Crash` | a process dies, and what is in its queue with it |

### DbService

| Model | Code |
|---|---|
| `Ignore`, `Misshapen` | no JSON list or an empty one; an item that is no object |
| `Lock`, `InsertRow`, `RowRaises`, `Commit`, `Close` | POST /messages/batch: `executemany` row by row in its transaction, the `finally` that closes |
| `ResetLock`, `ResetDelete`, `ResetRaises`, `ResetCommit` | POST /reset-state |
| `CrashRestart` | the process dies: whatever was not committed is rolled back |

### Cluster

| Model | Code |
|---|---|
| `Claim`, `Enqueue`, `Overflow`, `OverflowFail`, `WriterGet` ... `WriterDone`, `WriterFail` | `save_message` and `_background_writer`, in coarser steps than in `BackendStore`; writes may raise; one attempt per batch, two seconds |
| `Arrive`, `ArriveTooLong`, `Lose` | the request and POST /messages/batch of the balancer, whose body limit of 512 KiB is `Fit` |
| `ResetTable`, `ResetFan`, `OrderLost` | POST /reset-state of the balancer and its goroutines |
| `ResetDrain`, `ResetSeen`, `ResetRows`, `ResetRowsFail` | POST /reset-state of a backend, whose DELETE may raise |
| `CrashRestart` | a backend dies and starts with its committed rows |

`stored` is a backend's table as its connection sees it, `committed` what is on
disk: they differ after a write that raised, with the outcomes of `BackendStore`.

The balancer's table is `INSTANCE AbstractTable`: that `SharedDB` implements
`AbstractTable` is what justifies using it here.

## 4. Runs

With two workers the longest runs take a few minutes and the others seconds.

| Run | Question | Instance |
|---|---|---|
| `FeedStore` | nothing duplicated or dropped, an empty channel owes nothing, file and feed in step, purged lines return only late, `AbstractFeed` implemented, messages become visible and reach the file | 2 posts and a refused one, 1 GET handler, channel of 1, buffer of 4 tokens, 1 reset, 1 crash, a backup file that may fail to open |
| `SharedDB` | index, linearizable reads, growth between resets, `AbstractTable` implemented | 3 batches (repeated ids within and across, a missing id, an undecodable body), 2 GETs, 2 resets |
| `BackendStoreSafety` | feed without duplicates, nothing dropped, feed and table agree, replicated is stored, `AbstractFeed` implemented | 2 posts of one id, 1 ingested record, queue of 1, batches of 2, 1 reset, 1 crash, 2 writes that raise |
| `BackendStoreLive` | accepted messages reach a committed row | 1 post, 1 refused post, 1 frame, 1 ingested record with the id of the post, queue of 1, 1 crash, 1 write that raises |
| `BackendStoreChainOrder` | finding, section 5 | 2 posts, queue of 2 |
| `ServerPool` | sound selection, consistent breaker, failures noticed, scores converge | 2 backends, 2 scores on either side of the threshold, windows of 2 and 1 probes, 1 change of condition |
| `ChatHubSafety` | no gap in what a client has, one order of broadcasts | 2 browsers with one connection each, 1 post, 1 frame, 1 ingested record, history limit of 2 |
| `ChatHubLive` | every message delivered, every closed connection unregistered | 1 browser with up to 2 connections, 1 post, 1 frame |
| `Sealing` | rows verify, one key per sender, sequential chain intact, alterations noticed | 2 posts of a sender, 2 frames of a connection, queue of 1, cache limit 0, 1 reset or restart |
| `Workers` | one key, own connections, workers serve, messages are stored | 2 workers, imported or forked, 3 posts of which 2 share an id, queue of 1, 2 crashes |
| `DbService` | batches whole or not at all, truthful status, `AbstractTable` implemented | 5 batches (overlapping, failing midway, malformed, empty), 1 reset, 1 failing statement, 1 crash |
| `Cluster` | rows accounted for, resets final, messages replicated | 2 backends that got one message both, a third message, queue of 1, batches of 2 of which the balancer admits 1, 1 fault (a request that is lost, a write that raises or a crash), 1 reset |

The bounds. A channel or queue of one slot reaches "full" with two messages. A
buffer of four tokens holds a line and a part of the next, so flushes cut lines.
Worker and GET handler drain the channel against each other and against a reset.
One reset and one crash meet every state of the others. Two scores, one under and
one over the threshold, exercise both branches of the selection, and two probes of
one backend are what the code's interval and timeout allow. A history limit of 2
cuts a feed of three messages. Two writes that raise let one leave a row in the
open transaction and another leave or undo it; a reset whose DELETE raises also
counts. `Fit = 1` below `BatchMax = 2` makes a batch too long, and `MCIdOf` gives
two backends the same message. In `MCSealing` the canonical messages of two
senders coincide, and its two frames are one another's image (`SYMMETRY`). In it
the cache is emptied by resets and restarts; that a sender beyond the limit
empties it needs a second posting sender, whom the instance has no room for, and
rests on the theorem `KeysOfSenders`. Where more of everything would be wanted,
the theorems of section 7 hold for any number of requests, handlers, backends,
connections, batches and faults; `TypeOK` is proved there for every module that
has it, so no run checks it.

Requests, posts and connections are finite, so a run may end:
`CHECK_DEADLOCK FALSE` is set in those of `BackendStore`, `ChatHub`, `Cluster`,
`DbService`, `Sealing` and `Workers` for that reason alone. `FeedStore`
and `SharedDB` can always start another GET and `ServerPool` always ticks: they
are checked for deadlock.

## 5. What the code does and the docs do not say

`BackendStoreChainOrder` ends in a counterexample to `integrity.py:38` ("True =
intact, False = tampered"): the chain is linked in one order and rows are queued
in another, so that `verify_chain` flags rows nobody touched. `findings` in
`PROJECT.json` quotes it.

Other statements of the docs are stronger than what the code guarantees. The
properties that hold say exactly how far it goes:

* `README.md:60` promises that all accepted messages survive a crash. A crash
  loses what was acknowledged and is not in the file yet, or only torn
  (`lost`, `Recoverable`).
* `README.md:95` promises a feed with "100% completeness". GET /feed misses what
  another drainer carries at that moment, and no more (`Drained`).
* `README.md:98` calls the reset atomic. A line that was on its way to the file
  when it was truncated comes back with the next restart, and no other
  (`PurgedReturnOnlyLate`).
* `integrity.py:11` says any edit, deletion or reordering is detected. All are but
  the deletion of the last rows (`TamperEvident`).
* The chain breaks without anybody touching it even if messages are sent one at a
  time: posts and frames together, because a frame does not tell the posts' last
  hash of its row; and frames alone, if one is linked before the row of the one
  before has been written. `SequentialChain` is what is left: posts one at a time, or
  frames each of which finds the queue empty and the writer done.
* A reset of a backend leaves what is in flight around it (`straddled` in
  `Settled`), and all rows if its DELETE raises (`survived`); one of the cluster
  leaves what is on its way (`settled`).
* A client that has joined gets all that is broadcast, but not all that a reload
  would show it: a record of POST /messages/batch and a message whose save raised
  are in the feed and never broadcast (`Silent` in `NoGap`).
* A message whose batch raised in the writer, or whose own insert did, may be stored
  all the same by the next commit and is then replicated by nobody (`failed` in
  `Accounted`); the client of a failed insert, told 500, gets "duplicate" when it
  tries again.
* A worker forked from a preloaded application never gets a writer thread, and
  what it queues is not written (`EventuallyStored` of `Workers` excepts it).
* Two workers that create the key file at a time may serve with different keys
  (`overlap` in `KeysAgree`); one that dies with the file open leaves an empty
  file from which nobody starts (`Poisoned`).

## 6. Fairness

Requests, resets, failures and crashes are never fair. What is:

* `FeedStore`: worker, GET handlers, a post past the channel and a reset once
  begun, weakly, since runnable goroutines run. The ticker's flush strongly: Go's
  `select` chooses among ready cases at random, so it is not passed over for ever.
* `BackendStore`: the writer thread and a handler past the seen set weakly; the
  steps that wait for `_db_lock` strongly, since the lock is free again and again
  and a waiting thread gets it sooner or later.
* `ServerPool`: the ticker ticks, each probe goes on (the HTTP client has a
  timeout), `SelectBest` goes on; `AdaptThreshold` strongly, as it waits for the
  pool's lock.
* `ChatHub`: the thread of each connection and of each message past its start,
  strongly, for `clients_lock`. This includes that browsers read: a send to one
  that never does would block for ever, and everybody with it.
* `Workers`: Gunicorn and the supervisor scripts start what is down, the writer
  runs; both weakly.
* `Cluster`: handlers and writers, and that a request arrives in the end or is
  lost; all weakly. Whether a write raises is not their choice. Nothing is asked of
  resets, which `EventuallyReplicated` excepts.

`SharedDB`, `DbService` and `Sealing` are checked for safety only.

## 7. What is proved

For any number of requests, handlers, batches, backends, connections, workers and
ids, any capacities, and any number of resets, crashes and failures, under the named
assumptions on constants only (`SealingConstants`, `WorkersConstants`, ...: sets
that are disjoint, limits that are numbers, marks that are no values). Each module
of proofs has an inductive invariant, usually `IInv` with the theorem `Invariance`,
and `TypeCorrect` where the component has a `TypeOK`; proofs are structured by
action, leaves name the facts and definitions they use.

`FeedStoreProofs`: `NeverTwice`, `Conservation`, `EmptyIsDrained`, `BackupInStep`,
`OnlyLateReturn`, and `Implements` (`AbstractFeed`). None is inductive alone.
`HeldOnce` needs that channel, hands and feed hold only requests already
acknowledged or bypassing (`KnownAcked`): otherwise a new post could repeat one.
`Drained` needs `NothingVanishes` to conclude, when the channel is seen empty, that
a message is in a hand or in the feed. `BackupHonest` follows from `Written`, which
speaks of the tokens in file, buffer and hands instead of the lines that can be
recovered, and so survives torn lines. `BackupComplete` splits a line at any
offset between file and buffer. `LateOnly` extends `PurgedReturnOnlyLate` to
the file, buffer and hands from which a purged line could return.

`SharedDBProofs`: `IndexAlwaysExact`, `ReadsLinearizable`, `ShownOnlyGrows`, and
`Implements` (`AbstractTable`). With the
mutex free, the table is the truth (`TableIsCurrent`); when the flag is clear the
bytes render the truth (`CleanIsCurrent`); a renderer holds the current table
(`RenderedIsCurrent`); every reader past its look at the flag has a witness, a
value the truth had since it began (`Witnessed`). `Grown` relates the bytes to the
table they were rendered from. For the refinement, `Filling` says of a batch that is
half done which ids it has added to the last completed table, in which order: those
of the places of `Bringing` it has passed. The step that releases the mutex is
the abstract `Add`, and all others stutter but the reset's.

`BackendStoreProofs`: `NeverShownTwice`, `NeverDropped`, `FeedMatchesTable`,
`ServiceNotAhead`, and `Implements` (`AbstractFeed`). `ClaimsApart` ties the seen set to
the feed, `Matched` says where each message of feed and table is in between,
`WriterHonest` what the writer's position in its batch implies of the committed
rows, and `ResetMarks` that a reset knows whom it disturbs. A write that raises may
take the table back to what is committed, so `Matched` speaks of the ids that are
both in the table and committed (`StoredIds`), and of the rows that are either.

`ServerPoolProofs`: `BreakerAlwaysConsistent` and `SelectionAlwaysSound`. The loop
invariant `Scan` says of every backend already looked at that the best so far is
at least as good, unless it changed since.

`ChatHubProofs`: `NoMessageMissed` and `BroadcastOrder`. `Typed` keeps a frame in one
place and its connection's thread busy with it; `GapClosed` says that the history a
client is about to get closes its gap, but for what was put in the feed silently
after it was loaded. `AgreedOrder` needs `NotYet` (a
broadcast is shown nowhere before it has been sent there) and `Latest` (the one that
holds the lock is the latest wherever it is shown): of two broadcasts the second is
nowhere while the first goes out, since `_broadcast_ws` keeps one lock from the first
send to the last.

`DbServiceProofs`: `BatchIsAtomic`, `AnswersAreTrue`, and `Implements`
(`AbstractTable`). `Transaction` says that the holder's uncommitted table is the
committed one and its batch up to the current row; `Arriving` says which rows of the
batch these are, and the commit is the abstract `Add`, items without an id included.

`ClusterProofs`: `RowsAccounted`, `ResetIsFinal`. `Rows` of a backend are those stored
or committed: a rollback takes the first back to the second, so both have to be
accounted for, and be free of what a reset settled. `AtRest` says that what a
reset found at rest is neither new nor on its way again.

`SealingWorkersProofs`, of `Sealing`: `KeysOfSenders`, `SealsHold`,
`ChainOfOneKind`, `AlterationsShow`. `KeysOwned` says who has which key pair: each
sender in the cache one of its own, and a key pair taken since the cache was last
emptied is still in it, so that the next handler of the sender gets the same.
`RowInv` says that a row, linked or stored, is a sealed message, and stored once.
`ChainInv` is about the table as it is going to be, the rows and those that wait
(`Line`): while nothing is torn it is a chain, one message at most is linked and
not in it, its link is to the end of it, and so is the last hash if there are only
posts; nothing is left in an open transaction; and between the two clearings of a
reset it is empty. `AlterationsShow` needs nothing but `RowInv` and an intact
table. A cell: each column but the text and the public key is in the hash
(`CellShows`), the text is in the ciphertext, the key made the signature. Rows
elsewhere: two places of a chain have different links (`LinkTells`), so the first
row that is not where it was has a link that does not verify
(`ChainedIsBeginning`).

Of `Workers`: `OneKeyForAll`, `ConnectionsNotShared`. `FileInv` says that while no two
processes create the file at a time, one creates it only while nobody has a
key, and that everybody past reading has the key in the file; `WritersInv` that only
processes that serve write, and that with a preloaded application only the master
creates.

The prover's libraries state induction over an operator, which none of its provers
can instantiate. Where a proof needs it, `LeastNumber` stands in: the least number at
which a claim fails exists, and does not.

## 8. What is only model-checked

* Liveness: it rests on fairness and `ENABLED`, which the prover does not support.
* That the mutations listed in `PROJECT.json` break the properties, and the finding
  of section 5.

The primitives of cryptography are assumed to be ideal in the definitions, not
proved so: a signature, a ciphertext or a hash is what it was computed from.

## 9. What is not modelled

* The load generator, a client; metrics and GET /health, samples that reach the
  rest only as a score, which `ServerPool` lets take any value at any time;
  listeners, process limits, the page's layout.
* Handlers that only read: GET of backends and `dbservice`, /lb-stats.
* Rendering: bytes of JSON, `%q` beyond the constant `Unquotable`, timestamps,
  log lines.
* A full tmpfs, after which `bufio.Writer` keeps the error and mirrors nothing any
  more, and lines beyond the recovery scanner's limit of 64 KiB.
* Endless posts, under which the drain loops of GET and reset need not end.
* Batches of more than one record in `save_messages_batch`.
* A frame's timestamp that is no whole number: it is signed as it came
  (`app.py:395`) and may come back from the column, whose affinity is INTEGER,
  as another value.
* The count `inserted` in the answers of `dbservice`: `AnsweredHonestly` is about
  the status.
* `CHAT_SECRET_KEY`, with which there is no key file.
* `SharedDB.AddSingle`, `Backend.RecordFailure` and `RecordSuccess`: nobody
  calls them; `Backend.ActiveInFlight` is read and never changed. The `users`
  table is written and never read.
