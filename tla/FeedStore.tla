------------------------------ MODULE FeedStore ------------------------------
(***************************************************************************)
(* The feed store of the load balancer (load_balancer/main.go,             *)
(* AtomicFeedStore) together with the handlers that drive it.              *)
(*                                                                         *)
(* POST /message pushes a rendered line into a bounded channel, or, when   *)
(* the channel is full, appends it to the feed itself.  A worker goroutine *)
(* and every GET /feed handler take lines out of the channel, append them  *)
(* to the feed under the store's mutex, and then, outside the mutex, mirror*)
(* them to the backup file: the worker through a private bufio.Writer that *)
(* a ticker flushes, the handlers with two plain writes.  POST /reset-state*)
(* drains the channel and clears feed and file.  A crash loses everything  *)
(* but the file, from which the next start rebuilds the feed.              *)
(*                                                                         *)
(* Each section under s.mu is one action: it neither blocks nor can be     *)
(* observed half done.  Everything between two such sections, two channel  *)
(* operations or two file writes is a place where others may run.          *)
(***************************************************************************)
EXTENDS Naturals, Sequences, FiniteSets, Functions

CONSTANTS
    Reqs,          \* POST /message requests, one element per request
    WellFormed,    \* those that carry a client name and a text
    Unquotable,    \* those whose text Go's %q renders with a non-JSON escape
    Ids,           \* message ids
    IdOf,          \* the id a request carries or is given
    Getters,       \* handlers of GET /feed
    Worker,        \* the goroutine started by NewAtomicFeedStore
    NoReq,         \* empty hands
    ChanCap,       \* capacity of msgChan, 50000 in the code
    BufCap,        \* capacity of the bufio.Writer, in tokens; 64 KiB in the code
    OpenOutcomes,  \* possible results of opening the backup file
    MaxResets,     \* bound: resets in a behaviour
    MaxCrashes     \* bound: crashes in a behaviour

ASSUME ConstantsAssumption ==
    /\ WellFormed \subseteq Reqs
    /\ Unquotable \subseteq Reqs
    /\ IdOf \in [Reqs -> Ids]
    /\ Worker \notin Getters
    /\ NoReq \notin Reqs
    /\ ChanCap \in Nat \ {0}
    /\ OpenOutcomes \subseteq BOOLEAN
    /\ OpenOutcomes # {}
    /\ MaxResets \in Nat
    /\ MaxCrashes \in Nat

\* A line (two body tokens and a newline) fits the buffer: 16 KiB of request
\* body against 64 KiB of buffer.
ASSUME BufferAssumption == BufCap \in Nat /\ BufCap >= 3

Drainers == Getters \union {Worker}

VARIABLES
    status,     \* where the handler of each POST stands
    msgChan,    \* s.msgChan
    builder,    \* s.builder, as the sequence of rendered requests
    count,      \* s.count
    seen,       \* s.seen
    pc, hand,   \* control point and message in hand of each drainer
    shmOpen,    \* s.shmFile != nil
    buf,        \* the worker's bufio.Writer
    file,       \* content of /dev/shm/feed_backup.jsonl
    resetPc,    \* control point of the POST /reset-state handler
    \* history, read by properties only
    owed,       \* what each GET must show: acknowledged before it began
    doomed,     \* what was acknowledged when the current reset began
    purged,     \* taken out of channel or feed by a reset
    late,       \* with a line that a reset did not reach
    lost,       \* acknowledged, and gone after a crash
    resets, crashes

memory == <<builder, count, seen>>
disk == <<shmOpen, buf, file>>
history == <<doomed, purged, late, lost>>
bounds == <<resets, crashes>>
vars == <<status, msgChan, memory, pc, hand, disk, resetPc, owed, history, bounds>>

-----------------------------------------------------------------------------
(***************************************************************************)
(* The backup file.  A line is written as a head and a tail of its body    *)
(* and a newline, so that a flush of a full buffer can cut it anywhere.    *)
(***************************************************************************)
Token == [req : Reqs, part : {"head", "tail", "newline"}]
Tok(r, p) == [req |-> r, part |-> p]
BodyOf(r) == <<Tok(r, "head"), Tok(r, "tail")>>
LineOf(r) == BodyOf(r) \o <<Tok(r, "newline")>>

\* bufio.Scanner splits at newlines and yields an unterminated last line;
\* json.Unmarshal accepts exactly one whole record on a line.
IsRecord(f, i) ==
    /\ i + 1 \in DOMAIN f
    /\ f[i].part = "head"
    /\ f[i + 1] = Tok(f[i].req, "tail")
    /\ i = 1 \/ f[i - 1].part = "newline"
    /\ i + 1 = Len(f) \/ f[i + 2].part = "newline"
    /\ f[i].req \notin Unquotable

\* The first record of every id: later ones are in seen already.
Kept(f) ==
    {i \in DOMAIN f :
        /\ IsRecord(f, i)
        /\ \A j \in DOMAIN f : IsRecord(f, j) /\ j < i => IdOf[f[j].req] # IdOf[f[i].req]}

Recoverable(f) == {f[i].req : i \in Kept(f)}

\* The kept records in the order of the file.
NthKept(K, n) == CHOOSE i \in K : Cardinality({j \in K : j <= i}) = n
Recovered(f) == [n \in 1 .. Cardinality(Kept(f)) |-> f[NthKept(Kept(f), n)].req]

-----------------------------------------------------------------------------
\* The reply follows the store's Add at once, so both are one step; "bypassed"
\* is acknowledged too, past the channel.
Acked == {r \in Reqs : status[r] \in {"acked", "bypassed"}}

\* Between a channel receive and the append under the lock a message is in
\* nobody's view but its carrier's.
Carrying(d) == pc[d] = "append"
Carried == {hand[d] : d \in {e \in Drainers : Carrying(e)}}
Held == Range(msgChan) \union Carried \union Range(builder)

Init ==
    /\ status = [r \in Reqs |-> "new"]
    /\ msgChan = <<>>
    /\ builder = <<>> /\ count = 0 /\ seen = {}
    /\ pc = [d \in Drainers |-> "idle"]
    /\ hand = [d \in Drainers |-> NoReq]
    /\ shmOpen \in OpenOutcomes
    /\ buf = <<>> /\ file = <<>>
    /\ resetPc = "idle"
    /\ owed = [g \in Getters |-> {}]
    /\ doomed = {} /\ purged = {} /\ late = {} /\ lost = {}
    /\ resets = 0 /\ crashes = 0

-----------------------------------------------------------------------------
(***************************************************************************)
(* POST /message.  fastUUID gives a request without an id one of its own,  *)
(* so IdOf may repeat only where clients repeat an id.                     *)
(***************************************************************************)
PostReject(r) ==
    /\ status[r] = "new"
    /\ r \notin WellFormed
    /\ status' = [status EXCEPT ![r] = "rejected"]
    /\ UNCHANGED <<msgChan, memory, pc, hand, disk, resetPc, owed, history, bounds>>

\* Add: the channel has room.
PostEnqueue(r) ==
    /\ status[r] = "new"
    /\ r \in WellFormed
    /\ Len(msgChan) < ChanCap
    /\ msgChan' = Append(msgChan, r)
    /\ status' = [status EXCEPT ![r] = "acked"]
    /\ UNCHANGED <<memory, pc, hand, disk, resetPc, owed, history, bounds>>

\* Add: the channel is full, select takes the default branch ...
PostOverflow(r) ==
    /\ status[r] = "new"
    /\ r \in WellFormed
    /\ Len(msgChan) = ChanCap
    /\ status' = [status EXCEPT ![r] = "direct"]
    /\ UNCHANGED <<msgChan, memory, pc, hand, disk, resetPc, owed, history, bounds>>

Publish(r) ==
    /\ builder' = Append(builder, r)
    /\ count' = count + 1
    /\ UNCHANGED seen

\* Fault: an overflowing message is acknowledged and dropped.
PostDirectDrop(r) ==
    /\ status[r] = "direct"
    /\ status' = [status EXCEPT ![r] = "bypassed"]
    /\ UNCHANGED <<msgChan, memory, pc, hand, disk, resetPc, owed, history, bounds>>

\* ... and appends under the lock, past the channel and past the backup.
PostDirect(r) ==
    /\ status[r] = "direct"
    /\ Publish(r)
    /\ status' = [status EXCEPT ![r] = "bypassed"]
    /\ UNCHANGED <<msgChan, pc, hand, disk, resetPc, owed, history, bounds>>

-----------------------------------------------------------------------------
(***************************************************************************)
(* Taking a message out of the channel and appending it, common to the     *)
(* worker and to GET /feed.                                                *)
(***************************************************************************)
\* Fault: the message is looked at and left in the channel.
ReceivePeek(d) ==
    /\ msgChan # <<>>
    /\ hand' = [hand EXCEPT ![d] = Head(msgChan)]
    /\ pc' = [pc EXCEPT ![d] = "append"]
    /\ UNCHANGED <<status, msgChan, memory, disk, resetPc, owed, history, bounds>>

Receive(d) ==
    /\ msgChan # <<>>
    /\ msgChan' = Tail(msgChan)
    /\ hand' = [hand EXCEPT ![d] = Head(msgChan)]
    /\ pc' = [pc EXCEPT ![d] = "append"]
    /\ UNCHANGED <<status, memory, disk, resetPc, owed, history, bounds>>

AppendThen(d, mirror, loop) ==
    /\ pc[d] = "append"
    /\ Publish(hand[d])
    /\ pc' = [pc EXCEPT ![d] = IF shmOpen THEN mirror ELSE loop]
    /\ UNCHANGED <<status, msgChan, hand, disk, resetPc, owed, history, bounds>>

(***************************************************************************)
(* The worker goroutine: idle is its select.                               *)
(***************************************************************************)
WorkerReceive == pc[Worker] = "idle" /\ Receive(Worker)

\* Fault: the worker leaves its loop after an append.
WorkerAppendStop == AppendThen(Worker, "stopped", "stopped")

WorkerAppend == AppendThen(Worker, "mirror", "idle")

\* Fault: what does not fit the buffer is dropped.
WorkerMirrorDrop ==
    LET all == buf \o LineOf(hand[Worker]) IN
    /\ pc[Worker] = "mirror"
    /\ buf' = IF Len(all) <= BufCap THEN all ELSE buf
    /\ pc' = [pc EXCEPT ![Worker] = "idle"]
    /\ UNCHANGED <<status, msgChan, memory, hand, shmOpen, file, resetPc, owed, history, bounds>>

\* Write and WriteByte on the bufio.Writer: when the line does not fit, the
\* buffer is filled to the brim, flushed, and keeps the rest.
WorkerMirror ==
    LET all == buf \o LineOf(hand[Worker]) IN
    /\ pc[Worker] = "mirror"
    /\ IF Len(all) <= BufCap
       THEN buf' = all /\ UNCHANGED file
       ELSE /\ file' = file \o SubSeq(all, 1, BufCap)
            /\ buf' = SubSeq(all, BufCap + 1, Len(all))
    /\ pc' = [pc EXCEPT ![Worker] = "idle"]
    /\ UNCHANGED <<status, msgChan, memory, hand, shmOpen, resetPc, owed, history, bounds>>

\* Fault: only a full buffer is flushed.
WorkerTickFull ==
    /\ pc[Worker] = "idle"
    /\ shmOpen
    /\ Len(buf) = BufCap
    /\ file' = file \o buf
    /\ buf' = <<>>
    /\ UNCHANGED <<status, msgChan, memory, pc, hand, shmOpen, resetPc, owed, history, bounds>>

WorkerTick ==
    /\ pc[Worker] = "idle"
    /\ shmOpen
    /\ buf # <<>>
    /\ file' = file \o buf
    /\ buf' = <<>>
    /\ UNCHANGED <<status, msgChan, memory, pc, hand, shmOpen, resetPc, owed, history, bounds>>

-----------------------------------------------------------------------------
(***************************************************************************)
(* GET /feed: drain the channel, then copy the builder.                    *)
(***************************************************************************)
GetterStart(g) ==
    /\ pc[g] = "idle"
    /\ pc' = [pc EXCEPT ![g] = "drain"]
    /\ owed' = [owed EXCEPT ![g] = Acked \ (purged \union lost)]
    /\ UNCHANGED <<status, msgChan, memory, hand, disk, resetPc, history, bounds>>

GetterReceive(g) == pc[g] = "drain" /\ Receive(g)

GetterAppend(g) == AppendThen(g, "body", "drain")

\* Two writes to the file, not one.
GetterWriteBody(g) ==
    /\ pc[g] = "body"
    /\ file' = file \o BodyOf(hand[g])
    /\ pc' = [pc EXCEPT ![g] = "newline"]
    /\ UNCHANGED <<status, msgChan, memory, hand, shmOpen, buf, resetPc, owed, history, bounds>>

GetterWriteNewline(g) ==
    /\ pc[g] = "newline"
    /\ file' = Append(file, Tok(hand[g], "newline"))
    /\ pc' = [pc EXCEPT ![g] = "drain"]
    /\ UNCHANGED <<status, msgChan, memory, hand, shmOpen, buf, resetPc, owed, history, bounds>>

\* Fault: the handler does not look whether the channel is empty.
GetterDrainedEarly(g) ==
    /\ pc[g] = "drain"
    /\ pc' = [pc EXCEPT ![g] = "snapshot"]
    /\ UNCHANGED <<status, msgChan, memory, hand, disk, resetPc, owed, history, bounds>>

GetterDrained(g) ==
    /\ pc[g] = "drain"
    /\ msgChan = <<>>
    /\ pc' = [pc EXCEPT ![g] = "snapshot"]
    /\ UNCHANGED <<status, msgChan, memory, hand, disk, resetPc, owed, history, bounds>>

\* The reply is builder as it is in this step.
GetterReply(g) ==
    /\ pc[g] = "snapshot"
    /\ pc' = [pc EXCEPT ![g] = "idle"]
    /\ owed' = [owed EXCEPT ![g] = {}]
    /\ UNCHANGED <<status, msgChan, memory, hand, disk, resetPc, history, bounds>>

-----------------------------------------------------------------------------
(***************************************************************************)
(* POST /reset-state, the part that concerns this store.                   *)
(***************************************************************************)
ResetStart ==
    /\ resetPc = "idle"
    /\ resets < MaxResets
    /\ resets' = resets + 1
    /\ resetPc' = "drain"
    /\ doomed' = Acked
    /\ UNCHANGED <<status, msgChan, memory, pc, hand, disk, owed, purged, late, lost, crashes>>

ResetDrain ==
    /\ resetPc = "drain"
    /\ msgChan # <<>>
    /\ msgChan' = Tail(msgChan)
    /\ purged' = purged \union {Head(msgChan)}
    /\ UNCHANGED <<status, memory, pc, hand, disk, resetPc, owed, doomed, late, lost, bounds>>

ResetDrained ==
    /\ resetPc = "drain"
    /\ msgChan = <<>>
    /\ resetPc' = "clear"
    /\ UNCHANGED <<status, msgChan, memory, pc, hand, disk, owed, history, bounds>>

\* Requests whose lines a reset leaves: in the worker's buffer, in the hand
\* of whoever is about to write them, in a file that is not open.
ReqsOf(f) == {t.req : t \in Range(f)}
Writing(d) == pc[d] \in {"mirror", "body", "newline"}
InkedHands == {hand[d] : d \in {e \in Drainers : Writing(e)}}
Unreached == ReqsOf(buf) \union InkedHands \union (IF shmOpen THEN {} ELSE ReqsOf(file))

\* Fault: the file is not truncated.
ResetClearMemory ==
    /\ resetPc = "clear"
    /\ builder' = <<>> /\ count' = 0 /\ seen' = {}
    /\ purged' = purged \union Range(builder)
    /\ late' = late \union Unreached
    /\ resetPc' = "idle"
    /\ doomed' = {}
    /\ UNCHANGED <<status, msgChan, pc, hand, disk, owed, lost, bounds>>

\* The locked section: memory and file are emptied, the worker's buffer and
\* whatever drainers carry are not.
ResetClear ==
    /\ resetPc = "clear"
    /\ builder' = <<>> /\ count' = 0 /\ seen' = {}
    /\ file' = IF shmOpen THEN <<>> ELSE file
    /\ purged' = purged \union Range(builder)
    /\ late' = late \union Unreached
    /\ resetPc' = "idle"
    /\ doomed' = {}
    /\ UNCHANGED <<status, msgChan, pc, hand, shmOpen, buf, owed, lost, bounds>>

-----------------------------------------------------------------------------
(***************************************************************************)
(* The process dies at any point and its supervisor starts it again:       *)
(* NewAtomicFeedStore reads the file and opens it for appending.           *)
(***************************************************************************)
CrashRestart ==
    /\ crashes < MaxCrashes
    /\ crashes' = crashes + 1
    /\ builder' = Recovered(file)
    /\ count' = Cardinality(Kept(file))
    /\ seen' = {IdOf[r] : r \in Recoverable(file)}
    /\ msgChan' = <<>>
    /\ buf' = <<>>
    /\ shmOpen' \in OpenOutcomes
    /\ pc' = [d \in Drainers |-> "idle"]
    /\ hand' = [d \in Drainers |-> NoReq]
    /\ status' = [r \in Reqs |-> IF status[r] = "direct" THEN "aborted" ELSE status[r]]
    /\ resetPc' = "idle"
    /\ owed' = [g \in Getters |-> {}]
    /\ doomed' = {}
    /\ lost' = lost \union (Acked \ Recoverable(file))
    /\ UNCHANGED <<file, purged, late, resets>>

-----------------------------------------------------------------------------
Post(r) == PostReject(r) \/ PostEnqueue(r) \/ PostOverflow(r) \/ PostDirect(r)

WorkerStep == WorkerReceive \/ WorkerAppend \/ WorkerMirror \/ WorkerTick

GetterStep(g) ==
    \/ GetterReceive(g) \/ GetterAppend(g)
    \/ GetterWriteBody(g) \/ GetterWriteNewline(g)
    \/ GetterDrained(g) \/ GetterReply(g)

ResetStep == ResetDrain \/ ResetDrained \/ ResetClear

Next ==
    \/ \E r \in Reqs : Post(r)
    \/ WorkerStep
    \/ \E g \in Getters : GetterStart(g) \/ GetterStep(g)
    \/ ResetStart
    \/ ResetStep
    \/ CrashRestart

Spec == Init /\ [][Next]_vars

\* Goroutines that can run do run; clients, resets and crashes may stay away.
\* Go's select picks at random among its ready cases, so the ticker's case is
\* not passed over for ever while messages keep coming.
Fairness ==
    /\ WF_vars(WorkerReceive)
    /\ WF_vars(WorkerAppend)
    /\ WF_vars(WorkerMirror)
    /\ SF_vars(WorkerTick)
    /\ \A g \in Getters : WF_vars(GetterStep(g))
    /\ \A r \in Reqs : WF_vars(PostDirect(r))
    /\ WF_vars(ResetStep)

FairSpec == Spec /\ Fairness
-----------------------------------------------------------------------------
(***************************************************************************)
(* Properties.                                                             *)
(***************************************************************************)
Gone == purged \union lost

\* The channel never exceeds its capacity and the message count the store
\* reports is the number of messages it shows, whichever of the three
\* append sites (Add, worker, GetFeedBytes) ran.
TypeOK ==
    /\ status \in [Reqs -> {"new", "rejected", "direct", "acked", "bypassed", "aborted"}]
    /\ msgChan \in Seq(Reqs) /\ Len(msgChan) <= ChanCap
    /\ builder \in Seq(Reqs) /\ count = Len(builder) /\ seen \subseteq Ids
    /\ pc \in [Drainers -> {"idle", "drain", "append", "mirror", "body", "newline", "snapshot"}]
    /\ hand \in [Drainers -> Reqs \union {NoReq}]
    /\ \A d \in Drainers : pc[d] \in {"append", "mirror", "body", "newline"} => hand[d] \in Reqs
    /\ shmOpen \in BOOLEAN
    /\ buf \in Seq(Token) /\ Len(buf) <= BufCap
    /\ file \in Seq(Token)
    /\ resetPc \in {"idle", "drain", "clear"}
    /\ owed \in [Getters -> SUBSET Reqs]
    /\ doomed \subseteq Reqs /\ purged \subseteq Reqs /\ late \subseteq Reqs /\ lost \subseteq Reqs
    /\ resets \in 0 .. MaxResets
    /\ crashes \in 0 .. MaxCrashes

\* However worker, GET handlers, overflowing posts, resets and a restart
\* interleave, a message is in one place only: the channel, one drainer's
\* hand, or the feed, and there once.  No GET ever shows it twice.
HeldOnce ==
    /\ IsInjective(msgChan)
    /\ IsInjective(builder)
    /\ Range(msgChan) \intersect Range(builder) = {}
    /\ Carried \intersect (Range(msgChan) \union Range(builder)) = {}
    /\ \A d, e \in Drainers : Carrying(d) /\ Carrying(e) /\ hand[d] = hand[e] => d = e

\* An acknowledged message is still held somewhere unless a reset removed it
\* or a crash lost it: no interleaving of drains and appends drops one.
NothingVanishes == Acked \subseteq Held \union Gone

\* When a GET stops draining, whatever was acknowledged before it began is in
\* the feed or in another drainer's hand: it cannot be left in the channel.
DrainedFeed ==
    \A g \in Getters :
        pc[g] = "snapshot" => owed[g] \subseteq Range(builder) \union Carried \union Gone

\* The same for a reset that has stopped draining.
DrainedReset ==
    resetPc = "clear" => doomed \subseteq Range(builder) \union Carried \union Gone

\* An empty channel means as much to a GET as to a reset, whatever else takes
\* messages out of it meanwhile.
Drained == DrainedFeed /\ DrainedReset

\* The backup never runs ahead of the feed: what a restart would bring back
\* has been in the feed before.
BackupHonest == Recoverable(file) \subseteq Range(builder) \union Gone

\* A message that went through the channel and is in the feed is in the
\* backup file, or still on its way there in the worker's buffer or in the
\* hand of whoever published it, whatever flushes, resets and restarts did.
\* (That its line is whole is not promised: the writers tear each other's.)
BackupComplete ==
    \A r \in Range(builder) :
        shmOpen /\ status[r] = "acked" =>
            \/ Range(BodyOf(r)) \subseteq Range(file) \union Range(buf)
            \/ \E d \in Drainers : pc[d] \in {"mirror", "body"} /\ hand[d] = r

\* What is in the backup is in step with the feed, whoever writes it.
BackupFaithful == BackupHonest /\ BackupComplete

\* README.md:98 says of POST /reset-state that it "Atomically resets" memory
\* and cache.  What a restart can bring back of the purged messages is
\* exactly bounded: only those whose lines were in the worker's buffer or in
\* a hand when the reset truncated the file, or in a file it did not have open.
PurgedReturnOnlyLate == Range(builder) \intersect purged \subseteq late

\* Channel, worker, handlers and file together implement AbstractFeed:
\* publish at most once, append only at the end, come back from a restart
\* with a duplicate-free selection of what was accepted.
Taken == {r \in Reqs : status[r] \notin {"new", "rejected"}}
Waiting == Range(msgChan) \union Carried \union {r \in Reqs : status[r] = "direct"}
Abs == INSTANCE AbstractFeed WITH
    accepted <- Taken,
    pending <- Waiting,
    feed <- builder,
    restarts <- crashes
Refines == Abs!Spec

\* Every acknowledged message gets into the feed unless a reset or a crash
\* takes it away, even if no GET ever comes: the worker suffices.
EventuallyVisible ==
    \A r \in Reqs : r \in Acked ~> r \in Range(builder) \union Gone

\* Every message published through the channel reaches the backup file unless
\* a reset or a crash takes it away: the ticker's flush never starves.
EventuallyOnDisk ==
    \A r \in Reqs :
        shmOpen /\ status[r] = "acked" /\ r \in Range(builder)
            ~> Range(BodyOf(r)) \subseteq Range(file) \/ r \in Gone
=============================================================================
