------------------------------ MODULE Sealing ------------------------------
(***************************************************************************)
(* How a Python backend seals messages and how a table of sealed messages  *)
(* is verified: signatures.py, integrity.py, encrypt_text and decrypt_text *)
(* of crypto_utils.py, and in app.py the key pairs of senders and          *)
(* connections, the hash chain and their reset.                            *)
(*                                                                         *)
(* A handler gets a key pair, signs, encrypts, links and stores in separate *)
(* steps; what is stored waits for the writer before it is a row that the  *)
(* next frame can be linked to.  Chain and signatures are there to show    *)
(* when the table has been changed behind the application's back: cells    *)
(* edited, rows deleted or exchanged.                                      *)
(*                                                                         *)
(* Cryptography is ideal.  A key pair is a number; signatures, ciphertexts *)
(* and hashes are what they were computed from, and only who has the key   *)
(* makes one that verifies.  Of save_message, writer and database there is *)
(* what happens to rows and their order; BackendStore has the rest.        *)
(***************************************************************************)
EXTENDS Naturals, Sequences, FiniteSets, SequencesExt

CONSTANTS
    Posts,         \* POST /message requests
    Frames,        \* "message" frames of WebSocket clients
    Conns,         \* WebSocket connections
    ConnOf,        \* the connection of a frame
    Username, Text, Timestamp,  \* of each message; the first two as sequences of tokens
    None,          \* no key, None of Python
    CacheMax,      \* size above which the key cache is cleared, 1000 in the code
    QueueMax,      \* capacity of _write_queue
    MaxEmptied     \* bound: resets and restarts in a behaviour

Msgs == Posts \union Frames

ASSUME SealingConstants ==
    /\ Posts \intersect Frames = {} /\ Msgs \intersect Conns = {}
    /\ None \notin Nat
    /\ ConnOf \in [Frames -> Conns]
    /\ CacheMax \in Nat /\ QueueMax \in Nat
    /\ MaxEmptied \in Nat

VARIABLES
    step,          \* control point of each message's handler
    held,          \* the key pair a handler or a connection holds
    cache,         \* _keypair_cache
    keys,          \* key pairs generated so far
    lastHash,      \* _last_hash_val
    sealed,        \* the row a handler is about to store
    waiting, taken, \* rows on their way: so many in the writer's hands, the others in _write_queue
    rows,          \* the messages table, as its one connection sees it
    committed,     \* the table without the open transaction
    resetPc,       \* control point of the POST /reset-state handler
    \* history, read by properties only
    epoch, keyAge, \* times the cache was emptied, in all and when a key was taken
    torn,          \* see SequentialChain
    emptied

keyring == <<held, cache, keys>>
store == <<waiting, taken, rows, committed>>
ages == <<epoch, keyAge>>
vars == <<step, keyring, lastHash, sealed, store, resetPc, ages, torn, emptied>>

-----------------------------------------------------------------------------
(***************************************************************************)
(* The algorithms.                                                         *)
(***************************************************************************)
Genesis == [genesis |-> TRUE]   \* GENESIS_HASH, the hash of nothing
Garbage == [garbage |-> TRUE]   \* no ciphertext, signature or hash

canonical_message(username, text, timestamp) ==
    username \o <<"|">> \o text \o <<"|", timestamp>>

\* ECDSA and Fernet are randomized: salt is different in each call.
sign_message(key, message, salt) == [key |-> key, message |-> message, salt |-> salt]
verify_signature(pem, signature, message) ==
    signature # Garbage /\ signature.key = pem /\ signature.message = message

encrypt_text(text, salt) == [text |-> text, salt |-> salt]
decrypt_text(ciphertext) == IF ciphertext = Garbage THEN None ELSE ciphertext.text

compute_record_hash(prev, username, ciphertext, signature, timestamp) ==
    [prev |-> prev, username |-> username, ciphertext |-> ciphertext,
     signature |-> signature, timestamp |-> timestamp]

\* Fault: the link is taken from the row itself.
verify_record_own_link(row, prev) ==
    compute_record_hash(row.prev_hash, row.username, row.ciphertext, row.signature, row.timestamp)
        = row.record_hash

verify_record(row, prev) ==
    compute_record_hash(prev, row.username, row.ciphertext, row.signature, row.timestamp)
        = row.record_hash

TailHash(t) == IF t = <<>> THEN Genesis ELSE t[Len(t)].record_hash

verify_chain(t) == [i \in DOMAIN t |-> verify_record(t[i], TailHash(SubSeq(t, 1, i - 1)))]

Intact(t) == \A i \in DOMAIN t : verify_chain(t)[i]

\* The row of message m under a key pair and a link.
Row(m, key, prev) ==
    LET signature == sign_message(key, canonical_message(Username[m], Text[m], Timestamp[m]), m)
        ciphertext == encrypt_text(Text[m], m)
    IN [username |-> Username[m], plaintext |-> Text[m], timestamp |-> Timestamp[m],
        ciphertext |-> ciphertext, signature |-> signature, pubkey_jwk |-> key, prev_hash |-> prev,
        record_hash |-> compute_record_hash(prev, Username[m], ciphertext, signature, Timestamp[m])]

-----------------------------------------------------------------------------
Init ==
    /\ step = [m \in Msgs |-> "new"]
    /\ held = [x \in Msgs \union Conns |-> None]
    /\ cache = <<>> /\ keys = 0
    /\ lastHash = Genesis
    /\ sealed = [m \in Msgs |-> None]
    /\ waiting = <<>> /\ taken = 0 /\ rows = <<>> /\ committed = <<>>
    /\ resetPc = "idle"
    /\ epoch = 0 /\ keyAge = [m \in Msgs |-> 0]
    /\ torn = FALSE
    /\ emptied = 0

Goto(m, l) == step' = [step EXCEPT ![m] = l]

\* Linked and still with the handler.
Linked == {m \in Msgs : step[m] \in {"save", "overflow"}}

(***************************************************************************)
(* POST /message.                                                          *)
(***************************************************************************)
Full == Cardinality(DOMAIN cache) > CacheMax

\* A dictionary with one more entry.
With(dict, u, key) == [v \in DOMAIN dict \union {u} |-> IF v = u THEN key ELSE dict[v]]

\* Fault: the cache is looked up without the lock, and two handlers of a sender
\* generate a key pair each.
get_or_create_keypair_racing(m) ==
    /\ m \in Posts /\ step[m] = "new"
    /\ keys' = keys + 1
    /\ held' = [held EXCEPT ![m] = keys + 1]
    /\ cache' = With(cache, Username[m], keys + 1)
    /\ keyAge' = [keyAge EXCEPT ![m] = epoch]
    /\ Goto(m, "link")
    /\ UNCHANGED <<lastHash, sealed, store, resetPc, epoch, torn, emptied>>

get_or_create_keypair(m) ==
    LET u == Username[m] IN
    /\ m \in Posts /\ step[m] = "new"
    /\ IF u \in DOMAIN cache
       THEN /\ held' = [held EXCEPT ![m] = cache[u]]
            /\ keyAge' = [keyAge EXCEPT ![m] = epoch]
            /\ UNCHANGED <<cache, keys, epoch>>
       ELSE /\ keys' = keys + 1
            /\ held' = [held EXCEPT ![m] = keys + 1]
            /\ cache' = With(IF Full THEN <<>> ELSE cache, u, keys + 1)
            /\ epoch' = IF Full THEN epoch + 1 ELSE epoch
            /\ keyAge' = [keyAge EXCEPT ![m] = epoch']
    /\ Goto(m, "link")
    /\ UNCHANGED <<lastHash, sealed, store, resetPc, torn, emptied>>

\* Fault: the public key is looked up again when the row is made.
get_next_hashes_key_again(m) ==
    LET u == Username[m]
        row == Row(m, held[m], lastHash)
    IN
    /\ m \in Posts /\ step[m] = "link"
    /\ sealed' = [sealed EXCEPT ![m] = [row EXCEPT !.pubkey_jwk = IF u \in DOMAIN cache THEN cache[u] ELSE None]]
    /\ lastHash' = row.record_hash
    /\ torn' = (torn \/ Linked # {} \/ resetPc # "idle")
    /\ Goto(m, "save")
    /\ UNCHANGED <<keyring, store, resetPc, ages, emptied>>

\* Signing and encrypting touch nothing shared.
get_next_hashes(m) ==
    LET row == Row(m, held[m], lastHash) IN
    /\ m \in Posts /\ step[m] = "link"
    /\ sealed' = [sealed EXCEPT ![m] = row]
    /\ lastHash' = row.record_hash
    /\ torn' = (torn \/ Linked # {} \/ resetPc # "idle")
    /\ Goto(m, "save")
    /\ UNCHANGED <<keyring, store, resetPc, ages, emptied>>

(***************************************************************************)
(* The WebSocket: a key pair per join, and a link to the last row.         *)
(***************************************************************************)
Join(c) ==
    /\ held[c] = None
    /\ keys' = keys + 1
    /\ held' = [held EXCEPT ![c] = keys + 1]
    /\ UNCHANGED <<step, cache, lastHash, sealed, store, resetPc, ages, torn, emptied>>

FrameLink(m) ==
    LET c == ConnOf[m] IN
    /\ m \in Frames /\ step[m] = "new"
    /\ held[c] # None
    /\ held' = [held EXCEPT ![m] = held[c]]
    /\ sealed' = [sealed EXCEPT ![m] = Row(m, held[c], TailHash(rows))]
    /\ torn' = (torn \/ Linked # {} \/ resetPc # "idle" \/ waiting # <<>>)
    /\ Goto(m, "save")
    /\ UNCHANGED <<cache, keys, lastHash, store, resetPc, ages, emptied>>

(***************************************************************************)
(* save_message, for both.                                                 *)
(***************************************************************************)
Queued == Len(waiting) - taken
Batch == SubSeq(waiting, 1, taken)
AfterBatch == SubSeq(waiting, taken + 1, Len(waiting))

\* The handler goes on without its row.
Put(m) == sealed' = [sealed EXCEPT ![m] = None] /\ Goto(m, "done")

\* put_nowait
Save(m) ==
    /\ step[m] = "save" /\ Queued < QueueMax
    /\ waiting' = Append(waiting, sealed[m])
    /\ Put(m)
    /\ UNCHANGED <<keyring, lastHash, taken, rows, committed, resetPc, ages, torn, emptied>>

\* A message that is known already.
SaveNot(m) ==
    /\ m \in Posts /\ step[m] = "save"
    /\ torn' = TRUE
    /\ Put(m)
    /\ UNCHANGED <<keyring, lastHash, store, resetPc, ages, emptied>>

SaveFull(m) ==
    /\ step[m] = "save" /\ Queued >= QueueMax
    /\ Goto(m, "overflow")
    /\ UNCHANGED <<keyring, lastHash, sealed, store, resetPc, ages, torn, emptied>>

\* The handler inserts its row itself, ahead of those that wait.
Overflow(m) ==
    /\ step[m] = "overflow"
    /\ rows' = Append(rows, sealed[m]) /\ committed' = rows'
    /\ torn' = (torn \/ waiting # <<>>)
    /\ Put(m)
    /\ UNCHANGED <<keyring, lastHash, waiting, taken, resetPc, ages, emptied>>

\* Insert or commit raises: the row is not in the table, is in the open
\* transaction, or the database has rolled that back.
OverflowRaises(m) ==
    /\ step[m] = "overflow"
    /\ rows' \in {rows, Append(rows, sealed[m]), committed}
    /\ torn' = TRUE
    /\ Put(m)
    /\ UNCHANGED <<keyring, lastHash, waiting, taken, committed, resetPc, ages, emptied>>

(***************************************************************************)
(* _background_writer.  It takes rows out of the queue one by one, and     *)
(* when it has some it inserts them under _db_lock.                        *)
(***************************************************************************)
WriterTake ==
    /\ taken < Len(waiting)
    /\ taken' = taken + 1
    /\ UNCHANGED <<step, keyring, lastHash, sealed, waiting, rows, committed, resetPc, ages, torn, emptied>>

WriterCommit ==
    /\ taken > 0
    /\ rows' = rows \o Batch /\ committed' = rows'
    /\ waiting' = AfterBatch /\ taken' = 0
    /\ UNCHANGED <<step, keyring, lastHash, sealed, resetPc, ages, torn, emptied>>

\* An insert or the commit raises, and the batch is forgotten.
WriterRaises ==
    /\ taken > 0
    /\ rows' \in {rows \o SubSeq(waiting, 1, n) : n \in 0 .. taken} \union {committed}
    /\ waiting' = AfterBatch /\ taken' = 0
    /\ torn' = TRUE
    /\ UNCHANGED <<step, keyring, lastHash, sealed, committed, resetPc, ages, emptied>>

-----------------------------------------------------------------------------
(***************************************************************************)
(* POST /reset-state, and the end and new start of the process, which      *)
(* closes its connections.                                                 *)
(***************************************************************************)
ResetDrain ==
    /\ resetPc = "idle" /\ emptied < MaxEmptied
    /\ emptied' = emptied + 1
    /\ waiting' = Batch
    /\ torn' = (torn \/ Linked # {})
    /\ resetPc' = "table"
    /\ UNCHANGED <<step, keyring, lastHash, sealed, taken, rows, committed, ages>>

ResetTable ==
    /\ resetPc = "table"
    /\ rows' = <<>> /\ committed' = <<>>
    /\ torn' = (Linked # {} \/ waiting # <<>>)
    /\ resetPc' = "hash"
    /\ UNCHANGED <<step, keyring, lastHash, sealed, waiting, taken, ages, emptied>>

\* DELETE or commit raises, and the handler gets no further.
ResetTableRaises ==
    /\ resetPc = "table"
    /\ rows' \in {rows, <<>>, committed}
    /\ torn' = TRUE
    /\ resetPc' = "idle"
    /\ UNCHANGED <<step, keyring, lastHash, sealed, waiting, taken, committed, ages, emptied>>

\* Fault: a reset leaves the last hash.
ResetHashKept ==
    /\ resetPc = "hash"
    /\ resetPc' = "keys"
    /\ UNCHANGED <<step, keyring, lastHash, sealed, store, ages, torn, emptied>>

ResetHash ==
    /\ resetPc = "hash"
    /\ lastHash' = Genesis
    /\ resetPc' = "keys"
    /\ UNCHANGED <<step, keyring, sealed, store, ages, torn, emptied>>

ResetKeys ==
    /\ resetPc = "keys"
    /\ cache' = <<>> /\ epoch' = epoch + 1
    /\ resetPc' = "idle"
    /\ UNCHANGED <<step, held, keys, lastHash, sealed, store, keyAge, torn, emptied>>

Restart ==
    /\ emptied < MaxEmptied
    /\ emptied' = emptied + 1
    /\ step' = [m \in Msgs |-> IF step[m] \in {"link", "save", "overflow"} THEN "done" ELSE step[m]]
    /\ sealed' = [m \in Msgs |-> None]
    /\ held' = [x \in DOMAIN held |-> IF x \in Conns THEN None ELSE held[x]]
    /\ cache' = <<>> /\ epoch' = epoch + 1
    /\ waiting' = <<>> /\ taken' = 0 /\ rows' = committed
    /\ lastHash' = TailHash(committed)
    /\ resetPc' = "idle"
    /\ UNCHANGED <<keys, committed, keyAge, torn>>

-----------------------------------------------------------------------------
Next ==
    \/ \E m \in Msgs :
        \/ get_or_create_keypair(m) \/ get_next_hashes(m) \/ FrameLink(m)
        \/ Save(m) \/ SaveNot(m) \/ SaveFull(m) \/ Overflow(m) \/ OverflowRaises(m)
    \/ \E c \in Conns : Join(c)
    \/ WriterTake \/ WriterCommit \/ WriterRaises
    \/ ResetDrain \/ ResetTable \/ ResetTableRaises \/ ResetHash \/ ResetKeys
    \/ Restart

Spec == Init /\ [][Next]_vars

-----------------------------------------------------------------------------
\* What the checks say of one row by itself.
Verifies(row) ==
    /\ verify_signature(row.pubkey_jwk, row.signature,
                        canonical_message(row.username, row.plaintext, row.timestamp))
    /\ decrypt_text(row.ciphertext) = row.plaintext

\* What the application stores verifies with the public key stored beside it
\* and decrypts to its text, though the cache may be cleared, the process
\* restarted or the sender given another key pair since the message was signed.
SealsVerify == \A i \in DOMAIN rows : Verifies(rows[i])

\* As long as the cache is not emptied all posts of a sender use one key pair,
\* and never do two senders, or a sender and a connection, use the same, though
\* the cache holds no more than one key pair above the limit it tests.
OneKeyPerSender ==
    /\ Cardinality(DOMAIN cache) <= CacheMax + 1
    /\ \A m, n \in Posts :
        held[m] # None /\ held[n] # None =>
            /\ Username[m] = Username[n] /\ keyAge[m] = keyAge[n] => held[m] = held[n]
            /\ held[m] = held[n] => Username[m] = Username[n]
    /\ \A m \in Posts, c \in Conns : held[c] # None => held[m] # held[c]

\* The chain of posts that come one at a time is intact, although they are
\* answered while their rows wait, and across resets and restarts; frames have
\* to come slower, each after the row of the one before has been written, as a
\* frame is linked to the table.  Not the two together: a frame does not tell
\* the posts' last hash of its row.  A chain is torn if two handlers are between
\* link and queue, a link is made during a reset or while a row of before the
\* reset is left, a frame's is made while a row waits, a row overtakes others
\* at a full queue, or a linked message is not stored.
SequentialChain ==
    LET by == {rows[i].signature.salt : i \in DOMAIN rows} IN
    ~torn /\ (by \subseteq Posts \/ by \subseteq Frames) => Intact(rows)

-----------------------------------------------------------------------------
(***************************************************************************)
(* Changes that bypass the application: a cell is overwritten with garbage *)
(* or with the cell of another row, or rows are deleted, repeated and put  *)
(* in another order.                                                       *)
(***************************************************************************)
GarbageIn ==
    [username |-> <<"?">>, plaintext |-> <<"?">>, timestamp |-> "?", ciphertext |-> Garbage,
     signature |-> Garbage, pubkey_jwk |-> 0, record_hash |-> Garbage]
Columns == DOMAIN GarbageIn

WithCell(t, i, f, v) == [t EXCEPT ![i] = [@ EXCEPT ![f] = v]]
Edits(t) ==
    {WithCell(t, i, f, GarbageIn[f]) : i \in DOMAIN t, f \in Columns}
        \union {WithCell(t, i, f, t[j][f]) : i \in DOMAIN t, j \in DOMAIN t, f \in Columns}
Alterations(t) == Edits(t) \union BoundedSeq(Range(t), Len(t))

\* A table that passes every check is a beginning of what the application
\* stored: no change of a cell, no deletion but at the end, no repetition and no
\* other order goes unnoticed, provided the chain was intact before.
Passes(t) == Intact(t) /\ \A i \in DOMAIN t : Verifies(t[i])
Shown(t) == [i \in DOMAIN t |-> [t[i] EXCEPT !.prev_hash = Genesis]]
TamperEvident ==
    Intact(rows) =>
        \A t \in Alterations(rows) : Passes(t) => IsPrefix(Shown(t), Shown(rows))
=============================================================================
