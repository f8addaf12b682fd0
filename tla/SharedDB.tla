------------------------------ MODULE SharedDB ------------------------------
(***************************************************************************)
(* The shared message table of the load balancer (load_balancer/main.go,   *)
(* SharedDB) with the three handlers that use it: POST /messages/batch,    *)
(* GET /messages and the table's part of POST /reset-state.                *)
(*                                                                         *)
(* Writers work under the mutex.  GET looks at the dirty flag without it,  *)
(* takes it only to render the table again, and finally loads the rendered *)
(* bytes without it: flag, bytes and table change in separate steps, and   *)
(* a reader may look between any two of them.                              *)
(***************************************************************************)
EXTENDS Naturals, Sequences, Functions

CONSTANTS
    Batches,      \* POST /messages/batch requests
    Decodable,    \* those whose body is a JSON list of at most 512 KiB
    ItemsOf,      \* the decoded items of a batch
    Values,       \* ids, texts and seals
    Empty,        \* the empty string: a field that is missing
    Getters,      \* handlers of GET /messages
    Resetter,     \* the handler of POST /reset-state
    Free,         \* nobody holds the mutex
    MaxResets     \* bound: resets in a behaviour

\* The three fields that a later delivery overwrites.
SealFields == {"ciphertext", "signature", "hmac_digest"}
Item == [id : Values \union {Empty}, plaintext : Values \union {Empty},
         seal : [SealFields -> Values \union {Empty}]]
Record == [id : Values, number : Nat \ {0}, plaintext : Values \union {Empty},
           seal : [SealFields -> Values \union {Empty}]]

ASSUME SharedConstants ==
    /\ Decodable \subseteq Batches
    /\ ItemsOf \in [Batches -> Seq(Item)]
    /\ Empty \notin Values
    /\ Resetter \notin Getters /\ Resetter \notin Batches
    /\ Free \notin Batches \union Getters \union {Resetter}
    /\ Batches \intersect Getters = {}
    /\ MaxResets \in Nat

VARIABLES
    messages,     \* sdb.messages
    indexMap,     \* sdb.indexMap
    counter,      \* sdb.counter
    cacheBytes,   \* sdb.cacheBytes, as the table it renders
    dirty,        \* sdb.dirty
    mu,           \* the holder of sdb.mu
    pc,           \* control point of every handler
    pos,          \* next item of the batch under the mutex
    inserted,     \* AddBatch's result, once a batch is answered
    resets,
    \* history, read by properties only
    truth,        \* the table as of the last completed write
    during        \* the values truth has had since a GET began

table == <<messages, indexMap, counter>>
rendered == <<cacheBytes, dirty>>
history == <<truth, during>>
vars == <<table, rendered, mu, pc, pos, inserted, resets, history>>

Procs == Batches \union Getters \union {Resetter}

Init ==
    /\ messages = <<>> /\ indexMap = <<>> /\ counter = 0
    /\ cacheBytes = <<>> /\ dirty = 0
    /\ mu = Free
    /\ pc = [p \in Procs |-> "start"]
    /\ pos = 1
    /\ inserted = [b \in Batches |-> 0]
    /\ resets = 0
    /\ truth = <<>> /\ during = [g \in Getters |-> {}]

\* A write becomes visible: every GET under way may have to show it.
Commit(t) ==
    /\ truth' = t
    /\ during' = [g \in Getters |-> IF pc[g] = "start" THEN {} ELSE during[g] \union {t}]

Goto(p, l) == pc' = [pc EXCEPT ![p] = l]

-----------------------------------------------------------------------------
(***************************************************************************)
(* POST /messages/batch.                                                   *)
(***************************************************************************)
\* A body that does not decode is answered "ok" with nothing inserted.
BatchIgnore(b) ==
    /\ pc[b] = "start"
    /\ b \notin Decodable
    /\ Goto(b, "answered")
    /\ UNCHANGED <<table, rendered, mu, pos, inserted, resets, history>>

BatchLock(b) ==
    /\ pc[b] = "start"
    /\ b \in Decodable
    /\ mu = Free
    /\ mu' = b
    /\ pos' = 1
    /\ Goto(b, "items")
    /\ UNCHANGED <<table, rendered, inserted, resets, history>>

\* Fault: a later delivery replaces the text as well.
EnrichedOverwrite(rec, item) ==
    [rec EXCEPT
        !.seal = [f \in SealFields |-> IF item.seal[f] # Empty THEN item.seal[f] ELSE rec.seal[f]],
        !.plaintext = item.plaintext]

\* A delivery of a known id fills in what it brings: the seal is replaced
\* field by field, the text only if there is none yet.
Enriched(rec, item) ==
    [rec EXCEPT
        !.seal = [f \in SealFields |-> IF item.seal[f] # Empty THEN item.seal[f] ELSE rec.seal[f]],
        !.plaintext = IF rec.plaintext = Empty THEN item.plaintext ELSE rec.plaintext]

Inserted(item) ==
    [id |-> item.id, number |-> counter + 1, plaintext |-> item.plaintext, seal |-> item.seal]

\* Fault: the new record is not indexed.
BatchItemUnindexed(b) ==
    LET item == ItemsOf[b][pos] IN
    /\ pc[b] = "items"
    /\ pos \in DOMAIN ItemsOf[b]
    /\ pos' = pos + 1
    /\ IF item.id = Empty THEN UNCHANGED <<table, inserted>>
       ELSE IF item.id \in DOMAIN indexMap
       THEN /\ messages' = [messages EXCEPT ![indexMap[item.id]] = Enriched(@, item)]
            /\ UNCHANGED <<indexMap, counter, inserted>>
       ELSE /\ counter' = counter + 1
            /\ messages' = Append(messages, Inserted(item))
            /\ inserted' = [inserted EXCEPT ![b] = @ + 1]
            /\ UNCHANGED indexMap
    /\ UNCHANGED <<rendered, mu, pc, resets, history>>

\* One turn of AddBatch's loop.
BatchItem(b) ==
    LET item == ItemsOf[b][pos] IN
    /\ pc[b] = "items"
    /\ pos \in DOMAIN ItemsOf[b]
    /\ pos' = pos + 1
    /\ IF item.id = Empty THEN UNCHANGED <<table, inserted>>
       ELSE IF item.id \in DOMAIN indexMap
       THEN /\ messages' = [messages EXCEPT ![indexMap[item.id]] = Enriched(@, item)]
            /\ UNCHANGED <<indexMap, counter, inserted>>
       ELSE /\ counter' = counter + 1
            /\ indexMap' = [i \in DOMAIN indexMap \union {item.id} |->
                                IF i = item.id THEN Len(messages) + 1 ELSE indexMap[i]]
            /\ messages' = Append(messages, Inserted(item))
            /\ inserted' = [inserted EXCEPT ![b] = @ + 1]
    /\ UNCHANGED <<rendered, mu, pc, resets, history>>

\* Fault: the flag is raised only for new records, not for enriched ones.
BatchUnlockIfInserted(b) ==
    /\ pc[b] = "items"
    /\ pos \notin DOMAIN ItemsOf[b]
    /\ dirty' = IF inserted[b] > 0 THEN 1 ELSE dirty
    /\ mu' = Free
    /\ Goto(b, "answered")
    /\ Commit(messages)
    /\ UNCHANGED <<table, cacheBytes, pos, inserted, resets>>

BatchUnlock(b) ==
    /\ pc[b] = "items"
    /\ pos \notin DOMAIN ItemsOf[b]
    /\ dirty' = 1
    /\ mu' = Free
    /\ Goto(b, "answered")
    /\ Commit(messages)
    /\ UNCHANGED <<table, cacheBytes, pos, inserted, resets>>

-----------------------------------------------------------------------------
(***************************************************************************)
(* GET /messages.                                                          *)
(***************************************************************************)
GetStart(g) ==
    /\ pc[g] = "start"
    /\ Goto(g, IF dirty = 1 THEN "lock" ELSE "load")
    /\ during' = [during EXCEPT ![g] = {truth}]
    /\ UNCHANGED <<table, rendered, mu, pos, inserted, resets, truth>>

\* The flag is looked at again under the mutex.
GetLock(g) ==
    /\ pc[g] = "lock"
    /\ mu = Free
    /\ IF dirty = 1
       THEN mu' = g /\ Goto(g, "marshal")
       ELSE UNCHANGED mu /\ Goto(g, "load")
    /\ UNCHANGED <<table, rendered, pos, inserted, resets, history>>

GetMarshal(g) ==
    /\ pc[g] = "marshal"
    /\ cacheBytes' = messages
    /\ Goto(g, "clean")
    /\ UNCHANGED <<table, dirty, mu, pos, inserted, resets, history>>

GetClean(g) ==
    /\ pc[g] = "clean"
    /\ dirty' = 0
    /\ mu' = Free
    /\ Goto(g, "load")
    /\ UNCHANGED <<table, cacheBytes, pos, inserted, resets, history>>

\* The reply is cacheBytes as it is in this step.
GetReply(g) ==
    /\ pc[g] = "load"
    /\ Goto(g, "start")
    /\ during' = [during EXCEPT ![g] = {}]
    /\ UNCHANGED <<table, rendered, mu, pos, inserted, resets, truth>>

-----------------------------------------------------------------------------
(***************************************************************************)
(* SharedDB.Reset.                                                         *)
(***************************************************************************)
ResetLock ==
    /\ pc[Resetter] = "start"
    /\ resets < MaxResets
    /\ mu = Free
    /\ mu' = Resetter
    /\ resets' = resets + 1
    /\ Goto(Resetter, "table")
    /\ UNCHANGED <<table, rendered, pos, inserted, history>>

ResetTable ==
    /\ pc[Resetter] = "table"
    /\ messages' = <<>> /\ indexMap' = <<>> /\ counter' = 0
    /\ Goto(Resetter, "cache")
    /\ UNCHANGED <<rendered, mu, pos, inserted, resets, history>>

ResetCache ==
    /\ pc[Resetter] = "cache"
    /\ cacheBytes' = <<>>
    /\ Commit(<<>>)
    /\ Goto(Resetter, "clean")
    /\ UNCHANGED <<table, dirty, mu, pos, inserted, resets>>

ResetClean ==
    /\ pc[Resetter] = "clean"
    /\ dirty' = 0
    /\ mu' = Free
    /\ Goto(Resetter, "start")
    /\ UNCHANGED <<table, cacheBytes, pos, inserted, resets, history>>

-----------------------------------------------------------------------------
BatchStep(b) == BatchIgnore(b) \/ BatchLock(b) \/ BatchItem(b) \/ BatchUnlock(b)
GetStep(g) == GetLock(g) \/ GetMarshal(g) \/ GetClean(g) \/ GetReply(g)
ResetStep == ResetTable \/ ResetCache \/ ResetClean

Next ==
    \/ \E b \in Batches : BatchStep(b)
    \/ \E g \in Getters : GetStart(g) \/ GetStep(g)
    \/ ResetLock
    \/ ResetStep

Spec == Init /\ [][Next]_vars

-----------------------------------------------------------------------------
(***************************************************************************)
(* Properties.                                                             *)
(***************************************************************************)
StepsOf(p) ==
    IF p \in Batches THEN {"start", "items", "answered"}
    ELSE IF p \in Getters THEN {"start", "lock", "marshal", "clean", "load"}
    ELSE {"start", "table", "cache", "clean"}
Locked(p) == pc[p] \in {"items", "marshal", "clean", "table", "cache"}

\* Shapes, and who may hold the mutex: exactly the handler inside a critical
\* section.
TypeOK ==
    /\ messages \in Seq(Record) /\ counter = Len(messages)
    /\ cacheBytes \in Seq(Record) /\ truth \in Seq(Record)
    /\ dirty \in {0, 1}
    /\ pc \in [Procs -> UNION {StepsOf(p) : p \in Procs}] /\ \A p \in Procs : pc[p] \in StepsOf(p)
    /\ mu \in Procs \union {Free} /\ \A p \in Procs : Locked(p) <=> mu = p
    /\ pos \in Nat \ {0}
    /\ inserted \in [Batches -> Nat]
    /\ resets \in 0 .. MaxResets
    /\ during \in [Getters -> SUBSET Seq(Record)]

\* However batches repeat ids, within one or across several, the index finds
\* every record under its id, no id has two records, and records are numbered
\* in the order of the table.
IndexExact ==
    /\ DOMAIN indexMap = {messages[i].id : i \in DOMAIN messages}
    /\ \A i \in DOMAIN messages : indexMap[messages[i].id] = i /\ messages[i].number = i

\* GET /messages without the mutex is linearizable: the reply is the table as
\* it was at some moment between request and reply.  So it is never stale, it
\* shows a batch acknowledged before it began, no half of a batch, and
\* nothing from before a reset that completed before it began.
Linearizable == \A g \in Getters : pc[g] = "load" => cacheBytes \in during[g]

\* Within one reset epoch the table only grows: a record keeps its place, its
\* id, and a text once it has one, whatever is delivered again.
Extends(s, t) ==
    /\ Len(s) <= Len(t)
    /\ \A i \in DOMAIN s :
        /\ t[i].id = s[i].id
        /\ s[i].plaintext # Empty => t[i].plaintext = s[i].plaintext
        /\ \A f \in SealFields : s[i].seal[f] # Empty => t[i].seal[f] # Empty
CacheAdvances == [][cacheBytes' = <<>> \/ Extends(cacheBytes, cacheBytes')]_vars

\* Seen through GET /messages the table implements AbstractTable: a batch is
\* taken in whole, each id once and in the order of arrival, items without an
\* id are passed over, and nothing but a reset removes anything.
IdsOf(s) == [i \in DOMAIN s |-> s[i].id]
Abs == INSTANCE AbstractTable WITH
    table <- IdsOf(truth),
    Batches <- {IdsOf(ItemsOf[b]) : b \in Decodable}, Ids <- Values, Repeatable <- {}
Refines == Abs!Spec
=============================================================================
