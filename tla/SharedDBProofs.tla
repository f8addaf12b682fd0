--------------------------- MODULE SharedDBProofs ---------------------------
(***************************************************************************)
(* What SharedDB guarantees for every set of batches, with any items, and  *)
(* any number of readers and resets.                                       *)
(***************************************************************************)
EXTENDS SharedDB, Integers, SequenceTheorems, TLAPS

-----------------------------------------------------------------------------
(***************************************************************************)
(* Sequences.                                                              *)
(***************************************************************************)
\* The elements of an appended sequence.
LEMMA RangeAppend ==
    ASSUME NEW S, NEW s \in Seq(S), NEW e \in S
    PROVE  Range(Append(s, e)) = Range(s) \union {e}
<1>1. Append(s, e) = s \o <<e>>
    BY AppendIsConcat
<1>2. <<e>> \in Seq(S) /\ Range(<<e>>) = {e}
    BY DEF Range
<1>3. Range(s \o <<e>>) = Range(s) \union Range(<<e>>)
    BY <1>2, RangeConcatenation, ZenonT(60)
<1> QED
    BY <1>1, <1>2, <1>3

-----------------------------------------------------------------------------
\* The items of a batch, and the record each would make, are well-formed.
LEMMA ItemFacts ==
    ASSUME TypeOK, NEW b \in Batches, pos \in DOMAIN ItemsOf[b]
    PROVE  LET item == ItemsOf[b][pos] IN
           /\ item \in Item
           /\ item.id # Empty => Inserted(item) \in Record
           /\ \A rec \in Record : Enriched(rec, item) \in Record /\ Enriched(rec, item).id = rec.id
                                  /\ Enriched(rec, item).number = rec.number
<1> DEFINE item == ItemsOf[b][pos]
<1>1. item \in Item
    BY SharedConstants, ElementOfSeq, LenProperties
<1>2. counter \in Nat
    BY LenProperties DEF TypeOK
<1>3. item.id # Empty => Inserted(item) \in Record
    BY <1>1, <1>2 DEF Inserted, Item, Record
<1>4. ASSUME NEW rec \in Record
      PROVE  /\ Enriched(rec, item) \in Record /\ Enriched(rec, item).id = rec.id
             /\ Enriched(rec, item).number = rec.number
  <2> DEFINE seal == [f \in SealFields |-> IF item.seal[f] # Empty THEN item.seal[f] ELSE rec.seal[f]]
  <2>1. seal \in [SealFields -> Values \union {Empty}]
    BY <1>1 DEF Item, Record
  <2> HIDE DEF seal
  <2>2. Enriched(rec, item) = [rec EXCEPT !.seal = seal,
            !.plaintext = IF rec.plaintext = Empty THEN item.plaintext ELSE rec.plaintext]
    BY DEF Enriched, seal
  <2> QED  BY <1>1, <2>1, <2>2 DEF Item, Record
<1> QED
    BY <1>1, <1>3, <1>4

\* What one turn of the batch loop does to the table: nothing, one record
\* enriched in place, or one record appended and indexed.
LEMMA ItemEffect ==
    ASSUME TypeOK, IndexExact, NEW b \in Batches, BatchItem(b)
    PROVE  /\ messages' \in Seq(Record) /\ counter' = Len(messages')
           /\ inserted' \in [Batches -> Nat]
           /\ IndexExact'
<1> DEFINE item == ItemsOf[b][pos]
<1>1. item \in Item /\ pos \in DOMAIN ItemsOf[b]
      /\ (item.id # Empty => Inserted(item) \in Record)
      /\ \A rec \in Record : Enriched(rec, item) \in Record /\ Enriched(rec, item).id = rec.id
                             /\ Enriched(rec, item).number = rec.number
    BY ItemFacts DEF BatchItem
<1>2. /\ messages \in Seq(Record) /\ DOMAIN messages = 1 .. Len(messages) /\ Len(messages) \in Nat
      /\ counter = Len(messages) /\ inserted \in [Batches -> Nat]
      /\ \A i \in DOMAIN messages : messages[i] \in Record
    BY LenProperties, ElementOfSeq DEF TypeOK
<1>3. CASE item.id = Empty
    BY <1>2, <1>3 DEF BatchItem, IndexExact, table
<1>4. CASE item.id # Empty /\ item.id \in DOMAIN indexMap
  <2> DEFINE k == indexMap[item.id]
  <2>1. k \in 1 .. Len(messages) /\ messages[k] \in Record
    BY <1>2, <1>4 DEF IndexExact
  <2> DEFINE new == Enriched(messages[k], item)
  <2>2. new \in Record /\ new.id = messages[k].id /\ new.number = messages[k].number
    BY <1>1, <2>1
  <2>3. messages' = [messages EXCEPT ![k] = new] /\ UNCHANGED <<indexMap, counter, inserted>>
    BY <1>4 DEF BatchItem
  <2> HIDE DEF k, new
  <2>4. messages' \in Seq(Record) /\ Len(messages') = Len(messages)
        /\ DOMAIN messages' = DOMAIN messages
        /\ \A i \in DOMAIN messages : messages'[i] = IF i = k THEN new ELSE messages[i]
    BY <1>2, <2>1, <2>2, <2>3, ExceptSeq
  <2>5. \A i \in DOMAIN messages : messages'[i].id = messages[i].id /\ messages'[i].number = messages[i].number
    BY <2>2, <2>4
  <2>6. {messages'[i].id : i \in DOMAIN messages'} = {messages[i].id : i \in DOMAIN messages}
    BY <2>4, <2>5
  <2> QED  BY <1>2, <2>3, <2>4, <2>5, <2>6 DEF IndexExact
<1>5. CASE item.id # Empty /\ item.id \notin DOMAIN indexMap
  <2> DEFINE new == Inserted(item)
             n == Len(messages) + 1
  <2>1. new \in Record /\ new.id = item.id /\ new.number = n
    BY <1>1, <1>2, <1>5 DEF Inserted
  <2>2. /\ messages' = Append(messages, new) /\ counter' = counter + 1
        /\ indexMap' = [i \in DOMAIN indexMap \union {item.id} |-> IF i = item.id THEN n ELSE indexMap[i]]
        /\ inserted' = [inserted EXCEPT ![b] = @ + 1]
    BY <1>5 DEF BatchItem
  <2> HIDE DEF new, item
  <2>3. /\ messages' \in Seq(Record) /\ Len(messages') = n /\ DOMAIN messages' = 1 .. n
        /\ \A i \in 1 .. Len(messages) : messages'[i] = messages[i]
        /\ messages'[n] = new
    BY <1>2, <2>1, <2>2, AppendProperties, LenProperties
  <2> HIDE DEF n
  <2>4. \A i \in 1 .. n : i \in 1 .. Len(messages) \/ i = n
    BY <1>2 DEF n
  <2>5. 1 .. Len(messages) \subseteq 1 .. n /\ n \in 1 .. n
    BY <1>2 DEF n
  <2>6. {messages'[i].id : i \in 1 .. n} = {messages[i].id : i \in 1 .. Len(messages)} \union {item.id}
    BY <2>1, <2>3, <2>4, <2>5
  <2>7. \A i \in 1 .. Len(messages) : messages[i].id \in DOMAIN indexMap /\ messages[i].id # item.id
    BY <1>2, <1>5 DEF IndexExact
  <2>8. \A i \in 1 .. n : indexMap'[messages'[i].id] = i /\ messages'[i].number = i
    <3>1. ASSUME NEW i \in 1 .. Len(messages)
          PROVE  indexMap'[messages'[i].id] = i /\ messages'[i].number = i
      BY <1>2, <2>2, <2>3, <2>7 DEF IndexExact
    <3>2. indexMap'[messages'[n].id] = n /\ messages'[n].number = n
      BY <2>1, <2>2, <2>3
    <3> QED  BY <2>4, <3>1, <3>2
  <2>9. IndexExact'
    BY <1>2, <2>2, <2>3, <2>6, <2>8 DEF IndexExact
  <2> QED  BY <1>2, <2>2, <2>3, <2>9 DEF n
<1> QED
    BY <1>3, <1>4, <1>5

-----------------------------------------------------------------------------
(***************************************************************************)
(* The inductive invariant.  A clean flag means that the rendered bytes    *)
(* are the table of the last completed write; outside a writer's critical  *)
(* section, so is the table itself; and every GET under way has that table *)
(* among the values it may show.                                           *)
(***************************************************************************)
CleanIsCurrent == dirty = 0 => cacheBytes = truth
TableIsCurrent == mu \notin Batches /\ pc[Resetter] # "cache" => messages = truth
RenderedIsCurrent == \A p \in Getters \union {Resetter} : pc[p] = "clean" => cacheBytes = truth
Witnessed == \A g \in Getters : pc[g] # "start" => truth \in during[g]
WipedAll == pc[Resetter] \in {"cache", "clean"} => messages = <<>>

IInv ==
    /\ TypeOK /\ IndexExact /\ Linearizable
    /\ CleanIsCurrent /\ TableIsCurrent /\ RenderedIsCurrent /\ Witnessed /\ WipedAll

LEMMA EmptyFacts ==
    /\ <<>> \in Seq(Record) /\ Len(<<>>) = 0 /\ DOMAIN <<>> = {}
    OBVIOUS

LEMMA ProcsApart ==
    /\ \A b \in Batches : b \in Procs /\ b \notin Getters /\ b # Resetter /\ b # Free
                         /\ StepsOf(b) = {"start", "items", "answered"}
    /\ \A g \in Getters : g \in Procs /\ g \notin Batches /\ g # Resetter /\ g # Free
                         /\ StepsOf(g) = {"start", "lock", "marshal", "clean", "load"}
    /\ Resetter \in Procs /\ Resetter \notin Batches /\ Resetter \notin Getters /\ Resetter # Free
    /\ StepsOf(Resetter) = {"start", "table", "cache", "clean"}
    BY SharedConstants DEF Procs, StepsOf

LEMMA IInvInit == Init => IInv
<1> SUFFICES ASSUME Init PROVE IInv
    OBVIOUS
<1>1. TypeOK
    BY EmptyFacts, ProcsApart, SharedConstants DEF Init, TypeOK, Locked, Procs, StepsOf
<1>2. IndexExact
    BY EmptyFacts DEF Init, IndexExact
<1>3. Linearizable /\ CleanIsCurrent /\ TableIsCurrent /\ RenderedIsCurrent /\ Witnessed /\ WipedAll
    BY ProcsApart, SharedConstants DEF Init, Linearizable, CleanIsCurrent, TableIsCurrent,
       RenderedIsCurrent, Witnessed, WipedAll, Procs
<1> QED
    BY <1>1, <1>2, <1>3 DEF IInv

\* Moving one control point, with the mutex taken, kept or given back to fit.
LEMMA GotoType ==
    ASSUME TypeOK, NEW p \in Procs, NEW l \in StepsOf(p), Goto(p, l),
           l \in {"items", "marshal", "clean", "table", "cache"}
             => mu' = p /\ mu \in {p, Free},
           l \notin {"items", "marshal", "clean", "table", "cache"}
             => mu' = IF mu = p THEN Free ELSE mu
    PROVE  /\ pc' \in [Procs -> UNION {StepsOf(q) : q \in Procs}] /\ \A q \in Procs : pc'[q] \in StepsOf(q)
           /\ mu' \in Procs \union {Free} /\ \A q \in Procs : Locked(q)' <=> mu' = q
<1>1. /\ pc \in [Procs -> UNION {StepsOf(q) : q \in Procs}] /\ \A q \in Procs : pc[q] \in StepsOf(q)
      /\ mu \in Procs \union {Free} /\ \A q \in Procs : Locked(q) <=> mu = q
    BY DEF TypeOK
<1>2. pc' = [pc EXCEPT ![p] = l]
    BY DEF Goto
<1>3. pc'[p] = l /\ \A q \in Procs \ {p} : pc'[q] = pc[q]
    BY <1>1, <1>2
<1>4. pc' \in [Procs -> UNION {StepsOf(q) : q \in Procs}]
    BY <1>1, <1>2
<1>5. \A q \in Procs : pc'[q] \in StepsOf(q)
    BY <1>1, <1>3
<1>6. Free \notin Procs
    BY SharedConstants DEF Procs
<1>7. mu' \in Procs \union {Free} /\ \A q \in Procs : Locked(q)' <=> mu' = q
  <2>1. CASE l \in {"items", "marshal", "clean", "table", "cache"}
    BY <1>1, <1>3, <1>6, <2>1 DEF Locked
  <2>2. CASE l \notin {"items", "marshal", "clean", "table", "cache"}
    BY <1>1, <1>3, <1>6, <2>2 DEF Locked
  <2> QED  BY <2>1, <2>2
<1> QED
    BY <1>4, <1>5, <1>7

\* Only the holder of the mutex is inside a critical section.
LEMMA HolderOnly ==
    ASSUME TypeOK, NEW p \in Procs, Locked(p) \/ mu = Free
    PROVE  \A q \in Procs \ {p} : ~Locked(q)
    BY SharedConstants DEF TypeOK, Procs

LEMMA CommitType ==
    ASSUME TypeOK, NEW t \in Seq(Record), Commit(t)
    PROVE  truth' \in Seq(Record) /\ during' \in [Getters -> SUBSET Seq(Record)]
           /\ \A g \in Getters : pc[g] # "start" => during'[g] = during[g] \union {t}
    BY DEF TypeOK, Commit

LEMMA BatchInvariant ==
    ASSUME IInv, NEW b \in Batches, BatchStep(b)
    PROVE  IInv'
<1>1. /\ b \in Procs /\ StepsOf(b) = {"start", "items", "answered"} /\ b # Free
      /\ pc \in [Procs -> UNION {StepsOf(q) : q \in Procs}] /\ \A q \in Procs : pc[q] \in StepsOf(q)
      /\ TypeOK /\ \A q \in Procs : Locked(q) <=> mu = q
    BY ProcsApart DEF IInv, TypeOK
<1>2. \E l \in StepsOf(b) : pc' = [pc EXCEPT ![b] = l]
  <2>1. BatchItem(b) => pc' = [pc EXCEPT ![b] = pc[b]]
    BY <1>1 DEF BatchItem
  <2> QED
    BY <1>1, <2>1 DEF BatchStep, BatchIgnore, BatchLock, BatchUnlock, Goto
<1>3. \A q \in Procs \ {b} : pc'[q] = pc[q]
    BY <1>1, <1>2
<1>4. \A g \in Getters : pc'[g] = pc[g]
    BY <1>3, ProcsApart
<1>5. pc'[Resetter] = pc[Resetter]
    BY <1>3, ProcsApart
<1>6. CASE BatchIgnore(b)
  <2>1. mu # b
    BY <1>1, <1>6 DEF BatchIgnore, Locked
  <2>2. /\ pc' \in [Procs -> UNION {StepsOf(q) : q \in Procs}] /\ \A q \in Procs : pc'[q] \in StepsOf(q)
        /\ mu' \in Procs \union {Free} /\ \A q \in Procs : Locked(q)' <=> mu' = q
    BY <1>1, <1>6, <2>1, GotoType DEF BatchIgnore
  <2>3. TypeOK'
    BY <1>6, <2>2 DEF IInv, TypeOK, BatchIgnore, table, rendered, history
  <2> QED
    BY <1>4, <1>5, <1>6, <2>3, ProcsApart DEF IInv, BatchIgnore, table, rendered, history, IndexExact, Linearizable,
       CleanIsCurrent, TableIsCurrent, RenderedIsCurrent, Witnessed, WipedAll
<1>7. CASE BatchLock(b)
  <2>1. /\ pc' \in [Procs -> UNION {StepsOf(q) : q \in Procs}] /\ \A q \in Procs : pc'[q] \in StepsOf(q)
        /\ mu' \in Procs \union {Free} /\ \A q \in Procs : Locked(q)' <=> mu' = q
    BY <1>1, <1>7, GotoType DEF BatchLock
  <2>2. TypeOK'
    BY <1>7, <2>1 DEF IInv, TypeOK, BatchLock, table, rendered, history
  <2> QED
    BY <1>4, <1>5, <1>7, <2>2, ProcsApart DEF IInv, BatchLock, table, rendered, history, IndexExact, Linearizable,
       CleanIsCurrent, TableIsCurrent, RenderedIsCurrent, Witnessed, WipedAll
<1>8. CASE BatchItem(b)
  <2>1. pc' = pc /\ mu' = mu /\ mu = b
    BY <1>1, <1>8 DEF BatchItem, Locked
  <2>2. messages' \in Seq(Record) /\ counter' = Len(messages') /\ inserted' \in [Batches -> Nat] /\ IndexExact'
    BY <1>8, ItemEffect DEF IInv
  <2>3. TypeOK'
    BY <1>8, <2>1, <2>2 DEF IInv, TypeOK, BatchItem, rendered, history, Locked
  <2>4. pc[Resetter] \notin {"cache", "clean"}
    BY <1>1, <2>1, ProcsApart DEF Locked
  <2> QED
    BY <1>8, <2>1, <2>2, <2>3, <2>4 DEF IInv, BatchItem, rendered, history, Linearizable,
       CleanIsCurrent, TableIsCurrent, RenderedIsCurrent, Witnessed, WipedAll
<1>9. CASE BatchUnlock(b)
  <2>1. mu = b
    BY <1>1, <1>9 DEF BatchUnlock, Locked
  <2>2. /\ pc' \in [Procs -> UNION {StepsOf(q) : q \in Procs}] /\ \A q \in Procs : pc'[q] \in StepsOf(q)
        /\ mu' \in Procs \union {Free} /\ \A q \in Procs : Locked(q)' <=> mu' = q
    BY <1>1, <1>9, <2>1, GotoType DEF BatchUnlock
  <2>3. /\ truth' = messages /\ truth' \in Seq(Record) /\ during' \in [Getters -> SUBSET Seq(Record)]
        /\ \A g \in Getters : pc[g] # "start" => during'[g] = during[g] \union {messages}
    BY <1>1, <1>9, CommitType DEF BatchUnlock, Commit, TypeOK
  <2>4. TypeOK'
    BY <1>9, <2>2, <2>3 DEF IInv, TypeOK, BatchUnlock, table
  <2>5. pc[Resetter] \notin {"cache", "clean"} /\ \A g \in Getters : pc[g] # "clean"
    BY <1>1, <2>1, ProcsApart DEF Locked
  <2> QED
    BY <1>4, <1>5, <1>9, <2>3, <2>4, <2>5 DEF IInv, BatchUnlock, table, IndexExact, Linearizable,
       CleanIsCurrent, TableIsCurrent, RenderedIsCurrent, Witnessed, WipedAll
<1> QED
    BY <1>6, <1>7, <1>8, <1>9 DEF BatchStep

LEMMA GetInvariant ==
    ASSUME IInv, NEW g \in Getters, GetStart(g) \/ GetStep(g)
    PROVE  IInv'
<1>1. /\ g \in Procs /\ StepsOf(g) = {"start", "lock", "marshal", "clean", "load"}
      /\ g # Free /\ g # Resetter /\ g \notin Batches
      /\ pc \in [Procs -> UNION {StepsOf(q) : q \in Procs}] /\ \A q \in Procs : pc[q] \in StepsOf(q)
      /\ TypeOK /\ \A q \in Procs : Locked(q) <=> mu = q
    BY ProcsApart DEF IInv, TypeOK
<1>2. \E l \in StepsOf(g) : pc' = [pc EXCEPT ![g] = l]
    BY <1>1 DEF GetStart, GetStep, GetLock, GetMarshal, GetClean, GetReply, Goto
<1>3. \A q \in Procs \ {g} : pc'[q] = pc[q]
    BY <1>1, <1>2
<1>4. /\ pc'[Resetter] = pc[Resetter] /\ UNCHANGED <<messages, indexMap, counter, truth, pos, inserted, resets>>
      /\ IndexExact'
  <2>1. UNCHANGED <<messages, indexMap, counter, truth, pos, inserted, resets>>
    BY DEF GetStart, GetStep, GetLock, GetMarshal, GetClean, GetReply, table, history
  <2>2. IndexExact'
    BY <2>1 DEF IInv, IndexExact
  <2> QED  BY <1>1, <1>3, <2>1, <2>2, ProcsApart
<1>5. /\ pc' \in [Procs -> UNION {StepsOf(q) : q \in Procs}] /\ \A q \in Procs : pc'[q] \in StepsOf(q)
      /\ mu' \in Procs \union {Free} /\ \A q \in Procs : Locked(q)' <=> mu' = q
  <2>1. CASE GetStart(g)
    BY <1>1, <2>1, GotoType DEF GetStart, Locked
  <2>2. CASE GetLock(g)
    BY <1>1, <2>2, GotoType DEF GetLock, Locked
  <2>3. CASE GetMarshal(g)
    BY <1>1, <2>3, GotoType DEF GetMarshal, Locked
  <2>4. CASE GetClean(g)
    BY <1>1, <2>4, GotoType DEF GetClean, Locked
  <2>5. CASE GetReply(g)
    BY <1>1, <2>5, GotoType DEF GetReply, Locked
  <2> QED
    BY <2>1, <2>2, <2>3, <2>4, <2>5, <1>1 DEF GetStep
<1>6. TypeOK'
  <2>1. cacheBytes' \in {cacheBytes, messages} /\ dirty' \in {0, dirty}
    BY DEF GetStart, GetStep, GetLock, GetMarshal, GetClean, GetReply, rendered
  <2>2. \E d \in SUBSET {truth} : during' = during \/ during' = [during EXCEPT ![g] = d]
    <3>1. {truth} \in SUBSET {truth} /\ {} \in SUBSET {truth}
      OBVIOUS
    <3> QED  BY <3>1 DEF GetStart, GetStep, GetLock, GetMarshal, GetClean, GetReply, history
  <2>3. during' \in [Getters -> SUBSET Seq(Record)]
    <3>1. PICK d \in SUBSET {truth} : during' = during \/ during' = [during EXCEPT ![g] = d]
      BY <2>2
    <3>2. d \in SUBSET Seq(Record) /\ during \in [Getters -> SUBSET Seq(Record)]
      BY <1>1 DEF TypeOK
    <3> QED  BY <3>1, <3>2
  <2> QED  BY <1>1, <1>4, <1>5, <2>1, <2>3 DEF TypeOK
<1>7. WipedAll' /\ \A q \in Getters \ {g} : pc'[q] = pc[q]
    BY <1>3, <1>4, ProcsApart DEF IInv, WipedAll
<1>8. CASE GetStart(g)
  <2>1. /\ cacheBytes' = cacheBytes /\ dirty' = dirty /\ mu' = mu
        /\ during' = [during EXCEPT ![g] = {truth}]
        /\ pc[g] = "start" /\ pc' = [pc EXCEPT ![g] = IF dirty = 1 THEN "lock" ELSE "load"]
    BY <1>8 DEF GetStart, rendered, Goto
  <2>2. /\ during'[g] = {truth} /\ \A q \in Getters \ {g} : during'[q] = during[q]
        /\ pc'[g] = IF dirty = 1 THEN "lock" ELSE "load"
    BY <1>1, <2>1 DEF TypeOK
  <2>3. dirty = 0 => cacheBytes = truth
    BY DEF IInv, CleanIsCurrent
  <2>4. Linearizable'
    BY <1>1, <1>7, <2>1, <2>2, <2>3 DEF IInv, Linearizable, TypeOK
  <2>5. RenderedIsCurrent' /\ CleanIsCurrent' /\ TableIsCurrent' /\ Witnessed'
    BY <1>1, <1>4, <1>7, <2>1, <2>2 DEF IInv, CleanIsCurrent, TableIsCurrent, RenderedIsCurrent, Witnessed
  <2> QED
    BY <1>4, <1>6, <1>7, <2>4, <2>5 DEF IInv
<1>9. CASE GetLock(g)
  <2>1. /\ cacheBytes' = cacheBytes /\ dirty' = dirty /\ during' = during /\ pc[g] = "lock" /\ mu = Free
        /\ mu' \in {Free, g}
        /\ pc'[g] = IF dirty = 1 THEN "marshal" ELSE "load"
    BY <1>1, <1>9 DEF GetLock, rendered, history, Goto
  <2>2. (dirty = 0 => cacheBytes = truth) /\ truth \in during[g] /\ Free \notin Batches
    BY <2>1, SharedConstants DEF IInv, CleanIsCurrent, Witnessed
  <2>3. Linearizable'
    BY <1>1, <1>7, <2>1, <2>2 DEF IInv, Linearizable, TypeOK
  <2>4. RenderedIsCurrent' /\ CleanIsCurrent' /\ TableIsCurrent' /\ Witnessed'
    BY <1>1, <1>4, <1>7, <2>1, <2>2 DEF IInv, CleanIsCurrent, TableIsCurrent, RenderedIsCurrent, Witnessed
  <2> QED
    BY <1>4, <1>6, <1>7, <2>3, <2>4 DEF IInv
<1>10. CASE GetMarshal(g)
  <2>1. /\ cacheBytes' = messages /\ dirty' = dirty /\ during' = during /\ pc[g] = "marshal" /\ mu' = mu
        /\ pc'[g] = "clean" /\ mu = g
    BY <1>1, <1>10 DEF GetMarshal, history, Goto, Locked
  <2>2. pc[Resetter] # "cache" /\ messages = truth
    BY <1>1, <2>1, ProcsApart DEF IInv, TableIsCurrent, Locked
  <2>3. Linearizable'
    BY <1>7, <2>1, <2>2 DEF IInv, Linearizable, Witnessed
  <2>4. RenderedIsCurrent' /\ CleanIsCurrent' /\ TableIsCurrent' /\ Witnessed'
    BY <1>1, <1>4, <1>7, <2>1, <2>2 DEF IInv, CleanIsCurrent, TableIsCurrent, RenderedIsCurrent, Witnessed
  <2> QED
    BY <1>4, <1>6, <1>7, <2>3, <2>4 DEF IInv
<1>11. CASE GetClean(g)
  <2>1. /\ cacheBytes' = cacheBytes /\ dirty' = 0 /\ during' = during /\ pc[g] = "clean" /\ mu' = Free
        /\ pc'[g] = "load" /\ mu = g
    BY <1>1, <1>11 DEF GetClean, history, Goto, Locked
  <2>2. cacheBytes = truth /\ truth \in during[g]
    BY <2>1 DEF IInv, RenderedIsCurrent, Witnessed
  <2>3. Linearizable'
    BY <1>7, <2>1, <2>2 DEF IInv, Linearizable
  <2>4. RenderedIsCurrent' /\ CleanIsCurrent' /\ TableIsCurrent' /\ Witnessed'
    BY <1>1, <1>4, <1>7, <2>1, <2>2 DEF IInv, CleanIsCurrent, TableIsCurrent, RenderedIsCurrent, Witnessed
  <2> QED
    BY <1>4, <1>6, <1>7, <2>3, <2>4 DEF IInv
<1>12. CASE GetReply(g)
  <2>1. /\ cacheBytes' = cacheBytes /\ dirty' = dirty /\ mu' = mu
        /\ during' = [during EXCEPT ![g] = {}] /\ pc'[g] = "start"
    BY <1>1, <1>12 DEF GetReply, rendered, Goto
  <2>2. \A q \in Getters \ {g} : during'[q] = during[q]
    BY <1>1, <2>1 DEF TypeOK
  <2>3. Linearizable' /\ RenderedIsCurrent' /\ CleanIsCurrent' /\ TableIsCurrent' /\ Witnessed'
    BY <1>1, <1>4, <1>7, <2>1, <2>2 DEF IInv, Linearizable, CleanIsCurrent, TableIsCurrent, RenderedIsCurrent, Witnessed
  <2> QED
    BY <1>4, <1>6, <1>7, <2>3 DEF IInv
<1> QED
    BY <1>8, <1>9, <1>10, <1>11, <1>12 DEF GetStep

LEMMA ResetInvariant ==
    ASSUME IInv, ResetLock \/ ResetStep
    PROVE  IInv'
<1>1. /\ Resetter \in Procs /\ StepsOf(Resetter) = {"start", "table", "cache", "clean"}
      /\ Resetter # Free /\ Resetter \notin Getters /\ Resetter \notin Batches
      /\ pc \in [Procs -> UNION {StepsOf(q) : q \in Procs}] /\ \A q \in Procs : pc[q] \in StepsOf(q)
      /\ TypeOK /\ \A q \in Procs : Locked(q) <=> mu = q
    BY ProcsApart DEF IInv, TypeOK
<1>2. \E l \in StepsOf(Resetter) : pc' = [pc EXCEPT ![Resetter] = l]
    BY <1>1 DEF ResetLock, ResetStep, ResetTable, ResetCache, ResetClean, Goto
<1>3. \A g \in Getters : pc'[g] = pc[g]
    BY <1>1, <1>2, ProcsApart
<1>4. /\ pc' \in [Procs -> UNION {StepsOf(q) : q \in Procs}] /\ \A q \in Procs : pc'[q] \in StepsOf(q)
      /\ mu' \in Procs \union {Free} /\ \A q \in Procs : Locked(q)' <=> mu' = q
  <2>1. CASE ResetLock
    BY <1>1, <2>1, GotoType DEF ResetLock, Locked
  <2>2. CASE ResetTable
    BY <1>1, <2>2, GotoType DEF ResetTable, Locked
  <2>3. CASE ResetCache
    BY <1>1, <2>3, GotoType DEF ResetCache, Locked
  <2>4. CASE ResetClean
    BY <1>1, <2>4, GotoType DEF ResetClean, Locked
  <2> QED
    BY <2>1, <2>2, <2>3, <2>4 DEF ResetStep
<1>5. CASE ResetLock
  <2>1. /\ UNCHANGED <<table, rendered, pos, inserted, history>> /\ resets' = resets + 1 /\ resets < MaxResets
        /\ pc'[Resetter] = "table" /\ mu = Free /\ mu' = Resetter
    BY <1>1, <1>5 DEF ResetLock, Goto
  <2>2. TypeOK'
    <3>1. /\ UNCHANGED <<messages, counter, cacheBytes, dirty, pos, inserted, truth, during>>
          /\ messages \in Seq(Record) /\ counter = Len(messages)
          /\ cacheBytes \in Seq(Record) /\ truth \in Seq(Record) /\ dirty \in {0, 1}
          /\ pos \in Nat \ {0} /\ inserted \in [Batches -> Nat]
          /\ during \in [Getters -> SUBSET Seq(Record)]
      BY <1>1, <2>1 DEF TypeOK, table, rendered, history
    <3>2. resets' \in 0..MaxResets
      BY <1>1, <2>1, SharedConstants DEF TypeOK
    <3> QED
      BY <1>4, <3>1, <3>2 DEF TypeOK
  <2>3. pc[Resetter] # "cache"
    BY <1>1, <2>1 DEF Locked
  <2> QED
    BY <1>1, <1>3, <2>1, <2>2, <2>3, SharedConstants DEF IInv, table, rendered, history, IndexExact, Linearizable,
       CleanIsCurrent, TableIsCurrent, RenderedIsCurrent, Witnessed, WipedAll
<1>6. CASE ResetTable
  <2>1. /\ UNCHANGED <<cacheBytes, dirty, mu, pos, inserted, resets, truth, during>>
        /\ messages' = <<>> /\ indexMap' = <<>> /\ counter' = 0
        /\ pc'[Resetter] = "cache"
    BY <1>1, <1>6 DEF ResetTable, Goto, rendered, history
  <2>2. TypeOK' /\ IndexExact'
    BY <1>1, <1>4, <2>1, EmptyFacts DEF TypeOK, IndexExact
  <2> QED
    BY <1>1, <1>3, <2>1, <2>2 DEF IInv, Linearizable,
       CleanIsCurrent, TableIsCurrent, RenderedIsCurrent, Witnessed, WipedAll
<1>7. CASE ResetCache
  <2>1. /\ UNCHANGED <<messages, indexMap, counter, dirty, mu, pos, inserted, resets>>
        /\ cacheBytes' = <<>> /\ Commit(<<>>) /\ pc[Resetter] = "cache" /\ pc'[Resetter] = "clean"
        /\ mu = Resetter
    BY <1>1, <1>7 DEF ResetCache, Goto, table, Locked
  <2>2. /\ truth' = <<>> /\ truth' \in Seq(Record) /\ during' \in [Getters -> SUBSET Seq(Record)]
        /\ \A g \in Getters : pc[g] # "start" => during'[g] = during[g] \union {<<>>}
    BY <1>1, <2>1, CommitType, EmptyFacts DEF Commit
  <2>3. messages = <<>>
    BY <2>1 DEF IInv, WipedAll
  <2>4. TypeOK'
    BY <1>1, <1>4, <2>1, <2>2, EmptyFacts DEF TypeOK
  <2>5. IndexExact'
    BY <2>1 DEF IInv, IndexExact
  <2> QED
    BY <1>1, <1>3, <2>1, <2>2, <2>3, <2>4, <2>5 DEF IInv, Linearizable,
       CleanIsCurrent, TableIsCurrent, RenderedIsCurrent, Witnessed, WipedAll
<1>8. CASE ResetClean
  <2>1. /\ UNCHANGED <<messages, indexMap, counter, cacheBytes, pos, inserted, resets, truth, during>>
        /\ dirty' = 0 /\ mu' = Free /\ pc[Resetter] = "clean" /\ pc'[Resetter] = "start" /\ mu = Resetter
    BY <1>1, <1>8 DEF ResetClean, Goto, table, history, Locked
  <2>2. cacheBytes = truth /\ messages = truth
    BY <1>1, <2>1 DEF IInv, RenderedIsCurrent, TableIsCurrent
  <2>3. TypeOK'
    BY <1>1, <1>4, <2>1 DEF TypeOK
  <2>4. IndexExact'
    BY <2>1 DEF IInv, IndexExact
  <2> QED
    BY <1>1, <1>3, <2>1, <2>2, <2>3, <2>4 DEF IInv, Linearizable,
       CleanIsCurrent, TableIsCurrent, RenderedIsCurrent, Witnessed, WipedAll
<1> QED
    BY <1>5, <1>6, <1>7, <1>8 DEF ResetStep

LEMMA IInvStep == IInv /\ [Next]_vars => IInv'
<1> SUFFICES ASSUME IInv, [Next]_vars PROVE IInv'
    OBVIOUS
<1>1. CASE Next
    BY <1>1, BatchInvariant, GetInvariant, ResetInvariant DEF Next
<1>2. CASE UNCHANGED vars
    BY <1>2 DEF vars, table, rendered, history, IInv, TypeOK, Locked, IndexExact, Linearizable,
       CleanIsCurrent, TableIsCurrent, RenderedIsCurrent, Witnessed, WipedAll
<1> QED
    BY <1>1, <1>2

\* What holds of the table, its rendering and its readers in every behaviour.
THEOREM Invariance == Spec => []IInv
    BY IInvInit, IInvStep, PTL DEF Spec

-----------------------------------------------------------------------------
\* The mutex is held by exactly the handler in a critical section, and the
\* counter that numbers records is the length of the table.
THEOREM TypeCorrect == Spec => []TypeOK
<1>1. IInv => TypeOK
    BY DEF IInv
<1> QED
    BY <1>1, Invariance, PTL

\* No repetition of ids, within a batch or across batches, gives an id two
\* records or a stale index.
THEOREM IndexAlwaysExact == Spec => []IndexExact
<1>1. IInv => IndexExact
    BY DEF IInv
<1> QED
    BY <1>1, Invariance, PTL

\* The lock-free read of GET /messages is linearizable.
THEOREM ReadsLinearizable == Spec => []Linearizable
<1>1. IInv => Linearizable
    BY DEF IInv
<1> QED
    BY <1>1, Invariance, PTL

-----------------------------------------------------------------------------
(***************************************************************************)
(* Growth.  What readers are shown was rendered from an earlier version of *)
(* the table, and the table only grows until a reset empties it.           *)
(***************************************************************************)
LEMMA ExtendsOrder ==
    /\ \A s \in Seq(Record) : Extends(s, s) /\ Extends(<<>>, s)
    /\ \A s, t, u \in Seq(Record) : Extends(s, t) /\ Extends(t, u) => Extends(s, u)
<1>1. \A s \in Seq(Record) : Len(s) \in Nat /\ DOMAIN s = 1 .. Len(s)
    BY LenProperties
<1>2. \A s \in Seq(Record) : Extends(s, s) /\ Extends(<<>>, s)
    BY <1>1 DEF Extends
<1>3. ASSUME NEW s \in Seq(Record), NEW t \in Seq(Record), NEW u \in Seq(Record), Extends(s, t), Extends(t, u)
      PROVE  Extends(s, u)
  <2>1. Len(s) <= Len(u) /\ \A i \in DOMAIN s : i \in DOMAIN t
    BY <1>1, <1>3 DEF Extends
  <2> QED
    BY <1>3, <2>1 DEF Extends
<1> QED
    BY <1>2, <1>3

\* A delivery keeps what a record says.
LEMMA ItemGrows ==
    ASSUME TypeOK, IndexExact, NEW b \in Batches, BatchItem(b)
    PROVE  Extends(messages, messages')
<1> DEFINE item == ItemsOf[b][pos]
<1>1. /\ messages \in Seq(Record) /\ DOMAIN messages = 1 .. Len(messages) /\ Len(messages) \in Nat
      /\ \A i \in DOMAIN messages : messages[i] \in Record
    BY LenProperties, ElementOfSeq DEF TypeOK
<1>2. CASE messages' = messages
    BY <1>1, <1>2, ExtendsOrder
<1>3. CASE item.id # Empty /\ item.id \in DOMAIN indexMap
  <2> DEFINE k == indexMap[item.id]
             new == Enriched(messages[k], item)
  <2>1. k \in 1 .. Len(messages) /\ messages[k] \in Record
    BY <1>1, <1>3 DEF IndexExact
  <2>2. messages' = [messages EXCEPT ![k] = new]
    BY <1>3 DEF BatchItem
  <2>3. /\ new \in Record /\ new.id = messages[k].id
        /\ messages[k].plaintext # Empty => new.plaintext = messages[k].plaintext
        /\ \A f \in SealFields : messages[k].seal[f] # Empty => new.seal[f] # Empty
    <3>1. new \in Record /\ new.id = messages[k].id
      BY <2>1, ItemFacts DEF BatchItem
    <3> DEFINE seal == [f \in SealFields |-> IF item.seal[f] # Empty THEN item.seal[f] ELSE messages[k].seal[f]]
    <3>2. \A f \in SealFields : messages[k].seal[f] # Empty => seal[f] # Empty
      OBVIOUS
    <3> HIDE DEF seal
    <3>3. new = [messages[k] EXCEPT !.seal = seal,
            !.plaintext = IF messages[k].plaintext = Empty THEN item.plaintext ELSE messages[k].plaintext]
      BY DEF Enriched, seal
    <3> HIDE DEF new, k, item
    <3>4. new.seal = seal /\ (messages[k].plaintext # Empty => new.plaintext = messages[k].plaintext)
      BY <2>1, <3>3 DEF Record
    <3> QED  BY <3>1, <3>2, <3>4
  <2> HIDE DEF k, new
  <2>4. Len(messages') = Len(messages) /\ \A i \in DOMAIN messages : messages'[i] = IF i = k THEN new ELSE messages[i]
    BY <1>1, <2>1, <2>2, <2>3, ExceptSeq
  <2> QED
    BY <1>1, <2>3, <2>4 DEF Extends
<1>4. CASE item.id # Empty /\ item.id \notin DOMAIN indexMap
  <2>1. messages' = Append(messages, Inserted(item)) /\ Inserted(item) \in Record
    BY <1>4, ItemFacts DEF BatchItem
  <2>2. Len(messages') = Len(messages) + 1 /\ \A i \in 1 .. Len(messages) : messages'[i] = messages[i]
    BY <1>1, <2>1, AppendProperties
  <2> QED
    BY <1>1, <2>2 DEF Extends
<1> QED
    BY <1>2, <1>3, <1>4 DEF BatchItem, table

Grown == pc[Resetter] # "cache" => Extends(cacheBytes, messages)

LEMMA GrownInit == Init => Grown
    BY EmptyFacts, ExtendsOrder DEF Init, Grown

LEMMA GrownStep == IInv /\ IInv' /\ Grown /\ [Next]_vars => Grown' /\ (cacheBytes' = <<>> \/ Extends(cacheBytes, cacheBytes'))
<1> SUFFICES ASSUME IInv, IInv', Grown, [Next]_vars
             PROVE  Grown' /\ (cacheBytes' = <<>> \/ Extends(cacheBytes, cacheBytes'))
    OBVIOUS
<1>1. TypeOK /\ IndexExact /\ messages \in Seq(Record) /\ messages' \in Seq(Record) /\ cacheBytes \in Seq(Record)
    BY DEF IInv, TypeOK
<1>2. Extends(cacheBytes, cacheBytes) /\ Extends(messages, messages)
    BY <1>1, ExtendsOrder
<1>3. ASSUME NEW p \in Procs \ {Resetter}, NEW l, Goto(p, l) PROVE pc'[Resetter] = pc[Resetter]
    BY <1>1, <1>3, ProcsApart DEF TypeOK, Goto
<1>4. ASSUME UNCHANGED <<messages, cacheBytes>>, pc'[Resetter] = "cache" \/ pc[Resetter] # "cache"
      PROVE  Grown' /\ Extends(cacheBytes, cacheBytes')
    BY <1>2, <1>4 DEF Grown
<1>5. CASE UNCHANGED vars
    BY <1>4, <1>5 DEF vars, table, rendered
<1>6. ASSUME NEW b \in Batches, BatchStep(b) PROVE Grown' /\ Extends(cacheBytes, cacheBytes')
  <2>1. CASE BatchItem(b)
    <3>1. Extends(messages, messages') /\ UNCHANGED <<cacheBytes, pc>>
      BY <1>1, <2>1, ItemGrows DEF BatchItem, rendered
    <3> QED  BY <1>1, <1>2, <3>1, ExtendsOrder DEF Grown
  <2>2. CASE BatchIgnore(b) \/ BatchLock(b) \/ BatchUnlock(b)
    <3>1. UNCHANGED <<messages, cacheBytes>> /\ \E l : Goto(b, l)
      BY <2>2 DEF BatchIgnore, BatchLock, BatchUnlock, table, rendered
    <3>2. pc'[Resetter] = pc[Resetter]
      BY <1>3, <3>1, ProcsApart
    <3> QED  BY <1>4, <3>1, <3>2, <1>2 DEF Grown
  <2> QED
    BY <1>6, <2>1, <2>2 DEF BatchStep
<1>7. ASSUME NEW g \in Getters, GetStart(g) \/ GetStep(g) PROVE Grown' /\ Extends(cacheBytes, cacheBytes')
  <2>1. pc'[Resetter] = pc[Resetter]
    <3>1. \E l : Goto(g, l)
      BY <1>7 DEF GetStart, GetStep, GetLock, GetMarshal, GetClean, GetReply
    <3> QED  BY <1>3, <3>1, ProcsApart
  <2>2. CASE GetMarshal(g)
    <3>1. cacheBytes' = messages /\ messages' = messages /\ pc[g] = "marshal"
      BY <2>2 DEF GetMarshal, table
    <3>2. pc[Resetter] # "cache"
      BY <1>1, <3>1, ProcsApart DEF TypeOK, Locked
    <3> QED  BY <1>2, <3>1, <3>2 DEF Grown
  <2>3. CASE UNCHANGED <<messages, cacheBytes>>
    BY <1>2, <2>1, <2>3 DEF Grown
  <2> QED
    BY <1>7, <2>2, <2>3 DEF GetStart, GetStep, GetLock, GetClean, GetReply, table, rendered
<1>8. CASE ResetLock \/ ResetStep
  <2>1. pc \in [Procs -> UNION {StepsOf(p) : p \in Procs}] /\ Resetter \in Procs
    BY <1>1, ProcsApart DEF TypeOK
  <2>2. CASE ResetLock
    BY <1>2, <2>1, <2>2 DEF ResetLock, Goto, Grown, table, rendered
  <2>3. CASE ResetTable
    BY <1>2, <2>1, <2>3 DEF ResetTable, Goto, Grown, rendered
  <2>4. CASE ResetCache
    BY <1>1, <2>4, ExtendsOrder DEF ResetCache, Grown, table
  <2>5. CASE ResetClean
    BY <1>2, <2>1, <2>5 DEF ResetClean, Goto, Grown, table
  <2> QED
    BY <1>8, <2>2, <2>3, <2>4, <2>5 DEF ResetStep
<1> QED
    BY <1>5, <1>6, <1>7, <1>8 DEF Next

\* From one rendering to the next, GET /messages shows the table grow or
\* emptied: a record keeps its place and id, a text and a seal once it has one
\* (AddBatch, GetMessagesBytes).
THEOREM ShownOnlyGrows == Spec => CacheAdvances
<1>1. Spec => [](IInv /\ Grown)
  <2>1. Init => Grown
    BY GrownInit
  <2>2. IInv /\ IInv' /\ Grown /\ [Next]_vars => Grown'
    BY GrownStep
  <2> QED
    BY <2>1, <2>2, Invariance, PTL DEF Spec
<1>2. IInv /\ IInv' /\ Grown /\ [Next]_vars => [cacheBytes' = <<>> \/ Extends(cacheBytes, cacheBytes')]_vars
    BY GrownStep
<1> QED
    BY <1>1, <1>2, Invariance, PTL DEF Spec, CacheAdvances

-----------------------------------------------------------------------------
(***************************************************************************)
(* A batch that is taken in item by item.                                  *)
(***************************************************************************)
\* The items at some places of a batch.
Picked(batch, s) == [i \in 1 .. Len(s) |-> batch[s[i]]]

\* u is t with what the first n items of the batch bring.
Taken(t, u, batch, n) ==
    /\ \E s \in Seq(Nat) :
        /\ Len(s) <= n
        /\ Range(s) = Abs!Bringing(t, batch) \intersect 1 .. n
        /\ \A i, j \in 1 .. Len(s) : i < j => s[i] < s[j]
        /\ u = t \o Picked(batch, s)
    /\ \A l \in 1 .. n : batch[l] \in Values => batch[l] \in Range(u)

LEMMA TakenNone ==
    ASSUME NEW T, NEW t \in Seq(T), NEW batch \in Seq(T)
    PROVE  Taken(t, t, batch, 0)
<1>1. <<>> \in Seq(Nat) /\ Len(<<>>) = 0 /\ Range(<<>>) = {} /\ 1 .. 0 = {}
    BY DEF Range
<1>2. t = t \o Picked(batch, <<>>)
  <2>1. Picked(batch, <<>>) = <<>>
    BY <1>1 DEF Picked
  <2> QED
    BY <2>1, ConcatEmptySeq
<1>3. /\ Range(<<>>) = Abs!Bringing(t, batch) \intersect 1 .. 0
      /\ \A i, j \in 1 .. Len(<<>>) : i < j => <<>>[i] < <<>>[j]
      /\ \A l \in 1 .. 0 : batch[l] \in Values => batch[l] \in Range(t)
    BY <1>1
<1>4. Len(<<>>) <= 0
    BY <1>1
<1> DEFINE s == <<>>
<1> HIDE DEF s
<1>5. s \in Seq(Nat) /\ Len(s) <= 0 /\ Range(s) = Abs!Bringing(t, batch) \intersect 1 .. 0
      /\ (\A i, j \in 1 .. Len(s) : i < j => s[i] < s[j]) /\ t = t \o Picked(batch, s)
    BY <1>1, <1>2, <1>3, <1>4 DEF s
<1> QED
    BY <1>3, <1>5 DEF Taken

LEMMA PickedItems ==
    ASSUME NEW T, NEW batch \in Seq(T), NEW s \in Seq(Nat), Range(s) \subseteq DOMAIN batch
    PROVE  /\ Picked(batch, s) \in Seq(T) /\ Len(Picked(batch, s)) = Len(s)
           /\ \A i \in 1 .. Len(s) : Picked(batch, s)[i] = batch[s[i]]
           /\ Range(Picked(batch, s)) = {batch[k] : k \in Range(s)}
<1>1. Len(s) \in Nat /\ DOMAIN s = 1 .. Len(s) /\ DOMAIN batch = 1 .. Len(batch)
    BY LenProperties
<1>2. \A i \in 1 .. Len(s) : s[i] \in 1 .. Len(batch)
    BY <1>1 DEF Range
<1>3. \A i \in 1 .. Len(s) : batch[s[i]] \in T
    BY <1>2, ElementOfSeq
<1>4. Picked(batch, s) \in [1 .. Len(s) -> T]
    BY <1>3 DEF Picked
<1>5. Picked(batch, s) \in Seq(T) /\ Len(Picked(batch, s)) = Len(s)
    BY <1>1, <1>4
<1>6. Range(Picked(batch, s)) = {batch[k] : k \in Range(s)}
    BY <1>1 DEF Range, Picked
<1> QED
    BY <1>1, <1>5, <1>6 DEF Picked

LEMMA AppendToConcat ==
    ASSUME NEW T, NEW s \in Seq(T), NEW t \in Seq(T), NEW e \in T,
           NEW u, u = s \o t, NEW v, v = Append(t, e)
    PROVE  Append(u, e) = s \o v
<1>1. /\ s \o t \in Seq(T) /\ <<e>> \in Seq(T)
      /\ Append(s \o t, e) = (s \o t) \o <<e>>
      /\ Append(t, e) = t \o <<e>>
    BY AppendIsConcat
<1>2. (s \o t) \o <<e>> = s \o (t \o <<e>>)
    BY <1>1, ConcatAssociative
<1> QED
    BY <1>1, <1>2

\* One more place.
LEMMA PickOneMore ==
    ASSUME NEW T, NEW batch \in Seq(T), NEW n \in 1 .. Len(batch), NEW s \in Seq(Nat),
           Range(s) \subseteq 1 .. n - 1, \A i, j \in 1 .. Len(s) : i < j => s[i] < s[j]
    PROVE  /\ Append(s, n) \in Seq(Nat) /\ Len(Append(s, n)) = Len(s) + 1
           /\ Range(Append(s, n)) = Range(s) \union {n}
           /\ \A i, j \in 1 .. Len(Append(s, n)) : i < j => Append(s, n)[i] < Append(s, n)[j]
           /\ Picked(batch, Append(s, n)) = Append(Picked(batch, s), batch[n])
<1> DEFINE v == Append(s, n)
           x == Picked(batch, s)
<1>1. n \in Nat /\ Len(batch) \in Nat /\ DOMAIN batch = 1 .. Len(batch) /\ batch[n] \in T
    BY LenProperties, ElementOfSeq
<1>2. /\ v \in Seq(Nat) /\ Len(v) = Len(s) + 1 /\ (\A i \in 1 .. Len(s) : v[i] = s[i]) /\ v[Len(s) + 1] = n
      /\ Len(s) \in Nat /\ DOMAIN s = 1 .. Len(s)
    BY <1>1, AppendProperties, LenProperties
<1>3. Range(v) = Range(s) \union {n}
    BY <1>1, RangeAppend
<1> HIDE DEF v
<1>4. \A i \in 1 .. Len(v) : i \in 1 .. Len(s) \/ i = Len(s) + 1
    BY <1>2
<1>5. \A i, j \in 1 .. Len(v) : i < j => v[i] < v[j]
  <2> SUFFICES ASSUME NEW i \in 1 .. Len(v), NEW j \in 1 .. Len(v), i < j PROVE v[i] < v[j]
    OBVIOUS
  <2>1. i \in 1 .. Len(s)
    BY <1>2, <1>4
  <2>2. s[i] \in 1 .. n - 1
    BY <1>2, <2>1 DEF Range
  <2>3. CASE j \in 1 .. Len(s)
    BY <1>2, <2>1, <2>3
  <2>4. CASE j = Len(s) + 1
    BY <1>1, <1>2, <2>1, <2>2, <2>4
  <2> QED
    BY <1>4, <2>3, <2>4
<1>6. Range(s) \subseteq DOMAIN batch /\ Range(v) \subseteq DOMAIN batch
    BY <1>1, <1>3
<1>7. /\ x \in Seq(T) /\ Len(x) = Len(s)
      /\ \A i \in 1 .. Len(s) : x[i] = batch[s[i]]
    BY <1>6, PickedItems
<1>8. /\ Picked(batch, v) \in Seq(T) /\ Len(Picked(batch, v)) = Len(v)
      /\ \A i \in 1 .. Len(v) : Picked(batch, v)[i] = batch[v[i]]
    BY <1>2, <1>6, PickedItems
<1> HIDE DEF x
<1>9. Picked(batch, v) = Append(x, batch[n])
  <2>1. /\ Append(x, batch[n]) \in Seq(T) /\ Len(Append(x, batch[n])) = Len(s) + 1
        /\ \A i \in 1 .. Len(s) : Append(x, batch[n])[i] = x[i]
        /\ Append(x, batch[n])[Len(s) + 1] = batch[n]
    BY <1>1, <1>7, AppendProperties
  <2>2. \A i \in 1 .. Len(v) : Picked(batch, v)[i] = Append(x, batch[n])[i]
    <3> SUFFICES ASSUME NEW i \in 1 .. Len(v) PROVE Picked(batch, v)[i] = Append(x, batch[n])[i]
      OBVIOUS
    <3>1. CASE i \in 1 .. Len(s)
      BY <1>2, <1>7, <1>8, <2>1, <3>1, ZenonT(60)
    <3>2. CASE i = Len(s) + 1
      BY <1>2, <1>8, <2>1, <3>2
    <3> QED
      BY <1>4, <3>1, <3>2
  <2> QED
    BY <1>2, <1>8, <2>1, <2>2, SeqEqual
<1> QED
    BY <1>2, <1>3, <1>5, <1>9 DEF v, x

LEMMA TakenNext ==
    ASSUME NEW T, NEW t \in Seq(T), NEW u \in Seq(T), NEW batch \in Seq(T),
           NEW n \in 1 .. Len(batch), Taken(t, u, batch, n - 1)
    PROVE  /\ batch[n] \in Values \ Range(u) => Taken(t, Append(u, batch[n]), batch, n)
           /\ batch[n] \notin Values \ Range(u) => Taken(t, u, batch, n)
<1> DEFINE e == batch[n]
           B == Abs!Bringing(t, batch)
<1>1. PICK s \in Seq(Nat) :
        /\ Len(s) <= n - 1
        /\ Range(s) = B \intersect 1 .. n - 1
        /\ \A i, j \in 1 .. Len(s) : i < j => s[i] < s[j]
        /\ u = t \o Picked(batch, s)
    BY DEF Taken
<1> DEFINE x == Picked(batch, s)
<1>2. /\ DOMAIN batch = 1 .. Len(batch) /\ n \in Nat \ {0} /\ e \in T
      /\ 1 .. n = (1 .. n - 1) \union {n} /\ n \notin 1 .. n - 1 /\ Len(s) \in Nat
      /\ n \in DOMAIN batch /\ 1 .. n - 1 \subseteq DOMAIN batch
    BY LenProperties, ElementOfSeq
<1>3. x \in Seq(T) /\ Range(x) = {batch[k] : k \in Range(s)}
    BY <1>1, <1>2, PickedItems, SMTT(30)
<1>4. n \in B <=> e \in Values \ Range(t) /\ \A l \in 1 .. n - 1 : batch[l] # e
  <2>1. \A r : Abs!Range(r) = Range(r)
    BY DEF Abs!Range, Range
  <2> QED
    BY <1>2, <2>1 DEF Abs!Bringing
<1>5. \A l \in 1 .. n - 1 : batch[l] \in Values => batch[l] \in Range(u)
    BY DEF Taken
<1> HIDE DEF x, B
<1>6. Range(u) = Range(t) \union Range(x)
    BY <1>1, <1>3, RangeConcatenation DEF x
<1>7. n \in B <=> e \in Values \ Range(u)
  <2>1. ASSUME \A l \in 1 .. n - 1 : batch[l] # e PROVE e \notin Range(x)
    BY <1>1, <1>3, <2>1
  <2> QED
    BY <1>4, <1>5, <1>6, <2>1
<1>8. CASE n \in B
  <2> DEFINE v == Append(s, n)
  <2>1. /\ v \in Seq(Nat) /\ Len(v) = Len(s) + 1 /\ Range(v) = Range(s) \union {n}
        /\ \A i, j \in 1 .. Len(v) : i < j => v[i] < v[j]
        /\ Picked(batch, v) = Append(x, e)
    BY <1>1, <1>2, PickOneMore DEF x
  <2> HIDE DEF v, e
  <2>2. Len(v) <= n /\ Range(v) = B \intersect 1 .. n
    BY <1>1, <1>2, <1>8, <2>1
  <2>3. Append(u, e) = t \o Picked(batch, v)
    <3>1. e \in T /\ x \in Seq(T)
      BY <1>2, <1>3
    <3>2. u = t \o x
      BY <1>1 DEF x
    <3> DEFINE p == Picked(batch, v)
    <3>3. p = Append(x, e)
      BY <2>1
    <3> HIDE DEF p
    <3>4. Append(u, e) = t \o p
      BY <3>1, <3>2, <3>3, AppendToConcat
    <3> QED
      BY <3>4 DEF p
  <2>4. \A l \in 1 .. n : batch[l] \in Values => batch[l] \in Range(Append(u, e))
    <3>1. Range(Append(u, e)) = Range(u) \union {e}
      BY <1>2, RangeAppend
    <3> QED
      BY <1>2, <1>5, <3>1 DEF e
  <2>5. Taken(t, Append(u, e), batch, n)
    BY <2>1, <2>2, <2>3, <2>4 DEF Taken, B
  <2> QED
    BY <1>7, <1>8, <2>5 DEF e
<1>9. CASE n \notin B
  <2>1. Len(s) <= n /\ Range(s) = B \intersect 1 .. n
    BY <1>1, <1>2, <1>9
  <2>2. \A l \in 1 .. n : batch[l] \in Values => batch[l] \in Range(u)
    BY <1>2, <1>5, <1>7, <1>9
  <2>3. Taken(t, u, batch, n)
    BY <1>1, <2>1, <2>2 DEF Taken, B
  <2> QED
    BY <1>7, <1>9, <2>3
<1> QED
    BY <1>8, <1>9

\* At the end of the batch the abstract table takes it in.
LEMMA TakenAll ==
    ASSUME NEW T, NEW batch \in Seq(T), Taken(IdsOf(truth), IdsOf(truth)', batch, Len(batch))
    PROVE  Abs!Add(batch)
<1> DEFINE B == Abs!Bringing(IdsOf(truth), batch)
<1>1. PICK s \in Seq(Nat) :
        /\ Len(s) <= Len(batch)
        /\ Range(s) = B \intersect 1 .. Len(batch)
        /\ \A i, j \in 1 .. Len(s) : i < j => s[i] < s[j]
        /\ IdsOf(truth)' = IdsOf(truth) \o Picked(batch, s)
    BY DEF Taken
<1>2. Len(s) \in Nat /\ DOMAIN s = 1 .. Len(s) /\ Len(batch) \in Nat /\ DOMAIN batch = 1 .. Len(batch)
    BY LenProperties
<1>3. Abs!Range(s) = B
    BY <1>1, <1>2 DEF Abs!Range, Range, Abs!Bringing
<1>4. s \in Abs!BoundedSeq(B, Len(batch))
  <2>1. \A i \in 1 .. Len(s) : s[i] \in B
    BY <1>2, <1>3 DEF Abs!Range
  <2>2. s \in [1 .. Len(s) -> B] /\ Len(s) \in 0 .. Len(batch)
    BY <1>1, <1>2, <2>1
  <2> HIDE DEF B
  <2> QED
    BY <2>2 DEF Abs!BoundedSeq, Abs!SeqOf
<1> QED
    BY <1>1, <1>2, <1>3, <1>4 DEF Abs!Add, Picked

-----------------------------------------------------------------------------
(***************************************************************************)
(* Seen through GET /messages the table implements AbstractTable.          *)
(***************************************************************************)
Ids == Values \union {Empty}

\* The writer's table is the last completed one and what its batch brought so
\* far.
Filling ==
    \A b \in Batches : pc[b] = "items" =>
        /\ b \in Decodable /\ pos \in 1 .. Len(ItemsOf[b]) + 1
        /\ Taken(IdsOf(truth), IdsOf(messages), IdsOf(ItemsOf[b]), pos - 1)

LEMMA IdsOfFacts ==
    ASSUME NEW R, \A e \in R : e.id \in Ids, NEW t \in Seq(R)
    PROVE  /\ IdsOf(t) \in Seq(Ids) /\ Len(IdsOf(t)) = Len(t) /\ DOMAIN IdsOf(t) = 1 .. Len(t)
           /\ \A i \in 1 .. Len(t) : IdsOf(t)[i] = t[i].id
           /\ Range(IdsOf(t)) = {t[i].id : i \in DOMAIN t}
<1>1. DOMAIN t = 1 .. Len(t) /\ Len(t) \in Nat /\ \A i \in 1 .. Len(t) : t[i] \in R
    BY LenProperties, ElementOfSeq
<1>2. \A i \in 1 .. Len(t) : t[i].id \in Ids
    BY <1>1
<1>3. /\ IdsOf(t) \in Seq(Ids) /\ Len(IdsOf(t)) = Len(t) /\ DOMAIN IdsOf(t) = 1 .. Len(t)
      /\ \A i \in 1 .. Len(t) : IdsOf(t)[i] = t[i].id
    BY <1>1, <1>2 DEF IdsOf
<1> QED
    BY <1>1, <1>3 DEF Range

LEMMA NamedFacts ==
    /\ \A e \in Record : e.id \in Ids
    /\ \A e \in Item : e.id \in Ids
    BY DEF Record, Item, Ids

\* The batch is one the abstract table may take in.
LEMMA BatchFacts ==
    ASSUME NEW b \in Batches
    PROVE  /\ IdsOf(ItemsOf[b]) \in Seq(Ids) /\ Len(IdsOf(ItemsOf[b])) = Len(ItemsOf[b])
           /\ Len(ItemsOf[b]) \in Nat /\ DOMAIN ItemsOf[b] = 1 .. Len(ItemsOf[b])
           /\ \A i \in 1 .. Len(ItemsOf[b]) : IdsOf(ItemsOf[b])[i] = ItemsOf[b][i].id
<1>1. ItemsOf[b] \in Seq(Item)
    BY SharedConstants
<1> QED
    BY <1>1, IdsOfFacts, NamedFacts, LenProperties

\* What one turn of the batch loop does to the ids of the table.
LEMMA ItemIds ==
    ASSUME TypeOK, IndexExact, NEW b \in Batches, BatchItem(b)
    PROVE  LET id == ItemsOf[b][pos].id IN
           IdsOf(messages') = IF id \in Values \ Range(IdsOf(messages)) THEN Append(IdsOf(messages), id)
                              ELSE IdsOf(messages)
<1> DEFINE item == ItemsOf[b][pos]
           u == IdsOf(messages)
<1>1. item \in Item /\ pos \in DOMAIN ItemsOf[b]
      /\ (item.id # Empty => Inserted(item) \in Record)
      /\ \A rec \in Record : Enriched(rec, item) \in Record /\ Enriched(rec, item).id = rec.id
    BY ItemFacts DEF BatchItem
<1>2. /\ messages \in Seq(Record) /\ DOMAIN messages = 1 .. Len(messages) /\ Len(messages) \in Nat
      /\ \A i \in DOMAIN messages : messages[i] \in Record
    BY LenProperties, ElementOfSeq DEF TypeOK
<1>3. /\ u \in Seq(Ids) /\ Len(u) = Len(messages) /\ DOMAIN u = 1 .. Len(messages)
      /\ \A i \in 1 .. Len(messages) : u[i] = messages[i].id
      /\ Range(u) = {messages[i].id : i \in DOMAIN messages}
    BY <1>2, IdsOfFacts, NamedFacts
<1>4. item.id \in Values \union {Empty} /\ Empty \notin Values /\ Range(u) = DOMAIN indexMap
    BY <1>1, <1>3, SharedConstants DEF Item, IndexExact
<1>5. CASE item.id = Empty
  <2>1. messages' = messages
    BY <1>5 DEF BatchItem, table
  <2> QED
    BY <1>4, <1>5, <2>1
<1>6. CASE item.id # Empty /\ item.id \in DOMAIN indexMap
  <2> DEFINE k == indexMap[item.id]
             new == Enriched(messages[k], item)
  <2>1. k \in 1 .. Len(messages) /\ messages[k] \in Record
    BY <1>2, <1>6 DEF IndexExact
  <2>2. new \in Record /\ new.id = messages[k].id
    BY <1>1, <2>1
  <2>3. messages' = [messages EXCEPT ![k] = new]
    BY <1>6 DEF BatchItem
  <2> HIDE DEF k, new
  <2>4. /\ DOMAIN messages' = DOMAIN messages
        /\ \A i \in DOMAIN messages : messages'[i] = IF i = k THEN new ELSE messages[i]
    BY <1>2, <2>1, <2>2, <2>3, ExceptSeq
  <2>5. \A i \in DOMAIN messages : messages'[i].id = messages[i].id
    BY <2>2, <2>4
  <2>6. IdsOf(messages') = IdsOf(messages)
    BY <2>4, <2>5 DEF IdsOf
  <2> QED
    BY <1>4, <1>6, <2>6
<1>7. CASE item.id # Empty /\ item.id \notin DOMAIN indexMap
  <2> DEFINE new == Inserted(item)
             n == Len(messages) + 1
             w == Append(u, item.id)
  <2>1. new \in Record /\ new.id = item.id
    BY <1>1, <1>7 DEF Inserted
  <2>2. messages' = Append(messages, new)
    BY <1>7 DEF BatchItem
  <2> HIDE DEF new, item
  <2>3. /\ messages' \in Seq(Record) /\ Len(messages') = n
        /\ \A i \in 1 .. Len(messages) : messages'[i] = messages[i]
        /\ messages'[n] = new
    BY <1>2, <2>1, <2>2, AppendProperties
  <2>4. /\ IdsOf(messages') \in Seq(Ids) /\ Len(IdsOf(messages')) = n
        /\ \A i \in 1 .. n : IdsOf(messages')[i] = messages'[i].id
    BY <2>3, IdsOfFacts, NamedFacts
  <2>5. /\ w \in Seq(Ids) /\ Len(w) = n
        /\ \A i \in 1 .. Len(messages) : w[i] = u[i]
        /\ w[n] = item.id
    BY <1>3, <1>4, AppendProperties DEF Ids
  <2> HIDE DEF w, u
  <2>6. n \in 1 .. n /\ \A i \in 1 .. n : i \in 1 .. Len(messages) \/ i = n
    BY <1>2
  <2> HIDE DEF n
  <2>7. \A i \in 1 .. n : IdsOf(messages')[i] = w[i]
    BY <1>3, <2>1, <2>3, <2>4, <2>5, <2>6
  <2>8. IdsOf(messages') = w
    BY <2>4, <2>5, <2>7, SeqEqual
  <2> QED
    BY <1>4, <1>7, <2>8 DEF w, u, item
<1> QED
    BY <1>5, <1>6, <1>7

\* While a handler is in the batch loop no other moves the table or the place
\* in the batch.
LEMMA FillingKept ==
    ASSUME IInv, Filling, [Next]_vars
    PROVE  Filling'
<1> SUFFICES ASSUME NEW b \in Batches, pc'[b] = "items"
             PROVE  /\ b \in Decodable /\ pos' \in 1 .. Len(ItemsOf[b]) + 1
                    /\ Taken(IdsOf(truth'), IdsOf(messages'), IdsOf(ItemsOf[b]), pos' - 1)
    BY DEF Filling, Taken, Picked, Abs!Bringing, Abs!Range, IdsOf
<1>1. /\ TypeOK /\ IndexExact /\ messages \in Seq(Record) /\ truth \in Seq(Record) /\ b \in Procs
      /\ pc \in [Procs -> UNION {StepsOf(q) : q \in Procs}]
    BY ProcsApart DEF IInv, TypeOK
<1>2. CASE BatchLock(b)
  <2>1. /\ b \in Decodable /\ messages' = messages /\ truth' = truth /\ pos' = 1 /\ pos' - 1 = 0
        /\ mu = Free
    BY <1>2 DEF BatchLock, table, history
  <2>2. messages = truth
    BY <1>1, <2>1, ProcsApart DEF IInv, TableIsCurrent, TypeOK, Locked
  <2>3. IdsOf(truth) \in Seq(Ids) /\ IdsOf(ItemsOf[b]) \in Seq(Ids) /\ Len(ItemsOf[b]) \in Nat
    BY <1>1, IdsOfFacts, NamedFacts, BatchFacts
  <2>4. Taken(IdsOf(truth), IdsOf(truth), IdsOf(ItemsOf[b]), 0)
    BY <2>3, TakenNone
  <2> QED
    BY <2>1, <2>2, <2>3, <2>4
<1>3. CASE BatchItem(b)
  <2> DEFINE batch == IdsOf(ItemsOf[b])
             u == IdsOf(messages)
             id == ItemsOf[b][pos].id
  <2>1. pc[b] = "items" /\ pos \in DOMAIN ItemsOf[b] /\ pos' = pos + 1 /\ truth' = truth
    BY <1>3 DEF BatchItem, history
  <2>2. /\ batch \in Seq(Ids) /\ Len(batch) = Len(ItemsOf[b]) /\ Len(ItemsOf[b]) \in Nat
        /\ pos \in 1 .. Len(batch) /\ batch[pos] = id
    BY <2>1, BatchFacts
  <2>3. b \in Decodable /\ Taken(IdsOf(truth), u, batch, pos - 1)
    BY <2>1 DEF Filling
  <2>4. u \in Seq(Ids) /\ IdsOf(truth) \in Seq(Ids)
    BY <1>1, IdsOfFacts, NamedFacts
  <2>5. IdsOf(messages') = IF id \in Values \ Range(u) THEN Append(u, id) ELSE u
    BY <1>1, <1>3, ItemIds
  <2>6. pos' \in 1 .. Len(ItemsOf[b]) + 1 /\ pos' - 1 = pos
    BY <2>1, <2>2
  <2> HIDE DEF batch, u, id
  <2>7. /\ batch[pos] \in Values \ Range(u) => Taken(IdsOf(truth), Append(u, batch[pos]), batch, pos)
        /\ batch[pos] \notin Values \ Range(u) => Taken(IdsOf(truth), u, batch, pos)
    BY <2>2, <2>3, <2>4, TakenNext
  <2>8. Taken(IdsOf(truth), IdsOf(messages'), batch, pos)
    BY <2>2, <2>5, <2>7
  <2> QED
    BY <2>1, <2>3, <2>6, <2>8 DEF batch
<1>4. CASE UNCHANGED <<messages, truth, pos>> /\ pc[b] = "items"
  <2>1. /\ b \in Decodable /\ pos \in 1 .. Len(ItemsOf[b]) + 1
        /\ Taken(IdsOf(truth), IdsOf(messages), IdsOf(ItemsOf[b]), pos - 1)
    BY <1>4 DEF Filling
  <2> QED
    BY <1>4, <2>1
<1>5. BatchLock(b) \/ BatchItem(b) \/ (UNCHANGED <<messages, truth, pos>> /\ pc[b] = "items")
  <2>1. \A q \in Procs : Locked(q) <=> mu = q
    BY <1>1 DEF TypeOK
  <2>2. pc[b] = "items" => mu = b
    BY <1>1, <2>1 DEF Locked
  <2>3. ASSUME NEW q \in Procs, NEW l, Goto(q, l), l # "items" PROVE pc[b] = "items" /\ q # b
    BY <1>1, <2>3 DEF Goto
  <2>4. ASSUME NEW q \in Procs, Locked(q), NEW l, Goto(q, l), l # "items" PROVE FALSE
    BY <2>1, <2>2, <2>3, <2>4
  <2>5. ASSUME NEW d \in Batches, BatchStep(d)
        PROVE  BatchLock(b) \/ BatchItem(b) \/ (UNCHANGED <<messages, truth, pos>> /\ pc[b] = "items")
    <3>1. d \in Procs
      BY ProcsApart
    <3>2. CASE BatchIgnore(d)
      BY <2>3, <3>1, <3>2 DEF BatchIgnore, table, history
    <3>3. CASE BatchLock(d)
      <4>1. mu = Free /\ Goto(d, "items")
        BY <3>3 DEF BatchLock
      <4>2. d = b
        BY <1>1, <2>2, <4>1, ProcsApart DEF Goto
      <4> QED
        BY <3>3, <4>2
    <3>4. CASE BatchItem(d)
      <4>1. pc[d] = "items" /\ pc' = pc
        BY <3>4 DEF BatchItem
      <4>2. d = b
        BY <2>1, <2>2, <3>1, <4>1 DEF Locked
      <4> QED
        BY <3>4, <4>2
    <3>5. CASE BatchUnlock(d)
      BY <2>4, <3>1, <3>5 DEF BatchUnlock, Locked
    <3> QED
      BY <2>5, <3>2, <3>3, <3>4, <3>5 DEF BatchStep
  <2>6. ASSUME NEW g \in Getters, GetStart(g) \/ GetStep(g)
        PROVE  UNCHANGED <<messages, truth, pos>> /\ pc[b] = "items"
    <3>1. g \in Procs /\ g # b
      BY ProcsApart
    <3>2. \E l : Goto(g, l)
      BY <2>6 DEF GetStart, GetStep, GetLock, GetMarshal, GetClean, GetReply
    <3>3. pc[b] = "items"
      BY <1>1, <3>1, <3>2 DEF Goto
    <3> QED
      BY <2>6, <3>3 DEF GetStart, GetStep, GetLock, GetMarshal, GetClean, GetReply, table, history
  <2>7. ASSUME ResetLock \/ ResetStep
        PROVE  UNCHANGED <<messages, truth, pos>> /\ pc[b] = "items"
    <3>1. Resetter \in Procs /\ Resetter # b
      BY ProcsApart
    <3>2. CASE ResetLock
      BY <2>3, <3>1, <3>2 DEF ResetLock, table, history
    <3>3. CASE ResetTable
      BY <2>4, <3>1, <3>3 DEF ResetTable, Locked
    <3>4. CASE ResetCache
      BY <2>4, <3>1, <3>4 DEF ResetCache, Locked
    <3>5. CASE ResetClean
      BY <2>4, <3>1, <3>5 DEF ResetClean, Locked
    <3> QED
      BY <2>7, <3>2, <3>3, <3>4, <3>5 DEF ResetStep
  <2>8. CASE UNCHANGED vars
    BY <2>8 DEF vars, table, history
  <2> QED
    BY <2>5, <2>6, <2>7, <2>8 DEF Next
<1> QED
    BY <1>2, <1>3, <1>4, <1>5

\* The unlock behind a batch is the batch taken in, the step in which a reset
\* empties the rendered bytes empties the table, and nothing else is seen.
LEMMA StepSimulates ==
    ASSUME IInv, Filling, [Next]_vars
    PROVE  [Abs!Next]_(IdsOf(truth))
<1>1. ASSUME NEW b \in Batches, BatchUnlock(b) PROVE Abs!Next
  <2>1. pc[b] = "items" /\ pos \notin DOMAIN ItemsOf[b] /\ truth' = messages
    BY <1>1 DEF BatchUnlock, Commit
  <2>2. /\ b \in Decodable /\ pos \in 1 .. Len(ItemsOf[b]) + 1
        /\ Taken(IdsOf(truth), IdsOf(messages), IdsOf(ItemsOf[b]), pos - 1)
    BY <2>1 DEF Filling
  <2>3. /\ IdsOf(ItemsOf[b]) \in Seq(Ids) /\ Len(IdsOf(ItemsOf[b])) = Len(ItemsOf[b])
        /\ Len(ItemsOf[b]) \in Nat /\ DOMAIN ItemsOf[b] = 1 .. Len(ItemsOf[b])
    BY BatchFacts
  <2>4. pos - 1 = Len(IdsOf(ItemsOf[b]))
    BY <2>1, <2>2, <2>3
  <2>5. IdsOf(truth)' = IdsOf(messages)
    BY <2>1 DEF IdsOf
  <2>6. Abs!Add(IdsOf(ItemsOf[b]))
    BY <2>2, <2>3, <2>4, <2>5, TakenAll
  <2> QED
    BY <2>2, <2>6 DEF Abs!Next
<1>2. CASE ResetCache
  <2>1. truth' = <<>>
    BY <1>2 DEF ResetCache, Commit
  <2>2. IdsOf(truth)' = <<>>
    BY <2>1 DEF IdsOf
  <2> QED
    BY <2>2 DEF Abs!Next, Abs!Clear
<1>3. CASE truth' = truth
    BY <1>3 DEF IdsOf
<1>4. ASSUME NEW b \in Batches, BatchStep(b) PROVE BatchUnlock(b) \/ truth' = truth
    BY <1>4 DEF BatchStep, BatchIgnore, BatchLock, BatchItem, history
<1>5. ASSUME NEW g \in Getters, GetStart(g) \/ GetStep(g) PROVE truth' = truth
    BY <1>5 DEF GetStart, GetStep, GetLock, GetMarshal, GetClean, GetReply, history
<1>6. ASSUME ResetLock \/ ResetStep PROVE ResetCache \/ truth' = truth
    BY <1>6 DEF ResetLock, ResetStep, ResetTable, ResetClean, history
<1> QED
    BY <1>1, <1>2, <1>3, <1>4, <1>5, <1>6 DEF Next, vars, history

\* The shared table is an AbstractTable: what GET /messages may show changes by
\* whole batches, each in its order and each id once, and by resets.
THEOREM Implements == Spec => Refines
<1>1. Init => Abs!Init /\ Filling
  <2>1. Init => IdsOf(truth) = <<>>
    BY DEF Init, IdsOf
  <2>2. Init => Filling
    BY ProcsApart DEF Init, Filling
  <2> QED
    BY <2>1, <2>2 DEF Abs!Init
<1>2. Spec => [](IInv /\ Filling)
  <2>1. IInv /\ Filling /\ [Next]_vars => Filling'
    BY FillingKept
  <2> QED
    BY <1>1, <2>1, Invariance, PTL DEF Spec
<1>3. IInv /\ Filling /\ [Next]_vars => [Abs!Next]_(IdsOf(truth))
    BY StepSimulates
<1> QED
    BY <1>1, <1>2, <1>3, PTL DEF Spec, Refines, Abs!Spec
=============================================================================
