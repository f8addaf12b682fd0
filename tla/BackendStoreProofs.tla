-------------------------- MODULE BackendStoreProofs --------------------------
(***************************************************************************)
(* What BackendStore guarantees for any number of requests, ids, resets,   *)
(* crashes and failing writes, and any sizes of queue and batch.           *)
(***************************************************************************)
EXTENDS BackendStore, Integers, SequenceTheorems, TLAPS

-----------------------------------------------------------------------------
(***************************************************************************)
(* Sequences.                                                              *)
(***************************************************************************)
\* The elements of an appended sequence.
LEMMA RangeAppend ==
    ASSUME NEW S, NEW s \in Seq(S), NEW e \in S
    PROVE  Range(Append(s, e)) = Range(s) \union {e}
<1>1. Append(s, e) = s \o <<e>>
    BY AppendIsConcat
<1>2. <<e>> \in Seq(S) /\ Range(<<e>>) = {e}
    BY DEF Range
<1>3. Range(s \o <<e>>) = Range(s) \union Range(<<e>>)
    BY <1>2, RangeConcatenation, ZenonT(60)
<1> QED
    BY <1>1, <1>2, <1>3

\* Taking the head of a sequence moves it out.
LEMMA HeadTailRange ==
    ASSUME NEW S, NEW s \in Seq(S), s # <<>>
    PROVE  /\ Head(s) \in S /\ Head(s) \in Range(s)
           /\ Tail(s) \in Seq(S) /\ Len(Tail(s)) = Len(s) - 1
           /\ Range(s) = {Head(s)} \union Range(Tail(s))
<1> DEFINE r == <<Head(s)>>
           t == Tail(s)
<1>1. /\ Head(s) = s[1] /\ Head(s) \in S /\ t \in Seq(S) /\ Len(t) = Len(s) - 1 /\ Len(s) \in Nat \ {0}
      /\ \A i \in 1 .. Len(t) : t[i] = s[i + 1]
    BY HeadTailProperties, EmptySeq, LenProperties
<1>2. r \in Seq(S) /\ Len(r) = 1 /\ r[1] = s[1] /\ Range(r) = {Head(s)}
    BY <1>1 DEF Range
<1> HIDE DEF r, t
<1>3. r \o t = s
  <2>1. /\ r \o t \in Seq(S) /\ Len(r \o t) = Len(s)
        /\ \A i \in 1 .. Len(s) : (r \o t)[i] = IF i <= 1 THEN r[i] ELSE t[i - 1]
    <3>1. /\ r \o t \in Seq(S) /\ Len(r \o t) = Len(r) + Len(t)
          /\ \A i \in 1 .. Len(r) + Len(t) : (r \o t)[i] = IF i <= Len(r) THEN r[i] ELSE t[i - Len(r)]
      BY <1>1, <1>2, ConcatProperties, ZenonT(60)
    <3>2. Len(r) + Len(t) = Len(s)
      BY <1>1, <1>2
    <3> QED
      BY <1>2, <3>1, <3>2
  <2>2. ASSUME NEW i \in 1 .. Len(s), i > 1 PROVE t[i - 1] = s[i]
    <3>1. i - 1 \in 1 .. Len(t) /\ (i - 1) + 1 = i
      BY <1>1, <2>2
    <3> QED
      BY <1>1, <3>1
  <2>3. \A i \in 1 .. Len(s) : (r \o t)[i] = s[i]
    BY <1>1, <1>2, <2>1, <2>2
  <2> QED
    BY <2>1, <2>3, SeqEqual
<1>4. Range(s) = {Head(s)} \union Range(t)
  <2>1. r \in Seq(S) /\ t \in Seq(S)
    BY <1>1, <1>2
  <2>2. Range(r \o t) = Range(r) \union Range(t)
    BY <2>1, RangeConcatenation
  <2> QED
    BY <1>2, <1>3, <2>2
<1> QED
    BY <1>1, <1>4 DEF t

-----------------------------------------------------------------------------
\* Rows of the batch that are not in the table yet.
Pending == {batch[i] : i \in at .. Len(batch)}

\* Rows of the batch whose commit is still to come.
Unsaved == IF writer = "replicate" THEN {} ELSE Range(batch)

\* In the table, and there to stay.
StoredIds == RowIds \intersect CommittedIds

\* The batch at each of the writer's control points.
WriterShape ==
    /\ writer = "idle" => batch = <<>>
    /\ writer \in {"collect", "lock"} => at = 1
    /\ writer = "replicate" => at = Len(batch) + 1

\* How far the handler of a message has come that is in one of the places.
StepsFit ==
    /\ \A r \in Range(queue) \union Range(batch) \union replicated : step[r] = "ok"
    /\ \A r \in Range(rows) \union Range(committed) :
           step[r] \in {"ok", "error", "seen", "extend", "stored", "raised", "dead"}
    /\ \A r \in Range(feed) : step[r] \in {"queue", "insert", "ok", "error", "dead"}
    /\ \A r \in Reqs : step[r] \in {"seen", "extend", "stored"} => r \in Ingests

Distinct(t) == \A i, j \in DOMAIN t : IdOf[t[i]] = IdOf[t[j]] => i = j
RowsDistinct == Distinct(rows) /\ Distinct(committed)

\* Posts and frames that no reset disturbed, and those of them with a claim.
Clean == (Rest \union Frames) \ straddled
Claimed == {r \in Clean : step[r] = "feed" \/ r \in Range(feed)}

\* The seen set keeps claims apart: an id is claimed once, and what claimed it
\* is in the feed once.
ClaimsApart ==
    /\ \A q, r \in Claimed : IdOf[q] = IdOf[r] => q = r
    /\ resetPc # "feed" => \A r \in Claimed : IdOf[r] \in seen
    /\ \A i, j \in DOMAIN feed : feed[i] = feed[j] /\ feed[i] \in Clean => i = j

\* A reset knows whom it disturbs.
ResetMarks ==
    /\ resetPc # "idle" => InFlight \subseteq straddled
    /\ resetPc = "table" => Range(feed) \subseteq straddled

\* What is on its way to the table is in the feed, what is in the feed is
\* stored or on its way, what is stored is in the feed, and so is what a
\* rollback would bring back; an ingested record is stored first.
Matched ==
    /\ \A r \in Reqs \ straddled :
        step[r] \in {"queue", "insert"} \/ r \in Range(queue) \union Range(batch) => r \in Range(feed)
    /\ \A r \in Range(feed) \ (unwritten \union straddled) :
        \/ IdOf[r] \in StoredIds
        \/ step[r] \in {"queue", "insert"}
        \/ r \in Range(queue) \union Unsaved
    /\ resetPc # "table" =>
        \A r \in (Range(rows) \union Range(committed)) \ (straddled \union survived) :
            step[r] \in {"seen", "extend", "stored", "raised"} \/ r \in Range(feed)
    /\ \A r \in Reqs \ straddled : step[r] \in {"seen", "extend"} => IdOf[r] \in StoredIds

\* What the writer has inserted is in the table, what it is about to send is
\* committed, and so is what it has sent.
WriterHonest ==
    /\ writer = "insert" => \A i \in 1 .. at - 1 : IdOf[batch[i]] \in RowIds
    /\ writer = "replicate" => \A r \in Range(batch) \ gone : IdOf[r] \in StoredIds
    /\ \A r \in replicated \ gone : IdOf[r] \in StoredIds

IInv ==
    /\ TypeOK /\ WriterShape
    /\ StepsFit /\ RowsDistinct
    /\ ClaimsApart /\ ResetMarks
    /\ Matched /\ Durable /\ WriterHonest

-----------------------------------------------------------------------------
(***************************************************************************)
(* Sequences and the table.                                                *)
(***************************************************************************)
LEMMA NoElements ==
    /\ Range(<<>>) = {}
    /\ \A S : <<>> \in Seq(S)
    /\ Len(<<>>) = 0
    BY DEF Range

LEMMA ElementIn ==
    ASSUME NEW S, NEW s \in Seq(S)
    PROVE  /\ Range(s) \subseteq S
           /\ DOMAIN s = 1 .. Len(s) /\ Len(s) \in Nat
           /\ \A i \in 1 .. Len(s) : s[i] \in Range(s) /\ s[i] \in S
    BY ElementOfSeq, LenProperties DEF Range

\* INSERT OR IGNORE adds the id, and nothing else.
LEMMA InsertFacts ==
    ASSUME rows \in Seq(Reqs), Distinct(rows), NEW r \in Reqs, InsertOrIgnore(r)
    PROVE  /\ rows' \in Seq(Reqs) /\ Distinct(rows')
           /\ RowIds' = RowIds \union {IdOf[r]}
           /\ Range(rows') \subseteq Range(rows) \union {r}
<1>1. CASE IdOf[r] \in RowIds
  <2>1. rows' = rows
    BY <1>1 DEF InsertOrIgnore
  <2> QED  BY <1>1, <2>1 DEF RowIds
<1>2. CASE IdOf[r] \notin RowIds
  <2>1. rows' = Append(rows, r)
    BY <1>2 DEF InsertOrIgnore
  <2>2. /\ rows' \in Seq(Reqs) /\ Len(rows') = Len(rows) + 1 /\ Len(rows) \in Nat
        /\ \A i \in 1 .. Len(rows) : rows'[i] = rows[i]
        /\ rows'[Len(rows) + 1] = r
        /\ DOMAIN rows = 1 .. Len(rows) /\ DOMAIN rows' = 1 .. Len(rows) + 1
    BY <2>1, AppendProperties, LenProperties
  <2>3. Range(rows') = Range(rows) \union {r}
    BY <2>1, RangeAppend
  <2>4. RowIds' = RowIds \union {IdOf[r]}
    BY <2>3 DEF RowIds
  <2>5. \A i \in 1 .. Len(rows) : IdOf[rows[i]] # IdOf[r]
    BY <1>2, <2>2 DEF RowIds, Range
  <2>6. Distinct(rows')
    BY <2>2, <2>5 DEF Distinct
  <2> QED  BY <2>2, <2>3, <2>4, <2>6
<1> QED  BY <1>1, <1>2

\* A commit makes every row stay.
LEMMA CommitFacts ==
    ASSUME committed' = rows'
    PROVE  CommittedIds' = RowIds' /\ StoredIds' = RowIds'
<1>1. CommittedIds' = RowIds'
    BY DEF CommittedIds, RowIds
<1> QED
    BY <1>1 DEF StoredIds

\* Whatever else a failing write does, it takes no row away that is committed.
LEMMA FailFacts ==
    ASSUME UNCHANGED committed, \/ RowIds \subseteq RowIds'
                                \/ rows' = committed
    PROVE  StoredIds \subseteq StoredIds'
<1>1. CommittedIds' = CommittedIds
    BY DEF CommittedIds
<1>2. rows' = committed => RowIds' = CommittedIds
    BY DEF RowIds, CommittedIds
<1> QED
    BY <1>1, <1>2 DEF StoredIds

\* A message whose row is taken away is known to be gone.
LEMMA LoseFacts ==
    ASSUME NEW G, Lose(G)
    PROVE  /\ gone \subseteq gone' /\ G \subseteq gone' /\ gone' \subseteq gone \union G \union Reqs
           /\ \A q \in Accepted : IdOf[q] \in RowIds => IdOf[q] \in RowIds' \/ q \in gone'
    BY DEF Lose, Accepted

-----------------------------------------------------------------------------
(***************************************************************************)
(* Where messages can be, and what a step that moves none leaves alone.    *)
(***************************************************************************)
LEMMA Places ==
    ASSUME TypeOK
    PROVE  /\ Range(queue) \subseteq Reqs /\ Range(batch) \subseteq Reqs
           /\ Range(feed) \subseteq Reqs /\ Range(rows) \subseteq Reqs /\ Range(committed) \subseteq Reqs
           /\ Pending \subseteq Range(batch)
           /\ (at = Len(batch) + 1 => Pending = {}) /\ (batch = <<>> => Pending = {})
<1>1. /\ Range(queue) \subseteq Reqs /\ Range(batch) \subseteq Reqs
      /\ Range(feed) \subseteq Reqs /\ Range(rows) \subseteq Reqs /\ Range(committed) \subseteq Reqs
      /\ Len(batch) \in Nat
      /\ \A i \in 1 .. Len(batch) : batch[i] \in Range(batch)
    BY ElementIn DEF TypeOK
<1>2. Pending \subseteq Range(batch)
    BY <1>1 DEF TypeOK, Pending
<1>3. at = Len(batch) + 1 => Pending = {}
    BY <1>1 DEF Pending
<1>4. batch = <<>> => Pending = {}
    BY <1>2, NoElements
<1> QED
    BY <1>1, <1>2, <1>3, <1>4

LEMMA StepTo ==
    ASSUME TypeOK, NEW r \in Reqs, NEW l \in Steps, Goto(r, l)
    PROVE  /\ step' \in [Reqs -> Steps]
           /\ step'[r] = l
           /\ \A q \in Reqs : q # r => step'[q] = step[q]
    BY DEF TypeOK, Goto

\* A handler that is not yet past the seen set, or turned back there.
LEMMA AsideInvariant ==
    ASSUME IInv, NEW r \in Reqs, NEW l \in {"rejected", "duplicate", "chain", "claim", "ignored"},
           step[r] \in {"new", "chain", "claim"}, Goto(r, l),
           prev' \in [Reqs -> Reqs \union {Genesis}], lastHash' \in Reqs \union {Genesis},
           UNCHANGED <<seen, feed, queue, writing, sqlite, resetPc, history, bounds>>
    PROVE  IInv'
<1>1. TypeOK /\ l \in Steps
    BY DEF IInv, Steps
<1>2. /\ step' \in [Reqs -> Steps] /\ step'[r] = l /\ \A q \in Reqs : q # r => step'[q] = step[q]
    BY <1>1, StepTo
<1>3. UNCHANGED <<seen, feed, queue, writer, batch, at, rows, committed, resetPc,
                  replicated, straddled, unwritten, survived, gone, resets, crashes, failures>>
    BY DEF writing, sqlite, history, bounds
<1>4. Accepted' = Accepted /\ InFlight' = InFlight /\ Claimed' = Claimed /\ Clean' = Clean
  <2>1. \A q \in Reqs : /\ (step'[q] = "feed" <=> step[q] = "feed")
                        /\ (step'[q] \in {"feed", "queue", "insert", "extend", "seen"}
                              <=> step[q] \in {"feed", "queue", "insert", "extend", "seen"})
                        /\ (step'[q] \in {"feed", "queue", "insert", "ok", "error", "seen", "extend", "stored", "raised", "dead"}
                              <=> step[q] \in {"feed", "queue", "insert", "ok", "error", "seen", "extend", "stored", "raised", "dead"})
    BY <1>2
  <2>2. Clean' = Clean /\ Clean \subseteq Reqs
    BY <1>3 DEF Clean, Reqs
  <2> QED
    BY <1>3, <2>1, <2>2 DEF Accepted, InFlight, Claimed
<1>5. UNCHANGED <<Pending, RowIds, CommittedIds, StoredIds, Unsaved>>
    BY <1>3 DEF Pending, RowIds, CommittedIds, StoredIds, Unsaved
<1>6. TypeOK'
    BY <1>1, <1>2, <1>3 DEF TypeOK
<1>7. /\ Range(queue) \subseteq Reqs /\ Range(batch) \subseteq Reqs /\ Range(feed) \subseteq Reqs
      /\ Range(rows) \subseteq Reqs /\ Range(committed) \subseteq Reqs /\ replicated \subseteq Reqs
    BY <1>1, Places DEF TypeOK
<1>8. StepsFit'
    BY <1>2, <1>3, <1>7 DEF IInv, StepsFit
<1>9. WriterShape' /\ RowsDistinct' /\ ClaimsApart' /\ ResetMarks'
    BY <1>3, <1>4, <1>5 DEF IInv, WriterShape, RowsDistinct, ClaimsApart, ResetMarks
<1>10. Matched'
    BY <1>2, <1>3, <1>5, <1>7 DEF IInv, Matched
<1>11. Durable'
  <2>1. \A q \in Accepted : q \in Reqs /\ q # r
    BY <1>2 DEF Accepted
  <2> QED
    BY <1>2, <1>3, <1>4, <1>5, <2>1 DEF IInv, Durable, Pending
<1>12. WriterHonest'
    BY <1>3, <1>5 DEF IInv, WriterHonest
<1> QED
    BY <1>6, <1>8, <1>9, <1>10, <1>11, <1>12 DEF IInv

LEMMA CheckInvariant ==
    ASSUME IInv, NEW r \in Reqs, PostReject(r) \/ PostCheck(r) \/ PostChain(r) \/ FrameChain(r)
    PROVE  IInv'
<1>1. /\ prev \in [Reqs -> Reqs \union {Genesis}] /\ lastHash \in Reqs \union {Genesis}
      /\ rows \in Seq(Reqs)
    BY DEF IInv, TypeOK
<1>2. CASE PostReject(r)
    BY <1>1, <1>2, AsideInvariant DEF PostReject, memory
<1>3. CASE PostCheck(r)
    BY <1>1, <1>3, AsideInvariant DEF PostCheck, memory
<1>4. CASE PostChain(r)
  <2>1. prev' \in [Reqs -> Reqs \union {Genesis}] /\ lastHash' \in Reqs \union {Genesis}
    BY <1>1, <1>4 DEF PostChain
  <2> QED
    BY <1>4, <2>1, AsideInvariant DEF PostChain
<1>5. CASE FrameChain(r)
  <2>1. TailHash(rows) \in Reqs \union {Genesis}
    <3>1. rows # <<>> => Len(rows) \in 1 .. Len(rows) /\ \A i \in 1 .. Len(rows) : rows[i] \in Reqs
      BY <1>1, ElementOfSeq, EmptySeq, LenProperties
    <3> QED  BY <3>1 DEF TailHash
  <2>2. prev' \in [Reqs -> Reqs \union {Genesis}]
    BY <1>1, <1>5, <2>1 DEF FrameChain
  <2> QED
    BY <1>1, <1>5, <2>2, AsideInvariant DEF FrameChain, memory
<1> QED
    BY <1>2, <1>3, <1>4, <1>5

-----------------------------------------------------------------------------
(***************************************************************************)
(* save_message.                                                           *)
(***************************************************************************)
LEMMA ClaimInvariant ==
    ASSUME IInv, NEW r \in Reqs, SaveClaim(r)
    PROVE  IInv'
<1>1. TypeOK /\ prev \in [Reqs -> Reqs \union {Genesis}] /\ lastHash \in Reqs \union {Genesis}
      /\ seen \subseteq Ids /\ step[r] = "claim"
    BY DEF IInv, TypeOK, SaveClaim
<1>2. CASE IdOf[r] \in seen
    BY <1>1, <1>2, AsideInvariant DEF SaveClaim, history
<1>3. CASE IdOf[r] \notin seen
  <2>1. /\ seen' = seen \union {IdOf[r]} /\ Goto(r, "feed")
        /\ straddled' = IF resetPc = "idle" THEN straddled ELSE straddled \union {r}
        /\ UNCHANGED <<prev, feed, lastHash, queue, writer, batch, at, rows, committed, resetPc,
                       replicated, unwritten, survived, gone, resets, crashes, failures>>
    BY <1>3 DEF SaveClaim, NoteStraddle, writing, sqlite, bounds
  <2>2. /\ step' \in [Reqs -> Steps] /\ step'[r] = "feed" /\ \A q \in Reqs : q # r => step'[q] = step[q]
    BY <1>1, <2>1, StepTo DEF Steps
  <2>3. UNCHANGED <<Pending, RowIds, CommittedIds, StoredIds, Unsaved>>
    BY <2>1 DEF Pending, RowIds, CommittedIds, StoredIds, Unsaved
  <2>4. /\ Range(queue) \subseteq Reqs /\ Range(batch) \subseteq Reqs /\ Range(feed) \subseteq Reqs
        /\ Range(rows) \subseteq Reqs /\ Range(committed) \subseteq Reqs /\ replicated \subseteq Reqs /\ straddled \subseteq Reqs
    BY <1>1, Places DEF TypeOK
  <2>5. r \notin Range(queue) \union Range(batch) \union replicated \union Range(rows) \union Range(committed) \union Range(feed)
    BY <1>1 DEF IInv, StepsFit
  <2>6. TypeOK'
    BY <1>1, <2>1, <2>2, BackendConstants DEF TypeOK
  <2>7. StepsFit'
    BY <2>1, <2>2, <2>4, <2>5 DEF IInv, StepsFit
  <2>8. WriterShape' /\ RowsDistinct' /\ WriterHonest'
    BY <2>1, <2>3 DEF IInv, WriterShape, RowsDistinct, Distinct, WriterHonest
  <2>9. ClaimsApart'
    <3>1. Clean' \subseteq Clean /\ Claimed' \subseteq Claimed \union {r}
      BY <2>1, <2>2 DEF Clean, Claimed, Reqs
    <3>2. r \in Claimed' => \A q \in Claimed : IdOf[q] # IdOf[r]
      BY <1>3, <2>1 DEF IInv, ClaimsApart, Claimed, Clean
    <3>3. \A q, p \in Claimed' : IdOf[q] = IdOf[p] => q = p
      BY <3>1, <3>2 DEF IInv, ClaimsApart
    <3> QED
      BY <2>1, <3>1, <3>3 DEF IInv, ClaimsApart
  <2>10. ResetMarks'
    <3>1. InFlight' \subseteq InFlight \union {r}
      BY <2>1, <2>2 DEF InFlight
    <3> QED
      BY <2>1, <3>1 DEF IInv, ResetMarks
  <2>11. Matched'
    BY <2>1, <2>2, <2>3, <2>4, <2>5 DEF IInv, Matched
  <2>12. Durable'
    <3>1. Accepted' = Accepted \union {r} /\ Accepted \subseteq Reqs
      BY <1>1, <2>2 DEF Accepted
    <3> QED
      BY <2>1, <2>2, <2>3, <3>1 DEF IInv, Durable, Pending
  <2> QED
    BY <2>6, <2>7, <2>8, <2>9, <2>10, <2>11, <2>12 DEF IInv
<1> QED
    BY <1>2, <1>3

LEMMA FeedInvariant ==
    ASSUME IInv, NEW r \in Reqs, SaveFeed(r)
    PROVE  IInv'
<1>1. /\ step[r] = "feed" /\ feed' = Append(feed, r) /\ Goto(r, "queue")
      /\ UNCHANGED <<prev, seen, lastHash, queue, writer, batch, at, rows, committed, resetPc,
                     replicated, straddled, unwritten, survived, gone, resets, crashes, failures>>
    BY DEF SaveFeed, writing, sqlite, history, bounds
<1>2. TypeOK /\ feed \in Seq(Reqs)
    BY DEF IInv, TypeOK
<1>3. /\ step' \in [Reqs -> Steps] /\ step'[r] = "queue" /\ \A q \in Reqs : q # r => step'[q] = step[q]
    BY <1>1, <1>2, StepTo DEF Steps
<1>4. UNCHANGED <<Pending, RowIds, CommittedIds, StoredIds, Unsaved, Clean>>
    BY <1>1 DEF Pending, RowIds, CommittedIds, StoredIds, Unsaved, Clean
<1>5. /\ Range(queue) \subseteq Reqs /\ Range(batch) \subseteq Reqs /\ Range(feed) \subseteq Reqs
      /\ Range(rows) \subseteq Reqs /\ Range(committed) \subseteq Reqs /\ replicated \subseteq Reqs
    BY <1>2, Places DEF TypeOK
<1>6. /\ feed' \in Seq(Reqs) /\ Range(feed') = Range(feed) \union {r}
      /\ Len(feed') = Len(feed) + 1 /\ Len(feed) \in Nat /\ DOMAIN feed = 1 .. Len(feed) /\ DOMAIN feed' = 1 .. Len(feed) + 1
      /\ \A i \in 1 .. Len(feed) : feed'[i] = feed[i] /\ feed[i] \in Range(feed)
      /\ feed'[Len(feed) + 1] = r
    BY <1>1, <1>2, RangeAppend, AppendProperties, LenProperties, ElementIn
<1>7. r \notin Range(queue) \union Range(batch) \union replicated \union Range(rows) \union Range(committed) \union Range(feed)
    BY <1>1 DEF IInv, StepsFit
<1>8. TypeOK'
    BY <1>1, <1>2, <1>3, <1>6 DEF TypeOK
<1>9. StepsFit'
    BY <1>1, <1>3, <1>5, <1>6, <1>7 DEF IInv, StepsFit
<1>10. WriterShape' /\ RowsDistinct' /\ WriterHonest'
    BY <1>1, <1>4 DEF IInv, WriterShape, RowsDistinct, Distinct, WriterHonest
<1>11. ClaimsApart'
  <2>1. Claimed' = Claimed
    BY <1>1, <1>3, <1>4, <1>6 DEF Claimed, Clean, Reqs
  <2>2. \A i, j \in DOMAIN feed' : feed'[i] = feed'[j] /\ feed'[i] \in Clean => i = j
    BY <1>6, <1>7 DEF IInv, ClaimsApart
  <2> QED
    BY <1>1, <1>4, <2>1, <2>2 DEF IInv, ClaimsApart
<1>12. ResetMarks'
  <2>1. InFlight' = InFlight /\ r \in InFlight
    BY <1>1, <1>3 DEF InFlight
  <2> QED
    BY <1>1, <1>6, <2>1 DEF IInv, ResetMarks
<1>13. Matched'
    BY <1>1, <1>3, <1>4, <1>5, <1>6, <1>7 DEF IInv, Matched
<1>14. Durable'
  <2>1. Accepted' = Accepted /\ Accepted \subseteq Reqs
    BY <1>1, <1>3 DEF Accepted
  <2> QED
    BY <1>1, <1>3, <1>4, <2>1 DEF IInv, Durable, Pending
<1> QED
    BY <1>8, <1>9, <1>10, <1>11, <1>12, <1>13, <1>14 DEF IInv

LEMMA QueueInvariant ==
    ASSUME IInv, NEW r \in Reqs, SaveQueue(r)
    PROVE  IInv'
<1>1. /\ step[r] = "queue"
      /\ UNCHANGED <<prev, seen, feed, lastHash, writer, batch, at, rows, committed, resetPc,
                     replicated, straddled, unwritten, survived, gone, resets, crashes, failures>>
    BY DEF SaveQueue, memory, writing, sqlite, history, bounds
<1>2. TypeOK /\ queue \in Seq(Reqs) /\ Len(queue) \in Nat /\ QueueCap \in Nat
    BY BackendConstants, LenProperties DEF IInv, TypeOK
<1>3. PICK l \in {"ok", "insert"} :
        /\ Goto(r, l)
        /\ \/ l = "ok" /\ Len(queue) < QueueCap /\ queue' = Append(queue, r)
           \/ l = "insert" /\ queue' = queue
    BY DEF SaveQueue
<1>4. /\ step' \in [Reqs -> Steps] /\ step'[r] = l /\ \A q \in Reqs : q # r => step'[q] = step[q]
    BY <1>2, <1>3, StepTo DEF Steps
<1>5. UNCHANGED <<Pending, RowIds, CommittedIds, StoredIds, Unsaved, Clean>>
    BY <1>1 DEF Pending, RowIds, CommittedIds, StoredIds, Unsaved, Clean
<1>6. /\ Range(queue) \subseteq Reqs /\ Range(batch) \subseteq Reqs /\ Range(feed) \subseteq Reqs
      /\ Range(rows) \subseteq Reqs /\ Range(committed) \subseteq Reqs /\ replicated \subseteq Reqs
    BY <1>2, Places DEF TypeOK
<1>7. /\ queue' \in Seq(Reqs) /\ Len(queue') <= QueueCap
      /\ Range(queue') = IF l = "ok" THEN Range(queue) \union {r} ELSE Range(queue)
  <2>1. CASE l = "ok"
    <3>1. queue' = Append(queue, r) /\ Len(queue) < QueueCap
      BY <1>3, <2>1
    <3>2. queue' \in Seq(Reqs) /\ Len(queue') = Len(queue) + 1
      BY <1>2, <3>1, AppendProperties
    <3>3. Range(queue') = Range(queue) \union {r}
      BY <1>2, <3>1, RangeAppend
    <3> QED
      BY <1>2, <2>1, <3>1, <3>2, <3>3
  <2>2. CASE l # "ok"
    BY <1>2, <1>3, <2>2 DEF TypeOK
  <2> QED
    BY <2>1, <2>2
<1>8. r \notin Range(queue) \union Range(batch) \union replicated \union Range(rows) \union Range(committed)
    BY <1>1 DEF IInv, StepsFit
<1>9. r \in straddled \/ r \in Range(feed)
    BY <1>1 DEF IInv, Matched
<1>10. TypeOK'
    BY <1>1, <1>2, <1>4, <1>7 DEF TypeOK
<1>11. StepsFit'
    BY <1>1, <1>4, <1>6, <1>7, <1>8 DEF IInv, StepsFit
<1>12. WriterShape' /\ RowsDistinct' /\ WriterHonest'
    BY <1>1, <1>5 DEF IInv, WriterShape, RowsDistinct, Distinct, WriterHonest
<1>13. ClaimsApart'
  <2>1. Claimed' = Claimed
    BY <1>1, <1>4, <1>5 DEF Claimed, Clean, Reqs
  <2> QED
    BY <1>1, <1>5, <2>1 DEF IInv, ClaimsApart
<1>14. ResetMarks'
  <2>1. InFlight' = InFlight
    BY <1>1, <1>4, <1>7 DEF InFlight
  <2> QED
    BY <1>1, <2>1 DEF IInv, ResetMarks
<1>15. Matched'
    BY <1>1, <1>4, <1>5, <1>6, <1>7, <1>8, <1>9 DEF IInv, Matched
<1>16. Durable'
  <2>1. Accepted' = Accepted /\ Accepted \subseteq Reqs
    BY <1>1, <1>4 DEF Accepted
  <2> QED
    BY <1>1, <1>4, <1>5, <1>7, <2>1 DEF IInv, Durable, Pending
<1> QED
    BY <1>10, <1>11, <1>12, <1>13, <1>14, <1>15, <1>16 DEF IInv

-----------------------------------------------------------------------------
(***************************************************************************)
(* Rows.                                                                   *)
(***************************************************************************)
\* A handler inserts its own row: after a full queue or for an ingested record.
LEMMA OwnRowFacts ==
    ASSUME IInv, NEW r \in Reqs,
           \/ InsertAndCommit(r) /\ UNCHANGED <<unwritten, gone, failures>>
           \/ /\ InsertRaises(r) /\ Raise /\ UNCHANGED committed
              /\ unwritten' = unwritten \union {r} /\ Lose({r})
    PROVE  /\ rows' \in Seq(Reqs) /\ committed' \in Seq(Reqs) /\ RowsDistinct'
           /\ Range(rows') \union Range(committed') \subseteq Range(rows) \union Range(committed) \union {r}
           /\ StoredIds \subseteq StoredIds'
           /\ \A q \in Accepted : IdOf[q] \in RowIds => IdOf[q] \in RowIds' \/ q \in gone'
           /\ gone \subseteq gone' /\ gone' \subseteq Reqs
           /\ unwritten \subseteq unwritten' /\ unwritten' \subseteq Reqs
           /\ IdOf[r] \in StoredIds' \/ (r \in gone' /\ r \in unwritten')
           /\ failures' \in 0 .. MaxFailures
<1>1. /\ rows \in Seq(Reqs) /\ committed \in Seq(Reqs) /\ Distinct(rows) /\ Distinct(committed)
      /\ gone \subseteq Reqs /\ unwritten \subseteq Reqs /\ failures \in 0 .. MaxFailures /\ MaxFailures \in Nat
    BY BackendConstants DEF IInv, TypeOK, RowsDistinct
<1>2. InsertOrIgnore(r) =>
         /\ rows' \in Seq(Reqs) /\ Distinct(rows')
         /\ RowIds' = RowIds \union {IdOf[r]}
         /\ Range(rows') \subseteq Range(rows) \union {r}
    BY <1>1, InsertFacts
<1>3. CASE InsertAndCommit(r) /\ UNCHANGED <<unwritten, gone, failures>>
  <2>1. InsertOrIgnore(r) /\ committed' = rows'
    BY <1>3 DEF InsertAndCommit
  <2>2. StoredIds' = RowIds' /\ StoredIds \subseteq RowIds
    BY <2>1, CommitFacts DEF StoredIds
  <2> QED
    BY <1>1, <1>2, <1>3, <2>1, <2>2 DEF RowsDistinct
<1>4. CASE /\ InsertRaises(r) /\ Raise /\ UNCHANGED committed
           /\ unwritten' = unwritten \union {r} /\ Lose({r})
  <2>1. /\ gone \subseteq gone' /\ r \in gone' /\ gone' \subseteq Reqs
        /\ \A q \in Accepted : IdOf[q] \in RowIds => IdOf[q] \in RowIds' \/ q \in gone'
    BY <1>1, <1>4, LoseFacts
  <2>2. failures' \in 0 .. MaxFailures
    BY <1>1, <1>4 DEF Raise
  <2>3. /\ rows' \in Seq(Reqs) /\ Distinct(rows')
        /\ RowIds \subseteq RowIds' \/ rows' = committed
        /\ Range(rows') \subseteq Range(rows) \union Range(committed) \union {r}
    <3>1. CASE InsertOrIgnore(r)
      BY <1>2, <3>1
    <3>2. CASE UNCHANGED rows
      BY <1>1, <3>2 DEF RowIds
    <3>3. CASE rows' = committed
      BY <1>1, <3>3
    <3> QED
      BY <1>4, <3>1, <3>2, <3>3 DEF InsertRaises
  <2>4. StoredIds \subseteq StoredIds'
    BY <1>4, <2>3, FailFacts
  <2> QED
    BY <1>1, <1>4, <2>1, <2>2, <2>3, <2>4 DEF RowsDistinct
<1> QED
    BY <1>3, <1>4

LEMMA OwnRowInvariant ==
    ASSUME IInv, NEW r \in Reqs, NEW l \in {"ok", "error", "seen", "stored", "raised"}, Goto(r, l), DbFree,
           \/ step[r] = "insert" /\ l \in {"ok", "error"} /\ straddled' = straddled
           \/ step[r] = "new" /\ r \in Ingests /\ l \in {"seen", "stored"} /\ NoteStraddle(r)
           \/ step[r] = "new" /\ r \in Ingests /\ l = "raised" /\ straddled' = straddled,
           UNCHANGED <<prev, seen, feed, lastHash, queue, writer, batch, at, resetPc, replicated, survived,
                       resets, crashes>>,
           \/ InsertAndCommit(r) /\ UNCHANGED <<unwritten, gone, failures>>
           \/ /\ l \in {"error", "raised"} /\ InsertRaises(r) /\ Raise /\ UNCHANGED committed
              /\ unwritten' = unwritten \union {r} /\ Lose({r})
    PROVE  IInv'
<1>1. TypeOK
    BY DEF IInv
<1>2. /\ step' \in [Reqs -> Steps] /\ step'[r] = l /\ \A q \in Reqs : q # r => step'[q] = step[q]
    BY <1>1, StepTo DEF Steps
<1>3. /\ rows' \in Seq(Reqs) /\ committed' \in Seq(Reqs) /\ RowsDistinct'
      /\ Range(rows') \union Range(committed') \subseteq Range(rows) \union Range(committed) \union {r}
      /\ StoredIds \subseteq StoredIds'
      /\ \A q \in Accepted : IdOf[q] \in RowIds => IdOf[q] \in RowIds' \/ q \in gone'
      /\ gone \subseteq gone' /\ gone' \subseteq Reqs
      /\ unwritten \subseteq unwritten' /\ unwritten' \subseteq Reqs
      /\ IdOf[r] \in StoredIds' \/ (r \in gone' /\ r \in unwritten')
      /\ failures' \in 0 .. MaxFailures
    BY OwnRowFacts
<1>4. UNCHANGED <<Pending, Unsaved>> /\ straddled \subseteq straddled'
    BY DEF Pending, Unsaved, NoteStraddle
<1>5. /\ Range(queue) \subseteq Reqs /\ Range(batch) \subseteq Reqs /\ Range(feed) \subseteq Reqs
      /\ Range(rows) \subseteq Reqs /\ Range(committed) \subseteq Reqs /\ replicated \subseteq Reqs
    BY <1>1, Places DEF TypeOK
<1>6. r \notin Range(queue) \union Range(batch) \union replicated
    BY DEF IInv, StepsFit
<1>7. l \in {"seen", "stored", "raised"} \/ r \in straddled \/ r \in Range(feed)
    BY DEF IInv, Matched
<1>8. l \in {"seen", "stored"} => IdOf[r] \in StoredIds'
    BY CommitFacts, InsertFacts DEF InsertAndCommit, IInv, TypeOK, RowsDistinct
<1>9. TypeOK'
  <2>1. straddled' \subseteq Reqs
    BY <1>1 DEF TypeOK, NoteStraddle
  <2> QED
    BY <1>1, <1>2, <1>3, <2>1 DEF TypeOK
<1>10. StepsFit'
    BY <1>2, <1>3, <1>5, <1>6 DEF IInv, StepsFit
<1>11. WriterShape' /\ WriterHonest'
    BY <1>3 DEF IInv, WriterShape, WriterHonest, DbFree
<1>12. ClaimsApart'
  <2>1. Claimed' \subseteq Claimed /\ Clean' \subseteq Clean
    BY <1>2, <1>4 DEF Claimed, Clean, Reqs
  <2> QED
    BY <2>1 DEF IInv, ClaimsApart
<1>13. ResetMarks'
  <2>1. InFlight' \subseteq InFlight \union {r} /\ (l = "raised" => InFlight' \subseteq InFlight)
    BY <1>2 DEF InFlight
  <2>2. step[r] = "insert" => r \in InFlight
    BY DEF InFlight
  <2> QED
    BY <1>4, <2>1, <2>2 DEF IInv, ResetMarks, NoteStraddle
<1>14. Matched'
    BY <1>2, <1>3, <1>4, <1>5, <1>6, <1>7, <1>8 DEF IInv, Matched
<1>15. Durable'
  <2>1. Accepted' \subseteq Accepted \union {r} /\ Accepted \subseteq Reqs
    BY <1>2 DEF Accepted
  <2>2. IdOf[r] \in RowIds' \/ r \in gone'
    BY <1>3 DEF StoredIds
  <2> QED
    BY <1>2, <1>3, <1>4, <2>1, <2>2 DEF IInv, Durable, Pending
<1> QED
    BY <1>3, <1>9, <1>10, <1>11, <1>12, <1>13, <1>14, <1>15 DEF IInv

LEMMA InsertInvariant ==
    ASSUME IInv, NEW r \in Reqs, SaveInsert(r) \/ SaveInsertFail(r) \/ IngestRow(r) \/ IngestRowFail(r)
    PROVE  IInv'
<1>1. CASE SaveInsert(r)
    BY <1>1, OwnRowInvariant DEF SaveInsert, InsertAndCommit, memory, writing, history, bounds
<1>2. CASE SaveInsertFail(r)
    BY <1>2, OwnRowInvariant DEF SaveInsertFail, memory, writing
<1>3. CASE IngestRow(r)
    BY <1>3, OwnRowInvariant DEF IngestRow, InsertAndCommit, memory, writing, bounds
<1>4. CASE IngestRowFail(r)
    BY <1>4, OwnRowInvariant DEF IngestRowFail, memory, writing
<1> QED
    BY <1>1, <1>2, <1>3, <1>4

LEMMA IngestInvariant ==
    ASSUME IInv, NEW r \in Reqs, IngestSeen(r) \/ IngestFeed(r)
    PROVE  IInv'
<1>1. PICK l \in {"extend", "ok"} : Goto(r, l) /\ (l = "extend" <=> step[r] = "seen") /\ step[r] \in {"seen", "extend"}
    BY DEF IngestSeen, IngestFeed
<1>2. UNCHANGED <<prev, lastHash, queue, writer, batch, at, rows, committed, resetPc,
                  replicated, straddled, unwritten, survived, gone, resets, crashes, failures>>
    BY DEF IngestSeen, IngestFeed, writing, sqlite, history, bounds
<1>3. TypeOK /\ feed \in Seq(Reqs) /\ IdOf[r] \in Ids
    BY BackendConstants DEF IInv, TypeOK
<1>4. /\ step' \in [Reqs -> Steps] /\ step'[r] = l /\ \A q \in Reqs : q # r => step'[q] = step[q]
    BY <1>1, <1>3, StepTo DEF Steps
<1>5. UNCHANGED <<Pending, RowIds, CommittedIds, StoredIds, Unsaved, Clean>>
    BY <1>2 DEF Pending, RowIds, CommittedIds, StoredIds, Unsaved, Clean
<1>6. /\ Range(queue) \subseteq Reqs /\ Range(batch) \subseteq Reqs /\ Range(feed) \subseteq Reqs
      /\ Range(rows) \subseteq Reqs /\ Range(committed) \subseteq Reqs /\ replicated \subseteq Reqs
    BY <1>3, Places DEF TypeOK
<1>7. /\ seen \subseteq seen' /\ seen' \subseteq Ids /\ feed' \in Seq(Reqs)
      /\ Range(feed') = IF l = "extend" THEN Range(feed) ELSE Range(feed) \union {r}
  <2>1. CASE IngestSeen(r)
    BY <1>1, <1>3, <2>1 DEF IngestSeen, TypeOK, IInv
  <2>2. CASE IngestFeed(r)
    BY <1>1, <1>3, <2>2, RangeAppend, AppendProperties DEF IngestFeed, TypeOK, IInv
  <2> QED
    BY <2>1, <2>2
<1>8. r \notin Range(queue) \union Range(batch) \union replicated \union Range(feed)
    BY <1>1 DEF IInv, StepsFit
<1>9. r \in Ingests /\ r \notin Clean /\ (IdOf[r] \in StoredIds \/ r \in straddled)
  <2>1. r \in Ingests /\ r \notin Rest \union Frames
    BY <1>1, BackendConstants DEF IInv, StepsFit
  <2> QED
    BY <1>1, <2>1 DEF IInv, Matched, Clean
<1>10. TypeOK'
    BY <1>2, <1>3, <1>4, <1>7 DEF TypeOK
<1>11. StepsFit'
    BY <1>1, <1>2, <1>4, <1>6, <1>7, <1>8, <1>9 DEF IInv, StepsFit
<1>12. WriterShape' /\ RowsDistinct' /\ WriterHonest'
    BY <1>2, <1>5 DEF IInv, WriterShape, RowsDistinct, Distinct, WriterHonest
<1>13. ClaimsApart'
  <2>1. Claimed' = Claimed
    BY <1>1, <1>4, <1>5, <1>7, <1>9 DEF Claimed, Clean, Reqs
  <2>2. \A i, j \in DOMAIN feed' : feed'[i] = feed'[j] /\ feed'[i] \in Clean => i = j
    <3>1. CASE IngestSeen(r)
      BY <3>1 DEF IngestSeen, IInv, ClaimsApart
    <3>2. CASE IngestFeed(r)
      <4>1. /\ Len(feed) \in Nat /\ DOMAIN feed = 1 .. Len(feed) /\ DOMAIN feed' = 1 .. Len(feed) + 1
            /\ \A i \in 1 .. Len(feed) : feed'[i] = feed[i]
            /\ feed'[Len(feed) + 1] = r
        BY <1>3, <3>2, AppendProperties, LenProperties DEF IngestFeed
      <4> QED
        BY <1>9, <4>1 DEF IInv, ClaimsApart
    <3> QED
      BY <3>1, <3>2
  <2> QED
    BY <1>2, <1>5, <1>7, <2>1, <2>2 DEF IInv, ClaimsApart
<1>14. ResetMarks'
  <2>1. InFlight' \subseteq InFlight /\ r \in InFlight
    BY <1>1, <1>2, <1>4 DEF InFlight
  <2> QED
    BY <1>2, <1>7, <2>1 DEF IInv, ResetMarks
<1>15. Matched'
    BY <1>1, <1>2, <1>4, <1>5, <1>6, <1>7, <1>8, <1>9 DEF IInv, Matched
<1>16. Durable'
  <2>1. Accepted' = Accepted /\ Accepted \subseteq Reqs
    BY <1>1, <1>4 DEF Accepted
  <2> QED
    BY <1>1, <1>2, <1>4, <1>5, <2>1 DEF IInv, Durable, Pending
<1> QED
    BY <1>10, <1>11, <1>12, <1>13, <1>14, <1>15, <1>16 DEF IInv

-----------------------------------------------------------------------------
(***************************************************************************)
(* The background writer.                                                  *)
(***************************************************************************)
\* With no row inserted yet, the whole batch is pending.
LEMMA FreshBatch ==
    ASSUME NEW b \in Seq(Reqs)
    PROVE  {b[i] : i \in 1 .. Len(b)} = Range(b)
    BY ElementIn DEF Range

\* Filling a batch moves messages from the queue to it.
LEMMA CollectFacts ==
    ASSUME IInv, WriterGet \/ WriterGetMore \/ WriterGotAll \/ WriterLock
    PROVE  /\ queue' \in Seq(Reqs) /\ Len(queue') <= QueueCap
           /\ batch' \in Seq(Reqs) /\ Len(batch') <= BatchMax
           /\ at' = 1 /\ at' \in 1 .. Len(batch') + 1
           /\ writer' \in {"collect", "lock", "insert"}
           /\ Range(queue') \union Range(batch') = Range(queue) \union Range(batch)
           /\ Range(queue') \union Pending' = Range(queue) \union Pending
           /\ UNCHANGED <<step, prev, seen, feed, lastHash, rows, committed, resetPc,
                          replicated, straddled, unwritten, survived, gone, resets, crashes, failures>>
<1>1. /\ queue \in Seq(Reqs) /\ Len(queue) \in Nat /\ Len(queue) <= QueueCap /\ QueueCap \in Nat
      /\ batch \in Seq(Reqs) /\ Len(batch) \in Nat /\ Len(batch) <= BatchMax /\ BatchMax \in Nat \ {0}
      /\ writer = "idle" => batch = <<>>
      /\ writer \in {"collect", "lock"} => at = 1
    BY LenProperties, BackendConstants DEF IInv, TypeOK, WriterShape
<1>2. queue # <<>> => /\ Head(queue) \in Reqs /\ Tail(queue) \in Seq(Reqs) /\ Len(Tail(queue)) = Len(queue) - 1
                      /\ Range(queue) = {Head(queue)} \union Range(Tail(queue))
    BY <1>1, HeadTailRange
<1>3. UNCHANGED <<step, prev, seen, feed, lastHash, rows, committed, resetPc,
                  replicated, straddled, unwritten, survived, gone, resets, crashes, failures>>
    BY DEF WriterGet, WriterGetMore, WriterGotAll, WriterLock, memory, sqlite, history, bounds
<1>4. CASE WriterGet
  <2>1. /\ batch' = <<Head(queue)>> /\ at' = 1 /\ queue' = Tail(queue) /\ writer' = "collect"
        /\ queue # <<>> /\ writer = "idle"
    BY <1>4 DEF WriterGet
  <2>2. batch' \in Seq(Reqs) /\ Len(batch') = 1 /\ Range(batch') = {Head(queue)}
    BY <1>2, <2>1 DEF Range
  <2>3. Pending' = Range(batch')
    BY <2>1, <2>2, FreshBatch DEF Pending
  <2>4. Range(batch) = {} /\ Pending = {}
    BY <1>1, <2>1, NoElements, Places DEF IInv
  <2> QED
    BY <1>1, <1>2, <1>3, <2>1, <2>2, <2>3, <2>4
<1>5. CASE WriterGetMore
  <2>1. /\ batch' = Append(batch, Head(queue)) /\ at' = 1 /\ at = 1 /\ queue' = Tail(queue) /\ writer' = "collect"
        /\ queue # <<>> /\ Len(batch) < BatchMax
    BY <1>1, <1>5 DEF WriterGetMore
  <2>2. batch' \in Seq(Reqs) /\ Len(batch') = Len(batch) + 1 /\ Range(batch') = Range(batch) \union {Head(queue)}
    BY <1>1, <1>2, <2>1, AppendProperties, RangeAppend
  <2>3. Pending' = Range(batch') /\ Pending = Range(batch)
    BY <1>1, <2>1, <2>2, FreshBatch DEF Pending
  <2> QED
    BY <1>1, <1>2, <1>3, <2>1, <2>2, <2>3
<1>6. CASE WriterGotAll \/ WriterLock
  <2>1. at' = 1 /\ UNCHANGED <<queue, batch, at>> /\ writer' \in {"lock", "insert"}
    BY <1>1, <1>6 DEF WriterGotAll, WriterLock
  <2> QED
    BY <1>1, <1>3, <2>1 DEF Pending
<1> QED
    BY <1>4, <1>5, <1>6

LEMMA CollectInvariant ==
    ASSUME IInv, WriterGet \/ WriterGetMore \/ WriterGotAll \/ WriterLock
    PROVE  IInv'
<1>1. /\ queue' \in Seq(Reqs) /\ Len(queue') <= QueueCap
      /\ batch' \in Seq(Reqs) /\ Len(batch') <= BatchMax
      /\ at' = 1 /\ at' \in 1 .. Len(batch') + 1
      /\ writer' \in {"collect", "lock", "insert"}
    BY CollectFacts
<1>2. /\ Range(queue') \union Range(batch') = Range(queue) \union Range(batch)
      /\ Range(queue') \union Pending' = Range(queue) \union Pending
    BY CollectFacts
<1>3. UNCHANGED <<step, prev, seen, feed, lastHash, rows, committed, resetPc,
                  replicated, straddled, unwritten, survived, gone, resets, crashes, failures>>
    BY CollectFacts
<1>4. UNCHANGED <<RowIds, CommittedIds, StoredIds, Clean, Claimed, Accepted>>
    BY <1>3 DEF RowIds, CommittedIds, StoredIds, Clean, Claimed, Accepted
<1>5. InFlight' = InFlight /\ Unsaved = Range(batch) /\ Unsaved' = Range(batch')
  <2>1. writer # "replicate"
    BY DEF WriterGet, WriterGetMore, WriterGotAll, WriterLock
  <2> QED
    BY <1>1, <1>2, <1>3, <2>1 DEF InFlight, Unsaved
<1>6. TypeOK'
    BY <1>1, <1>3 DEF IInv, TypeOK
<1>7. StepsFit'
    BY <1>2, <1>3 DEF IInv, StepsFit
<1>8. WriterShape' /\ RowsDistinct' /\ ClaimsApart' /\ ResetMarks'
    BY <1>1, <1>3, <1>4, <1>5 DEF IInv, WriterShape, RowsDistinct, ClaimsApart, ResetMarks
<1>9. Matched'
    BY <1>2, <1>3, <1>4, <1>5 DEF IInv, Matched
<1>10. Durable'
    BY <1>2, <1>3, <1>4 DEF IInv, Durable, Pending
<1>11. WriterHonest'
    BY <1>1, <1>3, <1>4 DEF IInv, WriterHonest
<1> QED
    BY <1>6, <1>7, <1>8, <1>9, <1>10, <1>11 DEF IInv

LEMMA WriterInsertInvariant ==
    ASSUME IInv, WriterInsert
    PROVE  IInv'
<1> DEFINE r == batch[at]
<1>1. /\ TypeOK /\ RowsDistinct /\ rows \in Seq(Reqs) /\ batch \in Seq(Reqs)
      /\ Len(batch) \in Nat /\ at \in 1 .. Len(batch) /\ at' = at + 1 /\ writer = "insert"
      /\ r \in Reqs /\ r \in Range(batch) /\ r \in Pending
      /\ Distinct(rows) /\ InsertOrIgnore(r) /\ committed' = committed /\ committed \in Seq(Reqs)
    BY LenProperties, ElementIn DEF IInv, TypeOK, RowsDistinct, WriterInsert, Pending
<1>2. UNCHANGED <<step, prev, seen, feed, lastHash, queue, writer, batch, resetPc,
                  replicated, straddled, unwritten, survived, gone, resets, crashes, failures>>
    BY DEF WriterInsert, memory, history, bounds
<1> HIDE DEF r
<1>3. /\ rows' \in Seq(Reqs) /\ RowIds' = RowIds \union {IdOf[r]}
      /\ Range(rows') \subseteq Range(rows) \union {r}
      /\ RowsDistinct'
      /\ StoredIds \subseteq StoredIds'
  <2>1. /\ rows' \in Seq(Reqs) /\ RowIds' = RowIds \union {IdOf[r]}
        /\ Range(rows') \subseteq Range(rows) \union {r} /\ Distinct(rows')
    BY <1>1, InsertFacts
  <2>2. StoredIds \subseteq StoredIds'
    BY <1>1, <2>1, FailFacts
  <2> QED
    BY <1>1, <2>1, <2>2 DEF RowsDistinct
<1>4. Pending' \subseteq Pending /\ Pending \subseteq Pending' \union {r}
    BY <1>1, <1>2 DEF Pending, r
<1>5. UNCHANGED <<Clean, Claimed, Accepted, InFlight, Unsaved>>
    BY <1>2 DEF Clean, Claimed, Accepted, InFlight, Unsaved
<1>6. TypeOK'
    BY <1>1, <1>2, <1>3 DEF TypeOK
<1>7. step[r] = "ok" /\ StepsFit'
    BY <1>1, <1>2, <1>3 DEF IInv, StepsFit
<1>8. WriterShape' /\ ClaimsApart' /\ ResetMarks'
    BY <1>1, <1>2, <1>5 DEF IInv, WriterShape, ClaimsApart, ResetMarks
<1>9. r \in straddled \/ r \in Range(feed)
    BY <1>1 DEF IInv, Matched
<1>10. Matched'
    BY <1>1, <1>2, <1>3, <1>5, <1>9 DEF IInv, Matched
<1>11. Durable'
    BY <1>2, <1>3, <1>4, <1>5 DEF IInv, Durable, Pending
<1>12. WriterHonest'
  <2>1. \A i \in 1 .. at' - 1 : i \in 1 .. at - 1 \/ batch[i] = r
    BY <1>1 DEF r
  <2> QED
    BY <1>1, <1>2, <1>3, <2>1 DEF IInv, WriterHonest
<1> QED
    BY <1>3, <1>6, <1>7, <1>8, <1>10, <1>11, <1>12 DEF IInv

LEMMA WriterFailInvariant ==
    ASSUME IInv, WriterFail
    PROVE  IInv'
<1>1. /\ unwritten' = unwritten \union Range(batch) /\ Lose(Pending) /\ rows' \in {rows, committed}
      /\ batch' = <<>> /\ at' = 1 /\ writer' = "idle" /\ writer = "insert"
      /\ failures < MaxFailures /\ failures' = failures + 1
      /\ UNCHANGED <<step, prev, seen, feed, lastHash, queue, committed, resetPc,
                     replicated, straddled, survived, resets, crashes>>
    BY DEF WriterFail, Raise, memory, Pending
<1>2. /\ TypeOK /\ Range(batch) \subseteq Reqs /\ Pending \subseteq Reqs
      /\ Range(<<>>) = {} /\ <<>> \in Seq(Reqs) /\ Len(<<>>) = 0 /\ BatchMax \in Nat \ {0}
    BY Places, NoElements, BackendConstants DEF IInv
<1>3. Pending' = {} /\ UNCHANGED <<Clean, Claimed, Accepted>> /\ InFlight' \subseteq InFlight
  <2>1. Pending' = {}
    BY <1>1, <1>2 DEF Pending
  <2> QED
    BY <1>1, <1>2, <2>1 DEF Clean, Claimed, Accepted, InFlight
<1>4. /\ gone \subseteq gone' /\ Pending \subseteq gone' /\ gone' \subseteq Reqs
      /\ \A q \in Accepted : IdOf[q] \in RowIds => IdOf[q] \in RowIds' \/ q \in gone'
    BY <1>1, <1>2, LoseFacts DEF TypeOK
<1>5. /\ rows' \in Seq(Reqs) /\ RowsDistinct' /\ StoredIds \subseteq StoredIds'
      /\ Range(rows') \union Range(committed') \subseteq Range(rows) \union Range(committed)
  <2>1. rows \in Seq(Reqs) /\ committed \in Seq(Reqs)
    BY <1>2 DEF TypeOK
  <2>2. RowIds \subseteq RowIds' \/ rows' = committed
    BY <1>1 DEF RowIds
  <2>3. StoredIds \subseteq StoredIds'
    BY <1>1, <2>2, FailFacts
  <2> QED
    BY <1>1, <2>1, <2>3 DEF IInv, RowsDistinct
<1>6. TypeOK'
  <2>1. failures' \in 0 .. MaxFailures
    BY <1>1, <1>2, BackendConstants DEF TypeOK
  <2>2. unwritten' \subseteq Reqs
    BY <1>1, <1>2 DEF TypeOK
  <2> QED
    BY <1>1, <1>2, <1>4, <1>5, <2>1, <2>2 DEF TypeOK
<1>7. StepsFit' /\ WriterShape' /\ ClaimsApart' /\ ResetMarks'
    BY <1>1, <1>2, <1>3, <1>5 DEF IInv, StepsFit, WriterShape, ClaimsApart, ResetMarks
<1>8. Matched'
  <2>1. Unsaved = Range(batch) /\ Unsaved' = {}
    BY <1>1, <1>2 DEF Unsaved
  <2>2. Range(feed) \subseteq Reqs
    BY <1>2, Places
  <2> QED
    BY <1>1, <1>2, <1>5, <2>1, <2>2 DEF IInv, Matched
<1>9. Durable'
    BY <1>1, <1>2, <1>3, <1>4 DEF IInv, Durable, Pending
<1>10. WriterHonest'
    BY <1>1, <1>4, <1>5 DEF IInv, WriterHonest
<1> QED
    BY <1>5, <1>6, <1>7, <1>8, <1>9, <1>10 DEF IInv

LEMMA WriterCommitInvariant ==
    ASSUME IInv, WriterCommit
    PROVE  IInv'
<1>1. /\ writer = "insert" /\ at > Len(batch) /\ committed' = rows
      /\ \/ writer' = "idle" /\ batch' = <<>> /\ at' = 1
         \/ writer' = "replicate" /\ UNCHANGED <<batch, at>>
      /\ UNCHANGED <<step, prev, seen, feed, lastHash, queue, rows, resetPc,
                     replicated, straddled, unwritten, survived, gone, resets, crashes, failures>>
    BY DEF WriterCommit, memory, history, bounds
<1>2. /\ TypeOK /\ Len(batch) \in Nat /\ at \in 1 .. Len(batch) + 1 /\ at = Len(batch) + 1
      /\ rows \in Seq(Reqs)
      /\ Range(<<>>) = {} /\ <<>> \in Seq(Reqs) /\ Len(<<>>) = 0 /\ BatchMax \in Nat \ {0}
    BY <1>1, NoElements, BackendConstants, LenProperties DEF IInv, TypeOK
<1>3. Pending = {} /\ Pending' = {} /\ Range(batch') \subseteq Range(batch)
    BY <1>1, <1>2 DEF Pending
<1>4. UNCHANGED <<RowIds, Clean, Claimed, Accepted>> /\ InFlight' \subseteq InFlight
    BY <1>1, <1>3 DEF RowIds, Clean, Claimed, Accepted, InFlight
<1>5. StoredIds' = RowIds /\ StoredIds \subseteq RowIds /\ Unsaved' = {} /\ Unsaved = Range(batch)
  <2>1. StoredIds' = RowIds'
    BY <1>1, CommitFacts
  <2> QED
    BY <1>1, <1>2, <1>4, <2>1 DEF StoredIds, Unsaved
<1>6. TypeOK'
  <2>1. /\ batch \in Seq(Reqs) /\ Len(batch) <= BatchMax
        /\ writer' \in {"idle", "replicate"} /\ committed' \in Seq(Reqs)
    BY <1>1, <1>2 DEF TypeOK
  <2>2. batch' \in Seq(Reqs) /\ Len(batch') <= BatchMax /\ at' \in 1 .. Len(batch') + 1
    <3>1. CASE batch' = <<>> /\ at' = 1
      BY <1>2, <3>1
    <3>2. CASE UNCHANGED <<batch, at>>
      BY <1>2, <2>1, <3>2
    <3> QED
      BY <1>1, <3>1, <3>2
  <2> QED
    BY <1>1, <1>2, <2>1, <2>2 DEF TypeOK
<1>7. StepsFit' /\ WriterShape' /\ RowsDistinct' /\ ClaimsApart' /\ ResetMarks'
    BY <1>1, <1>2, <1>3, <1>4 DEF IInv, StepsFit, WriterShape, RowsDistinct, ClaimsApart, ResetMarks
<1>8. \A r \in Range(batch) : IdOf[r] \in RowIds
  <2>1. batch \in Seq(Reqs) /\ at - 1 = Len(batch)
    BY <1>2 DEF TypeOK
  <2>2. \A i \in 1 .. Len(batch) : IdOf[batch[i]] \in RowIds
    BY <1>1, <2>1 DEF IInv, WriterHonest
  <2> QED
    BY <2>1, <2>2, FreshBatch
<1>9. Matched'
    BY <1>1, <1>3, <1>4, <1>5, <1>8 DEF IInv, Matched
<1>10. Durable'
    BY <1>1, <1>3, <1>4 DEF IInv, Durable, Pending
<1>11. WriterHonest'
    BY <1>1, <1>3, <1>4, <1>5, <1>8 DEF IInv, WriterHonest
<1> QED
    BY <1>6, <1>7, <1>8, <1>9, <1>10, <1>11 DEF IInv

LEMMA WriterReplicateInvariant ==
    ASSUME IInv, WriterReplicate
    PROVE  IInv'
<1>1. /\ writer = "replicate" /\ replicated' \in {replicated, replicated \union Range(batch)}
      /\ batch' = <<>> /\ at' = 1 /\ writer' = "idle"
      /\ UNCHANGED <<step, prev, seen, feed, lastHash, queue, rows, committed, resetPc,
                     straddled, unwritten, survived, gone, resets, crashes, failures>>
    BY DEF WriterReplicate, memory, sqlite, bounds
<1>2. /\ TypeOK /\ Range(batch) \subseteq Reqs /\ replicated \subseteq Reqs
      /\ Range(<<>>) = {} /\ <<>> \in Seq(Reqs) /\ Len(<<>>) = 0 /\ BatchMax \in Nat \ {0}
    BY Places, NoElements, BackendConstants DEF IInv, TypeOK
<1>3. Pending = {} /\ Pending' = {}
    BY <1>1, <1>2, Places DEF IInv, WriterShape, Pending
<1>4. UNCHANGED <<RowIds, CommittedIds, StoredIds, Unsaved, Clean, Claimed, Accepted>> /\ InFlight' \subseteq InFlight
    BY <1>1, <1>2 DEF RowIds, CommittedIds, StoredIds, Unsaved, Clean, Claimed, Accepted, InFlight
<1>5. TypeOK'
    BY <1>1, <1>2 DEF TypeOK
<1>6. StepsFit' /\ WriterShape' /\ RowsDistinct' /\ ClaimsApart' /\ ResetMarks'
    BY <1>1, <1>2, <1>4 DEF IInv, StepsFit, WriterShape, RowsDistinct, ClaimsApart, ResetMarks
<1>7. Matched'
    BY <1>1, <1>2, <1>3, <1>4 DEF IInv, Matched
<1>8. Durable'
    BY <1>1, <1>3, <1>4 DEF IInv, Durable, Pending
<1>9. WriterHonest'
    BY <1>1, <1>4 DEF IInv, WriterHonest
<1> QED
    BY <1>5, <1>6, <1>7, <1>8, <1>9 DEF IInv

-----------------------------------------------------------------------------
(***************************************************************************)
(* Reset.                                                                  *)
(***************************************************************************)
LEMMA ResetStartInvariant ==
    ASSUME IInv, ResetStart
    PROVE  IInv'
<1>1. /\ resets < MaxResets /\ resets' = resets + 1 /\ resetPc' = "drain" /\ resetPc = "idle"
      /\ straddled' = straddled \union InFlight
      /\ UNCHANGED <<step, prev, seen, feed, lastHash, queue, writer, batch, at, rows, committed,
                     replicated, unwritten, survived, gone, crashes, failures>>
    BY DEF ResetStart, memory, writing, sqlite
<1>2. TypeOK /\ InFlight \subseteq Reqs
    BY Places DEF IInv, InFlight
<1>3. UNCHANGED <<Pending, RowIds, CommittedIds, StoredIds, Unsaved, Accepted, InFlight>>
    BY <1>1 DEF Pending, RowIds, CommittedIds, StoredIds, Unsaved, Accepted, InFlight
<1>4. Clean' \subseteq Clean /\ Claimed' \subseteq Claimed
    BY <1>1 DEF Clean, Claimed
<1>5. TypeOK'
  <2>1. resets' \in 0 .. MaxResets
    BY <1>1, <1>2, BackendConstants DEF TypeOK
  <2>2. straddled' \subseteq Reqs
    BY <1>1, <1>2 DEF TypeOK
  <2> QED
    BY <1>1, <1>2, <2>1, <2>2 DEF TypeOK
<1>6. StepsFit' /\ WriterShape' /\ RowsDistinct' /\ ResetMarks' /\ WriterHonest'
    BY <1>1, <1>3 DEF IInv, StepsFit, WriterShape, RowsDistinct, ResetMarks, WriterHonest
<1>7. ClaimsApart'
    BY <1>1, <1>4 DEF IInv, ClaimsApart
<1>8. Matched' /\ Durable'
    BY <1>1, <1>3 DEF IInv, Matched, Durable, Pending
<1> QED
    BY <1>5, <1>6, <1>7, <1>8 DEF IInv

LEMMA ResetDrainInvariant ==
    ASSUME IInv, ResetDrain \/ ResetDrained
    PROVE  IInv'
<1> DEFINE h == Head(queue)
<1>1. /\ resetPc = "drain" /\ resetPc' \in {"drain", "seen"}
      /\ UNCHANGED <<step, prev, seen, feed, lastHash, writer, batch, at, rows, committed,
                     replicated, straddled, unwritten, survived, resets, crashes, failures>>
    BY DEF ResetDrain, ResetDrained, memory, writing, sqlite, history, bounds
<1>2. TypeOK /\ queue \in Seq(Reqs) /\ Len(queue) \in Nat /\ Len(queue) <= QueueCap /\ QueueCap \in Nat
      /\ gone \subseteq Reqs
    BY LenProperties, BackendConstants DEF IInv, TypeOK
<1>3. /\ queue' \in Seq(Reqs) /\ Len(queue') <= QueueCap
      /\ gone \subseteq gone' /\ gone' \subseteq Reqs
      /\ Range(queue') \subseteq Range(queue) /\ Range(queue) \subseteq Range(queue') \union (gone' \intersect Range(queue))
  <2>1. CASE ResetDrain
    <3>1. queue # <<>> /\ queue' = Tail(queue) /\ gone' = gone \union {h}
      BY <2>1 DEF ResetDrain
    <3>2. /\ h \in Reqs /\ Tail(queue) \in Seq(Reqs) /\ Len(Tail(queue)) = Len(queue) - 1
          /\ Range(queue) = {h} \union Range(Tail(queue))
      BY <1>2, <3>1, HeadTailRange
    <3> HIDE DEF h
    <3> QED
      BY <1>2, <3>1, <3>2
  <2>2. CASE ResetDrained
    BY <1>2, <2>2 DEF ResetDrained, history
  <2> QED
    BY <2>1, <2>2
<1>4. UNCHANGED <<Pending, RowIds, CommittedIds, StoredIds, Unsaved, Accepted, Clean, Claimed>> /\ InFlight' \subseteq InFlight
    BY <1>1, <1>3 DEF Pending, RowIds, CommittedIds, StoredIds, Unsaved, Accepted, Clean, Claimed, InFlight
<1>5. InFlight \subseteq straddled /\ Range(queue) \subseteq straddled
    BY <1>1 DEF IInv, ResetMarks, InFlight
<1>6. TypeOK'
    BY <1>1, <1>2, <1>3 DEF TypeOK
<1>7. StepsFit' /\ WriterShape' /\ RowsDistinct' /\ ResetMarks' /\ WriterHonest'
    BY <1>1, <1>3, <1>4, <1>5 DEF IInv, StepsFit, WriterShape, RowsDistinct, ResetMarks, WriterHonest
<1>8. ClaimsApart'
    BY <1>1, <1>4 DEF IInv, ClaimsApart
<1>9. Matched'
    BY <1>1, <1>3, <1>4, <1>5 DEF IInv, Matched
<1>10. Durable'
    BY <1>1, <1>3, <1>4 DEF IInv, Durable, Pending
<1> QED
    BY <1>6, <1>7, <1>8, <1>9, <1>10 DEF IInv

LEMMA ResetMemoryInvariant ==
    ASSUME IInv, ResetSeen \/ ResetFeed \/ ResetHash
    PROVE  IInv'
<1>1. /\ UNCHANGED <<step, prev, queue, writer, batch, at, rows, committed,
                     replicated, straddled, unwritten, survived, gone, resets, crashes, failures>>
      /\ \/ resetPc = "seen" /\ seen' = {} /\ resetPc' = "feed" /\ UNCHANGED <<feed, lastHash>>
         \/ resetPc = "feed" /\ feed' = <<>> /\ resetPc' = "table" /\ UNCHANGED <<seen, lastHash>>
         \/ resetPc = "hash" /\ lastHash' = Genesis /\ resetPc' = "idle" /\ UNCHANGED <<seen, feed>>
    BY DEF ResetSeen, ResetFeed, ResetHash, writing, sqlite, history, bounds
<1>2. TypeOK /\ <<>> \in Seq(Reqs) /\ Range(<<>>) = {} /\ DOMAIN <<>> = {}
    BY NoElements DEF IInv
<1>3. UNCHANGED <<Pending, RowIds, CommittedIds, StoredIds, Unsaved, Accepted, Clean, InFlight>>
    BY <1>1 DEF Pending, RowIds, CommittedIds, StoredIds, Unsaved, Accepted, Clean, InFlight
<1>4. /\ resetPc # "idle" /\ InFlight \subseteq straddled
      /\ Range(feed') \subseteq Range(feed) /\ (resetPc' = "table" => Range(feed') = {})
      /\ Claimed' \subseteq Claimed /\ (resetPc' = "table" => Claimed' = {})
  <2>1. resetPc # "idle" /\ InFlight \subseteq straddled
    BY <1>1 DEF IInv, ResetMarks
  <2>2. Range(feed') \subseteq Range(feed) /\ (resetPc' = "table" => Range(feed') = {})
    BY <1>1, <1>2
  <2>3. \A r \in Reqs \ straddled : step[r] # "feed"
    BY <2>1 DEF InFlight
  <2> QED
    BY <1>1, <2>1, <2>2, <2>3 DEF Claimed, Clean, Reqs
<1>5. TypeOK'
    BY <1>1, <1>2 DEF TypeOK
<1>6. StepsFit' /\ WriterShape' /\ RowsDistinct' /\ WriterHonest'
    BY <1>1, <1>3, <1>4 DEF IInv, StepsFit, WriterShape, RowsDistinct, WriterHonest
<1>7. ResetMarks'
    BY <1>1, <1>3, <1>4 DEF IInv, ResetMarks
<1>8. ClaimsApart'
    BY <1>1, <1>2, <1>3, <1>4 DEF IInv, ClaimsApart
<1>9. Matched'
  <2>1. \A r \in Reqs \ straddled :
            step[r] \notin {"queue", "insert"} /\ r \notin Range(queue) \union Range(batch)
    BY <1>4 DEF InFlight
  <2> QED
    BY <1>1, <1>3, <1>4, <2>1 DEF IInv, Matched
<1>10. Durable'
    BY <1>1, <1>3 DEF IInv, Durable, Pending
<1> QED
    BY <1>5, <1>6, <1>7, <1>8, <1>9, <1>10 DEF IInv

\* The DELETE, whether it and its commit succeed or not.
LEMMA ResetTableInvariant ==
    ASSUME IInv, ResetTable \/ ResetTableFail
    PROVE  IInv'
<1>1. /\ resetPc = "table" /\ resetPc' \in {"hash", "idle"} /\ writer # "insert"
      /\ Lose({})
      /\ UNCHANGED <<step, prev, seen, feed, lastHash, queue, writer, batch, at,
                     replicated, straddled, unwritten, resets, crashes>>
    BY DEF ResetTable, ResetTableFail, DbFree, memory, writing, bounds
<1>2. \/ rows' = <<>> /\ committed' = <<>> /\ UNCHANGED <<survived, failures>>
      \/ /\ rows' \in {rows, <<>>, committed} /\ UNCHANGED committed /\ Raise
         /\ survived' = survived \union Range(rows) \union Range(committed)
    BY DEF ResetTable, ResetTableFail, bounds
<1>3. /\ TypeOK /\ <<>> \in Seq(Reqs) /\ Range(<<>>) = {} /\ DOMAIN <<>> = {}
      /\ Accepted \subseteq Reqs /\ rows \in Seq(Reqs) /\ committed \in Seq(Reqs)
      /\ Range(rows) \subseteq Reqs /\ Range(committed) \subseteq Reqs
      /\ Range(batch) \subseteq Reqs /\ replicated \subseteq Reqs /\ Range(feed) \subseteq Reqs
    BY NoElements, Places DEF IInv, TypeOK, Accepted
<1>4. UNCHANGED <<Pending, Accepted, Clean, Claimed, InFlight>>
    BY <1>1 DEF Pending, Accepted, Clean, Claimed, InFlight
<1>5. /\ gone \subseteq gone' /\ gone' \subseteq Reqs
      /\ \A q \in Accepted : IdOf[q] \in RowIds => IdOf[q] \in RowIds' \/ q \in gone'
    BY <1>1, <1>3, LoseFacts DEF TypeOK
<1>6. InFlight \subseteq straddled /\ Range(feed) \subseteq straddled
    BY <1>1 DEF IInv, ResetMarks
<1>7. /\ rows' \in Seq(Reqs) /\ committed' \in Seq(Reqs) /\ RowsDistinct'
      /\ Range(rows') \union Range(committed') \subseteq (Range(rows) \union Range(committed)) \intersect survived'
      /\ survived' \subseteq Reqs /\ failures' \in 0 .. MaxFailures
  <2>1. failures \in 0 .. MaxFailures /\ MaxFailures \in Nat /\ survived \subseteq Reqs
    BY <1>3, BackendConstants DEF TypeOK
  <2>2. failures' \in 0 .. MaxFailures
    BY <1>2, <2>1 DEF Raise
  <2>3. Distinct(<<>>) /\ Distinct(rows) /\ Distinct(committed)
    BY <1>3 DEF IInv, RowsDistinct, Distinct
  <2> QED
    BY <1>2, <1>3, <2>1, <2>2, <2>3 DEF RowsDistinct
<1>8. \A q \in Accepted : IdOf[q] \in StoredIds => IdOf[q] \in StoredIds' \/ q \in gone'
  <2>1. CASE rows' = <<>>
    <3>1. RowIds' = {}
      BY <1>3, <2>1 DEF RowIds
    <3> QED
      BY <1>5, <3>1 DEF StoredIds
  <2>2. CASE rows' # <<>>
    <3>1. CommittedIds' = CommittedIds
      BY <1>2, <2>2 DEF CommittedIds
    <3> QED
      BY <1>5, <3>1 DEF StoredIds
  <2> QED
    BY <2>1, <2>2
<1>9. TypeOK'
    BY <1>1, <1>3, <1>5, <1>7 DEF TypeOK
<1>10. StepsFit' /\ WriterShape' /\ ResetMarks'
    BY <1>1, <1>3, <1>4, <1>6, <1>7 DEF IInv, StepsFit, WriterShape, ResetMarks
<1>11. ClaimsApart'
    BY <1>1, <1>4 DEF IInv, ClaimsApart
<1>12. Matched'
  <2>1. \A r \in Reqs \ straddled : step[r] \notin {"seen", "extend"}
    BY <1>6 DEF InFlight
  <2> QED
    BY <1>1, <1>3, <1>6, <1>7, <2>1 DEF IInv, Matched
<1>13. Durable'
    BY <1>1, <1>4, <1>5 DEF IInv, Durable, Pending
<1>14. WriterHonest'
  <2>1. \A r \in Range(batch) \union replicated : r \in Accepted
    BY <1>3 DEF IInv, StepsFit, Accepted
  <2> QED
    BY <1>1, <1>5, <1>8, <2>1 DEF IInv, WriterHonest
<1> QED
    BY <1>7, <1>9, <1>10, <1>11, <1>12, <1>13, <1>14 DEF IInv

-----------------------------------------------------------------------------
(***************************************************************************)
(* Crash.                                                                  *)
(***************************************************************************)
LEMMA CrashInvariant ==
    ASSUME IInv, CrashRestart
    PROVE  IInv'
<1>1. /\ crashes < MaxCrashes /\ crashes' = crashes + 1
      /\ rows' = committed /\ feed' = committed /\ seen' = CommittedIds /\ lastHash' = TailHash(committed)
      /\ queue' = <<>> /\ writer' = "idle" /\ batch' = <<>> /\ at' = 1 /\ resetPc' = "idle"
      /\ gone' = gone \union {r \in Accepted : IdOf[r] \notin CommittedIds}
      /\ UNCHANGED <<prev, committed, replicated, straddled, unwritten, survived, resets, failures>>
    BY DEF CrashRestart
<1>2. /\ step' = [r \in Reqs |-> IF step[r] \in {"new", "rejected", "duplicate", "ignored", "ok", "error"} THEN step[r]
                                 ELSE IF r \in Accepted THEN "dead" ELSE "failed"]
    BY DEF CrashRestart
<1>3. /\ TypeOK /\ committed \in Seq(Reqs) /\ Len(committed) \in Nat
      /\ DOMAIN committed = 1 .. Len(committed) /\ \A i \in 1 .. Len(committed) : committed[i] \in Reqs
      /\ <<>> \in Seq(Reqs) /\ Range(<<>>) = {} /\ DOMAIN <<>> = {} /\ Len(<<>>) = 0
      /\ Accepted \subseteq Reqs /\ QueueCap \in Nat /\ BatchMax \in Nat \ {0}
      /\ Range(committed) \subseteq Reqs
    BY NoElements, ElementIn, BackendConstants DEF IInv, TypeOK, Accepted
<1>4. CommittedIds \subseteq Ids
  <2>1. \A r \in Reqs : IdOf[r] \in Ids
    BY BackendConstants
  <2> QED
    BY <1>3, <2>1 DEF CommittedIds
<1>5. RowIds' = CommittedIds /\ CommittedIds' = CommittedIds /\ StoredIds' = CommittedIds
  <2>1. RowIds' = CommittedIds /\ CommittedIds' = CommittedIds
    BY <1>1 DEF RowIds, CommittedIds
  <2> QED
    BY <2>1 DEF StoredIds
<1>6. /\ step' \in [Reqs -> Steps]
      /\ \A r \in Reqs : step'[r] \in {"new", "rejected", "duplicate", "ignored", "ok", "error", "dead", "failed"}
      /\ \A r \in Reqs : step[r] \in {"ok", "error"} => step'[r] = step[r]
      /\ \A r \in Reqs : step'[r] = "dead" => r \in Accepted
      /\ \A r \in Reqs : step[r] \in {"seen", "extend", "stored", "raised", "dead"} => step'[r] = "dead"
  <2>1. \A r \in Reqs : step[r] \in Steps
    BY <1>3 DEF TypeOK
  <2>2. \A r \in Reqs : step'[r] \in {"new", "rejected", "duplicate", "ignored", "ok", "error", "dead", "failed"}
    BY <1>2
  <2>3. \A r \in Reqs : step[r] \in {"ok", "error"} => step'[r] = step[r]
    BY <1>2
  <2>4. \A r \in Reqs : step'[r] = "dead" => r \in Accepted
    BY <1>2
  <2>5. \A r \in Reqs : step[r] \in {"seen", "extend", "stored", "raised", "dead"} => step'[r] = "dead"
    BY <1>2 DEF Accepted
  <2> QED
    BY <1>2, <2>2, <2>3, <2>4, <2>5 DEF Steps
<1>7. /\ Accepted' \subseteq Accepted /\ InFlight' = {} /\ Pending' = {}
  <2>1. Pending' = {}
    BY <1>1, <1>3 DEF Pending
  <2>2. InFlight' = {}
    BY <1>1, <1>3, <1>6 DEF InFlight
  <2>3. \A r \in Reqs : step'[r] \in {"feed", "queue", "insert", "ok", "error", "seen", "extend", "stored", "raised", "dead"}
                           => r \in Accepted
    BY <1>2, <1>6 DEF Accepted
  <2> QED
    BY <2>1, <2>2, <2>3 DEF Accepted
<1>8. TypeOK'
  <2>1. lastHash' \in Reqs \union {Genesis}
    BY <1>1, <1>3, EmptySeq DEF TailHash
  <2>2. crashes' \in 0 .. MaxCrashes
    BY <1>1, <1>3, BackendConstants DEF TypeOK
  <2>3. gone' \subseteq Reqs
    BY <1>1, <1>3 DEF TypeOK
  <2> QED
    BY <1>1, <1>3, <1>4, <1>6, <2>1, <2>2, <2>3 DEF TypeOK
<1>9. StepsFit' /\ WriterShape'
  <2>1. \A r \in Range(committed) : r \in Reqs /\ step'[r] \in {"ok", "error", "dead"}
    BY <1>3, <1>6 DEF IInv, StepsFit
  <2>2. \A r \in replicated' : step'[r] = "ok"
    BY <1>1, <1>3, <1>6 DEF IInv, StepsFit, TypeOK
  <2> QED
    BY <1>1, <1>3, <1>6, <2>1, <2>2 DEF StepsFit, WriterShape
<1>10. RowsDistinct'
    BY <1>1 DEF IInv, RowsDistinct
<1>11. ClaimsApart'
  <2>1. Claimed' \subseteq Range(committed)
    BY <1>1, <1>6 DEF Claimed, Clean, Reqs
  <2>2. \A i, j \in DOMAIN committed : IdOf[committed[i]] = IdOf[committed[j]] => i = j
    BY DEF IInv, RowsDistinct, Distinct
  <2>3. \A q, r \in Range(committed) : IdOf[q] = IdOf[r] => q = r
    BY <2>2 DEF Range
  <2>4. \A r \in Range(committed) : IdOf[r] \in CommittedIds
    BY DEF CommittedIds
  <2>5. \A i, j \in DOMAIN feed' : feed'[i] = feed'[j] => i = j
    BY <1>1, <2>2
  <2> QED
    BY <1>1, <2>1, <2>3, <2>4, <2>5 DEF ClaimsApart
<1>12. ResetMarks'
    BY <1>1 DEF ResetMarks
<1>13. Matched'
  <2>1. \A r \in Range(committed) : IdOf[r] \in CommittedIds
    BY DEF CommittedIds
  <2> QED
    BY <1>1, <1>3, <1>5, <1>6, <2>1 DEF Matched
<1>14. Durable'
    BY <1>1, <1>5, <1>7 DEF Durable
<1>15. WriterHonest'
    BY <1>1, <1>5 DEF IInv, WriterHonest, StoredIds
<1> QED
    BY <1>8, <1>9, <1>10, <1>11, <1>12, <1>13, <1>14, <1>15 DEF IInv

-----------------------------------------------------------------------------
LEMMA InitInvariant == Init => IInv
<1> SUFFICES ASSUME Init PROVE IInv
    OBVIOUS
<1>1. /\ step = [r \in Reqs |-> "new"] /\ prev = [r \in Reqs |-> Genesis]
      /\ seen = {} /\ feed = <<>> /\ lastHash = Genesis /\ queue = <<>>
      /\ writer = "idle" /\ batch = <<>> /\ at = 1 /\ rows = <<>> /\ committed = <<>> /\ resetPc = "idle"
      /\ replicated = {} /\ straddled = {} /\ unwritten = {} /\ survived = {} /\ gone = {}
      /\ resets = 0 /\ crashes = 0 /\ failures = 0
    BY DEF Init
<1>2. <<>> \in Seq(Reqs) /\ Range(<<>>) = {} /\ DOMAIN <<>> = {} /\ Len(<<>>) = 0
    BY NoElements
<1>3. Accepted = {} /\ Claimed = {} /\ RowIds = {} /\ CommittedIds = {}
    BY <1>1, <1>2 DEF Accepted, Claimed, Clean, Reqs, RowIds, CommittedIds
<1>4. TypeOK
    BY <1>1, <1>2, BackendConstants DEF TypeOK, Steps
<1> QED
    BY <1>1, <1>2, <1>3, <1>4 DEF IInv, WriterShape, StepsFit, RowsDistinct, Distinct, ClaimsApart,
       ResetMarks, Matched, Durable, WriterHonest

LEMMA StepInvariant == IInv /\ [Next]_vars => IInv'
<1> SUFFICES ASSUME IInv, [Next]_vars PROVE IInv'
    OBVIOUS
<1>1. ASSUME NEW r \in Reqs, Handle(r) PROVE IInv'
    BY <1>1, CheckInvariant, ClaimInvariant, FeedInvariant, QueueInvariant, InsertInvariant, IngestInvariant DEF Handle
<1>2. CASE WriterStep \/ WriterFail
    BY <1>2, CollectInvariant, WriterInsertInvariant, WriterFailInvariant, WriterCommitInvariant,
       WriterReplicateInvariant DEF WriterStep
<1>3. CASE ResetStart \/ ResetStep \/ ResetTableFail
    BY <1>3, ResetStartInvariant, ResetDrainInvariant, ResetMemoryInvariant, ResetTableInvariant DEF ResetStep
<1>4. CASE CrashRestart
    BY <1>4, CrashInvariant
<1>5. CASE UNCHANGED vars
  <2>1. UNCHANGED <<step, prev, seen, feed, lastHash, queue, writer, batch, at, rows, committed, resetPc,
                    replicated, straddled, unwritten, survived, gone, resets, crashes, failures>>
    BY <1>5 DEF vars, memory, writing, sqlite, history, bounds
  <2> QED
    BY <2>1 DEF IInv, TypeOK, WriterShape, StepsFit, RowsDistinct, ClaimsApart, ResetMarks, Matched, Durable,
       WriterHonest, Distinct, Pending, RowIds, CommittedIds, StoredIds, Unsaved, Accepted, InFlight, Clean, Claimed
<1> QED
    BY <1>1, <1>2, <1>3, <1>4, <1>5 DEF Next

-----------------------------------------------------------------------------
(***************************************************************************)
(* The theorems.                                                           *)
(***************************************************************************)
\* The invariant of db.py: what is in the memory feed, on its way and in the
\* table fits together through resets, crashes and failing writes.
THEOREM Invariance == Spec => []IInv
    BY InitInvariant, StepInvariant, PTL DEF Spec

\* Queue and batch keep their limits, every value its type.
THEOREM TypeCorrect == Spec => []TypeOK
<1>1. IInv => TypeOK
    BY DEF IInv
<1> QED
    BY <1>1, Invariance, PTL

\* One id is never shown twice by posts and frames that no reset disturbed.
THEOREM NeverShownTwice == Spec => []FeedDistinct
<1>1. IInv => FeedDistinct
  <2> SUFFICES ASSUME IInv, NEW i \in DOMAIN feed, NEW j \in DOMAIN feed,
                      i # j, IdOf[feed[i]] = IdOf[feed[j]],
                      {feed[i], feed[j]} \intersect (Ingests \union straddled) = {}
               PROVE  FALSE
    BY DEF FeedDistinct
  <2>1. feed[i] \in Range(feed) /\ feed[j] \in Range(feed) /\ Range(feed) \subseteq Reqs
    BY Places DEF IInv, Range
  <2>2. feed[i] \in Claimed /\ feed[j] \in Claimed /\ feed[i] \in Clean
    BY <2>1 DEF Claimed, Clean, Reqs
  <2> QED
    BY <2>2 DEF IInv, ClaimsApart
<1> QED
    BY <1>1, Invariance, PTL

\* A message past the seen set is on its way or stored, unless a reset, a
\* crash or a failed write took it.
THEOREM NeverDropped == Spec => []Durable
<1>1. IInv => Durable
    BY DEF IInv
<1> QED
    BY <1>1, Invariance, PTL

\* At rest, the memory feed and the table hold the same messages.
THEOREM FeedMatchesTable == Spec => []Settled
<1>1. IInv => Settled
  <2> SUFFICES ASSUME IInv, InFlight = {}, resetPc = "idle"
               PROVE  /\ \A r \in Range(feed) : IdOf[r] \in RowIds \/ r \in unwritten \union straddled
                      /\ \A r \in Range(rows) :
                            \/ \E q \in Range(feed) : IdOf[q] = IdOf[r]
                            \/ step[r] \in {"stored", "raised"}
                            \/ r \in straddled \union survived
    BY DEF Settled
  <2>1. /\ Range(feed) \subseteq Reqs /\ Range(rows) \subseteq Reqs /\ Unsaved \subseteq Range(batch)
        /\ Range(queue) = {} /\ Range(batch) = {}
        /\ \A r \in Reqs : step[r] \notin {"feed", "queue", "insert", "extend", "seen"}
    BY Places DEF IInv, InFlight, Unsaved
  <2> QED
    BY <2>1 DEF IInv, Matched, StoredIds
<1> QED
    BY <1>1, Invariance, PTL

\* What the shared database service has, this backend has on disk.
THEOREM ServiceNotAhead == Spec => []ReplicatedIsStored
<1>1. IInv => ReplicatedIsStored
    BY DEF IInv, WriterHonest, StoredIds, ReplicatedIsStored
<1> QED
    BY <1>1, Invariance, PTL

-----------------------------------------------------------------------------
(***************************************************************************)
(* Refinement.                                                             *)
(***************************************************************************)
\* What waits to be shown.
Waiting == {r \in Reqs : step[r] \in {"feed", "seen", "extend", "stored", "raised"}}

LEMMA MapInit == Init => Abs!Init
    BY NoElements DEF Init, Abs!Init, Accepted

\* A step of a handler that changes neither what is accepted nor what waits.
LEMMA MapStutter ==
    ASSUME TypeOK, NEW r \in Reqs, NEW l \in Steps, Goto(r, l), UNCHANGED <<feed, crashes>>,
           \/ step[r] \in {"new", "chain", "claim"} /\ l \in {"rejected", "duplicate", "chain", "claim", "ignored"}
           \/ step[r] \in {"queue", "insert"} /\ l \in {"insert", "ok", "error"}
           \/ step[r] = "seen" /\ l = "extend"
    PROVE  UNCHANGED Abs!vars
<1>1. /\ step'[r] = l /\ \A q \in Reqs : q # r => step'[q] = step[q]
    BY StepTo
<1>2. Waiting' = Waiting
    BY <1>1 DEF Waiting
<1>3. Accepted' = Accepted
    BY <1>1 DEF Accepted
<1> QED
    BY <1>2, <1>3 DEF Abs!vars, Waiting

LEMMA MapAccept ==
    ASSUME TypeOK, NEW r \in Reqs, NEW l \in {"feed", "seen", "stored", "raised"}, Goto(r, l), UNCHANGED <<feed, crashes>>,
           step[r] \in {"new", "claim"}
    PROVE  Abs!Next
<1>1. /\ step'[r] = l /\ \A q \in Reqs : q # r => step'[q] = step[q]
    BY StepTo DEF Steps
<1>2. Waiting' = Waiting \union {r}
    BY <1>1 DEF Waiting
<1>3. Accepted' = Accepted \union {r} /\ r \notin Accepted
    BY <1>1 DEF Accepted
<1> QED
    BY <1>2, <1>3 DEF Abs!Next, Abs!Accept, Waiting

LEMMA MapPublish ==
    ASSUME TypeOK, NEW r \in Reqs, NEW l \in {"queue", "ok"}, Goto(r, l), feed' = Append(feed, r), UNCHANGED crashes,
           step[r] \in {"feed", "extend"}
    PROVE  Abs!Next
<1>1. /\ step'[r] = l /\ \A q \in Reqs : q # r => step'[q] = step[q]
    BY StepTo DEF Steps
<1>2. Waiting' = Waiting \ {r} /\ r \in Waiting
    BY <1>1 DEF Waiting
<1>3. Accepted' = Accepted
    BY <1>1 DEF Accepted
<1> QED
    BY <1>2, <1>3 DEF Abs!Next, Abs!Publish, Waiting

LEMMA MapHandle ==
    ASSUME TypeOK, NEW r \in Reqs, Handle(r)
    PROVE  Abs!Next \/ UNCHANGED Abs!vars
<1>1. CASE PostReject(r) \/ PostCheck(r) \/ PostChain(r) \/ FrameChain(r)
    BY <1>1, MapStutter DEF PostReject, PostCheck, PostChain, FrameChain, memory, bounds, Steps
<1>2. CASE SaveClaim(r)
  <2>1. CASE IdOf[r] \in seen
    BY <1>2, <2>1, MapStutter DEF SaveClaim, bounds, Steps
  <2>2. CASE IdOf[r] \notin seen
    BY <1>2, <2>2, MapAccept DEF SaveClaim, bounds
  <2> QED
    BY <2>1, <2>2
<1>3. CASE SaveFeed(r)
    BY <1>3, MapPublish DEF SaveFeed, bounds
<1>4. CASE SaveQueue(r)
    BY <1>4, MapStutter DEF SaveQueue, memory, bounds, Steps
<1>5. CASE SaveInsert(r)
    BY <1>5, MapStutter DEF SaveInsert, memory, bounds, Steps
<1>6. CASE SaveInsertFail(r)
    BY <1>6, MapStutter DEF SaveInsertFail, memory, Steps
<1>7. CASE IngestRow(r)
    BY <1>7, MapAccept DEF IngestRow, memory, bounds
<1>8. CASE IngestRowFail(r)
    BY <1>8, MapAccept DEF IngestRowFail, memory
<1>9. CASE IngestSeen(r)
    BY <1>9, MapStutter DEF IngestSeen, bounds, Steps
<1>10. CASE IngestFeed(r)
    BY <1>10, MapPublish DEF IngestFeed, bounds
<1> QED
    BY <1>1, <1>2, <1>3, <1>4, <1>5, <1>6, <1>7, <1>8, <1>9, <1>10 DEF Handle

LEMMA MapCrash ==
    ASSUME IInv, CrashRestart
    PROVE  Abs!Next
<1>1. /\ crashes' = crashes + 1 /\ feed' = committed
      /\ step' = [r \in Reqs |-> IF step[r] \in {"new", "rejected", "duplicate", "ignored", "ok", "error"} THEN step[r]
                                 ELSE IF r \in Accepted THEN "dead" ELSE "failed"]
    BY DEF CrashRestart
<1>2. \A i, j \in DOMAIN committed : committed[i] = committed[j] => i = j
    BY DEF IInv, RowsDistinct, Distinct
<1>3. {committed[i] : i \in DOMAIN committed} \subseteq Accepted
  <2>1. \A r \in Range(committed) : r \in Accepted
    BY Places DEF IInv, StepsFit, Accepted
  <2> QED
    BY <2>1 DEF Range
<1>4. Abs!IsInjective(feed') /\ Abs!Range(feed') \subseteq Accepted
    BY <1>1, <1>2, <1>3 DEF Abs!IsInjective, Abs!Range
<1>5. \A r \in Reqs : step'[r] \in {"new", "rejected", "duplicate", "ignored", "ok", "error", "dead", "failed"}
    BY <1>1
<1>6. Waiting' = {}
    BY <1>5 DEF Waiting
<1>7. Accepted' = Accepted
    BY <1>1 DEF Accepted
<1> QED
    BY <1>1, <1>4, <1>6, <1>7 DEF Abs!Next, Abs!Restart, Waiting

LEMMA MapStep == IInv /\ [Next]_vars => [Abs!Next]_(Abs!vars)
<1> SUFFICES ASSUME IInv, [Next]_vars PROVE Abs!Next \/ UNCHANGED Abs!vars
    OBVIOUS
<1>1. ASSUME NEW r \in Reqs, Handle(r) PROVE Abs!Next \/ UNCHANGED Abs!vars
    BY <1>1, MapHandle DEF IInv
<1>2. ASSUME UNCHANGED <<step, feed, crashes>> PROVE UNCHANGED Abs!vars
    BY <1>2 DEF Abs!vars, Accepted
<1>3. CASE WriterStep \/ WriterFail
  <2>1. UNCHANGED <<step, feed, crashes>>
    BY <1>3 DEF WriterStep, WriterFail, WriterGet, WriterGetMore, WriterGotAll, WriterLock, WriterInsert,
       WriterCommit, WriterReplicate, memory, bounds
  <2> QED
    BY <1>2, <2>1
<1>4. CASE ResetStart \/ ResetDrain \/ ResetDrained \/ ResetSeen \/ ResetTable \/ ResetTableFail \/ ResetHash
  <2>1. UNCHANGED <<step, feed, crashes>>
    BY <1>4 DEF ResetStart, ResetDrain, ResetDrained, ResetSeen, ResetTable, ResetTableFail, ResetHash,
       memory, bounds
  <2> QED
    BY <1>2, <2>1
<1>5. CASE ResetFeed
  <2>1. feed' = <<>> /\ UNCHANGED <<step, crashes>>
    BY <1>5 DEF ResetFeed, bounds
  <2> QED
    BY <2>1 DEF Abs!Next, Abs!Clear, Accepted
<1>6. CASE CrashRestart
    BY <1>6, MapCrash
<1>7. CASE UNCHANGED vars
    BY <1>2, <1>7 DEF vars, memory, bounds
<1> QED
    BY <1>1, <1>3, <1>4, <1>5, <1>6, <1>7 DEF Next, ResetStep

\* Seen set, locks and feed list implement the feed of AbstractFeed.
THEOREM Implements == Spec => Refines
    BY Invariance, MapInit, MapStep, PTL DEF Spec, Refines, Abs!Spec
=============================================================================
