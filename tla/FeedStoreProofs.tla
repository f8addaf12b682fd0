--------------------------- MODULE FeedStoreProofs ---------------------------
(***************************************************************************)
(* What FeedStore guarantees for every set of requests and handlers, every *)
(* capacity and every number of resets and crashes.                        *)
(***************************************************************************)
EXTENDS FeedStore, SequenceTheorems, FiniteSetTheorems, TLAPS

-----------------------------------------------------------------------------
(***************************************************************************)
(* Sequences.                                                              *)
(***************************************************************************)
\* The elements of an appended sequence.
LEMMA RangeAppend ==
    ASSUME NEW S, NEW s \in Seq(S), NEW e \in S
    PROVE  Range(Append(s, e)) = Range(s) \union {e}
<1>1. Append(s, e) = s \o <<e>>
    BY AppendIsConcat
<1>2. <<e>> \in Seq(S) /\ Range(<<e>>) = {e}
    BY DEF Range
<1>3. Range(s \o <<e>>) = Range(s) \union Range(<<e>>)
    BY <1>2, RangeConcatenation
<1> QED
    BY <1>1, <1>2, <1>3

\* Appending something new keeps a sequence duplicate-free.
LEMMA InjectiveAppend ==
    ASSUME NEW S, NEW s \in Seq(S), NEW e \in S, IsInjective(s), e \notin Range(s)
    PROVE  IsInjective(Append(s, e))
<1> DEFINE t == Append(s, e)
<1>1. /\ DOMAIN s = 1 .. Len(s) /\ Len(s) \in Nat
      /\ DOMAIN t = 1 .. Len(s) + 1
      /\ \A i \in 1 .. Len(s) : t[i] = s[i]
      /\ t[Len(s) + 1] = e
    BY AppendProperties, LenProperties
<1>2. \A i \in 1 .. Len(s) : s[i] # e
    BY <1>1 DEF Range
<1>3. \A a, b \in 1 .. Len(s) : s[a] = s[b] => a = b
    BY <1>1 DEF IsInjective
<1> HIDE DEF t
<1>4. \A a, b \in DOMAIN t : t[a] = t[b] => a = b
    BY <1>1, <1>2, <1>3
<1> QED
    BY <1>4 DEF IsInjective, t

\* Taking the head of a duplicate-free sequence moves it out.
LEMMA HeadTailRange ==
    ASSUME NEW S, NEW s \in Seq(S), s # <<>>
    PROVE  /\ Head(s) \in S /\ Head(s) \in Range(s)
           /\ Tail(s) \in Seq(S) /\ Len(Tail(s)) = Len(s) - 1
           /\ Range(s) = {Head(s)} \union Range(Tail(s))
           /\ IsInjective(s) => IsInjective(Tail(s)) /\ Head(s) \notin Range(Tail(s))
<1> DEFINE t == Tail(s)
<1>1. /\ Len(s) \in Nat \ {0} /\ DOMAIN s = 1 .. Len(s)
      /\ Head(s) = s[1] /\ Head(s) \in S
      /\ t \in Seq(S) /\ Len(t) = Len(s) - 1 /\ DOMAIN t = 1 .. Len(s) - 1
      /\ \A i \in 1 .. Len(s) - 1 : t[i] = s[i + 1]
    BY HeadTailProperties, LenProperties, EmptySeq
<1> HIDE DEF t
<1>2. Range(s) = {s[i] : i \in 1 .. Len(s)} /\ Range(t) = {s[i + 1] : i \in 1 .. Len(s) - 1}
    BY <1>1 DEF Range
<1>3. Range(s) = {Head(s)} \union Range(t)
  <2>1. ASSUME NEW i \in 1 .. Len(s) PROVE s[i] \in {Head(s)} \union Range(t)
    <3>1. CASE i = 1  BY <3>1, <1>1
    <3>2. CASE i # 1
      <4>1. i - 1 \in 1 .. Len(s) - 1 /\ s[(i - 1) + 1] = s[i]
        BY <3>2, <1>1
      <4> QED  BY <4>1, <1>2
    <3> QED  BY <3>1, <3>2
  <2>2. ASSUME NEW i \in 1 .. Len(s) - 1 PROVE s[i + 1] \in Range(s)
    BY <1>1, <1>2
  <2>3. Head(s) \in Range(s)
    BY <1>1, <1>2
  <2> QED  BY <2>1, <2>2, <2>3, <1>2
<1>4. ASSUME IsInjective(s) PROVE IsInjective(t) /\ Head(s) \notin Range(t)
  <2>1. \A a, b \in 1 .. Len(s) : s[a] = s[b] => a = b
    BY <1>1, <1>4 DEF IsInjective
  <2>2. \A a, b \in 1 .. Len(s) - 1 : t[a] = t[b] => a = b
    <3>1. ASSUME NEW a \in 1 .. Len(s) - 1, NEW b \in 1 .. Len(s) - 1, t[a] = t[b] PROVE a = b
      <4>1. a + 1 \in 1 .. Len(s) /\ b + 1 \in 1 .. Len(s) /\ s[a + 1] = s[b + 1]
        BY <3>1, <1>1
      <4> QED  BY <4>1, <2>1
    <3> QED  BY <3>1
  <2>3. \A i \in 1 .. Len(s) - 1 : s[i + 1] # s[1]
    <3>1. ASSUME NEW i \in 1 .. Len(s) - 1 PROVE s[i + 1] # s[1]
      <4>1. i + 1 \in 1 .. Len(s) /\ 1 \in 1 .. Len(s) /\ i + 1 # 1
        BY <1>1
      <4> QED  BY <4>1, <2>1
    <3> QED  BY <3>1
  <2> QED  BY <1>1, <1>2, <2>2, <2>3 DEF IsInjective
<1> QED
    BY <1>1, <1>3, <1>4 DEF t

\* Cutting a sequence in two loses nothing.
LEMMA SplitRange ==
    ASSUME NEW S, NEW s \in Seq(S), NEW n \in 0 .. Len(s)
    PROVE  /\ SubSeq(s, 1, n) \in Seq(S) /\ Len(SubSeq(s, 1, n)) = n
           /\ SubSeq(s, n + 1, Len(s)) \in Seq(S) /\ Len(SubSeq(s, n + 1, Len(s))) = Len(s) - n
           /\ Range(s) = Range(SubSeq(s, 1, n)) \union Range(SubSeq(s, n + 1, Len(s)))
<1>1. Len(s) \in Nat /\ \A i \in 1 .. Len(s) : s[i] \in S
    BY LenProperties, ElementOfSeq
<1>2. SubSeq(s, 1, n) \in Seq(S) /\ Len(SubSeq(s, 1, n)) = n
    BY <1>1, SubSeqProperties
<1>3. SubSeq(s, n + 1, Len(s)) \in Seq(S) /\ Len(SubSeq(s, n + 1, Len(s))) = Len(s) - n
    BY <1>1, SubSeqProperties
<1>4. SubSeq(s, 1, n) \o SubSeq(s, n + 1, Len(s)) = s
  <2>1. SubSeq(s, 1, n) \o SubSeq(s, n + 1, Len(s)) = SubSeq(s, 1, Len(s))
    <3>1. 1 \in 1 .. Len(s) + 1 /\ n \in 1 - 1 .. Len(s) /\ Len(s) \in n .. Len(s)
      BY <1>1
    <3> QED  BY <3>1, ConcatAdjacentSubSeq
  <2> QED  BY <2>1, SubSeqFull
<1> QED
    BY <1>2, <1>3, <1>4, RangeConcatenation, ZenonT(60)

-----------------------------------------------------------------------------
-----------------------------------------------------------------------------
(***************************************************************************)
(* What a restart reads back.                                              *)
(***************************************************************************)

\* Counting the elements up to each one numbers a finite set of naturals
\* from 1 without gaps, so NthKept finds exactly the n-th.
LEMMA NthKeptFacts ==
    ASSUME NEW K, IsFiniteSet(K), K \subseteq Nat
    PROVE  /\ Cardinality(K) \in Nat
           /\ \A n \in 1 .. Cardinality(K) : NthKept(K, n) \in K
           /\ \A m, n \in 1 .. Cardinality(K) : NthKept(K, m) = NthKept(K, n) => m = n
           /\ \A i \in K : \E n \in 1 .. Cardinality(K) : NthKept(K, n) = i
<1> DEFINE Upto(i) == {j \in K : j <= i}
           N == Cardinality(K)
           rank == [i \in K |-> Cardinality(Upto(i))]
<1>1. N \in Nat
    BY FS_CardinalityType
<1>2. \A i \in K : IsFiniteSet(Upto(i)) /\ Cardinality(Upto(i)) \in 1 .. N
  <2> TAKE i \in K
  <2>1. Upto(i) \subseteq K
    OBVIOUS
  <2>2. IsFiniteSet(Upto(i)) /\ Cardinality(Upto(i)) <= N
    BY <2>1, FS_Subset
  <2>3. Upto(i) # {}
    BY i \in Upto(i)
  <2>4. Cardinality(Upto(i)) \in Nat /\ Cardinality(Upto(i)) # 0
    BY <2>2, <2>3, FS_CardinalityType, FS_EmptySet
  <2> QED  BY <1>1, <2>2, <2>4
<1>3. ASSUME NEW i \in K, NEW k \in K, i < k PROVE rank[i] # rank[k]
  <2>1. Upto(i) \subseteq Upto(k) /\ k \in Upto(k) /\ k \notin Upto(i)
    <3>1. i \in Nat /\ k \in Nat /\ \A j \in K : j \in Nat /\ (j <= i => j <= k)
      BY <1>3
    <3>2. k <= k /\ ~ (k <= i)
      BY <3>1, <1>3
    <3> QED  BY <3>1, <3>2
  <2>2. Cardinality(Upto(i)) # Cardinality(Upto(k))
    BY <1>2, <2>1, FS_Subset
  <2> QED  BY <2>2
<1>4. \A i, k \in K : rank[i] = rank[k] => i = k
  <2>1. \A i, k \in K : i = k \/ i < k \/ k < i
    OBVIOUS
  <2> QED  BY <1>3, <2>1
<1>5. rank \in [K -> 1 .. N]
    BY <1>2
<1>6. rank \in Injection(K, 1 .. N)
    BY <1>4, <1>5 DEF Injection, IsInjective
<1>7. IsFiniteSet(1 .. N) /\ Cardinality(1 .. N) = N
  <2>1. 1 \in Int /\ N \in Int
    BY <1>1
  <2> QED  BY <1>1, <2>1, FS_Interval
<1>8. rank \in Surjection(K, 1 .. N)
    BY <1>6, <1>7, FS_Injection
<1>9. \A n \in 1 .. N : \E i \in K : rank[i] = n
    BY <1>8 DEF Surjection
<1>10. \A n \in 1 .. N : NthKept(K, n) \in K /\ rank[NthKept(K, n)] = n
    BY <1>9 DEF NthKept
<1>11. \A i \in K : rank[i] \in 1 .. N /\ NthKept(K, rank[i]) = i
    BY <1>4, <1>5, <1>10
<1> HIDE DEF rank
<1> QED
    BY <1>1, <1>10, <1>11

\* A restart builds a duplicate-free feed of exactly the recoverable requests,
\* and the body of each is in the file.
LEMMA RecoveredFacts ==
    ASSUME NEW f \in Seq(Token)
    PROVE  /\ Recovered(f) \in Seq(Reqs)
           /\ Cardinality(Kept(f)) \in Nat
           /\ Len(Recovered(f)) = Cardinality(Kept(f))
           /\ IsInjective(Recovered(f))
           /\ Range(Recovered(f)) = Recoverable(f)
           /\ \A r \in Recoverable(f) : r \in Reqs /\ Range(BodyOf(r)) \subseteq Range(f)
<1> DEFINE K == Kept(f)
           N == Cardinality(K)
<1>1. DOMAIN f = 1 .. Len(f) /\ Len(f) \in Nat /\ \A i \in DOMAIN f : f[i] \in Token
    BY LenProperties, ElementOfSeq
<1>2. K \subseteq DOMAIN f
    BY DEF Kept
<1>3. IsFiniteSet(K) /\ K \subseteq Nat
  <2>1. IsFiniteSet(1 .. Len(f))
    BY <1>1, FS_Interval
  <2> QED  BY <1>1, <1>2, <2>1, FS_Subset
<1>4. \A i \in K : f[i] \in Token /\ f[i].req \in Reqs /\ IsRecord(f, i)
    BY <1>1, <1>2 DEF Kept, Token
<1>5. ASSUME NEW i \in K, NEW j \in K, f[i].req = f[j].req PROVE i = j
  <2>1. i \in Nat /\ j \in Nat /\ i \in DOMAIN f /\ j \in DOMAIN f /\ IsRecord(f, i) /\ IsRecord(f, j)
    BY <1>2, <1>3, <1>4
  <2>2. ~ (i < j) /\ ~ (j < i)
    BY <1>5, <2>1 DEF Kept
  <2> QED  BY <2>1, <2>2
<1>6. /\ N \in Nat
      /\ \A n \in 1 .. N : NthKept(K, n) \in K
      /\ \A m, n \in 1 .. N : NthKept(K, m) = NthKept(K, n) => m = n
      /\ \A i \in K : \E n \in 1 .. N : NthKept(K, n) = i
    BY <1>3, NthKeptFacts
<1> HIDE DEF K, N
<1>7. Recovered(f) = [n \in 1 .. N |-> f[NthKept(K, n)].req]
    BY DEF Recovered, K, N
<1>8. \A n \in 1 .. N : f[NthKept(K, n)].req \in Reqs
    BY <1>4, <1>6
<1>9. Recovered(f) \in Seq(Reqs) /\ DOMAIN Recovered(f) = 1 .. N /\ Len(Recovered(f)) = N
  <2>1. Recovered(f) \in [1 .. N -> Reqs]
    BY <1>7, <1>8
  <2>2. Recovered(f) \in Seq(Reqs)
    BY <2>1, <1>6, SeqDef
  <2>3. DOMAIN Recovered(f) = 1 .. N
    BY <2>1
  <2>4. DOMAIN Recovered(f) = 1 .. Len(Recovered(f)) /\ Len(Recovered(f)) \in Nat
    BY <2>2, LenProperties
  <2> QED  BY <2>2, <2>3, <2>4, <1>6
<1>10. IsInjective(Recovered(f))
    BY <1>5, <1>6, <1>7 DEF IsInjective
<1>11. Range(Recovered(f)) = Recoverable(f)
  <2>1. Recoverable(f) = {f[i].req : i \in K}
    BY DEF Recoverable, K
  <2>2. Range(Recovered(f)) = {f[NthKept(K, n)].req : n \in 1 .. N}
    BY <1>7 DEF Range
  <2> QED  BY <1>6, <2>1, <2>2
<1>12. ASSUME NEW r \in Recoverable(f) PROVE r \in Reqs /\ Range(BodyOf(r)) \subseteq Range(f)
  <2>1. PICK i \in K : r = f[i].req
    BY DEF Recoverable, K
  <2>2. /\ i \in DOMAIN f /\ i + 1 \in DOMAIN f
        /\ f[i].part = "head" /\ f[i + 1] = Tok(r, "tail")
    BY <2>1, <1>2, <1>4 DEF IsRecord
  <2>3. f[i] = Tok(r, "head")
    BY <2>1, <2>2, <1>4 DEF Token, Tok
  <2>4. Range(BodyOf(r)) = {Tok(r, "head"), Tok(r, "tail")}
    BY DEF Range, BodyOf
  <2> QED  BY <2>1, <2>2, <2>3, <2>4, <1>4 DEF Range
<1> QED
    BY <1>6, <1>9, <1>10, <1>11, <1>12 DEF K, N

\* The tokens of one line.
LEMMA LineFacts ==
    ASSUME NEW r \in Reqs
    PROVE  /\ BodyOf(r) \in Seq(Token)
           /\ Range(BodyOf(r)) = {Tok(r, "head"), Tok(r, "tail")}
           /\ LineOf(r) \in Seq(Token) /\ Len(LineOf(r)) = 3
           /\ Range(LineOf(r)) = Range(BodyOf(r)) \union {Tok(r, "newline")}
           /\ \A p \in {"head", "tail", "newline"} : Tok(r, p) \in Token /\ Tok(r, p).req = r
<1>1. \A p \in {"head", "tail", "newline"} : Tok(r, p) \in Token /\ Tok(r, p).req = r
    BY DEF Tok, Token
<1>2. BodyOf(r) \in Seq(Token) /\ Len(BodyOf(r)) = 2 /\ Range(BodyOf(r)) = {Tok(r, "head"), Tok(r, "tail")}
    BY <1>1 DEF BodyOf, Range
<1>3. LineOf(r) = Append(BodyOf(r), Tok(r, "newline"))
    BY <1>1, <1>2, AppendIsConcat DEF LineOf
<1>4. LineOf(r) \in Seq(Token) /\ Len(LineOf(r)) = 3
    BY <1>1, <1>2, <1>3, AppendProperties
<1>5. Range(LineOf(r)) = Range(BodyOf(r)) \union {Tok(r, "newline")}
    BY <1>1, <1>2, <1>3, RangeAppend
<1> QED
    BY <1>1, <1>2, <1>4, <1>5

\* The two branches of the worker's buffered write: nothing is lost between
\* buffer and file, and the buffer stays within its capacity.
LEMMA MirrorFacts ==
    ASSUME TypeOK, WorkerMirror
    PROVE  /\ hand[Worker] \in Reqs
           /\ buf' \in Seq(Token) /\ Len(buf') <= BufCap
           /\ file' \in Seq(Token)
           /\ Range(file') \union Range(buf')
                = Range(file) \union Range(buf) \union Range(LineOf(hand[Worker]))
<1> DEFINE r == hand[Worker]
           all == buf \o LineOf(r)
<1>1. r \in Reqs /\ buf \in Seq(Token) /\ Len(buf) <= BufCap /\ file \in Seq(Token)
    BY DEF TypeOK, WorkerMirror, Drainers
<1>2. LineOf(r) \in Seq(Token) /\ Len(LineOf(r)) = 3
    BY <1>1, LineFacts
<1>3. all \in Seq(Token) /\ Len(all) = Len(buf) + 3 /\ Len(buf) \in Nat
  <2>1. all \in Seq(Token) /\ Len(all) = Len(buf) + Len(LineOf(r))
    BY <1>1, <1>2, ConcatProperties
  <2> QED  BY <1>1, <1>2, <2>1, LenProperties
<1>4. Range(all) = Range(buf) \union Range(LineOf(r))
    BY <1>1, <1>2, RangeConcatenation
<1>5. IF Len(all) <= BufCap
      THEN buf' = all /\ file' = file
      ELSE file' = file \o SubSeq(all, 1, BufCap) /\ buf' = SubSeq(all, BufCap + 1, Len(all))
    BY DEF WorkerMirror
<1> HIDE DEF all
<1>6. CASE Len(all) <= BufCap
    BY <1>1, <1>3, <1>4, <1>5, <1>6 DEF r
<1>7. CASE ~ (Len(all) <= BufCap)
  <2>1. BufCap \in 0 .. Len(all)
    BY <1>3, <1>7, BufferAssumption
  <2>2. /\ SubSeq(all, 1, BufCap) \in Seq(Token)
        /\ buf' \in Seq(Token) /\ Len(buf') = Len(all) - BufCap
        /\ Range(all) = Range(SubSeq(all, 1, BufCap)) \union Range(buf')
    <3>1. buf' = SubSeq(all, BufCap + 1, Len(all))
      BY <1>5, <1>7
    <3> QED  BY <1>3, <2>1, <3>1, SplitRange
  <2>3. file' \in Seq(Token) /\ Range(file') = Range(file) \union Range(SubSeq(all, 1, BufCap))
    <3>1. file' = file \o SubSeq(all, 1, BufCap)
      BY <1>5, <1>7
    <3>2. file \o SubSeq(all, 1, BufCap) \in Seq(Token)
      BY <1>1, <2>2, ConcatProperties
    <3>3. Range(file \o SubSeq(all, 1, BufCap)) = Range(file) \union Range(SubSeq(all, 1, BufCap))
      <4>1. file \in Seq(Token) /\ SubSeq(all, 1, BufCap) \in Seq(Token)
        BY <1>1, <2>2
      <4> QED  BY <4>1, RangeConcatenation, Zenon
    <3> QED  BY <3>1, <3>2, <3>3
  <2>4. Len(buf') <= BufCap
    BY <1>1, <1>3, <2>2, BufferAssumption
  <2> QED  BY <1>1, <1>4, <2>2, <2>3, <2>4 DEF r
<1> QED
    BY <1>6, <1>7

-----------------------------------------------------------------------------
(***************************************************************************)
(* Types.                                                                  *)
(***************************************************************************)
LEMMA TypeInit == Init => TypeOK
<1> SUFFICES ASSUME Init PROVE TypeOK
    OBVIOUS
<1>1. <<>> \in Seq(Reqs) /\ <<>> \in Seq(Token) /\ Len(<<>>) = 0
    OBVIOUS
<1> QED
    BY <1>1, ConstantsAssumption, BufferAssumption DEF Init, TypeOK, Drainers

\* The steps common to worker and handlers.
LEMMA ReceiveType ==
    ASSUME TypeOK, NEW d \in Drainers, Receive(d)
    PROVE  TypeOK'
<1>1. Head(msgChan) \in Reqs /\ Tail(msgChan) \in Seq(Reqs) /\ Len(Tail(msgChan)) <= ChanCap
  <2>1. msgChan \in Seq(Reqs) /\ Len(msgChan) <= ChanCap /\ msgChan # <<>> /\ Len(msgChan) \in Nat
    BY LenProperties DEF TypeOK, Receive
  <2> QED  BY <2>1, HeadTailRange, ConstantsAssumption
<1> QED
    BY <1>1 DEF TypeOK, Receive, memory, disk, history, bounds

LEMMA PublishType ==
    ASSUME TypeOK, NEW r \in Reqs, Publish(r)
    PROVE  builder' \in Seq(Reqs) /\ count' = Len(builder') /\ seen' \subseteq Ids
    BY AppendProperties DEF TypeOK, Publish

LEMMA AppendType ==
    ASSUME TypeOK, NEW d \in Drainers, NEW mirror \in {"mirror", "body"},
           NEW loop \in {"idle", "drain"}, AppendThen(d, mirror, loop)
    PROVE  TypeOK'
<1>1. hand[d] \in Reqs
    BY DEF TypeOK, AppendThen
<1>2. builder' \in Seq(Reqs) /\ count' = Len(builder') /\ seen' \subseteq Ids
    BY <1>1, PublishType DEF AppendThen
<1> QED
    BY <1>1, <1>2 DEF TypeOK, AppendThen, disk, history, bounds

LEMMA PostType ==
    ASSUME TypeOK, NEW r \in Reqs, Post(r)
    PROVE  TypeOK'
<1>1. CASE PostReject(r)
    BY <1>1 DEF TypeOK, PostReject, memory, disk, history, bounds
<1>2. CASE PostEnqueue(r)
  <2>1. msgChan' \in Seq(Reqs) /\ Len(msgChan') <= ChanCap
    BY <1>2, AppendProperties, LenProperties, ConstantsAssumption DEF TypeOK, PostEnqueue
  <2> QED  BY <1>2, <2>1 DEF TypeOK, PostEnqueue, memory, disk, history, bounds
<1>3. CASE PostOverflow(r)
    BY <1>3 DEF TypeOK, PostOverflow, memory, disk, history, bounds
<1>4. CASE PostDirect(r)
  <2>1. builder' \in Seq(Reqs) /\ count' = Len(builder') /\ seen' \subseteq Ids
    BY <1>4, PublishType DEF PostDirect
  <2> QED  BY <1>4, <2>1 DEF TypeOK, PostDirect, disk, history, bounds
<1> QED
    BY <1>1, <1>2, <1>3, <1>4 DEF Post

LEMMA WorkerType ==
    ASSUME TypeOK, WorkerStep
    PROVE  TypeOK'
<1>1. Worker \in Drainers
    BY DEF Drainers
<1>2. CASE WorkerReceive
    BY <1>1, <1>2, ReceiveType DEF WorkerReceive
<1>3. CASE WorkerAppend
    BY <1>1, <1>3, AppendType DEF WorkerAppend
<1>4. CASE WorkerMirror
    BY <1>4, MirrorFacts DEF TypeOK, WorkerMirror, memory, history, bounds
<1>5. CASE WorkerTick
  <2>1. file' \in Seq(Token) /\ buf' \in Seq(Token) /\ Len(buf') <= BufCap
    BY <1>5, ConcatProperties, BufferAssumption DEF TypeOK, WorkerTick
  <2> QED  BY <1>5, <2>1 DEF TypeOK, WorkerTick, memory, history, bounds
<1> QED
    BY <1>2, <1>3, <1>4, <1>5 DEF WorkerStep

LEMMA GetterType ==
    ASSUME TypeOK, NEW g \in Getters, GetterStart(g) \/ GetterStep(g)
    PROVE  TypeOK'
<1>1. g \in Drainers
    BY DEF Drainers
<1>2. CASE GetterStart(g)
    BY <1>1, <1>2 DEF TypeOK, GetterStart, Acked, memory, disk, history, bounds
<1>3. CASE GetterReceive(g)
    BY <1>1, <1>3, ReceiveType DEF GetterReceive
<1>4. CASE GetterAppend(g)
    BY <1>1, <1>4, AppendType DEF GetterAppend
<1>5. CASE GetterWriteBody(g)
  <2>1. hand[g] \in Reqs
    BY <1>1, <1>5 DEF TypeOK, GetterWriteBody
  <2>2. file' \in Seq(Token)
    BY <1>5, <2>1, LineFacts, ConcatProperties DEF TypeOK, GetterWriteBody
  <2> QED  BY <1>1, <1>5, <2>1, <2>2 DEF TypeOK, GetterWriteBody, memory, history, bounds
<1>6. CASE GetterWriteNewline(g)
  <2>1. Tok(hand[g], "newline") \in Token
    BY <1>1, <1>6, LineFacts DEF TypeOK, GetterWriteNewline
  <2>2. file' \in Seq(Token)
    BY <1>6, <2>1, AppendProperties DEF TypeOK, GetterWriteNewline
  <2> QED  BY <1>1, <1>6, <2>2 DEF TypeOK, GetterWriteNewline, memory, history, bounds
<1>7. CASE GetterDrained(g)
    BY <1>1, <1>7 DEF TypeOK, GetterDrained, memory, disk, history, bounds
<1>8. CASE GetterReply(g)
    BY <1>1, <1>8 DEF TypeOK, GetterReply, memory, disk, history, bounds
<1> QED
    BY <1>2, <1>3, <1>4, <1>5, <1>6, <1>7, <1>8 DEF GetterStep

\* The requests whose tokens are somewhere are requests.
LEMMA UnreachedType ==
    ASSUME TypeOK
    PROVE  Unreached \subseteq Reqs /\ ReqsOf(buf) \subseteq Reqs /\ ReqsOf(file) \subseteq Reqs
<1>1. Range(buf) \subseteq Token /\ Range(file) \subseteq Token
    BY RangeOfSeq DEF TypeOK
<1>2. ReqsOf(buf) \subseteq Reqs /\ ReqsOf(file) \subseteq Reqs
    BY <1>1 DEF ReqsOf, Token
<1>3. InkedHands \subseteq Reqs
    BY DEF TypeOK, InkedHands, Writing
<1> QED
    BY <1>2, <1>3 DEF Unreached

LEMMA ResetType ==
    ASSUME TypeOK, ResetStart \/ ResetStep
    PROVE  TypeOK'
<1>1. CASE ResetStart
    BY <1>1, ConstantsAssumption DEF TypeOK, ResetStart, Acked, memory, disk
<1>2. CASE ResetDrain
  <2>1. Head(msgChan) \in Reqs /\ Tail(msgChan) \in Seq(Reqs) /\ Len(Tail(msgChan)) <= ChanCap
    <3>1. msgChan \in Seq(Reqs) /\ Len(msgChan) <= ChanCap /\ msgChan # <<>> /\ Len(msgChan) \in Nat
      BY <1>2, LenProperties DEF TypeOK, ResetDrain
    <3> QED  BY <3>1, HeadTailRange, ConstantsAssumption
  <2> QED  BY <1>2, <2>1 DEF TypeOK, ResetDrain, memory, disk, bounds
<1>3. CASE ResetDrained
    BY <1>3 DEF TypeOK, ResetDrained, memory, disk, history, bounds
<1>4. CASE ResetClear
  <2>1. Range(builder) \subseteq Reqs /\ <<>> \in Seq(Reqs) /\ <<>> \in Seq(Token) /\ Len(<<>>) = 0
    BY RangeOfSeq DEF TypeOK
  <2>2. Unreached \subseteq Reqs
    BY UnreachedType
  <2> QED  BY <1>4, <2>1, <2>2 DEF TypeOK, ResetClear, bounds
<1> QED
    BY <1>1, <1>2, <1>3, <1>4 DEF ResetStep

LEMMA CrashType ==
    ASSUME TypeOK, CrashRestart
    PROVE  TypeOK'
<1>1. file \in Seq(Token) /\ file' = file
    BY DEF TypeOK, CrashRestart
<1>2. /\ Recovered(file) \in Seq(Reqs)
      /\ Cardinality(Kept(file)) = Len(Recovered(file))
      /\ Recoverable(file) \subseteq Reqs
    BY <1>1, RecoveredFacts
<1>3. seen' \subseteq Ids
    BY <1>2, ConstantsAssumption DEF CrashRestart
<1>4. lost' \subseteq Reqs
    BY DEF TypeOK, CrashRestart, Acked
<1>5. /\ <<>> \in Seq(Reqs) /\ <<>> \in Seq(Token) /\ Len(<<>>) = 0
    OBVIOUS
<1>6. pc' \in [Drainers -> {"idle"}] /\ hand' \in [Drainers -> {NoReq}]
    BY DEF CrashRestart
<1>7. status' \in [Reqs -> {"new", "rejected", "direct", "acked", "bypassed", "aborted"}]
    BY DEF TypeOK, CrashRestart
<1>8. crashes' \in 0 .. MaxCrashes
    BY ConstantsAssumption DEF TypeOK, CrashRestart
<1> QED
    BY <1>1, <1>2, <1>3, <1>4, <1>5, <1>6, <1>7, <1>8, ConstantsAssumption, BufferAssumption
    DEF TypeOK, CrashRestart

LEMMA TypeStep == TypeOK /\ [Next]_vars => TypeOK'
<1> SUFFICES ASSUME TypeOK, [Next]_vars PROVE TypeOK'
    OBVIOUS
<1>1. CASE Next
    BY <1>1, PostType, WorkerType, GetterType, ResetType, CrashType DEF Next
<1>2. CASE UNCHANGED vars
    BY <1>2 DEF TypeOK, vars, memory, disk, history, bounds
<1> QED
    BY <1>1, <1>2

\* Every behaviour keeps TypeOK: among it, that the channel never exceeds its
\* capacity, the worker's buffer never its size, and that the reported count
\* is the length of the feed.
THEOREM TypeCorrect == Spec => []TypeOK
    BY TypeInit, TypeStep, PTL DEF Spec

-----------------------------------------------------------------------------
(***************************************************************************)
(* The inductive invariant.                                                *)
(***************************************************************************)
OnPaper == {t.req : t \in Range(file) \union Range(buf)}

\* Only acknowledged requests are anywhere.
KnownAcked ==
    /\ Held \subseteq Acked
    /\ Gone \subseteq Acked
    /\ doomed \subseteq Acked
    /\ \A g \in Getters : owed[g] \subseteq Acked

\* What is written, or about to be, has been published before.
Written == OnPaper \union InkedHands \subseteq Range(builder) \union Gone

IInv ==
    /\ TypeOK /\ KnownAcked /\ HeldOnce /\ NothingVanishes
    /\ DrainedFeed /\ DrainedReset /\ Written /\ BackupComplete

\* A step that moves no request between channel, hands and feed.
Quiet ==
    /\ Acked' = Acked
    /\ UNCHANGED <<msgChan, builder, purged, lost>>
    /\ \A e \in Drainers : pc'[e] = "append" <=> pc[e] = "append"
    /\ \A e \in Drainers : pc[e] = "append" => hand'[e] = hand[e]

LEMMA QuietFacts ==
    ASSUME IInv, Quiet
    PROVE  /\ Carried' = Carried /\ Held' = Held /\ Gone' = Gone /\ Range(builder)' = Range(builder)
           /\ HeldOnce' /\ NothingVanishes'
<1>1. Carried' = Carried
    BY DEF Quiet, Carried, Carrying
<1>2. Held' = Held /\ Gone' = Gone /\ Range(builder)' = Range(builder)
    BY <1>1 DEF Quiet, Held, Gone
<1>3. HeldOnce'
    BY <1>1 DEF IInv, Quiet, HeldOnce, Carrying
<1>4. NothingVanishes'
    BY <1>2 DEF IInv, Quiet, NothingVanishes
<1> QED
    BY <1>1, <1>2, <1>3, <1>4

\* What a receive moves, for worker, handlers and, without a hand, a reset.
LEMMA ChannelHead ==
    ASSUME IInv, msgChan # <<>>, msgChan' = Tail(msgChan)
    PROVE  /\ Head(msgChan) \in Reqs
           /\ Range(msgChan) = {Head(msgChan)} \union Range(msgChan')
           /\ IsInjective(msgChan')
           /\ Head(msgChan) \notin Range(msgChan') \union Carried \union Range(builder)
    BY HeadTailRange DEF IInv, TypeOK, HeldOnce

\* Worker or handler takes a message: it moves from the channel to a hand.
LEMMA ReceiveStep ==
    ASSUME IInv, NEW d \in Drainers, pc[d] \in {"idle", "drain"}, Receive(d)
    PROVE  /\ KnownAcked' /\ HeldOnce' /\ NothingVanishes'
           /\ DrainedFeed' /\ DrainedReset' /\ Written' /\ BackupComplete'
<1> DEFINE h == Head(msgChan)
<1>1. /\ h \in Reqs
      /\ Range(msgChan) = {h} \union Range(msgChan')
      /\ IsInjective(msgChan')
      /\ h \notin Range(msgChan') \union Carried \union Range(builder)
    BY ChannelHead DEF Receive
<1> HIDE DEF h
<1>2. /\ \A e \in Drainers \ {d} : pc'[e] = pc[e] /\ hand'[e] = hand[e]
      /\ pc'[d] = "append" /\ hand'[d] = h
      /\ UNCHANGED <<status, builder, purged, lost, doomed, owed, file, buf, shmOpen, resetPc>>
    BY DEF Receive, IInv, TypeOK, memory, disk, history, h
<1>3. Carried' = Carried \union {h}
    BY <1>2 DEF Carried, Carrying
<1>4. Acked' = Acked /\ Held' = Held /\ Gone' = Gone
    BY <1>1, <1>2, <1>3 DEF Acked, Held, Gone
<1>5. KnownAcked'
    BY <1>2, <1>4 DEF IInv, KnownAcked
<1>6. HeldOnce'
  <2>1. IsInjective(msgChan)' /\ IsInjective(builder)'
    BY <1>1, <1>2 DEF IInv, HeldOnce
  <2>2. (Range(msgChan) \intersect Range(builder))' = {}
    BY <1>1, <1>2 DEF IInv, HeldOnce
  <2>3. (Carried \intersect (Range(msgChan) \union Range(builder)))' = {}
    BY <1>1, <1>2, <1>3 DEF IInv, HeldOnce
  <2>4. \A e \in Drainers : Carrying(e) => hand[e] # h
    BY <1>1 DEF Carried
  <2>5. ASSUME NEW e \in Drainers, NEW f \in Drainers, Carrying(e)', Carrying(f)', hand'[e] = hand'[f]
        PROVE  e = f
    BY <1>2, <2>4, <2>5 DEF IInv, HeldOnce, Carrying
  <2> QED  BY <2>1, <2>2, <2>3, <2>5 DEF HeldOnce
<1>7. NothingVanishes'
    BY <1>4 DEF IInv, NothingVanishes
<1>8. DrainedFeed' /\ DrainedReset'
    BY <1>2, <1>3, <1>4 DEF IInv, DrainedFeed, DrainedReset, Drainers
<1>9. Written'
    BY <1>2, <1>4 DEF IInv, Written, OnPaper, InkedHands, Writing
<1>10. BackupComplete'
    BY <1>2 DEF IInv, BackupComplete
<1> QED
    BY <1>5, <1>6, <1>7, <1>8, <1>9, <1>10

\* The append under the lock: the message moves from the hand to the feed.
LEMMA AppendStep ==
    ASSUME IInv, NEW d \in Drainers, NEW mirror \in {"mirror", "body"},
           NEW loop \in {"idle", "drain"}, AppendThen(d, mirror, loop)
    PROVE  /\ KnownAcked' /\ HeldOnce' /\ NothingVanishes'
           /\ DrainedFeed' /\ DrainedReset' /\ Written' /\ BackupComplete'
<1> DEFINE h == hand[d]
<1>1. h \in Reqs /\ h \in Carried /\ Carrying(d)
    BY DEF IInv, TypeOK, AppendThen, Carried, Carrying
<1>2. h \notin Range(msgChan) \union Range(builder)
    BY <1>1 DEF IInv, HeldOnce
<1>3. /\ Range(builder') = Range(builder) \union {h}
      /\ IsInjective(builder')
    BY <1>1, <1>2, RangeAppend, InjectiveAppend DEF IInv, TypeOK, HeldOnce, AppendThen, Publish
<1>4. /\ \A e \in Drainers \ {d} : pc'[e] = pc[e]
      /\ pc'[d] = IF shmOpen THEN mirror ELSE loop
      /\ UNCHANGED <<status, msgChan, hand, purged, lost, doomed, owed, file, buf, shmOpen, resetPc>>
    BY DEF AppendThen, IInv, TypeOK, disk, history
<1>5. pc'[d] # "append" /\ pc'[d] # "snapshot" /\ pc[d] = "append"
    BY <1>4 DEF AppendThen
<1>6. \A e \in Drainers : Carrying(e)' <=> Carrying(e) /\ e # d
    BY <1>4, <1>5 DEF Carrying
<1>7. Carried' = Carried \ {h}
  <2>1. \A e \in Drainers : Carrying(e) /\ hand[e] = h => e = d
    BY <1>1 DEF IInv, HeldOnce
  <2> QED  BY <1>4, <1>6, <2>1 DEF Carried
<1> HIDE DEF h
<1>8. Acked' = Acked /\ Held' = Held /\ Gone' = Gone
    BY <1>1, <1>3, <1>4, <1>7 DEF Acked, Held, Gone
<1>9. KnownAcked'
    BY <1>4, <1>8 DEF IInv, KnownAcked
<1>10. HeldOnce'
  <2>1. IsInjective(msgChan)' /\ IsInjective(builder)'
    BY <1>3, <1>4 DEF IInv, HeldOnce
  <2>2. (Range(msgChan) \intersect Range(builder))' = {}
    BY <1>2, <1>3, <1>4 DEF IInv, HeldOnce
  <2>3. (Carried \intersect (Range(msgChan) \union Range(builder)))' = {}
    BY <1>3, <1>4, <1>7 DEF IInv, HeldOnce
  <2>4. (\A e, f \in Drainers : Carrying(e) /\ Carrying(f) /\ hand[e] = hand[f] => e = f)'
    BY <1>4, <1>6 DEF IInv, HeldOnce
  <2> QED  BY <2>1, <2>2, <2>3, <2>4 DEF HeldOnce
<1>11. NothingVanishes'
    BY <1>8 DEF IInv, NothingVanishes
<1>12. DrainedFeed' /\ DrainedReset'
  <2>1. Range(builder) \union Carried \union Gone \subseteq (Range(builder) \union Carried \union Gone)'
    BY <1>3, <1>7, <1>8
  <2>2. \A g \in Getters : pc'[g] = "snapshot" => pc[g] = "snapshot"
    BY <1>4, <1>5 DEF Drainers
  <2> QED  BY <1>4, <2>1, <2>2 DEF IInv, DrainedFeed, DrainedReset
<1>13. Written'
  <2>1. OnPaper' = OnPaper
    BY <1>4 DEF OnPaper
  <2>2. InkedHands' \subseteq InkedHands \union {h}
    BY <1>4 DEF InkedHands, Writing, h
  <2> QED  BY <1>3, <1>8, <2>1, <2>2 DEF IInv, Written
<1>14. BackupComplete'
  <2> SUFFICES ASSUME NEW r \in Range(builder)', shmOpen', status'[r] = "acked"
               PROVE  \/ Range(BodyOf(r)) \subseteq Range(file') \union Range(buf')
                      \/ \E e \in Drainers : pc'[e] \in {"mirror", "body"} /\ hand'[e] = r
    BY DEF BackupComplete
  <2>1. CASE r = h
    BY <1>4, <2>1 DEF h
  <2>2. CASE r # h
    <3>1. r \in Range(builder) /\ shmOpen /\ status[r] = "acked"
      BY <1>3, <1>4, <2>2
    <3>2. \/ Range(BodyOf(r)) \subseteq Range(file) \union Range(buf)
          \/ \E e \in Drainers : pc[e] \in {"mirror", "body"} /\ hand[e] = r
      BY <3>1 DEF IInv, BackupComplete
    <3> QED  BY <1>4, <1>5, <3>2
  <2> QED  BY <2>1, <2>2
<1> QED
    BY <1>9, <1>10, <1>11, <1>12, <1>13, <1>14

\* POST /message: the request enters the channel or, past it, the feed.
LEMMA PostStep ==
    ASSUME IInv, NEW r \in Reqs, Post(r)
    PROVE  /\ KnownAcked' /\ HeldOnce' /\ NothingVanishes'
           /\ DrainedFeed' /\ DrainedReset' /\ Written' /\ BackupComplete'
<1>1. /\ UNCHANGED <<pc, hand, shmOpen, buf, file, resetPc, owed, doomed, purged, lost>>
      /\ r \notin Acked
      /\ \A q \in Acked : status'[q] = status[q]
    BY DEF Post, PostReject, PostEnqueue, PostOverflow, PostDirect, Acked, memory, disk, history,
           IInv, TypeOK
<1>2. Carried' = Carried /\ Gone' = Gone
    BY <1>1 DEF Carried, Carrying, Gone
<1>3. r \notin Held /\ r \notin Gone /\ Range(builder) \subseteq Acked
    BY <1>1 DEF IInv, KnownAcked, Held
<1>4. /\ Acked' \subseteq Acked \union {r} /\ Acked \subseteq Acked'
      /\ IsInjective(msgChan)' /\ IsInjective(builder)'
      /\ \/ /\ Acked' = Acked /\ Range(msgChan)' = Range(msgChan) /\ Range(builder)' = Range(builder)
         \/ /\ r \in Acked' /\ Range(msgChan)' = Range(msgChan) \union {r}
            /\ Range(builder)' = Range(builder)
         \/ /\ r \in Acked' /\ Range(msgChan)' = Range(msgChan)
            /\ Range(builder)' = Range(builder) \union {r} /\ status'[r] # "acked"
  <2>1. CASE PostReject(r)
    BY <2>1 DEF PostReject, Acked, memory, IInv, TypeOK, HeldOnce
  <2>2. CASE PostEnqueue(r)
    <3>1. r \notin Range(msgChan)
      BY <1>3 DEF Held
    <3>2. Range(msgChan)' = Range(msgChan) \union {r} /\ IsInjective(msgChan)'
      BY <2>2, <3>1, RangeAppend, InjectiveAppend DEF PostEnqueue, IInv, TypeOK, HeldOnce
    <3>3. Acked' = Acked \union {r}
      BY <2>2 DEF PostEnqueue, Acked, IInv, TypeOK
    <3> QED  BY <2>2, <3>2, <3>3 DEF PostEnqueue, memory, IInv, HeldOnce
  <2>3. CASE PostOverflow(r)
    BY <2>3 DEF PostOverflow, Acked, memory, IInv, TypeOK, HeldOnce
  <2>4. CASE PostDirect(r)
    <3>1. r \notin Range(builder)
      BY <1>3 DEF Held
    <3>2. Range(builder)' = Range(builder) \union {r} /\ IsInjective(builder)'
      BY <2>4, <3>1, RangeAppend, InjectiveAppend DEF PostDirect, Publish, IInv, TypeOK, HeldOnce
    <3>3. Acked' = Acked \union {r} /\ status'[r] # "acked"
      BY <2>4 DEF PostDirect, Acked, IInv, TypeOK
    <3> QED  BY <2>4, <3>2, <3>3 DEF PostDirect, IInv, HeldOnce
  <2> QED  BY <2>1, <2>2, <2>3, <2>4 DEF Post
<1>5. KnownAcked'
    BY <1>1, <1>2, <1>4 DEF IInv, KnownAcked, Held
<1>6. HeldOnce'
  <2>1. (Range(msgChan) \intersect Range(builder))' = {}
    BY <1>3, <1>4 DEF IInv, HeldOnce, Held
  <2>2. (Carried \intersect (Range(msgChan) \union Range(builder)))' = {}
    BY <1>2, <1>3, <1>4 DEF IInv, HeldOnce, Held
  <2>3. (\A e, f \in Drainers : Carrying(e) /\ Carrying(f) /\ hand[e] = hand[f] => e = f)'
    BY <1>1 DEF IInv, HeldOnce, Carrying
  <2> QED  BY <1>4, <2>1, <2>2, <2>3 DEF HeldOnce
<1>7. NothingVanishes'
    BY <1>2, <1>4 DEF IInv, NothingVanishes, Held
<1>8. DrainedFeed' /\ DrainedReset'
    BY <1>1, <1>2, <1>4 DEF IInv, DrainedFeed, DrainedReset
<1>9. Written'
  <2>1. OnPaper' = OnPaper /\ InkedHands' = InkedHands
    BY <1>1 DEF OnPaper, InkedHands, Writing
  <2> QED  BY <1>2, <1>4, <2>1 DEF IInv, Written
<1>10. BackupComplete'
  <2> SUFFICES ASSUME NEW q \in Range(builder)', shmOpen', status'[q] = "acked"
               PROVE  \/ Range(BodyOf(q)) \subseteq Range(file') \union Range(buf')
                      \/ \E e \in Drainers : pc'[e] \in {"mirror", "body"} /\ hand'[e] = q
    BY DEF BackupComplete
  <2>1. q \in Range(builder)
    BY <1>4
  <2>2. status[q] = "acked"
    BY <1>1, <1>3, <2>1
  <2> QED  BY <1>1, <2>1, <2>2 DEF IInv, BackupComplete
<1> QED
    BY <1>5, <1>6, <1>7, <1>8, <1>9, <1>10

\* The four writes: only the file, the worker's buffer and a hand change, and
\* what leaves the hand is on paper.
LEMMA WriteStep ==
    ASSUME IInv, TypeOK', NEW d \in Drainers,
           \/ d = Worker /\ (WorkerMirror \/ WorkerTick)
           \/ d \in Getters /\ (GetterWriteBody(d) \/ GetterWriteNewline(d))
    PROVE  /\ KnownAcked' /\ HeldOnce' /\ NothingVanishes'
           /\ DrainedFeed' /\ DrainedReset' /\ Written' /\ BackupComplete'
           /\ OnPaper' \subseteq OnPaper \union InkedHands
<1> DEFINE Paper == Range(file) \union Range(buf)
<1>1. /\ UNCHANGED <<status, msgChan, builder, hand, shmOpen, resetPc, owed, doomed, purged, lost>>
      /\ \A e \in Drainers \ {d} : pc'[e] = pc[e]
      /\ pc'[d] \in {"idle", "drain", "newline"}
      /\ pc[d] \in {"idle", "mirror", "body", "newline"}
      /\ pc'[d] = "newline" => pc[d] = "body"
    BY DEF WorkerMirror, WorkerTick, GetterWriteBody, GetterWriteNewline, memory, history,
           IInv, TypeOK
<1>2. Acked' = Acked
    BY <1>1 DEF Acked
<1>3. Quiet
    BY <1>1, <1>2 DEF Quiet
<1>4. Carried' = Carried /\ Held' = Held /\ Gone' = Gone /\ HeldOnce' /\ NothingVanishes'
    BY <1>3, QuietFacts
<1>5. KnownAcked'
    BY <1>1, <1>2, <1>4 DEF IInv, KnownAcked
<1>6. DrainedFeed' /\ DrainedReset'
    BY <1>1, <1>4 DEF IInv, DrainedFeed, DrainedReset, Drainers
\* The paper grows by tokens of the line in hand, by its whole body if the
\* hand is past "mirror" and "body".
<1>7. /\ Paper \subseteq Paper'
      /\ pc[d] = "idle" => Paper' = Paper
      /\ pc[d] # "idle" => \A t \in Paper' \ Paper : t.req = hand[d]
      /\ pc[d] \in {"mirror", "body"} => Range(BodyOf(hand[d])) \subseteq Paper'
  <2>1. CASE d = Worker /\ WorkerMirror
    <3>1. hand[Worker] \in Reqs /\ Paper' = Paper \union Range(LineOf(hand[Worker]))
      BY <2>1, MirrorFacts DEF IInv
    <3>2. pc[Worker] = "mirror"
      BY <2>1 DEF WorkerMirror
    <3> HIDE DEF Paper
    <3> QED  BY <2>1, <3>1, <3>2, LineFacts
  <2>2. CASE d = Worker /\ WorkerTick
    <3>1. file \in Seq(Token) /\ buf \in Seq(Token)
      BY DEF IInv, TypeOK
    <3>2. Range(file \o buf) = Range(file) \union Range(buf)
      BY <3>1, RangeConcatenation, Zenon
    <3>3. Range(<<>>) = {}
      BY DEF Range
    <3>4. Paper' = Paper /\ pc[d] = "idle"
      BY <2>2, <3>2, <3>3 DEF WorkerTick
    <3> QED  BY <3>4
  <2>3. CASE d \in Getters /\ GetterWriteBody(d)
    <3>1. file \in Seq(Token) /\ hand[d] \in Reqs /\ pc[d] = "body"
      BY <2>3 DEF IInv, TypeOK, GetterWriteBody
    <3>2. BodyOf(hand[d]) \in Seq(Token)
      BY <3>1, LineFacts
    <3>3. Range(file \o BodyOf(hand[d])) = Range(file) \union Range(BodyOf(hand[d]))
      BY <3>1, <3>2, RangeConcatenation, Zenon
    <3>4. Paper' = Paper \union Range(BodyOf(hand[d]))
      BY <2>3, <3>3 DEF GetterWriteBody
    <3> HIDE DEF Paper
    <3> QED  BY <3>1, <3>4, LineFacts
  <2>4. CASE d \in Getters /\ GetterWriteNewline(d)
    <3>1. file \in Seq(Token) /\ hand[d] \in Reqs /\ pc[d] = "newline"
      BY <2>4 DEF IInv, TypeOK, GetterWriteNewline
    <3>2. Tok(hand[d], "newline") \in Token /\ Tok(hand[d], "newline").req = hand[d]
      BY <3>1, LineFacts
    <3>3. Range(Append(file, Tok(hand[d], "newline"))) = Range(file) \union {Tok(hand[d], "newline")}
      BY <3>1, <3>2, RangeAppend
    <3>4. Paper' = Paper \union {Tok(hand[d], "newline")}
      BY <2>4, <3>3 DEF GetterWriteNewline
    <3> HIDE DEF Paper
    <3> QED  BY <3>1, <3>2, <3>4
  <2> QED  BY <2>1, <2>2, <2>3, <2>4
<1> HIDE DEF Paper
<1>8. OnPaper' \subseteq OnPaper \union InkedHands
  <2>1. pc[d] # "idle" => hand[d] \in InkedHands
    BY <1>1 DEF InkedHands, Writing
  <2>2. OnPaper = {t.req : t \in Paper} /\ OnPaper' = {t.req : t \in Paper'}
    BY DEF OnPaper, Paper
  <2> QED  BY <1>7, <2>1, <2>2
<1>9. Written'
  <2>1. InkedHands' \subseteq InkedHands
    BY <1>1 DEF InkedHands, Writing
  <2> QED  BY <1>1, <1>4, <1>8, <2>1 DEF IInv, Written
<1>10. BackupComplete'
  <2> SUFFICES ASSUME NEW q \in Range(builder)', shmOpen', status'[q] = "acked"
               PROVE  \/ Range(BodyOf(q)) \subseteq Paper'
                      \/ \E e \in Drainers : pc'[e] \in {"mirror", "body"} /\ hand'[e] = q
    BY DEF BackupComplete, Paper
  <2>1. \/ Range(BodyOf(q)) \subseteq Paper
        \/ \E e \in Drainers : pc[e] \in {"mirror", "body"} /\ hand[e] = q
    BY <1>1 DEF IInv, BackupComplete, Paper
  <2> QED  BY <1>1, <1>7, <2>1
<1> QED
    BY <1>4, <1>5, <1>6, <1>8, <1>9, <1>10

\* The steps that only move a control point or record history.
LEMMA ControlStep ==
    ASSUME IInv, TypeOK',
           \/ \E g \in Getters : GetterStart(g) \/ GetterDrained(g) \/ GetterReply(g)
           \/ ResetStart \/ ResetDrained
    PROVE  /\ KnownAcked' /\ HeldOnce' /\ NothingVanishes'
           /\ DrainedFeed' /\ DrainedReset' /\ Written' /\ BackupComplete'
<1>1. /\ UNCHANGED <<status, msgChan, builder, hand, shmOpen, buf, file, purged, lost>>
      /\ \A e \in Drainers : \/ pc'[e] = pc[e]
                             \/ pc[e] \in {"idle", "drain", "snapshot"} /\ pc'[e] \in {"idle", "drain", "snapshot"}
  <2>1. ASSUME NEW g \in Getters, GetterStart(g) \/ GetterDrained(g) \/ GetterReply(g)
        PROVE  /\ pc[g] \in {"idle", "drain", "snapshot"}
               /\ \E p \in {"idle", "drain", "snapshot"} : pc' = [pc EXCEPT ![g] = p]
    BY <2>1 DEF GetterStart, GetterDrained, GetterReply
  <2>2. (ResetStart \/ ResetDrained) => pc' = pc
    BY DEF ResetStart, ResetDrained
  <2>3. pc \in [Drainers -> {"idle", "drain", "append", "mirror", "body", "newline", "snapshot"}]
    BY DEF IInv, TypeOK
  <2>4. UNCHANGED <<status, msgChan, builder, hand, shmOpen, buf, file, purged, lost>>
    BY DEF GetterStart, GetterDrained, GetterReply, ResetStart, ResetDrained, memory, disk, history
  <2>5. ASSUME NEW g \in Getters, GetterStart(g) \/ GetterDrained(g) \/ GetterReply(g), NEW e \in Drainers
        PROVE  \/ pc'[e] = pc[e]
               \/ pc[e] \in {"idle", "drain", "snapshot"} /\ pc'[e] \in {"idle", "drain", "snapshot"}
    <3>1. PICK p \in {"idle", "drain", "snapshot"} : pc' = [pc EXCEPT ![g] = p]
      BY <2>1, <2>5
    <3>2. pc[g] \in {"idle", "drain", "snapshot"}
      BY <2>1, <2>5
    <3> QED  BY <2>3, <3>1, <3>2
  <2>6. ASSUME NEW e \in Drainers
        PROVE  \/ pc'[e] = pc[e]
               \/ pc[e] \in {"idle", "drain", "snapshot"} /\ pc'[e] \in {"idle", "drain", "snapshot"}
    <3>1. CASE ResetStart \/ ResetDrained
      BY <2>2, <3>1
    <3>2. CASE \E g \in Getters : GetterStart(g) \/ GetterDrained(g) \/ GetterReply(g)
      BY <2>5, <3>2
    <3> QED  BY <3>1, <3>2
  <2> QED  BY <2>4, <2>6
<1>2. Acked' = Acked
    BY <1>1 DEF Acked
<1>3. Quiet
    BY <1>1, <1>2 DEF Quiet
<1>4. Carried' = Carried /\ Held' = Held /\ Gone' = Gone /\ HeldOnce' /\ NothingVanishes'
    BY <1>3, QuietFacts
<1>5. KnownAcked'
  <2>1. doomed' \subseteq Acked
    BY DEF GetterStart, GetterDrained, GetterReply, ResetStart, ResetDrained, history, IInv, KnownAcked
  <2>2. \A g \in Getters : owed'[g] \subseteq Acked
    <3>1. owed \in [Getters -> SUBSET Reqs] /\ \A g \in Getters : owed[g] \subseteq Acked
      BY DEF IInv, TypeOK, KnownAcked
    <3>2. ASSUME NEW g \in Getters, GetterStart(g) \/ GetterDrained(g) \/ GetterReply(g)
          PROVE  \E s \in SUBSET Acked : owed' = owed \/ owed' = [owed EXCEPT ![g] = s]
      <4>1. Acked \ (purged \union lost) \in SUBSET Acked /\ {} \in SUBSET Acked
        OBVIOUS
      <4> QED  BY <3>2, <4>1 DEF GetterStart, GetterDrained, GetterReply
    <3>3. (ResetStart \/ ResetDrained) => owed' = owed
      BY DEF ResetStart, ResetDrained
    <3> QED  BY <3>1, <3>2, <3>3
  <2> QED  BY <1>2, <1>4, <2>1, <2>2 DEF IInv, KnownAcked
<1>6. msgChan = <<>> => Acked \subseteq Range(builder) \union Carried \union Gone
  <2>1. Range(<<>>) = {}
    BY DEF Range
  <2> QED  BY <2>1 DEF IInv, NothingVanishes, Held
<1>7. DrainedFeed'
  <2> SUFFICES ASSUME NEW g \in Getters, pc'[g] = "snapshot"
               PROVE  owed'[g] \subseteq (Range(builder) \union Carried \union Gone)'
    BY DEF DrainedFeed
  <2>1. CASE pc[g] = "snapshot" /\ owed'[g] = owed[g]
    BY <1>1, <1>4, <2>1 DEF IInv, DrainedFeed
  <2>2. CASE GetterDrained(g)
    <3>1. owed' = owed /\ msgChan = <<>>
      BY <2>2 DEF GetterDrained
    <3> QED  BY <1>1, <1>4, <1>6, <3>1 DEF IInv, KnownAcked
  <2>3. GetterDrained(g) \/ (pc[g] = "snapshot" /\ owed'[g] = owed[g])
    BY DEF GetterStart, GetterDrained, GetterReply, ResetStart, ResetDrained, Drainers, IInv, TypeOK
  <2> QED  BY <2>1, <2>2, <2>3
<1>8. DrainedReset'
  <2> SUFFICES ASSUME resetPc' = "clear"
               PROVE  doomed' \subseteq (Range(builder) \union Carried \union Gone)'
    BY DEF DrainedReset
  <2>1. CASE ResetDrained
    <3>1. doomed' = doomed /\ msgChan = <<>>
      BY <2>1 DEF ResetDrained, history
    <3> QED  BY <1>1, <1>4, <1>6, <3>1 DEF IInv, KnownAcked
  <2>2. CASE resetPc = "clear" /\ doomed' = doomed
    BY <1>1, <1>4, <2>2 DEF IInv, DrainedReset
  <2>3. ResetDrained \/ (resetPc = "clear" /\ doomed' = doomed)
    BY DEF GetterStart, GetterDrained, GetterReply, ResetStart, history
  <2> QED  BY <2>1, <2>2, <2>3
<1>9. Written'
  <2>1. OnPaper' = OnPaper /\ InkedHands' = InkedHands
    BY <1>1 DEF OnPaper, InkedHands, Writing
  <2> QED  BY <1>1, <1>4, <2>1 DEF IInv, Written
<1>10. BackupComplete'
    BY <1>1 DEF IInv, BackupComplete
<1> QED
    BY <1>4, <1>5, <1>7, <1>8, <1>9, <1>10

\* A reset takes a message out of the channel, or wipes feed and file.
LEMMA ResetRemoves ==
    ASSUME IInv, ResetDrain \/ ResetClear
    PROVE  /\ KnownAcked' /\ HeldOnce' /\ NothingVanishes'
           /\ DrainedFeed' /\ DrainedReset' /\ Written' /\ BackupComplete'
<1>1. /\ UNCHANGED <<status, pc, hand, shmOpen, buf, owed, lost>>
      /\ purged \subseteq purged'
      /\ doomed' \subseteq doomed
      /\ Range(file') \subseteq Range(file)
  <2>1. Range(<<>>) = {}
    BY DEF Range
  <2> QED  BY <2>1 DEF ResetDrain, ResetClear, memory, disk, bounds
<1>2. Acked' = Acked /\ Carried' = Carried
    BY <1>1 DEF Acked, Carried, Carrying
<1>3. /\ Range(builder)' \union Gone' = Range(builder) \union Gone \union (Gone' \ Gone)
      /\ Held' \union Gone' = Held \union Gone
      /\ Range(msgChan') \subseteq Range(msgChan) /\ Range(builder') \subseteq Range(builder)
      /\ IsInjective(msgChan') /\ IsInjective(builder')
      /\ shmOpen /\ Range(builder') # {} => file' = file
  <2>1. CASE ResetDrain
    <3>1. /\ Range(msgChan) = {Head(msgChan)} \union Range(msgChan')
          /\ IsInjective(msgChan')
      BY <2>1, ChannelHead DEF ResetDrain
    <3>2. builder' = builder /\ file' = file /\ Gone' = Gone \union {Head(msgChan)}
      BY <2>1 DEF ResetDrain, memory, disk, Gone
    <3> QED  BY <1>2, <3>1, <3>2 DEF IInv, HeldOnce, Held
  <2>2. CASE ResetClear
    <3>1. builder' = <<>> /\ msgChan' = msgChan /\ Gone' = Gone \union Range(builder)
      BY <2>2 DEF ResetClear, Gone
    <3>2. Range(builder') = {} /\ IsInjective(builder')
      BY <3>1 DEF Range, IsInjective
    <3> QED  BY <1>2, <3>1, <3>2 DEF IInv, HeldOnce, Held
  <2> QED  BY <2>1, <2>2
<1>4. KnownAcked'
    BY <1>1, <1>2, <1>3 DEF IInv, KnownAcked
<1>5. HeldOnce'
    BY <1>1, <1>2, <1>3 DEF IInv, HeldOnce, Carrying
<1>6. NothingVanishes'
    BY <1>2, <1>3 DEF IInv, NothingVanishes
<1>7. DrainedFeed' /\ DrainedReset'
  <2>1. resetPc' = "clear" => resetPc = "clear"
    BY DEF ResetDrain, ResetClear
  <2>2. Range(builder) \union Carried \union Gone \subseteq (Range(builder) \union Carried \union Gone)'
    BY <1>2, <1>3
  <2> QED  BY <1>1, <2>1, <2>2 DEF IInv, DrainedFeed, DrainedReset
<1>8. Written'
    BY <1>1, <1>3 DEF IInv, Written, OnPaper, InkedHands, Writing
<1>9. BackupComplete'
    BY <1>1, <1>3 DEF IInv, BackupComplete
<1> QED
    BY <1>4, <1>5, <1>6, <1>7, <1>8, <1>9

\* A restart: the feed is what the file yields, everything else is lost.
LEMMA CrashStep ==
    ASSUME IInv, CrashRestart
    PROVE  /\ KnownAcked' /\ HeldOnce' /\ NothingVanishes'
           /\ DrainedFeed' /\ DrainedReset' /\ Written' /\ BackupComplete'
<1>1. file \in Seq(Token) /\ file' = file /\ builder' = Recovered(file) /\ msgChan' = <<>> /\ buf' = <<>>
    BY DEF IInv, TypeOK, CrashRestart
<1>2. /\ \A d \in Drainers : pc'[d] = "idle"
      /\ resetPc' = "idle" /\ doomed' = {} /\ \A g \in Getters : owed'[g] = {}
      /\ purged' = purged /\ lost' = lost \union (Acked \ Recoverable(file))
    BY DEF CrashRestart
<1>3. Acked' = Acked
    BY DEF CrashRestart, Acked
<1>4. /\ IsInjective(builder')
      /\ Range(builder') = Recoverable(file)
      /\ \A r \in Recoverable(file) : Range(BodyOf(r)) \subseteq Range(file')
    BY <1>1, RecoveredFacts
<1>5. Range(msgChan') = {} /\ IsInjective(msgChan') /\ Carried' = {} /\ InkedHands' = {}
    BY <1>1, <1>2 DEF Range, IsInjective, Carried, Carrying, InkedHands, Writing
<1>6. Gone \subseteq Gone' /\ Acked \subseteq Recoverable(file) \union Gone'
      /\ Gone' \subseteq Gone \union Acked
    BY <1>2 DEF Gone
<1>7. Recoverable(file) \subseteq Acked
  <2>1. Recoverable(file) \subseteq OnPaper
    BY DEF Recoverable, Kept, OnPaper, Range
  <2>2. OnPaper \subseteq Range(builder) \union Gone
    BY DEF IInv, Written
  <2> QED  BY <2>1, <2>2 DEF IInv, KnownAcked, Held
<1>8. KnownAcked'
    BY <1>2, <1>3, <1>4, <1>5, <1>6, <1>7 DEF IInv, KnownAcked, Held
<1>9. HeldOnce'
    BY <1>2, <1>4, <1>5 DEF HeldOnce, Carrying
<1>10. NothingVanishes'
    BY <1>3, <1>4, <1>6 DEF NothingVanishes, Held
<1>11. DrainedFeed' /\ DrainedReset'
  <2>1. \A g \in Getters : pc'[g] = "idle"
    BY <1>2 DEF Drainers
  <2> QED  BY <1>2, <2>1 DEF DrainedFeed, DrainedReset
<1>12. Written'
  <2>1. OnPaper' \subseteq OnPaper
    BY <1>1 DEF OnPaper, Range
  <2>2. OnPaper \subseteq Acked
    BY DEF IInv, Written, KnownAcked, Held
  <2> QED  BY <1>4, <1>5, <1>6, <2>1, <2>2 DEF Written
<1>13. BackupComplete'
    BY <1>4 DEF BackupComplete
<1> QED
    BY <1>8, <1>9, <1>10, <1>11, <1>12, <1>13

LEMMA IInvInit == Init => IInv
<1> SUFFICES ASSUME Init PROVE IInv
    OBVIOUS
<1>1. TypeOK
    BY TypeInit
<1>2. Range(<<>>) = {} /\ IsInjective(<<>>)
    BY DEF Range, IsInjective
<1>3. /\ msgChan = <<>> /\ builder = <<>> /\ buf = <<>> /\ file = <<>>
      /\ purged = {} /\ lost = {} /\ doomed = {} /\ resetPc = "idle"
      /\ \A d \in Drainers : pc[d] = "idle"
      /\ \A g \in Getters : owed[g] = {} /\ pc[g] = "idle"
      /\ Acked = {}
    BY DEF Init, Acked, Drainers
<1>4. Carried = {} /\ Held = {} /\ Gone = {} /\ OnPaper = {} /\ InkedHands = {}
    BY <1>2, <1>3 DEF Carried, Carrying, Held, Gone, OnPaper, InkedHands, Writing
<1>5. KnownAcked /\ NothingVanishes /\ Written
    BY <1>3, <1>4 DEF KnownAcked, NothingVanishes, Written
<1>6. HeldOnce
    BY <1>2, <1>3, <1>4 DEF HeldOnce, Carrying
<1>7. DrainedFeed /\ DrainedReset /\ BackupComplete
    BY <1>2, <1>3 DEF DrainedFeed, DrainedReset, BackupComplete
<1> QED
    BY <1>1, <1>5, <1>6, <1>7 DEF IInv

\* Inductive step: one case per action.
LEMMA IInvStep == IInv /\ [Next]_vars => IInv'
<1> SUFFICES ASSUME IInv, [Next]_vars PROVE IInv'
    OBVIOUS
<1>1. TypeOK'
    BY TypeStep DEF IInv
<1> DEFINE Rest == /\ KnownAcked /\ HeldOnce /\ NothingVanishes
                   /\ DrainedFeed /\ DrainedReset /\ Written /\ BackupComplete
<1> SUFFICES Rest'
    BY <1>1 DEF IInv
<1>2. CASE \E r \in Reqs : Post(r)
    BY <1>2, PostStep
<1>3. CASE WorkerStep
  <2>1. Worker \in Drainers
    BY DEF Drainers
  <2>2. WorkerReceive => Rest'
    BY <2>1, ReceiveStep DEF WorkerReceive
  <2>3. WorkerAppend => Rest'
    BY <2>1, AppendStep DEF WorkerAppend
  <2>4. WorkerMirror \/ WorkerTick => Rest'
    BY <1>1, <2>1, WriteStep
  <2> QED  BY <1>3, <2>2, <2>3, <2>4 DEF WorkerStep
<1>4. ASSUME NEW g \in Getters, GetterStart(g) \/ GetterStep(g) PROVE Rest'
  <2>1. g \in Drainers
    BY DEF Drainers
  <2>2. GetterReceive(g) => Rest'
    BY <2>1, ReceiveStep DEF GetterReceive
  <2>3. GetterAppend(g) => Rest'
    BY <2>1, AppendStep DEF GetterAppend
  <2>4. GetterWriteBody(g) \/ GetterWriteNewline(g) => Rest'
    BY <1>1, <2>1, WriteStep
  <2>5. GetterStart(g) \/ GetterDrained(g) \/ GetterReply(g) => Rest'
    BY <1>1, ControlStep
  <2> QED  BY <1>4, <2>2, <2>3, <2>4, <2>5 DEF GetterStep
<1>5. CASE ResetStart \/ ResetStep
    BY <1>1, <1>5, ControlStep, ResetRemoves DEF ResetStep
<1>6. CASE CrashRestart
    BY <1>6, CrashStep
<1>7. CASE UNCHANGED vars
  <2>1. Carried' = Carried /\ Held' = Held /\ Gone' = Gone /\ Acked' = Acked
        /\ OnPaper' = OnPaper /\ InkedHands' = InkedHands
    BY <1>7 DEF vars, memory, disk, history, Carried, Carrying, Held, Gone, Acked, OnPaper, InkedHands, Writing
  <2> QED
    BY <1>7, <2>1 DEF IInv, vars, memory, disk, history, KnownAcked, HeldOnce, NothingVanishes,
       DrainedFeed, DrainedReset, Written, BackupComplete, Carrying
<1> QED
    BY <1>2, <1>3, <1>4, <1>5, <1>6, <1>7 DEF Next

\* What holds of channel, feed, buffer and file in every behaviour.
THEOREM Invariance == Spec => []IInv
    BY IInvInit, IInvStep, PTL DEF Spec

-----------------------------------------------------------------------------
(***************************************************************************)
(* The properties of FeedStore, for every instance.                        *)
(***************************************************************************)

\* No message is ever in two places, and none is in the feed twice: no
\* interleaving of worker, GET handlers, overflowing posts, resets and
\* restarts duplicates one.
THEOREM NeverTwice == Spec => []HeldOnce
<1>1. IInv => HeldOnce
    BY DEF IInv
<1> QED
    BY <1>1, Invariance, PTL

\* An acknowledged message stays held until a reset purges or a crash loses
\* it.
THEOREM Conservation == Spec => []NothingVanishes
<1>1. IInv => NothingVanishes
    BY DEF IInv
<1> QED
    BY <1>1, Invariance, PTL

\* A GET or a reset that has stopped draining misses at most what other
\* drainers carry.
THEOREM EmptyIsDrained == Spec => []Drained
<1>1. IInv => Drained
    BY DEF IInv, Drained
<1> QED
    BY <1>1, Invariance, PTL

\* A restart brings back nothing that was never in the feed, and what was
\* published through the channel is written or about to be.
THEOREM BackupInStep == Spec => []BackupFaithful
<1>1. IInv => BackupHonest
  <2>1. Recoverable(file) \subseteq OnPaper
    BY DEF Recoverable, Kept, OnPaper, Range
  <2> QED  BY <2>1 DEF IInv, Written, BackupHonest
<1>2. IInv => BackupComplete
    BY DEF IInv
<1>3. IInv => BackupFaithful
    BY <1>1, <1>2 DEF BackupFaithful
<1> QED
    BY <1>3, Invariance, PTL
-----------------------------------------------------------------------------
(***************************************************************************)
(* What a reset leaves behind.                                             *)
(***************************************************************************)

\* What is gone is neither in the channel nor on its way to the feed, and of
\* the purged only the late are in the feed, in the file or about to be written.
LateOnly ==
    /\ Gone \intersect (Range(msgChan) \union Carried) = {}
    /\ purged \intersect (Range(builder) \union OnPaper \union InkedHands) \subseteq late

\* Steps that purge nothing and bring no gone message anywhere.
LEMMA LateKept ==
    ASSUME IInv, LateOnly, UNCHANGED <<purged, late, lost>>,
           NEW new \in SUBSET Reqs, new \intersect Gone = {},
           Range(msgChan') \subseteq Range(msgChan) \union new,
           Carried' \subseteq Carried \union new,
           Range(builder') \subseteq Range(builder) \union new,
           OnPaper' \subseteq OnPaper \union InkedHands,
           InkedHands' \subseteq InkedHands \union new
    PROVE  LateOnly'
    BY DEF LateOnly, Gone

LEMMA LatePost ==
    ASSUME IInv, LateOnly, NEW r \in Reqs, Post(r)
    PROVE  LateOnly'
<1>1. r \notin Gone
    BY DEF Post, PostReject, PostEnqueue, PostOverflow, PostDirect, IInv, KnownAcked, Acked
<1>2. UNCHANGED <<pc, hand, file, buf, purged, late, lost>>
    BY DEF Post, PostReject, PostEnqueue, PostOverflow, PostDirect, memory, disk, history
<1>3. Carried' = Carried /\ OnPaper' = OnPaper /\ InkedHands' = InkedHands
    BY <1>2 DEF Carried, Carrying, OnPaper, InkedHands, Writing
<1>4. /\ Range(msgChan') \subseteq Range(msgChan) \union {r}
      /\ Range(builder') \subseteq Range(builder) \union {r}
  <2>1. msgChan' = msgChan \/ msgChan' = Append(msgChan, r)
    BY DEF Post, PostReject, PostEnqueue, PostOverflow, PostDirect
  <2>2. builder' = builder \/ builder' = Append(builder, r)
    BY DEF Post, PostReject, PostEnqueue, PostOverflow, PostDirect, Publish, memory
  <2>3. msgChan \in Seq(Reqs) /\ builder \in Seq(Reqs)
    BY DEF IInv, TypeOK
  <2>4. /\ Range(Append(msgChan, r)) = Range(msgChan) \union {r}
        /\ Range(Append(builder, r)) = Range(builder) \union {r}
    BY <2>3, RangeAppend
  <2> QED  BY <2>1, <2>2, <2>4
<1>5. {r} \in SUBSET Reqs /\ {r} \intersect Gone = {}
    BY <1>1
<1>6. Carried' \subseteq Carried \union {r} /\ InkedHands' \subseteq InkedHands \union {r}
      /\ OnPaper' \subseteq OnPaper \union InkedHands
    BY <1>3
<1> QED
    BY <1>2, <1>4, <1>5, <1>6, LateKept

LEMMA LateReceive ==
    ASSUME IInv, LateOnly, NEW d \in Drainers, pc[d] \in {"idle", "drain"}, Receive(d)
    PROVE  LateOnly'
<1>1. Range(msgChan) = {Head(msgChan)} \union Range(msgChan')
    BY ChannelHead DEF Receive
<1>2. UNCHANGED <<builder, file, buf, purged, late, lost>>
    BY DEF Receive, memory, disk, history
<1>3. /\ \A e \in Drainers \ {d} : pc'[e] = pc[e] /\ hand'[e] = hand[e]
      /\ pc'[d] = "append" /\ hand'[d] = Head(msgChan)
    BY DEF Receive, IInv, TypeOK
<1>4. Carried' \subseteq Carried \union {Head(msgChan)} /\ InkedHands' \subseteq InkedHands
    BY <1>3 DEF Carried, Carrying, InkedHands, Writing
<1>5. OnPaper' = OnPaper
    BY <1>2 DEF OnPaper
<1> QED
    BY <1>1, <1>2, <1>4, <1>5 DEF LateOnly, Gone

LEMMA LateAppend ==
    ASSUME IInv, LateOnly, NEW d \in Drainers, NEW mirror \in {"mirror", "body"},
           NEW loop \in {"idle", "drain"}, AppendThen(d, mirror, loop)
    PROVE  LateOnly'
<1>1. hand[d] \in Reqs /\ hand[d] \in Carried
    BY DEF IInv, TypeOK, AppendThen, Carried, Carrying
<1>2. hand[d] \notin Gone
    BY <1>1 DEF LateOnly
<1>3. Range(builder') = Range(builder) \union {hand[d]}
    BY <1>1, RangeAppend DEF IInv, TypeOK, AppendThen, Publish
<1>4. /\ UNCHANGED <<msgChan, hand, file, buf, purged, late, lost>>
      /\ \A e \in Drainers \ {d} : pc'[e] = pc[e]
      /\ pc'[d] # "append"
    BY DEF AppendThen, IInv, TypeOK, disk, history
<1>5. /\ Carried' \subseteq Carried
      /\ InkedHands' \subseteq InkedHands \union {hand[d]}
      /\ OnPaper' = OnPaper
    BY <1>4 DEF Carried, Carrying, InkedHands, Writing, OnPaper
<1>6. {hand[d]} \in SUBSET Reqs /\ {hand[d]} \intersect Gone = {}
    BY <1>1, <1>2
<1>7. /\ Range(msgChan') \subseteq Range(msgChan) \union {hand[d]}
      /\ Carried' \subseteq Carried \union {hand[d]}
      /\ Range(builder') \subseteq Range(builder) \union {hand[d]}
      /\ OnPaper' \subseteq OnPaper \union InkedHands
    BY <1>3, <1>4, <1>5
<1> QED
    BY <1>4, <1>5, <1>6, <1>7, LateKept

LEMMA LateWrite ==
    ASSUME IInv, TypeOK', LateOnly, NEW d \in Drainers,
           \/ d = Worker /\ (WorkerMirror \/ WorkerTick)
           \/ d \in Getters /\ (GetterWriteBody(d) \/ GetterWriteNewline(d))
    PROVE  LateOnly'
<1>1. /\ UNCHANGED <<msgChan, builder, hand, purged, late, lost>>
      /\ \A e \in Drainers \ {d} : pc'[e] = pc[e]
      /\ pc'[d] \in {"idle", "drain", "newline"}
      /\ pc'[d] = "newline" => pc[d] = "body"
    BY DEF WorkerMirror, WorkerTick, GetterWriteBody, GetterWriteNewline, memory, history,
           IInv, TypeOK
<1>2. Carried' \subseteq Carried /\ InkedHands' \subseteq InkedHands
    BY <1>1 DEF Carried, Carrying, InkedHands, Writing
<1>3. OnPaper' \subseteq OnPaper \union InkedHands
    BY WriteStep
<1>4. {} \in SUBSET Reqs /\ {} \intersect Gone = {}
    OBVIOUS
<1>5. /\ Range(msgChan') \subseteq Range(msgChan) \union {}
      /\ Range(builder') \subseteq Range(builder) \union {}
      /\ Carried' \subseteq Carried \union {} /\ InkedHands' \subseteq InkedHands \union {}
    BY <1>1, <1>2
<1> QED
    BY <1>1, <1>3, <1>4, <1>5, LateKept

LEMMA LateControl ==
    ASSUME IInv, LateOnly,
           \/ \E g \in Getters : GetterStart(g) \/ GetterDrained(g) \/ GetterReply(g)
           \/ ResetStart \/ ResetDrained
    PROVE  LateOnly'
<1>1. UNCHANGED <<msgChan, builder, hand, file, buf, purged, late, lost>>
    BY DEF GetterStart, GetterDrained, GetterReply, ResetStart, ResetDrained, memory, disk, history
<1>2. \A e \in Drainers : \/ pc'[e] = pc[e]
                           \/ pc'[e] \in {"drain", "snapshot", "idle"}
  <2>1. ASSUME NEW g \in Getters, GetterStart(g) \/ GetterDrained(g) \/ GetterReply(g), NEW e \in Drainers
        PROVE  pc'[e] = pc[e] \/ pc'[e] \in {"drain", "snapshot", "idle"}
    BY <2>1 DEF GetterStart, GetterDrained, GetterReply, IInv, TypeOK
  <2> QED  BY <2>1 DEF ResetStart, ResetDrained
<1>3. Carried' \subseteq Carried /\ InkedHands' \subseteq InkedHands /\ OnPaper' = OnPaper
    BY <1>1, <1>2 DEF Carried, Carrying, InkedHands, Writing, OnPaper
<1>4. {} \in SUBSET Reqs /\ {} \intersect Gone = {}
    OBVIOUS
<1>5. /\ Range(msgChan') \subseteq Range(msgChan) \union {}
      /\ Range(builder') \subseteq Range(builder) \union {}
      /\ Carried' \subseteq Carried \union {} /\ InkedHands' \subseteq InkedHands \union {}
      /\ OnPaper' \subseteq OnPaper \union InkedHands
    BY <1>1, <1>3
<1> QED
    BY <1>1, <1>4, <1>5, LateKept

\* The purge itself: the drained were never published, and of the published
\* exactly the late remain on paper.
LEMMA LateReset ==
    ASSUME IInv, LateOnly, ResetDrain \/ ResetClear
    PROVE  LateOnly'
<1>1. UNCHANGED <<pc, hand, buf, lost>>
    BY DEF ResetDrain, ResetClear, disk
<1>2. Carried' = Carried /\ InkedHands' = InkedHands
    BY <1>1 DEF Carried, Carrying, InkedHands, Writing
<1>3. CASE ResetDrain
  <2>1. /\ Range(msgChan) = {Head(msgChan)} \union Range(msgChan')
        /\ Head(msgChan) \notin Range(msgChan') \union Carried \union Range(builder)
    BY <1>3, ChannelHead DEF ResetDrain
  <2>2. /\ builder' = builder /\ file' = file /\ late' = late
        /\ purged' = purged \union {Head(msgChan)}
    BY <1>3 DEF ResetDrain, memory, disk
  <2>3. OnPaper' = OnPaper
    BY <1>1, <2>2 DEF OnPaper
  <2>4. Head(msgChan) \notin Range(builder) \union OnPaper \union InkedHands
    BY <2>1 DEF IInv, Written, LateOnly
  <2> QED  BY <1>1, <1>2, <2>1, <2>2, <2>3, <2>4 DEF LateOnly, Gone
<1>4. CASE ResetClear
  <2>1. /\ builder' = <<>> /\ msgChan' = msgChan
        /\ file' = IF shmOpen THEN <<>> ELSE file
        /\ purged' = purged \union Range(builder) /\ late' = late \union Unreached
    BY <1>4 DEF ResetClear
  <2>2. Range(<<>>) = {}
    BY DEF Range
  <2>3. OnPaper' \union InkedHands' \subseteq Unreached
    BY <1>1, <1>2, <2>1, <2>2 DEF OnPaper, Unreached, ReqsOf
  <2> QED  BY <1>1, <1>2, <2>1, <2>2, <2>3 DEF LateOnly, Gone, IInv, HeldOnce
<1> QED
    BY <1>3, <1>4

LEMMA LateCrash ==
    ASSUME IInv, LateOnly, CrashRestart
    PROVE  LateOnly'
<1>1. /\ file \in Seq(Token) /\ file' = file /\ buf' = <<>> /\ msgChan' = <<>>
      /\ builder' = Recovered(file) /\ purged' = purged /\ late' = late
      /\ \A d \in Drainers : pc'[d] = "idle"
    BY DEF IInv, TypeOK, CrashRestart
<1>2. Range(<<>>) = {}
    BY DEF Range
<1>3. Range(builder') \subseteq OnPaper
  <2>1. Range(builder') = Recoverable(file)
    BY <1>1, RecoveredFacts
  <2> QED  BY <2>1 DEF Recoverable, Kept, OnPaper, Range
<1>4. OnPaper' \subseteq OnPaper /\ InkedHands' = {} /\ Carried' = {}
    BY <1>1, <1>2 DEF OnPaper, InkedHands, Writing, Carried, Carrying
<1> QED
    BY <1>1, <1>2, <1>3, <1>4 DEF LateOnly

LEMMA LateStep == IInv /\ LateOnly /\ [Next]_vars => LateOnly'
<1> SUFFICES ASSUME IInv, LateOnly, [Next]_vars PROVE LateOnly'
    OBVIOUS
<1>1. TypeOK'
    BY TypeStep DEF IInv
<1>2. CASE \E r \in Reqs : Post(r)
    BY <1>2, LatePost
<1>3. CASE WorkerStep
  <2>1. Worker \in Drainers
    BY DEF Drainers
  <2>2. WorkerReceive => LateOnly'
    BY <2>1, LateReceive DEF WorkerReceive
  <2>3. WorkerAppend => LateOnly'
    BY <2>1, LateAppend DEF WorkerAppend
  <2>4. WorkerMirror \/ WorkerTick => LateOnly'
    BY <1>1, <2>1, LateWrite
  <2> QED  BY <1>3, <2>2, <2>3, <2>4 DEF WorkerStep
<1>4. ASSUME NEW g \in Getters, GetterStart(g) \/ GetterStep(g) PROVE LateOnly'
  <2>1. g \in Drainers
    BY DEF Drainers
  <2>2. GetterReceive(g) => LateOnly'
    BY <2>1, LateReceive DEF GetterReceive
  <2>3. GetterAppend(g) => LateOnly'
    BY <2>1, LateAppend DEF GetterAppend
  <2>4. GetterWriteBody(g) \/ GetterWriteNewline(g) => LateOnly'
    BY <1>1, <2>1, LateWrite
  <2>5. GetterStart(g) \/ GetterDrained(g) \/ GetterReply(g) => LateOnly'
    BY LateControl
  <2> QED  BY <1>4, <2>2, <2>3, <2>4, <2>5 DEF GetterStep
<1>5. CASE ResetStart \/ ResetStep
    BY <1>5, LateControl, LateReset DEF ResetStep
<1>6. CASE CrashRestart
    BY <1>6, LateCrash
<1>7. CASE UNCHANGED vars
  <2>1. UNCHANGED <<msgChan, builder, pc, hand, file, buf, purged, late, lost>>
    BY <1>7 DEF vars, memory, disk, history
  <2>2. Carried' = Carried /\ InkedHands' = InkedHands /\ OnPaper' = OnPaper /\ Gone' = Gone
    BY <2>1 DEF Carried, Carrying, InkedHands, Writing, OnPaper, Gone
  <2> QED  BY <2>1, <2>2 DEF LateOnly
<1> QED
    BY <1>2, <1>3, <1>4, <1>5, <1>6, <1>7 DEF Next

\* A message that a reset purged is shown again only if its line was in the
\* worker's buffer, in a hand or in a file that was not open when the reset
\* truncated the file: nothing else a restart or a drainer does brings it back.
THEOREM OnlyLateReturn == Spec => []PurgedReturnOnlyLate
<1>1. Init => LateOnly
  <2> SUFFICES ASSUME Init PROVE LateOnly
    OBVIOUS
  <2>1. Range(<<>>) = {}
    BY DEF Range
  <2>2. purged = {} /\ lost = {}
    BY DEF Init
  <2> QED  BY <2>1, <2>2 DEF LateOnly, Gone
<1>2. LateOnly => PurgedReturnOnlyLate
    BY DEF LateOnly, PurgedReturnOnlyLate
<1> QED
    BY <1>1, <1>2, LateStep, Invariance, PTL DEF Spec
-----------------------------------------------------------------------------
(***************************************************************************)
(* FeedStore implements AbstractFeed.  Receives, writes and control steps  *)
(* are stutters; the post, the append, the drain, the clear and the        *)
(* restart are the abstract actions.                                       *)
(***************************************************************************)
Direct == {r \in Reqs : status[r] = "direct"}

\* A request past the channel is nowhere else.
LEMMA DirectApart ==
    ASSUME IInv
    PROVE  Direct \intersect Held = {}
    BY DEF IInv, KnownAcked, Acked, Direct

LEMMA MapInit == Init => Abs!Init
<1> SUFFICES ASSUME Init PROVE Abs!Init
    OBVIOUS
<1>1. /\ \A r \in Reqs : status[r] = "new"
      /\ \A d \in Drainers : pc[d] = "idle"
      /\ msgChan = <<>> /\ builder = <<>> /\ crashes = 0
    BY DEF Init
<1>2. Taken = {} /\ Waiting = {}
    BY <1>1 DEF Taken, Waiting, Carried, Carrying, Range
<1> QED
    BY <1>1, <1>2 DEF Abs!Init

\* Steps the abstract feed does not see.
LEMMA MapStutter ==
    ASSUME UNCHANGED <<Taken, Waiting, builder, crashes>>
    PROVE  UNCHANGED Abs!vars
    BY DEF Abs!vars

LEMMA MapPost ==
    ASSUME IInv, NEW r \in Reqs, Post(r)
    PROVE  Abs!Next \/ UNCHANGED Abs!vars
<1>1. UNCHANGED <<pc, hand, crashes>> /\ status \in [Reqs -> {"new", "rejected", "direct", "acked", "bypassed", "aborted"}]
    BY DEF Post, PostReject, PostEnqueue, PostOverflow, PostDirect, bounds, IInv, TypeOK
<1>2. Carried' = Carried
    BY <1>1 DEF Carried, Carrying
<1>3. CASE PostReject(r)
  <2>1. UNCHANGED <<msgChan, builder>> /\ Taken' = Taken /\ Direct' = Direct
    BY <1>1, <1>3 DEF PostReject, Taken, Direct, memory
  <2> QED  BY <1>1, <1>2, <2>1, MapStutter DEF Waiting, Direct
<1>4. CASE PostEnqueue(r)
  <2>1. r \notin Taken /\ Taken' = Taken \union {r} /\ Direct' = Direct /\ builder' = builder
    BY <1>1, <1>4 DEF PostEnqueue, Taken, Direct, memory
  <2>2. Range(msgChan') = Range(msgChan) \union {r}
    BY <1>4, RangeAppend DEF PostEnqueue, IInv, TypeOK
  <2>3. Waiting' = Waiting \union {r}
    BY <1>2, <2>1, <2>2 DEF Waiting, Direct
  <2> QED  BY <1>1, <2>1, <2>3 DEF Abs!Next, Abs!Accept
<1>5. CASE PostOverflow(r)
  <2>1. /\ r \notin Taken /\ Taken' = Taken \union {r} /\ Direct' = Direct \union {r}
        /\ UNCHANGED <<msgChan, builder>>
    BY <1>1, <1>5 DEF PostOverflow, Taken, Direct, memory
  <2>2. Waiting' = Waiting \union {r}
    BY <1>2, <2>1 DEF Waiting, Direct
  <2> QED  BY <1>1, <2>1, <2>2 DEF Abs!Next, Abs!Accept
<1>6. CASE PostDirect(r)
  <2>1. /\ r \in Direct /\ Taken' = Taken /\ Direct' = Direct \ {r}
        /\ msgChan' = msgChan /\ builder' = Append(builder, r)
    BY <1>1, <1>6 DEF PostDirect, Publish, Taken, Direct
  <2>2. r \notin Range(msgChan) /\ r \notin Carried
    BY <2>1, DirectApart DEF Held
  <2>3. r \in Waiting /\ Waiting' = Waiting \ {r}
    BY <1>2, <2>1, <2>2 DEF Waiting, Direct
  <2> QED  BY <1>1, <2>1, <2>3 DEF Abs!Next, Abs!Publish
<1> QED
    BY <1>3, <1>4, <1>5, <1>6 DEF Post

LEMMA MapReceive ==
    ASSUME IInv, NEW d \in Drainers, pc[d] \in {"idle", "drain"}, Receive(d)
    PROVE  UNCHANGED Abs!vars
<1>1. Range(msgChan) = {Head(msgChan)} \union Range(msgChan')
    BY ChannelHead DEF Receive
<1>2. UNCHANGED <<status, builder, crashes>>
    BY DEF Receive, memory, bounds
<1>3. /\ \A e \in Drainers \ {d} : pc'[e] = pc[e] /\ hand'[e] = hand[e]
      /\ pc'[d] = "append" /\ hand'[d] = Head(msgChan)
    BY DEF Receive, IInv, TypeOK
<1>4. Carried' = Carried \union {Head(msgChan)}
    BY <1>3 DEF Carried, Carrying
<1>5. Waiting' = Waiting /\ Taken' = Taken
    BY <1>1, <1>2, <1>4 DEF Waiting, Taken
<1> QED
    BY <1>2, <1>5, MapStutter

LEMMA MapAppend ==
    ASSUME IInv, NEW d \in Drainers, NEW mirror \in {"mirror", "body"},
           NEW loop \in {"idle", "drain"}, AppendThen(d, mirror, loop)
    PROVE  Abs!Next
<1>1. hand[d] \in Reqs /\ hand[d] \in Carried /\ Carrying(d)
    BY DEF IInv, TypeOK, AppendThen, Carried, Carrying
<1>2. /\ UNCHANGED <<status, msgChan, hand, crashes>>
      /\ \A e \in Drainers \ {d} : pc'[e] = pc[e]
      /\ pc'[d] # "append"
      /\ builder' = Append(builder, hand[d])
    BY DEF AppendThen, Publish, IInv, TypeOK, bounds
<1>3. \A e \in Drainers : Carrying(e) /\ hand[e] = hand[d] => e = d
    BY <1>1 DEF IInv, HeldOnce
<1>4. Carried' = Carried \ {hand[d]}
    BY <1>2, <1>3 DEF Carried, Carrying
<1>5. hand[d] \notin Range(msgChan) /\ hand[d] \notin Direct
    BY <1>1, DirectApart DEF IInv, HeldOnce, Held
<1>6. Taken' = Taken /\ hand[d] \in Waiting /\ Waiting' = Waiting \ {hand[d]}
    BY <1>1, <1>2, <1>4, <1>5 DEF Taken, Waiting, Direct
<1> QED
    BY <1>1, <1>2, <1>6 DEF Abs!Next, Abs!Publish

\* Writes, control steps and the start of a reset.
LEMMA MapQuiet ==
    ASSUME IInv, NEW d \in Drainers,
           \/ d = Worker /\ (WorkerMirror \/ WorkerTick)
           \/ /\ d \in Getters
              /\ \/ GetterStart(d) \/ GetterWriteBody(d) \/ GetterWriteNewline(d)
                 \/ GetterDrained(d) \/ GetterReply(d)
           \/ ResetStart \/ ResetDrained
    PROVE  UNCHANGED Abs!vars
<1>1. UNCHANGED <<status, msgChan, builder, hand, crashes>>
    BY DEF WorkerMirror, WorkerTick, GetterStart, GetterWriteBody, GetterWriteNewline, GetterDrained,
           GetterReply, ResetStart, ResetDrained, memory, bounds
<1>2. \A e \in Drainers : pc'[e] = "append" <=> pc[e] = "append"
  <2>1. pc \in [Drainers -> {"idle", "drain", "append", "mirror", "body", "newline", "snapshot"}]
    BY DEF IInv, TypeOK
  <2>2. ASSUME \/ d = Worker /\ (WorkerMirror \/ WorkerTick)
               \/ /\ d \in Getters
                  /\ \/ GetterStart(d) \/ GetterWriteBody(d) \/ GetterWriteNewline(d)
                     \/ GetterDrained(d) \/ GetterReply(d)
        PROVE  /\ pc[d] # "append"
               /\ \E p \in {"idle", "drain", "snapshot", "newline"} : pc' = pc \/ pc' = [pc EXCEPT ![d] = p]
    BY <2>2 DEF WorkerMirror, WorkerTick, GetterStart, GetterWriteBody, GetterWriteNewline,
                GetterDrained, GetterReply
  <2>3. ResetStart \/ ResetDrained => pc' = pc
    BY DEF ResetStart, ResetDrained
  <2> QED  BY <2>1, <2>2, <2>3
<1>3. Carried' = Carried
    BY <1>1, <1>2 DEF Carried, Carrying
<1>4. Waiting' = Waiting /\ Taken' = Taken
    BY <1>1, <1>3 DEF Waiting, Taken
<1> QED
    BY <1>1, <1>4, MapStutter

LEMMA MapReset ==
    ASSUME IInv, ResetDrain \/ ResetClear
    PROVE  Abs!Next
<1>1. UNCHANGED <<status, pc, hand, crashes>>
    BY DEF ResetDrain, ResetClear, bounds
<1>2. Carried' = Carried /\ Taken' = Taken /\ Direct' = Direct
    BY <1>1 DEF Carried, Carrying, Taken, Direct
<1>3. CASE ResetDrain
  <2>1. /\ Head(msgChan) \in Reqs
        /\ Range(msgChan) = {Head(msgChan)} \union Range(msgChan')
        /\ Head(msgChan) \notin Range(msgChan') \union Carried
    BY <1>3, ChannelHead DEF ResetDrain
  <2>2. Head(msgChan) \notin Direct
    BY <2>1, DirectApart DEF Held
  <2>3. Head(msgChan) \in Waiting /\ Waiting' = Waiting \ {Head(msgChan)}
    BY <1>2, <2>1, <2>2 DEF Waiting, Direct
  <2>4. builder' = builder
    BY <1>3 DEF ResetDrain, memory
  <2> QED  BY <1>1, <1>2, <2>1, <2>3, <2>4 DEF Abs!Next, Abs!Drop
<1>4. CASE ResetClear
  <2>1. builder' = <<>> /\ msgChan' = msgChan
    BY <1>4 DEF ResetClear
  <2>2. Waiting' = Waiting
    BY <1>2, <2>1 DEF Waiting, Direct
  <2> QED  BY <1>1, <1>2, <2>1, <2>2 DEF Abs!Next, Abs!Clear
<1> QED
    BY <1>3, <1>4

LEMMA MapCrash ==
    ASSUME IInv, CrashRestart
    PROVE  Abs!Next
<1>1. /\ file \in Seq(Token) /\ msgChan' = <<>> /\ builder' = Recovered(file)
      /\ crashes' = crashes + 1
      /\ \A d \in Drainers : pc'[d] = "idle"
      /\ \A r \in Reqs : status'[r] = IF status[r] = "direct" THEN "aborted" ELSE status[r]
    BY DEF IInv, TypeOK, CrashRestart
<1>2. Taken' = Taken /\ Direct' = {}
    BY <1>1 DEF Taken, Direct
<1>3. Waiting' = {}
  <2>1. Range(<<>>) = {}
    BY DEF Range
  <2>2. Carried' = {}
    BY <1>1 DEF Carried, Carrying
  <2> QED  BY <1>1, <1>2, <2>1, <2>2 DEF Waiting, Direct
<1>4. IsInjective(builder') /\ Range(builder') = Recoverable(file)
    BY <1>1, RecoveredFacts
<1>5. Recoverable(file) \subseteq Acked
  <2>1. Recoverable(file) \subseteq OnPaper
    BY DEF Recoverable, Kept, OnPaper, Range
  <2> QED  BY <2>1 DEF IInv, Written, KnownAcked, Held
<1>6. Acked \subseteq Taken
    BY DEF Acked, Taken
<1>7. Abs!IsInjective(builder') /\ Abs!Range(builder') = Range(builder')
    BY <1>4 DEF IsInjective, Abs!IsInjective, Range, Abs!Range
<1> QED
    BY <1>1, <1>2, <1>3, <1>4, <1>5, <1>6, <1>7 DEF Abs!Next, Abs!Restart

LEMMA MapStep == IInv /\ [Next]_vars => [Abs!Next]_(Abs!vars)
<1> SUFFICES ASSUME IInv, [Next]_vars PROVE Abs!Next \/ UNCHANGED Abs!vars
    OBVIOUS
<1>1. CASE \E r \in Reqs : Post(r)
    BY <1>1, MapPost
<1>2. CASE WorkerStep
  <2>1. Worker \in Drainers
    BY DEF Drainers
  <2>2. WorkerReceive => UNCHANGED Abs!vars
    BY <2>1, MapReceive DEF WorkerReceive
  <2>3. WorkerAppend => Abs!Next
    BY <2>1, MapAppend DEF WorkerAppend
  <2>4. WorkerMirror \/ WorkerTick => UNCHANGED Abs!vars
    BY <2>1, MapQuiet
  <2> QED  BY <1>2, <2>2, <2>3, <2>4 DEF WorkerStep
<1>3. ASSUME NEW g \in Getters, GetterStart(g) \/ GetterStep(g)
      PROVE  Abs!Next \/ UNCHANGED Abs!vars
  <2>1. g \in Drainers
    BY DEF Drainers
  <2>2. GetterReceive(g) => UNCHANGED Abs!vars
    BY <2>1, MapReceive DEF GetterReceive
  <2>3. GetterAppend(g) => Abs!Next
    BY <2>1, MapAppend DEF GetterAppend
  <2>4. GetterStart(g) \/ GetterWriteBody(g) \/ GetterWriteNewline(g) \/ GetterDrained(g) \/ GetterReply(g)
        => UNCHANGED Abs!vars
    BY <2>1, MapQuiet
  <2> QED  BY <1>3, <2>2, <2>3, <2>4 DEF GetterStep
<1>4. CASE ResetStart \/ ResetStep
  <2>1. Worker \in Drainers
    BY DEF Drainers
  <2> QED  BY <1>4, <2>1, MapQuiet, MapReset DEF ResetStep
<1>5. CASE CrashRestart
    BY <1>5, MapCrash
<1>6. CASE UNCHANGED vars
  <2>1. UNCHANGED <<status, msgChan, builder, pc, hand, crashes>>
    BY <1>6 DEF vars, memory, bounds
  <2>2. Taken' = Taken /\ Waiting' = Waiting
    BY <2>1 DEF Taken, Waiting, Carried, Carrying
  <2> QED  BY <2>1, <2>2, MapStutter
<1> QED
    BY <1>1, <1>2, <1>3, <1>4, <1>5, <1>6 DEF Next

\* Channel, goroutines, locks and file together are the feed of AbstractFeed:
\* each accepted request is published at most once, the feed grows only at its
\* end, and a restart comes back with a selection of what was accepted.
THEOREM Implements == Spec => Refines
<1>1. Init => Abs!Init
    BY MapInit
<1>2. IInv /\ [Next]_vars => [Abs!Next]_(Abs!vars)
    BY MapStep
<1> QED
    BY <1>1, <1>2, Invariance, PTL DEF Spec, Refines, Abs!Spec
=============================================================================
