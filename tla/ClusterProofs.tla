---------------------------- MODULE ClusterProofs ----------------------------
(***************************************************************************)
(* What Cluster guarantees for any number of backends, messages, lost      *)
(* requests, failing writes, crashes and resets, and any sizes of queues   *)
(* and batches.                                                            *)
(***************************************************************************)
EXTENDS Cluster, Integers, SequenceTheorems, FiniteSetTheorems, WellFoundedInduction, TLAPS

-----------------------------------------------------------------------------
(***************************************************************************)
(* Sequences.                                                              *)
(***************************************************************************)
\* The elements of an appended sequence.
LEMMA RangeAppend ==
    ASSUME NEW S, NEW s \in Seq(S), NEW e \in S
    PROVE  Range(Append(s, e)) = Range(s) \union {e}
<1>1. Append(s, e) = s \o <<e>>
    BY AppendIsConcat
<1>2. <<e>> \in Seq(S) /\ Range(<<e>>) = {e}
    BY DEF Range
<1>3. Range(s \o <<e>>) = Range(s) \union Range(<<e>>)
    BY <1>2, RangeConcatenation, ZenonT(60)
<1> QED
    BY <1>1, <1>2, <1>3

\* Taking the head of a sequence moves it out.
LEMMA HeadTailRange ==
    ASSUME NEW S, NEW s \in Seq(S), s # <<>>
    PROVE  /\ Head(s) \in S /\ Head(s) \in Range(s)
           /\ Tail(s) \in Seq(S) /\ Len(Tail(s)) = Len(s) - 1
           /\ Range(s) = {Head(s)} \union Range(Tail(s))
<1> DEFINE r == <<Head(s)>>
           t == Tail(s)
<1>1. /\ Head(s) = s[1] /\ Head(s) \in S /\ t \in Seq(S) /\ Len(t) = Len(s) - 1 /\ Len(s) \in Nat \ {0}
      /\ \A i \in 1 .. Len(t) : t[i] = s[i + 1]
    BY HeadTailProperties, EmptySeq, LenProperties
<1>2. r \in Seq(S) /\ Len(r) = 1 /\ r[1] = s[1] /\ Range(r) = {Head(s)}
    BY <1>1 DEF Range
<1> HIDE DEF r, t
<1>3. r \o t = s
  <2>1. /\ r \o t \in Seq(S) /\ Len(r \o t) = Len(s)
        /\ \A i \in 1 .. Len(s) : (r \o t)[i] = IF i <= 1 THEN r[i] ELSE t[i - 1]
    <3>1. /\ r \o t \in Seq(S) /\ Len(r \o t) = Len(r) + Len(t)
          /\ \A i \in 1 .. Len(r) + Len(t) : (r \o t)[i] = IF i <= Len(r) THEN r[i] ELSE t[i - Len(r)]
      BY <1>1, <1>2, ConcatProperties, ZenonT(60)
    <3>2. Len(r) + Len(t) = Len(s)
      BY <1>1, <1>2
    <3> QED
      BY <1>2, <3>1, <3>2
  <2>2. ASSUME NEW i \in 1 .. Len(s), i > 1 PROVE t[i - 1] = s[i]
    <3>1. i - 1 \in 1 .. Len(t) /\ (i - 1) + 1 = i
      BY <1>1, <2>2
    <3> QED
      BY <1>1, <3>1
  <2>3. \A i \in 1 .. Len(s) : (r \o t)[i] = s[i]
    BY <1>1, <1>2, <2>1, <2>2
  <2> QED
    BY <2>1, <2>3, SeqEqual
<1>4. Range(s) = {Head(s)} \union Range(t)
  <2>1. r \in Seq(S) /\ t \in Seq(S)
    BY <1>1, <1>2
  <2>2. Range(r \o t) = Range(r) \union Range(t)
    BY <2>1, RangeConcatenation
  <2> QED
    BY <1>2, <1>3, <2>2
<1> QED
    BY <1>1, <1>4 DEF t

-----------------------------------------------------------------------------
\* What a reset of the table found at rest stays so.
AtRest == \A p \in settled : step[p] # "new" /\ p \notin OnItsWay

IInv == TypeOK /\ Accounted /\ AtRest /\ SettledStaysGone

\* What the table of b holds, or will when its open transaction ends.
Rows(b) == stored[b] \union committed[b]
OnePerId(S) == \A p, q \in S : IdOf[p] = IdOf[q] => p = q

New == {p \in Posts : step[p] = "new"}
Claimed == {p \in Posts : step[p] = "claimed"}

-----------------------------------------------------------------------------
(***************************************************************************)
(* The shared table.                                                       *)
(***************************************************************************)
\* A set of positive numbers has a least one.
LEMMA LeastNumber ==
    ASSUME NEW K, K \subseteq Nat \ {0}, K # {}
    PROVE  \E k \in K : \A l \in K : k <= l
<1> DEFINE R == StrictSubsetOrdering(Nat)
           T == {K \intersect 1 .. k : k \in K}
<1>1. IsWellFoundedOn(R, FiniteSubsetsOf(Nat))
    BY FS_StrictSubsetOrderingWellFounded
<1>2. T \subseteq FiniteSubsetsOf(Nat) /\ T # {}
  <2>1. ASSUME NEW k \in K PROVE K \intersect 1 .. k \in FiniteSubsetsOf(Nat)
    <3>1. IsFiniteSet(1 .. k)
      BY FS_Interval
    <3>2. IsFiniteSet(K \intersect 1 .. k)
      BY <3>1, FS_Subset
    <3> QED
      BY <3>2 DEF FiniteSubsetsOf
  <2> QED
    BY <2>1
<1> HIDE DEF T
<1>3. PICK x \in T : \A y \in T : ~(<<y, x>> \in R)
    BY <1>1, <1>2, WFMin
<1>4. PICK k \in K : x = K \intersect 1 .. k
    BY DEF T
<1>5. ASSUME NEW l \in K, l < k PROVE FALSE
  <2> DEFINE y == K \intersect 1 .. l
  <2>1. y \in T /\ y \subseteq x /\ k \in x /\ k \notin y
    BY <1>4, <1>5 DEF T
  <2>2. x \in SUBSET Nat /\ y \in SUBSET Nat
    BY <1>4
  <2> HIDE DEF y
  <2>3. <<y, x>> \in R
    BY <2>1, <2>2 DEF StrictSubsetOrdering
  <2> QED
    BY <1>3, <2>1, <2>3
<1> QED
    BY <1>4, <1>5

\* A batch adds its ids and nothing else, and none of them twice.
LEMMA AddFacts ==
    ASSUME table \in Seq(Ids), IsInjective(table), NEW batch_ \in Seq(Ids), Service!Add(batch_)
    PROVE  /\ table' \in Seq(Ids) /\ IsInjective(table')
           /\ Range(table') = Range(table) \union Range(batch_)
<1> DEFINE B == Service!Bringing(table, batch_)
<1>1. PICK at \in Service!BoundedSeq(B, Len(batch_)) :
        /\ Service!Range(at) = B
        /\ \A i, j \in DOMAIN at : i < j => at[i] < at[j]
        /\ table' = table \o [i \in DOMAIN at |-> batch_[at[i]]]
    BY DEF Service!Add
<1>2. /\ Len(batch_) \in Nat /\ DOMAIN batch_ = 1 .. Len(batch_)
      /\ Len(table) \in Nat /\ DOMAIN table = 1 .. Len(table)
      /\ \A k \in 1 .. Len(batch_) : batch_[k] \in Ids
    BY LenProperties, ElementOfSeq
<1>3. B = {k \in 1 .. Len(batch_) : batch_[k] \notin Range(table) /\ \A l \in 1 .. k - 1 : batch_[l] # batch_[k]}
  <2>1. \A t : Service!Range(t) = Range(t)
    BY DEF Service!Range, Range
  <2> QED
    BY <1>2, <2>1 DEF Service!Bringing
<1> HIDE DEF B
<1>4. PICK m \in 0 .. Len(batch_) : at \in [1 .. m -> B]
  <2>1. at \in UNION {[1 .. m -> B] : m \in 0 .. Len(batch_)}
    BY <1>1 DEF Service!BoundedSeq, Service!SeqOf
  <2> QED
    BY <2>1
<1>5. m \in Nat /\ DOMAIN at = 1 .. m /\ B = {at[i] : i \in 1 .. m} /\ \A i \in 1 .. m : at[i] \in B
    BY <1>1, <1>2, <1>4 DEF Service!Range
<1> DEFINE s == [i \in 1 .. m |-> batch_[at[i]]]
<1>6. \A i \in 1 .. m : s[i] \in Ids /\ s[i] = batch_[at[i]]
    BY <1>2, <1>3, <1>5
<1>7. s \in Seq(Ids) /\ Len(s) = m /\ DOMAIN s = 1 .. m /\ table' = table \o s
  <2>1. s \in [1 .. m -> Ids]
    BY <1>6
  <2>2. [i \in DOMAIN at |-> batch_[at[i]]] = s
    BY <1>5
  <2>3. table' = table \o s
    BY <1>1, <2>2
  <2> HIDE DEF s
  <2>4. s \in Seq(Ids) /\ Len(s) = m /\ DOMAIN s = 1 .. m
    BY <1>5, <2>1
  <2> QED
    BY <2>3, <2>4
<1> HIDE DEF s
<1>8. Range(s) = {batch_[k] : k \in B}
  <2>1. Range(s) = {s[i] : i \in 1 .. m}
    BY <1>7 DEF Range
  <2>2. \A i \in 1 .. m : s[i] = batch_[at[i]]
    BY <1>6
  <2>3. ASSUME NEW k \in B PROVE batch_[k] \in Range(s)
    <3>1. PICK i \in 1 .. m : at[i] = k
      BY <1>5
    <3> QED
      BY <2>1, <2>2, <3>1
  <2>4. ASSUME NEW i \in 1 .. m PROVE s[i] \in {batch_[k] : k \in B}
    BY <1>5, <2>2
  <2> QED
    BY <2>1, <2>3, <2>4
\* Every id of the batch has a first mention.
<1>9. Range(table) \union Range(s) = Range(table) \union Range(batch_)
  <2>1. Range(batch_) = {batch_[k] : k \in 1 .. Len(batch_)}
    BY <1>2 DEF Range
  <2>2. ASSUME NEW id \in Range(batch_), id \notin Range(table) PROVE id \in Range(s)
    <3> DEFINE K == {k \in 1 .. Len(batch_) : batch_[k] = id}
    <3>1. K \subseteq Nat \ {0} /\ K # {}
      BY <1>2, <2>1
    <3>2. PICK k \in K : \A l \in K : k <= l
      BY <3>1, LeastNumber
    <3>3. ASSUME NEW l \in 1 .. k - 1, batch_[l] = id PROVE FALSE
      <4>1. l \in K
        BY <1>2, <3>3
      <4> QED
        BY <3>2, <3>3, <4>1
    <3>4. k \in B /\ batch_[k] = id
      BY <1>3, <2>2, <3>3
    <3> QED
      BY <1>8, <3>4
  <2>3. Range(s) \subseteq Range(batch_)
    BY <1>3, <1>8, <2>1
  <2> QED
    BY <2>2, <2>3
<1>10. table' \in Seq(Ids) /\ Range(table') = Range(table) \union Range(batch_)
    BY <1>7, <1>9, RangeConcatenation, ConcatProperties
<1>11. \A i, j \in 1 .. m : s[i] = s[j] => i = j
  <2>1. ASSUME NEW i \in 1 .. m, NEW j \in 1 .. m, i < j PROVE s[i] # s[j]
    <3>1. at[i] < at[j] /\ at[i] \in B /\ at[j] \in B
      BY <1>1, <1>5, <2>1
    <3>2. at[i] \in 1 .. at[j] - 1
      BY <1>2, <1>3, <3>1
    <3> QED
      BY <1>3, <1>6, <3>1, <3>2
  <2>2. \A i, j \in 1 .. m : i < j \/ j < i \/ i = j
    BY <1>5
  <2> QED
    BY <2>1, <2>2
<1>12. \A i \in 1 .. Len(table), j \in 1 .. m : table[i] # s[j]
  <2>1. \A i \in 1 .. Len(table) : table[i] \in Range(table)
    BY <1>2 DEF Range
  <2> QED
    BY <1>3, <1>5, <1>6, <2>1
<1>13. IsInjective(table')
  <2> DEFINE n == Len(table)
  <2>1. /\ DOMAIN table' = 1 .. n + m
        /\ \A i \in 1 .. n + m : table'[i] = IF i <= n THEN table[i] ELSE s[i - n]
    BY <1>7, <1>10, ConcatProperties, LenProperties
  <2> HIDE DEF n
  <2>2. \A i \in 1 .. n + m : (i > n => i - n \in 1 .. m) /\ (i <= n => i \in 1 .. n)
    BY <1>2, <1>5 DEF n
  <2>3. \A i, j \in 1 .. n : table[i] = table[j] => i = j
    BY <1>2 DEF IsInjective, n
  <2> SUFFICES ASSUME NEW i \in 1 .. n + m, NEW j \in 1 .. n + m, table'[i] = table'[j]
               PROVE  i = j
    BY <2>1 DEF IsInjective
  <2>4. CASE i <= n /\ j <= n
    BY <2>1, <2>2, <2>3, <2>4
  <2>5. CASE i <= n /\ j > n
    BY <1>12, <2>1, <2>2, <2>5 DEF n
  <2>6. CASE i > n /\ j <= n
    BY <1>12, <2>1, <2>2, <2>6 DEF n
  <2>7. CASE i > n /\ j > n
    <3>1. s[i - n] = s[j - n] /\ i - n \in 1 .. m /\ j - n \in 1 .. m
      BY <1>2, <2>1, <2>2, <2>7 DEF n
    <3>2. i - n = j - n
      BY <1>11, <3>1
    <3> QED
      BY <1>2, <3>2 DEF n
  <2>8. i \in Int /\ j \in Int /\ n \in Int
    BY <1>2 DEF n
  <2> QED
    BY <2>4, <2>5, <2>6, <2>7, <2>8
<1> QED
    BY <1>10, <1>13

-----------------------------------------------------------------------------
(***************************************************************************)
(* What steps have in common.                                              *)
(***************************************************************************)
\* Inserting takes rows of the batch only, and no id twice.
LEMMA InsertFacts ==
    ASSUME NEW rows \in SUBSET Posts, NEW s \in Seq(Posts),
           OnePerId(rows)
    PROVE  /\ Insert(rows, s) \in SUBSET Posts /\ Insert(rows, s) \subseteq rows \union Range(s)
           /\ OnePerId(Insert(rows, s))
<1>1. DOMAIN s = 1 .. Len(s) /\ Len(s) \in Nat /\ \A i \in 1 .. Len(s) : s[i] \in Posts
    BY LenProperties, ElementOfSeq
<1> DEFINE Taken == {j \in DOMAIN s : IdOf[s[j]] \notin IdsIn(rows) \union {IdOf[s[k]] : k \in 1 .. j - 1}}
<1>2. Insert(rows, s) = rows \union {s[i] : i \in Taken}
    BY DEF Insert
<1>3. \A i \in Taken : i \in 1 .. Len(s) /\ \A p \in rows : IdOf[p] # IdOf[s[i]]
    BY <1>1 DEF IdsIn
<1>4. \A i, j \in Taken : i < j => IdOf[s[i]] # IdOf[s[j]]
    BY <1>1
<1>5. Taken \subseteq 1 .. Len(s)
    BY <1>1
<1> HIDE DEF Taken
<1>6. \A i, j \in Taken : IdOf[s[i]] = IdOf[s[j]] => i = j
  <2>1. \A i, j \in Taken : i \in Nat /\ j \in Nat
    BY <1>1, <1>5
  <2> QED
    BY <1>4, <2>1
<1> QED
    BY <1>1, <1>2, <1>3, <1>5, <1>6 DEF Range, OnePerId

\* The same of a write that raises, whatever the database keeps of it.
LEMMA RaisedFacts ==
    ASSUME TypeOK, NEW a \in Backends, NEW s \in Seq(Posts), NEW t \in Raised(a, s)
    PROVE  t \in SUBSET Posts /\ OnePerId(t) /\ t \subseteq Rows(a) \union Range(s)
<1>1. /\ stored[a] \in SUBSET Posts /\ committed[a] \in SUBSET Posts
      /\ OnePerId(stored[a]) /\ OnePerId(committed[a])
    BY DEF TypeOK, OnePerId
<1>2. CASE t = committed[a]
    BY <1>1, <1>2 DEF Rows
<1>3. ASSUME NEW n \in 0 .. Len(s), t = Insert(stored[a], SubSeq(s, 1, n))
      PROVE  t \in SUBSET Posts /\ OnePerId(t) /\ t \subseteq Rows(a) \union Range(s)
  <2> DEFINE r == SubSeq(s, 1, n)
  <2>1. Len(s) \in Nat /\ n \in Nat /\ DOMAIN s = 1 .. Len(s)
    BY LenProperties
  <2>2. r \in Seq(Posts) /\ DOMAIN r = 1 .. n /\ \A i \in 1 .. n : r[i] = s[i] /\ i \in 1 .. Len(s)
    BY <2>1
  <2> HIDE DEF r
  <2>3. Range(r) \subseteq Range(s)
    BY <2>1, <2>2 DEF Range
  <2>4. t \in SUBSET Posts /\ OnePerId(t) /\ t \subseteq stored[a] \union Range(r)
    <3>1. t = Insert(stored[a], r)
      BY <1>3 DEF r
    <3> QED
      BY <1>1, <2>2, <3>1, InsertFacts
  <2> QED
    BY <2>3, <2>4 DEF Rows
<1> QED
    BY <1>2, <1>3 DEF Raised

\* A new table at one backend, committed or in the open transaction.
LEMMA NewTable ==
    ASSUME TypeOK, NEW a \in Backends, NEW t \in SUBSET Posts, OnePerId(t), stored' = [stored EXCEPT ![a] = t],
           committed' = committed \/ committed' = [committed EXCEPT ![a] = t]
    PROVE  /\ stored' \in [Backends -> SUBSET Posts] /\ committed' \in [Backends -> SUBSET Posts]
           /\ \A b \in Backends : OnePerId(stored'[b]) /\ OnePerId(committed'[b])
           /\ \A b \in Backends : b # a => Rows(b)' = Rows(b)
           /\ Rows(a)' \subseteq Rows(a) \union t
           /\ committed' = [committed EXCEPT ![a] = t] => Rows(a)' = t
<1>1. /\ stored \in [Backends -> SUBSET Posts] /\ committed \in [Backends -> SUBSET Posts]
      /\ \A b \in Backends : OnePerId(stored[b]) /\ OnePerId(committed[b])
    BY DEF TypeOK, OnePerId
<1>2. /\ stored' \in [Backends -> SUBSET Posts] /\ committed' \in [Backends -> SUBSET Posts]
      /\ stored'[a] = t /\ committed'[a] \in {committed[a], t}
      /\ \A b \in Backends : b # a => stored'[b] = stored[b] /\ committed'[b] = committed[b]
      /\ committed' = [committed EXCEPT ![a] = t] => committed'[a] = t
    BY <1>1
<1>3. ASSUME NEW b \in Backends PROVE OnePerId(stored'[b]) /\ OnePerId(committed'[b])
  <2>1. CASE b = a
    BY <1>1, <1>2, <2>1
  <2>2. CASE b # a
    BY <1>1, <1>2, <2>2
  <2> QED  BY <2>1, <2>2
<1> QED
    BY <1>2, <1>3 DEF Rows

LEMMA WayTyped ==
    ASSUME TypeOK
    PROVE  /\ OnItsWay \subseteq Posts /\ Sent \subseteq OnItsWay /\ Claimed \subseteq OnItsWay
           /\ \A b \in Backends : Range(queue[b]) \union Unsent(b) \subseteq OnItsWay
           /\ \A b \in Backends : Range(queue[b]) \subseteq Posts /\ Range(batch[b]) \subseteq Posts
           /\ \A m \in wire : Range(m) \subseteq Posts
<1>1. \A s \in Seq(Posts) : Range(s) \subseteq Posts
    BY LenProperties, ElementOfSeq DEF Range
<1> QED
    BY <1>1 DEF TypeOK, OnItsWay, Sent, Unsent, Claimed

\* A step that lets nothing on its way but new messages, and loses track of
\* nothing that it does not put into the table or give up.
LEMMA Kept ==
    ASSUME IInv, TypeOK', UNCHANGED <<settled, resets>>,
           \A p \in Posts : step'[p] = "new" => step[p] = "new",
           Claimed' \subseteq OnItsWay \union New, Sent' \subseteq OnItsWay,
           \A b \in Backends : Range(queue'[b]) \union Unsent(b)' \subseteq OnItsWay,
           \A b \in Backends : Rows(b)' \subseteq Rows(b) \union OnItsWay,
           \A b \in Backends : Rows(b)' \subseteq Rows(b) \union Unsent(b)' \union unsent' \union failed',
           \A b \in Backends :
               Unsent(b) \subseteq Unsent(b)' \union Sent' \union unsent' \union undelivered' \union failed',
           \A p \in Sent : p \in Sent' \union undelivered' \/ IdOf[p] \in Range(table'),
           wiped \subseteq wiped', unsent \subseteq unsent', undelivered \subseteq undelivered',
           failed \subseteq failed', Range(table) \subseteq Range(table'),
           Range(table') \subseteq Range(table) \union IdsIn(OnItsWay),
           \A b \in Backends : Served(b)' => Served(b) \/ Rows(b)' = {}
    PROVE  IInv'
<1>1. TypeOK /\ Accounted /\ AtRest /\ SettledStaysGone
    BY DEF IInv
<1>2. Accounted'
  <2> SUFFICES ASSUME NEW b \in Backends, NEW p \in Rows(b)'
               PROVE  \/ IdOf[p] \in Range(table') \union wiped'
                      \/ p \in Sent' \union Unsent(b)' \union unsent' \union undelivered' \union failed'
    BY DEF Accounted, Rows
  <2>1. CASE p \in Rows(b)
    <3>1. \/ IdOf[p] \in Range(table) \union wiped
          \/ p \in Sent \union Unsent(b)
          \/ p \in unsent \union undelivered \union failed
      BY <1>1, <2>1 DEF Accounted, Rows
    <3> QED  BY <3>1
  <2>2. CASE p \notin Rows(b)
    BY <2>2
  <2> QED
    BY <2>1, <2>2
<1>3. AtRest'
  <2>1. OnItsWay' \subseteq OnItsWay \union New
    BY DEF OnItsWay, Claimed
  <2> QED
    BY <1>1, <2>1 DEF AtRest, New, TypeOK
<1>4. SettledStaysGone'
  <2>1. OnItsWay \subseteq Posts \ settled
    BY <1>1, WayTyped DEF AtRest
  <2>2. resets > 0 => Range(table') \subseteq IdsIn(Posts \ settled)
    BY <1>1, <2>1 DEF SettledStaysGone, IdsIn
  <2>3. ASSUME NEW b \in Backends, Served(b)' PROVE Rows(b)' \intersect settled = {}
    BY <1>1, <2>1, <2>3 DEF SettledStaysGone, Rows
  <2> QED
    BY <2>2, <2>3 DEF SettledStaysGone, Rows
<1> QED
    BY <1>2, <1>3, <1>4 DEF IInv

LEMMA InitInvariant == Init => IInv
<1> SUFFICES ASSUME Init PROVE IInv
    OBVIOUS
<1>1. TypeOK
  <2>1. \A S : <<>> \in Seq(S)
    OBVIOUS
  <2>2. table = <<>> /\ IsInjective(table)
    BY DEF Init, Service!Init, IsInjective
  <2>3. \A b \in Backends :
            /\ Len(queue[b]) <= QueueCap /\ Len(batch[b]) <= BatchMax
            /\ writer[b] = "idle" <=> batch[b] = <<>>
            /\ stored[b] = {} /\ committed[b] = {}
    BY ClusterConstants DEF Init
  <2>4. resets = 0 /\ faults = 0 /\ 0 \in 0 .. MaxFaults /\ 0 \in 0 .. MaxResets
    BY ClusterConstants DEF Init
  <2> QED
    BY <2>1, <2>2, <2>3, <2>4 DEF Init, TypeOK
<1>2. Accounted /\ AtRest /\ SettledStaysGone
    BY DEF Init, Accounted, AtRest, SettledStaysGone
<1> QED
    BY <1>1, <1>2 DEF IInv

-----------------------------------------------------------------------------
(***************************************************************************)
(* A backend takes a message in.                                           *)
(***************************************************************************)
LEMMA ClaimInvariant ==
    ASSUME IInv, NEW p \in Posts, Claim(p)
    PROVE  IInv'
<1>1. /\ step[p] = "new"
      /\ step' = [step EXCEPT ![p] = IF IdOf[p] \in seen[At[p]] THEN "done" ELSE "claimed"]
      /\ seen' = [seen EXCEPT ![At[p]] = @ \union {IdOf[p]}]
      /\ UNCHANGED <<queue, stored, committed, writer, batch, resetting, orders, fanning, wire, table, unsent,
                     undelivered, failed, wiped, settled, missed, faults, resets>>
    BY DEF Claim, tables, reset, history, bounds
<1>2. TypeOK /\ IdOf[p] \in Ids /\ At[p] \in Backends
    BY ClusterConstants DEF IInv
<1>3. step' \in [Posts -> {"new", "claimed", "done", "dead"}] /\ step'[p] \in {"claimed", "done"}
      /\ \A q \in Posts : q # p => step'[q] = step[q]
    BY <1>1, <1>2 DEF TypeOK
<1>4. TypeOK'
    BY <1>1, <1>2, <1>3 DEF TypeOK
<1>5. Claimed' \subseteq Claimed \union New
    BY <1>1, <1>3 DEF Claimed, New
<1>6. Sent' = Sent /\ \A b \in Backends : Unsent(b)' = Unsent(b) /\ (Served(b)' <=> Served(b))
    BY <1>1 DEF Sent, Unsent, Served
<1> QED
    BY <1>1, <1>2, <1>3, <1>4, <1>5, <1>6, WayTyped, Kept DEF Rows

LEMMA EnqueueInvariant ==
    ASSUME IInv, NEW p \in Posts, Enqueue(p)
    PROVE  IInv'
<1> DEFINE a == At[p]
<1>1. /\ step[p] = "claimed" /\ Len(queue[a]) < QueueCap
      /\ queue' = [queue EXCEPT ![a] = Append(@, p)] /\ step' = [step EXCEPT ![p] = "done"]
      /\ UNCHANGED <<seen, stored, committed, writer, batch, resetting, orders, fanning, wire, table, unsent,
                     undelivered, failed, wiped, settled, missed, faults, resets>>
    BY DEF Enqueue, tables, reset, history, bounds
<1>2. TypeOK /\ a \in Backends /\ queue[a] \in Seq(Posts) /\ Len(queue[a]) \in Nat
    BY ClusterConstants, LenProperties DEF IInv, TypeOK
<1> HIDE DEF a
<1>3. step' \in [Posts -> {"new", "claimed", "done", "dead"}] /\ step'[p] = "done"
      /\ \A q \in Posts : q # p => step'[q] = step[q]
    BY <1>1, <1>2 DEF TypeOK
<1>4. /\ Append(queue[a], p) \in Seq(Posts) /\ Len(Append(queue[a], p)) = Len(queue[a]) + 1
      /\ Range(Append(queue[a], p)) = Range(queue[a]) \union {p}
    BY <1>2, AppendProperties, RangeAppend
<1>5. queue' \in [Backends -> Seq(Posts)] /\ queue'[a] = Append(queue[a], p)
      /\ \A b \in Backends : b # a => queue'[b] = queue[b]
    BY <1>1, <1>2, <1>4 DEF TypeOK
<1>6. TypeOK'
  <2>1. \A b \in Backends : Len(queue'[b]) <= QueueCap
    <3>1. Len(queue'[a]) <= QueueCap
      BY <1>1, <1>2, <1>4, <1>5, ClusterConstants
    <3> QED  BY <1>2, <1>5, <3>1 DEF TypeOK
  <2> QED
    BY <1>1, <1>2, <1>3, <1>5, <2>1 DEF TypeOK
<1>7. Claimed' \subseteq Claimed /\ p \in Claimed
    BY <1>1, <1>3 DEF Claimed
<1>8. Sent' = Sent /\ \A b \in Backends : Unsent(b)' = Unsent(b) /\ (Served(b)' <=> Served(b))
    BY <1>1 DEF Sent, Unsent, Served
<1>9. \A b \in Backends : Range(queue'[b]) \subseteq OnItsWay
    BY <1>2, <1>4, <1>5, <1>7, WayTyped
<1> QED
    BY <1>1, <1>2, <1>3, <1>6, <1>7, <1>8, <1>9, WayTyped, Kept DEF Rows

LEMMA OverflowInvariant ==
    ASSUME IInv, NEW p \in Posts, Overflow(p) \/ OverflowFail(p)
    PROVE  IInv'
<1> DEFINE a == At[p]
<1>1. TypeOK /\ a \in Backends /\ <<p>> \in Seq(Posts) /\ Range(<<p>>) = {p}
    BY ClusterConstants DEF IInv, Range
<1>2. PICK t :
        /\ t \in Raised(a, <<p>>) \union {Insert(stored[a], <<p>>)}
        /\ stored' = [stored EXCEPT ![a] = t]
        /\ committed' = committed \/ committed' = [committed EXCEPT ![a] = t]
    BY DEF Overflow, OverflowFail, Write, Raise
<1>3. /\ step[p] = "claimed" /\ step' = [step EXCEPT ![p] = "done"]
      /\ \/ unsent' = unsent \union {p} /\ failed' = failed /\ faults' = faults
         \/ unsent' = unsent /\ failed' = failed \union {p} /\ faults < MaxFaults /\ faults' = faults + 1
      /\ UNCHANGED <<seen, queue, writer, batch, resetting, orders, fanning, wire, table, undelivered, wiped,
                     settled, missed, resets>>
    BY DEF Overflow, OverflowFail, Raise, reset, bounds
<1> HIDE DEF a
<1>4. t \in SUBSET Posts /\ OnePerId(t) /\ t \subseteq Rows(a) \union {p}
  <2>1. CASE t = Insert(stored[a], <<p>>)
    <3>1. stored[a] \in SUBSET Posts /\ OnePerId(stored[a])
      BY <1>1 DEF TypeOK, OnePerId
    <3> QED
      BY <1>1, <2>1, <3>1, InsertFacts DEF Rows
  <2>2. CASE t \in Raised(a, <<p>>)
    BY <1>1, <2>2, RaisedFacts
  <2> QED
    BY <1>2, <2>1, <2>2
<1>5. /\ stored' \in [Backends -> SUBSET Posts] /\ committed' \in [Backends -> SUBSET Posts]
      /\ \A b \in Backends : OnePerId(stored'[b]) /\ OnePerId(committed'[b])
      /\ \A b \in Backends : Rows(b)' \subseteq Rows(b) \union {p}
    BY <1>1, <1>2, <1>4, NewTable
<1>6. step' \in [Posts -> {"new", "claimed", "done", "dead"}] /\ step'[p] = "done"
      /\ \A q \in Posts : q # p => step'[q] = step[q]
    BY <1>1, <1>3 DEF TypeOK
<1>7. faults' \in 0 .. MaxFaults /\ unsent' \subseteq Posts /\ failed' \subseteq Posts
    BY <1>1, <1>3, ClusterConstants DEF TypeOK
<1>8. TypeOK'
    BY <1>1, <1>3, <1>5, <1>6, <1>7 DEF TypeOK, OnePerId
<1>9. Claimed' \subseteq Claimed /\ p \in Claimed
    BY <1>3, <1>6 DEF Claimed
<1>10. Sent' = Sent /\ \A b \in Backends : Unsent(b)' = Unsent(b) /\ (Served(b)' <=> Served(b))
    BY <1>3 DEF Sent, Unsent, Served
<1>11. /\ unsent \subseteq unsent' /\ failed \subseteq failed'
       /\ \A b \in Backends : Rows(b)' \subseteq Rows(b) \union unsent' \union failed'
    BY <1>3, <1>5
<1>12. \A b \in Backends : Rows(b)' \subseteq Rows(b) \union OnItsWay
    BY <1>1, <1>5, <1>9, WayTyped
<1> QED
    BY <1>1, <1>3, <1>6, <1>8, <1>9, <1>10, <1>11, <1>12, WayTyped, Kept

-----------------------------------------------------------------------------
(***************************************************************************)
(* _background_writer.                                                     *)
(***************************************************************************)
\* A step of the writer that moves messages from its queue to its batch.
LEMMA Collects ==
    ASSUME IInv, NEW a \in Backends, NEW t \in Seq(Posts), queue[a] # <<>>,
           batch' = [batch EXCEPT ![a] = t], queue' = [queue EXCEPT ![a] = Tail(@)],
           t # <<>>, Len(t) <= BatchMax, Range(batch[a]) \subseteq Range(t),
           Range(t) \subseteq Range(batch[a]) \union {Head(queue[a])},
           writer[a] \in {"idle", "more"}, writer' = [writer EXCEPT ![a] = "more"],
           UNCHANGED <<step, seen, stored, committed, resetting, orders, fanning, wire, table, unsent, undelivered,
                       failed, wiped, settled, missed, faults, resets>>
    PROVE  IInv'
<1>1. TypeOK /\ queue[a] \in Seq(Posts)
    BY DEF IInv, TypeOK
<1>2. /\ Tail(queue[a]) \in Seq(Posts) /\ Len(Tail(queue[a])) = Len(queue[a]) - 1 /\ Len(queue[a]) \in Nat
      /\ Head(queue[a]) \in Range(queue[a]) /\ Range(Tail(queue[a])) \subseteq Range(queue[a])
    BY <1>1, HeadTailRange, LenProperties
<1>3. /\ queue' \in [Backends -> Seq(Posts)] /\ queue'[a] = Tail(queue[a])
      /\ \A b \in Backends : b # a => queue'[b] = queue[b]
    BY <1>1, <1>2 DEF TypeOK
<1>4. /\ batch' \in [Backends -> Seq(Posts)] /\ batch'[a] = t
      /\ \A b \in Backends : b # a => batch'[b] = batch[b]
    BY <1>1 DEF TypeOK
<1>5. /\ writer' \in [Backends -> {"idle", "more", "commit", "send", "wait"}] /\ writer'[a] = "more"
      /\ \A b \in Backends : b # a => writer'[b] = writer[b]
    BY <1>1 DEF TypeOK
<1>6. TypeOK'
  <2>1. \A b \in Backends : /\ Len(queue'[b]) <= QueueCap /\ Len(batch'[b]) <= BatchMax
                            /\ writer'[b] = "idle" <=> batch'[b] = <<>>
    <3> TAKE b \in Backends
    <3>1. CASE b = a
      <4>1. Len(queue[a]) <= QueueCap /\ QueueCap \in Nat
        BY <1>1, ClusterConstants DEF TypeOK
      <4> QED  BY <1>2, <1>3, <1>4, <1>5, <3>1, <4>1
    <3>2. CASE b # a
      BY <1>1, <1>3, <1>4, <1>5, <3>2 DEF TypeOK
    <3> QED  BY <3>1, <3>2
  <2> QED
    BY <1>1, <1>3, <1>4, <1>5, <2>1 DEF TypeOK
<1>7. /\ \A b \in Backends : b # a => Unsent(b)' = Unsent(b)
      /\ Unsent(a) = Range(batch[a]) /\ Unsent(a)' = Range(t)
    BY <1>4, <1>5 DEF Unsent
<1>8. Sent' = Sent /\ Claimed' = Claimed /\ \A b \in Backends : Served(b)' <=> Served(b)
    BY DEF Sent, Served, Claimed
<1>9. \A b \in Backends : Range(queue'[b]) \union Unsent(b)' \subseteq Range(queue[b]) \union Unsent(b)
    BY <1>2, <1>3, <1>7
<1>10. \A b \in Backends : Unsent(b) \subseteq Unsent(b)'
    BY <1>7
<1> QED
    BY <1>1, <1>6, <1>8, <1>9, <1>10, WayTyped, Kept DEF Rows

LEMMA GetInvariant ==
    ASSUME IInv, NEW a \in Backends, WriterGet(a) \/ WriterGetMore(a)
    PROVE  IInv'
<1>1. /\ TypeOK /\ queue[a] # <<>> /\ queue[a] \in Seq(Posts) /\ batch[a] \in Seq(Posts) /\ Len(batch[a]) \in Nat
      /\ writer \in [Backends -> {"idle", "more", "commit", "send", "wait"}]
    BY LenProperties DEF IInv, TypeOK, WriterGet, WriterGetMore
<1>2. Head(queue[a]) \in Posts
    BY <1>1, HeadTailRange
<1>3. CASE WriterGet(a)
  <2>1. batch[a] = <<>> /\ Range(batch[a]) = {} /\ BatchMax \in Nat \ {0}
    BY <1>1, <1>3, ClusterConstants DEF WriterGet, TypeOK, Range
  <2> DEFINE t == <<Head(queue[a])>>
  <2>2. t \in Seq(Posts) /\ t # <<>> /\ Len(t) = 1 /\ Range(t) = {Head(queue[a])}
    BY <1>2 DEF Range
  <2> HIDE DEF t
  <2>3. Len(t) <= BatchMax
    BY <2>1, <2>2
  <2>4. /\ queue' = [queue EXCEPT ![a] = Tail(@)] /\ writer' = [writer EXCEPT ![a] = "more"] /\ writer[a] = "idle"
        /\ batch' = [batch EXCEPT ![a] = t]
        /\ UNCHANGED <<step, seen, stored, committed, resetting, orders, fanning, wire, table, unsent, undelivered,
                       failed, wiped, settled, missed, faults, resets>>
    BY <1>3 DEF WriterGet, tables, reset, history, bounds, t
  <2> QED
    BY <1>1, <2>1, <2>2, <2>3, <2>4, Collects
<1>4. CASE WriterGetMore(a)
  <2> DEFINE t == Append(batch[a], Head(queue[a]))
  <2>1. /\ t \in Seq(Posts) /\ Len(t) = Len(batch[a]) + 1
        /\ Range(t) = Range(batch[a]) \union {Head(queue[a])}
    BY <1>1, <1>2, AppendProperties, RangeAppend
  <2>2. t # <<>>
    BY <1>1, <2>1
  <2> HIDE DEF t
  <2>3. Len(t) <= BatchMax
    BY <1>1, <1>4, <2>1, ClusterConstants DEF WriterGetMore
  <2>4. /\ queue' = [queue EXCEPT ![a] = Tail(@)] /\ writer[a] = "more" /\ writer' = [writer EXCEPT ![a] = "more"]
    BY <1>1, <1>4 DEF WriterGetMore
  <2>5. batch' = [batch EXCEPT ![a] = t]
    BY <1>4 DEF WriterGetMore, t
  <2>6. UNCHANGED <<step, seen, stored, committed, resetting, orders, fanning, wire, table, unsent, undelivered,
                    failed, wiped, settled, missed, faults, resets>>
    BY <1>4 DEF WriterGetMore, tables, reset, history, bounds
  <2> QED
    BY <1>1, <2>1, <2>2, <2>3, <2>4, <2>5, <2>6, Collects
<1> QED
    BY <1>3, <1>4

LEMMA GotAllInvariant ==
    ASSUME IInv, NEW a \in Backends, WriterGotAll(a)
    PROVE  IInv'
<1>1. /\ writer[a] = "more" /\ writer' = [writer EXCEPT ![a] = "commit"]
      /\ UNCHANGED <<step, seen, queue, stored, committed, batch, resetting, orders, fanning, wire, table, unsent,
                     undelivered, failed, wiped, settled, missed, faults, resets>>
    BY DEF WriterGotAll, tables, reset, history, bounds
<1>2. TypeOK
    BY DEF IInv
<1>3. /\ writer' \in [Backends -> {"idle", "more", "commit", "send", "wait"}] /\ writer'[a] = "commit"
      /\ \A b \in Backends : b # a => writer'[b] = writer[b]
    BY <1>1, <1>2 DEF TypeOK
<1>4. TypeOK'
    BY <1>1, <1>2, <1>3 DEF TypeOK
<1>5. \A b \in Backends : Unsent(b)' = Unsent(b)
    BY <1>1, <1>3 DEF Unsent
<1>6. Sent' = Sent /\ Claimed' = Claimed /\ \A b \in Backends : Served(b)' <=> Served(b)
    BY <1>1 DEF Sent, Served, Claimed
<1> QED
    BY <1>1, <1>2, <1>4, <1>5, <1>6, WayTyped, Kept DEF Rows

LEMMA CommitInvariant ==
    ASSUME IInv, NEW a \in Backends, WriterCommit(a)
    PROVE  IInv'
<1> DEFINE t == Insert(stored[a], batch[a])
<1>1. /\ writer[a] = "commit" /\ writer' = [writer EXCEPT ![a] = "send"]
      /\ stored' = [stored EXCEPT ![a] = t] /\ committed' = [committed EXCEPT ![a] = t]
      /\ UNCHANGED <<step, seen, queue, batch, resetting, orders, fanning, wire, table, unsent, undelivered, failed,
                     wiped, settled, missed, faults, resets>>
    BY DEF WriterCommit, Write, reset, history, bounds
<1>2. TypeOK /\ batch[a] \in Seq(Posts)
    BY DEF IInv, TypeOK
<1>3. /\ writer' \in [Backends -> {"idle", "more", "commit", "send", "wait"}] /\ writer'[a] = "send"
      /\ \A b \in Backends : b # a => writer'[b] = writer[b]
    BY <1>1, <1>2 DEF TypeOK
<1>4. t \in SUBSET Posts /\ OnePerId(t) /\ t \subseteq Rows(a) \union Range(batch[a])
  <2>1. stored[a] \in SUBSET Posts /\ OnePerId(stored[a])
    BY <1>2 DEF TypeOK, OnePerId
  <2> QED
    BY <1>2, <2>1, InsertFacts DEF Rows
<1> HIDE DEF t
<1>5. /\ stored' \in [Backends -> SUBSET Posts] /\ committed' \in [Backends -> SUBSET Posts]
      /\ \A b \in Backends : OnePerId(stored'[b]) /\ OnePerId(committed'[b])
      /\ \A b \in Backends : b # a => Rows(b)' = Rows(b)
      /\ Rows(a)' \subseteq Rows(a) \union Range(batch[a])
    BY <1>1, <1>2, <1>4, NewTable
<1>6. TypeOK'
  <2>1. \A b \in Backends : writer'[b] = "idle" <=> batch'[b] = <<>>
    BY <1>1, <1>2, <1>3 DEF TypeOK
  <2> QED
    BY <1>1, <1>2, <1>3, <1>5, <2>1 DEF TypeOK, OnePerId
<1>7. \A b \in Backends : Unsent(b)' = Unsent(b)
    BY <1>1, <1>3 DEF Unsent
<1>8. Unsent(a) = Range(batch[a])
    BY <1>1 DEF Unsent
<1>9. \A b \in Backends : Rows(b)' \subseteq Rows(b) \union Unsent(b)
    BY <1>5, <1>8
<1>10. Sent' = Sent /\ Claimed' = Claimed /\ \A b \in Backends : Served(b)' <=> Served(b)
    BY <1>1 DEF Sent, Served, Claimed
<1>11. \A b \in Backends : Rows(b)' \subseteq Rows(b) \union OnItsWay
    BY <1>2, <1>9, WayTyped
<1> QED
    BY <1>1, <1>2, <1>6, <1>7, <1>9, <1>10, <1>11, WayTyped, Kept

\* What of the batch is in the table, or will be, is given up with the batch.
LEMMA WriterFailInvariant ==
    ASSUME IInv, NEW a \in Backends, WriterFail(a)
    PROVE  IInv'
<1>1. PICK t \in Raised(a, batch[a]) : stored' = [stored EXCEPT ![a] = t]
    BY DEF WriterFail, Raise
<1>2. /\ writer[a] = "commit" /\ writer' = [writer EXCEPT ![a] = "idle"] /\ batch' = [batch EXCEPT ![a] = <<>>]
      /\ failed' = failed \union Range(batch[a]) /\ faults < MaxFaults /\ faults' = faults + 1
      /\ UNCHANGED <<step, seen, queue, committed, resetting, orders, fanning, wire, table, unsent, undelivered,
                     wiped, settled, missed, resets>>
    BY DEF WriterFail, Raise, reset
<1>3. TypeOK /\ batch[a] \in Seq(Posts) /\ Range(batch[a]) \subseteq Posts
    BY WayTyped DEF IInv, TypeOK
<1>4. t \in SUBSET Posts /\ OnePerId(t) /\ t \subseteq Rows(a) \union Range(batch[a])
    BY <1>3, RaisedFacts
<1>5. /\ stored' \in [Backends -> SUBSET Posts] /\ committed' \in [Backends -> SUBSET Posts]
      /\ \A b \in Backends : OnePerId(stored'[b]) /\ OnePerId(committed'[b])
      /\ \A b \in Backends : b # a => Rows(b)' = Rows(b)
      /\ Rows(a)' \subseteq Rows(a) \union Range(batch[a])
    BY <1>1, <1>2, <1>3, <1>4, NewTable
<1>6. /\ writer' \in [Backends -> {"idle", "more", "commit", "send", "wait"}] /\ writer'[a] = "idle"
      /\ \A b \in Backends : b # a => writer'[b] = writer[b]
    BY <1>2, <1>3 DEF TypeOK
<1>7. /\ batch' \in [Backends -> Seq(Posts)] /\ batch'[a] = <<>>
      /\ \A b \in Backends : b # a => batch'[b] = batch[b]
    BY <1>2, <1>3 DEF TypeOK
<1>8. TypeOK'
  <2>1. \A b \in Backends : Len(batch'[b]) <= BatchMax /\ (writer'[b] = "idle" <=> batch'[b] = <<>>)
    <3> TAKE b \in Backends
    <3>1. CASE b = a
      BY <1>6, <1>7, <3>1, ClusterConstants
    <3>2. CASE b # a
      BY <1>3, <1>6, <1>7, <3>2 DEF TypeOK
    <3> QED  BY <3>1, <3>2
  <2>2. faults' \in 0 .. MaxFaults /\ failed' \subseteq Posts
    BY <1>2, <1>3, ClusterConstants DEF TypeOK
  <2> QED
    BY <1>2, <1>3, <1>5, <1>6, <1>7, <2>1, <2>2 DEF TypeOK, OnePerId
<1>9. /\ Unsent(a) = Range(batch[a]) /\ Unsent(a)' = {}
      /\ \A b \in Backends : b # a => Unsent(b)' = Unsent(b)
    BY <1>2, <1>6, <1>7 DEF Unsent, Range
<1>10. Sent' = Sent /\ Claimed' = Claimed /\ \A b \in Backends : Served(b)' <=> Served(b)
    BY <1>2 DEF Sent, Served, Claimed
<1>11. /\ failed \subseteq failed'
       /\ \A b \in Backends : Unsent(b) \subseteq Unsent(b)' \union failed'
       /\ \A b \in Backends : Rows(b)' \subseteq Rows(b) \union failed'
    BY <1>2, <1>5, <1>9
<1>12. \A b \in Backends : Rows(b)' \subseteq Rows(b) \union OnItsWay
    BY <1>3, <1>5, <1>9, WayTyped
<1>13. \A b \in Backends : Range(queue'[b]) \union Unsent(b)' \subseteq OnItsWay
    BY <1>2, <1>3, <1>9, WayTyped
<1> QED
    BY <1>2, <1>3, <1>8, <1>10, <1>11, <1>12, <1>13, WayTyped, Kept

LEMMA SendInvariant ==
    ASSUME IInv, NEW a \in Backends, WriterSend(a)
    PROVE  IInv'
<1>1. /\ writer[a] = "send" /\ wire' = wire \union {batch[a]} /\ writer' = [writer EXCEPT ![a] = "wait"]
      /\ UNCHANGED <<step, seen, queue, stored, committed, batch, resetting, orders, fanning, table, unsent,
                     undelivered, failed, wiped, settled, missed, faults, resets>>
    BY DEF WriterSend, tables, reset, history, bounds
<1>2. TypeOK /\ batch[a] \in Seq(Posts)
    BY DEF IInv, TypeOK
<1>3. /\ writer' \in [Backends -> {"idle", "more", "commit", "send", "wait"}] /\ writer'[a] = "wait"
      /\ \A b \in Backends : b # a => writer'[b] = writer[b]
    BY <1>1, <1>2 DEF TypeOK
<1>4. TypeOK'
    BY <1>1, <1>2, <1>3 DEF TypeOK
<1>5. Sent' = Sent \union Range(batch[a])
    BY <1>1 DEF Sent
<1>6. /\ \A b \in Backends : b # a => Unsent(b)' = Unsent(b)
      /\ Unsent(a) = Range(batch[a]) /\ Unsent(a)' = {}
    BY <1>1, <1>3 DEF Unsent
<1>7. Claimed' = Claimed /\ \A b \in Backends : Served(b)' <=> Served(b)
    BY <1>1 DEF Served, Claimed
<1>8. Sent' \subseteq OnItsWay /\ \A b \in Backends : Range(queue'[b]) \union Unsent(b)' \subseteq OnItsWay
    BY <1>1, <1>2, <1>5, <1>6, WayTyped
<1>9. \A b \in Backends : Unsent(b) \subseteq Unsent(b)' \union Sent'
    BY <1>5, <1>6
<1> QED
    BY <1>1, <1>2, <1>4, <1>5, <1>7, <1>8, <1>9, WayTyped, Kept DEF Rows

LEMMA DoneInvariant ==
    ASSUME IInv, NEW a \in Backends, WriterDone(a)
    PROVE  IInv'
<1>1. /\ writer[a] = "wait" /\ writer' = [writer EXCEPT ![a] = "idle"] /\ batch' = [batch EXCEPT ![a] = <<>>]
      /\ UNCHANGED <<step, seen, queue, stored, committed, resetting, orders, fanning, wire, table, unsent,
                     undelivered, failed, wiped, settled, missed, faults, resets>>
    BY DEF WriterDone, tables, reset, history, bounds
<1>2. TypeOK /\ <<>> \in Seq(Posts) /\ Len(<<>>) = 0 /\ BatchMax \in Nat /\ Range(<<>>) = {}
    BY ClusterConstants DEF IInv, Range
<1>3. /\ writer' \in [Backends -> {"idle", "more", "commit", "send", "wait"}] /\ writer'[a] = "idle"
      /\ \A b \in Backends : b # a => writer'[b] = writer[b]
    BY <1>1, <1>2 DEF TypeOK
<1>4. /\ batch' \in [Backends -> Seq(Posts)] /\ batch'[a] = <<>>
      /\ \A b \in Backends : b # a => batch'[b] = batch[b]
    BY <1>1, <1>2 DEF TypeOK
<1>5. TypeOK'
    BY <1>1, <1>2, <1>3, <1>4 DEF TypeOK
<1>6. \A b \in Backends : Unsent(b)' = Unsent(b)
  <2>1. Unsent(a)' = {} /\ Unsent(a) = {}
    BY <1>1, <1>2, <1>3, <1>4 DEF Unsent
  <2> QED
    BY <1>3, <1>4, <2>1 DEF Unsent
<1>7. Sent' = Sent /\ Claimed' = Claimed /\ \A b \in Backends : Served(b)' <=> Served(b)
    BY <1>1 DEF Sent, Served, Claimed
<1> QED
    BY <1>1, <1>2, <1>5, <1>6, <1>7, WayTyped, Kept DEF Rows

-----------------------------------------------------------------------------
(***************************************************************************)
(* The network, and the balancer's POST /messages/batch.                   *)
(***************************************************************************)
LEMMA ArriveInvariant ==
    ASSUME IInv, NEW m \in wire, Arrive(m)
    PROVE  IInv'
<1>1. /\ Service!Add(IdsOf(m)) /\ wire' = wire \ {m}
      /\ UNCHANGED <<step, seen, queue, stored, committed, writer, batch, resetting, orders, fanning, unsent,
                     undelivered, failed, wiped, settled, missed, faults, resets>>
    BY DEF Arrive, tables, backend, reset, history, bounds
<1>2. TypeOK /\ m \in Seq(Posts)
    BY DEF IInv, TypeOK
<1>3. IdsOf(m) \in Seq(Ids) /\ Range(IdsOf(m)) = IdsIn(Range(m))
  <2>1. Len(m) \in Nat /\ DOMAIN m = 1 .. Len(m) /\ \A i \in 1 .. Len(m) : IdOf[m[i]] \in Ids
    BY <1>2, LenProperties, ElementOfSeq, ClusterConstants
  <2>2. IdsOf(m) \in [1 .. Len(m) -> Ids]
    BY <2>1 DEF IdsOf
  <2>3. Range(IdsOf(m)) = IdsIn(Range(m))
    BY DEF IdsOf, IdsIn, Range
  <2> QED
    BY <2>1, <2>2, <2>3
<1>4. table' \in Seq(Ids) /\ IsInjective(table') /\ Range(table') = Range(table) \union IdsIn(Range(m))
    BY <1>1, <1>2, <1>3, AddFacts DEF TypeOK
<1>5. TypeOK'
    BY <1>1, <1>2, <1>4 DEF TypeOK
<1>6. Sent' \subseteq Sent /\ Sent \subseteq Sent' \union Range(m) /\ Range(m) \subseteq Sent
    BY <1>1 DEF Sent
<1>7. Claimed' = Claimed /\ \A b \in Backends : Unsent(b)' = Unsent(b) /\ (Served(b)' <=> Served(b))
    BY <1>1 DEF Served, Claimed, Unsent
<1>8. \A p \in Sent : p \in Sent' \/ IdOf[p] \in Range(table')
    BY <1>4, <1>6 DEF IdsIn
<1>9. Range(table') \subseteq Range(table) \union IdsIn(OnItsWay)
    BY <1>2, <1>4, <1>6, WayTyped DEF IdsIn
<1> QED
    BY <1>1, <1>2, <1>4, <1>5, <1>6, <1>7, <1>8, <1>9, WayTyped, Kept DEF Rows

LEMMA DropInvariant ==
    ASSUME IInv, NEW m \in wire, ArriveTooLong(m) \/ Lose(m)
    PROVE  IInv'
<1>1. /\ wire' = wire \ {m} /\ undelivered' = undelivered \union Range(m)
      /\ faults' = faults \/ (faults < MaxFaults /\ faults' = faults + 1)
      /\ UNCHANGED <<step, seen, queue, stored, committed, writer, batch, resetting, orders, fanning, table, unsent,
                     failed, wiped, settled, missed, resets>>
    BY DEF ArriveTooLong, Lose, tables, backend, reset, bounds
<1>2. TypeOK /\ MaxFaults \in Nat
    BY ClusterConstants DEF IInv
<1>3. Range(m) \subseteq Posts
    BY <1>2, WayTyped
<1>4. faults' \in 0 .. MaxFaults
    BY <1>1, <1>2 DEF TypeOK
<1>5. TypeOK'
    BY <1>1, <1>2, <1>3, <1>4 DEF TypeOK
<1>6. Sent' \subseteq Sent /\ Sent \subseteq Sent' \union undelivered'
    BY <1>1 DEF Sent
<1>7. Claimed' = Claimed /\ \A b \in Backends : Unsent(b)' = Unsent(b) /\ (Served(b)' <=> Served(b))
    BY <1>1 DEF Served, Claimed, Unsent
<1> QED
    BY <1>1, <1>2, <1>5, <1>6, <1>7, WayTyped, Kept DEF Rows

-----------------------------------------------------------------------------
(***************************************************************************)
(* Resets and crashes.                                                     *)
(***************************************************************************)
\* What the table is cleared of is settled or still on its way.
LEMMA ResetTableInvariant ==
    ASSUME IInv, ResetTable
    PROVE  IInv'
<1>1. /\ resets < MaxResets /\ resets' = resets + 1 /\ table' = <<>> /\ fanning' = TRUE
      /\ wiped' = wiped \union Range(table)
      /\ settled' = settled \union ({p \in Posts : step[p] # "new"} \ OnItsWay)
      /\ UNCHANGED <<step, seen, queue, stored, committed, writer, batch, resetting, orders, wire, unsent,
                     undelivered, failed, missed, faults>>
    BY DEF ResetTable, Service!Clear, tables, backend
<1>2. TypeOK /\ Accounted /\ AtRest /\ MaxResets \in Nat
    BY ClusterConstants DEF IInv
<1>3. Range(table) \subseteq Ids /\ Range(table') = {} /\ table' \in Seq(Ids) /\ IsInjective(table')
    BY <1>1, <1>2, LenProperties, ElementOfSeq DEF TypeOK, Range, IsInjective
<1>4. resets' \in 0 .. MaxResets
    BY <1>1, <1>2 DEF TypeOK
<1>5. TypeOK'
    BY <1>1, <1>2, <1>3, <1>4 DEF TypeOK
<1>6. OnItsWay' = OnItsWay /\ Sent' = Sent /\ \A b \in Backends : Unsent(b)' = Unsent(b)
    BY <1>1 DEF OnItsWay, Sent, Unsent
<1>7. Accounted'
    BY <1>1, <1>2, <1>6 DEF Accounted
<1>8. AtRest'
    BY <1>1, <1>2, <1>6 DEF AtRest
<1>9. SettledStaysGone'
    BY <1>1, <1>3 DEF SettledStaysGone, Served
<1> QED
    BY <1>5, <1>7, <1>8, <1>9 DEF IInv

LEMMA ResetFanInvariant ==
    ASSUME IInv, ResetFan
    PROVE  IInv'
<1>1. /\ fanning' = FALSE /\ orders' = [b \in Backends |-> orders[b] + 1]
      /\ UNCHANGED <<step, seen, queue, stored, committed, writer, batch, resetting, wire, table, unsent,
                     undelivered, failed, wiped, settled, missed, faults, resets>>
    BY DEF ResetFan, tables, backend, history, bounds
<1>2. TypeOK
    BY DEF IInv
<1>3. orders' \in [Backends -> Nat] /\ \A b \in Backends : orders'[b] # 0
    BY <1>1, <1>2 DEF TypeOK
<1>4. TypeOK'
    BY <1>1, <1>2, <1>3 DEF TypeOK
<1>5. Claimed' = Claimed /\ Sent' = Sent /\ \A b \in Backends : Unsent(b)' = Unsent(b) /\ ~Served(b)'
    BY <1>1, <1>3 DEF Claimed, Sent, Unsent, Served
<1> QED
    BY <1>1, <1>2, <1>4, <1>5, WayTyped, Kept DEF Rows

LEMMA OrderLostInvariant ==
    ASSUME IInv, NEW a \in Backends, OrderLost(a)
    PROVE  IInv'
<1>1. /\ orders[a] > 0 /\ orders' = [orders EXCEPT ![a] = @ - 1] /\ missed' = missed \union {a}
      /\ faults < MaxFaults /\ faults' = faults + 1
      /\ UNCHANGED <<step, seen, queue, stored, committed, writer, batch, resetting, fanning, wire, table, unsent,
                     undelivered, failed, wiped, settled, resets>>
    BY DEF OrderLost, tables, backend
<1>2. TypeOK /\ MaxFaults \in Nat
    BY ClusterConstants DEF IInv
<1>3. orders' \in [Backends -> Nat] /\ \A b \in Backends : b # a => orders'[b] = orders[b]
    BY <1>1, <1>2 DEF TypeOK
<1>4. faults' \in 0 .. MaxFaults
    BY <1>1, <1>2 DEF TypeOK
<1>5. TypeOK'
    BY <1>1, <1>2, <1>3, <1>4 DEF TypeOK
<1>6. Claimed' = Claimed /\ Sent' = Sent /\ \A b \in Backends : Unsent(b)' = Unsent(b)
    BY <1>1 DEF Claimed, Sent, Unsent
<1>7. \A b \in Backends : Served(b)' => Served(b)
    BY <1>1, <1>3 DEF Served
<1> QED
    BY <1>1, <1>2, <1>5, <1>6, <1>7, WayTyped, Kept DEF Rows

LEMMA ResetDrainInvariant ==
    ASSUME IInv, NEW a \in Backends, ResetDrain(a) \/ ResetSeen(a)
    PROVE  IInv'
<1>1. /\ \/ /\ orders[a] > 0 /\ orders' = [orders EXCEPT ![a] = @ - 1]
            /\ resetting' = [resetting EXCEPT ![a] = "seen"]
            /\ queue' = [queue EXCEPT ![a] = <<>>] /\ UNCHANGED seen
         \/ /\ resetting' = [resetting EXCEPT ![a] = "rows"]
            /\ seen' = [seen EXCEPT ![a] = {}] /\ UNCHANGED <<queue, orders>>
      /\ UNCHANGED <<step, stored, committed, writer, batch, fanning, wire, table, unsent, undelivered, failed,
                     wiped, settled, missed, faults, resets>>
    BY DEF ResetDrain, ResetSeen, tables, history, bounds
<1>2. TypeOK /\ <<>> \in Seq(Posts) /\ Len(<<>>) = 0 /\ QueueCap \in Nat /\ Range(<<>>) = {}
    BY ClusterConstants DEF IInv, Range
<1>3. /\ resetting' \in [Backends -> {"idle", "seen", "rows"}] /\ resetting'[a] # "idle"
      /\ \A b \in Backends : b # a => resetting'[b] = resetting[b]
  <2>1. resetting \in [Backends -> {"idle", "seen", "rows"}]
    BY <1>2 DEF TypeOK
  <2>2. PICK c \in {"seen", "rows"} : resetting' = [resetting EXCEPT ![a] = c]
    BY <1>1
  <2> QED
    BY <2>1, <2>2
<1>4. /\ orders' \in [Backends -> Nat] /\ \A b \in Backends : b # a => orders'[b] = orders[b]
  <2>1. orders \in [Backends -> Nat]
    BY <1>2 DEF TypeOK
  <2>2. orders' = orders \/ (orders[a] > 0 /\ orders' = [orders EXCEPT ![a] = @ - 1])
    BY <1>1
  <2> QED
    BY <2>1, <2>2
<1>5. /\ queue' \in [Backends -> Seq(Posts)] /\ seen' \in [Backends -> SUBSET Ids]
      /\ \A b \in Backends : queue'[b] = queue[b] \/ queue'[b] = <<>>
  <2>1. queue \in [Backends -> Seq(Posts)] /\ seen \in [Backends -> SUBSET Ids]
    BY <1>2 DEF TypeOK
  <2>2. queue' = queue \/ queue' = [queue EXCEPT ![a] = <<>>]
    BY <1>1
  <2>3. seen' = seen \/ seen' = [seen EXCEPT ![a] = {}]
    BY <1>1
  <2> QED
    BY <1>2, <2>1, <2>2, <2>3
<1>6. TypeOK'
  <2>1. \A b \in Backends : Len(queue'[b]) <= QueueCap
    BY <1>2, <1>5 DEF TypeOK
  <2> QED
    BY <1>1, <1>2, <1>3, <1>4, <1>5, <2>1 DEF TypeOK
<1>7. Claimed' = Claimed /\ Sent' = Sent /\ \A b \in Backends : Unsent(b)' = Unsent(b)
    BY <1>1 DEF Claimed, Sent, Unsent
<1>8. \A b \in Backends : Served(b)' => Served(b)
  <2>1. \A b \in Backends : b # a /\ Served(b)' => Served(b)
    BY <1>1, <1>3, <1>4 DEF Served
  <2>2. ~Served(a)'
    BY <1>3 DEF Served
  <2> QED
    BY <2>1, <2>2
<1>9. \A b \in Backends : Range(queue'[b]) \subseteq OnItsWay
    BY <1>2, <1>5, WayTyped
<1> QED
    BY <1>1, <1>2, <1>6, <1>7, <1>8, <1>9, WayTyped, Kept DEF Rows

\* A backend whose DELETE raised counts among those that the reset missed.
LEMMA ResetRowsInvariant ==
    ASSUME IInv, NEW a \in Backends, ResetRows(a) \/ ResetRowsFail(a)
    PROVE  IInv'
<1>1. TypeOK /\ MaxFaults \in Nat
    BY ClusterConstants DEF IInv
<1>2. PICK t \in {stored[a], {}, committed[a]} :
        /\ stored' = [stored EXCEPT ![a] = t]
        /\ \/ t = {} /\ committed' = [committed EXCEPT ![a] = t] /\ missed' = missed /\ faults' = faults
           \/ committed' = committed /\ missed' = missed \union {a} /\ faults < MaxFaults /\ faults' = faults + 1
  <2>1. CASE ResetRows(a)
    BY <2>1 DEF ResetRows, Write, history, bounds
  <2>2. CASE ResetRowsFail(a)
    BY <2>2 DEF ResetRowsFail, Raise
  <2> QED
    BY <2>1, <2>2
<1>3. /\ resetting' = [resetting EXCEPT ![a] = "idle"]
      /\ UNCHANGED <<step, seen, queue, writer, batch, orders, fanning, wire, table, unsent, undelivered, failed,
                     wiped, settled, resets>>
    BY DEF ResetRows, ResetRowsFail, history, bounds
<1>4. t \in SUBSET Posts /\ OnePerId(t) /\ t \subseteq Rows(a)
    BY <1>1, <1>2 DEF TypeOK, OnePerId, Rows
<1>5. /\ stored' \in [Backends -> SUBSET Posts] /\ committed' \in [Backends -> SUBSET Posts]
      /\ \A b \in Backends : OnePerId(stored'[b]) /\ OnePerId(committed'[b])
      /\ \A b \in Backends : b # a => Rows(b)' = Rows(b)
      /\ Rows(a)' \subseteq Rows(a)
      /\ a \notin missed' => Rows(a)' = {}
  <2>1. committed' = committed \/ committed' = [committed EXCEPT ![a] = t]
    BY <1>2
  <2>2. /\ stored' \in [Backends -> SUBSET Posts] /\ committed' \in [Backends -> SUBSET Posts]
        /\ \A b \in Backends : OnePerId(stored'[b]) /\ OnePerId(committed'[b])
        /\ \A b \in Backends : b # a => Rows(b)' = Rows(b)
        /\ Rows(a)' \subseteq Rows(a) \union t
        /\ committed' = [committed EXCEPT ![a] = t] => Rows(a)' = t
    BY <1>1, <1>2, <1>4, <2>1, NewTable
  <2> QED
    BY <1>2, <1>4, <2>2
<1>6. /\ resetting' \in [Backends -> {"idle", "seen", "rows"}]
      /\ \A b \in Backends : b # a => resetting'[b] = resetting[b]
    BY <1>1, <1>3 DEF TypeOK
<1>7. missed' \subseteq Backends /\ missed \subseteq missed' /\ faults' \in 0 .. MaxFaults
    BY <1>1, <1>2 DEF TypeOK
<1>8. TypeOK'
    BY <1>1, <1>3, <1>5, <1>6, <1>7 DEF TypeOK, OnePerId
<1>9. Claimed' = Claimed /\ Sent' = Sent /\ \A b \in Backends : Unsent(b)' = Unsent(b)
    BY <1>3 DEF Claimed, Sent, Unsent
<1>10. \A b \in Backends : Served(b)' => Served(b) \/ Rows(b)' = {}
  <2>1. \A b \in Backends : b # a /\ Served(b)' => Served(b)
    BY <1>3, <1>6, <1>7 DEF Served
  <2>2. Served(a)' => Rows(a)' = {}
    BY <1>2, <1>5 DEF Served
  <2> QED
    BY <2>1, <2>2
<1>11. \A b \in Backends : Rows(b)' \subseteq Rows(b)
    BY <1>5
<1> QED
    BY <1>1, <1>3, <1>8, <1>9, <1>10, <1>11, WayTyped, Kept

LEMMA CrashInvariant ==
    ASSUME IInv, NEW a \in Backends, CrashRestart(a)
    PROVE  IInv'
<1>1. /\ faults < MaxFaults /\ faults' = faults + 1
      /\ step' = [p \in Posts |-> IF At[p] = a /\ step[p] = "claimed" THEN "dead" ELSE step[p]]
      /\ seen' = [seen EXCEPT ![a] = IdsIn(committed[a])] /\ stored' = [stored EXCEPT ![a] = committed[a]]
      /\ queue' = [queue EXCEPT ![a] = <<>>] /\ batch' = [batch EXCEPT ![a] = <<>>]
      /\ writer' = [writer EXCEPT ![a] = "idle"] /\ resetting' = [resetting EXCEPT ![a] = "idle"]
      /\ unsent' = unsent \union Range(queue[a]) \union Unsent(a)
      /\ missed' = IF resetting[a] = "idle" THEN missed ELSE missed \union {a}
      /\ UNCHANGED <<committed, orders, fanning, wire, table, undelivered, failed, wiped, settled, resets>>
    BY DEF CrashRestart
<1>2. TypeOK /\ <<>> \in Seq(Posts) /\ Len(<<>>) = 0 /\ QueueCap \in Nat /\ BatchMax \in Nat /\ MaxFaults \in Nat
      /\ Range(<<>>) = {}
    BY ClusterConstants DEF IInv, Range
<1>3. /\ step' \in [Posts -> {"new", "claimed", "done", "dead"}]
      /\ \A p \in Posts : step'[p] = step[p] \/ step'[p] = "dead"
    BY <1>1, <1>2 DEF TypeOK
<1>4. seen' \in [Backends -> SUBSET Ids]
  <2>1. IdsIn(committed[a]) \subseteq Ids
    BY <1>2, ClusterConstants DEF TypeOK, IdsIn
  <2> QED
    BY <1>1, <1>2, <2>1 DEF TypeOK
<1>5. /\ queue' \in [Backends -> Seq(Posts)] /\ batch' \in [Backends -> Seq(Posts)]
      /\ queue'[a] = <<>> /\ batch'[a] = <<>>
      /\ \A b \in Backends : b # a => queue'[b] = queue[b] /\ batch'[b] = batch[b]
    BY <1>1, <1>2 DEF TypeOK
<1>6. /\ writer' \in [Backends -> {"idle", "more", "commit", "send", "wait"}]
      /\ resetting' \in [Backends -> {"idle", "seen", "rows"}]
      /\ writer'[a] = "idle" /\ resetting'[a] = "idle"
      /\ \A b \in Backends : b # a => writer'[b] = writer[b] /\ resetting'[b] = resetting[b]
    BY <1>1, <1>2 DEF TypeOK
<1>7. unsent' \subseteq Posts /\ missed' \subseteq Backends /\ faults' \in 0 .. MaxFaults
  <2>1. Range(queue[a]) \subseteq Posts /\ Unsent(a) \subseteq Posts
    BY <1>2, WayTyped
  <2> QED
    BY <1>1, <1>2, <2>1 DEF TypeOK
<1>8. /\ stored' \in [Backends -> SUBSET Posts] /\ committed' \in [Backends -> SUBSET Posts]
      /\ \A b \in Backends : OnePerId(stored'[b]) /\ OnePerId(committed'[b])
      /\ \A b \in Backends : Rows(b)' \subseteq Rows(b)
  <2>1. committed[a] \in SUBSET Posts /\ OnePerId(committed[a]) /\ committed[a] \subseteq Rows(a)
    BY <1>2 DEF TypeOK, OnePerId, Rows
  <2> QED
    BY <1>1, <1>2, <2>1, NewTable
<1>9. TypeOK'
  <2>1. \A b \in Backends : /\ Len(queue'[b]) <= QueueCap /\ Len(batch'[b]) <= BatchMax
                            /\ writer'[b] = "idle" <=> batch'[b] = <<>>
    <3> TAKE b \in Backends
    <3>1. CASE b = a
      BY <1>2, <1>5, <1>6, <3>1
    <3>2. CASE b # a
      BY <1>2, <1>5, <1>6, <3>2 DEF TypeOK
    <3> QED  BY <3>1, <3>2
  <2> QED
    BY <1>1, <1>2, <1>3, <1>4, <1>5, <1>6, <1>7, <1>8, <2>1 DEF TypeOK, OnePerId
<1>10. Unsent(a)' = {} /\ \A b \in Backends : b # a => Unsent(b)' = Unsent(b)
    BY <1>2, <1>5, <1>6 DEF Unsent
<1>11. Claimed' \subseteq Claimed /\ Sent' = Sent
    BY <1>1, <1>3 DEF Claimed, Sent
<1>12. \A b \in Backends : Served(b)' => Served(b)
  <2>1. \A b \in Backends : b # a /\ Served(b)' => Served(b)
    BY <1>1, <1>6 DEF Served
  <2>2. Served(a)' => Served(a)
    BY <1>1 DEF Served
  <2> QED
    BY <2>1, <2>2
<1>13. \A b \in Backends : Range(queue'[b]) \union Unsent(b)' \subseteq OnItsWay
  <2> TAKE b \in Backends
  <2>1. CASE b = a
    BY <1>2, <1>5, <1>10, <2>1
  <2>2. CASE b # a
    BY <1>2, <1>5, <1>10, <2>2, WayTyped
  <2> QED
    BY <2>1, <2>2
<1>14. \A b \in Backends : Unsent(b) \subseteq Unsent(b)' \union unsent'
    BY <1>1, <1>10
<1> QED
    BY <1>1, <1>2, <1>3, <1>9, <1>11, <1>12, <1>13, <1>14, <1>8, WayTyped, Kept

-----------------------------------------------------------------------------
(***************************************************************************)
(* The invariant, and what follows from it.                                *)
(***************************************************************************)
LEMMA StepInvariant == IInv /\ [Next]_vars => IInv'
<1> SUFFICES ASSUME IInv, [Next]_vars PROVE IInv'
    OBVIOUS
<1>1. CASE UNCHANGED vars
  <2>1. /\ UNCHANGED <<step, seen, queue, stored, committed, writer, batch, resetting, orders, fanning, wire, table>>
        /\ UNCHANGED <<unsent, undelivered, failed, wiped, settled, missed, faults, resets>>
    BY <1>1 DEF vars, tables, backend, reset, history, bounds
  <2>2. OnItsWay' = OnItsWay /\ Sent' = Sent /\ \A b \in Backends : Unsent(b)' = Unsent(b) /\ (Served(b)' <=> Served(b))
    BY <2>1 DEF OnItsWay, Sent, Unsent, Served
  <2>3. TypeOK'
    BY <2>1 DEF IInv, TypeOK
  <2>4. Accounted' /\ AtRest' /\ SettledStaysGone'
    BY <2>1, <2>2 DEF IInv, Accounted, AtRest, SettledStaysGone
  <2> QED
    BY <2>3, <2>4 DEF IInv
<1>2. ASSUME NEW p \in Posts, Claim(p) \/ Enqueue(p) \/ Overflow(p) \/ OverflowFail(p) PROVE IInv'
    BY <1>2, ClaimInvariant, EnqueueInvariant, OverflowInvariant
<1>3. ASSUME NEW b \in Backends, WriterStep(b) \/ OrderLost(b) \/ BackendReset(b) \/ CrashRestart(b) PROVE IInv'
  <2>1. CASE WriterStep(b)
    BY <2>1, GetInvariant, GotAllInvariant, CommitInvariant, WriterFailInvariant, SendInvariant, DoneInvariant
       DEF WriterStep
  <2>2. CASE BackendReset(b)
    BY <2>2, ResetDrainInvariant, ResetRowsInvariant DEF BackendReset
  <2> QED
    BY <1>3, <2>1, <2>2, OrderLostInvariant, CrashInvariant
<1>4. CASE Delivery
    BY <1>4, ArriveInvariant, DropInvariant DEF Delivery
<1> QED
    BY <1>1, <1>2, <1>3, <1>4, ResetTableInvariant, ResetFanInvariant DEF Next

\* What holds of the cluster in every behaviour.
THEOREM Invariance == Spec => []IInv
    BY InitInvariant, StepInvariant, PTL DEF Spec

\* Every variable keeps its type; no backend stores an id twice, and the shared
\* table has each id once (INSERT OR IGNORE, AddBatch).
THEOREM TypeCorrect == Spec => []TypeOK
<1>1. IInv => TypeOK
    BY DEF IInv
<1> QED
    BY <1>1, Invariance, PTL

\* Every row of a backend is in the shared table, on its way to it, removed by
\* a reset, or given up in one of five ways (_background_writer sends a batch
\* once, and not at all when its write raised or it crashed; the overflow path
\* of save_message never).  That includes rows that an exception left in the open
\* transaction, whoever commits them.
THEOREM RowsAccounted == Spec => []Accounted
<1>1. IInv => Accounted
    BY DEF IInv
<1> QED
    BY <1>1, Invariance, PTL

\* A reset of the cluster is final for what was at rest when POST /reset-state
\* of the balancer cleared its table: it comes back neither to that table nor to
\* a backend that has carried out its reset_db.
THEOREM ResetIsFinal == Spec => []SettledStaysGone
<1>1. IInv => SettledStaysGone
    BY DEF IInv
<1> QED
    BY <1>1, Invariance, PTL
=============================================================================
