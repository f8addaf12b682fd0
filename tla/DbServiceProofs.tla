--------------------------- MODULE DbServiceProofs ---------------------------
(***************************************************************************)
(* What DbService guarantees for any number of calls, any batches, and any *)
(* number of failing statements and crashes.                               *)
(***************************************************************************)
EXTENDS DbService, FiniteSetTheorems, SequenceTheorems, TLAPS

\* The rows a call brought, and those of them without an id.
NoRows(t, c) == \A i \in DOMAIN t : t[i].call # c
Nameless(t, c) == {i \in DOMAIN t : t[i] = [id |-> NoId, call |-> c]}
NamelessUpTo(c, n) == {i \in 1 .. n : Body[c][i] = NoId}

\* A table that has a batch whole, or nothing of it.
Whole(t, c) ==
    \/ NoRows(t, c)
    \/ ToSet(Body[c]) \subseteq IdsIn(t) /\ Cardinality(Nameless(t, c)) = Cardinality(Anonymous(c))

\* The holder's transaction has the committed rows and, from a batch, the rows
\* before "at".
OpenRows(c) ==
    /\ at \in 1 .. Len(Body[c]) + 1
    /\ \A j \in 1 .. Len(Body[c]) : Body[c][j] # NoObject
    /\ NoRows(table, c) /\ IdsIn(table) \subseteq IdsIn(open)
    /\ \A j \in 1 .. at - 1 : Body[c][j] \in IdsIn(open)
    /\ Cardinality(Nameless(open, c)) = Cardinality(NamelessUpTo(c, at - 1))
    /\ \A d \in Calls \ {c} : Whole(open, d)

Transaction ==
    /\ \A c \in Calls : step[c] = "rows" => OpenRows(c)
    /\ \A t \in Threads : step[t] \in {"committed", "delete"} => open = table
    /\ \A r \in Resets : step[r] \in {"arrived", "delete", "deleted", "ok", "error", "cut"}
    /\ \A c \in Calls : step[c] \in {"arrived", "rows", "committed", "ok", "error", "cut"}
    /\ \A r \in Resets : step[r] = "deleted" => open = <<>>

Answers ==
    \A c \in Calls :
        /\ step[c] \in {"arrived", "error"} => NoRows(table, c) /\ NoRows(open, c)
        /\ step[c] \in {"committed", "ok"} => ToSet(Body[c]) \subseteq IdsIn(table) \union cleared

IInv ==
    /\ TypeOK
    /\ Transaction
    /\ \A c \in Calls : Whole(table, c)
    /\ Answers

-----------------------------------------------------------------------------
(***************************************************************************)
(* Rows and batches.                                                       *)
(***************************************************************************)
LEMMA NoTable ==
    /\ <<>> \in Seq(Row) /\ IdsIn(<<>>) = {} /\ DOMAIN <<>> = {}
    /\ \A c : NoRows(<<>>, c)
    BY DEF IdsIn, NoRows

LEMMA BodyFacts ==
    ASSUME NEW c \in Calls
    PROVE  /\ Body[c] \in Seq(Ids \union {NoId, Unbindable, NoObject})
           /\ Len(Body[c]) \in Nat /\ DOMAIN Body[c] = 1 .. Len(Body[c])
           /\ \A j \in 1 .. Len(Body[c]) : Body[c][j] \in Ids \union {NoId, Unbindable, NoObject}
           /\ ToSet(Body[c]) = {Body[c][j] : j \in 1 .. Len(Body[c])}
           /\ Anonymous(c) = NamelessUpTo(c, Len(Body[c]))
           /\ Contains(Body[c], NoObject) <=> \E j \in 1 .. Len(Body[c]) : Body[c][j] = NoObject
<1>1. /\ Body[c] \in Seq(Ids \union {NoId, Unbindable, NoObject})
      /\ Len(Body[c]) \in Nat /\ DOMAIN Body[c] = 1 .. Len(Body[c])
    BY ServiceConstants, LenProperties
<1>2. \A j \in 1 .. Len(Body[c]) : Body[c][j] \in Ids \union {NoId, Unbindable, NoObject}
    BY <1>1, ElementOfSeq
<1>3. Anonymous(c) = NamelessUpTo(c, Len(Body[c]))
    BY <1>1 DEF Anonymous, NamelessUpTo
<1>4. ToSet(Body[c]) = {Body[c][j] : j \in 1 .. Len(Body[c])}
    BY <1>1 DEF ToSet
<1>5. Contains(Body[c], NoObject) <=> \E j \in 1 .. Len(Body[c]) : Body[c][j] = NoObject
    BY <1>1 DEF Contains
<1> QED
    BY <1>1, <1>2, <1>3, <1>4, <1>5

LEMMA AppendRow ==
    ASSUME NEW t \in Seq(Row), NEW e \in Row
    PROVE  /\ Append(t, e) \in Seq(Row)
           /\ IdsIn(Append(t, e)) = IdsIn(t) \union {e.id}
           /\ \A c : NoRows(Append(t, e), c) <=> NoRows(t, c) /\ e.call # c
           /\ \A c : Nameless(Append(t, e), c) =
                        IF e = [id |-> NoId, call |-> c] THEN Nameless(t, c) \union {Len(t) + 1} ELSE Nameless(t, c)
<1> DEFINE u == Append(t, e)
<1>1. /\ u \in Seq(Row) /\ Len(t) \in Nat /\ DOMAIN t = 1 .. Len(t) /\ DOMAIN u = 1 .. Len(t) + 1
      /\ \A i \in 1 .. Len(t) : u[i] = t[i]
      /\ u[Len(t) + 1] = e
    BY AppendProperties, LenProperties
<1> HIDE DEF u
<1>2. DOMAIN u = DOMAIN t \union {Len(t) + 1} /\ Len(t) + 1 \notin DOMAIN t
    BY <1>1
<1>3. IdsIn(u) = IdsIn(t) \union {e.id}
    BY <1>1, <1>2 DEF IdsIn
<1>4. \A c : NoRows(u, c) <=> NoRows(t, c) /\ e.call # c
    BY <1>1, <1>2 DEF NoRows
<1>5. \A c : Nameless(u, c) =
                IF e = [id |-> NoId, call |-> c] THEN Nameless(t, c) \union {Len(t) + 1} ELSE Nameless(t, c)
    BY <1>1, <1>2 DEF Nameless
<1> QED
    BY <1>1, <1>3, <1>4, <1>5 DEF u

\* Both sides of the count grow together.
LEMMA CountRow ==
    ASSUME NEW t \in Seq(Row), NEW c \in Calls, NEW n \in 1 .. Len(Body[c]),
           Cardinality(Nameless(t, c)) = Cardinality(NamelessUpTo(c, n - 1)), Body[c][n] = NoId
    PROVE  Cardinality(Nameless(Append(t, [id |-> NoId, call |-> c]), c)) = Cardinality(NamelessUpTo(c, n))
<1>1. Len(t) \in Nat /\ DOMAIN t = 1 .. Len(t) /\ n \in Nat \ {0}
    BY LenProperties, BodyFacts
<1>2. IsFiniteSet(Nameless(t, c)) /\ Len(t) + 1 \notin Nameless(t, c)
  <2>1. Nameless(t, c) \subseteq 1 .. Len(t) /\ IsFiniteSet(1 .. Len(t))
    BY <1>1, FS_Interval DEF Nameless
  <2> QED
    BY <1>1, <2>1, FS_Subset
<1>3. IsFiniteSet(NamelessUpTo(c, n - 1)) /\ n \notin NamelessUpTo(c, n - 1)
  <2>1. n - 1 \in Int /\ 1 \in Int /\ n \notin 1 .. n - 1
    BY <1>1
  <2>2. NamelessUpTo(c, n - 1) \subseteq 1 .. n - 1
    BY DEF NamelessUpTo
  <2>3. IsFiniteSet(1 .. n - 1)
    BY <2>1, FS_Interval
  <2> QED
    BY <2>1, <2>2, <2>3, FS_Subset
<1>4. NamelessUpTo(c, n) = NamelessUpTo(c, n - 1) \union {n}
    BY <1>1 DEF NamelessUpTo
<1>5. [id |-> NoId, call |-> c] \in Row
    BY DEF Row
<1>6. Nameless(Append(t, [id |-> NoId, call |-> c]), c) = Nameless(t, c) \union {Len(t) + 1}
    BY <1>5, AppendRow
<1>7. Cardinality(Nameless(t, c) \union {Len(t) + 1}) = Cardinality(Nameless(t, c)) + 1
    BY <1>2, FS_AddElement
<1>8. Cardinality(NamelessUpTo(c, n - 1) \union {n}) = Cardinality(NamelessUpTo(c, n - 1)) + 1
    BY <1>3, FS_AddElement
<1> QED
    BY <1>4, <1>6, <1>7, <1>8

LEMMA CountOther ==
    ASSUME NEW c \in Calls, NEW n \in 1 .. Len(Body[c]), Body[c][n] # NoId
    PROVE  NamelessUpTo(c, n) = NamelessUpTo(c, n - 1)
    BY BodyFacts DEF NamelessUpTo

-----------------------------------------------------------------------------
(***************************************************************************)
(* The steps.                                                              *)
(***************************************************************************)
StepNames == {"arrived", "rows", "committed", "delete", "deleted", "ok", "error", "cut"}

LEMMA StepTo ==
    ASSUME TypeOK, NEW t \in Threads, NEW l \in StepNames, Goto(t, l)
    PROVE  /\ step' \in [Threads -> StepNames]
           /\ step'[t] = l
           /\ \A u \in Threads : u # t => step'[u] = step[u]
    BY DEF TypeOK, Goto, StepNames

\* Only the holder is inside a critical section.
LEMMA OneHolder ==
    ASSUME TypeOK, NEW t \in Threads, Holding(t)
    PROVE  holder = t /\ holder # Free /\ \A u \in Threads \ {t} : step[u] \in {"arrived", "ok", "error", "cut"}
    BY ServiceConstants DEF TypeOK, Holding

LEMMA Apart == Calls \subseteq Threads /\ Resets \subseteq Threads /\ \A c \in Calls, r \in Resets : c # r
    BY ServiceConstants DEF Threads

\* A call that is answered without the lock.
LEMMA TurnedAway ==
    ASSUME IInv, NEW c \in Calls, Ignore(c) \/ Misshapen(c)
    PROVE  IInv'
<1>1. PICK l \in {"ok", "error"} : Goto(c, l) /\ (l = "ok" => Body[c] = <<>>)
    BY DEF Ignore, Misshapen
<1>2. step[c] = "arrived" /\ UNCHANGED <<holder, table, open, at, cleared, failures, crashes>>
    BY DEF Ignore, Misshapen, bounds
<1>3. TypeOK /\ c \in Threads
    BY Apart DEF IInv
<1>4. /\ step' \in [Threads -> StepNames] /\ step'[c] = l /\ \A u \in Threads : u # c => step'[u] = step[u]
    BY <1>1, <1>3, StepTo DEF StepNames
<1>5. TypeOK'
    BY <1>2, <1>3, <1>4 DEF TypeOK, Holding, StepNames
<1>6. Transaction'
  <2>1. \A d \in Calls : OpenRows(d) => OpenRows(d)'
    BY <1>2 DEF OpenRows
  <2> QED
    BY <1>2, <1>4, <2>1, Apart DEF IInv, Transaction
<1>7. Answers'
  <2>1. l = "ok" => ToSet(Body[c]) = {}
    BY <1>1 DEF ToSet
  <2> QED
    BY <1>2, <1>4, <2>1, Apart DEF IInv, Answers, NoRows, IdsIn
<1> QED
    BY <1>2, <1>5, <1>6, <1>7 DEF IInv, Whole, NoRows, IdsIn, Nameless

LEMMA LockInvariant ==
    ASSUME IInv, NEW t \in Threads, NEW l \in {"rows", "delete"}, Acquire(t, l),
           \/ t \in Calls /\ l = "rows" /\ at' = 1 /\ ~Contains(Body[t], NoObject)
           \/ t \in Resets /\ l = "delete" /\ at' = at,
           UNCHANGED <<table, cleared, failures, crashes>>
    PROVE  IInv'
<1>1. TypeOK /\ Goto(t, l) /\ step[t] = "arrived" /\ holder = Free /\ holder' = t /\ open' = table /\ open = table
    BY DEF IInv, TypeOK, Acquire
<1>2. /\ step' \in [Threads -> StepNames] /\ step'[t] = l /\ \A u \in Threads : u # t => step'[u] = step[u]
    BY <1>1, StepTo DEF StepNames
<1>3. \A u \in Threads : step[u] \in {"arrived", "ok", "error", "cut"}
    BY <1>1, ServiceConstants DEF TypeOK, Holding
<1>4. TypeOK'
  <2>1. \A u \in Threads : Holding(u)' <=> u = t
    BY <1>2, <1>3 DEF Holding
  <2> QED
    BY <1>1, <1>2, <2>1, ServiceConstants DEF TypeOK, StepNames
<1>5. ASSUME NEW c \in Calls, step'[c] = "rows" PROVE OpenRows(c)'
  <2>1. c = t /\ at' = 1 /\ ~Contains(Body[c], NoObject)
    BY <1>2, <1>3, <1>5, Apart
  <2>2. NoRows(table, c) /\ \A d \in Calls : Whole(table, d)
    BY <1>1, <2>1 DEF IInv, Answers
  <2>3. Nameless(table, c) = {} /\ NamelessUpTo(c, 0) = {}
    BY <2>2 DEF NoRows, Nameless, NamelessUpTo
  <2>4. /\ at' \in 1 .. Len(Body[c]) + 1 /\ at' - 1 = 0 /\ 1 .. at' - 1 = {}
        /\ \A j \in 1 .. Len(Body[c]) : Body[c][j] # NoObject
    BY <2>1, BodyFacts
  <2>5. Cardinality(Nameless(open', c)) = Cardinality(NamelessUpTo(c, at' - 1))
    BY <1>1, <2>3, <2>4
  <2> QED
    BY <1>1, <2>2, <2>4, <2>5 DEF OpenRows
<1>6. Transaction'
    BY <1>1, <1>2, <1>3, <1>5, Apart DEF IInv, Transaction
<1>7. Answers'
    BY <1>1, <1>2, Apart DEF IInv, Answers
<1> QED
    BY <1>4, <1>6, <1>7 DEF IInv, Whole, NoRows, IdsIn, Nameless

LEMMA InsertInvariant ==
    ASSUME IInv, NEW c \in Calls, InsertRow(c)
    PROVE  IInv'
<1> DEFINE id == Body[c][at]
           e == [id |-> id, call |-> c]
<1>1. /\ step[c] = "rows" /\ at \in 1 .. Len(Body[c]) /\ at' = at + 1 /\ id # Unbindable
      /\ open' = IF id \in IdsIn(open) \ {NoId} THEN open ELSE Append(open, e)
      /\ UNCHANGED <<step, holder, table, cleared, failures, crashes>>
    BY BodyFacts DEF InsertRow, bounds
<1>2. TypeOK /\ OpenRows(c) /\ open \in Seq(Row) /\ c \in Threads /\ Len(Body[c]) \in Nat
    BY <1>1, Apart, BodyFacts DEF IInv, Transaction, TypeOK
<1>3. holder = c /\ holder # Free /\ \A u \in Threads \ {c} : step[u] \in {"arrived", "ok", "error", "cut"}
    BY <1>1, <1>2, OneHolder DEF Holding
<1>4. id \in Ids \union {NoId} /\ e \in Row /\ e.id = id /\ e.call = c
  <2>1. id \in Ids \union {NoId, Unbindable, NoObject} /\ id # NoObject
    BY <1>1, <1>2, BodyFacts DEF OpenRows
  <2> QED
    BY <1>1, <2>1 DEF Row
<1> HIDE DEF id, e
<1>5. /\ open' \in Seq(Row) /\ IdsIn(open') = IdsIn(open) \union {id}
      /\ \A d \in Calls \ {c} : (NoRows(open', d) <=> NoRows(open, d)) /\ Nameless(open', d) = Nameless(open, d)
  <2>1. CASE id \in IdsIn(open) \ {NoId}
    BY <1>1, <1>2, <2>1
  <2>2. CASE id \notin IdsIn(open) \ {NoId}
    <3>1. open' = Append(open, e)
      BY <1>1, <2>2
    <3>2. \A d \in Calls \ {c} : e # [id |-> NoId, call |-> d]
      BY <1>4
    <3> QED
      BY <1>2, <1>4, <3>1, <3>2, AppendRow
  <2> QED
    BY <2>1, <2>2
<1>6. Cardinality(Nameless(open', c)) = Cardinality(NamelessUpTo(c, at))
  <2>1. CASE id = NoId
    <3>1. open' = Append(open, [id |-> NoId, call |-> c])
      BY <1>1, <2>1 DEF e
    <3> QED
      BY <1>1, <1>2, <2>1, <3>1, CountRow DEF OpenRows, id
  <2>2. CASE id # NoId
    <3>1. NamelessUpTo(c, at) = NamelessUpTo(c, at - 1)
      BY <1>1, <2>2, CountOther DEF id
    <3>2. Nameless(open', c) = Nameless(open, c)
      <4>1. e # [id |-> NoId, call |-> c]
        BY <1>4, <2>2
      <4>2. Nameless(Append(open, e), c) = Nameless(open, c)
        BY <1>2, <1>4, <4>1, AppendRow
      <4> QED
        BY <1>1, <4>2
    <3> QED
      BY <1>2, <3>1, <3>2 DEF OpenRows
  <2> QED
    BY <2>1, <2>2
<1>7. OpenRows(c)'
  <2>1. at' \in 1 .. Len(Body[c]) + 1 /\ at' - 1 = at /\ \A j \in 1 .. at : j = at \/ j \in 1 .. at - 1
    BY <1>1, <1>2
  <2>2. \A j \in 1 .. at' - 1 : Body[c][j] \in IdsIn(open')
    BY <1>2, <1>5, <2>1 DEF OpenRows, id
  <2>3. \A d \in Calls \ {c} : Whole(open', d)
    BY <1>2, <1>5 DEF OpenRows, Whole
  <2> QED
    BY <1>1, <1>2, <1>5, <1>6, <2>1, <2>2, <2>3 DEF OpenRows
<1>8. TypeOK'
    BY <1>1, <1>2, <1>3, <1>5 DEF TypeOK, Holding
<1>9. Transaction'
    BY <1>1, <1>3, <1>7, Apart DEF IInv, Transaction
<1>10. Answers'
    BY <1>1, <1>5 DEF IInv, Answers
<1> QED
    BY <1>1, <1>8, <1>9, <1>10 DEF IInv

\* The holder leaves: its transaction is gone, or has become the table.
LEMMA ReleaseInvariant ==
    ASSUME IInv, NEW t \in Threads, NEW l \in {"ok", "error"}, Release(t, l), Holding(t),
           table' \in Seq(Row), cleared \subseteq cleared', cleared' \subseteq Ids \union {NoId},
           failures' \in 0 .. MaxFailures, UNCHANGED <<at, crashes>>,
           IdsIn(table) \subseteq IdsIn(table') \union cleared',
           \A c \in Calls : Whole(table', c),
           \A c \in Calls : NoRows(table, c) => NoRows(table', c),
           t \in Calls =>
               \/ l = "error" /\ NoRows(table', t)
               \/ l = "ok" /\ ToSet(Body[t]) \subseteq IdsIn(table') \union cleared'
    PROVE  IInv'
<1>1. TypeOK /\ Goto(t, l) /\ holder' = Free /\ open' = table'
    BY DEF IInv, Release
<1>2. /\ step' \in [Threads -> StepNames] /\ step'[t] = l /\ \A u \in Threads : u # t => step'[u] = step[u]
    BY <1>1, StepTo DEF StepNames
<1>3. \A u \in Threads \ {t} : step[u] \in {"arrived", "ok", "error", "cut"}
    BY <1>1, OneHolder
<1>4. TypeOK'
  <2>1. \A u \in Threads : ~Holding(u)'
    BY <1>2, <1>3 DEF Holding
  <2> QED
    BY <1>1, <1>2, <2>1, ServiceConstants DEF TypeOK, StepNames
<1>5. Transaction'
    BY <1>2, <1>3, Apart DEF IInv, Transaction
<1>6. Answers'
    BY <1>1, <1>2, <1>3, Apart DEF IInv, Answers
<1> QED
    BY <1>4, <1>5, <1>6 DEF IInv

LEMMA RaisesInvariant ==
    ASSUME IInv, NEW t \in Threads, \/ t \in Calls /\ RowRaises(t)
                                    \/ t \in Resets /\ ResetRaises(t)
    PROVE  IInv'
<1>1. /\ Release(t, "error") /\ UNCHANGED <<table, at, cleared, crashes>>
      /\ failures' \in {failures, failures + 1} /\ (failures' = failures \/ failures < MaxFailures)
      /\ step[t] \in {"rows", "delete", "deleted"} /\ (t \in Calls => step[t] = "rows")
    BY Apart DEF RowRaises, ResetRaises, StatementFails, bounds
<1>2. TypeOK /\ table \in Seq(Row) /\ cleared \subseteq Ids \union {NoId} /\ failures \in 0 .. MaxFailures
    BY DEF IInv, TypeOK
<1>3. failures' \in 0 .. MaxFailures
    BY <1>1, <1>2, ServiceConstants
<1>4. IdsIn(table') = IdsIn(table) /\ \A c \in Calls : Whole(table', c) /\ (NoRows(table, c) => NoRows(table', c))
    BY <1>1 DEF IInv
<1>5. t \in Calls => NoRows(table', t)
    BY <1>1 DEF IInv, Transaction, OpenRows
<1> QED
    BY <1>1, <1>2, <1>3, <1>4, <1>5, ReleaseInvariant DEF Holding

LEMMA CommitInvariant ==
    ASSUME IInv, NEW c \in Calls, Commit(c)
    PROVE  IInv'
<1>1. /\ step[c] = "rows" /\ at \notin 1 .. Len(Body[c]) /\ table' = open /\ Goto(c, "committed")
      /\ UNCHANGED <<holder, open, at, cleared, failures, crashes>>
    BY BodyFacts DEF Commit, bounds
<1>2. TypeOK /\ OpenRows(c) /\ open \in Seq(Row) /\ c \in Threads /\ Len(Body[c]) \in Nat
    BY <1>1, Apart, BodyFacts DEF IInv, Transaction, TypeOK
<1>3. /\ step' \in [Threads -> StepNames] /\ step'[c] = "committed" /\ \A u \in Threads : u # c => step'[u] = step[u]
    BY <1>1, <1>2, StepTo DEF StepNames
<1>4. holder = c /\ holder # Free /\ \A u \in Threads \ {c} : step[u] \in {"arrived", "ok", "error", "cut"}
    BY <1>1, <1>2, OneHolder DEF Holding
<1>5. at = Len(Body[c]) + 1 /\ at - 1 = Len(Body[c])
    BY <1>1, <1>2 DEF OpenRows
<1>6. ToSet(Body[c]) \subseteq IdsIn(open)
  <2>1. ToSet(Body[c]) = {Body[c][j] : j \in 1 .. at - 1}
    BY <1>5, BodyFacts
  <2> QED
    BY <1>2, <2>1 DEF OpenRows
<1>7. \A d \in Calls : Whole(open, d)
  <2>1. Cardinality(Nameless(open, c)) = Cardinality(Anonymous(c))
    <3>1. Anonymous(c) = NamelessUpTo(c, at - 1)
      BY <1>5, BodyFacts
    <3> QED
      BY <1>2, <3>1 DEF OpenRows
  <2> QED
    BY <1>2, <1>6, <2>1 DEF OpenRows, Whole
<1>8. TypeOK'
    BY <1>1, <1>2, <1>3, <1>4 DEF TypeOK, Holding, StepNames
<1>9. Transaction'
    BY <1>1, <1>3, <1>4, Apart DEF IInv, Transaction
<1>10. Answers'
    BY <1>1, <1>2, <1>3, <1>4, <1>6, Apart DEF IInv, Answers, OpenRows
<1> QED
    BY <1>1, <1>7, <1>8, <1>9, <1>10 DEF IInv

LEMMA CloseInvariant ==
    ASSUME IInv, NEW c \in Calls, Close(c)
    PROVE  IInv'
<1>1. step[c] = "committed" /\ Release(c, "ok") /\ UNCHANGED <<table, at, cleared, failures, crashes>> /\ c \in Threads
    BY Apart DEF Close, bounds
<1>2. table \in Seq(Row) /\ cleared \subseteq Ids \union {NoId} /\ failures \in 0 .. MaxFailures
    BY DEF IInv, TypeOK
<1>3. ToSet(Body[c]) \subseteq IdsIn(table) \union cleared
    BY <1>1 DEF IInv, Answers
<1>4. IdsIn(table') = IdsIn(table) /\ \A d \in Calls : Whole(table', d) /\ (NoRows(table, d) => NoRows(table', d))
    BY <1>1 DEF IInv
<1> QED
    BY <1>1, <1>2, <1>3, <1>4, ReleaseInvariant DEF Holding

LEMMA DeleteInvariant ==
    ASSUME IInv, NEW r \in Resets, ResetDelete(r)
    PROVE  IInv'
<1>1. /\ step[r] = "delete" /\ open' = <<>> /\ Goto(r, "deleted") /\ r \in Threads
      /\ UNCHANGED <<holder, table, at, cleared, failures, crashes>>
    BY Apart DEF ResetDelete, bounds
<1>2. TypeOK
    BY DEF IInv
<1>3. /\ step' \in [Threads -> StepNames] /\ step'[r] = "deleted" /\ \A u \in Threads : u # r => step'[u] = step[u]
    BY <1>1, <1>2, StepTo DEF StepNames
<1>4. holder = r /\ holder # Free /\ \A u \in Threads \ {r} : step[u] \in {"arrived", "ok", "error", "cut"}
    BY <1>1, <1>2, OneHolder DEF Holding
<1>5. TypeOK'
    BY <1>1, <1>2, <1>3, <1>4, NoTable DEF TypeOK, Holding, StepNames
<1>6. Transaction'
    BY <1>1, <1>3, <1>4, Apart DEF IInv, Transaction
<1>7. Answers'
    BY <1>1, <1>3, Apart, NoTable DEF IInv, Answers
<1> QED
    BY <1>1, <1>5, <1>6, <1>7 DEF IInv

LEMMA ResetCommitInvariant ==
    ASSUME IInv, NEW r \in Resets, ResetCommit(r)
    PROVE  IInv'
<1>1. PICK l \in {"ok", "error"} : Release(r, l)
    BY DEF ResetCommit
<1>2. /\ step[r] = "deleted" /\ table' = open /\ cleared' = cleared \union IdsIn(table) /\ UNCHANGED <<at, crashes>>
      /\ failures' \in {failures, failures + 1} /\ (failures' = failures \/ failures < MaxFailures)
      /\ r \in Threads /\ r \notin Calls
    BY Apart DEF ResetCommit, StatementFails, bounds
<1>3. /\ TypeOK /\ table \in Seq(Row) /\ cleared \subseteq Ids \union {NoId} /\ failures \in 0 .. MaxFailures
      /\ open = <<>>
    BY <1>2 DEF IInv, TypeOK, Transaction
<1>4. failures' \in 0 .. MaxFailures
    BY <1>2, <1>3, ServiceConstants
<1>5. IdsIn(table) \subseteq Ids \union {NoId}
  <2>1. \A i \in DOMAIN table : table[i] \in Row
    BY <1>3, ElementOfSeq, LenProperties
  <2> QED
    BY <2>1 DEF IdsIn, Row
<1>6. \A c \in Calls : Whole(table', c) /\ NoRows(table', c)
    BY <1>2, <1>3, NoTable DEF Whole
<1> QED
    BY <1>1, <1>2, <1>3, <1>4, <1>5, <1>6, NoTable, ReleaseInvariant DEF Holding

LEMMA CrashInvariant ==
    ASSUME IInv, CrashRestart
    PROVE  IInv'
<1>1. /\ crashes < MaxCrashes /\ crashes' = crashes + 1 /\ holder' = Free /\ open' = table
      /\ step' = [t \in Threads |-> IF step[t] \in {"arrived", "ok", "error"} THEN step[t] ELSE "cut"]
      /\ UNCHANGED <<table, at, cleared, failures>>
    BY DEF CrashRestart
<1>2. TypeOK /\ crashes' \in 0 .. MaxCrashes
    BY <1>1, ServiceConstants DEF IInv, TypeOK
<1>3. /\ step' \in [Threads -> StepNames]
      /\ \A t \in Threads : step'[t] \in {"arrived", "ok", "error", "cut"} /\ step'[t] \in {step[t], "cut"}
    BY <1>1 DEF StepNames
<1>4. TypeOK'
  <2>1. \A t \in Threads : ~Holding(t)'
    BY <1>3 DEF Holding
  <2> QED
    BY <1>1, <1>2, <1>3, <2>1, ServiceConstants DEF TypeOK, StepNames
<1>5. Transaction'
    BY <1>3, Apart DEF IInv, Transaction
<1>6. Answers'
    BY <1>1, <1>3, Apart DEF IInv, Answers
<1> QED
    BY <1>1, <1>4, <1>5, <1>6 DEF IInv

-----------------------------------------------------------------------------
LEMMA InitInvariant == Init => IInv
<1> SUFFICES ASSUME Init PROVE IInv
    OBVIOUS
<1>1. \A t \in Threads : step[t] = "arrived"
    BY DEF Init
<1>2. TypeOK
    BY <1>1, NoTable, ServiceConstants DEF Init, TypeOK, Holding
<1>3. \A c \in Calls : Whole(table, c) /\ NoRows(table, c) /\ NoRows(open, c)
    BY NoTable DEF Init, Whole
<1> QED
    BY <1>1, <1>2, <1>3, Apart DEF IInv, Transaction, Answers

LEMMA StepInvariant == IInv /\ [Next]_vars => IInv'
<1> SUFFICES ASSUME IInv, [Next]_vars PROVE IInv'
    OBVIOUS
<1>1. ASSUME NEW c \in Calls, CallStep(c) PROVE IInv'
  <2>1. CASE Lock(c)
    BY <2>1, Apart, LockInvariant DEF Lock, bounds
  <2> QED
    BY <1>1, <2>1, Apart, TurnedAway, InsertInvariant, RaisesInvariant, CommitInvariant, CloseInvariant DEF CallStep
<1>2. ASSUME NEW r \in Resets, ResetStep(r) PROVE IInv'
  <2>1. CASE ResetLock(r)
    BY <2>1, Apart, LockInvariant DEF ResetLock, bounds
  <2> QED
    BY <1>2, <2>1, Apart, RaisesInvariant, DeleteInvariant, ResetCommitInvariant DEF ResetStep
<1>3. CASE CrashRestart
    BY <1>3, CrashInvariant
<1>4. CASE UNCHANGED vars
  <2>1. UNCHANGED <<step, holder, table, open, at, cleared, failures, crashes>>
    BY <1>4 DEF vars, bounds
  <2>2. TypeOK' /\ Answers'
    BY <2>1 DEF IInv, TypeOK, Holding, Answers
  <2>3. Transaction'
    BY <2>1 DEF IInv, Transaction, OpenRows
  <2> QED
    BY <2>1, <2>2, <2>3 DEF IInv
<1> QED
    BY <1>1, <1>2, <1>3, <1>4 DEF Next

-----------------------------------------------------------------------------
(***************************************************************************)
(* The theorems.                                                           *)
(***************************************************************************)
\* What holds of the service's table and transaction in every behaviour.
THEOREM Invariance == Spec => []IInv
    BY InitInvariant, StepInvariant, PTL DEF Spec

\* The lock has one holder, and no transaction outlives its connection.
THEOREM TypeCorrect == Spec => []TypeOK
<1>1. IInv => TypeOK
    BY DEF IInv
<1> QED
    BY <1>1, Invariance, PTL

\* A batch is stored whole or not at all.
THEOREM BatchIsAtomic == Spec => []AllOrNothing
<1>1. IInv => AllOrNothing
    BY DEF IInv, Whole, NoRows, Nameless, AllOrNothing
<1> QED
    BY <1>1, Invariance, PTL

\* "ok" and an error mean what they say.
THEOREM AnswersAreTrue == Spec => []AnsweredHonestly
<1>1. IInv => AnsweredHonestly
    BY DEF IInv, Answers, NoRows, AnsweredHonestly
<1> QED
    BY <1>1, Invariance, PTL

-----------------------------------------------------------------------------
(***************************************************************************)
(* A batch that is taken in item by item.                                  *)
(***************************************************************************)
\* The elements of an appended sequence.
LEMMA RangeAppend ==
    ASSUME NEW S, NEW s \in Seq(S), NEW e \in S
    PROVE  Range(Append(s, e)) = Range(s) \union {e}
<1>1. Append(s, e) = s \o <<e>>
    BY AppendIsConcat
<1>2. <<e>> \in Seq(S) /\ Range(<<e>>) = {e}
    BY DEF Range
<1>3. Range(s \o <<e>>) = Range(s) \union Range(<<e>>)
    BY <1>2, RangeConcatenation
<1> QED
    BY <1>1, <1>2, <1>3

\* The items at some places of a batch.
Picked(batch, s) == [i \in 1 .. Len(s) |-> batch[s[i]]]

\* u is t with what the first n items of the batch bring.
Taken(t, u, batch, n) ==
    /\ \E s \in Seq(Nat) :
        /\ Len(s) <= n
        /\ Range(s) = Abs!Bringing(t, batch) \intersect 1 .. n
        /\ \A i, j \in 1 .. Len(s) : i < j => s[i] < s[j]
        /\ u = t \o Picked(batch, s)
    /\ \A l \in 1 .. n : batch[l] \in Ids => batch[l] \in Range(u)

LEMMA TakenNone ==
    ASSUME NEW T, NEW t \in Seq(T), NEW batch \in Seq(T)
    PROVE  Taken(t, t, batch, 0)
<1>1. <<>> \in Seq(Nat) /\ Len(<<>>) = 0 /\ Range(<<>>) = {} /\ 1 .. 0 = {}
    BY DEF Range
<1>2. t = t \o Picked(batch, <<>>)
  <2>1. Picked(batch, <<>>) = <<>>
    BY <1>1 DEF Picked
  <2> QED
    BY <2>1, ConcatEmptySeq
<1>3. /\ Range(<<>>) = Abs!Bringing(t, batch) \intersect 1 .. 0
      /\ \A i, j \in 1 .. Len(<<>>) : i < j => <<>>[i] < <<>>[j]
      /\ \A l \in 1 .. 0 : batch[l] \in Ids => batch[l] \in Range(t)
    BY <1>1
<1>4. Len(<<>>) <= 0
    BY <1>1
<1> DEFINE s == <<>>
<1> HIDE DEF s
<1>5. s \in Seq(Nat) /\ Len(s) <= 0 /\ Range(s) = Abs!Bringing(t, batch) \intersect 1 .. 0
      /\ (\A i, j \in 1 .. Len(s) : i < j => s[i] < s[j]) /\ t = t \o Picked(batch, s)
    BY <1>1, <1>2, <1>3, <1>4 DEF s
<1> QED
    BY <1>3, <1>5 DEF Taken

LEMMA PickedItems ==
    ASSUME NEW T, NEW batch \in Seq(T), NEW s \in Seq(Nat), Range(s) \subseteq DOMAIN batch
    PROVE  /\ Picked(batch, s) \in Seq(T) /\ Len(Picked(batch, s)) = Len(s)
           /\ \A i \in 1 .. Len(s) : Picked(batch, s)[i] = batch[s[i]]
           /\ Range(Picked(batch, s)) = {batch[k] : k \in Range(s)}
<1>1. Len(s) \in Nat /\ DOMAIN s = 1 .. Len(s) /\ DOMAIN batch = 1 .. Len(batch)
    BY LenProperties
<1>2. \A i \in 1 .. Len(s) : s[i] \in 1 .. Len(batch)
    BY <1>1 DEF Range
<1>3. \A i \in 1 .. Len(s) : batch[s[i]] \in T
    BY <1>2, ElementOfSeq
<1>4. Picked(batch, s) \in [1 .. Len(s) -> T]
    BY <1>3 DEF Picked
<1>5. Picked(batch, s) \in Seq(T) /\ Len(Picked(batch, s)) = Len(s)
    BY <1>1, <1>4
<1>6. Range(Picked(batch, s)) = {batch[k] : k \in Range(s)}
    BY <1>1 DEF Range, Picked
<1> QED
    BY <1>1, <1>5, <1>6 DEF Picked

LEMMA AppendToConcat ==
    ASSUME NEW T, NEW s \in Seq(T), NEW t \in Seq(T), NEW e \in T,
           NEW u, u = s \o t, NEW v, v = Append(t, e)
    PROVE  Append(u, e) = s \o v
<1>1. /\ s \o t \in Seq(T) /\ <<e>> \in Seq(T)
      /\ Append(s \o t, e) = (s \o t) \o <<e>>
      /\ Append(t, e) = t \o <<e>>
    BY AppendIsConcat
<1>2. (s \o t) \o <<e>> = s \o (t \o <<e>>)
    BY <1>1, ConcatAssociative
<1> QED
    BY <1>1, <1>2

\* One more place.
LEMMA PickOneMore ==
    ASSUME NEW T, NEW batch \in Seq(T), NEW n \in 1 .. Len(batch), NEW s \in Seq(Nat),
           Range(s) \subseteq 1 .. n - 1, \A i, j \in 1 .. Len(s) : i < j => s[i] < s[j]
    PROVE  /\ Append(s, n) \in Seq(Nat) /\ Len(Append(s, n)) = Len(s) + 1
           /\ Range(Append(s, n)) = Range(s) \union {n}
           /\ \A i, j \in 1 .. Len(Append(s, n)) : i < j => Append(s, n)[i] < Append(s, n)[j]
           /\ Picked(batch, Append(s, n)) = Append(Picked(batch, s), batch[n])
<1> DEFINE v == Append(s, n)
           x == Picked(batch, s)
<1>1. n \in Nat /\ Len(batch) \in Nat /\ DOMAIN batch = 1 .. Len(batch) /\ batch[n] \in T
    BY LenProperties, ElementOfSeq
<1>2. /\ v \in Seq(Nat) /\ Len(v) = Len(s) + 1 /\ (\A i \in 1 .. Len(s) : v[i] = s[i]) /\ v[Len(s) + 1] = n
      /\ Len(s) \in Nat /\ DOMAIN s = 1 .. Len(s)
    BY <1>1, AppendProperties, LenProperties
<1>3. Range(v) = Range(s) \union {n}
    BY <1>1, RangeAppend
<1> HIDE DEF v
<1>4. \A i \in 1 .. Len(v) : i \in 1 .. Len(s) \/ i = Len(s) + 1
    BY <1>2
<1>5. \A i, j \in 1 .. Len(v) : i < j => v[i] < v[j]
  <2> SUFFICES ASSUME NEW i \in 1 .. Len(v), NEW j \in 1 .. Len(v), i < j PROVE v[i] < v[j]
    OBVIOUS
  <2>1. i \in 1 .. Len(s)
    BY <1>2, <1>4
  <2>2. s[i] \in 1 .. n - 1
    BY <1>2, <2>1 DEF Range
  <2>3. CASE j \in 1 .. Len(s)
    BY <1>2, <2>1, <2>3
  <2>4. CASE j = Len(s) + 1
    BY <1>1, <1>2, <2>1, <2>2, <2>4
  <2> QED
    BY <1>4, <2>3, <2>4
<1>6. Range(s) \subseteq DOMAIN batch /\ Range(v) \subseteq DOMAIN batch
    BY <1>1, <1>3
<1>7. /\ x \in Seq(T) /\ Len(x) = Len(s)
      /\ \A i \in 1 .. Len(s) : x[i] = batch[s[i]]
    BY <1>6, PickedItems
<1>8. /\ Picked(batch, v) \in Seq(T) /\ Len(Picked(batch, v)) = Len(v)
      /\ \A i \in 1 .. Len(v) : Picked(batch, v)[i] = batch[v[i]]
    BY <1>2, <1>6, PickedItems
<1> HIDE DEF x
<1>9. Picked(batch, v) = Append(x, batch[n])
  <2>1. /\ Append(x, batch[n]) \in Seq(T) /\ Len(Append(x, batch[n])) = Len(s) + 1
        /\ \A i \in 1 .. Len(s) : Append(x, batch[n])[i] = x[i]
        /\ Append(x, batch[n])[Len(s) + 1] = batch[n]
    BY <1>1, <1>7, AppendProperties
  <2>2. \A i \in 1 .. Len(v) : Picked(batch, v)[i] = Append(x, batch[n])[i]
    <3> SUFFICES ASSUME NEW i \in 1 .. Len(v) PROVE Picked(batch, v)[i] = Append(x, batch[n])[i]
      OBVIOUS
    <3>1. CASE i \in 1 .. Len(s)
      BY <1>2, <1>7, <1>8, <2>1, <3>1, ZenonT(60)
    <3>2. CASE i = Len(s) + 1
      BY <1>2, <1>8, <2>1, <3>2
    <3> QED
      BY <1>4, <3>1, <3>2
  <2> QED
    BY <1>2, <1>8, <2>1, <2>2, SeqEqual
<1> QED
    BY <1>2, <1>3, <1>5, <1>9 DEF v, x

LEMMA TakenNext ==
    ASSUME NEW T, NEW t \in Seq(T), NEW u \in Seq(T), NEW batch \in Seq(T),
           NEW n \in 1 .. Len(batch), Taken(t, u, batch, n - 1)
    PROVE  /\ batch[n] \in {NoId} \union (Ids \ Range(u)) => Taken(t, Append(u, batch[n]), batch, n)
           /\ batch[n] \notin {NoId} \union (Ids \ Range(u)) => Taken(t, u, batch, n)
<1> DEFINE e == batch[n]
           B == Abs!Bringing(t, batch)
<1>1. PICK s \in Seq(Nat) :
        /\ Len(s) <= n - 1
        /\ Range(s) = B \intersect 1 .. n - 1
        /\ \A i, j \in 1 .. Len(s) : i < j => s[i] < s[j]
        /\ u = t \o Picked(batch, s)
    BY DEF Taken
<1> DEFINE x == Picked(batch, s)
<1>2. /\ DOMAIN batch = 1 .. Len(batch) /\ n \in Nat \ {0} /\ e \in T
      /\ 1 .. n = (1 .. n - 1) \union {n} /\ n \notin 1 .. n - 1 /\ Len(s) \in Nat
      /\ n \in DOMAIN batch /\ 1 .. n - 1 \subseteq DOMAIN batch
    BY LenProperties, ElementOfSeq
<1>3. x \in Seq(T) /\ Range(x) = {batch[k] : k \in Range(s)}
    BY <1>1, <1>2, PickedItems, SMTT(30)
<1>4. n \in B <=> e \in {NoId} \/ (e \in Ids \ Range(t) /\ \A l \in 1 .. n - 1 : batch[l] # e)
  <2>1. \A r : Abs!Range(r) = Range(r)
    BY DEF Abs!Range, Range
  <2> QED
    BY <1>2, <2>1 DEF Abs!Bringing
<1>5. \A l \in 1 .. n - 1 : batch[l] \in Ids => batch[l] \in Range(u)
    BY DEF Taken
<1> HIDE DEF x, B
<1>6. Range(u) = Range(t) \union Range(x)
    BY <1>1, <1>3, RangeConcatenation DEF x
<1>7. n \in B <=> e \in {NoId} \union (Ids \ Range(u))
  <2>1. ASSUME \A l \in 1 .. n - 1 : batch[l] # e PROVE e \notin Range(x)
    BY <1>1, <1>3, <2>1
  <2> QED
    BY <1>4, <1>5, <1>6, <2>1
<1>8. CASE n \in B
  <2> DEFINE v == Append(s, n)
  <2>1. /\ v \in Seq(Nat) /\ Len(v) = Len(s) + 1 /\ Range(v) = Range(s) \union {n}
        /\ \A i, j \in 1 .. Len(v) : i < j => v[i] < v[j]
        /\ Picked(batch, v) = Append(x, e)
    BY <1>1, <1>2, PickOneMore DEF x
  <2> HIDE DEF v, e
  <2>2. Len(v) <= n /\ Range(v) = B \intersect 1 .. n
    BY <1>1, <1>2, <1>8, <2>1
  <2>3. Append(u, e) = t \o Picked(batch, v)
    <3>1. e \in T /\ x \in Seq(T)
      BY <1>2, <1>3
    <3>2. u = t \o x
      BY <1>1 DEF x
    <3> DEFINE p == Picked(batch, v)
    <3>3. p = Append(x, e)
      BY <2>1
    <3> HIDE DEF p
    <3>4. Append(u, e) = t \o p
      BY <3>1, <3>2, <3>3, AppendToConcat
    <3> QED
      BY <3>4 DEF p
  <2>4. \A l \in 1 .. n : batch[l] \in Ids => batch[l] \in Range(Append(u, e))
    <3>1. Range(Append(u, e)) = Range(u) \union {e}
      BY <1>2, RangeAppend
    <3> QED
      BY <1>2, <1>5, <3>1 DEF e
  <2>5. Taken(t, Append(u, e), batch, n)
    BY <2>1, <2>2, <2>3, <2>4 DEF Taken, B
  <2> QED
    BY <1>7, <1>8, <2>5 DEF e
<1>9. CASE n \notin B
  <2>1. Len(s) <= n /\ Range(s) = B \intersect 1 .. n
    BY <1>1, <1>2, <1>9
  <2>2. \A l \in 1 .. n : batch[l] \in Ids => batch[l] \in Range(u)
    BY <1>2, <1>5, <1>7, <1>9
  <2>3. Taken(t, u, batch, n)
    BY <1>1, <2>1, <2>2 DEF Taken, B
  <2> QED
    BY <1>7, <1>9, <2>3
<1> QED
    BY <1>8, <1>9

\* At the end of the batch the abstract table takes it in.
LEMMA TakenAll ==
    ASSUME NEW T, NEW batch \in Seq(T), Taken(IdsOf(table), IdsOf(table)', batch, Len(batch))
    PROVE  Abs!Add(batch)
<1> DEFINE B == Abs!Bringing(IdsOf(table), batch)
<1>1. PICK s \in Seq(Nat) :
        /\ Len(s) <= Len(batch)
        /\ Range(s) = B \intersect 1 .. Len(batch)
        /\ \A i, j \in 1 .. Len(s) : i < j => s[i] < s[j]
        /\ IdsOf(table)' = IdsOf(table) \o Picked(batch, s)
    BY DEF Taken
<1>2. Len(s) \in Nat /\ DOMAIN s = 1 .. Len(s) /\ Len(batch) \in Nat /\ DOMAIN batch = 1 .. Len(batch)
    BY LenProperties
<1>3. Abs!Range(s) = B
    BY <1>1, <1>2 DEF Abs!Range, Range, Abs!Bringing
<1>4. s \in Abs!BoundedSeq(B, Len(batch))
  <2>1. \A i \in 1 .. Len(s) : s[i] \in B
    BY <1>2, <1>3 DEF Abs!Range
  <2>2. s \in [1 .. Len(s) -> B] /\ Len(s) \in 0 .. Len(batch)
    BY <1>1, <1>2, <2>1
  <2> HIDE DEF B
  <2> QED
    BY <2>2 DEF Abs!BoundedSeq, Abs!SeqOf
<1> QED
    BY <1>1, <1>2, <1>3, <1>4 DEF Abs!Add, Picked

-----------------------------------------------------------------------------
(***************************************************************************)
(* The service implements AbstractTable.                                   *)
(***************************************************************************)
\* The holder's transaction is the table and what its batch brought so far.
Arriving == \A c \in Calls : step[c] = "rows" => Taken(IdsOf(table), IdsOf(open), Body[c], at - 1)

Items == Ids \union {NoId, Unbindable, NoObject}

LEMMA IdsOfFacts ==
    ASSUME NEW t \in Seq(Row)
    PROVE  /\ IdsOf(t) \in Seq(Items) /\ Len(IdsOf(t)) = Len(t) /\ Range(IdsOf(t)) = IdsIn(t)
           /\ IdsIn(t) \subseteq Ids \union {NoId}
           /\ \A e \in Row : IdsOf(Append(t, e)) = Append(IdsOf(t), e.id)
<1>1. DOMAIN t = 1 .. Len(t) /\ Len(t) \in Nat /\ \A i \in 1 .. Len(t) : t[i] \in Row
    BY LenProperties, ElementOfSeq
<1>2. \A i \in 1 .. Len(t) : t[i].id \in Ids \union {NoId} /\ t[i].id \in Items
    BY <1>1 DEF Row, Items
<1>3. /\ IdsOf(t) \in Seq(Items) /\ Len(IdsOf(t)) = Len(t) /\ DOMAIN IdsOf(t) = 1 .. Len(t)
      /\ \A i \in 1 .. Len(t) : IdsOf(t)[i] = t[i].id
    BY <1>1, <1>2 DEF IdsOf
<1>4. Range(IdsOf(t)) = IdsIn(t) /\ IdsIn(t) \subseteq Ids \union {NoId}
    BY <1>1, <1>2, <1>3 DEF Range, IdsIn
<1>5. ASSUME NEW e \in Row PROVE IdsOf(Append(t, e)) = Append(IdsOf(t), e.id)
  <2> DEFINE u == Append(t, e)
             w == Append(IdsOf(t), e.id)
  <2>1. e.id \in Items
    BY DEF Row, Items
  <2>2. /\ DOMAIN u = 1 .. Len(t) + 1
        /\ \A i \in 1 .. Len(t) : u[i] = t[i]
        /\ u[Len(t) + 1] = e
    BY AppendProperties, LenProperties
  <2>3. /\ w \in Seq(Items) /\ Len(w) = Len(t) + 1
        /\ \A i \in 1 .. Len(t) : w[i] = IdsOf(t)[i]
        /\ w[Len(t) + 1] = e.id
    BY <1>3, <2>1, AppendProperties
  <2> HIDE DEF u, w
  <2>4. DOMAIN w = 1 .. Len(t) + 1
    BY <2>3, LenProperties
  <2>5. \A i \in 1 .. Len(t) + 1 : i \in 1 .. Len(t) \/ i = Len(t) + 1
    BY <1>1
  <2>6. \A i \in 1 .. Len(t) + 1 : u[i].id = w[i]
    BY <1>3, <2>2, <2>3, <2>5
  <2>7. w = [i \in 1 .. Len(t) + 1 |-> w[i]]
    BY <2>3, <2>4
  <2>8. [i \in 1 .. Len(t) + 1 |-> u[i].id] = [i \in 1 .. Len(t) + 1 |-> w[i]]
    BY <2>6
  <2> QED
    BY <2>2, <2>7, <2>8 DEF IdsOf, u, w
<1> QED
    BY <1>3, <1>4, <1>5

\* A step that neither locks nor inserts keeps a transaction that is open for
\* a batch, and so does every step of another call.
LEMMA ArrivingKept ==
    ASSUME IInv, Arriving, [Next]_vars
    PROVE  Arriving'
<1> SUFFICES ASSUME NEW c \in Calls, step'[c] = "rows"
             PROVE  Taken(IdsOf(table)', IdsOf(open)', Body[c], at' - 1)
    BY DEF Arriving, Taken, Picked, Abs!Bringing, Abs!Range
<1>1. /\ TypeOK /\ table \in Seq(Row) /\ open \in Seq(Row) /\ c \in Threads
      /\ Body[c] \in Seq(Items) /\ DOMAIN Body[c] = 1 .. Len(Body[c])
    BY Apart, BodyFacts DEF IInv, TypeOK, Items
<1>2. CASE Lock(c)
  <2>1. table' = table /\ open' = table /\ at' - 1 = 0
    BY <1>2 DEF Lock, Acquire
  <2>2. Taken(IdsOf(table), IdsOf(table), Body[c], 0)
    BY <1>1, IdsOfFacts, TakenNone
  <2> QED
    BY <2>1, <2>2 DEF IdsOf
<1>3. CASE InsertRow(c)
  <2> DEFINE b == Body[c]
             u == IdsOf(open)
  <2>1. /\ step[c] = "rows" /\ at \in 1 .. Len(b) /\ b[at] # Unbindable /\ table' = table /\ at' - 1 = at
        /\ open' = IF b[at] \in IdsIn(open) \ {NoId} THEN open
                   ELSE Append(open, [id |-> b[at], call |-> c])
    BY <1>1, <1>3 DEF InsertRow
  <2>2. b[at] \in Ids \union {NoId}
    <3>1. b[at] \in Items /\ b[at] # NoObject
      BY <1>1, <2>1, BodyFacts DEF IInv, Transaction, OpenRows, Items
    <3> QED
      BY <2>1, <3>1 DEF Items
  <2>3. Taken(IdsOf(table), u, b, at - 1)
    BY <2>1 DEF Arriving
  <2>4. u \in Seq(Items) /\ IdsOf(table) \in Seq(Items) /\ Range(u) = IdsIn(open)
    BY <1>1, IdsOfFacts
  <2>5. [id |-> b[at], call |-> c] \in Row
    BY <2>2 DEF Row
  <2>6. IdsOf(open') = IF b[at] \in IdsIn(open) \ {NoId} THEN u ELSE Append(u, b[at])
    <3>1. IdsOf(Append(open, [id |-> b[at], call |-> c])) = Append(u, [id |-> b[at], call |-> c].id)
      BY <1>1, <2>5, IdsOfFacts
    <3> QED
      BY <2>1, <3>1
  <2> HIDE DEF b, u
  <2>7. b[at] \notin IdsIn(open) \ {NoId} <=> b[at] \in {NoId} \union (Ids \ Range(u))
    BY <2>2, <2>4
  <2>8. /\ b[at] \in {NoId} \union (Ids \ Range(u)) => Taken(IdsOf(table), Append(u, b[at]), b, at)
        /\ b[at] \notin {NoId} \union (Ids \ Range(u)) => Taken(IdsOf(table), u, b, at)
    BY <1>1, <2>1, <2>3, <2>4, TakenNext DEF b
  <2>9. Taken(IdsOf(table), IdsOf(open'), b, at)
    BY <2>6, <2>7, <2>8
  <2> QED
    BY <2>1, <2>9 DEF IdsOf, b
<1>4. CASE UNCHANGED <<table, open, at>> /\ step[c] = "rows"
  <2>1. Taken(IdsOf(table), IdsOf(open), Body[c], at - 1)
    BY <1>4 DEF Arriving
  <2> QED
    BY <1>4, <2>1 DEF IdsOf
<1>5. Lock(c) \/ InsertRow(c) \/ (UNCHANGED <<table, open, at>> /\ step[c] = "rows")
  <2>1. step[c] = "rows" => holder = c /\ holder # Free
    BY <1>1, ServiceConstants DEF TypeOK, Holding
  <2>2. \A t \in Threads : Holding(t) => holder = t
    BY <1>1 DEF TypeOK
  <2>3. ASSUME NEW t \in Threads, NEW l, Goto(t, l), l # "rows" PROVE step[c] = "rows" /\ t # c
    BY <1>1, <2>3 DEF Goto, TypeOK
  <2>4. ASSUME NEW t \in Threads, Holding(t), NEW l, Goto(t, l), l # "rows" PROVE FALSE
    BY <2>1, <2>2, <2>3, <2>4
  <2>5. ASSUME NEW t \in Threads, NEW l, Acquire(t, l), l # "rows" \/ t # c PROVE FALSE
    BY <1>1, <2>1, <2>5 DEF Acquire, Goto, TypeOK
  <2>6. ASSUME NEW d \in Calls, CallStep(d)
        PROVE  Lock(c) \/ InsertRow(c) \/ (UNCHANGED <<table, open, at>> /\ step[c] = "rows")
    <3>1. d \in Threads
      BY Apart
    <3>2. CASE Ignore(d) \/ Misshapen(d)
      BY <2>3, <3>1, <3>2 DEF Ignore, Misshapen
    <3>3. CASE Lock(d)
      BY <2>5, <3>1, <3>3 DEF Lock
    <3>4. CASE InsertRow(d)
      <4>1. step[d] = "rows" /\ step' = step
        BY <3>4 DEF InsertRow
      <4>2. d = c
        BY <2>1, <2>2, <3>1, <4>1 DEF Holding
      <4> QED
        BY <3>4, <4>2
    <3>5. CASE RowRaises(d)
      BY <2>4, <3>1, <3>5 DEF RowRaises, Release, Holding
    <3>6. CASE Commit(d)
      BY <2>4, <3>1, <3>6 DEF Commit, Holding
    <3>7. CASE Close(d)
      BY <2>4, <3>1, <3>7 DEF Close, Release, Holding
    <3> QED
      BY <2>6, <3>2, <3>3, <3>4, <3>5, <3>6, <3>7 DEF CallStep
  <2>7. ASSUME NEW r \in Resets, ResetStep(r) PROVE FALSE
    <3>1. r \in Threads /\ r # c
      BY Apart
    <3>2. CASE ResetLock(r)
      BY <2>5, <3>1, <3>2 DEF ResetLock
    <3>3. CASE ResetDelete(r)
      BY <2>4, <3>1, <3>3 DEF ResetDelete, Holding
    <3>4. CASE ResetRaises(r)
      BY <2>4, <3>1, <3>4 DEF ResetRaises, Release, Holding
    <3>5. CASE ResetCommit(r)
      BY <2>4, <3>1, <3>5 DEF ResetCommit, Release, Holding
    <3> QED
      BY <2>7, <3>2, <3>3, <3>4, <3>5 DEF ResetStep
  <2>8. ~CrashRestart
    BY <1>1 DEF CrashRestart
  <2>9. CASE UNCHANGED vars
    BY <2>9 DEF vars
  <2> QED
    BY <2>6, <2>7, <2>8, <2>9 DEF Next
<1> QED
    BY <1>2, <1>3, <1>4, <1>5

\* A commit is a batch taken in, the commit of a reset empties the table, and
\* nothing else is to be seen of it.
LEMMA StepSimulates ==
    ASSUME IInv, Arriving, [Next]_vars
    PROVE  [Abs!Next]_(IdsOf(table))
<1>1. ASSUME NEW c \in Calls, Commit(c) PROVE Abs!Next
  <2>1. step[c] = "rows" /\ at \notin DOMAIN Body[c] /\ table' = open
    BY <1>1 DEF Commit
  <2>2. OpenRows(c) /\ open \in Seq(Row)
    BY <2>1 DEF IInv, TypeOK, Transaction
  <2>3. /\ Body[c] \in Seq(Items) /\ Len(Body[c]) \in Nat /\ at - 1 = Len(Body[c])
        /\ ToSet(Body[c]) = {Body[c][j] : j \in 1 .. Len(Body[c])}
    <3>1. /\ Body[c] \in Seq(Items) /\ Len(Body[c]) \in Nat /\ DOMAIN Body[c] = 1 .. Len(Body[c])
          /\ ToSet(Body[c]) = {Body[c][j] : j \in 1 .. Len(Body[c])}
      BY BodyFacts DEF Items
    <3> QED
      BY <2>1, <2>2, <3>1 DEF OpenRows
  <2>4. Taken(IdsOf(table), IdsOf(open), Body[c], Len(Body[c]))
    BY <2>1, <2>3 DEF Arriving
  <2>5. IdsOf(table)' = IdsOf(open)
    BY <2>1 DEF IdsOf
  <2>6. Abs!Add(Body[c])
    BY <2>3, <2>4, <2>5, TakenAll
  <2>7. c \in Storable
    <3>1. \A j \in 1 .. Len(Body[c]) : Body[c][j] \in IdsIn(open)
      BY <2>2, <2>3 DEF OpenRows
    <3> QED
      BY <2>2, <2>3, <3>1, IdsOfFacts DEF Storable
  <2> QED
    BY <2>6, <2>7 DEF Abs!Next
<1>2. ASSUME NEW r \in Resets, ResetCommit(r) PROVE Abs!Next
  <2>1. table' = <<>>
    BY <1>2 DEF ResetCommit, IInv, Transaction
  <2>2. IdsOf(table)' = <<>>
    BY <2>1 DEF IdsOf
  <2> QED
    BY <2>2 DEF Abs!Next, Abs!Clear
<1>3. CASE table' = table
    BY <1>3 DEF IdsOf
<1>4. ASSUME NEW c \in Calls, CallStep(c) PROVE Commit(c) \/ table' = table
    BY <1>4 DEF CallStep, Ignore, Misshapen, Lock, InsertRow, RowRaises, Close
<1>5. ASSUME NEW r \in Resets, ResetStep(r) PROVE ResetCommit(r) \/ table' = table
    BY <1>5 DEF ResetStep, ResetLock, ResetDelete, ResetRaises
<1> QED
    BY <1>1, <1>2, <1>3, <1>4, <1>5 DEF Next, CrashRestart, vars

\* dbservice is an AbstractTable: whatever the calls, the failing statements
\* and the crashes, its committed rows change by whole batches, each in its
\* order and each id once, and by resets.
THEOREM Implements == Spec => Refines
<1>1. Init => Abs!Init /\ Arriving
  <2>1. Init => IdsOf(table) = <<>>
    BY DEF Init, IdsOf
  <2>2. Init => Arriving
    BY Apart DEF Init, Arriving
  <2> QED
    BY <2>1, <2>2 DEF Abs!Init
<1>2. Spec => [](IInv /\ Arriving)
  <2>1. IInv /\ Arriving /\ [Next]_vars => Arriving'
    BY ArrivingKept
  <2> QED
    BY <1>1, <2>1, Invariance, PTL DEF Spec
<1>3. IInv /\ Arriving /\ [Next]_vars => [Abs!Next]_(IdsOf(table))
    BY StepSimulates
<1> QED
    BY <1>1, <1>2, <1>3, PTL DEF Spec, Refines, Abs!Spec
=============================================================================
