--------------------------- MODULE ServerPoolProofs ---------------------------
(***************************************************************************)
(* What ServerPool guarantees for any number of backends, scores and       *)
(* overlapping probes.                                                     *)
(***************************************************************************)
EXTENDS ServerPool, Integers, TLAPS

LEMMA OrderFacts ==
    /\ DOMAIN Order = 1 .. Len(Order) /\ Len(Order) \in Nat
    /\ \A i \in DOMAIN Order : Order[i] \in Backends
    BY PoolConstants DEF Backends

LEMMA ScoreFacts ==
    /\ \A v \in Scores \union {0} : v \in Nat /\ v < MaxScore
    /\ MaxScore \in Nat
    BY PoolConstants

LEMMA ProbeFacts ==
    /\ {NoProbe, Sent, Down, Hung} \subseteq Probes
    /\ \A v \in Scores : Answer(v) \in Probes /\ Pending(v) \in Probes
    BY DEF Probes

\* A probe's state may be replaced by any other.
LEMMA SetProbeType ==
    ASSUME TypeOK, NEW b \in Backends, NEW a \in 1 .. Window[b], NEW p \in Probes, SetProbe(b, a, p)
    PROVE  \A c \in Backends : probe'[c] \in [1 .. Window[c] -> Probes]
    BY DEF TypeOK, SetProbe

-----------------------------------------------------------------------------
(***************************************************************************)
(* Types.                                                                  *)
(***************************************************************************)
LEMMA TypeInit == Init => TypeOK
<1> SUFFICES ASSUME Init PROVE TypeOK
    OBVIOUS
<1>1. 1 \in 1 .. Len(Order) + 1
    BY OrderFacts
<1>2. \A b \in Backends : probe[b] \in [1 .. Window[b] -> Probes]
    BY ProbeFacts DEF Init
<1>3. Nobody \in [backend : Backends \union {Down}, score : Nat]
    BY ScoreFacts DEF Nobody
<1> QED
    BY <1>1, <1>2, <1>3, PoolConstants DEF Init, TypeOK, Limit

\* What a probe's life changes.
LEMMA ProbeType ==
    ASSUME TypeOK, NEW b \in Backends, ProbeStep(b)
    PROVE  TypeOK'
<1> PICK a \in 1 .. Window[b] :
        \/ ProbeServed(b, a) \/ ProbeFailed(b, a) \/ ProbeUndecodable(b, a)
        \/ ProbeAlive(b, a) \/ ProbeHealth(b, a)
    BY DEF ProbeStep, ProbeGoesOn
<1>1. \E p \in Probes : SetProbe(b, a, p)
  <2>1. ProbeServed(b, a) => \E p \in Probes : SetProbe(b, a, p)
    <3>1. condition[b] \in Scores \/ condition[b] \in {Down, Hung}
      BY DEF TypeOK, Conditions
    <3> QED  BY <3>1, ProbeFacts DEF ProbeServed
  <2> QED  BY <2>1, ProbeFacts DEF ProbeFailed, ProbeUndecodable, ProbeAlive, ProbeHealth
<1>2. \A c \in Backends : probe'[c] \in [1 .. Window[c] -> Probes]
    BY <1>1, SetProbeType
<1>3. CASE ProbeServed(b, a) \/ ProbeUndecodable(b, a)
    BY <1>2, <1>3 DEF TypeOK, ProbeServed, ProbeUndecodable, environment, backend, adapting, selection, history
<1>4. CASE ProbeFailed(b, a)
  <2>1. fails' \in [Backends -> 0 .. Limit] /\ alive' \in [Backends -> BOOLEAN]
        /\ cooldown' \in [Backends -> {"unset", "ahead", "passed"}]
    BY <1>4 DEF TypeOK, ProbeFailed, Limit
  <2> QED
    BY <1>2, <1>4, <2>1 DEF TypeOK, ProbeFailed, environment, adapting, selection
<1>5. CASE ProbeAlive(b, a)
  <2>1. fails' \in [Backends -> 0 .. Limit] /\ alive' \in [Backends -> BOOLEAN]
        /\ cooldown' \in [Backends -> {"unset", "ahead", "passed"}]
    BY <1>5 DEF TypeOK, ProbeAlive, Limit
  <2> QED
    BY <1>2, <1>5, <2>1 DEF TypeOK, ProbeAlive, environment, adapting, selection
<1>6. CASE ProbeHealth(b, a)
    BY <1>2, <1>6 DEF TypeOK, ProbeHealth, environment, adapting, selection
<1> QED
    BY <1>3, <1>4, <1>5, <1>6

LEMMA TickType ==
    ASSUME TypeOK, Tick
    PROVE  TypeOK'
<1>1. \A b \in Backends : probe'[b] \in [1 .. Window[b] -> Probes]
  <2> SUFFICES ASSUME NEW b \in Backends, NEW a \in 1 .. Window[b]
               PROVE  (IF a = 1 THEN Sent ELSE probe[b][a - 1]) \in Probes
    BY DEF Tick
  <2>1. Window[b] \in Nat
    BY PoolConstants
  <2>2. a # 1 => a - 1 \in 1 .. Window[b]
    BY <2>1
  <2> QED  BY <2>2, ProbeFacts DEF TypeOK
<1> QED
    BY <1>1 DEF TypeOK, Tick, environment, backend, selection, history

LEMMA AdaptType ==
    ASSUME TypeOK, AdaptStep
    PROVE  TypeOK'
<1>1. CASE AdaptLock
    BY <1>1, OrderFacts DEF TypeOK, AdaptLock, environment, backend, selection, history
<1>2. CASE AdaptCheck
    BY <1>2, OrderFacts DEF TypeOK, AdaptCheck, environment, backend, selection, history
<1>3. CASE AdaptRead
  <2>1. score[Order[adaptAt]] \in Nat
    BY <1>3, OrderFacts, ScoreFacts DEF TypeOK, AdaptRead
  <2>2. adaptAt + 1 \in 1 .. Len(Order) + 1
    BY <1>3, OrderFacts DEF TypeOK, AdaptRead
  <2>3. adapt' = "check" /\ adaptAt' = adaptAt + 1 /\ sum' = sum + score[Order[adaptAt]] /\ len' = len + 1
    BY <1>3 DEF AdaptRead
  <2>4. sum' \in Nat /\ len' \in Nat /\ adaptAt' \in 1 .. Len(Order) + 1
    BY <2>1, <2>2, <2>3 DEF TypeOK
  <2>5. select = "idle"
    BY <1>3 DEF TypeOK, AdaptRead
  <2>6. UNCHANGED <<condition, changes, probe, alive, fails, cooldown, score, threshold, select, selectAt, best,
                    overloaded, everAlive, steady>>
    BY <1>3 DEF AdaptRead, environment, backend, selection, history
  <2> QED  BY <2>3, <2>4, <2>5, <2>6 DEF TypeOK
<1>4. CASE AdaptEnd
  <2>1. len # 0 => OneAndAHalfTimesMean \in Int
    <3> DEFINE n == 2 * len
               m == 3 * sum
    <3>1. len # 0 => n \in Nat /\ n > 0 /\ m \in Nat
      BY DEF TypeOK
    <3> HIDE DEF n, m
    <3>2. len # 0 => m \div n \in Int
      BY <3>1
    <3> QED  BY <3>2 DEF OneAndAHalfTimesMean, m, n
  <2>2. threshold' = threshold \/ threshold' \in 30 .. 90
    BY <1>4, <2>1 DEF AdaptEnd, Clamped
  <2>3. 1 \in 1 .. Len(Order) + 1
    BY OrderFacts
  <2> QED  BY <1>4, <2>2, <2>3 DEF TypeOK, AdaptEnd, environment, backend, selection, history
<1> QED
    BY <1>1, <1>2, <1>3, <1>4 DEF AdaptStep

\* The effective score of a backend is a number, below MaxScore only when it
\* is alive, and then its score.
LEMMA EffectiveFacts ==
    ASSUME TypeOK, NEW b \in Backends
    PROVE  /\ GetEffectiveScore(b) \in Nat
           /\ GetEffectiveScore(b) < MaxScore => alive[b]
           /\ alive[b] => GetEffectiveScore(b) = score[b]
           /\ score[b] \in Nat /\ score[b] < MaxScore
    BY ScoreFacts DEF TypeOK, GetEffectiveScore

LEMMA SelectType ==
    ASSUME TypeOK, SelectStart \/ SelectStep
    PROVE  TypeOK'
<1>1. Nobody \in [backend : Backends \union {Down}, score : Nat]
    BY ScoreFacts DEF Nobody
<1>2. 1 \in 1 .. Len(Order) + 1
    BY OrderFacts
<1>3. CASE SelectStart
  <2>1. Alive \subseteq Backends
    BY DEF Alive
  <2> QED
    BY <1>1, <1>2, <1>3, <2>1 DEF TypeOK, SelectStart, environment, backend, adapting
<1>4. CASE SelectAvailable
    BY <1>4, OrderFacts DEF TypeOK, SelectAvailable, environment, backend, adapting, history
<1>5. CASE SelectScore
  <2> DEFINE b == Order[selectAt]
  <2>1. b \in Backends /\ selectAt + 1 \in 1 .. Len(Order) + 1
    BY <1>5, OrderFacts DEF TypeOK, SelectScore
  <2>2. GetEffectiveScore(b) \in Nat
    BY <2>1, EffectiveFacts
  <2> HIDE DEF b
  <2>3. {best', overloaded'} \subseteq [backend : Backends \union {Down}, score : Nat]
    <3>1. /\ best' = best \/ best' = [backend |-> b, score |-> GetEffectiveScore(b)]
          /\ overloaded' = overloaded \/ overloaded' = [backend |-> b, score |-> GetEffectiveScore(b)]
      BY <1>5 DEF SelectScore, Better, b
    <3> QED  BY <2>1, <2>2, <3>1 DEF TypeOK
  <2> QED
    BY <1>5, <2>1, <2>3 DEF TypeOK, SelectScore, environment, backend, adapting, history
<1>6. CASE SelectReturn
    BY <1>1, <1>2, <1>6 DEF TypeOK, SelectReturn, environment, backend, adapting
<1> QED
    BY <1>3, <1>4, <1>5, <1>6 DEF SelectStep

LEMMA TypeStep == TypeOK /\ [Next]_vars => TypeOK'
<1> SUFFICES ASSUME TypeOK, [Next]_vars PROVE TypeOK'
    OBVIOUS
<1>1. ASSUME NEW b \in Backends, Change(b) PROVE TypeOK'
  <2>1. changes' \in 0 .. MaxChanges
    <3>1. MaxChanges \in Nat /\ changes \in 0 .. MaxChanges
      BY PoolConstants DEF TypeOK
    <3>2. /\ MaxChanges > 0 => changes < MaxChanges
          /\ changes' = IF MaxChanges > 0 THEN changes + 1 ELSE changes
      BY <1>1 DEF Change
    <3> QED  BY <3>1, <3>2
  <2>2. condition' \in [Backends -> Conditions]
    BY <1>1 DEF TypeOK, Change
  <2> QED  BY <1>1, <2>1, <2>2 DEF TypeOK, Change, backend, adapting, selection, history
<1>2. ASSUME NEW b \in Backends, CooldownPasses(b) PROVE TypeOK'
    BY <1>2 DEF TypeOK, CooldownPasses, environment, adapting, selection, history
<1>3. CASE UNCHANGED vars
    BY <1>3 DEF TypeOK, vars, environment, backend, adapting, selection, history
<1> QED
    BY <1>1, <1>2, <1>3, ProbeType, TickType, AdaptType, SelectType DEF Next

\* Types, and that adapting and selecting exclude each other: the threshold is
\* either the flag's or within the bounds of AdaptThreshold, whatever scores
\* change between its two looks at them.
THEOREM TypeCorrect == Spec => []TypeOK
    BY TypeInit, TypeStep, PTL DEF Spec
-----------------------------------------------------------------------------
(***************************************************************************)
(* The circuit breaker.                                                    *)
(***************************************************************************)

\* However the results of a backend's overlapping probes are reordered, flag,
\* failure count and cooldown tell the same.
THEOREM BreakerAlwaysConsistent == Spec => []BreakerConsistent
<1>1. Init => BreakerConsistent
    BY DEF Init, BreakerConsistent, Limit
<1>2. TypeOK /\ BreakerConsistent /\ [Next]_vars => BreakerConsistent'
  <2> SUFFICES ASSUME TypeOK, BreakerConsistent, [Next]_vars PROVE BreakerConsistent'
    OBVIOUS
  <2>1. CASE UNCHANGED <<alive, fails, cooldown>>
    BY <2>1 DEF BreakerConsistent
  <2>2. ASSUME NEW b \in Backends, ProbeStep(b) PROVE BreakerConsistent'
    <3> PICK a \in 1 .. Window[b] :
            \/ ProbeServed(b, a) \/ ProbeFailed(b, a) \/ ProbeUndecodable(b, a)
            \/ ProbeAlive(b, a) \/ ProbeHealth(b, a)
      BY <2>2 DEF ProbeStep, ProbeGoesOn
    <3>1. CASE ProbeServed(b, a) \/ ProbeUndecodable(b, a) \/ ProbeHealth(b, a)
      BY <2>1, <3>1 DEF ProbeServed, ProbeUndecodable, ProbeHealth, backend
    <3>2. CASE ProbeFailed(b, a)
      BY <3>2 DEF ProbeFailed, BreakerConsistent, TypeOK, Limit
    <3>3. CASE ProbeAlive(b, a)
      BY <3>3 DEF ProbeAlive, BreakerConsistent, TypeOK, Limit
    <3> QED  BY <3>1, <3>2, <3>3
  <2>3. ASSUME NEW b \in Backends, CooldownPasses(b) PROVE BreakerConsistent'
    BY <2>3 DEF CooldownPasses, BreakerConsistent, TypeOK
  <2>4. CASE \/ \E b \in Backends : Change(b)
             \/ Tick \/ AdaptStep \/ SelectStart \/ SelectStep \/ UNCHANGED vars
    BY <2>1, <2>4 DEF Change, Tick, AdaptStep, AdaptLock, AdaptCheck, AdaptRead, AdaptEnd, SelectStart,
       SelectStep, SelectAvailable, SelectScore, SelectReturn, vars, backend
  <2> QED  BY <2>2, <2>3, <2>4 DEF Next
<1> QED
    BY <1>1, <1>2, TypeCorrect, PTL DEF Spec

-----------------------------------------------------------------------------
(***************************************************************************)
(* The selection.                                                          *)
(***************************************************************************)

\* What a selection compares are numbers.
LEMMA CompareFacts ==
    ASSUME TypeOK
    PROVE  /\ best.score \in Nat /\ overloaded.score \in Nat
           /\ MaxScore \in Nat /\ Nobody.score = MaxScore
           /\ threshold \in Nat
<1>1. best.score \in Nat /\ overloaded.score \in Nat
    BY DEF TypeOK
<1>2. InitialThreshold \in Nat
    BY PoolConstants
<1>3. threshold \in Nat
  <2>1. threshold = InitialThreshold \/ threshold \in 30 .. 90
    BY DEF TypeOK
  <2> QED  BY <1>2, <2>1
<1> QED
    BY <1>1, <1>3, ScoreFacts DEF Nobody

\* While SelectBest runs, whoever it has noted was alive during it and beats
\* every backend behind it that stayed alive with one score, each on its side
\* of the threshold, which nobody changes meanwhile.
Scan ==
    select # "idle" =>
        /\ Alive \subseteq everAlive /\ steady \subseteq Alive
        /\ best.score < MaxScore => best.backend \in everAlive /\ best.score <= threshold
        /\ overloaded.score < MaxScore => overloaded.backend \in everAlive
        /\ best = Nobody \/ best.score < MaxScore
        /\ overloaded = Nobody \/ overloaded.score < MaxScore
        /\ \A i \in DOMAIN Order :
              i < selectAt /\ Order[i] \in steady =>
                  IF score[Order[i]] <= threshold
                  THEN best.score <= score[Order[i]] ELSE overloaded.score <= score[Order[i]]

\* Steps of others: what they may change of what a selection looks at.
LEMMA ScanKept ==
    ASSUME TypeOK, Scan, UNCHANGED <<threshold, selection>>,
           steady' \subseteq steady, everAlive \subseteq everAlive',
           Alive' \subseteq Alive \union everAlive',
           \A b \in steady' : b \in Alive' /\ score'[b] = score[b]
    PROVE  Scan'
    BY DEF Scan, selection

LEMMA ScanProbe ==
    ASSUME TypeOK, Scan, NEW b \in Backends, ProbeStep(b)
    PROVE  Scan'
<1> PICK a \in 1 .. Window[b] :
        \/ ProbeServed(b, a) \/ ProbeFailed(b, a) \/ ProbeUndecodable(b, a)
        \/ ProbeAlive(b, a) \/ ProbeHealth(b, a)
    BY DEF ProbeStep, ProbeGoesOn
<1> SUFFICES ASSUME select' # "idle" PROVE Scan'
    BY DEF Scan
<1>1. UNCHANGED <<threshold, selection>>
    BY DEF ProbeServed, ProbeFailed, ProbeUndecodable, ProbeAlive, ProbeHealth, adapting
<1>2. select # "idle" /\ Alive \subseteq everAlive /\ steady \subseteq Alive
    BY <1>1 DEF Scan, selection
<1>3. CASE ProbeServed(b, a) \/ ProbeUndecodable(b, a)
  <2>1. UNCHANGED <<alive, score, everAlive, steady>>
    BY <1>3 DEF ProbeServed, ProbeUndecodable, backend, history
  <2>2. Alive' = Alive
    BY <2>1 DEF Alive
  <2> QED  BY <1>1, <1>2, <2>1, <2>2, ScanKept
<1>4. CASE ProbeFailed(b, a)
  <2>1. /\ score' = score /\ everAlive' = everAlive
        /\ steady' = IF alive'[b] THEN steady ELSE steady \ {b}
        /\ \A c \in Backends \ {b} : alive'[c] = alive[c]
        /\ alive'[b] => alive[b]
    BY <1>4 DEF ProbeFailed, TypeOK
  <2>2. Alive' \subseteq Alive /\ \A c \in steady' : c \in Alive'
    BY <1>2, <2>1 DEF Alive
  <2> QED  BY <1>1, <2>1, <2>2, ScanKept
<1>5. CASE ProbeAlive(b, a)
  <2>1. /\ score' = score /\ steady' = steady /\ everAlive' = everAlive \union {b}
        /\ alive' = [alive EXCEPT ![b] = TRUE]
    BY <1>2, <1>5 DEF ProbeAlive
  <2>2. Alive' = Alive \union {b}
    BY <2>1 DEF Alive, TypeOK
  <2> QED  BY <1>1, <1>2, <2>1, <2>2, ScanKept
<1>6. CASE ProbeHealth(b, a)
  <2>1. PICK v \in Scores :
            /\ score' = [score EXCEPT ![b] = v] /\ UNCHANGED <<alive, everAlive>>
            /\ steady' = IF v = score[b] THEN steady ELSE steady \ {b}
    BY <1>6 DEF ProbeHealth
  <2>2. Alive' = Alive
    BY <2>1 DEF Alive
  <2>3. \A c \in steady' : score'[c] = score[c]
    BY <2>1 DEF TypeOK
  <2> QED  BY <1>1, <1>2, <2>1, <2>2, <2>3, ScanKept
<1> QED
    BY <1>3, <1>4, <1>5, <1>6

\* One look at a backend's score.
LEMMA ScanScore ==
    ASSUME TypeOK, Scan, SelectScore
    PROVE  Scan'
<1> DEFINE b == Order[selectAt]
           s == GetEffectiveScore(b)
<1>1. b \in Backends /\ selectAt \in DOMAIN Order /\ selectAt \in Nat
    BY OrderFacts DEF TypeOK, SelectScore
<1>2. /\ s \in Nat /\ (s < MaxScore => b \in Alive)
      /\ (b \in Alive => s = score[b] /\ s < MaxScore)
    BY <1>1, EffectiveFacts DEF Alive
<1> HIDE DEF s
<1>3. /\ UNCHANGED <<threshold, score, alive, everAlive, steady>> /\ selectAt' = selectAt + 1
      /\ IF s <= threshold
         THEN /\ best' = (IF s < best.score THEN [backend |-> b, score |-> s] ELSE best)
              /\ overloaded' = overloaded
         ELSE /\ overloaded' = (IF s < overloaded.score THEN [backend |-> b, score |-> s] ELSE overloaded)
              /\ best' = best
    BY DEF SelectScore, Better, adapting, backend, history, s
<1> HIDE DEF b
<1>4. /\ best.score \in Nat /\ overloaded.score \in Nat /\ best.score <= MaxScore /\ overloaded.score <= MaxScore
      /\ MaxScore \in Nat /\ threshold \in Nat
      /\ select # "idle"
  <2>1. select # "idle"
    BY DEF SelectScore
  <2> QED  BY <2>1, CompareFacts DEF Scan
<1>5. /\ Alive' = Alive /\ Alive \subseteq everAlive /\ steady \subseteq Alive
    BY <1>3, <1>4 DEF Alive, Scan
<1>6. /\ best'.score \in Nat /\ best'.score <= best.score
      /\ overloaded'.score \in Nat /\ overloaded'.score <= overloaded.score
    BY <1>2, <1>3, <1>4
<1>7. /\ best'.score < MaxScore => best'.backend \in everAlive /\ best'.score <= threshold
      /\ overloaded'.score < MaxScore => overloaded'.backend \in everAlive
      /\ best' = Nobody \/ best'.score < MaxScore
      /\ overloaded' = Nobody \/ overloaded'.score < MaxScore
    BY <1>2, <1>3, <1>4, <1>5 DEF Scan
<1>8. ASSUME NEW i \in DOMAIN Order, i < selectAt', Order[i] \in steady
      PROVE  IF score[Order[i]] <= threshold
             THEN best'.score <= score[Order[i]] ELSE overloaded'.score <= score[Order[i]]
  <2>1. i \in Nat /\ Order[i] \in Backends
    BY OrderFacts
  <2>2. score[Order[i]] \in Nat
    BY <2>1, EffectiveFacts
  <2>3. CASE i < selectAt
    BY <1>4, <1>6, <1>8, <2>2, <2>3 DEF Scan
  <2>4. CASE i = selectAt
    <3>1. Order[i] = b /\ s = score[Order[i]]
      BY <1>2, <1>5, <1>8, <2>4 DEF b
    <3> QED  BY <1>3, <1>4, <2>2, <3>1
  <2> QED  BY <1>1, <1>3, <1>8, <2>1, <2>3, <2>4
<1> QED
    BY <1>3, <1>5, <1>7, <1>8 DEF Scan

LEMMA ScanStep == TypeOK /\ TypeOK' /\ Scan /\ [Next]_vars => Scan'
<1> SUFFICES ASSUME TypeOK, TypeOK', Scan, [Next]_vars PROVE Scan'
    OBVIOUS
<1>1. CASE UNCHANGED <<alive, score, threshold, selection, history>>
  <2>1. Alive' = Alive
    BY <1>1 DEF Alive
  <2> QED  BY <1>1, <2>1 DEF Scan, selection, history
<1>2. CASE AdaptEnd
    BY <1>2 DEF AdaptEnd, TypeOK, Scan, selection
<1>3. CASE SelectStart
  <2>1. /\ best' = Nobody /\ overloaded' = Nobody /\ selectAt' = 1
        /\ everAlive' = Alive /\ steady' = Alive /\ alive' = alive
    BY <1>3 DEF SelectStart, backend
  <2>2. Alive' = Alive /\ Nobody.score = MaxScore /\ ~ (MaxScore < MaxScore)
    BY <2>1, ScoreFacts DEF Alive, Nobody
  <2>3. \A i \in DOMAIN Order : ~ (i < selectAt')
    BY <2>1, OrderFacts
  <2> QED  BY <2>1, <2>2, <2>3 DEF Scan
<1>4. CASE SelectAvailable
  <2>1. /\ UNCHANGED <<alive, score, threshold, best, overloaded, everAlive, steady>>
        /\ select # "idle" /\ selectAt \in DOMAIN Order
    BY <1>4 DEF SelectAvailable, backend, adapting, history
  <2>2. Alive' = Alive
    BY <2>1 DEF Alive
  <2>3. selectAt' = selectAt \/ (selectAt' = selectAt + 1 /\ ~IsAvailable(Order[selectAt]))
    BY <1>4 DEF SelectAvailable
  <2>4. \A i \in DOMAIN Order : i < selectAt' /\ Order[i] \in steady => i < selectAt
    <3>1. ~IsAvailable(Order[selectAt]) => Order[selectAt] \notin steady
      BY <2>1 DEF IsAvailable, Scan, Alive
    <3> QED  BY <2>1, <2>3, <3>1, OrderFacts
  <2> QED  BY <2>1, <2>2, <2>4 DEF Scan
<1>5. CASE SelectReturn
    BY <1>5 DEF SelectReturn, Scan
<1>6. CASE \/ \E b \in Backends : Change(b) \/ CooldownPasses(b)
           \/ Tick \/ AdaptLock \/ AdaptCheck \/ AdaptRead \/ UNCHANGED vars
    BY <1>1, <1>6 DEF Change, CooldownPasses, Tick, AdaptLock, AdaptCheck, AdaptRead, vars, backend, adapting
<1> QED
    BY <1>2, <1>3, <1>4, <1>5, <1>6, ScanProbe, ScanScore DEF Next, AdaptStep, SelectStep

\* SelectBest, whatever probes apply meanwhile and however many backends there
\* are, returns one that was alive during the call if one was so all along,
\* and none worse than any that held still.
THEOREM SelectionAlwaysSound == Spec => []SelectionSound
<1>1. Init => Scan
    BY DEF Init, Scan
<1>2. TypeOK /\ Scan => SelectionSound
  <2> SUFFICES ASSUME TypeOK, Scan, select = "available", selectAt \notin DOMAIN Order,
                      NEW c \in Outcomes, NEW b \in steady
               PROVE  c.backend \in everAlive /\ \A d \in steady : c.score <= score[d]
    BY DEF SelectionSound
  <2>1. /\ best.score \in Nat /\ overloaded.score \in Nat /\ MaxScore \in Nat /\ threshold \in Nat
        /\ Nobody.score = MaxScore
    BY CompareFacts
  <2>2. ASSUME NEW d \in steady
        PROVE  /\ score[d] \in Nat /\ score[d] < MaxScore
               /\ IF score[d] <= threshold THEN best.score <= score[d] ELSE overloaded.score <= score[d]
    <3>1. d \in Backends
      BY DEF TypeOK
    <3>2. PICK i \in DOMAIN Order : Order[i] = d
      BY <3>1 DEF Backends
    <3>3. i < selectAt
      BY OrderFacts DEF TypeOK
    <3> QED  BY <3>1, <3>2, <3>3, EffectiveFacts DEF Scan
  <2>3. CASE best # Nobody
    <3>1. c = best /\ best.score < MaxScore /\ best.backend \in everAlive /\ best.score <= threshold
      BY <2>3 DEF Outcomes, Scan
    <3>2. ASSUME NEW d \in steady PROVE best.score <= score[d]
      BY <2>1, <2>2, <3>1
    <3> QED  BY <3>1, <3>2
  <2>4. CASE best = Nobody
    <3>1. \A d \in steady : overloaded.score <= score[d] /\ overloaded.score < MaxScore
      BY <2>1, <2>2, <2>4
    <3>2. overloaded # Nobody /\ overloaded.backend \in everAlive
      BY <2>1, <3>1 DEF Scan
    <3>3. c = overloaded
      BY <2>4, <3>2 DEF Outcomes
    <3> QED  BY <3>1, <3>2, <3>3
  <2> QED  BY <2>3, <2>4
<1> QED
    BY <1>1, <1>2, ScanStep, TypeCorrect, PTL DEF Spec
=============================================================================
