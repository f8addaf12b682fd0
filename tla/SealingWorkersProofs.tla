------------------------ MODULE SealingWorkersProofs ------------------------
(***************************************************************************)
(* What Sealing guarantees for any number of messages, senders,            *)
(* connections, resets and restarts, whatever the messages say, and any    *)
(* size of the key cache; and what Workers does for any number of workers, *)
(* messages and crashes.  The two share one module, not their variables.   *)
(***************************************************************************)
EXTENDS Sealing, Workers, Integers, FiniteSetTheorems, SequenceTheorems, WellFoundedInduction, TLAPS

Keys == 1 .. keys

\* Who has which key pair.  The cache has one sender's key pair under each of
\* its names; a key pair taken since the cache was last emptied is still there.
KeysOwned ==
    /\ \A x \in Msgs \union Conns : held[x] # None => held[x] \in Keys
    /\ \A u \in DOMAIN cache : cache[u] \in Keys
    /\ \A u, v \in DOMAIN cache : cache[u] = cache[v] => u = v
    /\ \A m \in Posts, u \in DOMAIN cache : held[m] = cache[u] => Username[m] = u
    /\ \A c \in Conns, u \in DOMAIN cache : held[c] # cache[u]
    /\ \A m \in Posts : held[m] # None =>
        /\ keyAge[m] <= epoch
        /\ keyAge[m] = epoch => Username[m] \in DOMAIN cache /\ cache[Username[m]] = held[m]

StepNames == {"new", "link", "save", "overflow", "done"}

Shapes ==
    /\ step \in [Msgs -> StepNames]
    /\ held \in [Msgs \union Conns -> Nat \union {None}]
    /\ keys \in Nat /\ epoch \in Nat
    /\ keyAge \in [Msgs -> Nat]
    /\ IsFiniteSet(DOMAIN cache)
    /\ \A m \in Msgs : step[m] = "link" => m \in Posts /\ held[m] # None

KeyInv == Shapes /\ KeysOwned /\ OneKeyPerSender

-----------------------------------------------------------------------------
(***************************************************************************)
(* Key pairs.                                                              *)
(***************************************************************************)
LEMMA Apart ==
    /\ \A m \in Posts : m \in Msgs /\ m \notin Frames /\ m \notin Conns /\ m \in Msgs \union Conns
    /\ \A m \in Frames : m \in Msgs /\ m \notin Posts /\ m \notin Conns /\ m \in Msgs \union Conns
                         /\ ConnOf[m] \in Conns
    /\ \A c \in Conns : c \notin Msgs /\ c \in Msgs \union Conns
    /\ Msgs = Posts \union Frames
    BY SealingConstants DEF Msgs

LEMMA StepTo ==
    ASSUME step \in [Msgs -> StepNames], NEW m \in Msgs, NEW l \in StepNames, Goto(m, l)
    PROVE  step' \in [Msgs -> StepNames] /\ step'[m] = l /\ \A n \in Msgs : n # m => step'[n] = step[n]
    BY DEF Goto

\* Taking the key pair out of the cache.
LEMMA CachedInvariant ==
    ASSUME KeyInv, NEW m \in Posts, get_or_create_keypair(m), Username[m] \in DOMAIN cache
    PROVE  KeyInv'
<1> DEFINE u == Username[m]
<1>1. /\ held' = [held EXCEPT ![m] = cache[u]] /\ keyAge' = [keyAge EXCEPT ![m] = epoch]
      /\ UNCHANGED <<cache, keys, epoch>> /\ Goto(m, "link")
    BY DEF get_or_create_keypair
<1>2. Shapes /\ KeysOwned /\ OneKeyPerSender /\ m \in Msgs /\ m \in Msgs \union Conns
    BY Apart DEF KeyInv
<1>3. /\ held' \in [Msgs \union Conns -> Nat \union {None}] /\ held'[m] = cache[u]
      /\ \A x \in Msgs \union Conns : x # m => held'[x] = held[x]
      /\ keyAge' \in [Msgs -> Nat] /\ keyAge'[m] = epoch /\ \A n \in Msgs : n # m => keyAge'[n] = keyAge[n]
      /\ cache[u] \in Keys /\ cache[u] # None
  <2>1. cache[u] \in Keys /\ cache[u] \in Nat
    BY <1>2 DEF KeysOwned, Keys, Shapes
  <2> QED
    BY <1>1, <1>2, <2>1, SealingConstants DEF Shapes
<1>4. Shapes'
  <2>1. step' \in [Msgs -> StepNames] /\ step'[m] = "link" /\ \A n \in Msgs : n # m => step'[n] = step[n]
    BY <1>1, <1>2, StepTo DEF Shapes, StepNames
  <2> QED
    BY <1>1, <1>2, <1>3, <2>1 DEF Shapes
<1>5. KeysOwned'
  <2>1. Keys' = Keys /\ DOMAIN cache' = DOMAIN cache /\ \A v \in DOMAIN cache : cache'[v] = cache[v]
    BY <1>1 DEF Keys
  <2>2. \A x \in Msgs \union Conns : held'[x] # None => held'[x] \in Keys
    BY <1>2, <1>3 DEF KeysOwned
  <2>3. \A n \in Posts, v \in DOMAIN cache : held'[n] = cache[v] => Username[n] = v
    BY <1>2, <1>3, Apart DEF KeysOwned
  <2>4. \A c \in Conns : held'[c] = held[c]
    BY <1>3, Apart
  <2>5. ASSUME NEW n \in Posts, held'[n] # None
        PROVE  /\ keyAge'[n] <= epoch
               /\ keyAge'[n] = epoch => Username[n] \in DOMAIN cache /\ cache[Username[n]] = held'[n]
    <3>1. CASE n = m
      BY <1>2, <1>3, <3>1 DEF Shapes
    <3>2. CASE n # m
      BY <1>2, <1>3, <2>5, <3>2, Apart DEF KeysOwned
    <3> QED
      BY <3>1, <3>2
  <2> QED
    BY <1>1, <1>2, <2>1, <2>2, <2>3, <2>4, <2>5 DEF KeysOwned
<1>6. OneKeyPerSender'
  <2>1. ASSUME NEW n \in Posts, n # m, held[n] # None
        PROVE  /\ Username[n] = u /\ keyAge[n] = epoch => held[n] = cache[u]
               /\ held[n] = cache[u] => Username[n] = u
    BY <1>2, <2>1 DEF KeysOwned
  <2>2. \A c \in Conns : held'[c] = held[c] /\ held[c] # cache[u]
    BY <1>2, <1>3, Apart DEF KeysOwned
  <2>3. \A n \in Posts : n # m => held'[n] = held[n] /\ keyAge'[n] = keyAge[n]
    BY <1>3, Apart
  <2>4. \A n, o \in Posts :
            held'[n] # None /\ held'[o] # None =>
                /\ Username[n] = Username[o] /\ keyAge'[n] = keyAge'[o] => held'[n] = held'[o]
                /\ held'[n] = held'[o] => Username[n] = Username[o]
    <3> SUFFICES ASSUME NEW n \in Posts, NEW o \in Posts, held'[n] # None, held'[o] # None
                 PROVE  /\ Username[n] = Username[o] /\ keyAge'[n] = keyAge'[o] => held'[n] = held'[o]
                        /\ held'[n] = held'[o] => Username[n] = Username[o]
      OBVIOUS
    <3>1. CASE n = m /\ o = m
      BY <3>1
    <3>2. CASE n = m /\ o # m
      BY <1>3, <2>1, <2>3, <3>2
    <3>3. CASE n # m /\ o = m
      BY <1>3, <2>1, <2>3, <3>3
    <3>4. CASE n # m /\ o # m
      BY <1>2, <2>3, <3>4 DEF OneKeyPerSender
    <3> QED
      BY <3>1, <3>2, <3>3, <3>4
  <2>5. \A n \in Posts, c \in Conns : held'[c] # None => held'[n] # held'[c]
    BY <1>2, <1>3, <2>2, <2>3 DEF OneKeyPerSender
  <2>6. Cardinality(DOMAIN cache') <= CacheMax + 1
    BY <1>1, <1>2 DEF OneKeyPerSender
  <2> QED
    BY <2>4, <2>5, <2>6 DEF OneKeyPerSender
<1> QED
    BY <1>4, <1>5, <1>6 DEF KeyInv

\* Generating one, which empties a cache that is full.
LEMMA GeneratedInvariant ==
    ASSUME KeyInv, NEW m \in Posts, get_or_create_keypair(m), Username[m] \notin DOMAIN cache
    PROVE  KeyInv'
<1> DEFINE u == Username[m]
           k == keys + 1
           base == IF Full THEN <<>> ELSE cache
<1>1. /\ held' = [held EXCEPT ![m] = k] /\ keyAge' = [keyAge EXCEPT ![m] = epoch']
      /\ cache' = With(base, u, k) /\ keys' = k /\ epoch' = IF Full THEN epoch + 1 ELSE epoch
      /\ Goto(m, "link")
    BY DEF get_or_create_keypair
<1>2. /\ Shapes /\ KeysOwned /\ OneKeyPerSender /\ m \in Msgs /\ m \in Msgs \union Conns
      /\ keys \in Nat /\ epoch \in Nat /\ epoch' \in Nat /\ epoch <= epoch' /\ k \in Nat /\ k # None
      /\ \A i \in Keys : i # k /\ i \in Keys'
      /\ k \in Keys'
    BY <1>1, Apart, SealingConstants DEF KeyInv, Shapes, Keys
<1>3. /\ held' \in [Msgs \union Conns -> Nat \union {None}] /\ held'[m] = k
      /\ \A x \in Msgs \union Conns : x # m => held'[x] = held[x]
      /\ keyAge' \in [Msgs -> Nat] /\ keyAge'[m] = epoch' /\ \A n \in Msgs : n # m => keyAge'[n] = keyAge[n]
    BY <1>1, <1>2 DEF Shapes
<1>4. /\ DOMAIN base \subseteq DOMAIN cache /\ \A v \in DOMAIN base : base[v] = cache[v] /\ v # u
      /\ epoch' = epoch => base = cache
      /\ IsFiniteSet(DOMAIN base) /\ Cardinality(DOMAIN base) <= CacheMax
  <2>1. CASE Full
    <3>1. base = <<>> /\ DOMAIN base = {} /\ epoch' # epoch
      BY <1>1, <1>2, <2>1
    <3> QED
      BY <3>1, FS_EmptySet, SealingConstants
  <2>2. CASE ~Full
    <3>1. base = cache /\ IsFiniteSet(DOMAIN cache)
      BY <1>2, <2>2 DEF Shapes
    <3>2. Cardinality(DOMAIN cache) \in Nat
      BY <3>1, FS_CardinalityType
    <3>3. Cardinality(DOMAIN cache) <= CacheMax
      BY <2>2, <3>2, SealingConstants DEF Full
    <3> QED
      BY <3>1, <3>3
  <2> QED
    BY <2>1, <2>2
<1> HIDE DEF base, k
<1>5. /\ DOMAIN cache' = DOMAIN base \union {u} /\ cache'[u] = k
      /\ \A v \in DOMAIN base : cache'[v] = cache[v] /\ v \in DOMAIN cache /\ v # u
  <2>1. /\ DOMAIN With(base, u, k) = DOMAIN base \union {u}
        /\ With(base, u, k)[u] = k
        /\ \A v \in DOMAIN base : v # u => With(base, u, k)[v] = base[v]
    BY DEF With
  <2> QED
    BY <1>1, <1>4, <2>1
<1>6. IsFiniteSet(DOMAIN cache') /\ Cardinality(DOMAIN cache') <= CacheMax + 1
  <2>1. /\ IsFiniteSet(DOMAIN base \union {u})
        /\ Cardinality(DOMAIN base \union {u}) \in {Cardinality(DOMAIN base), Cardinality(DOMAIN base) + 1}
    BY <1>4, FS_AddElement
  <2>2. Cardinality(DOMAIN base) \in Nat
    BY <1>4, FS_CardinalityType
  <2> QED
    BY <1>4, <1>5, <2>1, <2>2, SealingConstants
<1>7. Shapes'
  <2>1. step' \in [Msgs -> StepNames] /\ step'[m] = "link" /\ \A n \in Msgs : n # m => step'[n] = step[n]
    BY <1>1, <1>2, StepTo DEF Shapes, StepNames
  <2>2. keys' \in Nat
    BY <1>1, <1>2
  <2> QED
    BY <1>2, <1>3, <1>6, <2>1, <2>2 DEF Shapes
<1>8. /\ \A x \in Msgs \union Conns : x # m => held'[x] = held[x] /\ (held[x] # None => held[x] \in Keys) /\ held[x] # k
      /\ \A v \in DOMAIN base : cache[v] \in Keys /\ cache[v] # k
    BY <1>2, <1>3, <1>4 DEF KeysOwned
<1>9. KeysOwned'
  <2>1. \A x \in Msgs \union Conns : held'[x] # None => held'[x] \in Keys'
    BY <1>2, <1>3, <1>8
  <2>2. \A v \in DOMAIN cache' : cache'[v] \in Keys'
    BY <1>2, <1>5, <1>8
  <2>3. \A v, w \in DOMAIN cache' : cache'[v] = cache'[w] => v = w
    BY <1>2, <1>5, <1>8 DEF KeysOwned
  <2>4. \A n \in Posts, v \in DOMAIN cache' : held'[n] = cache'[v] => Username[n] = v
    <3> SUFFICES ASSUME NEW n \in Posts, NEW v \in DOMAIN cache', held'[n] = cache'[v] PROVE Username[n] = v
      OBVIOUS
    <3>1. CASE v = u
      BY <1>5, <1>8, <3>1, Apart
    <3>2. CASE v # u
      BY <1>2, <1>3, <1>5, <1>8, <3>2, Apart DEF KeysOwned
    <3> QED
      BY <3>1, <3>2
  <2>5. \A c \in Conns, v \in DOMAIN cache' : held'[c] # cache'[v]
    <3> SUFFICES ASSUME NEW c \in Conns, NEW v \in DOMAIN cache' PROVE held'[c] # cache'[v]
      OBVIOUS
    <3>1. c # m /\ c \in Msgs \union Conns
      BY Apart
    <3> QED
      BY <1>2, <1>5, <1>8, <3>1 DEF KeysOwned
  <2>6. ASSUME NEW n \in Posts, held'[n] # None
        PROVE  /\ keyAge'[n] <= epoch'
               /\ keyAge'[n] = epoch' => Username[n] \in DOMAIN cache' /\ cache'[Username[n]] = held'[n]
    <3>1. CASE n = m
      BY <1>2, <1>3, <1>5, <3>1
    <3>2. CASE n # m
      <4>1. n \in Msgs /\ held[n] # None /\ held'[n] = held[n] /\ keyAge'[n] = keyAge[n] /\ keyAge[n] \in Nat
        BY <1>2, <1>3, <2>6, <3>2, Apart DEF Shapes
      <4>2. keyAge[n] <= epoch
        BY <1>2, <4>1 DEF KeysOwned
      <4>3. keyAge[n] = epoch' => epoch' = epoch
        BY <1>2, <4>1, <4>2
      <4>4. keyAge[n] = epoch => Username[n] \in DOMAIN cache /\ cache[Username[n]] = held[n]
        BY <1>2, <4>1 DEF KeysOwned
      <4> QED
        BY <1>2, <1>4, <1>5, <4>1, <4>2, <4>3, <4>4
    <3> QED
      BY <3>1, <3>2
  <2> QED
    BY <2>1, <2>2, <2>3, <2>4, <2>5, <2>6 DEF KeysOwned
<1>10. OneKeyPerSender'
  <2>1. \A n \in Posts : n # m => held'[n] = held[n] /\ keyAge'[n] = keyAge[n] /\ held[n] # k /\ n \in Msgs
    BY <1>3, <1>8, Apart
  <2>2. \A c \in Conns : held'[c] = held[c] /\ held[c] # k
    BY <1>8, Apart
  <2>3. ASSUME NEW n \in Posts, n # m, held[n] # None, Username[n] = u PROVE keyAge[n] # epoch'
    <3>1. keyAge[n] <= epoch /\ keyAge[n] \in Nat
      BY <1>2, <2>1, <2>3 DEF KeysOwned, Shapes
    <3>2. keyAge[n] # epoch
      BY <1>2, <2>3 DEF KeysOwned
    <3> QED
      BY <1>2, <3>1, <3>2
  <2>4. \A n, o \in Posts :
            held'[n] # None /\ held'[o] # None =>
                /\ Username[n] = Username[o] /\ keyAge'[n] = keyAge'[o] => held'[n] = held'[o]
                /\ held'[n] = held'[o] => Username[n] = Username[o]
    <3> SUFFICES ASSUME NEW n \in Posts, NEW o \in Posts, held'[n] # None, held'[o] # None
                 PROVE  /\ Username[n] = Username[o] /\ keyAge'[n] = keyAge'[o] => held'[n] = held'[o]
                        /\ held'[n] = held'[o] => Username[n] = Username[o]
      OBVIOUS
    <3>1. CASE n = m /\ o = m
      BY <3>1
    <3>2. CASE n = m /\ o # m
      BY <1>3, <2>1, <2>3, <3>2
    <3>3. CASE n # m /\ o = m
      BY <1>3, <2>1, <2>3, <3>3
    <3>4. CASE n # m /\ o # m
      BY <1>2, <2>1, <3>4 DEF OneKeyPerSender
    <3> QED
      BY <3>1, <3>2, <3>3, <3>4
  <2>5. \A n \in Posts, c \in Conns : held'[c] # None => held'[n] # held'[c]
    BY <1>2, <1>3, <2>1, <2>2 DEF OneKeyPerSender
  <2> QED
    BY <1>6, <2>4, <2>5 DEF OneKeyPerSender
<1> QED
    BY <1>7, <1>9, <1>10 DEF KeyInv

\* A key pair for a connection, and for its frames.
LEMMA JoinInvariant ==
    ASSUME KeyInv, NEW c \in Conns, Join(c)
    PROVE  KeyInv'
<1> DEFINE k == keys + 1
<1>1. keys' = k /\ held' = [held EXCEPT ![c] = k] /\ UNCHANGED <<step, cache, epoch, keyAge>>
    BY DEF Join, ages
<1>2. /\ Shapes /\ KeysOwned /\ OneKeyPerSender /\ c \in Msgs \union Conns
      /\ keys \in Nat /\ k \in Nat /\ k # None /\ k \in Keys' /\ \A i \in Keys : i # k /\ i \in Keys'
    BY <1>1, Apart, SealingConstants DEF KeyInv, Shapes, Keys
<1> HIDE DEF k
<1>3. /\ held' \in [Msgs \union Conns -> Nat \union {None}] /\ held'[c] = k
      /\ \A x \in Msgs \union Conns : x # c => held'[x] = held[x]
      /\ \A m \in Posts : held'[m] = held[m] /\ held[m] # k
  <2>1. /\ held' \in [Msgs \union Conns -> Nat \union {None}] /\ held'[c] = k
        /\ \A x \in Msgs \union Conns : x # c => held'[x] = held[x]
    BY <1>1, <1>2 DEF Shapes
  <2>2. \A x \in Msgs \union Conns : held[x] # k
    BY <1>2 DEF KeysOwned
  <2> QED
    BY <2>1, <2>2, Apart
<1>4. Shapes'
    BY <1>1, <1>2, <1>3, Apart DEF Shapes
<1>5. KeysOwned'
  <2>1. \A x \in Msgs \union Conns : held'[x] # None => held'[x] \in Keys'
    BY <1>2, <1>3 DEF KeysOwned
  <2>2. \A d \in Conns, u \in DOMAIN cache : held'[d] # cache[u]
    BY <1>2, <1>3, Apart DEF KeysOwned
  <2> QED
    BY <1>1, <1>2, <1>3, <2>1, <2>2 DEF KeysOwned
<1>6. OneKeyPerSender'
    BY <1>1, <1>2, <1>3, Apart DEF OneKeyPerSender
<1> QED
    BY <1>4, <1>5, <1>6 DEF KeyInv

LEMMA FrameKeyInvariant ==
    ASSUME KeyInv, NEW m \in Frames, FrameLink(m)
    PROVE  KeyInv'
<1> DEFINE c == ConnOf[m]
<1>1. /\ held[c] # None /\ held' = [held EXCEPT ![m] = held[c]] /\ UNCHANGED <<cache, keys, epoch, keyAge>>
      /\ Goto(m, "save")
    BY DEF FrameLink, ages
<1>2. /\ Shapes /\ KeysOwned /\ OneKeyPerSender /\ m \in Msgs /\ m \in Msgs \union Conns /\ c \in Msgs \union Conns
      /\ Keys' = Keys /\ held[c] \in Keys
    BY <1>1, Apart DEF KeyInv, KeysOwned, Keys
<1>3. /\ held' \in [Msgs \union Conns -> Nat \union {None}] /\ held'[m] = held[c]
      /\ \A x \in Msgs \union Conns : x # m => held'[x] = held[x]
      /\ \A n \in Posts : held'[n] = held[n]
      /\ \A d \in Conns : held'[d] = held[d]
  <2>1. /\ held' \in [Msgs \union Conns -> Nat \union {None}] /\ held'[m] = held[c]
        /\ \A x \in Msgs \union Conns : x # m => held'[x] = held[x]
    BY <1>1, <1>2 DEF Shapes
  <2> QED
    BY <2>1, Apart
<1>4. Shapes'
  <2>1. step' \in [Msgs -> StepNames] /\ step'[m] = "save" /\ \A n \in Msgs : n # m => step'[n] = step[n]
    BY <1>1, <1>2, StepTo DEF Shapes, StepNames
  <2> QED
    BY <1>1, <1>2, <1>3, <2>1 DEF Shapes
<1>5. KeysOwned'
  <2>1. \A x \in Msgs \union Conns : held'[x] # None => held'[x] \in Keys
    BY <1>1, <1>2, <1>3 DEF KeysOwned
  <2> QED
    BY <1>1, <1>2, <1>3, <2>1 DEF KeysOwned
<1>6. OneKeyPerSender'
    BY <1>1, <1>2, <1>3 DEF OneKeyPerSender
<1> QED
    BY <1>4, <1>5, <1>6 DEF KeyInv

\* The cache is emptied, and connections may be gone.
LEMMA EmptiedInvariant ==
    ASSUME KeyInv, cache' = <<>>, epoch' = epoch + 1, UNCHANGED <<keys, keyAge>>,
           \/ held' = held
           \/ held' = [x \in DOMAIN held |-> IF x \in Conns THEN None ELSE held[x]],
           \/ step' = step
           \/ step' = [m \in Msgs |-> IF step[m] \in {"link", "save", "overflow"} THEN "done" ELSE step[m]]
    PROVE  KeyInv'
<1>1. Shapes /\ KeysOwned /\ OneKeyPerSender /\ epoch \in Nat /\ Keys' = Keys
    BY DEF KeyInv, Shapes, Keys
<1>2. /\ held' \in [Msgs \union Conns -> Nat \union {None}]
      /\ \A x \in Msgs \union Conns : held'[x] \in {held[x], None}
      /\ \A m \in Msgs : held'[m] = held[m]
    BY <1>1, Apart DEF Shapes
<1>3. step' \in [Msgs -> StepNames] /\ \A m \in Msgs : step'[m] = "link" => step[m] = "link"
    BY <1>1 DEF Shapes, StepNames
<1>4. DOMAIN cache' = {} /\ IsFiniteSet(DOMAIN cache') /\ Cardinality(DOMAIN cache') <= CacheMax + 1
  <2>1. DOMAIN cache' = {}
    OBVIOUS
  <2> QED
    BY <2>1, FS_EmptySet, SealingConstants
<1>5. Shapes'
    BY <1>1, <1>2, <1>3, <1>4 DEF Shapes
<1>6. KeysOwned'
  <2>1. \A m \in Posts : held[m] # None => keyAge[m] \in Nat /\ keyAge[m] <= epoch
    BY <1>1, Apart DEF KeysOwned, Shapes
  <2>2. \A m \in Posts : held'[m] # None => keyAge[m] <= epoch' /\ keyAge[m] # epoch'
    BY <1>1, <1>2, <2>1, Apart
  <2>3. \A x \in Msgs \union Conns : held'[x] # None => held'[x] \in Keys
    BY <1>1, <1>2 DEF KeysOwned
  <2> QED
    BY <1>1, <1>4, <2>2, <2>3 DEF KeysOwned
<1>7. OneKeyPerSender'
    BY <1>1, <1>2, <1>4, Apart DEF OneKeyPerSender
<1> QED
    BY <1>5, <1>6, <1>7 DEF KeyInv

\* Nothing else touches a key pair.
LEMMA KeptInvariant ==
    ASSUME KeyInv, UNCHANGED <<held, cache, keys, epoch, keyAge>>,
           \/ step' = step
           \/ \E m \in Msgs, l \in {"save", "overflow", "done"} : Goto(m, l)
    PROVE  KeyInv'
<1>1. Shapes /\ KeysOwned /\ OneKeyPerSender
    BY DEF KeyInv
<1>2. step' \in [Msgs -> StepNames] /\ \A n \in Msgs : step'[n] = "link" => step[n] = "link"
  <2>1. CASE step' = step
    BY <1>1, <2>1 DEF Shapes
  <2>2. ASSUME NEW m \in Msgs, NEW l \in {"save", "overflow", "done"}, Goto(m, l)
        PROVE  step' \in [Msgs -> StepNames] /\ \A n \in Msgs : step'[n] = "link" => step[n] = "link"
    BY <1>1, <2>2, StepTo DEF Shapes, StepNames
  <2> QED
    BY <2>1, <2>2
<1>3. Shapes' /\ KeysOwned' /\ OneKeyPerSender'
    BY <1>1, <1>2 DEF Shapes, KeysOwned, OneKeyPerSender, Keys
<1> QED
    BY <1>3 DEF KeyInv

LEMMA KeyInit == Init => KeyInv
<1> SUFFICES ASSUME Init PROVE KeyInv
    OBVIOUS
<1>1. DOMAIN cache = {} /\ IsFiniteSet(DOMAIN cache) /\ Cardinality(DOMAIN cache) <= CacheMax + 1
  <2>1. DOMAIN cache = {}
    BY DEF Init
  <2> QED
    BY <2>1, FS_EmptySet, SealingConstants
<1>2. \A x \in Msgs \union Conns : held[x] = None
    BY DEF Init
<1>3. Shapes
    BY <1>1 DEF Init, Shapes, StepNames
<1> QED
    BY <1>1, <1>2, <1>3, Apart DEF KeyInv, KeysOwned, OneKeyPerSender

LEMMA KeyStep == KeyInv /\ [Next]_vars => KeyInv'
<1> SUFFICES ASSUME KeyInv, [Next]_vars PROVE KeyInv'
    OBVIOUS
<1>1. ASSUME NEW m \in Msgs, get_or_create_keypair(m) PROVE KeyInv'
  <2>1. m \in Posts
    BY <1>1 DEF get_or_create_keypair
  <2> QED
    BY <1>1, <2>1, CachedInvariant, GeneratedInvariant
<1>2. ASSUME NEW m \in Msgs, FrameLink(m) PROVE KeyInv'
  <2>1. m \in Frames
    BY <1>2 DEF FrameLink
  <2> QED
    BY <1>2, <2>1, FrameKeyInvariant
<1>3. ASSUME NEW m \in Msgs,
             get_next_hashes(m) \/ Save(m) \/ SaveNot(m) \/ SaveFull(m) \/ Overflow(m) \/ OverflowRaises(m)
      PROVE  KeyInv'
  <2>1. UNCHANGED <<held, cache, keys, epoch, keyAge>> /\ \E l \in {"save", "overflow", "done"} : Goto(m, l)
    BY <1>3 DEF get_next_hashes, Save, SaveNot, SaveFull, Overflow, OverflowRaises, Put, keyring, ages
  <2> QED
    BY <2>1, KeptInvariant
<1>4. ASSUME NEW c \in Conns, Join(c) PROVE KeyInv'
    BY <1>4, JoinInvariant
<1>5. CASE \/ WriterTake \/ WriterCommit \/ WriterRaises
           \/ ResetDrain \/ ResetTable \/ ResetTableRaises \/ ResetHash
  <2>1. UNCHANGED <<held, cache, keys, epoch, keyAge, step>>
    BY <1>5 DEF WriterTake, WriterCommit, WriterRaises, ResetDrain, ResetTable, ResetTableRaises, ResetHash,
                keyring, ages
  <2> QED
    BY <2>1, KeptInvariant
<1>6. CASE ResetKeys
    BY <1>6, EmptiedInvariant DEF ResetKeys
<1>7. CASE Restart
    BY <1>7, EmptiedInvariant DEF Restart
<1>8. CASE UNCHANGED vars
    BY <1>8, KeptInvariant DEF vars, keyring, ages
<1> QED
    BY <1>1, <1>2, <1>3, <1>4, <1>5, <1>6, <1>7, <1>8 DEF Next

-----------------------------------------------------------------------------
(***************************************************************************)
(* The stored rows.                                                        *)
(***************************************************************************)
\* Row r is what message m was sealed as.
SealedAs(r, m) == r = Row(m, r.pubkey_jwk, r.prev_hash)

Salt(r) == r.signature.salt

Done == {m \in Msgs : step[m] = "done"}

\* The rows of t are messages of D, sealed, and each there once.
Stored(t, D) ==
    /\ t \in Seq(Range(t))
    /\ \A i \in DOMAIN t : Salt(t[i]) \in D /\ SealedAs(t[i], Salt(t[i]))
    /\ \A i, j \in DOMAIN t : Salt(t[i]) = Salt(t[j]) => i = j

\* The table as it will be when what waits has been written.
Line == rows \o waiting

\* What is in the table, with or without the open transaction, or on its way
\* to it, has left its handler.
RowInv ==
    /\ DOMAIN sealed = Msgs
    /\ \A m \in Linked : SealedAs(sealed[m], m)
    /\ rows \in Seq(Range(rows)) /\ committed \in Seq(Range(committed)) /\ waiting \in Seq(Range(waiting))
    /\ taken \in 0 .. Len(waiting)
    /\ Stored(Line, Done) /\ Stored(committed \o waiting, Done)

LEMMA RowFacts ==
    ASSUME NEW m, NEW k, NEW p
    PROVE  /\ Row(m, k, p).pubkey_jwk = k /\ Row(m, k, p).prev_hash = p /\ Salt(Row(m, k, p)) = m
           /\ verify_record(Row(m, k, p), p) /\ Verifies(Row(m, k, p)) /\ SealedAs(Row(m, k, p), m)
<1>1. /\ Row(m, k, p).pubkey_jwk = k /\ Row(m, k, p).prev_hash = p /\ Salt(Row(m, k, p)) = m
    BY DEF Row, Salt, sign_message
<1>2. verify_record(Row(m, k, p), p)
    BY DEF Row, verify_record
<1>3. Verifies(Row(m, k, p))
  <2>1. sign_message(k, canonical_message(Username[m], Text[m], Timestamp[m]), m) # Garbage
    BY DEF sign_message, Garbage
  <2>2. encrypt_text(Text[m], m) # Garbage
    BY DEF encrypt_text, Garbage
  <2>3. verify_signature(k, sign_message(k, canonical_message(Username[m], Text[m], Timestamp[m]), m),
                         canonical_message(Username[m], Text[m], Timestamp[m]))
    BY <2>1 DEF verify_signature, sign_message
  <2>4. decrypt_text(encrypt_text(Text[m], m)) = Text[m]
    BY <2>2 DEF decrypt_text, encrypt_text
  <2> QED
    BY <2>3, <2>4 DEF Verifies, Row
<1> QED
    BY <1>1, <1>2, <1>3 DEF SealedAs

LEMMA SealedFacts ==
    ASSUME NEW r, NEW m, SealedAs(r, m)
    PROVE  Salt(r) = m /\ verify_record(r, r.prev_hash) /\ Verifies(r)
<1>1. r = Row(m, r.pubkey_jwk, r.prev_hash)
    BY DEF SealedAs
<1>2. /\ Salt(Row(m, r.pubkey_jwk, r.prev_hash)) = m
      /\ verify_record(Row(m, r.pubkey_jwk, r.prev_hash), r.prev_hash)
      /\ Verifies(Row(m, r.pubkey_jwk, r.prev_hash))
    BY RowFacts
<1> QED
    BY <1>1, <1>2

LEMMA AppendFacts ==
    ASSUME NEW t, t \in Seq(Range(t)), NEW r
    PROVE  /\ Append(t, r) \in Seq(Range(Append(t, r))) /\ Append(t, r) # <<>>
           /\ Len(t) \in Nat /\ DOMAIN t = 1 .. Len(t)
           /\ DOMAIN Append(t, r) = 1 .. Len(t) + 1 /\ Len(Append(t, r)) = Len(t) + 1
           /\ Append(t, r)[Len(t) + 1] = r
           /\ \A i \in DOMAIN t : Append(t, r)[i] = t[i]
<1>1. /\ Len(t) \in Nat /\ DOMAIN t = 1 .. Len(t)
      /\ DOMAIN Append(t, r) = 1 .. Len(t) + 1 /\ Len(Append(t, r)) = Len(t) + 1
      /\ Append(t, r)[Len(t) + 1] = r
      /\ \A i \in DOMAIN t : Append(t, r)[i] = t[i]
    OBVIOUS
<1>2. Append(t, r) \in Seq(Range(t) \union {r})
    OBVIOUS
<1>3. \A i \in 1 .. Len(Append(t, r)) : Append(t, r)[i] \in Range(Append(t, r))
    BY <1>1 DEF Range
<1>4. Append(t, r) \in Seq(Range(Append(t, r)))
    BY <1>1, <1>2, <1>3
<1> QED
    BY <1>1, <1>4

LEMMA OfItsRange ==
    ASSUME NEW S, NEW s \in Seq(S)
    PROVE  s \in Seq(Range(s))
<1>1. Len(s) \in Nat /\ s \in [1 .. Len(s) -> S] /\ DOMAIN s = 1 .. Len(s)
    BY LenProperties
<1>2. s \in [1 .. Len(s) -> Range(s)]
    BY <1>1 DEF Range
<1> QED
    BY <1>1, <1>2, SeqDef

LEMMA ConcatFacts ==
    ASSUME NEW t, t \in Seq(Range(t)), NEW u, u \in Seq(Range(u))
    PROVE  /\ t \o u \in Seq(Range(t \o u))
           /\ Len(t) \in Nat /\ Len(u) \in Nat /\ Len(t \o u) = Len(t) + Len(u)
           /\ DOMAIN t = 1 .. Len(t) /\ DOMAIN u = 1 .. Len(u) /\ DOMAIN (t \o u) = 1 .. Len(t) + Len(u)
           /\ \A i \in 1 .. Len(t) : (t \o u)[i] = t[i]
           /\ \A i \in 1 .. Len(u) : (t \o u)[Len(t) + i] = u[i]
           /\ \A i \in Len(t) + 1 .. Len(t) + Len(u) : (t \o u)[i] = u[i - Len(t)]
<1>1. /\ Len(t) \in Nat /\ Len(u) \in Nat /\ Len(t \o u) = Len(t) + Len(u)
      /\ DOMAIN t = 1 .. Len(t) /\ DOMAIN u = 1 .. Len(u) /\ DOMAIN (t \o u) = 1 .. Len(t) + Len(u)
      /\ \A i \in 1 .. Len(t) : (t \o u)[i] = t[i]
      /\ \A i \in Len(t) + 1 .. Len(t) + Len(u) : (t \o u)[i] = u[i - Len(t)]
    OBVIOUS
<1>2. \A i \in 1 .. Len(u) : (t \o u)[Len(t) + i] = u[i]
    BY <1>1
<1> DEFINE s == t \o u
<1>3. s \in Seq(Range(t) \union Range(u))
    OBVIOUS
<1> HIDE DEF s
<1>4. s \in Seq(Range(s))
    BY <1>3, OfItsRange
<1> QED
    BY <1>1, <1>2, <1>4 DEF s

\* v is t and then u.
Joins(v, t, u) ==
    /\ v \in Seq(Range(v)) /\ Len(v) = Len(t) + Len(u) /\ DOMAIN v = 1 .. Len(t) + Len(u)
    /\ \A i \in 1 .. Len(t) : v[i] = t[i]
    /\ \A i \in Len(t) + 1 .. Len(t) + Len(u) : v[i] = u[i - Len(t)]

LEMMA JoinFacts ==
    ASSUME NEW t, t \in Seq(Range(t)), NEW u, u \in Seq(Range(u))
    PROVE  Joins(t \o u, t, u)
    BY ConcatFacts DEF Joins

LEMMA SubFacts ==
    ASSUME NEW t, t \in Seq(Range(t)), NEW a \in Nat \ {0}, NEW b \in 0 .. Len(t)
    PROVE  /\ SubSeq(t, a, b) \in Seq(Range(SubSeq(t, a, b)))
           /\ Len(SubSeq(t, a, b)) = (IF a <= b THEN b - a + 1 ELSE 0)
           /\ \A i \in 1 .. Len(SubSeq(t, a, b)) : SubSeq(t, a, b)[i] = t[a + i - 1]
<1> DEFINE u == SubSeq(t, a, b)
<1>1. Len(t) \in Nat
    OBVIOUS
<1>2. /\ Len(u) = (IF a <= b THEN b - a + 1 ELSE 0)
      /\ \A i \in 1 .. Len(u) : u[i] = t[a + i - 1]
      /\ DOMAIN u = 1 .. Len(u) /\ u \in Seq(Range(t))
    BY <1>1
<1> HIDE DEF u
<1>3. u \in Seq(Range(u))
    BY <1>2, OfItsRange
<1> QED
    BY <1>2, <1>3 DEF u

\* u has rows of t, each at most once and in any order: at i the one at f[i].
Picks(f, u, t) ==
    /\ \A i \in DOMAIN u : f[i] \in DOMAIN t /\ u[i] = t[f[i]]
    /\ \A i, j \in DOMAIN u : f[i] = f[j] => i = j

LEMMA Picked ==
    ASSUME NEW t, NEW D, NEW E, Stored(t, D), D \subseteq E,
           NEW u, u \in Seq(Range(u)), NEW f, Picks(f, u, t)
    PROVE  Stored(u, E)
<1>1. \A i \in DOMAIN u : Salt(u[i]) \in E /\ SealedAs(u[i], Salt(u[i]))
    BY DEF Stored, Picks
<1>2. \A i, j \in DOMAIN u : Salt(u[i]) = Salt(u[j]) => i = j
    BY DEF Stored, Picks
<1> QED
    BY <1>1, <1>2 DEF Stored

LEMMA BehindRow ==
    ASSUME NEW x \in Nat, NEW y \in Nat, NEW i \in Nat, i > x + 1, i <= x + 1 + y, NEW d, d = i - (x + 1)
    PROVE  d \in 1 .. y /\ x + d = i - 1 /\ x + 1 + d = i /\ x + d \in 1 .. x + y
    OBVIOUS

\* A table that loses what is between n and k of the rows that wait.
LEMMA CutStored ==
    ASSUME NEW t, t \in Seq(Range(t)), NEW w, w \in Seq(Range(w)), NEW D, NEW E, D \subseteq E,
           Stored(t \o w, D), NEW n \in 0 .. Len(w), NEW k \in n .. Len(w)
    PROVE  Stored((t \o SubSeq(w, 1, n)) \o SubSeq(w, k + 1, Len(w)), E)
<1> DEFINE p == SubSeq(w, 1, n)
           q == SubSeq(w, k + 1, Len(w))
           a == t \o w
           b == t \o p
           u == b \o q
           f == [i \in DOMAIN u |-> IF i <= Len(t) + n THEN i ELSE i + k - n]
<1>1. Len(t) \in Nat /\ Len(w) \in Nat /\ n \in Nat /\ k \in Nat /\ n <= k /\ k <= Len(w)
    OBVIOUS
<1>2. p \in Seq(Range(p)) /\ Len(p) = n /\ \A i \in 1 .. n : p[i] = w[i]
  <2>1. n \in 0 .. Len(w) /\ 1 \in Nat \ {0}
    OBVIOUS
  <2>2. /\ p \in Seq(Range(p)) /\ Len(p) = (IF 1 <= n THEN n - 1 + 1 ELSE 0)
        /\ \A i \in 1 .. Len(p) : p[i] = w[1 + i - 1]
    BY <2>1, SubFacts
  <2>3. Len(p) = n
    BY <1>1, <2>2
  <2> HIDE DEF p
  <2> QED
    BY <1>1, <2>2, <2>3
<1>3. q \in Seq(Range(q)) /\ Len(q) = Len(w) - k /\ \A i \in 1 .. Len(w) - k : q[i] = w[k + i]
  <2>1. k + 1 \in Nat \ {0} /\ Len(w) \in 0 .. Len(w)
    BY <1>1
  <2>2. /\ q \in Seq(Range(q)) /\ Len(q) = (IF k + 1 <= Len(w) THEN Len(w) - (k + 1) + 1 ELSE 0)
        /\ \A i \in 1 .. Len(q) : q[i] = w[k + 1 + i - 1]
    BY <2>1, SubFacts
  <2>3. Len(q) = Len(w) - k
    BY <1>1, <2>2
  <2> HIDE DEF q
  <2>4. \A i \in 1 .. Len(q) : k + 1 + i - 1 = k + i
    BY <1>1
  <2> QED
    BY <2>2, <2>3, <2>4
<1> HIDE DEF p, q
<1>4. /\ b \in Seq(Range(b)) /\ Len(b) = Len(t) + n
      /\ \A i \in 1 .. Len(t) : b[i] = t[i]
      /\ \A i \in Len(t) + 1 .. Len(t) + n : b[i] = p[i - Len(t)]
  <2>1. Joins(b, t, p)
    BY <1>2, JoinFacts
  <2> HIDE DEF b
  <2> QED
    BY <1>2, <2>1 DEF Joins
<1> HIDE DEF b
<1>5. /\ u \in Seq(Range(u)) /\ DOMAIN u = 1 .. Len(t) + n + (Len(w) - k)
      /\ \A i \in 1 .. Len(t) + n : u[i] = b[i]
      /\ \A i \in Len(t) + n + 1 .. Len(t) + n + (Len(w) - k) : u[i] = q[i - (Len(t) + n)]
  <2>1. b \in Seq(Range(b)) /\ q \in Seq(Range(q)) /\ Len(b) = Len(t) + n /\ Len(q) = Len(w) - k
    BY <1>3, <1>4
  <2>2. Joins(u, b, q)
    BY <2>1, JoinFacts
  <2> HIDE DEF u
  <2> QED
    BY <2>1, <2>2 DEF Joins
<1>6. /\ DOMAIN a = 1 .. Len(t) + Len(w)
      /\ \A i \in 1 .. Len(t) : a[i] = t[i]
      /\ \A i \in 1 .. Len(w) : a[Len(t) + i] = w[i]
    BY ConcatFacts
<1> HIDE DEF u, a
<1>7. ASSUME NEW i \in DOMAIN u PROVE f[i] \in DOMAIN a /\ u[i] = a[f[i]]
  <2>1. CASE i <= Len(t)
    <3>1. i \in 1 .. Len(t) /\ i \in 1 .. Len(t) + n /\ f[i] = i
      BY <1>1, <1>5, <2>1
    <3> QED
      BY <1>1, <1>4, <1>5, <1>6, <3>1
  <2>2. CASE i > Len(t) /\ i <= Len(t) + n
    <3>1. /\ f[i] = i /\ i \in Len(t) + 1 .. Len(t) + n /\ i \in 1 .. Len(t) + n
          /\ i - Len(t) \in 1 .. n /\ i - Len(t) \in 1 .. Len(w) /\ Len(t) + (i - Len(t)) = i
          /\ i \in 1 .. Len(t) + Len(w)
      BY <1>1, <1>5, <2>2
    <3>2. u[i] = b[i] /\ b[i] = p[i - Len(t)] /\ p[i - Len(t)] = w[i - Len(t)]
      BY <1>2, <1>4, <1>5, <3>1
    <3>3. a[Len(t) + (i - Len(t))] = w[i - Len(t)]
      BY <1>6, <3>1
    <3> HIDE DEF f
    <3> QED
      BY <1>6, <3>1, <3>2, <3>3
  <2>3. CASE i > Len(t) + n
    <3>1. /\ f[i] = i + k - n
          /\ i \in Len(t) + n + 1 .. Len(t) + n + (Len(w) - k)
      BY <1>1, <1>5, <2>3
    <3> HIDE DEF f
    <3> DEFINE d == i - (Len(t) + n)
    <3>2. d = i - (Len(t) + n) /\ i \in Nat /\ i > Len(t) + n /\ i <= Len(t) + n + (Len(w) - k)
      BY <1>1, <2>3, <3>1
    <3> HIDE DEF d
    <3>3. /\ d \in 1 .. Len(w) - k /\ k + d \in 1 .. Len(w) /\ Len(t) + (k + d) = i + k - n
          /\ i + k - n \in 1 .. Len(t) + Len(w)
      <4>1. d \in Nat /\ 1 <= d /\ d <= Len(w) - k /\ i = Len(t) + n + d
        <5> DEFINE z == Len(t) + n
                   y == Len(w) - k
        <5>1. z \in Nat /\ y \in Nat /\ d = i - z /\ i \in Nat /\ i > z /\ i <= z + y
          BY <1>1, <3>2
        <5> HIDE DEF z, y
        <5>2. d \in Int /\ i = z + d
          BY <5>1
        <5>3. 1 <= d /\ d <= y
          BY <5>1, <5>2
        <5> QED
          BY <5>2, <5>3 DEF z, y
      <4>2. i + k - n = Len(t) + (k + d)
        BY <1>1, <3>2, <4>1
      <4>3. k + d \in Nat /\ 1 <= k + d /\ k + d <= Len(w)
        BY <1>1, <4>1
      <4>4. Len(t) + (k + d) \in 1 .. Len(t) + Len(w)
        BY <1>1, <4>3
      <4> QED
        BY <1>1, <4>1, <4>2, <4>3, <4>4
    <3>4. u[i] = q[d] /\ q[d] = w[k + d]
      BY <1>3, <1>5, <3>1, <3>3 DEF d
    <3>5. a[Len(t) + (k + d)] = w[k + d]
      BY <1>6, <3>3
    <3> QED
      BY <1>6, <3>1, <3>3, <3>4, <3>5
  <2> QED
    BY <1>1, <1>5, <2>1, <2>2, <2>3
<1>8. \A i, j \in DOMAIN u : f[i] = f[j] => i = j
  <2> SUFFICES ASSUME NEW i \in DOMAIN u, NEW j \in DOMAIN u, f[i] = f[j] PROVE i = j
    OBVIOUS
  <2>1. i \in Int /\ j \in Int
    BY <1>5
  <2> QED
    BY <1>1, <2>1
<1> HIDE DEF f
<1>9. Picks(f, u, a)
    BY <1>7, <1>8 DEF Picks
<1>10. Stored(a, D)
    BY DEF a
<1>11. Stored(u, E)
    BY <1>5, <1>9, <1>10, Picked
<1> QED
    BY <1>11 DEF b, p, q, u

\* A table that loses all rows but those that wait.
LEMMA WaitingStored ==
    ASSUME NEW t, t \in Seq(Range(t)), NEW w, w \in Seq(Range(w)), NEW D, Stored(t \o w, D)
    PROVE  Stored(w, D)
<1> DEFINE a == t \o w
           f == [i \in DOMAIN w |-> i + Len(t)]
<1>1. /\ Len(t) \in Nat /\ Len(w) \in Nat /\ DOMAIN w = 1 .. Len(w) /\ DOMAIN a = 1 .. Len(t) + Len(w)
      /\ \A i \in 1 .. Len(w) : a[Len(t) + i] = w[i]
    BY ConcatFacts
<1> HIDE DEF a
<1>2. \A i \in DOMAIN w : f[i] \in DOMAIN a /\ w[i] = a[f[i]]
    BY <1>1
<1>3. \A i, j \in DOMAIN w : f[i] = f[j] => i = j
    BY <1>1
<1> HIDE DEF f
<1>4. Picks(f, w, a)
    BY <1>2, <1>3 DEF Picks
<1>5. Stored(a, D)
    BY DEF a
<1> QED
    BY <1>4, <1>5, Picked

\* One more row, in the table before those that wait or behind them.
LEMMA AddedStored ==
    ASSUME NEW t, t \in Seq(Range(t)), NEW w, w \in Seq(Range(w)), NEW D, NEW m, m \notin D,
           Stored(t \o w, D), NEW r, SealedAs(r, m)
    PROVE  Stored(t \o Append(w, r), D \union {m}) /\ Stored(Append(t, r) \o w, D \union {m})
<1> DEFINE a == t \o w
           b == Append(a, r)
           E == D \union {m}
<1>1. /\ a \in Seq(Range(a)) /\ Len(t) \in Nat /\ Len(w) \in Nat /\ Len(a) = Len(t) + Len(w)
      /\ DOMAIN a = 1 .. Len(t) + Len(w) /\ Stored(a, D)
      /\ \A i \in 1 .. Len(t) : a[i] = t[i]
      /\ \A i \in 1 .. Len(w) : a[Len(t) + i] = w[i]
    BY ConcatFacts
<1>2. /\ b \in Seq(Range(b)) /\ DOMAIN b = 1 .. Len(a) + 1 /\ b[Len(a) + 1] = r
      /\ \A i \in DOMAIN a : b[i] = a[i]
  <2>1. a \in Seq(Range(a))
    BY <1>1
  <2> HIDE DEF a
  <2> QED
    BY <2>1, AppendFacts
<1>3. t \o Append(w, r) = b
    OBVIOUS
<1> HIDE DEF a, b
<1>4. Stored(b, E)
  <2>1. \A i \in DOMAIN b : i \in DOMAIN a \/ i = Len(a) + 1
    BY <1>1, <1>2
  <2>2. \A i \in DOMAIN a : Salt(b[i]) \in D /\ Salt(b[i]) # m /\ SealedAs(b[i], Salt(b[i])) /\ Salt(b[i]) = Salt(a[i])
    BY <1>1, <1>2 DEF Stored
  <2>3. Salt(b[Len(a) + 1]) = m /\ SealedAs(b[Len(a) + 1], m)
    BY <1>2, SealedFacts
  <2>4. \A i \in DOMAIN b : Salt(b[i]) \in E /\ SealedAs(b[i], Salt(b[i]))
    BY <2>1, <2>2, <2>3
  <2>5. \A i, j \in DOMAIN b : Salt(b[i]) = Salt(b[j]) => i = j
    <3> SUFFICES ASSUME NEW i \in DOMAIN b, NEW j \in DOMAIN b, Salt(b[i]) = Salt(b[j]) PROVE i = j
      OBVIOUS
    <3>1. CASE i \in DOMAIN a /\ j \in DOMAIN a
      BY <1>1, <2>2, <3>1 DEF Stored
    <3>2. CASE i \notin DOMAIN a \/ j \notin DOMAIN a
      BY <2>1, <2>2, <2>3, <3>2
    <3> QED
      BY <3>1, <3>2
  <2> QED
    BY <1>2, <2>4, <2>5 DEF Stored
<1> DEFINE c == Append(t, r)
           u == c \o w
           f == [i \in DOMAIN u |-> IF i <= Len(t) THEN i ELSE IF i = Len(t) + 1 THEN Len(t) + Len(w) + 1 ELSE i - 1]
<1> HIDE DEF f
<1>5. /\ c \in Seq(Range(c)) /\ Len(c) = Len(t) + 1 /\ c[Len(t) + 1] = r
      /\ DOMAIN t = 1 .. Len(t) /\ \A i \in DOMAIN t : c[i] = t[i]
    BY AppendFacts
<1> HIDE DEF c
<1>6. /\ u \in Seq(Range(u)) /\ DOMAIN u = 1 .. Len(t) + 1 + Len(w)
      /\ \A i \in 1 .. Len(t) + 1 : u[i] = c[i]
      /\ \A i \in 1 .. Len(w) : u[Len(t) + 1 + i] = w[i]
  <2>1. /\ u \in Seq(Range(u)) /\ DOMAIN u = 1 .. Len(c) + Len(w)
        /\ \A i \in 1 .. Len(c) : u[i] = c[i]
        /\ \A i \in 1 .. Len(w) : u[Len(c) + i] = w[i]
    <3>1. c \in Seq(Range(c))
      BY <1>5
    <3> QED
      BY <3>1, ConcatFacts
  <2> HIDE DEF u
  <2> QED
    BY <1>5, <2>1
<1> HIDE DEF u
<1>7. ASSUME NEW i \in DOMAIN u PROVE f[i] \in DOMAIN b /\ u[i] = b[f[i]]
  <2>1. CASE i <= Len(t)
    <3>1. i \in 1 .. Len(t) /\ i \in 1 .. Len(t) + 1 /\ f[i] = i /\ i \in DOMAIN a
      BY <1>1, <1>6, <2>1 DEF f
    <3> QED
      BY <1>1, <1>2, <1>5, <1>6, <3>1
  <2>2. CASE i = Len(t) + 1
    <3>1. i \in 1 .. Len(t) + 1 /\ f[i] = Len(a) + 1
      BY <1>1, <1>6, <2>2 DEF f
    <3> QED
      BY <1>1, <1>2, <1>5, <1>6, <2>2, <3>1
  <2>3. CASE i > Len(t) + 1
    <3> DEFINE d == i - (Len(t) + 1)
    <3>1. i \in Nat /\ i <= Len(t) + 1 + Len(w) /\ f[i] = i - 1
      BY <1>1, <1>6, <2>3 DEF f
    <3>2. d = i - (Len(t) + 1) /\ Len(t) \in Nat /\ Len(w) \in Nat /\ DOMAIN a = 1 .. Len(t) + Len(w)
      BY <1>1
    <3> HIDE DEF d
    <3>3. /\ d \in 1 .. Len(w) /\ Len(t) + d = i - 1 /\ Len(t) + 1 + d = i
          /\ Len(t) + d \in 1 .. Len(t) + Len(w)
      BY <2>3, <3>1, <3>2, BehindRow
    <3>4. d \in 1 .. Len(w) /\ Len(t) + 1 + d = i /\ f[i] = Len(t) + d /\ Len(t) + d \in DOMAIN a
      BY <3>1, <3>2, <3>3
    <3>5. u[i] = w[d] /\ a[Len(t) + d] = w[d] /\ b[Len(t) + d] = a[Len(t) + d]
      BY <1>1, <1>2, <1>6, <3>4
    <3> QED
      BY <1>1, <1>2, <3>4, <3>5
  <2>4. i \in Nat /\ Len(t) \in Nat
    BY <1>1, <1>6
  <2> QED
    BY <2>1, <2>2, <2>3, <2>4
<1>8. \A i, j \in DOMAIN u : f[i] = f[j] => i = j
  <2> SUFFICES ASSUME NEW i \in DOMAIN u, NEW j \in DOMAIN u, f[i] = f[j] PROVE i = j
    OBVIOUS
  <2>1. i \in 1 .. Len(t) + 1 + Len(w) /\ j \in 1 .. Len(t) + 1 + Len(w)
    BY <1>6
  <2> QED
    BY <1>1, <2>1 DEF f
<1>9. Picks(f, u, b)
    BY <1>7, <1>8 DEF Picks
<1>10. Stored(u, E)
    BY <1>4, <1>6, <1>9, Picked
<1> QED
    BY <1>3, <1>4, <1>10 DEF u, c

\* Ends of a sequence.
LEMMA Ends ==
    ASSUME NEW t, t \in Seq(Range(t))
    PROVE  /\ SubSeq(t, 1, 0) = <<>> /\ SubSeq(t, Len(t) + 1, Len(t)) = <<>> /\ SubSeq(t, 1, Len(t)) = t
           /\ t \o <<>> = t /\ <<>> \o t = t /\ <<>> \in Seq(Range(<<>>))
    OBVIOUS

\* What is in the table is stored.
LEMMA RowsStored ==
    ASSUME RowInv
    PROVE  Stored(rows, Done) /\ Stored(committed, Done) /\ Stored(waiting, Done)
<1>1. /\ rows \in Seq(Range(rows)) /\ committed \in Seq(Range(committed)) /\ waiting \in Seq(Range(waiting))
      /\ Stored(rows \o waiting, Done) /\ Stored(committed \o waiting, Done)
    BY DEF RowInv, Line
<1>2. Len(waiting) \in Nat /\ 0 \in 0 .. Len(waiting) /\ Len(waiting) \in 0 .. Len(waiting)
    BY <1>1
<1>3. ASSUME NEW t, t \in Seq(Range(t)), Stored(t \o waiting, Done) PROVE Stored(t, Done)
  <2>1. Stored((t \o SubSeq(waiting, 1, 0)) \o SubSeq(waiting, Len(waiting) + 1, Len(waiting)), Done)
    BY <1>1, <1>2, <1>3, CutStored
  <2>2. t \o <<>> = t
    BY <1>3, Ends
  <2> QED
    BY <1>1, <2>1, <2>2, Ends
<1> QED
    BY <1>1, <1>3, WaitingStored

\* Handlers go on, and rows stay where they are.
LEMMA RowsKept ==
    ASSUME RowInv, UNCHANGED <<waiting, taken, rows, committed>>, DOMAIN sealed' = Msgs, Done \subseteq Done',
           \A n \in Linked' : SealedAs(sealed'[n], n)
    PROVE  RowInv'
<1>1. \A t : Stored(t, Done) => Stored(t, Done')
    BY DEF Stored
<1> HIDE DEF Stored, Done
<1>2. Stored(rows \o waiting, Done') /\ Stored(committed \o waiting, Done')
    BY <1>1 DEF RowInv, Line
<1> QED
    BY <1>2 DEF RowInv, Line

LEMMA RowInit == Init => RowInv
<1> SUFFICES ASSUME Init PROVE RowInv
    OBVIOUS
<1>1. rows = <<>> /\ waiting = <<>> /\ committed = <<>> /\ taken = 0 /\ DOMAIN sealed = Msgs /\ Linked = {}
    BY DEF Init, Linked
<1>2. <<>> \o <<>> = <<>> /\ <<>> \in Seq(Range(<<>>)) /\ Len(<<>>) = 0
    OBVIOUS
<1>3. Stored(<<>>, Done)
    BY <1>2 DEF Stored
<1> QED
    BY <1>1, <1>2, <1>3 DEF RowInv, Line

\* A handler hands its row over, or gives it up.
LEMMA PutFacts ==
    ASSUME KeyInv, RowInv, NEW m \in Msgs, m \in Linked, Put(m)
    PROVE  /\ m \notin Done /\ Done' = Done \union {m} /\ SealedAs(sealed[m], m)
           /\ Linked' = Linked \ {m} /\ DOMAIN sealed' = Msgs
           /\ \A n \in Linked' : sealed'[n] = sealed[n] /\ SealedAs(sealed'[n], n)
<1>1. step \in [Msgs -> StepNames] /\ DOMAIN sealed = Msgs /\ \A n \in Linked : SealedAs(sealed[n], n)
    BY DEF KeyInv, Shapes, RowInv
<1>2. step'[m] = "done" /\ \A n \in Msgs : n # m => step'[n] = step[n]
    BY <1>1, StepTo DEF Put, StepNames
<1>3. DOMAIN sealed' = Msgs /\ \A n \in Msgs : n # m => sealed'[n] = sealed[n]
    BY <1>1 DEF Put
<1>4. m \notin Done /\ Done' = Done \union {m} /\ Linked' = Linked \ {m}
    BY <1>2 DEF Done, Linked
<1>5. \A n \in Linked' : n \in Msgs /\ n # m /\ n \in Linked
    BY <1>4 DEF Linked
<1> QED
    BY <1>1, <1>3, <1>4, <1>5

\* What the writer holds, and what is behind it.
LEMMA BatchFacts ==
    ASSUME RowInv
    PROVE  /\ waiting \in Seq(Range(waiting)) /\ Len(waiting) \in Nat /\ taken \in Nat /\ taken <= Len(waiting)
           /\ Batch \in Seq(Range(Batch)) /\ AfterBatch \in Seq(Range(AfterBatch))
           /\ Len(Batch) = taken
<1>1. waiting \in Seq(Range(waiting)) /\ taken \in 0 .. Len(waiting)
    BY DEF RowInv
<1>2. Len(waiting) \in Nat /\ taken \in Nat /\ taken <= Len(waiting)
    BY <1>1
<1>3. taken + 1 \in Nat \ {0} /\ 1 \in Nat \ {0} /\ Len(waiting) \in 0 .. Len(waiting)
    BY <1>2
<1>4. Batch \in Seq(Range(Batch)) /\ Len(Batch) = (IF 1 <= taken THEN taken - 1 + 1 ELSE 0)
    BY <1>1, <1>3, SubFacts DEF Batch
<1>5. AfterBatch \in Seq(Range(AfterBatch))
    BY <1>1, <1>3, SubFacts DEF AfterBatch
<1>6. Len(Batch) = taken
    BY <1>2, <1>4
<1> QED
    BY <1>1, <1>2, <1>4, <1>5, <1>6

\* The batch, or the first n rows of it, goes into the table; the others are gone.
LEMMA WrittenStored ==
    ASSUME RowInv, NEW n \in 0 .. taken, NEW t, t \in Seq(Range(t)), Stored(t \o waiting, Done)
    PROVE  /\ t \o SubSeq(waiting, 1, n) \in Seq(Range(t \o SubSeq(waiting, 1, n)))
           /\ Stored((t \o SubSeq(waiting, 1, n)) \o AfterBatch, Done)
<1>1. /\ waiting \in Seq(Range(waiting)) /\ Len(waiting) \in Nat /\ taken \in Nat /\ taken <= Len(waiting)
    BY BatchFacts
<1>2. n \in 0 .. Len(waiting) /\ taken \in n .. Len(waiting) /\ 1 \in Nat \ {0}
    BY <1>1
<1>3. Stored((t \o SubSeq(waiting, 1, n)) \o SubSeq(waiting, taken + 1, Len(waiting)), Done)
    BY <1>1, <1>2, CutStored
<1>4. SubSeq(waiting, 1, n) \in Seq(Range(SubSeq(waiting, 1, n)))
    BY <1>1, <1>2, SubFacts
<1>5. t \o SubSeq(waiting, 1, n) \in Seq(Range(t \o SubSeq(waiting, 1, n)))
    BY <1>4, ConcatFacts
<1> QED
    BY <1>3, <1>5 DEF AfterBatch

LEMMA WriterRows ==
    ASSUME RowInv, WriterCommit \/ WriterRaises
    PROVE  RowInv'
<1>1. /\ waiting' = AfterBatch /\ taken' = 0 /\ UNCHANGED <<step, sealed>>
    BY DEF WriterCommit, WriterRaises
<1>2. /\ rows \in Seq(Range(rows)) /\ committed \in Seq(Range(committed))
      /\ Stored(rows \o waiting, Done) /\ Stored(committed \o waiting, Done)
      /\ DOMAIN sealed = Msgs /\ \A m \in Linked : SealedAs(sealed[m], m)
    BY DEF RowInv, Line
<1>3. /\ AfterBatch \in Seq(Range(AfterBatch)) /\ waiting \in Seq(Range(waiting))
      /\ taken \in Nat /\ 0 \in 0 .. taken /\ taken \in 0 .. taken
    BY BatchFacts
<1>4. \A n \in 0 .. taken :
        /\ rows \o SubSeq(waiting, 1, n) \in Seq(Range(rows \o SubSeq(waiting, 1, n)))
        /\ Stored((rows \o SubSeq(waiting, 1, n)) \o AfterBatch, Done)
    BY <1>2, WrittenStored
<1>5. Stored(committed \o AfterBatch, Done)
  <2>1. Stored((committed \o SubSeq(waiting, 1, 0)) \o AfterBatch, Done)
    BY <1>2, <1>3, WrittenStored
  <2>2. committed \o SubSeq(waiting, 1, 0) = committed
    BY <1>2, <1>3, Ends
  <2> QED
    BY <2>1, <2>2
<1>6. /\ rows' \in Seq(Range(rows')) /\ committed' \in Seq(Range(committed'))
      /\ Stored(rows' \o AfterBatch, Done) /\ Stored(committed' \o AfterBatch, Done)
  <2>1. CASE WriterCommit
    <3>1. rows' = rows \o SubSeq(waiting, 1, taken) /\ committed' = rows'
      BY <2>1 DEF WriterCommit, Batch
    <3> QED
      BY <1>3, <1>4, <3>1
  <2>2. CASE WriterRaises
    <3>1. committed' = committed /\ ((\E n \in 0 .. taken : rows' = rows \o SubSeq(waiting, 1, n)) \/ rows' = committed)
      BY <2>2 DEF WriterRaises
    <3> QED
      BY <1>2, <1>4, <1>5, <3>1
  <2> QED
    BY <2>1, <2>2
<1>7. Done' = Done /\ Linked' = Linked /\ Len(AfterBatch) \in Nat
    BY <1>1, <1>3 DEF Done, Linked
<1> HIDE DEF Stored
<1>8. Stored(Line, Done)' /\ Stored(committed \o waiting, Done)'
    BY <1>1, <1>6, <1>7 DEF Line
<1>9. taken' \in 0 .. Len(waiting')
    BY <1>1, <1>7
<1> QED
    BY <1>1, <1>2, <1>3, <1>6, <1>7, <1>8, <1>9 DEF RowInv

LEMMA ResetRows ==
    ASSUME RowInv, ResetDrain \/ ResetTable \/ ResetTableRaises
    PROVE  RowInv'
<1>1. UNCHANGED <<step, sealed, taken>> /\ Done' = Done /\ Linked' = Linked
    BY DEF ResetDrain, ResetTable, ResetTableRaises, Done, Linked
<1>2. /\ rows \in Seq(Range(rows)) /\ committed \in Seq(Range(committed))
      /\ Stored(rows \o waiting, Done) /\ Stored(committed \o waiting, Done)
      /\ DOMAIN sealed = Msgs /\ \A m \in Linked : SealedAs(sealed[m], m)
    BY DEF RowInv, Line
<1>3. /\ waiting \in Seq(Range(waiting)) /\ Len(waiting) \in Nat /\ taken \in Nat /\ taken <= Len(waiting)
      /\ Batch \in Seq(Range(Batch)) /\ Len(Batch) = taken
    BY BatchFacts
<1> HIDE DEF Stored
<1>4. CASE ResetDrain
  <2>1. waiting' = Batch /\ rows' = rows /\ committed' = committed
    BY <1>4 DEF ResetDrain
  <2>2. ASSUME NEW t, t \in Seq(Range(t)), Stored(t \o waiting, Done) PROVE Stored(t \o Batch, Done)
    <3>1. taken \in 0 .. Len(waiting) /\ Len(waiting) \in taken .. Len(waiting)
      BY <1>3
    <3>2. Stored((t \o SubSeq(waiting, 1, taken)) \o SubSeq(waiting, Len(waiting) + 1, Len(waiting)), Done)
      BY <1>3, <2>2, <3>1, CutStored
    <3>3. SubSeq(waiting, Len(waiting) + 1, Len(waiting)) = <<>>
      BY <1>3, Ends
    <3>4. t \o Batch \in Seq(Range(t \o Batch))
      BY <1>3, <2>2, ConcatFacts
    <3>5. (t \o Batch) \o <<>> = t \o Batch
      BY <3>4, Ends
    <3> QED
      BY <3>2, <3>3, <3>5 DEF Batch
  <2>3. Stored(rows \o Batch, Done) /\ Stored(committed \o Batch, Done)
    BY <1>2, <2>2
  <2>4. taken' \in 0 .. Len(waiting')
    BY <1>1, <1>3, <2>1
  <2> QED
    BY <1>1, <1>2, <1>3, <2>1, <2>3, <2>4 DEF RowInv, Line
<1>5. CASE ResetTable \/ ResetTableRaises
  <2>1. waiting' = waiting /\ rows' \in {rows, <<>>, committed} /\ committed' \in {committed, <<>>}
    BY <1>5 DEF ResetTable, ResetTableRaises
  <2>2. Stored(<<>> \o waiting, Done) /\ <<>> \in Seq(Range(<<>>))
    <3>1. Stored(waiting, Done)
      BY RowsStored
    <3> QED
      BY <1>3, <3>1, Ends
  <2>3. /\ rows' \in Seq(Range(rows')) /\ committed' \in Seq(Range(committed'))
        /\ Stored(rows' \o waiting, Done) /\ Stored(committed' \o waiting, Done)
    BY <1>2, <2>1, <2>2
  <2>4. taken' \in 0 .. Len(waiting')
    BY <1>1, <1>3, <2>1
  <2> QED
    BY <1>1, <1>2, <1>3, <2>1, <2>3, <2>4 DEF RowInv, Line
<1> QED
    BY <1>4, <1>5

LEMMA RowStep == KeyInv /\ RowInv /\ [Next]_vars => RowInv'
<1> SUFFICES ASSUME KeyInv, RowInv, [Next]_vars PROVE RowInv'
    OBVIOUS
<1>0. step \in [Msgs -> StepNames] /\ DOMAIN sealed = Msgs /\ \A m \in Linked : SealedAs(sealed[m], m)
    BY DEF KeyInv, Shapes, RowInv
<1>1. /\ rows \in Seq(Range(rows)) /\ committed \in Seq(Range(committed)) /\ waiting \in Seq(Range(waiting))
      /\ Stored(rows \o waiting, Done) /\ Stored(committed \o waiting, Done)
      /\ Len(waiting) \in Nat /\ taken \in 0 .. Len(waiting)
    BY BatchFacts DEF RowInv, Line
\* A message is linked.
<1>2. ASSUME NEW m \in Msgs, get_next_hashes(m) \/ FrameLink(m) PROVE RowInv'
  <2>1. Goto(m, "save") /\ step[m] # "done" /\ UNCHANGED <<waiting, taken, rows, committed>>
    BY <1>2 DEF get_next_hashes, FrameLink, store
  <2>2. PICK k, p : sealed' = [sealed EXCEPT ![m] = Row(m, k, p)]
    BY <1>2 DEF get_next_hashes, FrameLink
  <2>3. DOMAIN sealed' = Msgs /\ sealed'[m] = Row(m, k, p) /\ \A n \in Msgs : n # m => sealed'[n] = sealed[n]
    BY <1>0, <2>2
  <2>4. \A n \in Msgs : n # m => step'[n] = step[n]
    BY <1>0, <2>1, StepTo DEF StepNames
  <2>5. \A n \in Linked' : n \in Msgs /\ (n # m => n \in Linked /\ sealed'[n] = sealed[n])
    BY <2>3, <2>4 DEF Linked
  <2>6. SealedAs(sealed'[m], m)
    BY <2>3, RowFacts
  <2>7. \A n \in Linked' : SealedAs(sealed'[n], n)
    BY <1>0, <2>5, <2>6
  <2>8. Done \subseteq Done'
    BY <2>1, <2>4 DEF Done
  <2> QED
    BY <2>1, <2>3, <2>7, <2>8, RowsKept
\* It gets into the queue.
<1>3. ASSUME NEW m \in Msgs, Save(m) PROVE RowInv'
  <2>1. /\ m \in Linked /\ Put(m) /\ waiting' = Append(waiting, sealed[m])
        /\ UNCHANGED <<taken, rows, committed>>
    BY <1>3 DEF Save, Linked
  <2>2. /\ m \notin Done /\ Done' = Done \union {m} /\ SealedAs(sealed[m], m)
        /\ DOMAIN sealed' = Msgs /\ \A n \in Linked' : SealedAs(sealed'[n], n)
    BY <2>1, PutFacts
  <2>3. Stored(rows \o Append(waiting, sealed[m]), Done') /\ Stored(committed \o Append(waiting, sealed[m]), Done')
    BY <1>1, <2>2, AddedStored
  <2>4. /\ Append(waiting, sealed[m]) \in Seq(Range(Append(waiting, sealed[m])))
        /\ Len(Append(waiting, sealed[m])) = Len(waiting) + 1
    BY <1>1, AppendFacts
  <2>5. waiting' \in Seq(Range(waiting')) /\ taken' \in 0 .. Len(waiting')
    BY <1>1, <2>1, <2>4
  <2> HIDE DEF Stored
  <2> QED
    BY <1>1, <2>1, <2>2, <2>3, <2>5 DEF RowInv, Line
\* It is inserted by the handler, or that fails.
<1>4. ASSUME NEW m \in Msgs, Overflow(m) \/ OverflowRaises(m) PROVE RowInv'
  <2>1. /\ m \in Linked /\ Put(m) /\ UNCHANGED <<waiting, taken>>
        /\ rows' \in {rows, Append(rows, sealed[m]), committed} /\ committed' \in {committed, Append(rows, sealed[m])}
    BY <1>4 DEF Overflow, OverflowRaises, Linked
  <2>2. /\ m \notin Done /\ Done' = Done \union {m} /\ SealedAs(sealed[m], m)
        /\ DOMAIN sealed' = Msgs /\ \A n \in Linked' : SealedAs(sealed'[n], n)
    BY <2>1, PutFacts
  <2>3. /\ Stored(Append(rows, sealed[m]) \o waiting, Done')
        /\ Append(rows, sealed[m]) \in Seq(Range(Append(rows, sealed[m])))
    BY <1>1, <2>2, AddedStored, AppendFacts
  <2>4. \A t : Stored(t, Done) => Stored(t, Done')
    BY <2>2 DEF Stored
  <2> HIDE DEF Stored
  <2>5. /\ rows' \in Seq(Range(rows')) /\ committed' \in Seq(Range(committed'))
        /\ Stored(rows' \o waiting, Done') /\ Stored(committed' \o waiting, Done')
    BY <1>1, <2>1, <2>3, <2>4
  <2> QED
    BY <1>1, <2>1, <2>2, <2>5 DEF RowInv, Line
\* It is not stored.
<1>5. ASSUME NEW m \in Msgs, SaveNot(m) PROVE RowInv'
  <2>1. m \in Linked /\ Put(m) /\ UNCHANGED <<waiting, taken, rows, committed>>
    BY <1>5 DEF SaveNot, Linked, store
  <2>2. Done \subseteq Done' /\ DOMAIN sealed' = Msgs /\ \A n \in Linked' : SealedAs(sealed'[n], n)
    BY <2>1, PutFacts
  <2> QED
    BY <2>1, <2>2, RowsKept
<1>6. ASSUME NEW m \in Msgs, get_or_create_keypair(m) \/ SaveFull(m) PROVE RowInv'
  <2>1. /\ UNCHANGED <<sealed, waiting, taken, rows, committed>> /\ step[m] # "done"
        /\ \/ Goto(m, "link")
           \/ Goto(m, "overflow") /\ m \in Linked
    BY <1>6 DEF get_or_create_keypair, SaveFull, store, Linked
  <2>2. PICK l \in {"link", "overflow"} : Goto(m, l) /\ (l = "overflow" => m \in Linked)
    BY <2>1
  <2>3. step'[m] = l /\ \A n \in Msgs : n # m => step'[n] = step[n]
    BY <1>0, <2>2, StepTo DEF StepNames
  <2>4. Done \subseteq Done' /\ \A n \in Linked' : n \in Linked
    BY <2>1, <2>2, <2>3 DEF Linked, Done
  <2> QED
    BY <1>0, <2>1, <2>4, RowsKept
<1>7. CASE WriterTake
  <2>1. UNCHANGED <<step, sealed, waiting, rows, committed>> /\ taken' = taken + 1 /\ taken < Len(waiting)
    BY <1>7 DEF WriterTake
  <2>2. taken' \in 0 .. Len(waiting')
    BY <1>1, <2>1
  <2>3. Done' = Done /\ Linked' = Linked
    BY <2>1 DEF Done, Linked
  <2> HIDE DEF Stored
  <2> QED
    BY <1>0, <1>1, <2>1, <2>2, <2>3 DEF RowInv, Line
<1>8. CASE WriterCommit \/ WriterRaises \/ ResetDrain \/ ResetTable \/ ResetTableRaises
    BY <1>8, WriterRows, ResetRows
<1>9. CASE Restart
  <2>1. /\ waiting' = <<>> /\ taken' = 0 /\ rows' = committed /\ committed' = committed
        /\ DOMAIN sealed' = Msgs /\ Linked' = {} /\ Done \subseteq Done'
    BY <1>9 DEF Restart, Linked, Done
  <2>2. Stored(committed, Done')
    BY <2>1, RowsStored DEF Stored
  <2>3. committed \o <<>> = committed /\ <<>> \in Seq(Range(<<>>)) /\ Len(<<>>) = 0
    BY <1>1, Ends
  <2>4. Stored(committed \o <<>>, Done')
    BY <2>2, <2>3
  <2> HIDE DEF Stored
  <2>5. Stored(Line, Done)' /\ Stored(committed \o waiting, Done)'
    BY <2>1, <2>4 DEF Line
  <2>6. taken' \in 0 .. Len(waiting')
    BY <2>1, <2>3
  <2> QED
    BY <1>1, <2>1, <2>3, <2>5, <2>6 DEF RowInv
<1>10. CASE (\E c \in Conns : Join(c)) \/ ResetHash \/ ResetKeys \/ UNCHANGED vars
  <2>1. UNCHANGED <<sealed, step, waiting, taken, rows, committed>>
    BY <1>10 DEF Join, ResetHash, ResetKeys, vars, store
  <2>2. Done \subseteq Done' /\ \A n \in Linked' : SealedAs(sealed'[n], n)
    BY <1>0, <2>1 DEF Done, Linked
  <2> QED
    BY <1>0, <2>1, <2>2, RowsKept
<1> QED
    BY <1>2, <1>3, <1>4, <1>5, <1>6, <1>7, <1>8, <1>9, <1>10 DEF Next

-----------------------------------------------------------------------------
(***************************************************************************)
(* The chain.                                                              *)
(***************************************************************************)
\* What the row at i of t is linked to.
LinkAt(t, i) == IF i = 1 THEN Genesis ELSE t[i - 1].record_hash

Chained(t) == \A i \in DOMAIN t : verify_record(t[i], LinkAt(t, i))

Only(t, S) == \A i \in DOMAIN t : Salt(t[i]) \in S

\* Up to i the rows of t are all posts, or all frames.
OneKind(t, i) == \E S \in {Posts, Frames} : \A j \in 1 .. i : Salt(t[j]) \in S

\* A chain is good for as long as its rows are of one kind.
SoFar(t) == \A i \in DOMAIN t : OneKind(t, i) => verify_record(t[i], LinkAt(t, i))

\* While nothing is torn at most one message is linked, and its link, like the
\* last hash, is to the end of the table as it will be.
ChainInv ==
    ~torn =>
        /\ committed = rows
        /\ \A m, n \in Linked : m = n
        /\ Linked # {} => resetPc = "idle"
        /\ resetPc \in {"hash", "keys"} => Line = <<>>
        /\ SoFar(Line)
        /\ \A m \in Linked \intersect Frames : sealed[m].prev_hash = TailHash(Line)
        /\ Only(Line, Posts) =>
            /\ \A m \in Linked \intersect Posts :
                sealed[m].prev_hash = TailHash(Line) /\ lastHash = sealed[m].record_hash
            /\ Linked \intersect Posts = {} /\ resetPc \notin {"table", "hash"} => lastHash = TailHash(Line)

\* A table is intact if each row is linked to the one before it.
LEMMA IntactIsChained ==
    ASSUME NEW t, t \in Seq(Range(t))
    PROVE  Intact(t) <=> Chained(t)
<1>1. ASSUME NEW i \in DOMAIN t PROVE TailHash(SubSeq(t, 1, i - 1)) = LinkAt(t, i)
  <2>1. i \in Nat /\ 1 <= i /\ i <= Len(t) /\ Len(t) \in Nat
    OBVIOUS
  <2>2. CASE i = 1
    <3>1. SubSeq(t, 1, i - 1) = <<>>
      BY <2>1, <2>2
    <3> QED
      BY <2>2, <3>1 DEF TailHash, LinkAt
  <2>3. CASE i # 1
    <3>1. Len(SubSeq(t, 1, i - 1)) = i - 1 /\ SubSeq(t, 1, i - 1)[i - 1] = t[i - 1]
      BY <2>1, <2>3
    <3>2. SubSeq(t, 1, i - 1) # <<>>
      BY <2>1, <2>3, <3>1
    <3> QED
      BY <2>3, <3>1, <3>2 DEF TailHash, LinkAt
  <2> QED
    BY <2>2, <2>3
<1> QED
    BY <1>1 DEF Intact, verify_chain, Chained

\* What is good stays so when it loses its end.
LEMMA SoFarBeginning ==
    ASSUME NEW t, t \in Seq(Range(t)), NEW u, u \in Seq(Range(u)), SoFar(t \o u)
    PROVE  SoFar(t)
<1> DEFINE s == t \o u
<1>1. /\ Len(t) \in Nat /\ Len(u) \in Nat /\ DOMAIN t = 1 .. Len(t) /\ DOMAIN s = 1 .. Len(t) + Len(u)
      /\ \A i \in 1 .. Len(t) : s[i] = t[i]
    BY ConcatFacts
<1>2. \A i \in DOMAIN s : OneKind(s, i) => verify_record(s[i], LinkAt(s, i))
    BY DEF SoFar
<1> HIDE DEF s
<1>3. ASSUME NEW i \in DOMAIN t, OneKind(t, i) PROVE verify_record(t[i], LinkAt(t, i))
  <2>1. i \in Nat /\ i \in DOMAIN s /\ s[i] = t[i] /\ \A j \in 1 .. i : j \in 1 .. Len(t) /\ s[j] = t[j]
    BY <1>1
  <2>2. OneKind(s, i)
    BY <1>3, <2>1 DEF OneKind
  <2>3. i # 1 => i - 1 \in 1 .. i
    BY <1>1
  <2>4. LinkAt(s, i) = LinkAt(t, i)
    BY <2>1, <2>3 DEF LinkAt
  <2> QED
    BY <1>2, <2>1, <2>2, <2>4
<1> QED
    BY <1>3 DEF SoFar

LEMMA SoFarAppend ==
    ASSUME NEW t, t \in Seq(Range(t)), NEW r, SoFar(t),
           \A S \in {Posts, Frames} : Only(t, S) /\ Salt(r) \in S => verify_record(r, TailHash(t))
    PROVE  SoFar(Append(t, r)) /\ TailHash(Append(t, r)) = r.record_hash
<1> DEFINE s == Append(t, r)
           l == Len(t) + 1
<1>1. /\ Len(t) \in Nat /\ DOMAIN t = 1 .. Len(t) /\ s # <<>>
      /\ DOMAIN s = 1 .. l /\ Len(s) = l /\ s[l] = r /\ \A i \in DOMAIN t : s[i] = t[i]
    BY AppendFacts
<1>2. TailHash(s) = r.record_hash
    BY <1>1 DEF TailHash
<1>3. LinkAt(s, l) = TailHash(t)
  <2>1. CASE t = <<>>
    BY <2>1 DEF LinkAt, TailHash
  <2>2. CASE t # <<>>
    <3>1. Len(t) # 0 /\ Len(t) \in DOMAIN t /\ l - 1 = Len(t) /\ l # 1
      BY <1>1, <2>2
    <3> QED
      BY <1>1, <2>2, <3>1 DEF LinkAt, TailHash
  <2> QED
    BY <2>1, <2>2
<1>4. \A i \in DOMAIN t : LinkAt(s, i) = LinkAt(t, i)
  <2>1. \A i \in DOMAIN t : i # 1 => i - 1 \in DOMAIN t
    BY <1>1
  <2> QED
    BY <1>1, <2>1 DEF LinkAt
<1>5. (\A i \in DOMAIN s : i = l \/ i \in DOMAIN t) /\ (\A i \in DOMAIN t : i \in 1 .. l) /\ l \in 1 .. l
    BY <1>1
<1>6. \A i \in DOMAIN t : \A j \in 1 .. i : j \in DOMAIN t
    BY <1>1
<1> HIDE DEF s, l
<1>7. ASSUME NEW i \in DOMAIN t, OneKind(s, i) PROVE verify_record(s[i], LinkAt(s, i))
  <2>1. OneKind(t, i)
    BY <1>1, <1>6, <1>7 DEF OneKind
  <2>2. verify_record(t[i], LinkAt(t, i))
    BY <2>1 DEF SoFar
  <2> QED
    BY <1>1, <1>4, <2>2
<1>8. ASSUME OneKind(s, l) PROVE verify_record(s[l], LinkAt(s, l))
  <2>1. PICK S \in {Posts, Frames} : \A j \in 1 .. l : Salt(s[j]) \in S
    BY <1>8 DEF OneKind
  <2>2. Only(t, S) /\ Salt(r) \in S
    BY <1>1, <1>5, <2>1 DEF Only
  <2>3. verify_record(r, TailHash(t))
    BY <2>2
  <2> QED
    BY <1>1, <1>3, <2>3
<1>9. SoFar(s)
    BY <1>5, <1>7, <1>8 DEF SoFar
<1> QED
    BY <1>2, <1>9 DEF s

LEMMA OnlyAppend ==
    ASSUME NEW t, t \in Seq(Range(t)), NEW r, NEW S, Only(Append(t, r), S)
    PROVE  Only(t, S) /\ Salt(r) \in S
<1> DEFINE s == Append(t, r)
<1>1. /\ Len(t) \in Nat /\ DOMAIN t = 1 .. Len(t) /\ DOMAIN s = 1 .. Len(t) + 1 /\ s[Len(t) + 1] = r
      /\ \A i \in DOMAIN t : s[i] = t[i]
    BY AppendFacts
<1>2. \A i \in DOMAIN s : Salt(s[i]) \in S
    BY DEF Only
<1> HIDE DEF s
<1>3. Len(t) + 1 \in DOMAIN s /\ \A i \in DOMAIN t : i \in DOMAIN s
    BY <1>1
<1> QED
    BY <1>1, <1>2, <1>3 DEF Only

\* A batch goes from those that wait to the end of the table.
LEMMA Rejoined ==
    ASSUME NEW t, t \in Seq(Range(t)), NEW w, w \in Seq(Range(w)), NEW n \in 0 .. Len(w)
    PROVE  (t \o SubSeq(w, 1, n)) \o SubSeq(w, n + 1, Len(w)) = t \o w
<1> DEFINE p == SubSeq(w, 1, n)
           q == SubSeq(w, n + 1, Len(w))
<1>1. Len(w) \in Nat /\ n \in Nat /\ n <= Len(w) /\ n + 1 \in Nat \ {0} /\ 1 \in Nat \ {0} /\ Len(w) \in 0 .. Len(w)
    OBVIOUS
<1>2. /\ p \in Seq(Range(p)) /\ Len(p) = (IF 1 <= n THEN n - 1 + 1 ELSE 0)
      /\ \A i \in 1 .. Len(p) : p[i] = w[1 + i - 1]
    BY <1>1, SubFacts
<1>3. /\ q \in Seq(Range(q)) /\ Len(q) = (IF n + 1 <= Len(w) THEN Len(w) - (n + 1) + 1 ELSE 0)
      /\ \A i \in 1 .. Len(q) : q[i] = w[n + 1 + i - 1]
    BY <1>1, SubFacts
<1> HIDE DEF p, q
<1>4. Len(p) = n /\ Len(q) = Len(w) - n
    BY <1>1, <1>2, <1>3
<1> DEFINE v == p \o q
<1>5. /\ v \in Seq(Range(v)) /\ Len(v) = Len(w) /\ DOMAIN v = 1 .. Len(w)
      /\ \A i \in 1 .. n : v[i] = p[i]
      /\ \A i \in n + 1 .. Len(w) : v[i] = q[i - n]
  <2>1. Joins(v, p, q)
    BY <1>2, <1>3, JoinFacts
  <2> HIDE DEF v
  <2>2. Len(p) + Len(q) = Len(w)
    BY <1>1, <1>4
  <2> QED
    BY <1>4, <2>1, <2>2 DEF Joins
<1> HIDE DEF v
<1>6. \A i \in 1 .. Len(w) : v[i] = w[i]
  <2> SUFFICES ASSUME NEW i \in 1 .. Len(w) PROVE v[i] = w[i]
    OBVIOUS
  <2>1. CASE i <= n
    <3>1. i \in 1 .. n /\ i \in 1 .. Len(p) /\ 1 + i - 1 = i
      BY <1>1, <1>4, <2>1
    <3> QED
      BY <1>2, <1>5, <3>1
  <2>2. CASE i > n
    <3>1. i \in n + 1 .. Len(w) /\ i - n \in 1 .. Len(q) /\ n + 1 + (i - n) - 1 = i
      BY <1>1, <1>4, <2>2
    <3>2. v[i] = q[i - n]
      BY <1>5, <3>1
    <3>3. q[i - n] = w[n + 1 + (i - n) - 1]
      BY <1>3, <3>1
    <3> QED
      BY <3>1, <3>2, <3>3
  <2> QED
    BY <1>1, <2>1, <2>2
<1>7. v = w
    BY <1>5, <1>6
<1>8. (t \o p) \o q = t \o (p \o q)
    BY <1>2, <1>3, SMTT(30)
<1> QED
    BY <1>7, <1>8 DEF v, p, q

LEMMA LineFacts ==
    ASSUME RowInv
    PROVE  /\ Line \in Seq(Range(Line)) /\ rows \in Seq(Range(rows)) /\ waiting \in Seq(Range(waiting))
           /\ waiting = <<>> => Line = rows
<1>1. rows \in Seq(Range(rows)) /\ waiting \in Seq(Range(waiting))
    BY DEF RowInv
<1>2. rows \o waiting \in Seq(Range(rows \o waiting)) /\ rows \o <<>> = rows
    BY <1>1, ConcatFacts, Ends
<1> QED
    BY <1>1, <1>2 DEF Line

LEMMA ChainInit == Init => ChainInv
<1> SUFFICES ASSUME Init PROVE ChainInv
    OBVIOUS
<1>1. rows = <<>> /\ waiting = <<>> /\ committed = <<>> /\ Linked = {} /\ resetPc = "idle" /\ lastHash = Genesis
    BY DEF Init, Linked
<1>2. <<>> \o <<>> = <<>> /\ DOMAIN <<>> = {}
    OBVIOUS
<1>3. Line = <<>>
    BY <1>1, <1>2 DEF Line
<1> QED
    BY <1>1, <1>2, <1>3 DEF ChainInv, SoFar, TailHash

\* A link is made where nothing else is going on.
LEMMA LinkStep ==
    ASSUME KeyInv, RowInv, ChainInv, NEW m \in Msgs, get_next_hashes(m) \/ FrameLink(m)
    PROVE  ChainInv'
<1> SUFFICES ASSUME ~torn' PROVE ChainInv'
    BY DEF ChainInv
<1>1. /\ ~torn /\ Linked = {} /\ resetPc = "idle" /\ resetPc' = resetPc /\ Goto(m, "save")
      /\ UNCHANGED <<rows, waiting, committed>>
    BY DEF get_next_hashes, FrameLink, store
<1>2. DOMAIN sealed = Msgs /\ step \in [Msgs -> StepNames]
    BY DEF KeyInv, Shapes, RowInv
<1>3. Linked' = {m}
  <2>1. step'[m] = "save" /\ \A n \in Msgs : n # m => step'[n] = step[n]
    BY <1>1, <1>2, StepTo DEF StepNames
  <2> QED
    BY <1>1, <2>1 DEF Linked
<1>4. committed = rows /\ SoFar(Line) /\ (Only(Line, Posts) => lastHash = TailHash(Line))
    BY <1>1 DEF ChainInv
<1>5. Line' = Line
    BY <1>1 DEF Line
<1> HIDE DEF SoFar, Only, Line
<1>6. CASE get_next_hashes(m)
  <2>1. m \in Posts /\ m \notin Frames
    BY <1>6, Apart DEF get_next_hashes
  <2>2. /\ sealed' = [sealed EXCEPT ![m] = Row(m, held[m], lastHash)]
        /\ lastHash' = Row(m, held[m], lastHash).record_hash
    BY <1>6 DEF get_next_hashes
  <2>3. sealed'[m].prev_hash = lastHash /\ lastHash' = sealed'[m].record_hash
    BY <1>2, <2>2, RowFacts
  <2> QED
    BY <1>1, <1>3, <1>4, <1>5, <2>1, <2>3 DEF ChainInv
<1>7. CASE FrameLink(m)
  <2>1. m \in Frames /\ m \notin Posts /\ lastHash' = lastHash /\ waiting = <<>>
    BY <1>7, Apart DEF FrameLink
  <2>2. sealed' = [sealed EXCEPT ![m] = Row(m, held[ConnOf[m]], TailHash(rows))]
    BY <1>7 DEF FrameLink
  <2>3. sealed'[m].prev_hash = TailHash(rows)
    BY <1>2, <2>2, RowFacts
  <2>4. sealed'[m].prev_hash = TailHash(Line)
    BY <2>1, <2>3, LineFacts
  <2> QED
    BY <1>1, <1>3, <1>4, <1>5, <2>1, <2>4 DEF ChainInv
<1> QED
    BY <1>6, <1>7

\* The linked message goes behind the others, in the queue or, when nothing
\* waits, in the table.
LEMMA AppendStep ==
    ASSUME KeyInv, RowInv, ChainInv, NEW m \in Msgs, Save(m) \/ Overflow(m)
    PROVE  ChainInv'
<1> DEFINE r == sealed[m]
<1> SUFFICES ASSUME ~torn' PROVE ChainInv'
    BY DEF ChainInv
<1>1. /\ ~torn /\ m \in Linked /\ Put(m) /\ lastHash' = lastHash /\ resetPc' = resetPc
  <2>1. CASE Save(m)
    BY <2>1 DEF Save, Linked
  <2>2. CASE Overflow(m)
    BY <2>2 DEF Overflow, Linked
  <2> QED
    BY <2>1, <2>2
<1>2. Linked = {m} /\ resetPc = "idle" /\ committed = rows /\ SoFar(Line)
    BY <1>1 DEF ChainInv
<1>3. Linked' = {} /\ SealedAs(r, m)
  <2>1. SealedAs(sealed[m], m) /\ Linked' = Linked \ {m}
    BY <1>1, PutFacts
  <2> QED
    BY <1>2, <2>1
<1>4. /\ Line \in Seq(Range(Line)) /\ rows \in Seq(Range(rows)) /\ waiting \in Seq(Range(waiting))
      /\ waiting = <<>> => Line = rows
    BY LineFacts
<1>5. Salt(r) = m /\ verify_record(r, r.prev_hash)
    BY <1>3, SealedFacts
<1> HIDE DEF r
<1>6. Line' = Append(Line, r) /\ committed' = rows'
  <2>1. CASE Save(m)
    <3>1. rows' = rows /\ committed' = committed /\ waiting' = Append(waiting, r)
      BY <2>1 DEF Save, r
    <3>2. rows \o Append(waiting, r) = Append(rows \o waiting, r)
      BY <1>4
    <3> QED
      BY <1>2, <3>1, <3>2 DEF Line
  <2>2. CASE Overflow(m)
    <3>1. rows' = Append(rows, r) /\ committed' = rows' /\ waiting = <<>> /\ waiting' = waiting
      BY <2>2 DEF Overflow, r
    <3>2. Append(rows, r) \in Seq(Range(Append(rows, r)))
      BY <1>4, AppendFacts
    <3>3. Append(rows, r) \o <<>> = Append(rows, r)
      BY <3>2, Ends
    <3>4. Line = rows
      BY <1>4, <3>1
    <3>5. Line' = Append(rows, r) \o <<>>
      BY <3>1 DEF Line
    <3> QED
      BY <3>1, <3>3, <3>4, <3>5
  <2> QED
    BY <2>1, <2>2
<1> DEFINE t == Line
<1>7. \A S \in {Posts, Frames} : Only(t, S) /\ m \in S => r.prev_hash = TailHash(t)
    BY <1>1, <1>2 DEF ChainInv, r
<1>8. Only(t, Posts) /\ m \in Posts => lastHash = r.record_hash
    BY <1>1, <1>2 DEF ChainInv, r
<1>9. t \in Seq(Range(t)) /\ SoFar(t)
    BY <1>2, <1>4
<1> HIDE DEF t
<1>10. \A S \in {Posts, Frames} : Only(t, S) /\ Salt(r) \in S => verify_record(r, TailHash(t))
    BY <1>5, <1>7
<1>11. SoFar(Append(t, r)) /\ TailHash(Append(t, r)) = r.record_hash
    BY <1>9, <1>10, SoFarAppend
<1>12. Only(Append(t, r), Posts) => Only(t, Posts) /\ Salt(r) \in Posts
    BY <1>9, OnlyAppend
<1>13. Only(Append(t, r), Posts) => lastHash = TailHash(Append(t, r))
    BY <1>5, <1>8, <1>11, <1>12
<1>14. Line' = Append(t, r)
    BY <1>6 DEF t
<1> DEFINE s == Line'
<1>15. s = Append(t, r)
    BY <1>14
<1> HIDE DEF s
<1>16. SoFar(s) /\ (Only(s, Posts) => lastHash = TailHash(s))
    BY <1>11, <1>13, <1>15
<1>17. SoFar(Line)' /\ (Only(Line, Posts) => lastHash = TailHash(Line))'
    BY <1>1, <1>16 DEF s, SoFar, Only, TailHash
<1> HIDE DEF SoFar, Only
<1> QED
    BY <1>1, <1>2, <1>3, <1>6, <1>17 DEF ChainInv

\* Steps after which the table will be what it would have been.
LEMMA ChainKept ==
    ASSUME ChainInv, UNCHANGED <<lastHash, sealed, torn>>, Line' = Line, committed' = rows' \/ torn,
           Linked' = Linked, resetPc' = resetPc \/ ResetKeys
    PROVE  ChainInv'
<1>1. resetPc' = resetPc \/ (resetPc = "keys" /\ resetPc' = "idle")
    BY DEF ResetKeys
<1>2. SoFar(Line)' = SoFar(Line) /\ Only(Line, Posts)' = Only(Line, Posts) /\ TailHash(Line)' = TailHash(Line)
    BY DEF SoFar, Only, TailHash
<1> HIDE DEF SoFar, Only
<1> QED
    BY <1>1, <1>2 DEF ChainInv

LEMMA WriterStep ==
    ASSUME RowInv, ChainInv, WriterTake \/ WriterCommit
    PROVE  ChainInv'
<1>1. UNCHANGED <<step, lastHash, sealed, torn, resetPc>> /\ Linked' = Linked
    BY DEF WriterTake, WriterCommit, Linked
<1>2. CASE WriterTake
  <2>1. UNCHANGED <<rows, waiting, committed>>
    BY <1>2 DEF WriterTake
  <2>2. Line' = Line /\ (committed' = rows' \/ torn)
    BY <2>1 DEF Line, ChainInv
  <2> QED
    BY <1>1, <2>2, ChainKept
<1>3. CASE WriterCommit
  <2>1. rows' = rows \o Batch /\ committed' = rows' /\ waiting' = AfterBatch
    BY <1>3 DEF WriterCommit
  <2>2. rows \in Seq(Range(rows)) /\ waiting \in Seq(Range(waiting)) /\ taken \in 0 .. Len(waiting)
    BY DEF RowInv
  <2>3. (rows \o SubSeq(waiting, 1, taken)) \o SubSeq(waiting, taken + 1, Len(waiting)) = rows \o waiting
    BY <2>2, Rejoined
  <2>4. Line' = Line
    BY <2>1, <2>3 DEF Line, Batch, AfterBatch
  <2> QED
    BY <1>1, <2>1, <2>4, ChainKept
<1> QED
    BY <1>2, <1>3

\* The queue is drained: the chain loses its end.
LEMMA DrainStep ==
    ASSUME RowInv, ChainInv, ResetDrain
    PROVE  ChainInv'
<1> SUFFICES ASSUME ~torn' PROVE ChainInv'
    BY DEF ChainInv
<1>1. /\ ~torn /\ Linked = {} /\ Linked' = Linked /\ resetPc' = "table"
      /\ rows' = rows /\ committed' = committed /\ waiting' = Batch
    BY DEF ResetDrain, Linked
<1>2. committed = rows /\ SoFar(Line)
    BY <1>1 DEF ChainInv
<1>3. /\ rows \in Seq(Range(rows)) /\ waiting \in Seq(Range(waiting)) /\ taken \in 0 .. Len(waiting)
      /\ Batch \in Seq(Range(Batch)) /\ AfterBatch \in Seq(Range(AfterBatch))
    BY BatchFacts DEF RowInv
<1> DEFINE t == rows \o Batch
<1>4. t \in Seq(Range(t))
    BY <1>3, ConcatFacts
<1>5. t \o AfterBatch = Line
    BY <1>3, Rejoined DEF Batch, AfterBatch, Line
<1> HIDE DEF t
<1>6. SoFar(t)
    BY <1>2, <1>3, <1>4, <1>5, SoFarBeginning
<1>7. Line' = t
    BY <1>1 DEF Line, t
<1>8. SoFar(Line)'
    BY <1>6, <1>7 DEF SoFar
<1> HIDE DEF SoFar
<1> QED
    BY <1>1, <1>2, <1>8 DEF ChainInv

LEMMA ResetTableStep ==
    ASSUME ChainInv, ResetTable
    PROVE  ChainInv'
<1> SUFFICES ASSUME ~torn' PROVE ChainInv'
    BY DEF ChainInv
<1>1. /\ rows' = <<>> /\ committed' = <<>> /\ waiting' = <<>> /\ resetPc' = "hash" /\ Linked' = {}
    BY DEF ResetTable, Linked
<1>2. Line' = <<>>
  <2>1. <<>> \o <<>> = <<>>
    OBVIOUS
  <2> QED
    BY <1>1, <2>1 DEF Line
<1>3. SoFar(Line)'
    BY <1>2 DEF SoFar
<1> HIDE DEF SoFar
<1> QED
    BY <1>1, <1>2, <1>3 DEF ChainInv

LEMMA ResetHashStep ==
    ASSUME ChainInv, ResetHash
    PROVE  ChainInv'
<1> SUFFICES ASSUME ~torn' PROVE ChainInv'
    BY DEF ChainInv
<1>1. /\ ~torn /\ resetPc = "hash" /\ resetPc' = "keys" /\ lastHash' = Genesis
      /\ UNCHANGED <<rows, waiting, committed>> /\ Linked' = Linked
    BY DEF ResetHash, Linked, store
<1>2. Line = <<>> /\ Linked = {} /\ committed = rows
    BY <1>1 DEF ChainInv
<1>3. Line' = <<>>
    BY <1>1, <1>2 DEF Line
<1>4. SoFar(Line)' /\ TailHash(Line)' = Genesis
    BY <1>3 DEF SoFar, TailHash
<1> HIDE DEF SoFar
<1> QED
    BY <1>1, <1>2, <1>3, <1>4 DEF ChainInv

\* What waits is lost, and the chain with it loses its end.
LEMMA RestartStep ==
    ASSUME RowInv, ChainInv, Restart
    PROVE  ChainInv'
<1> SUFFICES ASSUME ~torn' PROVE ChainInv'
    BY DEF ChainInv
<1>1. /\ ~torn /\ resetPc' = "idle" /\ lastHash' = TailHash(committed) /\ rows' = committed
      /\ committed' = committed /\ waiting' = <<>> /\ Linked' = {}
    BY DEF Restart, Linked
<1>2. committed = rows /\ SoFar(Line)
    BY <1>1 DEF ChainInv
<1>3. rows \in Seq(Range(rows)) /\ waiting \in Seq(Range(waiting)) /\ rows \o <<>> = rows
    BY Ends DEF RowInv
<1>4. SoFar(rows)
    BY <1>2, <1>3, SoFarBeginning DEF Line
<1>5. Line' = rows
    BY <1>1, <1>2, <1>3 DEF Line
<1>6. SoFar(Line)' /\ TailHash(Line)' = TailHash(rows)
    BY <1>4, <1>5 DEF SoFar, TailHash
<1> HIDE DEF SoFar
<1> QED
    BY <1>1, <1>2, <1>6 DEF ChainInv

LEMMA ChainStep == KeyInv /\ RowInv /\ ChainInv /\ [Next]_vars => ChainInv'
<1> SUFFICES ASSUME KeyInv, RowInv, ChainInv, [Next]_vars PROVE ChainInv'
    OBVIOUS
<1>1. ASSUME NEW m \in Msgs, get_or_create_keypair(m) \/ SaveFull(m) PROVE ChainInv'
  <2>1. /\ UNCHANGED <<lastHash, sealed, rows, waiting, committed, torn, resetPc>>
        /\ step \in [Msgs -> StepNames]
        /\ (step[m] = "new" /\ Goto(m, "link")) \/ (step[m] = "save" /\ Goto(m, "overflow"))
    BY <1>1 DEF get_or_create_keypair, SaveFull, store, KeyInv, Shapes
  <2>2. PICK l \in {"link", "overflow"} : Goto(m, l) /\ step[m] = (IF l = "link" THEN "new" ELSE "save")
    BY <2>1
  <2>3. step'[m] = l /\ \A n \in Msgs : n # m => step'[n] = step[n]
    BY <2>1, <2>2, StepTo DEF StepNames
  <2>4. Linked' = Linked
    BY <2>2, <2>3 DEF Linked
  <2>5. Line' = Line /\ (committed' = rows' \/ torn)
    BY <2>1 DEF Line, ChainInv
  <2> QED
    BY <2>1, <2>4, <2>5, ChainKept
<1>2. ASSUME NEW m \in Msgs, get_next_hashes(m) \/ FrameLink(m) PROVE ChainInv'
    BY <1>2, LinkStep
<1>3. ASSUME NEW m \in Msgs, Save(m) \/ Overflow(m) PROVE ChainInv'
    BY <1>3, AppendStep
<1>4. ASSUME NEW m \in Msgs, SaveNot(m) \/ OverflowRaises(m) PROVE ChainInv'
  <2>1. torn'
    BY <1>4 DEF SaveNot, OverflowRaises
  <2> QED
    BY <2>1 DEF ChainInv
<1>5. CASE WriterRaises \/ ResetTableRaises
  <2>1. torn'
    BY <1>5 DEF WriterRaises, ResetTableRaises
  <2> QED
    BY <2>1 DEF ChainInv
<1>6. CASE WriterTake \/ WriterCommit
    BY <1>6, WriterStep
<1>7. CASE ResetDrain \/ ResetTable \/ ResetHash \/ Restart
    BY <1>7, DrainStep, ResetTableStep, ResetHashStep, RestartStep
<1>8. CASE (\E c \in Conns : Join(c)) \/ ResetKeys \/ UNCHANGED vars
  <2>1. UNCHANGED <<lastHash, sealed, rows, waiting, committed, torn, step>> /\ (resetPc' = resetPc \/ ResetKeys)
    BY <1>8 DEF Join, ResetKeys, vars, store
  <2>2. Linked' = Linked /\ Line' = Line /\ (committed' = rows' \/ torn)
    BY <2>1 DEF Linked, Line, ChainInv
  <2> QED
    BY <2>1, <2>2, ChainKept
<1> QED
    BY <1>1, <1>2, <1>3, <1>4, <1>5, <1>6, <1>7, <1>8 DEF Next

-----------------------------------------------------------------------------
IInv == KeyInv /\ RowInv /\ ChainInv

\* Key pairs, rows and chain at every moment between two requests' steps
\* (app.py's cache and last hash, and the table of db.py).
THEOREM Invariance == Spec => []IInv
<1>1. Init => IInv
    BY KeyInit, RowInit, ChainInit DEF IInv
<1>2. IInv /\ [Next]_vars => IInv'
    BY KeyStep, RowStep, ChainStep DEF IInv
<1> QED
    BY <1>1, <1>2, PTL DEF Spec

\* Posts of a sender use one key pair as long as the cache is not emptied, and
\* no one else uses it; the cache never has more than one key pair above the
\* limit (get_or_create_keypair clears it before it adds one).
THEOREM KeysOfSenders == Spec => []OneKeyPerSender
<1>1. IInv => OneKeyPerSender
    BY DEF IInv, KeyInv
<1> QED
    BY <1>1, Invariance, PTL

\* Every stored row verifies with the public key beside it and decrypts to its
\* text, whatever became of the cache and of the sender's key pair while the
\* message was being linked and stored.
THEOREM SealsHold == Spec => []SealsVerify
<1>1. IInv => SealsVerify
  <2> SUFFICES ASSUME IInv, NEW i \in DOMAIN rows PROVE Verifies(rows[i])
    BY DEF SealsVerify
  <2>1. SealedAs(rows[i], Salt(rows[i]))
    BY RowsStored DEF IInv, Stored
  <2> QED
    BY <2>1, SealedFacts
<1> QED
    BY <1>1, Invariance, PTL

\* The chain of posts that come one at a time is intact, although their rows
\* wait for the writer, and across resets and restarts; so is that of frames
\* each of which finds the row of the one before in the table (get_last_hash).
THEOREM ChainOfOneKind == Spec => []SequentialChain
<1>1. IInv => SequentialChain
  <2> SUFFICES ASSUME IInv, ~torn, NEW S \in {Posts, Frames},
                      {rows[i].signature.salt : i \in DOMAIN rows} \subseteq S
               PROVE  Intact(rows)
    BY DEF SequentialChain
  <2>1. Only(rows, S)
    BY DEF Only, Salt
  <2>2. rows \in Seq(Range(rows)) /\ waiting \in Seq(Range(waiting)) /\ SoFar(rows \o waiting)
    BY DEF IInv, RowInv, ChainInv, Line
  <2>3. SoFar(rows)
    BY <2>2, SoFarBeginning
  <2>4. DOMAIN rows = 1 .. Len(rows) /\ Len(rows) \in Nat
    BY <2>2
  <2>5. \A i \in DOMAIN rows : OneKind(rows, i)
    BY <2>1, <2>4 DEF Only, OneKind
  <2>6. Chained(rows)
    BY <2>3, <2>5 DEF SoFar, Chained
  <2> QED
    BY <2>2, <2>6, IntactIsChained
<1> QED
    BY <1>1, Invariance, PTL

-----------------------------------------------------------------------------
(***************************************************************************)
(* Tables altered behind the application's back.                           *)
(***************************************************************************)
-----------------------------------------------------------------------------
(***************************************************************************)
(* The shared table.                                                       *)
(***************************************************************************)
\* A set of positive numbers has a least one.
LEMMA LeastNumber ==
    ASSUME NEW K, K \subseteq Nat \ {0}, K # {}
    PROVE  \E k \in K : \A l \in K : k <= l
<1> DEFINE R == StrictSubsetOrdering(Nat)
           T == {K \intersect 1 .. k : k \in K}
<1>1. IsWellFoundedOn(R, FiniteSubsetsOf(Nat))
    BY FS_StrictSubsetOrderingWellFounded
<1>2. T \subseteq FiniteSubsetsOf(Nat) /\ T # {}
  <2>1. ASSUME NEW k \in K PROVE K \intersect 1 .. k \in FiniteSubsetsOf(Nat)
    <3>1. IsFiniteSet(1 .. k)
      BY FS_Interval
    <3>2. IsFiniteSet(K \intersect 1 .. k)
      BY <3>1, FS_Subset
    <3> QED
      BY <3>2 DEF FiniteSubsetsOf
  <2> QED
    BY <2>1
<1> HIDE DEF T
<1>3. PICK x \in T : \A y \in T : ~(<<y, x>> \in R)
    BY <1>1, <1>2, WFMin
<1>4. PICK k \in K : x = K \intersect 1 .. k
    BY DEF T
<1>5. ASSUME NEW l \in K, l < k PROVE FALSE
  <2> DEFINE y == K \intersect 1 .. l
  <2>1. y \in T /\ y \subseteq x /\ k \in x /\ k \notin y
    BY <1>4, <1>5 DEF T
  <2>2. x \in SUBSET Nat /\ y \in SUBSET Nat
    BY <1>4
  <2> HIDE DEF y
  <2>3. <<y, x>> \in R
    BY <2>1, <2>2 DEF StrictSubsetOrdering
  <2> QED
    BY <1>3, <2>1, <2>3
<1> QED
    BY <1>4, <1>5

\* A row whose hash and seal verify after a change of one cell is unchanged.
LEMMA CellShows ==
    ASSUME NEW r, NEW m, SealedAs(r, m), NEW link, verify_record(r, link), NEW f \in Columns, NEW v,
           verify_record([r EXCEPT ![f] = v], link), Verifies([r EXCEPT ![f] = v])
    PROVE  [r EXCEPT ![f] = v] = r
<1> DEFINE s == [r EXCEPT ![f] = v]
           C == encrypt_text(Text[m], m)
           G == sign_message(r.pubkey_jwk, canonical_message(Username[m], Text[m], Timestamp[m]), m)
           h == compute_record_hash(r.prev_hash, Username[m], C, G, Timestamp[m])
<1>1. r = [username |-> Username[m], plaintext |-> Text[m], timestamp |-> Timestamp[m],
           ciphertext |-> C, signature |-> G, pubkey_jwk |-> r.pubkey_jwk, prev_hash |-> r.prev_hash,
           record_hash |-> h]
    BY DEF SealedAs, Row
<1>2. f \in {"username", "plaintext", "timestamp", "ciphertext", "signature", "pubkey_jwk", "record_hash"}
    BY DEF Columns, GarbageIn
<1>3. C.text = Text[m] /\ C # Garbage /\ G.key = r.pubkey_jwk
    BY DEF encrypt_text, sign_message, Garbage
<1>4. r.ciphertext = C /\ r.signature = G /\ r.plaintext = Text[m]
    BY <1>1
<1> HIDE DEF C, G
<1>5. CASE f = "plaintext"
  <2>1. s.ciphertext = C /\ s.plaintext = v
    BY <1>1, <1>5
  <2>2. v = Text[m]
    BY <1>3, <2>1 DEF Verifies, decrypt_text
  <2> QED
    BY <1>1, <1>5, <2>2
<1>6. CASE f = "pubkey_jwk"
  <2>1. s.signature = G /\ s.pubkey_jwk = v
    BY <1>1, <1>6
  <2>2. v = r.pubkey_jwk
    BY <1>3, <2>1 DEF Verifies, verify_signature
  <2> QED
    BY <1>1, <1>6, <2>2
<1>7. CASE f \in {"username", "timestamp", "ciphertext", "signature", "record_hash"}
  <2>1. /\ compute_record_hash(link, s.username, s.ciphertext, s.signature, s.timestamp) = s.record_hash
        /\ compute_record_hash(link, r.username, r.ciphertext, r.signature, r.timestamp) = r.record_hash
    BY DEF verify_record
  <2>2. CASE f = "record_hash"
    <3>1. /\ s.username = r.username /\ s.ciphertext = r.ciphertext /\ s.signature = r.signature
          /\ s.timestamp = r.timestamp /\ s.record_hash = v
      BY <1>1, <2>2
    <3> QED
      BY <1>1, <2>1, <2>2, <3>1
  <2>3. CASE f # "record_hash"
    <3>1. s.record_hash = r.record_hash
      BY <1>1, <1>7, <2>3
    <3>2. /\ s.username = r.username /\ s.ciphertext = r.ciphertext /\ s.signature = r.signature
          /\ s.timestamp = r.timestamp
      BY <2>1, <3>1 DEF compute_record_hash
    <3>3. s[f] = v
      BY <1>1, <1>7
    <3> QED
      BY <1>1, <1>7, <2>3, <3>2, <3>3
  <2> QED
    BY <2>2, <2>3
<1> QED
    BY <1>2, <1>5, <1>6, <1>7

\* A link is to one place in the chain, that of the row before or the end.
LEMMA LinkTells ==
    ASSUME Stored(rows, Done), Chained(rows), NEW i \in 1 .. Len(rows) + 1, NEW j \in 1 .. Len(rows) + 1,
           LinkAt(rows, i) = LinkAt(rows, j)
    PROVE  i = j
<1>1. Len(rows) \in Nat /\ DOMAIN rows = 1 .. Len(rows)
    BY DEF Stored
<1>2. ASSUME NEW k \in 1 .. Len(rows) + 1, k # 1
      PROVE  k - 1 \in DOMAIN rows /\ LinkAt(rows, k) = rows[k - 1].record_hash
             /\ rows[k - 1].record_hash.signature = rows[k - 1].signature
             /\ LinkAt(rows, k) # Genesis
  <2>1. k - 1 \in DOMAIN rows /\ LinkAt(rows, k) = rows[k - 1].record_hash
    BY <1>1, <1>2 DEF LinkAt
  <2>2. verify_record(rows[k - 1], LinkAt(rows, k - 1))
    BY <2>1 DEF Chained
  <2>3. \A prev, u, c, g, ts :
            compute_record_hash(prev, u, c, g, ts).signature = g /\ compute_record_hash(prev, u, c, g, ts) # Genesis
    BY DEF compute_record_hash, Genesis
  <2> QED
    BY <2>1, <2>2, <2>3 DEF verify_record
<1>3. CASE i = 1 \/ j = 1
    BY <1>2, <1>3 DEF LinkAt
<1>4. CASE i # 1 /\ j # 1
  <2>1. i - 1 \in DOMAIN rows /\ j - 1 \in DOMAIN rows /\ Salt(rows[i - 1]) = Salt(rows[j - 1])
    BY <1>2, <1>4 DEF Salt
  <2>2. i - 1 = j - 1
    BY <2>1 DEF Stored
  <2> QED
    BY <1>1, <2>2
<1> QED
    BY <1>3, <1>4

\* Rows of the table in another place than theirs do not make a chain.
LEMMA ChainedIsBeginning ==
    ASSUME Stored(rows, Done), Chained(rows), NEW n \in Nat, NEW t \in [1 .. n -> Range(rows)], Chained(t)
    PROVE  n <= Len(rows) /\ \A k \in 1 .. n : t[k] = rows[k]
<1>1. Len(rows) \in Nat /\ DOMAIN rows = 1 .. Len(rows)
    BY DEF Stored
<1> DEFINE K == {k \in 1 .. n : ~(k \in DOMAIN rows /\ t[k] = rows[k])}
<1>2. ASSUME K # {} PROVE FALSE
  <2>1. PICK k \in K : \A l \in K : k <= l
    <3>1. K \subseteq Nat \ {0}
      OBVIOUS
    <3> QED
      BY <1>2, <3>1, LeastNumber
  <2>2. PICK j \in DOMAIN rows : t[k] = rows[j]
    BY <2>1 DEF Range
  <2>3. verify_record(t[k], LinkAt(t, k)) /\ verify_record(rows[j], LinkAt(rows, j))
    BY <2>1, <2>2 DEF Chained
  <2>4. LinkAt(t, k) = LinkAt(rows, j)
    BY <2>2, <2>3 DEF verify_record, compute_record_hash
  <2>5. k \in 1 .. Len(rows) + 1 /\ LinkAt(t, k) = LinkAt(rows, k)
    <3>1. CASE k = 1
      BY <1>1, <2>2, <3>1 DEF LinkAt
    <3>2. CASE k # 1
      <4>1. k - 1 \in 1 .. n /\ k - 1 \notin K
        BY <2>1, <3>2
      <4>2. k - 1 \in DOMAIN rows /\ t[k - 1] = rows[k - 1]
        BY <4>1
      <4>3. LinkAt(rows, j) = rows[k - 1].record_hash
        BY <2>4, <3>2, <4>2 DEF LinkAt
      <4>4. k \in 1 .. Len(rows) + 1
        BY <1>1, <3>2, <4>2
      <4> QED
        BY <2>4, <3>2, <4>3, <4>4 DEF LinkAt
    <3> QED
      BY <3>1, <3>2
  <2>6. k = j
    <3>1. /\ k \in 1 .. Len(rows) + 1 /\ j \in 1 .. Len(rows) + 1
          /\ LinkAt(rows, k) = LinkAt(rows, j)
      BY <1>1, <2>4, <2>5
    <3> HIDE DEF K
    <3> QED
      BY <3>1, LinkTells
  <2> QED
    BY <2>1, <2>2, <2>6
<1>3. \A k \in 1 .. n : k \in DOMAIN rows /\ t[k] = rows[k]
    BY <1>2
<1>4. n <= Len(rows)
    BY <1>1, <1>3
<1> QED
    BY <1>3, <1>4

\* No cell can be changed, no row removed but at the end, and no rows repeated
\* or exchanged in an intact table without a check that fails.
THEOREM AlterationsShow == Spec => []TamperEvident
<1>1. IInv => TamperEvident
  <2> SUFFICES ASSUME Stored(rows, Done), Intact(rows), NEW t \in Alterations(rows), Passes(t)
               PROVE  IsPrefix(Shown(t), Shown(rows))
    BY RowsStored DEF IInv, TamperEvident
  <2>1. rows \in Seq(Range(rows)) /\ Len(rows) \in Nat /\ DOMAIN rows = 1 .. Len(rows) /\ Chained(rows)
    BY IntactIsChained DEF Stored
  <2>2. ASSUME NEW i \in DOMAIN rows, NEW f \in Columns, NEW v, t = WithCell(rows, i, f, v)
        PROVE  t = rows
    <3> DEFINE r == rows[i]
               s == [r EXCEPT ![f] = v]
    <3>1. t = [rows EXCEPT ![i] = s]
      BY <2>2 DEF WithCell
    <3>2. DOMAIN t = DOMAIN rows /\ t[i] = s /\ \A j \in DOMAIN rows : j # i => t[j] = rows[j]
      BY <3>1
    <3> HIDE DEF s
    <3>3. t \in Seq(Range(t))
      <4>1. t \in [1 .. Len(rows) -> Range(t)]
        BY <2>1, <3>1, <3>2 DEF Range
      <4> QED
        BY <2>1, <4>1
    <3>4. Chained(t) /\ Verifies(s)
      BY <3>2, <3>3, IntactIsChained DEF Passes
    <3>5. LinkAt(t, i) = LinkAt(rows, i)
      <4>1. CASE i = 1
        BY <4>1 DEF LinkAt
      <4>2. CASE i # 1
        <5>1. i - 1 \in DOMAIN rows /\ i - 1 # i
          BY <2>1, <4>2
        <5> QED
          BY <3>2, <4>2, <5>1 DEF LinkAt
      <4> QED
        BY <4>1, <4>2
    <3>6. /\ verify_record(r, LinkAt(rows, i)) /\ verify_record(s, LinkAt(rows, i))
          /\ SealedAs(r, Salt(r))
      BY <2>1, <3>2, <3>4, <3>5 DEF Chained, Stored
    <3>7. s = r
      BY <3>4, <3>6, CellShows DEF s
    <3> QED
      BY <2>1, <3>1, <3>7
  <2>3. ASSUME NEW n \in Nat, t \in [1 .. n -> Range(rows)]
        PROVE  n <= Len(rows) /\ \A k \in 1 .. n : t[k] = rows[k]
    <3>1. t \in Seq(Range(t))
      <4>1. t \in [1 .. n -> Range(t)]
        BY <2>3 DEF Range
      <4> QED
        BY <4>1
    <3>2. Chained(t)
      BY <3>1, IntactIsChained DEF Passes
    <3> QED
      BY <2>1, <2>3, <3>2, ChainedIsBeginning
  <2>4. PICK n \in Nat : n <= Len(rows) /\ DOMAIN t = 1 .. n /\ \A k \in 1 .. n : t[k] = rows[k]
    <3>1. CASE t \in Edits(rows)
      <4>1. \E i \in DOMAIN rows, f \in Columns : \E v : t = WithCell(rows, i, f, v)
        BY <3>1 DEF Edits
      <4>2. t = rows
        BY <2>2, <4>1
      <4>3. Len(rows) <= Len(rows)
        BY <2>1
      <4> QED
        BY <2>1, <4>2, <4>3
    <3>2. CASE t \in BoundedSeq(Range(rows), Len(rows))
      <4>1. PICK l \in 0 .. Len(rows) : t \in [1 .. l -> Range(rows)]
        BY <3>2 DEF BoundedSeq, SeqOf
      <4>2. l \in Nat /\ l <= Len(rows) /\ DOMAIN t = 1 .. l
        BY <2>1, <4>1
      <4> QED
        BY <2>3, <4>1, <4>2
    <3> QED
      BY <3>1, <3>2 DEF Alterations
  <2> DEFINE a == Shown(t)
             b == Shown(rows)
  <2>5. /\ a \in Seq(Range(a)) /\ b \in Seq(Range(b)) /\ Len(a) = n /\ Len(b) = Len(rows)
        /\ \A k \in 1 .. n : a[k] = b[k]
    <3>1. DOMAIN a = 1 .. n /\ DOMAIN b = 1 .. Len(rows)
      BY <2>1, <2>4 DEF Shown
    <3>2. a \in [1 .. n -> Range(a)] /\ b \in [1 .. Len(rows) -> Range(b)]
      BY <3>1 DEF Shown, Range
    <3>3. \A k \in 1 .. n : a[k] = b[k]
      BY <2>1, <2>4 DEF Shown
    <3> HIDE DEF a, b
    <3> QED
      BY <2>1, <2>4, <3>1, <3>2, <3>3
  <2> HIDE DEF a, b
  <2>6. SubSeq(a, 1, n) = SubSeq(b, 1, n)
    BY <2>1, <2>4, <2>5
  <2>7. IsPrefix(a, b)
    BY <2>4, <2>5, <2>6 DEF IsPrefix
  <2> QED
    BY <2>7 DEF a, b
<1> QED
    BY <1>1, Invariance, PTL

-----------------------------------------------------------------------------
(***************************************************************************)
(* Worker processes: the key file and the connections.                     *)
(***************************************************************************)
Places == {"down", "create", "opened", "read", "db", "serving"}

Keyed == file # Nothing /\ file # Torn

\* Only processes that serve write; each through its own connection.
WritersInv ==
    /\ preload \in BOOLEAN /\ generated \in Nat
    /\ pc \in [Procs -> Places] /\ DOMAIN key = Procs
    /\ DOMAIN conn = Procs /\ DOMAIN writer = Procs
    /\ table \in Seq(Range(table))
    /\ \A p \in Procs : writer[p] => pc[p] = "serving"
    /\ \A p \in Procs : pc[p] = "read" => file # Nothing
    /\ \A p \in Procs : pc[p] \in {"create", "opened"} => key[p] \in Nat /\ (preload => p = Master)
    /\ preload => ~overlap

\* While no two processes create the key file at a time, there is one only while
\* nobody has a key, and everybody's key is the one in the file.
FileInv ==
    ~overlap =>
        /\ \A p, q \in Creating : p = q
        /\ \A p \in Procs : /\ pc[p] = "create" => file = Nothing
                            /\ pc[p] = "opened" => file = Torn
                            /\ pc[p] \in {"db", "serving"} => Keyed /\ key[p] = file
        /\ ~Keyed => table = <<>>
        /\ \A i \in DOMAIN table : table[i].key = file

WorkersInv == WritersInv /\ FileInv /\ OwnConnection

LEMMA MoveTo ==
    ASSUME pc \in [Procs -> Places], NEW p \in Procs, NEW l \in Places, Move(p, l)
    PROVE  pc' \in [Procs -> Places] /\ pc'[p] = l /\ \A q \in Procs : q # p => pc'[q] = pc[q]
    BY DEF Move

LEMMA MasterAndWorkers ==
    Master \in Procs /\ \A w \in Workers : w \in Procs /\ w # Master
    BY WorkersConstants DEF Procs

LEMMA WorkersInitInv == WorkersInit => WorkersInv
<1> SUFFICES ASSUME WorkersInit PROVE WorkersInv
    OBVIOUS
<1>1. table = <<>> /\ file = Nothing /\ \A p \in Procs : pc[p] = "down" /\ ~writer[p]
    BY DEF WorkersInit
<1>2. Creating = {}
    BY <1>1 DEF Creating
<1>3. WritersInv
    BY <1>1 DEF WorkersInit, WritersInv, Places
<1>4. FileInv
    BY <1>1, <1>2 DEF FileInv, Keyed
<1> QED
    BY <1>1, <1>3, <1>4 DEF WorkersInv, OwnConnection

\* A process looks for the key file.
LEMMA CheckKeyStep ==
    ASSUME WorkersInv, NEW p \in Procs, CheckKey(p)
    PROVE  WorkersInv'
<1>1. /\ pc \in [Procs -> Places] /\ DOMAIN key = Procs /\ generated \in Nat
      /\ Imports(p) /\ pc[p] = "down"
      /\ UNCHANGED <<preload, file, table, conn, writer>>
    BY DEF WorkersInv, WritersInv, CheckKey, memory
<1>2. OwnConnection'
    BY <1>1 DEF WorkersInv, OwnConnection
<1>3. CASE file # Nothing
  <2>1. Move(p, "read") /\ UNCHANGED <<key, generated, overlap>>
    BY <1>3 DEF CheckKey
  <2>2. pc' \in [Procs -> Places] /\ pc'[p] = "read" /\ \A q \in Procs : q # p => pc'[q] = pc[q]
    BY <1>1, <2>1, MoveTo DEF Places
  <2>3. Creating' = Creating
    BY <1>1, <2>2 DEF Creating
  <2>4. WritersInv'
    BY <1>1, <1>3, <2>1, <2>2 DEF WorkersInv, WritersInv
  <2>5. FileInv'
    BY <1>1, <2>1, <2>2, <2>3 DEF WorkersInv, FileInv, Keyed
  <2> QED
    BY <1>2, <2>4, <2>5 DEF WorkersInv
<1>4. CASE file = Nothing
  <2>1. /\ generated' = generated + 1 /\ key' = [key EXCEPT ![p] = generated + 1]
        /\ overlap' = (overlap \/ Creating # {}) /\ Move(p, "create")
    BY <1>4 DEF CheckKey, Create
  <2>2. pc' \in [Procs -> Places] /\ pc'[p] = "create" /\ \A q \in Procs : q # p => pc'[q] = pc[q]
    BY <1>1, <2>1, MoveTo DEF Places
  <2>3. /\ DOMAIN key' = Procs /\ key'[p] \in Nat /\ generated' \in Nat
        /\ \A q \in Procs : q # p => key'[q] = key[q]
    BY <1>1, <2>1
  <2>4. preload => p = Master /\ ~overlap'
    <3> SUFFICES ASSUME preload PROVE p = Master /\ ~overlap'
      OBVIOUS
    <3>1. p = Master /\ ~overlap
      BY <1>1 DEF Imports, WorkersInv, WritersInv
    <3>2. Creating = {}
      BY <1>1, <3>1 DEF Creating, WorkersInv, WritersInv
    <3> QED
      BY <2>1, <3>1, <3>2
  <2>5. WritersInv'
    BY <1>1, <1>4, <2>2, <2>3, <2>4 DEF WorkersInv, WritersInv
  <2>6. FileInv'
    <3> SUFFICES ASSUME ~overlap' PROVE FileInv'
      BY DEF FileInv
    <3>1. ~overlap /\ Creating = {}
      BY <2>1
    <3>2. Creating' = {p}
      BY <2>2, <3>1 DEF Creating
    <3>3. ~Keyed /\ ~Keyed'
      BY <1>1, <1>4 DEF Keyed
    <3>4. table = <<>> /\ \A q \in Procs : pc[q] \notin {"db", "serving"}
      BY <3>1, <3>3 DEF WorkersInv, FileInv
    <3>5. \A q \in Procs : q # p => pc'[q] \notin {"create", "opened", "db", "serving"}
      BY <2>2, <3>1, <3>4 DEF Creating
    <3> QED
      BY <1>1, <1>4, <2>2, <3>2, <3>4, <3>5 DEF FileInv
  <2> QED
    BY <1>2, <2>5, <2>6 DEF WorkersInv
<1> QED
    BY <1>3, <1>4

\* It opens the file and writes it.
LEMMA OpenKeyStep ==
    ASSUME WorkersInv, NEW p \in Procs, OpenKey(p)
    PROVE  WorkersInv'
<1>1. /\ pc \in [Procs -> Places] /\ pc[p] = "create" /\ file' = Torn /\ Move(p, "opened")
      /\ UNCHANGED <<preload, generated, overlap, table, key, conn, writer>>
    BY DEF WorkersInv, WritersInv, OpenKey, memory
<1>2. pc' \in [Procs -> Places] /\ pc'[p] = "opened" /\ \A q \in Procs : q # p => pc'[q] = pc[q]
    BY <1>1, MoveTo DEF Places
<1>3. Creating' = Creating /\ p \in Creating
    BY <1>1, <1>2 DEF Creating
<1>4. WritersInv'
    BY <1>1, <1>2, WorkersConstants DEF WorkersInv, WritersInv
<1>5. FileInv'
  <2> SUFFICES ASSUME ~overlap PROVE FileInv'
    BY <1>1 DEF FileInv
  <2>1. file = Nothing /\ \A q \in Creating : q = p
    BY <1>1, <1>3 DEF WorkersInv, FileInv
  <2>2. ~Keyed /\ ~Keyed'
    BY <1>1, <2>1 DEF Keyed
  <2>3. table = <<>> /\ \A q \in Procs : pc[q] \notin {"db", "serving"}
    BY <2>2 DEF WorkersInv, FileInv
  <2>4. \A q \in Procs : q # p => pc'[q] \notin {"create", "opened", "db", "serving"}
    BY <1>2, <2>1, <2>3 DEF Creating
  <2> QED
    BY <1>1, <1>2, <1>3, <2>1, <2>3, <2>4 DEF FileInv
<1> QED
    BY <1>1, <1>4, <1>5 DEF WorkersInv, OwnConnection

LEMMA WriteKeyStep ==
    ASSUME WorkersInv, NEW p \in Procs, WriteKey(p)
    PROVE  WorkersInv'
<1>1. /\ pc \in [Procs -> Places] /\ pc[p] = "opened" /\ file' = key[p] /\ Move(p, "db")
      /\ UNCHANGED <<preload, generated, overlap, table, key, conn, writer>>
    BY DEF WorkersInv, WritersInv, WriteKey, memory
<1>2. pc' \in [Procs -> Places] /\ pc'[p] = "db" /\ \A q \in Procs : q # p => pc'[q] = pc[q]
    BY <1>1, MoveTo DEF Places
<1>3. Keyed'
    BY <1>1, WorkersConstants DEF Keyed, WorkersInv, WritersInv
<1>4. WritersInv'
    BY <1>1, <1>2, <1>3 DEF WorkersInv, WritersInv, Keyed
<1>5. FileInv'
  <2> SUFFICES ASSUME ~overlap PROVE FileInv'
    BY <1>1 DEF FileInv
  <2>1. file = Torn /\ p \in Creating /\ \A q \in Creating : q = p
    BY <1>1 DEF WorkersInv, FileInv, Creating
  <2>2. ~Keyed
    BY <2>1 DEF Keyed
  <2>3. table = <<>> /\ \A q \in Procs : pc[q] \notin {"db", "serving"}
    BY <2>2 DEF WorkersInv, FileInv
  <2>4. \A q \in Procs : q # p => pc'[q] \notin {"create", "opened", "db", "serving"}
    BY <1>2, <2>1, <2>3 DEF Creating
  <2>5. Creating' = {}
    BY <1>2, <2>4 DEF Creating
  <2> QED
    BY <1>1, <1>2, <1>3, <2>3, <2>4, <2>5 DEF FileInv
<1> QED
    BY <1>1, <1>4, <1>5 DEF WorkersInv, OwnConnection

\* The steps that leave the file and the table: reading the key, starting, and
\* dying.  Who comes to have a key has it from the file or from its master.
LEMMA StartStep ==
    ASSUME WorkersInv, NEW p \in Procs, NEW l \in {"down", "db", "serving"}, Move(p, l),
           UNCHANGED <<preload, keyfile, table>>,
           DOMAIN key' = Procs, \A q \in Procs : q # p => key'[q] = key[q],
           DOMAIN conn' = Procs, DOMAIN writer' = Procs,
           \A q \in Procs : writer'[q] => (writer[q] /\ q # p) \/ (q = p /\ l = "serving"),
           l # "down" => (~overlap => Keyed /\ key'[p] = file)
    PROVE  WorkersInv'
<1>1. pc \in [Procs -> Places] /\ UNCHANGED <<file, generated, overlap>>
    BY DEF WorkersInv, WritersInv, keyfile
<1>2. pc' \in [Procs -> Places] /\ pc'[p] = l /\ \A q \in Procs : q # p => pc'[q] = pc[q]
    BY <1>1, MoveTo DEF Places
<1>3. Creating' \subseteq Creating
    BY <1>2 DEF Creating
<1>4. WritersInv'
    BY <1>1, <1>2 DEF WorkersInv, WritersInv
<1>5. FileInv'
    BY <1>1, <1>2, <1>3 DEF WorkersInv, FileInv, Keyed
<1> QED
    BY <1>4, <1>5 DEF WorkersInv, OwnConnection

LEMMA StartingStep ==
    ASSUME WorkersInv, NEW p \in Procs, ReadKey(p) \/ InitDb(p) \/ Fork(p) \/ Crash(p)
    PROVE  WorkersInv'
<1>1. DOMAIN key = Procs /\ DOMAIN conn = Procs /\ DOMAIN writer = Procs
      /\ \A q \in Procs : writer[q] => pc[q] = "serving"
    BY DEF WorkersInv, WritersInv
<1>2. CASE ReadKey(p) /\ file = Torn
  <2>1. Move(p, "down") /\ UNCHANGED <<key, preload, keyfile, table, conn, writer>> /\ pc[p] = "read"
    BY <1>2 DEF ReadKey, memory
  <2>2. \A q \in Procs : writer'[q] => writer[q] /\ q # p
    BY <1>1, <2>1
  <2> QED
    BY <1>1, <2>1, <2>2, StartStep
<1>3. CASE ReadKey(p) /\ file # Torn
  <2>1. /\ Move(p, "db") /\ key' = [key EXCEPT ![p] = file] /\ pc[p] = "read"
        /\ UNCHANGED <<preload, keyfile, table, conn, writer>>
    BY <1>3 DEF ReadKey, memory
  <2>2. \A q \in Procs : writer'[q] => writer[q] /\ q # p
    BY <1>1, <2>1
  <2>3. DOMAIN key' = Procs /\ key'[p] = file /\ \A q \in Procs : q # p => key'[q] = key[q]
    BY <1>1, <2>1
  <2>4. Keyed
    BY <1>3, <2>1 DEF Keyed, WorkersInv, WritersInv
  <2> QED
    BY <1>1, <2>1, <2>2, <2>3, <2>4, StartStep
<1>4. CASE InitDb(p)
  <2>1. /\ Move(p, "serving") /\ writer' = [writer EXCEPT ![p] = TRUE] /\ conn' = [conn EXCEPT ![p] = p]
        /\ pc[p] = "db" /\ UNCHANGED <<preload, keyfile, table, key>>
    BY <1>4 DEF InitDb
  <2>2. /\ DOMAIN writer' = Procs /\ DOMAIN conn' = Procs
        /\ \A q \in Procs : writer'[q] => (writer[q] /\ q # p) \/ q = p
    BY <1>1, <2>1
  <2>3. ~overlap => Keyed /\ key'[p] = file
    BY <2>1 DEF WorkersInv, FileInv
  <2> QED
    BY <1>1, <2>1, <2>2, <2>3, StartStep
<1>5. CASE Fork(p)
  <2>1. /\ p \in Workers /\ Move(p, "serving") /\ key' = [key EXCEPT ![p] = key[Master]]
        /\ conn' = [conn EXCEPT ![p] = conn[Master]] /\ pc[Master] = "serving" /\ pc[p] = "down"
        /\ UNCHANGED <<preload, keyfile, table, writer>>
    BY <1>5 DEF Fork
  <2>2. DOMAIN key' = Procs /\ key'[p] = key[Master] /\ DOMAIN conn' = Procs
        /\ \A q \in Procs : q # p => key'[q] = key[q]
    BY <1>1, <2>1
  <2>3. ~overlap => Keyed /\ key'[p] = file
    BY <2>1, <2>2, MasterAndWorkers DEF WorkersInv, FileInv
  <2>4. \A q \in Procs : writer'[q] => writer[q] /\ q # p
    BY <1>1, <2>1
  <2> QED
    BY <1>1, <2>1, <2>2, <2>3, <2>4, StartStep
<1>6. CASE Crash(p)
  <2>1. /\ Move(p, "down") /\ key' = [key EXCEPT ![p] = Nothing] /\ writer' = [writer EXCEPT ![p] = FALSE]
        /\ conn' = [conn EXCEPT ![p] = Nothing] /\ UNCHANGED <<preload, keyfile, table>>
    BY <1>6 DEF Crash
  <2>2. /\ DOMAIN key' = Procs /\ DOMAIN writer' = Procs /\ DOMAIN conn' = Procs
        /\ \A q \in Procs : q # p => key'[q] = key[q]
        /\ \A q \in Procs : writer'[q] => writer[q] /\ q # p
    BY <1>1, <2>1
  <2> QED
    BY <2>1, <2>2, StartStep
<1> QED
    BY <1>2, <1>3, <1>4, <1>5, <1>6

\* A row has the key of the process that writes it, which serves.
LEMMA RowWritten ==
    ASSUME WorkersInv, NEW w \in Workers, pc[w] = "serving",
           UNCHANGED <<preload, keyfile, pc, key>>, DOMAIN conn' = Procs, DOMAIN writer' = Procs,
           \A p \in Procs : writer'[p] => writer[p] \/ p = w,
           \/ table' = table
           \/ \E m : InsertOrIgnore(w, m)
    PROVE  WorkersInv'
<1>1. UNCHANGED <<file, generated, overlap>> /\ w \in Procs /\ DOMAIN conn = Procs /\ Creating' = Creating
      /\ (Keyed' <=> Keyed) /\ table \in Seq(Range(table))
    BY MasterAndWorkers DEF keyfile, WorkersInv, WritersInv, Creating, Keyed
<1>2. \/ table' = table
      \/ \E row : table' = Append(table, row) /\ row.key = key[w] /\ row.conn = row.by
  <2>1. ASSUME NEW m, InsertOrIgnore(w, m), table' # table
        PROVE  \E row : table' = Append(table, row) /\ row.key = key[w] /\ row.conn = row.by
    <3> DEFINE row == [post |-> m, by |-> w, key |-> key[w], conn |-> conn'[w]]
    <3>1. table' = Append(table, row)
      BY <2>1 DEF InsertOrIgnore
    <3>2. conn'[w] = w
      BY <1>1, <2>1 DEF InsertOrIgnore, GetConn
    <3>3. row.key = key[w] /\ row.conn = row.by
      BY <3>2
    <3> HIDE DEF row
    <3> QED
      BY <3>1, <3>3
  <2> QED
    BY <2>1
<1>3. ~overlap => Keyed /\ key[w] = file
    BY <1>1 DEF WorkersInv, FileInv
<1>4. /\ table' \in Seq(Range(table'))
      /\ \A i \in DOMAIN table' :
            \/ i \in DOMAIN table /\ table'[i] = table[i]
            \/ table'[i].key = key[w] /\ table'[i].conn = table'[i].by
  <2>1. CASE table' = table
    BY <1>1, <2>1
  <2>2. ASSUME NEW row, table' = Append(table, row), row.key = key[w], row.conn = row.by
        PROVE  /\ table' \in Seq(Range(table'))
               /\ \A i \in DOMAIN table' :
                    \/ i \in DOMAIN table /\ table'[i] = table[i]
                    \/ table'[i].key = key[w] /\ table'[i].conn = table'[i].by
    <3>1. /\ table' \in Seq(Range(table')) /\ Len(table) \in Nat /\ DOMAIN table = 1 .. Len(table)
          /\ DOMAIN table' = 1 .. Len(table) + 1 /\ table'[Len(table) + 1] = row
          /\ \A i \in DOMAIN table : table'[i] = table[i]
      BY <1>1, <2>2, AppendFacts
    <3>2. \A i \in DOMAIN table' : i \in DOMAIN table \/ i = Len(table) + 1
      BY <3>1
    <3> QED
      BY <2>2, <3>1, <3>2
  <2> QED
    BY <1>2, <2>1, <2>2
<1>5. WritersInv'
    BY <1>1, <1>4 DEF WorkersInv, WritersInv
<1>6. OwnConnection'
    BY <1>4 DEF WorkersInv, OwnConnection
<1>7. FileInv'
  <2> SUFFICES ASSUME ~overlap PROVE FileInv'
    BY <1>1 DEF FileInv
  <2>1. \A i \in DOMAIN table' : table'[i].key = file
    BY <1>3, <1>4 DEF WorkersInv, FileInv
  <2> QED
    BY <1>1, <1>3, <2>1 DEF WorkersInv, FileInv
<1> QED
    BY <1>5, <1>6, <1>7 DEF WorkersInv

LEMMA ServingStep ==
    ASSUME WorkersInv, NEW w \in Workers, Write(w) \/ \E m \in Requests : Accept(w, m)
    PROVE  WorkersInv'
<1>1. DOMAIN conn = Procs /\ DOMAIN writer = Procs /\ w \in Procs
    BY MasterAndWorkers DEF WorkersInv, WritersInv
<1>2. ASSUME NEW m, InsertOrIgnore(w, m) PROVE DOMAIN conn' = Procs
    BY <1>1, <1>2 DEF InsertOrIgnore
<1>3. CASE Write(w)
  <2>1. pc[w] = "serving"
    BY <1>1, <1>3 DEF Write, WorkersInv, WritersInv
  <2>2. InsertOrIgnore(w, Head(queue[w])) /\ UNCHANGED <<preload, keyfile, pc, key, writer>>
    BY <1>3 DEF Write
  <2> QED
    BY <1>1, <1>2, <2>1, <2>2, RowWritten
<1>4. ASSUME NEW m \in Requests, Accept(w, m) PROVE WorkersInv'
  <2>1. /\ pc[w] = "serving" /\ UNCHANGED <<preload, keyfile, pc, key>>
        /\ writer' = [writer EXCEPT ![w] = @ \/ ~started[w]]
        /\ \/ UNCHANGED <<conn, table>>
           \/ InsertOrIgnore(w, m)
    BY <1>4 DEF Accept, Serving
  <2>2. DOMAIN writer' = Procs /\ \A p \in Procs : writer'[p] => writer[p] \/ p = w
    BY <1>1, <2>1
  <2>3. DOMAIN conn' = Procs
    BY <1>1, <1>2, <2>1
  <2> QED
    BY <2>1, <2>2, <2>3, RowWritten
<1> QED
    BY <1>3, <1>4
\* Key file, keys, connections and writers at every moment of the start, the
\* fork and the death of processes (_load_or_create_key, init_db, get_conn).
THEOREM WorkersInvariance == WorkersSpec => []WorkersInv
<1>1. WorkersInv /\ [WorkersNext]_workersVars => WorkersInv'
  <2> SUFFICES ASSUME WorkersInv, [WorkersNext]_workersVars PROVE WorkersInv'
    OBVIOUS
  <2>1. ASSUME NEW p \in Procs, Starting(p) \/ Crash(p) PROVE WorkersInv'
    BY <2>1, CheckKeyStep, OpenKeyStep, WriteKeyStep, StartingStep DEF Starting
  <2>2. ASSUME NEW w \in Workers, Write(w) \/ \E m \in Requests : Accept(w, m) PROVE WorkersInv'
    BY <2>2, ServingStep
  <2>3. CASE UNCHANGED workersVars
    <3>1. UNCHANGED <<preload, file, generated, overlap, table, pc, key, writer, conn>>
      BY <2>3 DEF workersVars, keyfile, memory
    <3> QED
      BY <3>1 DEF WorkersInv, WritersInv, FileInv, OwnConnection, Creating, Keyed
  <2> QED
    BY <2>1, <2>2, <2>3 DEF WorkersNext
<1> QED
    BY <1>1, WorkersInitInv, PTL DEF WorkersSpec

\* However workers are started, forked, killed and started again: unless two
\* of them created the key file at a time all serve with the key in the file,
\* every row was encrypted with it, and forked workers never disagree
\* (_load_or_create_key has no lock between the test and the write).
THEOREM OneKeyForAll == WorkersSpec => []KeysAgree
<1>1. WorkersInv => KeysAgree
  <2> SUFFICES ASSUME WorkersInv PROVE KeysAgree
    OBVIOUS
  <2>1. \A w \in Serving : w \in Procs /\ pc[w] = "serving"
    BY MasterAndWorkers DEF Serving
  <2> QED
    BY <2>1 DEF WorkersInv, WritersInv, FileInv, KeysAgree
<1> QED
    BY <1>1, WorkersInvariance, PTL

\* A forked worker opens a connection of its own before it writes (get_conn
\* compares the process that opened it).
THEOREM ConnectionsNotShared == WorkersSpec => []OwnConnection
<1>1. WorkersInv => OwnConnection
    BY DEF WorkersInv
<1> QED
    BY <1>1, WorkersInvariance, PTL
=============================================================================
