--------------------------- MODULE ChunkSpace_proofs ---------------------------
(***************************************************************************)
(* The chunk space is consistent for every number of slots, keys and       *)
(* chunks, whatever its callers and the storage do; under careful use its  *)
(* marks are exact and nothing in use is recycled.                         *)
(***************************************************************************)
EXTENDS ChunkSpace, LruOps_proofs

(* What holds whatever the callers do: it is inductive as it stands. *)
Indexed == ChainsIndexValues /\ OneChunkPerKey /\ CountIsExact

Inv == TypeOK /\ Indexed /\ NoSlotLost

-----------------------------------------------------------------------------
(* What the walk along a bucket finds. *)
LEMMA FoundFacts ==
  ASSUME TypeOK, ChainsIndexValues, OneChunkPerKey, NEW k \in Keys
  PROVE  /\ \A m \in Found(k) : /\ m \in Slots /\ values[m] \in Chunks
                                /\ values[m] # NoChunk /\ KeyOf[values[m]] = k
         /\ \A m, n \in Found(k) : m = n
         /\ \A m \in Slots :
              values[m] # NoChunk /\ KeyOf[values[m]] = k => m \in Found(k)
<1>1. Hash[k] \in Buckets
  BY SpaceAssumption
<1>2. \A m \in Found(k) : /\ m \in Slots /\ values[m] \in Chunks
                          /\ values[m] # NoChunk /\ KeyOf[values[m]] = k
  BY <1>1 DEF Found, TypeOK
<1>3. \A m, n \in Found(k) : m = n
  BY <1>2 DEF OneChunkPerKey
<1>4. \A m \in Slots :
        values[m] # NoChunk /\ KeyOf[values[m]] = k => m \in Found(k)
  BY <1>1 DEF Found, ChainsIndexValues
<1>. QED  BY <1>2, <1>3, <1>4

LEMMA ResidentHasSlot ==
  ASSUME TypeOK, NEW c \in Chunks
  PROVE  Resident(c) <=> \E m \in Slots : values[m] = c
BY DEF TypeOK, Resident, Range

(* The lru queue is one of Queues. *)
LEMMA LruIsQueue ==
  ASSUME TypeOK, NoSlotLost
  PROVE  lru \in Queues
BY DEF TypeOK, NoSlotLost, Queues

LEMMA QueuedAreSlots ==
  ASSUME NEW q \in Seq(Slots)
  PROVE  Range(q) \subseteq Slots /\ NoSlot \notin Range(q)
<1>1. Range(q) \subseteq Slots
  BY LenProperties, ElementOfSeq DEF Range
<1>2. NoSlot \notin Slots
  BY DEF Slots, NoSlot
<1>. QED  BY <1>1, <1>2

LEMMA TableUnchanged ==
  ASSUME Indexed, UNCHANGED table
  PROVE  Indexed'
BY DEF Indexed, table, ChainsIndexValues, OneChunkPerKey, CountIsExact

(* A new mark loses no slot. *)
LEMMA MarkLosesNoSlot ==
  ASSUME TypeOK, NoSlotLost, NEW c \in Chunks, Mark(c),
         UNCHANGED <<values, lru>>
  PROVE  NoSlotLost' /\ marks' \in [Chunks -> Int]
<1>1. \A d \in Chunks : marks'[d] = IF d = c THEN marks[d] + 1 ELSE marks[d]
  BY DEF Mark, TypeOK
<1>2. marks' \in [Chunks -> Int]
  BY DEF Mark, TypeOK
<1>3. ASSUME NEW m \in Slots, ~Enqueued(lru, m)
      PROVE  values[m] # NoChunk /\ marks'[values[m]] > 0
  <2>1. values[m] # NoChunk /\ marks[values[m]] > 0 /\ values[m] \in Chunks
    BY <1>3 DEF NoSlotLost, TypeOK
  <2>2. marks[values[m]] \in Int
    BY <2>1 DEF TypeOK
  <2>. QED  BY <1>1, <2>1, <2>2
<1>. QED  BY <1>2, <1>3 DEF NoSlotLost, Enqueued

(* A dropped mark loses no slot: the slot of an object is released with    *)
(* its last mark. The object may be one that was evicted from the slot.    *)
LEMMA UnmarkLosesNoSlot ==
  ASSUME TypeOK, NoSlotLost, OneChunkPerKey,
         NEW c \in Chunks, NEW m \in Slots, values[m] \in Chunks,
         KeyOf[values[m]] = KeyOf[c], UnmarkAt(c, m), UNCHANGED values
  PROVE  NoSlotLost' /\ lru' \in Seq(Slots) /\ marks' \in [Chunks -> Int]
<1>1. lru \in Queues
  BY LruIsQueue
<1>2. /\ lru' \in Queues /\ Range(lru) \subseteq Range(lru')
      /\ marks[c] = 1 => m \in Range(lru')
  BY <1>1, ReleasedProperties DEF UnmarkAt
<1>3. marks' \in [Chunks -> Int]
  BY DEF UnmarkAt, TypeOK
<1>4. ASSUME NEW n \in Slots, n \notin Range(lru')
      PROVE  values[n] # NoChunk /\ marks'[values[n]] > 0
  <2>1. values[n] # NoChunk /\ marks[values[n]] > 0 /\ values[n] \in Chunks
    BY <1>2, <1>4 DEF NoSlotLost, TypeOK, Enqueued
  <2>2. CASE values[n] = c
    <3>1. n = m
      BY <2>1, <2>2, SpaceAssumption DEF OneChunkPerKey
    <3>2. marks[c] # 1 /\ marks[c] > 0 /\ marks[c] \in Int
      BY <1>2, <1>4, <2>1, <2>2, <3>1 DEF TypeOK
    <3>3. marks'[c] = marks[c] - 1
      BY DEF UnmarkAt, TypeOK
    <3>. QED  BY <2>1, <2>2, <3>2, <3>3
  <2>3. CASE values[n] # c
    <3>1. marks'[values[n]] = marks[values[n]]
      BY <2>1, <2>3 DEF UnmarkAt, TypeOK
    <3>. QED  BY <2>1, <3>1
  <2>. QED  BY <2>2, <2>3
<1>. QED  BY <1>2, <1>3, <1>4 DEF NoSlotLost, Enqueued, Queues

-----------------------------------------------------------------------------
(* One lemma per group of actions.                                         *)

LEMMA GetKeepsInv ==
  ASSUME Inv, NEW k \in Keys, Hits(k) \/ GetRefused(k)
  PROVE  Inv'
<1>0. TypeOK /\ Indexed /\ NoSlotLost
  BY DEF Inv
<1>1. PICK m \in Found(k) :
        /\ m \in Slots /\ values[m] \in Chunks /\ Mark(values[m])
        /\ UNCHANGED <<values, chain, elementCount, dirty, dirtyList, saving,
                       waiting, loading>>
        /\ \/ UNCHANGED <<lru, held>>
           \/ UNCHANGED lru /\ Hand(values[m])
           \/ /\ m \in Range(lru) /\ lru' = Without(lru, m)
              /\ Hand(values[m]) /\ marks[values[m]] = 0
  BY <1>0, FoundFacts
     DEF Hits, GetShared, GetRecycled, GetRefused, Refuse, Indexed, table,
         saves, Removable, Enqueued
<1>2. Indexed'
  BY <1>0, <1>1, TableUnchanged DEF table
<1>3. lru \in Queues
  BY <1>0, LruIsQueue
<1>4. marks' \in [Chunks -> Int]
  BY <1>0, <1>1 DEF Mark, TypeOK
<1>5. held' \in [Chunks -> Nat]
  BY <1>0, <1>1 DEF Hand, TypeOK
<1>6. lru' \in Seq(Slots) /\ NoSlotLost'
  <2>1. CASE UNCHANGED lru
    BY <1>0, <1>1, <2>1, MarkLosesNoSlot DEF TypeOK
  <2>2. CASE m \in Range(lru) /\ lru' = Without(lru, m) /\ marks[values[m]] = 0
    <3>1. lru' \in Queues /\ Range(lru') = Range(lru) \ {m}
      BY <1>3, <2>2, WithoutProperties
    <3>2. \A c \in Chunks :
            marks'[c] = IF c = values[m] THEN marks[c] + 1 ELSE marks[c]
      BY <1>0, <1>1 DEF Mark, TypeOK
    <3>3. ASSUME NEW n \in Slots, n \notin Range(lru')
          PROVE  values[n] # NoChunk /\ marks'[values[n]] > 0
      <4>1. CASE n = m
        BY <4>1, <3>2, <2>2, <1>1, SpaceAssumption
      <4>2. CASE n # m
        <5>1. values[n] # NoChunk /\ values[n] \in Chunks /\ marks[values[n]] > 0
          BY <4>2, <3>1, <3>3, <1>0 DEF NoSlotLost, TypeOK, Enqueued
        <5>2. marks[values[n]] \in Int
          BY <5>1, <1>0 DEF TypeOK
        <5>. QED  BY <5>1, <5>2, <3>2
      <4>. QED  BY <4>1, <4>2
    <3>. QED  BY <3>1, <3>3, <1>1 DEF NoSlotLost, Enqueued, Queues
  <2>. QED  BY <1>1, <2>1, <2>2
<1>. QED  BY <1>0, <1>1, <1>2, <1>4, <1>5, <1>6 DEF Inv, TypeOK

LEMMA LoadKeepsInv ==
  ASSUME Inv, NEW k \in Keys,
         LoadAbsent(k) \/ LoadRefused(k) \/ LoadNothing(k) \/ LoadFindsOther(k)
  PROVE  Inv'
<1>0. TypeOK /\ Indexed /\ NoSlotLost
  BY DEF Inv
<1>1. CASE LoadRefused(k)
  <2>1. PICK m \in Found(k) :
          /\ m \in Slots /\ values[m] \in Chunks /\ Mark(values[m])
          /\ UNCHANGED <<values, chain, elementCount, lru, dirty, dirtyList,
                         saving, waiting, held>>
          /\ loading' = [loading EXCEPT ![k] = @ + 1]
    BY <1>0, <1>1, FoundFacts
       DEF LoadRefused, Refuse, Request, Indexed, table, saves
  <2>2. Indexed'
    BY <1>0, <2>1, TableUnchanged DEF table
  <2>3. NoSlotLost' /\ marks' \in [Chunks -> Int]
    BY <1>0, <2>1, MarkLosesNoSlot
  <2>4. loading' \in [Keys -> Nat]
    BY <1>0, <2>1 DEF TypeOK
  <2>. QED  BY <1>0, <2>1, <2>2, <2>3, <2>4 DEF Inv, TypeOK
<1>2. CASE LoadAbsent(k) \/ LoadNothing(k) \/ LoadFindsOther(k)
  <2>1. /\ UNCHANGED <<values, chain, elementCount, lru, marks, dirty, dirtyList,
                       saving, waiting>>
        /\ \/ UNCHANGED held
           \/ \E m \in Found(k) : Hand(values[m])
        /\ \/ loading' = [loading EXCEPT ![k] = @ + 1]
           \/ loading[k] > 0 /\ loading' = [loading EXCEPT ![k] = @ - 1]
    BY <1>2 DEF LoadAbsent, LoadNothing, LoadFindsOther, Request, Answered,
                table, saves
  <2>2. Indexed'
    BY <1>0, <2>1, TableUnchanged DEF table
  <2>3. NoSlotLost'
    BY <1>0, <2>1 DEF NoSlotLost, Enqueued
  <2>4. loading' \in [Keys -> Nat]
    <3>1. loading \in [Keys -> Nat] /\ loading[k] \in Nat
      BY <1>0 DEF TypeOK
    <3>2. \/ loading' = [loading EXCEPT ![k] = loading[k] + 1]
          \/ loading[k] > 0 /\ loading' = [loading EXCEPT ![k] = loading[k] - 1]
      BY <2>1, Zenon
    <3>3. loading[k] + 1 \in Nat /\ (loading[k] > 0 => loading[k] - 1 \in Nat)
      BY <3>1
    <3>. QED  BY <3>1, <3>2, <3>3
  <2>5. held' \in [Chunks -> Nat]
    <3>1. CASE UNCHANGED held
      BY <3>1, <1>0 DEF TypeOK
    <3>2. CASE \E m \in Found(k) : Hand(values[m])
      <4>1. PICK c \in Chunks : held' = [held EXCEPT ![c] = @ + 1]
        BY <3>2, <1>0, FoundFacts DEF Hand, Indexed
      <4>. QED  BY <4>1, <1>0 DEF TypeOK
    <3>. QED  BY <3>1, <3>2, <2>1
  <2>. QED  BY <1>0, <2>1, <2>2, <2>3, <2>4, <2>5 DEF Inv, TypeOK
<1>. QED  BY <1>1, <1>2

(* putAndMark on a key that is not in the space. *)
LEMMA InsertKeepsInv ==
  ASSUME Inv, NEW c \in Chunks, Found(KeyOf[c]) = {}, Insert(c)
  PROVE  Indexed' /\ NoSlotLost'
         /\ (loading' \in [Keys -> Nat] => TypeOK')
<1> DEFINE v == Head(lru)
           k == KeyOf[c]
<1>0. TypeOK /\ Indexed /\ NoSlotLost /\ lru \in Queues
  BY LruIsQueue DEF Inv
<1>1. /\ v \in Slots /\ v \in Range(lru) /\ lru' \in Queues
      /\ Range(lru') = Range(lru) \ {v}
  BY <1>0, TailProperties DEF Insert
<1>2. /\ Fresh(c) /\ k \in Keys /\ Hash[k] \in Buckets
      /\ lru' = Tail(lru)
      /\ values' = [values EXCEPT ![v] = c]
      /\ chain' = Relinked(v, c)
      /\ elementCount' = IF values[v] = NoChunk THEN elementCount + 1
                         ELSE elementCount
      /\ marks' = [marks EXCEPT ![c] = 1]
      /\ dirty' = [dirty EXCEPT ![c] = FALSE]
      /\ held' = [held EXCEPT ![c] = 1]
      /\ UNCHANGED <<dirtyList, saving, waiting>>
  BY SpaceAssumption DEF Insert, saves
<1> HIDE DEF v, k
<1>3. /\ \A m \in Slots : values'[m] = IF m = v THEN c ELSE values[m]
      /\ c # NoChunk /\ values \in [Slots -> Chunks \cup {NoChunk}]
  BY <1>0, <1>1, <1>2, SpaceAssumption DEF TypeOK
<1>4. \A m \in Slots : values[m] # c
  BY <1>0, <1>2, ResidentHasSlot DEF Fresh
<1>5. \A m \in Slots : values[m] # NoChunk => KeyOf[values[m]] # k
  BY <1>0, <1>2, FoundFacts DEF Indexed, k
<1>6. ChainsIndexValues'
  <2>1. \A m \in Slots, b \in Buckets :
          m \in chain[b] <=> values[m] # NoChunk /\ Hash[KeyOf[values[m]]] = b
    BY <1>0 DEF Indexed, ChainsIndexValues
  <2>2. ASSUME NEW m \in Slots, NEW b \in Buckets
        PROVE  m \in chain'[b] <=>
                 values'[m] # NoChunk /\ Hash[KeyOf[values'[m]]] = b
    <3>1. CASE m = v
      <4>1. v \in chain'[b] <=> b = Hash[k]
        BY <1>1, <1>2, <2>1 DEF Relinked, k
      <4>. QED  BY <3>1, <4>1, <1>3 DEF k
    <3>2. CASE m # v
      <4>1. m \in chain'[b] <=> m \in chain[b]
        BY <3>2, <1>2 DEF Relinked, k
      <4>. QED  BY <3>2, <4>1, <1>3, <2>1
    <3>. QED  BY <3>1, <3>2
  <2>. QED  BY <2>2 DEF ChainsIndexValues
<1>7. OneChunkPerKey'
  <2>1. ASSUME NEW m \in Slots, NEW n \in Slots, m # n,
               values'[m] # NoChunk, values'[n] # NoChunk
        PROVE  KeyOf[values'[m]] # KeyOf[values'[n]]
    <3>1. CASE m # v /\ n # v
      BY <2>1, <3>1, <1>0, <1>3 DEF Indexed, OneChunkPerKey
    <3>2. CASE m = v
      BY <2>1, <3>2, <1>3, <1>5 DEF k
    <3>3. CASE n = v
      BY <2>1, <3>3, <1>3, <1>5 DEF k
    <3>. QED  BY <3>1, <3>2, <3>3
  <2>. QED  BY <2>1 DEF OneChunkPerKey
<1>8. CountIsExact' /\ elementCount' \in Int
  <2> DEFINE U == {m \in Slots : values[m] # NoChunk}
             W == {m \in Slots : values'[m] # NoChunk}
  <2>1. W = U \cup {v} /\ U \subseteq Slots
    BY <1>1, <1>3
  <2>2. IsFiniteSet(Slots)
    BY FS_Interval, CapacityAssumption DEF Slots
  <2>3. IsFiniteSet(U)
    BY <2>1, <2>2, FS_Subset
  <2>4. Cardinality(W) = IF v \in U THEN Cardinality(U) ELSE Cardinality(U) + 1
    BY <2>1, <2>3, FS_AddElement
  <2>5. v \in U <=> values[v] # NoChunk
    BY <1>1
  <2>6. elementCount = Cardinality(U) /\ elementCount \in Int
    BY <1>0 DEF Indexed, CountIsExact, TypeOK
  <2> HIDE DEF U, W
  <2>7. elementCount' = Cardinality(W) /\ elementCount' \in Int
    BY <1>2, <2>4, <2>5, <2>6
  <2>. QED  BY <2>7 DEF CountIsExact, W
<1>9. NoSlotLost'
  <2>1. ASSUME NEW m \in Slots, m \notin Range(lru')
        PROVE  values'[m] # NoChunk /\ marks'[values'[m]] > 0
    <3>1. CASE m = v
      BY <3>1, <1>0, <1>2, <1>3 DEF TypeOK
    <3>2. CASE m # v
      <4>1. values[m] # NoChunk /\ marks[values[m]] > 0 /\ values[m] \in Chunks
        BY <2>1, <3>2, <1>0, <1>1 DEF NoSlotLost, TypeOK, Enqueued
      <4>2. marks'[values[m]] = marks[values[m]]
        BY <4>1, <1>0, <1>2, <1>4 DEF TypeOK
      <4>. QED  BY <3>2, <4>1, <4>2, <1>3
    <3>. QED  BY <3>1, <3>2
  <2>. QED  BY <2>1, <1>1 DEF NoSlotLost, Enqueued, Queues
<1>10. /\ values' \in [Slots -> Chunks \cup {NoChunk}]
       /\ marks' \in [Chunks -> Int] /\ dirty' \in [Chunks -> BOOLEAN]
       /\ held' \in [Chunks -> Nat] /\ lru' \in Seq(Slots)
  BY <1>0, <1>1, <1>2 DEF TypeOK, Queues
<1>11. chain' \in [Buckets -> SUBSET Slots]
  BY <1>0, <1>1, <1>2 DEF TypeOK, Relinked
<1>12. loading' \in [Keys -> Nat] => TypeOK'
  BY <1>0, <1>2, <1>8, <1>10, <1>11 DEF TypeOK
<1>. QED  BY <1>6, <1>7, <1>8, <1>9, <1>12 DEF Indexed

LEMMA PutKeepsInv ==
  ASSUME Inv, NEW k \in Keys, PutNew(k) \/ LoadInserts(k)
  PROVE  Inv'
<1>1. PICK c \in Chunks : KeyOf[c] = k /\ Found(k) = {} /\ Insert(c)
  BY DEF PutNew, LoadInserts
<1>2. loading' \in [Keys -> Nat]
  <2>1. loading \in [Keys -> Nat] /\ loading[k] \in Nat
    BY DEF Inv, TypeOK
  <2>2. \/ UNCHANGED loading
        \/ loading[k] > 0 /\ loading' = [loading EXCEPT ![k] = loading[k] - 1]
    BY Zenon DEF PutNew, LoadInserts, Answered
  <2>3. loading[k] > 0 => loading[k] - 1 \in Nat
    BY <2>1
  <2>. QED  BY <2>1, <2>2, <2>3
<1>. QED  BY <1>1, <1>2, InsertKeepsInv DEF Inv

LEMMA UseKeepsInv ==
  ASSUME Inv, NEW c \in Chunks, Uses(c)
  PROVE  Inv'
<1>0. TypeOK /\ Indexed /\ NoSlotLost /\ OneChunkPerKey /\ KeyOf[c] \in Keys
  BY SpaceAssumption DEF Inv, Indexed
<1>1. \A m \in Found(KeyOf[c]) :
        /\ m \in Slots /\ values[m] \in Chunks /\ KeyOf[values[m]] = KeyOf[c]
  BY <1>0, FoundFacts DEF Indexed
<1>2. CASE UnmarkChunk(c) \/ Unmark(c)
  <2>1. /\ UNCHANGED <<values, chain, elementCount, dirty, dirtyList, saving,
                       waiting, loading>>
        /\ held[c] > 0 /\ held' = [held EXCEPT ![c] = @ - 1]
    BY <1>2 DEF UnmarkChunk, Unmark, GiveBack, table, saves
  <2>2. Indexed'
    BY <1>0, <2>1, TableUnchanged DEF table
  <2>3. held' \in [Chunks -> Nat]
    BY <1>0, <2>1 DEF TypeOK
  <2>4. NoSlotLost' /\ lru' \in Seq(Slots) /\ marks' \in [Chunks -> Int]
    <3>1. CASE Found(KeyOf[c]) = {}
      <4>1. UNCHANGED lru
            /\ (UNCHANGED marks \/ marks' = [marks EXCEPT ![c] = @ - 1])
        BY <1>2, <3>1 DEF UnmarkChunk, Unmark
      <4>2. lru' \in Seq(Slots) /\ marks' \in [Chunks -> Int]
        BY <1>0, <4>1 DEF TypeOK
      <4>3. ASSUME NEW m \in Slots, m \notin Range(lru')
            PROVE  values'[m] # NoChunk /\ marks'[values'[m]] > 0
        <5>1. /\ values[m] # NoChunk /\ marks[values[m]] > 0
              /\ values[m] \in Chunks
          BY <4>1, <4>3, <1>0 DEF NoSlotLost, Enqueued, TypeOK
        <5>2. values[m] # c
          BY <1>0, <3>1, <5>1, FoundFacts DEF Indexed
        <5>3. marks'[values[m]] = marks[values[m]]
          BY <1>0, <4>1, <5>1, <5>2 DEF TypeOK
        <5>. QED  BY <2>1, <5>1, <5>3
      <4>. QED  BY <1>0, <4>1, <4>2, <4>3 DEF NoSlotLost, Enqueued
    <3>2. CASE Found(KeyOf[c]) # {}
      <4>1. PICK m \in Found(KeyOf[c]) :
              UnmarkAt(c, m) \/ UnmarkAt(values[m], m)
        BY <1>2, <3>2 DEF UnmarkChunk, Unmark
      <4>. QED  BY <4>1, <1>0, <1>1, <2>1, UnmarkLosesNoSlot
    <3>. QED  BY <3>1, <3>2
  <2>. QED  BY <1>0, <2>1, <2>2, <2>3, <2>4 DEF Inv, TypeOK
<1>3. CASE DeclareDirty(c)
  <2>1. PICK m \in Found(KeyOf[c]) :
          /\ dirty' = [dirty EXCEPT ![values[m]] = TRUE]
          /\ Mark(values[m])
          /\ \/ dirtyList' = Append(dirtyList, m) /\ UNCHANGED waiting
             \/ waiting' = m /\ UNCHANGED dirtyList
          /\ UNCHANGED <<values, chain, elementCount, lru, saving, held, loading>>
    BY <1>3 DEF DeclareDirty, table
  <2>2. Indexed'
    BY <1>0, <2>1, TableUnchanged DEF table
  <2>3. NoSlotLost' /\ marks' \in [Chunks -> Int]
    BY <1>0, <1>1, <2>1, MarkLosesNoSlot
  <2>4. dirty' \in [Chunks -> BOOLEAN] /\ waiting' \in Slots \cup {NoSlot}
        /\ dirtyList' \in Seq(Slots)
    <3>1. Append(dirtyList, m) \in Seq(Slots)
      BY <1>0, <1>1, AppendProperties DEF TypeOK
    <3>. QED  BY <1>0, <1>1, <2>1, <3>1 DEF TypeOK
  <2>. QED  BY <1>0, <2>1, <2>2, <2>3, <2>4 DEF Inv, TypeOK
<1>. QED  BY <1>2, <1>3 DEF Uses

LEMMA SaveKeepsInv ==
  ASSUME Inv, Saves
  PROVE  Inv'
<1>0. TypeOK /\ Indexed /\ NoSlotLost /\ OneChunkPerKey
  BY DEF Inv, Indexed
<1>1. /\ UNCHANGED <<values, chain, elementCount, held, loading>>
      /\ Indexed'
  <2>1. UNCHANGED <<values, chain, elementCount, held, loading>>
    BY DEF Saves, RetryDirty, DetachDirties, SaveChunk, SkipChunk, table
  <2>. QED  BY <1>0, <2>1, TableUnchanged DEF table
<1>2. CASE RetryDirty
  <2>1. dirtyList' \in Seq(Slots)
    BY <1>0, <1>2, AppendProperties DEF RetryDirty, TypeOK
  <2>2. waiting' = NoSlot /\ UNCHANGED <<lru, marks, dirty, saving>>
    BY <1>2 DEF RetryDirty
  <2>3. NoSlotLost'
    BY <1>0, <1>1, <2>2 DEF NoSlotLost, Enqueued
  <2>. QED  BY <1>0, <1>1, <2>1, <2>2, <2>3 DEF Inv, TypeOK
<1>3. CASE DetachDirties
  <2>1. saving' = dirtyList /\ dirtyList' = <<>>
        /\ UNCHANGED <<lru, marks, dirty, waiting>>
    BY <1>3 DEF DetachDirties
  <2>2. NoSlotLost'
    BY <1>0, <1>1, <2>1 DEF NoSlotLost, Enqueued
  <2>3. <<>> \in Seq(Slots)
    BY EmptySeq
  <2>. QED  BY <1>0, <1>1, <2>1, <2>2, <2>3 DEF Inv, TypeOK
<1>4. CASE SaveChunk
  <2> DEFINE m == Head(saving)
  <2>1. m \in Slots /\ Tail(saving) \in Seq(Slots)
    BY <1>0, <1>4, HeadTailProperties DEF SaveChunk, TypeOK
  <2>2. values[m] \in Chunks
    BY <1>0, <1>4, <2>1 DEF SaveChunk, NeedsSave, TypeOK
  <2>3. /\ UnmarkAt(values[m], m) /\ dirty' = [dirty EXCEPT ![values[m]] = FALSE]
        /\ saving' = Tail(saving) /\ UNCHANGED <<dirtyList, waiting>>
    BY <1>4 DEF SaveChunk
  <2>4. NoSlotLost' /\ lru' \in Seq(Slots) /\ marks' \in [Chunks -> Int]
    BY <1>0, <1>1, <2>1, <2>2, <2>3, UnmarkLosesNoSlot
  <2>5. dirty' \in [Chunks -> BOOLEAN]
    BY <1>0, <2>2, <2>3 DEF TypeOK
  <2>. QED  BY <1>0, <1>1, <2>1, <2>3, <2>4, <2>5 DEF Inv, TypeOK
<1>5. CASE SkipChunk
  <2>1. /\ saving' = Tail(saving) /\ saving # <<>>
        /\ UNCHANGED <<lru, marks, dirty, dirtyList, waiting>>
    BY <1>5 DEF SkipChunk
  <2>2. saving' \in Seq(Slots)
    BY <1>0, <2>1, HeadTailProperties DEF TypeOK
  <2>3. NoSlotLost'
    BY <1>0, <1>1, <2>1 DEF NoSlotLost, Enqueued
  <2>. QED  BY <1>0, <1>1, <2>1, <2>2, <2>3 DEF Inv, TypeOK
<1>. QED  BY <1>2, <1>3, <1>4, <1>5 DEF Saves

-----------------------------------------------------------------------------

LEMMA InitEstablishesInv ==
  ASSUME Init PROVE Inv
<1>1. FullQueue \in Queues /\ Range(FullQueue) = Slots
  BY FullQueueProperties
<1>2. <<>> \in Seq(Slots)
  BY EmptySeq
<1>3. TypeOK
  BY <1>1, <1>2 DEF Init, TypeOK, Queues
<1>4. ChainsIndexValues /\ OneChunkPerKey
  BY DEF Init, ChainsIndexValues, OneChunkPerKey
<1>5. CountIsExact
  <2>1. {m \in Slots : values[m] # NoChunk} = {}
    BY DEF Init
  <2>. QED  BY <2>1, FS_EmptySet DEF Init, CountIsExact
<1>6. NoSlotLost
  BY <1>1 DEF Init, NoSlotLost, Enqueued, Queues
<1>. QED  BY <1>3, <1>4, <1>5, <1>6 DEF Inv, Indexed

LEMMA NextKeepsInv ==
  ASSUME Inv, [Next]_vars PROVE Inv'
<1>1. CASE UNCHANGED vars
  BY <1>1 DEF vars, Inv, TypeOK, Indexed, ChainsIndexValues, OneChunkPerKey,
              CountIsExact, NoSlotLost, Enqueued
<1>2. CASE Next
  BY <1>2, GetKeepsInv, LoadKeepsInv, PutKeepsInv, UseKeepsInv, SaveKeepsInv
     DEF Next, Replies
<1>. QED  BY <1>1, <1>2

(* Whatever callers and storage do, HeapChunkSpace's fields keep their      *)
(* types: indexes stay inside the arrays and no counter goes negative.      *)
THEOREM StaysTyped == Spec => []TypeOK
<1>1. Inv => TypeOK
  BY DEF Inv
<1>. QED  BY <1>1, InitEstablishesInv, NextKeepsInv, PTL DEF Spec

(* The buckets of the hash table index exactly the occupied slots, however  *)
(* putAndMark unlinks its victims and links new chunks, and size() counts   *)
(* them, evictions included.                                                *)
THEOREM TableConsistent == Spec => []TableIsExact
<1>1. Inv => TableIsExact
  BY DEF Inv, Indexed, TableIsExact
<1>. QED  BY <1>1, InitEstablishesInv, NextKeepsInv, PTL DEF Spec

(* putAndMark never leaves two chunks of one key in the space, although     *)
(* asynchronous loads and puts of the key may pass each other.              *)
THEOREM KeysStayUnique == Spec => []OneChunkPerKey
<1>1. Inv => OneChunkPerKey
  BY DEF Inv, Indexed
<1>. QED  BY <1>1, InitEstablishesInv, NextKeepsInv, PTL DEF Spec

(* Every slot is recyclable once, or taken by a chunk that is marked.       *)
THEOREM SlotsNeverLost == Spec => []NoSlotLost
<1>1. Inv => NoSlotLost
  BY DEF Inv
<1>. QED  BY <1>1, InitEstablishesInv, NextKeepsInv, PTL DEF Spec

-----------------------------------------------------------------------------
(* Careful use. The promises on marks hold because a load is only in       *)
(* flight for a key that is not in the space: else its answer would hand   *)
(* out a chunk without marking it (LoadFindsOther).                        *)

LoadsAreMisses ==
  \A k \in Keys : loading[k] <= 1 /\ (loading[k] = 1 => Found(k) = {})

MarksExact == MarksAreReferences /\ OnlyUnmarkedRecyclable

CInv == Inv /\ MarksExact /\ DirtyIsEnlisted /\ LoadsAreMisses

(* What CInv says of a chunk in the space and of one a caller holds. *)
LEMMA CarefulFacts ==
  ASSUME CInv
  PROVE  /\ \A m \in Slots : values[m] # NoChunk =>
              /\ values[m] \in Chunks /\ held[values[m]] \in Nat
              /\ marks[values[m]] \in Nat
              /\ marks[values[m]] = held[values[m]] + Bit(dirty[values[m]])
         /\ \A c \in Chunks : held[c] > 0 =>
              \E m \in Slots : m \in Found(KeyOf[c]) /\ values[m] = c
         /\ \A c \in Chunks : held[c] > 0 =>
              \A m \in Found(KeyOf[c]) : m \in Slots /\ values[m] = c
<1>0. /\ TypeOK /\ MarksAreReferences /\ ChainsIndexValues /\ OneChunkPerKey
      /\ \A c \in Chunks : KeyOf[c] \in Keys /\ c # NoChunk
  BY SpaceAssumption DEF CInv, Inv, Indexed, MarksExact
<1>1. ASSUME NEW m \in Slots, values[m] # NoChunk
      PROVE  /\ values[m] \in Chunks /\ held[values[m]] \in Nat
             /\ marks[values[m]] \in Nat
             /\ marks[values[m]] = held[values[m]] + Bit(dirty[values[m]])
  <2>1. values[m] \in Chunks /\ Resident(values[m])
    BY <1>0, <1>1, ResidentHasSlot DEF TypeOK
  <2>2. /\ held[values[m]] \in Nat
        /\ marks[values[m]] = held[values[m]] + Bit(dirty[values[m]])
    BY <1>0, <2>1 DEF MarksAreReferences, TypeOK
  <2>. QED  BY <2>1, <2>2 DEF Bit
<1>2. ASSUME NEW c \in Chunks, held[c] > 0
      PROVE  \E m \in Slots : m \in Found(KeyOf[c]) /\ values[m] = c
  <2>1. PICK m \in Slots : values[m] = c
    BY <1>0, <1>2, ResidentHasSlot DEF MarksAreReferences
  <2>2. m \in Found(KeyOf[c])
    BY <1>0, <2>1, FoundFacts
  <2>. QED  BY <2>1, <2>2
<1>3. ASSUME NEW c \in Chunks, held[c] > 0, NEW m \in Found(KeyOf[c])
      PROVE  m \in Slots /\ values[m] = c
  BY <1>0, <1>2, <1>3, FoundFacts
<1>. QED  BY <1>1, <1>2, <1>3

(* A chunk gets a mark, for a caller or for the save; its slot is not, or   *)
(* no longer, in the queue.                                                 *)
LEMMA MarkKeepsExact ==
  ASSUME CInv, NEW m \in Slots, values[m] # NoChunk, Mark(values[m]),
         UNCHANGED values, Range(lru') = Range(lru) \ {m},
         \/ Hand(values[m]) /\ UNCHANGED dirty
         \/ /\ ~dirty[values[m]] /\ UNCHANGED held
            /\ dirty' = [dirty EXCEPT ![values[m]] = TRUE]
  PROVE  MarksExact'
<1> DEFINE c == values[m]
<1>0. TypeOK /\ MarksAreReferences /\ OnlyUnmarkedRecyclable
      /\ OneChunkPerKey /\ KeyOf[c] \in Keys
  BY CarefulFacts, SpaceAssumption DEF CInv, Inv, Indexed, MarksExact
<1>1. /\ c \in Chunks /\ held[c] \in Nat /\ marks[c] \in Nat
      /\ marks[c] = held[c] + Bit(dirty[c]) /\ dirty[c] \in BOOLEAN
  BY <1>0, CarefulFacts DEF TypeOK
<1>2. \A d \in Chunks : d # c =>
        marks'[d] = marks[d] /\ held'[d] = held[d] /\ dirty'[d] = dirty[d]
  BY <1>0 DEF Mark, Hand, TypeOK
<1>3. /\ marks'[c] = marks[c] + 1
      /\ marks'[c] = held'[c] + Bit(dirty'[c])
  <2>1. marks'[c] = marks[c] + 1
    BY <1>0, <1>1 DEF Mark, TypeOK
  <2>2. CASE Hand(c) /\ UNCHANGED dirty
    <3>1. held'[c] = held[c] + 1
      BY <2>2, <1>0, <1>1 DEF Hand, TypeOK
    <3>. QED  BY <2>1, <2>2, <3>1, <1>1 DEF Bit
  <2>3. CASE /\ ~dirty[c] /\ UNCHANGED held
             /\ dirty' = [dirty EXCEPT ![c] = TRUE]
    <3>1. dirty'[c] = TRUE /\ held'[c] = held[c]
      BY <2>3, <1>0, <1>1 DEF TypeOK
    <3>. QED  BY <2>1, <2>3, <3>1, <1>1 DEF Bit
  <2>. QED  BY <2>1, <2>2, <2>3
<1>4. \A d : Resident(d)' <=> Resident(d)
  BY DEF Resident, Range
<1>5. Resident(c)
  BY <1>0, <1>1, ResidentHasSlot
<1> HIDE DEF c
<1>6. MarksAreReferences'
  <2>1. ASSUME NEW d \in Chunks
        PROVE  /\ Resident(d) => marks'[d] = held'[d] + Bit(dirty'[d])
               /\ held'[d] > 0 => Resident(d)
    <3>1. CASE d = c
      BY <3>1, <1>3, <1>5
    <3>2. CASE d # c
      <4>1. /\ Resident(d) => marks[d] = held[d] + Bit(dirty[d])
            /\ held[d] > 0 => Resident(d)
        BY <1>0 DEF MarksAreReferences
      <4>. QED  BY <3>2, <4>1, <1>2
    <3>. QED  BY <3>1, <3>2
  <2>. QED  BY <2>1, <1>4 DEF MarksAreReferences, Bit
<1>7. OnlyUnmarkedRecyclable'
  <2>1. ASSUME NEW n \in Slots
        PROVE  n \in Range(lru') <=> (values[n] = NoChunk \/ marks'[values[n]] = 0)
    <3>1. n \in Range(lru) <=> (values[n] = NoChunk \/ marks[values[n]] = 0)
      BY <1>0 DEF OnlyUnmarkedRecyclable, Enqueued
    <3>2. CASE n = m
      BY <3>2, <1>1, <1>3 DEF c
    <3>3. CASE n # m
      <4>1. values[n] # NoChunk => values[n] # c /\ values[n] \in Chunks
        BY <3>3, <1>0 DEF OneChunkPerKey, TypeOK, c
      <4>. QED  BY <3>1, <3>3, <4>1, <1>2
    <3>. QED  BY <3>2, <3>3
  <2>. QED  BY <2>1 DEF OnlyUnmarkedRecyclable, Enqueued
<1>. QED  BY <1>6, <1>7 DEF MarksExact

(* A chunk loses a mark, of a caller or of the save. *)
LEMMA UnmarkKeepsExact ==
  ASSUME CInv, NEW m \in Slots, values[m] # NoChunk, UnmarkAt(values[m], m),
         UNCHANGED values,
         \/ /\ held[values[m]] > 0 /\ UNCHANGED dirty
            /\ held' = [held EXCEPT ![values[m]] = @ - 1]
         \/ /\ dirty[values[m]] /\ UNCHANGED held
            /\ dirty' = [dirty EXCEPT ![values[m]] = FALSE]
  PROVE  MarksExact'
<1> DEFINE c == values[m]
<1>0. TypeOK /\ MarksAreReferences /\ OnlyUnmarkedRecyclable
      /\ OneChunkPerKey /\ KeyOf[c] \in Keys /\ lru \in Queues
  BY CarefulFacts, SpaceAssumption, LruIsQueue
     DEF CInv, Inv, Indexed, MarksExact
<1>1. /\ c \in Chunks /\ held[c] \in Nat /\ marks[c] \in Nat
      /\ marks[c] = held[c] + Bit(dirty[c]) /\ dirty[c] \in BOOLEAN
  BY <1>0, CarefulFacts DEF TypeOK
<1>2. \A d \in Chunks : d # c =>
        marks'[d] = marks[d] /\ held'[d] = held[d] /\ dirty'[d] = dirty[d]
  BY <1>0 DEF UnmarkAt, TypeOK
<1>3. /\ marks'[c] = marks[c] - 1 /\ marks[c] > 0
      /\ marks'[c] = held'[c] + Bit(dirty'[c])
  <2>1. marks'[c] = marks[c] - 1
    BY <1>0, <1>1 DEF UnmarkAt, TypeOK
  <2>2. CASE /\ held[c] > 0 /\ UNCHANGED dirty
             /\ held' = [held EXCEPT ![c] = @ - 1]
    <3>1. held'[c] = held[c] - 1
      BY <2>2, <1>0, <1>1 DEF TypeOK
    <3>. QED  BY <2>1, <2>2, <3>1, <1>1 DEF Bit
  <2>3. CASE /\ dirty[c] /\ UNCHANGED held
             /\ dirty' = [dirty EXCEPT ![c] = FALSE]
    <3>1. dirty'[c] = FALSE /\ held'[c] = held[c]
      BY <2>3, <1>0, <1>1 DEF TypeOK
    <3>. QED  BY <2>1, <2>3, <3>1, <1>1 DEF Bit
  <2>. QED  BY <2>1, <2>2, <2>3
<1>4. \A d : Resident(d)' <=> Resident(d)
  BY DEF Resident, Range
<1>5. Resident(c)
  BY <1>0, <1>1, ResidentHasSlot
<1>6. Range(lru') = IF marks[c] = 1 THEN Range(lru) \cup {m} ELSE Range(lru)
  BY <1>0, ReleasedProperties DEF UnmarkAt
<1> HIDE DEF c
<1>7. MarksAreReferences'
  <2>1. ASSUME NEW d \in Chunks
        PROVE  /\ Resident(d) => marks'[d] = held'[d] + Bit(dirty'[d])
               /\ held'[d] > 0 => Resident(d)
    <3>1. CASE d = c
      BY <3>1, <1>3, <1>5
    <3>2. CASE d # c
      <4>1. /\ Resident(d) => marks[d] = held[d] + Bit(dirty[d])
            /\ held[d] > 0 => Resident(d)
        BY <1>0 DEF MarksAreReferences
      <4>. QED  BY <3>2, <4>1, <1>2
    <3>. QED  BY <3>1, <3>2
  <2>. QED  BY <2>1, <1>4 DEF MarksAreReferences, Bit
<1>8. OnlyUnmarkedRecyclable'
  <2>1. ASSUME NEW n \in Slots
        PROVE  n \in Range(lru') <=> (values[n] = NoChunk \/ marks'[values[n]] = 0)
    <3>1. n \in Range(lru) <=> (values[n] = NoChunk \/ marks[values[n]] = 0)
      BY <1>0 DEF OnlyUnmarkedRecyclable, Enqueued
    <3>2. CASE n = m
      <4>1. m \notin Range(lru) /\ values[m] = c /\ c # NoChunk
        BY <3>1, <3>2, <1>1, <1>3 DEF c
      <4>2. marks'[c] = 0 <=> marks[c] = 1
        BY <1>1, <1>3
      <4>. QED  BY <3>2, <4>1, <4>2, <1>6
    <3>3. CASE n # m
      <4>1. values[n] # NoChunk => values[n] # c /\ values[n] \in Chunks
        BY <3>3, <1>0 DEF OneChunkPerKey, TypeOK, c
      <4>. QED  BY <3>1, <3>3, <4>1, <1>2, <1>6
    <3>. QED  BY <3>2, <3>3
  <2>. QED  BY <2>1 DEF OnlyUnmarkedRecyclable, Enqueued
<1>. QED  BY <1>7, <1>8 DEF MarksExact

(* The conjuncts that do not see marks, when what they see stays. *)
LEMMA SavesUnchanged ==
  ASSUME DirtyIsEnlisted, UNCHANGED <<values, dirty, dirtyList, saving, waiting>>
  PROVE  DirtyIsEnlisted'
BY DEF DirtyIsEnlisted, NeedsSave, Pending, Range, IsInjective

LEMMA LoadsUnchanged ==
  ASSUME LoadsAreMisses, UNCHANGED <<values, chain, loading>>
  PROVE  LoadsAreMisses'
BY DEF LoadsAreMisses, Found

LEMMA HitKeepsCInv ==
  ASSUME CInv, NEW k \in Keys, Hits(k), Inv'
  PROVE  CInv'
<1>0. /\ TypeOK /\ ChainsIndexValues /\ OneChunkPerKey /\ lru \in Queues
      /\ OnlyUnmarkedRecyclable /\ DirtyIsEnlisted /\ LoadsAreMisses
  BY LruIsQueue DEF CInv, Inv, Indexed, MarksExact
<1>1. PICK m \in Found(k) :
        /\ Mark(values[m]) /\ Hand(values[m])
        /\ UNCHANGED <<values, chain, dirty, dirtyList, saving, waiting, loading>>
        /\ \/ marks[values[m]] # 0 /\ UNCHANGED lru
           \/ m \in Range(lru) /\ lru' = Without(lru, m)
  BY DEF Hits, GetShared, GetRecycled, table, saves, Removable, Enqueued
<1>2. m \in Slots /\ values[m] # NoChunk
  BY <1>0, FoundFacts
<1>3. Range(lru') = Range(lru) \ {m}
  <2>1. CASE marks[values[m]] # 0 /\ UNCHANGED lru
    <3>1. m \notin Range(lru)
      BY <2>1, <1>0, <1>2 DEF OnlyUnmarkedRecyclable, Enqueued
    <3>. QED  BY <2>1, <3>1
  <2>2. CASE m \in Range(lru) /\ lru' = Without(lru, m)
    BY <2>2, <1>0, WithoutProperties
  <2>. QED  BY <1>1, <2>1, <2>2
<1>4. MarksExact'
  BY <1>1, <1>2, <1>3, MarkKeepsExact
<1>. QED  BY <1>0, <1>1, <1>4, SavesUnchanged, LoadsUnchanged DEF CInv

LEMMA LoadKeepsCInv ==
  ASSUME CInv, NEW k \in Keys, Inv',
         (loading[k] = 0 /\ LoadAbsent(k)) \/ LoadNothing(k) \/ LoadFindsOther(k)
  PROVE  CInv'
<1>0. /\ TypeOK /\ MarksExact /\ DirtyIsEnlisted /\ LoadsAreMisses
      /\ loading \in [Keys -> Nat]
  BY DEF CInv, Inv, TypeOK
<1>1. ~LoadFindsOther(k)
  <2>1. loading[k] > 0 => loading[k] = 1
    BY <1>0 DEF LoadsAreMisses
  <2>. QED  BY <2>1, <1>0 DEF LoadFindsOther, Answered, LoadsAreMisses
<1>2. /\ UNCHANGED <<values, chain, lru, marks, dirty, dirtyList, saving,
                     waiting, held>>
      /\ \/ loading[k] = 0 /\ Found(k) = {}
            /\ loading' = [loading EXCEPT ![k] = loading[k] + 1]
         \/ loading[k] > 0 /\ loading' = [loading EXCEPT ![k] = loading[k] - 1]
  BY <1>1 DEF LoadAbsent, LoadNothing, Request, Answered, table, saves
<1>3. MarksExact'
  BY <1>0, <1>2 DEF MarksExact, MarksAreReferences, OnlyUnmarkedRecyclable,
                    Resident, Range, Bit, Enqueued
<1>4. LoadsAreMisses'
  <2>1. ASSUME NEW j \in Keys
        PROVE  loading'[j] <= 1 /\ (loading'[j] = 1 => Found(j) = {})
    <3>1. loading[j] \in Nat /\ loading[j] <= 1 /\ (loading[j] = 1 => Found(j) = {})
      BY <1>0 DEF LoadsAreMisses
    <3>2. CASE j = k
      <4>1. CASE loading[k] = 0
        BY <4>1, <3>2, <1>0, <1>2
      <4>2. CASE loading[k] > 0
        BY <4>2, <3>1, <3>2, <1>0, <1>2
      <4>. QED  BY <4>1, <4>2, <3>1, <3>2
    <3>3. CASE j # k
      BY <3>1, <3>3, <1>0, <1>2
    <3>. QED  BY <3>2, <3>3
  <2>. QED  BY <2>1, <1>2 DEF LoadsAreMisses, Found
<1>. QED  BY <1>0, <1>2, <1>3, <1>4, SavesUnchanged DEF CInv

LEMMA PutKeepsCInv ==
  ASSUME CInv, NEW k \in Keys, Inv',
         (loading[k] = 0 /\ PutNew(k)) \/ LoadInserts(k)
  PROVE  CInv'
<1> DEFINE v == Head(lru)
<1>0. /\ TypeOK /\ ChainsIndexValues /\ OneChunkPerKey /\ lru \in Queues
      /\ MarksAreReferences /\ OnlyUnmarkedRecyclable /\ DirtyIsEnlisted
      /\ LoadsAreMisses /\ loading \in [Keys -> Nat]
  BY LruIsQueue DEF CInv, Inv, Indexed, MarksExact, TypeOK
<1>1. PICK c \in Chunks : KeyOf[c] = k /\ Found(k) = {} /\ Insert(c)
  BY DEF PutNew, LoadInserts
<1>2. /\ v \in Slots /\ v \in Range(lru) /\ Range(lru') = Range(lru) \ {v}
  BY <1>0, <1>1, TailProperties DEF Insert
<1>3. /\ ~Resident(c) /\ held[c] = 0
      /\ values' = [values EXCEPT ![v] = c]
      /\ marks' = [marks EXCEPT ![c] = 1]
      /\ dirty' = [dirty EXCEPT ![c] = FALSE]
      /\ held' = [held EXCEPT ![c] = 1]
      /\ UNCHANGED <<dirtyList, saving, waiting>>
  BY <1>1 DEF Insert, Fresh, saves
<1> HIDE DEF v
<1>4. /\ \A m \in Slots : values'[m] = IF m = v THEN c ELSE values[m]
      /\ \A m \in Slots : values[m] # c
      /\ c # NoChunk
  BY <1>0, <1>2, <1>3, ResidentHasSlot, SpaceAssumption DEF TypeOK
<1>5. \A d \in Chunks : /\ marks'[d] = IF d = c THEN 1 ELSE marks[d]
                        /\ dirty'[d] = IF d = c THEN FALSE ELSE dirty[d]
                        /\ held'[d] = IF d = c THEN 1 ELSE held[d]
  BY <1>0, <1>3 DEF TypeOK
<1>a. values'[v] = c /\ marks'[c] = 1 /\ held'[c] = 1 /\ dirty'[c] = FALSE
  BY <1>0, <1>2, <1>3 DEF TypeOK
<1>b. \A d \in Chunks : d # c =>
        marks'[d] = marks[d] /\ dirty'[d] = dirty[d] /\ held'[d] = held[d]
  BY <1>5
<1>c. \A m \in Slots : m # v => values'[m] = values[m]
  BY <1>4
<1>6. values[v] = NoChunk \/
        (/\ values[v] \in Chunks /\ marks[values[v]] = 0
         /\ held[values[v]] = 0 /\ ~dirty[values[v]])
  <2>1. values[v] = NoChunk \/ marks[values[v]] = 0
    BY <1>0, <1>2 DEF OnlyUnmarkedRecyclable, Enqueued
  <2>2. CASE values[v] # NoChunk
    <3>1. /\ values[v] \in Chunks /\ held[values[v]] \in Nat
          /\ 0 = held[values[v]] + Bit(dirty[values[v]])
      BY <2>1, <2>2, <1>2, CarefulFacts
    <3>2. Bit(dirty[values[v]]) \in 0 .. 1
      BY DEF Bit
    <3>3. held[values[v]] = 0 /\ Bit(dirty[values[v]]) = 0
      BY <3>1, <3>2
    <3>. QED  BY <2>1, <2>2, <3>1, <3>3 DEF Bit
  <2>. QED  BY <2>2
<1>7. TypeOK' /\ OneChunkPerKey'
  BY DEF Inv, Indexed
<1>8. MarksAreReferences'
  <2>1. ASSUME NEW d \in Chunks
        PROVE  /\ Resident(d)' => marks'[d] = held'[d] + Bit(dirty'[d])
               /\ held'[d] > 0 => Resident(d)'
    <3>1. Resident(d)' <=> \E m \in Slots : values'[m] = d
      BY <1>7 DEF TypeOK, Resident, Range
    <3>2. Resident(d) <=> \E m \in Slots : values[m] = d
      BY <1>0, ResidentHasSlot
    <3>3. CASE d = c
      BY <3>1, <3>3, <1>2, <1>a DEF Bit
    <3>4. CASE d # c
      <4>1. Resident(d)' => Resident(d)
        BY <3>1, <3>2, <3>4, <1>4
      <4>2. held[d] > 0 => Resident(d)'
        <5>1. held[d] > 0 => \E m \in Slots : values[m] = d
          BY <1>0, <3>2 DEF MarksAreReferences
        <5>2. held[d] > 0 => values[v] # d
          BY <1>4, <1>6, SpaceAssumption
        <5>. QED  BY <5>1, <5>2, <3>1, <1>4
      <4>. QED  BY <4>1, <4>2, <3>4, <1>0, <1>5 DEF MarksAreReferences
    <3>. QED  BY <3>3, <3>4
  <2>. QED  BY <2>1 DEF MarksAreReferences, Bit
<1>9. OnlyUnmarkedRecyclable'
  <2>1. ASSUME NEW n \in Slots
        PROVE  n \in Range(lru') <=> (values'[n] = NoChunk \/ marks'[values'[n]] = 0)
    <3>1. n \in Range(lru) <=> (values[n] = NoChunk \/ marks[values[n]] = 0)
      BY <1>0 DEF OnlyUnmarkedRecyclable, Enqueued
    <3>2. CASE n = v
      BY <3>2, <1>2, <1>4, <1>a
    <3>3. CASE n # v
      <4>1. values[n] # NoChunk => values[n] \in Chunks /\ values[n] # c
        BY <1>0, <1>4 DEF TypeOK
      <4>2. values'[n] = values[n]
            /\ (values[n] # NoChunk => marks'[values[n]] = marks[values[n]])
        BY <3>3, <4>1, <1>b, <1>c
      <4>. QED  BY <3>1, <3>3, <4>2, <1>2
    <3>. QED  BY <3>2, <3>3
  <2>. QED  BY <2>1 DEF OnlyUnmarkedRecyclable, Enqueued
<1>10. DirtyIsEnlisted'
  <2>1. ASSUME NEW m \in Slots PROVE NeedsSave(m)' <=> NeedsSave(m)
    <3>1. CASE m = v
      <4>1. ~NeedsSave(m)
        BY <3>1, <1>6 DEF NeedsSave
      <4>2. ~NeedsSave(m)'
        BY <3>1, <1>4, <1>5 DEF NeedsSave
      <4>. QED  BY <4>1, <4>2
    <3>2. CASE m # v
      <4>1. values[m] # NoChunk => values[m] \in Chunks
        BY <1>0 DEF TypeOK
      <4>. QED  BY <3>2, <4>1, <1>4, <1>5 DEF NeedsSave
    <3>. QED  BY <3>1, <3>2
  <2>2. UNCHANGED Pending
    BY <1>3 DEF Pending, Range
  <2>. QED  BY <2>1, <2>2, <1>0, <1>3 DEF DirtyIsEnlisted, Range, IsInjective
<1>11. LoadsAreMisses'
  <2>1. ASSUME NEW j \in Keys
        PROVE  loading'[j] <= 1 /\ (loading'[j] = 1 => Found(j)' = {})
    <3>1. loading[j] \in Nat /\ loading[j] <= 1 /\ (loading[j] = 1 => Found(j) = {})
      BY <1>0 DEF LoadsAreMisses
    <3>2. CASE j = k
      <4>1. \/ loading[k] = 0 /\ UNCHANGED loading
            \/ /\ loading[k] > 0
               /\ loading' = [loading EXCEPT ![k] = loading[k] - 1]
        BY Zenon DEF PutNew, LoadInserts, Answered
      <4>2. loading'[k] = 0
        <5>1. CASE loading[k] = 0 /\ UNCHANGED loading
          BY <5>1
        <5>2. CASE /\ loading[k] > 0
                   /\ loading' = [loading EXCEPT ![k] = loading[k] - 1]
          BY <5>2, <3>1, <3>2, <1>0
        <5>. QED  BY <4>1, <5>1, <5>2
      <4>. QED  BY <3>2, <4>2
    <3>3. CASE j # k
      <4>1. loading'[j] = loading[j]
        BY <3>3, <1>0 DEF PutNew, LoadInserts, Answered
      <4>2. ASSUME Found(j) = {} PROVE Found(j)' = {}
        <5>1. \A m \in Slots : values[m] # NoChunk => KeyOf[values[m]] # j
          BY <4>2, <1>0, FoundFacts
        <5>2. \A m \in Slots : values'[m] # NoChunk => KeyOf[values'[m]] # j
          BY <5>1, <3>3, <1>1, <1>4
        <5>3. \A b \in Buckets : chain'[b] \subseteq Slots
          BY <1>7 DEF TypeOK
        <5>. QED  BY <5>2, <5>3, SpaceAssumption DEF Found
      <4>. QED  BY <3>1, <4>1, <4>2
    <3>. QED  BY <3>2, <3>3
  <2>. QED  BY <2>1 DEF LoadsAreMisses
<1>. QED  BY <1>8, <1>9, <1>10, <1>11 DEF CInv, MarksExact

LEMMA UseKeepsCInv ==
  ASSUME CInv, NEW c \in Chunks, Uses(c), Inv'
  PROVE  CInv'
<1>0. TypeOK /\ DirtyIsEnlisted /\ LoadsAreMisses /\ lru \in Queues
      /\ OnlyUnmarkedRecyclable
  BY LruIsQueue DEF CInv, Inv, MarksExact
<1>1. held[c] > 0
  BY DEF Uses, UnmarkChunk, Unmark, DeclareDirty, GiveBack
<1>2. /\ Found(KeyOf[c]) # {}
      /\ \A m \in Found(KeyOf[c]) : m \in Slots /\ values[m] = c
  BY <1>1, CarefulFacts
<1>3. c # NoChunk
  BY SpaceAssumption
<1>4. CASE UnmarkChunk(c) \/ Unmark(c)
  <2>1. PICK m \in Found(KeyOf[c]) : UnmarkAt(values[m], m)
    BY <1>2, <1>4 DEF UnmarkChunk, Unmark
  <2>2. /\ UNCHANGED <<values, chain, dirty, dirtyList, saving, waiting, loading>>
        /\ held' = [held EXCEPT ![values[m]] = @ - 1]
    BY <1>2, <1>4 DEF UnmarkChunk, Unmark, GiveBack, table, saves
  <2>3. MarksExact'
    BY <1>1, <1>2, <1>3, <2>1, <2>2, UnmarkKeepsExact
  <2>. QED  BY <2>2, <2>3, <1>0, SavesUnchanged, LoadsUnchanged DEF CInv
<1>5. CASE DeclareDirty(c)
  <2>1. PICK m \in Found(KeyOf[c]) :
          /\ waiting = NoSlot /\ ~dirty[values[m]]
          /\ dirty' = [dirty EXCEPT ![values[m]] = TRUE]
          /\ Mark(values[m])
          /\ \/ dirtyList' = Append(dirtyList, m) /\ UNCHANGED waiting
             \/ waiting' = m /\ UNCHANGED dirtyList
          /\ UNCHANGED <<values, chain, lru, saving, held, loading>>
    BY <1>5 DEF DeclareDirty, table
  <2>2. m \in Slots /\ values[m] = c
    BY <1>2
  <2>3. Range(lru') = Range(lru) \ {m}
    <3>1. marks[c] # 0
      <4>1. marks[c] = held[c] + Bit(dirty[c]) /\ held[c] \in Nat
        BY <2>2, <1>3, CarefulFacts
      <4>. QED  BY <4>1, <1>1 DEF Bit
    <3>2. m \notin Range(lru)
      BY <3>1, <2>2, <1>0, <1>3 DEF OnlyUnmarkedRecyclable, Enqueued
    <3>. QED  BY <3>2, <2>1
  <2>4. MarksExact'
    BY <2>1, <2>2, <2>3, <1>3, MarkKeepsExact
  <2>5. dirtyList \in Queues /\ m \notin Pending /\ m # NoSlot
        /\ m \notin Range(dirtyList) /\ m \notin Range(saving)
    <3>1. m \notin Pending
      BY <2>1, <2>2, <1>0 DEF DirtyIsEnlisted, NeedsSave
    <3>2. m # NoSlot
      BY <2>2 DEF Slots, NoSlot
    <3>. QED  BY <3>1, <3>2, <1>0 DEF TypeOK, DirtyIsEnlisted, Queues, Pending
  <2>6. /\ dirtyList' \in Queues
        /\ Range(dirtyList') \cup ({waiting'} \ {NoSlot}) =
             Range(dirtyList) \cup {m}
        /\ m \notin Range(dirtyList') \/ waiting' = NoSlot
        /\ waiting' = NoSlot \/ waiting' = m
    <3>1. CASE dirtyList' = Append(dirtyList, m) /\ UNCHANGED waiting
      <4>1. Append(dirtyList, m) \in Queues
            /\ Range(Append(dirtyList, m)) = Range(dirtyList) \cup {m}
        BY <2>2, <2>5, AppendQueue
      <4>. QED  BY <3>1, <4>1, <2>1
    <3>2. CASE waiting' = m /\ UNCHANGED dirtyList
      BY <3>2, <2>5
    <3>. QED  BY <3>1, <3>2, <2>1
  <2>7. DirtyIsEnlisted'
    <3>1. IsInjective(dirtyList')
      BY <2>6 DEF Queues
    <3>2. IsInjective(saving) /\ UNCHANGED saving
      BY <2>1, <1>0 DEF DirtyIsEnlisted
    <3>3. Range(dirtyList') \cap Range(saving) = {}
      BY <2>5, <2>6, <1>0 DEF DirtyIsEnlisted
    <3>4. waiting' \notin Range(dirtyList') \cup Range(saving)
      <4>1. NoSlot \notin Range(dirtyList') \cup Range(saving)
        BY <2>6, <1>0, QueuedAreSlots DEF TypeOK, Queues
      <4>. QED  BY <4>1, <2>5, <2>6
    <3>5. ASSUME NEW n \in Slots
          PROVE  NeedsSave(n)' <=> n \in Range(dirtyList') \cup Range(saving)
                                         \cup ({waiting'} \ {NoSlot})
      <4>1. NeedsSave(n) <=> n \in Pending
        BY <1>0 DEF DirtyIsEnlisted
      <4>2. NeedsSave(n)' <=> NeedsSave(n) \/ n = m
        <5>1. CASE n = m
          BY <5>1, <2>1, <2>2, <1>0, <1>3 DEF NeedsSave, TypeOK
        <5>2. CASE n # m
          <6>1. values[n] # NoChunk => values[n] # c /\ values[n] \in Chunks
            BY <5>2, <2>2, <1>0 DEF CInv, Inv, Indexed, OneChunkPerKey, TypeOK
          <6>. QED  BY <5>2, <6>1, <2>1, <2>2, <1>0 DEF NeedsSave, TypeOK
        <5>. QED  BY <5>1, <5>2
      <4>3. Pending = Range(dirtyList) \cup Range(saving)
        BY <2>1 DEF Pending
      <4>. QED  BY <4>1, <4>2, <4>3, <2>6
    <3>. QED  BY <3>1, <3>2, <3>3, <3>4, <3>5 DEF DirtyIsEnlisted, Pending
  <2>. QED  BY <2>1, <2>4, <2>7, <1>0, LoadsUnchanged DEF CInv
<1>. QED  BY <1>4, <1>5 DEF Uses

LEMMA SaveKeepsCInv ==
  ASSUME CInv, Saves, Inv'
  PROVE  CInv'
<1>0. /\ TypeOK /\ DirtyIsEnlisted /\ LoadsAreMisses /\ MarksExact
      /\ OneChunkPerKey /\ dirtyList \in Queues /\ saving \in Queues
  BY DEF CInv, Inv, Indexed, DirtyIsEnlisted, TypeOK, Queues
<1>1. UNCHANGED <<values, chain, held, loading>> /\ LoadsAreMisses'
  <2>1. UNCHANGED <<values, chain, held, loading>>
    BY DEF Saves, RetryDirty, DetachDirties, SaveChunk, SkipChunk, table
  <2>. QED  BY <2>1, <1>0, LoadsUnchanged
<1>2. ASSUME UNCHANGED <<lru, marks, dirty>> PROVE MarksExact'
  BY <1>0, <1>1, <1>2 DEF MarksExact, MarksAreReferences,
     OnlyUnmarkedRecyclable, Resident, Range, Bit, Enqueued
<1>3. ASSUME UNCHANGED dirty PROVE \A n \in Slots : NeedsSave(n)' <=> NeedsSave(n)
  BY <1>1, <1>3 DEF NeedsSave
<1>4. CASE RetryDirty
  <2>1. /\ waiting # NoSlot /\ waiting \in Slots /\ waiting \notin Range(dirtyList)
        /\ waiting \notin Range(saving)
        /\ dirtyList' = Append(dirtyList, waiting) /\ waiting' = NoSlot
        /\ UNCHANGED <<lru, marks, dirty, saving>>
    BY <1>0, <1>4 DEF RetryDirty, TypeOK, DirtyIsEnlisted
  <2>2. dirtyList' \in Queues /\ Range(dirtyList') = Range(dirtyList) \cup {waiting}
    BY <2>1, <1>0, AppendQueue
  <2>3. NoSlot \notin Range(dirtyList') \cup Range(saving)
    BY <2>2, <1>0, QueuedAreSlots DEF Queues
  <2>4. Pending' = Pending
    BY <2>1, <2>2 DEF Pending
  <2>5. DirtyIsEnlisted'
    BY <2>1, <2>2, <2>3, <2>4, <1>0, <1>3 DEF DirtyIsEnlisted, Queues
  <2>. QED  BY <2>1, <2>5, <1>1, <1>2 DEF CInv
<1>5. CASE DetachDirties
  <2>1. /\ saving = <<>> /\ saving' = dirtyList /\ dirtyList' = <<>>
        /\ UNCHANGED <<lru, marks, dirty, waiting>>
    BY <1>5 DEF DetachDirties
  <2>2. Range(<<>>) = {} /\ IsInjective(<<>>)
    BY DEF Range, IsInjective
  <2>3. Pending' = Pending
    BY <2>1, <2>2 DEF Pending
  <2>4. DirtyIsEnlisted'
    BY <2>1, <2>2, <2>3, <1>0, <1>3 DEF DirtyIsEnlisted
  <2>. QED  BY <2>1, <2>4, <1>1, <1>2 DEF CInv
<1>6. CASE saving # <<>> /\ (SaveChunk \/ SkipChunk)
  <2> DEFINE m == Head(saving)
  <2>1. /\ m \in Slots /\ m \in Range(saving) /\ Tail(saving) \in Queues
        /\ Range(Tail(saving)) = Range(saving) \ {m}
    BY <1>0, <1>6, TailProperties
  <2>2. NeedsSave(m)
    BY <2>1, <1>0 DEF DirtyIsEnlisted, Pending
  <2>3. /\ UnmarkAt(values[m], m) /\ dirty' = [dirty EXCEPT ![values[m]] = FALSE]
        /\ saving' = Tail(saving) /\ UNCHANGED <<dirtyList, waiting>>
    BY <2>2, <1>6 DEF SaveChunk, SkipChunk
  <2>4. MarksExact'
    BY <2>1, <2>2, <2>3, <1>1, UnmarkKeepsExact DEF NeedsSave
  <2> HIDE DEF m
  <2>5. m \notin Range(dirtyList) /\ m # waiting
    BY <2>1, <1>0 DEF DirtyIsEnlisted
  <2>6. Pending' = Pending \ {m}
    BY <2>1, <2>3, <2>5 DEF Pending
  <2>7. ASSUME NEW n \in Slots PROVE NeedsSave(n)' <=> NeedsSave(n) /\ n # m
    <3>1. values[m] \in Chunks /\ values[m] # NoChunk
      BY <2>1, <2>2, <1>0 DEF NeedsSave, TypeOK
    <3>2. CASE n = m
      BY <3>1, <3>2, <2>3, <1>0, <1>1 DEF NeedsSave, TypeOK
    <3>3. CASE n # m
      <4>1. values[n] # NoChunk => values[n] # values[m] /\ values[n] \in Chunks
        BY <3>1, <3>3, <2>1, <1>0 DEF OneChunkPerKey, TypeOK
      <4>. QED  BY <3>3, <4>1, <2>3, <1>0, <1>1 DEF NeedsSave, TypeOK
    <3>. QED  BY <3>2, <3>3
  <2>8. DirtyIsEnlisted'
    BY <2>1, <2>3, <2>6, <2>7, <1>0 DEF DirtyIsEnlisted, Queues
  <2>. QED  BY <2>4, <2>8, <1>1 DEF CInv
<1>. QED  BY <1>4, <1>5, <1>6 DEF Saves, SaveChunk, SkipChunk

-----------------------------------------------------------------------------

LEMMA InitEstablishesCInv ==
  ASSUME Init PROVE CInv
<1>1. Inv /\ FullQueue \in Queues /\ Range(FullQueue) = Slots
  BY InitEstablishesInv, FullQueueProperties
<1>2. MarksAreReferences
  <2>1. \A c \in Chunks : ~Resident(c)
    BY SpaceAssumption DEF Init, Resident, Range
  <2>2. \A c \in Chunks : ~(held[c] > 0)
    BY DEF Init
  <2>. QED  BY <2>1, <2>2 DEF MarksAreReferences
<1>3. OnlyUnmarkedRecyclable
  BY <1>1 DEF Init, OnlyUnmarkedRecyclable, Enqueued
<1>4. DirtyIsEnlisted
  BY DEF Init, DirtyIsEnlisted, NeedsSave, Pending, Range, IsInjective
<1>5. LoadsAreMisses
  BY DEF Init, LoadsAreMisses
<1>. QED  BY <1>1, <1>2, <1>3, <1>4, <1>5 DEF CInv, MarksExact

LEMMA CarefulNextKeepsCInv ==
  ASSUME CInv, [CarefulNext]_vars PROVE CInv'
<1>1. CASE UNCHANGED vars
  BY <1>1 DEF vars, CInv, Inv, TypeOK, Indexed, ChainsIndexValues,
     OneChunkPerKey, CountIsExact, NoSlotLost, Enqueued, MarksExact,
     MarksAreReferences, OnlyUnmarkedRecyclable, Resident, DirtyIsEnlisted,
     NeedsSave, Pending, LoadsAreMisses, Found
<1>2. CASE CarefulNext
  <2>1. Inv'
    <3>1. Next
      BY <1>2 DEF CarefulNext, Next
    <3>. QED  BY <3>1, NextKeepsInv DEF CInv
  <2>. QED  BY <1>2, <2>1, HitKeepsCInv, LoadKeepsCInv, PutKeepsCInv,
               UseKeepsCInv, SaveKeepsCInv DEF CarefulNext, Replies
<1>. QED  BY <1>1, <1>2

(* Under careful use the marks of a chunk count exactly the references and  *)
(* the pending save (mark, unmark, declareDirty and declareClean balance).  *)
THEOREM MarksCount == CarefulSpec => []MarksAreReferences
<1>1. CInv => MarksAreReferences
  BY DEF CInv, MarksExact
<1>. QED  BY <1>1, InitEstablishesCInv, CarefulNextKeepsCInv, PTL
          DEF CarefulSpec

(* Under careful use putAndMark can evict only chunks nobody refers to and  *)
(* that have no unsaved change.                                             *)
THEOREM NothingInUseRecycled == CarefulSpec => []OnlyUnmarkedRecyclable
<1>1. CInv => OnlyUnmarkedRecyclable
  BY DEF CInv, MarksExact
<1>. QED  BY <1>1, InitEstablishesCInv, CarefulNextKeepsCInv, PTL
          DEF CarefulSpec

(* Under careful use every changed chunk is enlisted for saving, once.      *)
THEOREM ChangesAreEnlisted == CarefulSpec => []DirtyIsEnlisted
<1>1. CInv => DirtyIsEnlisted
  BY DEF CInv
<1>. QED  BY <1>1, InitEstablishesCInv, CarefulNextKeepsCInv, PTL
          DEF CarefulSpec

=============================================================================
