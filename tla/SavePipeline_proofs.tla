------------------------- MODULE SavePipeline_proofs -------------------------
(***************************************************************************)
(* Proofs about SavePipeline, for any number of chunks and threads, any    *)
(* batch size and any number of crashes.                                   *)
(*                                                                         *)
(* When the callers take turns, a change and a save have the dirty lists   *)
(* to themselves (TurnsInv), so no dirty chunk is forgotten. When moreover *)
(* the storage accepts what it is sent and nobody asks twice for a chunk,  *)
(* the contents of a chunk only grow along its way from the storage        *)
(* through the requests to the cache (StoreInv), and the pipeline is a     *)
(* durable store.                                                          *)
(***************************************************************************)
EXTENDS SavePipeline, SequenceTheorems, FiniteSetTheorems,
        WellFoundedInduction, TLAPS

-----------------------------------------------------------------------------
(* The last put of a queue. A set of positions has a last one because the  *)
(* distances to the end of the queue have a smallest.                      *)

Below == {p \in Nat \X Nat : p[1] < p[2]}

LEMMA BelowWellFounded == IsWellFoundedOn(Below, Nat)
BY NatLessThanWellFounded DEF OpToRel, Below

LEMMA LastOfSome ==
  ASSUME NEW n \in Nat, NEW S \in SUBSET (1 .. n), S # {}
  PROVE  Max(S) \in S /\ \A i \in S : i <= Max(S)
<1> DEFINE T == {n - i : i \in S}
<1>1. T \subseteq Nat /\ T # {}
  <2>1. PICK i \in S : TRUE
    OBVIOUS
  <2>2. n - i \in T
    OBVIOUS
  <2>3. ASSUME NEW j \in S PROVE n - j \in Nat
    OBVIOUS
  <2> QED
    BY <2>2, <2>3
<1>2. PICK x \in T : \A y \in T : ~ (<<y, x>> \in Below)
  BY <1>1, BelowWellFounded, WFMin
<1>3. \A y \in T : x <= y
  <2> SUFFICES ASSUME NEW y \in T PROVE x <= y
    OBVIOUS
  <2>1. x \in Nat /\ y \in Nat /\ <<y, x>> \notin Below
    BY <1>1, <1>2
  <2> QED
    BY <2>1 DEF Below
<1>4. PICK i \in S : x = n - i
  OBVIOUS
<1>5. \A j \in S : j <= i
  BY <1>3, <1>4
<1> QED
  BY <1>5 DEF Max

LEMMA Messages ==
  /\ \A m \in Requests : \/ m.kind = "put" /\ m.batch \in Batches
                         \/ m.kind = "get" /\ m.of \in Chunks
  /\ \A m \in Answers : \/ m.kind = "put" /\ m.batch \in Batches
                        \/ m.kind = "get" /\ m.of \in Chunks /\ m.found \in Moments
  /\ \A b \in Batches : [kind |-> "put", batch |-> b] \in Requests \cap Answers
  /\ \A c \in Chunks : [kind |-> "get", of |-> c] \in Requests
  /\ \A c \in Chunks, v \in Moments :
       [kind |-> "get", of |-> c, found |-> v] \in Answers
BY DEF Requests, Answers

LEMMA LastPut ==
  ASSUME NEW q \in Seq(Requests), NEW c \in Chunks
  PROVE  /\ Puts(q, c) \subseteq 1 .. Len(q)
         /\ \A i \in Puts(q, c) : q[i].batch \in Batches /\ q[i].batch[c] \in Moments
         /\ Puts(q, c) # {} => /\ Max(Puts(q, c)) \in Puts(q, c)
                               /\ \A i \in Puts(q, c) : i <= Max(Puts(q, c))
<1>1. Len(q) \in Nat /\ Puts(q, c) \in SUBSET (1 .. Len(q))
  BY LenProperties DEF Puts
<1>2. \A i \in Puts(q, c) : q[i].batch \in Batches
  BY <1>1, Messages, ElementOfSeq DEF Puts
<1> QED
  BY <1>1, <1>2, LastOfSome DEF Batches

(* What the storage will say of one chunk.                                 *)
LEMMA StoredIs ==
  ASSUME NEW d \in Batches, NEW q \in Seq(Requests), NEW c \in Chunks
  PROVE  /\ Puts(q, c) = {} => AllWritten(d, q)[c] = d[c]
         /\ \A i \in Puts(q, c) : (\A j \in Puts(q, c) : j <= i)
              => AllWritten(d, q)[c] = q[i].batch[c]
<1>1. ASSUME NEW i \in Puts(q, c), \A j \in Puts(q, c) : j <= i
      PROVE  i = Max(Puts(q, c))
  <2>1. Max(Puts(q, c)) \in Puts(q, c) /\ i <= Max(Puts(q, c)) /\ i \in Int
        /\ Max(Puts(q, c)) \in Int
    BY LastPut
  <2> QED
    BY <1>1, <2>1
<1> QED
  BY <1>1 DEF AllWritten

LEMMA StoredTyped ==
  ASSUME NEW d \in Batches, NEW q \in Seq(Requests)
  PROVE  AllWritten(d, q) \in Batches
<1> SUFFICES ASSUME NEW c \in Chunks PROVE AllWritten(d, q)[c] \in Moments
  BY DEF AllWritten, Batches
<1> QED
  BY LastPut DEF AllWritten, Batches

LEMMA StoredOfNone ==
  ASSUME NEW d \in Batches
  PROVE  AllWritten(d, <<>>) = d
BY DEF AllWritten, Puts, Batches

LEMMA StoredOfAppend ==
  ASSUME NEW d \in Batches, NEW q \in Seq(Requests), NEW m \in Requests, NEW c \in Chunks
  PROVE  AllWritten(d, Append(q, m))[c] =
           IF m.kind = "put" /\ m.batch[c] # 0 THEN m.batch[c] ELSE AllWritten(d, q)[c]
<1> DEFINE r == Append(q, m)
<1>1. /\ r \in Seq(Requests) /\ Len(q) \in Nat /\ Len(r) = Len(q) + 1
      /\ DOMAIN r = 1 .. Len(q) + 1 /\ DOMAIN q = 1 .. Len(q)
      /\ \A i \in 1 .. Len(q) : r[i] = q[i]
      /\ r[Len(q) + 1] = m
  BY AppendProperties, LenProperties
<1>2. CASE m.kind = "put" /\ m.batch[c] # 0
  <2>1. Len(r) \in Puts(r, c) /\ \A j \in Puts(r, c) : j <= Len(r)
    BY <1>1, <1>2 DEF Puts
  <2>2. AllWritten(d, r)[c] = r[Len(r)].batch[c]
    <3> HIDE DEF r
    <3> QED
      BY <1>1, <2>1, StoredIs
  <2> QED
    BY <1>1, <1>2, <2>2
<1>3. CASE ~(m.kind = "put" /\ m.batch[c] # 0)
  <2>1. Puts(r, c) = Puts(q, c)
    BY <1>1, <1>3 DEF Puts
  <2>2. CASE Puts(q, c) = {}
    <3>1. AllWritten(d, r)[c] = d[c] /\ AllWritten(d, q)[c] = d[c]
      <4> HIDE DEF r
      <4> QED
        BY <1>1, <2>1, <2>2, StoredIs
    <3> QED
      BY <1>3, <3>1
  <2>3. CASE Puts(q, c) # {}
    <3> DEFINE i == Max(Puts(q, c))
    <3>1. i \in Puts(q, c) /\ i \in 1 .. Len(q) /\ \A j \in Puts(q, c) : j <= i
      BY <2>3, LastPut
    <3>2. AllWritten(d, r)[c] = r[i].batch[c] /\ AllWritten(d, q)[c] = q[i].batch[c]
      <4> HIDE DEF i, r
      <4> QED
        BY <1>1, <2>1, <3>1, StoredIs
    <3> QED
      BY <1>1, <1>3, <3>1, <3>2
  <2> QED
    BY <2>2, <2>3
<1> QED
  BY <1>2, <1>3

LEMMA TailIs ==
  ASSUME NEW S, NEW q \in Seq(S), q # <<>>
  PROVE  /\ Tail(q) \in Seq(S) /\ Len(q) \in Nat \ {0} /\ Len(Tail(q)) = Len(q) - 1
         /\ DOMAIN q = 1 .. Len(q) /\ DOMAIN Tail(q) = 1 .. Len(q) - 1
         /\ \A i \in 1 .. Len(q) - 1 : Tail(q)[i] = q[i + 1]
         /\ Head(q) = q[1] /\ Head(q) \in S
BY HeadTailProperties, LenProperties, EmptySeq

LEMMA PutsOfTail ==
  ASSUME NEW S, NEW q \in Seq(S), q # <<>>, NEW c \in Chunks
  PROVE  /\ \A i \in Puts(Tail(q), c) : /\ i \in Nat /\ i + 1 \in Puts(q, c)
                                        /\ Tail(q)[i] = q[i + 1]
         /\ \A i \in Puts(q, c) : i # 1 => i - 1 \in Puts(Tail(q), c)
         /\ 1 \in Puts(q, c) <=> Head(q).kind = "put" /\ Head(q).batch[c] # 0
BY TailIs DEF Puts

LEMMA LoadsOfTail ==
  ASSUME NEW S, NEW q \in Seq(S), q # <<>>
  PROVE  /\ \A i \in Loads(Tail(q)) : /\ i \in Nat \ {0} /\ i + 1 \in Loads(q)
                                     /\ Tail(q)[i] = q[i + 1]
         /\ 1 \in Loads(q) <=> Head(q).kind = "get"
BY TailIs DEF Loads

LEMMA PutsOfAppend ==
  ASSUME NEW S, NEW q \in Seq(S), NEW m \in S, NEW c \in Chunks
  PROVE  /\ Puts(Append(q, m), c) =
              Puts(q, c) \cup {i \in {Len(q) + 1} : m.kind = "put" /\ m.batch[c] # 0}
         /\ Len(q) \in Nat /\ Puts(q, c) \subseteq 1 .. Len(q)
         /\ \A i \in Puts(q, c) : Append(q, m)[i] = q[i]
         /\ Append(q, m)[Len(q) + 1] = m
BY AppendProperties, LenProperties DEF Puts

LEMMA LoadsOfAppend ==
  ASSUME NEW S, NEW q \in Seq(S), NEW m \in S
  PROVE  /\ Loads(Append(q, m)) = Loads(q) \cup {i \in {Len(q) + 1} : m.kind = "get"}
         /\ Len(q) \in Nat /\ Loads(q) \subseteq 1 .. Len(q)
         /\ \A i \in Loads(q) : Append(q, m)[i] = q[i]
         /\ Append(q, m)[Len(q) + 1] = m
BY AppendProperties, LenProperties DEF Loads

LEMMA WrittenTyped ==
  ASSUME NEW d \in Batches, NEW b \in Batches
  PROVE  Written(d, b) \in Batches
BY DEF Written, Batches

(* Writing the first put changes nothing of what will be there in the end. *)
LEMMA StoredOfTail ==
  ASSUME NEW d \in Batches, NEW q \in Seq(Requests), q # <<>>
  PROVE  AllWritten(d, q) =
           AllWritten(IF Head(q).kind = "put" THEN Written(d, Head(q).batch) ELSE d, Tail(q))
<1> DEFINE e == IF Head(q).kind = "put" THEN Written(d, Head(q).batch) ELSE d
<1>1. e \in Batches /\ Tail(q) \in Seq(Requests) /\ Head(q) \in Requests
  BY TailIs, WrittenTyped, Messages
<1>2. SUFFICES ASSUME NEW c \in Chunks
               PROVE  AllWritten(d, q)[c] = AllWritten(e, Tail(q))[c]
  BY DEF AllWritten
<1>3. CASE Puts(Tail(q), c) = {}
  <2>1. AllWritten(e, Tail(q))[c] = e[c]
    <3> HIDE DEF e
    <3> QED
      BY <1>1, <1>3, StoredIs
  <2>2. CASE Head(q).kind = "put" /\ Head(q).batch[c] # 0
    <3>1. 1 \in Puts(q, c) /\ \A j \in Puts(q, c) : j <= 1
      BY <1>3, <2>2, PutsOfTail
    <3>2. AllWritten(d, q)[c] = q[1].batch[c]
      BY <3>1, StoredIs
    <3> QED
      BY <2>1, <2>2, <3>2, TailIs DEF Written
  <2>3. CASE ~(Head(q).kind = "put" /\ Head(q).batch[c] # 0)
    <3>1. Puts(q, c) = {}
      BY <1>3, <2>3, PutsOfTail
    <3>2. AllWritten(d, q)[c] = d[c]
      BY <3>1, StoredIs
    <3> QED
      BY <2>1, <2>3, <3>2 DEF Written
  <2> QED
    BY <2>2, <2>3
<1>4. CASE Puts(Tail(q), c) # {}
  <2> DEFINE i == Max(Puts(Tail(q), c))
  <2>1. /\ i \in Puts(Tail(q), c) /\ i \in 1 .. Len(q) - 1
        /\ \A j \in Puts(Tail(q), c) : j <= i
    BY <1>1, <1>4, LastPut, TailIs
  <2> HIDE DEF i, e
  <2>2. i + 1 \in Puts(q, c) /\ \A j \in Puts(q, c) : j <= i + 1
    <3>1. \A j \in Puts(q, c) : j \in Int
      BY LastPut
    <3> QED
      BY <2>1, <3>1, PutsOfTail
  <2>3. AllWritten(d, q)[c] = q[i + 1].batch[c]
    BY <2>2, StoredIs
  <2>4. AllWritten(e, Tail(q))[c] = Tail(q)[i].batch[c]
    BY <1>1, <2>1, StoredIs
  <2> QED
    BY <2>1, <2>3, <2>4, TailIs
<1> QED
  BY <1>3, <1>4

-----------------------------------------------------------------------------
(* What turns give: the one thread inside the graph appends to the list    *)
(* that is current, and a list that is saved is no longer current.         *)

Turns == "turns" \in Cares

OneBusy == \A t, u \in Threads : Busy(t) /\ Busy(u) => t = u

ReadIsCurrent == \A t \in Threads :
  read[t] # None => marking[t] # None /\ saving[t] = None /\ read[t] = current

SavedIsDetached == \A t \in Threads :
  saving[t] # None => saving[t] # current /\ next[t] <= Len(lists[saving[t]])

WritesWhileSaving == \A t \in Threads :
  saving[t] = None => written[t] = None /\ batch[t] = Nothing

TurnsInv == OneBusy /\ ReadIsCurrent /\ SavedIsDetached /\ WritesWhileSaving

LEMMA ListsAreThree == Threads # {} => {1, 2, 3} \subseteq Lists
<1> SUFFICES ASSUME NEW t \in Threads PROVE {1, 2, 3} \subseteq Lists
  OBVIOUS
<1>1. Cardinality(Threads) \in Nat /\ Cardinality(Threads) # 0
  BY PipelineAssumption, FS_CardinalityType, FS_EmptySet
<1> QED
  BY <1>1 DEF Lists

(* A save finds a list that nobody holds.                                  *)
LEMMA UnusedIsFree ==
  ASSUME TypeOK, TurnsInv, NEW t \in Threads, saving[t] = None,
         \A u \in Threads : u # t => ~Busy(u)
  PROVE  Unused \in Lists /\ Unused \notin InUse
<1>1. InUse \subseteq {current, read[t], None}
  BY DEF InUse, TurnsInv, ReadIsCurrent, Busy
<1>2. None \notin {1, 2, 3}
  BY PipelineAssumption
<1>3. \E l \in {1, 2, 3} : l \notin InUse
  BY <1>1, <1>2
<1> QED
  BY <1>3, ListsAreThree DEF Unused

LEMMA InitTyped == Init => TypeOK
<1> SUFFICES ASSUME Init PROVE TypeOK
  OBVIOUS
<1>1. 1 \in Lists /\ 0 \in Moments
  BY PipelineAssumption, FS_CardinalityType DEF Lists, Moments
<1>2. <<>> \in Seq(Chunks) /\ <<>> \in Seq(Requests) /\ <<>> \in Seq(Answers)
      /\ Len(<<>>) = 0
  OBVIOUS
<1> QED
  BY <1>1, <1>2, PipelineAssumption
  DEF Init, TypeOK, NoThread, NoStep, NoBytes, NoLists, Nothing, Batches

LEMMA DetachTyped ==
  ASSUME TypeOK, TurnsInv, NEW t \in Threads, saving[t] = None, Detach(t),
         \A u \in Threads : u # t => ~Busy(u),
         read' \in [Threads -> Lists \cup {None}]
  PROVE  TypeOK'
<1>1. Unused \in Lists
  BY UnusedIsFree
<1>2. <<>> \in Seq(Chunks) /\ Len(<<>>) <= BatchSize /\ 0 \in 0 .. BatchSize
  BY PipelineAssumption
<1>3. lists' \in [Lists -> Seq(Chunks)] /\ \A l \in Lists : Len(lists'[l]) <= BatchSize
  BY <1>2 DEF Detach, Emptied, TypeOK
<1> QED
  BY <1>1, <1>2, <1>3 DEF Detach, TypeOK, cache, network

LEMMA StepTyped ==
  ASSUME TypeOK, TurnsInv, NEW t \in Threads, Step(t)
  PROVE  TypeOK'
<1>1. CASE ReadDirtyState(t)
  BY <1>1 DEF ReadDirtyState, TypeOK, cache, dirties, saves, network
<1>2. CASE Enlist(t)
  <2>1. read[t] \in Lists /\ marking[t] \in Chunks /\ lists[read[t]] \in Seq(Chunks)
    BY <1>2 DEF Enlist, TypeOK, TurnsInv, ReadIsCurrent
  <2>2. /\ Append(lists[read[t]], marking[t]) \in Seq(Chunks)
        /\ Len(Append(lists[read[t]], marking[t])) <= BatchSize
    BY <1>2, <2>1, AppendProperties, LenProperties, PipelineAssumption DEF Enlist
  <2>3. lists' \in [Lists -> Seq(Chunks)] /\ \A l \in Lists : Len(lists'[l]) <= BatchSize
    BY <1>2, <2>1, <2>2 DEF Enlist, TypeOK
  <2> QED
    BY <1>2, <2>3 DEF Enlist, TypeOK, cache, saves, network
<1>3. CASE FullSaves(t)
  <2>1. read[t] # None /\ Detach(t) /\ read' = [read EXCEPT ![t] = None]
    BY <1>3 DEF FullSaves
  <2>2. saving[t] = None /\ \A u \in Threads : u # t => ~Busy(u)
    BY <2>1 DEF TurnsInv, ReadIsCurrent, OneBusy, Busy
  <2>3. read' \in [Threads -> Lists \cup {None}]
    BY <2>1 DEF TypeOK
  <2> QED
    BY <2>1, <2>2, <2>3, DetachTyped
<1>4. CASE SaveBytes(t)
  <2> DEFINE c == lists[saving[t]][next[t] + 1]
  <2>1. saving[t] \in Lists /\ next[t] < Len(lists[saving[t]]) /\ next[t] \in 0 .. BatchSize
    BY <1>4 DEF SaveBytes, HasNext, TypeOK
  <2>2. c \in Chunks
    BY <2>1, ElementOfSeq, LenProperties DEF TypeOK
  <2>3. batch' \in [Threads -> Batches]
    <3>1. [batch[t] EXCEPT ![c] = value[c]] \in Batches
      BY <2>2 DEF TypeOK, Batches
    <3>2. batch' = IF c \in dirty THEN [batch EXCEPT ![t] = [batch[t] EXCEPT ![c] = value[c]]]
                                  ELSE batch
      BY <1>4 DEF SaveBytes, TypeOK
    <3> QED
      BY <3>1, <3>2 DEF TypeOK
  <2>4. written' \in [Threads -> Chunks \cup {None}]
    BY <1>4, <2>2 DEF SaveBytes, TypeOK
  <2>5. next' \in [Threads -> 0 .. BatchSize]
    <3>1. next[t] + 1 \in 0 .. BatchSize
      BY <2>1, LenProperties, PipelineAssumption DEF TypeOK
    <3> QED
      BY <1>4, <3>1 DEF SaveBytes, TypeOK
  <2> QED
    BY <1>4, <2>3, <2>4, <2>5 DEF SaveBytes, TypeOK, cache, dirties, declares, network
<1>5. CASE DeclareClean(t)
  BY <1>5 DEF DeclareClean, TypeOK, dirties, declares, network
<1>6. CASE SendPut(t)
  <2>1. [kind |-> "put", batch |-> batch[t]] \in Requests
    BY Messages DEF TypeOK
  <2>2. requests' \in Seq(Requests)
    BY <1>6, <2>1, AppendProperties DEF SendPut, TypeOK
  <2>3. Nothing \in Batches
    BY PipelineAssumption DEF Nothing, Batches, Moments
  <2> QED
    BY <1>6, <2>2, <2>3 DEF SendPut, TypeOK, cache, dirties, declares
<1> QED
  BY <1>1, <1>2, <1>3, <1>4, <1>5, <1>6 DEF Step

(* The steps that no thread inside the graph takes.                        *)
Others == \/ \E t \in Threads, c \in Chunks : Change(t, c)
          \/ \E c \in Chunks : Recycle(c) \/ Get(c)
          \/ Storage \/ Callback \/ Crash

LEMMA OtherTyped ==
  ASSUME TypeOK, Others
  PROVE  TypeOK'
<1>1. ASSUME NEW t \in Threads, NEW c \in Chunks, Change(t, c) PROVE TypeOK'
  <2>1. clock + 1 \in Moments
    BY <1>1, PipelineAssumption DEF Change, TypeOK, Moments
  <2> QED
    BY <1>1, <2>1 DEF Change, TypeOK, dirties, saves, network, Batches
<1>2. ASSUME NEW c \in Chunks, Recycle(c) PROVE TypeOK'
  BY <1>2, PipelineAssumption
  DEF Recycle, TypeOK, Batches, Moments, dirties, declares, saves, network
<1>3. ASSUME NEW c \in Chunks, Get(c) PROVE TypeOK'
  <2>1. requests' \in Seq(Requests)
    BY <1>3, Messages, AppendProperties DEF Get, TypeOK
  <2> QED
    BY <1>3, <2>1 DEF Get, TypeOK, cache, dirties, declares, saves
<1>4. CASE Put
  <2>1. requests # <<>> /\ Head(requests).kind = "put"
    BY <1>4 DEF Put
  <2>2. /\ Head(requests).batch \in Batches /\ Tail(requests) \in Seq(Requests)
        /\ Nothing \in Batches
    <3>1. Nothing \in Batches
      BY PipelineAssumption DEF Nothing, Batches, Moments
    <3> QED
      BY <2>1, <3>1, TailIs, Messages DEF TypeOK
  <2>3. PICK kept \in BOOLEAN : LET b == Head(requests).batch IN
          /\ disk' = IF kept THEN Written(disk, b) ELSE disk
          /\ answers' = Append(answers, [kind |-> "put",
                                         batch |-> IF kept THEN b ELSE Nothing])
    BY <1>4 DEF Put
  <2>4. disk' \in Batches /\ answers' \in Seq(Answers)
    BY <2>2, <2>3, WrittenTyped, Messages, AppendProperties DEF TypeOK
  <2> QED
    BY <1>4, <2>2, <2>4 DEF Put, TypeOK, cache, dirties, declares, saves
<1>5. CASE ServeGet
  <2>1. requests # <<>> /\ Head(requests).kind = "get"
    BY <1>5 DEF ServeGet
  <2>2. Head(requests).of \in Chunks /\ Tail(requests) \in Seq(Requests)
    BY <2>1, TailIs, Messages DEF TypeOK
  <2>3. answers' \in Seq(Answers)
    <3>1. disk[Head(requests).of] \in Moments
      BY <2>2 DEF TypeOK, Batches
    <3> QED
      BY <1>5, <2>2, <3>1, Messages, AppendProperties DEF ServeGet, TypeOK
  <2> QED
    BY <1>5, <2>2, <2>3 DEF ServeGet, TypeOK, cache, dirties, declares, saves
<1>6. CASE Loaded
  <2>1. /\ Head(answers).of \in Chunks /\ Head(answers).found \in Moments
        /\ Tail(answers) \in Seq(Answers)
    BY <1>6, TailIs, Messages DEF Loaded, TypeOK
  <2> QED
    BY <1>6, <2>1 DEF Loaded, TypeOK, Batches, dirties, declares, saves
<1>7. CASE Confirmed
  <2>1. Head(answers).batch \in Batches /\ Tail(answers) \in Seq(Answers)
    BY <1>7, TailIs, Messages DEF Confirmed, TypeOK
  <2> QED
    BY <1>7, <2>1 DEF Confirmed, TypeOK, Batches, cache, dirties, declares, saves
<1>8. CASE Crash
  <2>1. disk' \in Batches
    <3>1. PICK n \in 0 .. Len(requests) : disk' = AllWritten(disk, SubSeq(requests, 1, n))
      BY <1>8 DEF Crash
    <3>2. SubSeq(requests, 1, n) \in Seq(Requests)
      BY SubSeqProperties, ElementOfSeq, LenProperties DEF TypeOK
    <3> QED
      BY <3>1, <3>2, StoredTyped DEF TypeOK
  <2>2. 1 \in Lists /\ 0 \in Moments /\ 0 \in 0 .. BatchSize /\ crashes' \in 0 .. MaxCrashes
    BY <1>8, PipelineAssumption, FS_CardinalityType DEF Crash, Lists, Moments, TypeOK
  <2>3. <<>> \in Seq(Chunks) /\ <<>> \in Seq(Requests) /\ <<>> \in Seq(Answers)
        /\ Len(<<>>) <= BatchSize
    BY PipelineAssumption
  <2> QED
    BY <1>8, <2>1, <2>2, <2>3, PipelineAssumption
    DEF Crash, TypeOK, NoThread, NoStep, NoBytes, NoLists, Nothing, Batches
<1> QED
  BY <1>1, <1>2, <1>3, <1>4, <1>5, <1>6, <1>7, <1>8 DEF Others, Storage, Callback

LEMMA SaveTyped ==
  ASSUME Turns, TypeOK, TurnsInv, NEW t \in Threads, Save(t)
  PROVE  TypeOK'
<1>1. saving[t] = None /\ Detach(t) /\ read' = read /\ \A u \in Threads : ~Busy(u)
  BY DEF Save, Turn, Quiet, Turns, Busy
<1>2. read' \in [Threads -> Lists \cup {None}]
  BY <1>1 DEF TypeOK
<1> QED
  BY <1>1, <1>2, DetachTyped

LEMMA NextSteps ==
  Next <=> Others \/ \E t \in Threads : Save(t) \/ Step(t)
BY DEF Next, Others

LEMMA NextTyped ==
  ASSUME Turns, TypeOK, TurnsInv, [Next]_vars
  PROVE  TypeOK'
<1>1. CASE UNCHANGED vars
  BY <1>1 DEF vars, TypeOK
<1> QED
  BY <1>1, NextSteps, OtherTyped, SaveTyped, StepTyped

-----------------------------------------------------------------------------
(* Turns are kept, and no dirty chunk is forgotten.                        *)

Inv == TypeOK /\ TurnsInv /\ DirtyIsListed

LEMMA InitEstablishesInv == Init => Inv
BY InitTyped DEF Init, Inv, TurnsInv, OneBusy, ReadIsCurrent, SavedIsDetached,
   WritesWhileSaving, DirtyIsListed, Busy, NoThread, NoBytes, Nothing

LEMMA DetachKeepsInv ==
  ASSUME Inv, NEW t \in Threads, saving[t] = None, Detach(t),
         \A u \in Threads : u # t => ~Busy(u),
         read' = [read EXCEPT ![t] = None]
  PROVE  TurnsInv' /\ DirtyIsListed'
<1>0. TypeOK /\ TurnsInv /\ DirtyIsListed
  BY DEF Inv
<1>1. Unused \in Lists /\ Unused # current
  BY <1>0, UnusedIsFree DEF InUse
<1>2. \A u \in Threads : u # t => /\ saving[u] = None /\ marking[u] = None
                                   /\ read[u] = None /\ written[u] = None
  BY <1>0 DEF Busy, TurnsInv, ReadIsCurrent, WritesWhileSaving
<1>3. /\ current' = Unused /\ lists' = Emptied(Unused)
      /\ lists'[current] = lists[current] /\ lists'[Unused] = <<>>
      /\ saving' = [saving EXCEPT ![t] = IF lists[current] = <<>> THEN None ELSE current]
      /\ next' = [next EXCEPT ![t] = 0]
      /\ UNCHANGED <<dirty, marking, batch, written>>
  BY <1>0, <1>1 DEF Detach, Emptied, TypeOK, cache
<1>4. written[t] = None /\ batch[t] = Nothing
  BY <1>0 DEF TurnsInv, WritesWhileSaving
<1>5. TurnsInv'
  BY <1>0, <1>1, <1>2, <1>3, <1>4, LenProperties
  DEF TypeOK, TurnsInv, OneBusy, ReadIsCurrent, SavedIsDetached, WritesWhileSaving, Busy
<1>6. DirtyIsListed'
  <2> SUFFICES ASSUME NEW c \in dirty
               PROVE  \/ c \in ToSet(lists[current])'
                      \/ \E u \in Threads : \/ marking'[u] = c \/ written'[u] = c
                                            \/ c \in UnderWay(u)'
    BY <1>3 DEF DirtyIsListed
  <2>1. CASE c \in ToSet(lists[current])
    <3>1. lists[current] \in Seq(Chunks) /\ lists[current] # <<>>
      BY <1>0, <2>1 DEF TypeOK, ToSet
    <3>2. saving'[t] = current /\ next'[t] = 0 /\ current # None
      BY <1>0, <1>3, <3>1, PipelineAssumption DEF TypeOK, Lists
    <3>3. PICK i \in 1 .. Len(lists[current]) : lists[current][i] = c
      BY <2>1, <3>1, LenProperties DEF ToSet
    <3>4. c \in UnderWay(t)'
      BY <1>3, <3>2, <3>3 DEF UnderWay
    <3> QED
      BY <3>4
  <2>2. CASE \E u \in Threads : marking[u] = c \/ written[u] = c
    BY <1>3, <2>2
  <2>3. ASSUME NEW u \in Threads, c \in UnderWay(u) PROVE FALSE
    BY <1>2, <2>3 DEF UnderWay
  <2> QED
    BY <1>0, <2>1, <2>2, <2>3 DEF DirtyIsListed
<1> QED
  BY <1>5, <1>6

LEMMA SaveKeepsInv ==
  ASSUME Turns, Inv, NEW t \in Threads, Save(t)
  PROVE  Inv'
<1>1. saving[t] = None /\ Detach(t) /\ read' = read /\ \A u \in Threads : ~Busy(u)
  BY DEF Save, Turn, Quiet, Turns, Busy
<1>2. read' = [read EXCEPT ![t] = None]
  BY <1>1 DEF Busy, Inv, TypeOK, TurnsInv, ReadIsCurrent
<1> QED
  BY <1>1, <1>2, DetachKeepsInv, SaveTyped DEF Inv

LEMMA FullSavesKeepsInv ==
  ASSUME Inv, NEW t \in Threads, FullSaves(t)
  PROVE  Inv'
<1>1. read[t] # None /\ Detach(t) /\ read' = [read EXCEPT ![t] = None]
  BY DEF FullSaves
<1>2. saving[t] = None /\ \A u \in Threads : u # t => ~Busy(u)
  BY <1>1 DEF Inv, TurnsInv, ReadIsCurrent, OneBusy, Busy
<1> QED
  BY <1>1, <1>2, DetachKeepsInv, StepTyped DEF Inv, Step

LEMMA ReadDirtyStateKeepsInv ==
  ASSUME Inv, NEW t \in Threads, ReadDirtyState(t)
  PROVE  Inv'
<1>1. TypeOK /\ TurnsInv /\ DirtyIsListed /\ TypeOK'
  BY StepTyped DEF Inv, Step
<1>2. TurnsInv'
  BY <1>1 DEF ReadDirtyState, TypeOK, TurnsInv, OneBusy, ReadIsCurrent, SavedIsDetached,
     WritesWhileSaving, Busy, saves, dirties
<1>3. DirtyIsListed'
  BY <1>1 DEF ReadDirtyState, DirtyIsListed, UnderWay, ToSet, saves, dirties, cache
<1> QED
  BY <1>1, <1>2, <1>3 DEF Inv

LEMMA EnlistKeepsInv ==
  ASSUME Inv, NEW t \in Threads, Enlist(t)
  PROVE  Inv'
<1>1. TypeOK /\ TurnsInv /\ DirtyIsListed /\ TypeOK'
  BY StepTyped DEF Inv, Step
<1>2. /\ read[t] = current /\ current \in Lists /\ marking[t] \in Chunks
      /\ marking[t] # None /\ saving[t] = None
      /\ lists' = [lists EXCEPT ![current] = Append(lists[current], marking[t])]
      /\ marking' = [marking EXCEPT ![t] = None]
      /\ read' = [read EXCEPT ![t] = None]
      /\ UNCHANGED <<current, dirty, saving, next, batch, written>>
  BY <1>1 DEF Enlist, TypeOK, TurnsInv, ReadIsCurrent, saves, cache
<1>3. \A u \in Threads : u # t => /\ saving[u] = None /\ marking[u] = None /\ read[u] = None
                                   /\ written[u] = None
  BY <1>1, <1>2 DEF Busy, TurnsInv, OneBusy, ReadIsCurrent, WritesWhileSaving
<1>4. TurnsInv'
  BY <1>1, <1>2, <1>3 DEF TypeOK, TurnsInv, OneBusy, ReadIsCurrent, SavedIsDetached,
     WritesWhileSaving, Busy
<1>5. DirtyIsListed'
  <2> SUFFICES ASSUME NEW c \in dirty
               PROVE  c \in ToSet(lists'[current])
    BY <1>2 DEF DirtyIsListed
  <2>1. /\ lists'[current] = Append(lists[current], marking[t])
        /\ lists[current] \in Seq(Chunks)
    BY <1>1, <1>2 DEF TypeOK
  <2>2. \A i \in 1 .. Len(lists[current]) : lists'[current][i] = lists[current][i]
    BY <1>2, <2>1, AppendProperties
  <2>3. /\ lists'[current][Len(lists[current]) + 1] = marking[t]
        /\ DOMAIN lists'[current] = 1 .. Len(lists[current]) + 1
        /\ DOMAIN lists[current] = 1 .. Len(lists[current])
        /\ Len(lists[current]) \in Nat
    BY <1>2, <2>1, AppendProperties, LenProperties
  <2>4. c \in ToSet(lists[current]) \/ c = marking[t]
    <3>1. \A u \in Threads : written[u] = None /\ UnderWay(u) = {}
      BY <1>1, <1>2, <1>3 DEF UnderWay, TurnsInv, WritesWhileSaving
    <3>2. c \in Chunks /\ None \notin Chunks
      BY <1>1, PipelineAssumption DEF TypeOK
    <3> QED
      BY <1>1, <1>3, <3>1, <3>2 DEF DirtyIsListed
  <2> QED
    BY <2>2, <2>3, <2>4 DEF ToSet
<1> QED
  BY <1>1, <1>4, <1>5 DEF Inv

LEMMA SaveBytesKeepsInv ==
  ASSUME Inv, NEW t \in Threads, SaveBytes(t)
  PROVE  Inv'
<1>1. TypeOK /\ TurnsInv /\ DirtyIsListed /\ TypeOK'
  BY StepTyped DEF Inv, Step
<1> DEFINE k == lists[saving[t]][next[t] + 1]
<1>2. /\ saving[t] # None /\ written[t] = None /\ next[t] < Len(lists[saving[t]])
      /\ written' = [written EXCEPT ![t] = IF k \in dirty THEN k ELSE None]
      /\ next' = [next EXCEPT ![t] = next[t] + 1]
      /\ \A u \in Threads : u # t => batch'[u] = batch[u]
      /\ UNCHANGED <<dirty, lists, current, marking, read, saving>>
  BY <1>1 DEF SaveBytes, HasNext, TypeOK, dirties, declares, cache
<1>3. /\ saving[t] \in Lists /\ next[t] \in Nat /\ next'[t] = next[t] + 1
      /\ Len(lists[saving[t]]) \in Nat
  BY <1>1, <1>2, LenProperties DEF TypeOK
<1>4. TurnsInv'
  BY <1>1, <1>2, <1>3 DEF TypeOK, TurnsInv, OneBusy, ReadIsCurrent, SavedIsDetached,
     WritesWhileSaving, Busy
<1>5. DirtyIsListed'
  <2> SUFFICES ASSUME NEW c \in dirty, NEW u \in Threads, c \in UnderWay(u)
               PROVE  written'[u] = c \/ c \in UnderWay(u)'
    <3>1. \A d \in dirty, u \in Threads : written[u] = d => u # t
      BY <1>1, <1>2, PipelineAssumption DEF TypeOK
    <3>2. \A d \in dirty, u \in Threads : written[u] = d => written'[u] = d
      BY <1>1, <1>2, <3>1 DEF TypeOK
    <3>3. SUFFICES ASSUME NEW d \in dirty
                   PROVE  \/ d \in ToSet(lists[current])
                          \/ \E u \in Threads : \/ marking[u] = d \/ written'[u] = d
                                                \/ d \in UnderWay(u)'
      BY <1>2 DEF DirtyIsListed, ToSet
    <3>4. CASE \E u \in Threads : d \in UnderWay(u)
      BY <3>4
    <3> QED
      BY <1>1, <3>2, <3>4 DEF DirtyIsListed
  <2>1. CASE u # t
    BY <1>1, <1>2, <2>1 DEF UnderWay, TypeOK
  <2>2. CASE u = t
    <3>1. PICK i \in next[t] + 1 .. Len(lists[saving[t]]) : c = lists[saving[t]][i]
      BY <1>2, <2>2 DEF UnderWay
    <3>2. CASE i = next[t] + 1
      BY <1>1, <1>2, <2>2, <3>1, <3>2 DEF TypeOK
    <3>3. CASE i # next[t] + 1
      <4>1. i \in next[t] + 1 + 1 .. Len(lists[saving[t]])
        BY <1>3, <3>1, <3>3
      <4> QED
        BY <1>2, <1>3, <2>2, <3>1, <4>1 DEF UnderWay
    <3> QED
      BY <3>2, <3>3
  <2> QED
    BY <2>1, <2>2
<1> QED
  BY <1>1, <1>4, <1>5 DEF Inv

LEMMA DeclareCleanKeepsInv ==
  ASSUME Inv, NEW t \in Threads, DeclareClean(t)
  PROVE  Inv'
<1>1. TypeOK /\ TurnsInv /\ DirtyIsListed /\ TypeOK'
  BY StepTyped DEF Inv, Step
<1>2. TurnsInv'
  BY <1>1 DEF DeclareClean, TypeOK, TurnsInv, OneBusy, ReadIsCurrent, SavedIsDetached,
     WritesWhileSaving, Busy, dirties, declares
<1>3. DirtyIsListed'
  BY <1>1 DEF DeclareClean, DirtyIsListed, UnderWay, ToSet, TypeOK, dirties, declares
<1> QED
  BY <1>1, <1>2, <1>3 DEF Inv

LEMMA SendPutKeepsInv ==
  ASSUME Inv, NEW t \in Threads, SendPut(t)
  PROVE  Inv'
<1>1. TypeOK /\ TurnsInv /\ DirtyIsListed /\ TypeOK'
  BY StepTyped DEF Inv, Step
<1>2. /\ saving[t] # None /\ written[t] = None /\ next[t] >= Len(lists[saving[t]])
      /\ saving' = [saving EXCEPT ![t] = None]
      /\ batch' = [batch EXCEPT ![t] = Nothing]
      /\ UNCHANGED <<dirty, lists, current, marking, read, next, written>>
  <2>1. next[t] \in Nat /\ Len(lists[saving[t]]) \in Nat
    BY <1>1, LenProperties DEF SendPut, TypeOK
  <2> QED
    BY <2>1 DEF SendPut, HasNext, dirties, declares, cache
<1>3. TurnsInv'
  BY <1>1, <1>2 DEF TypeOK, TurnsInv, OneBusy, ReadIsCurrent, SavedIsDetached,
     WritesWhileSaving, Busy
<1>4. UnderWay(t) = {}
  <2>1. next[t] \in Nat /\ Len(lists[saving[t]]) \in Nat
    BY <1>1, <1>2, LenProperties DEF TypeOK
  <2> QED
    BY <1>2, <2>1 DEF UnderWay
<1>5. \A u \in Threads : u # t => UnderWay(u)' = UnderWay(u)
  BY <1>1, <1>2 DEF UnderWay, TypeOK
<1>6. DirtyIsListed'
  BY <1>1, <1>2, <1>4, <1>5 DEF DirtyIsListed, ToSet
<1> QED
  BY <1>1, <1>3, <1>6 DEF Inv

LEMMA OthersKeepInv ==
  ASSUME Turns, Inv, Others
  PROVE  Inv'
<1>0. TypeOK /\ TurnsInv /\ DirtyIsListed /\ TypeOK'
  BY OtherTyped DEF Inv
<1>1. ASSUME NEW t \in Threads, NEW c \in Chunks, Change(t, c) PROVE TurnsInv' /\ DirtyIsListed'
  <2>1. /\ \A u \in Threads : ~Busy(u)
        /\ marking' = [marking EXCEPT ![t] = IF c \in dirty THEN None ELSE c]
        /\ dirty' = dirty \cup {c}
        /\ UNCHANGED <<lists, current, read, saving, next, batch, written>>
    BY <1>1 DEF Change, Turn, Quiet, Turns, dirties, saves
  <2>2. TurnsInv'
    BY <1>0, <2>1 DEF TypeOK, TurnsInv, OneBusy, ReadIsCurrent, SavedIsDetached,
       WritesWhileSaving, Busy
  <2>3. \A u \in Threads : marking[u] = None /\ written[u] = None /\ UnderWay(u) = {}
    BY <1>0, <2>1 DEF Busy, TurnsInv, WritesWhileSaving, UnderWay
  <2>4. \A d \in dirty : d \in ToSet(lists[current])
    BY <1>0, <2>3, PipelineAssumption DEF DirtyIsListed, TypeOK
  <2>5. c \notin dirty => marking'[t] = c
    BY <1>0, <2>1 DEF TypeOK
  <2>6. DirtyIsListed'
    BY <2>1, <2>4, <2>5 DEF DirtyIsListed, ToSet
  <2> QED
    BY <2>2, <2>6
<1>2. ASSUME UNCHANGED <<lists, current, marking, read, saving, next, batch, written>>,
             dirty' = dirty
      PROVE  TurnsInv' /\ DirtyIsListed'
  BY <1>0, <1>2 DEF TurnsInv, OneBusy, ReadIsCurrent, SavedIsDetached, WritesWhileSaving,
     Busy, DirtyIsListed, UnderWay, ToSet
<1>3. ASSUME NEW c \in Chunks, Recycle(c) \/ Get(c) PROVE TurnsInv' /\ DirtyIsListed'
  BY <1>2, <1>3 DEF Recycle, Get, cache, dirties, declares, saves
<1>4. ASSUME Storage PROVE TurnsInv' /\ DirtyIsListed'
  BY <1>2, <1>4 DEF Storage, Put, ServeGet, cache, dirties, declares, saves
<1>5. ASSUME Callback PROVE TurnsInv' /\ DirtyIsListed'
  BY <1>2, <1>5 DEF Callback, Loaded, Confirmed, cache, dirties, declares, saves
<1>6. ASSUME Crash PROVE TurnsInv' /\ DirtyIsListed'
  BY <1>6 DEF Crash, TurnsInv, OneBusy, ReadIsCurrent, SavedIsDetached,
   WritesWhileSaving, DirtyIsListed, Busy, NoThread, NoBytes, Nothing
<1> QED
  BY <1>0, <1>1, <1>3, <1>4, <1>5, <1>6 DEF Others, Inv

LEMMA NextKeepsInv ==
  ASSUME Turns, Inv, [Next]_vars
  PROVE  Inv'
<1>1. CASE UNCHANGED vars
  BY <1>1 DEF vars, Inv, TypeOK, TurnsInv, OneBusy, ReadIsCurrent, SavedIsDetached,
     WritesWhileSaving, Busy, DirtyIsListed, UnderWay, ToSet
<1>2. ASSUME NEW t \in Threads, Step(t) PROVE Inv'
  BY <1>2, ReadDirtyStateKeepsInv, EnlistKeepsInv, FullSavesKeepsInv, SaveBytesKeepsInv,
     DeclareCleanKeepsInv, SendPutKeepsInv DEF Step
<1> QED
  BY <1>1, <1>2, NextSteps, OthersKeepInv, SaveKeepsInv

LEMMA InvHolds ==
  ASSUME Turns
  PROVE  Spec => []Inv
<1>1. Inv /\ [Next]_vars => Inv'
  BY NextKeepsInv
<1> QED
  BY <1>1, InitEstablishesInv, PTL DEF Spec

(***************************************************************************)
(* TypeOK: every variable keeps its type; above all a list never takes     *)
(* more slots than its array has, and a save finds a free list.            *)
(***************************************************************************)
THEOREM TypeCorrect ==
  ASSUME Turns
  PROVE  Spec => []TypeOK
BY InvHolds, PTL DEF Inv

(***************************************************************************)
(* DirtyIsListed: whatever the storage does and whenever the process dies, *)
(* callers who take turns never leave a dirty chunk that no save will see. *)
(***************************************************************************)
THEOREM NothingIsForgotten ==
  ASSUME Turns
  PROVE  Spec => []DirtyIsListed
BY InvHolds, PTL DEF Inv

-----------------------------------------------------------------------------
(* A storage that accepts what it is sent, and chunks asked for once: the  *)
(* contents of a chunk only grow from the disk through the requests to the *)
(* cache, and what is being loaded is neither cached nor on its way out.   *)

Careful == {"turns", "accepts", "one load"} \subseteq Cares

BatchesFresh == \A t \in Threads, c \in Chunks :
  batch[t][c] # 0 => c \in resident /\ batch[t][c] = value[c]

WrittenIn == \A t \in Threads : written[t] # None => batch[t][written[t]] # 0

DirtyChanged == \A c \in dirty : value[c] # 0

InOrder == \A c \in Chunks :
  /\ c \in resident => disk[c] <= value[c]
  /\ \A i \in Puts(requests, c) :
       /\ disk[c] <= requests[i].batch[c] /\ requests[i].batch[c] <= clock
       /\ c \in resident => requests[i].batch[c] <= value[c]
       /\ \A j \in Puts(requests, c) :
            i <= j => requests[i].batch[c] <= requests[j].batch[c]

ClockAhead == \A c \in Chunks : value[c] <= clock /\ disk[c] <= clock

AnswersKept == \A c \in Chunks :
  /\ confirmed[c] <= disk[c]
  /\ \A i \in Puts(answers, c) : answers[i].batch[c] <= disk[c]

LoadsMiss ==
  /\ \A i \in Loads(requests) :
       /\ requests[i].of \notin resident
       /\ \A j \in Puts(requests, requests[i].of) : j < i
  /\ \A i \in Loads(answers) :
       /\ answers[i].of \notin resident
       /\ answers[i].found = disk[answers[i].of]
       /\ Puts(requests, answers[i].of) = {}

LoadsOnce ==
  /\ \A i, j \in Loads(requests) : requests[i].of = requests[j].of => i = j
  /\ \A i, j \in Loads(answers) : answers[i].of = answers[j].of => i = j
  /\ \A i \in Loads(requests), j \in Loads(answers) : requests[i].of # answers[j].of

StoreInv == /\ BatchesFresh /\ WrittenIn /\ DirtyChanged /\ CleanIsSent
            /\ InOrder /\ ClockAhead /\ AnswersKept /\ LoadsMiss /\ LoadsOnce

LEMMA InitEstablishesStoreInv == Init => StoreInv
<1> SUFFICES ASSUME Init PROVE StoreInv
  OBVIOUS
<1>1. /\ requests = <<>> /\ answers = <<>> /\ disk = Nothing /\ value = Nothing
      /\ confirmed = Nothing /\ batch = NoBytes /\ dirty = {} /\ written = NoThread
      /\ clock = 0 /\ Nothing \in Batches
  BY InitTyped DEF Init, TypeOK
<1>2. \A c \in Chunks : Puts(<<>>, c) = {}
  BY DEF Puts
<1>3. Loads(<<>>) = {}
  BY DEF Loads
<1>4. Stored = Nothing
  BY <1>1, StoredOfNone DEF Stored
<1> QED
  BY <1>1, <1>2, <1>3, <1>4 DEF StoreInv, BatchesFresh, WrittenIn, DirtyChanged, CleanIsSent,
     InOrder, ClockAhead, AnswersKept, LoadsMiss, LoadsOnce, Nothing, NoBytes, NoThread

LEMMA StoreUntouched ==
  ASSUME StoreInv, UNCHANGED <<resident, value, dirty, batch, written, requests, answers,
                               disk, confirmed, clock>>
  PROVE  StoreInv'
BY DEF StoreInv, BatchesFresh, WrittenIn, DirtyChanged, CleanIsSent, Stored,
   InOrder, ClockAhead, AnswersKept, LoadsMiss, LoadsOnce

(* With nobody inside the graph no save has anything in its stream.        *)
LEMMA QuietIsUnwritten ==
  ASSUME Careful, Inv, Quiet
  PROVE  \A t \in Threads : written[t] = None /\ batch[t] = Nothing
BY DEF Careful, Quiet, Inv, TurnsInv, WritesWhileSaving, Busy

LEMMA ChangeKeepsStore ==
  ASSUME Careful, Inv, StoreInv, NEW t \in Threads, NEW c \in Chunks, Change(t, c)
  PROVE  StoreInv'
<1>1. TypeOK /\ StoreInv /\ \A u \in Threads : written[u] = None /\ batch[u] = Nothing
  BY QuietIsUnwritten DEF Change, Turn, Inv
<1>2. /\ clock' = clock + 1 /\ value' = [value EXCEPT ![c] = clock + 1]
      /\ dirty' = dirty \cup {c} /\ clock \in Nat
      /\ UNCHANGED <<resident, batch, written, requests, answers, disk, confirmed>>
  BY <1>1 DEF Change, saves, network, TypeOK, Moments
<1>3. /\ value \in [Chunks -> Nat] /\ disk \in [Chunks -> Nat] /\ requests \in Seq(Requests)
      /\ value'[c] = clock + 1 /\ \A d \in Chunks : d # c => value'[d] = value[d]
  BY <1>1, <1>2 DEF TypeOK, Batches, Moments
<1>4. BatchesFresh' /\ WrittenIn'
  BY <1>1, <1>2 DEF BatchesFresh, WrittenIn, Nothing
<1>5. DirtyChanged'
  BY <1>1, <1>2, <1>3 DEF StoreInv, DirtyChanged, TypeOK
<1>6. CleanIsSent'
  BY <1>1, <1>2, <1>3 DEF StoreInv, CleanIsSent, Stored, TypeOK
<1>7. InOrder'
  <2> SUFFICES ASSUME NEW d \in Chunks, NEW i \in Puts(requests, d)
               PROVE  /\ d \in resident => disk[d] <= value'[d]
                      /\ requests[i].batch[d] <= clock + 1
                      /\ d \in resident => requests[i].batch[d] <= value'[d]
    <3>1. \A d \in Chunks : d \in resident => disk[d] <= value'[d]
      BY <1>1, <1>2, <1>3 DEF StoreInv, InOrder, ClockAhead
    <3> QED
      BY <1>1, <1>2, <3>1 DEF StoreInv, InOrder
  <2>1. requests[i].batch[d] \in Nat
    BY <1>3, LastPut DEF Moments
  <2> QED
    BY <1>1, <1>2, <1>3, <2>1 DEF StoreInv, InOrder, ClockAhead
<1>8. ClockAhead'
  BY <1>1, <1>2, <1>3 DEF StoreInv, ClockAhead
<1>9. AnswersKept' /\ LoadsMiss' /\ LoadsOnce'
  BY <1>1, <1>2 DEF StoreInv, AnswersKept, LoadsMiss, LoadsOnce
<1> QED
  BY <1>4, <1>5, <1>6, <1>7, <1>8, <1>9 DEF StoreInv

LEMMA SaveBytesKeepsStore ==
  ASSUME Inv, StoreInv, NEW t \in Threads, SaveBytes(t)
  PROVE  StoreInv'
<1> DEFINE k == lists[saving[t]][next[t] + 1]
<1>1. TypeOK /\ StoreInv
  BY DEF Inv
<1>2. /\ batch' = IF k \in dirty THEN [batch EXCEPT ![t][k] = value[k]] ELSE batch
      /\ written' = [written EXCEPT ![t] = IF k \in dirty THEN k ELSE None]
      /\ UNCHANGED <<resident, value, dirty, requests, answers, disk, confirmed, clock>>
  BY DEF SaveBytes, cache, network
<1> HIDE DEF k
<1>3. \A u \in Threads, c \in Chunks :
        batch'[u][c] = IF u = t /\ c = k /\ k \in dirty THEN value[c] ELSE batch[u][c]
  BY <1>1, <1>2 DEF TypeOK, Batches
<1>4. \A u \in Threads : written'[u] # None =>
        (u = t /\ written'[u] = k /\ k \in dirty) \/ written'[u] = written[u]
  BY <1>1, <1>2 DEF TypeOK
<1>5. BatchesFresh' /\ WrittenIn'
  <2>1. \A u \in Threads : written[u] # None => written[u] \in Chunks
    BY <1>1 DEF TypeOK
  <2>2. dirty \subseteq resident /\ resident \subseteq Chunks
    BY <1>1 DEF TypeOK
  <2> QED
    BY <1>1, <1>2, <1>3, <1>4, <2>1, <2>2 DEF StoreInv, BatchesFresh, WrittenIn, DirtyChanged
<1>6. CleanIsSent'
  BY <1>1, <1>2, <1>3 DEF StoreInv, CleanIsSent, Stored, TypeOK
<1>7. DirtyChanged' /\ InOrder' /\ ClockAhead' /\ AnswersKept' /\ LoadsMiss' /\ LoadsOnce'
  BY <1>1, <1>2 DEF StoreInv, DirtyChanged, InOrder, ClockAhead, AnswersKept, LoadsMiss,
     LoadsOnce
<1> QED
  BY <1>5, <1>6, <1>7 DEF StoreInv

LEMMA DeclareCleanKeepsStore ==
  ASSUME Inv, StoreInv, NEW t \in Threads, DeclareClean(t)
  PROVE  StoreInv'
<1>1. TypeOK /\ StoreInv
  BY DEF Inv
<1>2. /\ written[t] # None /\ dirty' = dirty \ {written[t]}
      /\ written' = [written EXCEPT ![t] = None]
      /\ UNCHANGED <<resident, value, batch, requests, answers, disk, confirmed, clock>>
  BY DEF DeclareClean, network
<1>3. BatchesFresh' /\ WrittenIn'
  BY <1>1, <1>2 DEF StoreInv, BatchesFresh, WrittenIn, TypeOK
<1>4. CleanIsSent'
  <2>1. /\ written[t] \in Chunks
        /\ batch[t][written[t]] = value[written[t]] /\ value[written[t]] # 0
    BY <1>1, <1>2 DEF StoreInv, BatchesFresh, WrittenIn, TypeOK
  <2> QED
    BY <1>1, <1>2, <2>1 DEF StoreInv, CleanIsSent, Stored
<1>5. DirtyChanged' /\ InOrder' /\ ClockAhead' /\ AnswersKept' /\ LoadsMiss' /\ LoadsOnce'
  BY <1>1, <1>2 DEF StoreInv, DirtyChanged, InOrder, ClockAhead, AnswersKept, LoadsMiss,
     LoadsOnce
<1> QED
  BY <1>3, <1>4, <1>5 DEF StoreInv

LEMMA SendPutKeepsStore ==
  ASSUME Inv, StoreInv, NEW t \in Threads, SendPut(t)
  PROVE  StoreInv'
<1> DEFINE m == [kind |-> "put", batch |-> batch[t]]
<1>1. TypeOK /\ StoreInv
  BY DEF Inv
<1>2. /\ requests' = Append(requests, m) /\ batch' = [batch EXCEPT ![t] = Nothing]
      /\ UNCHANGED <<resident, value, dirty, written, answers, disk, confirmed, clock>>
      /\ written[t] = None
  BY DEF SendPut, cache
<1>3. /\ m \in Requests /\ requests \in Seq(Requests) /\ m.kind = "put" /\ m.batch = batch[t]
      /\ \A c \in Chunks : batch[t][c] \in Nat /\ value[c] \in Nat /\ disk[c] \in Nat
      /\ clock \in Nat
  BY <1>1, Messages DEF TypeOK, Batches, Moments
<1> HIDE DEF m
<1>4. /\ \A c \in Chunks : Puts(requests', c) =
             Puts(requests, c) \cup {i \in {Len(requests) + 1} : batch[t][c] # 0}
      /\ \A c \in Chunks : Puts(requests, c) \subseteq 1 .. Len(requests)
      /\ \A c \in Chunks : \A i \in Puts(requests, c) : requests'[i] = requests[i]
      /\ Loads(requests') = Loads(requests)
      /\ Loads(requests) \subseteq 1 .. Len(requests)
      /\ \A i \in Loads(requests) : requests'[i] = requests[i]
      /\ requests'[Len(requests) + 1] = m /\ Len(requests) \in Nat
  <2>1. ASSUME NEW c \in Chunks
        PROVE  /\ Puts(requests', c) =
                    Puts(requests, c) \cup {i \in {Len(requests) + 1} : batch[t][c] # 0}
               /\ Puts(requests, c) \subseteq 1 .. Len(requests)
               /\ \A i \in Puts(requests, c) : requests'[i] = requests[i]
    BY <1>2, <1>3, PutsOfAppend
  <2>2. /\ Loads(requests') = Loads(requests)
        /\ Loads(requests) \subseteq 1 .. Len(requests)
        /\ \A i \in Loads(requests) : requests'[i] = requests[i]
        /\ requests'[Len(requests) + 1] = m /\ Len(requests) \in Nat
    <3>1. /\ Loads(Append(requests, m)) =
               Loads(requests) \cup {i \in {Len(requests) + 1} : m.kind = "get"}
          /\ Len(requests) \in Nat /\ Loads(requests) \subseteq 1 .. Len(requests)
          /\ \A i \in Loads(requests) : Append(requests, m)[i] = requests[i]
          /\ Append(requests, m)[Len(requests) + 1] = m
      BY <1>3, LoadsOfAppend
    <3> QED
      BY <1>2, <1>3, <3>1
  <2> QED
    BY <2>1, <2>2
<1>5. \A c \in Chunks : batch[t][c] # 0 => c \in resident /\ batch[t][c] = value[c]
  BY <1>1 DEF StoreInv, BatchesFresh
<1>6. BatchesFresh' /\ WrittenIn'
  BY <1>1, <1>2 DEF StoreInv, BatchesFresh, WrittenIn, TypeOK, Nothing
<1>7. CleanIsSent'
  <2> SUFFICES ASSUME NEW c \in resident \ dirty
               PROVE  \/ (Stored')[c] = value[c]
                      \/ \E u \in Threads : batch'[u][c] = value[c] /\ value[c] # 0
    BY <1>2 DEF CleanIsSent
  <2>1. c \in Chunks
    BY <1>1 DEF TypeOK
  <2>2. (Stored')[c] = IF batch[t][c] # 0 THEN batch[t][c] ELSE Stored[c]
    BY <1>1, <1>2, <1>3, <2>1, StoredOfAppend DEF Stored, TypeOK
  <2>3. CASE Stored[c] = value[c]
    BY <1>5, <2>1, <2>2, <2>3
  <2>4. ASSUME NEW u \in Threads, batch[u][c] = value[c], value[c] # 0
        PROVE  \/ (Stored')[c] = value[c]
               \/ batch'[u][c] = value[c] /\ value[c] # 0
    BY <1>1, <1>2, <2>2, <2>4 DEF TypeOK
  <2> QED
    BY <1>1, <2>3, <2>4 DEF StoreInv, CleanIsSent
<1>8. InOrder'
  <2> SUFFICES ASSUME NEW c \in Chunks, NEW i \in Puts(requests', c)
               PROVE  /\ disk[c] <= requests'[i].batch[c] /\ requests'[i].batch[c] <= clock
                      /\ c \in resident => requests'[i].batch[c] <= value[c]
                      /\ \A j \in Puts(requests', c) :
                           i <= j => requests'[i].batch[c] <= requests'[j].batch[c]
    BY <1>1, <1>2 DEF StoreInv, InOrder
  <2>1. CASE i \in Puts(requests, c)
    <3>1. /\ requests'[i] = requests[i] /\ requests[i].batch[c] \in Nat
          /\ i \in 1 .. Len(requests)
      BY <1>3, <1>4, <2>1, LastPut DEF Moments
    <3>2. /\ disk[c] <= requests[i].batch[c] /\ requests[i].batch[c] <= clock
          /\ c \in resident => requests[i].batch[c] <= value[c]
          /\ \A j \in Puts(requests, c) :
               i <= j => requests[i].batch[c] <= requests[j].batch[c]
      BY <1>1, <2>1 DEF StoreInv, InOrder
    <3> QED
      BY <1>3, <1>4, <1>5, <3>1, <3>2
  <2>2. CASE i \notin Puts(requests, c)
    <3>1. i = Len(requests) + 1 /\ batch[t][c] # 0 /\ requests'[i].batch[c] = value[c]
      BY <1>3, <1>4, <1>5, <2>2
    <3>2. \A j \in Puts(requests', c) : i <= j => j = i
      BY <1>4, <3>1
    <3> QED
      BY <1>1, <1>3, <1>5, <3>1, <3>2 DEF StoreInv, InOrder, ClockAhead
  <2> QED
    BY <2>1, <2>2
<1>9. LoadsMiss' /\ LoadsOnce'
  <2>0. \A c \in Chunks \ resident : Puts(requests', c) = Puts(requests, c)
    BY <1>4, <1>5
  <2>1. \A i \in Loads(requests) :
          requests[i].of \in Chunks /\ Puts(requests', requests[i].of) = Puts(requests, requests[i].of)
    <3>1. \A i \in Loads(requests) : requests[i].of \in Chunks
      BY <1>3, Messages, ElementOfSeq, LenProperties DEF Loads
    <3> QED
      BY <1>1, <2>0, <3>1 DEF StoreInv, LoadsMiss
  <2>2. \A i \in Loads(answers) :
          answers[i].of \in Chunks /\ Puts(requests', answers[i].of) = Puts(requests, answers[i].of)
    <3>1. \A i \in Loads(answers) : answers[i].of \in Chunks
      BY <1>1, Messages, ElementOfSeq, LenProperties DEF Loads, TypeOK
    <3> QED
      BY <1>1, <2>0, <3>1 DEF StoreInv, LoadsMiss
  <2>3. LoadsMiss'
    BY <1>1, <1>2, <1>4, <2>1, <2>2 DEF StoreInv, LoadsMiss
  <2>4. LoadsOnce'
    BY <1>1, <1>2, <1>4 DEF StoreInv, LoadsOnce
  <2> QED
    BY <2>3, <2>4
<1>10. DirtyChanged' /\ ClockAhead' /\ AnswersKept'
  BY <1>1, <1>2 DEF StoreInv, DirtyChanged, ClockAhead, AnswersKept
<1> QED
  BY <1>6, <1>7, <1>8, <1>9, <1>10 DEF StoreInv

LEMMA RecycleKeepsStore ==
  ASSUME Careful, Inv, StoreInv, NEW c \in Chunks, Recycle(c)
  PROVE  StoreInv'
<1>1. TypeOK /\ StoreInv /\ \A u \in Threads : written[u] = None /\ batch[u] = Nothing
  BY QuietIsUnwritten DEF Recycle, Inv
<1>2. /\ resident' = resident \ {c} /\ c \in resident \ dirty
      /\ value' = [value EXCEPT ![c] = 0]
      /\ UNCHANGED <<dirty, batch, written, requests, answers, disk, confirmed, clock>>
  BY DEF Recycle, saves, network
<1>3. clock \in Nat /\ \A d \in Chunks : value'[d] = IF d = c THEN 0 ELSE value[d]
  BY <1>1, <1>2 DEF TypeOK, Batches, Moments
<1>4. BatchesFresh' /\ WrittenIn' /\ DirtyChanged' /\ ClockAhead'
  BY <1>1, <1>2, <1>3
  DEF StoreInv, BatchesFresh, WrittenIn, DirtyChanged, ClockAhead, Nothing, TypeOK
<1>5. CleanIsSent'
  BY <1>1, <1>2, <1>3 DEF StoreInv, CleanIsSent, Stored, TypeOK
<1>6. InOrder' /\ AnswersKept' /\ LoadsMiss' /\ LoadsOnce'
  BY <1>1, <1>2, <1>3 DEF StoreInv, InOrder, AnswersKept, LoadsMiss, LoadsOnce
<1> QED
  BY <1>4, <1>5, <1>6 DEF StoreInv

LEMMA GetKeepsStore ==
  ASSUME Careful, Inv, StoreInv, NEW c \in Chunks, Get(c)
  PROVE  StoreInv'
<1> DEFINE m == [kind |-> "get", of |-> c]
<1>1. TypeOK /\ StoreInv
  BY DEF Inv
<1>2. /\ c \notin resident /\ ~Loading(c) /\ requests' = Append(requests, m)
      /\ UNCHANGED <<resident, value, dirty, batch, written, answers, disk, confirmed, clock>>
  BY DEF Get, Careful, cache, saves
<1>3. m \in Requests /\ requests \in Seq(Requests) /\ m.kind = "get" /\ m.of = c
  BY <1>1, Messages DEF TypeOK
<1> HIDE DEF m
<1>4. /\ Loads(requests') = Loads(requests) \cup {Len(requests) + 1}
      /\ Len(requests) \in Nat /\ Loads(requests) \subseteq 1 .. Len(requests)
      /\ \A i \in Loads(requests) : requests'[i] = requests[i]
      /\ requests'[Len(requests) + 1] = m
  <2>1. /\ Loads(Append(requests, m)) =
             Loads(requests) \cup {i \in {Len(requests) + 1} : m.kind = "get"}
        /\ Len(requests) \in Nat /\ Loads(requests) \subseteq 1 .. Len(requests)
        /\ \A i \in Loads(requests) : Append(requests, m)[i] = requests[i]
        /\ Append(requests, m)[Len(requests) + 1] = m
    BY <1>3, LoadsOfAppend
  <2> QED
    BY <1>2, <1>3, <2>1
<1>5. \A d \in Chunks : /\ Puts(requests', d) = Puts(requests, d)
                        /\ Puts(requests, d) \subseteq 1 .. Len(requests)
                        /\ \A i \in Puts(requests, d) : requests'[i] = requests[i]
  <2> TAKE d \in Chunks
  <2>1. /\ Puts(Append(requests, m), d) = Puts(requests, d)
        /\ Puts(requests, d) \subseteq 1 .. Len(requests)
        /\ \A i \in Puts(requests, d) : Append(requests, m)[i] = requests[i]
    <3>1. /\ Puts(Append(requests, m), d) =
               Puts(requests, d) \cup {i \in {Len(requests) + 1} : m.kind = "put" /\ m.batch[d] # 0}
          /\ Puts(requests, d) \subseteq 1 .. Len(requests)
          /\ \A i \in Puts(requests, d) : Append(requests, m)[i] = requests[i]
      BY <1>3, PutsOfAppend
    <3> QED
      BY <1>3, <3>1
  <2> QED
    BY <1>2, <2>1
<1>6. Stored' = Stored
  <2>1. \A d \in Chunks : AllWritten(disk, Append(requests, m))[d] = AllWritten(disk, requests)[d]
    BY <1>1, <1>3, StoredOfAppend DEF TypeOK
  <2> QED
    BY <1>2, <2>1 DEF Stored, AllWritten
<1>7. CleanIsSent'
  BY <1>1, <1>2, <1>6 DEF StoreInv, CleanIsSent
<1>8. InOrder'
  BY <1>1, <1>2, <1>5 DEF StoreInv, InOrder
<1>9. LoadsMiss'
  <2>1. \A i \in Loads(requests) : requests[i].of \in Chunks
    BY <1>3, Messages, ElementOfSeq, LenProperties DEF Loads
  <2>2. \A i \in Loads(answers) : answers[i].of \in Chunks
    BY <1>1, Messages, ElementOfSeq, LenProperties DEF Loads, TypeOK
  <2>3. \A i \in Loads(requests') : /\ requests'[i].of \notin resident
                                    /\ \A j \in Puts(requests', requests'[i].of) : j < i
    BY <1>1, <1>2, <1>3, <1>4, <1>5, <2>1 DEF StoreInv, LoadsMiss
  <2> QED
    BY <1>1, <1>2, <1>5, <2>2, <2>3 DEF StoreInv, LoadsMiss
<1>10. LoadsOnce'
  BY <1>1, <1>2, <1>3, <1>4 DEF StoreInv, LoadsOnce, Loading
<1>11. BatchesFresh' /\ WrittenIn' /\ DirtyChanged' /\ ClockAhead' /\ AnswersKept'
  BY <1>1, <1>2 DEF StoreInv, BatchesFresh, WrittenIn, DirtyChanged, ClockAhead, AnswersKept
<1> QED
  BY <1>7, <1>8, <1>9, <1>10, <1>11 DEF StoreInv

LEMMA LoadedKeepsStore ==
  ASSUME Inv, StoreInv, Loaded
  PROVE  StoreInv'
<1> DEFINE k == Head(answers).of
<1>1. TypeOK /\ StoreInv
  BY DEF Inv
<1>2. /\ answers # <<>> /\ Head(answers).kind = "get"
      /\ value' = IF k \in resident THEN value ELSE [value EXCEPT ![k] = Head(answers).found]
      /\ resident' = resident \cup {k} /\ answers' = Tail(answers)
      /\ UNCHANGED <<dirty, batch, written, requests, disk, confirmed, clock>>
  BY DEF Loaded, saves
<1>3. /\ answers \in Seq(Answers) /\ Tail(answers) \in Seq(Answers)
      /\ 1 \in Loads(answers) /\ Head(answers) = answers[1] /\ k \in Chunks
      /\ \A i \in Loads(answers') : /\ i \in Nat \ {0} /\ i + 1 \in Loads(answers)
                                    /\ answers'[i] = answers[i + 1]
  <2>1. /\ answers \in Seq(Answers) /\ Tail(answers) \in Seq(Answers)
        /\ Head(answers) = answers[1] /\ k \in Chunks
    BY <1>1, <1>2, TailIs, Messages DEF TypeOK
  <2>2. /\ 1 \in Loads(answers)
        /\ \A i \in Loads(answers') : /\ i \in Nat \ {0} /\ i + 1 \in Loads(answers)
                                      /\ answers'[i] = answers[i + 1]
    BY <1>2, <2>1, LoadsOfTail
  <2> QED
    BY <2>1, <2>2
<1>4. /\ k \notin resident /\ Head(answers).found = disk[k] /\ Puts(requests, k) = {}
      /\ \A c \in Chunks : value'[c] = IF c = k THEN disk[c] ELSE value[c]
  <2>1. k \notin resident /\ Head(answers).found = disk[k] /\ Puts(requests, k) = {}
    BY <1>1, <1>3 DEF StoreInv, LoadsMiss
  <2> QED
    BY <1>1, <1>2, <1>3, <2>1 DEF TypeOK, Batches
<1> HIDE DEF k
<1>5. BatchesFresh' /\ WrittenIn' /\ DirtyChanged' /\ ClockAhead'
  BY <1>1, <1>2, <1>3, <1>4
  DEF StoreInv, BatchesFresh, WrittenIn, DirtyChanged, ClockAhead, TypeOK
<1>6. CleanIsSent'
  <2>1. Stored[k] = disk[k]
    BY <1>1, <1>3, <1>4, StoredIs DEF Stored, TypeOK
  <2>2. Stored' = Stored /\ k \notin dirty
    BY <1>1, <1>2, <1>4 DEF Stored, TypeOK
  <2> QED
    BY <1>1, <1>2, <1>3, <1>4, <2>1, <2>2 DEF StoreInv, CleanIsSent, TypeOK
<1>7. InOrder'
  <2>1. disk[k] \in Nat
    BY <1>1, <1>3 DEF TypeOK, Batches, Moments
  <2> QED
    BY <1>1, <1>2, <1>3, <1>4, <2>1 DEF StoreInv, InOrder
<1>8. AnswersKept'
  <2>1. \A c \in Chunks : \A i \in Puts(answers', c) : /\ i + 1 \in Puts(answers, c)
                                                      /\ answers'[i] = answers[i + 1]
    BY <1>2, <1>3, PutsOfTail
  <2> QED
    BY <1>1, <1>2, <2>1 DEF StoreInv, AnswersKept
<1>9. LoadsMiss'
  <2>1. \A i \in Loads(requests) : requests[i].of # k
    BY <1>1, <1>3 DEF StoreInv, LoadsOnce, k
  <2>2. \A i \in Loads(answers') : answers'[i].of # k
    BY <1>1, <1>3 DEF StoreInv, LoadsOnce, k
  <2> QED
    BY <1>1, <1>2, <1>3, <2>1, <2>2 DEF StoreInv, LoadsMiss
<1>10. LoadsOnce'
  <2>1. \A i, j \in Loads(answers') : answers'[i].of = answers'[j].of => i + 1 = j + 1
    BY <1>1, <1>3 DEF StoreInv, LoadsOnce
  <2>2. \A i, j \in Loads(answers') : i + 1 = j + 1 => i = j
    BY <1>3
  <2>3. \A i \in Loads(requests), j \in Loads(answers') : requests[i].of # answers'[j].of
    BY <1>1, <1>3 DEF StoreInv, LoadsOnce
  <2> QED
    BY <1>1, <1>2, <2>1, <2>2, <2>3 DEF StoreInv, LoadsOnce
<1> QED
  BY <1>5, <1>6, <1>7, <1>8, <1>9, <1>10 DEF StoreInv

LEMMA ConfirmedKeepsStore ==
  ASSUME Inv, StoreInv, Confirmed
  PROVE  /\ StoreInv'
         /\ \A c \in Chunks : confirmed[c] <= confirmed'[c]
<1>1. TypeOK /\ StoreInv
  BY DEF Inv
<1>2. /\ answers # <<>> /\ Head(answers).kind = "put"
      /\ confirmed' = [c \in Chunks |->
           IF Head(answers).batch[c] > confirmed[c] THEN Head(answers).batch[c]
                                                    ELSE confirmed[c]]
      /\ answers' = Tail(answers)
      /\ UNCHANGED <<resident, value, dirty, batch, written, requests, disk, clock>>
  BY DEF Confirmed, cache, saves
<1>3. /\ answers \in Seq(Answers) /\ Head(answers) = answers[1]
      /\ Head(answers).batch \in Batches
      /\ \A i \in Loads(answers') : /\ i \in Nat \ {0} /\ i + 1 \in Loads(answers)
                                    /\ answers'[i] = answers[i + 1]
      /\ \A c \in Chunks : \A i \in Puts(answers', c) : /\ i + 1 \in Puts(answers, c)
                                                      /\ answers'[i] = answers[i + 1]
  <2>1. answers \in Seq(Answers) /\ Head(answers) = answers[1]
        /\ Head(answers).batch \in Batches
    BY <1>1, <1>2, TailIs, Messages DEF TypeOK
  <2>2. \A i \in Loads(answers') : /\ i \in Nat \ {0} /\ i + 1 \in Loads(answers)
                                  /\ answers'[i] = answers[i + 1]
    BY <1>2, <2>1, LoadsOfTail
  <2>3. \A c \in Chunks : \A i \in Puts(answers', c) : /\ i + 1 \in Puts(answers, c)
                                                     /\ answers'[i] = answers[i + 1]
    BY <1>2, <2>1, PutsOfTail
  <2> QED
    BY <2>1, <2>2, <2>3
<1>4. ASSUME NEW c \in Chunks
      PROVE  confirmed'[c] <= disk[c] /\ confirmed[c] <= confirmed'[c]
  <2>1. confirmed[c] \in Nat /\ disk[c] \in Nat /\ Head(answers).batch[c] \in Nat
    BY <1>1, <1>3 DEF TypeOK, Batches, Moments
  <2>2. Head(answers).batch[c] # 0 => Head(answers).batch[c] <= disk[c]
    <3>1. Head(answers).batch[c] # 0 => 1 \in Puts(answers, c)
      BY <1>2, <1>3, PutsOfTail
    <3> QED
      BY <1>1, <1>3, <3>1 DEF StoreInv, AnswersKept
  <2> QED
    BY <1>1, <1>2, <2>1, <2>2 DEF StoreInv, AnswersKept
<1>5. AnswersKept'
  BY <1>1, <1>2, <1>3, <1>4 DEF StoreInv, AnswersKept
<1>6. LoadsMiss'
  <2>1. \A i \in Loads(answers') : /\ answers'[i].of \notin resident
                                  /\ answers'[i].found = disk[answers'[i].of]
                                  /\ Puts(requests, answers'[i].of) = {}
    BY <1>1, <1>3 DEF StoreInv, LoadsMiss
  <2> QED
    BY <1>1, <1>2, <2>1 DEF StoreInv, LoadsMiss
<1>8. LoadsOnce'
  <2>1. \A i, j \in Loads(answers') : answers'[i].of = answers'[j].of => i + 1 = j + 1
    BY <1>1, <1>3 DEF StoreInv, LoadsOnce
  <2>2. \A i, j \in Loads(answers') : i + 1 = j + 1 => i = j
    BY <1>3
  <2>3. \A i \in Loads(requests), j \in Loads(answers') : requests[i].of # answers'[j].of
    BY <1>1, <1>3 DEF StoreInv, LoadsOnce
  <2> QED
    BY <1>1, <1>2, <2>1, <2>2, <2>3 DEF StoreInv, LoadsOnce
<1>7. BatchesFresh' /\ WrittenIn' /\ DirtyChanged' /\ CleanIsSent' /\ InOrder' /\ ClockAhead'
  BY <1>1, <1>2 DEF StoreInv, BatchesFresh, WrittenIn, DirtyChanged, CleanIsSent, Stored,
     InOrder, ClockAhead
<1> QED
  BY <1>4, <1>5, <1>6, <1>7, <1>8 DEF StoreInv

(* The storage takes a request: positions in the queue move up by one.     *)
LEMMA RequestTaken ==
  ASSUME TypeOK, requests # <<>>, requests' = Tail(requests)
  PROVE  /\ Head(requests) = requests[1] /\ Head(requests) \in Requests
         /\ Tail(requests) \in Seq(Requests)
         /\ \A c \in Chunks : \A i \in Puts(requests', c) :
              i \in Nat /\ i + 1 \in Puts(requests, c) /\ requests'[i] = requests[i + 1]
         /\ \A c \in Chunks :
              1 \in Puts(requests, c) <=> Head(requests).kind = "put" /\ Head(requests).batch[c] # 0
         /\ \A i \in Loads(requests') :
              i \in Nat \ {0} /\ i + 1 \in Loads(requests) /\ requests'[i] = requests[i + 1]
         /\ 1 \in Loads(requests) <=> Head(requests).kind = "get"
<1>1. /\ requests \in Seq(Requests) /\ Tail(requests) \in Seq(Requests)
      /\ Head(requests) = requests[1] /\ Head(requests) \in Requests
  BY TailIs DEF TypeOK
<1>2. ASSUME NEW c \in Chunks
      PROVE  /\ \A i \in Puts(requests', c) :
                   i \in Nat /\ i + 1 \in Puts(requests, c) /\ requests'[i] = requests[i + 1]
             /\ 1 \in Puts(requests, c) <=>
                   Head(requests).kind = "put" /\ Head(requests).batch[c] # 0
  BY <1>1, PutsOfTail
<1>3. /\ \A i \in Loads(requests') :
           i \in Nat \ {0} /\ i + 1 \in Loads(requests) /\ requests'[i] = requests[i + 1]
      /\ 1 \in Loads(requests) <=> Head(requests).kind = "get"
  BY <1>1, LoadsOfTail
<1> QED
  BY <1>1, <1>2, <1>3

LEMMA RequestsStayOnce ==
  ASSUME TypeOK, StoreInv, requests # <<>>, requests' = Tail(requests)
  PROVE  /\ \A i \in Loads(requests') :
              /\ requests'[i].of \in Chunks /\ requests'[i].of \notin resident
              /\ \A j \in Puts(requests', requests'[i].of) : j < i
              /\ \A j \in Loads(answers) : requests'[i].of # answers[j].of
         /\ \A i, j \in Loads(requests') : requests'[i].of = requests'[j].of => i = j
<1>1. /\ \A c \in Chunks : \A i \in Puts(requests', c) : i \in Nat /\ i + 1 \in Puts(requests, c)
      /\ \A i \in Loads(requests') :
           i \in Nat \ {0} /\ i + 1 \in Loads(requests) /\ requests'[i] = requests[i + 1]
  BY RequestTaken
<1>2. \A i \in Loads(requests) : requests[i].of \in Chunks
  BY Messages, ElementOfSeq, LenProperties DEF Loads, TypeOK
<1>3. ASSUME NEW i \in Loads(requests')
      PROVE  /\ requests'[i].of \in Chunks /\ requests'[i].of \notin resident
             /\ \A j \in Puts(requests', requests'[i].of) : j < i
             /\ \A j \in Loads(answers) : requests'[i].of # answers[j].of
  <2> DEFINE c == requests'[i].of
  <2>1. i \in Nat /\ i + 1 \in Loads(requests) /\ c = requests[i + 1].of
    BY <1>1
  <2> HIDE DEF c
  <2>2. c \in Chunks /\ c \notin resident /\ \A j \in Loads(answers) : c # answers[j].of
    BY <1>2, <2>1 DEF StoreInv, LoadsMiss, LoadsOnce
  <2>3. \A j \in Puts(requests', c) : j \in Nat /\ j + 1 < i + 1
    BY <1>1, <2>1, <2>2 DEF StoreInv, LoadsMiss
  <2>4. \A j \in Puts(requests', c) : j < i
    BY <2>1, <2>3
  <2> QED
    BY <2>2, <2>4 DEF c
<1>4. \A i, j \in Loads(requests') : requests'[i].of = requests'[j].of => i + 1 = j + 1
  <2> SUFFICES ASSUME NEW i \in Loads(requests'), NEW j \in Loads(requests'),
                      requests'[i].of = requests'[j].of
               PROVE  i + 1 = j + 1
    OBVIOUS
  <2>1. /\ i + 1 \in Loads(requests) /\ requests'[i] = requests[i + 1]
        /\ j + 1 \in Loads(requests) /\ requests'[j] = requests[j + 1]
    BY <1>1
  <2> QED
    BY <2>1 DEF StoreInv, LoadsOnce
<1>5. \A i, j \in Loads(requests') : i + 1 = j + 1 => i = j
  BY <1>1
<1> QED
  BY <1>3, <1>4, <1>5

LEMMA PutKeepsStore ==
  ASSUME Careful, Inv, StoreInv, Put
  PROVE  /\ StoreInv' /\ Stored' = Stored
         /\ \A c \in Chunks : /\ disk[c] <= disk'[c]
                              /\ disk'[c] = disk[c] \/ \E i \in Puts(requests, c) :
                                                         disk'[c] = requests[i].batch[c]
<1> DEFINE b == Head(requests).batch
           m == [kind |-> "put", batch |-> b]
<1>1. TypeOK /\ StoreInv
  BY DEF Inv
<1>2. /\ requests # <<>> /\ Head(requests).kind = "put" /\ requests' = Tail(requests)
      /\ disk' = Written(disk, b) /\ answers' = Append(answers, m)
      /\ UNCHANGED <<resident, value, dirty, batch, written, confirmed, clock>>
  BY DEF Put, Careful, cache, saves
<1>3. /\ b \in Batches /\ m \in Answers /\ m.kind = "put" /\ m.batch = b
      /\ answers \in Seq(Answers) /\ Head(requests) = requests[1]
      /\ clock \in Nat
      /\ \A c \in Chunks : b[c] \in Nat /\ disk[c] \in Nat /\ confirmed[c] \in Nat
  <2>1. b \in Batches /\ Head(requests) = requests[1]
    BY <1>1, <1>2, RequestTaken, Messages
  <2> QED
    BY <1>1, <2>1, Messages DEF TypeOK, Batches, Moments
<1> HIDE DEF m, b
<1>4. \A c \in Chunks : /\ 1 \in Puts(requests, c) <=> b[c] # 0
                        /\ requests[1].batch[c] = b[c]
  BY <1>1, <1>2, <1>3, RequestTaken DEF b
<1>5. \A c \in Chunks : \A i \in Puts(requests', c) :
        i \in Nat /\ i + 1 \in Puts(requests, c) /\ requests'[i] = requests[i + 1]
  BY <1>1, <1>2, RequestTaken
<1>6. \A c \in Chunks : /\ disk'[c] = IF b[c] = 0 THEN disk[c] ELSE b[c]
                        /\ disk[c] <= disk'[c] /\ disk'[c] <= clock
                        /\ c \in resident => disk'[c] <= value[c]
  <2> TAKE c \in Chunks
  <2>1. disk'[c] = IF b[c] = 0 THEN disk[c] ELSE b[c]
    BY <1>2 DEF Written
  <2> QED
    BY <1>1, <1>3, <1>4, <2>1 DEF StoreInv, InOrder, ClockAhead
<1>7. Stored' = Stored
  BY <1>1, <1>2, StoredOfTail DEF Stored, b, TypeOK
<1>8. CleanIsSent' /\ BatchesFresh' /\ WrittenIn' /\ DirtyChanged'
  BY <1>1, <1>2, <1>7 DEF StoreInv, CleanIsSent, BatchesFresh, WrittenIn, DirtyChanged
<1>9. InOrder'
  <2> SUFFICES ASSUME NEW c \in Chunks, NEW i \in Puts(requests', c)
               PROVE  /\ disk'[c] <= requests'[i].batch[c] /\ requests'[i].batch[c] <= clock
                      /\ c \in resident => requests'[i].batch[c] <= value[c]
                      /\ \A j \in Puts(requests', c) :
                           i <= j => requests'[i].batch[c] <= requests'[j].batch[c]
    BY <1>2, <1>6 DEF InOrder
  <2>1. /\ i \in Nat /\ i + 1 \in Puts(requests, c) /\ requests'[i] = requests[i + 1]
        /\ \A j \in Puts(requests', c) : /\ j \in Nat /\ j + 1 \in Puts(requests, c)
                                         /\ requests'[j] = requests[j + 1]
    BY <1>5
  <2>2. disk'[c] <= requests[i + 1].batch[c]
    <3>1. CASE b[c] = 0
      BY <1>1, <1>6, <2>1, <3>1 DEF StoreInv, InOrder
    <3>2. CASE b[c] # 0
      <4>1. 1 \in Puts(requests, c) /\ 1 <= i + 1
        BY <1>4, <2>1, <3>2
      <4> QED
        BY <1>1, <1>4, <1>6, <2>1, <3>2, <4>1 DEF StoreInv, InOrder
    <3> QED
      BY <3>1, <3>2
  <2>3. \A j \in Puts(requests', c) :
          i <= j => requests'[i].batch[c] <= requests'[j].batch[c]
    <3> TAKE j \in Puts(requests', c)
    <3>1. i <= j => i + 1 <= j + 1
      BY <2>1
    <3> QED
      BY <1>1, <2>1, <3>1 DEF StoreInv, InOrder
  <2> QED
    BY <1>1, <2>1, <2>2, <2>3 DEF StoreInv, InOrder
<1>10. ClockAhead'
  BY <1>1, <1>2, <1>6 DEF StoreInv, ClockAhead
<1>11. /\ \A c \in Chunks : Puts(answers', c) =
             Puts(answers, c) \cup {i \in {Len(answers) + 1} : b[c] # 0}
       /\ \A c \in Chunks : \A i \in Puts(answers, c) :
             answers'[i] = answers[i] /\ answers[i].batch[c] \in Nat
       /\ answers'[Len(answers) + 1] = m
       /\ Loads(answers') = Loads(answers)
       /\ \A i \in Loads(answers) : answers'[i] = answers[i] /\ answers[i].of \in Chunks
  <2>1. ASSUME NEW c \in Chunks
        PROVE  /\ Puts(answers', c) = Puts(answers, c) \cup {i \in {Len(answers) + 1} : b[c] # 0}
               /\ \A i \in Puts(answers, c) : answers'[i] = answers[i]
               /\ answers'[Len(answers) + 1] = m
    BY <1>2, <1>3, PutsOfAppend
  <2>2. \A c \in Chunks : \A i \in Puts(answers, c) : answers[i].batch[c] \in Nat
    BY <1>3, Messages, ElementOfSeq, LenProperties DEF Puts, Batches, Moments
  <2>3. /\ Loads(answers') = Loads(answers) \cup {i \in {Len(answers) + 1} : m.kind = "get"}
        /\ \A i \in Loads(answers) : answers'[i] = answers[i]
        /\ answers'[Len(answers) + 1] = m
    BY <1>2, <1>3, LoadsOfAppend
  <2>4. \A i \in Loads(answers) : answers[i].of \in Chunks
    BY <1>3, Messages, ElementOfSeq, LenProperties DEF Loads
  <2>5. Loads(answers') = Loads(answers)
    BY <1>3, <2>3
  <2> QED
    BY <2>1, <2>2, <2>3, <2>4, <2>5
<1>12. AnswersKept'
  <2> SUFFICES ASSUME NEW c \in Chunks
               PROVE  /\ confirmed[c] <= disk'[c]
                      /\ \A i \in Puts(answers', c) : answers'[i].batch[c] <= disk'[c]
    BY <1>2 DEF AnswersKept
  <2>1. disk'[c] \in Nat /\ disk[c] <= disk'[c] /\ (b[c] # 0 => disk'[c] = b[c])
    BY <1>3, <1>6
  <2>2. \A i \in Puts(answers, c) : answers[i].batch[c] <= disk[c]
    BY <1>1 DEF StoreInv, AnswersKept
  <2>3. confirmed[c] <= disk[c]
    BY <1>1 DEF StoreInv, AnswersKept
  <2>4. ASSUME NEW i \in Puts(answers', c) PROVE answers'[i].batch[c] <= disk'[c]
    <3>1. CASE i \in Puts(answers, c)
      BY <1>3, <1>11, <2>1, <2>2, <3>1
    <3>2. CASE i = Len(answers) + 1 /\ b[c] # 0
      BY <1>3, <1>11, <2>1, <3>2
    <3> QED
      BY <1>11, <3>1, <3>2
  <2> QED
    BY <1>3, <2>1, <2>3, <2>4
<1>13. LoadsMiss'
  <2>1. ASSUME NEW i \in Loads(answers)
        PROVE  /\ answers[i].of \notin resident
               /\ answers[i].found = disk'[answers[i].of]
               /\ Puts(requests', answers[i].of) = {}
    <3> DEFINE c == answers[i].of
    <3>1. c \in Chunks /\ c \notin resident /\ answers[i].found = disk[c]
          /\ Puts(requests, c) = {}
      BY <1>1, <1>11 DEF StoreInv, LoadsMiss
    <3> HIDE DEF c
    <3>2. b[c] = 0 /\ Puts(requests', c) = {}
      BY <1>4, <1>5, <3>1
    <3> QED
      BY <1>6, <3>1, <3>2 DEF c
  <2>2. \A i \in Loads(requests') : /\ requests'[i].of \notin resident
                                   /\ \A j \in Puts(requests', requests'[i].of) : j < i
    BY <1>1, <1>2, RequestsStayOnce
  <2> QED
    BY <1>2, <1>11, <2>1, <2>2 DEF LoadsMiss
<1>14. LoadsOnce'
  <2>1. /\ \A i, j \in Loads(requests') : requests'[i].of = requests'[j].of => i = j
        /\ \A i \in Loads(requests'), j \in Loads(answers) : requests'[i].of # answers[j].of
    BY <1>1, <1>2, RequestsStayOnce
  <2>2. \A i, j \in Loads(answers) : answers[i].of = answers[j].of => i = j
    BY <1>1 DEF StoreInv, LoadsOnce
  <2> QED
    BY <1>11, <2>1, <2>2 DEF LoadsOnce
<1>15. \A c \in Chunks : disk'[c] = disk[c] \/ \E i \in Puts(requests, c) :
                                                  disk'[c] = requests[i].batch[c]
  BY <1>4, <1>6
<1> QED
  BY <1>6, <1>7, <1>8, <1>9, <1>10, <1>12, <1>13, <1>14, <1>15 DEF StoreInv

LEMMA ServeGetKeepsStore ==
  ASSUME Inv, StoreInv, ServeGet
  PROVE  StoreInv' /\ Stored' = Stored
<1> DEFINE k == Head(requests).of
           m == [kind |-> "get", of |-> k, found |-> disk[k]]
<1>1. TypeOK /\ StoreInv
  BY DEF Inv
<1>2. /\ requests # <<>> /\ Head(requests).kind = "get" /\ requests' = Tail(requests)
      /\ answers' = Append(answers, m)
      /\ UNCHANGED <<resident, value, dirty, batch, written, disk, confirmed, clock>>
  BY DEF ServeGet, cache, saves
<1>3. /\ k \in Chunks /\ Head(requests) = requests[1] /\ 1 \in Loads(requests)
      /\ m \in Answers /\ m.kind = "get" /\ m.of = k /\ m.found = disk[k]
      /\ answers \in Seq(Answers)
  <2>1. k \in Chunks /\ Head(requests) = requests[1] /\ 1 \in Loads(requests)
    BY <1>1, <1>2, RequestTaken, Messages
  <2>2. disk[k] \in Moments
    BY <1>1, <2>1 DEF TypeOK, Batches
  <2> QED
    BY <1>1, <2>1, <2>2, Messages DEF TypeOK
<1>4. k = requests[1].of
  BY <1>3
<1> HIDE DEF m, k
<1>5. \A c \in Chunks : \A i \in Puts(requests', c) :
        i \in Nat /\ i + 1 \in Puts(requests, c) /\ requests'[i] = requests[i + 1]
  BY <1>1, <1>2, RequestTaken
<1>6. Stored' = Stored
  BY <1>1, <1>2, StoredOfTail DEF Stored, TypeOK
<1>7. CleanIsSent' /\ BatchesFresh' /\ WrittenIn' /\ DirtyChanged' /\ ClockAhead'
  BY <1>1, <1>2, <1>6
  DEF StoreInv, CleanIsSent, BatchesFresh, WrittenIn, DirtyChanged, ClockAhead
<1>8. InOrder'
  <2> SUFFICES ASSUME NEW c \in Chunks, NEW i \in Puts(requests', c)
               PROVE  /\ disk[c] <= requests'[i].batch[c] /\ requests'[i].batch[c] <= clock
                      /\ c \in resident => requests'[i].batch[c] <= value[c]
                      /\ \A j \in Puts(requests', c) :
                           i <= j => requests'[i].batch[c] <= requests'[j].batch[c]
    BY <1>1, <1>2 DEF StoreInv, InOrder
  <2>1. \A j \in Puts(requests', c) : i <= j => i + 1 <= j + 1
    BY <1>5
  <2> QED
    BY <1>1, <1>5, <2>1 DEF StoreInv, InOrder
<1>9. /\ \A c \in Chunks : Puts(answers', c) = Puts(answers, c)
      /\ \A c \in Chunks : \A i \in Puts(answers, c) : answers'[i] = answers[i]
      /\ answers'[Len(answers) + 1] = m
      /\ Loads(answers') = Loads(answers) \cup {Len(answers) + 1}
      /\ \A i \in Loads(answers) : answers'[i] = answers[i] /\ answers[i].of \in Chunks
  <2>1. ASSUME NEW c \in Chunks
        PROVE  /\ Puts(answers', c) =
                    Puts(answers, c) \cup {i \in {Len(answers) + 1} : m.kind = "put" /\ m.batch[c] # 0}
               /\ \A i \in Puts(answers, c) : answers'[i] = answers[i]
    BY <1>2, <1>3, PutsOfAppend
  <2>2. ASSUME NEW c \in Chunks
        PROVE  Puts(answers', c) = Puts(answers, c)
    BY <1>3, <2>1
  <2>3. /\ Loads(answers') = Loads(answers) \cup {i \in {Len(answers) + 1} : m.kind = "get"}
        /\ \A i \in Loads(answers) : answers'[i] = answers[i]
        /\ answers'[Len(answers) + 1] = m
    BY <1>2, <1>3, LoadsOfAppend
  <2>4. \A i \in Loads(answers) : answers[i].of \in Chunks
    BY <1>3, Messages, ElementOfSeq, LenProperties DEF Loads
  <2>5. Loads(answers') = Loads(answers) \cup {Len(answers) + 1}
    BY <1>3, <2>3
  <2> QED
    BY <2>1, <2>2, <2>3, <2>4, <2>5
<1>10. AnswersKept'
  BY <1>1, <1>2, <1>9 DEF StoreInv, AnswersKept
<1>11. LoadsMiss'
  <2>1. k \notin resident /\ Puts(requests', k) = {}
    <3>1. k \notin resident /\ \A j \in Puts(requests, k) : j < 1
      BY <1>1, <1>3, <1>4 DEF StoreInv, LoadsMiss
    <3> QED
      BY <1>3, <1>5, <3>1
  <2>2. ASSUME NEW i \in Loads(answers)
        PROVE  /\ answers[i].of \notin resident /\ answers[i].found = disk[answers[i].of]
               /\ Puts(requests', answers[i].of) = {}
    BY <1>1, <1>5, <1>9 DEF StoreInv, LoadsMiss
  <2>3. \A i \in Loads(answers') : /\ answers'[i].of \notin resident
                                  /\ answers'[i].found = disk[answers'[i].of]
                                  /\ Puts(requests', answers'[i].of) = {}
    BY <1>3, <1>9, <2>1, <2>2
  <2>4. \A i \in Loads(requests') : /\ requests'[i].of \notin resident
                                   /\ \A j \in Puts(requests', requests'[i].of) : j < i
    BY <1>1, <1>2, RequestsStayOnce
  <2> QED
    BY <1>2, <2>3, <2>4 DEF LoadsMiss
<1>12. LoadsOnce'
  <2>1. /\ \A i, j \in Loads(requests') : requests'[i].of = requests'[j].of => i = j
        /\ \A i \in Loads(requests'), j \in Loads(answers) : requests'[i].of # answers[j].of
    BY <1>1, <1>2, RequestsStayOnce
  <2>2. \A i \in Loads(requests') : requests'[i].of # k
    <3>1. \A i \in Loads(requests') :
            i \in Nat \ {0} /\ i + 1 \in Loads(requests) /\ requests'[i] = requests[i + 1]
      BY <1>1, <1>2, RequestTaken
    <3>2. \A i \in Loads(requests') : i + 1 # 1
      BY <3>1
    <3> QED
      BY <1>1, <1>3, <1>4, <3>1, <3>2 DEF StoreInv, LoadsOnce
  <2>3. /\ \A i, j \in Loads(answers) : answers[i].of = answers[j].of => i = j
        /\ \A i \in Loads(answers) : answers[i].of # k
    BY <1>1, <1>3, <1>4 DEF StoreInv, LoadsOnce
  <2> QED
    BY <1>3, <1>9, <2>1, <2>2, <2>3 DEF LoadsOnce
<1> QED
  BY <1>6, <1>7, <1>8, <1>10, <1>11, <1>12 DEF StoreInv

(***************************************************************************)
(* What a read of a chunk gives, and where the disk stands to it.          *)
(***************************************************************************)
LEMMA VisibleIs ==
  ASSUME TypeOK
  PROVE  /\ Visible \in [Chunks -> Nat] /\ Stored \in Batches
         /\ \A c \in Chunks : Visible[c] = IF c \in resident THEN value[c] ELSE Stored[c]
<1>1. Stored \in Batches
  BY StoredTyped DEF Stored, TypeOK
<1> QED
  BY <1>1 DEF Visible, TypeOK, Batches, Moments

LEMMA SentIsVisible ==
  ASSUME TypeOK, StoreInv, NEW c \in Chunks
  PROVE  /\ disk[c] <= Visible[c]
         /\ \A i \in Puts(requests, c) : /\ disk[c] <= requests[i].batch[c]
                                         /\ requests[i].batch[c] <= Visible[c]
<1>1. /\ disk \in Batches /\ requests \in Seq(Requests) /\ disk[c] \in Nat
      /\ Visible[c] = IF c \in resident THEN value[c] ELSE Stored[c]
  BY VisibleIs DEF TypeOK, Batches, Moments
<1>2. /\ c \in resident => disk[c] <= value[c]
      /\ \A i \in Puts(requests, c) :
           /\ disk[c] <= requests[i].batch[c]
           /\ c \in resident => requests[i].batch[c] <= value[c]
           /\ \A j \in Puts(requests, c) :
                i <= j => requests[i].batch[c] <= requests[j].batch[c]
  BY DEF StoreInv, InOrder
<1>3. CASE c \in resident
  BY <1>1, <1>2, <1>3
<1>4. CASE c \notin resident /\ Puts(requests, c) = {}
  <2>1. Stored[c] = disk[c]
    BY <1>1, <1>4, StoredIs DEF Stored
  <2> QED
    BY <1>1, <1>4, <2>1
<1>5. CASE c \notin resident /\ Puts(requests, c) # {}
  <2> DEFINE l == Max(Puts(requests, c))
  <2>1. l \in Puts(requests, c) /\ \A i \in Puts(requests, c) : i <= l
    BY <1>1, <1>5, LastPut
  <2> HIDE DEF l
  <2>2. Stored[c] = requests[l].batch[c]
    BY <1>1, <2>1, StoredIs DEF Stored
  <2> QED
    BY <1>1, <1>2, <1>5, <2>1, <2>2
<1> QED
  BY <1>3, <1>4, <1>5

(* A crash leaves what was there, or something that was on its way.        *)
LEMMA CrashLeaves ==
  ASSUME TypeOK, StoreInv, Crash, NEW c \in Chunks
  PROVE  /\ disk[c] <= disk'[c] /\ disk'[c] <= Visible[c] /\ disk'[c] <= clock
         /\ disk'[c] \in Nat
<1>1. PICK n \in 0 .. Len(requests) : disk' = AllWritten(disk, SubSeq(requests, 1, n))
  BY DEF Crash
<1> DEFINE q == SubSeq(requests, 1, n)
<1>2. disk \in Batches /\ requests \in Seq(Requests) /\ disk[c] \in Nat /\ clock \in Nat
  BY DEF TypeOK, Batches, Moments
<1>3. /\ q \in Seq(Requests) /\ Puts(q, c) \subseteq Puts(requests, c)
      /\ \A i \in Puts(q, c) : q[i] = requests[i]
  <2>1. /\ Len(requests) \in Nat /\ n \in Nat /\ DOMAIN requests = 1 .. Len(requests)
        /\ \A i \in 1 .. n : requests[i] \in Requests
    BY <1>2, LenProperties, ElementOfSeq
  <2>2. q \in Seq(Requests) /\ Len(q) = n /\ \A i \in 1 .. n : q[i] = requests[i]
    BY <1>2, <2>1, SubSeqProperties
  <2>3. DOMAIN q = 1 .. n
    BY <2>2, LenProperties
  <2> HIDE DEF q
  <2> QED
    BY <2>1, <2>2, <2>3 DEF Puts
<1> HIDE DEF q
<1>4. CASE Puts(q, c) = {}
  <2>1. disk'[c] = disk[c]
    BY <1>1, <1>2, <1>3, <1>4, StoredIs DEF q
  <2> QED
    BY <1>2, <2>1, SentIsVisible DEF StoreInv, ClockAhead
<1>5. CASE Puts(q, c) # {}
  <2> DEFINE l == Max(Puts(q, c))
  <2>1. l \in Puts(q, c) /\ \A i \in Puts(q, c) : i <= l
    BY <1>3, <1>5, LastPut
  <2> HIDE DEF l
  <2>2. disk'[c] = q[l].batch[c]
    <3>1. AllWritten(disk, q)[c] = q[l].batch[c]
      BY <1>2, <1>3, <2>1, StoredIs
    <3> QED
      BY <1>1, <3>1 DEF q
  <2>3. l \in Puts(requests, c) /\ disk'[c] = requests[l].batch[c]
    BY <1>3, <2>1, <2>2
  <2>4. requests[l].batch[c] \in Nat /\ requests[l].batch[c] <= clock
    BY <1>2, <2>3, LastPut DEF StoreInv, InOrder, Moments
  <2> QED
    BY <2>3, <2>4, SentIsVisible
<1> QED
  BY <1>4, <1>5

LEMMA CrashKeepsStore ==
  ASSUME Inv, StoreInv, Crash
  PROVE  StoreInv'
<1>1. TypeOK /\ StoreInv
  BY DEF Inv
<1>2. /\ resident' = {} /\ value' = Nothing /\ dirty' = {} /\ written' = NoThread
      /\ batch' = NoBytes /\ requests' = <<>> /\ answers' = <<>>
      /\ UNCHANGED <<confirmed, clock>>
  BY DEF Crash
<1>3. /\ \A c \in Chunks : Puts(requests', c) = {} /\ Puts(answers', c) = {}
      /\ Loads(requests') = {} /\ Loads(answers') = {}
  BY <1>2 DEF Puts, Loads
<1>4. \A c \in Chunks : confirmed[c] <= disk'[c] /\ disk'[c] <= clock /\ 0 <= clock
  <2> TAKE c \in Chunks
  <2>1. confirmed[c] \in Nat /\ disk[c] \in Nat /\ clock \in Nat
    BY <1>1 DEF TypeOK, Batches, Moments
  <2> QED
    BY <1>1, <2>1, CrashLeaves DEF StoreInv, AnswersKept
<1> QED
  BY <1>2, <1>3, <1>4 DEF StoreInv, BatchesFresh, WrittenIn, DirtyChanged, CleanIsSent,
     InOrder, ClockAhead, AnswersKept, LoadsMiss, LoadsOnce, Nothing, NoBytes, NoThread

LEMMA NextKeepsStore ==
  ASSUME Careful, Inv, StoreInv, [Next]_vars
  PROVE  StoreInv'
<1>1. CASE UNCHANGED vars
  BY <1>1, StoreUntouched DEF vars
<1>2. ASSUME NEW t \in Threads, Save(t) \/ ReadDirtyState(t) \/ Enlist(t) \/ FullSaves(t)
      PROVE  StoreInv'
  BY <1>2, StoreUntouched
  DEF Save, ReadDirtyState, Enlist, FullSaves, Detach, cache, dirties, saves, network
<1>3. ASSUME NEW t \in Threads, Step(t) PROVE StoreInv'
  BY <1>2, <1>3, SaveBytesKeepsStore, DeclareCleanKeepsStore, SendPutKeepsStore DEF Step
<1>4. CASE Others
  BY <1>4, ChangeKeepsStore, RecycleKeepsStore, GetKeepsStore, PutKeepsStore,
     ServeGetKeepsStore, LoadedKeepsStore, ConfirmedKeepsStore, CrashKeepsStore
  DEF Others, Storage, Callback
<1> QED
  BY <1>1, <1>2, <1>3, <1>4, NextSteps

LEMMA StoreInvHolds ==
  ASSUME Careful
  PROVE  Spec => [](Inv /\ StoreInv)
<1>1. Turns
  BY DEF Careful, Turns
<1>2. Init => Inv /\ StoreInv
  BY InitEstablishesInv, InitEstablishesStoreInv
<1>3. Inv /\ StoreInv /\ [Next]_vars => (Inv /\ StoreInv)'
  BY <1>1, NextKeepsInv, NextKeepsStore
<1> QED
  BY <1>2, <1>3, PTL DEF Spec

(***************************************************************************)
(* CleanIsSent: for careful callers a clean chunk can be recycled at any   *)
(* moment, its contents are on their way to the storage or there.          *)
(***************************************************************************)
THEOREM CleanIsSafe ==
  ASSUME Careful
  PROVE  Spec => []CleanIsSent
<1>1. Inv /\ StoreInv => CleanIsSent
  BY DEF StoreInv
<1> QED
  BY <1>1, StoreInvHolds, PTL

-----------------------------------------------------------------------------
(* Every step of the pipeline is a step of the durable store or changes    *)
(* nothing that its users see.                                             *)

Seen == <<Visible, disk, confirmed, crashes>>

LEMMA SeenUnchanged ==
  ASSUME UNCHANGED <<resident, value, requests, disk, confirmed, crashes>>
  PROVE  UNCHANGED Seen
BY DEF Seen, Visible, Stored

LEMMA VisibleUnchanged ==
  ASSUME TypeOK, TypeOK', \A c \in Chunks : Visible'[c] = Visible[c]
  PROVE  Visible' = Visible
BY DEF Visible

LEMMA InitIsDurable == Init => Durable!Init
<1> SUFFICES ASSUME Init PROVE Durable!Init
  OBVIOUS
<1>1. TypeOK /\ Stored = disk
  BY InitTyped, StoredOfNone DEF Init, Stored, TypeOK
<1>2. Visible \in [Chunks -> Nat]
  BY <1>1, VisibleIs
<1>3. Visible = disk /\ confirmed = disk /\ crashes = 0
  BY <1>1 DEF Visible, Init, Nothing
<1> QED
  BY <1>2, <1>3 DEF Durable!Init, Durable!Versions

LEMMA ChangeIsDurable ==
  ASSUME TypeOK, TypeOK', StoreInv, NEW t \in Threads, NEW c \in Chunks, Change(t, c)
  PROVE  Durable!Change
<1>1. /\ c \in resident /\ clock' = clock + 1 /\ value' = [value EXCEPT ![c] = clock + 1]
      /\ UNCHANGED <<resident, requests, disk, confirmed, crashes>>
  BY DEF Change, network
<1>2. /\ Stored \in Batches /\ value \in Batches /\ value' \in Batches
      /\ value[c] \in Nat /\ clock \in Nat /\ value[c] <= clock
  <2>1. Stored \in Batches
    BY VisibleIs
  <2>2. value \in Batches /\ value' \in Batches /\ clock \in Nat
    BY DEF TypeOK, Moments
  <2>3. value[c] \in Nat /\ value[c] <= clock
    BY <2>2 DEF StoreInv, ClockAhead, Batches, Moments
  <2> QED
    BY <2>1, <2>2, <2>3
<1>3. /\ Visible' = [d \in Chunks |-> IF d \in resident THEN value'[d] ELSE Stored[d]]
      /\ Visible = [d \in Chunks |-> IF d \in resident THEN value[d] ELSE Stored[d]]
  BY <1>1 DEF Visible, Stored
<1>4. /\ Visible' \in [Chunks -> Nat] /\ Visible'[c] > Visible[c]
      /\ \A d \in Chunks \ {c} : Visible'[d] = Visible[d]
  BY <1>1, <1>2, <1>3 DEF Batches, Moments
<1> QED
  BY <1>1, <1>4 DEF Durable!Change, Durable!Versions

LEMMA SendPutIsUnseen ==
  ASSUME TypeOK, TypeOK', StoreInv, NEW t \in Threads, SendPut(t)
  PROVE  UNCHANGED Seen
<1> DEFINE m == [kind |-> "put", batch |-> batch[t]]
<1>1. /\ requests' = Append(requests, m)
      /\ UNCHANGED <<resident, value, disk, confirmed, crashes>>
  BY DEF SendPut, cache
<1>2. m \in Requests /\ m.kind = "put" /\ m.batch = batch[t]
  BY Messages DEF TypeOK
<1> HIDE DEF m
<1>3. ASSUME NEW c \in Chunks PROVE Visible'[c] = Visible[c]
  <2>1. (Stored')[c] = IF batch[t][c] # 0 THEN batch[t][c] ELSE Stored[c]
    <3>1. AllWritten(disk, Append(requests, m))[c] =
            IF m.kind = "put" /\ m.batch[c] # 0 THEN m.batch[c] ELSE AllWritten(disk, requests)[c]
      BY <1>2, StoredOfAppend DEF TypeOK
    <3> QED
      BY <1>1, <1>2, <3>1 DEF Stored
  <2>2. c \notin resident => (Stored')[c] = Stored[c]
    BY <2>1 DEF StoreInv, BatchesFresh
  <2> QED
    BY <1>1, <2>2 DEF Visible
<1> QED
  BY <1>1, <1>3, VisibleUnchanged DEF Seen

LEMMA RecycleIsUnseen ==
  ASSUME Careful, Inv, TypeOK', StoreInv, NEW c \in Chunks, Recycle(c)
  PROVE  UNCHANGED Seen
<1>1. /\ TypeOK /\ \A u \in Threads : batch[u] = Nothing
      /\ resident' = resident \ {c} /\ c \in resident \ dirty
      /\ value' = [value EXCEPT ![c] = 0]
      /\ UNCHANGED <<requests, disk, confirmed, crashes>>
  BY QuietIsUnwritten DEF Recycle, Inv, network
<1>2. Stored[c] = value[c] /\ Stored' = Stored
  BY <1>1 DEF StoreInv, CleanIsSent, Stored, Nothing
<1>3. \A d \in Chunks : Visible'[d] = Visible[d]
  BY <1>1, <1>2 DEF Visible, TypeOK, Batches
<1> QED
  BY <1>1, <1>3, VisibleUnchanged DEF Seen

LEMMA GetIsUnseen ==
  ASSUME TypeOK, TypeOK', NEW c \in Chunks, Get(c)
  PROVE  UNCHANGED Seen
<1> DEFINE m == [kind |-> "get", of |-> c]
<1>1. /\ requests' = Append(requests, m)
      /\ UNCHANGED <<resident, value, disk, confirmed, crashes>>
  BY DEF Get, cache
<1>2. m \in Requests /\ m.kind = "get"
  BY Messages
<1> HIDE DEF m
<1>3. ASSUME NEW d \in Chunks PROVE Visible'[d] = Visible[d]
  <2>1. AllWritten(disk, Append(requests, m))[d] = AllWritten(disk, requests)[d]
    BY <1>2, StoredOfAppend DEF TypeOK
  <2> QED
    BY <1>1, <2>1 DEF Visible, Stored
<1> QED
  BY <1>1, <1>3, VisibleUnchanged DEF Seen

LEMMA LoadedIsUnseen ==
  ASSUME TypeOK, TypeOK', StoreInv, Loaded
  PROVE  UNCHANGED Seen
<1> DEFINE k == Head(answers).of
<1>1. /\ answers # <<>> /\ Head(answers).kind = "get"
      /\ value' = IF k \in resident THEN value ELSE [value EXCEPT ![k] = Head(answers).found]
      /\ resident' = resident \cup {k}
      /\ UNCHANGED <<requests, disk, confirmed, crashes>>
  BY DEF Loaded
<1>2. 1 \in Loads(answers) /\ Head(answers) = answers[1] /\ k \in Chunks
  <2>1. Head(answers) = answers[1] /\ k \in Chunks
    BY <1>1, TailIs, Messages DEF TypeOK
  <2> QED
    BY <1>1, <2>1, LoadsOfTail DEF TypeOK
<1>3. k \notin resident /\ Head(answers).found = disk[k] /\ Puts(requests, k) = {}
  BY <1>2 DEF StoreInv, LoadsMiss
<1> HIDE DEF k
<1>4. Stored[k] = disk[k] /\ Stored' = Stored
  <2>1. AllWritten(disk, requests)[k] = disk[k]
    BY <1>2, <1>3, StoredIs DEF TypeOK
  <2> QED
    BY <1>1, <2>1 DEF Stored
<1>5. \A d \in Chunks : Visible'[d] = Visible[d]
  BY <1>1, <1>2, <1>3, <1>4 DEF Visible, TypeOK, Batches
<1> QED
  BY <1>1, <1>5, VisibleUnchanged DEF Seen

LEMMA ServeGetIsUnseen ==
  ASSUME Inv, StoreInv, ServeGet
  PROVE  UNCHANGED Seen
<1>1. Stored' = Stored /\ UNCHANGED <<resident, value, disk, confirmed, crashes>>
  BY ServeGetKeepsStore DEF ServeGet, cache
<1> QED
  BY <1>1 DEF Seen, Visible

LEMMA PutPersists ==
  ASSUME Careful, Inv, TypeOK', StoreInv, Put
  PROVE  Durable!Persist
<1>1. /\ Stored' = Stored /\ UNCHANGED <<resident, value, confirmed, crashes>>
      /\ \A c \in Chunks : /\ disk[c] <= disk'[c]
                           /\ disk'[c] = disk[c] \/ \E i \in Puts(requests, c) :
                                                      disk'[c] = requests[i].batch[c]
  BY PutKeepsStore DEF Put, cache
<1>2. Visible' = Visible /\ disk' \in [Chunks -> Nat]
  BY <1>1 DEF Visible, TypeOK, Batches, Moments
<1>3. \A c \in Chunks : disk'[c] <= Visible[c]
  BY <1>1, SentIsVisible DEF Inv
<1> QED
  BY <1>1, <1>2, <1>3 DEF Durable!Persist, Durable!Versions, Durable!AtMost

LEMMA ConfirmedConfirms ==
  ASSUME Inv, TypeOK', StoreInv, Confirmed
  PROVE  Durable!Confirm
<1>1. UNCHANGED <<resident, value, requests, disk, crashes>>
  BY DEF Confirmed, cache
<1>2. Visible' = Visible /\ confirmed' \in [Chunks -> Nat]
  BY <1>1 DEF Visible, Stored, TypeOK, Batches, Moments
<1>3. \A c \in Chunks : confirmed[c] <= confirmed'[c] /\ confirmed'[c] <= disk[c]
  BY <1>1, ConfirmedKeepsStore DEF StoreInv, AnswersKept
<1> QED
  BY <1>1, <1>2, <1>3 DEF Durable!Confirm, Durable!Versions, Durable!AtMost

LEMMA CrashIsDurable ==
  ASSUME Inv, TypeOK', StoreInv, Crash
  PROVE  Durable!Crash
<1>1. /\ resident' = {} /\ requests' = <<>>
      /\ crashes' = crashes + 1 /\ UNCHANGED confirmed
  BY DEF Crash
<1>2. disk' \in Batches /\ disk' \in [Chunks -> Nat]
  BY DEF TypeOK, Batches, Moments
<1>3. Visible' = disk'
  <2>1. AllWritten(disk', <<>>) = disk'
    BY <1>2, StoredOfNone
  <2> QED
    BY <1>1, <1>2, <2>1 DEF Visible, Stored
<1>4. \A c \in Chunks : /\ disk[c] <= disk'[c] /\ disk'[c] <= Visible[c]
                        /\ disk'[c] <= disk'[c]
  BY <1>2, CrashLeaves DEF Inv
<1> QED
  BY <1>1, <1>2, <1>3, <1>4 DEF Durable!Crash, Durable!Versions, Durable!AtMost

LEMMA NextIsDurable ==
  ASSUME Careful, Inv, TypeOK', StoreInv, [Next]_vars
  PROVE  [Durable!Next]_Seen
<1>1. CASE UNCHANGED vars
  BY <1>1, SeenUnchanged DEF vars
<1>2. ASSUME NEW t \in Threads, \/ Save(t) \/ ReadDirtyState(t) \/ Enlist(t) \/ FullSaves(t)
                                 \/ SaveBytes(t) \/ DeclareClean(t)
      PROVE  UNCHANGED Seen
  BY <1>2, SeenUnchanged
  DEF Save, ReadDirtyState, Enlist, FullSaves, Detach, SaveBytes, DeclareClean, cache, network
<1>3. ASSUME NEW t \in Threads, Step(t) PROVE UNCHANGED Seen
  BY <1>2, <1>3, SendPutIsUnseen DEF Step, Inv
<1>4. ASSUME NEW t \in Threads, NEW c \in Chunks, Change(t, c) PROVE Durable!Next
  BY <1>4, ChangeIsDurable DEF Inv, Durable!Next
<1>5. ASSUME NEW c \in Chunks, Recycle(c) \/ Get(c) PROVE UNCHANGED Seen
  BY <1>5, RecycleIsUnseen, GetIsUnseen DEF Inv
<1>6. CASE Storage
  BY <1>6, PutPersists, ServeGetIsUnseen DEF Storage, Durable!Next
<1>7. CASE Callback
  BY <1>7, ConfirmedConfirms, LoadedIsUnseen DEF Callback, Durable!Next, Inv
<1>8. CASE Crash
  BY <1>8, CrashIsDurable DEF Durable!Next
<1> QED
  BY <1>1, <1>2, <1>3, <1>4, <1>5, <1>6, <1>7, <1>8, NextSteps DEF Others

(***************************************************************************)
(* ImplementsDurable: for careful callers the graph with its storage is a  *)
(* durable store; a read gives the last change, however the chunk has been *)
(* cached, saved, recycled and loaded since, and a crash takes back no     *)
(* change that a save has confirmed.                                       *)
(***************************************************************************)
THEOREM PipelineIsDurable ==
  ASSUME Careful
  PROVE  Spec => ImplementsDurable
<1>1. Turns
  BY DEF Careful, Turns
<1>2. Inv /\ StoreInv /\ [Next]_vars => [Durable!Next]_Seen
  <2>1. Inv /\ [Next]_vars => TypeOK'
    BY <1>1, NextKeepsInv DEF Inv
  <2> QED
    BY <2>1, NextIsDurable
<1>3. Init /\ [][Durable!Next]_Seen => ImplementsDurable
  BY InitIsDurable DEF ImplementsDurable, Durable!Spec, Seen
<1> QED
  BY <1>2, <1>3, StoreInvHolds, PTL DEF Spec

=============================================================================
