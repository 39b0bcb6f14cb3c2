----------------------------- MODULE LruOps_proofs -----------------------------
(***************************************************************************)
(* What the operations on a queue of distinct slots do to its elements,    *)
(* for every capacity. FixedStack and ChunkSpace are proved from these.    *)
(***************************************************************************)
EXTENDS LruOps, SequenceTheorems, FiniteSetTheorems, TLAPS

(* A queue the code can be in: slots without repetition. *)
Queues == {q \in Seq(Slots) : IsInjective(q)}

(* A slot in the queue has a position there. *)
LEMMA PositionIsIndex ==
  ASSUME NEW q \in Seq(Slots), NEW m \in Range(q)
  PROVE  Position(q, m) \in 1 .. Len(q) /\ q[Position(q, m)] = m
<1>1. \E i \in DOMAIN q : q[i] = m
  BY DEF Range
<1>2. DOMAIN q = 1 .. Len(q)
  BY LenProperties
<1>. QED  BY <1>1, <1>2 DEF Position

(* The elements of a queue after one of them is removed. *)
LEMMA WithoutProperties ==
  ASSUME NEW q \in Queues, NEW m \in Range(q)
  PROVE  /\ Without(q, m) \in Queues
         /\ Len(Without(q, m)) = Len(q) - 1
         /\ Range(Without(q, m)) = Range(q) \ {m}
         /\ \A j \in 1 .. Len(q) - 1 :
              Without(q, m)[j] = IF j < Position(q, m) THEN q[j] ELSE q[j + 1]
<1> DEFINE i == Position(q, m)
           s == SubSeq(q, 1, i - 1)
           t == SubSeq(q, i + 1, Len(q))
           w == Without(q, m)
<1>0. q \in Seq(Slots) /\ Len(q) \in Nat /\ DOMAIN q = 1 .. Len(q)
  BY LenProperties DEF Queues
<1>1. i \in 1 .. Len(q) /\ q[i] = m
  BY PositionIsIndex, <1>0
<1> HIDE DEF i
<1>2. /\ s \in Seq(Slots) /\ Len(s) = i - 1
      /\ \A j \in 1 .. i - 1 : s[j] = q[j]
  <2>1. \A j \in 1 .. i - 1 : q[j] \in Slots
    BY <1>0, <1>1, ElementOfSeq
  <2>2. 1 \in Int /\ i - 1 \in Int
    BY <1>0, <1>1
  <2>3. /\ s \in Seq(Slots)
        /\ Len(s) = IF 1 <= i - 1 THEN (i - 1) - 1 + 1 ELSE 0
        /\ \A j \in 1 .. (i - 1) - 1 + 1 : s[j] = q[1 + j - 1]
    BY <2>1, <2>2, SubSeqProperties
  <2>. QED  BY <2>3, <1>0, <1>1
<1>3. /\ t \in Seq(Slots) /\ Len(t) = Len(q) - i
      /\ \A j \in 1 .. Len(q) - i : t[j] = q[i + j]
  <2>1. \A j \in i + 1 .. Len(q) : q[j] \in Slots
    BY <1>0, <1>1, ElementOfSeq
  <2>2. i + 1 \in Int /\ Len(q) \in Int
    BY <1>0, <1>1
  <2>3. /\ t \in Seq(Slots)
        /\ Len(t) = IF i + 1 <= Len(q) THEN Len(q) - (i + 1) + 1 ELSE 0
        /\ \A j \in 1 .. Len(q) - (i + 1) + 1 : t[j] = q[i + 1 + j - 1]
    BY <2>1, <2>2, SubSeqProperties
  <2>4. Len(t) = Len(q) - i
    <3>1. Len(t) = IF i + 1 <= Len(q) THEN Len(q) - (i + 1) + 1 ELSE 0
      BY <2>3, Zenon
    <3>2. \A l \in Nat : \A k \in 1 .. l :
            (IF k + 1 <= l THEN l - (k + 1) + 1 ELSE 0) = l - k
      OBVIOUS
    <3>. QED  BY <3>1, <3>2, <1>0, <1>1, Zenon
  <2>5. ASSUME NEW j \in 1 .. Len(q) - i PROVE t[j] = q[i + j]
    <3>1. j \in 1 .. Len(q) - (i + 1) + 1 /\ i + 1 + j - 1 = i + j
      BY <1>0, <1>1
    <3>. QED  BY <3>1, <2>3
  <2>. QED  BY <2>3, <2>4, <2>5
<1>4. w = s \o t
  BY DEF Without, RemoveAt, i
<1> HIDE DEF s, t, w
<1>5. /\ w \in Seq(Slots) /\ Len(w) = Len(q) - 1 /\ DOMAIN w = 1 .. Len(w)
      /\ \A j \in 1 .. Len(q) - 1 : w[j] = IF j < i THEN q[j] ELSE q[j + 1]
  <2>1. /\ s \o t \in Seq(Slots) /\ Len(s \o t) = Len(s) + Len(t)
        /\ \A j \in 1 .. Len(s) + Len(t) :
             (s \o t)[j] = IF j <= Len(s) THEN s[j] ELSE t[j - Len(s)]
    BY <1>2, <1>3, ConcatProperties
  <2>2. w \in Seq(Slots) /\ Len(w) = Len(q) - 1 /\ DOMAIN w = 1 .. Len(w)
    <3>1. w \in Seq(Slots) /\ Len(w) = Len(s) + Len(t)
      BY <2>1, <1>4, Zenon
    <3>2. Len(s) + Len(t) = Len(q) - 1
      BY <1>2, <1>3, <1>0, <1>1
    <3>. QED  BY <3>1, <3>2, LenProperties, Zenon
  <2>3. ASSUME NEW j \in 1 .. Len(q) - 1
        PROVE  w[j] = IF j < i THEN q[j] ELSE q[j + 1]
    <3>1. CASE j < i
      BY <3>1, <2>1, <1>0, <1>1, <1>2, <1>3, <1>4
    <3>2. CASE ~(j < i)
      <4>1. w[j] = t[j - (i - 1)]
        BY <3>2, <2>1, <1>0, <1>1, <1>2, <1>3, <1>4
      <4>2. j - (i - 1) \in 1 .. Len(q) - i /\ i + (j - (i - 1)) = j + 1
        BY <3>2, <1>0, <1>1
      <4>. QED  BY <3>2, <4>1, <4>2, <1>3
    <3>. QED  BY <3>1, <3>2
  <2>. QED  BY <2>2, <2>3
<1>6. \A a, b \in 1 .. Len(q) : q[a] = q[b] => a = b
  BY <1>0 DEF Queues, IsInjective
<1>7. IsInjective(w)
  <2> SUFFICES ASSUME NEW a \in 1 .. Len(q) - 1, NEW b \in 1 .. Len(q) - 1,
                      w[a] = w[b]
               PROVE  a = b
    BY <1>5 DEF IsInjective
  <2> QED  BY <1>0, <1>1, <1>5, <1>6
<1>8. Range(w) = Range(q) \ {m}
  <2>1. ASSUME NEW x \in Range(w) PROVE x \in Range(q) \ {m}
    <3>1. PICK j \in 1 .. Len(q) - 1 : x = w[j]
      BY <1>5 DEF Range
    <3>2. CASE j < i
      BY <3>1, <3>2, <1>0, <1>1, <1>5, <1>6 DEF Range
    <3>3. CASE ~(j < i)
      BY <3>1, <3>3, <1>0, <1>1, <1>5, <1>6 DEF Range
    <3>. QED  BY <3>2, <3>3
  <2>2. ASSUME NEW x \in Range(q) \ {m} PROVE x \in Range(w)
    <3>1. PICK j \in 1 .. Len(q) : x = q[j]
      BY <1>0 DEF Range
    <3>2. j # i
      BY <3>1, <1>1
    <3>3. CASE j < i
      <4>1. j \in 1 .. Len(q) - 1 /\ w[j] = x
        BY <3>1, <3>3, <1>0, <1>1, <1>5
      <4>. QED  BY <4>1, <1>5 DEF Range
    <3>4. CASE j > i
      <4>1. j - 1 \in 1 .. Len(q) - 1 /\ w[j - 1] = x
        BY <3>1, <3>4, <1>0, <1>1, <1>5
      <4>. QED  BY <4>1, <1>5 DEF Range
    <3>. QED  BY <3>2, <3>3, <3>4, <1>0, <1>1
  <2>. QED  BY <2>1, <2>2
<1>. QED  BY <1>5, <1>7, <1>8, <1>0 DEF Queues, w, i

(* Recycling takes the front and nothing else out of the queue. *)
LEMMA TailProperties ==
  ASSUME NEW q \in Queues, q # <<>>
  PROVE  /\ Head(q) \in Slots /\ Head(q) \in Range(q) /\ Head(q) = q[1]
         /\ Tail(q) \in Queues
         /\ Len(Tail(q)) = Len(q) - 1
         /\ \A j \in 1 .. Len(q) - 1 : Tail(q)[j] = q[j + 1]
         /\ Range(Tail(q)) = Range(q) \ {Head(q)}
<1>0. q \in Seq(Slots) /\ Len(q) \in Nat \ {0} /\ DOMAIN q = 1 .. Len(q)
  BY LenProperties, EmptySeq DEF Queues
<1>1. /\ Head(q) \in Slots /\ Head(q) = q[1]
      /\ Tail(q) \in Seq(Slots) /\ Len(Tail(q)) = Len(q) - 1
      /\ \A j \in 1 .. Len(q) - 1 : Tail(q)[j] = q[j + 1]
      /\ DOMAIN Tail(q) = 1 .. Len(q) - 1
  <2>1. Head(q) \in Slots /\ Tail(q) \in Seq(Slots) /\ Len(Tail(q)) = Len(q) - 1
        /\ \A j \in 1 .. Len(Tail(q)) : Tail(q)[j] = q[j + 1]
    BY <1>0, HeadTailProperties
  <2>2. Head(q) = q[1]
    BY <1>0
  <2>. QED  BY <2>1, <2>2, LenProperties
<1>2. \A a, b \in 1 .. Len(q) : q[a] = q[b] => a = b
  BY <1>0 DEF Queues, IsInjective
<1>3. Head(q) \in Range(q)
  BY <1>0, <1>1 DEF Range
<1>4. IsInjective(Tail(q))
  BY <1>0, <1>1, <1>2 DEF IsInjective
<1>5. Range(Tail(q)) = Range(q) \ {Head(q)}
  <2>1. ASSUME NEW x \in Range(Tail(q)) PROVE x \in Range(q) \ {Head(q)}
    <3>1. PICK j \in 1 .. Len(q) - 1 : x = Tail(q)[j]
      BY <1>1 DEF Range
    <3>. QED  BY <3>1, <1>0, <1>1, <1>2 DEF Range
  <2>2. ASSUME NEW x \in Range(q) \ {Head(q)} PROVE x \in Range(Tail(q))
    <3>1. PICK j \in 1 .. Len(q) : x = q[j]
      BY <1>0 DEF Range
    <3>2. j - 1 \in 1 .. Len(q) - 1 /\ Tail(q)[j - 1] = x
      BY <3>1, <1>0, <1>1
    <3>. QED  BY <3>2, <1>1 DEF Range
  <2>. QED  BY <2>1, <2>2
<1>. QED  BY <1>1, <1>3, <1>4, <1>5 DEF Queues

(* One more slot at the end of the queue. *)
LEMMA AppendQueue ==
  ASSUME NEW q \in Queues, NEW m \in Slots, m \notin Range(q)
  PROVE  /\ Append(q, m) \in Queues
         /\ Len(Append(q, m)) = Len(q) + 1
         /\ \A j \in 1 .. Len(q) : Append(q, m)[j] = q[j]
         /\ Append(q, m)[Len(q) + 1] = m
         /\ Range(Append(q, m)) = Range(q) \cup {m}
<1>0. q \in Seq(Slots) /\ Len(q) \in Nat /\ DOMAIN q = 1 .. Len(q)
  BY LenProperties DEF Queues
<1>1. /\ Append(q, m) \in Seq(Slots) /\ Len(Append(q, m)) = Len(q) + 1
      /\ \A j \in 1 .. Len(q) : Append(q, m)[j] = q[j]
      /\ Append(q, m)[Len(q) + 1] = m
      /\ DOMAIN Append(q, m) = 1 .. Len(q) + 1
  BY <1>0, AppendProperties, LenProperties
<1>2. \A a \in 1 .. Len(q) : q[a] # m
  BY <1>0 DEF Range
<1>3. \A a, b \in 1 .. Len(q) : q[a] = q[b] => a = b
  BY <1>0 DEF Queues, IsInjective
<1>4. IsInjective(Append(q, m))
  <2> SUFFICES ASSUME NEW a \in 1 .. Len(q) + 1, NEW b \in 1 .. Len(q) + 1,
                      Append(q, m)[a] = Append(q, m)[b]
               PROVE  a = b
    BY <1>1 DEF IsInjective
  <2> QED  BY <1>0, <1>1, <1>2, <1>3
<1>5. Range(Append(q, m)) = Range(q) \cup {m}
  <2>1. ASSUME NEW x \in Range(Append(q, m)) PROVE x \in Range(q) \cup {m}
    BY <1>0, <1>1 DEF Range
  <2>2. ASSUME NEW x \in Range(q) PROVE x \in Range(Append(q, m))
    BY <1>0, <1>1 DEF Range
  <2>3. m \in Range(Append(q, m))
    BY <1>0, <1>1 DEF Range
  <2>. QED  BY <2>1, <2>2, <2>3
<1>. QED  BY <1>1, <1>4, <1>5 DEF Queues

(* A queue that lacks a slot has room for it, so the capacity test of      *)
(* enqueue never turns a released slot away.                               *)
LEMMA RoomForAbsent ==
  ASSUME NEW q \in Queues, NEW m \in Slots, m \notin Range(q)
  PROVE  Len(q) < Capacity
<1> DEFINE T == Slots \ {m}
<1>0. q \in Seq(Slots) /\ Len(q) \in Nat /\ DOMAIN q = 1 .. Len(q)
      /\ q \in [1 .. Len(q) -> Slots] /\ IsInjective(q)
  BY LenProperties DEF Queues
<1>1. q \in [1 .. Len(q) -> T]
  BY <1>0 DEF Range
<1>2. IsFiniteSet(Slots) /\ Cardinality(Slots) = Capacity
  <2>1. 0 \in Int /\ Capacity - 1 \in Int
    BY CapacityAssumption
  <2>2. IsFiniteSet(0 .. Capacity - 1)
        /\ Cardinality(0 .. Capacity - 1) =
             IF 0 > Capacity - 1 THEN 0 ELSE (Capacity - 1) - 0 + 1
    BY <2>1, FS_Interval
  <2>. QED  BY <2>2, CapacityAssumption DEF Slots
<1>3. IsFiniteSet(T) /\ Cardinality(T) = Capacity - 1
  BY <1>2, FS_RemoveElement
<1>4. q \in Injection(1 .. Len(q), T)
  BY <1>0, <1>1 DEF Injection
<1>5. Cardinality(1 .. Len(q)) <= Cardinality(T)
  BY <1>3, <1>4, FS_Injection
<1>6. Cardinality(1 .. Len(q)) = Len(q)
  <2>1. Cardinality(1 .. Len(q)) = IF 1 > Len(q) THEN 0 ELSE Len(q) - 1 + 1
    BY <1>0, FS_Interval
  <2>. QED  BY <2>1, <1>0
<1>. QED  BY <1>0, <1>3, <1>5, <1>6, CapacityAssumption

(* A released slot is in the queue afterwards. *)
LEMMA ReleasedProperties ==
  ASSUME NEW q \in Queues, NEW m \in Slots
  PROVE  /\ Released(q, m) \in Queues
         /\ Range(Released(q, m)) = Range(q) \cup {m}
         /\ Accepts(q, m) <=> m \notin Range(q)
<1>1. CASE m \in Range(q)
  BY <1>1 DEF Released, Accepts, Enqueued
<1>2. CASE m \notin Range(q)
  BY <1>2, RoomForAbsent, AppendQueue DEF Released, Accepts, Enqueued
<1>. QED  BY <1>1, <1>2

(* At the start every slot is recyclable. *)
LEMMA FullQueueProperties ==
  FullQueue \in Queues /\ Range(FullQueue) = Slots
<1>1. FullQueue \in [1 .. Capacity -> Slots] /\ Capacity \in Nat
  BY CapacityAssumption DEF FullQueue, Slots
<1>2. FullQueue \in Seq(Slots)
  BY <1>1, SeqDef
<1>3. IsInjective(FullQueue)
  BY CapacityAssumption DEF FullQueue, IsInjective
<1>4. Range(FullQueue) = Slots
  <2>1. \A m \in Slots : m + 1 \in 1 .. Capacity /\ FullQueue[m + 1] = m
    BY CapacityAssumption DEF FullQueue, Slots
  <2>2. \A m \in Slots : m \in Range(FullQueue)
    BY <2>1, <1>1 DEF Range
  <2>3. \A x \in Range(FullQueue) : x \in Slots
    BY <1>1 DEF Range
  <2>. QED  BY <2>2, <2>3
<1>. QED  BY <1>2, <1>3, <1>4 DEF Queues

=============================================================================
