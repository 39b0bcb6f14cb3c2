--------------------------- MODULE FixedStack_proofs ---------------------------
(***************************************************************************)
(* FixedStack implements LruQueue for every capacity.                      *)
(*                                                                         *)
(* The inductive invariant is that the arrays hold a queue (Holding); one  *)
(* lemma per branch of the code says which queue they hold after it. The   *)
(* arrays determine the queue (OnlyOneQueue), so the refinement mapping    *)
(* moves from the one queue to the other.                                  *)
(***************************************************************************)
EXTENDS FixedStack, LruOps_proofs

(* The arrays now hold the queue q, in which every count slot is distinct. *)
Holding(q) ==
  q \in Queues /\ Len(q) = count /\ Lists(first, last, next, prev, q)

IInv == TypeOK /\ \E q \in Queues : Holding(q)

-----------------------------------------------------------------------------
(* A set of naturals that is not empty has a least element.                *)
LEMMA LeastNatural ==
  ASSUME NEW D \in SUBSET Nat, D # {}
  PROVE  \E i \in D : \A j \in D : i <= j
<1>1. PICK i \in D : \A j \in D : ~ (<<j, i>> \in OpToRel(<, Nat))
  BY NatLessThanWellFounded, WFMin
<1>2. \A j \in D : ~(j < i)
  BY <1>1 DEF OpToRel
<1>. QED  BY <1>2

(* The arrays hold at most one queue: the first slots are the same, and    *)
(* the link after equal slots leads to equal slots.                        *)
LEMMA OnlyOneQueue ==
  ASSUME NEW q \in Queues, NEW r \in Queues, Len(q) = Len(r),
         NEW f, NEW l, NEW n, NEW p, Lists(f, l, n, p, q), Lists(f, l, n, p, r)
  PROVE  q = r
<1> DEFINE D == {i \in 1 .. Len(q) : q[i] # r[i]}
<1>0. /\ q \in Seq(Slots) /\ Len(q) \in Nat
      /\ r \in Seq(Slots) /\ Len(r) \in Nat
  BY LenProperties DEF Queues
<1>1. CASE D = {}
  <2>1. \A i \in 1 .. Len(q) : q[i] = r[i]
    BY <1>1
  <2>. QED  BY <1>0, <2>1, SeqEqual
<1>2. CASE D # {}
  <2>1. D \in SUBSET Nat
    BY <1>0
  <2>2. PICK i \in D : \A j \in D : i <= j
    BY <1>2, <2>1, LeastNatural
  <2>3. i \in 1 .. Len(q) /\ q[i] # r[i] /\ q # <<>> /\ r # <<>>
    BY <1>0, <2>2, EmptySeq
  <2>4. i # 1
    BY <2>3 DEF Lists
  <2>5. i - 1 \in 1 .. Len(q) /\ i - 1 \notin D
    BY <1>0, <2>2, <2>3, <2>4
  <2>6. q[i - 1] = r[i - 1]
    BY <2>5
  <2>7. n[q[i - 1]] = q[i] /\ n[r[i - 1]] = r[i]
    <3>1. i - 1 # Len(q) /\ i - 1 # Len(r) /\ (i - 1) + 1 = i
      BY <1>0, <2>3
    <3>. QED  BY <2>5, <3>1 DEF Lists
  <2>. QED  BY <2>3, <2>6, <2>7
<1>. QED  BY <1>1, <1>2

(* What Holding says, index by index. *)
LEMMA HoldingFacts ==
  ASSUME NEW q \in Queues, Holding(q)
  PROVE  /\ q \in Seq(Slots) /\ Len(q) \in Nat /\ DOMAIN q = 1 .. Len(q)
         /\ count = Len(q) /\ Len(q) <= Capacity
         /\ \A i \in 1 .. Len(q) : q[i] \in Slots /\ q[i] \in Range(q)
         /\ \A i, j \in 1 .. Len(q) : q[i] = q[j] => i = j
         /\ \A m \in Range(q) : m \in Slots /\ \E i \in 1 .. Len(q) : q[i] = m
         /\ q = <<>> <=> Len(q) = 0
         /\ first = IF Len(q) = 0 THEN NoSlot ELSE q[1]
         /\ last = IF Len(q) = 0 THEN NoSlot ELSE q[Len(q)]
         /\ \A i \in 1 .. Len(q) :
              /\ prev[q[i]] = IF i = 1 THEN NoSlot ELSE q[i - 1]
              /\ next[q[i]] = IF i = Len(q) THEN NoSlot ELSE q[i + 1]
         /\ \A m \in Slots \ Range(q) : prev[m] = NoSlot /\ next[m] = NoSlot
<1>1. q \in Seq(Slots) /\ Len(q) \in Nat /\ DOMAIN q = 1 .. Len(q)
      /\ q \in [1 .. Len(q) -> Slots] /\ IsInjective(q)
  BY LenProperties DEF Queues
<1>2. q = <<>> <=> Len(q) = 0
  BY <1>1, EmptySeq
<1>3. Len(q) <= Capacity
  <2>1. CASE Range(q) = Slots
    <3>1. IsFiniteSet(Slots) /\ Cardinality(Slots) = Capacity
      <4>1. 0 \in Int /\ Capacity - 1 \in Int
        BY CapacityAssumption
      <4>2. IsFiniteSet(0 .. Capacity - 1)
            /\ Cardinality(0 .. Capacity - 1) =
                 IF 0 > Capacity - 1 THEN 0 ELSE (Capacity - 1) - 0 + 1
        BY <4>1, FS_Interval
      <4>. QED  BY <4>2, CapacityAssumption DEF Slots
    <3>2. q \in Injection(1 .. Len(q), Slots)
      BY <1>1 DEF Injection
    <3>3. Cardinality(1 .. Len(q)) <= Cardinality(Slots)
      BY <3>1, <3>2, FS_Injection
    <3>4. Cardinality(1 .. Len(q)) = IF 1 > Len(q) THEN 0 ELSE Len(q) - 1 + 1
      BY <1>1, FS_Interval
    <3>. QED  BY <1>1, <3>1, <3>3, <3>4
  <2>2. CASE Range(q) # Slots
    <3>1. Range(q) \subseteq Slots
      BY <1>1 DEF Range
    <3>2. PICK m \in Slots : m \notin Range(q)
      BY <2>2, <3>1
    <3>. QED  BY <3>2, <1>1, RoomForAbsent, CapacityAssumption
  <2>. QED  BY <2>1, <2>2
<1>4. \A i, j \in 1 .. Len(q) : q[i] = q[j] => i = j
  BY <1>1 DEF IsInjective
<1>5. \A i \in 1 .. Len(q) : q[i] \in Slots /\ q[i] \in Range(q)
  BY <1>1 DEF Range
<1>6. \A m \in Range(q) : m \in Slots /\ \E i \in 1 .. Len(q) : q[i] = m
  BY <1>1 DEF Range
<1>. QED  BY <1>1, <1>2, <1>3, <1>4, <1>5, <1>6 DEF Holding, Lists

(* A queue is held once its links are right, index by index. *)
LEMMA HoldingNext ==
  ASSUME NEW r \in Queues, count' = Len(r),
         first' = IF Len(r) = 0 THEN NoSlot ELSE r[1],
         last' = IF Len(r) = 0 THEN NoSlot ELSE r[Len(r)],
         \A i \in 1 .. Len(r) : prev'[r[i]] = IF i = 1 THEN NoSlot ELSE r[i - 1],
         \A i \in 1 .. Len(r) :
            next'[r[i]] = IF i = Len(r) THEN NoSlot ELSE r[i + 1],
         \A m \in Slots \ Range(r) : prev'[m] = NoSlot /\ next'[m] = NoSlot
  PROVE  Holding(r)'
<1>1. r = <<>> <=> Len(r) = 0
  BY EmptySeq DEF Queues
<1>. QED  BY <1>1 DEF Holding, Lists, Queues

-----------------------------------------------------------------------------
(* One lemma per branch of the code.                                       *)

(* enqueue's four tests find exactly the slots that are in the queue. *)
LEMMA ListedIsEnqueued ==
  ASSUME NEW q \in Queues, Holding(q), NEW m \in Slots
  PROVE  Listed(m) <=> m \in Range(q)
<1>1. ASSUME m \in Range(q) PROVE Listed(m)
  <2>1. PICK i \in 1 .. Len(q) : q[i] = m
    BY <1>1, HoldingFacts
  <2>2. CASE i = 1
    BY <2>1, <2>2, HoldingFacts DEF Listed
  <2>3. CASE i # 1
    <3>1. i - 1 \in 1 .. Len(q) /\ prev[m] = q[i - 1]
      BY <2>1, <2>3, HoldingFacts
    <3>2. q[i - 1] # NoSlot
      BY <3>1, HoldingFacts DEF Slots, NoSlot
    <3>. QED  BY <3>1, <3>2 DEF Listed
  <2>. QED  BY <2>2, <2>3
<1>2. ASSUME m \notin Range(q) PROVE ~Listed(m)
  <2>1. prev[m] = NoSlot /\ next[m] = NoSlot
    BY <1>2, HoldingFacts
  <2>2. m # NoSlot
    BY DEF Slots, NoSlot
  <2>3. first # m /\ last # m
    <3>1. CASE Len(q) = 0
      BY <3>1, <2>2, HoldingFacts
    <3>2. CASE Len(q) # 0
      <4>1. 1 \in 1 .. Len(q) /\ Len(q) \in 1 .. Len(q)
        BY <3>2, HoldingFacts
      <4>. QED  BY <1>2, <3>2, <4>1, HoldingFacts
    <3>. QED  BY <3>1, <3>2
  <2>. QED  BY <2>1, <2>3 DEF Listed
<1>. QED  BY <1>1, <1>2

LEMMA EnqueueStep ==
  ASSUME TypeOK, NEW q \in Queues, Holding(q), NEW m \in Slots, Enqueue(m)
  PROVE  /\ Holding(Released(q, m))' /\ TypeOK'
         /\ answer' = Answer(Accepts(q, m), m)
<1>1. CASE m \in Range(q)
  <2>1. EnqueueRefused(m) /\ ~Accepts(q, m)
    BY <1>1, ListedIsEnqueued
       DEF Enqueue, EnqueueAtEnd, Accepts, Enqueued
  <2>2. UNCHANGED list /\ answer' = Answer(FALSE, m) /\ Released(q, m) = q
    BY <2>1 DEF EnqueueRefused, Released
  <2>3. Holding(q)'
    BY <2>2 DEF Holding, Lists, list
  <2>4. TypeOK'
    BY <2>2 DEF TypeOK, list, Answer, Link
  <2>5. Answer(FALSE, m) = Answer(Accepts(q, m), m)
    BY <2>1 DEF Answer, Accepts
  <2>. QED  BY <2>2, <2>3, <2>4, <2>5
<1>2. CASE m \notin Range(q)
  <2> DEFINE r == Append(q, m)
  <2>1. Len(q) < Capacity /\ Accepts(q, m)
    BY <1>2, RoomForAbsent DEF Accepts, Enqueued
  <2>2. EnqueueAtEnd(m) /\ Released(q, m) = r
    <3>1. ~Listed(m) /\ ~(count >= Capacity)
      BY <1>2, <2>1, ListedIsEnqueued, HoldingFacts, CapacityAssumption
    <3>. QED  BY <2>1, <3>1 DEF Enqueue, EnqueueRefused, Released
  <2>3. /\ r \in Queues /\ Len(r) = Len(q) + 1
        /\ \A j \in 1 .. Len(q) : r[j] = q[j]
        /\ r[Len(q) + 1] = m /\ Range(r) = Range(q) \cup {m}
    BY <1>2, AppendQueue
  <2> HIDE DEF r
  <2>4. prev[m] = NoSlot /\ next[m] = NoSlot
    BY <1>2, HoldingFacts
  <2>5. first = NoSlot <=> Len(q) = 0
    <3>1. Len(q) # 0 => 1 \in 1 .. Len(q)
      BY HoldingFacts
    <3>. QED  BY <3>1, HoldingFacts DEF Slots, NoSlot
  <2>6. Len(q) # 0 => last = q[Len(q)] /\ Len(q) \in 1 .. Len(q) /\ last \in Slots
    BY HoldingFacts
  <2>7. \A i \in 1 .. Len(q) : q[i] # m
    BY <1>2, HoldingFacts
  <2>8. TypeOK' /\ answer' = Answer(TRUE, m)
    <3>1. count' \in 0 .. Capacity
      BY <2>1, <2>2, HoldingFacts, CapacityAssumption DEF EnqueueAtEnd
    <3>. QED  BY <2>2, <2>5, <2>6, <3>1 DEF EnqueueAtEnd, TypeOK, Answer, Link
  <2>9. count' = Len(r)
    BY <2>2, <2>3, HoldingFacts DEF EnqueueAtEnd
  <2>10. first' = IF Len(r) = 0 THEN NoSlot ELSE r[1]
    <3>1. CASE Len(q) = 0
      BY <3>1, <2>2, <2>3, <2>5 DEF EnqueueAtEnd
    <3>2. CASE Len(q) # 0
      BY <3>2, <2>2, <2>3, <2>5, HoldingFacts DEF EnqueueAtEnd
    <3>. QED  BY <3>1, <3>2
  <2>11. last' = IF Len(r) = 0 THEN NoSlot ELSE r[Len(r)]
    BY <2>2, <2>3, HoldingFacts DEF EnqueueAtEnd
  <2>12. ASSUME NEW i \in 1 .. Len(r)
         PROVE  prev'[r[i]] = IF i = 1 THEN NoSlot ELSE r[i - 1]
    <3>1. CASE i \in 1 .. Len(q)
      <4>1. prev'[q[i]] = prev[q[i]]
        BY <3>1, <2>2, <2>7, HoldingFacts DEF EnqueueAtEnd, TypeOK
      <4>2. i # 1 => i - 1 \in 1 .. Len(q)
        BY <3>1, HoldingFacts
      <4>3. r[i] = q[i] /\ (i # 1 => r[i - 1] = q[i - 1])
        BY <3>1, <4>2, <2>3
      <4>4. prev[q[i]] = IF i = 1 THEN NoSlot ELSE q[i - 1]
        BY <3>1, HoldingFacts
      <4>. QED  BY <4>1, <4>3, <4>4
    <3>2. CASE i = Len(q) + 1
      <4>1. prev'[m] = last
        BY <2>2 DEF EnqueueAtEnd, TypeOK
      <4>2. CASE Len(q) = 0
        BY <3>2, <4>1, <4>2, <2>3, HoldingFacts
      <4>3. CASE Len(q) # 0
        <5>1. i # 1 /\ i - 1 = Len(q) /\ r[i - 1] = last
          BY <3>2, <4>3, <2>3, <2>6, HoldingFacts
        <5>. QED  BY <3>2, <4>1, <5>1, <2>3
      <4>. QED  BY <4>2, <4>3
    <3>. QED  BY <3>1, <3>2, <2>3, HoldingFacts
  <2>13. ASSUME NEW i \in 1 .. Len(r)
         PROVE  next'[r[i]] = IF i = Len(r) THEN NoSlot ELSE r[i + 1]
    <3>1. CASE i \in 1 .. Len(q) - 1
      <4>1. q[i] # last /\ q[i] \in Slots
        BY <3>1, <2>6, HoldingFacts
      <4>2. next'[q[i]] = next[q[i]]
        BY <4>1, <2>2 DEF EnqueueAtEnd, TypeOK
      <4>. QED  BY <3>1, <4>2, <2>3, HoldingFacts
    <3>2. CASE i = Len(q)
      <4>1. next'[last] = m
        BY <3>2, <2>2, <2>5, <2>6 DEF EnqueueAtEnd, TypeOK
      <4>. QED  BY <3>2, <4>1, <2>3, <2>6, HoldingFacts
    <3>3. CASE i = Len(q) + 1
      <4>1. next'[m] = next[m]
        BY <2>2, <2>5, <2>6, <2>7 DEF EnqueueAtEnd, TypeOK
      <4>. QED  BY <3>3, <4>1, <2>3, <2>4
    <3>. QED  BY <3>1, <3>2, <3>3, <2>3, HoldingFacts
  <2>14. ASSUME NEW x \in Slots \ Range(r)
         PROVE  prev'[x] = NoSlot /\ next'[x] = NoSlot
    <3>1. x # m /\ x \in Slots \ Range(q)
      BY <2>3
    <3>2. Len(q) # 0 => x # last
      BY <3>1, <2>6, HoldingFacts
    <3>3. prev'[x] = prev[x] /\ next'[x] = next[x]
      BY <3>1, <3>2, <2>2, <2>5 DEF EnqueueAtEnd, TypeOK
    <3>. QED  BY <3>1, <3>3, HoldingFacts
  <2>15. Holding(r)'
    BY <2>3, <2>9, <2>10, <2>11, <2>12, <2>13, <2>14, HoldingNext
  <2>. QED  BY <2>1, <2>2, <2>8, <2>15
<1>. QED  BY <1>1, <1>2

(* The front leaves the list: dequeueTail, and dequeue of the front. *)
LEMMA DropFirstStep ==
  ASSUME TypeOK, NEW q \in Queues, Holding(q), Len(q) # 0, DropFirst
  PROVE  /\ Holding(Tail(q))' /\ count' \in 0 .. Capacity
         /\ first' \in Link /\ last' \in Link
         /\ next' \in [Slots -> Link] /\ prev' \in [Slots -> Link]
<1> DEFINE r == Tail(q)
           n == next[first]
<1>1. /\ r \in Queues /\ Len(r) = Len(q) - 1
      /\ \A j \in 1 .. Len(q) - 1 : r[j] = q[j + 1]
      /\ Range(r) = Range(q) \ {q[1]}
  <2>1. q # <<>>
    BY HoldingFacts
  <2>. QED  BY <2>1, TailProperties
<1> HIDE DEF r
<1>2. first = q[1] /\ 1 \in 1 .. Len(q) /\ first \in Slots
  BY HoldingFacts
<1>3. n = IF Len(q) = 1 THEN NoSlot ELSE q[2]
  <2>1. next[q[1]] = IF 1 = Len(q) THEN NoSlot ELSE q[1 + 1]
    BY <1>2, HoldingFacts
  <2>. QED  BY <1>2, <2>1
<1>4. n \in Link /\ (n = NoSlot <=> Len(q) = 1)
  <2>1. Len(q) # 1 => 2 \in 1 .. Len(q)
    <3>1. Len(q) \in Nat
      BY HoldingFacts
    <3>2. \A l \in Nat : l # 0 /\ l # 1 => 2 \in 1 .. l
      OBVIOUS
    <3>. QED  BY <3>1, <3>2
  <2>2. Len(q) # 1 => q[2] \in Slots
    BY <2>1, HoldingFacts
  <2>. QED  BY <1>3, <2>2 DEF Link, Slots, NoSlot
<1> HIDE DEF n
<1>5. /\ first' = n
      /\ last' = IF n = NoSlot THEN NoSlot ELSE last
      /\ next' = [next EXCEPT ![first] = NoSlot]
      /\ prev' = IF n = NoSlot THEN [prev EXCEPT ![first] = NoSlot]
                 ELSE [prev EXCEPT ![first] = NoSlot, ![n] = NoSlot]
      /\ count' = count - 1
  BY DEF DropFirst, n
<1>6. count' = Len(r) /\ count' \in 0 .. Capacity
  BY <1>1, <1>2, <1>5, HoldingFacts, CapacityAssumption
<1>7. /\ first' \in Link /\ last' \in Link
      /\ next' \in [Slots -> Link] /\ prev' \in [Slots -> Link]
  BY <1>4, <1>5 DEF TypeOK, Link
<1>8. first' = IF Len(r) = 0 THEN NoSlot ELSE r[1]
  <2>1. CASE Len(q) = 1
    BY <2>1, <1>1, <1>3, <1>5
  <2>2. CASE Len(q) # 1
    BY <2>2, <1>1, <1>2, <1>3, <1>5, HoldingFacts
  <2>. QED  BY <2>1, <2>2
<1>9. last' = IF Len(r) = 0 THEN NoSlot ELSE r[Len(r)]
  <2>1. CASE Len(q) = 1
    BY <2>1, <1>1, <1>4, <1>5
  <2>2. CASE Len(q) # 1
    <3>1. last' = q[Len(q)] /\ Len(r) # 0 /\ Len(r) \in 1 .. Len(q) - 1
      BY <2>2, <1>1, <1>2, <1>4, <1>5, HoldingFacts
    <3>2. r[Len(r)] = q[Len(r) + 1] /\ Len(r) + 1 = Len(q)
      BY <3>1, <1>1, HoldingFacts
    <3>. QED  BY <3>1, <3>2
  <2>. QED  BY <2>1, <2>2
<1>10. ASSUME NEW i \in 1 .. Len(r)
       PROVE  /\ prev'[r[i]] = IF i = 1 THEN NoSlot ELSE r[i - 1]
              /\ next'[r[i]] = IF i = Len(r) THEN NoSlot ELSE r[i + 1]
  <2>1. /\ i \in 1 .. Len(q) - 1 /\ i + 1 \in 1 .. Len(q)
        /\ r[i] = q[i + 1] /\ Len(q) # 1
    BY <1>1, <1>2, HoldingFacts
  <2>2. q[i + 1] \in Slots /\ q[i + 1] # first
    BY <2>1, <1>2, HoldingFacts
  <2>3. next'[r[i]] = next[q[i + 1]]
    BY <2>1, <2>2, <1>5 DEF TypeOK
  <2>4. next'[r[i]] = IF i = Len(r) THEN NoSlot ELSE r[i + 1]
    <3>1. CASE i = Len(r)
      BY <3>1, <2>1, <2>3, <1>1, HoldingFacts
    <3>2. CASE i # Len(r)
      <4>1. i + 1 # Len(q) /\ i + 1 \in 1 .. Len(q) - 1
        BY <3>2, <2>1, <1>1, HoldingFacts
      <4>. QED  BY <3>2, <4>1, <2>1, <2>3, <1>1, HoldingFacts
    <3>. QED  BY <3>1, <3>2
  <2>5. prev'[r[i]] = IF i = 1 THEN NoSlot ELSE r[i - 1]
    <3>1. CASE i = 1
      <4>1. q[i + 1] = n /\ n # NoSlot
        BY <3>1, <2>1, <1>3, <1>4
      <4>. QED  BY <3>1, <4>1, <2>1, <2>2, <1>5 DEF TypeOK
    <3>2. CASE i # 1
      <4>1. q[i + 1] # n
        <5>1. n = q[2] /\ 2 \in 1 .. Len(q) /\ i + 1 # 2
          BY <3>2, <2>1, <1>3, HoldingFacts
        <5>. QED  BY <5>1, <2>1, HoldingFacts
      <4>2. prev'[r[i]] = prev[q[i + 1]]
        BY <4>1, <2>1, <2>2, <1>5 DEF TypeOK
      <4>3. prev[q[i + 1]] = q[i] /\ i - 1 \in 1 .. Len(q) - 1
        BY <3>2, <2>1, HoldingFacts
      <4>. QED  BY <3>2, <4>2, <4>3, <2>1, <1>1
    <3>. QED  BY <3>1, <3>2
  <2>. QED  BY <2>4, <2>5
<1>11. ASSUME NEW x \in Slots \ Range(r)
       PROVE  prev'[x] = NoSlot /\ next'[x] = NoSlot
  <2>1. CASE x = first
    BY <2>1, <1>2, <1>5 DEF TypeOK
  <2>2. CASE x # first
    <3>1. x \in Slots \ Range(q)
      BY <2>2, <1>1, <1>2
    <3>2. prev[x] = NoSlot /\ next[x] = NoSlot
      BY <3>1, HoldingFacts
    <3>. QED  BY <2>2, <3>2, <1>5 DEF TypeOK
  <2>. QED  BY <2>1, <2>2
<1>12. Holding(r)'
  BY <1>1, <1>6, <1>8, <1>9, <1>10, <1>11, HoldingNext
<1>. QED  BY <1>6, <1>7, <1>12 DEF r

(* The back leaves the list: dequeue of the back. *)
LEMMA DropLastStep ==
  ASSUME TypeOK, NEW q \in Queues, Holding(q), Len(q) > 1, DropLast,
         NEW r \in Queues, Len(r) = Len(q) - 1,
         \A j \in 1 .. Len(q) - 1 : r[j] = q[j],
         Range(r) = Range(q) \ {q[Len(q)]}
  PROVE  /\ Holding(r)' /\ count' \in 0 .. Capacity
         /\ first' \in Link /\ last' \in Link
         /\ next' \in [Slots -> Link] /\ prev' \in [Slots -> Link]
<1> DEFINE p == prev[last]
<1>1. /\ last = q[Len(q)] /\ Len(q) \in 1 .. Len(q) /\ last \in Slots
      /\ Len(q) - 1 \in 1 .. Len(q) /\ Len(q) - 1 \in 1 .. Len(q) - 1
  <2>1. Len(q) \in 1 .. Len(q) /\ Len(q) - 1 \in 1 .. Len(q)
        /\ Len(q) - 1 \in 1 .. Len(q) - 1
    BY HoldingFacts
  <2>. QED  BY <2>1, HoldingFacts
<1>2. p = q[Len(q) - 1] /\ p \in Slots /\ p # NoSlot /\ p # last
  <2>1. p = q[Len(q) - 1] /\ q[Len(q) - 1] \in Slots
    BY <1>1, HoldingFacts
  <2>2. q[Len(q) - 1] # q[Len(q)]
    BY <1>1, HoldingFacts
  <2>. QED  BY <1>1, <2>1, <2>2 DEF Slots, NoSlot
<1> HIDE DEF p
<1>3. /\ last' = p /\ first' = first
      /\ prev' = [prev EXCEPT ![last] = NoSlot]
      /\ next' = [next EXCEPT ![last] = NoSlot, ![p] = NoSlot]
      /\ count' = count - 1
  BY <1>2 DEF DropLast, p
<1>4. count' = Len(r) /\ count' \in 0 .. Capacity
  BY <1>1, <1>3, HoldingFacts, CapacityAssumption
<1>5. /\ first' \in Link /\ last' \in Link
      /\ next' \in [Slots -> Link] /\ prev' \in [Slots -> Link]
  BY <1>1, <1>2, <1>3 DEF TypeOK, Link
<1>6. first' = IF Len(r) = 0 THEN NoSlot ELSE r[1]
  <2>1. 1 \in 1 .. Len(q) - 1 /\ Len(r) # 0 /\ Len(q) # 0
    BY <1>1, HoldingFacts
  <2>. QED  BY <2>1, <1>3, HoldingFacts
<1>7. last' = IF Len(r) = 0 THEN NoSlot ELSE r[Len(r)]
  <2>1. Len(r) # 0
    BY <1>1, HoldingFacts
  <2>. QED  BY <2>1, <1>1, <1>2, <1>3
<1>8. ASSUME NEW i \in 1 .. Len(r)
      PROVE  /\ prev'[r[i]] = IF i = 1 THEN NoSlot ELSE r[i - 1]
             /\ next'[r[i]] = IF i = Len(r) THEN NoSlot ELSE r[i + 1]
  <2>1. i \in 1 .. Len(q) - 1 /\ i \in 1 .. Len(q) /\ i # Len(q) /\ r[i] = q[i]
    BY HoldingFacts
  <2>2. q[i] \in Slots /\ q[i] # last
    BY <2>1, <1>1, HoldingFacts
  <2>3. prev'[r[i]] = IF i = 1 THEN NoSlot ELSE r[i - 1]
    <3>1. prev'[r[i]] = prev[q[i]]
      BY <2>1, <2>2, <1>3 DEF TypeOK
    <3>2. prev[q[i]] = IF i = 1 THEN NoSlot ELSE q[i - 1]
      BY <2>1, HoldingFacts
    <3>3. i # 1 => i - 1 \in 1 .. Len(q) - 1
      BY <2>1, HoldingFacts
    <3>4. i # 1 => r[i - 1] = q[i - 1]
      BY <3>3
    <3>. QED  BY <3>1, <3>2, <3>4
  <2>4. next'[r[i]] = IF i = Len(r) THEN NoSlot ELSE r[i + 1]
    <3>1. CASE i = Len(r)
      BY <3>1, <2>1, <2>2, <1>2, <1>3 DEF TypeOK
    <3>2. CASE i # Len(r)
      <4>1. i + 1 \in 1 .. Len(q) - 1 /\ i # Len(q) - 1
        BY <3>2, <2>1, HoldingFacts
      <4>2. q[i] # p
        BY <4>1, <2>1, <1>1, <1>2, HoldingFacts
      <4>3. next'[r[i]] = next[q[i]]
        BY <4>2, <2>1, <2>2, <1>3 DEF TypeOK
      <4>4. next[q[i]] = q[i + 1] /\ r[i + 1] = q[i + 1]
        BY <4>1, <2>1, HoldingFacts
      <4>. QED  BY <3>2, <4>3, <4>4
    <3>. QED  BY <3>1, <3>2
  <2>. QED  BY <2>3, <2>4
<1>9. ASSUME NEW x \in Slots \ Range(r)
      PROVE  prev'[x] = NoSlot /\ next'[x] = NoSlot
  <2>1. CASE x = last
    BY <2>1, <1>1, <1>2, <1>3 DEF TypeOK
  <2>2. CASE x # last
    <3>1. x \in Slots \ Range(q) /\ x # p
      <4>1. p \in Range(q)
        BY <1>1, <1>2, HoldingFacts
      <4>. QED  BY <2>2, <4>1, <1>1, <1>2
    <3>2. prev[x] = NoSlot /\ next[x] = NoSlot
      BY <3>1, HoldingFacts
    <3>. QED  BY <2>2, <3>1, <3>2, <1>3 DEF TypeOK
  <2>. QED  BY <2>1, <2>2
<1>10. Holding(r)'
  BY <1>4, <1>6, <1>7, <1>8, <1>9, HoldingNext
<1>. QED  BY <1>4, <1>5, <1>10

(* An element between two others leaves the list. *)
LEMMA DequeueMiddleStep ==
  ASSUME TypeOK, NEW q \in Queues, Holding(q), NEW k \in 2 .. Len(q) - 1,
         DequeueMiddle(q[k]),
         NEW r \in Queues, Len(r) = Len(q) - 1,
         \A j \in 1 .. Len(q) - 1 : r[j] = IF j < k THEN q[j] ELSE q[j + 1],
         Range(r) = Range(q) \ {q[k]}
  PROVE  Holding(r)' /\ TypeOK'
<1> DEFINE m == q[k]
           a == q[k - 1]
           b == q[k + 1]
<1>0. Len(q) \in Nat /\ k \in 1 .. Len(q) /\ k - 1 \in 1 .. Len(q)
      /\ k + 1 \in 1 .. Len(q) /\ k # 1 /\ k # Len(q)
      /\ k - 1 # k /\ k + 1 # k /\ k - 1 # k + 1 /\ (k + 1) - 1 = k
  BY HoldingFacts
<1>inj. \A i, j \in 1 .. Len(q) : q[i] = q[j] => i = j
  BY HoldingFacts
<1>prv. \A i \in 1 .. Len(q) : prev[q[i]] = IF i = 1 THEN NoSlot ELSE q[i - 1]
  BY DEF Holding, Lists
<1>nxt. \A i \in 1 .. Len(q) :
           next[q[i]] = IF i = Len(q) THEN NoSlot ELSE q[i + 1]
  BY DEF Holding, Lists
<1>1. prev[m] = a /\ next[m] = b
  BY <1>0, <1>prv, <1>nxt
<1>2. /\ m \in Slots /\ a \in Slots /\ b \in Slots
      /\ m # a /\ m # b /\ a # b
  <2>1. m \in Slots /\ a \in Slots /\ b \in Slots
    BY <1>0, HoldingFacts
  <2>2. m # a /\ m # b /\ a # b
    BY <1>0, <1>inj, Zenon
  <2>. QED  BY <2>1, <2>2
<1>3. a \in Range(q) /\ b \in Range(q)
  BY <1>0, HoldingFacts
<1>4. \A i \in 1 .. Len(q) : /\ q[i] = m => i = k
                             /\ q[i] = a => i = k - 1
                             /\ q[i] = b => i = k + 1
  BY <1>0, <1>inj, Zenon
<1>5. /\ next' = [next EXCEPT ![a] = b, ![m] = NoSlot]
      /\ prev' = [prev EXCEPT ![b] = a, ![m] = NoSlot]
      /\ count' = count - 1 /\ answer' = Answer(TRUE, m)
      /\ first' = first /\ last' = last
  BY <1>1 DEF DequeueMiddle
<1> HIDE DEF m, a, b
<1>6. count' = Len(r) /\ count' \in 0 .. Capacity
  BY <1>0, <1>5, HoldingFacts, CapacityAssumption
<1>7. TypeOK'
  BY <1>2, <1>5, <1>6 DEF TypeOK, Link, Answer
<1>8. first' = IF Len(r) = 0 THEN NoSlot ELSE r[1]
  <2>1. 1 \in 1 .. Len(q) - 1 /\ 1 < k /\ Len(r) # 0 /\ Len(q) # 0
    BY <1>0
  <2>. QED  BY <2>1, <1>5, HoldingFacts
<1>9. last' = IF Len(r) = 0 THEN NoSlot ELSE r[Len(r)]
  <2>1. Len(r) \in 1 .. Len(q) - 1 /\ ~(Len(r) < k) /\ Len(r) + 1 = Len(q)
        /\ Len(r) # 0 /\ Len(q) # 0
    BY <1>0
  <2>. QED  BY <2>1, <1>5, HoldingFacts
<1>10. ASSUME NEW i \in 1 .. Len(r)
       PROVE  prev'[r[i]] = IF i = 1 THEN NoSlot ELSE r[i - 1]
  <2>1. CASE i < k
    <3>1. i \in 1 .. Len(q) /\ r[i] = q[i] /\ i # k /\ i # k + 1
      BY <2>1, <1>0
    <3>2. q[i] \in Slots /\ q[i] # m /\ q[i] # b
      BY <3>1, <1>4, HoldingFacts
    <3>3. prev'[r[i]] = prev[q[i]]
      BY <3>1, <3>2, <1>5 DEF TypeOK
    <3>4. prev[q[i]] = IF i = 1 THEN NoSlot ELSE q[i - 1]
      BY <3>1, <1>prv
    <3>5. i # 1 => i - 1 \in 1 .. Len(q) - 1 /\ i - 1 < k
      BY <2>1, <1>0
    <3>. QED  BY <3>3, <3>4, <3>5
  <2>2. CASE i = k
    <3>1. r[i] = b /\ r[i - 1] = a /\ i # 1
      <4>1. i \in 1 .. Len(q) - 1 /\ ~(i < k) /\ i - 1 \in 1 .. Len(q) - 1
            /\ i - 1 < k /\ i # 1
        BY <2>2, <1>0
      <4>. QED  BY <2>2, <4>1 DEF a, b
    <3>2. prev'[b] = a
      BY <1>2, <1>5 DEF TypeOK
    <3>. QED  BY <3>1, <3>2
  <2>3. CASE i > k
    <3>1. i \in 1 .. Len(q) - 1 /\ i + 1 \in 1 .. Len(q) /\ r[i] = q[i + 1]
          /\ i + 1 # k /\ i + 1 # k + 1 /\ i + 1 # 1
      BY <2>3, <1>0
    <3>2. q[i + 1] \in Slots /\ q[i + 1] # m /\ q[i + 1] # b
      BY <3>1, <1>4, HoldingFacts
    <3>3. prev'[r[i]] = prev[q[i + 1]]
      BY <3>1, <3>2, <1>5 DEF TypeOK
    <3>4. prev[q[i + 1]] = q[(i + 1) - 1]
      BY <3>1, <1>prv
    <3>5. i # 1 /\ i - 1 \in 1 .. Len(q) - 1 /\ ~(i - 1 < k)
          /\ (i + 1) - 1 = (i - 1) + 1
      BY <2>3, <1>0
    <3>. QED  BY <3>3, <3>4, <3>5
  <2>. QED  BY <2>1, <2>2, <2>3, <1>0
<1>11. ASSUME NEW i \in 1 .. Len(r)
       PROVE  next'[r[i]] = IF i = Len(r) THEN NoSlot ELSE r[i + 1]
  <2>1. CASE i < k - 1
    <3>1. i \in 1 .. Len(q) - 1 /\ i \in 1 .. Len(q) /\ i < k /\ r[i] = q[i]
          /\ i # k /\ i # k - 1 /\ i # Len(q) /\ i # Len(r)
      BY <2>1, <1>0
    <3>2. q[i] \in Slots /\ q[i] # m /\ q[i] # a
      BY <3>1, <1>4, HoldingFacts
    <3>3. next'[r[i]] = next[q[i]]
      BY <3>1, <3>2, <1>5 DEF TypeOK
    <3>4. next[q[i]] = q[i + 1]
      BY <3>1, <1>nxt
    <3>5. i + 1 \in 1 .. Len(q) - 1 /\ i + 1 < k
      BY <2>1, <1>0
    <3>. QED  BY <3>1, <3>3, <3>4, <3>5
  <2>2. CASE i = k - 1
    <3>1. r[i] = a /\ r[i + 1] = b /\ i # Len(r)
      <4>1. i \in 1 .. Len(q) - 1 /\ i < k /\ i + 1 \in 1 .. Len(q) - 1
            /\ ~(i + 1 < k) /\ (i + 1) + 1 = k + 1 /\ i # Len(r)
        BY <2>2, <1>0
      <4>. QED  BY <2>2, <4>1 DEF a, b
    <3>2. next'[a] = b
      BY <1>2, <1>5 DEF TypeOK
    <3>. QED  BY <3>1, <3>2
  <2>3. CASE i >= k
    <3>1. i \in 1 .. Len(q) - 1 /\ i + 1 \in 1 .. Len(q) /\ r[i] = q[i + 1]
          /\ i + 1 # k /\ i + 1 # k - 1
      BY <2>3, <1>0
    <3>2. q[i + 1] \in Slots /\ q[i + 1] # m /\ q[i + 1] # a
      BY <3>1, <1>4, HoldingFacts
    <3>3. next'[r[i]] = next[q[i + 1]]
      BY <3>1, <3>2, <1>5 DEF TypeOK
    <3>4. next[q[i + 1]] = IF i + 1 = Len(q) THEN NoSlot ELSE q[(i + 1) + 1]
      BY <3>1, <1>nxt
    <3>5. i = Len(r) <=> i + 1 = Len(q)
      BY <3>1, <1>0
    <3>6. i # Len(r) => i + 1 \in 1 .. Len(q) - 1
      <4>1. \A l \in Nat : \A x \in 1 .. l - 1 :
              x # l - 1 => x + 1 \in 1 .. l - 1
        OBVIOUS
      <4>. QED  BY <3>1, <4>1, <1>0, Zenon
    <3>7. ~(i + 1 < k)
      BY <2>3, <3>1, <1>0
    <3>8. i # Len(r) => r[i + 1] = q[(i + 1) + 1]
      BY <3>6, <3>7
    <3>. QED  BY <3>3, <3>4, <3>5, <3>8
  <2>. QED  BY <2>1, <2>2, <2>3, <1>0
<1>12. ASSUME NEW x \in Slots \ Range(r)
       PROVE  prev'[x] = NoSlot /\ next'[x] = NoSlot
  <2>1. CASE x = m
    BY <2>1, <1>2, <1>5 DEF TypeOK
  <2>2. CASE x # m
    <3>1. x \in Slots \ Range(q) /\ x # a /\ x # b
      BY <2>2, <1>3 DEF m
    <3>2. prev[x] = NoSlot /\ next[x] = NoSlot
      BY <3>1, HoldingFacts
    <3>. QED  BY <2>2, <3>1, <3>2, <1>5 DEF TypeOK
  <2>. QED  BY <2>1, <2>2
<1>13. Holding(r)'
  BY <1>6, <1>8, <1>9, <1>10, <1>11, <1>12, HoldingNext
<1>. QED  BY <1>7, <1>13

(* The queue after dequeue(m). *)
Dequeued(q, m) == IF Removable(q, m) THEN Without(q, m) ELSE q

(* dequeue(m) on a slot with no neighbour: absent, or the only one. *)
LEMMA DequeueRefusedStep ==
  ASSUME TypeOK, NEW q \in Queues, Holding(q), NEW m \in Slots, Dequeue(m),
         ~Removable(q, m)
  PROVE  Holding(q)' /\ TypeOK' /\ answer' = Answer(FALSE, m)
<1>1. prev[m] = NoSlot /\ next[m] = NoSlot
  <2>1. CASE m \notin Range(q)
    BY <2>1, HoldingFacts
  <2>2. CASE m \in Range(q)
    <3>1. PICK i \in 1 .. Len(q) : q[i] = m
      BY <2>2, HoldingFacts
    <3>2. i = 1 /\ Len(q) = 1
      <4>1. ~(Len(q) > 1)
        BY <2>2 DEF Removable, Enqueued
      <4>2. Len(q) \in Nat
        BY HoldingFacts
      <4>3. \A l \in Nat : \A x \in 1 .. l : ~(l > 1) => x = 1 /\ l = 1
        OBVIOUS
      <4>. QED  BY <4>1, <4>2, <4>3, Zenon
    <3>. QED  BY <3>1, <3>2, HoldingFacts
  <2>. QED  BY <2>1, <2>2
<1>2. UNCHANGED list /\ answer' = Answer(FALSE, m)
  BY <1>1 DEF Dequeue, DequeueRefused, DequeueFirst, DequeueLast, DequeueMiddle
<1>3. Holding(q)'
  BY <1>2 DEF Holding, Lists, list
<1>4. TypeOK'
  BY <1>2 DEF TypeOK, list, Answer, Link
<1>. QED  BY <1>2, <1>3, <1>4

(* dequeue(m) on a slot with a neighbour: front, back or middle. *)
LEMMA DequeueTakenStep ==
  ASSUME TypeOK, NEW q \in Queues, Holding(q), NEW m \in Slots, Dequeue(m),
         Removable(q, m)
  PROVE  Holding(Without(q, m))' /\ TypeOK' /\ answer' = Answer(TRUE, m)
<1> DEFINE i == Position(q, m)
           r == Without(q, m)
<1>0. /\ q \in Seq(Slots) /\ Len(q) \in Nat /\ Len(q) > 1 /\ Len(q) # 0
      /\ m \in Range(q)
  BY HoldingFacts DEF Removable, Enqueued
<1>1. i \in 1 .. Len(q) /\ q[i] = m
  BY <1>0, PositionIsIndex
<1>2. /\ r \in Queues /\ Len(r) = Len(q) - 1 /\ Range(r) = Range(q) \ {m}
      /\ \A j \in 1 .. Len(q) - 1 : r[j] = IF j < i THEN q[j] ELSE q[j + 1]
  BY <1>0, WithoutProperties
<1> HIDE DEF i, r
<1>3. /\ prev[m] = IF i = 1 THEN NoSlot ELSE q[i - 1]
      /\ next[m] = IF i = Len(q) THEN NoSlot ELSE q[i + 1]
  BY <1>1 DEF Holding, Lists
<1>4. /\ i # 1 => q[i - 1] \in Slots
      /\ i # Len(q) => q[i + 1] \in Slots
  <2>1. i # 1 => i - 1 \in 1 .. Len(q)
    BY <1>0, <1>1
  <2>2. i # Len(q) => i + 1 \in 1 .. Len(q)
    BY <1>0, <1>1
  <2>. QED  BY <2>1, <2>2, HoldingFacts
<1>5. /\ prev[m] = NoSlot <=> i = 1
      /\ next[m] = NoSlot <=> i = Len(q)
  <2>1. NoSlot \notin Slots
    BY DEF NoSlot, Slots
  <2>. QED  BY <2>1, <1>3, <1>4
<1>6. first \in Slots /\ last \in Slots /\ first # NoSlot /\ last # NoSlot
      /\ first = q[1] /\ last = q[Len(q)]
  <2>1. 1 \in 1 .. Len(q) /\ Len(q) \in 1 .. Len(q)
    BY <1>0
  <2>. QED  BY <2>1, <1>0, HoldingFacts DEF Slots, NoSlot
<1>7. CASE i = 1
  <2>1. DequeueFirst(m)
    <3>1. prev[m] = NoSlot /\ next[m] # NoSlot
      <4>1. \A l \in Nat : l > 1 => l # 1
        OBVIOUS
      <4>. QED  BY <4>1, <1>0, <1>5, <1>7, Zenon
    <3>. QED  BY <3>1 DEF Dequeue, DequeueRefused, DequeueLast, DequeueMiddle
  <2>2. DropFirst /\ answer' = Answer(TRUE, m)
    BY <2>1, <1>6 DEF DequeueFirst, Answer
  <2>3. Tail(q) = r
    <3>1. q # <<>>
      BY <1>0, EmptySeq
    <3>2. /\ Tail(q) \in Queues /\ Len(Tail(q)) = Len(q) - 1
          /\ \A j \in 1 .. Len(q) - 1 : Tail(q)[j] = q[j + 1]
      BY <3>1, TailProperties
    <3>3. \A j \in 1 .. Len(q) - 1 : r[j] = q[j + 1]
      BY <1>0, <1>2, <1>7
    <3>4. Tail(q) \in Seq(Slots) /\ r \in Seq(Slots) /\ Len(Tail(q)) = Len(r)
      BY <3>2, <1>2 DEF Queues
    <3>5. \A j \in 1 .. Len(r) : Tail(q)[j] = r[j]
      BY <3>2, <3>3, <1>2
    <3>. QED  BY <3>4, <3>5, SeqEqual
  <2>4. /\ Holding(r)' /\ count' \in 0 .. Capacity
        /\ first' \in Link /\ last' \in Link
        /\ next' \in [Slots -> Link] /\ prev' \in [Slots -> Link]
    BY <2>2, <2>3, <1>0, DropFirstStep
  <2>. QED  BY <2>2, <2>4 DEF TypeOK, Answer, Link, r
<1>8. CASE i = Len(q)
  <2>1. DequeueLast(m)
    <3>1. prev[m] # NoSlot /\ next[m] = NoSlot
      BY <1>0, <1>5, <1>8
    <3>. QED  BY <3>1 DEF Dequeue, DequeueRefused, DequeueFirst, DequeueMiddle
  <2>2. DropLast /\ answer' = Answer(TRUE, m)
    BY <2>1, <1>6 DEF DequeueLast, Answer
  <2>3. \A j \in 1 .. Len(q) - 1 : r[j] = q[j]
    BY <1>0, <1>2, <1>8
  <2>4. Range(r) = Range(q) \ {q[Len(q)]}
    BY <1>1, <1>2, <1>8
  <2>5. /\ Holding(r)' /\ count' \in 0 .. Capacity
        /\ first' \in Link /\ last' \in Link
        /\ next' \in [Slots -> Link] /\ prev' \in [Slots -> Link]
    BY <2>2, <2>3, <2>4, <1>0, <1>2, DropLastStep
  <2>. QED  BY <2>2, <2>5 DEF TypeOK, Answer, Link, r
<1>9. CASE i # 1 /\ i # Len(q)
  <2>1. DequeueMiddle(m)
    BY <1>5, <1>9
       DEF Dequeue, DequeueRefused, DequeueFirst, DequeueLast
  <2>2. i \in 2 .. Len(q) - 1
    BY <1>0, <1>1, <1>9
  <2>3. DequeueMiddle(q[i]) /\ Range(r) = Range(q) \ {q[i]}
    BY <2>1, <1>1, <1>2
  <2>4. Holding(r)' /\ TypeOK'
    BY <2>2, <2>3, <1>2, DequeueMiddleStep
  <2>5. answer' = Answer(TRUE, m)
    BY <2>1 DEF DequeueMiddle
  <2>. QED  BY <2>4, <2>5 DEF r
<1>. QED  BY <1>7, <1>8, <1>9

LEMMA DequeueStep ==
  ASSUME TypeOK, NEW q \in Queues, Holding(q), NEW m \in Slots, Dequeue(m)
  PROVE  /\ Holding(Dequeued(q, m))' /\ TypeOK'
         /\ answer' = Answer(Removable(q, m), m)
<1>1. CASE Removable(q, m)
  <2>1. Dequeued(q, m) = Without(q, m) /\ Answer(TRUE, m) = Answer(Removable(q, m), m)
    BY <1>1 DEF Dequeued, Answer, Removable, Enqueued
  <2>. QED  BY <2>1, <1>1, DequeueTakenStep
<1>2. CASE ~Removable(q, m)
  <2>1. Dequeued(q, m) = q /\ Answer(FALSE, m) = Answer(Removable(q, m), m)
    BY <1>2 DEF Dequeued, Answer, Removable, Enqueued
  <2>. QED  BY <2>1, <1>2, DequeueRefusedStep
<1>. QED  BY <1>1, <1>2

LEMMA DequeueTailStep ==
  ASSUME TypeOK, NEW q \in Queues, Holding(q), DequeueTail
  PROVE  /\ TypeOK'
         /\ \/ /\ q = <<>> /\ answer' = Answer(FALSE, NoSlot)
               /\ Holding(q)'
            \/ /\ q # <<>> /\ answer' = Answer(TRUE, Head(q))
               /\ Holding(Tail(q))'
<1>1. CASE q = <<>>
  <2>1. first = NoSlot
    BY <1>1, HoldingFacts
  <2>2. UNCHANGED list /\ answer' = Answer(FALSE, NoSlot)
    BY <2>1 DEF DequeueTail, DequeueTailEmpty, DequeueTailFront
  <2>3. Holding(q)'
    BY <2>2 DEF Holding, Lists, list
  <2>4. TypeOK'
    BY <2>2 DEF TypeOK, list, Answer, Link
  <2>. QED  BY <1>1, <2>2, <2>3, <2>4
<1>2. CASE q # <<>>
  <2>1. Len(q) # 0 /\ first = q[1] /\ first = Head(q) /\ first \in Slots
    BY <1>2, HoldingFacts, TailProperties
  <2>2. first # NoSlot
    BY <2>1 DEF Slots, NoSlot
  <2>3. DropFirst /\ answer' = Answer(TRUE, first)
    BY <2>2 DEF DequeueTail, DequeueTailEmpty, DequeueTailFront
  <2>4. /\ Holding(Tail(q))' /\ count' \in 0 .. Capacity
        /\ first' \in Link /\ last' \in Link
        /\ next' \in [Slots -> Link] /\ prev' \in [Slots -> Link]
    BY <2>1, <2>3, DropFirstStep
  <2>5. TypeOK'
    BY <2>1, <2>3, <2>4 DEF TypeOK, Answer, Link
  <2>. QED  BY <1>2, <2>1, <2>3, <2>4, <2>5
<1>. QED  BY <1>1, <1>2

-----------------------------------------------------------------------------
(* Arrays that list a queue hold no other one. *)
LEMMA HeldOnce ==
  ASSUME NEW q \in Queues, NEW c, Len(q) = c,
         NEW f, NEW l, NEW n, NEW p, Lists(f, l, n, p, q)
  PROVE  {r \in [1 .. c -> Slots] : Lists(f, l, n, p, r)} = {q}
<1> DEFINE H == {r \in [1 .. c -> Slots] : Lists(f, l, n, p, r)}
<1>1. c \in Nat /\ q \in [1 .. c -> Slots]
  BY LenProperties DEF Queues
<1>2. ASSUME NEW r \in H PROVE r = q
  <2>1. r \in [1 .. c -> Slots] /\ Lists(f, l, n, p, r)
    OBVIOUS
  <2>2. r \in Seq(Slots)
    BY <1>1, <2>1, SeqDef
  <2>3. Len(r) = c
    BY <1>1, <2>1, <2>2, LenProperties
  <2>4. r \in Queues
    BY <2>1, <2>2 DEF Lists, Queues
  <2>. QED  BY <2>1, <2>3, <2>4, OnlyOneQueue
<1>. QED  BY <1>1, <1>2

(* The refinement mapping gives the queue that is held, now and next. *)
LEMMA QueueOfHolding ==
  ASSUME NEW q \in Queues
  PROVE  /\ Holding(q) => QueueOf = q /\ WellLinked
         /\ Holding(q)' => QueueOf' = q
<1>1. ASSUME Holding(q) PROVE Held = {q}
  BY <1>1, HeldOnce DEF Held, Holding
<1>2. ASSUME Holding(q)' PROVE Held' = {q}
  BY <1>2, HeldOnce DEF Held, Holding
<1>. QED  BY <1>1, <1>2 DEF QueueOf, WellLinked

LEMMA InitHolds ==
  ASSUME Init PROVE TypeOK /\ Holding(FullQueue)
<1>1. TypeOK
  BY CapacityAssumption DEF Init, TypeOK, Link, Slots, NoSlot, Answer
<1>2. FullQueue \in Queues /\ Range(FullQueue) = Slots
  BY FullQueueProperties
<1>3. FullQueue \in [1 .. Capacity -> Slots] /\ Len(FullQueue) = Capacity
  <2>1. DOMAIN FullQueue = 1 .. Capacity /\ FullQueue \in Seq(Slots)
    BY <1>2 DEF FullQueue, Queues
  <2>. QED  BY <2>1, LenProperties, CapacityAssumption DEF FullQueue, Slots
<1>4. FullQueue # <<>>
  BY <1>3, EmptySeq, CapacityAssumption
<1>5. first = FullQueue[1] /\ last = FullQueue[Capacity]
  BY CapacityAssumption DEF Init, FullQueue
<1>6. ASSUME NEW i \in 1 .. Capacity
      PROVE  /\ prev[FullQueue[i]] = IF i = 1 THEN NoSlot ELSE FullQueue[i - 1]
             /\ next[FullQueue[i]] =
                  IF i = Capacity THEN NoSlot ELSE FullQueue[i + 1]
  <2>1. FullQueue[i] = i - 1 /\ i - 1 \in Slots
    BY CapacityAssumption DEF FullQueue, Slots
  <2>2. i # 1 => FullQueue[i - 1] = i - 2
    BY CapacityAssumption DEF FullQueue
  <2>3. i # Capacity => FullQueue[i + 1] = i
    BY CapacityAssumption DEF FullQueue
  <2>. QED  BY <2>1, <2>2, <2>3, CapacityAssumption DEF Init, NoSlot
<1>7. Lists(first, last, next, prev, FullQueue)
  BY <1>2, <1>3, <1>4, <1>5, <1>6 DEF Lists, Queues
<1>. QED  BY <1>1, <1>2, <1>3, <1>7 DEF Holding, Init

(* The abstract specification's operators are those used here. *)
LEMMA SameOperations ==
  /\ Abstract!Slots = Slots /\ Abstract!NoSlot = NoSlot
  /\ Abstract!FullQueue = FullQueue
  /\ \A q, m : /\ Abstract!Accepts(q, m) = Accepts(q, m)
               /\ Abstract!Removable(q, m) = Removable(q, m)
               /\ Abstract!Without(q, m) = Without(q, m)
               /\ Abstract!Released(q, m) = Released(q, m)
  /\ \A ok, m : Abstract!Answer(ok, m) = Answer(ok, m)
<1>1. \A q, m : Abstract!Enqueued(q, m) = Enqueued(q, m)
  BY DEF Abstract!Enqueued, Enqueued, Abstract!Range, Range
<1>2. \A q, m : Abstract!Accepts(q, m) = Accepts(q, m)
  BY <1>1 DEF Abstract!Accepts, Accepts
<1>3. \A q, m : Abstract!Removable(q, m) = Removable(q, m)
  BY <1>1 DEF Abstract!Removable, Removable
<1>4. \A q, m : Abstract!Without(q, m) = Without(q, m)
  BY DEF Abstract!Without, Without, Abstract!Position, Position,
         Abstract!RemoveAt, RemoveAt
<1>5. \A q, m : Abstract!Released(q, m) = Released(q, m)
  BY <1>2 DEF Abstract!Released, Released
<1>. QED  BY <1>2, <1>3, <1>4, <1>5
          DEF Abstract!Slots, Slots, Abstract!NoSlot, NoSlot,
              Abstract!FullQueue, FullQueue, Abstract!Answer, Answer

(* A step of the arrays is the step of the queue they hold, or a stutter. *)
LEMMA StepSimulates ==
  ASSUME IInv, [Next]_vars
  PROVE  IInv' /\ [Abstract!Next]_(Abstract!vars)
<1>1. PICK q \in Queues : Holding(q)
  BY DEF IInv
<1>2. QueueOf = q /\ TypeOK
  BY <1>1, QueueOfHolding DEF IInv
<1>3. ASSUME NEW r \in Queues, Holding(r)', TypeOK'
      PROVE  IInv' /\ QueueOf' = r
  <2>1. IInv'
    BY <1>3 DEF IInv
  <2>2. QueueOf' = r
    BY <1>3, QueueOfHolding
  <2>. QED  BY <2>1, <2>2
<1>4. CASE UNCHANGED vars
  <2>1. Holding(q)' /\ TypeOK'
    BY <1>1, <1>2, <1>4 DEF Holding, Lists, TypeOK, Link, vars
  <2>2. IInv' /\ QueueOf' = QueueOf
    BY <2>1, <1>2, <1>3
  <2>. QED  BY <2>2, <1>4 DEF Abstract!vars, vars
<1>5. CASE DequeueTail
  <2>1. CASE q = <<>>
    <3>1. Holding(q)' /\ TypeOK' /\ answer' = Answer(FALSE, NoSlot)
      BY <2>1, <1>1, <1>2, <1>5, DequeueTailStep
    <3>2. IInv' /\ QueueOf' = q
      BY <3>1, <1>3
    <3>. QED  BY <2>1, <3>1, <3>2, <1>2, SameOperations
              DEF Abstract!Next, Abstract!DequeueTail
  <2>2. CASE q # <<>>
    <3>1. Holding(Tail(q))' /\ TypeOK' /\ answer' = Answer(TRUE, Head(q))
      BY <2>2, <1>1, <1>2, <1>5, DequeueTailStep
    <3>2. IInv' /\ QueueOf' = Tail(q)
      BY <2>2, <3>1, <1>3, TailProperties
    <3>. QED  BY <2>2, <3>1, <3>2, <1>2, SameOperations
              DEF Abstract!Next, Abstract!DequeueTail
  <2>. QED  BY <2>1, <2>2
<1>6. ASSUME NEW m \in Slots, Enqueue(m)
      PROVE  IInv' /\ Abstract!Enqueue(m)
  <2>1. /\ Holding(Released(q, m))' /\ TypeOK'
        /\ answer' = Answer(Accepts(q, m), m)
    BY <1>1, <1>2, <1>6, EnqueueStep
  <2>2. IInv' /\ QueueOf' = Released(q, m)
    BY <2>1, <1>3, ReleasedProperties
  <2>. QED  BY <2>1, <2>2, <1>2, SameOperations DEF Abstract!Enqueue
<1>7. ASSUME NEW m \in Slots, Dequeue(m)
      PROVE  IInv' /\ Abstract!Dequeue(m)
  <2>1. /\ Holding(Dequeued(q, m))' /\ TypeOK'
        /\ answer' = Answer(Removable(q, m), m)
    BY <1>1, <1>2, <1>7, DequeueStep
  <2>2. Dequeued(q, m) \in Queues
    BY WithoutProperties DEF Dequeued, Removable, Enqueued
  <2>3. IInv' /\ QueueOf' = Dequeued(q, m)
    BY <2>1, <2>2, <1>3
  <2>. QED  BY <2>1, <2>3, <1>2, SameOperations
            DEF Abstract!Dequeue, Dequeued
<1>. QED  BY <1>4, <1>5, <1>6, <1>7, SameOperations DEF Next, Abstract!Next

LEMMA InitSimulates ==
  ASSUME Init PROVE IInv /\ Abstract!Init
<1>1. TypeOK /\ Holding(FullQueue) /\ FullQueue \in Queues
  BY InitHolds, FullQueueProperties
<1>2. QueueOf = FullQueue
  BY <1>1, QueueOfHolding
<1>3. answer = Answer(TRUE, NoSlot)
  BY DEF Init
<1>. QED  BY <1>1, <1>2, <1>3, SameOperations DEF IInv, Abstract!Init

-----------------------------------------------------------------------------
(* FixedStack's arrays stay one doubly linked list of distinct slots,      *)
(* whatever the capacity and the calls.                                    *)
THEOREM StaysWellLinked == Spec => []WellLinked
<1>1. Init => IInv
  BY InitSimulates
<1>2. IInv /\ [Next]_vars => IInv'
  BY StepSimulates
<1>3. IInv => WellLinked
  BY QueueOfHolding DEF IInv
<1>. QED  BY <1>1, <1>2, <1>3, PTL DEF Spec

(* The links, ends and counter of FixedStack keep their ranges. *)
THEOREM StaysTyped == Spec => []TypeOK
<1>1. Init => IInv
  BY InitSimulates
<1>2. IInv /\ [Next]_vars => IInv'
  BY StepSimulates
<1>3. IInv => TypeOK
  BY DEF IInv
<1>. QED  BY <1>1, <1>2, <1>3, PTL DEF Spec

(* FixedStack answers every sequence of calls as the FIFO of slots would:  *)
(* HeapFixedStack's two arrays implement the queue the chunk space needs.  *)
THEOREM Refinement == Spec => ImplementsLruQueue
<1>1. Init => IInv /\ Abstract!Init
  BY InitSimulates
<1>2. IInv /\ [Next]_vars => IInv' /\ [Abstract!Next]_(Abstract!vars)
  BY StepSimulates
<1>. QED  BY <1>1, <1>2, PTL DEF Spec, ImplementsLruQueue, Abstract!Spec

=============================================================================
