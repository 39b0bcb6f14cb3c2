-------------------------- MODULE StateChunk_proofs --------------------------
(***************************************************************************)
(* What StateChunk gives careful callers, for any attributes, hash, sizes  *)
(* and number of time points. In each chunk some of the counted entries    *)
(* are linked, all that have a value among them; the links lead from each  *)
(* bucket through its linked entries, the latest first (Wired). So the     *)
(* walks find every value, and copies, growth, type switches, saves and    *)
(* loads show the attributes they should (Shows).                          *)
(***************************************************************************)
EXTENDS StateChunk, SequenceTheorems, WellFoundedInduction, TLAPS

-----------------------------------------------------------------------------
(* Counting up to a bound.                                                   *)

LEMMA UpTo ==
  ASSUME NEW N \in Nat, NEW D, 0 \in D, \A n \in 1 .. N : n - 1 \in D => n \in D
  PROVE  \A n \in 0 .. N : n \in D
<1> DEFINE bad == {n \in 0 .. N : n \notin D}
<1> SUFFICES ASSUME bad # {} PROVE FALSE
  OBVIOUS
<1>1. bad \in SUBSET Nat
  OBVIOUS
<1>2. PICK n \in bad : \A m \in bad : ~ (m < n)
  <2>1. PICK n \in bad : \A m \in bad : ~ (<<m, n>> \in OpToRel(<, Nat))
    BY <1>1, NatLessThanWellFounded, WFMin
  <2>2. \A m \in bad : ~ (m < n)
    BY <1>1, <2>1 DEF OpToRel
  <2> QED
    BY <2>2
<1>3. n \in 1 .. N /\ n - 1 \in 0 .. N
  <2>1. n # 0
    BY <1>2
  <2> QED
    BY <1>2, <2>1
<1>4. n - 1 \notin bad
  BY <1>2, <1>3
<1>5. n - 1 \in D
  BY <1>3, <1>4
<1>6. n \in D
  BY <1>3, <1>5
<1> QED
  BY <1>2, <1>6

-----------------------------------------------------------------------------
(* Picked.                                                                   *)

(* The numbers below n that are in S, in their order.                        *)
Picks(q, S, n) ==
  /\ q \in Seq(Nat) /\ Len(q) <= n
  /\ \A i \in 1 .. Len(q) : q[i] \in S /\ q[i] \in 0 .. n - 1
  /\ \A i, j \in 1 .. Len(q) : i < j => q[i] < q[j]
  /\ \A x \in 0 .. n - 1 : x \in S => \E i \in 1 .. Len(q) : q[i] = x

LEMMA NonePicked == ASSUME NEW S PROVE Picks(<<>>, S, 0)
BY DEF Picks

(* The same, of the domain.                                                  *)
Ordered(q, S, n) ==
  /\ DOMAIN q = 1 .. Len(q) /\ Len(q) \in Nat /\ Len(q) <= n
  /\ \A i \in DOMAIN q : q[i] \in S /\ q[i] \in Nat /\ q[i] < n
  /\ \A i, j \in DOMAIN q : i < j => q[i] < q[j]
  /\ \A x \in 0 .. n - 1 : x \in S => \E i \in DOMAIN q : q[i] = x

LEMMA PicksAre ==
  ASSUME NEW S, NEW n \in Nat, NEW q, Picks(q, S, n)
  PROVE  Ordered(q, S, n)
<1>1. q \in Seq(Nat) /\ DOMAIN q = 1 .. Len(q) /\ Len(q) \in Nat /\ Len(q) <= n
  BY DEF Picks
<1>2. \A i \in DOMAIN q : q[i] \in S /\ q[i] \in 0 .. n - 1
  BY <1>1 DEF Picks
<1>3. \A i, j \in DOMAIN q : i < j => q[i] < q[j]
  BY <1>1 DEF Picks
<1>4. \A x \in 0 .. n - 1 : x \in S => \E i \in DOMAIN q : q[i] = x
  BY <1>1 DEF Picks
<1> QED
  BY <1>1, <1>2, <1>3, <1>4 DEF Ordered

LEMMA OneMorePicked ==
  ASSUME NEW S, NEW n \in Nat, NEW q, Picks(q, S, n)
  PROVE  Picks(IF n \in S THEN Append(q, n) ELSE q, S, n + 1)
<1>1. /\ q \in Seq(Nat) /\ Len(q) \in Nat /\ Len(q) <= n
      /\ \A i \in 1 .. Len(q) : q[i] \in Nat /\ q[i] \in S /\ q[i] < n
      /\ \A i, j \in 1 .. Len(q) : i < j => q[i] < q[j]
      /\ \A x \in 0 .. n - 1 : x \in S => \E i \in 1 .. Len(q) : q[i] = x
  BY DEF Picks
<1>2. CASE n \notin S
  <2>1. \A x \in 0 .. n + 1 - 1 : x \in S => x \in 0 .. n - 1
    BY <1>2
  <2>2. \A i \in 1 .. Len(q) : q[i] \in 0 .. n + 1 - 1
    BY <1>1
  <2>3. Picks(q, S, n + 1)
    BY <1>1, <2>1, <2>2 DEF Picks
  <2> QED
    BY <1>2, <2>3
<1>3. CASE n \in S
  <2> DEFINE r == Append(q, n)
  <2>1. /\ r \in Seq(Nat) /\ Len(r) = Len(q) + 1 /\ r[Len(q) + 1] = n
        /\ \A i \in 1 .. Len(q) : r[i] = q[i]
    BY <1>1
  <2> HIDE DEF r
  <2>2. \A i \in 1 .. Len(r) : i = Len(q) + 1 \/ i \in 1 .. Len(q)
    BY <1>1, <2>1
  <2>3. \A i \in 1 .. Len(r) : r[i] \in S /\ r[i] \in 0 .. n + 1 - 1
    BY <1>1, <1>3, <2>1, <2>2
  <2>4. ASSUME NEW i \in 1 .. Len(r), NEW j \in 1 .. Len(r), i < j PROVE r[i] < r[j]
    <3>1. i \in 1 .. Len(q)
      BY <1>1, <2>1, <2>4
    <3> QED
      BY <1>1, <2>1, <2>2, <2>4, <3>1
  <2>5. ASSUME NEW x \in 0 .. n + 1 - 1, x \in S PROVE \E i \in 1 .. Len(r) : r[i] = x
    <3>1. CASE x = n
      <4>1. Len(q) + 1 \in 1 .. Len(r)
        BY <1>1, <2>1
      <4> QED
        BY <2>1, <3>1, <4>1
    <3>2. CASE x # n
      <4>1. PICK i \in 1 .. Len(q) : q[i] = x
        BY <1>1, <2>5, <3>2
      <4>2. i \in 1 .. Len(r) /\ r[i] = x
        BY <1>1, <2>1, <4>1
      <4> QED
        BY <4>2
    <3> QED
      BY <3>1, <3>2
  <2>6. Picks(r, S, n + 1)
    BY <1>1, <2>1, <2>3, <2>4, <2>5 DEF Picks
  <2> QED
    BY <1>3, <2>6 DEF r
<1> QED
  BY <1>2, <1>3

LEMMA PickedIs ==
  ASSUME NEW S, NEW n \in Nat
  PROVE  Picks(Picked(S, n), S, n)
<1> DEFINE Goes(U, i) == IF i = 0 THEN <<>>
                         ELSE IF i - 1 \in S THEN Append(U[i - 1], i - 1)
                         ELSE U[i - 1]
           Counts(U, m) == /\ U = [i \in 0 .. m |-> U[i]]
                           /\ \A i \in 0 .. m : U[i] = Goes(U, i) /\ Picks(U[i], S, i)
           D == {m \in 0 .. n : \E U : Counts(U, m)}
<1>1. 0 \in D
  <2> DEFINE U == [i \in 0 .. 0 |-> <<>>]
  <2>1. U = [i \in 0 .. 0 |-> U[i]] /\ \A i \in 0 .. 0 : i = 0 /\ U[i] = <<>>
    OBVIOUS
  <2> HIDE DEF U
  <2>2. Counts(U, 0)
    BY <2>1, NonePicked
  <2> HIDE DEF Counts
  <2> QED
    BY <2>2
<1>2. ASSUME NEW m \in 1 .. n, m - 1 \in D PROVE m \in D
  <2>1. PICK U : Counts(U, m - 1)
    BY <1>2
  <2> DEFINE V == [i \in 0 .. m |-> IF i = m THEN Goes(U, m) ELSE U[i]]
  <2>2. V = [i \in 0 .. m |-> V[i]]
    OBVIOUS
  <2>3. \A i \in 0 .. m - 1 : V[i] = U[i]
    OBVIOUS
  <2>4. V[m] = Goes(U, m)
    OBVIOUS
  <2> HIDE DEF V
  <2>5. ASSUME NEW i \in 0 .. m PROVE V[i] = Goes(V, i)
    <3>1. i # 0 => i - 1 \in 0 .. m - 1
      OBVIOUS
    <3>2. Goes(V, i) = Goes(U, i)
      BY <2>3, <3>1
    <3>3. CASE i = m
      BY <2>4, <3>2, <3>3
    <3>4. CASE i # m
      <4>1. i \in 0 .. m - 1
        BY <3>4
      <4> HIDE DEF Goes
      <4> QED
        BY <2>1, <2>3, <3>2, <4>1
    <3> QED
      BY <3>3, <3>4
  <2>6. ASSUME NEW i \in 0 .. m PROVE Picks(V[i], S, i)
    <3>1. CASE i = m
      <4>1. m - 1 \in 0 .. m - 1 /\ m - 1 \in Nat /\ m - 1 + 1 = m /\ m # 0
        OBVIOUS
      <4>2. Picks(U[m - 1], S, m - 1)
        BY <2>1, <4>1
      <4>3. Picks(IF m - 1 \in S THEN Append(U[m - 1], m - 1) ELSE U[m - 1], S, m - 1 + 1)
        BY <4>1, <4>2, OneMorePicked
      <4> QED
        BY <2>4, <3>1, <4>1, <4>3
    <3>2. CASE i # m
      <4>1. i \in 0 .. m - 1
        BY <3>2
      <4> QED
        BY <2>1, <2>3, <4>1
    <3> QED
      BY <3>1, <3>2
  <2>7. Counts(V, m)
    BY <2>2, <2>5, <2>6
  <2> HIDE DEF Counts
  <2> QED
    BY <2>7
<1>3. n \in D
  <2> HIDE DEF D
  <2>1. \A m \in 0 .. n : m \in D
    BY <1>1, <1>2, UpTo
  <2> QED
    BY <2>1
<1>4. PICK V : Counts(V, n)
  BY <1>3
<1>5. V = [i \in 0 .. n |-> Goes(V, i)]
  BY <1>4
<1> DEFINE W == CHOOSE W : W = [i \in 0 .. n |-> Goes(W, i)]
<1>6. W = [i \in 0 .. n |-> Goes(W, i)]
  <2> HIDE DEF Goes
  <2> QED
    BY <1>5
<1>7. Picked(S, n) = W[n]
  BY DEF Picked
<1> HIDE DEF W
<1> DEFINE E == {m \in 0 .. n : Picks(W[m], S, m)}
<1>8. 0 \in E
  BY <1>6, NonePicked
<1>9. ASSUME NEW m \in 1 .. n, m - 1 \in E PROVE m \in E
  <2>1. m - 1 \in Nat /\ m - 1 + 1 = m /\ m # 0 /\ m \in 0 .. n
    OBVIOUS
  <2>2. W[m] = IF m - 1 \in S THEN Append(W[m - 1], m - 1) ELSE W[m - 1]
    BY <1>6, <2>1
  <2>3. Picks(IF m - 1 \in S THEN Append(W[m - 1], m - 1) ELSE W[m - 1], S, m - 1 + 1)
    BY <1>9, <2>1, OneMorePicked
  <2> QED
    BY <2>1, <2>2, <2>3
<1> HIDE DEF E
<1>10. n \in E
  <2>1. \A m \in 0 .. n : m \in E
    BY <1>8, <1>9, UpTo
  <2> QED
    BY <2>1
<1> QED
  BY <1>7, <1>10 DEF E

-----------------------------------------------------------------------------
(* The arrays, with the entries in L linked.                                 *)

Entries(s) == 0 .. s.size - 1

Shaped(s) == s.size \in 0 .. MaxSize /\ s \in InternalState(s.size)

Home(s, i) == Bucket(s, s.links.key[i])

(* x is the last of a set of entries, if there is one.                       *)
Tops(x, S) == IF x = NoEntry THEN S = {} ELSE x \in S /\ \A y \in S : y <= x

InBucket(s, L, b) == {i \in L : Home(s, i) = b}
Before(s, L, i) == {j \in L : j < i /\ Home(s, j) = Home(s, i)}

(* All entries that have a value are linked, each in the chain of its        *)
(* bucket behind the later ones, and no two have one key.                    *)
Wired(s, L) ==
  /\ Valued(s) \subseteq L
  /\ L \subseteq 0 .. s.count - 1
  /\ \A i \in L : s.links.key[i] \in Attrs
  /\ \A i, j \in L : s.links.key[i] = s.links.key[j] => i = j
  /\ \A b \in Entries(s) : Tops(s.links.hash[b], InBucket(s, L, b))
  /\ \A i \in L : Tops(s.links.next[i], Before(s, L, i))
  /\ \A i \in Entries(s) \ L : s.links.next[i] = NoEntry

LEMMA ConstantsAre ==
  /\ MaxSize \in Nat /\ MaxSize > 0
  /\ InitialCapacity \in Nat /\ InitialCapacity > 0 /\ InitialCapacity <= MaxSize
  /\ \A k \in Attrs : Hash[k] \in Nat
  /\ NoEntry = -1 /\ NoKey \notin Attrs
<1>1. NoKey \notin Attrs
  <2>1. {NoKey, Links} \cap Attrs = {}
    BY OffersAssumption
  <2> QED
    BY <2>1
<1>2. InitialCapacity \in Nat \ {0} /\ MaxSize \in Nat /\ InitialCapacity <= MaxSize
  BY StateAssumption
<1>3. \A k \in Attrs : Hash[k] \in Nat
  BY StateAssumption
<1> QED
  BY <1>1, <1>2, <1>3 DEF NoEntry

LEMMA ShapedIs ==
  ASSUME NEW s, Shaped(s)
  PROVE  /\ s.size \in Nat /\ s.size <= MaxSize
         /\ s.count \in Nat /\ s.count <= s.size
         /\ DOMAIN s.val = Entries(s)
         /\ \A i \in Entries(s) : /\ s.links.next[i] \in NoEntry .. s.size - 1
                                  /\ s.links.hash[i] \in NoEntry .. s.size - 1
                                  /\ s.links.key[i] \in Attrs \cup {NoKey}
                                  /\ s.links.type[i] \in Types
                                  /\ s.val[i] \in Values
<1>1. /\ s.size \in 0 .. MaxSize /\ s.count \in 0 .. s.size
      /\ s.links.next \in [Entries(s) -> NoEntry .. s.size - 1]
      /\ s.links.hash \in [Entries(s) -> NoEntry .. s.size - 1]
      /\ s.links.key \in [Entries(s) -> Attrs \cup {NoKey}]
      /\ s.links.type \in [Entries(s) -> Types]
      /\ s.val \in [Entries(s) -> Values]
  BY DEF Shaped, InternalState, Entries
<1> QED
  BY <1>1, ConstantsAre

LEMMA BucketIs ==
  ASSUME NEW s, s.size \in Nat, s.size > 0, NEW k \in Attrs
  PROVE  Bucket(s, k) \in Entries(s)
<1>1. Hash[k] \in Nat
  BY ConstantsAre
<1> QED
  BY <1>1 DEF Bucket, Entries

LEMMA WiredIs ==
  ASSUME NEW s, Shaped(s), NEW L, Wired(s, L)
  PROVE  /\ L \subseteq Entries(s)
         /\ \A i \in L : i \in Nat /\ i < s.count /\ i < s.size /\ Home(s, i) \in Entries(s)
         /\ \A i \in L : s.links.next[i] # NoEntry =>
              /\ s.links.next[i] \in L /\ s.links.next[i] < i
              /\ Home(s, s.links.next[i]) = Home(s, i)
<1>1. L \subseteq Entries(s) /\ \A i \in L : i \in Nat /\ i < s.count /\ i < s.size
  BY ShapedIs DEF Wired, Entries
<1>2. \A i \in L : Home(s, i) \in Entries(s)
  BY <1>1, ShapedIs, BucketIs DEF Wired, Home
<1>3. ASSUME NEW i \in L, s.links.next[i] # NoEntry
      PROVE  /\ s.links.next[i] \in L /\ s.links.next[i] < i
             /\ Home(s, s.links.next[i]) = Home(s, i)
  <2>1. s.links.next[i] \in Before(s, L, i)
    BY <1>3 DEF Wired, Tops
  <2> QED
    BY <2>1 DEF Before
<1> QED
  BY <1>1, <1>2, <1>3

(* The walk of EntryOf has a value.                                          *)
Walks(W, s, k, m, left) ==
  W[left][m] = IF m = NoEntry \/ left = 0 THEN NoEntry
               ELSE IF s.links.key[m] = k THEN m
               ELSE W[left - 1][s.links.next[m]]

LEMMA WalkIs ==
  ASSUME NEW s, Shaped(s), s.size # 0, NEW k
  PROVE  \E W : /\ EntryOf(s, k) = W[s.size][s.links.hash[Bucket(s, k)]]
                /\ \A left \in 0 .. s.size : \A m \in NoEntry .. s.size - 1 : Walks(W, s, k, m, left)
<1> DEFINE M == NoEntry .. s.size - 1
           Goes(W, left) == [m \in M |-> IF m = NoEntry \/ left = 0 THEN NoEntry
                                         ELSE IF s.links.key[m] = k THEN m
                                         ELSE W[left - 1][s.links.next[m]]]
           Does(W, n) == /\ W = [left \in 0 .. n |-> W[left]]
                         /\ \A left \in 0 .. n : W[left] = Goes(W, left)
           D == {n \in 0 .. s.size : \E W : Does(W, n)}
<1>1. s.size \in Nat
  BY ShapedIs
<1>2. 0 \in D
  <2> DEFINE W == [left \in 0 .. 0 |-> [m \in M |-> NoEntry]]
  <2>1. W = [left \in 0 .. 0 |-> W[left]]
    OBVIOUS
  <2>2. \A left \in 0 .. 0 : W[left] = Goes(W, left)
    OBVIOUS
  <2> HIDE DEF W, Goes
  <2>3. Does(W, 0)
    BY <2>1, <2>2
  <2> HIDE DEF Does
  <2> QED
    BY <1>1, <2>3
<1>3. ASSUME NEW n \in 1 .. s.size, n - 1 \in D PROVE n \in D
  <2>1. PICK W : Does(W, n - 1)
    BY <1>3
  <2> DEFINE V == [left \in 0 .. n |-> IF left = n THEN Goes(W, n) ELSE W[left]]
  <2>2. V = [left \in 0 .. n |-> V[left]]
    OBVIOUS
  <2>3. \A left \in 0 .. n - 1 : V[left] = W[left]
    OBVIOUS
  <2>4. V[n] = Goes(W, n)
    OBVIOUS
  <2> HIDE DEF V, M
  <2>5. ASSUME NEW left \in 0 .. n PROVE V[left] = Goes(V, left)
    <3>1. left # 0 => V[left - 1] = W[left - 1]
      <4>1. left # 0 => left - 1 \in 0 .. n - 1
        OBVIOUS
      <4> QED
        BY <2>3, <4>1
    <3>2. Goes(V, left) = Goes(W, left)
      BY <3>1
    <3>3. CASE left = n
      BY <2>4, <3>2, <3>3
    <3>4. CASE left # n
      <4>1. left \in 0 .. n - 1
        BY <3>4
      <4> HIDE DEF Goes
      <4> QED
        BY <2>1, <2>3, <3>2, <4>1
    <3> QED
      BY <3>3, <3>4
  <2> HIDE DEF Goes
  <2>6. Does(V, n)
    BY <2>2, <2>5
  <2> HIDE DEF Does
  <2> QED
    BY <2>6
<1>4. s.size \in D
  <2> HIDE DEF D
  <2>1. \A n \in 0 .. s.size : n \in D
    BY <1>1, <1>2, <1>3, UpTo
  <2> QED
    BY <1>1, <2>1
<1>5. PICK V : Does(V, s.size)
  BY <1>4
<1>6. V = [left \in 0 .. s.size |-> Goes(V, left)]
  <2> HIDE DEF Goes, M
  <2> QED
    BY <1>5
<1> DEFINE W == CHOOSE W : W = [left \in 0 .. s.size |-> Goes(W, left)]
<1>7. W = [left \in 0 .. s.size |-> Goes(W, left)]
  <2> HIDE DEF Goes, M
  <2> QED
    BY <1>6
<1>8. EntryOf(s, k) = W[s.size][s.links.hash[Bucket(s, k)]]
  BY DEF EntryOf
<1> HIDE DEF W
<1>9. \A left \in 0 .. s.size : W[left] = Goes(W, left)
  <2> HIDE DEF Goes, M
  <2> QED
    BY <1>7
<1>10. ASSUME NEW left \in 0 .. s.size, NEW m \in M PROVE Walks(W, s, k, m, left)
  <2>1. W[left] = Goes(W, left)
    <3> HIDE DEF Goes
    <3> QED
      BY <1>9
  <2> HIDE DEF M
  <2> QED
    BY <2>1 DEF Walks
<1> HIDE DEF Goes
<1> QED
  BY <1>8, <1>10

(* A linked entry is found by its key.                                       *)
LEMMA Finds ==
  ASSUME NEW s, Shaped(s), NEW L, Wired(s, L), NEW i \in L
  PROVE  EntryOf(s, s.links.key[i]) = i
<1> DEFINE k == s.links.key[i]
           b == Home(s, i)
<1>1. s.size \in Nat /\ i \in Nat /\ i < s.size /\ b \in Entries(s)
  BY ShapedIs, WiredIs
<1>2. PICK W : /\ EntryOf(s, k) = W[s.size][s.links.hash[Bucket(s, k)]]
               /\ \A left \in 0 .. s.size : \A m \in NoEntry .. s.size - 1 : Walks(W, s, k, m, left)
  BY <1>1, WalkIs
<1> DEFINE Reaches(m, left) == Home(s, m) = b /\ i <= m /\ m < left => W[left][m] = i
           D == {left \in 0 .. s.size : \A m \in L : Reaches(m, left)}
<1>3. \A m \in L : m \in NoEntry .. s.size - 1 /\ m \in Nat /\ m # NoEntry
  BY <1>1, WiredIs, ConstantsAre
<1>4. 0 \in D
  BY <1>1, <1>3
<1>5. ASSUME NEW left \in 1 .. s.size, left - 1 \in D PROVE left \in D
  <2> SUFFICES ASSUME NEW m \in L PROVE Reaches(m, left)
    <3> HIDE DEF Reaches
    <3> QED
      BY <1>1
  <2> SUFFICES ASSUME Home(s, m) = b, i <= m, m < left PROVE W[left][m] = i
    OBVIOUS
  <2>1. left \in 0 .. s.size /\ left # 0 /\ m \in Nat /\ m # NoEntry
    BY <1>1, <1>3
  <2>2. W[left][m] = IF s.links.key[m] = k THEN m ELSE W[left - 1][s.links.next[m]]
    BY <1>2, <1>3, <2>1 DEF Walks
  <2>3. CASE m = i
    BY <2>2, <2>3
  <2>4. CASE m # i
    <3>1. s.links.key[m] # k
      BY <2>4 DEF Wired
    <3>2. i \in Before(s, L, m)
      BY <1>1, <2>1, <2>4 DEF Before
    <3>3. s.links.next[m] # NoEntry /\ i <= s.links.next[m]
      BY <3>2 DEF Wired, Tops
    <3>4. s.links.next[m] \in L /\ s.links.next[m] < m /\ Home(s, s.links.next[m]) = b
      BY <3>3, WiredIs
    <3>5. s.links.next[m] < left - 1
      <4>1. s.links.next[m] \in Nat
        BY <1>3, <3>4
      <4> QED
        BY <2>1, <3>4, <4>1
    <3>6. W[left - 1][s.links.next[m]] = i
      BY <1>5, <3>3, <3>4, <3>5
    <3> QED
      BY <2>2, <3>1, <3>6
  <2> QED
    BY <2>3, <2>4
<1>6. s.size \in D
  <2> HIDE DEF D
  <2>1. \A left \in 0 .. s.size : left \in D
    BY <1>1, <1>4, <1>5, UpTo
  <2> QED
    BY <1>1, <2>1
<1>7. i \in InBucket(s, L, b)
  BY DEF InBucket
<1>8. s.links.hash[b] \in InBucket(s, L, b) /\ i <= s.links.hash[b]
  BY <1>1, <1>7 DEF Wired, Tops
<1>9. s.links.hash[b] \in L /\ Home(s, s.links.hash[b]) = b /\ s.links.hash[b] < s.size
  BY <1>8, WiredIs DEF InBucket
<1>10. W[s.size][s.links.hash[b]] = i
  BY <1>6, <1>8, <1>9
<1> QED
  BY <1>2, <1>10 DEF Home

(* A key that no linked entry has is not found.                              *)
LEMMA Misses ==
  ASSUME NEW s, Shaped(s), NEW L, Wired(s, L), NEW k \in Attrs,
         \A i \in L : s.links.key[i] # k
  PROVE  EntryOf(s, k) = NoEntry
<1>1. CASE s.size = 0
  BY <1>1 DEF EntryOf
<1>2. CASE s.size # 0
  <2>1. s.size \in Nat /\ s.size > 0
    BY <1>2, ShapedIs
  <2>2. PICK W : /\ EntryOf(s, k) = W[s.size][s.links.hash[Bucket(s, k)]]
                 /\ \A left \in 0 .. s.size : \A m \in NoEntry .. s.size - 1 : Walks(W, s, k, m, left)
    BY <1>2, WalkIs
  <2> DEFINE M == L \cup {NoEntry}
             D == {left \in 0 .. s.size : \A m \in M : W[left][m] = NoEntry}
  <2>3. \A m \in M : m \in NoEntry .. s.size - 1
    BY <2>1, WiredIs, ConstantsAre
  <2>4. 0 \in D
    BY <2>1, <2>2, <2>3 DEF Walks
  <2>5. ASSUME NEW left \in 1 .. s.size, left - 1 \in D PROVE left \in D
    <3> SUFFICES ASSUME NEW m \in M PROVE W[left][m] = NoEntry
      BY <2>1
    <3>1. left \in 0 .. s.size /\ left # 0
      BY <2>1
    <3>2. W[left][m] = IF m = NoEntry THEN NoEntry
                       ELSE IF s.links.key[m] = k THEN m ELSE W[left - 1][s.links.next[m]]
      BY <2>2, <2>3, <3>1 DEF Walks
    <3>3. CASE m = NoEntry
      BY <3>2, <3>3
    <3>4. CASE m # NoEntry
      <4>1. s.links.next[m] \in M
        BY <3>4, WiredIs
      <4>2. W[left - 1][s.links.next[m]] = NoEntry
        BY <2>5, <4>1
      <4> QED
        BY <3>2, <3>4, <4>2
    <3> QED
      BY <3>3, <3>4
  <2>6. s.size \in D
    <3> HIDE DEF D
    <3>1. \A left \in 0 .. s.size : left \in D
      BY <2>1, <2>4, <2>5, UpTo
    <3> QED
      BY <2>1, <3>1
  <2>7. s.links.hash[Bucket(s, k)] \in M
    <3>1. Bucket(s, k) \in Entries(s)
      BY <2>1, BucketIs
    <3>2. Tops(s.links.hash[Bucket(s, k)], InBucket(s, L, Bucket(s, k)))
      BY <3>1 DEF Wired
    <3> QED
      BY <3>2 DEF Tops, InBucket
  <2> QED
    BY <2>2, <2>6, <2>7
<1> QED
  BY <1>1, <1>2

(* What get returns, and whether it finds anything.                          *)
LEMMA Gets ==
  ASSUME NEW s, Shaped(s), NEW L, Wired(s, L), NEW k \in Attrs
  PROVE  /\ \A i \in L : s.links.key[i] = k =>
              EntryOf(s, k) = i /\ EntryOf(s, k) # NoEntry /\ ValueOf(s, k) = s.val[i]
         /\ (\A i \in L : s.links.key[i] # k) => EntryOf(s, k) = NoEntry /\ ValueOf(s, k) = Null
<1>1. ASSUME NEW i \in L, s.links.key[i] = k
      PROVE  EntryOf(s, k) = i /\ EntryOf(s, k) # NoEntry /\ ValueOf(s, k) = s.val[i]
  <2>1. EntryOf(s, k) = i
    BY <1>1, Finds
  <2>2. i # NoEntry
    BY WiredIs, ConstantsAre
  <2> QED
    BY <2>1, <2>2 DEF ValueOf
<1>2. ASSUME \A i \in L : s.links.key[i] # k
      PROVE  EntryOf(s, k) = NoEntry /\ ValueOf(s, k) = Null
  BY <1>2, Misses DEF ValueOf
<1> QED
  BY <1>1, <1>2

(* An entry that is found is a linked one of that key.                       *)
LEMMA Found ==
  ASSUME NEW s, Shaped(s), NEW L, Wired(s, L), NEW k \in Attrs, EntryOf(s, k) # NoEntry
  PROVE  /\ EntryOf(s, k) \in L /\ EntryOf(s, k) \in Entries(s)
         /\ s.links.key[EntryOf(s, k)] = k
         /\ ValueOf(s, k) = s.val[EntryOf(s, k)]
<1>1. PICK i \in L : s.links.key[i] = k
  BY Gets
<1> QED
  BY <1>1, Gets, WiredIs

-----------------------------------------------------------------------------
(* What the attributes hold.                                                 *)

Fits(type, x) ==
  /\ type = "relation" => x \in Relations
  /\ IF type = "map" THEN x \in Maps ELSE x # NoPairs

Worth(type, v) ==
  /\ v \in Values
  /\ IF v.content = Nothing THEN v = Null ELSE Fits(type, v.content)

Typed(s) == \A i \in Entries(s) : Worth(s.links.type[i], s.val[i])

Fine(s) == Shaped(s) /\ Typed(s) /\ \E L : Wired(s, L)

(* The attributes a reader finds.                                            *)
Shows(s) == [k \in Attrs |-> Shown(ValueOf(s, k).content)]

LEMMA NullIs == Null \in Values /\ Null.content = Nothing /\ \A type : Worth(type, Null)
<1>1. Null \in Values /\ Null.content = Nothing
  BY DEF Null, Value, Values, Contents
<1> QED
  BY <1>1 DEF Worth

LEMMA TopsAre ==
  ASSUME NEW n \in Nat, NEW S, S \subseteq 0 .. n - 1
  PROVE  Tops(Latest(S), S)
<1>1. CASE S = {}
  BY <1>1 DEF Tops, Latest
<1>2. CASE S # {}
  <2> DEFINE D == {m \in 0 .. n : (\E x \in S : x < m) => \E x \in S : \A y \in S : y < m => y <= x}
  <2>1. 0 \in D
    OBVIOUS
  <2>2. ASSUME NEW m \in 1 .. n, m - 1 \in D PROVE m \in D
    <3>1. CASE m - 1 \in S
      <4>1. \A y \in S : y < m => y <= m - 1
        OBVIOUS
      <4> QED
        BY <3>1, <4>1
    <3>2. CASE m - 1 \notin S
      <4>1. \A y \in S : y < m => y < m - 1
        BY <3>2
      <4>2. m \in 0 .. n
        OBVIOUS
      <4> QED
        BY <2>2, <4>1, <4>2
    <3> QED
      BY <3>1, <3>2
  <2>3. n \in D
    <3> HIDE DEF D
    <3>1. \A m \in 0 .. n : m \in D
      BY <2>1, <2>2, UpTo
    <3> QED
      BY <3>1
  <2>4. \A x \in S : x < n /\ x \in Nat
    OBVIOUS
  <2>5. \E x \in S : \A y \in S : x >= y
    BY <1>2, <2>3, <2>4
  <2>6. Max(S) \in S /\ \A y \in S : Max(S) >= y
    BY <2>5 DEF Max
  <2>7. Latest(S) = Max(S) /\ Max(S) # NoEntry
    <3>1. Max(S) \in Nat
      BY <2>4, <2>6
    <3>2. NoEntry = -1
      BY ConstantsAre
    <3>3. Latest(S) = Max(S)
      BY <1>2 DEF Latest
    <3> QED
      BY <3>1, <3>2, <3>3
  <2> QED
    BY <2>4, <2>6, <2>7 DEF Tops
<1> QED
  BY <1>1, <1>2

(* t is s with one more entry, at the head of its chain.                     *)
Adds(t, s, k, type, v) ==
  LET i == s.count
      b == Bucket(s, k)
  IN  /\ Shaped(t)
      /\ t.size = s.size /\ t.count = s.count + 1 /\ t.readOnly = s.readOnly
      /\ t.val = [s.val EXCEPT ![i] = v]
      /\ t.links.key = [s.links.key EXCEPT ![i] = k]
      /\ t.links.type = [s.links.type EXCEPT ![i] = type]
      /\ t.links.next = [s.links.next EXCEPT ![i] =
                           IF s.links.hash[b] # NoEntry THEN s.links.hash[b] ELSE @]
      /\ t.links.hash = [s.links.hash EXCEPT ![b] = i]

LEMMA InsertedAdds ==
  ASSUME NEW s, Shaped(s), s.count < s.size,
         NEW k \in Attrs, NEW type \in Types, NEW v \in Values
  PROVE  Adds(Inserted(s, k, type, v), s, k, type, v)
<1> DEFINE i == s.count
           b == Bucket(s, k)
           u == [s EXCEPT !.links.key[i] = k, !.links.type[i] = type,
                          !.val[i] = v, !.count = @ + 1]
           t == Inserted(s, k, type, v)
<1>1. /\ s \in InternalState(s.size) /\ s.size \in 0 .. MaxSize
      /\ i \in Entries(s) /\ s.size \in Nat /\ i + 1 \in 0 .. s.size /\ b \in Entries(s)
  BY ShapedIs, BucketIs DEF Shaped, Entries
<1>2. /\ u \in InternalState(s.size)
      /\ u.size = s.size /\ u.count = i + 1 /\ u.readOnly = s.readOnly
      /\ u.val = [s.val EXCEPT ![i] = v]
      /\ u.links.key = [s.links.key EXCEPT ![i] = k]
      /\ u.links.type = [s.links.type EXCEPT ![i] = type]
      /\ u.links.next = s.links.next
      /\ u.links.hash = s.links.hash
  BY <1>1 DEF InternalState, Entries
<1>3. u.links.key[i] = k
  <2>1. s.links.key \in [Entries(s) -> Attrs \cup {NoKey}]
    BY <1>1 DEF InternalState, Entries
  <2> HIDE DEF u, i
  <2> QED
    BY <1>1, <1>2, <2>1
<1> DEFINE h == IF s.links.hash[b] # NoEntry THEN s.links.hash[b] ELSE s.links.next[i]
<1>4. h \in NoEntry .. s.size - 1
  BY <1>1, ShapedIs
<1>5. i \in NoEntry .. s.size - 1
  BY <1>1, ConstantsAre DEF Entries
<1>6. t = [u EXCEPT !.links.next[i] = IF u.links.hash[b] # NoEntry THEN u.links.hash[b] ELSE @,
                    !.links.hash[b] = i]
  <2>1. t = Linked(u, i)
    BY DEF Inserted
  <2> HIDE DEF t, u
  <2>2. Bucket(u, u.links.key[i]) = b
    BY <1>2, <1>3 DEF Bucket
  <2> HIDE DEF b
  <2> QED
    BY <2>1, <2>2 DEF Linked
<1> HIDE DEF u, t
<1>7. t = [u EXCEPT !.links.next[i] = h, !.links.hash[b] = i]
  BY <1>2, <1>6 DEF InternalState
<1> HIDE DEF h
<1>8. /\ t \in InternalState(s.size)
      /\ t.size = u.size /\ t.count = u.count /\ t.readOnly = u.readOnly
      /\ t.val = u.val /\ t.links.key = u.links.key /\ t.links.type = u.links.type
      /\ t.links.next = [u.links.next EXCEPT ![i] = h]
      /\ t.links.hash = [u.links.hash EXCEPT ![b] = i]
  BY <1>1, <1>2, <1>4, <1>5, <1>7 DEF InternalState, Entries
<1>9. Shaped(t)
  BY <1>1, <1>2, <1>8 DEF Shaped
<1> QED
  BY <1>2, <1>8, <1>9 DEF Adds, t, h

LEMMA InsertedWired ==
  ASSUME NEW s, Shaped(s), NEW L, Wired(s, L), s.count < s.size,
         NEW k \in Attrs, \A i \in L : s.links.key[i] # k,
         NEW type \in Types, NEW v \in Values
  PROVE  Wired(Inserted(s, k, type, v), L \cup {s.count})
<1> DEFINE c == s.count
           b == Bucket(s, k)
           t == Inserted(s, k, type, v)
           M == L \cup {c}
<1>1. /\ Shaped(t) /\ t.size = s.size /\ t.count = c + 1
      /\ t.val = [s.val EXCEPT ![c] = v]
      /\ t.links.key = [s.links.key EXCEPT ![c] = k]
      /\ t.links.next = [s.links.next EXCEPT ![c] =
                           IF s.links.hash[b] # NoEntry THEN s.links.hash[b] ELSE @]
      /\ t.links.hash = [s.links.hash EXCEPT ![b] = c]
  <2>1. Adds(t, s, k, type, v)
    BY InsertedAdds
  <2> QED
    BY <2>1 DEF Adds
<1>2. /\ s.size \in Nat /\ c \in Nat /\ c \in Entries(s) /\ b \in Entries(s) /\ Entries(t) = Entries(s)
      /\ DOMAIN s.val = Entries(s) /\ DOMAIN s.links.key = Entries(s)
      /\ DOMAIN s.links.next = Entries(s) /\ DOMAIN s.links.hash = Entries(s)
  <2>1. s \in InternalState(s.size)
    BY DEF Shaped
  <2> QED
    BY <1>1, <2>1, ShapedIs, BucketIs DEF Entries, InternalState
<1>3. /\ L \subseteq Entries(s)
      /\ \A i \in L : i \in Nat /\ i < c
  BY WiredIs
<1> HIDE DEF t, c, b
<1>4. /\ \A i \in Entries(s) : i # c => /\ t.val[i] = s.val[i]
                                       /\ t.links.key[i] = s.links.key[i]
                                       /\ t.links.next[i] = s.links.next[i]
      /\ \A x \in Entries(s) : x # b => t.links.hash[x] = s.links.hash[x]
      /\ t.links.key[c] = k
      /\ t.links.hash[b] = c
  BY <1>1, <1>2
<1>5. t.links.next[c] = s.links.hash[b]
  <2>1. s.links.next[c] = NoEntry
    BY <1>2, <1>3 DEF Wired
  <2> QED
    BY <1>1, <1>2, <2>1
<1>6. /\ \A i \in L : Home(t, i) = Home(s, i)
      /\ Home(t, c) = b
  BY <1>1, <1>3, <1>4 DEF Home, Bucket, b
<1>7. Valued(t) \subseteq M
  <2> SUFFICES ASSUME NEW i \in Entries(s), t.val[i] # Null, i # c PROVE i \in L
    BY <1>2 DEF Valued, Entries
  <2>1. i \in Valued(s)
    BY <1>4 DEF Valued, Entries
  <2> QED
    BY <2>1 DEF Wired
<1>8. M \subseteq 0 .. t.count - 1
  BY <1>1, <1>2, <1>3
<1>9. /\ \A i \in M : t.links.key[i] \in Attrs
      /\ \A i, j \in M : t.links.key[i] = t.links.key[j] => i = j
  BY <1>3, <1>4 DEF Wired
<1>10. ASSUME NEW x \in Entries(t) PROVE Tops(t.links.hash[x], InBucket(t, M, x))
  <2>1. CASE x = b
    <3>1. c \in InBucket(t, M, x) /\ \A y \in InBucket(t, M, x) : y <= c
      BY <1>2, <1>3, <1>6, <2>1 DEF InBucket
    <3>2. c # NoEntry
      BY <1>2, ConstantsAre
    <3> QED
      BY <1>4, <2>1, <3>1, <3>2 DEF Tops
  <2>2. CASE x # b
    <3>1. InBucket(t, M, x) = InBucket(s, L, x)
      BY <1>6, <2>2 DEF InBucket
    <3> QED
      BY <1>2, <1>4, <2>2, <3>1 DEF Wired
  <2> QED
    BY <2>1, <2>2
<1>11. ASSUME NEW i \in M PROVE Tops(t.links.next[i], Before(t, M, i))
  <2>1. CASE i = c
    <3>1. Before(t, M, c) = InBucket(s, L, b)
      BY <1>2, <1>3, <1>6 DEF Before, InBucket
    <3> QED
      BY <1>2, <1>5, <2>1, <3>1 DEF Wired
  <2>2. CASE i \in L
    <3>1. Before(t, M, i) = Before(s, L, i)
      BY <1>2, <1>3, <1>6, <2>2 DEF Before
    <3>2. i \in Entries(s) /\ i # c
      BY <1>2, <1>3, <2>2
    <3> QED
      BY <1>4, <2>2, <3>1, <3>2 DEF Wired
  <2> QED
    BY <2>1, <2>2
<1>12. \A i \in Entries(t) \ M : t.links.next[i] = NoEntry
  BY <1>2, <1>4 DEF Wired
<1> QED
  BY <1>7, <1>8, <1>9, <1>10, <1>11, <1>12 DEF Wired, t, c

(* An insertion shows the new attribute and the others as before.            *)
LEMMA InsertedIs ==
  ASSUME NEW s, Fine(s), s.count < s.size,
         NEW k \in Attrs, EntryOf(s, k) = NoEntry, NEW type \in Types, NEW v, Worth(type, v)
  PROVE  /\ Fine(Inserted(s, k, type, v))
         /\ Shows(Inserted(s, k, type, v)) = [Shows(s) EXCEPT ![k] = Shown(v.content)]
<1> DEFINE c == s.count
           t == Inserted(s, k, type, v)
<1>1. PICK L : Wired(s, L)
  BY DEF Fine
<1>2. Shaped(s) /\ Typed(s) /\ v \in Values
  BY DEF Fine, Worth
<1>3. \A i \in L : s.links.key[i] # k
  BY <1>1, <1>2, Gets
<1> DEFINE M == L \cup {c}
<1>4. Wired(t, M)
  BY <1>1, <1>2, <1>3, InsertedWired
<1>5. /\ Shaped(t) /\ t.size = s.size
      /\ t.val = [s.val EXCEPT ![c] = v]
      /\ t.links.key = [s.links.key EXCEPT ![c] = k]
      /\ t.links.type = [s.links.type EXCEPT ![c] = type]
  <2>1. Adds(t, s, k, type, v)
    BY <1>2, InsertedAdds
  <2> QED
    BY <2>1 DEF Adds
<1>6. /\ c \in Entries(s) /\ Entries(t) = Entries(s) /\ L \subseteq Entries(s) /\ c \notin L
      /\ c \in M /\ L \subseteq M /\ \A i \in M : i = c \/ i \in L
      /\ DOMAIN s.val = Entries(s) /\ DOMAIN s.links.key = Entries(s)
      /\ DOMAIN s.links.type = Entries(s)
  <2>1. s \in InternalState(s.size)
    BY <1>2 DEF Shaped
  <2> QED
    BY <1>1, <1>2, <1>5, <2>1, ShapedIs, WiredIs DEF Entries, InternalState
<1> HIDE DEF t, c
<1>7. /\ t.val[c] = v /\ t.links.key[c] = k /\ t.links.type[c] = type
      /\ \A i \in Entries(s) : i # c => /\ t.val[i] = s.val[i]
                                       /\ t.links.key[i] = s.links.key[i]
                                       /\ t.links.type[i] = s.links.type[i]
  BY <1>5, <1>6
<1> HIDE DEF M
<1>13. Shaped(t)
  BY <1>5
<1>8. Typed(t)
  BY <1>2, <1>6, <1>7 DEF Typed
<1>9. ValueOf(t, k) = v
  BY <1>4, <1>5, <1>6, <1>7, Gets
<1>10. ASSUME NEW j \in Attrs, j # k PROVE ValueOf(t, j) = ValueOf(s, j)
  <2>1. CASE \E i \in L : s.links.key[i] = j
    <3>1. PICK i \in L : s.links.key[i] = j
      BY <2>1
    <3>2. t.val[i] = s.val[i] /\ t.links.key[i] = j /\ i \in M
      BY <1>6, <1>7, <3>1
    <3>3. ValueOf(s, j) = s.val[i]
      BY <1>1, <1>2, <3>1, Gets
    <3>4. ValueOf(t, j) = t.val[i]
      BY <1>4, <1>13, <3>2, Gets
    <3> QED
      BY <3>2, <3>3, <3>4
  <2>2. CASE \A i \in L : s.links.key[i] # j
    <3>1. \A i \in M : t.links.key[i] # j
      BY <1>6, <1>7, <1>10, <2>2
    <3>2. ValueOf(s, j) = Null
      BY <1>1, <1>2, <2>2, Gets
    <3>3. ValueOf(t, j) = Null
      BY <1>4, <1>13, <3>1, Gets
    <3> QED
      BY <3>2, <3>3
  <2> QED
    BY <2>1, <2>2
<1>11. Shows(t) = [Shows(s) EXCEPT ![k] = Shown(v.content)]
  BY <1>9, <1>10 DEF Shows
<1>12. Fine(t)
  BY <1>4, <1>5, <1>8 DEF Fine
<1> QED
  BY <1>11, <1>12 DEF t

(* t has the entries of s, however they are linked.                          *)
SameEntries(t, s) ==
  /\ Shaped(t)
  /\ t.size = s.size /\ t.count = s.count /\ t.readOnly = s.readOnly
  /\ t.val = s.val /\ t.links.key = s.links.key /\ t.links.type = s.links.type

(* The entries with a value could be linked.                                 *)
Linkable(s) ==
  /\ Shaped(s)
  /\ \A i \in Valued(s) : i < s.count /\ s.links.key[i] \in Attrs
  /\ \A i, j \in Valued(s) : s.links.key[i] = s.links.key[j] => i = j

LEMMA RehashedWired ==
  ASSUME NEW s, Linkable(s)
  PROVE  SameEntries(Rehashed(s), s) /\ Wired(Rehashed(s), Valued(s))
<1> DEFINE t == Rehashed(s)
           V == Valued(s)
           hash == [b \in 0 .. s.size - 1 |-> Latest(InBucket(s, V, b))]
           next == [i \in 0 .. s.size - 1 |->
                      IF s.val[i] = Null THEN NoEntry ELSE Latest(Before(s, V, i))]
<1>1. /\ Shaped(s) /\ s \in InternalState(s.size) /\ s.size \in Nat /\ s.size \in 0 .. MaxSize
      /\ s.count \in Nat /\ s.count <= s.size
  BY ShapedIs DEF Linkable, Shaped
<1>2. V \subseteq Entries(s) /\ \A i \in V : i \in Nat
  BY <1>1 DEF Valued, Entries
<1>3. t = [s EXCEPT !.links.hash = hash, !.links.next = next]
  <2>1. \A b : {i \in V : Bucket(s, s.links.key[i]) = b} = InBucket(s, V, b)
    BY DEF InBucket, Home
  <2>2. \A i : {j \in {m \in V : Bucket(s, s.links.key[m]) = Bucket(s, s.links.key[i])} : j < i}
               = Before(s, V, i)
    BY DEF Before, Home
  <2> QED
    BY <2>1, <2>2 DEF Rehashed
<1>4. \A S \in SUBSET Entries(s) : Tops(Latest(S), S) /\ Latest(S) \in NoEntry .. s.size - 1
  <2> SUFFICES ASSUME NEW S \in SUBSET Entries(s)
               PROVE  Tops(Latest(S), S) /\ Latest(S) \in NoEntry .. s.size - 1
    OBVIOUS
  <2>1. Tops(Latest(S), S)
    BY <1>1, TopsAre DEF Entries
  <2>2. Latest(S) = NoEntry \/ Latest(S) \in Entries(s)
    BY <2>1 DEF Tops
  <2> QED
    BY <1>1, <2>1, <2>2, ConstantsAre DEF Entries
<1>5. \A b : InBucket(s, V, b) \in SUBSET Entries(s)
  BY <1>2 DEF InBucket
<1>6. \A i : Before(s, V, i) \in SUBSET Entries(s)
  BY <1>2 DEF Before
<1>7. hash \in [Entries(s) -> NoEntry .. s.size - 1]
  BY <1>4, <1>5 DEF Entries
<1>8. next \in [Entries(s) -> NoEntry .. s.size - 1]
  <2>1. NoEntry \in NoEntry .. s.size - 1
    BY <1>1, ConstantsAre
  <2> QED
    BY <1>4, <1>6, <2>1 DEF Entries
<1>9. \A b \in Entries(s) : hash[b] = Latest(InBucket(s, V, b))
  BY DEF Entries
<1>10. \A i \in Entries(s) : next[i] = IF s.val[i] = Null THEN NoEntry ELSE Latest(Before(s, V, i))
  BY DEF Entries
<1> HIDE DEF t, hash, next
<1>11. /\ t \in InternalState(s.size)
       /\ t.size = s.size /\ t.count = s.count /\ t.readOnly = s.readOnly
       /\ t.val = s.val /\ t.links.key = s.links.key /\ t.links.type = s.links.type
       /\ t.links.hash = hash /\ t.links.next = next
  BY <1>1, <1>3, <1>7, <1>8 DEF InternalState, Entries
<1>12. SameEntries(t, s)
  BY <1>1, <1>11 DEF SameEntries, Shaped
<1>13. Entries(t) = Entries(s) /\ Valued(t) = V
  BY <1>11 DEF Entries, Valued
<1>14. \A i : Home(t, i) = Home(s, i)
  BY <1>11 DEF Home, Bucket
<1> HIDE DEF V
<1>15. /\ \A b : InBucket(t, V, b) = InBucket(s, V, b)
       /\ \A i : Before(t, V, i) = Before(s, V, i)
  BY <1>14 DEF InBucket, Before
<1>16. \A b \in Entries(t) : Tops(t.links.hash[b], InBucket(t, V, b))
  BY <1>4, <1>5, <1>9, <1>11, <1>13, <1>15
<1>17. \A i \in V : Tops(t.links.next[i], Before(t, V, i))
  <2>1. \A i \in V : i \in Entries(s) /\ s.val[i] # Null
    BY DEF V, Valued, Entries
  <2> QED
    BY <1>4, <1>6, <1>10, <1>11, <1>15, <2>1
<1>18. \A i \in Entries(t) \ V : t.links.next[i] = NoEntry
  <2>1. \A i \in Entries(s) \ V : s.val[i] = Null
    BY DEF V, Valued, Entries
  <2> QED
    BY <1>10, <1>11, <1>13, <2>1
<1>19. /\ \A i \in V : i < s.count /\ s.links.key[i] \in Attrs
       /\ \A i, j \in V : s.links.key[i] = s.links.key[j] => i = j
  BY DEF V, Linkable
<1>20. V \subseteq 0 .. t.count - 1
  BY <1>1, <1>2, <1>11, <1>19
<1>21. /\ \A i \in V : t.links.key[i] \in Attrs
       /\ \A i, j \in V : t.links.key[i] = t.links.key[j] => i = j
  BY <1>11, <1>19
<1>22. Wired(t, V)
  BY <1>13, <1>16, <1>17, <1>18, <1>20, <1>21 DEF Wired
<1> QED
  BY <1>12, <1>22 DEF t, V

(* What the entries with a value show.                                       *)
LEMMA RehashedShows ==
  ASSUME NEW s, Linkable(s), NEW k \in Attrs
  PROVE  /\ \A i \in Valued(s) : s.links.key[i] = k => ValueOf(Rehashed(s), k) = s.val[i]
         /\ (\A i \in Valued(s) : s.links.key[i] # k) =>
              EntryOf(Rehashed(s), k) = NoEntry /\ ValueOf(Rehashed(s), k) = Null
<1> DEFINE t == Rehashed(s)
           V == Valued(s)
<1>1. Wired(t, V) /\ SameEntries(t, s)
  BY RehashedWired
<1> HIDE DEF t, V
<1>2. Shaped(t) /\ t.val = s.val /\ t.links.key = s.links.key
  BY <1>1 DEF SameEntries
<1>3. ASSUME NEW i \in V, s.links.key[i] = k PROVE ValueOf(t, k) = s.val[i]
  <2>1. t.links.key[i] = k
    BY <1>2, <1>3
  <2>2. ValueOf(t, k) = t.val[i]
    BY <1>1, <1>2, <2>1, Gets
  <2> QED
    BY <1>2, <2>2
<1>4. ASSUME \A i \in V : s.links.key[i] # k
      PROVE  EntryOf(t, k) = NoEntry /\ ValueOf(t, k) = Null
  <2>1. \A i \in V : t.links.key[i] # k
    BY <1>2, <1>4
  <2> QED
    BY <1>1, <1>2, <2>1, Gets
<1> QED
  BY <1>3, <1>4 DEF t, V

LEMMA NoKeyIs == NoKey \in Types
BY DEF Types

LEMMA BlankIs ==
  ASSUME NEW n \in 0 .. MaxSize
  PROVE  /\ Shaped(Blank(n)) /\ Fine(Blank(n)) /\ Valued(Blank(n)) = {}
         /\ Shows(Blank(n)) = [k \in Attrs |-> Nothing]
<1> DEFINE s == Blank(n)
<1>1. n \in Nat /\ NoEntry \in NoEntry .. n - 1
  BY ConstantsAre
<1>2. s \in InternalState(n) /\ s.size = n /\ s.count = 0 /\ Entries(s) = 0 .. n - 1
  BY <1>1, NoKeyIs, NullIs DEF Blank, InternalState, Entries
<1>3. Shaped(s)
  BY <1>2 DEF Shaped
<1>4. \A i \in Entries(s) : s.val[i] = Null /\ s.links.hash[i] = NoEntry /\ s.links.next[i] = NoEntry
  BY <1>2 DEF Blank
<1>5. Valued(s) = {}
  BY <1>2, <1>4 DEF Valued
<1> HIDE DEF s
<1>6. Typed(s)
  BY <1>4, NullIs DEF Typed
<1>7. Wired(s, {})
  BY <1>4, <1>5 DEF Wired, Tops, InBucket
<1>8. \A k \in Attrs : ValueOf(s, k) = Null
  BY <1>3, <1>7, Gets
<1>9. Shown(Nothing) = Nothing
  BY DEF Shown
<1>10. Shows(s) = [k \in Attrs |-> Nothing]
  BY <1>8, <1>9, NullIs DEF Shows
<1>11. Fine(s)
  BY <1>3, <1>6, <1>7 DEF Fine
<1> QED
  BY <1>3, <1>5, <1>10, <1>11 DEF s

(* What get returns is the value of the entry that has one.                  *)
LEMMA Reads ==
  ASSUME NEW s, Shaped(s), NEW L, Wired(s, L), NEW k \in Attrs
  PROVE  /\ \A i \in Valued(s) : s.links.key[i] = k => ValueOf(s, k) = s.val[i]
         /\ (\A i \in Valued(s) : s.links.key[i] # k) => ValueOf(s, k) = Null
<1>1. ASSUME NEW i \in Valued(s), s.links.key[i] = k PROVE ValueOf(s, k) = s.val[i]
  <2>1. i \in L
    BY DEF Wired
  <2> QED
    BY <1>1, <2>1, Gets
<1>2. ASSUME \A i \in Valued(s) : s.links.key[i] # k PROVE ValueOf(s, k) = Null
  <2>1. CASE \E i \in L : s.links.key[i] = k
    <3>1. PICK i \in L : s.links.key[i] = k
      BY <2>1
    <3>2. i \in Entries(s) /\ ValueOf(s, k) = s.val[i]
      BY <3>1, Gets, WiredIs
    <3>3. s.val[i] = Null
      BY <1>2, <3>1, <3>2 DEF Valued, Entries
    <3> QED
      BY <3>2, <3>3
  <2>2. CASE \A i \in L : s.links.key[i] # k
    BY <2>2, Gets
  <2> QED
    BY <2>1, <2>2
<1> QED
  BY <1>1, <1>2

LEMMA GrownIs ==
  ASSUME NEW s, Fine(s), 2 * s.size <= MaxSize
  PROVE  /\ Fine(Grown(s)) /\ Grown(s).count < Grown(s).size
         /\ Shows(Grown(s)) = Shows(s)
         /\ \A k \in Attrs : EntryOf(s, k) = NoEntry => EntryOf(Grown(s), k) = NoEntry
<1> DEFINE n == IF s.size = 0 THEN 1 ELSE 2 * s.size
           key == [i \in 0 .. n - 1 |-> IF i \in Entries(s) THEN s.links.key[i] ELSE NoKey]
           type == [i \in 0 .. n - 1 |-> IF i \in Entries(s) THEN s.links.type[i] ELSE NoKey]
           val == [i \in 0 .. n - 1 |-> IF i \in Entries(s) THEN s.val[i] ELSE Null]
           u == [Blank(n) EXCEPT !.links.key = key, !.links.type = type,
                                 !.val = val, !.count = s.count]
<1>1. Shaped(s) /\ Typed(s) /\ \E L : Wired(s, L)
  BY DEF Fine
<1>2. PICK L : Wired(s, L)
  BY <1>1
<1>3. /\ s \in InternalState(s.size) /\ s.size \in Nat /\ s.count \in Nat /\ s.count <= s.size
      /\ DOMAIN s.links.key = Entries(s) /\ DOMAIN s.links.type = Entries(s)
      /\ DOMAIN s.val = Entries(s)
  <2>1. s \in InternalState(s.size)
    BY <1>1 DEF Shaped
  <2> QED
    BY <1>1, <2>1, ShapedIs DEF InternalState, Entries
<1>4. /\ n \in 0 .. MaxSize /\ n \in Nat /\ s.count < n /\ s.count \in 0 .. n /\ s.size <= n
      /\ Entries(s) \subseteq 0 .. n - 1
  BY <1>3, ConstantsAre DEF Entries
<1>5. Grown(s) = Rehashed(u)
  <2> DEFINE copied(f, g) == [i \in DOMAIN g |-> IF i \in DOMAIN f THEN f[i] ELSE g[i]]
             b == Blank(n)
  <2>1. Grown(s) = Rehashed([b EXCEPT !.links.key = copied(s.links.key, @),
                                      !.links.type = copied(s.links.type, @),
                                      !.val = copied(s.val, @),
                                      !.count = s.count])
    BY DEF Grown
  <2> HIDE DEF n
  <2>2. /\ b.links.key = [i \in 0 .. n - 1 |-> NoKey] /\ b.links.type = [i \in 0 .. n - 1 |-> NoKey]
        /\ b.val = [i \in 0 .. n - 1 |-> Null]
    BY DEF Blank
  <2>3. copied(s.links.key, b.links.key) = key
    BY <1>3, <2>2
  <2>4. copied(s.links.type, b.links.type) = type
    BY <1>3, <2>2
  <2>5. copied(s.val, b.val) = val
    BY <1>3, <2>2
  <2>6. [b EXCEPT !.links.key = copied(s.links.key, @), !.links.type = copied(s.links.type, @),
                  !.val = copied(s.val, @), !.count = s.count]
        = [b EXCEPT !.links.key = copied(s.links.key, b.links.key),
                    !.links.type = copied(s.links.type, b.links.type),
                    !.val = copied(s.val, b.val), !.count = s.count]
    <3> HIDE DEF copied
    <3> QED
      BY DEF Blank
  <2> QED
    BY <2>1, <2>3, <2>4, <2>5, <2>6
<1> HIDE DEF n
<1>6. NoKey \in Types /\ NoEntry \in NoEntry .. n - 1
  BY <1>4, NoKeyIs, ConstantsAre
<1>7. key \in [0 .. n - 1 -> Attrs \cup {NoKey}]
  BY <1>1, ShapedIs
<1>8. type \in [0 .. n - 1 -> Types]
  BY <1>1, <1>6, ShapedIs
<1>9. val \in [0 .. n - 1 -> Values]
  BY <1>1, NullIs, ShapedIs
<1>10. /\ \A i \in Entries(s) : key[i] = s.links.key[i] /\ type[i] = s.links.type[i] /\ val[i] = s.val[i]
       /\ \A i \in 0 .. n - 1 : i \notin Entries(s) => val[i] = Null
  BY <1>4
<1> HIDE DEF key, type, val
<1>11. /\ u \in InternalState(n) /\ u.size = n /\ u.count = s.count
       /\ u.links.key = key /\ u.links.type = type /\ u.val = val
  BY <1>4, <1>6, <1>7, <1>8, <1>9 DEF Blank, InternalState
<1>12. Shaped(u) /\ Entries(u) = 0 .. n - 1
  BY <1>4, <1>11 DEF Shaped, Entries
<1> HIDE DEF u
<1>13. Valued(u) = Valued(s) /\ Valued(s) \subseteq Entries(s) /\ Valued(s) \subseteq L
  <2>1. Valued(s) \subseteq Entries(s) /\ Valued(s) \subseteq L
    BY <1>2 DEF Valued, Entries, Wired
  <2>2. \A i \in Entries(s) : i \in 0 .. n - 1 /\ u.val[i] = s.val[i]
    BY <1>4, <1>10, <1>11
  <2>3. \A i \in 0 .. n - 1 : u.val[i] # Null => i \in Entries(s)
    BY <1>10, <1>11
  <2>4. Valued(u) = {i \in 0 .. n - 1 : u.val[i] # Null}
    BY <1>11 DEF Valued
  <2>5. Valued(s) = {i \in Entries(s) : s.val[i] # Null}
    BY DEF Valued, Entries
  <2> QED
    BY <2>1, <2>2, <2>3, <2>4, <2>5
<1>14. \A i \in Valued(s) : u.links.key[i] = s.links.key[i] /\ u.val[i] = s.val[i]
  BY <1>10, <1>11, <1>13
<1>15. Linkable(u)
  <2>1. \A i \in Valued(u) : i < u.count
    BY <1>1, <1>2, <1>11, <1>13, WiredIs
  <2>2. \A i \in Valued(u) : u.links.key[i] \in Attrs
    BY <1>2, <1>13, <1>14 DEF Wired
  <2>3. \A i, j \in Valued(u) : u.links.key[i] = u.links.key[j] => i = j
    BY <1>2, <1>13, <1>14 DEF Wired
  <2> QED
    BY <1>12, <2>1, <2>2, <2>3 DEF Linkable
<1> DEFINE t == Rehashed(u)
<1>16. SameEntries(t, u) /\ Wired(t, Valued(u))
  BY <1>15, RehashedWired
<1>17. /\ Shaped(t) /\ t.size = n /\ t.count = s.count /\ t.val = val /\ t.links.type = type
       /\ Entries(t) = 0 .. n - 1
  BY <1>11, <1>16 DEF SameEntries, Entries
<1>18. Typed(t)
  <2> SUFFICES ASSUME NEW i \in 0 .. n - 1 PROVE Worth(type[i], val[i])
    BY <1>17 DEF Typed
  <2> QED
    BY <1>1, <1>10, NullIs DEF Typed
<1>19. ASSUME NEW k \in Attrs PROVE ValueOf(t, k) = ValueOf(s, k)
  <2>1. CASE \E i \in Valued(s) : s.links.key[i] = k
    <3>1. PICK i \in Valued(s) : s.links.key[i] = k
      BY <2>1
    <3>2. ValueOf(s, k) = s.val[i]
      BY <1>1, <1>2, <3>1, Reads
    <3>3. ValueOf(t, k) = u.val[i]
      BY <1>13, <1>14, <1>15, <3>1, RehashedShows
    <3> QED
      BY <1>14, <3>1, <3>2, <3>3
  <2>2. CASE \A i \in Valued(s) : s.links.key[i] # k
    <3>1. ValueOf(s, k) = Null
      BY <1>1, <1>2, <2>2, Reads
    <3>2. ValueOf(t, k) = Null
      BY <1>13, <1>14, <1>15, <2>2, RehashedShows
    <3> QED
      BY <3>1, <3>2
  <2> QED
    BY <2>1, <2>2
<1>20. ASSUME NEW k \in Attrs, EntryOf(s, k) = NoEntry PROVE EntryOf(t, k) = NoEntry
  <2>1. \A i \in L : s.links.key[i] # k
    BY <1>1, <1>2, <1>20, Gets
  <2>2. \A i \in Valued(u) : u.links.key[i] # k
    BY <1>13, <1>14, <2>1
  <2> QED
    BY <1>15, <2>2, RehashedShows
<1> HIDE DEF t
<1>21. Fine(t)
  BY <1>16, <1>17, <1>18 DEF Fine
<1>22. Shows(t) = Shows(s)
  BY <1>19 DEF Shows
<1>23. t = Grown(s)
  BY <1>5 DEF t
<1> QED
  BY <1>4, <1>17, <1>20, <1>21, <1>22, <1>23

-----------------------------------------------------------------------------
(* Changes that leave the links alone.                                       *)

SameLinks(t, s) ==
  /\ Shaped(t)
  /\ t.size = s.size /\ t.count = s.count
  /\ t.links.key = s.links.key /\ t.links.next = s.links.next /\ t.links.hash = s.links.hash

LEMMA SameWired ==
  ASSUME NEW s, NEW t, SameLinks(t, s), NEW L, Wired(s, L), Valued(t) \subseteq L
  PROVE  Wired(t, L)
<1>1. Entries(t) = Entries(s) /\ t.count = s.count
  BY DEF SameLinks, Entries
<1>2. \A i : Home(t, i) = Home(s, i)
  BY DEF SameLinks, Home, Bucket
<1>3. /\ \A b : InBucket(t, L, b) = InBucket(s, L, b)
      /\ \A i : Before(t, L, i) = Before(s, L, i)
  BY <1>2 DEF InBucket, Before
<1> QED
  BY <1>1, <1>3 DEF Wired, SameLinks

(* Only the entry of k changes.                                              *)
ChangesAt(t, s, k, type, v) ==
  LET e == EntryOf(s, k)
  IN  /\ SameLinks(t, s)
      /\ t.val[e] = v /\ t.links.type[e] = type
      /\ \A i \in Entries(s) : i # e => t.val[i] = s.val[i] /\ t.links.type[i] = s.links.type[i]

LEMMA ChangedIs ==
  ASSUME NEW s, Fine(s), NEW k \in Attrs, EntryOf(s, k) # NoEntry,
         NEW type, NEW v, Worth(type, v), NEW t, ChangesAt(t, s, k, type, v)
  PROVE  Fine(t) /\ Shows(t) = [Shows(s) EXCEPT ![k] = Shown(v.content)]
<1> DEFINE e == EntryOf(s, k)
<1>1. Shaped(s) /\ Typed(s) /\ \E L : Wired(s, L)
  BY DEF Fine
<1>2. PICK L : Wired(s, L)
  BY <1>1
<1>3. /\ SameLinks(t, s) /\ t.val[e] = v /\ t.links.type[e] = type
      /\ \A i \in Entries(s) : i # e => t.val[i] = s.val[i] /\ t.links.type[i] = s.links.type[i]
  BY DEF ChangesAt
<1>4. /\ Shaped(t) /\ t.links.key = s.links.key /\ Entries(t) = Entries(s)
      /\ Valued(t) = {i \in Entries(t) : t.val[i] # Null}
      /\ Valued(s) = {i \in Entries(s) : s.val[i] # Null}
  BY <1>3 DEF SameLinks, Entries, Valued
<1>5. e \in L /\ e \in Entries(s) /\ s.links.key[e] = k
  BY <1>1, <1>2, Found
<1>6. Valued(s) \subseteq L /\ L \subseteq Entries(s)
  BY <1>1, <1>2, WiredIs DEF Wired
<1> HIDE DEF e
<1>7. Valued(t) \subseteq L
  BY <1>3, <1>4, <1>5, <1>6
<1>8. Wired(t, L)
  BY <1>2, <1>3, <1>7, SameWired
<1>9. Typed(t)
  BY <1>1, <1>3, <1>4 DEF Typed
<1>10. Fine(t)
  BY <1>4, <1>8, <1>9 DEF Fine
<1>11. ValueOf(t, k) = v
  <2>1. ValueOf(t, k) = t.val[e]
    BY <1>4, <1>5, <1>8, Gets
  <2> QED
    BY <1>3, <2>1
<1>12. ASSUME NEW j \in Attrs, j # k PROVE ValueOf(t, j) = ValueOf(s, j)
  <2>1. CASE \E i \in L : s.links.key[i] = j
    <3>1. PICK i \in L : s.links.key[i] = j
      BY <2>1
    <3>2. ValueOf(s, j) = s.val[i]
      BY <1>1, <1>2, <3>1, Gets
    <3>3. ValueOf(t, j) = t.val[i]
      BY <1>4, <1>8, <3>1, Gets
    <3>4. i # e /\ i \in Entries(s)
      BY <1>5, <1>6, <1>12, <3>1
    <3> QED
      BY <1>3, <3>2, <3>3, <3>4
  <2>2. CASE \A i \in L : s.links.key[i] # j
    <3>1. ValueOf(s, j) = Null
      BY <1>1, <1>2, <2>2, Gets
    <3>2. ValueOf(t, j) = Null
      BY <1>4, <1>8, <2>2, Gets
    <3> QED
      BY <3>1, <3>2
  <2> QED
    BY <2>1, <2>2
<1>13. Shows(t) = [Shows(s) EXCEPT ![k] = Shown(v.content)]
  BY <1>11, <1>12 DEF Shows
<1> QED
  BY <1>10, <1>13

(* The value of an entry is replaced.                                        *)
LEMMA ReplacedIs ==
  ASSUME NEW s, Fine(s), NEW k \in Attrs, EntryOf(s, k) # NoEntry,
         NEW v, Worth(TypeAt(s, k), v)
  PROVE  LET t == [s EXCEPT !.val[EntryOf(s, k)] = v]
         IN  Fine(t) /\ Shows(t) = [Shows(s) EXCEPT ![k] = Shown(v.content)]
<1> DEFINE e == EntryOf(s, k)
           t == [s EXCEPT !.val[e] = v]
<1>1. Shaped(s) /\ \E L : Wired(s, L)
  BY DEF Fine
<1>2. e \in Entries(s)
  BY <1>1, Found
<1>3. s \in InternalState(s.size) /\ v \in Values
  BY <1>1 DEF Shaped, Worth
<1> HIDE DEF e
<1>4. t \in InternalState(s.size) /\ t.size = s.size /\ t.count = s.count
  BY <1>2, <1>3 DEF InternalState, Entries
<1>5. t.val = [s.val EXCEPT ![e] = v] /\ t.links = s.links /\ DOMAIN s.val = Entries(s)
  BY <1>3 DEF InternalState, Entries
<1> HIDE DEF t
<1>6. SameLinks(t, s)
  BY <1>1, <1>4, <1>5 DEF SameLinks, Shaped
<1>7. ChangesAt(t, s, k, TypeAt(s, k), v)
  BY <1>2, <1>5, <1>6 DEF ChangesAt, TypeAt, e
<1>8. Fine(t) /\ Shows(t) = [Shows(s) EXCEPT ![k] = Shown(v.content)]
  BY <1>7, ChangedIs
<1> QED
  BY <1>8 DEF t, e

(* The value and its type are.                                               *)
Switched(s, k, type, v) ==
  LET e == EntryOf(s, k)
  IN  [s EXCEPT !.val[e] = v, !.links.type[e] = type, !.readOnly = FALSE]

LEMMA SwitchedIs ==
  ASSUME NEW s, Fine(s), NEW k \in Attrs, EntryOf(s, k) # NoEntry,
         NEW type \in Types, NEW v, Worth(type, v)
  PROVE  /\ Fine(Switched(s, k, type, v))
         /\ Shows(Switched(s, k, type, v)) = [Shows(s) EXCEPT ![k] = Shown(v.content)]
<1> DEFINE e == EntryOf(s, k)
           t == [s EXCEPT !.val[e] = v, !.links.type[e] = type, !.readOnly = FALSE]
<1>1. Shaped(s) /\ \E L : Wired(s, L)
  BY DEF Fine
<1>2. e \in Entries(s)
  BY <1>1, Found
<1>3. s \in InternalState(s.size) /\ v \in Values
  BY <1>1 DEF Shaped, Worth
<1> HIDE DEF e
<1>4. t \in InternalState(s.size) /\ t.size = s.size /\ t.count = s.count
  BY <1>2, <1>3 DEF InternalState, Entries
<1>5. /\ t.val = [s.val EXCEPT ![e] = v] /\ DOMAIN s.val = Entries(s)
      /\ t.links.type = [s.links.type EXCEPT ![e] = type] /\ DOMAIN s.links.type = Entries(s)
      /\ t.links.key = s.links.key /\ t.links.next = s.links.next /\ t.links.hash = s.links.hash
  BY <1>3 DEF InternalState, Entries
<1> HIDE DEF t
<1>6. SameLinks(t, s)
  BY <1>1, <1>4, <1>5 DEF SameLinks, Shaped
<1>7. ChangesAt(t, s, k, type, v)
  BY <1>2, <1>5, <1>6 DEF ChangesAt, e
<1>8. Fine(t) /\ Shows(t) = [Shows(s) EXCEPT ![k] = Shown(v.content)]
  BY <1>7, ChangedIs
<1> QED
  BY <1>8 DEF t, e, Switched

(* t shows what s does: no more than `own` of values and readOnly differ.    *)
ShowsAlike(t, s) ==
  /\ SameLinks(t, s) /\ t.links.type = s.links.type
  /\ \A i \in Entries(s) : /\ t.val[i].content = s.val[i].content
                           /\ s.val[i] = Null => t.val[i] = Null

LEMMA AlikeIs ==
  ASSUME NEW s, Fine(s), NEW t, ShowsAlike(t, s)
  PROVE  /\ Fine(t) /\ Shows(t) = Shows(s)
         /\ \A k \in Attrs : EntryOf(s, k) = NoEntry => EntryOf(t, k) = NoEntry
<1>1. Shaped(s) /\ Typed(s) /\ \E L : Wired(s, L)
  BY DEF Fine
<1>2. PICK L : Wired(s, L)
  BY <1>1
<1>3. /\ SameLinks(t, s) /\ Shaped(t) /\ t.links.type = s.links.type /\ t.links.key = s.links.key
      /\ Entries(t) = Entries(s)
      /\ \A i \in Entries(s) : /\ t.val[i].content = s.val[i].content
                               /\ t.val[i] \in Values
                               /\ s.val[i] = Null => t.val[i] = Null
  <2>1. \A i \in Entries(s) : t.val[i] \in Values
    <3>1. Shaped(t) /\ Entries(t) = Entries(s)
      BY DEF ShowsAlike, SameLinks, Entries
    <3> QED
      BY <3>1, ShapedIs
  <2> QED
    BY <2>1 DEF ShowsAlike, SameLinks, Entries
<1>4. /\ Valued(s) \subseteq L /\ L \subseteq Entries(s)
      /\ Valued(t) = {i \in Entries(t) : t.val[i] # Null}
      /\ Valued(s) = {i \in Entries(s) : s.val[i] # Null}
  BY <1>1, <1>2, <1>3, WiredIs DEF Wired, Entries, Valued
<1>5. Valued(t) \subseteq L
  BY <1>3, <1>4
<1>6. Wired(t, L)
  BY <1>2, <1>3, <1>5, SameWired
<1>7. Typed(t)
  BY <1>1, <1>3 DEF Typed, Worth
<1>8. Fine(t)
  BY <1>3, <1>6, <1>7 DEF Fine
<1>9. ASSUME NEW k \in Attrs PROVE ValueOf(t, k).content = ValueOf(s, k).content
  <2>1. CASE \E i \in L : s.links.key[i] = k
    <3>1. PICK i \in L : s.links.key[i] = k
      BY <2>1
    <3>2. ValueOf(s, k) = s.val[i]
      BY <1>1, <1>2, <3>1, Gets
    <3>3. ValueOf(t, k) = t.val[i]
      BY <1>3, <1>6, <3>1, Gets
    <3> QED
      BY <1>3, <1>4, <3>2, <3>3
  <2>2. CASE \A i \in L : s.links.key[i] # k
    <3>1. ValueOf(s, k) = Null
      BY <1>1, <1>2, <2>2, Gets
    <3>2. ValueOf(t, k) = Null
      BY <1>3, <1>6, <2>2, Gets
    <3> QED
      BY <3>1, <3>2
  <2> QED
    BY <2>1, <2>2
<1>10. Shows(t) = Shows(s)
  BY <1>9 DEF Shows
<1>11. ASSUME NEW k \in Attrs, EntryOf(s, k) = NoEntry PROVE EntryOf(t, k) = NoEntry
  <2>1. \A i \in L : s.links.key[i] # k
    BY <1>1, <1>2, <1>11, Gets
  <2> QED
    BY <1>3, <1>6, <2>1, Gets
<1> QED
  BY <1>8, <1>10, <1>11

-----------------------------------------------------------------------------
(* Steps on one chunk.                                                       *)

(* A chunk made from another, or whose links are its own again.              *)
LEMMA EditableIs ==
  ASSUME NEW s, Fine(s)
  PROVE  LET t == [s EXCEPT !.readOnly = FALSE] IN Fine(t) /\ Shows(t) = Shows(s)
<1> DEFINE t == [s EXCEPT !.readOnly = FALSE]
<1>1. Shaped(s)
  BY DEF Fine
<1>2. s \in InternalState(s.size)
  BY <1>1 DEF Shaped
<1>3. /\ t \in InternalState(s.size) /\ t.size = s.size /\ t.count = s.count
      /\ t.links = s.links /\ t.val = s.val
  BY <1>2 DEF InternalState
<1> HIDE DEF t
<1>4. ShowsAlike(t, s)
  BY <1>1, <1>3 DEF ShowsAlike, SameLinks, Shaped
<1>5. Fine(t) /\ Shows(t) = Shows(s)
  BY <1>4, AlikeIs
<1> QED
  BY <1>5 DEF t

LEMMA ClonedIs ==
  ASSUME NEW s, Fine(s)
  PROVE  Fine(Cloned(s)) /\ Shows(Cloned(s)) = Shows(s)
<1> DEFINE val == [i \in Entries(s) |-> IF s.links.type[i] = "map" /\ s.val[i] # Null
                                        THEN [s.val[i] EXCEPT !.own = FALSE] ELSE s.val[i]]
           t == [s EXCEPT !.readOnly = TRUE, !.val = val]
<1>1. Shaped(s)
  BY DEF Fine
<1>2. s \in InternalState(s.size) /\ DOMAIN s.val = Entries(s)
  BY <1>1 DEF Shaped, InternalState, Entries
<1>3. Cloned(s) = t
  BY <1>2 DEF Cloned, InternalState
<1>4. val \in [Entries(s) -> Values]
  BY <1>1, ShapedIs DEF Values
<1>5. /\ \A i \in Entries(s) : s.val[i] = Null => val[i] = Null
      /\ \A i \in Entries(s) : val[i].content = s.val[i].content
  BY <1>1, ShapedIs DEF Values
<1> HIDE DEF val
<1>6. /\ t \in InternalState(s.size) /\ t.size = s.size /\ t.count = s.count
      /\ t.links = s.links /\ t.val = val
  BY <1>2, <1>4 DEF InternalState, Entries
<1> HIDE DEF t
<1>7. ShowsAlike(t, s)
  BY <1>1, <1>5, <1>6 DEF ShowsAlike, SameLinks, Shaped
<1>8. Fine(t) /\ Shows(t) = Shows(s)
  BY <1>7, AlikeIs
<1> QED
  BY <1>3, <1>8

LEMMA OwnedIs ==
  ASSUME NEW s, Fine(s), NEW e \in Entries(s), s.val[e] # Null
  PROVE  LET t == [s EXCEPT !.val[e].own = TRUE] IN Fine(t) /\ Shows(t) = Shows(s)
<1> DEFINE t == [s EXCEPT !.val[e].own = TRUE]
           v == [s.val[e] EXCEPT !.own = TRUE]
<1>1. Shaped(s)
  BY DEF Fine
<1>2. s \in InternalState(s.size) /\ DOMAIN s.val = Entries(s)
  BY <1>1 DEF Shaped, InternalState, Entries
<1>3. v \in Values /\ v.content = s.val[e].content
  BY <1>1, ShapedIs DEF Values
<1>4. t = [s EXCEPT !.val[e] = v]
  OBVIOUS
<1> HIDE DEF v, t
<1>5. /\ t \in InternalState(s.size) /\ t.size = s.size /\ t.count = s.count
      /\ t.links = s.links /\ t.val = [s.val EXCEPT ![e] = v]
  BY <1>2, <1>3, <1>4 DEF InternalState, Entries
<1>6. ShowsAlike(t, s)
  BY <1>1, <1>2, <1>3, <1>5 DEF ShowsAlike, SameLinks, Shaped
<1>7. Fine(t) /\ Shows(t) = Shows(s)
  BY <1>6, AlikeIs
<1> QED
  BY <1>7 DEF t

(* An entry and what it holds.                                               *)
LEMMA HasIs ==
  ASSUME NEW s, Fine(s), NEW k \in Attrs, EntryOf(s, k) # NoEntry
  PROVE  /\ EntryOf(s, k) \in Entries(s) /\ s.size > 0
         /\ ValueOf(s, k) = s.val[EntryOf(s, k)] /\ ValueOf(s, k) \in Values
         /\ TypeAt(s, k) \in Types /\ Worth(TypeAt(s, k), ValueOf(s, k))
<1>1. Shaped(s) /\ Typed(s) /\ \E L : Wired(s, L)
  BY DEF Fine
<1>2. EntryOf(s, k) \in Entries(s) /\ ValueOf(s, k) = s.val[EntryOf(s, k)]
  BY <1>1, Found
<1>3. s.size > 0
  BY <1>1, <1>2, ShapedIs DEF Entries
<1> QED
  BY <1>1, <1>2, <1>3, ShapedIs DEF TypeAt, Typed

LEMMA HoldsIs ==
  ASSUME NEW s, Fine(s), NEW k \in Attrs, ValueOf(s, k).content # Nothing
  PROVE  EntryOf(s, k) # NoEntry /\ Fits(TypeAt(s, k), ValueOf(s, k).content)
<1>1. EntryOf(s, k) # NoEntry
  BY NullIs DEF ValueOf
<1> QED
  BY <1>1, HasIs DEF Worth

LEMMA ShowsIs ==
  ASSUME NEW s, Fine(s), NEW k \in Attrs
  PROVE  Shows(s)[k] = Shown(ValueOf(s, k).content)
BY DEF Shows

-----------------------------------------------------------------------------
(* Relations and maps.                                                       *)

LEMMA RelationsAre ==
  ASSUME NEW ids \in Relations
  PROVE  /\ ids \in Contents /\ ids # Nothing /\ (ids # <<>> => ids # NoPairs)
         /\ ids \in Seq(Nodes) /\ Len(ids) \in Nat
<1>1. Nothing \notin Nodes \cup Mapped \cup Relations \cup Maps
  BY OffersAssumption
<1>2. ids \in Seq(Nodes) /\ Len(ids) \in Nat
  BY DEF Relations
<1>3. ASSUME ids # <<>>, ids = NoPairs PROVE FALSE
  <2>1. ids[1] \in Nodes /\ 1 \in DOMAIN ids
    BY <1>2, <1>3
  <2>2. ids[1] = Nothing
    BY <1>3, <2>1 DEF NoPairs
  <2> QED
    BY <1>1, <2>1, <2>2
<1> QED
  BY <1>1, <1>2, <1>3 DEF Contents

LEMMA EarliestIs ==
  ASSUME NEW n \in Nat, NEW S, S \subseteq 1 .. n, S # {}
  PROVE  \E x \in S : \A y \in S : x <= y
<1>1. S \in SUBSET Nat
  OBVIOUS
<1>2. PICK x \in S : \A y \in S : ~ (<<y, x>> \in OpToRel(<, Nat))
  BY <1>1, NatLessThanWellFounded, WFMin
<1>3. \A y \in S : ~ (y < x)
  BY <1>1, <1>2 DEF OpToRel
<1>4. \A y \in S : x <= y
  BY <1>1, <1>3
<1> QED
  BY <1>4

LEMMA FirstIs ==
  ASSUME NEW n \in Nat, NEW S, S \subseteq 1 .. n, S # {}
  PROVE  Min(S) \in S
BY EarliestIs DEF Min

LEMMA RemovedIs ==
  ASSUME NEW ids \in Relations, NEW n, Contains(ids, n)
  PROVE  RemoveFirst(ids, n) \in Relations
<1> DEFINE S == {i \in 1 .. Len(ids) : ids[i] = n}
           i == Min(S)
<1>1. ids \in Seq(Nodes) /\ Len(ids) \in Nat
  BY RelationsAre
<1>2. S # {}
  BY DEF Contains
<1>3. i \in 1 .. Len(ids)
  <2> HIDE DEF S
  <2>1. S \subseteq 1 .. Len(ids)
    BY DEF S
  <2> QED
    BY <1>1, <1>2, <2>1, FirstIs
<1>4. RemoveFirst(ids, n) = SubSeq(ids, 1, i - 1) \o SubSeq(ids, i + 1, Len(ids))
  BY <1>2 DEF RemoveFirst, RemoveAt, SelectInSeq
<1> HIDE DEF i
<1>5. SubSeq(ids, 1, i - 1) \in Seq(Nodes) /\ SubSeq(ids, i + 1, Len(ids)) \in Seq(Nodes)
  BY <1>1, <1>3
<1> QED
  BY <1>4, <1>5 DEF Relations

LEMMA AppendedIs ==
  ASSUME NEW ids \in Relations, NEW n \in Nodes
  PROVE  Append(ids, n) \in Relations /\ Append(ids, n) # <<>> /\ <<n>> \in Relations
<1>1. ids \in Seq(Nodes) /\ Len(ids) \in Nat
  BY RelationsAre
<1>2. Append(ids, n) \in Seq(Nodes) /\ Len(Append(ids, n)) = Len(ids) + 1
  BY <1>1
<1>3. Append(ids, n) # <<>>
  <2>1. ids \in Seq(Nodes)
    BY <1>1
  <2> QED
    BY <2>1, AppendProperties
<1>4. <<n>> \in Seq(Nodes)
  OBVIOUS
<1> QED
  BY <1>2, <1>3, <1>4 DEF Relations

LEMMA MapsAre ==
  /\ NoPairs \in Maps
  /\ \A x \in Maps : x \in Contents /\ x # Nothing
  /\ \A x \in Maps, m \in MapKeys, y \in Mapped : [x EXCEPT ![m] = y] \in Maps
<1>1. Nothing \notin Nodes \cup Mapped \cup Relations \cup Maps
  BY OffersAssumption
<1> QED
  BY <1>1 DEF Maps, NoPairs, Contents

LEMMA WorthRelation ==
  ASSUME NEW ids \in Relations, ids # <<>>, NEW room \in Nat
  PROVE  Worth("relation", Relation(ids, room)) /\ Relation(ids, room).content = ids
BY RelationsAre DEF Worth, Fits, Relation, Values

LEMMA WorthMap ==
  ASSUME NEW x \in Maps
  PROVE  Worth("map", Value(x)) /\ Value(x).content = x
BY MapsAre DEF Worth, Fits, Value, Values

-----------------------------------------------------------------------------
(* Saves and loads.                                                          *)

Pair(s, i) == [key |-> s.links.key[i], type |-> s.links.type[i], content |-> s.val[i].content]

(* One pair for each entry that has a value.                                 *)
LEMMA PairsAre ==
  ASSUME NEW s, Fine(s)
  PROVE  /\ Pairs(s) \in Seq([key : Attrs, type : Types, content : Contents])
         /\ DOMAIN Pairs(s) = 1 .. Len(Pairs(s)) /\ Len(Pairs(s)) <= s.count
         /\ \A n \in DOMAIN Pairs(s) : \E i \in Valued(s) : Pairs(s)[n] = Pair(s, i)
         /\ \A i \in Valued(s) : \E n \in DOMAIN Pairs(s) : Pairs(s)[n] = Pair(s, i)
         /\ \A n, m \in DOMAIN Pairs(s) : Pairs(s)[n].key = Pairs(s)[m].key => n = m
<1> DEFINE q == Picked(Valued(s), s.count)
           p == Pairs(s)
<1>1. Shaped(s) /\ \E L : Wired(s, L)
  BY DEF Fine
<1>2. PICK L : Wired(s, L)
  BY <1>1
<1>3. s.count \in Nat
  BY <1>1, ShapedIs
<1>4. Picks(q, Valued(s), s.count)
  BY <1>3, PickedIs
<1>5. p = [n \in DOMAIN q |-> Pair(s, q[n])]
  BY DEF Pairs, Pair
<1> HIDE DEF p, q
<1>6. /\ DOMAIN q = 1 .. Len(q) /\ Len(q) \in Nat /\ Len(q) <= s.count
      /\ \A n \in DOMAIN q : q[n] \in Valued(s) /\ q[n] \in Nat /\ q[n] < s.count
      /\ \A n, m \in DOMAIN q : n < m => q[n] < q[m]
      /\ \A x \in 0 .. s.count - 1 : x \in Valued(s) => \E n \in DOMAIN q : q[n] = x
  <2>1. Ordered(q, Valued(s), s.count)
    BY <1>3, <1>4, PicksAre
  <2> QED
    BY <2>1 DEF Ordered
<1>7. /\ Valued(s) \subseteq L /\ Valued(s) \subseteq Entries(s) /\ Valued(s) \subseteq 0 .. s.count - 1
      /\ \A i \in Valued(s) : s.links.key[i] \in Attrs
      /\ \A i, j \in Valued(s) : s.links.key[i] = s.links.key[j] => i = j
  BY <1>2 DEF Wired, Valued, Entries
<1>8. \A i \in Valued(s) : Pair(s, i) \in [key : Attrs, type : Types, content : Contents]
  <2>1. \A i \in Valued(s) : s.links.type[i] \in Types /\ s.val[i] \in Values
    BY <1>1, <1>7, ShapedIs
  <2> QED
    BY <1>7, <2>1 DEF Pair, Values
<1>9. /\ p \in Seq([key : Attrs, type : Types, content : Contents])
      /\ DOMAIN p = DOMAIN q /\ Len(p) = Len(q) /\ \A n \in DOMAIN q : p[n] = Pair(s, q[n])
  BY <1>5, <1>6, <1>8
<1>10. \A n \in DOMAIN p : \E i \in Valued(s) : p[n] = Pair(s, i)
  BY <1>6, <1>9
<1>11. \A i \in Valued(s) : \E n \in DOMAIN p : p[n] = Pair(s, i)
  BY <1>6, <1>7, <1>9
<1>12. ASSUME NEW n \in DOMAIN p, NEW m \in DOMAIN p, p[n].key = p[m].key PROVE n = m
  <2>1. s.links.key[q[n]] = s.links.key[q[m]]
    BY <1>9, <1>12 DEF Pair
  <2>2. q[n] = q[m]
    BY <1>6, <1>7, <1>9, <2>1
  <2>3. n \in Nat /\ m \in Nat /\ ~ (n < m) /\ ~ (m < n)
    BY <1>6, <1>9, <2>2
  <2> QED
    BY <2>3
<1> QED
  BY <1>6, <1>9, <1>10, <1>11, <1>12 DEF p

(* What save writes can be read again.                                       *)
SoundSave(b) ==
  /\ b \in Saves
  /\ Len(b.pairs) <= b.count
  /\ \A n \in DOMAIN b.pairs : /\ b.pairs[n].content # Nothing
                               /\ Fits(b.pairs[n].type, b.pairs[n].content)
  /\ \A n, m \in DOMAIN b.pairs : b.pairs[n].key = b.pairs[m].key => n = m

(* The attributes in it.                                                     *)
Tells(b) ==
  [k \in Attrs |->
     LET of == {x \in ToSet(b.pairs) : x.key = k}
     IN  IF of = {} THEN Nothing ELSE Shown((CHOOSE x \in of : TRUE).content)]

LEMMA TellsIs ==
  ASSUME NEW b, SoundSave(b), NEW k \in Attrs
  PROVE  /\ \A n \in DOMAIN b.pairs : b.pairs[n].key = k => Tells(b)[k] = Shown(b.pairs[n].content)
         /\ (\A n \in DOMAIN b.pairs : b.pairs[n].key # k) => Tells(b)[k] = Nothing
<1> DEFINE of == {x \in ToSet(b.pairs) : x.key = k}
<1>1. Tells(b)[k] = IF of = {} THEN Nothing ELSE Shown((CHOOSE x \in of : TRUE).content)
  BY DEF Tells
<1>2. \A x : x \in of <=> \E n \in DOMAIN b.pairs : b.pairs[n] = x /\ x.key = k
  BY DEF ToSet
<1> HIDE DEF of
<1>3. ASSUME NEW n \in DOMAIN b.pairs, b.pairs[n].key = k
      PROVE  Tells(b)[k] = Shown(b.pairs[n].content)
  <2>1. b.pairs[n] \in of
    BY <1>2, <1>3
  <2>2. \A x \in of : x = b.pairs[n]
    BY <1>2, <1>3 DEF SoundSave
  <2>3. (CHOOSE x \in of : TRUE) = b.pairs[n]
    BY <2>1, <2>2
  <2> QED
    BY <1>1, <2>1, <2>3
<1>4. ASSUME \A n \in DOMAIN b.pairs : b.pairs[n].key # k PROVE Tells(b)[k] = Nothing
  <2>1. of = {}
    BY <1>2, <1>4
  <2> QED
    BY <1>1, <2>1
<1> QED
  BY <1>3, <1>4

LEMMA ValuedIs ==
  ASSUME NEW s, Fine(s), NEW i \in Valued(s)
  PROVE  s.val[i].content # Nothing /\ Fits(s.links.type[i], s.val[i].content)
<1>1. i \in Entries(s) /\ s.val[i] # Null
  BY DEF Valued, Entries
<1> QED
  BY <1>1 DEF Fine, Typed, Worth

LEMMA BytesIs ==
  ASSUME NEW s, Fine(s)
  PROVE  SoundSave(Bytes(s)) /\ Tells(Bytes(s)) = Shows(s)
<1> DEFINE b == Bytes(s)
           p == Pairs(s)
<1>1. b = [count |-> s.count, pairs |-> p] /\ b.pairs = p /\ b.count = s.count
  BY DEF Bytes
<1>2. Shaped(s) /\ \E L : Wired(s, L)
  BY DEF Fine
<1>3. s.count \in Nat
  BY <1>2, ShapedIs
<1>4. /\ p \in Seq([key : Attrs, type : Types, content : Contents])
      /\ Len(p) <= s.count
      /\ \A n \in DOMAIN p : \E i \in Valued(s) : p[n] = Pair(s, i)
      /\ \A i \in Valued(s) : \E n \in DOMAIN p : p[n] = Pair(s, i)
      /\ \A n, m \in DOMAIN p : p[n].key = p[m].key => n = m
  BY PairsAre
<1> HIDE DEF b, p
<1>5. \A n \in DOMAIN p : p[n].content # Nothing /\ Fits(p[n].type, p[n].content)
  BY <1>4, ValuedIs DEF Pair
<1>6. b \in Saves
  BY <1>1, <1>3, <1>4 DEF Saves
<1>7. SoundSave(b)
  BY <1>1, <1>4, <1>5, <1>6 DEF SoundSave
<1>8. ASSUME NEW k \in Attrs PROVE Tells(b)[k] = Shown(ValueOf(s, k).content)
  <2>1. CASE \E i \in Valued(s) : s.links.key[i] = k
    <3>1. PICK i \in Valued(s) : s.links.key[i] = k
      BY <2>1
    <3>2. PICK n \in DOMAIN p : p[n] = Pair(s, i)
      BY <1>4
    <3>3. p[n].key = k /\ p[n].content = s.val[i].content
      BY <3>1, <3>2 DEF Pair
    <3>4. Tells(b)[k] = Shown(s.val[i].content)
      BY <1>1, <1>7, <3>3, TellsIs
    <3>5. ValueOf(s, k) = s.val[i]
      BY <1>2, <3>1, Reads
    <3> QED
      BY <3>4, <3>5
  <2>2. CASE \A i \in Valued(s) : s.links.key[i] # k
    <3>1. \A n \in DOMAIN p : p[n].key # k
      BY <1>4, <2>2 DEF Pair
    <3>2. Tells(b)[k] = Nothing
      BY <1>1, <1>7, <3>1, TellsIs
    <3>3. ValueOf(s, k) = Null
      BY <1>2, <2>2, Reads
    <3> QED
      BY <3>2, <3>3, NullIs DEF Shown
  <2> QED
    BY <2>1, <2>2
<1>9. Tells(b) = Shows(s)
  BY <1>8 DEF Tells, Shows
<1> QED
  BY <1>7, <1>9 DEF b

(* each tells of the attributes that get finds.                              *)
LEMMA EachIs ==
  ASSUME NEW s, Fine(s), NEW k \in Attrs
  PROVE  LET of == {n \in DOMAIN Pairs(s) : Pairs(s)[n].key = k}
             x == ValueOf(s, k).content
         IN  IF x = Nothing THEN of = {}
             ELSE \E n \in of : of = {n} /\ Pairs(s)[n].content = x
<1> DEFINE p == Pairs(s)
           of == {n \in DOMAIN p : p[n].key = k}
           x == ValueOf(s, k).content
<1>1. /\ \A n \in DOMAIN p : \E i \in Valued(s) : p[n] = Pair(s, i)
      /\ \A i \in Valued(s) : \E n \in DOMAIN p : p[n] = Pair(s, i)
      /\ \A n, m \in DOMAIN p : p[n].key = p[m].key => n = m
  BY PairsAre
<1>2. Shaped(s) /\ \E L : Wired(s, L)
  BY DEF Fine
<1> HIDE DEF p
<1>3. CASE \E i \in Valued(s) : s.links.key[i] = k
  <2>1. PICK i \in Valued(s) : s.links.key[i] = k
    BY <1>3
  <2>2. x = s.val[i].content /\ x # Nothing
    BY <1>2, <2>1, Reads, ValuedIs
  <2>3. PICK n \in DOMAIN p : p[n] = Pair(s, i)
    BY <1>1
  <2>4. p[n].key = k /\ p[n].content = x
    BY <2>1, <2>2, <2>3 DEF Pair
  <2>5. of = {n}
    BY <1>1, <2>4
  <2> QED
    BY <2>2, <2>4, <2>5 DEF p
<1>4. CASE \A i \in Valued(s) : s.links.key[i] # k
  <2>1. x = Nothing
    BY <1>2, <1>4, Reads, NullIs
  <2>2. of = {}
    BY <1>1, <1>4 DEF Pair
  <2> QED
    BY <2>1, <2>2 DEF p
<1> QED
  BY <1>3, <1>4

LEMMA SavedPairsAre ==
  ASSUME NEW b, SoundSave(b)
  PROVE  /\ DOMAIN b.pairs = 1 .. Len(b.pairs) /\ Len(b.pairs) \in Nat /\ b.count \in Nat
         /\ Len(b.pairs) <= b.count /\ (b.pairs = <<>> <=> Len(b.pairs) = 0)
         /\ \A n \in DOMAIN b.pairs : b.pairs[n] \in [key : Attrs, type : Types, content : Contents]
<1>1. b.pairs \in Seq([key : Attrs, type : Types, content : Contents]) /\ b.count \in Nat
  BY DEF SoundSave, Saves
<1>2. ASSUME NEW R, NEW p \in Seq(R)
      PROVE  /\ DOMAIN p = 1 .. Len(p) /\ Len(p) \in Nat /\ (p = <<>> <=> Len(p) = 0)
             /\ \A n \in DOMAIN p : p[n] \in R
  BY EmptySeq
<1> QED
  BY <1>1, <1>2 DEF SoundSave

(* In a save where no pair borrows, each pair gets an object of its own, but *)
(* for the maps without pairs.                                               *)
LEMMA ObjectIs ==
  ASSUME NEW b, SoundSave(b), ~Borrows(b), NEW n \in DOMAIN b.pairs
  PROVE  Object(b, n) = IF b.pairs[n].content = NoPairs THEN NoEntry ELSE n
<1> DEFINE p == b.pairs[n]
           S == {m \in 1 .. n : Makes(b, m) /\ b.pairs[m].type = p.type}
<1>1. /\ n \in Nat /\ n >= 1 /\ Object(b, n) = Latest(S)
      /\ Object(b, n) \in {n, NoEntry} /\ NoEntry = -1
  <2>1. DOMAIN b.pairs = 1 .. Len(b.pairs) /\ Len(b.pairs) \in Nat
    BY SavedPairsAre
  <2>2. n \in Nat /\ n >= 1
    BY <2>1
  <2>3. Object(b, n) = Latest(S)
    BY DEF Object
  <2>4. Object(b, n) \in {n, NoEntry}
    BY DEF Borrows
  <2> QED
    BY <2>2, <2>3, <2>4, ConstantsAre
<1>2. Tops(Latest(S), S)
  <2> DEFINE N == n + 1
  <2>1. N \in Nat /\ S \subseteq 0 .. N - 1
    BY <1>1
  <2> HIDE DEF S, N
  <2> QED
    BY <2>1, TopsAre
<1>3. p.content # Nothing /\ Fits(p.type, p.content)
  BY DEF SoundSave
<1>4. CASE p.content = NoPairs
  <2>1. p.type = "map"
    BY <1>3, <1>4 DEF Fits
  <2>2. ~Makes(b, n)
    BY <1>4, <2>1 DEF Makes, Hollow
  <2>3. n \notin S
    BY <2>2
  <2> HIDE DEF S, p
  <2>4. Object(b, n) # n
    BY <1>1, <1>2, <2>3 DEF Tops
  <2> QED
    BY <1>1, <1>4, <2>4 DEF p
<1>5. CASE p.content # NoPairs
  <2>1. CASE Makes(b, n)
    <3>1. n \in S
      BY <1>1, <2>1
    <3> HIDE DEF S, p
    <3> QED
      BY <1>1, <1>2, <1>5, <3>1 DEF Tops, p
  <2>2. CASE ~Makes(b, n)
    <3> DEFINE R == {m \in 1 .. n - 1 : b.pairs[m].type = "relation"}
    <3>1. p.type = "relation" /\ R # {}
      BY <1>5, <2>2 DEF Makes, Hollow
    <3>3. PICK m \in R : \A l \in R : m <= l
      <4>1. n - 1 \in Nat /\ R \subseteq 1 .. n - 1
        BY <1>1
      <4> HIDE DEF R
      <4> QED
        BY <3>1, <4>1, EarliestIs
    <3>4. m \in 1 .. n /\ b.pairs[m].type = p.type
      BY <1>1, <3>1
    <3>5. \A l \in 1 .. m - 1 : l \notin R
      BY <1>1, <3>3
    <3>6. \A l \in 1 .. m - 1 : b.pairs[l].type # "relation"
      BY <1>1, <3>3, <3>5
    <3>7. Makes(b, m)
      BY <3>1, <3>4, <3>6 DEF Makes
    <3>8. m \in S
      BY <3>4, <3>7
    <3> HIDE DEF S, p, R
    <3>9. Object(b, n) # NoEntry
      BY <1>1, <1>2, <3>4, <3>8 DEF Tops
    <3> QED
      BY <1>1, <1>5, <3>9 DEF p
  <2> QED
    BY <2>1, <2>2
<1> QED
  BY <1>4, <1>5

(* No two pairs get the same object.                                         *)
LEMMA ApartLoaded ==
  ASSUME NEW b, SoundSave(b), ~Borrows(b),
         NEW n \in DOMAIN b.pairs, NEW m \in DOMAIN b.pairs,
         Object(b, m) = Object(b, n), Object(b, n) # NoEntry
  PROVE  m = n
<1>1. Object(b, n) = n /\ Object(b, m) \in {m, NoEntry}
  BY DEF Borrows
<1> QED
  BY <1>1

(* The value of a pair that is loaded.                                       *)
Revived(p) == IF p.type = "relation"
              THEN Relation(p.content, Len(p.content) + 1) ELSE Value(p.content)

LEMMA RevivedIs ==
  ASSUME NEW p, p \in [key : Attrs, type : Types, content : Contents],
         p.content # Nothing, Fits(p.type, p.content)
  PROVE  Worth(p.type, Revived(p)) /\ Revived(p) # Null /\ Revived(p).content = p.content
<1>1. p.type = "relation" => p.content \in Relations /\ Len(p.content) + 1 \in Nat
  BY RelationsAre DEF Fits
<1>2. Revived(p).content = p.content
  BY DEF Revived, Relation, Value
<1>3. Revived(p) \in Values
  BY <1>1 DEF Revived, Relation, Value, Values
<1> QED
  BY <1>2, <1>3, NullIs DEF Worth

(* The entries of a load before they are linked: one for each pair that is   *)
(* not a map without pairs.                                                  *)
Keeps(q, b) ==
  Ordered(q, {i \in 0 .. Len(b.pairs) - 1 : b.pairs[i + 1].content # NoPairs}, Len(b.pairs))

Fills(u, b, q) ==
  LET at(i) == b.pairs[q[i + 1] + 1]
  IN  /\ Shaped(u)
      /\ u.size = SizeFor(b)
      /\ u.count = IF b.pairs = <<>> THEN 0 ELSE b.count
      /\ \A i \in Entries(u) :
           IF i < Len(q)
           THEN u.links.key[i] = at(i).key /\ u.links.type[i] = at(i).type /\ u.val[i] = Revived(at(i))
           ELSE u.val[i] = Null

LEMMA KeptAre ==
  ASSUME NEW b, SoundSave(b), NEW q, Keeps(q, b)
  PROVE  /\ Len(q) \in Nat /\ Len(q) <= Len(b.pairs)
         /\ \A i \in 0 .. Len(q) - 1 : q[i + 1] + 1 \in DOMAIN b.pairs
         /\ \A i \in 0 .. Len(q) - 1 : b.pairs[q[i + 1] + 1].content # NoPairs
         /\ \A i, j \in 0 .. Len(q) - 1 : q[i + 1] = q[j + 1] => i = j
         /\ \A n \in DOMAIN b.pairs : b.pairs[n].content # NoPairs =>
              \E i \in 0 .. Len(q) - 1 : q[i + 1] + 1 = n
<1> DEFINE S == {i \in 0 .. Len(b.pairs) - 1 : b.pairs[i + 1].content # NoPairs}
           N == Len(b.pairs)
<1>1. DOMAIN b.pairs = 1 .. N /\ N \in Nat
  BY SavedPairsAre
<1>2. Ordered(q, S, N)
  BY DEF Keeps
<1>3. \A i \in S : i \in 0 .. N - 1 /\ b.pairs[i + 1].content # NoPairs
  OBVIOUS
<1>4. \A i \in 0 .. N - 1 : b.pairs[i + 1].content # NoPairs => i \in S
  OBVIOUS
<1> HIDE DEF S, N
<1>5. /\ DOMAIN q = 1 .. Len(q) /\ Len(q) \in Nat /\ Len(q) <= N
      /\ \A i \in DOMAIN q : q[i] \in S /\ q[i] \in Nat /\ q[i] < N
      /\ \A i, j \in DOMAIN q : i < j => q[i] < q[j]
      /\ \A x \in 0 .. N - 1 : x \in S => \E i \in DOMAIN q : q[i] = x
  BY <1>2 DEF Ordered
<1>6. \A i \in 0 .. Len(q) - 1 : i \in Nat /\ i + 1 \in DOMAIN q
  BY <1>5
<1>7. \A i \in 0 .. Len(q) - 1 : q[i + 1] \in S /\ q[i + 1] \in 0 .. N - 1
  BY <1>1, <1>5, <1>6
<1>8. \A i \in 0 .. Len(q) - 1 : q[i + 1] + 1 \in 1 .. N /\ b.pairs[q[i + 1] + 1].content # NoPairs
  BY <1>1, <1>3, <1>7
<1>9. ASSUME NEW i \in 0 .. Len(q) - 1, NEW j \in 0 .. Len(q) - 1, q[i + 1] = q[j + 1] PROVE i = j
  <2>1. i + 1 \in DOMAIN q /\ j + 1 \in DOMAIN q /\ i \in Nat /\ j \in Nat
    BY <1>6
  <2>2. q[i + 1] \in Nat
    BY <1>5, <2>1
  <2>3. ~ (i + 1 < j + 1) /\ ~ (j + 1 < i + 1)
    BY <1>5, <1>9, <2>1, <2>2
  <2> QED
    BY <2>1, <2>3
<1>10. ASSUME NEW n \in 1 .. N, b.pairs[n].content # NoPairs
       PROVE  \E i \in 0 .. Len(q) - 1 : q[i + 1] + 1 = n
  <2>1. n - 1 \in 0 .. N - 1 /\ n - 1 + 1 = n
    BY <1>1
  <2>2. n - 1 \in S
    BY <1>4, <1>10, <2>1
  <2>3. PICK x \in DOMAIN q : q[x] = n - 1
    BY <1>5, <2>1, <2>2
  <2>4. x - 1 \in 0 .. Len(q) - 1 /\ x - 1 + 1 = x
    BY <1>5, <2>3
  <2>5. q[x - 1 + 1] + 1 = n
    BY <2>1, <2>3, <2>4
  <2> QED
    BY <2>4, <2>5
<1> QED
  BY <1>1, <1>5, <1>8, <1>9, <1>10 DEF N

LEMMA LoadedFills ==
  ASSUME NEW b, SoundSave(b), ~Borrows(b), SizeFor(b) <= MaxSize
  PROVE  \E q, u : Keeps(q, b) /\ Fills(u, b, q) /\ Loaded(b) = Rehashed(u)
<1> DEFINE S == {i \in 0 .. Len(b.pairs) - 1 : b.pairs[i + 1].content # NoPairs}
           N == Len(b.pairs)
           q == Picked(S, N)
           n == SizeFor(b)
           at(i) == b.pairs[q[i + 1] + 1]
           key == [i \in 0 .. n - 1 |-> IF i < Len(q) THEN at(i).key ELSE NoKey]
           type == [i \in 0 .. n - 1 |-> IF i < Len(q) THEN at(i).type ELSE NoKey]
           val == [i \in 0 .. n - 1 |-> IF i < Len(q) THEN Revived(at(i)) ELSE Null]
           count == IF b.pairs = <<>> THEN 0 ELSE b.count
           u == [Blank(n) EXCEPT !.links.key = key, !.links.type = type,
                                 !.val = val, !.count = count]
<1>1. N \in Nat /\ b.count \in Nat /\ N <= b.count
  BY SavedPairsAre
<1>2. Keeps(q, b)
  <2>1. Picks(q, S, N)
    BY <1>1, PickedIs
  <2>2. Ordered(q, S, N)
    BY <1>1, <2>1, PicksAre
  <2> QED
    BY <2>2 DEF Keeps
<1>3. S = {i \in 0 .. N - 1 : Object(b, i + 1) # NoEntry}
  <2>1. ASSUME NEW i \in 0 .. N - 1
        PROVE  b.pairs[i + 1].content # NoPairs <=> Object(b, i + 1) # NoEntry
    <3>1. i + 1 \in DOMAIN b.pairs /\ i + 1 # NoEntry
      BY <1>1, SavedPairsAre, ConstantsAre
    <3> QED
      BY <3>1, ObjectIs
  <2> QED
    BY <2>1
<1>4. Len(q) \in Nat /\ Len(q) <= N /\ \A i \in 0 .. Len(q) - 1 : q[i + 1] + 1 \in DOMAIN b.pairs
  <2> HIDE DEF q
  <2> QED
    BY <1>2, KeptAre
<1> DEFINE made(l) == b.pairs[Object(b, l)].content
           emptied(l) == \E m \in DOMAIN b.pairs : m # l /\ Object(b, m) = Object(b, l)
           value(l) == IF b.pairs[l].type = "relation"
                       THEN Relation(IF emptied(l) THEN <<>> ELSE made(l), Len(made(l)) + 1)
                       ELSE Value(made(l))
<1>15. ASSUME NEW i \in 0 .. Len(q) - 1 PROVE value(q[i + 1] + 1) = Revived(at(i))
  <2> HIDE DEF q
  <2> DEFINE l == q[i + 1] + 1
  <2>1. l \in DOMAIN b.pairs /\ b.pairs[l].content # NoPairs
    BY <1>2, KeptAre
  <2> HIDE DEF l
  <2>2. Object(b, l) = l /\ l # NoEntry
    <3>1. l # NoEntry
      BY <2>1, SavedPairsAre, ConstantsAre
    <3> QED
      BY <2>1, <3>1, ObjectIs
  <2>3. ~emptied(l)
    BY <2>1, <2>2, ApartLoaded
  <2>4. made(l) = b.pairs[l].content
    BY <2>2
  <2> HIDE DEF made, emptied
  <2>5. value(l) = Revived(b.pairs[l])
    BY <2>3, <2>4 DEF Revived
  <2> QED
    BY <2>5 DEF l
<1>16. Loaded(b) = Rehashed(u)
  <2> DEFINE bl == Blank(n)
             raw == [i \in 0 .. n - 1 |-> IF i < Len(q) THEN value(q[i + 1] + 1) ELSE Null]
  <2>1. Loaded(b) = Rehashed([bl EXCEPT
            !.links.key  = [i \in DOMAIN @ |-> IF i < Len(q) THEN at(i).key ELSE NoKey],
            !.links.type = [i \in DOMAIN @ |-> IF i < Len(q) THEN at(i).type ELSE NoKey],
            !.val        = [i \in DOMAIN @ |-> IF i < Len(q) THEN value(q[i + 1] + 1) ELSE Null],
            !.count      = IF b.pairs = <<>> THEN 0 ELSE b.count])
    BY <1>3 DEF Loaded
  <2> HIDE DEF n, q, value
  <2>2. DOMAIN bl.links.key = 0 .. n - 1 /\ DOMAIN bl.links.type = 0 .. n - 1 /\ DOMAIN bl.val = 0 .. n - 1
    BY DEF Blank
  <2>3. [bl EXCEPT
            !.links.key  = [i \in DOMAIN @ |-> IF i < Len(q) THEN at(i).key ELSE NoKey],
            !.links.type = [i \in DOMAIN @ |-> IF i < Len(q) THEN at(i).type ELSE NoKey],
            !.val        = [i \in DOMAIN @ |-> IF i < Len(q) THEN value(q[i + 1] + 1) ELSE Null],
            !.count      = IF b.pairs = <<>> THEN 0 ELSE b.count]
        = [bl EXCEPT
            !.links.key  = [i \in DOMAIN bl.links.key |-> IF i < Len(q) THEN at(i).key ELSE NoKey],
            !.links.type = [i \in DOMAIN bl.links.type |-> IF i < Len(q) THEN at(i).type ELSE NoKey],
            !.val        = [i \in DOMAIN bl.val |-> IF i < Len(q) THEN value(q[i + 1] + 1) ELSE Null],
            !.count      = IF b.pairs = <<>> THEN 0 ELSE b.count]
    BY DEF Blank
  <2>4. [i \in DOMAIN bl.val |-> IF i < Len(q) THEN value(q[i + 1] + 1) ELSE Null] = val
    <3>1. \A i \in 0 .. n - 1 : i < Len(q) => i \in 0 .. Len(q) - 1
      BY <1>4
    <3> QED
      BY <1>15, <2>2, <3>1
  <2> HIDE DEF at, val
  <2> QED
    BY <2>1, <2>2, <2>3, <2>4
<1> HIDE DEF q, S
<1>5. /\ n \in 0 .. MaxSize /\ count \in 0 .. n /\ Len(q) <= n
      /\ b.pairs = <<>> => Len(q) = 0
  <2>1. b.pairs = <<>> => N = 0
    BY SavedPairsAre
  <2> QED
    BY <1>1, <1>4, <2>1, ConstantsAre DEF SizeFor
<1> HIDE DEF n, count
<1>6. ASSUME NEW i \in 0 .. n - 1, i < Len(q)
      PROVE  /\ at(i) \in [key : Attrs, type : Types, content : Contents]
             /\ Revived(at(i)) \in Values
  <2>1. q[i + 1] + 1 \in DOMAIN b.pairs
    BY <1>4, <1>6
  <2>2. /\ at(i) \in [key : Attrs, type : Types, content : Contents]
        /\ at(i).content # Nothing /\ Fits(at(i).type, at(i).content)
    BY <2>1, SavedPairsAre DEF SoundSave
  <2> HIDE DEF at
  <2> QED
    BY <2>2, RevivedIs DEF Worth
<1> HIDE DEF at
<1>7. key \in [0 .. n - 1 -> Attrs \cup {NoKey}]
  BY <1>6
<1>8. type \in [0 .. n - 1 -> Types]
  BY <1>6, NoKeyIs
<1>9. val \in [0 .. n - 1 -> Values]
  BY <1>6, NullIs
<1>10. \A i \in 0 .. n - 1 : IF i < Len(q)
                             THEN key[i] = at(i).key /\ type[i] = at(i).type /\ val[i] = Revived(at(i))
                             ELSE val[i] = Null
  OBVIOUS
<1> HIDE DEF key, type, val
<1>11. NoEntry \in NoEntry .. n - 1 /\ n \in Nat
  BY <1>5, ConstantsAre
<1>12. /\ u \in InternalState(n) /\ u.size = n /\ u.count = count
       /\ u.links.key = key /\ u.links.type = type /\ u.val = val
  BY <1>5, <1>7, <1>8, <1>9, <1>11 DEF Blank, InternalState
<1> HIDE DEF u
<1>13. Shaped(u) /\ Entries(u) = 0 .. n - 1
  BY <1>5, <1>12 DEF Shaped, Entries
<1>14. Fills(u, b, q)
  BY <1>10, <1>12, <1>13 DEF Fills, n, count, at
<1> QED
  BY <1>2, <1>14, <1>16

LEMMA LoadedIs ==
  ASSUME NEW b, SoundSave(b), ~Borrows(b), SizeFor(b) <= MaxSize
  PROVE  Fine(Loaded(b)) /\ Shows(Loaded(b)) = Tells(b)
<1> DEFINE t == Loaded(b)
<1>1. PICK q, u : Keeps(q, b) /\ Fills(u, b, q) /\ t = Rehashed(u)
  BY LoadedFills
<1> DEFINE at(i) == b.pairs[q[i + 1] + 1]
           K == 0 .. Len(q) - 1
<1>2. /\ Shaped(u) /\ u.size = SizeFor(b) /\ u.count = IF b.pairs = <<>> THEN 0 ELSE b.count
      /\ \A i \in Entries(u) :
           IF i < Len(q)
           THEN u.links.key[i] = at(i).key /\ u.links.type[i] = at(i).type /\ u.val[i] = Revived(at(i))
           ELSE u.val[i] = Null
  BY <1>1 DEF Fills
<1>3. /\ Len(q) \in Nat /\ Len(q) <= Len(b.pairs)
      /\ \A i \in K : q[i + 1] + 1 \in DOMAIN b.pairs
      /\ \A i \in K : at(i).content # NoPairs
      /\ \A i, j \in K : q[i + 1] = q[j + 1] => i = j
      /\ \A n \in DOMAIN b.pairs : b.pairs[n].content # NoPairs => \E i \in K : q[i + 1] + 1 = n
  BY <1>1, KeptAre
<1>4. /\ DOMAIN b.pairs = 1 .. Len(b.pairs) /\ Len(b.pairs) \in Nat /\ b.count \in Nat
      /\ Len(b.pairs) <= b.count /\ (b.pairs = <<>> <=> Len(b.pairs) = 0)
  BY SavedPairsAre
<1>5. Entries(u) = 0 .. u.size - 1 /\ u.size \in Nat /\ u.count \in Nat /\ Len(q) <= u.count
      /\ Len(q) <= u.size
  BY <1>2, <1>3, <1>4, ShapedIs DEF Entries, SizeFor
<1>6. K \subseteq Entries(u) /\ \A i \in Entries(u) : i \in K <=> i < Len(q)
  BY <1>3, <1>5
<1>7. ASSUME NEW i \in K
      PROVE  /\ at(i) \in [key : Attrs, type : Types, content : Contents]
             /\ Worth(at(i).type, Revived(at(i))) /\ Revived(at(i)) # Null
             /\ Revived(at(i)).content = at(i).content
  <2>1. q[i + 1] + 1 \in DOMAIN b.pairs
    BY <1>3
  <2>2. /\ at(i) \in [key : Attrs, type : Types, content : Contents]
        /\ at(i).content # Nothing /\ Fits(at(i).type, at(i).content)
    BY <2>1, SavedPairsAre DEF SoundSave
  <2> HIDE DEF at
  <2> QED
    BY <2>2, RevivedIs
<1>8. ASSUME NEW i \in K, NEW j \in K, at(i).key = at(j).key PROVE i = j
  <2>1. q[i + 1] + 1 \in DOMAIN b.pairs /\ q[j + 1] + 1 \in DOMAIN b.pairs
    BY <1>3
  <2>2. q[i + 1] + 1 = q[j + 1] + 1
    BY <1>8, <2>1 DEF SoundSave
  <2>3. q[i + 1] \in Int /\ q[j + 1] \in Int
    <3>1. DOMAIN q = 1 .. Len(q) /\ \A x \in DOMAIN q : q[x] \in Nat
      BY <1>1 DEF Keeps, Ordered
    <3>2. i + 1 \in 1 .. Len(q) /\ j + 1 \in 1 .. Len(q)
      BY <1>3
    <3> QED
      BY <3>1, <3>2
  <2> QED
    BY <1>3, <2>2, <2>3
<1>9. ASSUME NEW n \in DOMAIN b.pairs, b.pairs[n].content # NoPairs
      PROVE  \E i \in K : at(i) = b.pairs[n]
  <2>1. PICK i \in K : q[i + 1] + 1 = n
    BY <1>3, <1>9
  <2> QED
    BY <2>1
<1>10. ASSUME NEW i \in K PROVE \E n \in DOMAIN b.pairs : at(i) = b.pairs[n]
  BY <1>3, <1>10
<1>11. \A i \in K : at(i).content # NoPairs
  BY <1>3
<1> HIDE DEF at, K
<1>12. /\ \A i \in K : /\ u.links.key[i] = at(i).key /\ u.links.type[i] = at(i).type
                       /\ u.val[i] = Revived(at(i))
       /\ \A i \in Entries(u) \ K : u.val[i] = Null
  BY <1>2, <1>6
<1>13. Valued(u) = K
  BY <1>6, <1>7, <1>12 DEF Valued, Entries
<1>14. Linkable(u)
  <2>1. \A i \in K : i < u.count
    <3>1. \A i \in K : i \in Entries(u) /\ i < Len(q)
      BY <1>6
    <3>2. \A i \in Entries(u) : i \in Int
      BY <1>5
    <3> QED
      BY <1>3, <1>5, <3>1, <3>2
  <2>2. \A i \in K : u.links.key[i] \in Attrs
    BY <1>7, <1>12
  <2>3. \A i, j \in K : u.links.key[i] = u.links.key[j] => i = j
    BY <1>8, <1>12
  <2> QED
    BY <1>2, <1>13, <2>1, <2>2, <2>3 DEF Linkable
<1>15. SameEntries(t, u) /\ Wired(t, K)
  BY <1>1, <1>13, <1>14, RehashedWired
<1>16. /\ Shaped(t) /\ t.val = u.val /\ t.links.type = u.links.type /\ Entries(t) = Entries(u)
  BY <1>15 DEF SameEntries, Entries
<1>17. Typed(t)
  <2> SUFFICES ASSUME NEW i \in Entries(u) PROVE Worth(u.links.type[i], u.val[i])
    BY <1>16 DEF Typed
  <2>1. CASE i \in K
    BY <1>7, <1>12, <2>1
  <2>2. CASE i \notin K
    BY <1>12, <2>2, NullIs
  <2> QED
    BY <2>1, <2>2
<1>18. Fine(t)
  BY <1>15, <1>16, <1>17 DEF Fine
<1>19. ASSUME NEW k \in Attrs PROVE Shown(ValueOf(t, k).content) = Tells(b)[k]
  <2>1. CASE \E i \in K : at(i).key = k
    <3>1. PICK i \in K : at(i).key = k
      BY <2>1
    <3>2. ValueOf(t, k) = Revived(at(i))
      BY <1>1, <1>12, <1>13, <1>14, <3>1, RehashedShows
    <3>3. PICK n \in DOMAIN b.pairs : at(i) = b.pairs[n]
      BY <1>10
    <3>4. Tells(b)[k] = Shown(b.pairs[n].content)
      BY <3>1, <3>3, TellsIs
    <3> QED
      BY <1>7, <3>2, <3>3, <3>4
  <2>2. CASE \A i \in K : at(i).key # k
    <3>1. ValueOf(t, k) = Null
      BY <1>1, <1>12, <1>13, <1>14, <2>2, RehashedShows
    <3>2. Shown(ValueOf(t, k).content) = Nothing
      BY <3>1, NullIs DEF Shown
    <3>3. CASE \E n \in DOMAIN b.pairs : b.pairs[n].key = k
      <4>1. PICK n \in DOMAIN b.pairs : b.pairs[n].key = k
        BY <3>3
      <4>2. b.pairs[n].content = NoPairs
        BY <1>9, <2>2, <4>1
      <4>3. Tells(b)[k] = Shown(NoPairs)
        BY <4>1, <4>2, TellsIs
      <4> QED
        BY <3>2, <4>3 DEF Shown
    <3>4. CASE \A n \in DOMAIN b.pairs : b.pairs[n].key # k
      <4>1. Tells(b)[k] = Nothing
        BY <3>4, TellsIs
      <4> QED
        BY <3>2, <4>1
    <3> QED
      BY <3>3, <3>4
  <2> QED
    BY <2>1, <2>2
<1> HIDE DEF t
<1>20. Shows(t) = Tells(b)
  BY <1>19 DEF Shows, Tells
<1> QED
  BY <1>18, <1>20 DEF t

-----------------------------------------------------------------------------
(* The inductive invariant.                                                  *)

(* The blocks hold every cell, and none of two attributes of a chunk.        *)
Covers(p) ==
  /\ UNION p = Cells /\ {} \notin p
  /\ \A b \in p : \A y, z \in b : y[2] = z[2]

IInv ==
  /\ TypeOK
  /\ Covers(sharing)
  /\ \A c \in Chunks : There(c) => Fine(state[c])
  /\ \A c \in dirty : There(c)
  /\ \A c \in Chunks : stored[c] # NoChunk => SoundSave(stored[c]) /\ ~Borrows(stored[c])
  /\ \A c \in Chunks : There(c) /\ c \notin dirty =>
       stored[c] # NoChunk /\ Tells(stored[c]) = Shows(state[c])

LEMMA ViewIs ==
  /\ View = [c \in Chunks |-> IF There(c) THEN Shows(state[c]) ELSE NoChunk]
  /\ Kept = [c \in Chunks |-> IF stored[c] = NoChunk THEN NoChunk ELSE Tells(stored[c])]
BY DEF View, Kept, Shows, Tells

LEMMA FineIs ==
  ASSUME NEW s, Fine(s)
  PROVE  s # NoChunk /\ Shows(s) # NoChunk /\ \E n \in 0 .. MaxSize : s \in InternalState(n)
<1>1. s.size \in 0 .. MaxSize /\ s \in InternalState(s.size)
  BY DEF Fine, Shaped
<1>2. s # NoChunk
  BY <1>1, OffersAssumption
<1>3. ASSUME NEW k \in Attrs PROVE Shown(ValueOf(s, k).content) \in Contents
  <2>1. ValueOf(s, k) \in Values
    <3>1. CASE EntryOf(s, k) = NoEntry
      BY <3>1, NullIs DEF ValueOf
    <3>2. CASE EntryOf(s, k) # NoEntry
      BY <3>2, HasIs
    <3> QED
      BY <3>1, <3>2
  <2>2. ValueOf(s, k).content \in Contents
    BY <2>1 DEF Values
  <2>3. Nothing \in Contents
    BY DEF Contents
  <2> QED
    BY <2>2, <2>3 DEF Shown
<1>4. Shows(s) \in [Attrs -> Contents]
  BY <1>3 DEF Shows
<1>5. NoChunk \notin Saves \cup [Attrs -> Contents]
  BY OffersAssumption
<1> QED
  BY <1>1, <1>2, <1>4, <1>5

LEMMA WithoutIs ==
  ASSUME Covers(sharing), NEW S
  PROVE  /\ UNION Without(S) = Cells \ S /\ {} \notin Without(S)
         /\ \A b \in Without(S) : \A y, z \in b : y[2] = z[2]
<1>1. ASSUME NEW z \in Cells \ S PROVE z \in UNION Without(S)
  <2>1. PICK b \in sharing : z \in b
    BY DEF Covers
  <2>2. b \ S \in Without(S) /\ z \in b \ S
    BY <2>1 DEF Without
  <2> QED
    BY <2>2
<1>2. \A b \in Without(S) : \E d \in sharing : b = d \ S /\ b # {}
  BY DEF Without
<1>3. \A b \in Without(S) : b \subseteq Cells \ S /\ b # {}
  BY <1>2 DEF Covers
<1>4. \A b \in Without(S) : \A y, z \in b : y[2] = z[2]
  BY <1>2 DEF Covers
<1> QED
  BY <1>1, <1>3, <1>4

LEMMA ApartIs ==
  ASSUME Covers(sharing), NEW S, S \subseteq Cells
  PROVE  Covers(Apart(S))
<1>1. /\ UNION Without(S) = Cells \ S /\ {} \notin Without(S)
      /\ \A b \in Without(S) : \A y, z \in b : y[2] = z[2]
  BY WithoutIs
<1>2. Apart(S) = Without(S) \cup {{z} : z \in S}
  BY DEF Apart
<1>3. UNION {{z} : z \in S} = S
  OBVIOUS
<1>4. UNION Apart(S) = Cells
  BY <1>1, <1>2, <1>3
<1>5. {} \notin Apart(S)
  BY <1>1, <1>2
<1>6. \A b \in Apart(S) : \A y, z \in b : y[2] = z[2]
  BY <1>1, <1>2
<1> QED
  BY <1>4, <1>5, <1>6 DEF Covers

(* A clone joins the blocks of its origin.                                   *)
LEMMA JoinsIs ==
  ASSUME Covers(sharing), NEW o \in Chunks, NEW c \in Chunks, o # c, NEW H, H \subseteq Kinds
  PROVE  Covers(Joined(o, c, H))
<1> DEFINE S == {c} \X H
           new(b) == {<<c, x>> : x \in {y \in H : <<o, y>> \in b}}
           P == {b \cup new(b) : b \in Without(S)}
<1>1. /\ UNION Without(S) = Cells \ S /\ {} \notin Without(S)
      /\ \A b \in Without(S) : \A y, z \in b : y[2] = z[2]
  BY WithoutIs
<1>2. ASSUME NEW b, NEW z \in new(b) PROVE z \in S /\ <<o, z[2]>> \in b
  <2>1. PICK y \in H : <<o, y>> \in b /\ z = <<c, y>>
    BY <1>2
  <2> QED
    BY <2>1
<1>3. \A b, y : y \in H /\ <<o, y>> \in b => <<c, y>> \in new(b)
  OBVIOUS
<1>4. S \subseteq Cells
  BY DEF Cells
<1>5. ASSUME NEW z \in Cells PROVE z \in UNION P
  <2>1. CASE z \in S
    <3>1. PICK y \in H : z = <<c, y>>
      BY <2>1
    <3>2. <<o, y>> \in Cells \ S
      BY <3>1 DEF Cells
    <3>3. PICK b \in Without(S) : <<o, y>> \in b
      BY <1>1, <3>2
    <3>4. z \in b \cup new(b) /\ b \cup new(b) \in P
      BY <1>3, <3>1, <3>3
    <3> QED
      BY <3>4
  <2>2. CASE z \notin S
    <3>1. PICK b \in Without(S) : z \in b
      BY <1>1, <2>2
    <3>2. z \in b \cup new(b) /\ b \cup new(b) \in P
      BY <3>1
    <3> QED
      BY <3>2
  <2> QED
    BY <2>1, <2>2
<1>6. ASSUME NEW b \in Without(S)
      PROVE  /\ b \cup new(b) \subseteq Cells /\ b \cup new(b) # {}
             /\ \A y, z \in b \cup new(b) : y[2] = z[2]
  <2>1. b \subseteq Cells /\ b # {} /\ \A y, z \in b : y[2] = z[2]
    BY <1>1
  <2>2. \A z \in new(b) : z \in Cells /\ <<o, z[2]>> \in b
    BY <1>2, <1>4
  <2> HIDE DEF new
  <2>3. \A z \in b \cup new(b) : \E y \in b : z[2] = y[2]
    <3>1. \A z \in new(b) : <<o, z[2]>>[2] = z[2]
      OBVIOUS
    <3> QED
      BY <2>2, <3>1
  <2>4. \A y, z \in b \cup new(b) : y[2] = z[2]
    BY <2>1, <2>3
  <2> QED
    BY <2>1, <2>2, <2>4
<1> HIDE DEF new, S
<1>7. \A d \in P : d \subseteq Cells /\ d # {} /\ \A y, z \in d : y[2] = z[2]
  BY <1>6
<1>8. Covers(P)
  BY <1>5, <1>7 DEF Covers
<1> QED
  BY <1>8 DEF new, S, Joined

(* A chunk is loaded into cells of its own.                                  *)
LEMMA LoadsApart ==
  ASSUME Covers(sharing), NEW c \in Chunks, NEW b, SoundSave(b), ~Borrows(b)
  PROVE  Covers(Without({c} \X Kinds) \cup {{c} \X Together(b, x) : x \in Kinds})
<1> DEFINE S == {c} \X Kinds
<1>1. ASSUME NEW x PROVE Together(b, x) = {x}
  <2>1. ASSUME NEW n \in DOMAIN b.pairs, NEW m \in DOMAIN b.pairs, b.pairs[m].key = x,
               Object(b, m) = Object(b, n), Object(b, n) # NoEntry
        PROVE  b.pairs[n].key = x
    BY <2>1, ApartLoaded
  <2> QED
    BY <2>1 DEF Together
<1>2. {{c} \X Together(b, x) : x \in Kinds} = {{z} : z \in S}
  <2>1. \A x \in Kinds : {c} \X Together(b, x) = {<<c, x>>}
    BY <1>1
  <2>2. {{c} \X Together(b, x) : x \in Kinds} = {{<<c, x>>} : x \in Kinds}
    BY <2>1
  <2>3. {{<<c, x>>} : x \in Kinds} \subseteq {{z} : z \in S}
    OBVIOUS
  <2>4. ASSUME NEW z \in S PROVE {z} \in {{<<c, x>>} : x \in Kinds}
    <3>1. PICK x \in Kinds : z = <<c, x>>
      BY <2>4
    <3> QED
      BY <3>1
  <2> QED
    BY <2>2, <2>3, <2>4
<1>3. S \subseteq Cells
  BY DEF Cells
<1>4. Covers(Apart(S))
  BY <1>3, ApartIs
<1> QED
  BY <1>2, <1>4 DEF Apart

(* One chunk becomes t, and the parts still cover the chunks.                *)
Becomes(c, t) ==
  /\ Fine(t)
  /\ state' = [state EXCEPT ![c] = t]
  /\ Covers(sharing')
  /\ stored' = stored

(* The change is declared, or is in what is due, or cannot be seen.          *)
Declared(c, t) ==
  \/ dirty' = dirty \cup {c}
  \/ dirty' = dirty /\ There(c) /\ (c \in dirty \/ Shows(t) = Shows(state[c]))

Seen(c, x) == IInv' /\ View' = [View EXCEPT ![c] = x] /\ Kept' = Kept

LEMMA BecomesIs ==
  ASSUME IInv, NEW c \in Chunks, NEW t, Becomes(c, t), Declared(c, t)
  PROVE  Seen(c, Shows(t))
<1>1. /\ Fine(t) /\ state' = [state EXCEPT ![c] = t] /\ stored' = stored
      /\ Covers(sharing')
  BY DEF Becomes
<1>2. /\ DOMAIN state = Chunks /\ dirty \subseteq Chunks
      /\ \A d \in Chunks : There(d) => \E n \in 0 .. MaxSize : state[d] \in InternalState(n)
      /\ UNION sharing = Cells /\ {} \notin sharing
      /\ stored \in [Chunks -> {NoChunk} \cup Saves]
  BY DEF IInv, TypeOK
<1>3. t # NoChunk /\ Shows(t) # NoChunk /\ \E n \in 0 .. MaxSize : t \in InternalState(n)
  BY <1>1, FineIs
<1>4. state'[c] = t /\ \A d \in Chunks : d # c => state'[d] = state[d]
  BY <1>1, <1>2
<1>5. There(c)' /\ \A d \in Chunks : d # c => (There(d)' <=> There(d))
  BY <1>3, <1>4 DEF There
<1>6. dirty' = dirty \/ dirty' = dirty \cup {c}
  BY DEF Declared
<1>7. TypeOK'
  <2>1. DOMAIN state' = Chunks /\ dirty' \subseteq Chunks
    BY <1>1, <1>2, <1>6
  <2>2. ASSUME NEW d \in Chunks, There(d)' PROVE \E n \in 0 .. MaxSize : state'[d] \in InternalState(n)
    BY <1>2, <1>3, <1>4, <1>5, <2>2
  <2>3. UNION sharing' = Cells /\ {} \notin sharing'
    BY <1>1 DEF Covers
  <2> QED
    BY <1>1, <1>2, <2>1, <2>2, <2>3 DEF TypeOK
<1>8. \A d \in Chunks : There(d)' => Fine(state'[d])
  BY <1>1, <1>4, <1>5 DEF IInv
<1>9. \A d \in dirty' : There(d)'
  BY <1>2, <1>5, <1>6 DEF IInv
<1>10. \A d \in Chunks : stored'[d] # NoChunk => SoundSave(stored'[d]) /\ ~Borrows(stored'[d])
  BY <1>1 DEF IInv
<1>11. ASSUME NEW d \in Chunks, There(d)', d \notin dirty'
       PROVE  stored'[d] # NoChunk /\ Tells(stored'[d]) = Shows(state'[d])
  <2>1. CASE d # c
    BY <1>1, <1>4, <1>5, <1>6, <1>11, <2>1 DEF IInv
  <2>2. CASE d = c
    <3>1. There(c) /\ c \notin dirty /\ Shows(t) = Shows(state[c])
      BY <1>11, <2>2 DEF Declared
    <3> QED
      BY <1>1, <1>4, <2>2, <3>1 DEF IInv
  <2> QED
    BY <2>1, <2>2
<1>12. IInv'
  BY <1>1, <1>7, <1>8, <1>9, <1>10, <1>11 DEF IInv
<1>13. View = [d \in Chunks |-> IF There(d) THEN Shows(state[d]) ELSE NoChunk]
  BY ViewIs
<1>14. View' = [d \in Chunks |-> IF There(d)' THEN Shows(state'[d]) ELSE NoChunk]
  BY DEF View, Shows
<1>15. View' = [View EXCEPT ![c] = Shows(t)]
  BY <1>4, <1>5, <1>13, <1>14
<1>16. Kept' = Kept
  BY <1>1 DEF Kept
<1> QED
  BY <1>12, <1>15, <1>16 DEF Seen

-----------------------------------------------------------------------------
(* internal_set.                                                             *)

LEMMA ReplacesIs ==
  ASSUME IInv, NEW c \in Chunks, NEW k \in Attrs, NEW t, Fine(t), NEW apart, Replaces(c, k, t, apart)
  PROVE  Seen(c, Shows(t)) /\ dirty' = dirty \cup {c}
<1>1. /\ state' = [state EXCEPT ![c] = t] /\ dirty' = dirty \cup {c} /\ stored' = stored
      /\ sharing' = Apart({<<c, x>> : x \in {k} \cup (IF apart THEN {Links} ELSE {})})
  BY DEF Replaces
<1>2. Covers(sharing')
  <2> DEFINE S == {<<c, x>> : x \in {k} \cup (IF apart THEN {Links} ELSE {})}
  <2>1. S \subseteq Cells
    BY DEF Cells, Kinds
  <2> HIDE DEF S
  <2>2. Covers(Apart(S))
    BY <2>1, ApartIs DEF IInv
  <2> QED
    BY <1>1, <2>2 DEF S
<1>3. Becomes(c, t) /\ Declared(c, t)
  BY <1>1, <1>2 DEF Becomes, Declared
<1> QED
  BY <1>1, <1>3, BecomesIs

(* What no other chunk holds is in one cell.                                 *)
LEMMA AloneIs ==
  ASSUME Covers(sharing), NEW c \in Chunks, NEW x \in Kinds, ~Shares(x, c)
  PROVE  Block(x, c) = {<<c, x>>}
<1>1. <<c, x>> \in Cells
  BY DEF Cells
<1>2. \E b \in sharing : <<c, x>> \in b
  BY <1>1 DEF Covers
<1>3. Block(x, c) \in sharing /\ <<c, x>> \in Block(x, c)
  BY <1>2 DEF Block
<1>4. ASSUME NEW z \in Block(x, c) PROVE z = <<c, x>>
  <2>1. z \in Chunks \X Kinds
    BY <1>3 DEF Covers, Cells
  <2>2. z[1] = c
    BY DEF Shares
  <2>3. z[2] = <<c, x>>[2]
    BY <1>3 DEF Covers
  <2> QED
    BY <2>1, <2>2, <2>3
<1> QED
  BY <1>3, <1>4

LEMMA InsertIs ==
  ASSUME IInv, Careless = {}, NEW c \in Chunks, There(c), NEW k \in Attrs,
         NEW type \in Types, NEW v, Worth(type, v), Insert(c, k, type, v)
  PROVE  Seen(c, [Shows(state[c]) EXCEPT ![k] = Shown(v.content)]) /\ dirty' = dirty \cup {c}
<1> DEFINE s == state[c]
           x == [Shows(s) EXCEPT ![k] = Shown(v.content)]
<1>1. Fine(s)
  BY DEF IInv
<1>2. Shaped(s)
  BY <1>1 DEF Fine
<1>3. s.size \in Nat /\ s.count \in Nat /\ s.count <= s.size
  BY <1>2, ShapedIs
<1>4. EntryOf(s, k) = NoEntry
  BY DEF Insert, InsertGrows, InsertCopies, InsertInPlace
<1>5. ~Full(s) => s.count < s.size
  BY <1>3 DEF Full, Threshold
<1>6. CASE InsertGrows(c, k, type, v)
  <2> DEFINE g == Grown(s)
             t == Inserted(g, k, type, v)
  <2>1. 2 * s.size <= MaxSize /\ Replaces(c, k, t, TRUE)
    BY <1>6 DEF InsertGrows
  <2>2. Fine(g) /\ g.count < g.size /\ Shows(g) = Shows(s) /\ EntryOf(g, k) = NoEntry
    BY <1>1, <1>4, <2>1, GrownIs
  <2> HIDE DEF g
  <2>3. Fine(t) /\ Shows(t) = [Shows(g) EXCEPT ![k] = Shown(v.content)]
    BY <2>2, InsertedIs
  <2> HIDE DEF t
  <2>4. Seen(c, Shows(t)) /\ dirty' = dirty \cup {c}
    BY <2>1, <2>3, ReplacesIs
  <2> QED
    BY <2>2, <2>3, <2>4
<1>7. ASSUME s.count < s.size
      PROVE  Fine(Inserted(s, k, type, v)) /\ Shows(Inserted(s, k, type, v)) = x
  <2> HIDE DEF s
  <2> QED
    BY <1>1, <1>4, <1>7, InsertedIs
<1>8. CASE InsertCopies(c, k, type, v)
  <2> DEFINE i == Inserted(s, k, type, v)
             t == [i EXCEPT !.readOnly = FALSE]
  <2>1. ~Full(s) /\ Replaces(c, k, t, TRUE)
    BY <1>8 DEF InsertCopies
  <2>2. Fine(i) /\ Shows(i) = x
    BY <1>5, <1>7, <2>1
  <2> HIDE DEF i
  <2>3. Fine(t) /\ Shows(t) = Shows(i)
    BY <2>2, EditableIs
  <2> HIDE DEF t
  <2>4. Seen(c, Shows(t)) /\ dirty' = dirty \cup {c}
    BY <2>1, <2>3, ReplacesIs
  <2> QED
    BY <2>2, <2>3, <2>4
<1>9. CASE InsertInPlace(c, k, type, v)
  <2> DEFINE t == Inserted(s, k, type, v)
  <2>1. /\ ~Full(s) /\ ~Shares(Links, c)
        /\ state' = [d \in Chunks |->
                        IF d = c THEN t
                        ELSE IF <<d, Links>> \in Block(Links, c)
                             THEN [state[d] EXCEPT !.links = t.links]
                        ELSE state[d]]
        /\ sharing' = Apart({<<c, k>>})
        /\ dirty' = dirty \cup {c} /\ stored' = stored
    BY <1>9 DEF InsertInPlace
  <2>2. Fine(t) /\ Shows(t) = x
    BY <1>5, <1>7, <2>1
  <2> HIDE DEF t
  <2>3. state' = [state EXCEPT ![c] = t]
    <3>1. Block(Links, c) = {<<c, Links>>}
      BY <2>1, AloneIs DEF IInv, Kinds
    <3>2. DOMAIN state = Chunks
      BY DEF IInv, TypeOK
    <3> QED
      BY <2>1, <3>1, <3>2
  <2>4. Covers(sharing')
    <3>1. {<<c, k>>} \subseteq Cells
      BY DEF Cells, Kinds
    <3> QED
      BY <2>1, <3>1, ApartIs DEF IInv
  <2>5. Becomes(c, t) /\ Declared(c, t)
    BY <2>1, <2>2, <2>3, <2>4 DEF Becomes, Declared
  <2>6. Seen(c, Shows(t))
    BY <2>5, BecomesIs
  <2> QED
    BY <2>1, <2>2, <2>6
<1> QED
  BY <1>6, <1>8, <1>9 DEF Insert

(* set, and the calls that end in it, give the attribute this value.         *)
Gave(c, k, x) ==
  /\ IInv' /\ Kept' = Kept /\ dirty' = dirty \cup {c}
  /\ View' = [View EXCEPT ![c][k] = x]

LEMMA SetOverIs ==
  ASSUME IInv, Careless = {}, NEW c \in Chunks, There(c), NEW k \in Attrs,
         NEW type \in Types, NEW v, Worth(type, v), SetOver(c, k, type, v)
  PROVE  Gave(c, k, Shown(v.content))
<1> DEFINE s == state[c]
           x == [Shows(s) EXCEPT ![k] = Shown(v.content)]
           e == EntryOf(s, k)
<1>1. Fine(s)
  BY DEF IInv
<1>2. Seen(c, x) /\ dirty' = dirty \cup {c}
  <2>1. CASE Insert(c, k, type, v)
    BY <2>1, InsertIs
  <2>2. CASE ReplaceValue(c, k, type, v)
    <3> DEFINE t == [s EXCEPT !.val[e] = v]
    <3>1. e # NoEntry /\ TypeAt(s, k) = type /\ Replaces(c, k, t, FALSE)
      BY <2>2 DEF ReplaceValue, IsOfType
    <3> HIDE DEF s, x
    <3>2. Fine(t) /\ Shows(t) = [Shows(s) EXCEPT ![k] = Shown(v.content)]
      BY <1>1, <3>1, ReplacedIs
    <3> HIDE DEF t
    <3>3. Seen(c, Shows(t)) /\ dirty' = dirty \cup {c}
      BY <3>1, <3>2, ReplacesIs
    <3> QED
      BY <3>2, <3>3 DEF x
  <2>3. CASE SwitchType(c, k, type, v)
    <3> DEFINE t == Switched(s, k, type, v)
    <3>1. e # NoEntry /\ Replaces(c, k, t, TRUE)
      BY <2>3 DEF SwitchType, Switched
    <3> HIDE DEF s, x
    <3>2. Fine(t) /\ Shows(t) = [Shows(s) EXCEPT ![k] = Shown(v.content)]
      BY <1>1, <3>1, SwitchedIs
    <3> HIDE DEF t
    <3>3. Seen(c, Shows(t)) /\ dirty' = dirty \cup {c}
      BY <3>1, <3>2, ReplacesIs
    <3> QED
      BY <3>2, <3>3 DEF x
  <2> QED
    BY <2>1, <2>2, <2>3 DEF SetOver
<1>3. View = [d \in Chunks |-> IF There(d) THEN Shows(state[d]) ELSE NoChunk]
  BY ViewIs
<1>4. View[c] = Shows(s)
  BY <1>3
<1>5. [View EXCEPT ![c] = x] = [View EXCEPT ![c][k] = Shown(v.content)]
  BY <1>4
<1> HIDE DEF x
<1> QED
  BY <1>2, <1>5 DEF Seen, Gave

(* On an entry of no such type, it makes no difference whether a present     *)
(* value may be replaced.                                                    *)
LEMMA SetIfAbsentIs ==
  ASSUME NEW c, NEW k, NEW type, NEW v, ~IsOfType(c, k, type), SetIfAbsent(c, k, type, v)
  PROVE  SetOver(c, k, type, v)
BY DEF SetIfAbsent, SetOver, KeepValue

(* What a reader finds of an attribute.                                      *)
LEMMA IdsAre ==
  ASSUME IInv, NEW c \in Chunks, There(c), NEW k \in Attrs
  PROVE  /\ Fine(state[c]) /\ View[c] = Shows(state[c]) /\ View[c] # NoChunk
         /\ View[c][k] = Shown(Ids(c, k)) /\ View[c] = [View[c] EXCEPT ![k] = Shown(Ids(c, k))]
         /\ Ids(c, k) # Nothing =>
              EntryOf(state[c], k) # NoEntry /\ Fits(TypeAt(state[c], k), Ids(c, k))
<1>1. Fine(state[c])
  BY DEF IInv
<1>2. View[c] = Shows(state[c])
  BY ViewIs
<1>3. View[c] # NoChunk
  BY <1>1, <1>2, FineIs
<1>4. View[c][k] = Shown(Ids(c, k))
  BY <1>2 DEF Shows, Ids
<1>5. View[c] = [View[c] EXCEPT ![k] = Shown(Ids(c, k))]
  <2>1. View[c] = [j \in Attrs |-> View[c][j]]
    BY <1>2 DEF Shows
  <2> QED
    BY <1>4, <2>1
<1>6. Ids(c, k) # Nothing => EntryOf(state[c], k) # NoEntry /\ Fits(TypeAt(state[c], k), Ids(c, k))
  BY <1>1, HoldsIs DEF Ids
<1> QED
  BY <1>1, <1>2, <1>3, <1>4, <1>5, <1>6

-----------------------------------------------------------------------------
(* The calls: each keeps the invariant and does what Attributes promises.    *)

LEMMA OfferedIs ==
  ASSUME NEW k \in Attrs
  PROVE  /\ \A x \in Offers[k].sets : /\ x.type \in Types /\ Worth(x.type, Stored(x))
                                      /\ Shown(Stored(x).content) = x.content
         /\ Offers[k].nodes \subseteq Nodes /\ Offers[k].mapped \subseteq Mapped
<1>1. /\ \A j \in Attrs : Offers[j].nodes \subseteq Nodes
      /\ \A x \in Asked : /\ x.content # NoPairs
                          /\ x.type = "relation" => x.content \in Relations \cup {Nothing}
                          /\ x.type = "map" => x.content = Nothing
  BY OffersAssumption
<1>2. ASSUME NEW x \in Offers[k].sets
      PROVE  /\ x.type \in Types /\ Worth(x.type, Stored(x))
             /\ Shown(Stored(x).content) = x.content
  <2>1. x \in Asked
    BY DEF Asked
  <2>2. x.type \in Types /\ x.content \in Contents /\ x.content # NoPairs
    BY <1>1, <2>1 DEF Types, Contents
  <2>3. Shown(x.content) = x.content
    BY <2>2 DEF Shown
  <2>4. CASE x.content = Nothing
    <3>1. Stored(x) = Null
      BY <2>4 DEF Stored, Null
    <3> QED
      BY <2>2, <2>3, <2>4, <3>1, NullIs
  <2>5. CASE x.content # Nothing /\ x.type = "relation"
    <3>1. x.content \in Relations
      BY <1>1, <2>1, <2>5
    <3>2. Len(x.content) + 1 \in Nat
      BY <3>1, RelationsAre
    <3>3. Stored(x) = Relation(x.content, Len(x.content) + 1)
      BY <2>5 DEF Stored
    <3>4. Stored(x) \in Values /\ Stored(x).content = x.content
      BY <2>2, <3>2, <3>3 DEF Relation, Values
    <3> QED
      BY <2>2, <2>3, <2>5, <3>1, <3>4 DEF Worth, Fits
  <2>6. CASE x.content # Nothing /\ x.type # "relation"
    <3>1. x.type # "map"
      BY <1>1, <2>1, <2>6
    <3>2. Stored(x) \in Values /\ Stored(x).content = x.content
      BY <2>2, <2>6 DEF Stored, Value, Values
    <3> QED
      BY <2>2, <2>3, <2>6, <3>1, <3>2 DEF Worth, Fits
  <2> QED
    BY <2>4, <2>5, <2>6
<1> QED
  BY <1>1, <1>2 DEF Mapped

LEMMA SetIs ==
  ASSUME IInv, Careless = {}, NEW c \in Chunks, NEW k \in Attrs, NEW x \in Offers[k].sets,
         Set(c, k, x)
  PROVE  IInv' /\ Promised!Set(c, k, x.content)
<1>1. There(c) /\ SetOver(c, k, x.type, Stored(x)) /\ Asks("set", c, k, x.content)
  BY DEF Set
<1>2. x.type \in Types /\ Worth(x.type, Stored(x)) /\ Shown(Stored(x).content) = x.content
  BY OfferedIs
<1>3. Gave(c, k, x.content)
  BY <1>1, <1>2, SetOverIs
<1>4. View[c] # NoChunk
  BY <1>1, IdsAre
<1> QED
  BY <1>1, <1>3, <1>4 DEF Gave, Asks, Promised!Set, Promised!Changed, Promised!Call

LEMMA ShownIs ==
  /\ Shown(Nothing) = Nothing /\ Shown(NoPairs) = Nothing
  /\ \A ids \in Relations : ids # <<>> => Shown(ids) = ids
<1>1. \A ids \in Relations : ids # <<>> => ids # NoPairs
  BY RelationsAre
<1> QED
  BY <1>1 DEF Shown

LEMMA AppendFirstIs ==
  ASSUME IInv, Careless = {}, NEW c \in Chunks, NEW k \in Attrs, NEW n \in Offers[k].nodes,
         AppendFirst(c, k, n)
  PROVE  IInv' /\ Promised!Add(c, k, n)
<1>1. /\ There(c) /\ Asks("add", c, k, n) /\ Ids(c, k) = Nothing
      /\ ~IsOfType(c, k, "relation")
      /\ SetIfAbsent(c, k, "relation", Relation(<<n>>, FirstRoom))
  BY DEF AppendFirst, Appends
<1>2. SetOver(c, k, "relation", Relation(<<n>>, FirstRoom))
  BY <1>1, SetIfAbsentIs
<1>3. n \in Nodes
  BY OfferedIs
<1>4. <<n>> \in Relations /\ <<n>> # <<>> /\ Append(<<>>, n) = <<n>>
  BY <1>3 DEF Relations
<1>5. FirstRoom \in Nat
  BY StateAssumption
<1>6. /\ Worth("relation", Relation(<<n>>, FirstRoom))
      /\ Relation(<<n>>, FirstRoom).content = <<n>>
  <2> DEFINE ids == <<n>>
  <2>1. ids \in Relations /\ ids # <<>>
    BY <1>4
  <2> HIDE DEF ids
  <2>2. Worth("relation", Relation(ids, FirstRoom)) /\ Relation(ids, FirstRoom).content = ids
    BY <1>5, <2>1, WorthRelation
  <2> QED
    BY <2>2 DEF ids
<1>7. "relation" \in Types
  BY DEF Types
<1>8. Gave(c, k, Shown(<<n>>))
  <2> DEFINE v == Relation(<<n>>, FirstRoom)
  <2>1. Worth("relation", v) /\ SetOver(c, k, "relation", v) /\ v.content = <<n>>
    BY <1>2, <1>6
  <2> HIDE DEF v
  <2>2. Gave(c, k, Shown(v.content))
    BY <1>1, <1>7, <2>1, SetOverIs
  <2> QED
    BY <2>1, <2>2
<1>9. Shown(<<n>>) = <<n>>
  BY <1>4, ShownIs
<1>10. View[c] # NoChunk /\ View[c][k] = Nothing
  <2>1. View[c] # NoChunk /\ View[c][k] = Shown(Ids(c, k))
    BY <1>1, IdsAre
  <2> QED
    BY <1>1, <2>1, ShownIs
<1>11. Append(IF View[c][k] = Nothing THEN <<>> ELSE View[c][k], n) = <<n>>
  BY <1>4, <1>10
<1> QED
  BY <1>1, <1>8, <1>9, <1>10, <1>11
     DEF Gave, Asks, Promised!Add, Promised!Changed, Promised!Call

(* Adding to a relation that is there.                                       *)
LEMMA HeldIs ==
  ASSUME IInv, NEW c \in Chunks, There(c), NEW k \in Attrs,
         Ids(c, k) # Nothing, TypeAt(state[c], k) = "relation"
  PROVE  /\ Ids(c, k) \in Relations /\ Ids(c, k) # NoPairs /\ View[c] # NoChunk
         /\ View[c][k] = Ids(c, k)
<1>1. Fits("relation", Ids(c, k)) /\ View[c] # NoChunk /\ View[c][k] = Shown(Ids(c, k))
  BY IdsAre
<1>2. Ids(c, k) \in Relations /\ Ids(c, k) # NoPairs
  BY <1>1 DEF Fits
<1> QED
  BY <1>1, <1>2 DEF Shown

LEMMA AppendGrowsIs ==
  ASSUME IInv, Careless = {}, NEW c \in Chunks, NEW k \in Attrs, NEW n \in Offers[k].nodes,
         AppendGrows(c, k, n)
  PROVE  IInv' /\ Promised!Add(c, k, n)
<1> DEFINE v == ValueOf(state[c], k)
           ids == Append(Ids(c, k), n)
           w == Relation(ids, 2 * v.room)
<1>1. /\ There(c) /\ Asks("add", c, k, n) /\ Ids(c, k) # Nothing
      /\ TypeAt(state[c], k) = "relation"
      /\ SetOver(c, k, "relation", w)
  BY DEF AppendGrows, Appends, Ids
<1>2. Ids(c, k) \in Relations /\ View[c] # NoChunk /\ View[c][k] = Ids(c, k)
  BY <1>1, HeldIs
<1>3. ids \in Relations /\ ids # <<>>
  <2>1. n \in Nodes
    BY OfferedIs
  <2> QED
    BY <1>2, <2>1, AppendedIs
<1>4. 2 * v.room \in Nat
  <2>1. Fine(state[c]) /\ EntryOf(state[c], k) # NoEntry
    BY <1>1, IdsAre
  <2>2. v \in Values
    BY <2>1, HasIs
  <2> QED
    BY <2>2 DEF Values
<1>5. Append(IF View[c][k] = Nothing THEN <<>> ELSE View[c][k], n) = ids
  BY <1>1, <1>2
<1>6. "relation" \in Types
  BY DEF Types
<1> HIDE DEF v, ids
<1>7. Worth("relation", w) /\ w.content = ids
  BY <1>3, <1>4, WorthRelation
<1> HIDE DEF w
<1>8. Gave(c, k, Shown(ids))
  BY <1>1, <1>6, <1>7, SetOverIs
<1>9. Shown(ids) = ids
  BY <1>3, ShownIs
<1> QED
  BY <1>1, <1>2, <1>5, <1>8, <1>9
     DEF Gave, Asks, Promised!Add, Promised!Changed, Promised!Call

LEMMA SameOperators ==
  ASSUME NEW ids, NEW n
  PROVE  /\ Promised!Contains(ids, n) <=> Contains(ids, n)
         /\ Promised!RemoveFirst(ids, n) = RemoveFirst(ids, n)
BY DEF Promised!Contains, Contains,
       Promised!RemoveFirst, Promised!RemoveAt, Promised!SelectInSeq, Promised!Min,
       RemoveFirst, RemoveAt, SelectInSeq, Min

LEMMA RemoveNodeIs ==
  ASSUME IInv, Careless = {}, NEW c \in Chunks, NEW k \in Attrs, NEW n, RemoveNode(c, k, n)
  PROVE  IInv' /\ Promised!RemoveNode(c, k, n)
<1> DEFINE rest == RemoveFirst(Ids(c, k), n)
           w == IF rest = <<>> THEN Null ELSE Relation(rest, Len(rest) + 1)
           x == IF rest = <<>> THEN Nothing ELSE rest
<1>1. /\ There(c) /\ Asks("remove", c, k, n) /\ Ids(c, k) # Nothing
      /\ TypeAt(state[c], k) = "relation" /\ Contains(Ids(c, k), n)
      /\ SetOver(c, k, "relation", w)
  BY DEF RemoveNode
<1>2. Ids(c, k) \in Relations /\ View[c] # NoChunk /\ View[c][k] = Ids(c, k)
  BY <1>1, HeldIs
<1>3. rest \in Relations /\ Len(rest) + 1 \in Nat
  <2>1. rest \in Relations
    BY <1>1, <1>2, RemovedIs
  <2> HIDE DEF rest
  <2> QED
    BY <2>1, RelationsAre
<1> HIDE DEF rest
<1>4. Worth("relation", w) /\ Shown(w.content) = x
  <2>1. CASE rest = <<>>
    BY <2>1, NullIs, ShownIs
  <2>2. CASE rest # <<>>
    <3>1. Worth("relation", Relation(rest, Len(rest) + 1)) /\ Relation(rest, Len(rest) + 1).content = rest
      BY <1>3, <2>2, WorthRelation
    <3>2. Shown(rest) = rest
      BY <1>3, <2>2, ShownIs
    <3> QED
      BY <2>2, <3>1, <3>2
  <2> QED
    BY <2>1, <2>2
<1>5. "relation" \in Types
  BY DEF Types
<1> HIDE DEF w, x
<1>6. Gave(c, k, x)
  BY <1>1, <1>4, <1>5, SetOverIs
<1>7. Promised!Changed(c, k, x, TRUE)
  BY <1>2, <1>6 DEF Gave, Promised!Changed
<1>8. IInv' /\ x = (IF RemoveFirst(View[c][k], n) = <<>> THEN Nothing ELSE RemoveFirst(View[c][k], n))
  BY <1>2, <1>6 DEF Gave, x, rest
<1> QED
  BY <1>1, <1>2, <1>7, <1>8, SameOperators DEF Asks, Promised!RemoveNode, Promised!Call

(* A content that nobody shares is written into.                             *)
Written(s, k, x) ==
  [s EXCEPT !.val = [i \in DOMAIN @ |->
      IF i \in {EntryOf(s, k)} THEN [@[i] EXCEPT !.content = x] ELSE @[i]]]

LEMMA WrittenIs ==
  ASSUME NEW s, Fine(s), NEW k \in Attrs, EntryOf(s, k) # NoEntry,
         NEW x \in Contents, x # Nothing, Fits(TypeAt(s, k), x)
  PROVE  Fine(Written(s, k, x)) /\ Shows(Written(s, k, x)) = [Shows(s) EXCEPT ![k] = Shown(x)]
<1> DEFINE e == EntryOf(s, k)
           w == [s.val[e] EXCEPT !.content = x]
           t == [s EXCEPT !.val[e] = w]
<1>1. s.val[e] \in Values
  BY HasIs
<1>2. w \in Values /\ w.content = x
  BY <1>1 DEF Values
<1>3. Written(s, k, x) = t
  <2>1. Shaped(s)
    BY DEF Fine
  <2>2. s.val = [i \in DOMAIN s.val |-> s.val[i]]
    BY <2>1 DEF Shaped, InternalState
  <2>3. [i \in DOMAIN s.val |-> IF i \in {e} THEN [s.val[i] EXCEPT !.content = x] ELSE s.val[i]]
        = [s.val EXCEPT ![e] = w]
    <3> HIDE DEF e
    <3> QED
      BY <2>2
  <2> QED
    BY <2>3 DEF Written
<1> HIDE DEF w, e
<1>4. Worth(TypeAt(s, k), w)
  BY <1>2 DEF Worth
<1>5. Fine(t) /\ Shows(t) = [Shows(s) EXCEPT ![k] = Shown(w.content)]
  BY <1>4, ReplacedIs DEF e
<1> QED
  BY <1>2, <1>3, <1>5

LEMMA WritesAlone ==
  ASSUME IInv, NEW c \in Chunks, NEW k \in Attrs, ~Shares(k, c), NEW x, Writes(c, k, x)
  PROVE  state' = [state EXCEPT ![c] = Written(state[c], k, x)]
<1> DEFINE written(d) == {EntryOf(state[d], y) : y \in {z \in Attrs : <<d, z>> \in Block(k, c)}}
           put(d) == [state[d] EXCEPT !.val = [i \in DOMAIN @ |->
                         IF i \in written(d) THEN [@[i] EXCEPT !.content = x] ELSE @[i]]]
<1>1. state' = [d \in Chunks |-> IF written(d) = {} THEN state[d] ELSE put(d)]
  BY DEF Writes
<1>2. Block(k, c) = {<<c, k>>}
  BY AloneIs DEF IInv, Kinds
<1>3. \A d \in Chunks : d # c => written(d) = {}
  BY <1>2
<1>4. written(c) = {EntryOf(state[c], k)}
  BY <1>2
<1> HIDE DEF written
<1>5. put(c) = Written(state[c], k, x)
  BY <1>4 DEF Written
<1> HIDE DEF put
<1>6. DOMAIN state = Chunks
  BY DEF IInv, TypeOK
<1> QED
  BY <1>1, <1>3, <1>4, <1>5, <1>6

LEMMA WritesIs ==
  ASSUME IInv, NEW c \in Chunks, There(c), NEW k \in Attrs, EntryOf(state[c], k) # NoEntry,
         NEW x \in Contents, x # Nothing, Fits(TypeAt(state[c], k), x),
         state' = [state EXCEPT ![c] = Written(state[c], k, x)],
         dirty' = dirty \cup {c}, sharing' = sharing, stored' = stored
  PROVE  Gave(c, k, Shown(x))
<1> DEFINE s == state[c]
           t == Written(s, k, x)
           y == [Shows(s) EXCEPT ![k] = Shown(x)]
<1>1. Fine(s)
  BY DEF IInv
<1>2. Fine(t) /\ Shows(t) = y
  BY <1>1, WrittenIs
<1>3. Covers(sharing')
  BY DEF IInv
<1> HIDE DEF t, y
<1>4. Becomes(c, t) /\ Declared(c, t)
  BY <1>2, <1>3 DEF Becomes, Declared, t
<1>5. Seen(c, Shows(t))
  BY <1>4, BecomesIs
<1>6. View[c] = Shows(s)
  BY ViewIs
<1>7. [View EXCEPT ![c] = y] = [View EXCEPT ![c][k] = Shown(x)]
  BY <1>6 DEF y
<1> QED
  BY <1>2, <1>5, <1>7 DEF Seen, Gave

LEMMA AppendInPlaceIs ==
  ASSUME IInv, Careless = {}, NEW c \in Chunks, NEW k \in Attrs, NEW n \in Offers[k].nodes,
         AppendInPlace(c, k, n)
  PROVE  IInv' /\ Promised!Add(c, k, n)
<1> DEFINE ids == Append(Ids(c, k), n)
           s == state[c]
<1>1. /\ There(c) /\ Asks("add", c, k, n) /\ Ids(c, k) # Nothing
      /\ TypeAt(s, k) = "relation"
      /\ ~Shares(k, c) /\ c \in dirty
      /\ Writes(c, k, ids)
      /\ UNCHANGED <<sharing, dirty, stored>>
  BY DEF AppendInPlace, Appends
<1>2. /\ Ids(c, k) \in Relations /\ View[c] # NoChunk /\ View[c][k] = Ids(c, k)
      /\ EntryOf(s, k) # NoEntry
  BY <1>1, HeldIs, IdsAre
<1>3. ids \in Relations /\ ids # <<>>
  <2>1. n \in Nodes
    BY OfferedIs
  <2> QED
    BY <1>2, <2>1, AppendedIs
<1>4. Append(IF View[c][k] = Nothing THEN <<>> ELSE View[c][k], n) = ids
  BY <1>1, <1>2
<1> HIDE DEF ids
<1>5. state' = [state EXCEPT ![c] = Written(s, k, ids)]
  BY <1>1, WritesAlone
<1>6. ids \in Contents /\ ids # Nothing /\ ids # NoPairs
  BY <1>3, RelationsAre
<1>7. Fits(TypeAt(s, k), ids)
  BY <1>1, <1>3, <1>6 DEF Fits
<1>8. dirty' = dirty \cup {c} /\ sharing' = sharing /\ stored' = stored
  BY <1>1
<1>9. Gave(c, k, Shown(ids))
  <2> HIDE DEF s
  <2>1. s = state[c]
    BY DEF s
  <2> QED
    BY <1>1, <1>2, <1>5, <1>6, <1>7, <1>8, <2>1, WritesIs
<1>10. Shown(ids) = ids
  BY <1>3, ShownIs
<1> QED
  BY <1>1, <1>2, <1>4, <1>9, <1>10
     DEF Gave, Asks, Promised!Add, Promised!Changed, Promised!Call

LEMMA GetOrCreateMapIs ==
  ASSUME IInv, Careless = {}, NEW c \in Chunks, NEW k \in Attrs, GetOrCreateMap(c, k)
  PROVE  IInv' /\ Promised!CreateMap(c, k)
<1>1. /\ There(c) /\ Asks("map", c, k, Nothing) /\ Ids(c, k) = Nothing
      /\ ~IsOfType(c, k, "map") /\ SetIfAbsent(c, k, "map", Value(NoPairs))
  BY DEF GetOrCreateMap
<1>2. SetOver(c, k, "map", Value(NoPairs))
  BY <1>1, SetIfAbsentIs
<1>3. Worth("map", Value(NoPairs)) /\ Value(NoPairs).content = NoPairs
  BY MapsAre, WorthMap
<1>4. "map" \in Types
  BY DEF Types
<1>5. Gave(c, k, Shown(NoPairs))
  BY <1>1, <1>2, <1>3, <1>4, SetOverIs
<1>6. /\ View[c] # NoChunk /\ View[c][k] = Nothing
      /\ View[c] = [View[c] EXCEPT ![k] = Nothing]
  <2>1. /\ View[c] # NoChunk /\ View[c][k] = Shown(Ids(c, k))
        /\ View[c] = [View[c] EXCEPT ![k] = Shown(Ids(c, k))]
    BY <1>1, IdsAre
  <2> QED
    BY <1>1, <2>1, ShownIs
<1>7. View' = [View EXCEPT ![c][k] = Nothing]
  BY <1>5, ShownIs DEF Gave
<1>8. View' = View
  <2>1. View = [d \in Chunks |-> View[d]]
    BY ViewIs
  <2> QED
    BY <1>6, <1>7, <2>1
<1> QED
  BY <1>1, <1>5, <1>6, <1>8 DEF Gave, Asks, Promised!CreateMap, Promised!Call

LEMMA PutIs ==
  ASSUME IInv, Careless = {}, NEW c \in Chunks, NEW k \in Attrs,
         NEW m \in MapKeys, NEW x \in Offers[k].mapped, Put(c, k, m, x)
  PROVE  IInv' /\ Promised!PutPair(c, k, m, x)
<1> DEFINE s == state[c]
           e == EntryOf(s, k)
           old == Ids(c, k)
           new == [old EXCEPT ![m] = x]
           pairs == IF View[c][k] = Nothing THEN NoPairs ELSE View[c][k]
<1>1. /\ There(c) /\ old # Nothing /\ TypeAt(s, k) = "map"
      /\ PutSame(c, k, m, x) \/ PutCopies(c, k, m, x) \/ PutInPlace(c, k, m, x)
      /\ Asks("put", c, k, <<m, x>>)
  BY DEF Put
<1>2. /\ Fine(s) /\ View[c] = Shows(s) /\ View[c] # NoChunk /\ View[c][k] = Shown(old)
      /\ e # NoEntry /\ Fits("map", old)
  BY <1>1, IdsAre
<1>3. old \in Maps /\ x \in Mapped /\ x # Nothing
  <2>1. Nothing \notin Nodes \cup Mapped \cup Relations \cup Maps
    BY OffersAssumption
  <2> QED
    BY <1>2, <2>1, OfferedIs DEF Fits
<1>4. pairs = old
  BY <1>1, <1>2 DEF Shown
<1>5. /\ new \in Maps /\ new \in Contents /\ new # Nothing /\ new[m] = x
      /\ new # NoPairs
  <2>1. new \in Maps /\ new[m] = x
    BY <1>3 DEF Maps
  <2>2. new # NoPairs
    BY <1>3, <2>1 DEF NoPairs
  <2> QED
    BY <2>1, <2>2, MapsAre
<1>6. Shown(new) = new
  BY <1>5 DEF Shown
<1>7. /\ e \in Entries(s) /\ ValueOf(s, k) = s.val[e] /\ ValueOf(s, k) \in Values
      /\ s.val[e].content = old
  BY <1>2, HasIs DEF Ids
<1>8. DOMAIN state = Chunks
  BY DEF IInv, TypeOK
<1>9. CASE PutSame(c, k, m, x)
  <2> DEFINE t == [s EXCEPT !.val[e].own = TRUE]
  <2>1. /\ old[m] = x /\ state' = [state EXCEPT ![c] = t]
        /\ sharing' = IF s.val[e].own THEN sharing ELSE Apart({<<c, k>>})
        /\ dirty' = dirty /\ stored' = stored
    BY <1>9 DEF PutSame
  <2>2. s.val[e] # Null
    BY <1>1, <1>7, NullIs
  <2>3. Fine(t) /\ Shows(t) = Shows(s)
    BY <1>2, <1>7, <2>2, OwnedIs
  <2> HIDE DEF t, s
  <2>4. Covers(sharing')
    <3>1. {<<c, k>>} \subseteq Cells
      BY DEF Cells, Kinds
    <3>2. Covers(sharing) /\ Covers(Apart({<<c, k>>}))
      BY <3>1, ApartIs DEF IInv
    <3> QED
      BY <2>1, <3>2
  <2>5. Becomes(c, t) /\ Declared(c, t)
    BY <1>1, <2>1, <2>3, <2>4 DEF Becomes, Declared, s
  <2>6. Seen(c, Shows(t))
    BY <2>5, BecomesIs
  <2>7. View' = [View EXCEPT ![c][k] = new]
    <3>1. new = old
      BY <1>3, <2>1 DEF Maps
    <3>2. old # NoPairs
      BY <1>3, <2>1 DEF NoPairs
    <3>3. View[c][k] = new
      BY <1>2, <3>1, <3>2 DEF Shown
    <3>4. View' = [View EXCEPT ![c] = View[c]]
      BY <1>2, <2>3, <2>6 DEF Seen
    <3>5. View[c] = [View[c] EXCEPT ![k] = new]
      BY <1>2, <3>3 DEF Shows
    <3> QED
      BY <3>4, <3>5
  <2>8. Promised!Changed(c, k, new, FALSE)
    BY <1>2, <2>1, <2>6, <2>7 DEF Seen, Promised!Changed
  <2>9. (pairs[m] # x) = FALSE
    BY <1>4, <2>1
  <2> HIDE DEF new, pairs
  <2>10. Promised!Changed(c, k, new, pairs[m] # x)
    BY <2>8, <2>9
  <2> QED
    BY <1>1, <1>2, <1>4, <2>6, <2>10
       DEF Seen, Asks, Promised!PutPair, Promised!Call, Promised!NoPairs, NoPairs, new, pairs
<1>10. ASSUME Gave(c, k, new), old[m] # x PROVE IInv' /\ Promised!PutPair(c, k, m, x)
  <2>1. Promised!Changed(c, k, new, TRUE)
    BY <1>2, <1>10 DEF Gave, Promised!Changed
  <2>2. (pairs[m] # x) = TRUE
    BY <1>4, <1>10
  <2> HIDE DEF new, pairs, old
  <2>3. Promised!Changed(c, k, new, pairs[m] # x)
    BY <2>1, <2>2
  <2> QED
    BY <1>1, <1>2, <1>4, <1>10, <2>3
       DEF Gave, Asks, Promised!PutPair, Promised!Call, Promised!NoPairs, NoPairs, new, pairs
<1>11. CASE PutCopies(c, k, m, x)
  <2> DEFINE w == Value(new)
             t == [s EXCEPT !.val[e] = w]
  <2>1. old[m] # x /\ Replaces(c, k, t, FALSE)
    BY <1>7, <1>11 DEF PutCopies
  <2>2. Worth("map", w) /\ w.content = new
    BY <1>5, WorthMap
  <2> HIDE DEF w, new
  <2>3. Fine(t) /\ Shows(t) = [Shows(s) EXCEPT ![k] = new]
    BY <1>1, <1>2, <1>6, <2>2, ReplacedIs
  <2> HIDE DEF t, s
  <2>4. Seen(c, Shows(t)) /\ dirty' = dirty \cup {c}
    BY <2>1, <2>3, ReplacesIs
  <2>5. [View EXCEPT ![c] = Shows(t)] = [View EXCEPT ![c][k] = new]
    BY <1>2, <2>3
  <2>6. Gave(c, k, new)
    BY <2>4, <2>5 DEF Gave, Seen
  <2> QED
    BY <1>10, <2>1, <2>6
<1>12. CASE PutInPlace(c, k, m, x)
  <2>1. /\ old[m] # x /\ ~Shares(k, c) /\ Writes(c, k, new)
        /\ dirty' = dirty \cup {c} /\ sharing' = sharing /\ stored' = stored
    BY <1>12 DEF PutInPlace
  <2>3. state' = [state EXCEPT ![c] = Written(state[c], k, new)]
    <3> HIDE DEF new
    <3> QED
      BY <2>1, WritesAlone
  <2>4. Fits(TypeAt(s, k), new)
    BY <1>1, <1>5 DEF Fits
  <2> HIDE DEF new, old
  <2>5. Gave(c, k, Shown(new))
    BY <1>1, <1>2, <1>5, <2>1, <2>3, <2>4, WritesIs
  <2> QED
    BY <1>6, <1>10, <2>1, <2>5 DEF old
<1> QED
  BY <1>1, <1>9, <1>11, <1>12

-----------------------------------------------------------------------------
(* Time points, saves and loads.                                             *)

LEMMA StartIs ==
  ASSUME IInv, NEW c \in Chunks, IsNext(c), NEW t, Becomes(c, t),
         dirty' = dirty \cup {c}, call' = call
  PROVE  IInv' /\ Promised!Starts(c, Shows(t))
<1>1. ~There(c)
  BY DEF IsNext, Chunks
<1>2. c \notin dirty
  BY <1>1 DEF IInv
<1>3. Seen(c, Shows(t))
  BY BecomesIs DEF Declared
<1>4. View[c] = NoChunk
  BY <1>1, ViewIs
<1> QED
  BY <1>2, <1>3, <1>4 DEF Seen, Promised!Starts

LEMMA CreateIs ==
  ASSUME IInv, NEW c \in Chunks, Create(c)
  PROVE  IInv' /\ Promised!Create(c)
<1> DEFINE t == Blank(InitialCapacity)
<1>1. Fine(t) /\ Shows(t) = [k \in Attrs |-> Nothing]
  BY BlankIs, ConstantsAre
<1> HIDE DEF t
<1>2. /\ IsNext(c) /\ state' = [state EXCEPT ![c] = t] /\ dirty' = dirty \cup {c}
      /\ sharing' = sharing /\ stored' = stored /\ call' = call
  BY DEF Create, t
<1>3. Covers(sharing')
  BY <1>2 DEF IInv
<1>4. Becomes(c, t)
  BY <1>1, <1>2, <1>3 DEF Becomes
<1>5. IInv' /\ Promised!Starts(c, Shows(t))
  BY <1>2, <1>4, StartIs
<1> QED
  BY <1>1, <1>5 DEF Promised!Create, Promised!Empty

LEMMA PhaseIs ==
  ASSUME IInv, NEW o \in Chunks, NEW c \in Chunks, Phase(o, c)
  PROVE  IInv' /\ Promised!Phase(o, c)
<1> DEFINE t == Cloned(state[o])
<1>1. /\ There(o) /\ IsNext(c) /\ state' = [state EXCEPT ![c] = t]
      /\ sharing' = Joined(o, c, Held(state[o]))
      /\ dirty' = dirty \cup {c} /\ stored' = stored /\ call' = call
  BY DEF Phase
<1>2. Fine(state[o]) /\ View[o] = Shows(state[o]) /\ View[o] # NoChunk
  <2>1. Fine(state[o])
    BY <1>1 DEF IInv
  <2> QED
    BY <1>1, <2>1, ViewIs, FineIs
<1>3. Fine(t) /\ Shows(t) = View[o]
  BY <1>2, ClonedIs
<1> HIDE DEF t
<1>4. Covers(sharing')
  <2> DEFINE H == Held(state[o])
  <2>1. H \subseteq Kinds
    BY DEF Held, Kinds
  <2>2. o # c
    BY <1>1 DEF IsNext, Chunks
  <2> HIDE DEF H
  <2>3. Covers(Joined(o, c, H))
    BY <2>1, <2>2, JoinsIs DEF IInv
  <2> QED
    BY <1>1, <2>3 DEF H
<1>5. Becomes(c, t)
  BY <1>1, <1>3, <1>4 DEF Becomes
<1>6. IInv' /\ Promised!Starts(c, Shows(t))
  BY <1>1, <1>5, StartIs
<1> QED
  BY <1>2, <1>3, <1>6 DEF Promised!Phase

LEMMA SaveIs ==
  ASSUME IInv, Careless = {}, NEW c \in Chunks, Save(c)
  PROVE  IInv' /\ Promised!Save(c)
<1> DEFINE b == Bytes(state[c])
<1>1. /\ c \in dirty /\ stored' = [stored EXCEPT ![c] = b] /\ dirty' = dirty \ {c}
      /\ state' = state /\ sharing' = sharing /\ call' = call /\ ~Borrows(b)
  BY DEF Save
<1>2. There(c) /\ Fine(state[c])
  BY <1>1 DEF IInv
<1>3. SoundSave(b) /\ Tells(b) = Shows(state[c])
  BY <1>2, BytesIs
<1> HIDE DEF b
<1>4. b \in Saves /\ b # NoChunk
  BY <1>3, OffersAssumption DEF SoundSave
<1>5. /\ DOMAIN state = Chunks /\ dirty \subseteq Chunks
      /\ \A d \in Chunks : There(d) => \E n \in 0 .. MaxSize : state[d] \in InternalState(n)
      /\ UNION sharing = Cells /\ {} \notin sharing
      /\ stored \in [Chunks -> {NoChunk} \cup Saves]
  BY DEF IInv, TypeOK
<1>6. /\ stored' \in [Chunks -> {NoChunk} \cup Saves]
      /\ stored'[c] = b /\ \A d \in Chunks : d # c => stored'[d] = stored[d]
  BY <1>1, <1>4, <1>5
<1>7. TypeOK'
  BY <1>1, <1>5, <1>6 DEF TypeOK, There
<1>8. /\ \A d \in Chunks : There(d)' => Fine(state'[d])
      /\ \A d \in dirty' : There(d)'
  BY <1>1 DEF IInv, There
<1>9. \A d \in Chunks : stored'[d] # NoChunk => SoundSave(stored'[d]) /\ ~Borrows(stored'[d])
  BY <1>1, <1>3, <1>6 DEF IInv
<1>10. ASSUME NEW d \in Chunks, There(d)', d \notin dirty'
       PROVE  stored'[d] # NoChunk /\ Tells(stored'[d]) = Shows(state'[d])
  <2>1. There(d) /\ state'[d] = state[d]
    BY <1>1, <1>10 DEF There
  <2>2. CASE d = c
    BY <1>3, <1>4, <1>6, <2>1, <2>2
  <2>3. CASE d # c
    BY <1>1, <1>6, <1>10, <2>1, <2>3 DEF IInv
  <2> QED
    BY <2>2, <2>3
<1>11. IInv'
  BY <1>1, <1>7, <1>8, <1>9, <1>10 DEF IInv
<1>12. View' = View /\ View[c] = Shows(state[c])
  BY <1>1, <1>2, ViewIs DEF View, There
<1>13. Kept' = [Kept EXCEPT ![c] = View[c]]
  <2>1. Kept = [d \in Chunks |-> IF stored[d] = NoChunk THEN NoChunk ELSE Tells(stored[d])]
    BY ViewIs
  <2>2. Kept' = [d \in Chunks |-> IF stored'[d] = NoChunk THEN NoChunk ELSE Tells(stored'[d])]
    BY DEF Kept, Tells
  <2> QED
    BY <1>3, <1>4, <1>6, <1>12, <2>1, <2>2
<1> QED
  BY <1>1, <1>11, <1>12, <1>13 DEF Promised!Save

LEMMA ReloadIs ==
  ASSUME IInv, NEW c \in Chunks, Reload(c)
  PROVE  IInv' /\ UNCHANGED Promised!vars
<1> DEFINE t == Loaded(stored[c])
<1>1. /\ There(c) /\ c \notin dirty /\ SizeFor(stored[c]) <= MaxSize
      /\ state' = [state EXCEPT ![c] = t]
      /\ sharing' = Without({c} \X Kinds) \cup {{c} \X Together(stored[c], x) : x \in Kinds}
      /\ dirty' = dirty /\ stored' = stored /\ call' = call
  BY DEF Reload
<1>2. SoundSave(stored[c]) /\ ~Borrows(stored[c]) /\ Tells(stored[c]) = Shows(state[c])
  BY <1>1 DEF IInv
<1>3. Fine(t) /\ Shows(t) = Shows(state[c])
  BY <1>1, <1>2, LoadedIs
<1> HIDE DEF t
<1>4. Covers(sharing')
  BY <1>1, <1>2, LoadsApart DEF IInv
<1>5. Becomes(c, t) /\ Declared(c, t)
  BY <1>1, <1>3, <1>4 DEF Becomes, Declared
<1>6. Seen(c, Shows(t))
  BY <1>5, BecomesIs
<1>7. [View EXCEPT ![c] = Shows(t)] = View
  BY <1>1, <1>3, ViewIs
<1> QED
  BY <1>1, <1>6, <1>7 DEF Seen, Promised!vars

-----------------------------------------------------------------------------
(* The theorems.                                                             *)

LEMMA InitIs == Init => IInv /\ Promised!Init
<1> SUFFICES ASSUME Init PROVE IInv /\ Promised!Init
  OBVIOUS
<1>1. /\ state = [c \in Chunks |-> NoChunk] /\ dirty = {}
      /\ sharing = {{z} : z \in Cells}
      /\ stored = [c \in Chunks |-> NoChunk]
      /\ call = [op |-> "none", chunk |-> NoChunk, attr |-> Nothing, arg |-> Nothing]
  BY DEF Init
<1>2. \A c \in Chunks : ~There(c)
  BY <1>1 DEF There
<1>3. Covers(sharing)
  BY <1>1 DEF Covers
<1>4. TypeOK
  BY <1>1, <1>2, <1>3 DEF TypeOK, Covers
<1>5. IInv
  BY <1>1, <1>2, <1>3, <1>4 DEF IInv
<1>6. View = [c \in Chunks |-> NoChunk] /\ Kept = [c \in Chunks |-> NoChunk]
  BY <1>1, <1>2, ViewIs
<1> QED
  BY <1>1, <1>5, <1>6 DEF Promised!Init, Promised!Call

(* A call is what its record says it is.                                     *)
LEMMA AskedIs ==
  ASSUME NEW c, NEW k
  PROVE  /\ \A x : Promised!Set(c, k, x) => Promised!Next
         /\ \A n : Promised!Add(c, k, n) => Promised!Next
         /\ \A n : Promised!RemoveNode(c, k, n) => Promised!Next
         /\ Promised!CreateMap(c, k) => Promised!Next
         /\ \A m, x : Promised!PutPair(c, k, m, x) => Promised!Next
<1>1. \A op, x : LET r == Promised!Call(op, c, k, x)
                 IN  r.op = op /\ r.chunk = c /\ r.attr = k /\ r.arg = x
  BY DEF Promised!Call
<1>2. ASSUME NEW x, Promised!Set(c, k, x) PROVE Promised!Next
  <2>1. call' = Promised!Call("set", c, k, x)
    BY <1>2 DEF Promised!Set
  <2>2. call'.op = "set" /\ call'.chunk = c /\ call'.attr = k /\ call'.arg = x
    BY <1>1, <2>1
  <2> QED
    BY <1>2, <2>2 DEF Promised!Next, Promised!Asked
<1>3. ASSUME NEW n, Promised!Add(c, k, n) PROVE Promised!Next
  <2>1. call' = Promised!Call("add", c, k, n)
    BY <1>3 DEF Promised!Add
  <2>2. call'.op = "add" /\ call'.chunk = c /\ call'.attr = k /\ call'.arg = n
    BY <1>1, <2>1
  <2> QED
    BY <1>3, <2>2 DEF Promised!Next, Promised!Asked
<1>4. ASSUME NEW n, Promised!RemoveNode(c, k, n) PROVE Promised!Next
  <2>1. call' = Promised!Call("remove", c, k, n)
    BY <1>4 DEF Promised!RemoveNode
  <2>2. call'.op = "remove" /\ call'.chunk = c /\ call'.attr = k /\ call'.arg = n
    BY <1>1, <2>1
  <2> QED
    BY <1>4, <2>2 DEF Promised!Next, Promised!Asked
<1>5. ASSUME Promised!CreateMap(c, k) PROVE Promised!Next
  <2>1. call' = Promised!Call("map", c, k, Nothing)
    BY <1>5 DEF Promised!CreateMap
  <2>2. call'.op = "map" /\ call'.chunk = c /\ call'.attr = k
    BY <1>1, <2>1
  <2> QED
    BY <1>5, <2>2 DEF Promised!Next, Promised!Asked
<1>6. ASSUME NEW m, NEW x, Promised!PutPair(c, k, m, x) PROVE Promised!Next
  <2>1. call' = Promised!Call("put", c, k, <<m, x>>)
    BY <1>6 DEF Promised!PutPair
  <2>2. call'.op = "put" /\ call'.chunk = c /\ call'.attr = k /\ call'.arg = <<m, x>>
    BY <1>1, <2>1
  <2>3. call'.arg[1] = m /\ call'.arg[2] = x
    BY <2>2
  <2> QED
    BY <1>6, <2>2, <2>3 DEF Promised!Next, Promised!Asked
<1> QED
  BY <1>2, <1>3, <1>4, <1>5, <1>6

LEMMA NextIs ==
  ASSUME Careless = {}, IInv, [Next]_vars
  PROVE  IInv' /\ [Promised!Next]_(Promised!vars)
<1>1. CASE UNCHANGED vars
  <2>1. state' = state /\ sharing' = sharing /\ dirty' = dirty /\ stored' = stored /\ call' = call
    BY <1>1 DEF vars
  <2>2. IInv'
    BY <2>1 DEF IInv, TypeOK, There
  <2>3. View' = View /\ Kept' = Kept
    BY <2>1 DEF View, Kept, There
  <2> QED
    BY <2>1, <2>2, <2>3 DEF Promised!vars
<1>2. ASSUME NEW c \in Chunks, Create(c) PROVE IInv' /\ Promised!Next
  BY <1>2, CreateIs DEF Promised!Next
<1>3. ASSUME NEW c \in Chunks, Save(c) PROVE IInv' /\ Promised!Next
  BY <1>3, SaveIs DEF Promised!Next
<1>4. ASSUME NEW c \in Chunks, Reload(c) PROVE IInv' /\ UNCHANGED Promised!vars
  BY <1>4, ReloadIs
<1>5. ASSUME NEW o \in Chunks, NEW c \in Chunks, Phase(o, c) PROVE IInv' /\ Promised!Next
  BY <1>5, PhaseIs DEF Promised!Next
<1>6. ASSUME NEW c \in Chunks, NEW k \in Attrs
      PROVE  /\ \A x \in Offers[k].sets : Set(c, k, x) => IInv' /\ Promised!Next
             /\ \A n \in Offers[k].nodes :
                  AppendFirst(c, k, n) \/ AppendInPlace(c, k, n) \/ AppendGrows(c, k, n)
                  \/ RemoveNode(c, k, n) => IInv' /\ Promised!Next
             /\ GetOrCreateMap(c, k) => IInv' /\ Promised!Next
             /\ \A m \in MapKeys, x \in Offers[k].mapped : Put(c, k, m, x) => IInv' /\ Promised!Next
  <2>1. ASSUME NEW x \in Offers[k].sets, Set(c, k, x) PROVE IInv' /\ Promised!Next
    BY <2>1, SetIs, AskedIs
  <2>2. ASSUME NEW n \in Offers[k].nodes, AppendFirst(c, k, n) PROVE IInv' /\ Promised!Next
    BY <2>2, AppendFirstIs, AskedIs
  <2>3. ASSUME NEW n \in Offers[k].nodes, AppendInPlace(c, k, n) PROVE IInv' /\ Promised!Next
    BY <2>3, AppendInPlaceIs, AskedIs
  <2>4. ASSUME NEW n \in Offers[k].nodes, AppendGrows(c, k, n) PROVE IInv' /\ Promised!Next
    BY <2>4, AppendGrowsIs, AskedIs
  <2>5. ASSUME NEW n \in Offers[k].nodes, RemoveNode(c, k, n) PROVE IInv' /\ Promised!Next
    BY <2>5, RemoveNodeIs, AskedIs
  <2>6. ASSUME GetOrCreateMap(c, k) PROVE IInv' /\ Promised!Next
    BY <2>6, GetOrCreateMapIs, AskedIs
  <2>7. ASSUME NEW m \in MapKeys, NEW x \in Offers[k].mapped, Put(c, k, m, x)
        PROVE  IInv' /\ Promised!Next
    BY <2>7, PutIs, AskedIs
  <2> QED
    BY <2>1, <2>2, <2>3, <2>4, <2>5, <2>6, <2>7
<1> QED
  BY <1>1, <1>2, <1>3, <1>4, <1>5, <1>6 DEF Next

LEMMA Invariant ==
  ASSUME Careless = {} PROVE Spec => []IInv
<1>1. Init => IInv
  BY InitIs
<1>2. IInv /\ [Next]_vars => IInv'
  BY NextIs
<1> QED
  BY <1>1, <1>2, PTL DEF Spec

(* Each chunk has arrays of one length whose links stay inside them, and     *)
(* each save has pairs of attributes, types and contents, whatever growth,   *)
(* copies, type switches and loads do to them.                               *)
THEOREM TypeCorrect ==
  ASSUME Careless = {} PROVE Spec => []TypeOK
<1>1. IInv => TypeOK
  BY DEF IInv
<1> QED
  BY <1>1, Invariant, PTL

(* Walking the counted entries, as save and each do, and following the       *)
(* chains, as get does, find the same attributes, each of them once.         *)
THEOREM EachFindsWhatGetDoes ==
  ASSUME Careless = {} PROVE Spec => []EachAsGet
<1>1. ASSUME IInv PROVE EachAsGet
  <2>1. \A c \in Chunks : There(c) => Fine(state[c])
    BY <1>1 DEF IInv
  <2>2. ASSUME NEW c \in Chunks, There(c), NEW k \in Attrs
        PROVE  LET of == {n \in DOMAIN Pairs(state[c]) : Pairs(state[c])[n].key = k}
                   x == ValueOf(state[c], k).content
               IN  IF x = Nothing THEN of = {}
                   ELSE \E n \in of : of = {n} /\ Pairs(state[c])[n].content = x
    BY <2>1, <2>2, EachIs
  <2> QED
    BY <2>2 DEF EachAsGet
<1> QED
  BY <1>1, Invariant, PTL

(* The chunks do what Attributes promises of them: a call changes what it    *)
(* names at one time point and nothing at any other, a time point starts as  *)
(* a copy of its origin, and what is not declared dirty is what was saved,   *)
(* so an evicted chunk comes back as it was.                                 *)
THEOREM Refinement ==
  ASSUME Careless = {} PROVE Spec => ImplementsAttributes
<1>1. Init => Promised!Init
  BY InitIs
<1>2. IInv /\ [Next]_vars => [Promised!Next]_(Promised!vars)
  BY NextIs
<1> QED
  BY <1>1, <1>2, Invariant, PTL DEF Spec, ImplementsAttributes, Promised!Spec

=============================================================================
