-------------------------- MODULE WorldOrder_proofs --------------------------
(* What WorldOrder gives careful callers, for any worlds, times and hash. The *)
(* entries that are linked form chains that lead from later entries to        *)
(* earlier ones and leave none out (Chained), so that the walk of             *)
(* findNonNullKeyEntry has a value and finds every key. Filling, linking,     *)
(* growing and loading keep the chains, and each step either keeps what is    *)
(* read or changes it as one of LongMap does.                                 *)
EXTENDS WorldOrder, WellFoundedInduction, TLAPS

-----------------------------------------------------------------------------
(* Counting up to a bound.                                                   *)

LEMMA UpTo ==
  ASSUME NEW N \in Nat, NEW D, 0 \in D, \A n \in 1 .. N : n - 1 \in D => n \in D
  PROVE  \A n \in 0 .. N : n \in D
<1> DEFINE bad == {n \in 0 .. N : n \notin D}
<1> SUFFICES ASSUME bad # {} PROVE FALSE
  OBVIOUS
<1>1. bad \in SUBSET Nat
  OBVIOUS
<1>2. PICK n \in bad : \A m \in bad : ~ (m < n)
  <2>1. PICK n \in bad : \A m \in bad : ~ (<<m, n>> \in OpToRel(<, Nat))
    BY <1>1, NatLessThanWellFounded, WFMin
  <2>2. \A m \in bad : ~ (m < n)
    BY <1>1, <2>1 DEF OpToRel
  <2> QED
    BY <2>2
<1>3. n \in 1 .. N /\ n - 1 \in 0 .. N
  <2>1. n # 0
    BY <1>2
  <2> QED
    BY <1>2, <2>1
<1>4. n - 1 \notin bad
  BY <1>2, <1>3
<1>5. n - 1 \in D
  BY <1>3, <1>4
<1>6. n \in D
  BY <1>3, <1>5
<1> QED
  BY <1>2, <1>6

(* A function that starts with first and goes on by step, through the sets  *)
(* good[0], good[1], ...                                                     *)
Steps(f, N, good, first, step) ==
  /\ f = [n \in 0 .. N |-> f[n]]
  /\ f[0] = first
  /\ \A n \in 1 .. N : f[n] = step[n][f[n - 1]]
  /\ \A n \in 0 .. N : f[n] \in good[n]

LEMMA StepsExist ==
  ASSUME NEW N \in Nat, NEW good, NEW first, first \in good[0], NEW step,
         \A n \in 1 .. N : \A s \in good[n - 1] : step[n][s] \in good[n]
  PROVE  \E f : Steps(f, N, good, first, step)
<1> DEFINE Does(f, M) == Steps(f, M, good, first, step)
           D == {M \in 0 .. N : \E f : Does(f, M)}
<1>1. 0 \in D
  <2> DEFINE f == [n \in 0 .. 0 |-> first]
  <2>1. f = [n \in 0 .. 0 |-> f[n]] /\ f[0] = first
    OBVIOUS
  <2>2. \A n \in 0 .. 0 : n = 0
    OBVIOUS
  <2> HIDE DEF f
  <2>3. Does(f, 0)
    BY <2>1, <2>2 DEF Steps
  <2> HIDE DEF Does
  <2> QED
    BY <2>3
<1>2. ASSUME NEW M \in 1 .. N, M - 1 \in D PROVE M \in D
  <2>1. PICK f : Does(f, M - 1)
    BY <1>2
  <2> DEFINE g == [n \in 0 .. M |-> IF n = M THEN step[M][f[M - 1]] ELSE f[n]]
  <2>2. \A n \in 0 .. M - 1 : n \in 0 .. M /\ n # M /\ g[n] = f[n]
    OBVIOUS
  <2>3. M \in 0 .. M /\ M - 1 \in 0 .. M - 1 /\ g[M] = step[M][f[M - 1]]
    OBVIOUS
  <2>4. g = [n \in 0 .. M |-> g[n]]
    OBVIOUS
  <2> HIDE DEF g
  <2>5. g[0] = first
    BY <2>1, <2>2 DEF Steps
  <2>6. g[M] \in good[M]
    BY <2>1, <2>3 DEF Steps
  <2>7. ASSUME NEW n \in 1 .. M PROVE g[n] = step[n][g[n - 1]]
    <3>1. n - 1 \in 0 .. M - 1 /\ g[n - 1] = f[n - 1]
      BY <2>2
    <3>2. CASE n = M
      BY <2>3, <3>1, <3>2
    <3>3. CASE n # M
      <4>1. n \in 1 .. M - 1 /\ n \in 0 .. M - 1
        BY <3>3
      <4> QED
        BY <2>1, <2>2, <3>1, <4>1 DEF Steps
    <3> QED
      BY <3>2, <3>3
  <2>8. ASSUME NEW n \in 0 .. M PROVE g[n] \in good[n]
    <3>1. CASE n = M
      BY <2>6, <3>1
    <3>2. CASE n # M
      <4>1. n \in 0 .. M - 1
        BY <3>2
      <4> QED
        BY <2>1, <2>2, <4>1 DEF Steps
    <3> QED
      BY <3>1, <3>2
  <2>9. Does(g, M)
    BY <2>4, <2>5, <2>7, <2>8 DEF Steps
  <2> HIDE DEF Does
  <2> QED
    BY <2>9
<1> HIDE DEF D
<1>3. N \in D
  BY <1>1, <1>2, UpTo
<1>4. PICK f : Does(f, N)
  BY <1>3 DEF D
<1> QED
  BY <1>4

-----------------------------------------------------------------------------
(* The arrays, with n entries linked.                                        *)

Cells == Keys \cup Values \cup {0}

Arrays(z) == [size  : {z},
              kv    : [0 .. 2 * z - 1 -> Cells],
              next  : [0 .. z - 1 -> EndOfChain .. z - 1],
              hash  : [0 .. z - 1 -> NoEntry .. z - 1],
              count : 0 .. z]

Shaped(s) == s.size \in Nat \ {0} /\ s \in Arrays(s.size)

Home(s, i) == Bucket(s, KeyAt(s, i))

(* The linked entries hold different keys, each with its value.              *)
Listed(s, n) ==
  /\ n \in 0 .. s.size
  /\ \A i \in 0 .. n - 1 : KeyAt(s, i) \in Keys /\ ValueAt(s, i) \in Values
  /\ \A i, j \in 0 .. n - 1 : KeyAt(s, i) = KeyAt(s, j) => i = j

(* A chain leads from an entry to earlier ones, with keys of one bucket.     *)
Descends(s, n) ==
  /\ \A i \in 0 .. s.size - 1 : s.next[i] < i
  /\ \A i \in 0 .. n - 1 : s.next[i] >= 0 => Home(s, s.next[i]) = Home(s, i)
  /\ \A i \in n .. s.size - 1 : s.next[i] = NoEntry
  /\ \A b \in 0 .. s.size - 1 :
       s.hash[b] < n /\ (s.hash[b] >= 0 => Home(s, s.hash[b]) = b)

(* No entry is left out by the links that pass over it.                      *)
Complete(s, n) ==
  /\ \A i \in 0 .. n - 1 : s.hash[Home(s, i)] >= i
  /\ \A i, j \in 0 .. n - 1 :
       j < i /\ Home(s, j) = Home(s, i) => s.next[i] >= j

Chained(s, n) == Listed(s, n) /\ Descends(s, n) /\ Complete(s, n)

LEMMA BucketIs ==
  ASSUME NEW s, s.size \in Nat \ {0}, NEW k \in Keys
  PROVE  Bucket(s, k) \in 0 .. s.size - 1
<1>1. Hash[k] \in Nat
  BY OrderAssumption
<1> QED
  BY <1>1 DEF Bucket

LEMMA ShapedIs ==
  ASSUME NEW s, Shaped(s)
  PROVE  /\ s.size \in Nat /\ s.size > 0
         /\ s.count \in Nat /\ s.count <= s.size
         /\ \A i \in 0 .. s.size - 1 : s.next[i] \in Int /\ s.next[i] >= -2 /\ s.next[i] < s.size
         /\ \A b \in 0 .. s.size - 1 : s.hash[b] \in Int /\ s.hash[b] >= -1 /\ s.hash[b] < s.size
<1>1. /\ s.size \in Nat \ {0} /\ s.count \in 0 .. s.size
      /\ s.next \in [0 .. s.size - 1 -> EndOfChain .. s.size - 1]
      /\ s.hash \in [0 .. s.size - 1 -> NoEntry .. s.size - 1]
  BY DEF Shaped, Arrays
<1> QED
  BY <1>1 DEF EndOfChain, NoEntry

(* Where chains descend, the walk of findNonNullKeyEntry has a value.        *)
LEMMA WalkIs ==
  ASSUME NEW s, Shaped(s), NEW n, Descends(s, n), NEW k
  PROVE  \E W : /\ EntryOf(s, k) = W[s.hash[Bucket(s, k)]]
                /\ \A m \in EndOfChain .. s.size - 1 :
                     W[m] = IF m < 0 THEN NoEntry
                            ELSE IF KeyAt(s, m) = k THEN m ELSE W[s.next[m]]
<1> DEFINE M == EndOfChain .. s.size - 1
           Goes(W, m) == IF m < 0 THEN NoEntry
                         ELSE IF KeyAt(s, m) = k THEN m ELSE W[s.next[m]]
           Walks(W, hi) == /\ W = [m \in EndOfChain .. hi |-> W[m]]
                           /\ \A m \in EndOfChain .. hi : W[m] = Goes(W, m)
           D == {hi \in 0 .. s.size : \E W : Walks(W, hi - 1)}
<1>1. /\ s.size \in Nat
      /\ \A i \in 0 .. s.size - 1 : s.next[i] \in Int /\ s.next[i] >= -2 /\ s.next[i] < i
  BY ShapedIs DEF Descends
<1>2. 0 \in D
  <2> DEFINE W == [m \in EndOfChain .. 0 - 1 |-> NoEntry]
  <2>1. W = [m \in EndOfChain .. 0 - 1 |-> W[m]]
    OBVIOUS
  <2>2. \A m \in EndOfChain .. 0 - 1 : m < 0 /\ W[m] = NoEntry
    BY DEF EndOfChain
  <2> HIDE DEF W
  <2>3. Walks(W, 0 - 1)
    BY <2>1, <2>2
  <2> HIDE DEF Walks
  <2> QED
    BY <1>1, <2>3
<1>3. ASSUME NEW hi \in 1 .. s.size, hi - 1 \in D PROVE hi \in D
  <2>1. PICK W : Walks(W, hi - 1 - 1)
    BY <1>3
  <2>2. hi - 1 \in 0 .. s.size - 1 /\ hi - 1 \in Nat /\ hi \in 0 .. s.size
    BY <1>1
  <2> DEFINE V == [m \in EndOfChain .. hi - 1 |-> IF m = hi - 1 THEN Goes(W, hi - 1) ELSE W[m]]
  <2>3. V = [m \in EndOfChain .. hi - 1 |-> V[m]]
    OBVIOUS
  <2>4. \A m \in EndOfChain .. hi - 1 - 1 : m \in EndOfChain .. hi - 1 /\ V[m] = W[m]
    BY <2>2 DEF EndOfChain
  <2>5. V[hi - 1] = Goes(W, hi - 1) /\ hi - 1 \in EndOfChain .. hi - 1
    BY <2>2 DEF EndOfChain
  <2> HIDE DEF V
  <2>6. ASSUME NEW m \in EndOfChain .. hi - 1 PROVE V[m] = Goes(V, m)
    <3>1. m >= 0 => s.next[m] \in EndOfChain .. hi - 1 - 1
      BY <1>1, <2>2 DEF EndOfChain
    <3>2. Goes(V, m) = Goes(W, m)
      BY <2>4, <3>1, <2>2 DEF EndOfChain
    <3>3. CASE m = hi - 1
      BY <2>5, <3>2, <3>3
    <3>4. CASE m # hi - 1
      <4>1. m \in EndOfChain .. hi - 1 - 1
        BY <2>2, <3>4 DEF EndOfChain
      <4> HIDE DEF Goes
      <4> QED
        BY <2>1, <2>4, <3>2, <4>1
    <3> QED
      BY <3>3, <3>4
  <2>7. Walks(V, hi - 1)
    BY <2>3, <2>6
  <2> HIDE DEF Walks
  <2> QED
    BY <2>2, <2>7
<1> HIDE DEF D
<1>4. s.size \in D
  <2>1. \A m \in 0 .. s.size : m \in D
    BY <1>1, <1>2, <1>3, UpTo
  <2> QED
    BY <1>1, <2>1
<1>5. PICK V : Walks(V, s.size - 1)
  BY <1>4 DEF D
<1>6. V = [m \in M |-> Goes(V, m)]
  BY <1>5
<1> DEFINE W == CHOOSE W : W = [m \in M |-> Goes(W, m)]
<1>7. W = [m \in M |-> Goes(W, m)]
  <2> HIDE DEF Goes
  <2> QED
    BY <1>6
<1>8. EntryOf(s, k) = W[s.hash[Bucket(s, k)]]
  BY DEF EntryOf
<1> HIDE DEF W
<1> QED
  BY <1>7, <1>8

(* A linked entry is found by its key.                                       *)
LEMMA Finds ==
  ASSUME NEW s, Shaped(s), NEW n, Chained(s, n), NEW i \in 0 .. n - 1
  PROVE  EntryOf(s, KeyAt(s, i)) = i
<1> DEFINE k == KeyAt(s, i)
           b == Home(s, i)
<1>1. PICK W : /\ EntryOf(s, k) = W[s.hash[Bucket(s, k)]]
               /\ \A m \in EndOfChain .. s.size - 1 :
                    W[m] = IF m < 0 THEN NoEntry
                           ELSE IF KeyAt(s, m) = k THEN m ELSE W[s.next[m]]
  BY WalkIs DEF Chained
<1>2. n \in Nat /\ n <= s.size /\ s.size \in Nat /\ i \in Nat
  BY ShapedIs DEF Chained, Listed
<1>3. \A m \in 0 .. n - 1 : KeyAt(s, m) = k => m = i
  BY DEF Chained, Listed
<1>4. \A m \in 0 .. n - 1 : s.next[m] \in Int /\ s.next[m] < m
  BY <1>2, ShapedIs DEF Chained, Descends
<1>5. ASSUME NEW m \in i + 1 .. n - 1, Home(s, m) = b
      PROVE  s.next[m] \in i .. m - 1 /\ Home(s, s.next[m]) = b
  <2>1. m \in 0 .. n - 1 /\ i < m
    BY <1>2
  <2>2. s.next[m] >= i
    BY <1>5, <2>1 DEF Chained, Complete
  <2>3. s.next[m] >= 0 => Home(s, s.next[m]) = Home(s, m)
    BY <2>1 DEF Chained, Descends
  <2> HIDE DEF b
  <2> QED
    BY <1>2, <1>4, <1>5, <2>1, <2>2, <2>3
<1> HIDE DEF k, b
<1> DEFINE D == {d \in 0 .. n : \A m \in i .. d - 1 : Home(s, m) = b => W[m] = i}
<1>6. 0 \in D
  BY <1>2
<1>7. ASSUME NEW d \in 1 .. n, d - 1 \in D PROVE d \in D
  <2> SUFFICES ASSUME NEW m \in i .. d - 1, Home(s, m) = b PROVE W[m] = i
    BY <1>2
  <2>1. m \in EndOfChain .. s.size - 1 /\ m \in 0 .. n - 1 /\ ~ (m < 0)
    BY <1>2 DEF EndOfChain
  <2>2. W[m] = IF KeyAt(s, m) = k THEN m ELSE W[s.next[m]]
    BY <1>1, <2>1
  <2>3. CASE m = i
    BY <2>2, <2>3 DEF k
  <2>4. CASE m # i
    <3>1. KeyAt(s, m) # k
      BY <1>3, <2>1, <2>4
    <3>2. s.next[m] \in i .. m - 1 /\ Home(s, s.next[m]) = b
      BY <1>2, <1>5, <2>1, <2>4
    <3>3. s.next[m] \in i .. d - 1 - 1
      BY <1>2, <2>1, <3>2
    <3>4. W[s.next[m]] = i
      BY <1>7, <3>2, <3>3
    <3> QED
      BY <2>2, <3>1, <3>4
  <2> QED
    BY <2>3, <2>4
<1>8. \A m \in i .. n - 1 : Home(s, m) = b => W[m] = i
  <2> HIDE DEF D
  <2>1. \A d \in 0 .. n : d \in D
    BY <1>2, <1>6, <1>7, UpTo
  <2>2. n \in D
    BY <1>2, <2>1
  <2> QED
    BY <2>2 DEF D
<1>9. s.hash[b] \in i .. n - 1 /\ Home(s, s.hash[b]) = b /\ b = Bucket(s, k)
  <2>1. s.hash[b] >= i
    BY DEF Chained, Complete, b
  <2>2. b = Bucket(s, k) /\ k \in Keys
    BY DEF b, k, Home, Chained, Listed
  <2>3. b \in 0 .. s.size - 1
    BY <1>2, <2>2, BucketIs DEF Shaped
  <2>4. s.hash[b] \in Int /\ s.hash[b] < n /\ (s.hash[b] >= 0 => Home(s, s.hash[b]) = b)
    BY <2>3, ShapedIs DEF Chained, Descends
  <2> QED
    BY <1>2, <2>1, <2>2, <2>4
<1> QED
  BY <1>1, <1>8, <1>9 DEF k

(* A key that no linked entry holds is not.                                  *)
LEMMA Misses ==
  ASSUME NEW s, Shaped(s), NEW n, Chained(s, n), NEW k \in Keys,
         \A i \in 0 .. n - 1 : KeyAt(s, i) # k
  PROVE  EntryOf(s, k) = NoEntry
<1>1. PICK W : /\ EntryOf(s, k) = W[s.hash[Bucket(s, k)]]
               /\ \A m \in EndOfChain .. s.size - 1 :
                    W[m] = IF m < 0 THEN NoEntry
                           ELSE IF KeyAt(s, m) = k THEN m ELSE W[s.next[m]]
  BY WalkIs DEF Chained
<1>2. n \in Nat /\ n <= s.size /\ s.size \in Nat /\ s.size > 0
  BY ShapedIs DEF Chained, Listed
<1>3. \A m \in 0 .. n - 1 : s.next[m] \in EndOfChain .. m - 1
  BY <1>2, ShapedIs DEF Chained, Descends, EndOfChain
<1> DEFINE D == {d \in 0 .. n : \A m \in EndOfChain .. d - 1 : W[m] = NoEntry}
<1>4. 0 \in D
  <2>1. \A m \in EndOfChain .. 0 - 1 : m < 0 /\ m \in EndOfChain .. s.size - 1
    BY <1>2 DEF EndOfChain
  <2> QED
    BY <1>1, <1>2, <2>1
<1>5. ASSUME NEW d \in 1 .. n, d - 1 \in D PROVE d \in D
  <2>1. W[d - 1] = NoEntry
    <3>1. d - 1 \in EndOfChain .. s.size - 1 /\ d - 1 \in 0 .. n - 1 /\ ~ (d - 1 < 0)
      BY <1>2 DEF EndOfChain
    <3>2. W[d - 1] = W[s.next[d - 1]]
      BY <1>1, <3>1
    <3>3. s.next[d - 1] \in EndOfChain .. d - 1 - 1
      BY <1>3, <3>1
    <3> QED
      BY <1>5, <3>2, <3>3
  <2>2. \A m \in EndOfChain .. d - 1 : m = d - 1 \/ m \in EndOfChain .. d - 1 - 1
    BY DEF EndOfChain
  <2> QED
    BY <1>5, <2>1, <2>2
<1>6. \A m \in EndOfChain .. n - 1 : W[m] = NoEntry
  <2> HIDE DEF D
  <2>1. \A d \in 0 .. n : d \in D
    BY <1>2, <1>4, <1>5, UpTo
  <2>2. n \in D
    BY <1>2, <2>1
  <2> QED
    BY <2>2 DEF D
<1>7. s.hash[Bucket(s, k)] \in EndOfChain .. n - 1
  <2>1. Bucket(s, k) \in 0 .. s.size - 1
    BY BucketIs DEF Shaped
  <2> QED
    BY <1>2, <2>1, ShapedIs DEF Chained, Descends, EndOfChain
<1> QED
  BY <1>1, <1>6, <1>7

(* What get returns, and whether it finds anything.                          *)
LEMMA Gets ==
  ASSUME NEW s, Shaped(s), NEW n, Chained(s, n), NEW k \in Keys
  PROVE  /\ \A i \in 0 .. n - 1 : KeyAt(s, i) = k =>
              EntryOf(s, k) = i /\ Get(s, k) = ValueAt(s, i)
         /\ (\A i \in 0 .. n - 1 : KeyAt(s, i) # k) =>
              EntryOf(s, k) = NoEntry /\ Get(s, k) = NoValue
<1>1. ASSUME NEW i \in 0 .. n - 1, KeyAt(s, i) = k
      PROVE  EntryOf(s, k) = i /\ Get(s, k) = ValueAt(s, i)
  <2>1. EntryOf(s, k) = i
    BY <1>1, Finds
  <2>2. i # NoEntry
    BY DEF NoEntry, Chained, Listed
  <2> QED
    BY <2>1, <2>2 DEF Get
<1>2. ASSUME \A i \in 0 .. n - 1 : KeyAt(s, i) # k
      PROVE  EntryOf(s, k) = NoEntry /\ Get(s, k) = NoValue
  BY <1>2, Misses DEF Get
<1> QED
  BY <1>1, <1>2

(* Linked entries with the same keys and values make the same map.           *)
LEMMA SameReadings ==
  ASSUME NEW s, Shaped(s), NEW t, Shaped(t),
         NEW n, Chained(s, n), Chained(t, n),
         \A i \in 0 .. n - 1 : KeyAt(t, i) = KeyAt(s, i) /\ ValueAt(t, i) = ValueAt(s, i),
         NEW k \in Keys
  PROVE  Get(t, k) = Get(s, k) /\ EntryOf(t, k) = EntryOf(s, k)
<1>1. CASE \E i \in 0 .. n - 1 : KeyAt(s, i) = k
  BY <1>1, Gets
<1>2. CASE \A i \in 0 .. n - 1 : KeyAt(s, i) # k
  BY <1>2, Gets
<1> QED
  BY <1>1, <1>2

-----------------------------------------------------------------------------
(* What the steps of a put do to the arrays.                                 *)

(* Chains are the same while the keys of the linked entries are.             *)
LEMMA ChainsKept ==
  ASSUME NEW s, NEW t, NEW n, Shaped(s), Chained(s, n),
         t.size = s.size, t.next = s.next, t.hash = s.hash,
         \A i \in 0 .. n - 1 : KeyAt(t, i) = KeyAt(s, i) /\ ValueAt(t, i) \in Values
  PROVE  Chained(t, n)
<1>1. /\ s.size \in Nat /\ n \in Nat /\ n <= s.size
      /\ \A i \in 0 .. n - 1 : s.next[i] < i /\ s.next[i] \in Int
      /\ \A b \in 0 .. s.size - 1 : s.hash[b] < n /\ s.hash[b] \in Int
  BY ShapedIs DEF Chained, Listed, Descends
<1>2. \A i \in 0 .. n - 1 : Home(t, i) = Home(s, i)
  BY DEF Home, Bucket
<1>3. Listed(t, n)
  BY DEF Listed, Chained
<1>4. Descends(t, n)
  <2>1. \A i \in 0 .. n - 1 : s.next[i] >= 0 => Home(t, s.next[i]) = Home(t, i)
    BY <1>1, <1>2 DEF Chained, Descends
  <2>2. \A b \in 0 .. s.size - 1 :
          s.hash[b] < n /\ (s.hash[b] >= 0 => Home(t, s.hash[b]) = b)
    BY <1>1, <1>2 DEF Chained, Descends
  <2> QED
    BY <2>1, <2>2 DEF Descends, Chained
<1>5. Complete(t, n)
  BY <1>2 DEF Complete, Chained
<1> QED
  BY <1>3, <1>4, <1>5 DEF Chained

LEMMA FilledIs ==
  ASSUME NEW s, Shaped(s), NEW n, Chained(s, n),
         NEW i \in n .. s.size - 1, NEW k \in Keys, NEW v \in Values
  PROVE  LET t == Filled(s, i, k, v) IN
         /\ Shaped(t) /\ Chained(t, n)
         /\ t.size = s.size /\ t.count = s.count
         /\ KeyAt(t, i) = k /\ ValueAt(t, i) = v
         /\ \A j \in 0 .. n - 1 : KeyAt(t, j) = KeyAt(s, j) /\ ValueAt(t, j) = ValueAt(s, j)
<1> DEFINE t == Filled(s, i, k, v)
<1>1. s \in Arrays(s.size) /\ s.size \in Nat /\ n \in Nat /\ n <= s.size
  BY ShapedIs DEF Shaped, Chained, Listed
<1>2. /\ t.size = s.size /\ t.count = s.count /\ t.next = s.next /\ t.hash = s.hash
      /\ t.kv = [s.kv EXCEPT ![2 * i] = k, ![2 * i + 1] = v]
      /\ t \in Arrays(s.size)
  <2>1. [s.kv EXCEPT ![2 * i] = k, ![2 * i + 1] = v] \in [0 .. 2 * s.size - 1 -> Cells]
    BY <1>1 DEF Arrays, Cells
  <2> QED
    BY <1>1, <2>1 DEF Filled, Arrays
<1> HIDE DEF t
<1>3. KeyAt(t, i) = k /\ ValueAt(t, i) = v
  BY <1>1, <1>2 DEF KeyAt, ValueAt, Arrays
<1>4. ASSUME NEW j \in 0 .. n - 1
      PROVE  KeyAt(t, j) = KeyAt(s, j) /\ ValueAt(t, j) = ValueAt(s, j)
  <2>1. /\ 2 * j \in 0 .. 2 * s.size - 1 /\ 2 * j + 1 \in 0 .. 2 * s.size - 1
        /\ 2 * j # 2 * i /\ 2 * j # 2 * i + 1
        /\ 2 * j + 1 # 2 * i /\ 2 * j + 1 # 2 * i + 1
    BY <1>1
  <2>2. DOMAIN s.kv = 0 .. 2 * s.size - 1
    BY <1>1 DEF Arrays
  <2>3. t.kv[2 * j] = s.kv[2 * j] /\ t.kv[2 * j + 1] = s.kv[2 * j + 1]
    BY <1>2, <2>1, <2>2
  <2> QED
    BY <2>3 DEF KeyAt, ValueAt
<1>5. Chained(t, n)
  <2>1. \A j \in 0 .. n - 1 : KeyAt(t, j) = KeyAt(s, j) /\ ValueAt(t, j) \in Values
    BY <1>4 DEF Chained, Listed
  <2> QED
    BY <1>2, <2>1, ChainsKept
<1> QED
  BY <1>2, <1>3, <1>4, <1>5 DEF Shaped, t

(* A new entry is linked: one more is.                                       *)
LEMMA LinkedIs ==
  ASSUME NEW s, Shaped(s), NEW n, Chained(s, n), n < s.size,
         KeyAt(s, n) \in Keys, ValueAt(s, n) \in Values,
         \A i \in 0 .. n - 1 : KeyAt(s, i) # KeyAt(s, n),
         NEW last \in {NoEntry, EndOfChain}
  PROVE  LET t == Linked(s, n, last) IN
         /\ Shaped(t) /\ Chained(t, n + 1)
         /\ t.size = s.size /\ t.count = s.count /\ t.kv = s.kv
<1> DEFINE t == Linked(s, n, last)
           b == Home(s, n)
           past == IF s.hash[b] # NoEntry THEN s.hash[b] ELSE last
<1>1. /\ s \in Arrays(s.size) /\ s.size \in Nat \ {0}
      /\ n \in Nat /\ n < s.size /\ n \in 0 .. s.size - 1
  BY ShapedIs DEF Shaped, Chained, Listed
<1>2. b \in 0 .. s.size - 1 /\ b = Bucket(s, KeyAt(s, n))
  BY <1>1, BucketIs DEF Home
<1>3. /\ s.hash[b] \in Int /\ s.hash[b] >= -1 /\ s.hash[b] < n
      /\ s.hash[b] >= 0 => Home(s, s.hash[b]) = b
  BY <1>2, ShapedIs DEF Chained, Descends
<1>4. past \in Int /\ past >= -2 /\ past < n /\ (past >= 0 => Home(s, past) = b)
  BY <1>1, <1>3 DEF NoEntry, EndOfChain
<1>5. /\ t.size = s.size /\ t.count = s.count /\ t.kv = s.kv
      /\ t.next = [s.next EXCEPT ![n] = past]
      /\ t.hash = [s.hash EXCEPT ![b] = n]
      /\ t \in Arrays(s.size)
  <2>1. [s.next EXCEPT ![n] = past] \in [0 .. s.size - 1 -> EndOfChain .. s.size - 1]
    <3>1. past \in EndOfChain .. s.size - 1
      BY <1>1, <1>4 DEF EndOfChain
    <3>2. s.next \in [0 .. s.size - 1 -> EndOfChain .. s.size - 1]
      BY <1>1 DEF Arrays
    <3> HIDE DEF past
    <3> QED
      BY <3>1, <3>2
  <2>2. [s.hash EXCEPT ![b] = n] \in [0 .. s.size - 1 -> NoEntry .. s.size - 1]
    <3>1. n \in NoEntry .. s.size - 1
      BY <1>1 DEF NoEntry
    <3>2. s.hash \in [0 .. s.size - 1 -> NoEntry .. s.size - 1]
      BY <1>1 DEF Arrays
    <3> QED
      BY <3>1, <3>2
  <2>3. t = [s EXCEPT !.next[n] = past, !.hash[b] = n]
    BY <1>2 DEF Linked
  <2> HIDE DEF t, past, b
  <2> QED
    BY <1>1, <2>1, <2>2, <2>3 DEF Arrays
<1>6. /\ t.next[n] = past /\ t.hash[b] = n
      /\ \A i \in 0 .. s.size - 1 : i # n => t.next[i] = s.next[i]
      /\ \A c \in 0 .. s.size - 1 : c # b => t.hash[c] = s.hash[c]
  <2>1. DOMAIN s.next = 0 .. s.size - 1 /\ DOMAIN s.hash = 0 .. s.size - 1
    BY <1>1 DEF Arrays
  <2> HIDE DEF t, past, b
  <2> QED
    BY <1>1, <1>2, <1>5, <2>1
<1> HIDE DEF t, past
<1>7. \A i : KeyAt(t, i) = KeyAt(s, i) /\ ValueAt(t, i) = ValueAt(s, i) /\ Home(t, i) = Home(s, i)
  BY <1>5 DEF KeyAt, ValueAt, Home, Bucket
<1> HIDE DEF b
<1>8. Home(t, n) = b
  BY <1>7 DEF b
<1>9. \A i \in 0 .. n : i = n \/ i \in 0 .. n - 1
  BY <1>1
<1>10. Listed(t, n + 1)
  <2>1. \A i \in 0 .. n : KeyAt(t, i) \in Keys /\ ValueAt(t, i) \in Values
    BY <1>7, <1>9 DEF Chained, Listed
  <2>2. \A i, j \in 0 .. n : KeyAt(t, i) = KeyAt(t, j) => i = j
    BY <1>7, <1>9 DEF Chained, Listed
  <2> QED
    BY <1>1, <1>5, <2>1, <2>2 DEF Listed
<1>11. Descends(t, n + 1)
  <2>1. \A i \in 0 .. s.size - 1 : t.next[i] < i
    BY <1>4, <1>6 DEF Chained, Descends
  <2>2. \A i \in 0 .. n : t.next[i] >= 0 => Home(t, t.next[i]) = Home(t, i)
    BY <1>1, <1>4, <1>6, <1>7, <1>8, <1>9 DEF Chained, Descends
  <2>3. \A i \in n + 1 .. s.size - 1 : t.next[i] = NoEntry
    BY <1>1, <1>6 DEF Chained, Descends
  <2>4. ASSUME NEW c \in 0 .. s.size - 1
        PROVE  t.hash[c] < n + 1 /\ (t.hash[c] >= 0 => Home(t, t.hash[c]) = c)
    <3>1. CASE c = b
      BY <1>1, <1>6, <1>8, <3>1
    <3>2. CASE c # b
      <4>1. /\ t.hash[c] = s.hash[c] /\ s.hash[c] \in Int
            /\ s.hash[c] < n /\ (s.hash[c] >= 0 => Home(s, s.hash[c]) = c)
        BY <1>6, <3>2, ShapedIs DEF Chained, Descends
      <4> QED
        BY <1>1, <1>7, <4>1
    <3> QED
      BY <3>1, <3>2
  <2> QED
    BY <1>1, <1>5, <2>1, <2>2, <2>3, <2>4 DEF Descends
<1>12. Complete(t, n + 1)
  <2>1. ASSUME NEW i \in 0 .. n PROVE t.hash[Home(t, i)] >= i
    <3>1. CASE Home(s, i) = b
      BY <1>1, <1>6, <1>7, <3>1
    <3>2. CASE Home(s, i) # b
      <4>1. i \in 0 .. n - 1
        BY <1>7, <1>8, <1>9, <3>2
      <4>2. Home(s, i) \in 0 .. s.size - 1
        BY <1>1, <4>1, BucketIs DEF Home, Chained, Listed
      <4> QED
        BY <1>6, <1>7, <3>2, <4>1, <4>2 DEF Chained, Complete
    <3> QED
      BY <3>1, <3>2
  <2>2. ASSUME NEW i \in 0 .. n, NEW j \in 0 .. n, j < i, Home(t, j) = Home(t, i)
        PROVE  t.next[i] >= j
    <3>1. j \in 0 .. n - 1
      BY <1>1, <2>2
    <3>2. CASE i = n
      <4>1. s.hash[b] >= j
        BY <1>7, <1>8, <2>2, <3>1, <3>2 DEF Chained, Complete
      <4> QED
        BY <1>3, <1>6, <3>1, <3>2, <4>1 DEF past, NoEntry
    <3>3. CASE i # n
      BY <1>1, <1>6, <1>7, <1>9, <2>2, <3>1, <3>3 DEF Chained, Complete
    <3> QED
      BY <3>2, <3>3
  <2> QED
    BY <1>1, <2>1, <2>2 DEF Complete
<1> QED
  BY <1>1, <1>5, <1>10, <1>11, <1>12 DEF Shaped, Chained, t

(* New arrays, in which nothing is linked.                                   *)
LEMMA BlankIs ==
  ASSUME NEW z \in Nat \ {0}
  PROVE  /\ Blank(z) \in Arrays(z) /\ Blank(z).count = 0
         /\ \A i \in 0 .. z - 1 : Blank(z).next[i] = NoEntry /\ Blank(z).hash[i] = NoEntry
<1> DEFINE zs == [x \in 0 .. 2 * z - 1 |-> 0]
           nx == [i \in 0 .. z - 1 |-> NoEntry]
           hs == [b \in 0 .. z - 1 |-> NoEntry]
<1>1. Blank(z) = [size |-> z, kv |-> zs, next |-> nx, hash |-> hs, count |-> 0]
  BY DEF Blank
<1>2. /\ zs \in [0 .. 2 * z - 1 -> Cells]
      /\ nx \in [0 .. z - 1 -> EndOfChain .. z - 1]
      /\ hs \in [0 .. z - 1 -> NoEntry .. z - 1]
  BY DEF NoEntry, EndOfChain, Cells
<1>3. \A i \in 0 .. z - 1 : nx[i] = NoEntry /\ hs[i] = NoEntry
  OBVIOUS
<1> HIDE DEF zs, nx, hs
<1> QED
  BY <1>1, <1>2, <1>3 DEF Arrays

LEMMA UnlinkedIs ==
  ASSUME NEW z \in Nat \ {0}, NEW t \in Arrays(z),
         t.next = Blank(z).next, t.hash = Blank(z).hash
  PROVE  Shaped(t) /\ Chained(t, 0) /\ t.size = z
<1>1. t.size = z
  BY DEF Arrays
<1>2. \A i \in 0 .. z - 1 : t.next[i] = NoEntry /\ t.hash[i] = NoEntry
  BY BlankIs
<1>3. Listed(t, 0) /\ Complete(t, 0)
  BY <1>1 DEF Listed, Complete
<1>4. Descends(t, 0)
  BY <1>1, <1>2 DEF Descends, NoEntry
<1> QED
  BY <1>1, <1>3, <1>4 DEF Shaped, Chained

(* rehashCapacity links every entry again and loses none.                    *)
LEMMA GrownIs ==
  ASSUME NEW s, Shaped(s), Chained(s, s.count),
         \A i \in 0 .. s.count - 1 : s.next[i] # NoEntry
  PROVE  LET t == Grown(Counted(s)) IN
         /\ Shaped(t) /\ Chained(t, s.count)
         /\ t.size = 2 * s.size /\ t.count = s.count + 1
         /\ \A i \in 0 .. s.count - 1 : KeyAt(t, i) = KeyAt(s, i) /\ ValueAt(t, i) = ValueAt(s, i)
<1> DEFINE q == Counted(s)
           c == s.count
           z == 2 * s.size
           kv == [x \in 0 .. 2 * z - 1 |-> IF x \in DOMAIN s.kv THEN s.kv[x] ELSE 0]
           bigger == [Blank(2 * q.size) EXCEPT
                         !.count = q.count,
                         !.kv = [x \in DOMAIN @ |-> IF x \in DOMAIN q.kv THEN q.kv[x] ELSE 0]]
           Goes(R, n) == IF n = 0 THEN bigger
                         ELSE IF q.next[n - 1] = NoEntry THEN R[n - 1]
                         ELSE Linked(R[n - 1], n - 1, EndOfChain)
           R == CHOOSE R : R = [n \in 0 .. q.size |-> Goes(R, n)]
           Low(n) == IF n <= c THEN n ELSE c
           good == [n \in 0 .. s.size |->
                      {t \in Arrays(z) : t.count = c + 1 /\ t.kv = kv /\ Chained(t, Low(n))}]
           step == [n \in 1 .. s.size |-> [t \in good[n - 1] |->
                      IF s.next[n - 1] = NoEntry THEN t ELSE Linked(t, n - 1, EndOfChain)]]
<1>0. Grown(q) = R[q.size]
  <2> HIDE DEF q
  <2> QED
    BY DEF Grown
<1> HIDE DEF R
<1>1. /\ s \in Arrays(s.size) /\ s.size \in Nat \ {0} /\ c \in 0 .. s.size
      /\ DOMAIN s.kv = 0 .. 2 * s.size - 1
      /\ \A x \in 0 .. 2 * s.size - 1 : s.kv[x] \in Cells
  BY DEF Shaped, Arrays
<1>2. z \in Nat \ {0} /\ c + 1 \in 0 .. z
  BY <1>1
<1>3. kv \in [0 .. 2 * z - 1 -> Cells]
  BY <1>1 DEF Cells
<1>4. \A t : t.kv = kv => \A i \in 0 .. c - 1 :
        KeyAt(t, i) = KeyAt(s, i) /\ ValueAt(t, i) = ValueAt(s, i)
  <2>1. ASSUME NEW i \in 0 .. c - 1
        PROVE  kv[2 * i] = s.kv[2 * i] /\ kv[2 * i + 1] = s.kv[2 * i + 1]
    <3>1. /\ 2 * i \in 0 .. 2 * s.size - 1 /\ 2 * i + 1 \in 0 .. 2 * s.size - 1
          /\ 2 * i \in 0 .. 2 * z - 1 /\ 2 * i + 1 \in 0 .. 2 * z - 1
      BY <1>1
    <3> QED
      BY <1>1, <3>1
  <2> HIDE DEF kv
  <2> QED
    BY <2>1 DEF KeyAt, ValueAt
<1>5. q.size = s.size /\ q.kv = s.kv /\ q.next = s.next /\ q.count = c + 1
  BY <1>1 DEF Counted, Arrays
<1> HIDE DEF q
<1>6. bigger \in good[0]
  <2>1. DOMAIN Blank(z).kv = 0 .. 2 * z - 1
    BY DEF Blank
  <2>2. bigger = [Blank(z) EXCEPT !.count = c + 1, !.kv = kv]
    BY <1>5, <2>1 DEF kv
  <2> HIDE DEF bigger, z, c, kv
  <2>3. /\ bigger \in Arrays(z) /\ bigger.count = c + 1 /\ bigger.kv = kv
        /\ bigger.next = Blank(z).next /\ bigger.hash = Blank(z).hash
    <3>1. Blank(z) \in Arrays(z)
      BY <1>2, BlankIs
    <3> QED
      BY <1>2, <1>3, <2>2, <3>1 DEF Arrays
  <2>4. Chained(bigger, 0)
    BY <1>2, <2>3, UnlinkedIs
  <2>5. Low(0) = 0 /\ 0 \in 0 .. s.size
    BY <1>1 DEF c
  <2> HIDE DEF Low
  <2> QED
    BY <2>3, <2>4, <2>5
<1> HIDE DEF kv, bigger
<1>7. ASSUME NEW n \in 1 .. s.size, NEW t \in good[n - 1]
      PROVE  (IF s.next[n - 1] = NoEntry THEN t ELSE Linked(t, n - 1, EndOfChain)) \in good[n]
  <2>1. /\ t \in Arrays(z) /\ t.count = c + 1 /\ t.kv = kv /\ Chained(t, Low(n - 1))
        /\ n - 1 \in 0 .. s.size - 1 /\ n - 1 \in 0 .. s.size /\ n \in 0 .. s.size
    BY <1>1
  <2>2. t.size = z /\ Shaped(t)
    BY <1>2, <2>1 DEF Shaped, Arrays
  <2>3. CASE n <= c
    <3>1. Low(n - 1) = n - 1 /\ Low(n) = n /\ n - 1 \in 0 .. c - 1
      BY <1>1, <2>3
    <3>2. s.next[n - 1] # NoEntry
      BY <3>1
    <3>3. /\ n - 1 < t.size /\ KeyAt(t, n - 1) \in Keys /\ ValueAt(t, n - 1) \in Values
          /\ \A i \in 0 .. n - 1 - 1 : KeyAt(t, i) # KeyAt(t, n - 1)
      <4>1. \A i \in 0 .. c - 1 : KeyAt(t, i) = KeyAt(s, i) /\ ValueAt(t, i) = ValueAt(s, i)
        BY <1>4, <2>1
      <4>2. \A i \in 0 .. n - 1 - 1 : i \in 0 .. c - 1 /\ i # n - 1
        BY <1>1, <3>1
      <4>3. n - 1 < t.size
        BY <1>1, <2>1, <2>2
      <4> QED
        BY <3>1, <4>1, <4>2, <4>3 DEF Chained, Listed
    <3>4. LET u == Linked(t, n - 1, EndOfChain) IN
          /\ Shaped(u) /\ Chained(u, n - 1 + 1)
          /\ u.size = t.size /\ u.count = t.count /\ u.kv = t.kv
      BY <2>1, <2>2, <3>1, <3>3, LinkedIs
    <3>5. n - 1 + 1 = n
      OBVIOUS
    <3> QED
      BY <2>1, <2>2, <3>1, <3>2, <3>4, <3>5 DEF Shaped
  <2>4. CASE ~ (n <= c)
    <3>1. Low(n - 1) = c /\ Low(n) = c /\ n - 1 \in c .. s.size - 1
      BY <1>1, <2>4
    <3>2. s.next[n - 1] = NoEntry
      BY <3>1 DEF Chained, Descends
    <3> QED
      BY <2>1, <3>1, <3>2
  <2> QED
    BY <2>3, <2>4
<1>8. \A n \in 1 .. s.size : n - 1 \in 0 .. s.size /\ n \in 0 .. s.size /\ n # 0
  BY <1>1
<1>9. \A n \in 1 .. s.size : \A t \in good[n - 1] :
        step[n][t] = (IF s.next[n - 1] = NoEntry THEN t ELSE Linked(t, n - 1, EndOfChain))
  <2> HIDE DEF good
  <2> QED
    OBVIOUS
<1> HIDE DEF good, step
<1>10. PICK f : Steps(f, s.size, good, bigger, step)
  <2>1. \A n \in 1 .. s.size : \A t \in good[n - 1] : step[n][t] \in good[n]
    BY <1>7, <1>9
  <2>2. s.size \in Nat
    BY <1>1
  <2> QED
    BY <1>6, <2>1, <2>2, StepsExist
<1>11. f = [n \in 0 .. s.size |-> Goes(f, n)]
  <2>1. ASSUME NEW n \in 0 .. s.size PROVE f[n] = Goes(f, n)
    <3>1. CASE n = 0
      BY <1>10, <3>1 DEF Steps
    <3>2. CASE n # 0
      <4>1. n \in 1 .. s.size /\ f[n - 1] \in good[n - 1]
        BY <1>8, <1>10, <3>2 DEF Steps
      <4> QED
        BY <1>5, <1>9, <1>10, <3>2, <4>1 DEF Steps
    <3> QED
      BY <3>1, <3>2
  <2> HIDE DEF Goes
  <2> QED
    BY <1>10, <2>1 DEF Steps
<1>12. R = [n \in 0 .. s.size |-> Goes(R, n)]
  <2> HIDE DEF Goes
  <2> QED
    BY <1>5, <1>11 DEF R
<1>13. \A n \in 0 .. s.size : n \in {m \in 0 .. s.size : R[m] \in good[m]}
  <2> DEFINE D == {m \in 0 .. s.size : R[m] \in good[m]}
  <2>1. 0 \in D
    <3>1. R[0] = bigger /\ 0 \in 0 .. s.size
      BY <1>1, <1>12
    <3> QED
      BY <1>6, <3>1
  <2>2. ASSUME NEW n \in 1 .. s.size, n - 1 \in D PROVE n \in D
    <3>1. R[n] = (IF s.next[n - 1] = NoEntry THEN R[n - 1]
                  ELSE Linked(R[n - 1], n - 1, EndOfChain))
      BY <1>5, <1>8, <1>12
    <3>2. R[n - 1] \in good[n - 1]
      BY <2>2
    <3>3. R[n] \in good[n]
      BY <1>7, <3>1, <3>2
    <3> QED
      BY <1>8, <3>3
  <2> HIDE DEF D
  <2>3. \A n \in 0 .. s.size : n \in D
    BY <1>1, <2>1, <2>2, UpTo
  <2> QED
    BY <2>3 DEF D
<1>14. R[s.size] \in good[s.size] /\ Low(s.size) = c
  <2>1. s.size \in 0 .. s.size /\ Low(s.size) = c
    BY <1>1
  <2> HIDE DEF Low
  <2> QED
    BY <1>13, <2>1
<1> DEFINE t == R[s.size]
<1>15. t \in Arrays(z) /\ t.count = c + 1 /\ t.kv = kv /\ Chained(t, c)
  <2>1. s.size \in 0 .. s.size
    BY <1>1
  <2> HIDE DEF Low
  <2> QED
    BY <1>14, <2>1 DEF good
<1> HIDE DEF t
<1>16. t.size = z /\ Shaped(t)
  BY <1>2, <1>15 DEF Shaped, Arrays
<1> QED
  <2>1. Grown(Counted(s)) = t
    BY <1>0, <1>5 DEF q, t
  <2> QED
    BY <1>4, <1>15, <1>16, <2>1

-----------------------------------------------------------------------------
(* What a save writes and a load reads.                                      *)

(* The pairs p are those of the first n entries.                             *)
Mirrors(p, s, n) ==
  /\ p \in Seq(Keys \X Values) /\ Len(p) = n
  /\ \A i \in 0 .. n - 1 : p[i + 1][1] = KeyAt(s, i) /\ p[i + 1][2] = ValueAt(s, i)

OneEach(p) == \A i, j \in 1 .. Len(p) : p[i][1] = p[j][1] => i = j

(* A loaded chunk has the pairs that were saved, linked.                     *)
LEMMA LoadedIs ==
  ASSUME NEW p \in Seq(Keys \X Values), p # <<>>, OneEach(p)
  PROVE  LET t == Loaded(p) IN
         /\ Shaped(t) /\ Chained(t, Len(p))
         /\ t.count = Len(p) /\ Mirrors(p, t, Len(p))
<1> DEFINE L == Len(p)
           z == 2 * Len(p)
           start == [Blank(IF p = <<>> THEN 1 ELSE 2 * Len(p)) EXCEPT !.count = Len(p)]
           Read(s, n) == Linked(Filled(s, n - 1, p[n][1], p[n][2]), n - 1, NoEntry)
           Goes(R, n) == IF n = 0 THEN start ELSE Read(R[n - 1], n)
           R == CHOOSE R : R = [n \in 0 .. Len(p) |-> Goes(R, n)]
           Has(t, n) == \A i \in 0 .. n - 1 :
                          p[i + 1][1] = KeyAt(t, i) /\ p[i + 1][2] = ValueAt(t, i)
           good == [n \in 0 .. L |->
                      {t \in Arrays(z) : t.count = L /\ Chained(t, n) /\ Has(t, n)}]
           step == [n \in 1 .. L |-> [t \in good[n - 1] |-> Read(t, n)]]
<1>1. Loaded(p) = R[Len(p)]
  BY DEF Loaded
<1> HIDE DEF R
<1>2. /\ L \in Nat \ {0} /\ z \in Nat \ {0} /\ L <= z /\ L \in 0 .. z
      /\ \A n \in 1 .. L : p[n] \in Keys \X Values
  <2>1. L \in Nat /\ (L = 0 => p = <<>>) /\ \A n \in 1 .. L : p[n] \in Keys \X Values
    OBVIOUS
  <2> QED
    BY <2>1
<1>3. \A n \in 1 .. L : p[n][1] \in Keys /\ p[n][2] \in Values
  BY <1>2
<1>4. start \in good[0]
  <2>1. start = [Blank(z) EXCEPT !.count = L]
    OBVIOUS
  <2>2. 0 \in 0 .. L /\ Has(start, 0)
    BY <1>2
  <2> HIDE DEF start, z, L
  <2>3. /\ start \in Arrays(z) /\ start.count = L
        /\ start.next = Blank(z).next /\ start.hash = Blank(z).hash
    <3>1. Blank(z) \in Arrays(z)
      BY <1>2, BlankIs
    <3> QED
      BY <1>2, <2>1, <3>1 DEF Arrays
  <2>4. Chained(start, 0)
    BY <1>2, <2>3, UnlinkedIs
  <2> HIDE DEF Has
  <2> QED
    BY <2>2, <2>3, <2>4
<1> HIDE DEF start
<1>5. ASSUME NEW n \in 1 .. L, NEW t \in good[n - 1] PROVE Read(t, n) \in good[n]
  <2> DEFINE u == Filled(t, n - 1, p[n][1], p[n][2])
             v == Linked(u, n - 1, NoEntry)
  <2>1. /\ n - 1 \in 0 .. L /\ n \in 0 .. L /\ n - 1 \in 0 .. L - 1
        /\ n - 1 \in Nat /\ n - 1 + 1 = n
    BY <1>2
  <2>2. t \in Arrays(z) /\ t.count = L /\ Chained(t, n - 1) /\ Has(t, n - 1)
    BY <2>1
  <2>3. Shaped(t) /\ t.size = z /\ n - 1 \in n - 1 .. t.size - 1
    BY <1>2, <2>1, <2>2 DEF Shaped, Arrays
  <2>4. p[n][1] \in Keys /\ p[n][2] \in Values
    BY <1>3
  <2>5. /\ Shaped(u) /\ Chained(u, n - 1)
        /\ u.size = z /\ u.count = L
        /\ KeyAt(u, n - 1) = p[n][1] /\ ValueAt(u, n - 1) = p[n][2]
        /\ \A j \in 0 .. n - 1 - 1 :
             KeyAt(u, j) = KeyAt(t, j) /\ ValueAt(u, j) = ValueAt(t, j)
    <3> DEFINE m == n - 1
               k == p[n][1]
               x == p[n][2]
    <3>1. /\ m \in m .. t.size - 1 /\ k \in Keys /\ x \in Values
          /\ Shaped(t) /\ Chained(t, m)
      BY <2>2, <2>3, <2>4
    <3> HIDE DEF m, k, x, Has, z, L
    <3>2. LET w == Filled(t, m, k, x) IN
          /\ Shaped(w) /\ Chained(w, m)
          /\ w.size = t.size /\ w.count = t.count
          /\ KeyAt(w, m) = k /\ ValueAt(w, m) = x
          /\ \A j \in 0 .. m - 1 :
               KeyAt(w, j) = KeyAt(t, j) /\ ValueAt(w, j) = ValueAt(t, j)
      BY <3>1, FilledIs
    <3> QED
      BY <2>2, <2>3, <3>2 DEF m, k, x
  <2> HIDE DEF u
  <2>6. \A j \in 0 .. n - 1 - 1 : KeyAt(u, j) = p[j + 1][1] /\ ValueAt(u, j) = p[j + 1][2]
    BY <2>2, <2>5
  <2>7. \A j \in 0 .. n - 1 - 1 : KeyAt(u, j) # KeyAt(u, n - 1)
    <3>1. ASSUME NEW j \in 0 .. n - 1 - 1 PROVE p[j + 1][1] # p[n][1]
      <4>1. j + 1 \in 1 .. L /\ j + 1 # n
        BY <2>1
      <4> QED
        BY <4>1 DEF OneEach
    <3> QED
      BY <2>5, <2>6, <3>1
  <2>8. /\ Shaped(v) /\ Chained(v, n - 1 + 1)
        /\ v.size = u.size /\ v.count = u.count /\ v.kv = u.kv
    <3>1. n - 1 < u.size
      BY <2>3, <2>5
    <3> QED
      BY <2>4, <2>5, <2>7, <3>1, LinkedIs
  <2> HIDE DEF v
  <2>9. Has(v, n)
    <3>1. \A j : KeyAt(v, j) = KeyAt(u, j) /\ ValueAt(v, j) = ValueAt(u, j)
      BY <2>8 DEF KeyAt, ValueAt
    <3>2. ASSUME NEW j \in 0 .. n - 1
          PROVE  p[j + 1][1] = KeyAt(v, j) /\ p[j + 1][2] = ValueAt(v, j)
      <4>1. CASE j = n - 1
        BY <2>1, <2>5, <3>1, <4>1
      <4>2. CASE j # n - 1
        <5>1. j \in 0 .. n - 1 - 1
          BY <2>1, <4>2
        <5> QED
          BY <2>6, <3>1, <5>1
      <4> QED
        BY <4>1, <4>2
    <3> QED
      BY <3>2
  <2>10. v \in good[n]
    <3> HIDE DEF Has
    <3>1. v \in Arrays(z) /\ v.count = L /\ Chained(v, n)
      BY <2>1, <2>5, <2>8 DEF Shaped
    <3> QED
      BY <2>1, <2>9, <3>1
  <2> QED
    BY <2>10 DEF v, u
<1>6. \A n \in 1 .. L : n - 1 \in 0 .. L /\ n \in 0 .. L /\ n # 0
  BY <1>2
<1> HIDE DEF Read
<1>7. \A n \in 1 .. L : \A t \in good[n - 1] : step[n][t] = Read(t, n)
  <2> HIDE DEF good
  <2> QED
    OBVIOUS
<1>8. L \in 0 .. L /\ good[L] = {t \in Arrays(z) : t.count = L /\ Chained(t, L) /\ Has(t, L)}
  <2> HIDE DEF Has
  <2> QED
    BY <1>2
<1> HIDE DEF good, step
<1>9. PICK f : Steps(f, L, good, start, step)
  <2>1. \A n \in 1 .. L : \A t \in good[n - 1] : step[n][t] \in good[n]
    BY <1>5, <1>7
  <2>2. L \in Nat
    BY <1>2
  <2> QED
    BY <1>4, <2>1, <2>2, StepsExist
<1>10. f = [n \in 0 .. L |-> Goes(f, n)]
  <2>1. ASSUME NEW n \in 0 .. L PROVE f[n] = Goes(f, n)
    <3>1. CASE n = 0
      BY <1>9, <3>1 DEF Steps
    <3>2. CASE n # 0
      <4>1. n \in 1 .. L /\ f[n - 1] \in good[n - 1]
        BY <1>6, <1>9, <3>2 DEF Steps
      <4> QED
        BY <1>7, <1>9, <3>2, <4>1 DEF Steps
    <3> QED
      BY <3>1, <3>2
  <2> HIDE DEF Goes
  <2> QED
    BY <1>9, <2>1 DEF Steps
<1>11. R = [n \in 0 .. L |-> Goes(R, n)]
  <2> HIDE DEF Goes
  <2> QED
    BY <1>10 DEF R
<1> DEFINE D == {m \in 0 .. L : R[m] \in good[m]}
<1>12. 0 \in D
  <2>1. R[0] = start /\ 0 \in 0 .. L
    BY <1>2, <1>11
  <2> QED
    BY <1>4, <2>1
<1>13. ASSUME NEW n \in 1 .. L, n - 1 \in D PROVE n \in D
  <2>1. R[n] = Read(R[n - 1], n)
    BY <1>6, <1>11
  <2>2. R[n - 1] \in good[n - 1]
    BY <1>13
  <2>3. R[n] \in good[n]
    BY <1>5, <2>1, <2>2
  <2> QED
    BY <1>6, <2>3
<1>14. R[L] \in good[L]
  <2> HIDE DEF D
  <2>1. \A n \in 0 .. L : n \in D
    BY <1>2, <1>12, <1>13, UpTo
  <2> QED
    BY <1>8, <2>1 DEF D
<1> DEFINE t == R[L]
<1>15. t \in Arrays(z) /\ t.count = L /\ Chained(t, L) /\ Has(t, L)
  <2> HIDE DEF Has
  <2> QED
    BY <1>8, <1>14
<1> HIDE DEF t
<1>16. Shaped(t)
  BY <1>2, <1>15 DEF Shaped, Arrays
<1> QED
  BY <1>1, <1>15, <1>16 DEF Mirrors, t

-----------------------------------------------------------------------------
(* The invariant: all entries but the one a put is busy with are linked, and *)
(* a map that is not dirty is what was saved, entry by entry.                *)

Settled == IF putting = NoPut THEN state.count ELSE state.count - 1

IInv ==
  /\ Shaped(state) /\ Chained(state, Settled)
  /\ putting \in {NoPut} \cup [key : Keys, value : Values]
  /\ putting # NoPut => \A i \in 0 .. Settled - 1 : KeyAt(state, i) # putting.key
  /\ magic \in Nat /\ dirty \in BOOLEAN
  /\ stored \in Seq(Keys \X Values) /\ OneEach(stored)
  /\ ~dirty => Mirrors(stored, state, Settled)

(* The same entries are linked, with the same keys and values.               *)
Kept ==
  /\ Settled' = Settled
  /\ \A i \in 0 .. Settled - 1 :
       KeyAt(state', i) = KeyAt(state, i) /\ ValueAt(state', i) = ValueAt(state, i)

LEMMA SettledIs ==
  ASSUME IInv
  PROVE  /\ Settled \in Nat /\ Settled <= state.size
         /\ state.size \in Nat \ {0} /\ state \in Arrays(state.size)
         /\ state.count \in Nat /\ state.count <= state.size
         /\ state.count = IF putting = NoPut THEN Settled ELSE Settled + 1
<1>1. Settled \in Nat /\ Settled <= state.size
  BY ShapedIs DEF IInv, Chained, Listed
<1>2. state.count \in Nat /\ state.count <= state.size
  BY ShapedIs DEF IInv
<1>3. Shaped(state)
  BY DEF IInv
<1> QED
  BY <1>1, <1>2, <1>3 DEF Settled, Shaped

LEMMA MirrorsKept ==
  ASSUME NEW p, NEW s, NEW t, NEW n, Mirrors(p, s, n),
         \A i \in 0 .. n - 1 : KeyAt(t, i) = KeyAt(s, i) /\ ValueAt(t, i) = ValueAt(s, i)
  PROVE  Mirrors(p, t, n)
BY DEF Mirrors

(* A step that keeps the linked entries, saved or not, keeps the invariant.  *)
LEMMA KeptIsInv ==
  ASSUME IInv, Kept, Shaped(state'), Chained(state', Settled),
         putting' \in {NoPut} \cup [key : Keys, value : Values],
         putting' # NoPut => \A i \in 0 .. Settled - 1 : KeyAt(state, i) # putting'.key,
         UNCHANGED <<magic, dirty, stored>>
  PROVE  IInv'
<1>1. putting' # NoPut => \A i \in 0 .. Settled' - 1 : KeyAt(state', i) # putting'.key
  BY DEF Kept
<1>2. ~dirty' => Mirrors(stored', state', Settled')
  <2>1. ASSUME ~dirty PROVE Mirrors(stored, state', Settled)
    BY <2>1, MirrorsKept DEF Kept, IInv
  <2> QED
    BY <2>1 DEF Kept
<1>3. Chained(state', Settled')
  BY DEF Kept
<1> QED
  BY <1>1, <1>2, <1>3 DEF IInv

LEMMA AbsentIs ==
  ASSUME IInv, NEW k \in Keys
  PROVE  Absent(k) <=> \A i \in 0 .. Settled - 1 : KeyAt(state, i) # k
<1>1. Shaped(state) /\ Chained(state, Settled)
  BY DEF IInv
<1>2. \A i \in 0 .. Settled - 1 : i # NoEntry
  BY SettledIs DEF NoEntry
<1> QED
  BY <1>1, <1>2, Gets DEF Absent

LEMMA PutStarts ==
  ASSUME IInv, Careless = {}, NEW k \in Keys, NEW v \in Values,
         PutCounts(k, v) \/ PutGrows(k, v)
  PROVE  IInv' /\ Kept /\ UNCHANGED <<magic, dirty, stored>>
<1> DEFINE n == state.count
<1>1. /\ putting = NoPut /\ Absent(k)
      /\ putting' = [key |-> k, value |-> v]
      /\ UNCHANGED <<magic, dirty, stored>>
  BY DEF PutCounts, PutGrows, PutBegins
<1>2. /\ Settled = n /\ n \in Nat /\ n <= state.size
      /\ state.size \in Nat \ {0} /\ state \in Arrays(state.size)
      /\ Shaped(state) /\ Chained(state, n)
  BY <1>1, SettledIs DEF Settled, IInv
<1>3. putting' \in [key : Keys, value : Values] /\ putting' # NoPut /\ putting'.key = k
  BY <1>1, OrderAssumption
<1>4. /\ Shaped(state') /\ Chained(state', n) /\ state'.count = n + 1
      /\ \A i \in 0 .. n - 1 :
           KeyAt(state', i) = KeyAt(state, i) /\ ValueAt(state', i) = ValueAt(state, i)
  <2>1. CASE PutCounts(k, v)
    <3>1. n + 1 <= state.size
      <4>1. n + 1 <= (state.size * 3) \div 4
        BY <2>1 DEF PutCounts, Threshold
      <4> QED
        BY <1>2, <4>1
    <3>2. state' = [state EXCEPT !.count = @ + 1]
      BY <2>1 DEF PutCounts, PutBegins, Counted
    <3>3. /\ state' \in Arrays(state.size) /\ state'.count = n + 1
          /\ state'.size = state.size /\ state'.kv = state.kv
          /\ state'.next = state.next /\ state'.hash = state.hash
      <4>1. state.count + 1 \in 0 .. state.size
        BY <1>2, <3>1
      <4> QED
        BY <1>2, <3>2, <4>1 DEF Arrays
    <3>4. \A i : KeyAt(state', i) = KeyAt(state, i) /\ ValueAt(state', i) = ValueAt(state, i)
      BY <3>3 DEF KeyAt, ValueAt
    <3>5. Chained(state', n)
      <4>1. \A i \in 0 .. n - 1 : KeyAt(state', i) = KeyAt(state, i) /\ ValueAt(state', i) \in Values
        BY <1>2, <3>4 DEF Chained, Listed
      <4> QED
        BY <1>2, <3>3, <4>1, ChainsKept
    <3> QED
      BY <1>2, <3>3, <3>4, <3>5 DEF Shaped
  <2>2. CASE PutGrows(k, v)
    <3>1. state' = Grown(Counted(state)) /\ \A i \in 0 .. state.count - 1 : state.next[i] # NoEntry
      BY <2>2 DEF PutGrows, PutBegins, Entries
    <3> QED
      BY <1>2, <3>1, GrownIs
  <2> QED
    BY <2>1, <2>2
<1>5. Settled' = n
  BY <1>2, <1>3, <1>4 DEF Settled
<1>6. Kept
  BY <1>2, <1>4, <1>5 DEF Kept
<1>7. \A i \in 0 .. Settled - 1 : KeyAt(state, i) # putting'.key
  BY <1>1, <1>3, AbsentIs
<1> HIDE DEF n
<1> QED
  BY <1>1, <1>2, <1>3, <1>4, <1>6, <1>7, KeptIsInv

LEMMA FillKeeps ==
  ASSUME IInv, PutFills
  PROVE  IInv' /\ Kept /\ UNCHANGED <<magic, dirty, stored>>
<1> DEFINE n == Settled
           k == putting.key
           v == putting.value
<1>1. /\ putting # NoPut /\ UNCHANGED <<magic, dirty, stored, putting>>
      /\ state' = Filled(state, state.count - 1, putting.key, putting.value)
  BY DEF PutFills
<1>2. k \in Keys /\ v \in Values /\ putting \in [key : Keys, value : Values]
  BY <1>1 DEF IInv
<1>3. n \in Nat /\ state.count = n + 1 /\ state.count - 1 = n /\ n \in n .. state.size - 1
  BY <1>1, SettledIs
<1>4. Shaped(state) /\ Chained(state, n)
  BY DEF IInv
<1>5. state' = Filled(state, n, k, v)
  BY <1>1, <1>3
<1> HIDE DEF n, k, v
<1>6. /\ Shaped(state') /\ Chained(state', n) /\ state'.count = state.count
      /\ \A j \in 0 .. n - 1 :
           KeyAt(state', j) = KeyAt(state, j) /\ ValueAt(state', j) = ValueAt(state, j)
  BY <1>2, <1>3, <1>4, <1>5, FilledIs
<1>7. Kept
  BY <1>1, <1>6 DEF Kept, Settled, n
<1>8. \A i \in 0 .. Settled - 1 : KeyAt(state, i) # putting'.key
  BY <1>1 DEF IInv
<1> QED
  BY <1>1, <1>2, <1>6, <1>7, <1>8, KeptIsInv DEF n

(* The put is done: its pair is linked after the others.                     *)
LEMMA LinkAdds ==
  ASSUME IInv, PutLinks
  PROVE  /\ IInv'
         /\ putting \in [key : Keys, value : Values]
         /\ Settled' = Settled + 1
         /\ \A i \in 0 .. Settled - 1 : KeyAt(state, i) # putting.key
         /\ \A i \in 0 .. Settled - 1 :
              KeyAt(state', i) = KeyAt(state, i) /\ ValueAt(state', i) = ValueAt(state, i)
         /\ KeyAt(state', Settled) = putting.key /\ ValueAt(state', Settled) = putting.value
         /\ magic' = magic + 1 /\ UNCHANGED stored
<1> DEFINE n == Settled
<1>1. /\ putting # NoPut /\ putting' = NoPut
      /\ magic' = magic + 1 /\ dirty' = TRUE /\ UNCHANGED stored
      /\ state' = Linked(state, state.count - 1, EndOfChain)
      /\ KeyAt(state, state.count - 1) = putting.key
      /\ ValueAt(state, state.count - 1) = putting.value
  BY DEF PutLinks, IsFilled, SetDirty
<1>2. putting \in [key : Keys, value : Values]
  BY <1>1 DEF IInv
<1>3. n \in Nat /\ state.count = n + 1 /\ state.count - 1 = n /\ n < state.size
  BY <1>1, SettledIs
<1>4. Shaped(state) /\ Chained(state, n) /\ \A i \in 0 .. n - 1 : KeyAt(state, i) # putting.key
  BY <1>1 DEF IInv
<1>5. /\ KeyAt(state, n) = putting.key /\ ValueAt(state, n) = putting.value
      /\ KeyAt(state, n) \in Keys /\ ValueAt(state, n) \in Values
      /\ state' = Linked(state, n, EndOfChain)
  BY <1>1, <1>2, <1>3
<1> HIDE DEF n
<1>6. /\ Shaped(state') /\ Chained(state', n + 1)
      /\ state'.count = state.count /\ state'.kv = state.kv
  BY <1>3, <1>4, <1>5, LinkedIs
<1>7. \A i : KeyAt(state', i) = KeyAt(state, i) /\ ValueAt(state', i) = ValueAt(state, i)
  BY <1>6 DEF KeyAt, ValueAt
<1>8. Settled' = n + 1
  BY <1>1, <1>3, <1>6 DEF Settled
<1>9. IInv'
  <2>1. magic' \in Nat /\ stored' \in Seq(Keys \X Values) /\ OneEach(stored')
    BY <1>1 DEF IInv
  <2> QED
    BY <1>1, <1>6, <1>8, <2>1 DEF IInv
<1> QED
  BY <1>1, <1>2, <1>4, <1>5, <1>7, <1>8, <1>9 DEF n

(* The value of the first entry is replaced.                                 *)
LEMMA ReplaceChanges ==
  ASSUME IInv, Careless = {}, NEW k \in Keys, NEW v \in Values, PutReplaces(k, v)
  PROVE  /\ IInv'
         /\ Settled' = Settled /\ 0 \in 0 .. Settled - 1
         /\ KeyAt(state, 0) = k /\ ValueAt(state, 0) # v
         /\ \A i \in 0 .. Settled - 1 :
              /\ KeyAt(state', i) = KeyAt(state, i)
              /\ ValueAt(state', i) = IF i = 0 THEN v ELSE ValueAt(state, i)
         /\ magic' = magic + 1 /\ UNCHANGED stored
<1> DEFINE n == Settled
<1>1. /\ putting = NoPut /\ ~Absent(k) /\ EntryOf(state, k) = 0
      /\ magic' = magic + 1 /\ dirty' = TRUE /\ UNCHANGED <<stored, putting>>
      /\ state.kv[1] # v
      /\ state' = [state EXCEPT !.kv[1] = v]
  BY DEF PutReplaces, SetDirty, ValueCell
<1>2. Shaped(state) /\ Chained(state, n)
  BY DEF IInv
<1>3. /\ n \in Nat /\ n <= state.size
      /\ state.size \in Nat \ {0} /\ state \in Arrays(state.size)
  BY SettledIs
<1>4. KeyAt(state, 0) = k /\ 0 \in 0 .. n - 1
  <2>1. PICK i \in 0 .. n - 1 : KeyAt(state, i) = k
    BY <1>1, AbsentIs
  <2>2. EntryOf(state, k) = i
    BY <1>2, <2>1, Gets
  <2> QED
    BY <1>1, <2>1, <2>2
<1> HIDE DEF n
<1>5. /\ state' \in Arrays(state.size) /\ state'.size = state.size /\ state'.count = state.count
      /\ state'.next = state.next /\ state'.hash = state.hash
      /\ state'.kv = [state.kv EXCEPT ![1] = v]
  <2>1. [state.kv EXCEPT ![1] = v] \in [0 .. 2 * state.size - 1 -> Cells]
    BY <1>3 DEF Arrays, Cells
  <2> QED
    BY <1>1, <1>3, <2>1 DEF Arrays
<1>6. ASSUME NEW i \in 0 .. n - 1
      PROVE  /\ KeyAt(state', i) = KeyAt(state, i)
             /\ ValueAt(state', i) = IF i = 0 THEN v ELSE ValueAt(state, i)
  <2>1. /\ 2 * i \in 0 .. 2 * state.size - 1 /\ 2 * i + 1 \in 0 .. 2 * state.size - 1
        /\ 2 * i # 1 /\ (2 * i + 1 = 1 <=> i = 0)
    BY <1>3
  <2>2. DOMAIN state.kv = 0 .. 2 * state.size - 1
    BY <1>3 DEF Arrays
  <2> QED
    BY <1>5, <2>1, <2>2 DEF KeyAt, ValueAt
<1>7. Chained(state', n)
  <2>1. \A i \in 0 .. n - 1 : KeyAt(state', i) = KeyAt(state, i) /\ ValueAt(state', i) \in Values
    BY <1>2, <1>6 DEF Chained, Listed
  <2> QED
    BY <1>2, <1>5, <2>1, ChainsKept
<1>8. Settled' = Settled
  BY <1>1, <1>5 DEF Settled
<1>9. IInv'
  <2>1. magic' \in Nat /\ stored' \in Seq(Keys \X Values) /\ OneEach(stored')
    BY <1>1 DEF IInv
  <2>2. Shaped(state')
    BY <1>3, <1>5 DEF Shaped
  <2> QED
    BY <1>1, <1>7, <1>8, <2>1, <2>2 DEF IInv, n
<1>10. ValueAt(state, 0) # v
  BY <1>1 DEF ValueAt
<1> QED
  BY <1>1, <1>4, <1>6, <1>8, <1>9, <1>10 DEF n

LEMMA SaveMirrors ==
  ASSUME IInv, Careless = {}, Save
  PROVE  IInv' /\ Kept /\ Mirrors(stored', state, Settled) /\ UNCHANGED magic
<1> DEFINE n == state.count
<1>1. /\ putting = NoPut /\ stored' = Pairs(state) /\ dirty' = FALSE
      /\ UNCHANGED <<state, magic, putting>>
  BY DEF Save
<1>2. Settled = n /\ n \in Nat /\ Chained(state, n)
  BY <1>1, SettledIs DEF Settled, IInv
<1>3. \A i \in 0 .. n - 1 : KeyAt(state, i) \in Keys /\ ValueAt(state, i) \in Values
  BY <1>2 DEF Chained, Listed
<1>4. stored' = [i \in 1 .. n |-> <<KeyAt(state, i - 1), ValueAt(state, i - 1)>>]
  BY <1>1 DEF Pairs
<1> HIDE DEF n
<1>5. \A i \in 1 .. n : i - 1 \in 0 .. n - 1
  BY <1>2
<1>6. stored' \in Seq(Keys \X Values) /\ Len(stored') = n
  <2>1. stored' \in [1 .. n -> Keys \X Values]
    BY <1>3, <1>4, <1>5
  <2> QED
    BY <1>2, <2>1
<1>7. OneEach(stored')
  <2> SUFFICES ASSUME NEW i \in 1 .. n, NEW j \in 1 .. n, stored'[i][1] = stored'[j][1]
               PROVE  i = j
    BY <1>6 DEF OneEach
  <2>1. KeyAt(state, i - 1) = KeyAt(state, j - 1)
    BY <1>4
  <2>2. i - 1 = j - 1
    BY <1>2, <1>5, <2>1 DEF Chained, Listed
  <2> QED
    BY <1>2, <2>2
<1>8. Mirrors(stored', state, Settled)
  <2>1. ASSUME NEW i \in 0 .. n - 1
        PROVE  stored'[i + 1][1] = KeyAt(state, i) /\ stored'[i + 1][2] = ValueAt(state, i)
    <3>1. i + 1 \in 1 .. n /\ i + 1 - 1 = i
      BY <1>2
    <3> QED
      BY <1>4, <3>1
  <2> QED
    BY <1>2, <1>6, <2>1 DEF Mirrors
<1>9. Kept
  BY <1>1 DEF Kept, Settled
<1>10. IInv'
  <2>1. Settled' = Settled
    BY <1>9 DEF Kept
  <2>2. Mirrors(stored', state', Settled')
    BY <1>1, <1>8, <2>1
  <2> QED
    BY <1>1, <1>6, <1>7, <2>1, <2>2 DEF IInv
<1> QED
  BY <1>1, <1>8, <1>9, <1>10

LEMMA LoadReads ==
  ASSUME IInv, Load
  PROVE  IInv' /\ Kept /\ magic' = 0 /\ UNCHANGED stored
<1> DEFINE n == Settled
<1>1. /\ ~dirty /\ putting = NoPut /\ stored # <<>>
      /\ state' = Loaded(stored) /\ magic' = 0 /\ UNCHANGED <<dirty, stored, putting>>
  BY DEF Load
<1>2. stored \in Seq(Keys \X Values) /\ OneEach(stored) /\ Mirrors(stored, state, n)
  BY <1>1 DEF IInv
<1>3. Len(stored) = n
  BY <1>2 DEF Mirrors
<1> HIDE DEF n
<1>4. Shaped(state') /\ Chained(state', n) /\ state'.count = n /\ Mirrors(stored, state', n)
  BY <1>1, <1>2, <1>3, LoadedIs
<1>5. Settled' = n
  BY <1>1, <1>4 DEF Settled
<1>6. Kept
  BY <1>2, <1>4, <1>5 DEF Kept, Mirrors, n
<1>7. IInv'
  BY <1>1, <1>2, <1>4, <1>5 DEF IInv
<1> QED
  BY <1>1, <1>6, <1>7

-----------------------------------------------------------------------------

LEMMA InitIsInv ==
  Init => IInv /\ Settled = 0
<1> SUFFICES ASSUME Init PROVE IInv /\ Settled = 0
  OBVIOUS
<1>1. InitialCapacity \in Nat \ {0} /\ state = Blank(InitialCapacity)
  BY OrderAssumption DEF Init
<1>2. state \in Arrays(InitialCapacity) /\ state.count = 0
  BY <1>1, BlankIs
<1>3. Shaped(state) /\ Chained(state, 0)
  BY <1>1, <1>2, UnlinkedIs
<1>4. Settled = 0
  BY <1>2 DEF Settled, Init
<1>5. stored \in Seq(Keys \X Values) /\ Len(stored) = 0 /\ OneEach(stored)
  BY DEF Init, OneEach
<1>6. Mirrors(stored, state, 0)
  BY <1>5 DEF Mirrors
<1> QED
  BY <1>3, <1>4, <1>5, <1>6 DEF IInv, Init

LEMMA StutterKeeps ==
  ASSUME IInv, UNCHANGED vars
  PROVE  IInv' /\ Kept
BY DEF IInv, Kept, Settled, vars

LEMMA NextKeepsInv ==
  ASSUME IInv, Careless = {}, [Next]_vars
  PROVE  IInv'
<1>1. CASE \E k \in Keys, v \in Values : PutCounts(k, v) \/ PutGrows(k, v)
  BY <1>1, PutStarts
<1>2. CASE \E k \in Keys, v \in Values : PutReplaces(k, v)
  BY <1>2, ReplaceChanges
<1>3. CASE PutFills
  BY <1>3, FillKeeps
<1>4. CASE PutLinks
  BY <1>4, LinkAdds
<1>5. CASE Save
  BY <1>5, SaveMirrors
<1>6. CASE Load
  BY <1>6, LoadReads
<1>7. CASE UNCHANGED vars
  BY <1>7, StutterKeeps
<1> QED
  BY <1>1, <1>2, <1>3, <1>4, <1>5, <1>6, <1>7 DEF Next

LEMMA Invariance ==
  ASSUME Careless = {}
  PROVE  Spec => []IInv
<1>1. Init => IInv
  BY InitIsInv
<1>2. IInv /\ [Next]_vars => IInv'
  BY NextKeepsInv
<1> QED
  BY <1>1, <1>2, PTL DEF Spec

(* The entries fit their arrays and the links stay inside of them, through   *)
(* any puts, growths, saves and loads of careful callers.                    *)
THEOREM TypeCorrect ==
  ASSUME Careless = {}
  PROVE  Spec => []TypeOK
<1>1. IInv => TypeOK
  <2> SUFFICES ASSUME IInv PROVE TypeOK
    OBVIOUS
  <2>1. /\ state.size \in Nat \ {0} /\ state.count \in 0 .. state.size
        /\ state.kv \in [0 .. 2 * state.size - 1 -> Cells]
        /\ state.next \in [0 .. state.size - 1 -> EndOfChain .. state.size - 1]
        /\ state.hash \in [0 .. state.size - 1 -> NoEntry .. state.size - 1]
    BY SettledIs DEF Arrays
  <2>2. stored \in Seq((Keys \cup {0}) \X (Values \cup {0}))
    <3>1. stored \in [1 .. Len(stored) -> Keys \X Values] /\ Len(stored) \in Nat
      BY DEF IInv
    <3>2. Keys \X Values \subseteq (Keys \cup {0}) \X (Values \cup {0})
      OBVIOUS
    <3>3. stored \in [1 .. Len(stored) -> (Keys \cup {0}) \X (Values \cup {0})]
      BY <3>1, <3>2
    <3> QED
      BY <3>1, <3>3
  <2> QED
    BY <2>1, <2>2 DEF IInv, TypeOK, Cells
<1> QED
  BY <1>1, Invariance, PTL

(* Each entry is found through the chain of its key, at every step of a put  *)
(* and after any growth or load: no key has two entries and none is lost.    *)
THEOREM AllAreFound ==
  ASSUME Careless = {}
  PROVE  Spec => []EntriesAreFound
<1>1. IInv => EntriesAreFound
  <2> SUFFICES ASSUME IInv, NEW i \in Entries(state),
                      ~ (i = state.count - 1 /\ putting # NoPut)
               PROVE  EntryOf(state, KeyAt(state, i)) = i
    BY DEF EntriesAreFound
  <2>1. i \in 0 .. Settled - 1
    BY SettledIs DEF Entries
  <2> QED
    BY <2>1, Finds DEF IInv
<1> QED
  BY <1>1, Invariance, PTL

-----------------------------------------------------------------------------
(* What callers read is a map.                                               *)

LEMMA KeptReads ==
  ASSUME IInv, IInv', Kept, NEW k \in Keys
  PROVE  Get(state', k) = Get(state, k) /\ EntryOf(state', k) = EntryOf(state, k)
<1>1. Shaped(state') /\ Chained(state', Settled)
  BY DEF IInv, Kept
<1> QED
  BY <1>1, SameReadings DEF IInv, Kept

LEMMA KeptReadable ==
  ASSUME IInv, IInv', Kept
  PROVE  Readable' = Readable
<1>1. Readable' = [k \in Keys |-> Get(state', k)]
  BY DEF Readable
<1>2. Readable = [k \in Keys |-> Get(state, k)]
  BY DEF Readable
<1> QED
  BY <1>1, <1>2, KeptReads

(* The value a load would bring back for a key.                              *)
Brought(p, k) ==
  IF \E n \in 1 .. Len(p) : p[n][1] = k
  THEN LET n == CHOOSE n \in 1 .. Len(p) : p[n][1] = k IN p[n][2]
  ELSE NoValue

LEMMA MirrorReads ==
  ASSUME NEW p, NEW s, NEW n, Shaped(s), Chained(s, n), Mirrors(p, s, n),
         NEW k \in Keys
  PROVE  Brought(p, k) = Get(s, k)
<1>1. n \in Nat /\ Len(p) = n
  BY ShapedIs DEF Chained, Listed, Mirrors
<1>2. \A m \in 1 .. n : /\ m - 1 \in 0 .. n - 1
                        /\ p[m][1] = KeyAt(s, m - 1) /\ p[m][2] = ValueAt(s, m - 1)
  <2> SUFFICES ASSUME NEW m \in 1 .. n
               PROVE  /\ m - 1 \in 0 .. n - 1
                      /\ p[m][1] = KeyAt(s, m - 1) /\ p[m][2] = ValueAt(s, m - 1)
    OBVIOUS
  <2>1. m - 1 \in 0 .. n - 1 /\ m - 1 + 1 = m
    BY <1>1
  <2> QED
    BY <2>1 DEF Mirrors
<1>3. CASE \E m \in 1 .. n : p[m][1] = k
  <2> DEFINE m == CHOOSE m \in 1 .. Len(p) : p[m][1] = k
  <2>1. m \in 1 .. n /\ p[m][1] = k
    BY <1>1, <1>3
  <2>2. Brought(p, k) = p[m][2]
    BY <1>1, <1>3 DEF Brought
  <2> HIDE DEF m
  <2>3. Get(s, k) = ValueAt(s, m - 1)
    BY <1>2, <2>1, Gets
  <2> QED
    BY <1>2, <2>1, <2>2, <2>3
<1>4. CASE ~ \E m \in 1 .. n : p[m][1] = k
  <2>1. \A i \in 0 .. n - 1 : KeyAt(s, i) # k
    <3> SUFFICES ASSUME NEW i \in 0 .. n - 1, KeyAt(s, i) = k PROVE FALSE
      OBVIOUS
    <3>1. i + 1 \in 1 .. n /\ p[i + 1][1] = KeyAt(s, i)
      BY <1>1 DEF Mirrors
    <3> QED
      BY <1>4, <3>1
  <2>2. Brought(p, k) = NoValue
    BY <1>1, <1>4 DEF Brought
  <2> QED
    BY <2>1, <2>2, Gets
<1> QED
  BY <1>3, <1>4

(* The map changes where the put ends, or where a value is replaced, by one  *)
(* key.                                                                      *)
LEMMA LinkPuts ==
  ASSUME IInv, PutLinks
  PROVE  \E k \in Keys, v \in Values : Map!Put(k, v)
<1> DEFINE k == putting.key
           v == putting.value
           n == Settled
<1>1. k \in Keys /\ v \in Values
  BY LinkAdds
<1>2. /\ IInv' /\ Settled' = n + 1 /\ n \in Nat
      /\ \A i \in 0 .. n - 1 : KeyAt(state, i) # k
      /\ \A i \in 0 .. n - 1 :
           KeyAt(state', i) = KeyAt(state, i) /\ ValueAt(state', i) = ValueAt(state, i)
      /\ KeyAt(state', n) = k /\ ValueAt(state', n) = v
      /\ magic' = magic + 1 /\ UNCHANGED stored
  BY LinkAdds, SettledIs
<1>3. /\ Shaped(state) /\ Chained(state, n) /\ Shaped(state') /\ Chained(state', Settled')
  BY <1>2 DEF IInv
<1> HIDE DEF k, v, n
<1>4. Get(state, k) = NoValue
  BY <1>1, <1>2, <1>3, Gets
<1>5. Get(state', k) = v
  <2>1. n \in 0 .. Settled' - 1
    BY <1>2
  <2> QED
    BY <1>1, <1>2, <1>3, <2>1, Gets
<1>6. ASSUME NEW l \in Keys, l # k PROVE Get(state', l) = Get(state, l)
  <2>1. CASE \E i \in 0 .. n - 1 : KeyAt(state, i) = l
    <3>1. PICK i \in 0 .. n - 1 : KeyAt(state, i) = l
      BY <2>1
    <3>2. i \in 0 .. Settled' - 1 /\ KeyAt(state', i) = l
      BY <1>2, <3>1
    <3>3. Get(state', l) = ValueAt(state', i) /\ Get(state, l) = ValueAt(state, i)
      <4>1. Get(state', l) = ValueAt(state', i)
        BY <1>3, <3>2, Gets
      <4>2. Get(state, l) = ValueAt(state, i)
        BY <1>3, <3>1, Gets
      <4> QED
        BY <4>1, <4>2
    <3> QED
      BY <1>2, <3>3
  <2>2. CASE \A i \in 0 .. n - 1 : KeyAt(state, i) # l
    <3>1. \A i \in 0 .. Settled' - 1 : KeyAt(state', i) # l
      <4>1. \A i \in 0 .. Settled' - 1 : i = n \/ i \in 0 .. n - 1
        BY <1>2
      <4> QED
        BY <1>2, <1>6, <2>2, <4>1
    <3>2. Get(state', l) = NoValue
      BY <1>3, <3>1, Gets
    <3>3. Get(state, l) = NoValue
      BY <1>3, <2>2, Gets
    <3> QED
      BY <3>2, <3>3
  <2> QED
    BY <2>1, <2>2
<1>7. Readable = [l \in Keys |-> Get(state, l)] /\ Readable' = [l \in Keys |-> Get(state', l)]
  BY DEF Readable
<1>8. Readable' = [Readable EXCEPT ![k] = v]
  BY <1>1, <1>5, <1>6, <1>7
<1>9. Readable[k] # v
  BY <1>1, <1>4, <1>7, OrderAssumption
<1>10. UNCHANGED Saved
  BY <1>2 DEF Saved
<1>11. Map!Put(k, v)
  BY <1>2, <1>8, <1>9, <1>10 DEF Map!Put
<1> QED
  BY <1>1, <1>11

LEMMA ReplacePuts ==
  ASSUME IInv, Careless = {}, NEW k \in Keys, NEW v \in Values, PutReplaces(k, v)
  PROVE  Map!Put(k, v)
<1> DEFINE n == Settled
<1>1. /\ IInv' /\ Settled' = n /\ 0 \in 0 .. n - 1
      /\ KeyAt(state, 0) = k /\ ValueAt(state, 0) # v
      /\ \A i \in 0 .. n - 1 :
           /\ KeyAt(state', i) = KeyAt(state, i)
           /\ ValueAt(state', i) = IF i = 0 THEN v ELSE ValueAt(state, i)
      /\ magic' = magic + 1 /\ UNCHANGED stored
  BY ReplaceChanges
<1>2. Shaped(state) /\ Chained(state, n) /\ Shaped(state') /\ Chained(state', n)
  BY <1>1 DEF IInv
<1> HIDE DEF n
<1>3. Get(state, k) = ValueAt(state, 0) /\ Get(state', k) = v
  BY <1>1, <1>2, Gets
<1>4. ASSUME NEW l \in Keys, l # k PROVE Get(state', l) = Get(state, l)
  <2>1. CASE \E i \in 0 .. n - 1 : KeyAt(state, i) = l
    <3>1. PICK i \in 0 .. n - 1 : KeyAt(state, i) = l
      BY <2>1
    <3>2. Get(state', l) = ValueAt(state', i) /\ Get(state, l) = ValueAt(state, i) /\ i # 0
      BY <1>1, <1>2, <1>4, <3>1, Gets
    <3> QED
      BY <1>1, <3>2
  <2>2. CASE \A i \in 0 .. n - 1 : KeyAt(state, i) # l
    BY <1>1, <1>2, <2>2, Gets
  <2> QED
    BY <2>1, <2>2
<1>5. Readable = [l \in Keys |-> Get(state, l)] /\ Readable' = [l \in Keys |-> Get(state', l)]
  BY DEF Readable
<1>6. Readable' = [Readable EXCEPT ![k] = v]
  BY <1>3, <1>4, <1>5
<1>7. Readable[k] # v
  BY <1>1, <1>3, <1>5
<1>8. UNCHANGED Saved
  BY <1>1 DEF Saved
<1> QED
  BY <1>1, <1>6, <1>7, <1>8 DEF Map!Put

LEMMA SavedIs ==
  /\ Saved = [k \in Keys |-> Brought(stored, k)]
  /\ Saved' = [k \in Keys |-> Brought(stored', k)]
BY DEF Saved, Brought

LEMMA SaveSaves ==
  ASSUME IInv, Careless = {}, Save
  PROVE  Map!Save
<1>1. IInv' /\ Kept /\ Mirrors(stored', state, Settled) /\ UNCHANGED magic
  BY SaveMirrors
<1>2. \A k \in Keys : Brought(stored', k) = Get(state, k)
  BY <1>1, MirrorReads DEF IInv
<1>3. Saved' = Readable
  BY <1>2, SavedIs DEF Readable
<1>4. Readable' = Readable
  BY <1>1, KeptReadable
<1> QED
  BY <1>1, <1>3, <1>4 DEF Map!Save

LEMMA LoadLoads ==
  ASSUME IInv, Load
  PROVE  Map!Load
<1>1. IInv' /\ Kept /\ magic' = 0 /\ UNCHANGED stored
  BY LoadReads
<1>2. Mirrors(stored, state, Settled)
  BY DEF IInv, Load
<1>3. \A k \in Keys : Brought(stored, k) = Get(state, k)
  BY <1>2, MirrorReads DEF IInv
<1>4. Saved = Readable
  BY <1>3, SavedIs DEF Readable
<1>5. Readable' = Readable
  BY <1>1, KeptReadable
<1>6. UNCHANGED Saved
  BY <1>1, SavedIs
<1> QED
  BY <1>1, <1>4, <1>5, <1>6 DEF Map!Load

LEMMA KeptStutters ==
  ASSUME IInv, IInv', Kept, UNCHANGED <<magic, stored>>
  PROVE  UNCHANGED <<Readable, magic, Saved>>
<1>1. Readable' = Readable
  BY KeptReadable
<1>2. UNCHANGED Saved
  BY SavedIs
<1> QED
  BY <1>1, <1>2

LEMMA NextMaps ==
  ASSUME IInv, Careless = {}, [Next]_vars
  PROVE  [Map!Next]_(Map!vars)
<1>1. CASE \E k \in Keys, v \in Values : PutCounts(k, v) \/ PutGrows(k, v)
  <2>1. IInv' /\ Kept /\ UNCHANGED <<magic, stored>>
    BY <1>1, PutStarts
  <2> QED
    BY <2>1, KeptStutters DEF Map!vars
<1>2. CASE \E k \in Keys, v \in Values : PutReplaces(k, v)
  BY <1>2, ReplacePuts DEF Map!Next
<1>3. CASE PutFills
  <2>1. IInv' /\ Kept /\ UNCHANGED <<magic, stored>>
    BY <1>3, FillKeeps
  <2> QED
    BY <2>1, KeptStutters DEF Map!vars
<1>4. CASE PutLinks
  BY <1>4, LinkPuts DEF Map!Next
<1>5. CASE Save
  BY <1>5, SaveSaves DEF Map!Next
<1>6. CASE Load
  BY <1>6, LoadLoads DEF Map!Next
<1>7. CASE UNCHANGED vars
  <2>1. IInv' /\ Kept /\ UNCHANGED <<magic, stored>>
    BY <1>7, StutterKeeps DEF vars
  <2> QED
    BY <2>1, KeptStutters DEF Map!vars
<1> QED
  BY <1>1, <1>2, <1>3, <1>4, <1>5, <1>6, <1>7 DEF Next

LEMMA InitMaps ==
  Init => Map!Init
<1> SUFFICES ASSUME Init PROVE Map!Init
  OBVIOUS
<1>1. IInv /\ Settled = 0
  BY InitIsInv
<1>2. ASSUME NEW k \in Keys PROVE Get(state, k) = NoValue
  <2>1. Shaped(state) /\ Chained(state, 0)
    BY <1>1 DEF IInv
  <2>2. \A i \in 0 .. 0 - 1 : KeyAt(state, i) # k
    OBVIOUS
  <2> QED
    BY <2>1, <2>2, Gets
<1>3. Readable = [k \in Keys |-> NoValue]
  BY <1>2 DEF Readable
<1>4. Len(stored) = 0
  BY DEF Init
<1>5. Saved = [k \in Keys |-> NoValue]
  BY <1>4 DEF Saved
<1> QED
  BY <1>3, <1>5 DEF Map!Init, Init

(* For any worlds, times and hash, a careful caller's world order is the map *)
(* LongMap: a put takes effect in one step, nothing that a growth or a load  *)
(* rebuilds is lost, and the magic counts the changes.                       *)
THEOREM Refinement ==
  ASSUME Careless = {}
  PROVE  Spec => ImplementsLongMap
<1>1. Init => Map!Init
  BY InitMaps
<1>2. IInv /\ [Next]_vars => [Map!Next]_(Map!vars)
  BY NextMaps
<1> QED
  BY <1>1, <1>2, Invariance, PTL DEF Spec, ImplementsLongMap, Map!Spec

-----------------------------------------------------------------------------
(* No key is ever lost.                                                      *)

LEMMA NextKeepsKeys ==
  ASSUME IInv, Careless = {}, [Next]_vars, NEW i \in 0 .. Settled - 1
  PROVE  KeyAt(state', i) = KeyAt(state, i) /\ i \in 0 .. Settled' - 1
<1>1. Settled \in Nat
  BY SettledIs
<1>2. Kept => KeyAt(state', i) = KeyAt(state, i) /\ i \in 0 .. Settled' - 1
  BY DEF Kept
<1>3. CASE \E k \in Keys, v \in Values : PutCounts(k, v) \/ PutGrows(k, v)
  BY <1>2, <1>3, PutStarts
<1>4. CASE \E k \in Keys, v \in Values : PutReplaces(k, v)
  BY <1>4, ReplaceChanges
<1>5. CASE PutFills
  BY <1>2, <1>5, FillKeeps
<1>6. CASE PutLinks
  <2>1. Settled' = Settled + 1 /\ KeyAt(state', i) = KeyAt(state, i)
    BY <1>6, LinkAdds
  <2> QED
    BY <1>1, <2>1
<1>7. CASE Save
  BY <1>2, <1>7, SaveMirrors
<1>8. CASE Load
  BY <1>2, <1>8, LoadReads
<1>9. CASE UNCHANGED vars
  BY <1>2, <1>9, StutterKeeps
<1> QED
  BY <1>3, <1>4, <1>5, <1>6, <1>7, <1>8, <1>9 DEF Next

(* The property world_order_lost refutes holds of callers who do not let a   *)
(* loaded map grow: what was put is found ever after.                        *)
THEOREM NothingIsLost ==
  ASSUME Careless = {}
  PROVE  Spec => InsertedIsRetrieved
<1>1. ASSUME IInv, [Next]_vars
      PROVE  [\A k \in Keys : ~Absent(k) => EntryOf(state', k) # NoEntry]_vars
  <2> SUFFICES ASSUME NEW k \in Keys, ~Absent(k) PROVE EntryOf(state', k) # NoEntry
    OBVIOUS
  <2>1. PICK i \in 0 .. Settled - 1 : KeyAt(state, i) = k
    BY <1>1, AbsentIs
  <2>2. KeyAt(state', i) = k /\ i \in 0 .. Settled' - 1
    BY <1>1, <2>1, NextKeepsKeys
  <2>3. Shaped(state') /\ Chained(state', Settled')
    BY <1>1, NextKeepsInv DEF IInv
  <2>4. EntryOf(state', k) = i
    BY <2>2, <2>3, Gets
  <2>5. i # NoEntry
    BY <2>1, <1>1, SettledIs DEF NoEntry
  <2> QED
    BY <2>4, <2>5
<1>2. IInv /\ [Next]_vars => [\A k \in Keys : ~Absent(k) => EntryOf(state', k) # NoEntry]_vars
  BY <1>1
<1> QED
  BY <1>2, Invariance, PTL DEF Spec, InsertedIsRetrieved

=============================================================================
