--------------------------- MODULE Sessions_proofs ---------------------------
(***************************************************************************)
(* Proofs about Sessions, for any number of graphs, sessions and callers.  *)
(*                                                                         *)
(* The argument has two parts. The calls of connect that hold a prefix     *)
(* hold different ones, and each makes its generator with its own          *)
(* (CallsInv). And a key is the pair of a prefix and an index (KeyOnce),   *)
(* so generators of different prefixes never meet, and one generator       *)
(* counts upwards (KeysInv).                                               *)
(***************************************************************************)
EXTENDS Sessions, TLAPS

\* The callers take the three precautions.
Careful == {"connects", "locks", "limit"} \subseteq Cares

HasPrefix(a) == stage[a] \in {"granted", "loading", "ready"}

\* A prefix that was handed out lies below the counter; the storage reads
\* the counter for one call at a time.
CounterAhead ==
  \A a \in Attempts :
    /\ HasPrefix(a) => issued[a] < counter
    /\ stage[a] = "reading" =>
         issued[a] = counter /\ \A b \in Attempts : stage[b] = "reading" => a = b

PrefixesDiffer ==
  \A a, b \in Attempts :
    HasPrefix(a) /\ HasPrefix(b) /\ issued[a] = issued[b] => a = b

Live(a) == UnderWay(a) /\ a \notin gone

OneLive ==
  \A a, b \in Attempts : Live(a) /\ Live(b) /\ Owner[a] = Owner[b] => a = b

PrefixKept ==
  \A a \in Attempts :
    stage[a] = "loading" /\ a \notin gone => prefix[Owner[a]] = issued[a]

GeneratorsMade ==
  \A g \in Graphs : generator[g] # NoAttempt => Made(generator[g])

CallsInv == /\ CounterAhead /\ PrefixesDiffer
            /\ OneLive /\ PrefixKept /\ OwnPrefix /\ GeneratorsMade

\* No generator counts past the limit.
IndexesFit ==
  /\ \A a \in Attempts : index[a] <= KeyLimit
  /\ \A p \in Prefixes : stored[p] <= KeyLimit

DrawsFit ==
  \A t \in Threads : Drawing(t) =>
    Made(drawing[t]) /\ 1 <= drawn[t] /\ drawn[t] <= index[drawing[t]]

DrawsDiffer ==
  \A t, u \in Threads :
    Drawing(t) /\ drawing[t] = drawing[u] /\ drawn[t] = drawn[u] => t = u

DrawnIsNew ==
  \A t \in Threads : Drawing(t) => Key(base[drawing[t]], drawn[t]) \notin handed

HandedWasCounted ==
  \A k \in handed : \E a \in Attempts :
    /\ Made(a)
    /\ \E i \in 1 .. index[a] : k = Key(base[a], i)

KeysInv == /\ IndexesFit /\ DrawsFit /\ DrawsDiffer
           /\ DrawnIsNew /\ HandedWasCounted /\ KeysUnique

IInv == TypeOK /\ CallsInv /\ KeysInv

-----------------------------------------------------------------------------
(* Keys are pairs of a prefix and an index.                                *)

\* A key is a natural number.
LEMMA KeyIsNat ==
  ASSUME NEW p \in Nat, NEW i \in Nat
  PROVE  Key(p, i) \in Nat
<1>1. p * (KeyLimit + 1) \in Nat
  BY SessionsAssumption
<1> QED
  BY <1>1 DEF Key

\* The ranges of two prefixes do not overlap.
LEMMA KeyOrder ==
  ASSUME NEW p \in Nat, NEW q \in Nat, p < q,
         NEW i \in 0 .. KeyLimit, NEW j \in Nat
  PROVE  Key(p, i) < Key(q, j)
<1> DEFINE w == KeyLimit + 1
<1>1. w \in Nat /\ i < w
  BY SessionsAssumption
<1>2. PICK d \in Nat : q = p + 1 + d
  <2>1. q - (p + 1) \in Nat /\ q = p + 1 + (q - (p + 1))
    OBVIOUS
  <2> QED BY <2>1
<1>3. d * w \in Nat /\ p * w \in Nat
  BY <1>1
<1>4. q * w = p * w + w + d * w
  BY <1>1, <1>2
<1> HIDE DEF w
<1>5. p * w + i < q * w + j
  BY <1>1, <1>3, <1>4
<1> QED
  BY <1>5 DEF Key, w

\* A key determines its prefix and its index.
LEMMA KeyOnce ==
  ASSUME NEW p \in Nat, NEW q \in Nat,
         NEW i \in 0 .. KeyLimit, NEW j \in 0 .. KeyLimit,
         Key(p, i) = Key(q, j)
  PROVE  p = q /\ i = j
<1>1. Key(p, i) \in Nat /\ Key(q, j) \in Nat /\ i \in Nat /\ j \in Nat
  BY KeyIsNat, SessionsAssumption
<1>2. ~ (p < q) /\ ~ (q < p)
  BY <1>1, KeyOrder
<1>3. p = q
  BY <1>2
<1>4. p * (KeyLimit + 1) \in Nat
  BY SessionsAssumption
<1> QED
  BY <1>1, <1>3, <1>4 DEF Key

-----------------------------------------------------------------------------
(* Every variable keeps its type, whatever the callers do.                 *)

LEMMA AnswersKeepTypes ==
  ASSUME TypeOK, NEW a \in Attempts, Answers(a)
  PROVE  TypeOK'
<1> USE SessionsAssumption DEF TypeOK, graphs, storage, newKeys, history
<1>1. CASE ReadCounter(a)
  <2>1. counter \in Prefixes
    BY <1>1 DEF ReadCounter, Prefixes
  <2> QED  BY <1>1, <2>1 DEF ReadCounter, Stages
<1>2. CASE WriteCounter(a)
  <2>1. issued[a] + 1 \in 0 .. MaxPrefix + 1
    BY DEF Prefixes
  <2> QED  BY <1>2, <2>1 DEF WriteCounter, Stages
<1>3. CASE LockThrows(a)
  BY <1>3 DEF LockThrows, Stages
<1>4. CASE Granted(a)
  BY <1>4 DEF Granted, Stages
<1>5. CASE Loaded(a)
  BY <1>5 DEF Loaded, Stages
<1>6. CASE LoadFails(a)
  BY <1>6 DEF LoadFails, Stages
<1> QED
  BY <1>1, <1>2, <1>3, <1>4, <1>5, <1>6 DEF Answers

LEMMA SavedTyped ==
  ASSUME TypeOK, NEW g \in Graphs
  PROVE  SavedIndexes(g) \in [Prefixes -> Indexes]
BY DEF TypeOK, SavedIndexes

LEMMA DrawKeepsTypes ==
  ASSUME TypeOK, NEW t \in Threads, NEW g \in Graphs, Draw(t, g)
  PROVE  TypeOK'
<1> USE SessionsAssumption
<1>1. generator[g] \in Attempts
  BY DEF TypeOK, Draw
<1>2. index[generator[g]] + 1 \in Indexes
  BY <1>1 DEF TypeOK, Draw, Indexes
<1> QED
  BY <1>1, <1>2 DEF TypeOK, Draw, graphs, storage, calls, history

LEMMA AnswerKeepsTypes ==
  ASSUME TypeOK, NEW t \in Threads, Answer(t)
  PROVE  TypeOK'
<1> USE SessionsAssumption
<1>1. drawing[t] \in Attempts /\ base[drawing[t]] \in Nat /\ drawn[t] \in Nat
  BY DEF TypeOK, Answer, Drawing, Prefixes, Indexes
<1>2. Key(base[drawing[t]], drawn[t]) \in Nat
  BY <1>1, KeyIsNat
<1>3. drawing' \in [Threads -> Attempts \cup {NoAttempt}]
      /\ drawn' \in [Threads -> Indexes]
  BY DEF TypeOK, Answer, Return, Indexes
<1>4. handed' \subseteq Nat /\ repeated' \subseteq handed'
  BY <1>2 DEF TypeOK, Answer
<1> QED
  BY <1>3, <1>4 DEF TypeOK, Answer, graphs, storage, calls

LEMMA NextKeepsTypes ==
  ASSUME TypeOK, [Next]_vars
  PROVE  TypeOK'
<1> USE SessionsAssumption
<1>1. CASE UNCHANGED vars
  BY <1>1 DEF TypeOK, vars
<1>2. ASSUME NEW g \in Graphs, NEW a \in Attempts, Connect(g, a)
      PROVE  TypeOK'
  BY <1>2 DEF TypeOK, Connect, Stages, storage, newKeys, history
<1>3. ASSUME NEW g \in Graphs, Save(g) PROVE TypeOK'
  BY <1>3, SavedTyped DEF TypeOK, Save, calls, graphs, newKeys, history
<1>4. ASSUME NEW g \in Graphs, Disconnect(g) PROVE TypeOK'
  BY <1>4, SavedTyped DEF TypeOK, Disconnect, calls, newKeys, history
<1>5. ASSUME NEW g \in Graphs, Crash(g) PROVE TypeOK'
  <2>1. prefix' \in [Graphs -> Prefixes]
    BY <1>5 DEF TypeOK, Crash, Prefixes
  <2>2. drawing' \in [Threads -> Attempts \cup {NoAttempt}]
    BY <1>5 DEF TypeOK, Crash
  <2> QED  BY <1>5, <2>1, <2>2 DEF TypeOK, Crash, storage, history
<1>6. CASE StorageCrash
  BY <1>6 DEF TypeOK, StorageCrash, Stages, storage, graphs, newKeys, history
<1>7. ASSUME NEW t \in Threads, Refuse(t) PROVE TypeOK'
  BY <1>7 DEF TypeOK, Refuse, Return, Indexes, storage, graphs, calls, history
<1> QED
  BY <1>1, <1>2, <1>3, <1>4, <1>5, <1>6, <1>7, AnswersKeepTypes,
     DrawKeepsTypes, AnswerKeepsTypes DEF Next

LEMMA InitTyped == Init => TypeOK
BY SessionsAssumption DEF Init, TypeOK, Prefixes, Indexes, Stages

(* Every variable of the key generation keeps its type, with and without   *)
(* the precautions of the callers.                                         *)
THEOREM TypeCorrect == Spec => []TypeOK
BY InitTyped, NextKeepsTypes, PTL DEF Spec

-----------------------------------------------------------------------------
(* The calls of connect.                                                   *)

LEMMA AnswersKeepCalls ==
  ASSUME TypeOK, CallsInv, Careful, NEW c \in Attempts, Answers(c)
  PROVE  CallsInv'
<1> USE SessionsAssumption
        DEF TypeOK, storage, graphs, Prefixes, CallsInv, HasPrefix, Made, Live,
            UnderWay
<1>1. CASE ReadCounter(c)
  <2>1. \A b \in Attempts : stage[b] # "reading"
    BY <1>1 DEF ReadCounter, OneLock, Careful
  <2>2. CounterAhead'
    BY <1>1, <2>1 DEF ReadCounter, CounterAhead
  <2>3. PrefixesDiffer' /\ OneLive' /\ PrefixKept' /\ OwnPrefix'
        /\ GeneratorsMade'
    BY <1>1 DEF ReadCounter, PrefixesDiffer, OneLive, PrefixKept, OwnPrefix,
       GeneratorsMade
  <2> QED  BY <2>2, <2>3
<1>2. CASE WriteCounter(c)
  <2>1. issued[c] = counter /\ counter \in Nat
        /\ \A b \in Attempts : stage[b] = "reading" => b = c
    BY <1>2 DEF WriteCounter, CounterAhead
  <2>2. CounterAhead'
    BY <1>2, <2>1 DEF WriteCounter, CounterAhead
  <2>3. PrefixesDiffer'
    BY <1>2, <2>1 DEF WriteCounter, CounterAhead, PrefixesDiffer
  <2>4. OneLive' /\ PrefixKept' /\ OwnPrefix' /\ GeneratorsMade'
    BY <1>2 DEF WriteCounter, OneLive, PrefixKept, OwnPrefix, GeneratorsMade
  <2> QED  BY <2>2, <2>3, <2>4
<1>3. CASE LockThrows(c)
  BY <1>3 DEF LockThrows, CounterAhead, PrefixesDiffer, OneLive, PrefixKept,
     OwnPrefix, GeneratorsMade
<1>4. CASE Granted(c)
  <2>1. CounterAhead' /\ PrefixesDiffer' /\ OneLive' /\ OwnPrefix'
        /\ GeneratorsMade'
    BY <1>4 DEF Granted, CounterAhead, PrefixesDiffer, OneLive, OwnPrefix,
       GeneratorsMade
  <2>2. ASSUME NEW a \in Attempts, stage'[a] = "loading", a \notin gone'
        PROVE  prefix'[Owner[a]] = issued'[a]
    <3>1. CASE a = c
      BY <1>4, <3>1 DEF Granted
    <3>2. CASE a # c
      <4>1. stage[a] = "loading" /\ a \notin gone /\ Owner[a] # Owner[c]
        BY <1>4, <2>2, <3>2 DEF Granted, OneLive
      <4> QED  BY <1>4, <4>1 DEF Granted, PrefixKept
    <3> QED  BY <3>1, <3>2
  <2> QED  BY <2>1, <2>2 DEF PrefixKept
<1>5. CASE Loaded(c)
  <2>1. prefix[Owner[c]] = issued[c]
    BY <1>5 DEF Loaded, PrefixKept
  <2>2. OwnPrefix'
    BY <1>5, <2>1 DEF Loaded, OwnPrefix
  <2>3. CounterAhead' /\ PrefixesDiffer' /\ OneLive' /\ PrefixKept'
        /\ GeneratorsMade'
    BY <1>5 DEF Loaded, CounterAhead, PrefixesDiffer, OneLive, PrefixKept,
       GeneratorsMade
  <2> QED  BY <2>2, <2>3
<1>6. CASE LoadFails(c)
  BY <1>6 DEF LoadFails, CounterAhead, PrefixesDiffer, OneLive, PrefixKept,
     OwnPrefix, GeneratorsMade
<1> QED
  BY <1>1, <1>2, <1>3, <1>4, <1>5, <1>6 DEF Answers

LEMMA ConnectKeepsCalls ==
  ASSUME TypeOK, CallsInv, Careful,
         NEW g \in Graphs, NEW c \in Attempts, Connect(g, c)
  PROVE  CallsInv'
<1> USE SessionsAssumption
        DEF TypeOK, storage, Prefixes, CallsInv, HasPrefix, Made, Live, UnderWay
<1>1. \A a \in Attempts : Live(a) => Owner[a] # Owner[c]
  BY DEF Connect, OneConnect, Careful
<1>2. OneLive'
  BY <1>1 DEF Connect, OneLive
<1> QED
  BY <1>2 DEF Connect, CounterAhead, PrefixesDiffer, PrefixKept, OwnPrefix,
     GeneratorsMade

LEMMA NextKeepsCalls ==
  ASSUME TypeOK, CallsInv, Careful, [Next]_vars
  PROVE  CallsInv'
<1> USE SessionsAssumption
        DEF TypeOK, storage, Prefixes, CallsInv, HasPrefix, Made, Live,
            UnderWay, CounterAhead, PrefixesDiffer, OneLive, PrefixKept,
            OwnPrefix, GeneratorsMade
<1>1. CASE UNCHANGED vars
  BY <1>1 DEF vars
<1>2. ASSUME NEW g \in Graphs, Save(g) \/ Disconnect(g) PROVE CallsInv'
  BY <1>2 DEF Save, Disconnect, calls, graphs
<1>3. ASSUME NEW g \in Graphs, Crash(g) PROVE CallsInv'
  BY <1>3 DEF Crash
<1>4. CASE StorageCrash
  <2>1. PICK lost \in SUBSET {a \in Attempts : UnderWay(a)} :
           stage' = [a \in Attempts |-> IF a \in lost THEN "lost" ELSE stage[a]]
    BY <1>4 DEF StorageCrash
  <2>2. \A a \in Attempts : /\ stage'[a] = stage[a] \/ stage'[a] = "lost"
                            /\ stage[a] = "ready" => stage'[a] = "ready"
    BY <2>1
  <2>3. UNCHANGED <<counter, issued, gone, connected, prefix, generator, base>>
    BY <1>4 DEF StorageCrash, graphs
  <2> HIDE DEF TypeOK
  <2>4. CounterAhead' /\ PrefixesDiffer'
    BY <2>2, <2>3
  <2>5. OneLive' /\ PrefixKept' /\ OwnPrefix'
    BY <2>2, <2>3
  <2>6. GeneratorsMade'
    BY <2>2, <2>3 DEF TypeOK
  <2> QED  BY <2>4, <2>5, <2>6
<1>5. ASSUME NEW t \in Threads, NEW g \in Graphs, Draw(t, g) PROVE CallsInv'
  BY <1>5 DEF Draw, calls, graphs
<1>6. ASSUME NEW t \in Threads, Refuse(t) \/ Answer(t) PROVE CallsInv'
  BY <1>6 DEF Refuse, Answer, calls, graphs
<1> QED
  BY <1>1, <1>2, <1>3, <1>4, <1>5, <1>6, AnswersKeepCalls, ConnectKeepsCalls
  DEF Next

-----------------------------------------------------------------------------
(* The keys.                                                               *)

\* Generators that count under one prefix are one.
LEMMA GeneratorsDiffer ==
  ASSUME TypeOK, CallsInv, NEW a \in Attempts, NEW b \in Attempts,
         Made(a), Made(b), base[a] = base[b]
  PROVE  a = b
BY DEF CallsInv, OwnPrefix, PrefixesDiffer, Made, HasPrefix

\* An index is one that KeyOnce speaks of.
LEMMA IndexFits ==
  ASSUME TypeOK, IndexesFit, NEW a \in Attempts,
         NEW i \in Nat, i <= index[a]
  PROVE  base[a] \in Nat /\ i \in 0 .. KeyLimit
BY SessionsAssumption DEF TypeOK, IndexesFit, Prefixes, Indexes

LEMMA LoadedKeepsKeys ==
  ASSUME TypeOK, KeysInv, NEW c \in Attempts, Loaded(c)
  PROVE  KeysInv'
<1> USE DEF KeysInv, TypeOK
<1>1. /\ ~Made(c) /\ UNCHANGED <<stored, newKeys, history>>
      /\ \A a \in Attempts : Made(a) =>
           Made(a)' /\ base'[a] = base[a] /\ index'[a] = index[a]
  BY DEF Loaded, Made, storage
<1>2. IndexesFit'
  BY <1>1 DEF Loaded, IndexesFit
<1>3. \A t \in Threads : Drawing(t)' => Drawing(t) /\ Made(drawing[t])
  BY <1>1 DEF Drawing, newKeys, DrawsFit
<1>4. \A t \in Threads : Drawing(t)' => drawing[t] \in Attempts
  BY <1>3 DEF Drawing
<1>5. DrawsFit' /\ DrawsDiffer'
  BY <1>1, <1>3, <1>4 DEF DrawsFit, DrawsDiffer, Drawing, newKeys
<1>6. DrawnIsNew'
  BY <1>1, <1>3, <1>4 DEF DrawnIsNew, Key, newKeys, history
<1>7. HandedWasCounted'
  BY <1>1 DEF HandedWasCounted, Key, history
<1> QED
  BY <1>1, <1>2, <1>5, <1>6, <1>7 DEF KeysUnique, history

LEMMA SaveKeepsKeys ==
  ASSUME TypeOK, KeysInv, NEW g \in Graphs, Save(g) \/ Disconnect(g)
  PROVE  KeysInv'
<1>1. UNCHANGED <<calls, base, index, newKeys, history>>
      /\ stored' = SavedIndexes(g)
  BY DEF Save, Disconnect
<1>2. \A p \in Prefixes : stored'[p] <= KeyLimit
  BY <1>1 DEF SavedIndexes, TypeOK, KeysInv, IndexesFit
<1> QED
  BY <1>1, <1>2 DEF KeysInv, IndexesFit, DrawsFit, DrawsDiffer, DrawnIsNew,
     HandedWasCounted, KeysUnique, Key, Drawing, Made, calls, newKeys, history

LEMMA DrawKeepsKeys ==
  ASSUME TypeOK, CallsInv, KeysInv, Careful,
         NEW t \in Threads, NEW g \in Graphs, Draw(t, g)
  PROVE  KeysInv'
<1> DEFINE a == generator[g]
<1>1. /\ a \in Attempts /\ Made(a) /\ index[a] < KeyLimit
      /\ index[a] \in Nat
      /\ UNCHANGED <<stored, stage, base, history>>
      /\ index' = [index EXCEPT ![a] = index[a] + 1]
      /\ drawn' = [drawn EXCEPT ![t] = index[a] + 1]
      /\ drawing' = [drawing EXCEPT ![t] = a]
  BY DEF Draw, TypeOK, CallsInv, GeneratorsMade, BelowLimit, Careful, Indexes,
     storage, calls
<1> HIDE DEF a
<1>2. IndexesFit'
  BY <1>1, SessionsAssumption DEF IndexesFit, KeysInv, TypeOK, Indexes
<1>3. \A u \in Threads : Drawing(u) => drawn[u] <= index'[drawing[u]]
  BY <1>1, SessionsAssumption
  DEF KeysInv, DrawsFit, TypeOK, Indexes, Drawing
<1>4. DrawsFit'
  BY <1>1, <1>3 DEF KeysInv, DrawsFit, TypeOK, Drawing, Made
<1>5. DrawsDiffer'
  <2>1. \A u \in Threads : drawing[u] = a => drawn[u] # index[a] + 1
    <3>1. \A u \in Threads : drawing[u] = a => drawn[u] <= index[a]
      BY <1>1, SessionsAssumption DEF KeysInv, DrawsFit, Drawing
    <3> QED  BY <1>1, <3>1, SessionsAssumption DEF TypeOK, Indexes
  <2> QED  BY <1>1, <2>1 DEF KeysInv, DrawsDiffer, TypeOK, Drawing
<1>6. Key(base[a], index[a] + 1) \notin handed
  <2>1. SUFFICES ASSUME NEW b \in Attempts, Made(b), NEW i \in 1 .. index[b],
                        Key(base[a], index[a] + 1) = Key(base[b], i)
                 PROVE  FALSE
    BY DEF KeysInv, HandedWasCounted
  <2>2. base[b] \in Nat /\ i \in 0 .. KeyLimit
    <3>1. i \in Nat /\ i <= index[b]
      BY DEF TypeOK, Indexes
    <3> QED  BY <3>1, IndexFits DEF KeysInv
  <2>3. base[a] \in Nat /\ index[a] + 1 \in 0 .. KeyLimit
    BY <1>1, SessionsAssumption DEF TypeOK, Prefixes
  <2>4. base[a] = base[b] /\ index[a] + 1 = i
    BY <2>1, <2>2, <2>3, KeyOnce
  <2>5. a = b
    BY <1>1, <2>1, <2>4, GeneratorsDiffer
  <2> QED  BY <1>1, <2>4, <2>5
<1>7. DrawnIsNew'
  BY <1>1, <1>6 DEF KeysInv, DrawnIsNew, TypeOK, Drawing, Key, history
<1>8. HandedWasCounted'
  <2>1. \A b \in Attempts : index[b] <= index'[b] /\ index[b] \in Nat
                            /\ index'[b] \in Nat
    BY <1>1 DEF TypeOK, Indexes
  <2>2. \A b \in Attempts : 1 .. index[b] \subseteq 1 .. index'[b]
    BY <2>1
  <2> QED  BY <1>1, <2>2 DEF KeysInv, HandedWasCounted, Made, Key, history
<1> QED
  BY <1>1, <1>2, <1>4, <1>5, <1>7, <1>8 DEF KeysInv, KeysUnique, history

LEMMA AnswerKeepsKeys ==
  ASSUME TypeOK, CallsInv, KeysInv, NEW t \in Threads, Answer(t)
  PROVE  KeysInv'
<1> DEFINE a == drawing[t]
           k == Key(base[a], drawn[t])
<1>1. /\ a \in Attempts /\ Made(a) /\ Drawing(t)
      /\ drawn[t] \in 1 .. index[a] /\ index[a] \in Nat
      /\ UNCHANGED <<stored, stage, base, index>>
      /\ handed' = handed \cup {k} /\ repeated' = repeated \cup ({k} \cap handed)
      /\ drawing' = [drawing EXCEPT ![t] = NoAttempt]
      /\ drawn' = [drawn EXCEPT ![t] = 0]
  BY DEF Answer, Return, TypeOK, KeysInv, DrawsFit, Drawing, Indexes, storage,
     calls
<1>2. base[a] \in Nat /\ drawn[t] \in 0 .. KeyLimit
  <2>1. drawn[t] \in Nat /\ drawn[t] <= index[a]
    BY <1>1
  <2> QED  BY <1>1, <2>1, IndexFits DEF KeysInv
<1> HIDE DEF a
<1>3. KeysUnique'
  <2>1. k \notin handed
    BY <1>1 DEF KeysInv, DrawnIsNew, a
  <2> QED  BY <1>1, <2>1 DEF KeysInv, KeysUnique
<1>4. IndexesFit' /\ DrawsFit' /\ DrawsDiffer'
  BY <1>1, SessionsAssumption
  DEF KeysInv, IndexesFit, DrawsFit, DrawsDiffer, TypeOK, Drawing, Made
<1>5. ASSUME NEW u \in Threads, Drawing(u)'
      PROVE  Key(base[drawing[u]], drawn[u]) \notin handed'
  <2>1. u # t /\ Drawing(u) /\ drawing[u] \in Attempts /\ Made(drawing[u])
        /\ drawn[u] \in Nat /\ drawn[u] <= index[drawing[u]]
    BY <1>1, <1>5, SessionsAssumption
    DEF TypeOK, Drawing, KeysInv, DrawsFit, Indexes
  <2>2. base[drawing[u]] \in Nat /\ drawn[u] \in 0 .. KeyLimit
    BY <2>1, IndexFits DEF KeysInv
  <2>3. Key(base[drawing[u]], drawn[u]) # k
    <3>1. SUFFICES ASSUME Key(base[drawing[u]], drawn[u]) = k PROVE FALSE
      OBVIOUS
    <3>2. base[drawing[u]] = base[a] /\ drawn[u] = drawn[t]
      BY <1>2, <2>2, <3>1, KeyOnce
    <3>3. drawing[u] = a
      BY <1>1, <2>1, <3>2, GeneratorsDiffer
    <3> QED  BY <2>1, <3>2, <3>3 DEF KeysInv, DrawsDiffer, a
  <2> QED  BY <1>1, <2>1, <2>3 DEF KeysInv, DrawnIsNew
<1>6. DrawnIsNew'
  <2>1. ASSUME NEW u \in Threads, Drawing(u)'
        PROVE  drawing'[u] = drawing[u] /\ drawn'[u] = drawn[u]
    BY <1>1, <2>1 DEF Drawing, TypeOK
  <2> QED  BY <1>1, <1>5, <2>1 DEF DrawnIsNew, Key
<1>7. HandedWasCounted'
  BY <1>1 DEF KeysInv, HandedWasCounted, Made, Key
<1> QED
  BY <1>3, <1>4, <1>6, <1>7 DEF KeysInv

\* What a step leaves of the keys when it changes none of their variables.
LEMMA OthersKeepKeys ==
  ASSUME TypeOK, KeysInv, UNCHANGED <<stored, base, index, drawn, history>>,
         \A a \in Attempts : Made(a) => Made(a)',
         \A t \in Threads : Drawing(t)' => drawing'[t] = drawing[t]
  PROVE  KeysInv'
<1>1. \A t \in Threads : Drawing(t)' => Drawing(t)
  BY DEF Drawing
<1>2. IndexesFit' /\ KeysUnique'
  BY DEF KeysInv, IndexesFit, KeysUnique, history
<1>3. DrawsFit'
  BY <1>1 DEF KeysInv, DrawsFit, TypeOK, Drawing
<1>4. DrawsDiffer'
  BY <1>1 DEF KeysInv, DrawsDiffer, Drawing
<1>5. DrawnIsNew'
  BY <1>1 DEF KeysInv, DrawnIsNew, Key, history
<1>6. HandedWasCounted'
  BY DEF KeysInv, HandedWasCounted, Key, history
<1> QED
  BY <1>2, <1>3, <1>4, <1>5, <1>6 DEF KeysInv

LEMMA NextKeepsKeys ==
  ASSUME TypeOK, CallsInv, KeysInv, Careful, [Next]_vars
  PROVE  KeysInv'
<1>1. CASE UNCHANGED vars
  BY <1>1, OthersKeepKeys DEF vars, history, Made, Drawing
<1>2. ASSUME NEW a \in Attempts, Answers(a), ~Loaded(a) PROVE KeysInv'
  <2>1. UNCHANGED <<stored, base, index, newKeys, history>>
        /\ \A b \in Attempts : Made(b) => Made(b)'
    BY <1>2 DEF Answers, ReadCounter, WriteCounter, LockThrows, Granted,
       LoadFails, Made, TypeOK, storage, graphs
  <2> QED  BY <2>1, OthersKeepKeys DEF newKeys
<1>3. ASSUME NEW g \in Graphs, NEW a \in Attempts, Connect(g, a)
      PROVE  KeysInv'
  <2>1. UNCHANGED <<stored, base, index, newKeys, history>>
        /\ \A b \in Attempts : Made(b) => Made(b)'
    BY <1>3 DEF Connect, Made, TypeOK, storage
  <2> QED  BY <2>1, OthersKeepKeys DEF newKeys
<1>4. ASSUME NEW g \in Graphs, Crash(g) PROVE KeysInv'
  <2>1. UNCHANGED <<stored, base, index, drawn, history, stage>>
        /\ \A t \in Threads : Drawing(t)' => drawing'[t] = drawing[t]
    BY <1>4 DEF Crash, Drawing, TypeOK, storage
  <2> QED  BY <2>1, OthersKeepKeys DEF Made
<1>5. CASE StorageCrash
  <2>1. UNCHANGED <<stored, base, index, newKeys, history>>
        /\ \A b \in Attempts : Made(b) => Made(b)'
    <3>1. PICK lost \in SUBSET {b \in Attempts : UnderWay(b)} :
             stage' = [b \in Attempts |-> IF b \in lost THEN "lost" ELSE stage[b]]
      BY <1>5 DEF StorageCrash
    <3>2. \A b \in Attempts : Made(b) => b \notin lost
      BY DEF Made, UnderWay
    <3> QED  BY <1>5, <3>1, <3>2 DEF StorageCrash, Made, storage
  <2> QED  BY <2>1, OthersKeepKeys DEF newKeys
<1>6. ASSUME NEW t \in Threads, Refuse(t) PROVE KeysInv'
  <2>1. UNCHANGED <<stored, base, index, history, stage>>
        /\ drawing' = [drawing EXCEPT ![t] = NoAttempt]
        /\ drawn' = [drawn EXCEPT ![t] = 0]
    BY <1>6 DEF Refuse, Return, storage, calls
  <2>2. \A u \in Threads : Drawing(u)' =>
          u # t /\ Drawing(u) /\ drawing'[u] = drawing[u] /\ drawn'[u] = drawn[u]
    BY <2>1 DEF Drawing, TypeOK
  <2>3. IndexesFit' /\ KeysUnique' /\ HandedWasCounted'
    BY <2>1 DEF KeysInv, IndexesFit, KeysUnique, HandedWasCounted, Made, Key,
       history
  <2>4. DrawsFit' /\ DrawnIsNew'
    BY <2>1, <2>2 DEF KeysInv, DrawsFit, DrawnIsNew, Made, Key, history
  <2>5. DrawsDiffer'
    BY <2>1, <2>2 DEF KeysInv, DrawsDiffer, Drawing, TypeOK
  <2> QED  BY <2>3, <2>4, <2>5 DEF KeysInv
<1> QED
  BY <1>1, <1>2, <1>3, <1>4, <1>5, <1>6, LoadedKeepsKeys, SaveKeepsKeys,
     DrawKeepsKeys, AnswerKeepsKeys DEF Next, Answers

-----------------------------------------------------------------------------
LEMMA InitEstablishesIInv == Init => IInv
<1>1. ASSUME Init PROVE CallsInv
  BY <1>1 DEF Init, CallsInv, CounterAhead, PrefixesDiffer, OneLive, PrefixKept,
     OwnPrefix, GeneratorsMade, HasPrefix, Live, UnderWay, Made
<1>2. ASSUME Init PROVE KeysInv
  BY <1>2, SessionsAssumption DEF Init, KeysInv, IndexesFit, DrawsFit,
     DrawsDiffer, DrawnIsNew, HandedWasCounted, KeysUnique, Drawing
<1> QED
  BY <1>1, <1>2, InitTyped DEF IInv

LEMMA NextKeepsIInv ==
  ASSUME IInv, Careful, [Next]_vars
  PROVE  IInv'
BY NextKeepsTypes, NextKeepsCalls, NextKeepsKeys DEF IInv

(* With the precautions the invariant of connect, lock and newKey holds in  *)
(* every state; the theorems below read off what each caller sees of it.    *)
THEOREM IInvHolds == ASSUME Careful PROVE Spec => []IInv
BY InitEstablishesIInv, NextKeepsIInv, PTL DEF Spec

(* With the precautions no id is ever given out twice (HeapGenChunk.newKey, *)
(* CoreGraph.connect and Storage.lock together).                            *)
THEOREM NoKeyTwice == ASSUME Careful PROVE Spec => []KeysUnique
<1>1. IInv => KeysUnique
  BY DEF IInv, KeysInv
<1> QED
  BY <1>1, IInvHolds, PTL

(* With the precautions connect makes each generator with the prefix the   *)
(* storage issued for it.                                                  *)
THEOREM PrefixIsOwn == ASSUME Careful PROVE Spec => []OwnPrefix
<1>1. IInv => OwnPrefix
  BY DEF IInv, CallsInv
<1> QED
  BY <1>1, IInvHolds, PTL

LEMMA IInvKeysInRange == IInv => KeysInRange
<1> SUFFICES ASSUME IInv, NEW k \in handed
             PROVE  \E a \in Attempts :
                      /\ Made(a)
                      /\ Key(base[a], 0) < k /\ k <= Key(base[a], index[a])
                      /\ k < Key(base[a] + 1, 0)
  BY DEF KeysInRange
<1>1. PICK a \in Attempts : Made(a) /\ \E i \in 1 .. index[a] : k = Key(base[a], i)
  BY DEF IInv, KeysInv, HandedWasCounted
<1>2. PICK i \in 1 .. index[a] : k = Key(base[a], i)
  BY <1>1
<1>3. index[a] \in Nat /\ i \in Nat
  BY DEF IInv, TypeOK, Indexes
<1>4. base[a] \in Nat /\ i \in 0 .. KeyLimit
  BY <1>2, <1>3, IndexFits DEF IInv, KeysInv
<1>5. base[a] * (KeyLimit + 1) \in Nat
  BY <1>4, SessionsAssumption
<1>6. Key(base[a], 0) < k /\ k <= Key(base[a], index[a])
  BY <1>2, <1>3, <1>5 DEF Key
<1>7. k < Key(base[a] + 1, 0)
  BY <1>2, <1>4, KeyOrder
<1> QED
  BY <1>1, <1>6, <1>7

(* With the precautions every id lies in the range of its own prefix.      *)
THEOREM KeysStayInRange == ASSUME Careful PROVE Spec => []KeysInRange
BY IInvKeysInRange, IInvHolds, PTL

=============================================================================
