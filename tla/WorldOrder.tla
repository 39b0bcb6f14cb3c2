----------------------------- MODULE WorldOrder ------------------------------
(* HeapWorldOrderChunk: the hash map of a node's (or the graph's) worlds. The *)
(* entries lie in one flat array of alternating keys and values, chained per  *)
(* bucket; a put holds the chunk's monitor, a get and a save hold nothing, so *)
(* a put of a new key is several steps here. Map is what it promises.         *)
EXTENDS Integers, Sequences

CONSTANTS Keys,             \* worlds, numbers as their values are
          Values,           \* times
          NoValue,          \* CoreConstants.NULL_LONG
          Hash,             \* PrimitiveHelper.longHash before the modulo
          InitialCapacity,  \* CoreConstants.MAP_INITIAL_CAPACITY
          NoPut,
          Careless          \* what callers do not avoid, see the guards

ASSUME OrderAssumption ==
    /\ Keys \cup Values \subseteq Nat
    /\ NoValue \notin Values
    /\ Hash \in [Keys -> Nat]
    /\ InitialCapacity \in Nat \ {0}
    /\ NoPut \notin [key : Keys, value : Values]
    /\ Careless \subseteq {"growth after load", "updates", "concurrent saves"}

VARIABLES state,    \* the InternalState
          magic,    \* _magic
          dirty,    \* the dirty flag: a save is due
          stored,   \* the pairs the last save wrote, in their order
          putting   \* the tuple a put has counted and not linked yet

vars == <<state, magic, dirty, stored, putting>>

-----------------------------------------------------------------------------
(* The arrays.                                                               *)

NoEntry == -1       \* no entry, or an entry that is not linked
EndOfChain == -2    \* "special char to tag used values"

Entries(s) == 0 .. s.count - 1
KeyAt(s, i) == s.kv[2 * i]
ValueAt(s, i) == s.kv[2 * i + 1]
Bucket(s, k) == Hash[k] % s.size

\* Mutant: growth one entry too late.
ThresholdLate(s) == s.size + 1

\* MAP_LOAD_FACTOR is .75, and the product is cut to an integer.
Threshold(s) == (s.size * 3) \div 4

Blank(size) == [size  |-> size,
                kv    |-> [c \in 0 .. 2 * size - 1 |-> 0],
                next  |-> [i \in 0 .. size - 1 |-> NoEntry],
                hash  |-> [b \in 0 .. size - 1 |-> NoEntry],
                count |-> 0]

\* findNonNullKeyEntry: the entry of a key along the chain of its bucket.
EntryOf(s, k) ==
    LET Walk[m \in EndOfChain .. s.size - 1] ==
            IF m < 0 THEN NoEntry
            ELSE IF KeyAt(s, m) = k THEN m ELSE Walk[s.next[m]]
    IN  Walk[s.hash[Bucket(s, k)]]

Get(s, k) == IF EntryOf(s, k) = NoEntry THEN NoValue ELSE ValueAt(s, EntryOf(s, k))

\* The flat array is indexed by the entry itself when a value is replaced.
ValueCell(e) == e + 1

Filled(s, i, k, v) == [s EXCEPT !.kv[2 * i] = k, !.kv[2 * i + 1] = v]

\* Mutant: the chain the entry is put before is lost.
LinkedAlone(s, i, last) ==
    [s EXCEPT !.next[i] = last, !.hash[Bucket(s, KeyAt(s, i))] = i]

\* Entry i becomes the head of the chain of its key; `last` marks the end.
Linked(s, i, last) ==
    LET b == Bucket(s, KeyAt(s, i))
    IN  [s EXCEPT !.next[i] = IF s.hash[b] # NoEntry THEN s.hash[b] ELSE last,
                  !.hash[b] = i]

\* rehashCapacity: twice the size, and every entry with a next ("there is a
\* real value") linked again.
Grown(s) ==
    LET bigger == [Blank(2 * s.size) EXCEPT
                       !.count = s.count,
                       !.kv = [c \in DOMAIN @ |-> IF c \in DOMAIN s.kv THEN s.kv[c] ELSE 0]]
        Relinked[n \in 0 .. s.size] ==
            IF n = 0 THEN bigger
            ELSE IF s.next[n - 1] = NoEntry THEN Relinked[n - 1]
            ELSE Linked(Relinked[n - 1], n - 1, EndOfChain)
    IN  Relinked[s.size]

\* load: the pairs in the order they were saved; chains end with NoEntry.
Loaded(pairs) ==
    LET Reading[n \in 0 .. Len(pairs)] ==
            IF n = 0 THEN [Blank(IF pairs = <<>> THEN 1 ELSE 2 * Len(pairs))
                               EXCEPT !.count = Len(pairs)]
            ELSE Linked(Filled(Reading[n - 1], n - 1, pairs[n][1], pairs[n][2]),
                        n - 1, NoEntry)
    IN  Reading[Len(pairs)]

\* save and each: the first `count` entries as they lie.
Pairs(s) == [n \in 1 .. s.count |-> <<KeyAt(s, n - 1), ValueAt(s, n - 1)>>]

-----------------------------------------------------------------------------

Init == /\ state = Blank(InitialCapacity)
        /\ magic = 0
        /\ dirty = FALSE
        /\ stored = <<>>
        /\ putting = NoPut

SetDirty == magic' = magic + 1 /\ dirty' = TRUE

Absent(k) == EntryOf(state, k) = NoEntry

Counted(s) == [s EXCEPT !.count = @ + 1]

PutBegins(k, v, grown) ==
    /\ putting = NoPut
    /\ Absent(k)
    /\ putting' = [key |-> k, value |-> v]
    /\ state' = grown
    /\ UNCHANGED <<magic, dirty, stored>>

\* Mutant: the key is not looked for first.
PutCountsBlindly(k, v) ==
    /\ putting = NoPut
    /\ state.count + 1 <= Threshold(state)
    /\ putting' = [key |-> k, value |-> v]
    /\ state' = Counted(state)
    /\ UNCHANGED <<magic, dirty, stored>>

\* The count goes up before anything else of the put is visible.
PutCounts(k, v) ==
    /\ state.count + 1 <= Threshold(state)
    /\ PutBegins(k, v, Counted(state))

\* Careful callers do not make a map grow whose chains a load has built.
PutGrows(k, v) ==
    /\ state.count + 1 > Threshold(state)
    /\ \/ "growth after load" \in Careless
       \/ \A i \in Entries(state) : state.next[i] # NoEntry
    /\ PutBegins(k, v, Grown(Counted(state)))

IsFilled == /\ KeyAt(state, state.count - 1) = putting.key
            /\ ValueAt(state, state.count - 1) = putting.value

PutFills ==
    /\ putting # NoPut
    /\ ~IsFilled
    /\ state' = Filled(state, state.count - 1, putting.key, putting.value)
    /\ UNCHANGED <<magic, dirty, stored, putting>>

PutLinks ==
    /\ putting # NoPut
    /\ IsFilled
    /\ state' = Linked(state, state.count - 1, EndOfChain)
    /\ SetDirty
    /\ putting' = NoPut
    /\ UNCHANGED stored

\* A put of a key that is there. Careful callers replace the value of the
\* first entry only: that is the one whose cell is computed right.
PutReplaces(k, v) ==
    LET cell == ValueCell(EntryOf(state, k))
    IN  /\ putting = NoPut
        /\ ~Absent(k)
        /\ "updates" \in Careless \/ EntryOf(state, k) = 0
        /\ state.kv[cell] # v
        /\ state' = [state EXCEPT !.kv[cell] = v]
        /\ SetDirty
        /\ UNCHANGED <<stored, putting>>

\* A chunk is saved because it is dirty. Careful callers do not save while
\* another thread is inside put.
Save ==
    /\ dirty
    /\ putting = NoPut \/ "concurrent saves" \in Careless
    /\ stored' = Pairs(state)
    /\ dirty' = FALSE
    /\ UNCHANGED <<state, magic, putting>>

\* The clean chunk was evicted, or the graph restarted: a new chunk object.
Load ==
    /\ ~dirty
    /\ putting = NoPut
    /\ stored # <<>>
    /\ state' = Loaded(stored)
    /\ magic' = 0
    /\ UNCHANGED <<dirty, stored, putting>>

Next == \/ \E k \in Keys, v \in Values :
              PutCounts(k, v) \/ PutGrows(k, v) \/ PutReplaces(k, v)
        \/ PutFills
        \/ PutLinks
        \/ Save
        \/ Load

Spec == Init /\ [][Next]_vars

-----------------------------------------------------------------------------
(* Properties.                                                               *)

\* Shapes: the entries fit in their arrays, and links stay inside of them.
TypeOK ==
    /\ state.size \in Nat \ {0}
    /\ state.count \in 0 .. state.size
    /\ state.kv \in [0 .. 2 * state.size - 1 -> Keys \cup Values \cup {0}]
    /\ state.next \in [0 .. state.size - 1 -> EndOfChain .. state.size - 1]
    /\ state.hash \in [0 .. state.size - 1 -> NoEntry .. state.size - 1]
    /\ magic \in Nat
    /\ dirty \in BOOLEAN
    /\ stored \in Seq((Keys \cup {0}) \X (Values \cup {0}))
    /\ putting \in {NoPut} \cup [key : Keys, value : Values]

\* The entries before the one a put is busy with are what get finds: each is
\* reached through the chain of its key, so no key has two and none is lost
\* by growth, and size() and each() tell of the same keys as get().
EntriesAreFound ==
    \A i \in Entries(state) :
        \/ i = state.count - 1 /\ putting # NoPut
        \/ EntryOf(state, KeyAt(state, i)) = i

\* The map as callers can read it, and as a load would bring it back.
Readable == [k \in Keys |-> Get(state, k)]
Saved == [k \in Keys |->
             IF \E n \in 1 .. Len(stored) : stored[n][1] = k
             THEN LET n == CHOOSE n \in 1 .. Len(stored) : stored[n][1] = k
                  IN  stored[n][2]
             ELSE NoValue]

Map == INSTANCE LongMap WITH map <- Readable, stored <- Saved

\* At every step of a put, and through saves and loads, get answers as a map
\* does that changes in one step, and the magic moves with each change.
ImplementsLongMap == Map!Spec

\* What was put is there to be read, whatever is put beside it or loaded
\* (LongLongMap.get: "Retrieve the value inserted with the param key").
InsertedIsRetrieved ==
    [][\A k \in Keys : ~Absent(k) => EntryOf(state', k) # NoEntry]_vars

=============================================================================
