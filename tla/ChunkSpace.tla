----------------------------- MODULE ChunkSpace -----------------------------
(***************************************************************************)
(* org.mwg.core.chunk.heap.HeapChunkSpace: the bounded cache every node of *)
(* the graph lives in. A chunk is found by its key (type, world, time, id) *)
(* through a hash table with chained buckets; it is pinned while its marks *)
(* are positive and recyclable, in FIFO order, once they fall to zero. A   *)
(* modified chunk takes an extra mark until the next save.                 *)
(*                                                                         *)
(* A method is one action, as in the single-threaded JavaScript build and  *)
(* on a graph driven by one thread (AtomicSpace, which wraps each method   *)
(* in a lock, is not what Builder uses). What interleaves is what the code *)
(* itself splits: the answers of an asynchronous storage, the chunks of a  *)
(* batch being saved, and a caller of declareDirty that found it full.     *)
(***************************************************************************)
EXTENDS LruOps, FiniteSets

CONSTANTS Keys,                 \* identities of chunks
          Buckets, Hash,        \* tripleHash: the bucket of a key
          Chunks, KeyOf,        \* chunk objects, and the key of each
          NoChunk,              \* null
          SaveBatchSize,        \* _saveBatchSize
          MaxRefs,              \* bound: references to one chunk
          MaxLoads              \* bound: loads in flight for one key

ASSUME SpaceAssumption ==
  /\ Hash \in [Keys -> Buckets]
  /\ KeyOf \in [Chunks -> Keys]
  /\ NoChunk \notin Chunks
  /\ SaveBatchSize \in 1 .. Capacity
  /\ MaxRefs \in Nat /\ MaxLoads \in Nat

VARIABLES values,               \* _values: the chunk in each slot
          chain,                \* _elementHash/_elementNext: slots of a bucket
          lru,                  \* _lru: the recyclable slots
          elementCount,         \* _elementCount
          marks, dirty,         \* _marks and DIRTY_BIT of each chunk object
          dirtyList,            \* the open InternalDirtyStateList
          saving,               \* slots of detached lists, not yet visited
          waiting,              \* slot of a declareDirty that found no room
          held,                 \* references callers still have to unmark
          loading               \* getOrLoadAndMark calls awaiting storage

table == <<values, chain, elementCount>>
saves == <<dirtyList, saving, waiting>>
vars  == <<values, chain, lru, elementCount, marks, dirty,
           dirtyList, saving, waiting, held, loading>>

TypeOK ==
  /\ values \in [Slots -> Chunks \cup {NoChunk}]
  /\ chain \in [Buckets -> SUBSET Slots]
  /\ lru \in Seq(Slots)
  /\ elementCount \in Int
  /\ marks \in [Chunks -> Int]
  /\ dirty \in [Chunks -> BOOLEAN]
  /\ dirtyList \in Seq(Slots)
  /\ saving \in Seq(Slots)
  /\ waiting \in Slots \cup {NoSlot}
  /\ held \in [Chunks -> Nat]
  /\ loading \in [Keys -> Nat]

Init ==
  /\ values = [m \in Slots |-> NoChunk]
  /\ chain = [b \in Buckets |-> {}]
  /\ lru = FullQueue
  /\ elementCount = 0
  /\ marks = [c \in Chunks |-> 0]
  /\ dirty = [c \in Chunks |-> FALSE]
  /\ dirtyList = <<>> /\ saving = <<>> /\ waiting = NoSlot
  /\ held = [c \in Chunks |-> 0]
  /\ loading = [k \in Keys |-> 0]

-----------------------------------------------------------------------------
(* Finding a chunk, taking and dropping a mark.                            *)

\* The walk along a bucket's chain that every method starts with.
Found(k) ==
  {m \in chain[Hash[k]] : values[m] # NoChunk /\ KeyOf[values[m]] = k}

Resident(c) == c \in Range(values)

\* A caller gets a reference to c, and owes one unmark for it.
Hand(c) == held[c] < MaxRefs /\ held' = [held EXCEPT ![c] = @ + 1]

Mark(c) == marks' = [marks EXCEPT ![c] = @ + 1]

\* unmark() of c, the chunk of slot m: recyclable when no mark is left.
UnmarkAt(c, m) ==
  /\ marks' = [marks EXCEPT ![c] = @ - 1]
  /\ lru' = IF marks[c] = 1 THEN Released(lru, m) ELSE lru

-----------------------------------------------------------------------------
(* getAndMark and getOrLoadAndMark                                         *)

\* The chunk is in use by somebody already.
GetShared(k) == \E m \in Found(k) :
  /\ marks[values[m]] # 0
  /\ Hand(values[m]) /\ Mark(values[m])
  /\ UNCHANGED <<table, lru, dirty, saves, loading>>

\* Mutant: a marked chunk stays in the queue of recyclable slots.
GetWithoutDequeue(k) == \E m \in Found(k) :
  /\ marks[values[m]] = 0 /\ Removable(lru, m)
  /\ Hand(values[m]) /\ Mark(values[m])
  /\ UNCHANGED <<table, lru, dirty, saves, loading>>

\* The chunk had no mark left: it is taken back from the recyclable slots.
GetRecycled(k) == \E m \in Found(k) :
  /\ marks[values[m]] = 0 /\ Removable(lru, m)
  /\ lru' = Without(lru, m)
  /\ Hand(values[m]) /\ Mark(values[m])
  /\ UNCHANGED <<table, dirty, saves, loading>>

\* The queue refuses to give the slot back. The caller gets null, and the
\* mark that was just taken stays.
Refuse(k) == \E m \in Found(k) :
  /\ marks[values[m]] = 0 /\ ~Removable(lru, m)
  /\ Mark(values[m])

GetRefused(k) ==
  /\ Refuse(k)
  /\ UNCHANGED <<table, lru, dirty, saves, held, loading>>

\* getOrLoadAndMark after getAndMark returned null: ask the storage.
Request(k) ==
  /\ loading[k] < MaxLoads
  /\ loading' = [loading EXCEPT ![k] = @ + 1]
  /\ UNCHANGED <<table, lru, dirty, saves, held>>

LoadAbsent(k)  == Found(k) = {} /\ Request(k) /\ UNCHANGED marks
LoadRefused(k) == Refuse(k) /\ Request(k)

-----------------------------------------------------------------------------
(* putAndMark                                                              *)

\* create: an object that neither the space nor a caller refers to.
Fresh(c) == ~Resident(c) /\ held[c] = 0

\* Mutant: the victim is not unlinked from its bucket.
LinkedTwice(v, c) ==
  [b \in Buckets |-> IF b = Hash[KeyOf[c]] THEN chain[b] \cup {v} ELSE chain[b]]

\* The chunk's slot v leaves the chain of the victim it held, if any, and
\* joins the chain of its new chunk.
Relinked(v, c) ==
  [b \in Buckets |->
     LET kept == IF values[v] # NoChunk /\ b = Hash[KeyOf[values[v]]]
                 THEN chain[b] \ {v} ELSE chain[b]
     IN  IF b = Hash[KeyOf[c]] THEN kept \cup {v} ELSE kept]

\* The key was not found: the slot released longest ago is given to c.
Insert(c) ==
  LET v == Head(lru) IN
  /\ Fresh(c) /\ lru # <<>> /\ MaxRefs > 0
  /\ lru' = Tail(lru)
  /\ values' = [values EXCEPT ![v] = c]
  /\ chain' = Relinked(v, c)
  /\ elementCount' = IF values[v] = NoChunk THEN elementCount + 1
                     ELSE elementCount
  /\ marks' = [marks EXCEPT ![c] = 1]
  /\ dirty' = [dirty EXCEPT ![c] = FALSE]
  /\ held' = [held EXCEPT ![c] = 1]
  /\ UNCHANGED saves

\* The resolver puts a chunk it has just created.
PutNew(k) == \E c \in Chunks :
  /\ KeyOf[c] = k /\ Found(k) = {}
  /\ Insert(c)
  /\ UNCHANGED loading

\* Mutant: the storage may answer a call that was answered before.
AnsweredAgain(k) == loading' = [loading EXCEPT ![k] = @ - 1]

Answered(k) ==
  /\ loading[k] > 0
  /\ loading' = [loading EXCEPT ![k] = @ - 1]

\* The storage knows nothing of the key, or the loaded chunk finds no slot
\* (putAndMark throws): the caller gets nothing.
LoadNothing(k) ==
  /\ Answered(k)
  /\ UNCHANGED <<table, lru, marks, dirty, saves, held>>

\* Mutant: the loaded chunk is put without looking the key up again.
LoadInsertsBlindly(k) == \E c \in Chunks :
  /\ KeyOf[c] = k
  /\ Answered(k)
  /\ Insert(c)

LoadInserts(k) == \E c \in Chunks :
  /\ KeyOf[c] = k /\ Found(k) = {}
  /\ Answered(k)
  /\ Insert(c)

\* Another chunk of the key got in first: putAndMark returns that one, and
\* the mark it took is on the object it throws away.
LoadFindsOther(k) == \E m \in Found(k) :
  /\ Answered(k)
  /\ held[values[m]] - marks[values[m]] < MaxRefs
  /\ Hand(values[m])
  /\ UNCHANGED <<table, lru, marks, dirty, saves>>

-----------------------------------------------------------------------------
(* unmarkChunk and unmark                                                  *)

GiveBack(c) == held[c] > 0 /\ held' = [held EXCEPT ![c] = @ - 1]

\* unmarkChunk drops the mark of the object it is given; the slot is looked
\* up by key.
UnmarkChunk(c) ==
  /\ GiveBack(c)
  /\ \/ Found(KeyOf[c]) = {} /\ marks' = [marks EXCEPT ![c] = @ - 1]
        /\ UNCHANGED lru
     \/ \E m \in Found(KeyOf[c]) : UnmarkAt(c, m)
  /\ UNCHANGED <<table, dirty, saves, loading>>

\* unmark drops the mark of whatever object now has the key.
Unmark(c) ==
  /\ GiveBack(c)
  /\ \/ Found(KeyOf[c]) = {} /\ UNCHANGED <<marks, lru>>
     \/ \E m \in Found(KeyOf[c]) : UnmarkAt(values[m], m)
  /\ UNCHANGED <<table, dirty, saves, loading>>

-----------------------------------------------------------------------------
(* declareDirty, detachDirties and the save loop                           *)

\* Mutant: the chunk that waits to be saved takes no mark.
DirtyWithoutMark(c) == \E m \in Found(KeyOf[c]) :
  /\ waiting = NoSlot
  /\ held[c] > 0 /\ ~dirty[values[m]]
  /\ dirty' = [dirty EXCEPT ![values[m]] = TRUE]
  /\ IF Len(dirtyList) < SaveBatchSize
     THEN dirtyList' = Append(dirtyList, m) /\ UNCHANGED waiting
     ELSE waiting' = m /\ UNCHANGED dirtyList
  /\ UNCHANGED <<table, lru, marks, saving, held, loading>>

\* A caller changes a chunk it holds. The first change since the last save
\* sets the flag, takes a mark for the save and enlists the slot; when the
\* list is full the caller saves it and tries again.
DeclareDirty(c) == \E m \in Found(KeyOf[c]) :
  /\ waiting = NoSlot           \* bound: one caller inside the retry loop
  /\ held[c] > 0 /\ ~dirty[values[m]]
  /\ dirty' = [dirty EXCEPT ![values[m]] = TRUE]
  /\ Mark(values[m])
  /\ IF Len(dirtyList) < SaveBatchSize
     THEN dirtyList' = Append(dirtyList, m) /\ UNCHANGED waiting
     ELSE waiting' = m /\ UNCHANGED dirtyList
  /\ UNCHANGED <<table, lru, saving, held, loading>>

\* Mutant: after the forced save the caller forgets its own chunk.
RetryForgotten ==
  /\ waiting # NoSlot /\ Len(dirtyList) < SaveBatchSize
  /\ waiting' = NoSlot
  /\ UNCHANGED <<table, lru, marks, dirty, dirtyList, saving, held, loading>>

RetryDirty ==
  /\ waiting # NoSlot /\ Len(dirtyList) < SaveBatchSize
  /\ dirtyList' = Append(dirtyList, waiting)
  /\ waiting' = NoSlot
  /\ UNCHANGED <<table, lru, marks, dirty, saving, held, loading>>

\* Mutant: the detached list is not iterated.
DirtiesDropped ==
  /\ dirtyList # <<>> /\ saving = <<>>
  /\ dirtyList' = <<>>
  /\ UNCHANGED <<table, lru, marks, dirty, saving, waiting, held, loading>>

\* graph.save(): the open list is swapped for an empty one.
DetachDirties ==
  /\ dirtyList # <<>>
  /\ saving = <<>>              \* bound: one save loop at a time
  /\ saving' = dirtyList
  /\ dirtyList' = <<>>
  /\ UNCHANGED <<table, lru, marks, dirty, waiting, held, loading>>

NeedsSave(m) == values[m] # NoChunk /\ dirty[values[m]]

\* Mutant: the mark of the save is dropped without releasing the slot.
SaveKeepsSlot ==
  /\ saving # <<>> /\ NeedsSave(Head(saving))
  /\ dirty' = [dirty EXCEPT ![values[Head(saving)]] = FALSE]
  /\ marks' = [marks EXCEPT ![values[Head(saving)]] = @ - 1]
  /\ saving' = Tail(saving)
  /\ UNCHANGED <<table, lru, dirtyList, waiting, held, loading>>

\* One turn of the save loop: a dirty chunk is written and declared clean.
SaveChunk ==
  /\ saving # <<>> /\ NeedsSave(Head(saving))
  /\ dirty' = [dirty EXCEPT ![values[Head(saving)]] = FALSE]
  /\ UnmarkAt(values[Head(saving)], Head(saving))
  /\ saving' = Tail(saving)
  /\ UNCHANGED <<table, dirtyList, waiting, held, loading>>

SkipChunk ==
  /\ saving # <<>> /\ ~NeedsSave(Head(saving))
  /\ saving' = Tail(saving)
  /\ UNCHANGED <<table, lru, marks, dirty, dirtyList, waiting, held, loading>>

-----------------------------------------------------------------------------
Hits(k) == GetShared(k) \/ GetRecycled(k)

Replies(k) == LoadNothing(k) \/ LoadInserts(k) \/ LoadFindsOther(k)

Uses(c) == UnmarkChunk(c) \/ Unmark(c) \/ DeclareDirty(c)

Saves == RetryDirty \/ DetachDirties \/ SaveChunk \/ SkipChunk

Next ==
  \/ \E k \in Keys : \/ Hits(k) \/ GetRefused(k)
                     \/ LoadAbsent(k) \/ LoadRefused(k) \/ Replies(k)
                     \/ PutNew(k)
  \/ \E c \in Chunks : Uses(c)
  \/ Saves

Spec == Init /\ [][Next]_vars

(***************************************************************************)
(* The use under which the cache keeps its promises: nobody asks again for *)
(* an unmarked chunk whose slot is the last recyclable one, and a key that *)
(* is being loaded is neither loaded a second time nor put.                *)
(***************************************************************************)
CarefulNext ==
  \/ \E k \in Keys : \/ Hits(k) \/ Replies(k)
                     \/ loading[k] = 0 /\ (LoadAbsent(k) \/ PutNew(k))
  \/ \E c \in Chunks : Uses(c)
  \/ Saves

CarefulSpec == Init /\ [][CarefulNext]_vars

\* A save that has begun goes on, its caller retries, and the application
\* calls save() again and again.
FairSpec == CarefulSpec /\ WF_vars(DetachDirties) /\ WF_vars(RetryDirty)
                        /\ WF_vars(SaveChunk \/ SkipChunk)

-----------------------------------------------------------------------------
(* Whatever the callers do.                                                *)

\* The chains index exactly the occupied slots, each under the hash
\* of its chunk. putAndMark unlinks its victim from the victim's bucket and
\* links the slot into another one; a slot lost by one and not found by the
\* other would be a chunk no lookup reaches.
ChainsIndexValues ==
  \A m \in Slots, b \in Buckets :
    m \in chain[b] <=> values[m] # NoChunk /\ Hash[KeyOf[values[m]]] = b

\* Safety: a key has at most one chunk in the space, although two loads of
\* it may be in flight and a put may pass them.
OneChunkPerKey ==
  \A m, n \in Slots :
    values[m] # NoChunk /\ values[n] # NoChunk
      /\ KeyOf[values[m]] = KeyOf[values[n]] => m = n

\* Safety: a slot is recyclable at most once (a slot twice in the queue
\* would be given to two chunks), and a slot outside the queue is one that
\* a marked chunk occupies: no slot of the bounded space is ever lost.
NoSlotLost ==
  /\ IsInjective(lru)
  /\ \A m \in Slots : ~Enqueued(lru, m) =>
       values[m] # NoChunk /\ marks[values[m]] > 0

\* size() is the number of occupied slots: the count grows only when the
\* slot a put takes was empty, and free slots are taken from the same queue.
CountIsExact ==
  elementCount = Cardinality({m \in Slots : values[m] # NoChunk})

\* Safety: whatever was put and evicted, the hash table and its count agree
\* with the slots.
TableIsExact == ChainsIndexValues /\ CountIsExact

-----------------------------------------------------------------------------
(* Under careful use.                                                      *)

Bit(b) == IF b THEN 1 ELSE 0

\* Safety: a chunk's marks are the references handed out and one more while
\* it waits to be saved; so what callers hold can never be recycled.
MarksAreReferences ==
  \A c \in Chunks :
    /\ Resident(c) => marks[c] = held[c] + Bit(dirty[c])
    /\ held[c] > 0 => Resident(c)

\* Safety: the recyclable slots are the empty ones and those of unmarked
\* chunks: putAndMark never evicts a chunk in use or with unsaved changes.
OnlyUnmarkedRecyclable ==
  \A m \in Slots :
    Enqueued(lru, m) <=> (values[m] = NoChunk \/ marks[values[m]] = 0)

\* The slots somebody has still to visit for a save.
Pending == Range(dirtyList) \cup Range(saving) \cup ({waiting} \ {NoSlot})

\* Safety: a chunk with unsaved changes is enlisted for saving exactly once:
\* in the open list, in a list being saved, or with the caller that retries.
DirtyIsEnlisted ==
  /\ IsInjective(dirtyList) /\ IsInjective(saving)
  /\ Range(dirtyList) \cap Range(saving) = {}
  /\ waiting \notin Range(dirtyList) \cup Range(saving)
  /\ \A m \in Slots : NeedsSave(m) <=> m \in Pending

\* Liveness: every change is saved some time after it was made, also when
\* the list was full.
ChangesGetSaved == \A c \in Chunks : dirty[c] ~> ~dirty[c]

=============================================================================
