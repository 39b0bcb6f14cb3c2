# A TLA+ development of mwDB

mwDB (`org.mwg`) is a graph database whose nodes live in many worlds and at
many times. A node is not one value: it is, for each world and each time, the
state that was last written at or before that time in that world or in the
nearest ancestor world. Everything is kept in chunks (state, time tree, world
order, key generator), and all chunks live in one bounded cache, the *chunk
space*, in front of an asynchronous key-value storage.

This directory holds the TLA+ modules that model the system, the TLC
configurations that check them on small instances, and TLAPS proofs of the
properties that matter most, for every instance.

## 1. The parts of the system

Paths are relative to `src/core/src/main/java/org/mwg/core` unless they start
with `api` or `plugins`.

| part | state it keeps | operations | who calls it |
|---|---|---|---|
| slot queue `chunk/heap/FixedStack` | `_next`, `_prev`, `_first`, `_last`, `_count` | `enqueue`, `dequeueTail`, `dequeue` | the chunk space, one lock per call |
| chunk space `chunk/heap/HeapChunkSpace` | `_values`, `_elementHash`, `_elementNext`, `_lru`, `_elementCount`, `_dirtyState`; marks and flags in the chunks | `getAndMark`, `getOrLoadAndMark`, `create`, `putAndMark`, `unmark`, `unmarkChunk`, `declareDirty`, `detachDirties`, `declareClean` | resolver, graph, and the storage's callbacks |
| chunks `chunk/heap/Heap*Chunk` | red-black tree of times, hash map of worlds, attributes of a state, counter of a key generator; a magic number that changes with the content | `insert`, `previousOrEqual`, `clearAt`, `put`, `get`, `set`, `newKey`, `save`, `load`, `merge` | resolver and nodes |
| resolver `MWGResolver` | per node handle a tuple of resolved world, super time, time and the three magics it was resolved with | `initNode`, `initWorld`, `freeNode`, `lookup`, `resolveState`, `newState` | graph and nodes |
| graph `CoreGraph` | connected flag and its spin lock, key generators, plugins | `connect`, `disconnect`, `save`, `newNode`, `diverge`, `lookup`, `index`, `find` | the application |
| node `api/plugin/AbstractNode` | world, time, id, resolved tuple | `get`, `set`, `rel`, `jump`, `index`, `phasePoint`, `rephase`, `free` | the application |
| schedulers `scheduler/*` | queue of jobs, work-in-progress counter, running flag | `dispatch`, `start`, `stop` | graph, tasks |
| defer counters `utility/CoreDeferCounter*` | number of answers, the callback | `count`, `then`, `waitResult` | graph, nodes, tasks |
| task engine `task/*` | actions and hooks of a task; variables, result and index of a context | `execute`, `continueTask`, `foreachPar`, ... | the application |
| storages `BlackHoleStorage`, `plugins/leveldb`, `plugins/rocksdb`, `plugins/websocket` | the bytes of every chunk | `get`, `put`, `lock`, `unlock` | graph and resolver, asynchronously |
| off-heap twins `chunk/offheap/*` | the same structures in raw memory | the same | the same |

How they interact. A node method calls the resolver, which marks the chunks it
needs in the space (loading from the storage, asynchronously, those that are
absent), reads or changes them, and unmarks them. A change declares the chunk
dirty, which enlists it for the next save and pins it until then. `save`
detaches the list of dirty chunks and writes them to the storage. When the
space is full, a put evicts the chunk that has been without marks for longest.

What is hard:

* everything the caller knows of the cache may be stale after a callback: a
  chunk may have been evicted, loaded again as another object, or put by
  somebody else in the meantime;
* marks are counted by hand in about a hundred places, with error paths;
* the dirty list is bounded and its overflow forces a save from within an
  update;
* time trees split when they grow, so what a handle resolved may have moved;
* the graph is advertised with "thread safety requirements in mind"
  (`README.md:13`), while the default space takes no lock.

## 2. The plan

The most important behaviour comes first: what keeps a chunk in memory, then
what finds the right state in it, then what happens around both when calls
overlap, fail or are interrupted.

| step | modules | question | status |
|---|---|---|---|
| 1 | `LruOps`, `LruQueue`, `FixedStack` | do the linked arrays promise and keep a FIFO of slots? | checked, proved |
| 2 | `ChunkSpace` | is a chunk in use ever evicted, a slot lost, a change not saved? | checked; safety proved |
| 3 | `Timelines`, `Resolver` | does a node read the latest state of its world and time, and are the marks balanced? | checked; safety and refinement proved |
| 4 | `LongMap`, `WorldOrder` | does the hash map implement the map `Resolver` uses, through growth, save, load and reads without a lock? | checked; safety and refinement proved |
| 5 | `TimeSet`, `TimeTree` | does the red-black tree implement the set `Resolver` uses, through clearing, save, load and merge? | checked |
| 6 | `DurableStore`, `SavePipeline` | is a change that was declared clean in the storage, and a confirmed one after a crash? | checked; safety and refinement proved |
| 7 | `Sessions` | are ids unique across threads, sessions, graphs and crashes? | checked; safety proved |
| 8 | `Attributes`, `StateChunk` | does a state that shares its arrays with its clones behave as one of its own? | checked; safety and refinement proved |
| 9 | `LookupStages` | what does a lookup remember of trees that changed between its asynchronous stages? | open |
| 10 | `ResolverThreads` | the statements of `resolveState` under the world order's lock | open |
| 11 | `DeferCounter`, `JobQueue`, `TaskEngine` | a callback run once, queued jobs that run, one answer per element | open |

Open theorems: none but those of `TimeTree`, which is written with recursive operators and stays with TLC.

## 3. The modules and the code

A module that proves anything is free of recursive operators (recursive
functions are not operators, and are used). `map` in
`PROJECT.json` names the lines of every definition.

### `LruOps`, `LruQueue`, `FixedStack`

The slots of the space that may be reused are a FIFO, kept as a doubly linked
list in two `int` arrays. `FixedStack` has the arrays (`next`, `prev`), the ends
and the count as variables, and one action per outcome of `enqueue`, `dequeue`
and `dequeueTail`; a method runs under one `ReentrantLock`, so it is one action.
`LruQueue` is the promise: a sequence of distinct slots. `LruOps` has the
operators both, and `ChunkSpace`, are written with.

One thing the arrays cannot do is part of the promise: `dequeue` (:104) takes a
slot without neighbours to be outside the list, so it refuses the only slot of a
list of one. `LruOps!Removable` says so, and `ChunkSpace` has the consequence.
(`FixedStackTest` only dequeues slots that have neighbours.)

### `ChunkSpace`

| variable | code |
|---|---|
| `values`, `chain`, `elementCount` | `_values`; `_elementHash` and `_elementNext` as the set of slots of each bucket; `_elementCount` |
| `lru` | `_lru`, as the queue `FixedStack` implements |
| `marks`, `dirty` | `_marks` and the dirty flag of each chunk object |
| `dirtyList`, `saving`, `waiting` | the open `InternalDirtyStateList`; what the save loop of `CoreGraph.saveDirtyList` has still to visit; the slot of a `declareDirty` that found the list full |
| `held`, `loading` | what the callers owe: unmarks, and answers of the storage |

A key and a chunk object are different things: `Chunks` may hold two objects of
one key, so that a caller can hold one that has been evicted while another took
its place. The hash is a constant function. The storage is external: it answers
each load once, at any later time, with a chunk or with nothing.

`Spec` lets the callers do anything the code can be made to do; `CarefulSpec` is
what they must respect to be served correctly: (1) nobody asks again for an
unmarked chunk whose slot is the last recyclable one, because `getAndMark` (:174)
then returns null and leaves the mark it took (`GetRefused`); (2) a key that is
being loaded is neither loaded a second time nor put, because `putAndMark`
(:371) hands out the chunk that was there first without a mark
(`LoadFindsOther`). The code does not enforce either; both are hazards of the
list. `FairSpec` adds weak fairness of the save loop, of the retry of
`declareDirty` (its loop in the code spins until it has room) and of
`DetachDirties`: the last is an assumption about the application, which has to
call `save()` again and again.

A method is one action. That is right for the JavaScript build and for a graph
driven by one thread. `Builder` takes a plain `HeapChunkSpace`; `AtomicSpace`, a
wrapper that would lock every method, exists but is not used by it. What happens
inside `declareDirty`, `save` and a load is the subject of `SavePipeline`.

### `Timelines`, `Resolver`

`Timelines` is the promise for one node: a set of (world, time) states; a read
in a world at a time returns the latest state at or before it, in that world or
in the nearest ancestor; a write adds exactly the state of its world and time.

`Resolver` is `MWGResolver` for one node of the graph. The world order
(`order`), the super time tree of each world and the time trees below it
(`tree`, one function: `Super(w)` is the key of a super tree) and the states are
chunks, each with its magic (`magic`, `orderMagic`; counted by each chunk from
zero, as in the code) and its marks. A `handle` is a `Node` object with the
tuple `_previousResolveds`; `answer` is the state the last call returned.

| action | code |
|---|---|
| `Fork` | `CoreGraph.diverge`, `initWorld` |
| `NewNode`, `Lookup`, `Clone`, `Free` | `initNode`, `lookup`, `cloneNode`, `freeNode` |
| `Get` = `InPhase`, `Unresolvable`, `GetSame`, `GetRephased`, `GetMisses`, `RephaseFails` | `resolveState(node, true)` and its early returns |
| `Phase` = the same and `PhaseInserts`, `PhaseSplitsLeft`, `PhaseSplitsRight`, `PhaseDiverges`, `PhaseMisses` | `resolveState(node, false)`: clone the state, insert its time, split a full tree, or begin a timeline |
| `NewState` = `NewInserts`, `NewSplits`, `NewDiverges`, `NewThere`, `NewRefused`, `NewMisses` | `newState` |

A call is one action: the other calls of a node are synchronous and take the
lock of the world order, and a lookup is taken with all chunks in the cache.
Time trees are sets with a magic; that the red-black tree is one is step 5.

`Careless` is the set of things the callers do *not* take care of. With
`Careless = {}` they

* look a node up again before they read if its world has diverged since (else
  *stale reads*), or if an earlier read has followed a split (*split reads*),
  and before they write (*stale writes*);
* do not write in a world before the time it diverged (*early writes*);
* clone only nodes that are in phase (*dephased clones*);
* pass `newState` times above the magics it compares them with (*small times*),
  and not before the state the node is resolved to, nor after the node's own
  time (*outer times*).

Then, and as far as the runs go only then, the code keeps the promise. Each
flag removes one of these cares. Two ghost variables tell the properties who
took care: `strayed` becomes true with the first call that neglects any care but
that of *split reads*, and `followed` has the `Node` objects that moved to another
tree of their world since they were resolved. Why each care is there:

* *stale reads*: `resolveState` compares super times only, so it keeps the old
  world's time tree when the super times of both worlds are equal (:679). The
  run `resolver_latest` shows an old state being returned.
* *split reads*: the first read after a split moves the node to the tree that
  now has its time, but `resolveState` then stores the magics of the trees the
  node has *left* (:725; `newState` does the same, and stores the right tree's
  magic as that of the super tree). When the tree the node is now in has seen
  that many insertions, the tuple looks current although it is not (:604, :656).
  So it is *reading again* after a read has followed a split (`SplitRead`) that
  needs care. Without the care `KeepsPromises` is violated in one world with six
  times; `MarksFollowSplits` says what remains true.
* *stale writes*: the exact state may have been created through another `Node`
  since; the clone that `putAndMark` did not insert is handed out (:734), and
  what is written into it is lost.
* *early writes*: the time goes into the parent's tree (:740), so a write in a
  fork changes what the parent reads.
* *small times*: `newState` (:382) compares its time with the magic of the time
  tree. A node that was just created has NULL_LONG there, which is
  `0x1FFFFFFFFFFFFF`, above `END_OF_TIME`, so every time is refused; a node with
  a long history refuses times below the number of its insertions.
* *outer times*: the exception of `newState` (:383) speaks of the resolved
  state, but as :382 compares with that magic, a time before the resolved state
  goes into the tree the node is resolved to, and so does a time that belongs to
  a later tree. Let the first state of a node be at 10000 and the threshold
  2000: `newState` takes 2001, 2002 and so on until the tree splits, and 10000
  moves to the right tree, which is registered at the median. A lookup at 10000
  goes to the left tree, which is registered at 10000, and misses the first
  state. With this flag TLC finds `FirstKept` violated; `TypeOK` and `LockKept`
  hold on the same instance. When the median is the time the tree is
  registered at, the tree becomes its own right half, and the call waits for the
  lock it holds (the guard of `NewSplits`).
* *dephased clones*: `cloneNode` (:67) copies the resolved tuple but marks the
  chunks of the node's own world and time; of a node that is not in phase the
  copy holds no mark on the state it resolved, and freeing it drops the mark of
  the original. With this flag alone `MarksBalanced` is violated.

The actions that only a careless caller reaches (`Unresolvable`, `GetMisses`,
`PhaseMisses`, `NewMisses`, `NewRefused`, `RephaseFails`) fire in
`resolver_careless`.

### `LongMap`, `WorldOrder`

`LongMap` is what a world order chunk promises: a map whose magic moves with
each change, which is saved, dropped when clean, and loaded again without loss.

`WorldOrder` has the `InternalState` of `HeapWorldOrderChunk` as one record
(`size`, the flat array `kv` of alternating keys and values, `next`, `hash`,
`count`), and the magic, the dirty flag and what the last save wrote.

| action | code |
|---|---|
| `PutCounts`, `PutGrows` | `put` of an absent key: the count goes up, and `rehashCapacity` where the threshold is passed |
| `PutFills`, `PutLinks` | the same put: key and value are written, then the entry becomes the head of its chain and the chunk dirty |
| `PutReplaces` | `put` of a key that is there |
| `Save`, `Load` | `save` and the constructor's `load` of a new chunk object |

A put holds the chunk's monitor but `get` holds nothing, so a put is three
steps, and `get` is not an action but a state function (`Get`) that the
refinement evaluates between the steps: a put must take effect at once, in
`PutLinks`. The order in which key and value are written is abstracted, as
neither can be read before the entry is linked. `merge` is a series of puts.
The spin lock callers take around several calls, and the `extra` field (a
number that is saved and loaded beside the map), are left out. The hash is a
constant function, so that the instance chooses which keys collide.

The careful caller avoids three things the code does not survive. *growth after
load*: `load` leaves `-1` as the `next` of the last entry of each chain (:399, :424)
where `put` writes `-2`, and `rehashCapacity` takes `-1` for
an unused entry; the first growth after a load drops the last entry of every
chain (`world_order_lost`). *updates*: the cell of a value that is replaced is
computed as `entry + 1` instead of `2 * entry + 1` (:283), which is right for
entry 0 only, the one the careful caller updates. *concurrent saves*: `save`
and `each` take no lock and walk the counted entries, one of which may not be
filled.

### `TimeSet`, `TimeTree`

`TimeSet` is the set `Resolver` uses for a tree, with the magic and the saving.
It names the last call and its times (`call`), so the promise of each call is
exact: an insertion or a merge adds the times it was given, and moves the magic
if and only if one was new; a fill adds just its times and leaves the magic; a
clearing keeps the times below the bound it was given and moves the magic.
`TimeTree` is `HeapTimeTreeChunk`: the arrays of a red-black tree whose nodes
are places in them, so `tree` is a record of root, size, the arrays' length and
threshold, and keys, links and colours. Cells above the size are never read
before they are written and are not kept.

| action | code |
|---|---|
| `Insert` | `insert`, with `internal_insert` and its repair (`insertCase1` to `5`, the rotations) |
| `Fill` | what `MWGResolver` does to the right tree of a split: `unsafe_insert` of each time the walk yields, then `declareDirty`; the magic stays |
| `ClearAt` | `clearAt`: the arrays are emptied and the keys below the bound inserted again, in their old order |
| `Merge` | `merge`: reading stops changing the tree after the first key that is new, so careful peers send at most one (without that guard the time is lost and `ImplementsTimeSet` fails) |
| `Save`, `Load` | `save`, `load` |

Every method runs under the chunk's lock, so each is one action.
`previousOrEqual` and `range` are state functions (`PreviousOrEqual`, `Walked`)
that the invariants compare with their definition on the set.

### `DurableStore`, `SavePipeline`

`DurableStore` is what a graph with a storage promises for the contents of its
chunks: a read gives the last change; a crash may take back changes, but never
one that a save has confirmed.

`SavePipeline` is how a change gets there, across `HeapChunkSpace`, `CoreGraph`
and the storage, statement by statement where threads or callbacks can come in
between. A chunk's contents are the moment of its last change.

| variable | code |
|---|---|
| `resident`, `value`, `dirty` | the chunks of the space, their contents and `DIRTY_BIT` |
| `lists`, `current` | the `InternalDirtyStateList`s, and `_dirtyState` |
| `marking`, `read` | a thread in `declareDirty`: the chunk, and the list it read |
| `saving`, `next`, `batch`, `written` | a thread in `saveDirtyList`: list, position, stream, the chunk whose bytes it wrote last |
| `requests`, `answers` | messages to and from the storage, in order |
| `disk`, `confirmed` | what the storage has; what callbacks have said is kept |

`Change`, `ReadDirtyState`, `Enlist` and `FullSaves` are one change;
`Save`, `SaveBytes`, `DeclareClean` and `SendPut` one save; `Recycle`, `Get`,
`ServeGet` and `Loaded` the eviction and the return of a chunk; `Put` and
`Confirmed` the storage's side of a save; `Crash` loses the memory and a suffix
of the requests. `Held` are chunks whose nodes somebody holds, which are never
recycled. Marks other than those are `ChunkSpace`'s.

The code keeps its promise with the help of three precautions of its callers
(`Cares`). What goes wrong without each, found by TLC on instances with two
threads (two loads for the last) and recorded under the hazards:

* *turns* (no thread changes or saves while another is inside a change or a
  save, and nothing is recycled meanwhile): a late `Enlist` appends to a list
  that a save has already walked, so `DirtyIsListed` fails and the chunk is
  never saved again, because it is dirty already; a change between the bytes and
  `declareClean` (`CoreGraph.java:409`) leaves a clean chunk with unsaved
  contents (`CleanIsSent`); and a chunk that is clean in the stream but not yet
  sent may be recycled and loaded again with what the storage still has
  (`ImplementsDurable`).
* *accepts* (the storage keeps every batch): chunks are declared clean before
  the storage has answered (:416), so a refused batch is nowhere
  (`CleanIsSent`, `ImplementsDurable`).
* *one load* (a chunk is not asked for while it is being loaded): the second
  answer was read before the change the first load made possible, and is put
  after the chunk was changed, saved and recycled (`CleanIsSent`,
  `ImplementsDurable`).

### `Sessions`

Where ids come from: `CoreGraph.connect` asks the storage for a prefix
(`lock`, in `LevelDBStorage` a counter read and then written back), loads the
generator chunk of the prefix, and `HeapGenChunk.newKey` then counts under it.

| action | code |
|---|---|
| `Connect`, `Granted`, `Loaded`, `LoadFails` | `connect` and its two callbacks |
| `ReadCounter`, `WriteCounter`, `LockThrows` | `LevelDBStorage.lock`: the counter is read, written back; it no longer parses, and the exception (:179) passes every callback by (stage `thrown`) |
| `Save`, `Disconnect` | the generator's index goes to the storage; `unlock` gives nothing back |
| `Draw`, `Answer`, `Refuse` | `newKey`: `incrementAndGet`, and the test of the limit on a second read |
| `Crash`, `StorageCrash` | the process of a graph, or of the storage, dies; the storage takes the requests it serves and any others on their way with it (stage `lost`) |

The precautions: *connects* (no second `connect` of a graph before the first is
answered: the spin lock that should see to it, `CoreGraph.java:197`, spins while
the flag goes from false to true and so keeps nobody out, and the prefix waits
in a field of the graph between two answers), *locks* (the storage serves one
`lock` at a time: two clients of a `WSServer` can read the same counter), and
*limit* (nobody draws at the limit: of two threads there, one passes it unseen).
Without any one of them one of `OwnPrefix`, `KeysUnique` and `KeysInRange` is
violated. A crash
between `ReadCounter` and `WriteCounter` loses nothing, as the prefix was not
answered. `ConnectAnswered` needs no precaution: the callback of a `connect` is
called, with success or with failure (`ready`, `failed`), except in three cases
where nothing in the code calls it. The calling process has died; the storage
has died with the call (`WSClient` has neither a timeout nor a path for errors);
or the prefixes are used up: after `Short.MAX_VALUE` the lock throws for ever.
The property admits `thrown` only then.

The model has one generator per session where the code has two (nodes, worlds).

### `Attributes`, `StateChunk`

`Attributes` is the promise for the states of one node: each time point has
attributes of its own, a new one starts as a copy, a call changes what it names
at one time point, and what is not waiting for a save is what was saved.

`StateChunk` is `HeapStateChunk` with relations, maps and simple values; arrays
of numbers are left out. A chunk is one record of the arrays of `InternalState`
(`links`: keys, types, chains and buckets; `val`). `sharing` says who holds the
same object: it is a partition of the cells, and a cell is the links of a chunk
or one of its attributes. So two chunks can share an array, and so can two
attributes of one chunk, which a load may bring about. A call is one action,
named for what it does to the arrays.

| action | code |
|---|---|
| `Create`, `Phase` | an empty state; `softClone` of another |
| `Set` = `InsertGrows`, `InsertCopies`, `InsertInPlace`, `ReplaceValue`, `SwitchType` | `internal_set` and its branches |
| `AppendFirst`, `AppendInPlace`, `AppendGrows` | `add` on a relation that is absent, has room, is full |
| `RemoveNode` | `remove` of `AbstractNode` |
| `GetOrCreateMap`, `PutSame`, `PutCopies`, `PutInPlace` | a map attribute and its `put`, which copies the content of the origin at its first change |
| `Save`, `Reload` | `save`; `load` into a new object after an eviction |

`Careless` again lists what a caller has to avoid, each with a defect behind it:
*past* (a time point that later ones were made from is changed in place: only
the clone knows that it shares, so `InsertInPlace` (:424), `AppendInPlace` (:265)
and the `put` of the origin's map write into what the clones read), *unsaved
appends* (`AppendInPlace` does not declare the chunk dirty), *second lives*
(an attribute whose relation was emptied keeps its type, and the next `add` is
taken for one that is there already and dropped), and *hollow saves*. The last
is a fault of `load`: between two elements it resets the key and the type
(:766-772), not the array and the map it made last. An empty map is saved as its
size, without a pair, so none is made for it, and it gets the map of the latest
element of its type (:735, :957; a chunk with two indexes, the second of them
still empty, is a practical case). An empty relation gets the array of the
latest relation, and its size is written over that array's own, which is empty
from then on (:703, :926). `Object` says which element's object each one gets,
and `Together` which attributes are one block of `sharing` afterwards. Careful
callers do not save a chunk in which an empty map or relation comes behind
another one of its type (`Borrows`, the guard of `Save`); with the flag TLC finds
`ImplementsAttributes` violated, while `TypeOK` and `EachAsGet` hold on the same
instance. Arrays of numbers are loaded in the same way.

Also faithful to the code, and visible in the module: a save counts entries
without value, so a loaded chunk may have a count that is too high and grow
early; a chunk loaded from an empty save has no arrays, on which `softClone` and
`add` fail; an empty map that no other one comes before is saved and not loaded.

## 4. The runs

| run | instance | what it shows |
|---|---|---|
| `stack` | 4 slots | every list of up to four slots is reached; two suffice for both ends, three for a middle, four for a middle with two neighbours that are not ends |
| `space` | 3 keys, two in one bucket, 4 chunks (two of one key), 2 slots, two references or loads at a time (`MCBusy`), `Spec` | evictions, crossing answers and puts, stale unmarks and saves in any order: a key never gets two chunks, a slot is never lost |
| `space_careful` | 4 keys on 3 slots, batches of 2, 2 references, `FairSpec` | evictions and collisions: the table is exact, marks are exact, nothing in use is evicted, each change is enlisted once and eventually saved |
| `resolver` | 2 handles, thresholds 2 then 4, careful; one world with 6 times, two with 3, three with 2; where two handles live, 5 times in one world and at most 4 states (3 in several worlds) (`MCLongOrWide`) | implements `Timelines` through splits, through chains and siblings of forks; marks, trees, magics |
| `resolver_careless` | 2 worlds, threshold 2, careless but for clones and outer times, `MaxOff` 4, up to 4 states; one handle over 4 times, two over 2 (`MCFewStates`) | first states and the mark of the world order survive stale handles, early writes, splits and every early return; marks follow a handle that reads after a split |
| `resolver_latest` | violation | a read after a divergence does not return the latest state (`Resolver.java:78` says it does) |
| `world_order` | 5 worlds, two of which collide at any size, 2 values, first capacity 2 | two growths, collisions, saves, loads, reads inside a put: implements `LongMap` |
| `world_order_lost` | violation | the first growth after a load loses worlds (`LongLongMap.java:6`) |
| `time_tree` | 8 times; batches of 3, 4 and 8 times; insertions at most 3 before the latest | every shape up to 8 nodes those orders reach: red-black, searches, walks, implements `TimeSet` |
| `sessions` | 2 graphs, 3 calls of `connect`, 2 threads, prefixes 0 and 1, 2 keys each | crossing connects, crashes on both sides, used-up prefixes: ids are unique, every call is answered unless its caller or the storage dies or no prefix is left |
| `states` | 3 time points, 4 attributes, three of them in one bucket; of each kind one, and one that is a second relation or a second map; arrays of 2 and 4 entries | sharing between time points, growth, type switches, saves and loads, also of empty relations and maps: implements `Attributes` |
| `saves` | 3 chunks (2 held), batches of 2, 3 changes, 1 crash, 1 load under way | implements `DurableStore`; a save that has begun is confirmed |

Deadlock is checked in every run but `saves`, where the system stops once its
changes and its crash are used up and nothing is on its way.

Bounds. `MaxRefs` bounds the references to one chunk and `MaxLoads` the loads of
one key (in `SavePipeline`, of all): two of each are enough for a mark to be
dropped by the wrong holder and for two answers to cross. `MCBusy` bounds their
sum in `space`, where three would need more than five minutes. One caller at a
time is inside the retry loop of `declareDirty` and one save loop runs at a time
(guards of `DeclareDirty` and `DetachDirties`). `MaxTime` bounds the times; the
thresholds (`Scales`, 1000 and more in the code) are scaled down with it so that
trees do split. `MaxOff` bounds the marks that careless callers lose or leak,
which have no bound in the code: calls stop when that many are wrong. Handles
are symmetric. The views identify states that differ only in what no step reads:
`MCChunkSpace` in objects nobody refers to, `MCResolver` in `answer`, `MCWorldOrder`,
`MCTimeTree` and `MCStateChunk` in the magic, in the last call and in the saved
content while another save is due. TLC evaluates refinements and action properties on every
step, before states are identified.

The constraints of the resolver's two runs each join instances that were too
long to take together: six times in one world for one handle (two successive
splits and the change of the threshold), five times and four states for two (a
split under the other handle, and a read that follows it), beside three worlds
(a chain, or two siblings); and one handle over four times beside two over two,
with four states at most (the calls that miss a tree or a state need three).
What they leave out is proved (section 5). `MaxLate` is there because all orders
of eight insertions are too many; eight nodes are the fewest with a repair that
goes up two levels. `Batches` names the sets a fill or a merge brings. Five
worlds are the fewest that grow a map of two buckets twice. `MCShape` bounds the
shapes of `states`: one time point has a simple value, a relation and a map of
all lengths, or the fourth attribute beside a relation of one node or beside a
map, which are the two of a kind that a load may confuse; two share a relation
of any length, a map, an attribute and a relation entry of which a save is due,
or an attribute and a map that are both unsaved; three share one relation. The
interplay of three is a matter of who shares an array with whom, that of many
attributes one of chains, and each is there without the other. `MaxSize` and
`MaxRelation` bound the arrays; the links grow from two entries to four, or from
none after an empty load, and a relation outgrows its array. `KeyLimit` (2 keys
per prefix) and `MaxPrefix` (2 prefixes) are small so that both limits are met;
`Indexes` allows a generator to overrun its limit by two. `MaxChanges` 3 with
batches of 2 makes a change find a full list; one crash loses everything that
can be lost. `saves` has one thread: under *turns* threads are interchangeable
between their turns, and the storage, its callbacks, recycling and the crash
still come at any step; the proofs are for any number.

Fairness, where liveness is checked. `ChunkSpace!FairSpec`: the save loop goes
on, the loop of `declareDirty` retries (it spins in the code), and the
application calls `save` again and again. `Sessions!FairSpec`: the storage serves
its requests and its answers are handled. `SavePipeline!FairSpec`: a thread
inside the graph goes on, the storage takes requests, callbacks run; nobody has
to call `save`, so only a save that has begun is promised to get through, and
only if the process does not die.

`stack`, the runs of the space, `saves` and `sessions` also check on their
instances what section 5 proves for all; they are where a wrong statement shows
first.

## 5. The proofs

Everything below is checked by TLAPS for every value of the constants, from the
named assumptions of the modules (`CapacityAssumption`, `SpaceAssumption`,
`SessionsAssumption`, `PipelineAssumption`, `ResolverAssumption`,
`OrderAssumption`, `StateAssumption`, `OffersAssumption`: types of the
constants, finite sets of threads and handles, limits above zero, a batch no
larger than the space, thresholds that do not fall, relations that are set being
relations of nodes, null being none of the values). What is proved of careful
callers assumes `Careless = {}` (or the precautions in `Cares`) by name. TLC evaluates them on every run.

* `LruOps_proofs`: what `Without`, `Released`, `Tail` and `Append` do to a queue
  of distinct slots; the rest cites these.
* `FixedStack_proofs`: `Spec => []WellLinked`, `Spec => []TypeOK` and
  `Spec => ImplementsLruQueue`. `WellLinked` alone is not inductive, as it does
  not tie the count and the unused links to the list; `IInv` adds that there is
  a queue `q` the arrays hold (`Holding(q)`: the ends, each link, the links of
  absent slots, and the count are those of `q`). Each operation maps a held
  queue to the held queue `LruQueue` predicts; a lemma that the arrays hold at
  most one queue makes the mapping `QueueOf` a function.
* `ChunkSpace_proofs`: for `Spec`, `Inv == TypeOK /\ Indexed /\ NoSlotLost`
  (chains, uniqueness of keys and count together, since the victim's chain can
  only be updated correctly if the chains were exact) is inductive and gives
  `StaysTyped`, `TableConsistent`, `KeysStayUnique` and `SlotsNeverLost`. For
  `CarefulSpec`, `CInv` adds that marks are exact, that changes are enlisted
  once, and that a key being loaded is absent (`LoadsAreMisses`, which makes
  `LoadFindsOther` impossible); it gives `MarksCount`, `NothingInUseRecycled` and
  `ChangesAreEnlisted`.
* `Sessions_proofs`: with the three precautions, `KeysUnique`, `OwnPrefix` and
  `KeysInRange`. `CallsInv` says that the counter of the storage is ahead of all
  prefixes that calls hold, that these differ, and that at most one living call
  per graph is under way, so the field of the graph still has its prefix;
  `KeysInv` that draws under way and keys handed out lie at or below the index
  of their generator. A lemma shows that a key determines its prefix and index.
* `SavePipeline_proofs`: with *turns*, `DirtyIsListed` for any number of threads
  and crashes: the thread whose turn it is has the open list to itself, and the
  list it saves is detached (`TurnsInv`). With all three precautions,
  `CleanIsSent` and `Spec => ImplementsDurable`. The invariant (`StoreInv`)
  orders the copies of a chunk's contents: what the storage has is older than
  what requests bring, in order, which is older than what is cached; a load
  under way concerns an absent chunk of which nothing newer is on its way. Then
  every step of the pipeline is a change, a persisting, a confirmation, a crash
  or a stutter of `DurableStore`.
* `Resolver_proofs`: whatever the callers neglect except *outer times* (every
  value of `Careless` without it, the assumption `InnerTimes`), `TypeOK`,
  `LockKept` and `FirstKept`. A timeline's first state is found by a
  lookup if it is still in the trees where it was put (`TimelinesBegin`). That
  is preserved because a tree holds nothing before the time it begins at
  (`TreesStart`) and the half a split moves away does not have the first
  element; `TreesStart` needs that handles are resolved to a tree that begins at
  or before their time (`HandlesOrdered`), and that no time is added before that
  one, which is what the assumption is for. That `ResolveWorld` has a value at
  all, for any set of worlds, is shown from a depth every world has (`Forest`).
  `LockKept` rests on no path giving back a mark of the world order but `Free`.
  `SInv` holds under the same
  assumption: until a caller strays, `Sound`, which is `Parted` (what
  `TreesPartStates` says, tree by tree), `TreesSplit`, `HandlesPlaced` (each node
  is resolved to a state that is in the tree it is resolved to) and
  `MarksBalanced`. That the marks stay exact is shown once, for a step that moves
  one handle (`MarksFollow`); each path of the methods then only has to show
  which marks it moves. Two facts about sizes make `TreesSplit` inductive: the
  upper half of a tree is smaller than the threshold after the split, and
  thresholds never fall as the super tree grows (the non-decreasing `Scales` of
  `ResolverAssumption`). This gives `MarksFollowTheSplits`.
  With `Careless = {}` nobody strays, and `MagicsTell` is inductive: magics that
  a node stores are not ahead of their chunks, and if they are equal the chunks
  have not changed, so that what was resolved is still resolved; nodes that
  followed a split are excepted, as theirs are magics of other trees. It gives
  `SameTellsCurrent`. For `PromisesAreKept`, `LatestIs` shows that climbing the
  worlds by divergence times and climbing them by written states, as `Timelines`
  does, end at one state while the trees part the states; then every call maps to
  a read, to the write of one state, or to a stutter (`NextMaps`).

* `WorldOrder_proofs`: with `Careless = {}`, `TypeOK`, `EntriesAreFound`,
  `InsertedIsRetrieved` and `Spec => ImplementsLongMap`. The invariant says of the
  entries linked so far (`Settled` of them; the one a put is busy with is counted
  and not linked) that they hold different keys (`Listed`), that `next` leads to an
  earlier entry of the same bucket (`Descends`), and that neither a bucket nor a
  `next` passes over an entry (`Complete`); and that a map that is not dirty is
  what was saved, entry by entry. As chains descend, the recursive walk of
  `findNonNullKeyEntry` has a value (`WalkIs`), which is the entry of the key
  (`Finds`, `Misses`). The loops of `rehashCapacity` and `load` are recursive
  functions too: that they have a value and that each of their steps links one
  more entry is shown by counting up (`UpTo`, `StepsExist`), a least number at
  which a statement fails taking the place of induction. That growth keeps
  all entries needs the guard of `PutGrows`; without it `InsertedIsRetrieved` is
  what `world_order_lost` refutes.

* `StateChunk_proofs`: with `Careless = {}`, `TypeOK`, `EachAsGet` and
  `Spec => ImplementsAttributes`. `TypeOK` and `EachAsGet` are not inductive: that
  a chain reaches an entry is lost as soon as one link is arbitrary, and the code
  has two kinds of counted entries, those the chains lead to and those a growth or
  a load left out because they had no value. `Fine` says that for some set `L` of
  counted entries with different keys, all that have a value among them, each
  bucket names the latest entry of `L` in it and each `next` the one before
  (`Wired`), and that values fit the types of their entries. So the recursive walk
  of `EntryOf` ends and finds what is in `L` and nothing else (`Gets`), also the
  entries that were removed. Then each kind of change is shown once, for one chunk,
  by what a reader sees afterwards (`Shows`): an insertion adds to `L`
  (`InsertedIs`), growth and loads make `L` the entries with a value (`GrownIs`,
  `LoadedIs`), a replacement or a type switch leaves the links alone (`ChangedIs`),
  a clone or a first change differs in nothing that is read (`AlikeIs`), and a save
  tells what the chunk shows (`BytesIs`). `IInv` adds that what is saved can be
  loaded (`SoundSave`), that a chunk that is not dirty shows what its save tells,
  that no save makes a load confuse two attributes (`~Borrows`; then each element
  gets an object of its own, `ObjectIs`), and therefore that no block of `sharing`
  holds two attributes (`Covers`).
  With careful callers a write in place happens only where nobody shares what is
  written, so each call is the change of one chunk (`BecomesIs`); the calls then map
  one to one to those of `Attributes`, and a load to a stutter.

Only model-checked: liveness (`ChangesGetSaved`, `ConnectAnswered`,
`SavesGetThrough`; beyond the prover), and `TimeTree` (recursive operators, which
the prover cannot use).

## 6. What is not modelled

* The statements of `resolveState` under the world order's lock when two threads
  meet there, and the asynchronous stages of a lookup (steps 9 and 10 of the
  plan): `Resolver` with its calls as single steps already fills a run's five
  minutes, so these need a module of their own with a smaller world.
  `resolveTimepoints` and the dictionary of attribute names read only.
* The races of threads inside `putAndMark` and the mark counters of the space,
  and the slot number that a writer of the dirty list fills in after taking its
  place (`HeapChunkSpace.java:101`). `clear`, `free`, `freeChunk` and
  `getOrLoadAndMarkAll`: the batch load is the single load repeated, with one
  answer for all.
* Merging of chunks sent by peers, except for time trees; the two other classes
  of attribute maps (the same structure over other keys); attributes that are
  arrays of numbers (set and read as a whole; an empty one is loaded with the
  fault of empty relations); indexes and queries of `CoreGraph`.
* Schedulers, defer counters and the task engine: a queue, a counter and an
  interpreter of closures; their hazards are listed. Buffers, hashing and
  encoding: pure functions on bytes, which the models replace by the values
  encoded.
* Off-heap chunks: the same algorithms on raw memory. Storage libraries: only
  their contract appears. Machine learning, math expressions, the importer, REST
  and generators: numerics, parsing and input/output around the core, without
  state that a model would say anything about.
* The JavaScript files. Most are libraries of others (`vivagraph.js`,
  `pixi.dev.js`, `fuse.js`), bundles, and glue of generated code.
  `src/plugins/debug/src/vivagraph/mwg.js` holds an older `org.mwg.core`, translated
  from Java by a build step and checked in for the debugging page. The modules
  translate the Java sources it comes from, in their present form; no JavaScript
  file is mapped.
