---------------------------- MODULE SavePipeline ----------------------------
(***************************************************************************)
(* How a change of a chunk reaches the storage. The chunk is flagged dirty *)
(* and marked, its slot is appended to the space's list of dirty slots; a  *)
(* save, or a change that finds the list full, detaches the list, writes   *)
(* the bytes of each of its chunks, declares them clean and sends one      *)
(* batch to the storage. A clean chunk may be recycled and is loaded again *)
(* when it is asked for.                                                   *)
(*                                                                         *)
(* The storage answers later, as the one behind a WSClient does: requests  *)
(* and answers travel in two queues. LevelDBStorage and its kin answer     *)
(* inside the call, which is the same with nothing between the steps. A    *)
(* crash loses the memory and a suffix of the requests on their way.       *)
(*                                                                         *)
(* A chunk's contents are a number, the moment of its last change.         *)
(***************************************************************************)
EXTENDS Integers, SequencesExt, FiniteSetsExt

CONSTANTS Chunks,
          Held,                 \* chunks of nodes their users hold: marked
          Threads,              \* callers of the graph
          None,                 \* null
          BatchSize,            \* _saveBatchSize
          MaxChanges,           \* bound: changes that are made
          MaxCrashes,           \* bound: times the process dies
          MaxLoads,             \* bound: loads under way at once
          Cares                 \* precautions of the callers, see below

ASSUME PipelineAssumption ==
  /\ BatchSize \in Nat \ {0}
  /\ IsFiniteSet(Threads)
  /\ None \notin Chunks \cup Nat
  /\ MaxChanges \in Nat /\ MaxCrashes \in Nat

VARIABLES resident,             \* chunks of the space
          value,                \* contents of a resident chunk
          dirty,                \* DIRTY_BIT: such a chunk is marked as well
          lists, current,       \* InternalDirtyStateLists, and _dirtyState
          marking, read,        \* declareDirty of a thread: chunk and list
          saving, next,         \* saveDirtyList of a thread: list, position
          batch, written,       \* its stream, the chunk written to it last
          requests, answers,    \* on their way to and from the storage
          disk,                 \* contents the storage has
          confirmed,            \* contents callbacks have been told are kept
          clock, crashes

cache    == <<resident, value, dirty>>
declares == <<marking, read>>
saves    == <<saving, next, batch, written>>
dirties  == <<lists, current>>
network  == <<requests, answers>>
vars == <<resident, value, dirty, lists, current, marking, read, saving,
          next, batch, written, requests, answers, disk, confirmed, clock, crashes>>

Moments == 0 .. MaxChanges
Lists   == 1 .. 2 * Cardinality(Threads) + 1
Batches == [Chunks -> Moments]  \* 0: the chunk is not in the batch

Requests == [kind : {"put"}, batch : Batches] \cup [kind : {"get"}, of : Chunks]
Answers  == [kind : {"put"}, batch : Batches]
            \cup [kind : {"get"}, of : Chunks, found : Moments]

TypeOK ==
  /\ resident \subseteq Chunks /\ dirty \subseteq resident
  /\ value \in Batches
  /\ lists \in [Lists -> Seq(Chunks)] /\ current \in Lists
  /\ \A l \in Lists : Len(lists[l]) <= BatchSize
  /\ marking \in [Threads -> Chunks \cup {None}]
  /\ read \in [Threads -> Lists \cup {None}]
  /\ saving \in [Threads -> Lists \cup {None}]
  /\ next \in [Threads -> 0 .. BatchSize]
  /\ batch \in [Threads -> Batches]
  /\ written \in [Threads -> Chunks \cup {None}]
  /\ requests \in Seq(Requests) /\ answers \in Seq(Answers)
  /\ disk \in Batches /\ confirmed \in Batches
  /\ clock \in Moments /\ crashes \in 0 .. MaxCrashes

Nothing == [c \in Chunks |-> 0]

Emptied(l) == [i \in Lists |-> IF i = l THEN <<>> ELSE lists[i]]

NoLists  == [l \in Lists |-> <<>>]
NoThread == [t \in Threads |-> None]
NoStep   == [t \in Threads |-> 0]
NoBytes  == [t \in Threads |-> Nothing]

Init ==
  /\ resident = Chunks /\ value = Nothing /\ dirty = {}
  /\ lists = NoLists /\ current = 1
  /\ marking = NoThread /\ read = NoThread
  /\ saving = NoThread /\ next = NoStep /\ written = NoThread /\ batch = NoBytes
  /\ requests = <<>> /\ answers = <<>>
  /\ disk = Nothing /\ confirmed = Nothing
  /\ clock = 0 /\ crashes = 0

-----------------------------------------------------------------------------
(***************************************************************************)
(* What the callers may be careful about, for the code does not see to it: *)
(*   "turns"    no thread changes or saves the graph, or has a chunk       *)
(*              recycled, while one is inside a change or a save           *)
(*   "accepts"  the storage keeps every batch it is sent                   *)
(*   "one load" a chunk is not asked for while it is being loaded          *)
(***************************************************************************)
Busy(t) == marking[t] # None \/ saving[t] # None
Quiet   == "turns" \in Cares => \A t \in Threads : ~Busy(t)
Turn(t) == ~Busy(t) /\ Quiet

InUse == {current} \cup {read[t] : t \in Threads} \cup {saving[t] : t \in Threads}
Unused == CHOOSE l \in Lists : l \notin InUse

(***************************************************************************)
(* Changing a chunk: its contents, then internal_set_dirty, which calls    *)
(* declareDirty unless the chunk is dirty already. The chunk's lock is     *)
(* held, so no one else changes it meanwhile. The slot is appended to the  *)
(* list that _dirtyState held a moment before.                             *)
(***************************************************************************)
Change(t, c) ==
  /\ Turn(t) /\ c \in resident /\ \A u \in Threads : marking[u] # c
  /\ clock < MaxChanges
  /\ clock' = clock + 1
  /\ value' = [value EXCEPT ![c] = clock']
  /\ dirty' = dirty \cup {c}
  /\ marking' = [marking EXCEPT ![t] = IF c \in dirty THEN None ELSE c]
  /\ UNCHANGED <<resident, dirties, read, saves, network, disk, confirmed, crashes>>

ReadDirtyState(t) ==
  /\ marking[t] # None /\ read[t] = None /\ saving[t] = None
  /\ read' = [read EXCEPT ![t] = current]
  /\ UNCHANGED <<cache, dirties, marking, saves, network, disk, confirmed, clock,
                 crashes>>

\* Mutant: the test for a full list comes one slot late.
EnlistBeyond(t) ==
  /\ read[t] # None /\ Len(lists[read[t]]) <= BatchSize
  /\ lists' = [lists EXCEPT ![read[t]] = Append(@, marking[t])]
  /\ marking' = [marking EXCEPT ![t] = None]
  /\ read' = [read EXCEPT ![t] = None]
  /\ UNCHANGED <<cache, current, saves, network, disk, confirmed, clock, crashes>>

Enlist(t) ==
  /\ read[t] # None /\ Len(lists[read[t]]) < BatchSize
  /\ lists' = [lists EXCEPT ![read[t]] = Append(@, marking[t])]
  /\ marking' = [marking EXCEPT ![t] = None]
  /\ read' = [read EXCEPT ![t] = None]
  /\ UNCHANGED <<cache, current, saves, network, disk, confirmed, clock, crashes>>

\* save: detachDirties, and nothing else when the list is empty
Detach(t) ==
  /\ current' = Unused
  /\ lists' = Emptied(Unused)
  /\ saving' = [saving EXCEPT ![t] = IF lists[current] = <<>> THEN None ELSE current]
  /\ next' = [next EXCEPT ![t] = 0]
  /\ UNCHANGED <<cache, marking, batch, written, network, disk, confirmed, clock,
                 crashes>>

Save(t) == Turn(t) /\ Detach(t) /\ UNCHANGED read

FullSaves(t) ==
  /\ read[t] # None /\ Len(lists[read[t]]) = BatchSize
  /\ Detach(t)
  /\ read' = [read EXCEPT ![t] = None]

(***************************************************************************)
(* saveDirtyList takes the next chunk of the list and, when it is dirty,   *)
(* writes its bytes; then it declares it clean; with no chunk left it      *)
(* sends the stream. A list that has been saved still takes what a late    *)
(* Enlist appends, unless it is full.                                      *)
(***************************************************************************)
\* Mutant: the last slot of the list is left out.
HasNextButOne(t) == next[t] + 1 < Len(lists[saving[t]])
HasNext(t) == next[t] < Len(lists[saving[t]])

SaveBytes(t) ==
  /\ saving[t] # None /\ written[t] = None /\ HasNext(t)
  /\ LET c == lists[saving[t]][next[t] + 1] IN
       /\ batch' = IF c \in dirty THEN [batch EXCEPT ![t][c] = value[c]] ELSE batch
       /\ written' = [written EXCEPT ![t] = IF c \in dirty THEN c ELSE None]
  /\ next' = [next EXCEPT ![t] = @ + 1]
  /\ UNCHANGED <<cache, dirties, declares, saving, network, disk, confirmed, clock,
                 crashes>>

DeclareClean(t) ==
  /\ written[t] # None
  /\ dirty' = dirty \ {written[t]}
  /\ written' = [written EXCEPT ![t] = None]
  /\ UNCHANGED <<resident, value, dirties, declares, saving, next, batch, network, disk,
                 confirmed, clock, crashes>>

\* Mutant: the stream is freed before it is sent.
SendPutFreed(t) ==
  /\ saving[t] # None /\ written[t] = None /\ ~HasNext(t)
  /\ requests' = Append(requests, [kind |-> "put", batch |-> Nothing])
  /\ saving' = [saving EXCEPT ![t] = None]
  /\ batch' = [batch EXCEPT ![t] = Nothing]
  /\ UNCHANGED <<cache, dirties, declares, next, written, answers, disk, confirmed, clock,
                 crashes>>

SendPut(t) ==
  /\ saving[t] # None /\ written[t] = None /\ ~HasNext(t)
  /\ requests' = Append(requests, [kind |-> "put", batch |-> batch[t]])
  /\ saving' = [saving EXCEPT ![t] = None]
  /\ batch' = [batch EXCEPT ![t] = Nothing]
  /\ UNCHANGED <<cache, dirties, declares, next, written, answers, disk, confirmed, clock,
                 crashes>>

-----------------------------------------------------------------------------
(***************************************************************************)
(* The space recycles a chunk that is neither marked nor dirty, and        *)
(* getOrLoadAndMark asks the storage for one that is not there.            *)
(***************************************************************************)
\* Mutant: the mark that keeps a dirty chunk is not there.
RecycleDirty(c) ==
  /\ Quiet /\ c \in resident \ Held
  /\ \A t \in Threads : marking[t] # c
  /\ resident' = resident \ {c}
  /\ value' = [value EXCEPT ![c] = 0]
  /\ UNCHANGED <<dirty, dirties, declares, saves, network, disk, confirmed, clock,
                 crashes>>

Recycle(c) ==
  /\ Quiet /\ c \in resident \ (dirty \cup Held)
  /\ \A t \in Threads : marking[t] # c
  /\ resident' = resident \ {c}
  /\ value' = [value EXCEPT ![c] = 0]
  /\ UNCHANGED <<dirty, dirties, declares, saves, network, disk, confirmed, clock,
                 crashes>>

Loads(q) == {i \in DOMAIN q : q[i].kind = "get"}

\* The chunk has been asked for, and its callback has not run.
Loading(c) == \/ \E i \in Loads(requests) : requests[i].of = c
              \/ \E i \in Loads(answers) : answers[i].of = c

Get(c) ==
  /\ c \notin resident
  /\ Cardinality(Loads(requests)) + Cardinality(Loads(answers)) < MaxLoads
  /\ "one load" \in Cares => ~Loading(c)
  /\ requests' = Append(requests, [kind |-> "get", of |-> c])
  /\ UNCHANGED <<cache, dirties, declares, saves, answers, disk, confirmed, clock,
                 crashes>>

\* The callback creates the chunk and puts it, unless it is there by now.
Loaded ==
  /\ answers # <<>> /\ Head(answers).kind = "get"
  /\ LET m == Head(answers) IN
       /\ value' = IF m.of \in resident THEN value ELSE [value EXCEPT ![m.of] = m.found]
       /\ resident' = resident \cup {m.of}
  /\ answers' = Tail(answers)
  /\ UNCHANGED <<dirty, dirties, declares, saves, requests, disk, confirmed, clock,
                 crashes>>

-----------------------------------------------------------------------------
(***************************************************************************)
(* The storage takes the requests one after the other. It writes a batch   *)
(* at once or, if it fails, not at all and answers false.                  *)
(***************************************************************************)
Written(d, b) == [c \in Chunks |-> IF b[c] = 0 THEN d[c] ELSE b[c]]

Put ==
  /\ requests # <<>> /\ Head(requests).kind = "put"
  /\ \E kept \in {TRUE} \cup {b \in {FALSE} : "accepts" \notin Cares} :
       LET b == Head(requests).batch IN
         /\ disk' = IF kept THEN Written(disk, b) ELSE disk
         /\ answers' = Append(answers, [kind |-> "put",
                                        batch |-> IF kept THEN b ELSE Nothing])
  /\ requests' = Tail(requests)
  /\ UNCHANGED <<cache, dirties, declares, saves, confirmed, clock, crashes>>

ServeGet ==
  /\ requests # <<>> /\ Head(requests).kind = "get"
  /\ LET c == Head(requests).of IN
       answers' = Append(answers, [kind |-> "get", of |-> c, found |-> disk[c]])
  /\ requests' = Tail(requests)
  /\ UNCHANGED <<cache, dirties, declares, saves, disk, confirmed, clock, crashes>>

\* The callback of a put: the caller of save is told true.
Confirmed ==
  /\ answers # <<>> /\ Head(answers).kind = "put"
  /\ confirmed' = [c \in Chunks |->
       IF Head(answers).batch[c] > confirmed[c] THEN Head(answers).batch[c]
                                                ELSE confirmed[c]]
  /\ answers' = Tail(answers)
  /\ UNCHANGED <<cache, dirties, declares, saves, requests, disk, clock, crashes>>

-----------------------------------------------------------------------------
\* What a storage with contents d has once it has written the puts of q: the
\* contents in the last batch that has the chunk.
Puts(q, c) == {i \in DOMAIN q : q[i].kind = "put" /\ q[i].batch[c] # 0}
AllWritten(d, q) == [c \in Chunks |->
  IF Puts(q, c) = {} THEN d[c] ELSE q[Max(Puts(q, c))].batch[c]]

Crash ==
  /\ crashes < MaxCrashes
  /\ crashes' = crashes + 1
  /\ \E n \in 0 .. Len(requests) : disk' = AllWritten(disk, SubSeq(requests, 1, n))
  /\ resident' = {} /\ value' = Nothing /\ dirty' = {}
  /\ lists' = NoLists /\ current' = 1
  /\ marking' = NoThread /\ read' = NoThread
  /\ saving' = NoThread /\ next' = NoStep /\ written' = NoThread /\ batch' = NoBytes
  /\ requests' = <<>> /\ answers' = <<>>
  /\ UNCHANGED <<confirmed, clock>>

Step(t) == ReadDirtyState(t) \/ Enlist(t) \/ FullSaves(t)
           \/ SaveBytes(t) \/ DeclareClean(t) \/ SendPut(t)
Storage == Put \/ ServeGet
Callback == Loaded \/ Confirmed

Next == \/ \E t \in Threads, c \in Chunks : Change(t, c)
        \/ \E t \in Threads : Save(t) \/ Step(t)
        \/ \E c \in Chunks : Recycle(c) \/ Get(c)
        \/ Storage \/ Callback \/ Crash

Spec == Init /\ [][Next]_vars

\* A thread inside the graph goes on; the storage and its callbacks run.
FairSpec == Spec /\ (\A t \in Threads : WF_vars(Step(t)))
                 /\ WF_vars(Storage) /\ WF_vars(Callback)

-----------------------------------------------------------------------------
UnderWay(t) == IF saving[t] = None THEN {}
  ELSE {lists[saving[t]][i] : i \in next[t] + 1 .. Len(lists[saving[t]])}

(***************************************************************************)
(* Nothing dirty is forgotten: a chunk declares itself dirty only once, so *)
(* each dirty chunk has somebody who will save it, the thread about to     *)
(* enlist it, the list of the next save, or a save in progress.            *)
(***************************************************************************)
DirtyIsListed == \A c \in dirty :
  \/ c \in ToSet(lists[current])
  \/ \E t \in Threads : marking[t] = c \/ written[t] = c \/ c \in UnderWay(t)

(***************************************************************************)
(* What the storage will say of a chunk when it has seen to the requests   *)
(* before it, and what a read of the chunk gives its caller.               *)
(***************************************************************************)
Stored  == AllWritten(disk, requests)
Visible == LET d == Stored IN [c \in Chunks |-> IF c \in resident THEN value[c] ELSE d[c]]

(***************************************************************************)
(* A clean chunk may be recycled at any moment: its contents are in the    *)
(* batch of a save in progress or have been sent to the storage.           *)
(***************************************************************************)
CleanIsSent == LET d == Stored IN \A c \in resident \ dirty :
  d[c] = value[c] \/ \E t \in Threads : batch[t][c] = value[c] /\ value[c] # 0

(***************************************************************************)
(* The pipeline keeps what a durable store promises: a read gives the last *)
(* change, and no crash takes back a change that a save has confirmed.     *)
(***************************************************************************)
Durable == INSTANCE DurableStore WITH visible <- Visible, durable <- disk
ImplementsDurable == Durable!Spec

(***************************************************************************)
(* A save that has begun gets through: the contents it found are confirmed *)
(* to its caller, unless the process dies.                                 *)
(***************************************************************************)
SavesGetThrough == \A n \in 0 .. MaxCrashes, c \in Chunks, v \in 1 .. MaxChanges :
  (crashes = n /\ value[c] = v /\ \E t \in Threads : c \in UnderWay(t))
    ~> (crashes > n \/ confirmed[c] >= v)

=============================================================================
