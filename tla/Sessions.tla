------------------------------ MODULE Sessions ------------------------------
(***************************************************************************)
(* Where the ids of nodes and worlds come from. A graph that connects asks *)
(* its storage for a prefix (Storage.lock), loads the generator chunk of   *)
(* that prefix and from then on numbers its nodes itself (HeapGenChunk).   *)
(* Ids are unique because no two sessions work under one prefix and no     *)
(* session counts out of the range of its prefix.                          *)
(*                                                                         *)
(* Several graphs share a storage, as the clients of a WSServer do, so the *)
(* answers of the storage are asynchronous and its lock may run on several *)
(* threads at once. The spin lock of CoreGraph.connect and disconnect is   *)
(* not in the model because it keeps nobody out: it spins while the flag   *)
(* goes from false to true, and is released by setting the flag to true.   *)
(*                                                                         *)
(* CoreGraph makes two generators side by side, one for nodes and one for  *)
(* worlds. The model has one, drawn from without newNode's test that the   *)
(* graph is connected, which fork does not make.                           *)
(***************************************************************************)
EXTENDS Integers

CONSTANTS Graphs,               \* graphs that share the storage
          Attempts, Owner,      \* calls of connect, and the graph of each
          Threads,              \* callers of newNode and fork
          NoAttempt,            \* null
          MaxPrefix,            \* Short.MAX_VALUE
          KeyLimit,             \* KEY_PREFIX_MASK
          Cares                 \* precautions of the callers, see below

ASSUME SessionsAssumption ==
  /\ NoAttempt \notin Attempts
  /\ Owner \in [Attempts -> Graphs]
  /\ MaxPrefix \in Nat
  /\ KeyLimit \in Nat \ {0}

VARIABLES counter,              \* storage: the prefix it hands out next
          stored,               \* storage: the saved index of each prefix
          stage,                \* how far each call of connect has come
          issued,               \* the prefix read for it by the storage
          gone,                 \* calls whose process has died since
          connected,            \* _isConnected of each graph
          prefix,               \* _prefix of each graph
          generator,            \* _nodeKeyCalculator of each graph
          base, index,          \* _prefix and _currentIndex of a generator
          drawing, drawn,       \* newKey under way: generator and index
          handed, repeated      \* keys handed out, those handed out again

storage  == <<counter, stored>>
calls    == <<stage, issued, gone>>
graphs   == <<connected, prefix, generator>>
newKeys  == <<drawing, drawn>>
history  == <<handed, repeated>>
vars == <<counter, stored, stage, issued, gone, connected, prefix,
          generator, base, index, drawing, drawn, handed, repeated>>

Prefixes == 0 .. MaxPrefix
Indexes  == 0 .. KeyLimit + 2   \* bound: how far a generator overruns

\* Mutant: the prefix is moved to the left by one bit too little.
KeyTight(p, i) == p * ((KeyLimit + 1) \div 2) + i

\* _prefix + nextIndex, the prefix moved left by the width of an index
Key(p, i) == p * (KeyLimit + 1) + i

\* A call ends ready or failed, its callback called with true or false; or
\* thrown or lost, when nobody calls its callback.
Stages == {"unused", "asked", "reading", "granted", "loading", "ready",
           "failed", "thrown", "lost"}

TypeOK ==
  /\ counter \in 0 .. MaxPrefix + 1
  /\ stored \in [Prefixes -> Indexes]
  /\ stage \in [Attempts -> Stages]
  /\ issued \in [Attempts -> Prefixes]
  /\ gone \subseteq Attempts
  /\ connected \in [Graphs -> BOOLEAN]
  /\ prefix \in [Graphs -> Prefixes]
  /\ generator \in [Graphs -> Attempts \cup {NoAttempt}]
  /\ base \in [Attempts -> Prefixes]
  /\ index \in [Attempts -> Indexes]
  /\ drawing \in [Threads -> Attempts \cup {NoAttempt}]
  /\ drawn \in [Threads -> Indexes]
  /\ handed \subseteq Nat
  /\ repeated \subseteq handed

Init ==
  /\ counter = 0
  /\ stored = [p \in Prefixes |-> 0]
  /\ stage = [a \in Attempts |-> "unused"]
  /\ issued = [a \in Attempts |-> 0]
  /\ gone = {}
  /\ connected = [g \in Graphs |-> FALSE]
  /\ prefix = [g \in Graphs |-> 0]
  /\ generator = [g \in Graphs |-> NoAttempt]
  /\ base = [a \in Attempts |-> 0]
  /\ index = [a \in Attempts |-> 0]
  /\ drawing = [t \in Threads |-> NoAttempt]
  /\ drawn = [t \in Threads |-> 0]
  /\ handed = {}
  /\ repeated = {}

Drawing(t) == drawing[t] # NoAttempt

UnderWay(a) == stage[a] \in {"asked", "reading", "granted", "loading"}

-----------------------------------------------------------------------------
(* The precautions.                                                        *)

\* connect is not called again on a graph while a call is under way.
OneConnect(g) == "connects" \in Cares =>
  \A a \in Attempts : Owner[a] = g /\ UnderWay(a) => a \in gone

\* The storage serves one lock at a time.
OneLock == "locks" \in Cares => \A a \in Attempts : stage[a] # "reading"

\* newKey is not called again once it has refused, nor by two at the limit.
BelowLimit(a) == "limit" \in Cares => index[a] < KeyLimit

-----------------------------------------------------------------------------
(* CoreGraph.connect                                                       *)

\* The graph counts as connected before the storage has been asked; a call
\* that finds it connected answers null and changes nothing.
Connect(g, a) ==
  /\ stage[a] = "unused" /\ Owner[a] = g
  /\ ~connected[g]
  /\ OneConnect(g)
  /\ connected' = [connected EXCEPT ![g] = TRUE]
  /\ stage' = [stage EXCEPT ![a] = "asked"]
  /\ UNCHANGED <<storage, issued, gone, prefix, generator, base, index,
                 newKeys, history>>

\* Mutant: the counter is not parsed as a short.
ReadAnyCounter(a) ==
  /\ stage[a] = "asked" /\ OneLock
  /\ issued' = [issued EXCEPT ![a] = counter]
  /\ stage' = [stage EXCEPT ![a] = "reading"]
  /\ UNCHANGED <<storage, gone, graphs, base, index, newKeys, history>>

\* Storage.lock reads the counter.
ReadCounter(a) ==
  /\ stage[a] = "asked" /\ OneLock
  /\ counter <= MaxPrefix
  /\ issued' = [issued EXCEPT ![a] = counter]
  /\ stage' = [stage EXCEPT ![a] = "reading"]
  /\ UNCHANGED <<storage, gone, graphs, base, index, newKeys, history>>

\* Mutant: the prefix is handed out, the counter stays.
CounterKept(a) ==
  /\ stage[a] = "reading"
  /\ stage' = [stage EXCEPT ![a] = "granted"]
  /\ UNCHANGED <<storage, issued, gone, graphs, base, index, newKeys,
                 history>>

\* It writes the next prefix back, then answers.
WriteCounter(a) ==
  /\ stage[a] = "reading"
  /\ counter' = issued[a] + 1
  /\ stage' = [stage EXCEPT ![a] = "granted"]
  /\ UNCHANGED <<stored, issued, gone, graphs, base, index, newKeys,
                 history>>

\* Mutant: the last prefix is not handed out.
LockThrowsEarly(a) ==
  /\ stage[a] = "asked" /\ counter >= MaxPrefix
  /\ stage' = [stage EXCEPT ![a] = "thrown"]
  /\ UNCHANGED <<storage, issued, gone, graphs, base, index, newKeys,
                 history>>

\* The prefixes are used up, the counter no longer parses as a short: the
\* lock throws, past every callback. The graph stays connected without a
\* generator.
LockThrows(a) ==
  /\ stage[a] = "asked" /\ counter > MaxPrefix
  /\ stage' = [stage EXCEPT ![a] = "thrown"]
  /\ UNCHANGED <<storage, issued, gone, graphs, base, index, newKeys,
                 history>>

\* Mutant: the prefix of the answer is not kept.
GrantedUnnoticed(a) ==
  /\ stage[a] = "granted" /\ a \notin gone
  /\ stage' = [stage EXCEPT ![a] = "loading"]
  /\ UNCHANGED <<storage, issued, gone, graphs, base, index, newKeys,
                 history>>

\* The answer of lock: the prefix goes into the graph and into the keys of
\* the chunks that are now requested.
Granted(a) ==
  /\ stage[a] = "granted" /\ a \notin gone
  /\ prefix' = [prefix EXCEPT ![Owner[a]] = issued[a]]
  /\ stage' = [stage EXCEPT ![a] = "loading"]
  /\ UNCHANGED <<storage, issued, gone, connected, generator, base,
                 index, newKeys, history>>

\* The chunks have come: the generator starts at the index saved under the
\* prefix of the request, and takes the prefix the graph has by now.
Loaded(a) == LET g == Owner[a] IN
  /\ stage[a] = "loading" /\ a \notin gone
  /\ base' = [base EXCEPT ![a] = prefix[g]]
  /\ index' = [index EXCEPT ![a] = stored[issued[a]]]
  /\ generator' = [generator EXCEPT ![g] = a]
  /\ stage' = [stage EXCEPT ![a] = "ready"]
  /\ UNCHANGED <<storage, issued, gone, connected, prefix, newKeys,
                 history>>

\* The storage answers null: connect fails, the graph stays connected.
LoadFails(a) ==
  /\ stage[a] = "loading" /\ a \notin gone
  /\ stage' = [stage EXCEPT ![a] = "failed"]
  /\ UNCHANGED <<storage, issued, gone, graphs, base, index, newKeys,
                 history>>

-----------------------------------------------------------------------------
(* save, disconnect and the end of a process                               *)

SavedIndexes(g) ==
  IF generator[g] = NoAttempt THEN stored
  ELSE [stored EXCEPT ![base[generator[g]]] = index[generator[g]]]

\* CoreGraph.save writes the generator along with the other changed chunks.
Save(g) ==
  /\ generator[g] # NoAttempt
  /\ stored' = SavedIndexes(g)
  /\ UNCHANGED <<counter, calls, graphs, base, index, newKeys, history>>

\* disconnect saves too; the prefix is not given back (unlock does nothing)
\* and the graph keeps its generator.
Disconnect(g) ==
  /\ connected[g]
  /\ connected' = [connected EXCEPT ![g] = FALSE]
  /\ stored' = SavedIndexes(g)
  /\ UNCHANGED <<counter, calls, prefix, generator, base, index, newKeys,
                 history>>

\* The process of a graph dies. What it asked of the storage goes on.
Crash(g) ==
  /\ connected' = [connected EXCEPT ![g] = FALSE]
  /\ prefix' = [prefix EXCEPT ![g] = 0]
  /\ generator' = [generator EXCEPT ![g] = NoAttempt]
  /\ gone' = gone \cup {a \in Attempts : Owner[a] = g /\ stage[a] # "unused"}
  /\ drawing' = [t \in Threads |->
                   IF Drawing(t) /\ Owner[drawing[t]] = g THEN NoAttempt
                   ELSE drawing[t]]
  /\ UNCHANGED <<storage, stage, issued, base, index, drawn, history>>

\* The process of the storage dies, with the locks it is serving and any of
\* the requests and answers on their way. WSClient has no timeout: it keeps
\* their callbacks and never calls them.
StorageCrash ==
  \E lost \in SUBSET {a \in Attempts : UnderWay(a)} :
    /\ lost # {}
    /\ \A a \in Attempts : stage[a] = "reading" => a \in lost
    /\ stage' = [a \in Attempts |->
                   IF a \in lost THEN "lost" ELSE stage[a]]
    /\ UNCHANGED <<storage, issued, gone, graphs, base, index, newKeys,
                   history>>

-----------------------------------------------------------------------------
(* HeapGenChunk.newKey                                                     *)

\* incrementAndGet of the graph's generator.
Draw(t, g) == LET a == generator[g] IN
  /\ ~Drawing(t)
  /\ a # NoAttempt
  /\ index[a] < KeyLimit + 2            \* bound of Indexes
  /\ BelowLimit(a)
  /\ index' = [index EXCEPT ![a] = @ + 1]
  /\ drawn' = [drawn EXCEPT ![t] = index[a] + 1]
  /\ drawing' = [drawing EXCEPT ![t] = a]
  /\ UNCHANGED <<storage, calls, graphs, base, history>>

\* The limit is tested on a second read of the index.
AtLimit(t) == index[drawing[t]] = KeyLimit

Return(t) ==
  /\ drawing' = [drawing EXCEPT ![t] = NoAttempt]
  /\ drawn' = [drawn EXCEPT ![t] = 0]

Refuse(t) ==
  /\ Drawing(t) /\ AtLimit(t)
  /\ Return(t)
  /\ UNCHANGED <<storage, calls, graphs, base, index, history>>

Answer(t) == LET k == Key(base[drawing[t]], drawn[t]) IN
  /\ Drawing(t) /\ ~AtLimit(t)
  /\ handed' = handed \cup {k}
  /\ repeated' = repeated \cup ({k} \cap handed)
  /\ Return(t)
  /\ UNCHANGED <<storage, calls, graphs, base, index>>

-----------------------------------------------------------------------------
Answers(a) == \/ ReadCounter(a) \/ WriteCounter(a) \/ LockThrows(a)
              \/ Granted(a) \/ Loaded(a) \/ LoadFails(a)

Next ==
  \/ \E a \in Attempts : Answers(a)
  \/ \E g \in Graphs, a \in Attempts : Connect(g, a)
  \/ \E g \in Graphs : Save(g) \/ Disconnect(g) \/ Crash(g)
  \/ StorageCrash
  \/ \E t \in Threads, g \in Graphs : Draw(t, g)
  \/ \E t \in Threads : Refuse(t) \/ Answer(t)

Spec == Init /\ [][Next]_vars

\* The storage serves its requests, and its answers are handled.
FairSpec == Spec /\ \A a \in Attempts : WF_vars(Answers(a))

-----------------------------------------------------------------------------
Made(a) == stage[a] = "ready"

\* Safety: no id is ever given to two nodes, be they made by two threads, in
\* two sessions of a graph, by two graphs or before and after a crash.
KeysUnique == repeated = {}

\* Safety: a generator counts under the prefix that was issued for the call
\* of connect that made it, although connect keeps that prefix in a field of
\* the graph between two answers of the storage.
OwnPrefix == \A a \in Attempts : Made(a) => base[a] = issued[a]

\* Safety: an id lies in the range of the prefix of a generator that has
\* counted past it; so the storage may issue any other prefix.
KeysInRange ==
  \A k \in handed : \E a \in Attempts :
    /\ Made(a)
    /\ Key(base[a], 0) < k /\ k <= Key(base[a], index[a])
    /\ k < Key(base[a] + 1, 0)

\* Liveness: the callback of each call of connect is called, with true or
\* false, unless the process of the graph dies, the storage dies while it
\* has the call, or no prefix is left: then nobody tells the caller.
ConnectAnswered ==
  \A a \in Attempts :
    stage[a] = "asked" ~> \/ stage[a] \in {"ready", "failed"}
                          \/ a \in gone \/ stage[a] = "lost"
                          \/ stage[a] = "thrown" /\ counter > MaxPrefix

=============================================================================
