------------------------------ MODULE Resolver ------------------------------
(***************************************************************************)
(* org.mwg.core.MWGResolver for one node of the graph. The node's states   *)
(* are found through its world order (the time each world diverged), the   *)
(* super time tree of a world (the first time of each of its time trees)   *)
(* and the time trees, which split in two when they are full. A handle (a  *)
(* Node object) remembers what it resolved, with the magic numbers of the  *)
(* three chunks at that time, and owes one unmark for each chunk of it.    *)
(*                                                                         *)
(* A call is one action: lookups find every chunk in the cache, the other  *)
(* calls are synchronous and take the lock of the world order. Marks are   *)
(* the ones of handles; those of unsaved changes belong to ChunkSpace, and *)
(* the global world order is marked and unmarked as the node's is.         *)
(***************************************************************************)
EXTENDS Integers, Sequences, FiniteSetsExt

CONSTANTS Worlds, Root, NoWorld,
          MaxTime,              \* bound: times are 0 .. MaxTime
          Handles,              \* Node objects of the node
          Scales,               \* SCALE_1 .. SCALE_4
          Careless,             \* what the callers do not take care of
          MaxOff                \* bound: marks in excess or lost

Times == 0 .. MaxTime
Carelessness == {"stale reads", "split reads", "stale writes", "early writes",
                 "dephased clones", "small times", "outer times"}
Null  == -1                     \* NULL_LONG, also the time of a super tree

ASSUME ResolverAssumption ==
  /\ Root \in Worlds /\ NoWorld \notin Worlds
  /\ MaxTime \in Nat
  /\ Careless \subseteq Carelessness
  /\ MaxOff \in Nat
  /\ IsFiniteSet(Handles)
  /\ Scales \in Seq(Nat \ {0}) /\ Scales # <<>>
  /\ \A i, j \in DOMAIN Scales : i <= j => Scales[i] <= Scales[j]

States == Worlds \X Times
Trees  == Worlds \X (Times \cup {Null})
Super(w) == <<w, Null>>

NoState == <<NoWorld, Null>>    \* null instead of a state
Orphan  == <<NoWorld, 0>>       \* a state object that is not in the space

VARIABLES parent,               \* global world order: the forked world
          order, orderMagic,    \* the node's world order
          tree, magic,          \* its (super) time trees
          states,               \* its state chunks
          stateMarks, treeMarks, orderMarks,
          handle,               \* _previousResolveds of each Node object
          answer,               \* what the last call was asked and returned
          followed,             \* Node objects that followed a split, and
          strayed               \* whether a call was careless: see below

index == <<order, orderMagic, tree, magic>>
marks == <<stateMarks, treeMarks, orderMarks>>
vars  == <<parent, order, orderMagic, tree, magic, states,
           stateMarks, treeMarks, orderMarks, handle, answer,
           followed, strayed>>

Resolved == [world : Worlds, time : Times,            \* of the Node itself
             w : Worlds, s : Times, t : Times,        \* resolved
             mw : Int, ms : Int, mt : Int]            \* magics
Freed == [world |-> NoWorld]

TypeOK ==
  /\ parent \in [Worlds -> Worlds \cup {NoWorld}]
  /\ order \in [Worlds -> Times \cup {Null}] /\ orderMagic \in Nat
  /\ tree \in [Trees -> SUBSET Times] /\ magic \in [Trees -> Nat]
  /\ states \subseteq States
  /\ stateMarks \in [States -> Int] /\ treeMarks \in [Trees -> Int]
  /\ orderMarks \in Int
  /\ handle \in [Handles -> Resolved \cup {Freed}]
  /\ answer \in [world : Worlds, time : Times,
                 state : States \cup {NoState, Orphan}]
  /\ followed \subseteq Handles /\ strayed \in BOOLEAN

Init ==
  /\ parent = [w \in Worlds |-> NoWorld]
  /\ order = [w \in Worlds |-> Null] /\ orderMagic = 0
  /\ tree = [k \in Trees |-> {}] /\ magic = [k \in Trees |-> 0]
  /\ states = {}
  /\ stateMarks = [n \in States |-> 0] /\ treeMarks = [k \in Trees |-> 0]
  /\ orderMarks = 0
  /\ handle = [h \in Handles |-> Freed]
  /\ answer = [world |-> Root, time |-> 0, state |-> NoState]
  /\ followed = {} /\ strayed = FALSE

Live(h) == handle[h] # Freed
Exists(w) == w = Root \/ parent[w] # NoWorld

-----------------------------------------------------------------------------
(* The chunks.                                                             *)

\* TimeTreeChunk.previousOrEqual
PreviousOrEqual(S, t) ==
  LET before == {s \in S : s <= t} IN IF before = {} THEN Null ELSE Max(before)

\* The second half of a tree, which range() visits from the end.
UpperHalf(S) ==
  {x \in S : Cardinality({y \in S : y > x}) < Cardinality(S) \div 2}

\* The size at which a time tree splits grows with the super tree.
Threshold(n) ==
  LET fits == {i \in DOMAIN Scales : n <= 2 * Scales[i]}
  IN  2 * Scales[IF fits = {} THEN Max(DOMAIN Scales) ELSE Min(fits)]

\* resolve_world: the nearest world, upwards, that diverged by time t.
ResolveWorld(w, t) ==
  LET closest[v \in Worlds \cup {NoWorld}] ==
        IF v = NoWorld THEN w
        ELSE IF order[v] # Null /\ order[v] <= t THEN v
        ELSE closest[parent[v]]
  IN  closest[w]

\* insert() counts in the magic what it adds.
Added(k, S) == Cardinality(S \ tree[k])

\* The mark putAndMark leaves: none when the chunk was there already.
Put(there) == IF there THEN 0 ELSE 1

Plus(f, k, n) == [f EXCEPT ![k] = @ + n]
Moved(f, from, to) == Plus(Plus(f, from, -1), to, 1)

-----------------------------------------------------------------------------
(* Nodes and worlds come and go.                                           *)

Fork(w, child) ==
  /\ Exists(w) /\ ~Exists(child)
  /\ parent' = [parent EXCEPT ![child] = w]
  /\ UNCHANGED <<index, states, marks, handle, answer>>

\* newNode and initNode.
NewNode(h, w, t) ==
  /\ states = {} /\ Exists(w)
  /\ states' = {<<w, t>>}
  /\ tree' = [tree EXCEPT ![Super(w)] = {t}, ![<<w, t>>] = {t}]
  /\ magic' = [magic EXCEPT ![Super(w)] = 1, ![<<w, t>>] = 1]
  /\ order' = [order EXCEPT ![w] = t] /\ orderMagic' = 1
  /\ stateMarks' = Plus(stateMarks, <<w, t>>, 1)
  /\ treeMarks' = Plus(Plus(treeMarks, Super(w), 1), <<w, t>>, 1)
  /\ orderMarks' = 1
  /\ handle' = [handle EXCEPT ![h] =
       [world |-> w, time |-> t, w |-> w, s |-> t, t |-> t,
        mw |-> Null, ms |-> Null, mt |-> Null]]
  /\ UNCHANGED <<parent, answer>>

\* Mutant: a lookup goes on when no tree begins by that time.
LookupUnchecked(h, w, t) ==
  /\ ~Live(h) /\ Exists(w)
  /\ handle' = [handle EXCEPT ![h] =
       [world |-> w, time |-> t, w |-> w, s |-> PreviousOrEqual(tree[Super(w)], t),
        t |-> t, mw |-> orderMagic, ms |-> magic[Super(w)], mt |-> magic[Super(w)]]]
  /\ UNCHANGED <<parent, index, states, marks, answer>>

\* What a lookup in world w at time t finds in the three chunks.
Resolution(w, t) ==
  LET v == ResolveWorld(w, t)
      s == PreviousOrEqual(tree[Super(v)], t)
  IN  [w |-> v, s |-> s,
       t |-> IF s = Null THEN Null ELSE PreviousOrEqual(tree[<<v, s>>], t)]

Lookup(h, w, t) ==
  LET r == Resolution(w, t) IN
  /\ ~Live(h) /\ Exists(w)
  /\ <<r.w, r.t>> \in states    \* otherwise the callback gets null
  /\ handle' = [handle EXCEPT ![h] =
       [world |-> w, time |-> t, w |-> r.w, s |-> r.s, t |-> r.t,
        mw |-> orderMagic, ms |-> magic[Super(r.w)], mt |-> magic[<<r.w, r.s>>]]]
  /\ stateMarks' = Plus(stateMarks, <<r.w, r.t>>, 1)
  /\ treeMarks' = Plus(Plus(treeMarks, Super(r.w), 1), <<r.w, r.s>>, 1)
  /\ orderMarks' = orderMarks + 1
  /\ UNCHANGED <<parent, index, states, answer>>

\* Mutant: the copy does not mark the world order.
CloneWithoutOrder(h, copy) ==
  LET p == handle[h] IN
  /\ Live(h) /\ ~Live(copy)
  /\ handle' = [handle EXCEPT ![copy] = p]
  /\ stateMarks' = Plus(stateMarks, <<p.world, p.time>>, 1)
  /\ treeMarks' = Plus(Plus(treeMarks, Super(p.world), 1), <<p.world, p.s>>, 1)
  /\ UNCHANGED <<parent, index, states, orderMarks, answer>>

\* cloneNode: the copy starts from the tuple of the original, the marks are
\* taken in the world and at the time of the node.
Clone(h, copy) ==
  LET p == handle[h] IN
  /\ Live(h) /\ ~Live(copy)
  /\ handle' = [handle EXCEPT ![copy] = p]
  /\ stateMarks' = IF <<p.world, p.time>> \in states
                   THEN Plus(stateMarks, <<p.world, p.time>>, 1) ELSE stateMarks
  /\ treeMarks' = [k \in Trees |->
       treeMarks[k] + IF k \in {Super(p.world), <<p.world, p.s>>} /\ tree[k] # {}
                      THEN 1 ELSE 0]
  /\ orderMarks' = orderMarks + 1
  /\ UNCHANGED <<parent, index, states, answer>>

Free(h) ==
  LET p == handle[h] IN
  /\ Live(h)
  /\ handle' = [handle EXCEPT ![h] = Freed]
  /\ stateMarks' = Plus(stateMarks, <<p.w, p.t>>, -1)
  /\ treeMarks' = [k \in Trees |->
       treeMarks[k] - IF k \in {Super(p.w), <<p.w, p.s>>} /\ tree[k] # {}
                      THEN 1 ELSE 0]
  /\ orderMarks' = orderMarks - 1
  /\ UNCHANGED <<parent, index, states, answer>>

-----------------------------------------------------------------------------
(* Inserting time t in tree k, whose super tree is sk, for world w.        *)

\* Mutant: the threshold is the largest size instead of the splitting one.
SplitsLate(k, sk, t) ==
  Cardinality(tree[k] \cup {t}) = Threshold(Cardinality(tree[sk])) + 1

Splits(k, sk, t) ==
  Cardinality(tree[k] \cup {t}) = Threshold(Cardinality(tree[sk]))

Upper(k, t)  == UpperHalf(tree[k] \cup {t})
\* Mutant: the median is the first time range() visits, not the last.
MedianFirst(k, t) == Max(Upper(k, t))

Median(k, t) == Min(Upper(k, t))

Insert(k, t) ==
  /\ tree' = [tree EXCEPT ![k] = @ \cup {t}]
  /\ magic' = Plus(magic, k, Added(k, {t}))

\* The upper half moves to a tree of its own, then it is cleared away from
\* the left tree, whose magic changes once more; the right tree's counts only
\* with insert, not with unsafe_insert.
InsertAndSplit(w, k, sk, t, counted) ==
  LET up == Upper(k, t)  right == <<w, Median(k, t)>> IN
  /\ tree' = [tree EXCEPT ![right] = @ \cup up,
                          ![k] = (@ \cup {t}) \ up,
                          ![sk] = @ \cup {Median(k, t)}]
  /\ magic' = [magic EXCEPT ![k] = @ + Added(k, {t}) + 1,
                            ![right] = @ + IF counted THEN Added(right, up) ELSE 0,
                            ![sk] = @ + Added(sk, {Median(k, t)})]

\* Mutant: the time tree of the new timeline stays empty.
TimelineWithoutTree(w, t) ==
  /\ tree' = [tree EXCEPT ![Super(w)] = @ \cup {t}]
  /\ magic' = Plus(magic, Super(w), 1)
  /\ order' = [order EXCEPT ![w] = t] /\ orderMagic' = orderMagic + 1

\* Mutant: the divergence does not change the magic of the world order.
TimelineUncounted(w, t) ==
  /\ tree' = [tree EXCEPT ![Super(w)] = @ \cup {t}, ![<<w, t>>] = @ \cup {t}]
  /\ magic' = [magic EXCEPT ![Super(w)] = @ + 1, ![<<w, t>>] = @ + 1]
  /\ order' = [order EXCEPT ![w] = t] /\ UNCHANGED orderMagic

\* A world the node has no timeline in gets one that begins at t.
NewTimeline(w, t) ==
  /\ tree' = [tree EXCEPT ![Super(w)] = @ \cup {t}, ![<<w, t>>] = @ \cup {t}]
  /\ magic' = [magic EXCEPT ![Super(w)] = @ + Added(Super(w), {t}),
                            ![<<w, t>>] = @ + Added(<<w, t>>, {t})]
  /\ order' = [order EXCEPT ![w] = t] /\ orderMagic' = orderMagic + 1

-----------------------------------------------------------------------------
(* What resolveState starts with.                                          *)

Exact(p) == p.w = p.world /\ p.t = p.time

\* Its own trees are not in the cache (they were never created).
TreesMissing(p) == {} \in {tree[Super(p.w)], tree[<<p.w, p.s>>]}

\* Mutant: the magic of the time tree is not compared.
SameTimelines(p) == p.mw = orderMagic /\ p.ms = magic[Super(p.w)]

\* Nothing has changed since p was resolved, as far as the magics tell.
Same(p) == p.mw = orderMagic /\ p.ms = magic[Super(p.w)]
                             /\ p.mt = magic[<<p.w, p.s>>]

\* The resolution of p as of now. The time tree is exchanged only when the
\* super time is another one.
Rephased(p) ==
  IF Same(p) THEN [w |-> p.w, s |-> p.s, t |-> p.t, k |-> <<p.w, p.s>>]
  ELSE LET w == ResolveWorld(p.world, p.time)
           s == PreviousOrEqual(tree[Super(w)], p.time)
           k == IF s = p.s THEN <<p.w, p.s>> ELSE <<w, s>>
       IN  [w |-> w, s |-> s, k |-> k, t |-> PreviousOrEqual(tree[k], p.time)]

\* Mutant: the mark on the time tree left behind stays.
TimeTreeKept(p, r) == Plus(Moved(treeMarks, Super(p.w), Super(r.w)), r.k,
                           IF r.s = p.s THEN 0 ELSE 1)

\* The marks of the trees follow the resolution.
TreesMoved(p, r) ==
  Moved(Moved(treeMarks, Super(p.w), Super(r.w)), <<p.w, p.s>>, r.k)

\* A call for the world and the time of node p returns state n.
Answer(p, n) == answer' = [world |-> p.world, time |-> p.time, state |-> n]
At(p, t) == [p EXCEPT !.time = t]

Resolve(h, w, s, t, mw, ms, mt) ==
  handle' = [handle EXCEPT ![h] =
    [world |-> handle[h].world, time |-> handle[h].time,
     w |-> w, s |-> s, t |-> t, mw |-> mw, ms |-> ms, mt |-> mt]]

\* resolveState, with or without dephasing, of a node that is in phase.
InPhase(h) ==
  /\ Live(h) /\ Exact(handle[h])
  /\ Answer(handle[h], <<handle[h].w, handle[h].t>>)
  /\ UNCHANGED <<parent, index, states, marks, handle>>

Unresolvable(h) ==
  /\ Live(h) /\ ~Exact(handle[h]) /\ TreesMissing(handle[h])
  /\ Answer(handle[h], NoState)
  /\ UNCHANGED <<parent, index, states, marks, handle>>

Dephased(h) == Live(h) /\ ~Exact(handle[h]) /\ ~TreesMissing(handle[h])

\* The time tree to move to does not exist: the exception leaves the marks.
RephaseFails(h) ==
  LET p == handle[h]  r == Rephased(p) IN
  /\ Dephased(h) /\ tree[r.k] = {}
  /\ Answer(handle[h], NoState)
  /\ treeMarks' = Plus(IF r.w = p.w THEN Plus(treeMarks, Super(p.w), 1)
                       ELSE Moved(treeMarks, Super(p.w), Super(r.w)),
                       <<p.w, p.s>>, 1)
  /\ UNCHANGED <<parent, index, states, stateMarks, orderMarks, handle>>

-----------------------------------------------------------------------------
(* get: resolveState(node, true)                                           *)

GetSame(h) ==
  /\ Dephased(h) /\ Same(handle[h])
  /\ Answer(handle[h], <<handle[h].w, handle[h].t>>)
  /\ UNCHANGED <<parent, index, states, marks, handle>>

\* The state resolved to does not exist: "Simultaneous rePhasing leading to
\* cache miss", null for the caller, and the marks of the trees have moved.
GetMisses(h) ==
  LET p == handle[h]  r == Rephased(p) IN
  /\ Dephased(h) /\ ~Same(p) /\ tree[r.k] # {}
  /\ <<r.w, r.t>> \notin states
  /\ Answer(handle[h], NoState)
  /\ treeMarks' = TreesMoved(p, r)
  /\ UNCHANGED <<parent, index, states, stateMarks, orderMarks, handle>>

\* The magics stored are those of the trees p had resolved.
GetRephased(h) ==
  LET p == handle[h]  r == Rephased(p) IN
  /\ Dephased(h) /\ ~Same(p) /\ tree[r.k] # {}
  /\ <<r.w, r.t>> \in states
  /\ Answer(p, <<r.w, r.t>>)
  /\ treeMarks' = TreesMoved(p, r)
  /\ stateMarks' = Moved(stateMarks, <<p.w, p.t>>, <<r.w, r.t>>)
  /\ IF <<r.w, r.s, r.t>> = <<p.w, p.s, p.t>> THEN UNCHANGED handle
     ELSE Resolve(h, r.w, r.s, r.t,
                  orderMagic, magic[Super(p.w)], magic[<<p.w, p.s>>])
  /\ UNCHANGED <<parent, index, states, orderMarks>>

-----------------------------------------------------------------------------
(* set and rephase: resolveState(node, false) clones the resolved state to *)
(* the world and time of the node, and inserts its time.                   *)

Here(p) == <<p.world, p.time>>

\* There is no state to clone: the exception comes before the insertion.
PhaseMisses(h) ==
  LET p == handle[h]  r == Rephased(p) IN
  /\ Dephased(h) /\ tree[r.k] # {} /\ <<r.w, r.t>> \notin states
  /\ states' = states \cup {Here(p)}
  /\ stateMarks' = Plus(stateMarks, Here(p), Put(Here(p) \in states))
  /\ treeMarks' = TreesMoved(p, r)
  /\ Answer(p, IF Here(p) \in states THEN Orphan ELSE Here(p))
  /\ UNCHANGED <<parent, index, orderMarks, handle>>

\* The clone is put and marked; a clone that finds a state in its place is
\* returned all the same. The state cloned from loses its lookup mark.
CloneState(p, r) ==
  /\ states' = states \cup {Here(p)}
  /\ stateMarks' = Plus(Plus(stateMarks, Here(p), Put(Here(p) \in states)),
                        <<r.w, r.t>>, -1)
  /\ Answer(p, IF Here(p) \in states THEN Orphan ELSE Here(p))

Phases(h) ==
  LET r == Rephased(handle[h]) IN
  Dephased(h) /\ tree[r.k] # {} /\ <<r.w, r.t>> \in states

\* The world of the node has no timeline yet and w is another one.
Diverges(p, w) == w # p.world /\ order[p.world] = Null

PhaseInserts(h) ==
  LET p == handle[h]  r == Rephased(p) IN
  /\ Phases(h) /\ ~Diverges(p, r.w) /\ ~Splits(r.k, Super(r.w), p.time)
  /\ CloneState(p, r)
  /\ Insert(r.k, p.time)
  /\ treeMarks' = TreesMoved(p, r)
  /\ Resolve(h, p.world, r.s, p.time,
             orderMagic, magic[Super(p.w)], magic'[r.k])
  /\ UNCHANGED <<parent, order, orderMagic, orderMarks>>

PhaseSplitsLeft(h) ==
  LET p == handle[h]  r == Rephased(p)  m == Median(r.k, p.time) IN
  /\ Phases(h) /\ ~Diverges(p, r.w) /\ Splits(r.k, Super(r.w), p.time)
  /\ p.time < m
  /\ CloneState(p, r)
  /\ InsertAndSplit(p.world, r.k, Super(r.w), p.time, FALSE)
  /\ treeMarks' = Plus(TreesMoved(p, r), <<p.world, m>>,
                       Put(tree[<<p.world, m>>] # {}) - 1)
  /\ Resolve(h, p.world, r.s, p.time,
             orderMagic, magic'[Super(r.w)], magic'[r.k])
  /\ UNCHANGED <<parent, order, orderMagic, orderMarks>>

\* The handle moves to the right tree; the left one is unmarked twice.
PhaseSplitsRight(h) ==
  LET p == handle[h]  r == Rephased(p)  m == Median(r.k, p.time) IN
  /\ Phases(h) /\ ~Diverges(p, r.w) /\ Splits(r.k, Super(r.w), p.time)
  /\ p.time >= m
  /\ CloneState(p, r)
  /\ InsertAndSplit(p.world, r.k, Super(r.w), p.time, FALSE)
  /\ treeMarks' = Plus(Plus(TreesMoved(p, r), r.k, IF r.s = p.s THEN -1 ELSE -2),
                       <<p.world, m>>, Put(tree[<<p.world, m>>] # {}))
  /\ Resolve(h, p.world, m, p.time,
             orderMagic, magic'[<<p.world, m>>], magic'[r.k])
  /\ UNCHANGED <<parent, order, orderMagic, orderMarks>>

PhaseDiverges(h) ==
  LET p == handle[h]  r == Rephased(p) IN
  /\ Phases(h) /\ Diverges(p, r.w)
  /\ CloneState(p, r)
  /\ NewTimeline(p.world, p.time)
  /\ treeMarks' = Moved(Moved(TreesMoved(p, r), Super(r.w), Super(p.world)),
                        r.k, Here(p))
  /\ Resolve(h, p.world, p.time, p.time,
             orderMagic', magic'[Super(p.world)], magic'[Here(p)])
  /\ UNCHANGED <<parent, orderMarks>>

-----------------------------------------------------------------------------
(* newState(node, world of the node, t): an empty state at t. It goes into *)
(* the trees the handle resolved before, which are not resolved again.     *)

\* The test that t is not before the resolved state compares it with a
\* magic; the one of a node just created is NULL_LONG, above every time.
Refused(p, t) == ~(p.mt # Null /\ p.mt <= t)

\* The exception leaves the mark of the world order.
NewRefused(h, t) ==
  /\ Live(h) /\ Refused(handle[h], t)
  /\ Answer(At(handle[h], t), NoState)
  /\ orderMarks' = orderMarks + 1
  /\ UNCHANGED <<parent, index, states, stateMarks, treeMarks, handle>>

NewThere(h, t) ==
  LET p == handle[h] IN
  /\ Live(h) /\ ~Refused(p, t) /\ p.w = p.world /\ p.t = t
  /\ Answer(At(p, t), <<p.w, t>>)
  /\ UNCHANGED <<parent, index, states, marks, handle>>

Creates(h, t) ==
  LET p == handle[h]
  IN  Live(h) /\ ~Refused(p, t) /\ <<p.w, p.t>> # <<p.world, t>>

PutState(p, t) ==
  LET n == <<p.world, t>> IN
  /\ states' = states \cup {n}
  /\ stateMarks' = Plus(Plus(stateMarks, n, Put(n \in states)), <<p.w, p.t>>, -1)
  /\ Answer(At(p, t), n)

\* A tree of the handle is missing: the state was put and marked already.
NewMisses(h, t) ==
  LET p == handle[h]  n == <<p.world, t>> IN
  /\ Creates(h, t) /\ ~Diverges(p, p.w) /\ TreesMissing(p)
  /\ states' = states \cup {n}
  /\ stateMarks' = Plus(stateMarks, n, Put(n \in states))
  /\ Answer(At(handle[h], t), NoState)
  /\ UNCHANGED <<parent, index, treeMarks, orderMarks, handle>>

NewInserts(h, t) ==
  LET p == handle[h]  k == <<p.w, p.s>> IN
  /\ Creates(h, t) /\ ~Diverges(p, p.w) /\ ~TreesMissing(p)
  /\ ~Splits(k, Super(p.w), t)
  /\ PutState(p, t)
  /\ Insert(k, t)
  /\ Resolve(h, p.world, p.s, t, orderMagic, magic[Super(p.w)], magic'[k])
  /\ UNCHANGED <<parent, order, orderMagic, treeMarks, orderMarks>>

\* Where a time before the tree's first one makes the tree its own right half
\* (outer times, below), the call waits for the lock it holds for ever.
NewSplits(h, t) ==
  LET p == handle[h]  k == <<p.w, p.s>>  right == <<p.world, Median(k, t)>>
      put == Put(tree[right] # {})
  IN
  /\ Creates(h, t) /\ ~Diverges(p, p.w) /\ ~TreesMissing(p)
  /\ Splits(k, Super(p.w), t) /\ right # k
  /\ PutState(p, t)
  /\ InsertAndSplit(p.world, k, Super(p.w), t, TRUE)
  /\ \/ /\ t < Median(k, t)
        /\ treeMarks' = Plus(treeMarks, right, put - 1)
        /\ Resolve(h, p.world, p.s, t, orderMagic, magic'[Super(p.w)], magic'[k])
     \/ /\ t >= Median(k, t)
        /\ treeMarks' = Plus(Plus(treeMarks, k, -1), right, put)
        /\ Resolve(h, p.world, Median(k, t), t,
                   orderMagic, magic'[right], magic'[k])
  /\ UNCHANGED <<parent, order, orderMagic, orderMarks>>

NewDiverges(h, t) ==
  LET p == handle[h] IN
  /\ Creates(h, t) /\ Diverges(p, p.w)
  /\ PutState(p, t)
  /\ NewTimeline(p.world, t)
  /\ treeMarks' = Moved(Moved(treeMarks, Super(p.w), Super(p.world)),
                        <<p.w, p.s>>, <<p.world, t>>)
  /\ Resolve(h, p.world, t, t,
             orderMagic', magic'[Super(p.world)], magic'[<<p.world, t>>])
  /\ UNCHANGED <<parent, orderMarks>>

-----------------------------------------------------------------------------
Get(h) ==
  \/ InPhase(h) \/ Unresolvable(h) \/ RephaseFails(h)
  \/ GetSame(h) \/ GetMisses(h) \/ GetRephased(h)

Phase(h) ==
  \/ InPhase(h) \/ Unresolvable(h) \/ RephaseFails(h)
  \/ PhaseMisses(h) \/ PhaseInserts(h)
  \/ PhaseSplitsLeft(h) \/ PhaseSplitsRight(h) \/ PhaseDiverges(h)

NewState(h, t) ==
  \/ NewRefused(h, t) \/ NewThere(h, t) \/ NewMisses(h, t)
  \/ NewInserts(h, t) \/ NewSplits(h, t) \/ NewDiverges(h, t)

-----------------------------------------------------------------------------
(* What the callers take care of. Careful ones look a node up again before *)
(* they write, and before they read if its world has diverged since; once  *)
(* a node has followed a split to another time tree, with magics of trees  *)
(* it left, they look it up again before they read it out of phase; they   *)
(* do not write in a world before the time it diverged; they clone nodes   *)
(* in phase; newState gets times that are above the magics, and between    *)
(* the state the node resolved and the time of the node: its exception     *)
(* speaks of that, but what it compares with the time is a magic.          *)

\* The Node objects whose resolution refers to a chunk.
Alive == {h \in Handles : Live(h)}
StateHolders(n) == {h \in Alive : <<handle[h].w, handle[h].t>> = n}
TreeHolders(k) ==
  {h \in Alive : k \in {Super(handle[h].w), <<handle[h].w, handle[h].s>>}}

\* Careless calls lose and leak marks without end: the runs bound them.
Off(marked, holders) ==
  LET n == Cardinality(holders) IN IF marked < n THEN n - marked ELSE marked - n
MarksOff ==
  MapThenSumSet(LAMBDA n : Off(stateMarks[n], StateHolders(n)), States)
  + MapThenSumSet(LAMBDA k : Off(treeMarks[k], TreeHolders(k)), Trees)
  + Off(orderMarks, Alive)

\* What h resolved is what a lookup would find now.
Current(h) ==
  LET p == handle[h]
  IN  [w |-> p.w, s |-> p.s, t |-> p.t] = Resolution(p.world, p.time)

Careful(thing) == thing \notin Careless

MayCall(h) == Live(h) /\ ~(Careless # {} /\ MarksOff > MaxOff)

\* The careless calls.
StaleRead(h) == handle[h].w # ResolveWorld(handle[h].world, handle[h].time)
SplitRead(h) == h \in followed /\ ~Exact(handle[h])
StaleWrite(h) == ~Current(h)
\* A world that has not diverged has order Null, before every time.
EarlyWrite(h) == handle[h].time < order[handle[h].world]
OuterTime(h, t) == ~(handle[h].t <= t /\ t <= handle[h].time)

MayRead(h) ==
  /\ MayCall(h)
  /\ StaleRead(h) => ~Careful("stale reads")
  /\ SplitRead(h) => ~Careful("split reads")

MayInsert(h) ==
  /\ MayCall(h)
  /\ StaleWrite(h) => ~Careful("stale writes")
  /\ EarlyWrite(h) => ~Careful("early writes")

MayWrite(h) == MayCall(h) /\ (~Exact(handle[h]) => MayInsert(h))

MayAdd(h, t) ==
  /\ MayInsert(h)
  /\ Refused(handle[h], t) => ~Careful("small times")
  /\ OuterTime(h, t) => ~Careful("outer times")

MayClone(h) ==
  MayCall(h) /\ (Exact(handle[h]) \/ ~Careful("dephased clones"))

\* The Node object was in another time tree of the same world before.
Follows(h) ==
  /\ Live(h) /\ Live(h)'
  /\ handle'[h].w = handle[h].w /\ handle'[h].s # handle[h].s

\* Whether a call has been careless otherwise than through a split, and
\* which Node objects followed one since they were resolved.
Strays(careless) ==
  /\ strayed' = (strayed \/ careless)
  /\ followed' = {h \in Handles :
       IF handle'[h] = handle[h] THEN h \in followed ELSE Follows(h)}

Next ==
  \/ \E w, child \in Worlds : Fork(w, child) /\ Strays(FALSE)
  \/ \E h \in Handles, w \in Worlds, t \in Times :
       (NewNode(h, w, t) \/ Lookup(h, w, t)) /\ Strays(FALSE)
  \/ \E h \in Handles : Free(h) /\ Strays(FALSE)
  \/ \E h \in Handles : MayRead(h) /\ Get(h) /\ Strays(StaleRead(h))
  \/ \E h \in Handles : MayWrite(h) /\ Phase(h)
       /\ Strays(~Exact(handle[h]) /\ (StaleWrite(h) \/ EarlyWrite(h)))
  \/ \E h \in Handles, t \in Times : MayAdd(h, t) /\ NewState(h, t)
       /\ Strays(StaleWrite(h) \/ EarlyWrite(h) \/ Refused(handle[h], t)
                 \/ OuterTime(h, t))
  \/ \E h, copy \in Handles : MayClone(h) /\ Clone(h, copy)
       /\ Strays(~Exact(handle[h]))

Spec == Init /\ [][Next]_vars

-----------------------------------------------------------------------------
(* Properties under careful use.                                           *)

\* Every chunk carries one mark for each Node object whose resolution refers
\* to it, as lookup, resolveState, newState and freeNode count them: it is
\* neither evicted under a live node nor kept after the last one is freed.
MarksBalanced ==
  /\ \A n \in States : stateMarks[n] = Cardinality(StateHolders(n))
  /\ \A k \in Trees : treeMarks[k] = Cardinality(TreeHolders(k))
  /\ orderMarks = Cardinality(Alive)

\* The trees of a world part its states: each state is in the tree the super
\* tree leads to, whatever was inserted and split by newState and
\* resolveState, and the super tree begins where the world diverged.
TreesPartStates ==
  \A w \in Worlds :
    LET super == tree[Super(w)] IN
    /\ (order[w] = Null) = (super = {})
    /\ super # {} => Min(super) = order[w]
    /\ {t \in Times : <<w, t>> \in states} = UNION {tree[<<w, s>>] : s \in Times}
    /\ \A s \in Times : (tree[<<w, s>>] # {}) = (s \in super)
    /\ \A s \in super : \A t \in tree[<<w, s>>] :
         s <= t /\ \A u \in super : s < u => t < u

\* A time tree is split as soon as it reaches the threshold, although the
\* threshold itself grows with the super tree.
TreesSplit ==
  \A w \in Worlds, s \in Times :
    Cardinality(tree[<<w, s>>]) < Threshold(Cardinality(tree[Super(w)]))

\* When resolveState compares them, magics that are those of the chunks
\* ("SAME DEPHASING") mean that the resolution is still the right one,
\* although each chunk counts on its own.
SameIsCurrent == \A h \in Alive :
  ~Exact(handle[h]) /\ ~SplitRead(h) /\ Same(handle[h]) => Current(h)

Abstract == INSTANCE Timelines
  WITH written <- [w \in Worlds |-> {t \in Times : <<w, t>> \in states}]

\* Reads of resolveState return the latest state, writes of resolveState and
\* newState add the state of their world and time and no other, and nothing
\* else changes what is read.
KeepsPromises == Abstract!Spec

\* A node may also be read on and on after a time tree was split under it:
\* each read that moves to the tree that now holds its time moves the marks
\* along, one by one, between chunks that other nodes hold too.
MarksFollowSplits == ~strayed => MarksBalanced /\ TreesPartStates

-----------------------------------------------------------------------------
(* What holds for careless callers.                                        *)

\* The state a timeline begins with stays readable, whatever resolveState
\* and newState insert or split in trees they resolved too long ago: as long
\* as newState gets no outer times, which nothing in it refuses.
FirstKept ==
  \A w \in Worlds : order[w] # Null =>
    /\ Resolution(w, order[w]) = [w |-> w, s |-> order[w], t |-> order[w]]
    /\ <<w, order[w]>> \in states

\* The world order, whose lock orders the calls of a node, keeps a mark for
\* every Node object: it is never evicted and loaded again with another lock.
LockKept == orderMarks >= Cardinality(Alive)

-----------------------------------------------------------------------------
(* What the documentation says of these calls and the code does not do.    *)

\* "In case dephasing is allowed the latest state available is returned":
\* by resolveState(node, true), also when the node resolved another before.
LatestReturned ==
  [][\A h \in Handles : Get(h) =>
       answer'.state = Abstract!Latest(handle[h].world, handle[h].time)]_vars

=============================================================================
