------------------------------ MODULE TimeTree -------------------------------
(* HeapTimeTreeChunk: the times of a timeline in a red-black tree laid out in *)
(* arrays, a node being its place in them. Every method runs under the        *)
(* chunk's lock, so it is one action. Set is what the chunk promises.         *)
EXTENDS Integers, FiniteSets, Sequences, SequencesExt

CONSTANTS Times,    \* naturals
          Careless, \* what callers do not avoid, see Merge
          Batches,  \* bound: the sets of times a fill or a merge may bring
          MaxLate   \* bound: how far an insertion may lie before the latest time

ASSUME TreeAssumption ==
    /\ Times \subseteq Nat
    /\ Careless \subseteq {"merges"}
    /\ Batches \subseteq SUBSET Times
    /\ MaxLate \in Nat

VARIABLES tree,     \* the arrays, their size, length and threshold
          magic,    \* _magic
          dirty,    \* the dirty flag
          stored,   \* the keys the last save wrote, in their order
          call      \* the last call, as in TimeSet

vars == <<tree, magic, dirty, stored, call>>

-----------------------------------------------------------------------------
(* The arrays. A cell at or above the size is written before it is read, so  *)
(* only the cells below it are kept; black is TRUE as in _back_colors.       *)

Nil == -1

\* The times of a set, the earliest first.
Ascending(T) == [i \in 1 .. Cardinality(T) |->
                     CHOOSE t \in T : Cardinality({u \in T : u < t}) = i - 1]

NoTimes == [root |-> Nil, size |-> 0, length |-> 0, threshold |-> 0,
            key |-> <<>>, left |-> <<>>, right |-> <<>>, parent |-> <<>>, black |-> <<>>]

Nodes(t) == 0 .. t.size - 1

\* The accessors answer for the missing node, too: it has none, and is black.
Key(t, n)    == IF n = Nil THEN Nil ELSE t.key[n]
Left(t, n)   == IF n = Nil THEN Nil ELSE t.left[n]
Right(t, n)  == IF n = Nil THEN Nil ELSE t.right[n]
Parent(t, n) == IF n = Nil THEN Nil ELSE t.parent[n]
Black(t, n)  == n = Nil \/ t.black[n]

GrandParent(t, n) == Parent(t, Parent(t, n))
Sibling(t, n) == IF Parent(t, n) = Nil THEN Nil
                 ELSE IF n = Left(t, Parent(t, n)) THEN Right(t, Parent(t, n))
                 ELSE Left(t, Parent(t, n))
Uncle(t, n) == Sibling(t, Parent(t, n))

\* Mutant: room for the new node only.
ReallocatedTight(t, length) == [t EXCEPT !.length = t.size, !.threshold = t.size]

\* MAP_LOAD_FACTOR is .75, and the product is cut to an integer.
Reallocated(t, length) == [t EXCEPT !.length = length,
                                    !.threshold = (length * 3) \div 4]

WithRoom(t) == IF t.size + 1 > t.threshold
               THEN Reallocated(t, IF t.size = 0 THEN 1 ELSE 2 * t.size)
               ELSE t

-----------------------------------------------------------------------------
(* Searching.                                                                *)

\* The first ancestor that n is to the right of.
RECURSIVE Climbed(_, _)
Climbed(t, n) == IF Parent(t, n) # Nil /\ n = Left(t, Parent(t, n))
                 THEN Climbed(t, Parent(t, n))
                 ELSE Parent(t, n)

RECURSIVE Rightmost(_, _)
Rightmost(t, n) == IF Right(t, n) = Nil THEN n ELSE Rightmost(t, Right(t, n))

\* previous: the node of the next smaller key.
Previous(t, n) == IF Left(t, n) # Nil THEN Rightmost(t, Left(t, n)) ELSE Climbed(t, n)

\* The node with key k, or the one below which k belongs.
RECURSIVE Descended(_, _, _)
Descended(t, n, k) ==
    LET child == IF k < Key(t, n) THEN Left(t, n) ELSE Right(t, n)
    IN  IF k = Key(t, n) \/ child = Nil THEN n ELSE Descended(t, child, k)

\* internal_previousOrEqual_index
PreviousOrEqual(t, k) ==
    IF t.root = Nil THEN Nil
    ELSE LET n == Descended(t, t.root, k)
         IN  IF k >= Key(t, n) THEN n ELSE Climbed(t, n)

\* range: at most `max` keys, downwards from `end`, none below `start`.
RECURSIVE WalkedFrom(_, _, _, _)
WalkedFrom(t, n, start, max) ==
    IF n = Nil \/ Key(t, n) < start \/ max = 0 THEN <<>>
    ELSE <<Key(t, n)>> \o WalkedFrom(t, Previous(t, n), start, max - 1)

Walked(t, start, end, max) == WalkedFrom(t, PreviousOrEqual(t, end), start, max)

-----------------------------------------------------------------------------
(* Inserting.                                                                *)

ReplaceNode(t, old, new) ==
    LET p == Parent(t, old)
        linked == CASE p = Nil          -> [t EXCEPT !.root = new]
                    [] old = Left(t, p) -> [t EXCEPT !.left[p] = new]
                    [] OTHER            -> [t EXCEPT !.right[p] = new]
    IN  IF new = Nil THEN linked ELSE [linked EXCEPT !.parent[new] = p]

\* Mutant: the subtree that changes sides keeps its old parent.
RotateLeftHalf(t, n) ==
    LET r == Right(t, n)
    IN  [ReplaceNode(t, n, r) EXCEPT !.right[n] = Left(t, r), !.left[r] = n, !.parent[n] = r]

RotateLeft(t, n) ==
    LET r == Right(t, n)
        l == Left(t, r)
        up == [ReplaceNode(t, n, r) EXCEPT !.right[n] = l]
        moved == IF l = Nil THEN up ELSE [up EXCEPT !.parent[l] = n]
    IN  [moved EXCEPT !.left[r] = n, !.parent[n] = r]

RotateRight(t, n) ==
    LET l == Left(t, n)
        r == Right(t, l)
        up == [ReplaceNode(t, n, l) EXCEPT !.left[n] = r]
        moved == IF r = Nil THEN up ELSE [up EXCEPT !.parent[r] = n]
    IN  [moved EXCEPT !.right[l] = n, !.parent[n] = l]

InsertCase5(t, n) ==
    LET p == Parent(t, n)
        g == GrandParent(t, n)
        painted == [t EXCEPT !.black[p] = TRUE, !.black[g] = FALSE]
    IN  IF n = Left(t, p) /\ p = Left(t, g)
        THEN RotateRight(painted, g)
        ELSE RotateLeft(painted, g)

\* Mutant: an inner node is not turned outwards first.
InsertCase4Outer(t, n) == InsertCase5(t, n)

InsertCase4(t, n) ==
    LET p == Parent(t, n)
        g == GrandParent(t, n)
    IN  CASE n = Right(t, p) /\ p = Left(t, g)  -> InsertCase5(RotateLeft(t, p), p)
          [] n = Left(t, p)  /\ p = Right(t, g) -> InsertCase5(RotateRight(t, p), p)
          [] OTHER                              -> InsertCase5(t, n)

\* insertCase1 to insertCase3
RECURSIVE Repaired(_, _)
Repaired(t, n) ==
    LET p == Parent(t, n)
        g == GrandParent(t, n)
    IN  CASE p = Nil                         -> [t EXCEPT !.black[n] = TRUE]
          [] p # Nil /\ Black(t, p)          -> t
          [] ~Black(t, p) /\ Black(t, Uncle(t, n)) -> InsertCase4(t, n)
          [] OTHER -> Repaired([t EXCEPT !.black[p] = TRUE,
                                         !.black[Uncle(t, n)] = TRUE,
                                         !.black[g] = FALSE], g)

\* The new node takes the first free cell, red and without children.
Appended(t, k, p) ==
    LET n == t.size
        with(f, x) == [i \in 0 .. n |-> IF i = n THEN x ELSE f[i]]
    IN  [t EXCEPT !.size = n + 1,
                  !.root = IF p = Nil THEN n ELSE @,
                  !.key = with(@, k),
                  !.left  = [i \in 0 .. n |-> IF i = p /\ k < Key(t, p) THEN n ELSE with(@, Nil)[i]],
                  !.right = [i \in 0 .. n |-> IF i = p /\ k > Key(t, p) THEN n ELSE with(@, Nil)[i]],
                  !.parent = with(@, p),
                  !.black = with(@, FALSE)]

Holds(t, k) == t.root # Nil /\ Key(t, Descended(t, t.root, k)) = k

\* internal_insert: room is made before the key is looked for.
Inserted(t, k) ==
    LET roomy == WithRoom(t)
        p == IF t.size = 0 THEN Nil ELSE Descended(t, t.root, k)
    IN  IF Holds(t, k) THEN roomy
        ELSE Repaired(Appended(roomy, k, p), t.size)

InsertedAll(t, ks) == FoldLeft(Inserted, t, ks)

\* save: the keys as they lie, in the order of their insertion.
Saved(t) == [i \in 1 .. t.size |-> t.key[i - 1]]

\* clearAt: emptied arrays of the same length, then the keys below max again.
Cleared(t, max) ==
    InsertedAll([NoTimes EXCEPT !.length = t.length, !.threshold = t.threshold],
                SelectSeq(Saved(t), LAMBDA k : k < max))

-----------------------------------------------------------------------------

Init == /\ tree = NoTimes /\ magic = 0 /\ dirty = FALSE /\ stored = <<>>
        /\ call = [op |-> "none", given |-> {}]

\* The call and its times, for TimeSet to say what it should do.
Asked(op, T) == call' = [op |-> op, given |-> T]

\* Mutant: the magic moves only when the chunk was clean.
SetDirtyOnce == dirty' = TRUE /\ magic' = IF dirty THEN magic ELSE magic + 1

\* internal_set_dirty
SetDirty == magic' = magic + 1 /\ dirty' = TRUE

Held == {tree.key[n] : n \in Nodes(tree)}

Insert(k) ==
    /\ \A h \in Held : h <= k + MaxLate
    /\ tree' = Inserted(tree, k)
    /\ IF Holds(tree, k) THEN UNCHANGED <<magic, dirty>> ELSE SetDirty
    /\ Asked("insert", {k})
    /\ UNCHANGED stored

\* The upper half of a split: unsafe_insert of what the walk over the other
\* tree yields, then the resolver declares the chunk dirty.
Fill(T) ==
    /\ T # {}
    /\ tree' = InsertedAll(tree, Reverse(Ascending(T)))
    /\ dirty' = TRUE
    /\ Asked("fill", T)
    /\ UNCHANGED <<magic, stored>>

\* Arrays are there once a first time was inserted.
ClearAt(max) ==
    /\ tree.length > 0
    /\ tree' = Cleared(tree, max)
    /\ SetDirty
    /\ Asked("clearAt", {max})
    /\ UNCHANGED stored

\* The keys another graph saved; nothing is inserted after the first new key.
\* Careful peers send trees with at most one time that is new.
Merge(T) ==
    LET ks == Ascending(T)
        new == {k \in T : ~Holds(tree, k)}
        read == {i \in 1 .. Len(ks) : \A j \in 1 .. i - 1 : ks[j] \notin new}
    IN  /\ T # {}
        /\ "merges" \in Careless \/ \A j, k \in new : j = k
        /\ tree' = InsertedAll(tree, [i \in read |-> ks[i]])
        /\ IF new = {} THEN UNCHANGED <<magic, dirty>> ELSE SetDirty
        /\ Asked("merge", T)
        /\ UNCHANGED stored

Save ==
    /\ dirty
    /\ stored' = Saved(tree)
    /\ dirty' = FALSE
    /\ Asked("save", {})
    /\ UNCHANGED <<tree, magic>>

\* The clean chunk was evicted, or the graph restarted: a new chunk object.
Load ==
    /\ ~dirty
    /\ stored # <<>>
    /\ tree' = InsertedAll(NoTimes, stored)
    /\ magic' = 0
    /\ Asked("load", {})
    /\ UNCHANGED <<dirty, stored>>

Next == \/ \E k \in Times : Insert(k) \/ ClearAt(k)
        \/ \E T \in Batches : Fill(T) \/ Merge(T)
        \/ Save
        \/ Load

Spec == Init /\ [][Next]_vars

-----------------------------------------------------------------------------
(* Properties.                                                               *)

\* Shapes: all nodes fit in the arrays, links are nodes or Nil.
TypeOK ==
    /\ tree.size \in 0 .. tree.length
    /\ tree.threshold \in 0 .. tree.length
    /\ tree.root \in {Nil} \cup Nodes(tree)
    /\ tree.key \in [Nodes(tree) -> Times]
    /\ \A links \in {tree.left, tree.right, tree.parent} :
           links \in [Nodes(tree) -> {Nil} \cup Nodes(tree)]
    /\ tree.black \in [Nodes(tree) -> BOOLEAN]
    /\ magic \in Nat
    /\ dirty \in BOOLEAN
    /\ stored \in Seq(Times)
    /\ call.given \subseteq Times

\* The black nodes on every way down, or Nil where two ways differ.
RECURSIVE BlackHeight(_, _)
BlackHeight(t, n) ==
    IF n = Nil THEN 0
    ELSE LET l == BlackHeight(t, Left(t, n))
             r == BlackHeight(t, Right(t, n))
         IN  IF l # r \/ l = Nil THEN Nil ELSE l + (IF t.black[n] THEN 1 ELSE 0)

\* The repair after an insertion, and the insertions after a clearing, leave
\* a red-black tree: a search takes a logarithmic number of steps.
RedBlack ==
    /\ Black(tree, tree.root)
    /\ BlackHeight(tree, tree.root) # Nil
    /\ \A n \in Nodes(tree) : Black(tree, n) \/ Black(tree, Parent(tree, n))

\* Whatever rotations led to the tree, a search for any time ends at the
\* latest time at or before it: the resolver finds the state that holds then.
FindsLatest ==
    \A k \in Times :
        LET below == {h \in Held : h <= k}
        IN  Key(tree, PreviousOrEqual(tree, k)) =
                IF below = {} THEN Nil
                ELSE CHOOSE h \in below : \A j \in below : j <= h

\* A walk yields the times between its bounds, each once, from the last one
\* down, and stops after as many as were asked for: the median of a split is
\* the last of half as many times as there are.
WalksDown ==
    LET Downwards(start, end, max) ==
            LET all == Reverse(Ascending({h \in Held : start <= h /\ h <= end}))
            IN  Walked(tree, start, end, max) =
                    SubSeq(all, 1, IF max < Len(all) THEN max ELSE Len(all))
        last == IF Held = {} THEN 0 ELSE Key(tree, Rightmost(tree, tree.root))
    IN  /\ \A end \in Times : Downwards(0, end, tree.size)
        /\ \A start \in Times : Downwards(start, last, tree.size)
        /\ \A max \in 0 .. tree.size : Downwards(0, last, max)

\* A search and a walk climb from a node by links that any rotation before
\* them may have bent; both give what the set of the times gives.
ReadsAsSet == FindsLatest /\ WalksDown

Set == INSTANCE TimeSet WITH times <- Held, stored <- ToSet(stored)

\* Every call changes the set of times exactly as its name says, whatever the
\* rotations, growth and clearings that led to the tree, and moves the magic
\* when and only when it should: the resolver finds out by the magic alone
\* that a tree it has walked is another one now.
ImplementsTimeSet == Set!Spec

=============================================================================
