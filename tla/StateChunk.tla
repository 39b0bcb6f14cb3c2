----------------------------- MODULE StateChunk ------------------------------
(***************************************************************************)
(* HeapStateChunk and its maps: the attributes of one node at several time *)
(* points. A chunk made from an origin (softClone) has values of its own,  *)
(* and shares with it the arrays of keys, links and types, the arrays of   *)
(* relations and the contents of maps, until one of the two replaces them. *)
(* Who shares what is kept as a partition. A value is a relation, a map or *)
(* a simple one; arrays of numbers are left out. A call is one action.     *)
(* Attributes is what the chunks promise.                                  *)
(***************************************************************************)
EXTENDS Integers, SequencesExt, FiniteSetsExt

CONSTANTS MaxChunks,        \* bound: time points with a state
          Attrs,
          Hash,             \* PrimitiveHelper.longHash before the modulo
          InitialCapacity,  \* CoreConstants.MAP_INITIAL_CAPACITY
          FirstRoom,        \* the array of a first append: 8 in the code
          Nodes,            \* the ids of nodes, in relations
          MapKeys,
          Offers,           \* what callers set, add and put
          MaxRelation,      \* bound: the length of relations
          MaxSize,          \* bound: the length of the arrays
          NoChunk, Nothing, \* null
          Careless          \* what callers do not avoid, see the guards

Chunks == 1 .. MaxChunks    \* in the order they are made

ASSUME StateAssumption ==
    /\ MaxChunks \in Nat
    /\ \A k \in Attrs : Hash[k] \in Nat
    /\ InitialCapacity \in Nat \ {0}
    /\ FirstRoom \in Nat /\ FirstRoom > 1
    /\ MaxRelation \in Nat
    /\ MaxSize \in Nat /\ InitialCapacity <= MaxSize
    /\ Careless \subseteq {"past", "unsaved appends", "second lives", "hollow saves"}

VARIABLES state,    \* the InternalState of each chunk
          sharing,  \* who shares an object: a partition of the cells
          dirty,
          stored,   \* what the last save of each chunk wrote
          call      \* the last call, as in Attributes

vars == <<state, sharing, dirty, stored, call>>

-----------------------------------------------------------------------------
(* Sharing. A cell is where a chunk holds its links or one of its attributes; *)
(* the cells of a block hold the same arrays or the same content.            *)

Links == "links"
Kinds == Attrs \cup {Links}
Cells == Chunks \X Kinds

Block(x, c) == CHOOSE b \in sharing : <<c, x>> \in b
Without(S) == {b \ S : b \in sharing} \ {{}}
Apart(S) == Without(S) \cup {{z} : z \in S}

\* Chunk c holds the same as o of these kinds.
Joined(o, c, kinds) ==
    {b \cup {<<c, x>> : x \in {y \in kinds : <<o, y>> \in b}} : b \in Without({c} \X kinds)}

\* Another chunk holds what c does.
Shares(x, c) == \E z \in Block(x, c) : z[1] # c

-----------------------------------------------------------------------------
(* The arrays.                                                               *)

NoEntry == -1
NoKey == "none"     \* of an entry never used; the arrays hold zeros there

\* An attribute value: `room` is the length of a relation's array, `own` is
\* `aligned` of a map.
Value(x) == [content |-> x, room |-> 0, own |-> TRUE]
Null == Value(Nothing)
Relation(ids, room) == [content |-> ids, room |-> room, own |-> TRUE]

NoPairs == [m \in MapKeys |-> Nothing]

Asked == UNION {Offers[k].sets : k \in Attrs}
Mapped == UNION {Offers[k].mapped : k \in Attrs}
Relations == Seq(Nodes)
Maps == [MapKeys -> Mapped \cup {Nothing}]
Contents == {Nothing} \cup {x.content : x \in Asked} \cup Relations \cup Maps
Values == [content : Contents, room : Nat, own : BOOLEAN]
Types == {NoKey, "relation", "map"} \cup {x.type : x \in Asked}

InternalState(n) ==
    [links : [key  : [0 .. n - 1 -> Attrs \cup {NoKey}],
              type : [0 .. n - 1 -> Types],
              next : [0 .. n - 1 -> NoEntry .. n - 1],
              hash : [0 .. n - 1 -> NoEntry .. n - 1]],
     val : [0 .. n - 1 -> Values],
     size : {n}, count : 0 .. n, readOnly : BOOLEAN]

\* What save writes.
Saves == [count : Nat, pairs : Seq([key : Attrs, type : Types, content : Contents])]

\* A relation holds nodes; maps are created and filled, not set; nothing is
\* not a value; a missing chunk is not a chunk.
ASSUME OffersAssumption ==
    /\ {NoKey, Links} \cap Attrs = {}
    /\ \A k \in Attrs : Offers[k].nodes \subseteq Nodes
    /\ \A x \in Asked :
         /\ x.content # NoPairs
         /\ x.type = "relation" => x.content \in Relations \cup {Nothing}
         /\ x.type = "map" => x.content = Nothing
    /\ Nothing \notin Nodes \cup Mapped \cup Relations \cup Maps
    /\ NoChunk \notin Saves \cup [Attrs -> Contents]
    /\ \A n \in 0 .. MaxSize : NoChunk \notin InternalState(n)

Blank(size) ==
    [links |-> [key  |-> [i \in 0 .. size - 1 |-> NoKey],
                type |-> [i \in 0 .. size - 1 |-> NoKey],
                next |-> [i \in 0 .. size - 1 |-> NoEntry],
                hash |-> [i \in 0 .. size - 1 |-> NoEntry]],
     val |-> [i \in 0 .. size - 1 |-> Null],
     size |-> size, count |-> 0, readOnly |-> FALSE]

Bucket(s, k) == Hash[k] % s.size
Threshold(s) == (s.size * 3) \div 4     \* MAP_LOAD_FACTOR, cut to an integer

\* The entry of a key along the chain of its bucket. A walk that has not ended
\* after `size` entries goes round for ever, and finds nothing.
EntryOf(s, k) ==
    LET walk[left \in 0 .. s.size] ==
            [m \in NoEntry .. s.size - 1 |->
                IF m = NoEntry \/ left = 0 THEN NoEntry
                ELSE IF s.links.key[m] = k THEN m
                ELSE walk[left - 1][s.links.next[m]]]
    IN  IF s.size = 0 THEN NoEntry ELSE walk[s.size][s.links.hash[Bucket(s, k)]]

ValueOf(s, k) == LET e == EntryOf(s, k) IN IF e = NoEntry THEN Null ELSE s.val[e]
TypeAt(s, k) == s.links.type[EntryOf(s, k)]

\* Entry i, whose key is set, becomes the head of its chain.
Linked(s, i) ==
    LET b == Bucket(s, s.links.key[i])
    IN  [s EXCEPT !.links.next[i] = IF s.links.hash[b] # NoEntry THEN s.links.hash[b] ELSE @,
                  !.links.hash[b] = i]

Latest(S) == IF S = {} THEN NoEntry ELSE Max(S)

\* The entries that have a value.
Valued(s) == {i \in 0 .. s.size - 1 : s.val[i] # Null}

\* Fresh links: the entries that have a value become, one after the other, the
\* head of their chain.
Rehashed(s) ==
    LET chain(b) == {i \in Valued(s) : Bucket(s, s.links.key[i]) = b}
        before(i) == {j \in chain(Bucket(s, s.links.key[i])) : j < i}
    IN  [s EXCEPT !.links.hash = [b \in 0 .. s.size - 1 |-> Latest(chain(b))],
                  !.links.next = [i \in 0 .. s.size - 1 |->
                                    IF s.val[i] = Null THEN NoEntry ELSE Latest(before(i))]]

\* Growth: arrays of twice the size, with every entry that has a value linked.
Grown(s) ==
    LET bigger == Blank(IF s.size = 0 THEN 1 ELSE 2 * s.size)
        copied(f, g) == [i \in DOMAIN g |-> IF i \in DOMAIN f THEN f[i] ELSE g[i]]
    IN  Rehashed([bigger EXCEPT !.links.key = copied(s.links.key, @),
                                !.links.type = copied(s.links.type, @),
                                !.val = copied(s.val, @),
                                !.count = s.count])

Full(s) == s.count + 1 > Threshold(s)

\* Mutant: the entry is not counted.
InsertedUncounted(s, k, type, v) ==
    LET i == s.count
    IN  Linked([s EXCEPT !.links.key[i] = k, !.links.type[i] = type, !.val[i] = v], i)

\* A new entry behind the counted ones.
Inserted(s, k, type, v) ==
    LET i == s.count
    IN  Linked([s EXCEPT !.links.key[i] = k, !.links.type[i] = type,
                         !.val[i] = v, !.count = @ + 1], i)

\* The numbers below n that are in S, the smallest first.
Picked(S, n) ==
    LET upto[i \in 0 .. n] == IF i = 0 THEN <<>>
                              ELSE IF i - 1 \in S THEN Append(upto[i - 1], i - 1)
                              ELSE upto[i - 1]
    IN  upto[n]

\* save and each: the counted entries that have a value.
Pairs(s) ==
    LET valued == Picked(Valued(s), s.count)
    IN  [n \in DOMAIN valued |-> [key |-> s.links.key[valued[n]],
                                  type |-> s.links.type[valued[n]],
                                  content |-> s.val[valued[n]].content]]

Bytes(s) == [count |-> s.count, pairs |-> Pairs(s)]

\* Mutant: arrays for twice the pairs.
SizeOfPairs(b) == 2 * Len(b.pairs)

\* load: arrays for twice the count that was saved, which includes entries
\* without a value; without any pair there are no arrays at all.
SizeFor(b) == IF b.pairs = <<>> THEN 0 ELSE 2 * b.count

\* A map or a relation that is saved without an element.
Hollow(p) == \/ p.type = "map" /\ p.content = NoPairs
             \/ p.type = "relation" /\ p.content = <<>>

\* The pairs load makes an object for: an empty map is only a number, which is
\* not put anywhere, and that of an empty relation makes an array when there
\* was none before.
Makes(b, n) ==
    \/ ~Hollow(b.pairs[n])
    \/ b.pairs[n].type = "relation" /\ \A m \in 1 .. n - 1 : b.pairs[m].type # "relation"

\* The pair whose object the n-th one gets. The variables of load keep the last
\* object of each type, which an empty map or relation is given.
Object(b, n) ==
    Latest({m \in 1 .. n : Makes(b, m) /\ b.pairs[m].type = b.pairs[n].type})

Borrows(b) == \E n \in DOMAIN b.pairs : Object(b, n) \notin {n, NoEntry}

\* The attributes that get the object of x.
Together(b, x) ==
    {x} \cup {b.pairs[n].key : n \in {l \in DOMAIN b.pairs :
                 \E m \in DOMAIN b.pairs : /\ b.pairs[m].key = x
                                          /\ Object(b, m) = Object(b, l)
                                          /\ Object(b, l) # NoEntry}}

\* An empty map that gets no object is not loaded. An empty relation is read as
\* if its length, 0, were an element, and this becomes the length of the array
\* it is given. The array of a loaded relation has no room to spare.
Loaded(b) ==
    LET blank == Blank(SizeFor(b))
        kept == Picked({i \in 0 .. Len(b.pairs) - 1 : Object(b, i + 1) # NoEntry}, Len(b.pairs))
        at(i) == b.pairs[kept[i + 1] + 1]
        made(n) == b.pairs[Object(b, n)].content
        emptied(n) == \E m \in DOMAIN b.pairs : m # n /\ Object(b, m) = Object(b, n)
        value(n) == IF b.pairs[n].type = "relation"
                    THEN Relation(IF emptied(n) THEN <<>> ELSE made(n), Len(made(n)) + 1)
                    ELSE Value(made(n))
        filled == [blank EXCEPT
            !.links.key  = [i \in DOMAIN @ |-> IF i < Len(kept) THEN at(i).key ELSE NoKey],
            !.links.type = [i \in DOMAIN @ |-> IF i < Len(kept) THEN at(i).type ELSE NoKey],
            !.val        = [i \in DOMAIN @ |-> IF i < Len(kept) THEN value(kept[i + 1] + 1) ELSE Null],
            !.count      = IF b.pairs = <<>> THEN 0 ELSE b.count]
    IN  Rehashed(filled)

-----------------------------------------------------------------------------
(* The steps of internal_set.                                                *)

Init ==
    /\ state = [c \in Chunks |-> NoChunk]
    /\ sharing = {{z} : z \in Cells}
    /\ dirty = {}
    /\ stored = [c \in Chunks |-> NoChunk]
    /\ call = [op |-> "none", chunk |-> NoChunk, attr |-> Nothing, arg |-> Nothing]

There(c) == state[c] # NoChunk

Asks(op, c, k, x) == call' = [op |-> op, chunk |-> c, attr |-> k, arg |-> x]

\* Chunk c gets the value of k in an object of its own, and other arrays of
\* links when apart.
Replaces(c, k, new, apart) ==
    /\ state' = [state EXCEPT ![c] = new]
    /\ sharing' = Apart({<<c, x>> : x \in {k} \cup (IF apart THEN {Links} ELSE {})})
    /\ dirty' = dirty \cup {c}
    /\ UNCHANGED stored

InsertGrows(c, k, type, v) ==
    /\ EntryOf(state[c], k) = NoEntry
    /\ Full(state[c]) /\ 2 * state[c].size <= MaxSize
    /\ Replaces(c, k, Inserted(Grown(state[c]), k, type, v), TRUE)

\* Links that came from an origin are copied first (deepClone).
InsertCopies(c, k, type, v) ==
    /\ EntryOf(state[c], k) = NoEntry
    /\ ~Full(state[c]) /\ state[c].readOnly
    /\ Replaces(c, k, [Inserted(state[c], k, type, v) EXCEPT !.readOnly = FALSE], TRUE)

\* The origin does not know that others read its links. Careful callers give
\* no new attribute to a time point that a later one was made from.
InsertInPlace(c, k, type, v) ==
    LET new == Inserted(state[c], k, type, v)
    IN  /\ EntryOf(state[c], k) = NoEntry
        /\ ~Full(state[c]) /\ ~state[c].readOnly
        /\ Shares(Links, c) => "past" \in Careless
        /\ state' = [d \in Chunks |->
                        IF d = c THEN new
                        ELSE IF <<d, Links>> \in Block(Links, c)
                             THEN [state[d] EXCEPT !.links = new.links]
                        ELSE state[d]]
        /\ sharing' = Apart({<<c, k>>})
        /\ dirty' = dirty \cup {c}
        /\ UNCHANGED stored

IsOfType(c, k, type) == EntryOf(state[c], k) # NoEntry /\ TypeAt(state[c], k) = type

ReplaceValue(c, k, type, v) ==
    LET e == EntryOf(state[c], k)
    IN  /\ IsOfType(c, k, type)
        /\ Replaces(c, k, [state[c] EXCEPT !.val[e] = v], FALSE)

\* "typeSwitch, we have to deep clone as well"
SwitchType(c, k, type, v) ==
    LET e == EntryOf(state[c], k)
    IN  /\ e # NoEntry /\ TypeAt(state[c], k) # type
        /\ Replaces(c, k, [state[c] EXCEPT !.val[e] = v, !.links.type[e] = type,
                                          !.readOnly = FALSE], TRUE)

\* internal_set without replaceIfPresent, on an entry of this type.
KeepValue(c, k, type) ==
    /\ IsOfType(c, k, type)
    /\ dirty' = dirty \cup {c}
    /\ UNCHANGED <<state, sharing, stored>>

Insert(c, k, type, v) ==
    InsertGrows(c, k, type, v) \/ InsertCopies(c, k, type, v) \/ InsertInPlace(c, k, type, v)

SetOver(c, k, type, v) ==
    Insert(c, k, type, v) \/ ReplaceValue(c, k, type, v) \/ SwitchType(c, k, type, v)

SetIfAbsent(c, k, type, v) ==
    Insert(c, k, type, v) \/ KeepValue(c, k, type) \/ SwitchType(c, k, type, v)

-----------------------------------------------------------------------------
(* The calls.                                                                *)

IsNext(c) == \A d \in Chunks : There(d) <=> d < c

\* newNode, which declares the empty chunk dirty.
Create(c) ==
    /\ c = 1 /\ IsNext(c)
    /\ state' = [state EXCEPT ![c] = Blank(InitialCapacity)]
    /\ dirty' = dirty \cup {c}
    /\ UNCHANGED <<sharing, stored, call>>

\* softClone, and maps over the contents of those of the origin.
Cloned(s) ==
    [s EXCEPT !.readOnly = TRUE,
              !.val = [i \in DOMAIN @ |->
                         IF s.links.type[i] = "map" /\ @[i] # Null
                         THEN [@[i] EXCEPT !.own = FALSE] ELSE @[i]]]

\* What a clone shares with s.
Held(s) == {Links} \cup
           {k \in Attrs : ValueOf(s, k) # Null /\ TypeAt(s, k) \in {"relation", "map"}}

\* A call on a node between two time points makes a state for its own time
\* (resolveState). softClone fails on a chunk that was loaded without arrays.
Phase(o, c) ==
    /\ There(o) /\ IsNext(c)
    /\ state[o].size > 0
    /\ state' = [state EXCEPT ![c] = Cloned(state[o])]
    /\ sharing' = Joined(o, c, Held(state[o]))
    /\ dirty' = dirty \cup {c}
    /\ UNCHANGED <<stored, call>>

\* set: arrays the caller passes are copied.
Stored(x) == IF x.type = "relation" /\ x.content # Nothing
             THEN Relation(x.content, Len(x.content) + 1) ELSE Value(x.content)

Set(c, k, x) ==
    /\ There(c)
    /\ SetOver(c, k, x.type, Stored(x))
    /\ Asks("set", c, k, x.content)

Ids(c, k) == ValueOf(state[c], k).content

\* The content of k is written into, for all that hold it.
Writes(c, k, x) ==
    LET written(d) == {EntryOf(state[d], y) : y \in {z \in Attrs : <<d, z>> \in Block(k, c)}}
    IN  state' = [d \in Chunks |->
                    IF written(d) = {} THEN state[d]
                    ELSE [state[d] EXCEPT !.val = [i \in DOMAIN @ |->
                            IF i \in written(d) THEN [@[i] EXCEPT !.content = x] ELSE @[i]]]]

\* The walk of append fails on a chunk that was loaded without arrays, and
\* its cast on an attribute that is not a relation.
Appends(c, k, n) ==
    /\ There(c) /\ state[c].size > 0
    /\ Ids(c, k) # Nothing =>
         TypeAt(state[c], k) = "relation" /\ Len(Ids(c, k)) < MaxRelation
    /\ Asks("add", c, k, n)

\* A relation that was emptied has an entry of its type and no value, which
\* internal_set keeps when not asked to replace it: the node is not added.
\* Careful callers do not fill an emptied relation or map again.
AppendFirst(c, k, n) ==
    /\ Appends(c, k, n)
    /\ Ids(c, k) = Nothing
    /\ IsOfType(c, k, "relation") => "second lives" \in Careless
    /\ SetIfAbsent(c, k, "relation", Relation(<<n>>, FirstRoom))

\* The array has room: the node is written into it, whoever shares it, and
\* the chunk is not declared dirty.
AppendInPlace(c, k, n) ==
    LET ids == Append(Ids(c, k), n)
    IN  /\ Appends(c, k, n)
        /\ Ids(c, k) # Nothing
        /\ Len(ids) < ValueOf(state[c], k).room
        /\ Shares(k, c) => "past" \in Careless
        /\ c \notin dirty => "unsaved appends" \in Careless
        /\ Writes(c, k, ids)
        /\ UNCHANGED <<sharing, dirty, stored>>

AppendGrows(c, k, n) ==
    LET v == ValueOf(state[c], k)
    IN  /\ Appends(c, k, n)
        /\ Ids(c, k) # Nothing
        /\ Len(v.content) + 1 >= v.room
        /\ SetOver(c, k, "relation", Relation(Append(v.content, n), 2 * v.room))

\* AbstractNode.remove: the array without the first n, or nothing, is set.
RemoveNode(c, k, n) ==
    /\ There(c)
    /\ Ids(c, k) # Nothing /\ TypeAt(state[c], k) = "relation"
    /\ Contains(Ids(c, k), n)
    /\ LET rest == RemoveFirst(Ids(c, k), n)
       IN  SetOver(c, k, "relation", IF rest = <<>> THEN Null ELSE Relation(rest, Len(rest) + 1))
    /\ Asks("remove", c, k, n)

GetOrCreateMap(c, k) ==
    /\ There(c)
    /\ Ids(c, k) = Nothing
    /\ IsOfType(c, k, "map") => "second lives" \in Careless
    /\ SetIfAbsent(c, k, "map", Value(NoPairs))
    /\ Asks("map", c, k, Nothing)

\* Nothing to change, but a map made from an origin has copied its content.
PutSame(c, k, m, x) ==
    LET e == EntryOf(state[c], k)
    IN  /\ Ids(c, k)[m] = x
        /\ state' = [state EXCEPT ![c].val[e].own = TRUE]
        /\ sharing' = IF state[c].val[e].own THEN sharing
                      ELSE Apart({<<c, k>>})
        /\ UNCHANGED <<dirty, stored>>

\* Mutant: it is not looked whether the content is that of the origin.
PutUnaligned(c, k, m, x) ==
    /\ Ids(c, k)[m] # x
    /\ Writes(c, k, [Ids(c, k) EXCEPT ![m] = x])
    /\ dirty' = dirty \cup {c}
    /\ UNCHANGED <<sharing, stored>>

\* A map made from an origin copies the content at its first change.
PutCopies(c, k, m, x) ==
    LET e == EntryOf(state[c], k)
    IN  /\ Ids(c, k)[m] # x
        /\ ~state[c].val[e].own
        /\ Replaces(c, k, [state[c] EXCEPT !.val[e] =
                              Value([@.content EXCEPT ![m] = x])], FALSE)

\* The map of the origin writes into the content it shares.
PutInPlace(c, k, m, x) ==
    /\ Ids(c, k)[m] # x
    /\ ValueOf(state[c], k).own
    /\ Shares(k, c) => "past" \in Careless
    /\ Writes(c, k, [Ids(c, k) EXCEPT ![m] = x])
    /\ dirty' = dirty \cup {c}
    /\ UNCHANGED <<sharing, stored>>

Put(c, k, m, x) ==
    /\ There(c)
    /\ Ids(c, k) # Nothing /\ TypeAt(state[c], k) = "map"
    /\ PutSame(c, k, m, x) \/ PutCopies(c, k, m, x) \/ PutInPlace(c, k, m, x)
    /\ Asks("put", c, k, <<m, x>>)

\* Careful callers leave no empty map or relation behind another one.
Save(c) ==
    /\ c \in dirty
    /\ Borrows(Bytes(state[c])) => "hollow saves" \in Careless
    /\ stored' = [stored EXCEPT ![c] = Bytes(state[c])]
    /\ dirty' = dirty \ {c}
    /\ UNCHANGED <<state, sharing, call>>

\* The clean chunk was evicted, and another object is made of its bytes.
Reload(c) ==
    /\ There(c) /\ c \notin dirty
    /\ SizeFor(stored[c]) <= MaxSize
    /\ state' = [state EXCEPT ![c] = Loaded(stored[c])]
    /\ sharing' = Without({c} \X Kinds) \cup {{c} \X Together(stored[c], x) : x \in Kinds}
    /\ UNCHANGED <<dirty, stored, call>>

Next ==
    \/ \E c \in Chunks : Create(c) \/ Save(c) \/ Reload(c)
    \/ \E o, c \in Chunks : Phase(o, c)
    \/ \E c \in Chunks, k \in Attrs :
         \/ \E x \in Offers[k].sets : Set(c, k, x)
         \/ \E n \in Offers[k].nodes :
              AppendFirst(c, k, n) \/ AppendInPlace(c, k, n) \/ AppendGrows(c, k, n)
              \/ RemoveNode(c, k, n)
         \/ Offers[k].mapped # {} /\ GetOrCreateMap(c, k)
         \/ \E m \in MapKeys, x \in Offers[k].mapped : Put(c, k, m, x)

Spec == Init /\ [][Next]_vars

-----------------------------------------------------------------------------
(* Properties.                                                               *)

\* To readers a map without pairs is as good as none.
Shown(x) == IF x = NoPairs THEN Nothing ELSE x

\* The attributes get finds, and those that were saved.
View == [c \in Chunks |->
           IF There(c) THEN [k \in Attrs |-> Shown(ValueOf(state[c], k).content)] ELSE NoChunk]
Kept == [c \in Chunks |->
           IF stored[c] = NoChunk THEN NoChunk
           ELSE [k \in Attrs |->
                   LET of == {x \in ToSet(stored[c].pairs) : x.key = k}
                   IN  IF of = {} THEN Nothing ELSE Shown((CHOOSE x \in of : TRUE).content)]]

Promised == INSTANCE Attributes WITH view <- View, due <- dirty, saved <- Kept

\* Every call changes what it names at one time point and nothing at any
\* other, what is not declared dirty is what was saved, and neither growth,
\* copies, type switches nor loads lose an attribute.
ImplementsAttributes == Promised!Spec

\* Entries and arrays fit each other.
TypeOK ==
    /\ DOMAIN state = Chunks
    /\ \A c \in Chunks : There(c) => \E n \in 0 .. MaxSize : state[c] \in InternalState(n)
    /\ UNION sharing = Cells /\ {} \notin sharing
    /\ dirty \subseteq Chunks
    /\ stored \in [Chunks -> {NoChunk} \cup Saves]

\* save and each, which walk the counted entries, tell of the same attributes
\* as get, which follows the chains, and of none twice: a chunk that found an
\* entry through the links of another would keep a value it never saves.
EachAsGet ==
    \A c \in Chunks : There(c) =>
        LET pairs == Pairs(state[c])
        IN  \A k \in Attrs :
              LET of == {n \in DOMAIN pairs : pairs[n].key = k}
                  x == ValueOf(state[c], k).content
              IN  IF x = Nothing THEN of = {}
                  ELSE \E n \in of : of = {n} /\ pairs[n].content = x

=============================================================================
