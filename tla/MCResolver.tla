----------------------------- MODULE MCResolver -----------------------------
(* Resolver for TLC: time trees that split when they hold two or four times.*)
EXTENDS Resolver, TLC

MCScales == <<2>>
MCHalf   == <<1>>
MCFine   == <<1, 2>>

\* Only the root is a world of its own.
MCSymmetry == Permutations(Handles) \cup Permutations(Worlds \ {Root})

\* No step reads the answer of the step before; whether a node in phase has
\* followed a split matters to none either.
MCView == <<parent, index, states, marks, handle, strayed,
            {h \in Alive : SplitRead(h)}>>

\* The times a state of the program has to do with.
MCReached == UNION {tree[k] : k \in Trees} \cup {n[2] : n \in states}
             \cup {order[w] : w \in Worlds}
             \cup UNION {IF Live(h) THEN {handle[h].time} ELSE {} : h \in Handles}
MCWithin(n) == \A t \in MCReached : t <= n

\* One world over all times, or five with two Node objects; two worlds over
\* three times, three over two, and up to three states with two Node objects.
MCLongOrWide ==
  LET worlds == Cardinality({w \in Worlds : Exists(w)})
      two    == \A h \in Handles : Live(h)
  IN  /\ worlds = 1 /\ two => MCWithin(4) /\ Cardinality(states) <= 4
      /\ worlds = 2 => MCWithin(2)
      /\ worlds > 2 => MCWithin(1)
      /\ worlds > 1 /\ two => Cardinality(states) <= 3

\* Up to four states; one Node object over all times, two over 1 and 2.
MCFewStates ==
  /\ Cardinality(states) <= 4
  /\ Cardinality({h \in Handles : Live(h)}) > 1 => MCReached \subseteq {Null, 1, 2}

=============================================================================
