---------------------------- MODULE MCStateChunk ----------------------------
(* StateChunk for TLC: attributes in colliding buckets, one of each kind, and *)
(* one that may be a second relation or map.                                  *)
EXTENDS StateChunk, TLC

CONSTANTS a, r, m, q, p, n1, n2

MCHash == a :> 0 @@ r :> 2 @@ m :> 4 @@ q :> 1

\* What each attribute is used for: a is set and removed (removeProperty sets
\* another type), r is a relation, m is a map, q is a map or a relation, which
\* may be set without a node.
MCOffers ==
    a :> [sets |-> {[type |-> "string", content |-> p], [type |-> "int", content |-> Nothing]},
          nodes |-> {}, mapped |-> {}]
    @@ r :> [sets |-> {}, nodes |-> {n1}, mapped |-> {}]
    @@ m :> [sets |-> {}, nodes |-> {}, mapped |-> {n1, n2}]
    @@ q :> [sets |-> {[type |-> "relation", content |-> <<>>]},
             nodes |-> {n1}, mapped |-> {n1}]

\* What an earlier save wrote is not read while another save is due.
MCView == <<state, sharing, dirty, [c \in Chunks |-> IF c \in dirty THEN NoChunk ELSE stored[c]]>>

\* One time point with a, r and m, or with q and one of r and m; two with a and one relation entry (one
\* save at a time), with a longer relation alone, with a map alone, or with a
\* and a map that are not saved; three with one relation entry each.
MCThere == {c \in Chunks : There(c)}
MCUsed == UNION {{state[c].links.key[i] : i \in 0 .. state[c].size - 1} : c \in MCThere}
            \ {NoKey}
MCShape ==
    LET points == Cardinality(MCThere)
        due    == Cardinality(MCThere \cap dirty)
        short  == \A c \in MCThere :
                    ValueOf(state[c], r) = Null \/ Len(ValueOf(state[c], r).content) = 1
    IN  /\ points = 1 => \/ q \notin MCUsed
                         \/ MCUsed \subseteq {r, q} /\ short
                         \/ MCUsed \subseteq {m, q}
        /\ points = 2 => \/ MCUsed \subseteq {r} \/ MCUsed \subseteq {m}
                         \/ MCUsed \subseteq {a, r} /\ short /\ due >= 1
                         \/ MCUsed \subseteq {a, m} /\ due = 2
        /\ points = 3 => MCUsed \subseteq {r} /\ \A c \in Chunks : state[c].count <= 1
MCShaped == MCShape'

=============================================================================
