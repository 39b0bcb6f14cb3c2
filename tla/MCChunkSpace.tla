---------------------------- MODULE MCChunkSpace ----------------------------
(* ChunkSpace for TLC: more keys than slots, two keys in one bucket.       *)
EXTENDS ChunkSpace, Functions, TLC

CONSTANTS k1, k2, k3, k4,       \* keys
          a1, a2, b1, c1, d1,   \* chunk objects: two of k1, one of the others
          x, y                  \* buckets

MCHash  == [k \in Keys |-> IF k \in {k1, k2} THEN x ELSE y]
MCKeyOf == [c \in Chunks |-> CASE c \in {a1, a2} -> k1
                               [] c = b1 -> k2
                               [] c = c1 -> k3
                               [] OTHER -> k4]

\* Two states that differ only in the marks or the flag of an object nobody
\* refers to are one state: create resets both before the object is used.
Forgotten(f, zero) == [c \in Chunks |-> IF Fresh(c) THEN zero ELSE f[c]]

MCView == <<values, chain, lru, elementCount, Forgotten(marks, 0),
            Forgotten(dirty, FALSE), dirtyList, saving, waiting, held, loading>>

\* Bound: references and pending loads of all callers together.
MCBusy == SumFunction(held) + SumFunction(loading) <= 2

=============================================================================
