---------------------------- MODULE MCWorldOrder ----------------------------
(* WorldOrder for TLC: five worlds, two of which share a bucket at any size. *)
EXTENDS WorldOrder

MCHash == [k \in Keys |-> CASE k = 0 -> 0 [] k = 1 -> 2 [] k = 2 -> 8 [] k = 3 -> 5 [] k = 4 -> 3]

\* No step reads the magic, and what an earlier save wrote is not read while
\* another save is due.
MCView == <<state, dirty, IF dirty THEN <<>> ELSE stored, putting>>

=============================================================================
