-------------------------------- MODULE LruOps --------------------------------
(***************************************************************************)
(* The operations of org.mwg.core.chunk.Stack on a queue of slot numbers   *)
(* kept as a sequence, front (next victim) first. LruQueue promises them,  *)
(* FixedStack implements them, ChunkSpace is built on them.                *)
(*                                                                         *)
(* One oddity of the code is part of the promise, because the chunk space  *)
(* lives with it: dequeue(m) refuses to remove the only element.           *)
(***************************************************************************)
EXTENDS Integers, SequencesExt

CONSTANT Capacity               \* _capacity: the number of slots

ASSUME CapacityAssumption == Capacity \in Nat \ {0}

Slots  == 0 .. Capacity - 1
NoSlot == -1

\* Every slot starts out recyclable, in the order 0 .. Capacity-1.
FullQueue == [i \in 1 .. Capacity |-> i - 1]

Enqueued(q, m) == m \in Range(q)

Accepts(q, m) == Len(q) < Capacity /\ ~Enqueued(q, m)

\* dequeue(m) succeeds on an enqueued slot that has a neighbour.
Removable(q, m) == Enqueued(q, m) /\ Len(q) > 1

Position(q, m) == CHOOSE i \in DOMAIN q : q[i] = m

Without(q, m) == RemoveAt(q, Position(q, m))

\* The queue after enqueue(m), whatever the call answered.
Released(q, m) == IF Accepts(q, m) THEN Append(q, m) ELSE q

=============================================================================
