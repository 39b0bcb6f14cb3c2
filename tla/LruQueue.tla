------------------------------ MODULE LruQueue ------------------------------
(***************************************************************************)
(* What the chunk space expects of org.mwg.core.chunk.Stack: a FIFO of     *)
(* slot numbers without repetition. The slot that was released longest ago *)
(* is recycled first (dequeueTail), and a released slot that is needed     *)
(* again is taken out of the middle (dequeue).                             *)
(***************************************************************************)
EXTENDS LruOps

VARIABLES queue,                \* the recyclable slots, next victim first
          answer                \* what the last call returned

vars == <<queue, answer>>

Answer(ok, m) == [ok |-> ok, slot |-> m]

Init == queue = FullQueue /\ answer = Answer(TRUE, NoSlot)

Enqueue(m) ==
  /\ queue' = Released(queue, m)
  /\ answer' = Answer(Accepts(queue, m), m)

DequeueTail ==
  \/ /\ queue = <<>>
     /\ answer' = Answer(FALSE, NoSlot)
     /\ UNCHANGED queue
  \/ /\ queue # <<>>
     /\ answer' = Answer(TRUE, Head(queue))
     /\ queue' = Tail(queue)

Dequeue(m) ==
  /\ queue' = IF Removable(queue, m) THEN Without(queue, m) ELSE queue
  /\ answer' = Answer(Removable(queue, m), m)

Next == DequeueTail \/ \E m \in Slots : Enqueue(m) \/ Dequeue(m)

Spec == Init /\ [][Next]_vars

=============================================================================
