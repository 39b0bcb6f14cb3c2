----------------------------- MODULE FixedStack -----------------------------
(***************************************************************************)
(* org.mwg.core.chunk.heap.FixedStack: the queue of recyclable slots as a  *)
(* doubly linked list threaded through two int arrays. Every method runs   *)
(* under one ReentrantLock, so a method is one action.                     *)
(***************************************************************************)
EXTENDS LruOps

VARIABLES first, last,          \* _first, _last: the ends of the list
          next, prev,           \* _next, _prev: the links
          count,                \* _count
          answer                \* what the last call returned

list == <<first, last, next, prev, count>>
vars == <<first, last, next, prev, count, answer>>

Link == Slots \cup {NoSlot}

TypeOK ==
  /\ first \in Link /\ last \in Link
  /\ next \in [Slots -> Link] /\ prev \in [Slots -> Link]
  /\ count \in 0 .. Capacity
  /\ answer \in [ok : BOOLEAN, slot : Link]

Answer(ok, m) == [ok |-> ok, slot |-> m]

Init ==
  /\ first = 0 /\ last = Capacity - 1
  /\ next = [m \in Slots |-> IF m = Capacity - 1 THEN NoSlot ELSE m + 1]
  /\ prev = [m \in Slots |-> m - 1]
  /\ count = Capacity
  /\ answer = Answer(TRUE, NoSlot)

-----------------------------------------------------------------------------
(* enqueue(index)                                                          *)

\* Mutant: only the links are tested, so a list of one slot takes it twice.
ListedByLinks(m) == prev[m] # NoSlot \/ next[m] # NoSlot

\* The tests that find the index already in the list.
Listed(m) == first = m \/ last = m \/ prev[m] # NoSlot \/ next[m] # NoSlot

EnqueueRefused(m) ==
  /\ count >= Capacity \/ Listed(m)
  /\ answer' = Answer(FALSE, m)
  /\ UNCHANGED list

\* Mutant: the new element is not counted.
EnqueueUncounted(m) ==
  /\ count < Capacity /\ ~Listed(m)
  /\ prev' = [prev EXCEPT ![m] = last]
  /\ last' = m
  /\ first' = IF first = NoSlot THEN m ELSE first
  /\ next' = IF first = NoSlot THEN next ELSE [next EXCEPT ![last] = m]
  /\ answer' = Answer(TRUE, m)
  /\ UNCHANGED count

EnqueueAtEnd(m) ==
  /\ count < Capacity /\ ~Listed(m)
  /\ prev' = [prev EXCEPT ![m] = last]
  /\ last' = m
  /\ first' = IF first = NoSlot THEN m ELSE first
  /\ next' = IF first = NoSlot THEN next ELSE [next EXCEPT ![last] = m]
  /\ count' = count + 1
  /\ answer' = Answer(TRUE, m)

Enqueue(m) == EnqueueRefused(m) \/ EnqueueAtEnd(m)

-----------------------------------------------------------------------------
(* dequeueTail() and the two ends of dequeue(index)                        *)

\* The element at the front leaves the list.
DropFirst ==
  LET n == next[first] IN
  /\ first' = n
  /\ last' = IF n = NoSlot THEN NoSlot ELSE last
  /\ next' = [next EXCEPT ![first] = NoSlot]
  /\ prev' = IF n = NoSlot THEN [prev EXCEPT ![first] = NoSlot]
             ELSE [prev EXCEPT ![first] = NoSlot, ![n] = NoSlot]
  /\ count' = count - 1

\* The element at the back leaves the list.
DropLast ==
  LET p == prev[last] IN
  /\ last' = p
  /\ first' = IF p = NoSlot THEN NoSlot ELSE first
  /\ prev' = [prev EXCEPT ![last] = NoSlot]
  /\ next' = IF p = NoSlot THEN [next EXCEPT ![last] = NoSlot]
             ELSE [next EXCEPT ![last] = NoSlot, ![p] = NoSlot]
  /\ count' = count - 1

DequeueTailEmpty ==
  /\ first = NoSlot
  /\ answer' = Answer(FALSE, NoSlot)
  /\ UNCHANGED list

DequeueTailFront ==
  /\ first # NoSlot
  /\ answer' = Answer(TRUE, first)
  /\ DropFirst

DequeueTail == DequeueTailEmpty \/ DequeueTailFront

-----------------------------------------------------------------------------
(* dequeue(index): a slot with no neighbour on either side is taken for a  *)
(* slot outside the list, which the only element of a list also is.        *)

DequeueRefused(m) ==
  /\ prev[m] = NoSlot /\ next[m] = NoSlot
  /\ answer' = Answer(FALSE, m)
  /\ UNCHANGED list

DequeueFirst(m) ==
  /\ prev[m] = NoSlot /\ next[m] # NoSlot
  /\ answer' = Answer(first # NoSlot, m)
  /\ IF first = NoSlot THEN UNCHANGED list ELSE DropFirst

\* Mutant: the element without a successor is taken for the front.
DequeueLastAtFront(m) ==
  /\ prev[m] # NoSlot /\ next[m] = NoSlot
  /\ answer' = Answer(last # NoSlot, m)
  /\ IF first = NoSlot THEN UNCHANGED list ELSE DropFirst

DequeueLast(m) ==
  /\ prev[m] # NoSlot /\ next[m] = NoSlot
  /\ answer' = Answer(last # NoSlot, m)
  /\ IF last = NoSlot THEN UNCHANGED list ELSE DropLast

DequeueMiddle(m) ==
  /\ prev[m] # NoSlot /\ next[m] # NoSlot
  /\ next' = [next EXCEPT ![prev[m]] = next[m], ![m] = NoSlot]
  /\ prev' = [prev EXCEPT ![next[m]] = prev[m], ![m] = NoSlot]
  /\ count' = count - 1
  /\ answer' = Answer(TRUE, m)
  /\ UNCHANGED <<first, last>>

Dequeue(m) ==
  DequeueRefused(m) \/ DequeueFirst(m) \/ DequeueLast(m) \/ DequeueMiddle(m)

Next == DequeueTail \/ \E m \in Slots : Enqueue(m) \/ Dequeue(m)

Spec == Init /\ [][Next]_vars

-----------------------------------------------------------------------------
(* The arrays hold the queue q: its ends are f and l, the links n and p    *)
(* join each element to its neighbours, and nothing outside q has a link.  *)
Lists(f, l, n, p, q) ==
  /\ IsInjective(q)
  /\ f = IF q = <<>> THEN NoSlot ELSE q[1]
  /\ l = IF q = <<>> THEN NoSlot ELSE q[Len(q)]
  /\ \A i \in 1 .. Len(q) :
       /\ p[q[i]] = IF i = 1 THEN NoSlot ELSE q[i - 1]
       /\ n[q[i]] = IF i = Len(q) THEN NoSlot ELSE q[i + 1]
  /\ \A m \in Slots \ Range(q) : p[m] = NoSlot /\ n[m] = NoSlot

\* The queues the arrays hold; there never is more than one.
Held == {q \in [1 .. count -> Slots] : Lists(first, last, next, prev, q)}

\* Safety: after any sequence of enqueue, dequeue and dequeueTail the two
\* arrays still are one doubly linked list of distinct slots (FixedStack
\* never loses an element, closes a cycle or leaves a dangling link).
WellLinked == Held # {}

\* The refinement mapping: the queue the arrays hold.
QueueOf == CHOOSE q \in Held : TRUE

Abstract == INSTANCE LruQueue WITH queue <- QueueOf

\* FixedStack implements LruQueue: whatever the calls, it answers as the
\* FIFO would and holds the slots the FIFO would, in the same order.
ImplementsLruQueue == Abstract!Spec

=============================================================================
