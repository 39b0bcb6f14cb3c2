------------------------------ MODULE Timelines ------------------------------
(***************************************************************************)
(* What the many-world graph promises of one node: a set of states, each   *)
(* written in a world at a time. A node read in a world at a time is the   *)
(* latest state written there at or before that time; a world where        *)
(* nothing was written that early inherits from the world it was forked    *)
(* from. Writing always concerns the exact world and time of the writer.   *)
(***************************************************************************)
EXTENDS Integers, FiniteSetsExt

CONSTANTS Worlds, Root,         \* Root is one of Worlds
          NoWorld,              \* null, not one of Worlds
          MaxTime               \* bound: times are 0 .. MaxTime

Times == 0 .. MaxTime
Null  == -1                     \* NULL_LONG

NoState == <<NoWorld, Null>>    \* null instead of a state

VARIABLES parent,               \* the world each world was forked from
          written,              \* the times of the states of each world
          answer                \* what the last call was asked and returned

vars == <<parent, written, answer>>

Answer(w, t, n) == [world |-> w, time |-> t, state |-> n]

Exists(w) == w = Root \/ parent[w] # NoWorld

\* The greatest element of S that is at most t.
PreviousOrEqual(S, t) ==
  LET before == {s \in S : s <= t} IN IF before = {} THEN Null ELSE Max(before)

\* The state read in world w at time t.
Latest(w, t) ==
  LET latest[v \in Worlds \cup {NoWorld}] ==
        IF v = NoWorld THEN NoState
        ELSE LET s == PreviousOrEqual(written[v], t)
             IN  IF s = Null THEN latest[parent[v]] ELSE <<v, s>>
  IN  latest[w]

Init ==
  /\ parent = [w \in Worlds |-> NoWorld]
  /\ written = [w \in Worlds |-> {}]
  /\ answer = Answer(Root, 0, NoState)

Fork(w, child) ==
  /\ Exists(w) /\ ~Exists(child)
  /\ parent' = [parent EXCEPT ![child] = w]
  /\ UNCHANGED <<written, answer>>

NewNode(w, t) ==
  /\ Exists(w) /\ \A v \in Worlds : written[v] = {}
  /\ written' = [written EXCEPT ![w] = {t}]
  /\ UNCHANGED <<parent, answer>>

Read(w, t) ==
  /\ Latest(w, t) # NoState
  /\ answer' = Answer(w, t, Latest(w, t))
  /\ UNCHANGED <<parent, written>>

Write(w, t) ==
  /\ Latest(w, t) # NoState
  /\ written' = [written EXCEPT ![w] = @ \cup {t}]
  /\ answer' = Answer(w, t, <<w, t>>)
  /\ UNCHANGED parent

Next ==
  \/ \E w, child \in Worlds : Fork(w, child)
  \/ \E w \in Worlds, t \in Times : NewNode(w, t) \/ Read(w, t) \/ Write(w, t)

Spec == Init /\ [][Next]_vars

=============================================================================
