----------------------------- MODULE Attributes ------------------------------
(* What the states of a node promise: every time point has attributes of its *)
(* own, a new one starts as a copy of an earlier one, a call changes what it *)
(* names at one time point, and a save stores what is there.                 *)
EXTENDS SequencesExt

CONSTANTS Chunks, Attrs, MapKeys, NoChunk, Nothing

VARIABLES view,     \* the attributes of each time point
          due,      \* the time points with changes to save
          saved,    \* what the storage would give back
          call      \* the last call: its name, time point, attribute, argument

vars == <<view, due, saved, call>>

Call(op, c, k, x) == [op |-> op, chunk |-> c, attr |-> k, arg |-> x]

Empty == [k \in Attrs |-> Nothing]
NoPairs == [m \in MapKeys |-> Nothing]

Init == /\ view = [c \in Chunks |-> NoChunk]
        /\ due = {}
        /\ saved = [c \in Chunks |-> NoChunk]
        /\ call = Call("none", NoChunk, Nothing, Nothing)

Starts(c, attributes) ==
    /\ c \notin due
    /\ due' = due \cup {c}
    /\ UNCHANGED call
    /\ view[c] = NoChunk
    /\ view' = [view EXCEPT ![c] = attributes]
    /\ UNCHANGED saved

Create(c) == Starts(c, Empty)

Phase(o, c) == Starts(c, view[o]) /\ view[o] # NoChunk

Changed(c, k, x, changed) ==
    /\ due' = IF changed THEN due \cup {c} ELSE due
    /\ view[c] # NoChunk
    /\ view' = [view EXCEPT ![c][k] = x]
    /\ UNCHANGED saved

Set(c, k, x) ==
    /\ Changed(c, k, x, TRUE)
    /\ call' = Call("set", c, k, x)

\* Node.add: the relation is created on the fly.
Add(c, k, n) ==
    /\ Changed(c, k, Append(IF view[c][k] = Nothing THEN <<>> ELSE view[c][k], n), TRUE)
    /\ call' = Call("add", c, k, n)

\* Node.remove: one occurrence of the node, the relation with its last one.
RemoveNode(c, k, n) ==
    /\ view[c][k] # Nothing
    /\ Contains(view[c][k], n)
    /\ LET rest == RemoveFirst(view[c][k], n)
       IN  Changed(c, k, IF rest = <<>> THEN Nothing ELSE rest, TRUE)
    /\ call' = Call("remove", c, k, n)

\* A map that was created and never put into is as good as none.
CreateMap(c, k) ==
    /\ view[c] # NoChunk /\ view[c][k] = Nothing
    /\ due' = due \cup {c}
    /\ call' = Call("map", c, k, Nothing)
    /\ UNCHANGED <<view, saved>>

PutPair(c, k, m, x) ==
    /\ view[c] # NoChunk
    /\ LET pairs == IF view[c][k] = Nothing THEN NoPairs ELSE view[c][k]
       IN  Changed(c, k, [pairs EXCEPT ![m] = x], pairs[m] # x)
    /\ call' = Call("put", c, k, <<m, x>>)

Save(c) == /\ c \in due
           /\ due' = due \ {c}
           /\ saved' = [saved EXCEPT ![c] = view[c]]
           /\ UNCHANGED <<view, call>>

\* The argument of a call is read from the call it makes.
Asked ==
    LET c == call'.chunk
        k == call'.attr
        x == call'.arg
    IN  CASE call'.op = "set"    -> Set(c, k, x)
          [] call'.op = "add"    -> Add(c, k, x)
          [] call'.op = "remove" -> RemoveNode(c, k, x)
          [] call'.op = "map"    -> CreateMap(c, k)
          [] call'.op = "put"    -> PutPair(c, k, x[1], x[2])
          [] OTHER               -> FALSE

Next == \/ \E c \in Chunks : Create(c) \/ Save(c)
        \/ \E o, c \in Chunks : Phase(o, c)
        \/ Asked

Spec == Init /\ [][Next]_vars

=============================================================================
