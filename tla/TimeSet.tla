------------------------------- MODULE TimeSet -------------------------------
(* What a time tree chunk promises the resolver: a set of times that every    *)
(* call changes as its name says, a magic that moves with the insertions and  *)
(* clearings that count, and a save that can be dropped and loaded again.     *)
EXTENDS Naturals

CONSTANT Times

VARIABLES times,    \* the times in the tree
          magic,    \* what a node compares to see that its tree changed
          stored,   \* the times the last save wrote
          call      \* the last call: its name and the times it was given

vars == <<times, magic, stored, call>>

Call(op, T) == [op |-> op, given |-> T]

Init == /\ times = {} /\ magic = 0 /\ stored = {}
        /\ call = Call("none", {})

Asked(op, T) == call' = Call(op, T)

\* A time that is there already changes nothing, nor the magic.
Counted(T) == /\ times' = times \cup T
              /\ magic' = IF T \subseteq times THEN magic ELSE magic + 1
              /\ UNCHANGED stored

Insert(t) == Asked("insert", {t}) /\ Counted({t})

\* The times another graph saved: the magic moves once for all of them.
Merge(T) == Asked("merge", T) /\ Counted(T)

\* The walker that fills the upper half of a split: no magic.
Fill(T) == /\ Asked("fill", T)
           /\ times' = times \cup T
           /\ UNCHANGED <<magic, stored>>

\* The times before the median stay; the magic moves even if all of them do.
ClearAt(max) == /\ Asked("clearAt", {max})
                /\ times' = {t \in times : t < max}
                /\ magic' = magic + 1
                /\ UNCHANGED stored

Save == /\ Asked("save", {})
        /\ stored' = times
        /\ UNCHANGED <<times, magic>>

Load == /\ Asked("load", {})
        /\ times' = stored
        /\ magic' = 0
        /\ UNCHANGED stored

Next == \/ Save
        \/ Load
        \/ \E t \in Times : Insert(t) \/ ClearAt(t)
        \/ \E T \in SUBSET Times : Merge(T) \/ Fill(T)

Spec == Init /\ [][Next]_vars

=============================================================================
