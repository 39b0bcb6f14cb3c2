------------------------------- MODULE LongMap -------------------------------
(* What a world order chunk promises the resolver: a map from worlds to the   *)
(* times they diverged at, whose magic moves with every change of the map, and*)
(* which can be saved, dropped and loaded again without a loss.               *)
EXTENDS Naturals

CONSTANTS Keys, Values, NoValue

VARIABLES map, magic, stored

vars == <<map, magic, stored>>

Init == /\ map = [k \in Keys |-> NoValue]
        /\ magic = 0
        /\ stored = [k \in Keys |-> NoValue]

Put(k, v) == /\ map[k] # v
             /\ map' = [map EXCEPT ![k] = v]
             /\ magic' = magic + 1
             /\ UNCHANGED stored

Save == /\ stored' = map
        /\ UNCHANGED <<map, magic>>

\* Only a map without unsaved changes is dropped; the next one counts anew.
Load == /\ stored = map
        /\ magic' = 0
        /\ UNCHANGED <<map, stored>>

Next == (\E k \in Keys, v \in Values : Put(k, v)) \/ Save \/ Load

Spec == Init /\ [][Next]_vars

=============================================================================
