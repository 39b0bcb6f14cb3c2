----------------------------- MODULE MCSessions -----------------------------
(* Instances of Sessions: two graphs, three calls of connect, two callers. *)
EXTENDS Sessions, TLC

CONSTANTS g1, g2, a1, a2, a3, t1, t2

MCOwner == (a1 :> g1) @@ (a2 :> g1) @@ (a3 :> g2)

=============================================================================
