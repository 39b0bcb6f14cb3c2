---------------------------- MODULE DurableStore ----------------------------
(***************************************************************************)
(* What a graph with a storage promises about the contents of its chunks,  *)
(* whatever is cached, on its way or on disk: a read gives the last change *)
(* that was made; a crash may take back changes, but never one that a save *)
(* has confirmed. A change is a number, later changes have larger ones.    *)
(***************************************************************************)
EXTENDS Naturals

CONSTANTS Chunks

VARIABLES visible,              \* what a read of the chunk gives
          durable,              \* what a crash leaves at least
          confirmed,            \* what a save has answered true for
          crashes               \* how often the process has died

Versions == [Chunks -> Nat]

AtMost(f, g) == \A c \in Chunks : f[c] <= g[c]

Init == /\ visible \in Versions
        /\ durable = visible
        /\ confirmed = visible
        /\ crashes = 0

Change == \E c \in Chunks :
  /\ visible' \in Versions
  /\ visible'[c] > visible[c]
  /\ \A d \in Chunks \ {c} : visible'[d] = visible[d]
  /\ UNCHANGED <<durable, confirmed, crashes>>

Persist ==
  /\ durable' \in Versions /\ AtMost(durable, durable') /\ AtMost(durable', visible)
  /\ UNCHANGED <<visible, confirmed, crashes>>

Confirm ==
  /\ confirmed' \in Versions /\ AtMost(confirmed, confirmed')
  /\ AtMost(confirmed', durable)
  /\ UNCHANGED <<visible, durable, crashes>>

\* What was on its way to the disk may still get there.
Crash ==
  /\ durable' \in Versions /\ AtMost(durable, durable')
  /\ visible' \in Versions /\ AtMost(durable', visible') /\ AtMost(visible', visible)
  /\ crashes' = crashes + 1
  /\ UNCHANGED confirmed

Next == Change \/ Persist \/ Confirm \/ Crash

Spec == Init /\ [][Next]_<<visible, durable, confirmed, crashes>>

=============================================================================
