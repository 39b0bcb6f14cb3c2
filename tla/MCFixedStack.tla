---------------------------- MODULE MCFixedStack ----------------------------
(* FixedStack for TLC: every list of up to MCCapacity slots is reached.    *)
EXTENDS FixedStack

MCCapacity == 4

=============================================================================
