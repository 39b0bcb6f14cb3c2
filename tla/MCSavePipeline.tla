--------------------------- MODULE MCSavePipeline ---------------------------
(* SavePipeline for TLC: three chunks, two of them held, and batches of two. *)
(* Threads that take turns are interchangeable between their turns, so one   *)
(* stands for all; the storage, its callbacks and the crash run at any step. *)
EXTENDS SavePipeline

CONSTANTS k1, k2, k3, t1

=============================================================================
