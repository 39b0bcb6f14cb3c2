----------------------------- MODULE MCTimeTree -----------------------------
(* TimeTree for TLC.                                                         *)
EXTENDS TimeTree

MCBatches == {{1, 3, 5}, 2 .. 5, Times}

\* No step reads the magic or the last call, and what an earlier save wrote is
\* not read while another save is due.
MCView == <<tree, dirty, IF dirty THEN <<>> ELSE stored>>

=============================================================================
