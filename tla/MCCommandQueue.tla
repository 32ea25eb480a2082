--------------------------- MODULE MCCommandQueue ---------------------------
(* Small instance of CommandQueue: three calls in two lanes.                *)
EXTENDS CommandQueue, TLC

MCArgs == {0, 2}

\* Calls and lanes are interchangeable (no liveness is checked in this run).
Interchangeable == Permutations(Tasks) \cup Permutations(Lanes)
=============================================================================
