--------------------------- MODULE MC_WorkerPool ---------------------------
(* WorkerPool for TLC: threads and fibers are model values.                *)
EXTENDS WorkerPool, TLC

Symmetry == Permutations(Workers) \cup Permutations(Fibers)
=============================================================================
