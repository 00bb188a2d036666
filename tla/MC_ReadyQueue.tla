--------------------------- MODULE MC_ReadyQueue ---------------------------
(* ReadyQueue for TLC.                                                     *)
EXTENDS ReadyQueue, TLC

Symmetry == Permutations(Fibers) \cup Permutations(Slots) \cup Permutations(HeapNodes)
=============================================================================
