------------------------------ MODULE MC_EPoll ------------------------------
(* EPoll for TLC.                                                          *)
EXTENDS EPoll, TLC

\* IOs are not interchangeable with the refused ones among them.
Symmetry == Permutations(FDs) \cup Permutations(Fibers) \cup Permutations(IOs \ Files)
=============================================================================
