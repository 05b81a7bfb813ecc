------------------------------ MODULE MCMemory -------------------------------
(* Instances of MemoryStore for TLC.                                       *)
EXTENDS MemorySafety, TLC

MemorySymmetry == Permutations(Procs) \cup Permutations(Keys)
=============================================================================
