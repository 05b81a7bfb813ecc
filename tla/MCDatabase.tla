----------------------------- MODULE MCDatabase -----------------------------
(* Instances of DatabaseFiles for TLC.                                     *)
EXTENDS DatabaseSafety, TLC

ProcSymmetry == Permutations(Procs)
=============================================================================
