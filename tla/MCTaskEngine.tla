---------------------------- MODULE MCTaskEngine ----------------------------
(* Instances of TaskEngine for TLC.                                        *)
EXTENDS TaskSafety, TLC

ProcSymmetry == Permutations(Procs)

=============================================================================
