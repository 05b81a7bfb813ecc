----------------------------- MODULE MCWorkspace -----------------------------
(* Instances of WorkspaceService for TLC.                                  *)
EXTENDS WorkspaceSafety, TLC

ProcSymmetry == Permutations(Procs)
=============================================================================
