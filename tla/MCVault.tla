------------------------------- MODULE MCVault -------------------------------
(* Instances of CredentialVault for TLC.                                   *)
EXTENDS VaultSafety, TLC

VaultSymmetry ==
    Permutations(Procs) \cup Permutations(Providers)
        \cup Permutations(MasterKeys)
=============================================================================
