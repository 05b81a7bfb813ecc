----------------------------- MODULE VaultSafety -----------------------------
(* What packages/secrets promises of the stored credentials.               *)
EXTENDS CredentialVault

(* However processes that start, write and die interleave, the key on disk *)
(* opens every entry of the vault file, and every running process holds    *)
(* that key, so that none writes what the next start cannot read.          *)
VaultOpens ==
    /\ vault # None =>
        \A v \in Providers : vault[v] # None => vault[v].key = keyFile
    /\ \A p \in Procs : proc[p].key # None => proc[p].key = keyFile

(* The row a request is configured from names a secret that can be loaded, *)
(* and shows the last four characters of that very secret, whenever no     *)
(* command is at work on the provider.  Only commands that crossed another *)
(* on the provider or the file, a keyring that answers now and then, or a  *)
(* command that died before its row and was not repeated, can break it.    *)
RowsBacked ==
    \A v \in Providers \ (raced \cup halted) :
        (\A p \in Procs : Serves(p) # v) /\ rows[v] # None
        => Load(v) = rows[v]

=============================================================================
