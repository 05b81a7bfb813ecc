--------------------------- MODULE CredentialVault ---------------------------
(***************************************************************************)
(* packages/secrets: the encrypted-file vault and the keyring it stands in *)
(* for, with their client in the command line, `aice provider key`, which  *)
(* keeps a row per provider beside the secret.  Several processes of one   *)
(* user run at once; an action is one file operation, one child command or *)
(* one SQL statement.  A secret is known by its last four characters.      *)
(***************************************************************************)
EXTENDS Integers, FiniteSets

CONSTANTS
    Procs,          \* processes of the command line
    Providers,      \* providers, each with the ref vault://providers/<id>/key
    Secrets,        \* values an operator pipes in
    MasterKeys,     \* the 32-byte keys a run may draw
    Keyring,        \* whether secret-tool is installed
    Empty,          \* a key file that was created and not written yet
    None            \* no file, no entry, no row

Entry == [key : MasterKeys, val : Secrets]

Version == [Providers -> Entry \cup {None}]

Backends == {"linux-secret-tool", "encrypted-file"}

ASSUME VaultAssumption ==
    /\ Keyring \in BOOLEAN
    /\ None \notin MasterKeys \cup Secrets \cup Entry \cup Version \cup Backends
    /\ Empty \notin MasterKeys \cup {None}

Commands == {"set", "remove"}

VARIABLES
    keyFile,        \* vault.key
    vault,          \* vault.enc.json
    ring,           \* what the keyring holds
    known,          \* rows of providers
    rows,           \* provider_credentials: last4 by provider
    proc,           \* where each process is, and what it holds in memory
    home,           \* history: the backend that served a provider last
    raced,          \* history: providers whose commands or versions crossed
    halted          \* history: providers whose last command stopped halfway

vars == <<keyFile, vault, ring, known, rows, proc, home, raced, halted>>

Pc == {"down", "detect", "key", "check", "create", "fill", "read", "write",
       "rename", "keyring", "row"}

Idle ==
    [pc |-> "down", cmd |-> None, prov |-> None, val |-> None, key |-> None,
     backend |-> None, snap |-> None, tmp |-> None]

Process ==
    [pc : Pc, cmd : Commands \cup {None}, prov : Providers \cup {None},
     val : Secrets \cup {None}, key : MasterKeys \cup {None},
     backend : Backends \cup {None}, snap : Version \cup {None},
     tmp : Version \cup {None}]

TypeOK ==
    /\ keyFile \in MasterKeys \cup {Empty, None}
    /\ vault \in Version \cup {None}
    /\ ring \in [Providers -> Secrets \cup {None}]
    /\ known \in SUBSET Providers
    /\ rows \in [Providers -> Secrets \cup {None}]
    /\ proc \in [Procs -> Process]
    /\ home \in [Providers -> Backends \cup {None}]
    /\ raced \in SUBSET Providers
    /\ halted \in SUBSET Providers

Init ==
    /\ keyFile = None
    /\ vault = None
    /\ ring = [v \in Providers |-> None]
    /\ known = Providers
    /\ rows = [v \in Providers |-> None]
    /\ proc = [p \in Procs |-> Idle]
    /\ home = [v \in Providers |-> None]
    /\ raced = {}
    /\ halted = {}

At(p, pc) == proc[p].pc = pc

Goto(p, pc) == proc' = [proc EXCEPT ![p].pc = pc]

(* The process of a command ends with it.                                  *)
Stop(p) == proc' = [proc EXCEPT ![p] = Idle]

Serves(p) == proc[p].prov

-----------------------------------------------------------------------------
(* `provider key set <id> --stdin` and `provider key remove <id>`: nothing *)
(* checks that the provider exists.                                        *)
Start(p, cmd, v, val) ==
    /\ At(p, "down")
    /\ (cmd = "remove") = (val = None)
    /\ proc' = [proc EXCEPT ![p] =
           [Idle EXCEPT !.pc = "detect", !.cmd = cmd, !.prov = v, !.val = val]]
    /\ raced' = IF \E q \in Procs : Serves(q) = v THEN raced \cup {v} ELSE raced
    /\ UNCHANGED <<keyFile, vault, ring, known, rows, home, halted>>

(* detectVault, once per command: any failure of secret-tool --version, a  *)
(* timeout too, selects the file.                                          *)
Detect(p, backend) ==
    /\ At(p, "detect")
    /\ backend = "linux-secret-tool" => Keyring
    /\ proc' = [proc EXCEPT ![p].backend = backend,
            ![p].pc = IF backend = "linux-secret-tool" THEN "keyring" ELSE "key"]
    /\ home' = [home EXCEPT ![Serves(p)] = backend]
    /\ raced' = IF home[Serves(p)] \in {None, backend} THEN raced
                ELSE raced \cup {Serves(p)}
    /\ UNCHANGED <<keyFile, vault, ring, known, rows, halted>>

(* realVaultExec: a child process answers, fails or is killed at its       *)
(* timeout; a failure leaves the keyring as it was.                        *)
RunTool(p, ok) == ring' = IF ok THEN [ring EXCEPT ![Serves(p)] = proc[p].val] ELSE ring

(* secret-tool store: a failure ends the command.                          *)
KeyringStore(p, ok) ==
    /\ At(p, "keyring")
    /\ proc[p].cmd = "set"
    /\ RunTool(p, ok)
    /\ IF ok THEN Goto(p, "row") ELSE Stop(p)
    /\ UNCHANGED <<keyFile, vault, known, rows, home, raced, halted>>

(* secret-tool clear: best effort, `key remove` goes on to its row.        *)
KeyringClear(p, ok) ==
    /\ At(p, "keyring")
    /\ proc[p].cmd = "remove"
    /\ RunTool(p, ok)
    /\ Goto(p, "row")
    /\ UNCHANGED <<keyFile, vault, known, rows, home, raced, halted>>

-----------------------------------------------------------------------------
(* EncryptedFileVault.                                                     *)

(* loadOrCreateKey: a key file that is there must hold 32 bytes.           *)
LoadKey(p) ==
    /\ At(p, "key")
    /\ CASE keyFile = None -> Goto(p, "check")
         [] keyFile = Empty -> Stop(p)
         [] OTHER -> proc' = [proc EXCEPT ![p].key = keyFile, ![p].pc = "read"]
    /\ UNCHANGED <<keyFile, vault, ring, known, rows, home, raced, halted>>

(* A vault without its key is never written over.                          *)
CheckVault(p) ==
    /\ At(p, "check")
    /\ IF vault = None THEN Goto(p, "create") ELSE Stop(p)
    /\ UNCHANGED <<keyFile, vault, ring, known, rows, home, raced, halted>>

(* Mutant: the key file is opened with "w".                                *)
TruncateKey(p) ==
    /\ At(p, "create")
    /\ keyFile' = Empty
    /\ Goto(p, "fill")
    /\ UNCHANGED <<vault, ring, known, rows, home, raced, halted>>

(* openSync(keyFile, "wx"): EEXIST ends the command.                       *)
CreateKey(p) ==
    /\ At(p, "create")
    /\ IF keyFile = None
       THEN keyFile' = Empty /\ Goto(p, "fill")
       ELSE keyFile' = keyFile /\ Stop(p)
    /\ UNCHANGED <<vault, ring, known, rows, home, raced, halted>>

FillKey(p) ==
    /\ At(p, "fill")
    /\ \E k \in MasterKeys :
        /\ keyFile' = k
        /\ proc' = [proc EXCEPT ![p].key = k, ![p].pc = "read"]
    /\ UNCHANGED <<vault, ring, known, rows, home, raced, halted>>

Loaded == IF vault = None THEN [v \in Providers |-> None] ELSE vault

(* readAll.  The file is always one whole version: it is only ever renamed *)
(* over.                                                                   *)
ReadAll(p) ==
    /\ At(p, "read")
    /\ proc' = [proc EXCEPT ![p].snap = Loaded, ![p].pc = "write"]
    /\ UNCHANGED <<keyFile, vault, ring, known, rows, home, raced, halted>>

(* decrypt: only the key an entry was written under opens it.              *)
Decrypt(entry) == IF entry.key = keyFile THEN entry.val ELSE None

(* load, by a process that starts now and is served by the backend that    *)
(* served the provider last.                                               *)
Load(v) ==
    IF home[v] = "linux-secret-tool" THEN ring[v]
    ELSE IF Loaded[v] = None THEN None
    ELSE Decrypt(Loaded[v])

(* Mutant: a store starts from an empty file.                              *)
EditedAlone(p) ==
    [v \in Providers |->
        IF v = Serves(p) /\ proc[p].cmd = "set"
        THEN [key |-> proc[p].key, val |-> proc[p].val] ELSE None]

(* store and delete change one entry of what they read.                    *)
Edited(p) ==
    [proc[p].snap EXCEPT ![Serves(p)] =
        IF proc[p].cmd = "set" THEN [key |-> proc[p].key, val |-> proc[p].val]
        ELSE None]

(* writeAll: a temporary file of this process, renamed over the vault.     *)
WriteTmp(p) ==
    /\ At(p, "write")
    /\ proc' = [proc EXCEPT ![p].tmp = Edited(p), ![p].pc = "rename"]
    /\ UNCHANGED <<keyFile, vault, ring, known, rows, home, raced, halted>>

(* The entries another process changed since they were read are undone.    *)
RenameTmp(p) ==
    /\ At(p, "rename")
    /\ vault' = proc[p].tmp
    /\ raced' = raced \cup {v \in Providers : Loaded[v] # proc[p].snap[v]}
    /\ Goto(p, "row")
    /\ UNCHANGED <<keyFile, ring, known, rows, home, halted>>

-----------------------------------------------------------------------------
(* ProviderCredentialsDao.set and remove.  The row of an unknown provider  *)
(* is refused by its foreign key.                                          *)
SetRow(p) ==
    /\ At(p, "row")
    /\ proc[p].cmd = "set"
    /\ rows' = IF Serves(p) \in known
               THEN [rows EXCEPT ![Serves(p)] = proc[p].val] ELSE rows
    /\ halted' = halted \ {Serves(p)}
    /\ Stop(p)
    /\ UNCHANGED <<keyFile, vault, ring, known, home, raced>>

RemoveRow(p) ==
    /\ At(p, "row")
    /\ proc[p].cmd = "remove"
    /\ rows' = [rows EXCEPT ![Serves(p)] = None]
    /\ halted' = halted \ {Serves(p)}
    /\ Stop(p)
    /\ UNCHANGED <<keyFile, vault, ring, known, home, raced>>

(* `provider remove`: the credential row cascades, the secret stays.       *)
RemoveProvider(p, v) ==
    /\ At(p, "down")
    /\ v \in known
    /\ known' = known \ {v}
    /\ rows' = [rows EXCEPT ![v] = None]
    /\ UNCHANGED <<keyFile, vault, ring, proc, home, raced, halted>>

(* A process dies, or a call the model takes to succeed fails.             *)
Crash(p) ==
    /\ ~At(p, "down")
    /\ halted' = IF At(p, "row") THEN halted \cup {Serves(p)} ELSE halted
    /\ Stop(p)
    /\ UNCHANGED <<keyFile, vault, ring, known, rows, home, raced>>

Step(p) ==
    \/ \E v \in Providers :
        \/ \E val \in Secrets : Start(p, "set", v, val)
        \/ Start(p, "remove", v, None)
        \/ RemoveProvider(p, v)
    \/ \E b \in Backends : Detect(p, b)
    \/ \E ok \in BOOLEAN : KeyringStore(p, ok)
    \/ \E ok \in BOOLEAN : KeyringClear(p, ok)
    \/ LoadKey(p)
    \/ CheckVault(p)
    \/ CreateKey(p)
    \/ FillKey(p)
    \/ ReadAll(p)
    \/ WriteTmp(p)
    \/ RenameTmp(p)
    \/ SetRow(p)
    \/ RemoveRow(p)
    \/ Crash(p)

Next == \E p \in Procs : Step(p)

Spec == Init /\ [][Next]_vars

=============================================================================
