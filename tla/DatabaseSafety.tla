---------------------------- MODULE DatabaseSafety ---------------------------
(* What the boot path and the scripts promise of the database file.        *)
EXTENDS DatabaseFiles

(* A migration has taken effect exactly when the ledger says so, whichever *)
(* processes boot together and wherever they die: a boot that reads the    *)
(* ledger later neither skips nor repeats one.                             *)
LedgerHonest ==
    clean => \A v \in Versions :
        Schema(v) \in Content(Here) <=> Ledger(v) \in Content(Here)

(* A process that was let up works on a database with every migration in   *)
(* it, though it read the ledger before others migrated.                   *)
UpIsMigrated ==
    clean => \A p \in Procs : pc[p] \in {"up", "write"} =>
        \A v \in Versions : {Schema(v), Ledger(v)} \subseteq Content(conn[p])

(* A finished backup, and a safety copy made with no writer active, holds  *)
(* everything that was committed when the script started, whatever is      *)
(* written, closed and left by dying processes before and while the file   *)
(* is copied, unless a checkpoint rewrites the file during the copy:       *)
(* nothing in db-backup.mjs:43 keeps one from it, and the checks after it  *)
(* may pass.                                                               *)
CopyHolds ==
    \A c \in copies : ~c.torn => c.promised \subseteq c.items

(* A restore that no process crosses replaces the database and nothing     *)
(* else: what it held is in a copy when the new file gets its name, and    *)
(* what is read from then on is the backup, not a WAL of a process that    *)
(* died.                                                                   *)
RestoreReplaces ==
    [][script.alone =>
        /\ path' # path => \E c \in copies : Content(Here) \subseteq c.items
        /\ script.step = "reopen" /\ script'.step = "idle" =>
             Content(Here)' = script.from.items]_vars

=============================================================================
