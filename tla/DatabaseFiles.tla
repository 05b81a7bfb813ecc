---------------------------- MODULE DatabaseFiles ----------------------------
(***************************************************************************)
(* packages/storage's boot path and the operator's scripts over one        *)
(* database file: openDatabase and applyMigrations in several processes,   *)
(* their writes, db-migrate, db-backup and db-restore, and deaths.         *)
(* A file holds a set of items: rows, the effect of a migration, and the   *)
(* line the ledger schema_migrations has for it.  SQLite in WAL mode is    *)
(* external: a connection reads the file it opened and the WAL it opened   *)
(* beside it, a commit goes to that WAL, a checkpoint moves the WAL into   *)
(* the file, and the last connection of the file at the path checkpoints   *)
(* and unlinks the WAL when it closes, but not when the process dies.  A   *)
(* checkpoint rewrites pages in place and may move old rows to other       *)
(* pages: whoever copies the file meanwhile may get any part of it.        *)
(* There is one writer at a time and no waiting: node:sqlite has no busy   *)
(* timeout unless it is given one.                                         *)
(***************************************************************************)
EXTENDS Integers, FiniteSets

CONSTANTS
    Procs,          \* processes with the database open: commands, the bridge
    LastVersion,    \* migrations are 1 .. LastVersion
    Altering,       \* migrations that add a column: they fail the second time
    MaxRows,        \* bound: rows written
    MaxFiles,       \* bound: files put at the path, the first and the restored
    MaxCopies       \* bound: backups and safety copies kept

ASSUME DatabaseAssumption ==
    /\ IsFiniteSet(Procs)
    /\ LastVersion \in Nat /\ Altering \subseteq 1 .. LastVersion
    /\ MaxRows \in Nat /\ MaxFiles \in Nat \ {0} /\ MaxCopies \in Nat

Versions == 1 .. LastVersion

Item == [kind : {"schema", "ledger"}, n : Versions] \cup [kind : {"row"}, n : 1 .. MaxRows]

Schema(v) == [kind |-> "schema", n |-> v]

Ledger(v) == [kind |-> "ledger", n |-> v]

Row(n) == [kind |-> "row", n |-> n]

Files == 1 .. MaxFiles

Wals == 0 .. Cardinality(Procs) + 1

VARIABLES
    path,           \* the file at DB_PATH, 0 when there is none
    main,           \* what each file holds
    wal,            \* what each WAL holds
    named,          \* the WAL that has the name of the database
    rows,           \* rows written so far
    pc, conn,       \* each process, and the file and the WAL it has open
    todo,           \* migrations it found missing in the ledger
    copies,         \* finished backups and safety copies
    script,         \* what the operator's backup or restore is doing
    clean           \* history: no torn copy was restored, nor over a connection

vars == <<path, main, wal, named, rows, pc, conn, todo, copies, script, clean>>

Closed == [file |-> 0, wal |-> 0]

Copy == [items : SUBSET Item, promised : SUBSET Item, torn : BOOLEAN]

Idle ==
    [step |-> "idle", torn |-> FALSE, promised |-> {},
     from |-> [items |-> {}, promised |-> {}, torn |-> FALSE], alone |-> FALSE]

Script ==
    [step : {"idle", "backup", "backup2", "restore", "restore2", "replace", "reopen"},
     torn : BOOLEAN, promised : SUBSET Item, from : Copy, alone : BOOLEAN]

(* The steps at which a script is copying the file at the path.            *)
Copying == {"backup2", "restore2"}

TypeOK ==
    /\ path \in 0 .. MaxFiles
    /\ main \in [Files -> SUBSET Item]
    /\ wal \in [Wals -> SUBSET Item]
    /\ named \in Wals
    /\ rows \in 0 .. MaxRows
    /\ pc \in [Procs -> {"down", "ledger", "begin", "commit", "up", "write", "failed"}]
    /\ conn \in [Procs -> [file : 0 .. MaxFiles, wal : Wals]]
    /\ todo \in [Procs -> SUBSET Versions]
    /\ copies \subseteq Copy
    /\ script \in Script
    /\ clean \in BOOLEAN

Init ==
    /\ path = 0 /\ named = 0 /\ rows = 0
    /\ main = [f \in Files |-> {}]
    /\ wal = [w \in Wals |-> {}]
    /\ pc = [p \in Procs |-> "down"]
    /\ conn = [p \in Procs |-> Closed]
    /\ todo = [p \in Procs |-> {}]
    /\ copies = {} /\ script = Idle /\ clean = TRUE

-----------------------------------------------------------------------------
(* SQLite.                                                                 *)

Here == [file |-> path, wal |-> named]

Content(c) == IF c.file = 0 THEN {} ELSE main[c.file] \cup wal[c.wal]

Connected(p) == conn[p].file # 0

(* Somebody is between the first write and the end of a transaction.       *)
Locked(c) ==
    \E q \in Procs : pc[q] \in {"commit", "write"} /\ conn[q].wal = c.wal

Commit(c, items) ==
    wal' = [wal EXCEPT ![c.wal] = wal[c.wal] \cup items]

(* The name of the WAL once the last connection of the file at the path    *)
(* has unlinked it: another, when a connection made before a restore still *)
(* holds the old one.                                                      *)
Unlinked(others) ==
    LET held == {conn[q].wal : q \in {r \in others : Connected(r)}} IN
    IF named \in held /\ \A q \in others : conn[q].file # path
    THEN CHOOSE w \in Wals : w \notin held
    ELSE named

Checkpoint(c, others) ==
    /\ main' = [main EXCEPT ![c.file] = main[c.file] \cup wal[c.wal]]
    /\ named' = Unlinked(others)
    /\ wal' = [wal EXCEPT ![c.wal] = {}, ![named'] = {}]

(* A close moves the WAL into the file when no other connection has it,    *)
(* and leaves a file that was replaced alone.                              *)
CloseFile(c, others) ==
    IF c.file = path /\ \A q \in others : conn[q].file # path
    THEN Checkpoint(c, others)
    ELSE UNCHANGED <<main, wal, named>>

(* A script that is copying the file when a checkpoint of it has something *)
(* to move gets a torn copy.                                               *)
Tear(c) ==
    script' = [script EXCEPT !.torn =
                 @ \/ (script.step \in Copying /\ c.file = path /\ wal[c.wal] # {})]

Gone(p) ==
    /\ pc' = [pc EXCEPT ![p] = "down"]
    /\ conn' = [conn EXCEPT ![p] = Closed]
    /\ todo' = [todo EXCEPT ![p] = {}]

Close(p) ==
    /\ pc[p] \in {"up", "failed"}
    /\ CloseFile(conn[p], Procs \ {p})
    /\ IF \A q \in Procs \ {p} : conn[q].file # path THEN Tear(conn[p]) ELSE UNCHANGED script
    /\ Gone(p)
    /\ UNCHANGED <<path, rows, copies, clean>>

(* A transaction that was not committed is gone; the WAL stays.            *)
Crash(p) ==
    /\ Connected(p)
    /\ Gone(p)
    /\ UNCHANGED <<path, main, wal, named, rows, copies, script, clean>>

-----------------------------------------------------------------------------
(* openDatabase.                                                           *)

Open(p) ==
    /\ pc[p] = "down"
    /\ path' = IF path = 0 THEN 1 ELSE path
    /\ conn' = [conn EXCEPT ![p] = [file |-> path', wal |-> named]]
    /\ pc' = [pc EXCEPT ![p] = "ledger"]
    /\ script' = [script EXCEPT !.alone = FALSE]
    /\ UNCHANGED <<main, wal, named, rows, todo, copies, clean>>

Pending(items) == {v \in Versions : Ledger(v) \notin items}

(* applyMigrations reads the ledger once, before any transaction.          *)
ReadLedger(p) ==
    /\ pc[p] = "ledger"
    /\ todo' = [todo EXCEPT ![p] = Pending(Content(conn[p]))]
    /\ pc' = [pc EXCEPT ![p] = IF todo'[p] = {} THEN "up" ELSE "begin"]
    /\ UNCHANGED <<path, main, wal, named, rows, conn, copies, script, clean>>

NextVersion(p) == CHOOSE v \in todo[p] : \A w \in todo[p] : v <= w

(* The body cannot run: another process is writing, or has added the       *)
(* column since the ledger was read.                                       *)
Refused(p) ==
    \/ Locked(conn[p])
    \/ NextVersion(p) \in Altering /\ Schema(NextVersion(p)) \in Content(conn[p])

(* Mutant: the body is not inside the transaction of its ledger line.      *)
BodyOutside(p) ==
    /\ pc[p] = "begin"
    /\ ~Refused(p)
    /\ pc' = [pc EXCEPT ![p] = "commit"]
    /\ Commit(conn[p], {Schema(NextVersion(p))})
    /\ UNCHANGED <<path, main, named, rows, conn, todo, copies, script, clean>>

(* BEGIN and the body of the next migration.                               *)
Body(p) ==
    /\ pc[p] = "begin"
    /\ ~Refused(p)
    /\ pc' = [pc EXCEPT ![p] = "commit"]
    /\ UNCHANGED <<path, main, wal, named, rows, conn, todo, copies, script, clean>>

(* Mutant: the failed migration is passed over.                            *)
PassOver(p) ==
    /\ pc[p] = "begin"
    /\ Refused(p)
    /\ todo' = [todo EXCEPT ![p] = todo[p] \ {NextVersion(p)}]
    /\ pc' = [pc EXCEPT ![p] = IF todo'[p] = {} THEN "up" ELSE "begin"]
    /\ UNCHANGED <<path, main, wal, named, rows, conn, copies, script, clean>>

(* ROLLBACK and MigrationError: openDatabase throws.                       *)
RollBack(p) ==
    /\ pc[p] = "begin"
    /\ Refused(p)
    /\ pc' = [pc EXCEPT ![p] = "failed"]
    /\ UNCHANGED <<path, main, wal, named, rows, conn, todo, copies, script, clean>>

(* The ledger line and COMMIT.                                             *)
CommitMigration(p) ==
    /\ pc[p] = "commit"
    /\ LET v == NextVersion(p) IN
        /\ Commit(conn[p], {Schema(v), Ledger(v)})
        /\ todo' = [todo EXCEPT ![p] = todo[p] \ {v}]
    /\ pc' = [pc EXCEPT ![p] = IF todo'[p] = {} THEN "up" ELSE "begin"]
    /\ UNCHANGED <<path, main, named, rows, conn, copies, script, clean>>

-----------------------------------------------------------------------------
(* A statement of a DAO, and SQLite's own checkpoint after a commit.       *)

BeginWrite(p) ==
    /\ pc[p] = "up"
    /\ ~Locked(conn[p])
    /\ rows < MaxRows
    /\ pc' = [pc EXCEPT ![p] = "write"]
    /\ UNCHANGED <<path, main, wal, named, rows, conn, todo, copies, script, clean>>

Write(p) ==
    /\ pc[p] = "write"
    /\ rows < MaxRows
    /\ rows' = rows + 1
    /\ Commit(conn[p], {Row(rows + 1)})
    /\ pc' = [pc EXCEPT ![p] = "up"]
    /\ UNCHANGED <<path, main, named, conn, todo, copies, script, clean>>

AutoCheckpoint(p) ==
    /\ pc[p] = "up"
    /\ wal[conn[p].wal] # {}
    /\ main' = [main EXCEPT ![conn[p].file] = main[conn[p].file] \cup wal[conn[p].wal]]
    /\ wal' = [wal EXCEPT ![conn[p].wal] = {}]
    /\ Tear(conn[p])
    /\ UNCHANGED <<path, named, rows, pc, conn, todo, copies, clean>>

-----------------------------------------------------------------------------
(* The scripts, one at a time; each may die anywhere.                      *)

ScriptDies ==
    /\ script.step # "idle"
    /\ script' = Idle
    /\ UNCHANGED <<path, main, wal, named, rows, pc, conn, todo, copies, clean>>

(* Mutant: the backup goes on when its checkpoint was busy.                *)
RacyBackup ==
    /\ script.step = "idle"
    /\ path # 0
    /\ Cardinality(copies) < MaxCopies
    /\ IF Locked(Here) THEN UNCHANGED <<main, wal, named>> ELSE Checkpoint(Here, Procs)
    /\ script' = [Idle EXCEPT !.step = "backup", !.promised = Content(Here)]
    /\ UNCHANGED <<path, rows, pc, conn, todo, copies, clean>>

(* db-backup: wal_checkpoint(TRUNCATE), refused when a writer is active,   *)
(* and the connection is closed before the file is copied.                 *)
Backup ==
    /\ script.step = "idle"
    /\ path # 0
    /\ Cardinality(copies) < MaxCopies
    /\ ~Locked(Here)
    /\ Checkpoint(Here, Procs)
    /\ script' = [Idle EXCEPT !.step = "backup", !.promised = Content(Here)]
    /\ UNCHANGED <<path, rows, pc, conn, todo, copies, clean>>

(* copyFileSync starts to read the file, and its owners may go on.         *)
StartCopy(step, next) ==
    /\ script.step = step
    /\ script' = [script EXCEPT !.step = next, !.torn = FALSE]
    /\ UNCHANGED <<path, main, wal, named, rows, pc, conn, todo, copies, clean>>

(* What it may have read when it ends: the file, or any part of one that   *)
(* was rewritten on the way, which promises nothing.                       *)
Copied ==
    IF script.torn
    THEN {[items |-> items, promised |-> {}, torn |-> TRUE] : items \in SUBSET main[path]}
    ELSE {[items |-> main[path], promised |-> script.promised, torn |-> FALSE]}

(* The scripts count the rows of tables of the first migration.            *)
Readable(c) == Schema(1) \in c.items

(* A whole copy passes integrity_check and foreign_key_check, and is       *)
(* renamed to its name; a torn one passes or not, as its pages fit.        *)
FinishBackup ==
    /\ script.step = "backup2"
    /\ \E c \in Copied :
        \/ Readable(c) /\ copies' = copies \cup {c}
        \/ (c.torn \/ ~Readable(c)) /\ copies' = copies
    /\ script' = Idle
    /\ UNCHANGED <<path, main, wal, named, rows, pc, conn, todo, clean>>

(* Mutant: the WAL of the database to be replaced is left where it is.     *)
RestoreOver(c) ==
    /\ script.step = "idle"
    /\ Readable(c)
    /\ path # 0 /\ path < MaxFiles
    /\ Cardinality(copies) < MaxCopies
    /\ UNCHANGED <<main, wal, named>>
    /\ script' = [Idle EXCEPT !.step = "restore", !.from = c,
            !.alone = \A q \in Procs : ~Connected(q)]
    /\ UNCHANGED <<path, rows, pc, conn, todo, copies, clean>>

(* db-restore, once the candidate has passed: the database is checkpointed *)
(* for its safety copy.  The result is not looked at: with a writer active *)
(* the copy promises nothing.                                              *)
Restore(c) ==
    /\ script.step = "idle"
    /\ Readable(c)
    /\ path # 0 /\ path < MaxFiles
    /\ Cardinality(copies) < MaxCopies
    /\ IF Locked(Here) THEN UNCHANGED <<main, wal, named>> ELSE Checkpoint(Here, Procs)
    /\ script' = [Idle EXCEPT !.step = "restore", !.from = c,
            !.promised = IF Locked(Here) THEN {} ELSE Content(Here),
            !.alone = \A q \in Procs : ~Connected(q)]
    /\ UNCHANGED <<path, rows, pc, conn, todo, copies, clean>>

(* The safety copy is not verified.                                        *)
KeepSafety ==
    /\ script.step = "restore2"
    /\ \E c \in Copied : copies' = copies \cup {c}
    /\ script' = [script EXCEPT !.step = "replace"]
    /\ UNCHANGED <<path, main, wal, named, rows, pc, conn, todo, clean>>

(* The candidate is copied beside the database and renamed over it.        *)
Replace ==
    /\ script.step = "replace"
    /\ path' = path + 1
    /\ main' = [main EXCEPT ![path + 1] = script.from.items]
    /\ script' = [script EXCEPT !.step = "reopen"]
    /\ clean' = (clean /\ ~script.from.torn /\ script.alone)
    /\ UNCHANGED <<wal, named, rows, pc, conn, todo, copies>>

(* It is opened once more to be checked: a WAL that has its name is read,  *)
(* and moved into it when the check closes it.                             *)
Reopen ==
    /\ script.step = "reopen"
    /\ CloseFile(Here, Procs)
    /\ script' = Idle
    /\ UNCHANGED <<path, rows, pc, conn, todo, copies, clean>>

-----------------------------------------------------------------------------
Process(p) ==
    \/ Open(p)
    \/ ReadLedger(p)
    \/ Body(p)
    \/ RollBack(p)
    \/ CommitMigration(p)
    \/ BeginWrite(p)
    \/ Write(p)
    \/ AutoCheckpoint(p)
    \/ Close(p)
    \/ Crash(p)

Operator ==
    \/ Backup
    \/ StartCopy("backup", "backup2")
    \/ FinishBackup
    \/ \E c \in copies : Restore(c)
    \/ StartCopy("restore", "restore2")
    \/ KeepSafety
    \/ Replace
    \/ Reopen
    \/ ScriptDies

Next == Operator \/ \E p \in Procs : Process(p)

Spec == Init /\ [][Next]_vars

=============================================================================
