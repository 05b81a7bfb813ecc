--------------------------- MODULE DatabaseProofs ----------------------------
(***************************************************************************)
(* Theorems about DatabaseFiles, for any number of processes, migrations,  *)
(* rows, restores and copies: the ledger is honest, a process that is up   *)
(* has every migration, copies hold what they promise and a restore nobody *)
(* crosses is exact.                                                       *)
(***************************************************************************)
EXTENDS DatabaseSafety, FiniteSetTheorems, TLAPS

Opened == {"ledger", "begin", "commit", "up", "write", "failed"}

Typed ==
    /\ TypeOK
    /\ \A p \in Procs :
        /\ (pc[p] \in Opened <=> Connected(p))
        /\ (pc[p] \in {"begin", "commit"} => todo[p] # {})
    /\ script.step # "idle" => path # 0
    /\ script.step \in {"restore", "restore2", "replace"} => path < MaxFiles

-----------------------------------------------------------------------------
(* The helpers: versions, items, and the name of the WAL.                  *)
LEMMA LeastVersion ==
    ASSUME NEW T \in SUBSET Nat, T # {}
    PROVE  \E x \in T : \A y \in T : x <= y
<1> DEFINE R == OpToRel(<, Nat)
<1>1. IsWellFoundedOn(R, Nat)
  BY NatLessThanWellFounded
<1>2. \A x, y \in Nat : y < x => <<y, x>> \in R
  BY DEF OpToRel
<1> HIDE DEF R
<1>3. PICK x \in T : \A y \in T : ~ (<<y, x>> \in R)
  BY <1>1, WFMin
<1>4. \A y \in T : ~ (y < x)
  BY <1>2, <1>3
<1>5. \A y \in T : x <= y
  BY <1>4
<1> QED BY <1>5

LEMMA NextType ==
    ASSUME TypeOK, NEW p \in Procs, todo[p] # {}
    PROVE  NextVersion(p) \in todo[p] /\ NextVersion(p) \in Versions
<1>1. todo[p] \in SUBSET Versions /\ Versions \subseteq Nat
  BY DatabaseAssumption DEF TypeOK, Versions
<1>2. \E v \in todo[p] : \A w \in todo[p] : v <= w
  BY <1>1, LeastVersion
<1>3. NextVersion(p) \in todo[p]
  BY <1>2 DEF NextVersion
<1> QED BY <1>1, <1>3

LEMMA Items ==
    /\ \A v \in Versions : {Schema(v), Ledger(v)} \subseteq Item
    /\ \A n \in 1 .. MaxRows : Row(n) \in Item
  BY DEF Item, Schema, Ledger, Row

(* A connection holds one WAL at most, so one of them is free.             *)
LEMMA UnlinkedType ==
    ASSUME TypeOK, NEW others \in SUBSET Procs
    PROVE  Unlinked(others) \in Wals
<1> DEFINE held == {conn[q].wal : q \in {r \in others : Connected(r)}}
<1>1. named \in Wals
  BY DEF TypeOK
<1>2. \E w \in Wals : w \notin held
  <2>1. Cardinality(Procs) \in Nat /\ IsFiniteSet(Procs)
    BY DatabaseAssumption, FS_CardinalityType
  <2>2. IsFiniteSet(Wals) /\ Cardinality(Wals) = Cardinality(Procs) + 2
    BY <2>1, FS_Interval DEF Wals
  <2> DEFINE users == {r \in others : Connected(r)}
             f == [q \in users |-> conn[q].wal]
  <2>3. IsFiniteSet(users) /\ Cardinality(users) <= Cardinality(Procs)
    <3>1. users \subseteq Procs
      OBVIOUS
    <3> QED BY <3>1, <2>1, FS_Subset
  <2>4. f \in [users -> held] /\ \A t \in held : \E q \in users : f[q] = t
    OBVIOUS
  <2>5. f \in Surjection(users, held)
    BY <2>4 DEF Surjection
  <2>6. IsFiniteSet(held) /\ Cardinality(held) <= Cardinality(users)
    BY <2>3, <2>5, FS_Surjection
  <2>7. Cardinality(held) \in Nat /\ Cardinality(users) \in Nat
    BY <2>3, <2>6, FS_CardinalityType
  <2>8. CASE Wals \subseteq held
    <3>1. Cardinality(Wals) <= Cardinality(held)
      BY <2>6, <2>8, FS_Subset
    <3> QED BY <2>1, <2>2, <2>3, <2>6, <2>7, <3>1
  <2> QED BY <2>8
<1>3. (CHOOSE w \in Wals : w \notin held) \in Wals
  BY <1>2
<1> QED BY <1>1, <1>3 DEF Unlinked

-----------------------------------------------------------------------------
(* What a step of SQLite does to the files.                                *)
Handle == [file : Files, wal : Wals]

LEMMA HandleType ==
    ASSUME TypeOK
    PROVE  /\ path # 0 => Here \in Handle
           /\ \A p \in Procs : Connected(p) => conn[p] \in Handle
           /\ Closed \in [file : 0 .. MaxFiles, wal : Wals]
<1>1. /\ 0 .. MaxFiles \ {0} \subseteq Files
      /\ 0 \in 0 .. MaxFiles
  BY DatabaseAssumption DEF Files
<1>2. Cardinality(Procs) \in Nat
  BY DatabaseAssumption, FS_CardinalityType
<1>3. 0 \in Wals
  BY <1>2 DEF Wals
<1> QED BY <1>1, <1>3 DEF TypeOK, Here, Handle, Closed, Connected

LEMMA CheckpointEffect ==
    ASSUME TypeOK, NEW c \in Handle, NEW others \in SUBSET Procs, Checkpoint(c, others)
    PROVE  /\ main' \in [Files -> SUBSET Item] /\ wal' \in [Wals -> SUBSET Item]
           /\ named' \in Wals /\ named' = Unlinked(others)
           /\ main'[c.file] = main[c.file] \cup wal[c.wal]
           /\ \A f \in Files : main'[f] = main[f] \/ main'[f] = main[c.file] \cup wal[c.wal]
           /\ \A f \in Files : main[f] \subseteq main'[f]
           /\ wal'[named'] = {}
           /\ \A w \in Wals : wal'[w] \in {{}, wal[w]}
<1>1. named' = Unlinked(others) /\ named' \in Wals
  BY UnlinkedType DEF Checkpoint
<1>2. c.file \in Files /\ c.wal \in Wals
  BY DEF Handle
<1>3. main' = [main EXCEPT ![c.file] = main[c.file] \cup wal[c.wal]]
  BY DEF Checkpoint
<1> DEFINE n == named'
<1>4. wal' = [wal EXCEPT ![c.wal] = {}, ![n] = {}]
  BY DEF Checkpoint
<1>5. n \in Wals /\ n = named'
  BY <1>1
<1> HIDE DEF n
<1>6. main \in [Files -> SUBSET Item] /\ wal \in [Wals -> SUBSET Item]
  BY DEF TypeOK
<1>7. /\ wal' \in [Wals -> SUBSET Item] /\ wal'[n] = {}
      /\ \A w \in Wals : wal'[w] \in {{}, wal[w]}
  BY <1>2, <1>4, <1>5, <1>6
<1>8. /\ main' \in [Files -> SUBSET Item]
      /\ main'[c.file] = main[c.file] \cup wal[c.wal]
      /\ \A f \in Files : main'[f] = main[f] \/ main'[f] = main[c.file] \cup wal[c.wal]
      /\ \A f \in Files : main[f] \subseteq main'[f]
  BY <1>2, <1>3, <1>6
<1> QED BY <1>1, <1>5, <1>7, <1>8

LEMMA CommitEffect ==
    ASSUME TypeOK, NEW c \in Handle, NEW items \in SUBSET Item, Commit(c, items)
    PROVE  /\ wal' \in [Wals -> SUBSET Item]
           /\ \A w \in Wals : wal'[w] = wal[w] \/ wal'[w] = wal[w] \cup items
           /\ wal'[c.wal] = wal[c.wal] \cup items
  BY DEF TypeOK, Commit, Handle

(* The rest of what the processes do.                                      *)
LEMMA GoneEffect ==
    ASSUME TypeOK, NEW p \in Procs, Gone(p)
    PROVE  /\ pc' = [pc EXCEPT ![p] = "down"]
           /\ conn' \in [Procs -> [file : 0 .. MaxFiles, wal : Wals]]
           /\ todo' \in [Procs -> SUBSET Versions]
           /\ conn'[p].file = 0
           /\ \A q \in Procs \ {p} : conn'[q] = conn[q] /\ todo'[q] = todo[q]
  BY HandleType DEF TypeOK, Gone, Closed

(* The script and the copies are types of their own.                       *)
LEMMA ScriptType ==
    ASSUME TypeOK
    PROVE  /\ Idle \in Script /\ Idle.step = "idle" /\ Idle.alone = FALSE
           /\ [script EXCEPT !.alone = FALSE] \in Script
           /\ path # 0 => Content(Here) \in SUBSET Item
           /\ path # 0 => main[path] \in SUBSET Item
           /\ path # 0 => Copied \subseteq Copy
<1>1. script \in Script
  BY DEF TypeOK
<1>2. Idle \in Script
  BY DEF Idle, Script, Copy
<1>3. [script EXCEPT !.alone = FALSE] \in Script
  BY <1>1 DEF Script
<1>4. ASSUME path # 0
      PROVE  main[path] \in SUBSET Item /\ Content(Here) \in SUBSET Item
  <2>1. path \in Files /\ named \in Wals /\ Here.file = path /\ Here.wal = named
    BY <1>4, HandleType DEF Handle, Here
  <2> QED BY <2>1 DEF TypeOK, Content
<1>5. ASSUME path # 0 PROVE Copied \subseteq Copy
  <2>1. main[path] \in SUBSET Item /\ script.promised \in SUBSET Item
    BY <1>1, <1>4, <1>5 DEF Script
  <2>2. \A items \in SUBSET main[path] : items \in SUBSET Item
    BY <2>1
  <2>3. CASE script.torn
    <3>1. \A c \in Copied : \E items \in SUBSET Item :
            c = [items |-> items, promised |-> {}, torn |-> TRUE]
      BY <2>2, <2>3 DEF Copied
    <3>2. \A items \in SUBSET Item : [items |-> items, promised |-> {}, torn |-> TRUE] \in Copy
      BY DEF Copy
    <3> QED BY <3>1, <3>2
  <2>4. CASE ~script.torn
    <3>1. Copied = {[items |-> main[path], promised |-> script.promised, torn |-> FALSE]}
      BY <2>4 DEF Copied
    <3>2. [items |-> main[path], promised |-> script.promised, torn |-> FALSE] \in Copy
      BY <2>1 DEF Copy
    <3> QED BY <3>1, <3>2
  <2> QED BY <2>3, <2>4
<1> QED BY <1>2, <1>3, <1>4, <1>5 DEF Idle

-----------------------------------------------------------------------------
(* Types.                                                                  *)
LEMMA InitTyped == Init => Typed
<1> SUFFICES ASSUME Init PROVE Typed
  OBVIOUS
<1>1. 0 \in 0 .. MaxFiles /\ 0 \in 0 .. MaxRows
  BY DatabaseAssumption
<1>2. 0 \in Wals
  BY DatabaseAssumption, FS_CardinalityType DEF Wals
<1>3. Closed \in [file : 0 .. MaxFiles, wal : Wals]
  BY <1>1, <1>2 DEF Closed
<1>4. Idle \in Script
  BY DEF Idle, Script, Copy
<1>5. TypeOK
  BY <1>1, <1>2, <1>3, <1>4 DEF Init, TypeOK
<1>6. \A p \in Procs : pc[p] = "down" /\ ~Connected(p)
  BY DEF Init, Connected, Closed
<1>7. script.step = "idle"
  BY DEF Init, Idle
<1> QED BY <1>5, <1>6, <1>7 DEF Typed, Opened

(* The part of Typed that the processes change.                            *)
Seats(p) ==
    /\ pc[p] \in {"down"} \cup Opened
    /\ conn[p] \in [file : 0 .. MaxFiles, wal : Wals]
    /\ todo[p] \in SUBSET Versions
    /\ (pc[p] \in Opened <=> Connected(p))
    /\ (pc[p] \in {"begin", "commit"} => todo[p] # {})

Tables ==
    /\ path \in 0 .. MaxFiles
    /\ main \in [Files -> SUBSET Item]
    /\ wal \in [Wals -> SUBSET Item]
    /\ named \in Wals
    /\ rows \in 0 .. MaxRows

Scripts ==
    /\ copies \subseteq Copy
    /\ script \in Script
    /\ clean \in BOOLEAN
    /\ script.step # "idle" => path # 0
    /\ script.step \in {"restore", "restore2", "replace"} => path < MaxFiles

LEMMA TypedParts ==
    Typed <=> /\ pc \in [Procs -> {"down"} \cup Opened]
              /\ conn \in [Procs -> [file : 0 .. MaxFiles, wal : Wals]]
              /\ todo \in [Procs -> SUBSET Versions]
              /\ \A p \in Procs : Seats(p)
              /\ Tables /\ Scripts
<1>1. {"down"} \cup Opened
        = {"down", "ledger", "begin", "commit", "up", "write", "failed"}
  BY DEF Opened
<1> QED BY <1>1, Zenon DEF Typed, TypeOK, Seats, Tables, Scripts

(* Where a step leads.                                                     *)
LEMMA TypedNext ==
    ASSUME /\ pc' \in [Procs -> {"down"} \cup Opened]
           /\ conn' \in [Procs -> [file : 0 .. MaxFiles, wal : Wals]]
           /\ todo' \in [Procs -> SUBSET Versions],
           \A p \in Procs : Seats(p)', Tables', Scripts'
    PROVE  Typed'
<1>1. {"down"} \cup Opened
        = {"down", "ledger", "begin", "commit", "up", "write", "failed"}
  BY DEF Opened
<1> QED BY <1>1, Zenon DEF Typed, TypeOK, Seats, Tables, Scripts

(* A step that changes one process keeps the others where they are.        *)
LEMMA SeatsKept ==
    ASSUME Typed, NEW p \in Procs,
           NEW a \in {"down"} \cup Opened, NEW c \in [file : 0 .. MaxFiles, wal : Wals],
           NEW t \in SUBSET Versions,
           pc' = [pc EXCEPT ![p] = a], conn' = [conn EXCEPT ![p] = c],
           todo' = [todo EXCEPT ![p] = t],
           a \in Opened <=> c.file # 0, a \in {"begin", "commit"} => t # {}
    PROVE  /\ pc' \in [Procs -> {"down"} \cup Opened]
           /\ conn' \in [Procs -> [file : 0 .. MaxFiles, wal : Wals]]
           /\ todo' \in [Procs -> SUBSET Versions]
           /\ \A q \in Procs : Seats(q)'
  BY TypedParts DEF Seats, Connected

(* What a process does to its own seat, and what it leaves alone.          *)
LEMMA ProcessFrame ==
    ASSUME NEW p \in Procs, Process(p)
    PROVE  /\ \/ script' = script \/ script' = [script EXCEPT !.alone = FALSE]
              \/ \E c \in {conn[p]} : Tear(c)
           /\ copies' = copies /\ clean' = clean
           /\ path' = path \/ Open(p)
<1> QED BY DEF Process, Open, ReadLedger, Body, RollBack, CommitMigration, BeginWrite, Write,
               AutoCheckpoint, Close, Crash

(* To the script a process can only do two things: tear its copy and cross *)
(* its restore.                                                            *)
LEMMA ScriptFrame ==
    ASSUME TypeOK, NEW p \in Procs, Process(p)
    PROVE  /\ script' \in Script
           /\ script'.step = script.step /\ script'.promised = script.promised
           /\ script'.from = script.from
           /\ script'.alone => script.alone
<1>t. script \in Script
  BY DEF TypeOK
<1>1. CASE script' = script \/ script' = [script EXCEPT !.alone = FALSE]
  BY <1>t, <1>1 DEF Script
<1>2. CASE Tear(conn[p])
  <2> DEFINE b == script.torn \/ ( /\ script.step \in Copying /\ conn[p].file = path
                                  /\ wal[conn[p].wal] # {})
  <2>1. b \in BOOLEAN /\ script' = [script EXCEPT !.torn = b]
    BY <1>2 DEF Tear
  <2> HIDE DEF b
  <2> QED BY <1>t, <2>1 DEF Script
<1> QED BY <1>1, <1>2, ProcessFrame

LEMMA ProcessSeats ==
    ASSUME Typed, NEW p \in Procs, Process(p)
    PROVE  /\ pc' \in [Procs -> {"down"} \cup Opened]
           /\ conn' \in [Procs -> [file : 0 .. MaxFiles, wal : Wals]]
           /\ todo' \in [Procs -> SUBSET Versions]
           /\ \A q \in Procs : Seats(q)'
<1>t. /\ TypeOK /\ Seats(p)
      /\ pc \in [Procs -> {"down"} \cup Opened]
      /\ conn \in [Procs -> [file : 0 .. MaxFiles, wal : Wals]]
      /\ todo \in [Procs -> SUBSET Versions]
  BY TypedParts DEF Typed
<1>c. conn = [conn EXCEPT ![p] = conn[p]] /\ todo = [todo EXCEPT ![p] = todo[p]]
      /\ pc = [pc EXCEPT ![p] = pc[p]]
  BY <1>t
<1>s. (conn[p].file # 0 <=> pc[p] \in Opened) /\ conn[p] \in [file : 0 .. MaxFiles, wal : Wals]
  BY <1>t DEF Seats, Connected
<1>1. CASE Open(p)
  <2>1. path' \in 1 .. MaxFiles /\ named \in Wals
    BY <1>1, <1>t, DatabaseAssumption DEF Open, TypeOK
  <2> DEFINE c == [file |-> path', wal |-> named]
  <2>2. /\ pc' = [pc EXCEPT ![p] = "ledger"] /\ conn' = [conn EXCEPT ![p] = c]
        /\ todo' = [todo EXCEPT ![p] = todo[p]]
    BY <1>1, <1>c DEF Open
  <2>3. c \in [file : 0 .. MaxFiles, wal : Wals] /\ c.file # 0
    BY <2>1
  <2> HIDE DEF c
  <2> QED BY <1>t, <2>2, <2>3, SeatsKept DEF Opened
<1>2. CASE ReadLedger(p)
  <2> DEFINE t == Pending(Content(conn[p]))
  <2>1. t \in SUBSET Versions
    BY DEF Pending
  <2>2. /\ todo' = [todo EXCEPT ![p] = t] /\ todo'[p] = t /\ conn' = [conn EXCEPT ![p] = conn[p]]
        /\ pc' = [pc EXCEPT ![p] = IF todo'[p] = {} THEN "up" ELSE "begin"]
        /\ pc[p] = "ledger"
    BY <1>2, <1>t, <1>c DEF ReadLedger
  <2> HIDE DEF t
  <2>3. pc' = [pc EXCEPT ![p] = IF t = {} THEN "up" ELSE "begin"]
    BY <2>2
  <2> QED BY <1>s, <2>1, <2>2, <2>3, SeatsKept DEF Opened
<1>3. CASE Body(p)
  <2>1. /\ pc' = [pc EXCEPT ![p] = "commit"] /\ conn' = [conn EXCEPT ![p] = conn[p]]
        /\ todo' = [todo EXCEPT ![p] = todo[p]] /\ pc[p] = "begin"
    BY <1>3, <1>c DEF Body
  <2> QED BY <1>s, <1>t, <2>1, SeatsKept DEF Opened, Seats
<1>4. CASE RollBack(p)
  <2>1. /\ pc' = [pc EXCEPT ![p] = "failed"] /\ conn' = [conn EXCEPT ![p] = conn[p]]
        /\ todo' = [todo EXCEPT ![p] = todo[p]] /\ pc[p] = "begin"
    BY <1>4, <1>c DEF RollBack
  <2> QED BY <1>s, <1>t, <2>1, SeatsKept DEF Opened
<1>5. CASE CommitMigration(p)
  <2> DEFINE t == todo[p] \ {NextVersion(p)}
  <2>1. t \in SUBSET Versions
    BY <1>t
  <2>2. /\ todo' = [todo EXCEPT ![p] = t] /\ todo'[p] = t /\ conn' = [conn EXCEPT ![p] = conn[p]]
        /\ pc' = [pc EXCEPT ![p] = IF todo'[p] = {} THEN "up" ELSE "begin"]
        /\ pc[p] = "commit"
    BY <1>5, <1>t, <1>c DEF CommitMigration
  <2> HIDE DEF t
  <2>3. pc' = [pc EXCEPT ![p] = IF t = {} THEN "up" ELSE "begin"]
    BY <2>2
  <2> QED BY <1>s, <2>1, <2>2, <2>3, SeatsKept DEF Opened
<1>6. CASE BeginWrite(p)
  <2>1. /\ pc' = [pc EXCEPT ![p] = "write"] /\ conn' = [conn EXCEPT ![p] = conn[p]]
        /\ todo' = [todo EXCEPT ![p] = todo[p]] /\ pc[p] = "up"
    BY <1>6, <1>c DEF BeginWrite
  <2> QED BY <1>s, <1>t, <2>1, SeatsKept DEF Opened
<1>7. CASE Write(p)
  <2>1. /\ pc' = [pc EXCEPT ![p] = "up"] /\ conn' = [conn EXCEPT ![p] = conn[p]]
        /\ todo' = [todo EXCEPT ![p] = todo[p]] /\ pc[p] = "write"
    BY <1>7, <1>c DEF Write
  <2> QED BY <1>s, <1>t, <2>1, SeatsKept DEF Opened
<1>8. CASE AutoCheckpoint(p)
  <2>1. /\ pc' = [pc EXCEPT ![p] = pc[p]] /\ conn' = [conn EXCEPT ![p] = conn[p]]
        /\ todo' = [todo EXCEPT ![p] = todo[p]] /\ pc[p] = "up"
    BY <1>8, <1>c DEF AutoCheckpoint
  <2> QED BY <1>s, <1>t, <2>1, SeatsKept DEF Opened
<1>9. CASE Gone(p)
  <2>1. Closed \in [file : 0 .. MaxFiles, wal : Wals] /\ Closed.file = 0
    BY <1>t, HandleType DEF Closed
  <2>2. /\ pc' = [pc EXCEPT ![p] = "down"] /\ conn' = [conn EXCEPT ![p] = Closed]
        /\ todo' = [todo EXCEPT ![p] = {}]
    BY <1>9 DEF Gone
  <2>3. "down" \notin Opened /\ "down" \notin {"begin", "commit"}
    BY DEF Opened
  <2> QED BY <1>t, <2>1, <2>2, <2>3, SeatsKept
<1> QED BY <1>1, <1>2, <1>3, <1>4, <1>5, <1>6, <1>7, <1>8, <1>9 DEF Process, Close, Crash

(* The files after a step of a process.                                    *)
LEMMA ProcessTables ==
    ASSUME Typed, NEW p \in Procs, Process(p)
    PROVE  Tables'
<1>t. TypeOK /\ Tables /\ Seats(p)
  BY TypedParts DEF Typed
<1>h. Connected(p) => conn[p] \in Handle
  BY <1>t, HandleType
<1>1. CASE UNCHANGED <<main, wal, named, rows>>
  <2>1. path' \in 0 .. MaxFiles
    BY <1>t, ProcessFrame, DatabaseAssumption DEF Tables, Open
  <2> QED BY <1>1, <1>t, <2>1 DEF Tables
<1>2. CASE CommitMigration(p)
  <2>1. NextVersion(p) \in Versions /\ Connected(p)
    BY <1>2, <1>t, NextType DEF CommitMigration, Seats, Opened
  <2>2. {Schema(NextVersion(p)), Ledger(NextVersion(p))} \in SUBSET Item
    BY <2>1, Items
  <2>3. wal' \in [Wals -> SUBSET Item]
    BY <1>2, <1>t, <1>h, <2>1, <2>2, CommitEffect DEF CommitMigration
  <2> QED BY <1>2, <1>t, <2>3 DEF CommitMigration, Tables
<1>3. CASE Write(p)
  <2>1. Connected(p) /\ rows + 1 \in 1 .. MaxRows
    BY <1>3, <1>t, DatabaseAssumption DEF Write, Seats, Opened, Tables
  <2>2. {Row(rows + 1)} \in SUBSET Item
    BY <2>1, Items
  <2>3. wal' \in [Wals -> SUBSET Item]
    BY <1>3, <1>t, <1>h, <2>1, <2>2, CommitEffect DEF Write
  <2> QED BY <1>3, <1>t, <2>1, <2>3 DEF Write, Tables
<1>4. CASE AutoCheckpoint(p)
  <2>1. conn[p].file \in Files /\ conn[p].wal \in Wals
    BY <1>4, <1>t, <1>h DEF AutoCheckpoint, Seats, Opened, Handle
  <2> QED BY <1>4, <1>t, <2>1 DEF AutoCheckpoint, Tables
<1>5. CASE Close(p)
  <2>1. conn[p] \in Handle
    BY <1>5, <1>t, <1>h DEF Close, Seats, Opened
  <2>2. CASE Checkpoint(conn[p], Procs \ {p})
    BY <1>5, <1>t, <2>1, <2>2, CheckpointEffect DEF Close, Tables
  <2>3. CASE UNCHANGED <<main, wal, named>>
    BY <1>5, <1>1, <2>3 DEF Close
  <2> QED BY <1>5, <2>2, <2>3 DEF Close, CloseFile
<1> QED BY <1>1, <1>2, <1>3, <1>4, <1>5
        DEF Process, Open, ReadLedger, Body, RollBack, BeginWrite, Crash

LEMMA ProcessTyped ==
    ASSUME Typed, NEW p \in Procs, Process(p)
    PROVE  Typed'
<1>1. Scripts
  BY TypedParts
<1>2. script' \in Script /\ script'.step = script.step
  BY ScriptFrame DEF Typed
<1>3. path # 0 => path' = path
  BY ProcessFrame DEF Open
<1>4. Scripts'
  BY <1>1, <1>2, <1>3, ProcessFrame DEF Scripts
<1> QED BY <1>4, ProcessSeats, ProcessTables, TypedNext

LEMMA OperatorTyped ==
    ASSUME Typed, Operator
    PROVE  Typed'
<1>t. TypeOK /\ Tables /\ Scripts /\ copies \subseteq Copy /\ script \in Script
  BY TypedParts DEF Typed, Scripts
<1>s. UNCHANGED <<pc, conn, todo, rows>>
  BY DEF Operator, Backup, StartCopy, FinishBackup, Restore, KeepSafety, Replace, Reopen,
         ScriptDies
<1>1. /\ pc' \in [Procs -> {"down"} \cup Opened]
      /\ conn' \in [Procs -> [file : 0 .. MaxFiles, wal : Wals]]
      /\ todo' \in [Procs -> SUBSET Versions]
      /\ \A p \in Procs : Seats(p)'
  BY <1>s, TypedParts DEF Seats, Connected
<1>h. path # 0 => /\ Here \in Handle /\ Content(Here) \in SUBSET Item
                  /\ main[path] \in SUBSET Item /\ Copied \subseteq Copy
  BY <1>t, HandleType, ScriptType
<1>i. Idle \in Script /\ Idle.step = "idle"
  BY <1>t, ScriptType
<1> SUFFICES Tables' /\ Scripts'
  BY <1>1, TypedNext
<1>2. CASE Backup
  <2>1. Tables'
    BY <1>2, <1>t, <1>h, CheckpointEffect DEF Backup, Tables
  <2>2. /\ script' = [Idle EXCEPT !.step = "backup", !.promised = Content(Here)]
        /\ path # 0 /\ UNCHANGED <<path, copies, clean>>
    BY <1>2 DEF Backup
  <2>3. script' \in Script /\ script'.step = "backup"
    BY <1>h, <1>i, <2>2 DEF Script
  <2> QED BY <1>t, <2>1, <2>2, <2>3 DEF Scripts
<1>3. ASSUME NEW c \in copies, Restore(c) PROVE Tables' /\ Scripts'
  <2>1. Tables'
    <3>1. CASE Checkpoint(Here, Procs)
      BY <1>3, <1>t, <1>h, <3>1, CheckpointEffect DEF Restore, Tables
    <3>2. CASE UNCHANGED <<main, wal, named>>
      BY <1>3, <1>t, <3>2 DEF Restore, Tables
    <3> QED BY <1>3, <3>1, <3>2 DEF Restore
  <2> DEFINE x == IF Locked(Here) THEN {} ELSE Content(Here)
             b == \A q \in Procs : ~Connected(q)
  <2>2. /\ script' = [Idle EXCEPT !.step = "restore", !.from = c, !.promised = x, !.alone = b]
        /\ path # 0 /\ path < MaxFiles /\ UNCHANGED <<path, copies, clean>>
    BY <1>3 DEF Restore
  <2>3. x \in SUBSET Item /\ b \in BOOLEAN /\ c \in Copy
    BY <1>h, <1>t, <2>2
  <2> HIDE DEF x, b
  <2>4. script' \in Script /\ script'.step = "restore"
    BY <1>i, <2>2, <2>3 DEF Script
  <2> QED BY <1>t, <2>1, <2>2, <2>4 DEF Scripts
<1>4. ASSUME NEW a \in {"backup", "restore"}, NEW b \in {"backup2", "restore2"},
             StartCopy(a, b), a = "backup" <=> b = "backup2"
      PROVE  Tables' /\ Scripts'
  <2>1. /\ script' = [script EXCEPT !.step = b, !.torn = FALSE]
        /\ script.step = a /\ UNCHANGED <<path, copies, clean>> /\ path # 0
    BY <1>4, <1>t DEF StartCopy, Scripts
  <2>3. script' \in Script /\ script'.step = b
    BY <1>t, <2>1 DEF Script
  <2> QED BY <1>4, <1>s, <1>t, <2>1, <2>3 DEF Scripts, Tables, StartCopy
<1>5. CASE FinishBackup
  <2>1. copies' \subseteq Copy
    BY <1>5, <1>t, <1>h DEF FinishBackup, Scripts
  <2> QED BY <1>5, <1>s, <1>t, <1>i, <2>1 DEF FinishBackup, Scripts, Tables
<1>6. CASE KeepSafety
  <2>1. /\ copies' \subseteq Copy /\ script' \in Script /\ script'.step = "replace"
        /\ script.step = "restore2"
    BY <1>6, <1>t, <1>h DEF KeepSafety, Scripts, Script
  <2> QED BY <1>6, <1>s, <1>t, <2>1 DEF KeepSafety, Scripts, Tables
<1>7. CASE Replace
  <2>1. path < MaxFiles /\ path + 1 \in Files /\ path + 1 # 0 /\ path + 1 \in 0 .. MaxFiles
    BY <1>7, <1>t, DatabaseAssumption DEF Replace, Scripts, Tables, Files
  <2>2. script.from.items \in SUBSET Item
    BY <1>t DEF Script, Copy
  <2>3. Tables'
    BY <1>7, <1>s, <1>t, <2>1, <2>2 DEF Replace, Tables
  <2>4. script' \in Script /\ script'.step = "reopen" /\ script.alone \in BOOLEAN
        /\ script.from.torn \in BOOLEAN
    BY <1>7, <1>t DEF Replace, Script, Copy
  <2> QED BY <1>7, <1>t, <2>1, <2>3, <2>4 DEF Replace, Scripts
<1>8. CASE Reopen
  <2>1. Tables'
    <3>1. CASE Checkpoint(Here, Procs)
      BY <1>8, <1>t, <1>h, <3>1, CheckpointEffect DEF Reopen, Tables, Scripts
    <3>2. CASE UNCHANGED <<main, wal, named>>
      BY <1>8, <1>t, <3>2 DEF Reopen, Tables
    <3> QED BY <1>8, <3>1, <3>2 DEF Reopen, CloseFile
  <2> QED BY <1>8, <1>t, <1>i, <2>1 DEF Reopen, Scripts
<1>9. CASE ScriptDies
  BY <1>9, <1>t, <1>i DEF ScriptDies, Scripts, Tables
<1> QED BY <1>2, <1>3, <1>4, <1>5, <1>6, <1>7, <1>8, <1>9 DEF Operator

LEMMA NextTyped == Typed /\ [Next]_vars => Typed'
<1> SUFFICES ASSUME Typed, [Next]_vars PROVE Typed'
  OBVIOUS
<1>1. CASE UNCHANGED vars
  BY <1>1 DEF vars, Typed, TypeOK, Connected
<1> QED BY <1>1, ProcessTyped, OperatorTyped DEF Next

(* Every reachable state is well typed: files, connections and scripts are *)
(* what they are declared to be, and a WAL name is free when one is needed.*)
THEOREM TypeCorrect == Spec => []TypeOK
<1>1. Typed => TypeOK
  BY DEF Typed
<1> QED BY <1>1, InitTyped, NextTyped, PTL DEF Spec

-----------------------------------------------------------------------------
(* What is at the path only grows, until a restore replaces it.            *)
LEMMA MainGrows ==
    ASSUME Typed, [Next]_vars, path # 0, ~Replace
    PROVE  path' = path /\ main[path] \subseteq main'[path]
<1>t. TypeOK /\ path \in Files
  BY HandleType DEF Typed, Handle, Here
<1>1. CASE UNCHANGED <<path, main>>
  BY <1>1
<1>2. ASSUME NEW p \in Procs, Process(p) PROVE path' = path /\ main[path] \subseteq main'[path]
  <2>1. path' = path
    BY <1>2, ProcessFrame DEF Open
  <2>2. CASE AutoCheckpoint(p)
    BY <2>1, <2>2, <1>t DEF AutoCheckpoint, TypeOK
  <2>3. CASE Close(p)
    <3>1. conn[p] \in Handle
      BY <2>3, <1>t, HandleType DEF Close, Typed, Opened
    <3> QED BY <1>t, <2>1, <2>3, <3>1, CheckpointEffect DEF Close, CloseFile
  <2>4. CASE main' = main
    BY <2>1, <2>4
  <2> QED BY <1>2, <2>2, <2>3, <2>4 DEF Process, Open, ReadLedger, Body, RollBack,
                CommitMigration, BeginWrite, Write, Crash
<1>3. CASE Operator
  <2>1. path' = path
    BY <1>3 DEF Operator, Backup, StartCopy, FinishBackup, Restore, KeepSafety, Reopen,
                ScriptDies
  <2>2. CASE Checkpoint(Here, Procs)
    BY <1>t, <2>1, <2>2, HandleType, CheckpointEffect
  <2>3. CASE main' = main
    BY <2>1, <2>3
  <2> QED BY <1>3, <2>2, <2>3 DEF Operator, Backup, StartCopy, FinishBackup, Restore,
                KeepSafety, Reopen, ScriptDies, CloseFile
<1> QED BY <1>1, <1>2, <1>3 DEF Next, vars

-----------------------------------------------------------------------------
(* Copies: what a script promised is in the main file while it copies.     *)
CopyInv ==
    /\ \A c \in copies : ~c.torn => c.promised \subseteq c.items
    /\ script.step \in {"backup", "restore", "backup2", "restore2"} =>
         script.promised \subseteq main[path]

LEMMA CopyKept == Typed /\ CopyInv /\ [Next]_vars => CopyInv'
<1> SUFFICES ASSUME Typed, CopyInv, [Next]_vars PROVE CopyInv'
  OBVIOUS
<1>t. TypeOK /\ script \in Script /\ (script.step # "idle" => path # 0)
  BY DEF Typed, TypeOK
<1>g. path # 0 /\ ~Replace => path' = path /\ main[path] \subseteq main'[path]
  BY MainGrows
<1>i. Idle.step = "idle"
  BY DEF Idle
<1>c. script.step \in {"backup2", "restore2"} =>
        \A c \in Copied : ~c.torn => c.promised \subseteq c.items
  BY DEF CopyInv, Copied
<1>1. CASE /\ copies' = copies
           /\ script'.step = script.step /\ script'.promised = script.promised
  <2>1. script'.step = script.step /\ script'.promised = script.promised
    BY <1>1
  <2>2. CASE script.step \in {"backup", "restore", "backup2", "restore2"}
    <3>1. ~Replace
      BY <2>2 DEF Replace
    <3> QED BY <1>1, <1>g, <1>t, <2>1, <2>2, <3>1 DEF CopyInv
  <2> QED BY <1>1, <2>1, <2>2 DEF CopyInv
<1>2. CASE Backup
  <2>1. script'.step = "backup" /\ script'.promised = Content(Here) /\ path # 0
        /\ path' = path /\ copies' = copies
    BY <1>2 DEF Backup, Idle
  <2>2. Content(Here) \subseteq main'[path]
    BY <1>2, <1>t, <2>1, HandleType, CheckpointEffect DEF Backup, Content, Here
  <2> QED BY <2>1, <2>2 DEF CopyInv
<1>3. ASSUME NEW c \in copies, Restore(c) PROVE CopyInv'
  <2>1. /\ script'.step = "restore" /\ path # 0 /\ path' = path /\ copies' = copies
        /\ script'.promised = (IF Locked(Here) THEN {} ELSE Content(Here))
    BY <1>3 DEF Restore, Idle
  <2>2. ~Locked(Here) => Content(Here) \subseteq main'[path]
    BY <1>3, <1>t, <2>1, HandleType, CheckpointEffect DEF Restore, Content, Here
  <2> QED BY <2>1, <2>2 DEF CopyInv
<1>4. ASSUME NEW a \in {"backup", "restore"}, NEW b \in {"backup2", "restore2"}, StartCopy(a, b)
      PROVE  CopyInv'
  <2>1. /\ script'.step = b /\ script'.promised = script.promised /\ path' = path
        /\ main' = main /\ copies' = copies /\ script.step = a
    BY <1>4, <1>t DEF StartCopy, Script
  <2> QED BY <2>1 DEF CopyInv
<1>5. CASE FinishBackup
  <2>1. copies' \subseteq copies \cup Copied /\ script'.step = "idle" /\ script.step = "backup2"
    BY <1>5, <1>i DEF FinishBackup
  <2> QED BY <1>c, <2>1 DEF CopyInv
<1>6. CASE KeepSafety
  <2>1. /\ copies' \subseteq copies \cup Copied /\ script'.step = "replace"
        /\ script.step = "restore2"
    BY <1>6, <1>t DEF KeepSafety, Script
  <2> QED BY <1>c, <2>1 DEF CopyInv
<1>7. CASE Replace
  <2>1. copies' = copies /\ script'.step = "reopen"
    BY <1>7, <1>t DEF Replace, Script
  <2> QED BY <2>1 DEF CopyInv
<1>8. CASE Reopen \/ ScriptDies
  <2>1. copies' = copies /\ script'.step = "idle"
    BY <1>8, <1>i DEF Reopen, ScriptDies
  <2> QED BY <2>1 DEF CopyInv
<1> QED BY <1>1, <1>2, <1>3, <1>4, <1>5, <1>6, <1>7, <1>8, <1>t, ProcessFrame,
              ScriptFrame
        DEF Next, Operator, vars

(* A finished backup, and a safety copy made with no writer active, holds  *)
(* what was committed when its script began, whatever any number of        *)
(* processes write, close and leave by dying before and while the file is  *)
(* copied, unless a checkpoint rewrites the file during the copy.          *)
THEOREM CopiesHold == Spec => []CopyHolds
<1>1. Init => CopyInv
  BY DEF Init, CopyInv, Idle
<1>2. CopyInv => CopyHolds
  BY DEF CopyInv, CopyHolds
<1> QED BY <1>1, <1>2, CopyKept, InitTyped, NextTyped, PTL DEF Spec

-----------------------------------------------------------------------------
(* Restores: while nobody has the database open but the restore, its WAL   *)
(* is empty, what it holds goes to the safety copy, and the backup takes   *)
(* its place.                                                              *)
AloneInv ==
    script.alone =>
        /\ \A p \in Procs : ~Connected(p)
        /\ script.step \in {"restore", "restore2", "replace", "reopen"}
        /\ wal[named] = {}
        /\ script.step = "restore2" => ~script.torn
        /\ script.step = "replace" => \E c \in copies : main[path] \subseteq c.items
        /\ script.step = "reopen" => main[path] = script.from.items

LEMMA OnlyOpens ==
    ASSUME Typed, NEW p \in Procs, Process(p), ~Connected(p)
    PROVE  Open(p)
<1>1. pc[p] \notin Opened
  BY DEF Typed
<1> QED BY <1>1 DEF Opened, Process, ReadLedger, Body, RollBack, CommitMigration, BeginWrite,
                    Write, AutoCheckpoint, Close, Crash

LEMMA AloneKept == Typed /\ AloneInv /\ [Next]_vars => AloneInv'
<1> SUFFICES ASSUME Typed, AloneInv, [Next]_vars, script'.alone
             PROVE  AloneInv'
  BY DEF AloneInv
<1>t. TypeOK /\ script \in Script /\ (script.step # "idle" => path \in Files)
  BY HandleType DEF Typed, TypeOK, Handle, Here
<1>i. Idle.alone = FALSE
  BY DEF Idle
<1>1. CASE UNCHANGED vars
  BY <1>1 DEF vars, AloneInv, Connected
<1>2. ASSUME NEW p \in Procs, Process(p) PROVE FALSE
  <2>1. script.alone
    BY <1>2, <1>t, ScriptFrame
  <2>2. ~Connected(p)
    BY <2>1 DEF AloneInv
  <2>3. Open(p)
    BY <1>2, <2>2, OnlyOpens
  <2> QED BY <1>t, <2>3 DEF Open, Script
<1>3. ASSUME NEW c \in copies, Restore(c) PROVE AloneInv'
  <2>1. /\ script'.step = "restore" /\ path # 0 /\ UNCHANGED <<pc, conn>>
        /\ script'.alone = \A q \in Procs : ~Connected(q)
    BY <1>3 DEF Restore, Idle
  <2>2. \A q \in Procs : ~Connected(q)
    BY <2>1
  <2>3. ~Locked(Here)
    BY <2>2 DEF Locked, Typed, Opened
  <2>4. Checkpoint(Here, Procs)
    BY <1>3, <2>3 DEF Restore
  <2>5. wal'[named'] = {}
    BY <1>t, <2>1, <2>4, HandleType, CheckpointEffect
  <2> QED BY <2>1, <2>2, <2>5 DEF AloneInv, Connected
<1>4. CASE StartCopy("restore", "restore2")
  <2>1. /\ script'.step = "restore2" /\ ~script'.torn /\ script'.alone = script.alone
        /\ UNCHANGED <<path, main, wal, named, pc, conn, copies>>
    BY <1>4, <1>t DEF StartCopy, Script
  <2> QED BY <2>1 DEF AloneInv, Connected
<1>5. CASE KeepSafety
  <2>1. /\ script'.step = "replace" /\ script'.alone = script.alone /\ script.step = "restore2"
        /\ \E c \in Copied : copies' = copies \cup {c}
        /\ UNCHANGED <<path, main, wal, named, pc, conn>>
    BY <1>5, <1>t DEF KeepSafety, Script
  <2>2. \A c \in Copied : main[path] \subseteq c.items
    BY <2>1 DEF AloneInv, Copied
  <2> QED BY <2>1, <2>2 DEF AloneInv, Connected
<1>6. CASE Replace
  <2>1. /\ script'.step = "reopen" /\ script'.alone = script.alone
        /\ script'.from = script.from /\ path' = path + 1
        /\ main' = [main EXCEPT ![path + 1] = script.from.items]
        /\ UNCHANGED <<wal, named, pc, conn>>
    BY <1>6, <1>t DEF Replace, Script
  <2>2. path + 1 \in Files
    BY <1>6, <1>t, DatabaseAssumption DEF Replace, Typed, Files
  <2>3. main'[path'] = script.from.items
    BY <1>t, <2>1, <2>2 DEF TypeOK
  <2> QED BY <2>1, <2>3 DEF AloneInv, Connected
<1>7. ASSUME Backup \/ StartCopy("backup", "backup2") \/ FinishBackup \/ Reopen \/ ScriptDies
      PROVE  FALSE
  <2>1. CASE Backup \/ FinishBackup \/ Reopen \/ ScriptDies
    BY <1>i, <2>1 DEF Backup, FinishBackup, Reopen, ScriptDies, Idle
  <2>2. CASE StartCopy("backup", "backup2")
    <3>1. script.alone /\ script.step = "backup"
      BY <1>t, <2>2 DEF StartCopy, Script
    <3> QED BY <3>1 DEF AloneInv
  <2> QED BY <1>7, <2>1, <2>2
<1> QED BY <1>1, <1>2, <1>3, <1>4, <1>5, <1>6, <1>7 DEF Next, Operator

(* A restore that no process crosses keeps what it replaces in a copy, and *)
(* what is read afterwards is exactly the backup.                          *)
THEOREM RestoresReplace == Spec => RestoreReplaces
<1> DEFINE Exact == script.alone =>
        /\ path' # path => \E c \in copies : Content(Here) \subseteq c.items
        /\ script.step = "reopen" /\ script'.step = "idle" =>
             Content(Here)' = script.from.items
<1>1. Init => AloneInv
  BY DEF Init, AloneInv, Idle
<1>2. Typed /\ AloneInv /\ [Next]_vars => Exact
  <2> SUFFICES ASSUME Typed, AloneInv, [Next]_vars, script.alone
               PROVE  /\ path' # path => \E c \in copies : Content(Here) \subseteq c.items
                      /\ script.step = "reopen" /\ script'.step = "idle" =>
                           Content(Here)' = script.from.items
    OBVIOUS
  <2>t. TypeOK /\ script \in Script /\ path # 0 /\ path \in Files
    BY HandleType DEF Typed, TypeOK, AloneInv, Handle, Here
  <2>1. Content(Here) = main[path]
    BY <2>t DEF AloneInv, Content, Here
  <2>2. ASSUME path' # path PROVE \E c \in copies : Content(Here) \subseteq c.items
    <3>1. Replace
      BY <2>t, <2>2, MainGrows
    <3> QED BY <2>1, <3>1 DEF Replace, AloneInv
  <2>3. ASSUME script.step = "reopen", script'.step = "idle"
        PROVE  Content(Here)' = script.from.items
    <3>1. main[path] = script.from.items /\ wal[named] = {}
      BY <2>3 DEF AloneInv
    <3>2. CASE UNCHANGED <<path, main, wal, named>>
      BY <2>1, <3>1, <3>2 DEF Content, Here
    <3>3. CASE Reopen
      <4>1. Checkpoint(Here, Procs) /\ path' = path
        BY <2>t, <3>3 DEF Reopen, CloseFile, Here, AloneInv, Connected
      <4>2. main'[path] = main[path] \cup wal[named] /\ wal'[named'] = {}
        <5>1. Here \in Handle /\ Here.file = path /\ Here.wal = named
          BY <2>t, HandleType DEF Here
        <5> QED BY <2>t, <4>1, <5>1, CheckpointEffect
      <4> QED BY <2>t, <3>1, <4>1, <4>2 DEF Content, Here
    <3>4. ASSUME NEW p \in Procs, Process(p) PROVE FALSE
      <4>1. script'.step = script.step
        BY <2>t, <3>4, ScriptFrame
      <4> QED BY <2>3, <4>1
    <3> QED BY <2>3, <3>2, <3>3, <3>4 DEF Next, Operator, vars, Backup, StartCopy,
                  FinishBackup, Restore, KeepSafety, Replace, ScriptDies
  <2> QED BY <2>2, <2>3
<1>3. Typed /\ AloneInv /\ [Next]_vars => [Exact]_vars
  BY <1>2
<1>4. RestoreReplaces <=> [][Exact]_vars
  BY DEF RestoreReplaces
<1> QED BY <1>1, <1>3, <1>4, AloneKept, InitTyped, NextTyped, PTL DEF Spec

-----------------------------------------------------------------------------
(* The ledger: as long as no torn copy was restored, nor over a            *)
(* connection, every file, WAL and whole copy has the effect of a          *)
(* migration and its line together or neither of them.                     *)
Paired(s) == \A v \in Versions : (Schema(v) \in s <=> Ledger(v) \in s)

PairInv ==
    clean =>
        /\ \A f \in Files : Paired(main[f])
        /\ \A w \in Wals : Paired(wal[w])
        /\ \A c \in copies : ~c.torn => Paired(c.items)
        /\ ~script.from.torn => Paired(script.from.items)

LEMMA PairedSets ==
    /\ Paired({})
    /\ \A s, t : Paired(s) /\ Paired(t) => Paired(s \cup t)
    /\ \A v \in Versions : Paired({Schema(v), Ledger(v)})
    /\ \A n : Paired({Row(n)})
<1>1. Paired({}) /\ \A s, t : Paired(s) /\ Paired(t) => Paired(s \cup t)
  BY DEF Paired
<1>2. \A v, w \in Versions : /\ (Schema(w) = Schema(v) <=> w = v)
                            /\ (Ledger(w) = Ledger(v) <=> w = v)
                            /\ Schema(w) # Ledger(v)
  BY DEF Schema, Ledger
<1>3. \A v \in Versions : Paired({Schema(v), Ledger(v)})
  BY <1>2 DEF Paired
<1>4. \A v, n : Schema(v) # Row(n) /\ Ledger(v) # Row(n)
  BY DEF Schema, Ledger, Row
<1>5. \A n : Paired({Row(n)})
  BY <1>4 DEF Paired
<1> QED BY <1>1, <1>3, <1>5

LEMMA CheckpointPairs ==
    ASSUME TypeOK, NEW c \in Handle, NEW others \in SUBSET Procs, Checkpoint(c, others),
           \A f \in Files : Paired(main[f]), \A w \in Wals : Paired(wal[w])
    PROVE  /\ \A f \in Files : Paired(main'[f])
           /\ \A w \in Wals : Paired(wal'[w])
<1>1. c.file \in Files /\ c.wal \in Wals
  BY DEF Handle
<1>2. Paired(main[c.file] \cup wal[c.wal]) /\ Paired({})
  BY <1>1, PairedSets
<1>3. \A f \in Files : main'[f] = main[f] \/ main'[f] = main[c.file] \cup wal[c.wal]
  BY CheckpointEffect
<1>4. \A w \in Wals : wal'[w] \in {{}, wal[w]}
  BY CheckpointEffect
<1>5. \A f \in Files : Paired(main'[f])
  BY <1>2, <1>3
<1>6. \A w \in Wals : Paired(wal'[w])
  BY <1>2, <1>4
<1> QED BY <1>5, <1>6

LEMMA CleanBefore ==
    ASSUME [Next]_vars, clean'
    PROVE  clean
<1>1. CASE \E p \in Procs : Process(p)
  BY <1>1, ProcessFrame
<1>2. CASE Replace
  BY <1>2 DEF Replace
<1>3. CASE clean' = clean
  BY <1>3
<1>4. Operator /\ ~Replace => clean' = clean
  BY DEF Operator, Backup, StartCopy, FinishBackup, Restore, KeepSafety, Reopen, ScriptDies
<1> QED BY <1>1, <1>2, <1>3, <1>4 DEF Next, vars

LEMMA PairKept == Typed /\ PairInv /\ [Next]_vars => PairInv'
<1> SUFFICES ASSUME Typed, PairInv, [Next]_vars, clean' PROVE PairInv'
  BY DEF PairInv
<1>t. TypeOK /\ script \in Script
  BY DEF Typed, TypeOK
<1>c. clean
  BY CleanBefore
<1>p. /\ \A f \in Files : Paired(main[f])
      /\ \A w \in Wals : Paired(wal[w])
      /\ \A c \in copies : ~c.torn => Paired(c.items)
      /\ ~script.from.torn => Paired(script.from.items)
  BY <1>c DEF PairInv
<1>i. Paired(Idle.from.items)
  BY PairedSets DEF Idle
(* The files: what a process commits comes in pairs, or is a row.          *)
<1>1. ASSUME NEW p \in Procs, Process(p) PROVE PairInv'
  <2>1. copies' = copies /\ script'.from = script.from
    BY <1>1, <1>t, ProcessFrame, ScriptFrame
  <2> SUFFICES /\ \A f \in Files : Paired(main'[f])
               /\ \A w \in Wals : Paired(wal'[w])
    BY <1>p, <2>1 DEF PairInv
  <2>2. CASE UNCHANGED <<main, wal>>
    BY <1>p, <2>2
  <2>h. pc[p] \in Opened => conn[p] \in Handle
    BY <1>t, HandleType DEF Typed
  <2>3. CASE CommitMigration(p)
    <3> DEFINE v == NextVersion(p)
    <3>1. v \in Versions /\ conn[p] \in Handle
      BY <1>t, <2>3, <2>h, NextType DEF CommitMigration, Typed, Opened
    <3>2. Commit(conn[p], {Schema(v), Ledger(v)}) /\ main' = main
      BY <2>3 DEF CommitMigration
    <3> HIDE DEF v
    <3>3. {Schema(v), Ledger(v)} \in SUBSET Item /\ Paired({Schema(v), Ledger(v)})
      BY <3>1, Items, PairedSets
    <3>4. \A w \in Wals : wal'[w] = wal[w] \/ wal'[w] = wal[w] \cup {Schema(v), Ledger(v)}
      BY <1>t, <3>1, <3>2, <3>3, CommitEffect
    <3> QED BY <1>p, <3>2, <3>3, <3>4, PairedSets
  <2>4. CASE Write(p)
    <3>1. conn[p] \in Handle /\ rows + 1 \in 1 .. MaxRows
      BY <1>t, <2>4, <2>h, DatabaseAssumption DEF Write, Opened, TypeOK
    <3>2. Commit(conn[p], {Row(rows + 1)}) /\ main' = main
      BY <2>4 DEF Write
    <3>3. {Row(rows + 1)} \in SUBSET Item /\ Paired({Row(rows + 1)})
      BY <3>1, Items, PairedSets
    <3>4. \A w \in Wals : wal'[w] = wal[w] \/ wal'[w] = wal[w] \cup {Row(rows + 1)}
      BY <1>t, <3>1, <3>2, <3>3, CommitEffect
    <3> QED BY <1>p, <3>2, <3>3, <3>4, PairedSets
  <2>5. CASE AutoCheckpoint(p)
    <3>1. conn[p].file \in Files /\ conn[p].wal \in Wals
      BY <2>5, <2>h DEF AutoCheckpoint, Opened, Handle
    <3>2. Paired(main[conn[p].file] \cup wal[conn[p].wal]) /\ Paired({})
      BY <1>p, <3>1, PairedSets
    <3>3. /\ \A f \in Files : \/ main'[f] = main[f]
                              \/ main'[f] = main[conn[p].file] \cup wal[conn[p].wal]
          /\ \A w \in Wals : wal'[w] \in {{}, wal[w]}
      BY <1>t, <2>5, <3>1 DEF AutoCheckpoint, TypeOK
    <3> QED BY <1>p, <3>2, <3>3
  <2>6. CASE Close(p)
    <3>1. conn[p] \in Handle
      BY <2>6, <2>h DEF Close, Opened
    <3> QED BY <1>t, <1>p, <2>2, <2>6, <3>1, CheckpointPairs DEF Close, CloseFile
  <2> QED BY <1>1, <2>2, <2>3, <2>4, <2>5, <2>6 DEF Process, Open, ReadLedger, Body,
                RollBack, BeginWrite, Crash
(* The scripts: a copy that is not torn is the file it was made from.      *)
<1>2. CASE Operator
  <2>1. ASSUME script.step \in {"backup2", "restore2"}, NEW c \in Copied, ~c.torn
        PROVE  Paired(c.items)
    <3>1. path \in Files /\ c.items = main[path]
      BY <2>1, HandleType DEF Typed, Handle, Here, Copied
    <3> QED BY <1>p, <3>1
  <2>2. \A c \in copies' : ~c.torn => Paired(c.items)
    BY <1>p, <1>2, <2>1 DEF Operator, Backup, StartCopy, FinishBackup, Restore, KeepSafety,
                            Replace, Reopen, ScriptDies
  <2>3. \/ script'.from = script.from \/ script'.from = Idle.from
        \/ script'.from \in copies
    BY <1>2, <1>t DEF Operator, Backup, StartCopy, FinishBackup, Restore, KeepSafety,
                      Replace, Reopen, ScriptDies, Script, Idle
  <2>4. ~script'.from.torn => Paired(script'.from.items)
    BY <1>p, <1>i, <2>3
  <2> SUFFICES /\ \A f \in Files : Paired(main'[f])
               /\ \A w \in Wals : Paired(wal'[w])
    BY <2>2, <2>4 DEF PairInv
  <2>5. CASE UNCHANGED <<main, wal>>
    BY <1>p, <2>5
  <2>6. CASE path # 0 /\ Checkpoint(Here, Procs)
    BY <1>t, <1>p, <2>6, HandleType, CheckpointPairs
  <2>7. CASE Replace
    <3>t. ~script.from.torn
      BY <2>7, Zenon DEF Replace
    <3>1. path + 1 \in Files /\ wal' = wal
      <4>1. path \in 0 .. MaxFiles /\ path < MaxFiles
        BY <1>t, <2>7 DEF Replace, Typed, TypeOK
      <4> QED BY <4>1, <2>7, DatabaseAssumption DEF Replace, Files
    <3>2. \A f \in Files : main'[f] = main[f] \/ main'[f] = script.from.items
      BY <1>t, <2>7, <3>1 DEF Replace, TypeOK
    <3> QED BY <1>p, <3>t, <3>1, <3>2
  <2>8. Backup \/ Reopen \/ (\E c \in copies : Restore(c)) =>
            path # 0 /\ (Checkpoint(Here, Procs) \/ UNCHANGED <<main, wal>>)
    BY DEF Backup, Reopen, Restore, CloseFile, Typed
  <2> QED BY <1>2, <2>5, <2>6, <2>7, <2>8 DEF Operator, StartCopy, FinishBackup, KeepSafety,
                ScriptDies
<1>3. CASE UNCHANGED vars
  BY <1>3, <1>p DEF vars, PairInv
<1> QED BY <1>1, <1>2, <1>3 DEF Next

(* A migration has taken effect exactly when the ledger says so, however   *)
(* many processes boot at once and wherever they die.                      *)
THEOREM LedgerIsHonest == Spec => []LedgerHonest
<1>1. Init => PairInv
  BY PairedSets DEF Init, PairInv, Idle
<1>2. Typed /\ PairInv => LedgerHonest
  <2> SUFFICES ASSUME Typed, PairInv, clean PROVE Paired(Content(Here))
    BY DEF LedgerHonest, Paired
  <2>1. CASE path = 0
    BY <2>1, PairedSets DEF Content, Here
  <2>2. CASE path # 0
    <3>1. path \in Files /\ named \in Wals
      BY <2>2, HandleType DEF Typed, Handle, Here
    <3> QED BY <2>2, <3>1, PairedSets DEF PairInv, Content, Here
  <2> QED BY <2>1, <2>2
<1> QED BY <1>1, <1>2, PairKept, InitTyped, NextTyped, PTL DEF Spec

-----------------------------------------------------------------------------
(* Processes: as long as no restore crossed a connection, everybody has    *)
(* the file and the WAL at the path, and of the migrations a process does  *)
(* not have to run both halves are there.                                  *)
HereInv == clean => \A p \in Procs : Connected(p) => conn[p] = Here

Migrated(p) ==
    /\ pc[p] \in {"begin", "commit", "up", "write"} =>
         \A v \in Versions \ todo[p] : {Schema(v), Ledger(v)} \subseteq Content(conn[p])
    /\ pc[p] \in {"up", "write"} => todo[p] = {}

UpInv == HereInv /\ (clean => \A p \in Procs : Migrated(p))

(* A checkpoint moves what a connection reads, and takes nothing from it.  *)
LEMMA CheckpointKeeps ==
    ASSUME Typed, HereInv, clean, NEW others \in SUBSET Procs, NEW q \in others,
           Connected(q), Checkpoint(Here, others), path' = path
    PROVE  Here' = Here /\ conn[q] = Here /\ Content(Here) \subseteq main'[path]
<1>1. conn[q] = Here /\ conn[q].file = path /\ path # 0
  BY DEF HereInv, Here, Connected
<1>2. Unlinked(others) = named
  BY <1>1 DEF Unlinked
<1>3. TypeOK /\ Here \in Handle
  BY <1>1, HandleType DEF Typed
<1>4. named' = named /\ main'[path] = main[path] \cup wal[named]
  BY <1>2, <1>3, CheckpointEffect DEF Here
<1> QED BY <1>1, <1>4 DEF Here, Content

(* As long as the database is clean, no step moves or empties what a       *)
(* process that stays reads.                                               *)
LEMMA ReadsKept ==
    ASSUME Typed, HereInv, AloneInv, [Next]_vars, clean',
           NEW q \in Procs, Connected(q), Connected(q)'
    PROVE  /\ conn'[q] = conn[q] /\ conn[q] = Here /\ Here' = Here
           /\ Content(Here) \subseteq Content(Here)'
<1>t. TypeOK
  BY DEF Typed
<1>c. clean
  BY CleanBefore
<1>h. conn[q] = Here /\ conn[q] \in Handle /\ path # 0
  BY <1>c, <1>t, HandleType DEF HereInv, Connected, Here
<1>f. path \in Files /\ named \in Wals /\ Here.file = path /\ Here.wal = named
  BY <1>h DEF Handle, Here
<1>1. CASE UNCHANGED <<path, main, wal, named, conn>>
  BY <1>1, <1>h DEF Here, Content
<1>2. ASSUME NEW p \in Procs, Process(p)
      PROVE  /\ conn'[q] = conn[q] /\ Here' = Here
             /\ Content(Here) \subseteq Content(Here)'
  <2>1. pc[p] \in Opened => conn[p] = Here
    BY <1>c DEF HereInv, Typed
  <2>2. CASE UNCHANGED <<path, main, wal, named, conn>>
    BY <2>2 DEF Here, Content
  <2>3. CASE Open(p)
    <3>1. q # p
      BY <2>3 DEF Open, Typed, Opened
    <3> QED BY <1>h, <1>t, <2>3, <3>1 DEF Open, Here, Content, TypeOK
  <2>4. CASE CommitMigration(p) \/ Write(p)
    <3>1. PICK items \in SUBSET Item : Commit(Here, items)
      <4>1. CASE CommitMigration(p)
        <5>1. NextVersion(p) \in Versions /\ conn[p] = Here
          BY <1>t, <2>1, <4>1, NextType DEF CommitMigration, Typed, Opened
        <5>2. {Schema(NextVersion(p)), Ledger(NextVersion(p))} \in SUBSET Item
          BY <5>1, Items
        <5> QED BY <4>1, <5>1, <5>2 DEF CommitMigration
      <4>2. CASE Write(p)
        <5>1. rows + 1 \in 1 .. MaxRows /\ conn[p] = Here
          BY <1>t, <2>1, <4>2, DatabaseAssumption DEF Write, Opened, TypeOK
        <5>2. {Row(rows + 1)} \in SUBSET Item
          BY <5>1, Items
        <5> QED BY <4>2, <5>1, <5>2 DEF Write
      <4> QED BY <2>4, <4>1, <4>2
    <3>2. wal'[named] = wal[named] \cup items
      BY <1>t, <1>h, <1>f, <3>1, CommitEffect
    <3>3. UNCHANGED <<path, main, named, conn>>
      BY <2>4 DEF CommitMigration, Write
    <3> QED BY <3>2, <3>3 DEF Here, Content
  <2>5. CASE AutoCheckpoint(p)
    <3>1. conn[p] = Here
      BY <2>1, <2>5 DEF AutoCheckpoint, Opened
    <3>2. /\ main'[path] = main[path] \cup wal[named]
          /\ UNCHANGED <<path, named, conn>>
      BY <1>t, <1>f, <2>5, <3>1 DEF AutoCheckpoint, TypeOK
    <3> QED BY <1>h, <3>2 DEF Here, Content
  <2>6. CASE Close(p)
    <3>1. q # p
      BY <1>t, <2>6, GoneEffect DEF Close, Connected
    <3>2. conn'[q] = conn[q]
      BY <1>t, <2>6, <3>1, GoneEffect DEF Close
    <3>3. UNCHANGED <<path, main, wal, named>>
      BY <1>h, <1>f, <2>6, <3>1 DEF Close, CloseFile
    <3> QED BY <3>2, <3>3 DEF Here, Content
  <2>7. CASE Crash(p)
    <3>1. q # p
      BY <1>t, <2>7, GoneEffect DEF Crash, Connected
    <3>2. conn'[q] = conn[q]
      BY <1>t, <2>7, <3>1, GoneEffect DEF Crash
    <3> QED BY <2>7, <3>2 DEF Crash, Here, Content
  <2> QED BY <1>2, <2>2, <2>3, <2>4, <2>5, <2>6, <2>7
          DEF Process, ReadLedger, Body, RollBack, BeginWrite
<1>3. CASE Operator
  <2>1. ~Replace
    <3>1. Replace => script.alone
      BY Zenon DEF Replace
    <3> QED BY <3>1 DEF AloneInv
  <2>2. path' = path /\ conn' = conn
    BY <1>3, <2>1 DEF Operator, Backup, StartCopy, FinishBackup, Restore, KeepSafety, Reopen,
                      ScriptDies
  <2>3. CASE Checkpoint(Here, Procs)
    BY <1>c, <1>h, <2>2, <2>3, CheckpointKeeps DEF Here, Content
  <2>4. CASE UNCHANGED <<main, wal, named>>
    BY <1>1, <2>2, <2>4
  <2> QED BY <1>3, <1>h, <2>1, <2>2, <2>3, <2>4
          DEF Operator, Backup, StartCopy, FinishBackup, Restore, KeepSafety, Reopen,
              ScriptDies, CloseFile
<1> QED BY <1>1, <1>2, <1>3, <1>h DEF Next, vars

LEMMA UpKept ==
    Typed /\ PairInv /\ AloneInv /\ UpInv /\ [Next]_vars => UpInv'
<1> SUFFICES ASSUME Typed, PairInv, AloneInv, UpInv, [Next]_vars, clean'
             PROVE  UpInv'
  BY DEF UpInv, HereInv
<1>t. TypeOK /\ Typed'
  BY NextTyped DEF Typed
<1>c. clean /\ HereInv /\ \A q \in Procs : Migrated(q)
  BY CleanBefore DEF UpInv
(* A process that was not connected has just opened the database.          *)
<1>o. ASSUME NEW q \in Procs, Connected(q)', ~Connected(q) PROVE Open(q)
  <2>1. PICK p \in Procs : Process(p)
    <3>1. ~ UNCHANGED conn
      BY <1>o DEF Connected
    <3>2. Operator => UNCHANGED conn
      BY DEF Operator, Backup, StartCopy, FinishBackup, Restore, KeepSafety, Replace, Reopen,
             ScriptDies
    <3> QED BY <3>1, <3>2 DEF Next, vars
  <2>2. conn' = conn \/ Open(p) \/ Gone(p)
    BY <2>1 DEF Process, ReadLedger, Body, RollBack, CommitMigration, BeginWrite, Write,
                AutoCheckpoint, Close, Crash
  <2>3. CASE q = p
    BY <1>o, <2>1, <2>3, OnlyOpens
  <2>4. CASE q # p
    <3>1. conn'[q] = conn[q]
      BY <1>t, <2>2, <2>4, GoneEffect DEF Open, TypeOK
    <3> QED BY <1>o, <3>1 DEF Connected
  <2> QED BY <2>3, <2>4
<1>1. HereInv'
  <2> SUFFICES ASSUME NEW q \in Procs, Connected(q)' PROVE conn'[q] = Here'
    BY DEF HereInv
  <2>1. CASE Connected(q)
    BY <1>c, <2>1, ReadsKept
  <2>2. CASE Open(q)
    BY <1>t, <2>2 DEF Open, Here, TypeOK
  <2> QED BY <1>o, <2>1, <2>2
<1>2. ASSUME NEW q \in Procs, Connected(q), Connected(q)' PROVE Migrated(q)'
  <2>1. /\ conn'[q] = conn[q] /\ conn[q] = Here
        /\ Content(conn[q]) \subseteq Content(conn[q])'
    BY <1>2, <1>c, ReadsKept
  <2>m. Migrated(q)
    BY <1>c
  <2>2. CASE pc'[q] = pc[q] /\ todo'[q] = todo[q]
    BY <2>1, <2>2, <2>m DEF Migrated
  <2>3. CASE ReadLedger(q)
    <3>1. todo'[q] = Pending(Content(conn[q])) /\ pc'[q] = (IF todo'[q] = {} THEN "up" ELSE "begin")
      BY <1>t, <2>3 DEF ReadLedger, TypeOK
    <3>2. path \in Files /\ named \in Wals
      BY <1>2, <1>t, <2>1, HandleType DEF Handle, Here
    <3>3. Paired(Content(conn[q]))
      BY <1>c, <1>2, <2>1, <3>2, PairedSets DEF PairInv, Content, Here
    <3>4. \A v \in Versions \ todo'[q] : {Schema(v), Ledger(v)} \subseteq Content(conn[q])
      BY <3>1, <3>3 DEF Pending, Paired
    <3> QED BY <2>1, <3>1, <3>4 DEF Migrated
  <2>4. CASE Body(q)
    <3>1. pc[q] = "begin" /\ pc'[q] = "commit" /\ todo'[q] = todo[q]
      BY <1>t, <2>4 DEF Body, TypeOK
    <3> QED BY <2>1, <2>m, <3>1 DEF Migrated
  <2>5. CASE CommitMigration(q)
    <3> DEFINE v == NextVersion(q)
    <3>1. /\ todo'[q] = todo[q] \ {v} /\ pc'[q] = (IF todo'[q] = {} THEN "up" ELSE "begin")
          /\ pc[q] = "commit" /\ Commit(conn[q], {Schema(v), Ledger(v)})
      BY <1>t, <2>5 DEF CommitMigration, TypeOK
    <3>2. v \in Versions
      BY <1>t, <3>1, NextType DEF Typed
    <3> HIDE DEF v
    <3>3. {Schema(v), Ledger(v)} \in SUBSET Item /\ conn[q] \in Handle
      BY <1>2, <1>t, <3>2, Items, HandleType
    <3>4. wal'[conn[q].wal] = wal[conn[q].wal] \cup {Schema(v), Ledger(v)}
      BY <1>t, <3>1, <3>3, CommitEffect
    <3>5. {Schema(v), Ledger(v)} \subseteq Content(conn[q])'
      BY <1>2, <2>1, <3>4 DEF Content, Connected
    <3>6. \A w \in Versions \ todo[q] : {Schema(w), Ledger(w)} \subseteq Content(conn[q])'
      BY <2>1, <2>m, <3>1 DEF Migrated
    <3>7. \A w \in Versions \ todo'[q] : {Schema(w), Ledger(w)} \subseteq Content(conn[q])'
      BY <3>1, <3>5, <3>6
    <3> QED BY <3>1, <3>7 DEF Migrated
  <2>6. CASE RollBack(q)
    BY <1>t, <2>6 DEF RollBack, TypeOK, Migrated
  <2>7. CASE BeginWrite(q) \/ Write(q)
    <3>1. /\ pc[q] \in {"up", "write"} /\ pc'[q] \in {"up", "write"}
          /\ todo'[q] = todo[q]
      BY <1>t, <2>7 DEF BeginWrite, Write, TypeOK
    <3> QED BY <2>1, <2>m, <3>1 DEF Migrated
  <2>8. CASE AutoCheckpoint(q)
    BY <2>2, <2>8 DEF AutoCheckpoint
  <2>9. ASSUME NEW p \in Procs, Process(p), p # q PROVE Migrated(q)'
    <3>1. pc'[q] = pc[q] /\ todo'[q] = todo[q]
      BY <1>t, <2>9, GoneEffect DEF Process, Open, ReadLedger, Body, RollBack,
              CommitMigration, BeginWrite, Write, AutoCheckpoint, Close, Crash, TypeOK
    <3> QED BY <2>2, <3>1
  <2>10. CASE Operator \/ UNCHANGED vars
    <3>1. pc' = pc /\ todo' = todo
      BY <2>10 DEF Operator, Backup, StartCopy, FinishBackup, Restore, KeepSafety, Replace,
               Reopen, ScriptDies, vars
    <3> QED BY <2>2, <3>1
  <2>11. ~Open(q)
    BY <1>2 DEF Open, Typed, Opened
  <2>12. ~Close(q) /\ ~Crash(q)
    <3>1. ~Gone(q)
      BY <1>2, <1>t, GoneEffect DEF Connected
    <3> QED BY <3>1 DEF Close, Crash
  <2> QED BY <2>3, <2>4, <2>5, <2>6, <2>7, <2>8, <2>9, <2>10, <2>11, <2>12 DEF Next, Process
<1>3. ASSUME NEW q \in Procs, ~(Connected(q) /\ Connected(q)') PROVE Migrated(q)'
  <2>1. pc'[q] \notin {"begin", "commit", "up", "write"}
    <3>1. CASE ~Connected(q)'
      BY <1>t, <3>1 DEF Typed, Opened
    <3>2. CASE Open(q)
      BY <1>t, <3>2 DEF Open, TypeOK
    <3> QED BY <1>3, <1>o, <3>1, <3>2
  <2> QED BY <2>1 DEF Migrated
<1> QED BY <1>1, <1>2, <1>3 DEF UpInv

(* A process that was let up has every migration in its database, though   *)
(* it read the ledger before others migrated.                              *)
THEOREM UpMigrated == Spec => []UpIsMigrated
<1>1. Init => PairInv /\ AloneInv /\ UpInv
  <2> SUFFICES ASSUME Init PROVE PairInv /\ AloneInv /\ UpInv
    OBVIOUS
  <2>1. PairInv /\ AloneInv
    BY PairedSets DEF Init, PairInv, AloneInv, Idle
  <2>2. \A p \in Procs : pc[p] = "down" /\ ~Connected(p)
    BY DEF Init, Connected, Closed
  <2> QED BY <2>1, <2>2 DEF UpInv, HereInv, Migrated
<1>2. UpInv => UpIsMigrated
  BY DEF UpInv, Migrated, UpIsMigrated
<1> QED BY <1>1, <1>2, PairKept, AloneKept, UpKept, InitTyped, NextTyped, PTL DEF Spec

=============================================================================
