----------------------------- MODULE VaultProofs -----------------------------
(***************************************************************************)
(* Theorems about CredentialVault for any processes, providers, secrets    *)
(* and master keys, whatever interleaves and whoever dies.                 *)
(***************************************************************************)
EXTENDS VaultSafety, TLAPS

-----------------------------------------------------------------------------
(* Types: a process that is at a step holds in memory what the step needs. *)
Fit(x) ==
    /\ x.pc # "down" =>
        /\ x.prov \in Providers
        /\ x.cmd \in Commands
        /\ x.cmd = "set" => x.val \in Secrets
    /\ x.pc \in {"read", "write", "rename"} => x.key \in MasterKeys
    /\ x.pc \in {"write", "rename"} => x.snap \in Version
    /\ x.pc = "rename" => x.tmp \in Version

Typed == TypeOK /\ \A p \in Procs : Fit(proc[p])

LEMMA IdleType == Idle \in Process /\ Fit(Idle)
  BY DEF Idle, Process, Pc, Fit

LEMMA InitTyped == Init => Typed
<1> SUFFICES ASSUME Init PROVE Typed
  OBVIOUS
<1>1. proc \in [Procs -> Process] /\ \A p \in Procs : Fit(proc[p])
  BY IdleType DEF Init
<1> QED BY <1>1 DEF Init, Typed, TypeOK

LEMMA LoadedType == TypeOK => Loaded \in Version
  BY DEF TypeOK, Loaded, Version

(* A process that takes a step keeps the processes well typed.             *)
LEMMA ProcType ==
    ASSUME Typed, NEW p \in Procs, NEW x \in Process, Fit(x),
           proc' = [proc EXCEPT ![p] = x]
    PROVE  proc' \in [Procs -> Process] /\ \A q \in Procs : Fit(proc'[q])
  BY DEF Typed, TypeOK

LEMMA StopType ==
    ASSUME Typed, NEW p \in Procs, Stop(p)
    PROVE  proc' \in [Procs -> Process] /\ \A q \in Procs : Fit(proc'[q])
  BY IdleType, ProcType DEF Stop

(* Moving on needs nothing but what the next step asks for.                *)
LEMMA GotoType ==
    ASSUME Typed, NEW p \in Procs, NEW pc \in Pc, Goto(p, pc),
           Fit([proc[p] EXCEPT !.pc = pc])
    PROVE  proc' \in [Procs -> Process] /\ \A q \in Procs : Fit(proc'[q])
<1> DEFINE x == [proc[p] EXCEPT !.pc = pc]
<1>1. x \in Process
  BY DEF Typed, TypeOK, Process
<1>2. proc' = [proc EXCEPT ![p] = x]
  BY DEF Goto, Typed, TypeOK
<1> QED BY <1>1, <1>2, ProcType

LEMMA EditedType ==
    ASSUME Typed, NEW p \in Procs, At(p, "write")
    PROVE  Edited(p) \in Version
<1>1. /\ proc[p].snap \in Version
      /\ proc[p].key \in MasterKeys
      /\ proc[p].cmd = "set" => proc[p].val \in Secrets
  BY DEF Typed, Fit, At
<1>2. proc[p].cmd = "set" => [key |-> proc[p].key, val |-> proc[p].val] \in Entry
  BY <1>1 DEF Entry
<1> QED BY <1>1, <1>2 DEF Edited, Version

LEMMA NextTyped == Typed /\ [Next]_vars => Typed'
<1> SUFFICES ASSUME Typed, [Next]_vars PROVE Typed'
  OBVIOUS
<1> DEFINE ProcsTyped == proc \in [Procs -> Process] /\ \A q \in Procs : Fit(proc[q])
<1>0. CASE UNCHANGED vars
  BY <1>0 DEF Typed, TypeOK, vars
<1> SUFFICES ASSUME NEW p \in Procs, Step(p) PROVE Typed'
  BY <1>0 DEF Next
<1>1. ASSUME NEW v \in Providers, NEW cmd \in Commands,
             NEW val \in Secrets \cup {None}, Start(p, cmd, v, val)
      PROVE  Typed'
  <2> DEFINE x == [Idle EXCEPT !.pc = "detect", !.cmd = cmd, !.prov = v, !.val = val]
  <2>1. x \in Process /\ Fit(x)
    BY <1>1 DEF Idle, Process, Pc, Fit, Start, Commands
  <2>2. ProcsTyped'
    BY <1>1, <2>1, ProcType DEF Start
  <2> QED BY <1>1, <2>2 DEF Start, Typed, TypeOK
<1>2. ASSUME NEW v \in Providers, RemoveProvider(p, v) PROVE Typed'
  BY <1>2 DEF RemoveProvider, Typed, TypeOK
<1>3. ASSUME NEW b \in Backends, Detect(p, b) PROVE Typed'
  <2> DEFINE x == [proc[p] EXCEPT !.backend = b,
                     !.pc = IF b = "linux-secret-tool" THEN "keyring" ELSE "key"]
  <2>1. proc' = [proc EXCEPT ![p] = x] /\ x \in Process /\ Fit(x)
    BY <1>3 DEF Detect, At, Typed, TypeOK, Process, Pc, Fit
  <2>2. ProcsTyped' /\ Serves(p) \in Providers
    BY <1>3, <2>1, ProcType DEF Detect, Typed, Fit, At, Serves
  <2> QED BY <1>3, <2>2 DEF Detect, Typed, TypeOK
<1>4. ASSUME NEW ok \in BOOLEAN, KeyringStore(p, ok) PROVE Typed'
  <2>1. Serves(p) \in Providers /\ proc[p].val \in Secrets
    BY <1>4 DEF KeyringStore, Typed, Fit, At, Serves
  <2>2. ProcsTyped'
    BY <1>4, GotoType, StopType DEF KeyringStore, Typed, TypeOK, Process, Pc, Fit, At
  <2> QED BY <1>4, <2>1, <2>2 DEF KeyringStore, RunTool, Typed, TypeOK
<1>5. ASSUME NEW ok \in BOOLEAN, KeyringClear(p, ok) PROVE Typed'
  <2>1. Serves(p) \in Providers /\ proc[p].val \in Secrets \cup {None}
    BY <1>5 DEF KeyringClear, Typed, TypeOK, Process, Fit, At, Serves
  <2>2. ProcsTyped'
    BY <1>5, GotoType DEF KeyringClear, Typed, TypeOK, Process, Pc, Fit, At
  <2> QED BY <1>5, <2>1, <2>2 DEF KeyringClear, RunTool, Typed, TypeOK
<1>6. CASE LoadKey(p)
  <2>1. CASE keyFile \in MasterKeys
    <3> DEFINE x == [proc[p] EXCEPT !.key = keyFile, !.pc = "read"]
    <3>1. proc' = [proc EXCEPT ![p] = x] /\ x \in Process /\ Fit(x)
      BY <1>6, <2>1, VaultAssumption DEF LoadKey, At, Typed, TypeOK, Process, Pc, Fit
    <3>2. ProcsTyped'
      BY <3>1, ProcType
    <3> QED BY <1>6, <3>2 DEF LoadKey, Typed, TypeOK
  <2>2. CASE keyFile = None
    <3>1. ProcsTyped'
      BY <1>6, <2>2, VaultAssumption, GotoType
         DEF LoadKey, Typed, TypeOK, Process, Pc, Fit, At
    <3> QED BY <1>6, <3>1 DEF LoadKey, Typed, TypeOK
  <2>3. CASE keyFile = Empty
    <3>1. ProcsTyped'
      BY <1>6, <2>3, VaultAssumption, StopType DEF LoadKey
    <3> QED BY <1>6, <3>1 DEF LoadKey, Typed, TypeOK
  <2> QED BY <2>1, <2>2, <2>3 DEF Typed, TypeOK
<1>7. CASE CheckVault(p)
  <2>1. ProcsTyped'
    BY <1>7, GotoType, StopType DEF CheckVault, Typed, TypeOK, Process, Pc, Fit, At
  <2> QED BY <1>7, <2>1 DEF CheckVault, Typed, TypeOK
<1>8. CASE CreateKey(p)
  <2>1. ProcsTyped'
    BY <1>8, GotoType, StopType DEF CreateKey, Typed, TypeOK, Process, Pc, Fit, At
  <2> QED BY <1>8, <2>1 DEF CreateKey, Typed, TypeOK
<1>9. CASE FillKey(p)
  <2> PICK k \in MasterKeys :
           keyFile' = k /\ proc' = [proc EXCEPT ![p].key = k, ![p].pc = "read"]
    BY <1>9 DEF FillKey
  <2> DEFINE x == [proc[p] EXCEPT !.key = k, !.pc = "read"]
  <2>1. proc' = [proc EXCEPT ![p] = x] /\ x \in Process /\ Fit(x)
    BY <1>9 DEF FillKey, At, Typed, TypeOK, Process, Pc, Fit
  <2>2. ProcsTyped'
    BY <2>1, ProcType
  <2> QED BY <1>9, <2>2 DEF FillKey, Typed, TypeOK
<1>10. CASE ReadAll(p)
  <2> DEFINE x == [proc[p] EXCEPT !.snap = Loaded, !.pc = "write"]
  <2>1. proc' = [proc EXCEPT ![p] = x] /\ x \in Process /\ Fit(x)
    BY <1>10, LoadedType DEF ReadAll, At, Typed, TypeOK, Process, Pc, Fit
  <2>2. ProcsTyped'
    BY <2>1, ProcType
  <2> QED BY <1>10, <2>2 DEF ReadAll, Typed, TypeOK
<1>11. CASE WriteTmp(p)
  <2> DEFINE x == [proc[p] EXCEPT !.tmp = Edited(p), !.pc = "rename"]
  <2>1. proc' = [proc EXCEPT ![p] = x] /\ x \in Process /\ Fit(x)
    BY <1>11, EditedType DEF WriteTmp, At, Typed, TypeOK, Process, Pc, Fit
  <2>2. ProcsTyped'
    BY <2>1, ProcType
  <2> QED BY <1>11, <2>2 DEF WriteTmp, Typed, TypeOK
<1>12. CASE RenameTmp(p)
  <2>1. ProcsTyped' /\ proc[p].tmp \in Version
    BY <1>12, GotoType DEF RenameTmp, Typed, TypeOK, Process, Pc, Fit, At
  <2> QED BY <1>12, <2>1 DEF RenameTmp, Typed, TypeOK
<1>13. CASE SetRow(p)
  <2>1. ProcsTyped' /\ proc[p].val \in Secrets
    BY <1>13, StopType DEF SetRow, Typed, Fit, At
  <2> QED BY <1>13, <2>1 DEF SetRow, Typed, TypeOK
<1>14. CASE RemoveRow(p)
  <2>1. ProcsTyped'
    BY <1>14, StopType DEF RemoveRow
  <2> QED BY <1>14, <2>1 DEF RemoveRow, Typed, TypeOK
<1>15. CASE Crash(p)
  <2>1. ProcsTyped' /\ Serves(p) \in Providers
    BY <1>15, StopType DEF Crash, Typed, Fit, At, Serves
  <2> QED BY <1>15, <2>1 DEF Crash, Typed, TypeOK
<1> QED
  BY <1>1, <1>2, <1>3, <1>4, <1>5, <1>6, <1>7, <1>8, <1>9, <1>10, <1>11, <1>12,
     <1>13, <1>14, <1>15 DEF Step, Commands

(* Every reachable state is well typed.                                    *)
THEOREM TypeCorrect == Spec => []TypeOK
<1>1. Typed => TypeOK
  BY DEF Typed
<1> QED BY <1>1, InitTyped, NextTyped, PTL DEF Spec

-----------------------------------------------------------------------------
(* The key on disk opens every entry.  Every version of the vault on its   *)
(* way to the disk must open with it too, and only one process is ever     *)
(* about to fill the key file, while nothing depends on it yet.            *)
Opens(version) ==
    \A v \in Providers : version[v] # None => version[v].key = keyFile

KeyInv ==
    /\ VaultOpens
    /\ \A p \in Procs :
        /\ proc[p].pc \in {"write", "rename"} => Opens(proc[p].snap)
        /\ proc[p].pc = "rename" => Opens(proc[p].tmp)
        /\ proc[p].pc = "fill" => keyFile = Empty
    /\ \A p, q \in Procs : proc[p].pc = "fill" /\ proc[q].pc = "fill" => p = q

(* Before the key file is filled nothing was written under a key.          *)
LEMMA NothingKeyed ==
    ASSUME Typed, KeyInv, keyFile \in {None, Empty}
    PROVE  /\ vault # None => \A v \in Providers : vault[v] = None
           /\ \A p \in Procs :
                /\ proc[p].key = None
                /\ proc[p].pc \notin {"read", "write", "rename"}
<1>1. keyFile \notin MasterKeys
  BY VaultAssumption
<1>2. ASSUME NEW version \in Version, Opens(version)
      PROVE  \A v \in Providers : version[v] = None
  BY <1>1, <1>2 DEF Opens, Version, Entry
<1>3. vault # None => \A v \in Providers : vault[v] = None
  BY <1>2 DEF KeyInv, VaultOpens, Opens, Typed, TypeOK
<1>4. \A p \in Procs : proc[p].key = None
  BY <1>1 DEF KeyInv, VaultOpens, Typed, TypeOK, Process
<1>5. \A p \in Procs : proc[p].pc \notin {"read", "write", "rename"}
  BY <1>4, VaultAssumption DEF Typed, Fit
<1> QED BY <1>3, <1>4, <1>5

(* What a process writes opens with its key.                               *)
LEMMA EditedOpens ==
    ASSUME Typed, KeyInv, NEW p \in Procs, At(p, "write")
    PROVE  Opens(Edited(p))
<1>1. proc[p].snap \in Version /\ Opens(proc[p].snap)
  BY DEF Typed, Fit, KeyInv, At
<1>2. proc[p].key = keyFile
  BY VaultAssumption DEF Typed, Fit, KeyInv, VaultOpens, At
<1> QED BY <1>1, <1>2 DEF Edited, Opens, Version

LEMMA LoadedOpens == KeyInv => Opens(Loaded)
  BY DEF KeyInv, VaultOpens, Opens, Loaded

(* A step that leaves the two files alone, and takes a process to a step   *)
(* that is not about its key or its version, preserves the invariant.      *)
LEMMA QuietKey ==
    ASSUME Typed, KeyInv, NEW p \in Procs, NEW x \in Process,
           proc' = [proc EXCEPT ![p] = x], UNCHANGED <<keyFile, vault>>,
           x.key \in {None, keyFile}, x.pc # "fill",
           x.pc \in {"write", "rename"} => Opens(x.snap),
           x.pc = "rename" => Opens(x.tmp)
    PROVE  KeyInv'
  BY DEF KeyInv, VaultOpens, Opens, Typed, TypeOK

LEMMA StopKey ==
    ASSUME Typed, KeyInv, NEW p \in Procs, Stop(p), UNCHANGED <<keyFile, vault>>
    PROVE  KeyInv'
<1>1. Idle.key = None /\ Idle.pc = "down"
  BY DEF Idle
<1> QED BY <1>1, IdleType, QuietKey DEF Stop

LEMMA GotoKey ==
    ASSUME Typed, KeyInv, NEW p \in Procs, NEW pc \in Pc \ {"fill", "write", "rename"},
           Goto(p, pc), UNCHANGED <<keyFile, vault>>
    PROVE  KeyInv'
<1> DEFINE x == [proc[p] EXCEPT !.pc = pc]
<1>1. /\ x \in Process /\ x.key = proc[p].key /\ x.pc = pc
      /\ proc' = [proc EXCEPT ![p] = x]
  BY DEF Goto, Typed, TypeOK, Process
<1>2. x.key \in {None, keyFile}
  BY <1>1 DEF KeyInv, VaultOpens
<1> HIDE DEF x
<1> QED BY <1>1, <1>2, QuietKey

LEMMA NextKey == Typed /\ KeyInv /\ [Next]_vars => KeyInv'
<1> SUFFICES ASSUME Typed, KeyInv, [Next]_vars PROVE KeyInv'
  OBVIOUS
<1>0. CASE UNCHANGED vars
  BY <1>0 DEF KeyInv, VaultOpens, Opens, vars
<1> SUFFICES ASSUME NEW p \in Procs, Step(p) PROVE KeyInv'
  BY <1>0 DEF Next
<1>1. ASSUME NEW v \in Providers, NEW cmd \in Commands,
             NEW val \in Secrets \cup {None}, Start(p, cmd, v, val)
      PROVE  KeyInv'
  <2> DEFINE x == [Idle EXCEPT !.pc = "detect", !.cmd = cmd, !.prov = v, !.val = val]
  <2>1. x \in Process /\ x.key = None /\ x.pc = "detect"
    BY DEF Idle, Process, Pc, Commands
  <2> QED BY <1>1, <2>1, QuietKey DEF Start
<1>2. ASSUME NEW v \in Providers, RemoveProvider(p, v) PROVE KeyInv'
  BY <1>2 DEF RemoveProvider, KeyInv, VaultOpens, Opens
<1>3. ASSUME NEW b \in Backends, Detect(p, b) PROVE KeyInv'
  <2> DEFINE x == [proc[p] EXCEPT !.backend = b,
                     !.pc = IF b = "linux-secret-tool" THEN "keyring" ELSE "key"]
  <2>1. /\ proc' = [proc EXCEPT ![p] = x] /\ x \in Process /\ x.key = proc[p].key
        /\ x.pc \in {"keyring", "key"}
    BY <1>3 DEF Detect, Typed, TypeOK, Process, Pc
  <2>2. x.key \in {None, keyFile}
    BY <2>1 DEF KeyInv, VaultOpens
  <2> HIDE DEF x
  <2> QED BY <1>3, <2>1, <2>2, QuietKey DEF Detect
<1>4. ASSUME NEW ok \in BOOLEAN, KeyringStore(p, ok) PROVE KeyInv'
  BY <1>4, GotoKey, StopKey DEF KeyringStore, Pc
<1>5. ASSUME NEW ok \in BOOLEAN, KeyringClear(p, ok) PROVE KeyInv'
  BY <1>5, GotoKey DEF KeyringClear, Pc
<1>6. CASE LoadKey(p)
  <2>1. CASE keyFile \in MasterKeys
    <3> DEFINE x == [proc[p] EXCEPT !.key = keyFile, !.pc = "read"]
    <3>1. proc' = [proc EXCEPT ![p].key = keyFile, ![p].pc = "read"]
      BY <1>6, <2>1, VaultAssumption DEF LoadKey
    <3>2. /\ proc' = [proc EXCEPT ![p] = x] /\ x \in Process
          /\ x.key = keyFile /\ x.pc = "read"
      BY <2>1, <3>1 DEF Typed, TypeOK, Process, Pc
    <3> HIDE DEF x
    <3> QED BY <1>6, <3>2, QuietKey DEF LoadKey
  <2>2. CASE keyFile = None
    BY <1>6, <2>2, VaultAssumption, GotoKey DEF LoadKey, Pc
  <2>3. CASE keyFile = Empty
    BY <1>6, <2>3, VaultAssumption, StopKey DEF LoadKey
  <2> QED BY <2>1, <2>2, <2>3 DEF Typed, TypeOK
<1>7. CASE CheckVault(p)
  BY <1>7, GotoKey, StopKey DEF CheckVault, Pc
<1>8. CASE CreateKey(p)
  <2>1. CASE keyFile = None
    <3>1. keyFile' = Empty /\ vault' = vault /\ Goto(p, "fill")
      BY <1>8, <2>1 DEF CreateKey
    <3>2. /\ vault # None => \A v \in Providers : vault[v] = None
          /\ \A q \in Procs : /\ proc[q].key = None
                              /\ proc[q].pc \notin {"read", "write", "rename"}
      BY <2>1, NothingKeyed
    <3>3. \A q \in Procs : proc[q].pc # "fill"
      BY <2>1, VaultAssumption DEF KeyInv
    <3>4. \A q \in Procs : /\ proc'[q].key = None
                           /\ proc'[q].pc \notin {"read", "write", "rename"}
                           /\ proc'[q].pc = "fill" => q = p
      BY <3>1, <3>2, <3>3 DEF Goto, Typed, TypeOK, Process
    <3> QED BY <3>1, <3>2, <3>4 DEF KeyInv, VaultOpens
  <2>2. CASE keyFile # None
    BY <1>8, <2>2, StopKey DEF CreateKey
  <2> QED BY <2>1, <2>2
<1>9. CASE FillKey(p)
  <2> PICK k \in MasterKeys :
           keyFile' = k /\ proc' = [proc EXCEPT ![p].key = k, ![p].pc = "read"]
    BY <1>9 DEF FillKey
  <2>1. keyFile = Empty /\ vault' = vault
    BY <1>9 DEF FillKey, KeyInv, At
  <2>2. /\ vault # None => \A v \in Providers : vault[v] = None
        /\ \A q \in Procs : /\ proc[q].key = None
                            /\ proc[q].pc \notin {"read", "write", "rename"}
    BY <2>1, NothingKeyed
  <2>3. \A q \in Procs : proc[q].pc = "fill" => q = p
    BY <1>9 DEF FillKey, KeyInv, At
  <2>4. \A q \in Procs : /\ proc'[q].key \in {None, k}
                         /\ proc'[q].pc \notin {"write", "rename", "fill"}
    BY <2>2, <2>3 DEF Typed, TypeOK, Process
  <2> QED BY <2>1, <2>2, <2>4 DEF KeyInv, VaultOpens
<1>10. CASE ReadAll(p)
  <2> DEFINE x == [proc[p] EXCEPT !.snap = Loaded, !.pc = "write"]
  <2>1. /\ proc' = [proc EXCEPT ![p] = x] /\ x \in Process /\ x.key = proc[p].key
        /\ x.pc = "write" /\ x.snap = Loaded
    BY <1>10, LoadedType DEF ReadAll, Typed, TypeOK, Process, Pc
  <2>2. x.key \in {None, keyFile}
    BY <2>1 DEF KeyInv, VaultOpens
  <2> HIDE DEF x
  <2> QED BY <1>10, <2>1, <2>2, LoadedOpens, QuietKey DEF ReadAll
<1>11. CASE WriteTmp(p)
  <2> DEFINE x == [proc[p] EXCEPT !.tmp = Edited(p), !.pc = "rename"]
  <2>1. /\ proc' = [proc EXCEPT ![p] = x] /\ x \in Process /\ x.key = proc[p].key
        /\ x.pc = "rename" /\ x.snap = proc[p].snap /\ x.tmp = Edited(p)
    BY <1>11, EditedType DEF WriteTmp, Typed, TypeOK, Process, Pc
  <2>2. x.key \in {None, keyFile}
    BY <2>1 DEF KeyInv, VaultOpens
  <2>3. Opens(x.snap) /\ Opens(x.tmp)
    BY <1>11, <2>1, EditedOpens DEF WriteTmp, KeyInv, At
  <2> HIDE DEF x
  <2> QED BY <1>11, <2>1, <2>2, <2>3, QuietKey DEF WriteTmp
<1>12. CASE RenameTmp(p)
  <2>1. vault' = proc[p].tmp /\ keyFile' = keyFile /\ Opens(proc[p].tmp)
    BY <1>12 DEF RenameTmp, KeyInv, At
  <2>2. \A q \in Procs : /\ proc'[q].key = proc[q].key
                         /\ proc'[q].snap = proc[q].snap
                         /\ proc'[q].tmp = proc[q].tmp
                         /\ proc'[q].pc \in {proc[q].pc, "row"}
    BY <1>12 DEF RenameTmp, Goto, Typed, TypeOK, Process
  <2> QED BY <2>1, <2>2 DEF KeyInv, VaultOpens, Opens
<1>13. CASE SetRow(p)
  BY <1>13, StopKey DEF SetRow
<1>14. CASE RemoveRow(p)
  BY <1>14, StopKey DEF RemoveRow
<1>15. CASE Crash(p)
  BY <1>15, StopKey DEF Crash
<1> QED
  BY <1>1, <1>2, <1>3, <1>4, <1>5, <1>6, <1>7, <1>8, <1>9, <1>10, <1>11, <1>12,
     <1>13, <1>14, <1>15 DEF Step, Commands

LEMMA InitKey == Init => KeyInv
  BY DEF Init, Idle, KeyInv, VaultOpens

(* However processes start, write and die: the key on disk opens every     *)
(* entry and is the key every process holds.                               *)
THEOREM KeyOpensVault == Spec => []VaultOpens
<1>1. KeyInv => VaultOpens
  BY DEF KeyInv
<1> QED BY <1>1, InitTyped, NextTyped, InitKey, NextKey, PTL DEF Spec

-----------------------------------------------------------------------------
(* A credential row is backed by the secret it names.  While one command   *)
(* alone is at work on a provider and nobody undid its entry, the entry    *)
(* and the row agree until the entry is written, and at the row's own      *)
(* statement the new secret can be loaded already.                         *)
Busy(p, v) == proc[p].pc # "down" /\ proc[p].prov = v

FilePc == {"key", "check", "create", "fill", "read", "write", "rename"}

Backed(v) == rows[v] # None => Load(v) = rows[v]

Served(p, v) ==
    /\ proc[p].pc \in FilePc => home[v] = "encrypted-file"
    /\ proc[p].pc = "keyring" => home[v] = "linux-secret-tool"
    /\ proc[p].pc = "row" /\ proc[p].cmd = "set" => Load(v) = proc[p].val

Undisturbed(v) ==
    /\ \A p, q \in Procs : Busy(p, v) /\ Busy(q, v) => p = q
    /\ \A p \in Procs : Busy(p, v) => Served(p, v)
    /\ v \notin halted /\ (\A p \in Procs : Busy(p, v) => proc[p].pc # "row")
         => Backed(v)

BackInv ==
    /\ \A v \in Providers : home[v] = None \/ v \notin known => rows[v] = None
    /\ \A p \in Procs :
        /\ proc[p].pc \notin {"down", "detect"} => home[Serves(p)] # None
        /\ proc[p].pc = "rename" => proc[p].tmp = Edited(p)
    /\ \A v \in Providers \ raced : Undisturbed(v)

LEMMA LoadKept ==
    ASSUME NEW v, home'[v] = home[v], ring'[v] = ring[v],
           Loaded'[v] = Loaded[v], keyFile' = keyFile \/ Loaded[v] = None
    PROVE  Load(v)' = Load(v)
  BY DEF Load, Decrypt

(* The steps of a command before its effect: the process goes on to x, or  *)
(* ends, and what can be loaded is what it was.                            *)
LEMMA QuietBack ==
    ASSUME Typed, BackInv, NEW p \in Procs, NEW x \in Process,
           proc' = [proc EXCEPT ![p] = x], UNCHANGED <<known, rows, halted>>,
           \A v \in Providers : home[v] # None => home'[v] # None,
           raced \subseteq raced',
           \A v \in Providers \ raced' :
                Load(v)' = Load(v) \/ (rows[v] = None /\ Busy(p, v)),
           proc[p].pc # "row", x.pc # "row",
           x.pc = "down" \/ (proc[p].pc # "down" /\ x.prov = proc[p].prov),
           x.pc \notin {"down", "detect"} => home'[x.prov] # None,
           x.pc = "rename" => x.tmp = Edited(p)',
           x.prov \in Providers \ raced' =>
                /\ x.pc \in FilePc => home'[x.prov] = "encrypted-file"
                /\ x.pc = "keyring" => home'[x.prov] = "linux-secret-tool",
           \A q \in Procs \ {p}, v \in Providers \ raced' :
                Busy(q, v) => home'[v] = home[v]
    PROVE  BackInv'
<1>1. \A q \in Procs : proc'[q] = IF q = p THEN x ELSE proc[q]
  BY DEF Typed, TypeOK
<1>2. \A v \in Providers : home'[v] = None \/ v \notin known' => rows'[v] = None
  BY DEF BackInv
<1>3. ASSUME NEW q \in Procs
      PROVE  /\ proc'[q].pc \notin {"down", "detect"} => home'[Serves(q)'] # None
             /\ proc'[q].pc = "rename" => proc'[q].tmp = Edited(q)'
  <2>1. CASE q = p
    BY <1>1, <2>1 DEF Serves
  <2>2. CASE q # p
    <3>1. proc'[q] = proc[q] /\ Edited(q)' = Edited(q) /\ Serves(q)' = Serves(q)
      BY <1>1, <2>2 DEF Edited, Serves
    <3>2. proc[q].pc # "down" => Serves(q) \in Providers
      BY DEF Typed, Fit, Serves
    <3> QED BY <3>1, <3>2 DEF BackInv
  <2> QED BY <2>1, <2>2
<1>4. ASSUME NEW v \in Providers \ raced' PROVE Undisturbed(v)'
  <2>1. Undisturbed(v) /\ (Load(v)' = Load(v) \/ (rows[v] = None /\ Busy(p, v)))
    BY DEF BackInv
  <2>2. \A q \in Procs : Busy(q, v)' => Busy(q, v)
    BY <1>1 DEF Busy
  <2>3. ASSUME NEW q \in Procs, Busy(q, v)' PROVE Served(q, v)'
    BY <1>1, <2>1, <2>2, <2>3 DEF Served, Undisturbed, Busy, FilePc
  <2>4. ASSUME v \notin halted', \A q \in Procs : Busy(q, v)' => proc'[q].pc # "row"
        PROVE  Backed(v)'
    <3>1. \A q \in Procs : Busy(q, v) => proc[q].pc # "row"
      BY <1>1, <2>4 DEF Busy
    <3> QED BY <2>1, <2>4, <3>1 DEF Undisturbed, Backed
  <2> QED BY <2>1, <2>2, <2>3, <2>4 DEF Undisturbed
<1> QED BY <1>2, <1>3, <1>4 DEF BackInv

(* The steps on the file that leave the vault alone.                       *)
LEMMA FileStep ==
    ASSUME Typed, BackInv, NEW p \in Procs, NEW x \in Process,
           proc' = [proc EXCEPT ![p] = x],
           UNCHANGED <<known, rows, halted, home, ring, raced, vault>>,
           keyFile' = keyFile \/ \A v \in Providers : Loaded[v] = None,
           proc[p].pc \in FilePc, x.pc \in FilePc, x.prov = proc[p].prov,
           x.pc = "rename" => x.tmp = Edited(p)'
    PROVE  BackInv'
<1>1. \A v \in Providers : Load(v)' = Load(v)
  BY LoadKept DEF Loaded
<1>2. proc[p].pc \notin {"down", "detect", "row"} /\ x.pc \notin {"down", "row", "keyring"}
  BY DEF FilePc
<1>3. Busy(p, proc[p].prov) /\ proc[p].prov \in Providers
  BY <1>2 DEF Busy, Typed, Fit
<1>4. home[x.prov] # None
  BY <1>2 DEF BackInv, Serves
<1>5. x.prov \in Providers \ raced => home[x.prov] = "encrypted-file"
  BY <1>3 DEF BackInv, Undisturbed, Served
<1> QED BY <1>1, <1>2, <1>4, <1>5, QuietBack

(* A command that ends, or dies, before its effect.                        *)
LEMMA StopBack ==
    ASSUME Typed, BackInv, NEW p \in Procs, Stop(p), proc[p].pc # "row",
           UNCHANGED <<keyFile, known, rows, halted, home, ring, raced, vault>>
    PROVE  BackInv'
<1>1. \A v \in Providers : Load(v)' = Load(v)
  BY LoadKept DEF Loaded
<1> PICK x \in Process : x.pc = "down" /\ proc' = [proc EXCEPT ![p] = x]
  BY IdleType DEF Idle, Stop
<1>2. x.pc \notin FilePc \cup {"row", "rename", "keyring"}
  BY DEF FilePc
<1> QED BY <1>1, <1>2, QuietBack

(* A command that ends, or dies, at its row.                               *)
LEMMA RowBack ==
    ASSUME Typed, BackInv, NEW p \in Procs, Stop(p), proc[p].pc = "row",
           NEW u, u = Serves(p),
           UNCHANGED <<keyFile, known, home, ring, raced, vault>>,
           \A v \in Providers \ {u} :
              rows'[v] = rows[v] /\ (v \in halted' <=> v \in halted),
           home[u] = None \/ u \notin known => rows'[u] = None,
           u \notin raced \cup halted' => Backed(u)'
    PROVE  BackInv'
<1>1. \A q \in Procs : proc'[q] = IF q = p THEN Idle ELSE proc[q]
  BY DEF Stop, Typed, TypeOK
<1>2. \A v \in Providers : Load(v)' = Load(v)
  BY LoadKept DEF Loaded
<1>3. Busy(p, u) /\ u \in Providers
  BY DEF Busy, Serves, Typed, Fit
<1>4. Idle.pc = "down"
  BY DEF Idle
<1>5. \A v \in Providers : home'[v] = None \/ v \notin known' => rows'[v] = None
  BY DEF BackInv
<1>6. ASSUME NEW q \in Procs
      PROVE  /\ proc'[q].pc \notin {"down", "detect"} => home'[Serves(q)'] # None
             /\ proc'[q].pc = "rename" => proc'[q].tmp = Edited(q)'
  <2>1. CASE q = p
    BY <1>1, <1>4, <2>1
  <2>2. CASE q # p
    <3>1. proc'[q] = proc[q] /\ Edited(q)' = Edited(q) /\ Serves(q)' = Serves(q)
      BY <1>1, <2>2 DEF Edited, Serves
    <3> QED BY <3>1 DEF BackInv
  <2> QED BY <2>1, <2>2
<1>7. ASSUME NEW v \in Providers \ raced' PROVE Undisturbed(v)'
  <2>1. Undisturbed(v) /\ Load(v)' = Load(v)
    BY <1>2 DEF BackInv
  <2>2. \A q \in Procs : Busy(q, v)' => q # p /\ proc'[q] = proc[q] /\ Busy(q, v)
    BY <1>1, <1>4 DEF Busy
  <2>3. \A q \in Procs : Busy(q, v)' => Served(q, v)'
    BY <2>1, <2>2 DEF Served, Undisturbed
  <2>4. ASSUME v \notin halted', \A q \in Procs : Busy(q, v)' => proc'[q].pc # "row"
        PROVE  Backed(v)'
    <3>1. CASE v = u
      BY <2>4, <3>1
    <3>2. CASE v # u
      <4>1. \A q \in Procs : Busy(q, v) => proc[q].pc # "row"
        BY <1>1, <2>4, <3>2 DEF Busy, Serves
      <4> QED BY <2>1, <2>4, <3>2, <4>1 DEF Undisturbed, Backed
    <3> QED BY <3>1, <3>2
  <2> QED BY <2>1, <2>2, <2>3, <2>4 DEF Undisturbed
<1> QED BY <1>5, <1>6, <1>7 DEF BackInv

(* A command whose effect is made and whose row is still to be written.    *)
LEMMA EffectBack ==
    ASSUME Typed, BackInv, NEW p \in Procs, Goto(p, "row"), NEW u, u = Serves(p),
           proc[p].pc \notin {"down", "detect", "row"},
           UNCHANGED <<known, home, rows, halted>>, raced \subseteq raced',
           \A v \in Providers \ (raced' \cup {u}) : Load(v)' = Load(v),
           u \notin raced' /\ proc[p].cmd = "set" => Load(u)' = proc[p].val
    PROVE  BackInv'
<1>1. /\ \A q \in Procs \ {p} : proc'[q] = proc[q]
      /\ proc'[p].pc = "row"
      /\ proc'[p].prov = proc[p].prov
      /\ proc'[p].cmd = proc[p].cmd
      /\ proc'[p].val = proc[p].val
  BY DEF Goto, Typed, TypeOK, Process
<1>2. \A v \in Providers : home'[v] = None \/ v \notin known' => rows'[v] = None
  BY DEF BackInv
<1>3. ASSUME NEW q \in Procs
      PROVE  /\ proc'[q].pc \notin {"down", "detect"} => home'[Serves(q)'] # None
             /\ proc'[q].pc = "rename" => proc'[q].tmp = Edited(q)'
  <2>1. CASE q = p
    <3>1. Serves(q)' = Serves(q)
      BY <1>1, <2>1 DEF Serves
    <3> QED BY <1>1, <2>1, <3>1 DEF BackInv
  <2>2. CASE q # p
    <3>1. proc'[q] = proc[q] /\ Edited(q)' = Edited(q) /\ Serves(q)' = Serves(q)
      BY <1>1, <2>2 DEF Edited, Serves
    <3> QED BY <3>1 DEF BackInv
  <2> QED BY <2>1, <2>2
<1>4. ASSUME NEW v \in Providers \ raced' PROVE Undisturbed(v)'
  <2>1. Undisturbed(v)
    BY DEF BackInv
  <2>2. \A q \in Procs : Busy(q, v)' <=> Busy(q, v)
    BY <1>1 DEF Busy
  <2>3. CASE v = u
    <3>1. Busy(p, v) /\ Busy(p, v)'
      BY <1>1, <2>3 DEF Busy, Serves
    <3>2. \A q \in Procs : Busy(q, v) => q = p
      BY <2>1, <3>1 DEF Undisturbed
    <3>3. Served(p, v)'
      BY <1>1, <2>3 DEF Served, FilePc
    <3> QED BY <1>1, <2>2, <3>1, <3>2, <3>3 DEF Undisturbed
  <2>4. CASE v # u
    <3>1. Load(v)' = Load(v)
      BY <2>4
    <3>2. \A q \in Procs : Busy(q, v) => proc'[q] = proc[q]
      BY <1>1, <2>4 DEF Busy, Serves
    <3> QED BY <2>1, <2>2, <3>1, <3>2 DEF Undisturbed, Served, Backed
  <2> QED BY <2>3, <2>4
<1> QED BY <1>2, <1>3, <1>4 DEF BackInv

LEMMA StartBack ==
    ASSUME Typed, BackInv, NEW p \in Procs, NEW u \in Providers,
           NEW cmd \in Commands, NEW val \in Secrets \cup {None}, Start(p, cmd, u, val)
    PROVE  BackInv'
<1>1. /\ \A q \in Procs \ {p} : proc'[q] = proc[q]
      /\ proc'[p].pc = "detect" /\ proc'[p].prov = u /\ proc[p].pc = "down"
  BY DEF Start, At, Idle, Typed, TypeOK
<1>2. \A v \in Providers : Load(v)' = Load(v)
  BY LoadKept DEF Start, Loaded
<1>3. ASSUME NEW q \in Procs
      PROVE  /\ proc'[q].pc \notin {"down", "detect"} => home'[Serves(q)'] # None
             /\ proc'[q].pc = "rename" => proc'[q].tmp = Edited(q)'
  <2>1. CASE q = p
    BY <1>1, <2>1
  <2>2. CASE q # p
    <3>1. proc'[q] = proc[q] /\ Edited(q)' = Edited(q) /\ Serves(q)' = Serves(q)
      BY <1>1, <2>2 DEF Edited, Serves
    <3> QED BY <3>1 DEF BackInv, Start
  <2> QED BY <2>1, <2>2
<1>4. ASSUME NEW v \in Providers \ raced' PROVE Undisturbed(v)'
  <2>1. Undisturbed(v) /\ raced \subseteq raced'
    BY DEF BackInv, Start
  <2>2. v = u => \A q \in Procs : ~Busy(q, v)
    BY DEF Start, Busy, Serves
  <2>3. \A q \in Procs : Busy(q, v)' => (q = p /\ v = u) \/ (Busy(q, v) /\ q # p)
    BY <1>1 DEF Busy
  <2>4. \A q \in Procs : Busy(q, v)' => Served(q, v)'
    BY <1>1, <1>2, <2>1, <2>3 DEF Served, Undisturbed, FilePc, Start
  <2>5. (\A q \in Procs : Busy(q, v)' => proc'[q].pc # "row")
          => (\A q \in Procs : Busy(q, v) => proc[q].pc # "row")
    BY <1>1 DEF Busy
  <2>6. v \notin halted' /\ (\A q \in Procs : Busy(q, v)' => proc'[q].pc # "row")
          => Backed(v)'
    BY <1>2, <2>1, <2>5 DEF Undisturbed, Backed, Start
  <2> QED BY <2>1, <2>2, <2>3, <2>4, <2>6 DEF Undisturbed
<1> QED BY <1>3, <1>4 DEF BackInv, Start

LEMMA NextBack == Typed /\ Typed' /\ KeyInv /\ BackInv /\ [Next]_vars => BackInv'
<1> SUFFICES ASSUME Typed, Typed', KeyInv, BackInv, [Next]_vars PROVE BackInv'
  OBVIOUS
<1>0. CASE UNCHANGED vars
  <2>1. \A v \in Providers : Load(v)' = Load(v)
    BY <1>0, LoadKept DEF Loaded, vars
  <2> QED BY <1>0, <2>1
          DEF BackInv, Undisturbed, Served, Backed, Busy, Edited, Serves, vars
<1> SUFFICES ASSUME NEW p \in Procs, Step(p) PROVE BackInv'
  BY <1>0 DEF Next
<1>1. ASSUME NEW v \in Providers, NEW cmd \in Commands,
             NEW val \in Secrets \cup {None}, Start(p, cmd, v, val)
      PROVE  BackInv'
  BY <1>1, StartBack
<1>2. ASSUME NEW u \in Providers, RemoveProvider(p, u) PROVE BackInv'
  <2>1. \A v \in Providers : Load(v)' = Load(v)
    BY <1>2, LoadKept DEF Loaded, RemoveProvider
  <2>2. \A v \in Providers : rows'[v] \in {rows[v], None}
    BY <1>2 DEF RemoveProvider, Typed, TypeOK
  <2>3. \A v \in Providers : home'[v] = None \/ v \notin known' => rows'[v] = None
    BY <1>2, <2>2 DEF RemoveProvider, BackInv, Typed, TypeOK
  <2> QED BY <1>2, <2>1, <2>2, <2>3
          DEF RemoveProvider, BackInv, Undisturbed, Served, Backed, Busy, Edited, Serves
<1>3. ASSUME NEW b \in Backends, Detect(p, b) PROVE BackInv'
  <2> DEFINE x == [proc[p] EXCEPT !.backend = b,
                     !.pc = IF b = "linux-secret-tool" THEN "keyring" ELSE "key"]
  <2> PICK u \in Providers : u = proc[p].prov /\ u = Serves(p)
    BY <1>3 DEF Detect, At, Serves, Typed, Fit
  <2>1. /\ proc' = [proc EXCEPT ![p] = x] /\ x \in Process /\ x.prov = proc[p].prov
        /\ proc[p].pc = "detect" /\ Busy(p, u) /\ u \in Providers
        /\ b = "linux-secret-tool" => x.pc = "keyring"
        /\ b = "encrypted-file" => x.pc = "key"
    BY <1>3 DEF Detect, At, Typed, TypeOK, Fit, Process, Pc, Busy, Serves, Backends
  <2>2. /\ home' = [home EXCEPT ![u] = b] /\ b # None
        /\ raced \subseteq raced'
        /\ u \notin raced' => home[u] \in {None, b}
        /\ UNCHANGED <<keyFile, vault, ring, known, rows, halted>>
    BY <1>3, VaultAssumption DEF Detect
  <2>3. \A v \in Providers : home'[v] = IF v = u THEN b ELSE home[v]
    BY <2>2 DEF Typed, TypeOK
  <2>4. \A v \in Providers : home'[v] = home[v] => Load(v)' = Load(v)
    BY <2>2, LoadKept DEF Loaded
  <2>5. \A v \in Providers \ raced' :
           Load(v)' = Load(v) \/ (rows[v] = None /\ Busy(p, v))
    BY <2>1, <2>2, <2>3, <2>4 DEF BackInv
  <2>6. \A q \in Procs \ {p}, v \in Providers \ raced' : Busy(q, v) => home'[v] = home[v]
    BY <2>1, <2>2, <2>3 DEF BackInv, Undisturbed
  <2>7. x.pc \in {"keyring", "key"}
    OBVIOUS
  <2>8. /\ x.pc \in FilePc => b = "encrypted-file"
        /\ x.pc = "keyring" => b = "linux-secret-tool"
    BY <1>3 DEF FilePc, Backends
  <2>9. /\ \A v \in Providers : home[v] # None => home'[v] # None
        /\ home'[x.prov] = b
    BY <2>1, <2>2, <2>3
  <2> HIDE DEF x
  <2>10. x.prov \in Providers \ raced' =>
            /\ x.pc \in FilePc => home'[x.prov] = "encrypted-file"
            /\ x.pc = "keyring" => home'[x.prov] = "linux-secret-tool"
    BY <2>8, <2>9
  <2>11. /\ proc[p].pc # "row" /\ x.pc \notin {"row", "down", "rename"}
         /\ proc[p].pc # "down" /\ home'[x.prov] # None
    BY <2>1, <2>2, <2>7, <2>9
  <2> QED
    BY <2>1, <2>2, <2>5, <2>6, <2>9, <2>10, <2>11, QuietBack
<1>4. ASSUME NEW ok \in BOOLEAN, KeyringStore(p, ok) PROVE BackInv'
  <2> PICK u \in Providers : u = Serves(p)
    BY <1>4 DEF KeyringStore, At, Serves, Typed, Fit
  <2>1. CASE ok
    <3>1. /\ Goto(p, "row") /\ Busy(p, u) /\ u \in Providers
          /\ ring' = [ring EXCEPT ![u] = proc[p].val]
          /\ proc[p].pc = "keyring" /\ proc[p].cmd = "set"
          /\ UNCHANGED <<keyFile, vault, known, rows, home, raced, halted>>
      BY <1>4, <2>1 DEF KeyringStore, RunTool, At, Busy, Serves, Typed, Fit
    <3>2. \A v \in Providers \ {u} : Load(v)' = Load(v)
      BY <3>1, LoadKept DEF Loaded, Typed, TypeOK
    <3>3. u \notin raced' => Load(u)' = proc[p].val
      <4>1. u \notin raced' => home'[u] = "linux-secret-tool"
        BY <3>1 DEF BackInv, Undisturbed, Served
      <4>2. ring'[u] = proc[p].val
        BY <3>1 DEF Typed, TypeOK
      <4> QED BY <4>1, <4>2 DEF Load
    <3> QED BY <3>1, <3>2, <3>3, EffectBack
  <2>2. CASE ~ok
    BY <1>4, <2>2, StopBack DEF KeyringStore, RunTool, At
  <2> QED BY <2>1, <2>2
<1>5. ASSUME NEW ok \in BOOLEAN, KeyringClear(p, ok) PROVE BackInv'
  <2> PICK u \in Providers : u = Serves(p)
    BY <1>5 DEF KeyringClear, At, Serves, Typed, Fit
  <2>1. /\ Goto(p, "row") /\ u \in Providers
        /\ \A v \in Providers \ {u} : ring'[v] = ring[v]
        /\ proc[p].pc = "keyring" /\ proc[p].cmd = "remove"
        /\ UNCHANGED <<keyFile, vault, known, rows, home, raced, halted>>
    BY <1>5 DEF KeyringClear, RunTool, At, Serves, Typed, TypeOK, Fit
  <2>2. \A v \in Providers \ {u} : Load(v)' = Load(v)
    BY <2>1, LoadKept DEF Loaded
  <2> QED BY <2>1, <2>2, EffectBack
<1>6. CASE LoadKey(p)
  <2>1. CASE keyFile \in MasterKeys
    <3> DEFINE x == [proc[p] EXCEPT !.key = keyFile, !.pc = "read"]
    <3>1. proc' = [proc EXCEPT ![p].key = keyFile, ![p].pc = "read"] /\ proc[p].pc = "key"
      BY <1>6, <2>1, VaultAssumption DEF LoadKey, At
    <3>2. /\ proc' = [proc EXCEPT ![p] = x] /\ x \in Process
          /\ x.pc = "read" /\ x.prov = proc[p].prov
      BY <2>1, <3>1 DEF Typed, TypeOK, Process, Pc
    <3> HIDE DEF x
    <3> QED BY <1>6, <3>1, <3>2, FileStep DEF LoadKey, FilePc
  <2>2. CASE keyFile = None
    <3> DEFINE x == [proc[p] EXCEPT !.pc = "check"]
    <3>1. Goto(p, "check") /\ proc[p].pc = "key"
      BY <1>6, <2>2, VaultAssumption DEF LoadKey, At
    <3>2. /\ proc' = [proc EXCEPT ![p] = x] /\ x \in Process
          /\ x.pc = "check" /\ x.prov = proc[p].prov
      BY <3>1 DEF Goto, Typed, TypeOK, Process, Pc
    <3> HIDE DEF x
    <3> QED BY <1>6, <3>1, <3>2, FileStep DEF LoadKey, FilePc
  <2>3. CASE keyFile = Empty
    BY <1>6, <2>3, VaultAssumption, StopBack DEF LoadKey, At
  <2> QED BY <2>1, <2>2, <2>3 DEF Typed, TypeOK
<1>7. CASE CheckVault(p)
  <2>1. CASE vault = None
    <3> DEFINE x == [proc[p] EXCEPT !.pc = "create"]
    <3>1. /\ proc' = [proc EXCEPT ![p] = x] /\ x \in Process /\ proc[p].pc = "check"
          /\ x.pc = "create" /\ x.prov = proc[p].prov
      BY <1>7, <2>1 DEF CheckVault, At, Goto, Typed, TypeOK, Process, Pc
    <3> HIDE DEF x
    <3> QED BY <1>7, <3>1, FileStep DEF CheckVault, FilePc
  <2>2. CASE vault # None
    BY <1>7, <2>2, StopBack DEF CheckVault, At
  <2> QED BY <2>1, <2>2
<1>8. CASE CreateKey(p)
  <2>1. CASE keyFile = None
    <3> DEFINE x == [proc[p] EXCEPT !.pc = "fill"]
    <3>1. /\ proc' = [proc EXCEPT ![p] = x] /\ x \in Process /\ proc[p].pc = "create"
          /\ x.pc = "fill" /\ x.prov = proc[p].prov
      BY <1>8, <2>1 DEF CreateKey, At, Goto, Typed, TypeOK, Process, Pc
    <3>2. \A v \in Providers : Loaded[v] = None
      BY <2>1, NothingKeyed DEF Loaded
    <3> HIDE DEF x
    <3> QED BY <1>8, <3>1, <3>2, FileStep DEF CreateKey, FilePc
  <2>2. CASE keyFile # None
    BY <1>8, <2>2, StopBack DEF CreateKey, At
  <2> QED BY <2>1, <2>2
<1>9. CASE FillKey(p)
  <2> PICK k \in MasterKeys :
           keyFile' = k /\ proc' = [proc EXCEPT ![p].key = k, ![p].pc = "read"]
    BY <1>9 DEF FillKey
  <2> DEFINE x == [proc[p] EXCEPT !.key = k, !.pc = "read"]
  <2>1. /\ proc' = [proc EXCEPT ![p] = x] /\ x \in Process /\ proc[p].pc = "fill"
        /\ x.pc = "read" /\ x.prov = proc[p].prov
    BY <1>9 DEF FillKey, At, Typed, TypeOK, Process, Pc
  <2>2. \A v \in Providers : Loaded[v] = None
    BY <2>1, NothingKeyed DEF Loaded, KeyInv
  <2> HIDE DEF x
  <2> QED BY <1>9, <2>1, <2>2, FileStep DEF FillKey, FilePc
<1>10. CASE ReadAll(p)
  <2> DEFINE x == [proc[p] EXCEPT !.snap = Loaded, !.pc = "write"]
  <2>1. /\ proc' = [proc EXCEPT ![p] = x] /\ x \in Process /\ proc[p].pc = "read"
        /\ x.pc = "write" /\ x.prov = proc[p].prov
    BY <1>10, LoadedType DEF ReadAll, At, Typed, TypeOK, Process, Pc
  <2> HIDE DEF x
  <2> QED BY <1>10, <2>1, FileStep DEF ReadAll, FilePc
<1>11. CASE WriteTmp(p)
  <2> DEFINE x == [proc[p] EXCEPT !.tmp = Edited(p), !.pc = "rename"]
  <2>1. /\ proc' = [proc EXCEPT ![p] = x] /\ x \in Process /\ proc[p].pc = "write"
        /\ x.pc = "rename" /\ x.prov = proc[p].prov /\ x.tmp = Edited(p)
        /\ x.snap = proc[p].snap /\ x.cmd = proc[p].cmd /\ x.key = proc[p].key
        /\ x.val = proc[p].val
    BY <1>11, EditedType DEF WriteTmp, At, Typed, TypeOK, Process, Pc
  <2>2. proc'[p] = x
    BY <2>1 DEF Typed, TypeOK
  <2> HIDE DEF x
  <2>3. Edited(p)' = Edited(p)
    BY <2>1, <2>2 DEF Edited, Serves
  <2>4. UNCHANGED <<keyFile, vault, ring, known, rows, home, raced, halted>>
    BY <1>11 DEF WriteTmp
  <2>5. proc[p].pc \in FilePc /\ x.pc \in FilePc /\ x.tmp = Edited(p)'
    BY <2>1, <2>3 DEF FilePc
  <2> QED BY <2>1, <2>4, <2>5, FileStep
<1>12. CASE RenameTmp(p)
  <2> PICK u \in Providers : u = Serves(p)
    BY <1>12 DEF RenameTmp, At, Serves, Typed, Fit
  <2>1. /\ Goto(p, "row") /\ u \in Providers /\ Busy(p, u) /\ proc[p].pc = "rename"
        /\ vault' = Edited(p) /\ Edited(p) \in Version
        /\ proc[p].snap \in Version /\ proc[p].key \in MasterKeys
        /\ raced' = raced \cup {v \in Providers : Loaded[v] # proc[p].snap[v]}
        /\ UNCHANGED <<keyFile, ring, known, rows, home, halted>>
    BY <1>12 DEF RenameTmp, At, Busy, Serves, Typed, Fit, BackInv
  <2>2. Loaded' = Edited(p)
    BY <2>1, VaultAssumption DEF Loaded
  <2>3. \A v \in Providers \ (raced' \cup {u}) : Load(v)' = Load(v)
    <3>1. \A v \in Providers \ (raced' \cup {u}) : Loaded'[v] = Loaded[v]
      BY <2>1, <2>2 DEF Edited, Version
    <3> QED BY <2>1, <3>1, LoadKept
  <2>4. u \notin raced' /\ proc[p].cmd = "set" => Load(u)' = proc[p].val
    <3> SUFFICES ASSUME u \notin raced', proc[p].cmd = "set"
                 PROVE  Load(u)' = proc[p].val
      OBVIOUS
    <3> DEFINE entry == [key |-> proc[p].key, val |-> proc[p].val]
    <3>1. Loaded'[u] = entry /\ entry # None
      <4>1. entry \in Entry
        BY <2>1 DEF Entry, Typed, Fit
      <4> QED BY <2>1, <2>2, <4>1, VaultAssumption DEF Edited, Version
    <3>2. home'[u] = "encrypted-file"
      BY <2>1 DEF BackInv, Undisturbed, Served, FilePc
    <3>3. keyFile' = proc[p].key
      BY <2>1, VaultAssumption DEF KeyInv, VaultOpens
    <3> QED BY <3>1, <3>2, <3>3 DEF Load, Decrypt
  <2> QED BY <2>1, <2>3, <2>4, EffectBack
<1>13. CASE SetRow(p)
  <2> PICK u \in Providers : u = Serves(p)
    BY <1>13 DEF SetRow, At, Serves, Typed, Fit
  <2>1. /\ Stop(p) /\ proc[p].pc = "row" /\ proc[p].cmd = "set"
        /\ Busy(p, u) /\ u \in Providers
        /\ rows' = IF u \in known THEN [rows EXCEPT ![u] = proc[p].val] ELSE rows
        /\ halted' = halted \ {u}
        /\ UNCHANGED <<keyFile, vault, ring, known, home, raced>>
    BY <1>13 DEF SetRow, At, Busy, Serves, Typed, Fit
  <2>2. home[u] # None
    BY <2>1 DEF BackInv
  <2>3. \A v \in Providers \ {u} : rows'[v] = rows[v]
    BY <2>1 DEF Typed, TypeOK
  <2>4. u \notin known => rows'[u] = None
    BY <2>1 DEF BackInv
  <2>5. u \notin raced => Backed(u)'
    <3>1. Load(u)' = Load(u)
      BY <2>1, LoadKept DEF Loaded
    <3>2. u \notin raced => Load(u) = proc[p].val
      BY <2>1 DEF BackInv, Undisturbed, Served
    <3>3. u \in known => rows'[u] = proc[p].val
      BY <2>1 DEF Typed, TypeOK
    <3> QED BY <2>4, <3>1, <3>2, <3>3 DEF Backed
  <2> QED BY <2>1, <2>2, <2>3, <2>4, <2>5, RowBack
<1>14. CASE RemoveRow(p)
  <2> PICK u \in Providers : u = Serves(p)
    BY <1>14 DEF RemoveRow, At, Serves, Typed, Fit
  <2>1. /\ Stop(p) /\ proc[p].pc = "row" /\ u \in Providers
        /\ rows' = [rows EXCEPT ![u] = None]
        /\ halted' = halted \ {u}
        /\ UNCHANGED <<keyFile, vault, ring, known, home, raced>>
    BY <1>14 DEF RemoveRow, At, Serves, Typed, Fit
  <2>2. rows'[u] = None /\ \A v \in Providers \ {u} : rows'[v] = rows[v]
    BY <2>1 DEF Typed, TypeOK
  <2>3. Backed(u)'
    BY <2>2 DEF Backed
  <2> QED BY <2>1, <2>2, <2>3, RowBack
<1>15. CASE Crash(p)
  <2>1. CASE proc[p].pc = "row"
    <3> PICK u \in Providers : u = Serves(p)
      BY <2>1 DEF Serves, Typed, Fit
    <3>1. /\ Stop(p) /\ halted' = halted \cup {u}
          /\ UNCHANGED <<keyFile, vault, ring, known, rows, home, raced>>
      BY <1>15, <2>1 DEF Crash, At
    <3>2. home[u] = None \/ u \notin known => rows[u] = None
      BY <2>1 DEF BackInv, Typed, Fit, Serves
    <3> QED BY <2>1, <3>1, <3>2, RowBack
  <2>2. CASE proc[p].pc # "row"
    BY <1>15, <2>2, StopBack DEF Crash, At
  <2> QED BY <2>1, <2>2
<1> QED
  BY <1>1, <1>2, <1>3, <1>4, <1>5, <1>6, <1>7, <1>8, <1>9, <1>10, <1>11, <1>12,
     <1>13, <1>14, <1>15 DEF Step, Commands

LEMMA InitBack == Init => BackInv
  BY DEF Init, Idle, BackInv, Undisturbed, Busy, Backed

(* A credential row names a secret that can be loaded, and shows that very *)
(* secret, unless commands crossed on the provider or the file, or one died*)
(* before its row: for any number of commands on any number of providers.  *)
THEOREM CredentialsBacked == Spec => []RowsBacked
<1>1. BackInv => RowsBacked
  BY DEF BackInv, Undisturbed, Backed, Busy, RowsBacked, Serves
<1>2. Typed /\ KeyInv /\ BackInv /\ [Next]_vars => (Typed /\ KeyInv /\ BackInv)'
  BY NextTyped, NextKey, NextBack
<1> QED BY <1>1, <1>2, InitTyped, InitKey, InitBack, PTL DEF Spec
=============================================================================
