----------------------------- MODULE MemoryStore -----------------------------
(***************************************************************************)
(* packages/memory/src/service.ts over packages/storage/src/dao-memory.ts: *)
(* the scoped memory of the agents, written by the CLI and by memory.write *)
(* and trimmed by `memory sweep`.  An action is one SQL statement, as      *)
(* several processes share the database.  What an entry says, who wrote it *)
(* and the audit rows, which nothing reads back, are left out; so are the  *)
(* calls that only read (get, list, export) and the inputs a validation    *)
(* refuses, which change no row.                                           *)
(***************************************************************************)
EXTENDS Integers, Sequences, FiniteSets

CONSTANTS
    Procs,          \* processes that opened the database
    Scopes,         \* the memory scopes in use
    Projects,       \* project ids
    TaskIds,        \* task ids
    Models,         \* model ids
    Keys,           \* entry keys
    Blank,          \* the id '' of a ref that has none
    None,           \* no row, no policy, no expiry
    Ttls,           \* the lifetimes, in ticks, a caller asks for
    Instants,       \* the expiry instants a caller names
    ScratchTtl,     \* SCRATCHPAD_DEFAULT_TTL_HOURS
    DefaultDays,    \* retention of the scopes that age by default
    DefaultMax,     \* their and the other scopes' default budget
    Days,           \* the retentions an operator sets, 0 being forever
    Budgets,        \* the budgets an operator sets
    MaxIds,         \* bound: rows ever inserted
    MaxTime         \* bound: ticks of the clock

MemoryScopes == <<"global", "project", "task", "model", "scratchpad">>

Ids == 1 .. MaxIds

Policy == [days : Nat, max : Nat \ {0}]

Row == [id : Ids, updated : 0 .. MaxTime, expires : Int \cup {None}]

ASSUME MemoryAssumption ==
    /\ Scopes \subseteq {MemoryScopes[i] : i \in DOMAIN MemoryScopes}
    /\ Blank \notin Projects \cup TaskIds \cup Models
    /\ None \notin Int /\ None \notin Policy \cup Row
    /\ Ttls \subseteq Nat \ {0} /\ Instants \subseteq Int /\ ScratchTtl \in Nat \ {0}
    /\ DefaultDays \in Nat /\ DefaultMax \in Nat \ {0}
    /\ Days \subseteq Nat /\ Budgets \subseteq Nat \ {0}
    /\ MaxIds \in Nat /\ MaxTime \in Nat

(* validateRef: which ids a scope asks for, allows and refuses.            *)
ValidRef(r) ==
    CASE r.scope = "global" ->
            r.project = Blank /\ r.task = Blank /\ r.model = Blank
      [] r.scope = "project" ->
            r.project # Blank /\ r.task = Blank /\ r.model = Blank
      [] r.scope \in {"task", "scratchpad"} ->
            r.task # Blank /\ r.model = Blank
      [] r.scope = "model" -> r.model # Blank

Refs ==
    {r \in [scope : Scopes, project : Projects \cup {Blank},
            task : TaskIds \cup {Blank}, model : Models \cup {Blank}] :
        ValidRef(r)}

(* UNIQUE (scope, project_id, task_id, model_id, key): a row has a slot.   *)
Slots == Refs \X Keys

SlotsOf(scope) == {x \in Slots : x[1].scope = scope}

VARIABLES
    now,            \* the clock
    rows,           \* memory_entries, by slot
    used,           \* row ids drawn so far
    policy,         \* memory_retention, by scope
    chosen,         \* history: the policy the operator set last
    pc,             \* where each process is
    call            \* the sweep or the set it is in

vars == <<now, rows, used, policy, chosen, pc, call>>

SweepPc == {"policy", "age", "select", "trim"}

(* Not in a sweep; readback and lost: in a set, after its upsert, and with *)
(* the NOT_FOUND it fails with.                                            *)
RestPc == {"down", "idle", "readback", "lost"}

NoPolicy == [days |-> 0, max |-> 1]

NoCall ==
    [at |-> 0, left |-> {}, policy |-> NoPolicy, doomed |-> {}, saw |-> 0,
     wrote |-> {}]

Call ==
    [at : 0 .. MaxTime, left : SUBSET Scopes, policy : Policy,
     doomed : SUBSET Ids, saw : 0 .. MaxTime, wrote : SUBSET Slots]

TypeOK ==
    /\ now \in 0 .. MaxTime
    /\ rows \in [Slots -> Row \cup {None}]
    /\ used \subseteq Ids
    /\ policy \in [Scopes -> Policy \cup {None}]
    /\ chosen \in [Scopes -> Policy \cup {None}]
    /\ pc \in [Procs -> RestPc \cup SweepPc]
    /\ call \in [Procs -> Call]

(* After migration 006 both tables are there and empty.                    *)
Init ==
    /\ now = 0
    /\ rows = [x \in Slots |-> None]
    /\ used = {}
    /\ policy = [s \in Scopes |-> None]
    /\ chosen = [s \in Scopes |-> None]
    /\ pc = [p \in Procs |-> "down"]
    /\ call = [p \in Procs |-> NoCall]

Present(x) == rows[x] # None

Remove(gone) == [x \in Slots |-> IF x \in gone THEN None ELSE rows[x]]

-----------------------------------------------------------------------------
(* Retention policies.                                                     *)

(* DEFAULT_RETENTION: global and project memory is kept forever.           *)
DefaultPolicy(s) ==
    [days |-> IF s \in {"global", "project"} THEN 0 ELSE DefaultDays,
     max |-> DefaultMax]

(* Mutant: the seed of a start overwrites what is there.                   *)
SeedOver(old) == [s \in Scopes |-> DefaultPolicy(s)]

(* seedDefaults: INSERT OR IGNORE, once per process start.                 *)
SeedDefaults(old) ==
    [s \in Scopes |-> IF old[s] = None THEN DefaultPolicy(s) ELSE old[s]]

Boot(p) ==
    /\ pc[p] = "down"
    /\ pc' = [pc EXCEPT ![p] = "idle"]
    /\ policy' = SeedDefaults(policy)
    /\ UNCHANGED <<now, rows, used, chosen, call>>

RetentionSet(p, s, days, max) ==
    /\ pc[p] = "idle"
    /\ policy' = [policy EXCEPT ![s] = [days |-> days, max |-> max]]
    /\ chosen' = [chosen EXCEPT ![s] = [days |-> days, max |-> max]]
    /\ UNCHANGED <<now, rows, used, pc, call>>

RetentionFor(s) == IF policy[s] = None THEN DefaultPolicy(s) ELSE policy[s]

-----------------------------------------------------------------------------
(* Entries.                                                                *)

(* The expiry of an entry: an instant the caller names, past ones too; a   *)
(* lifetime; otherwise a week for the scratchpad, and none elsewhere.      *)
Expiries(scope) ==
    Instants \cup {now + t : t \in Ttls}
        \cup {IF scope = "scratchpad" THEN now + ScratchTtl ELSE None}

(* The upsert of set: on conflict the row keeps its id, and the one drawn  *)
(* for it is dropped.                                                      *)
Set(p, x, expires) ==
    /\ pc[p] = "idle"
    /\ IF Present(x)
       THEN /\ rows' = [rows EXCEPT ![x] =
                  [id |-> rows[x].id, updated |-> now, expires |-> expires]]
            /\ used' = used
       ELSE \E id \in Ids \ used :
            /\ rows' = [rows EXCEPT ![x] =
                  [id |-> id, updated |-> now, expires |-> expires]]
            /\ used' = used \cup {id}
    /\ pc' = [pc EXCEPT ![p] = "readback"]
    /\ call' = [call EXCEPT ![p].wrote = {x}]
    /\ UNCHANGED <<now, policy, chosen>>

(* set answers with the row it reads back; one that is gone by then makes  *)
(* it fail although the entry was stored.                                  *)
ReadBack(p) ==
    /\ pc[p] = "readback"
    /\ pc' = [pc EXCEPT ![p] = IF \A x \in call[p].wrote : Present(x)
                               THEN "idle" ELSE "lost"]
    /\ call' = [call EXCEPT ![p] = NoCall]
    /\ UNCHANGED <<now, rows, used, policy, chosen>>

(* The tool tells the model, and its run goes on; a command has only to    *)
(* end.                                                                    *)
ReportLost(p) ==
    /\ pc[p] = "lost"
    /\ pc' = [pc EXCEPT ![p] = "idle"]
    /\ UNCHANGED <<now, rows, used, policy, chosen, call>>

Delete(p, x) ==
    /\ pc[p] = "idle"
    /\ rows' = Remove({x})
    /\ UNCHANGED <<now, used, policy, chosen, pc, call>>

Purge(p, r) ==
    /\ pc[p] = "idle"
    /\ rows' = Remove({x \in Slots : x[1] = r})
    /\ UNCHANGED <<now, used, policy, chosen, pc, call>>

-----------------------------------------------------------------------------
(* sweep: expired entries of all scopes, and then scope by scope what is   *)
(* too old and what is beyond the budget.                                  *)

Before(s, t) ==
    \E i, j \in DOMAIN MemoryScopes :
        i < j /\ MemoryScopes[i] = s /\ MemoryScopes[j] = t

(* Mutant: an entry lives through the tick it expires in.                  *)
ExpiredLate(t) ==
    {x \in Slots : Present(x) /\ rows[x].expires # None /\ rows[x].expires < t}

(* deleteExpired: expires_at <= now.                                       *)
Expired(t) ==
    {x \in Slots : Present(x) /\ rows[x].expires # None /\ rows[x].expires <= t}

SweepExpired(p) ==
    /\ pc[p] = "idle"
    /\ Scopes # {}
    /\ rows' = Remove(Expired(now))
    /\ pc' = [pc EXCEPT ![p] = "policy"]
    /\ call' = [call EXCEPT ![p] = [NoCall EXCEPT !.at = now, !.left = Scopes]]
    /\ UNCHANGED <<now, used, policy, chosen>>

(* The scope of this round: the first in MEMORY_SCOPES that is left.       *)
First(left) == CHOOSE s \in left : \A t \in left \ {s} : Before(s, t)

Scope(p) == First(call[p].left)

SweepPolicy(p) ==
    /\ pc[p] = "policy"
    /\ LET pol == RetentionFor(Scope(p)) IN
        /\ call' = [call EXCEPT ![p].policy = pol]
        /\ pc' = [pc EXCEPT ![p] = IF pol.days > 0 THEN "age" ELSE "select"]
    /\ UNCHANGED <<now, rows, used, policy, chosen>>

(* deleteOlderThan: updated_at < now - retentionDays.                      *)
Aged(s, cutoff) == {x \in SlotsOf(s) : Present(x) /\ rows[x].updated < cutoff}

SweepAge(p) ==
    /\ pc[p] = "age"
    /\ rows' = Remove(Aged(Scope(p), call[p].at - call[p].policy.days))
    /\ pc' = [pc EXCEPT ![p] = "select"]
    /\ UNCHANGED <<now, used, policy, chosen, call>>

(* Mutant: ORDER BY updated_at ASC.                                        *)
OlderFirst(x, y) ==
    \/ rows[x].updated < rows[y].updated
    \/ rows[x].updated = rows[y].updated /\ rows[x].id > rows[y].id

(* ORDER BY updated_at DESC, id DESC; ids are random.                      *)
Newer(x, y) ==
    \/ rows[x].updated > rows[y].updated
    \/ rows[x].updated = rows[y].updated /\ rows[x].id > rows[y].id

Ahead(s, x) == {y \in SlotsOf(s) : Present(y) /\ Newer(y, x)}

(* Mutant: OFFSET max + 1.                                                 *)
BeyondNext(s, max) ==
    {rows[x].id : x \in {y \in SlotsOf(s) :
                            Present(y) /\ Cardinality(Ahead(s, y)) > max}}

(* idsBeyondMax: LIMIT -1 OFFSET max.                                      *)
IdsBeyondMax(s, max) ==
    {rows[x].id : x \in {y \in SlotsOf(s) :
                            Present(y) /\ Cardinality(Ahead(s, y)) >= max}}

SweepSelect(p) ==
    /\ pc[p] = "select"
    /\ call' = [call EXCEPT
            ![p].doomed = IdsBeyondMax(Scope(p), call[p].policy.max),
            ![p].saw = now]
    /\ pc' = [pc EXCEPT ![p] = "trim"]
    /\ UNCHANGED <<now, rows, used, policy, chosen>>

(* deleteById, one statement per id; the order of the list is left open.   *)
SweepTrim(p) ==
    /\ pc[p] = "trim"
    /\ \E id \in call[p].doomed :
        /\ rows' = Remove({x \in Slots : Present(x) /\ rows[x].id = id})
        /\ call' = [call EXCEPT ![p].doomed = call[p].doomed \ {id}]
    /\ UNCHANGED <<now, used, policy, chosen, pc>>

(* The next scope, or the return of sweep.                                 *)
SweepNext(p) ==
    /\ pc[p] = "trim"
    /\ call[p].doomed = {}
    /\ IF call[p].left # {Scope(p)}
       THEN /\ pc' = [pc EXCEPT ![p] = "policy"]
            /\ call' = [call EXCEPT ![p].left = call[p].left \ {Scope(p)}]
       ELSE /\ pc' = [pc EXCEPT ![p] = "idle"]
            /\ call' = [call EXCEPT ![p] = NoCall]
    /\ UNCHANGED <<now, rows, used, policy, chosen>>

-----------------------------------------------------------------------------
(* A process ends, between two statements or when its command is done.     *)
Exit(p) ==
    /\ pc[p] # "down"
    /\ pc' = [pc EXCEPT ![p] = "down"]
    /\ call' = [call EXCEPT ![p] = NoCall]
    /\ UNCHANGED <<now, rows, used, policy, chosen>>

Tick ==
    /\ now < MaxTime
    /\ now' = now + 1
    /\ UNCHANGED <<rows, used, policy, chosen, pc, call>>

-----------------------------------------------------------------------------
(* memory.write, the tool of an agent's run.                               *)
MemoryWrite(p) == \E x \in Slots : \E e \in Expiries(x[1].scope) : Set(p, x, e)

(* The lanes of aice memory that change rows.                              *)
Command(p) ==
    \/ \E x \in Slots :
        \/ \E e \in Expiries(x[1].scope) : Set(p, x, e)
        \/ Delete(p, x)
    \/ \E r \in Refs : Purge(p, r)
    \/ SweepExpired(p)
    \/ \E s \in Scopes, d \in Days, m \in Budgets : RetentionSet(p, s, d, m)

(* The rounds of a sweep.                                                  *)
Sweep(p) ==
    \/ SweepPolicy(p)
    \/ SweepAge(p)
    \/ SweepSelect(p)
    \/ SweepTrim(p)
    \/ SweepNext(p)

Step(p) ==
    \/ Boot(p) \/ Command(p) \/ MemoryWrite(p)
    \/ ReadBack(p) \/ ReportLost(p)
    \/ Sweep(p) \/ Exit(p)

Next == Tick \/ \E p \in Procs : Step(p)

Spec == Init /\ [][Next]_vars

=============================================================================
