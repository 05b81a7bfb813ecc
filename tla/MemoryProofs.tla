---------------------------- MODULE MemoryProofs -----------------------------
(***************************************************************************)
(* Theorems about MemoryStore for any processes, scopes, keys, policies    *)
(* and instants, whatever the processes do between the statements of a     *)
(* sweep.                                                                  *)
(***************************************************************************)
EXTENDS MemorySafety, FiniteSetTheorems, TLAPS

-----------------------------------------------------------------------------
(* Types.  A process in a sweep has a scope left.                          *)
InSweep(p) == pc[p] \in SweepPc

Typed == TypeOK /\ \A p \in Procs : InSweep(p) => call[p].left # {}

(* MEMORY_SCOPES is a list without repetition: what is left has a first.   *)
LEMMA FirstLeft ==
    ASSUME NEW left \in SUBSET Scopes, left # {}
    PROVE  First(left) \in left
<1>1. \A i, j \in 1 .. 5 : i < j => Before(MemoryScopes[i], MemoryScopes[j])
  BY DEF Before, MemoryScopes
<1>2. left \subseteq {MemoryScopes[i] : i \in 1 .. 5}
  BY MemoryAssumption DEF MemoryScopes
<1>3. \E s \in left : \A t \in left \ {s} : Before(s, t)
  <2>1. CASE MemoryScopes[1] \in left
    BY <1>1, <1>2, <2>1
  <2>2. CASE MemoryScopes[1] \notin left /\ MemoryScopes[2] \in left
    BY <1>1, <1>2, <2>2
  <2>3. CASE /\ MemoryScopes[1] \notin left /\ MemoryScopes[2] \notin left
             /\ MemoryScopes[3] \in left
    BY <1>1, <1>2, <2>3
  <2>4. CASE /\ MemoryScopes[1] \notin left /\ MemoryScopes[2] \notin left
             /\ MemoryScopes[3] \notin left /\ MemoryScopes[4] \in left
    BY <1>1, <1>2, <2>4
  <2>5. CASE /\ MemoryScopes[1] \notin left /\ MemoryScopes[2] \notin left
             /\ MemoryScopes[3] \notin left /\ MemoryScopes[4] \notin left
    BY <1>1, <1>2, <2>5
  <2> QED BY <2>1, <2>2, <2>3, <2>4, <2>5
<1> QED BY <1>3 DEF First

LEMMA ScopeType ==
    ASSUME Typed, NEW p \in Procs, InSweep(p)
    PROVE  Scope(p) \in Scopes /\ Scope(p) \in call[p].left
  BY FirstLeft DEF Typed, TypeOK, Call, Scope

LEMMA PolicyType ==
    ASSUME TypeOK
    PROVE  /\ \A s \in Scopes : DefaultPolicy(s) \in Policy
           /\ \A s \in Scopes : RetentionFor(s) \in Policy
           /\ SeedDefaults(policy) \in [Scopes -> Policy \cup {None}]
  BY MemoryAssumption DEF TypeOK, DefaultPolicy, RetentionFor, SeedDefaults, Policy

LEMMA NoCallType == NoCall \in Call
  BY MemoryAssumption DEF NoCall, Call, NoPolicy, Policy

LEMMA InitTyped == Init => Typed
  BY MemoryAssumption, NoCallType DEF Init, Typed, TypeOK, InSweep, SweepPc, RestPc

(* A statement that only moves its own process.                            *)
LEMMA CallTyped ==
    ASSUME Typed, NEW p \in Procs, NEW c \in Call, NEW a \in RestPc \cup SweepPc,
           a \in SweepPc => c.left # {},
           pc' = [pc EXCEPT ![p] = a], call' = [call EXCEPT ![p] = c]
    PROVE  /\ pc' \in [Procs -> RestPc \cup SweepPc]
           /\ call' \in [Procs -> Call]
           /\ \A q \in Procs : InSweep(q)' => call'[q].left # {}
  BY DEF Typed, TypeOK, InSweep

LEMMA RemoveType ==
    ASSUME TypeOK, NEW gone
    PROVE  Remove(gone) \in [Slots -> Row \cup {None}]
  BY DEF TypeOK, Remove

LEMMA ExpiryType ==
    ASSUME TypeOK, NEW s
    PROVE  Expiries(s) \subseteq Int \cup {None}
<1>1. now \in Int /\ ScratchTtl \in Int /\ Instants \subseteq Int /\ Ttls \subseteq Int
  BY MemoryAssumption DEF TypeOK
<1>2. now + ScratchTtl \in Int /\ \A t \in Ttls : now + t \in Int
  BY <1>1
<1> QED BY <1>1, <1>2, ZenonT(30) DEF Expiries

LEMMA SetType ==
    ASSUME Typed, NEW p \in Procs, NEW x \in Slots, NEW e \in Expiries(x[1].scope),
           Set(p, x, e)
    PROVE  Typed'
<1>1. e \in Int \cup {None}
  BY ExpiryType DEF Typed
<1>2. \A id \in Ids : [id |-> id, updated |-> now, expires |-> e] \in Row
  BY <1>1 DEF Row, Typed, TypeOK
<1>3. Present(x) => rows[x].id \in Ids
  BY DEF Present, Typed, TypeOK, Row
<1>4. rows' \in [Slots -> Row \cup {None}] /\ used' \subseteq Ids
  <2>1. CASE Present(x)
    BY <1>2, <1>3, <2>1 DEF Set, Typed, TypeOK
  <2>2. CASE ~Present(x)
    BY <1>2, <2>2 DEF Set, Typed, TypeOK
  <2> QED BY <2>1, <2>2
<1>5. [call[p] EXCEPT !.wrote = {x}] \in Call
  BY DEF Typed, TypeOK, Call
<1>6. /\ pc' = [pc EXCEPT ![p] = "readback"]
      /\ call' = [call EXCEPT ![p] = [call[p] EXCEPT !.wrote = {x}]]
  BY DEF Set
<1>7. "readback" \in RestPc /\ "readback" \notin SweepPc
  BY DEF RestPc, SweepPc
<1>8. /\ pc' \in [Procs -> RestPc \cup SweepPc]
      /\ call' \in [Procs -> Call]
      /\ \A q \in Procs : InSweep(q)' => call'[q].left # {}
  BY <1>5, <1>6, <1>7, CallTyped
<1> QED BY <1>4, <1>8 DEF Set, Typed, TypeOK

(* What a step does to types, one case for each statement.                 *)
LEMMA NextTyped == Typed /\ [Next]_vars => Typed'
<1> SUFFICES ASSUME Typed, [Next]_vars PROVE Typed'
  OBVIOUS
<1>0. CASE UNCHANGED vars
  BY <1>0 DEF Typed, TypeOK, vars, InSweep
<1>1. CASE Tick
  BY <1>1, MemoryAssumption DEF Tick, Typed, TypeOK, InSweep
<1> SUFFICES ASSUME NEW p \in Procs, Step(p) PROVE Typed'
  BY <1>0, <1>1 DEF Next
<1>c. call[p] \in Call /\ call \in [Procs -> Call] /\ call = [call EXCEPT ![p] = call[p]]
  BY DEF Typed, TypeOK
<1>2. CASE Boot(p)
  BY <1>2, PolicyType DEF Boot, Typed, TypeOK, InSweep, SweepPc, RestPc
<1>3. ASSUME NEW x \in Slots, NEW e \in Expiries(x[1].scope), Set(p, x, e)
      PROVE  Typed'
  BY <1>3, SetType
<1>4. ASSUME NEW x \in Slots, Delete(p, x) PROVE Typed'
  BY <1>4, RemoveType DEF Delete, Typed, TypeOK, InSweep
<1>5. ASSUME NEW r \in Refs, Purge(p, r) PROVE Typed'
  BY <1>5, RemoveType DEF Purge, Typed, TypeOK, InSweep
<1>6. CASE SweepExpired(p)
  <2> DEFINE c == [NoCall EXCEPT !.at = now, !.left = Scopes]
  <2>1. c \in Call /\ c.left # {}
    BY <1>6, NoCallType DEF SweepExpired, Call, Typed, TypeOK, NoCall
  <2> QED BY <1>6, <2>1, CallTyped, RemoveType DEF SweepExpired, Typed, TypeOK, SweepPc
<1>7. ASSUME NEW s \in Scopes, NEW d \in Days, NEW b \in Budgets,
             RetentionSet(p, s, d, b)
      PROVE  Typed'
  <2>1. [days |-> d, max |-> b] \in Policy
    BY MemoryAssumption DEF Policy
  <2> QED BY <1>7, <2>1 DEF RetentionSet, Typed, TypeOK, InSweep
<1>8. CASE SweepPolicy(p)
  <2> DEFINE pol == RetentionFor(Scope(p))
             c == [call[p] EXCEPT !.policy = pol]
             a == IF pol.days > 0 THEN "age" ELSE "select"
  <2>1. InSweep(p)
    BY <1>8 DEF SweepPolicy, InSweep, SweepPc
  <2>2. pol \in Policy
    BY <2>1, ScopeType, PolicyType DEF Typed
  <2>3. c \in Call /\ c.left # {} /\ a \in SweepPc
    BY <2>1, <2>2, <1>c DEF Call, Typed, SweepPc
  <2>4. pc' = [pc EXCEPT ![p] = a] /\ call' = [call EXCEPT ![p] = c]
    BY <1>8, <1>c DEF SweepPolicy
  <2> HIDE DEF c, a
  <2> QED BY <1>8, <2>3, <2>4, CallTyped DEF SweepPolicy, Typed, TypeOK
<1>9. CASE SweepAge(p)
  <2>1. InSweep(p) /\ call' = [call EXCEPT ![p] = call[p]]
    BY <1>9, <1>c DEF SweepAge, InSweep, SweepPc
  <2> QED BY <1>9, <2>1, <1>c, CallTyped, RemoveType DEF SweepAge, Typed, TypeOK, SweepPc
<1>10. CASE SweepSelect(p)
  <2> DEFINE d == IdsBeyondMax(Scope(p), call[p].policy.max)
             c == [call[p] EXCEPT !.doomed = d, !.saw = now]
  <2>1. d \subseteq Ids
    BY DEF IdsBeyondMax, Present, Typed, TypeOK, Row, SlotsOf
  <2> HIDE DEF d
  <2>2. InSweep(p) /\ call' = [call EXCEPT ![p] = c]
    BY <1>10, <1>c DEF SweepSelect, InSweep, SweepPc, d
  <2>3. c \in Call /\ c.left = call[p].left
    BY <2>1, <1>c DEF Call, Typed, TypeOK
  <2> HIDE DEF c
  <2> QED BY <1>10, <2>2, <2>3, CallTyped DEF SweepSelect, Typed, TypeOK, SweepPc
<1>11. CASE SweepTrim(p)
  <2> PICK id \in call[p].doomed :
        /\ rows' = Remove({x \in Slots : Present(x) /\ rows[x].id = id})
        /\ call' = [call EXCEPT ![p].doomed = call[p].doomed \ {id}]
    BY <1>11 DEF SweepTrim
  <2> DEFINE c == [call[p] EXCEPT !.doomed = call[p].doomed \ {id}]
  <2>1. c \in Call /\ c.left = call[p].left
    BY <1>c DEF Call
  <2>2. InSweep(p) /\ call' = [call EXCEPT ![p] = c] /\ pc' = [pc EXCEPT ![p] = pc[p]]
    BY <1>11, <1>c DEF SweepTrim, InSweep, SweepPc, Typed, TypeOK
  <2> HIDE DEF c
  <2>3. /\ pc' \in [Procs -> RestPc \cup SweepPc]
        /\ call' \in [Procs -> Call]
        /\ \A q \in Procs : InSweep(q)' => call'[q].left # {}
    BY <2>1, <2>2, CallTyped DEF InSweep, Typed
  <2>4. rows' \in [Slots -> Row \cup {None}]
    BY RemoveType DEF Typed
  <2> QED BY <1>11, <2>3, <2>4 DEF SweepTrim, Typed, TypeOK
<1>12. CASE SweepNext(p)
  <2>1. CASE call[p].left # {Scope(p)}
    <3> DEFINE c == [call[p] EXCEPT !.left = call[p].left \ {Scope(p)}]
    <3>1. InSweep(p)
      BY <1>12 DEF SweepNext, InSweep, SweepPc
    <3>2. c \in Call /\ c.left # {}
      BY <2>1, <3>1, <1>c DEF Call, Typed
    <3>3. call' = [call EXCEPT ![p] = c] /\ pc' = [pc EXCEPT ![p] = "policy"]
      BY <1>12, <2>1, <1>c DEF SweepNext
    <3> HIDE DEF c
    <3> QED BY <1>12, <3>2, <3>3, CallTyped DEF SweepNext, Typed, TypeOK, SweepPc
  <2>2. CASE call[p].left = {Scope(p)}
    BY <1>12, <2>2, NoCallType, CallTyped DEF SweepNext, Typed, TypeOK, SweepPc, RestPc
  <2> QED BY <2>1, <2>2
<1>13. CASE Exit(p)
  BY <1>13, NoCallType, CallTyped DEF Exit, Typed, TypeOK, SweepPc, RestPc
<1>14. CASE ReadBack(p)
  <2>1. PICK a \in {"idle", "lost"} : pc' = [pc EXCEPT ![p] = a]
    BY <1>14 DEF ReadBack
  <2>2. a \in RestPc /\ a \notin SweepPc
    BY DEF RestPc, SweepPc
  <2> QED BY <1>14, <2>1, <2>2, NoCallType, CallTyped DEF ReadBack, Typed, TypeOK
<1>15. CASE ReportLost(p)
  BY <1>15, <1>c, CallTyped DEF ReportLost, Typed, TypeOK, SweepPc, RestPc
<1> QED BY <1>2, <1>3, <1>4, <1>5, <1>6, <1>7, <1>8, <1>9, <1>10, <1>11, <1>12, <1>13, <1>14,
           <1>15
        DEF Step, Command, MemoryWrite, Sweep

(* Every reachable state of the memory is well typed.                      *)
THEOREM TypeCorrect == Spec => []TypeOK
<1>1. Typed => TypeOK
  BY DEF Typed
<1> QED BY <1>1, InitTyped, NextTyped, PTL DEF Spec

-----------------------------------------------------------------------------
(* An operator's policy: the seed of a start writes only where nothing is. *)
LEMMA PolicyKept == Typed /\ OperatorPolicyStands /\ [Next]_vars => OperatorPolicyStands'
<1> SUFFICES ASSUME Typed, OperatorPolicyStands, [Next]_vars PROVE OperatorPolicyStands'
  OBVIOUS
<1>0. CASE UNCHANGED <<policy, chosen>>
  BY <1>0 DEF OperatorPolicyStands
<1>1. ASSUME NEW p \in Procs, Boot(p) PROVE OperatorPolicyStands'
  BY <1>1 DEF Boot, SeedDefaults, OperatorPolicyStands
<1>2. ASSUME NEW p \in Procs, NEW s \in Scopes, NEW d \in Days, NEW b \in Budgets,
             RetentionSet(p, s, d, b)
      PROVE  OperatorPolicyStands'
  BY <1>2 DEF RetentionSet, OperatorPolicyStands, Typed, TypeOK
<1> QED
  BY <1>0, <1>1, <1>2
     DEF Next, vars, Tick, Step, Command, MemoryWrite, Sweep, Set, Delete, Purge,
         SweepExpired, SweepPolicy, SweepAge, SweepSelect, SweepTrim, SweepNext, Exit,
         ReadBack, ReportLost

(* OperatorPolicyStands: no start of a process, of any number of them,     *)
(* undoes a retention policy the operator set.                             *)
THEOREM PolicyStands == Spec => []OperatorPolicyStands
<1>1. Init => OperatorPolicyStands
  BY DEF Init, OperatorPolicyStands
<1> QED BY <1>1, PolicyKept, InitTyped, NextTyped, PTL DEF Spec

-----------------------------------------------------------------------------
(* Rows.  One id names one row, and no row is from the future.             *)
RowInv ==
    /\ \A x \in Slots : Present(x) => rows[x].id \in used /\ rows[x].updated <= now
    /\ \A x, y \in Slots :
        Present(x) /\ Present(y) /\ rows[x].id = rows[y].id => x = y

(* What any step does to the rows: some are deleted, or one is written     *)
(* now, under the id it had or a new one.                                  *)
Kept(x) == rows'[x] = rows[x] \/ rows'[x] = None

Written(x) ==
    /\ rows'[x] \in Row
    /\ rows'[x].updated = now
    /\ rows'[x].id \in used'
    /\ IF Present(x) THEN rows'[x].id = rows[x].id ELSE rows'[x].id \notin used

Moves ==
    /\ \/ \A x \in Slots : Kept(x)
       \/ \E w \in Slots : Written(w) /\ \A x \in Slots \ {w} : rows'[x] = rows[x]
    /\ used \subseteq used'
    /\ now <= now' /\ now' \in Int /\ now \in Int

(* The row a Set leaves in its slot.                                       *)
LEMMA SetWrites ==
    ASSUME Typed, RowInv, NEW p \in Procs, NEW x \in Slots,
           NEW e \in Expiries(x[1].scope), Set(p, x, e)
    PROVE  Written(x) /\ used \subseteq used' /\ \A y \in Slots \ {x} : rows'[y] = rows[y]
<1>1. e \in Int \cup {None}
  BY ExpiryType DEF Typed
<1>2. ASSUME NEW i \in Ids PROVE [id |-> i, updated |-> now, expires |-> e] \in Row
  BY <1>1 DEF Typed, TypeOK, Row
<1>3. rows \in [Slots -> Row \cup {None}]
  BY DEF Typed, TypeOK
<1>4. CASE Present(x)
  <2>1. rows' = [rows EXCEPT ![x] = [id |-> rows[x].id, updated |-> now, expires |-> e]]
        /\ used' = used
    BY <1>4 DEF Set
  <2>2. rows[x].id \in Ids /\ rows[x].id \in used
    BY <1>3, <1>4 DEF Present, Row, RowInv
  <2> QED BY <1>2, <1>3, <1>4, <2>1, <2>2 DEF Written
<1>5. CASE ~Present(x)
  <2> PICK i \in Ids \ used :
        /\ rows' = [rows EXCEPT ![x] = [id |-> i, updated |-> now, expires |-> e]]
        /\ used' = used \cup {i}
    BY <1>5 DEF Set
  <2> QED BY <1>2, <1>3, <1>5 DEF Written
<1> QED BY <1>4, <1>5

LEMMA NextMoves == Typed /\ RowInv /\ [Next]_vars => Moves
<1> SUFFICES ASSUME Typed, RowInv, [Next]_vars PROVE Moves
  OBVIOUS
<1>n. now \in Int /\ MaxTime \in Int
  BY MemoryAssumption DEF Typed, TypeOK
<1>d. ASSUME NEW gone, rows' = Remove(gone), used' = used, now' = now PROVE Moves
  BY <1>n, <1>d DEF Remove, Moves, Kept
<1>k. CASE rows' = rows /\ used' = used /\ now <= now' /\ now' \in Int
  BY <1>n, <1>k DEF Moves, Kept
<1>0. CASE UNCHANGED vars
  BY <1>0, <1>k, <1>n DEF vars
<1>1. CASE Tick
  BY <1>1, <1>k, <1>n DEF Tick
<1> SUFFICES ASSUME NEW p \in Procs, Step(p) PROVE Moves
  BY <1>0, <1>1 DEF Next
<1>2. ASSUME NEW x \in Slots, NEW e \in Expiries(x[1].scope), Set(p, x, e)
      PROVE  Moves
  <2>1. now' = now /\ Written(x) /\ used \subseteq used'
        /\ \A y \in Slots \ {x} : rows'[y] = rows[y]
    BY <1>2, SetWrites DEF Set
  <2> QED BY <1>n, <2>1 DEF Moves
<1>3. CASE \/ \E x \in Slots : Delete(p, x)
           \/ \E r \in Refs : Purge(p, r)
           \/ SweepExpired(p) \/ SweepAge(p) \/ SweepTrim(p)
  BY <1>3, <1>d DEF Delete, Purge, SweepExpired, SweepAge, SweepTrim
<1>4. CASE \/ Boot(p) \/ Exit(p) \/ SweepPolicy(p) \/ SweepSelect(p) \/ SweepNext(p)
           \/ ReadBack(p) \/ ReportLost(p)
           \/ \E s \in Scopes, d \in Days, b \in Budgets : RetentionSet(p, s, d, b)
  BY <1>4, <1>k, <1>n
     DEF Boot, Exit, SweepPolicy, SweepSelect, SweepNext, RetentionSet, ReadBack, ReportLost
<1> QED BY <1>2, <1>3, <1>4 DEF Step, Command, MemoryWrite, Sweep

LEMMA RowsKept == Typed /\ RowInv /\ Moves /\ Typed' => RowInv'
<1> SUFFICES ASSUME Typed, RowInv, Moves, Typed' PROVE RowInv'
  OBVIOUS
<1>1. \A x \in Slots : Present(x) => rows[x].updated \in Int
  BY DEF Present, Typed, TypeOK, Row
<1>2. CASE \A x \in Slots : Kept(x)
  BY <1>1, <1>2 DEF Moves, RowInv, Present, Kept
<1>3. ASSUME NEW w \in Slots, Written(w), \A x \in Slots \ {w} : rows'[x] = rows[x]
      PROVE  RowInv'
  <2>1. \A x \in Slots : Present(x)' => rows'[x].id \in used' /\ rows'[x].updated <= now'
    BY <1>1, <1>3 DEF Moves, RowInv, Present, Written
  <2>2. \A x \in Slots \ {w} : Present(x)' => rows'[x].id # rows'[w].id
    BY <1>3 DEF RowInv, Present, Written
  <2> QED BY <1>3, <2>1, <2>2 DEF RowInv, Present
<1> QED BY <1>2, <1>3 DEF Moves

-----------------------------------------------------------------------------
(* The order idsBeyondMax counts in is strict and total on the rows that   *)
(* are there, and a row of a scope has finitely many ahead of it.          *)
There(s) == {x \in SlotsOf(s) : Present(x)}

LEMMA Ordered ==
    ASSUME Typed, RowInv, NEW s, NEW x \in There(s), NEW y \in There(s)
    PROVE  /\ x # y => Newer(x, y) \/ Newer(y, x)
           /\ Newer(x, y) => Ahead(s, x) \subseteq Ahead(s, y)
           /\ Newer(x, y) => x \in Ahead(s, y) /\ x \notin Ahead(s, x)
<1>1. \A z \in There(s) : rows[z].updated \in Int /\ rows[z].id \in Int
  BY DEF There, SlotsOf, Present, Typed, TypeOK, Row, Ids
<1>2. \A z \in There(s) : z \in Slots /\ Present(z) /\ z \in SlotsOf(s)
  BY DEF There, SlotsOf
<1>3. x # y => rows[x].id # rows[y].id
  BY <1>2 DEF RowInv
<1>4. x # y => Newer(x, y) \/ Newer(y, x)
  BY <1>1, <1>3 DEF Newer
<1>5. Newer(x, y) => \A z \in There(s) : Newer(z, x) => Newer(z, y)
  BY <1>1 DEF Newer
<1>6. ~Newer(x, x)
  BY <1>1 DEF Newer
<1> QED BY <1>2, <1>4, <1>5, <1>6 DEF Ahead, There

LEMMA RowsFinite ==
    ASSUME Typed, RowInv, NEW s
    PROVE  IsFiniteSet(There(s))
<1> DEFINE f == [x \in There(s) |-> rows[x].id]
<1>1. f \in Injection(There(s), Ids)
  <2>1. \A x \in There(s) : x \in Slots /\ Present(x) /\ rows[x].id \in Ids
    BY DEF There, SlotsOf, Present, Typed, TypeOK, Row
  <2>2. \A x, y \in There(s) : rows[x].id = rows[y].id => x = y
    BY <2>1 DEF RowInv
  <2> QED BY <2>1, <2>2 DEF Injection, IsInjective
<1>2. IsFiniteSet(Ids)
  BY MemoryAssumption, FS_Interval DEF Ids
<1> QED BY <1>1, <1>2, FS_Injection

LEMMA AheadFinite ==
    ASSUME Typed, RowInv, NEW s, NEW x
    PROVE  IsFiniteSet(Ahead(s, x)) /\ Cardinality(Ahead(s, x)) \in Nat
<1>1. Ahead(s, x) \in SUBSET There(s)
  BY DEF Ahead, There
<1> QED BY <1>1, RowsFinite, FS_Subset, FS_CardinalityType

(* A row further down has more ahead of it.                                *)
LEMMA AheadGrows ==
    ASSUME Typed, RowInv, NEW s, NEW x \in There(s), NEW y \in There(s), Newer(x, y)
    PROVE  Cardinality(Ahead(s, x)) < Cardinality(Ahead(s, y))
<1>1. Ahead(s, x) \in SUBSET Ahead(s, y) /\ Ahead(s, x) # Ahead(s, y)
  BY Ordered
<1> HIDE DEF Ahead
<1>2. IsFiniteSet(Ahead(s, y)) /\ Cardinality(Ahead(s, y)) \in Nat /\ Cardinality(Ahead(s, x)) \in Nat
  BY AheadFinite
<1>3. /\ Cardinality(Ahead(s, x)) <= Cardinality(Ahead(s, y))
      /\ Cardinality(Ahead(s, y)) = Cardinality(Ahead(s, x)) => Ahead(s, y) = Ahead(s, x)
  BY <1>1, <1>2, FS_Subset
<1> QED BY <1>1, <1>2, <1>3

(* OFFSET max: at most max rows of a scope have fewer than max ahead.      *)
LEMMA BudgetCounts ==
    ASSUME Typed, RowInv, NEW s, NEW max \in Nat \ {0}
    PROVE  LET kept == {x \in There(s) : Cardinality(Ahead(s, x)) < max}
           IN  IsFiniteSet(kept) /\ Cardinality(kept) <= max
<1> DEFINE kept == {x \in There(s) : Cardinality(Ahead(s, x)) < max}
           f == [x \in kept |-> Cardinality(Ahead(s, x))]
<1>1. \A x \in kept : f[x] \in 0 .. max - 1
  BY AheadFinite
<1>2. \A x, y \in kept : f[x] = f[y] => x = y
  <2> SUFFICES ASSUME NEW x \in kept, NEW y \in kept, x # y PROVE f[x] # f[y]
    OBVIOUS
  <2>1. Newer(x, y) \/ Newer(y, x)
    BY Ordered
  <2>2. \/ Cardinality(Ahead(s, x)) < Cardinality(Ahead(s, y))
        \/ Cardinality(Ahead(s, y)) < Cardinality(Ahead(s, x))
    BY <2>1, AheadGrows
  <2>3. Cardinality(Ahead(s, x)) \in Nat /\ Cardinality(Ahead(s, y)) \in Nat
    BY AheadFinite
  <2> QED BY <2>2, <2>3
<1>3. f \in Injection(kept, 0 .. max - 1)
  BY <1>1, <1>2 DEF Injection, IsInjective
<1>4. IsFiniteSet(0 .. max - 1) /\ Cardinality(0 .. max - 1) = max
  BY FS_Interval
<1> HIDE DEF kept, f
<1>5. IsFiniteSet(kept) /\ Cardinality(kept) <= Cardinality(0 .. max - 1)
  BY <1>3, <1>4, FS_Injection
<1> QED BY <1>4, <1>5 DEF kept

-----------------------------------------------------------------------------
(* A sweep.  What its statements have established stays so, as whatever is *)
(* written meanwhile is written now.                                       *)
Untrimmed(p) ==
    {x \in There(Scope(p)) :
        rows[x].updated < call[p].saw /\ rows[x].id \notin call[p].doomed}

ExpiredInv(p) ==
    /\ call[p].at <= now
    /\ \A x \in Expired(call[p].at) : rows[x].updated >= call[p].at

AgedInv(p) ==
    pc[p] \in {"select", "trim"} /\ call[p].policy.days > 0 =>
        Aged(Scope(p), call[p].at - call[p].policy.days) = {}

TrimInv(p) ==
    pc[p] = "trim" =>
        /\ call[p].saw <= now
        /\ IsFiniteSet(Untrimmed(p)) /\ Cardinality(Untrimmed(p)) <= call[p].policy.max
        /\ \A x, y \in There(Scope(p)) :
            /\ rows[x].id \in call[p].doomed /\ rows[x].updated < call[p].saw
            /\ rows[y].id \notin call[p].doomed
            => rows[x].updated <= rows[y].updated

SweepInv ==
    \A p \in Procs : InSweep(p) => ExpiredInv(p) /\ AgedInv(p) /\ TrimInv(p)

Inv == Typed /\ RowInv /\ SweepInv

LEMMA Types ==
    ASSUME Typed
    PROVE  /\ \A x \in Slots : Present(x) =>
                /\ rows[x] \in Row /\ rows[x].id \in Int /\ rows[x].updated \in Int
                /\ rows[x].updated >= 0
           /\ \A p \in Procs : /\ call[p].at \in Int /\ call[p].saw \in Int
                               /\ call[p].policy.days \in Int
                               /\ call[p].policy.max \in Nat \ {0}
           /\ None \notin Row
  BY MemoryAssumption DEF Typed, TypeOK, Present, Row, Call, Policy, Ids

(* A slot that is there afterwards was there, or is written now.           *)
LEMMA Afterwards ==
    ASSUME Typed, Moves, NEW x \in Slots, Present(x)'
    PROVE  \/ Present(x) /\ rows'[x] = rows[x]
           \/ rows'[x].updated = now
  BY DEF Moves, Kept, Written, Present

(* What another process does to the rows leaves a sweep's facts.           *)
LEMMA ExpiredStays ==
    ASSUME Inv, Moves, NEW p \in Procs, ExpiredInv(p), call'[p] = call[p]
    PROVE  ExpiredInv(p)'
<1>1. call'[p].at <= now'
  BY Types DEF ExpiredInv, Moves, Inv
<1>2. ASSUME NEW x \in Slots, Present(x)', rows'[x].expires # None,
             rows'[x].expires <= call[p].at
      PROVE  rows'[x].updated >= call[p].at
  <2>1. CASE Present(x) /\ rows'[x] = rows[x]
    BY <1>2, <2>1 DEF ExpiredInv, Expired
  <2>2. CASE rows'[x].updated = now
    BY <2>2, Types DEF ExpiredInv, Moves, Inv
  <2> QED BY <1>2, <2>1, <2>2, Afterwards DEF Inv
<1> QED BY <1>1, <1>2 DEF ExpiredInv, Expired

LEMMA AgedStays ==
    ASSUME Inv, Moves, NEW p \in Procs, ExpiredInv(p), AgedInv(p),
           call'[p] = call[p], pc'[p] = pc[p]
    PROVE  AgedInv(p)'
<1> SUFFICES ASSUME pc[p] \in {"select", "trim"}, call[p].policy.days > 0,
                    NEW x \in Slots, x \in SlotsOf(Scope(p)), Present(x)'
             PROVE  ~(rows'[x].updated < call[p].at - call[p].policy.days)
  BY DEF AgedInv, Aged, Scope, SlotsOf
<1>1. call[p].at \in Int /\ call[p].policy.days \in Int /\ now \in Int /\ call[p].at <= now
  BY Types DEF ExpiredInv, Moves, Inv
<1>2. CASE Present(x) /\ rows'[x] = rows[x]
  BY <1>2 DEF AgedInv, Aged
<1>3. CASE rows'[x].updated = now
  BY <1>1, <1>3
<1> QED BY <1>2, <1>3, Afterwards DEF Inv

LEMMA TrimStays ==
    ASSUME Inv, Moves, NEW p \in Procs, TrimInv(p), call'[p] = call[p], pc'[p] = pc[p]
    PROVE  TrimInv(p)'
<1> SUFFICES ASSUME pc[p] = "trim" PROVE TrimInv(p)'
  BY DEF TrimInv
<1>0. /\ call[p].saw <= now /\ now <= now' /\ call[p].saw \in Int /\ now \in Int /\ now' \in Int
      /\ call[p].policy.max \in Nat
  BY Types DEF Moves, TrimInv, Inv
<1>1. Scope(p)' = Scope(p)
  BY DEF Scope
<1>2. \A x \in There(Scope(p))' :
        /\ x \in Slots /\ Present(x)' /\ x \in SlotsOf(Scope(p))
        /\ \/ x \in There(Scope(p)) /\ rows'[x] = rows[x]
           \/ rows'[x].updated = now
  BY <1>1, Afterwards DEF There, SlotsOf, Inv
<1>3. Untrimmed(p)' \in SUBSET Untrimmed(p)
  <2> SUFFICES ASSUME NEW x \in There(Scope(p))', rows'[x].updated < call[p].saw,
                      rows'[x].id \notin call[p].doomed
               PROVE  x \in Untrimmed(p)
    BY <1>1 DEF Untrimmed
  <2> QED BY <1>0, <1>2 DEF Untrimmed
<1>4. IsFiniteSet(Untrimmed(p)) /\ Cardinality(Untrimmed(p)) <= call[p].policy.max
  BY DEF TrimInv
<1>5. IsFiniteSet(Untrimmed(p)') /\ Cardinality(Untrimmed(p)') <= call[p].policy.max
  <2> DEFINE S == Untrimmed(p)
             T == Untrimmed(p)'
  <2>1. IsFiniteSet(S) /\ T \in SUBSET S /\ Cardinality(S) <= call[p].policy.max
    BY <1>3, <1>4
  <2> HIDE DEF S, T
  <2>2. IsFiniteSet(T) /\ Cardinality(T) <= Cardinality(S)
        /\ Cardinality(T) \in Nat /\ Cardinality(S) \in Nat
    BY <2>1, FS_Subset, FS_CardinalityType
  <2>3. IsFiniteSet(T) /\ Cardinality(T) <= call[p].policy.max
    BY <1>0, <2>1, <2>2
  <2> QED BY <2>3 DEF T
<1>6. ASSUME NEW x \in There(Scope(p))', NEW y \in There(Scope(p))',
             rows'[x].id \in call[p].doomed, rows'[x].updated < call[p].saw,
             rows'[y].id \notin call[p].doomed
      PROVE  rows'[x].updated <= rows'[y].updated
  <2>1. x \in There(Scope(p)) /\ rows'[x] = rows[x]
    BY <1>0, <1>2, <1>6
  <2>2. CASE y \in There(Scope(p)) /\ rows'[y] = rows[y]
    BY <1>6, <2>1, <2>2 DEF TrimInv
  <2>3. CASE rows'[y].updated = now
    BY <1>0, <1>6, <2>1, <2>3, Types DEF There, SlotsOf, Inv
  <2> QED BY <1>2, <2>2, <2>3
<1> QED BY <1>0, <1>1, <1>5, <1>6 DEF TrimInv

Holds(p) == ExpiredInv(p) /\ AgedInv(p) /\ TrimInv(p)

LEMMA OthersStay ==
    ASSUME Inv, Moves, NEW p \in Procs, call'[p] = call[p], pc'[p] = pc[p], InSweep(p)'
    PROVE  Holds(p)'
<1>1. InSweep(p)
  BY DEF InSweep
<1> QED BY <1>1, ExpiredStays, AgedStays, TrimStays DEF Inv, SweepInv, Holds

(* The count: what is beyond the budget has max rows ahead of it, so it is *)
(* no newer than a row that is not beyond it.                              *)
LEMMA SelectHolds ==
    ASSUME Inv, Moves, NEW p \in Procs, SweepSelect(p)
    PROVE  Holds(p)'
<1> DEFINE s == Scope(p)
           max == call[p].policy.max
           beyond == IdsBeyondMax(s, max)
           kept == {x \in There(s) : Cardinality(Ahead(s, x)) < max}
<1>1. /\ call'[p] = [call[p] EXCEPT !.doomed = beyond, !.saw = now]
      /\ pc[p] = "select" /\ pc'[p] = "trim"
      /\ rows' = rows /\ now' = now /\ now \in Int /\ max \in Nat \ {0}
  BY Types DEF SweepSelect, Inv, Typed, TypeOK, Call, Moves
<1>2. /\ call'[p].doomed = beyond /\ call'[p].saw = now /\ call'[p].at = call[p].at
      /\ call'[p].policy = call[p].policy /\ call'[p].left = call[p].left
  BY <1>1 DEF Inv, Typed, TypeOK, Call
<1>3. ExpiredInv(p) /\ AgedInv(p)
  BY <1>1 DEF Inv, SweepInv, InSweep, SweepPc
<1>4. Scope(p)' = s
  BY <1>2 DEF Scope
<1>5. ExpiredInv(p)' /\ AgedInv(p)'
  BY <1>1, <1>2, <1>3, <1>4 DEF ExpiredInv, AgedInv, Expired, Aged, Present, SlotsOf
<1>6. \A x \in There(s) : rows[x].id \in beyond <=> ~(Cardinality(Ahead(s, x)) < max)
  <2>1. \A x \in There(s) : Cardinality(Ahead(s, x)) \in Nat
    BY AheadFinite DEF Inv
  <2>2. \A x \in There(s) : x \in Slots /\ x \in SlotsOf(s) /\ Present(x)
    BY DEF There, SlotsOf
  <2>3. \A x, y \in There(s) : rows[x].id = rows[y].id => x = y
    BY <2>2 DEF Inv, RowInv
  <2>4. \A x \in There(s) : Cardinality(Ahead(s, x)) >= max <=> ~(Cardinality(Ahead(s, x)) < max)
    BY <1>1, <2>1
  <2>5. \A i : i \in beyond <=>
            \E y \in There(s) : rows[y].id = i /\ Cardinality(Ahead(s, y)) >= max
    BY DEF IdsBeyondMax, There
  <2> HIDE DEF beyond, max, s
  <2> QED BY <2>3, <2>4, <2>5, Zenon
<1>7. There(s)' = There(s)
  BY <1>1, <1>4 DEF There, SlotsOf, Present
<1>8. IsFiniteSet(kept) /\ Cardinality(kept) <= max
  BY <1>1, BudgetCounts DEF Inv
<1>9. Untrimmed(p)' \in SUBSET kept
  BY <1>1, <1>2, <1>4, <1>6, <1>7 DEF Untrimmed
<1>10. IsFiniteSet(Untrimmed(p)') /\ Cardinality(Untrimmed(p)') <= max
  <2> DEFINE T == Untrimmed(p)'
  <2> HIDE DEF kept, T, max
  <2>1. T \in SUBSET kept
    BY <1>9 DEF T
  <2>2. IsFiniteSet(T) /\ Cardinality(T) <= Cardinality(kept)
        /\ Cardinality(T) \in Nat /\ Cardinality(kept) \in Nat
    BY <1>8, <2>1, FS_Subset, FS_CardinalityType
  <2>3. IsFiniteSet(T) /\ Cardinality(T) <= max
    BY <1>1, <1>8, <2>2
  <2> QED BY <2>3 DEF T
<1>11. ASSUME NEW x \in There(s), NEW y \in There(s),
              rows[x].id \in beyond, rows[y].id \notin beyond
       PROVE  rows[x].updated <= rows[y].updated
  <2>1. ~(Cardinality(Ahead(s, x)) < max) /\ Cardinality(Ahead(s, y)) < max
    BY <1>6, <1>11
  <2>2. Cardinality(Ahead(s, x)) \in Nat /\ Cardinality(Ahead(s, y)) \in Nat
    BY AheadFinite DEF Inv
  <2>3. ~Newer(x, y)
    BY <1>1, <2>1, <2>2, AheadGrows DEF Inv
  <2>4. rows[x].updated \in Int /\ rows[y].updated \in Int
    BY Types DEF There, SlotsOf, Inv
  <2> QED BY <2>3, <2>4 DEF Newer
<1>12. TrimInv(p)'
  BY <1>1, <1>2, <1>4, <1>7, <1>10, <1>11 DEF TrimInv
<1> QED BY <1>5, <1>12 DEF Holds

(* A deletion by id takes the row that is on the list, and no other.       *)
LEMMA TrimHolds ==
    ASSUME Inv, Moves, NEW p \in Procs, SweepTrim(p)
    PROVE  Holds(p)'
<1> PICK id \in call[p].doomed :
        /\ rows' = Remove({x \in Slots : Present(x) /\ rows[x].id = id})
        /\ call' = [call EXCEPT ![p].doomed = call[p].doomed \ {id}]
  BY DEF SweepTrim
<1>1. /\ call'[p].doomed = call[p].doomed \ {id} /\ call'[p].saw = call[p].saw
      /\ call'[p].at = call[p].at /\ call'[p].policy = call[p].policy
      /\ call'[p].left = call[p].left /\ pc[p] = "trim" /\ pc'[p] = "trim" /\ now' = now
  BY DEF SweepTrim, Inv, Typed, TypeOK, Call
<1>2. ExpiredInv(p) /\ AgedInv(p) /\ TrimInv(p)
  BY <1>1 DEF Inv, SweepInv, InSweep, SweepPc
<1>3. Scope(p)' = Scope(p)
  BY <1>1 DEF Scope
<1>4. \A x \in Slots : Present(x)' => Present(x) /\ rows'[x] = rows[x] /\ rows[x].id # id
  BY DEF Remove, Present
<1>5. \A x \in There(Scope(p))' :
        x \in There(Scope(p)) /\ rows'[x] = rows[x] /\ rows[x].id # id
  BY <1>3, <1>4 DEF There, SlotsOf
<1>6. ExpiredInv(p)' /\ AgedInv(p)'
  <2>1. ExpiredInv(p)'
    BY <1>1, <1>2, <1>4 DEF ExpiredInv, Expired
  <2>2. AgedInv(p)'
    BY <1>1, <1>2, <1>3, <1>4 DEF AgedInv, Aged, SlotsOf
  <2> QED BY <2>1, <2>2
<1>7. Untrimmed(p)' \in SUBSET Untrimmed(p)
  BY <1>1, <1>5 DEF Untrimmed
<1>8. IsFiniteSet(Untrimmed(p)') /\ Cardinality(Untrimmed(p)') <= call[p].policy.max
  <2> DEFINE S == Untrimmed(p)
             T == Untrimmed(p)'
  <2>1. /\ IsFiniteSet(S) /\ T \in SUBSET S /\ Cardinality(S) <= call[p].policy.max
        /\ call[p].policy.max \in Nat
    BY <1>1, <1>2, <1>7, Types DEF TrimInv, Inv
  <2> HIDE DEF S, T
  <2>2. IsFiniteSet(T) /\ Cardinality(T) <= Cardinality(S)
        /\ Cardinality(T) \in Nat /\ Cardinality(S) \in Nat
    BY <2>1, FS_Subset, FS_CardinalityType
  <2>3. IsFiniteSet(T) /\ Cardinality(T) <= call[p].policy.max
    BY <2>1, <2>2
  <2> QED BY <2>3 DEF T
<1>9. \A x, y \in There(Scope(p))' :
        /\ rows'[x].id \in call'[p].doomed /\ rows'[x].updated < call'[p].saw
        /\ rows'[y].id \notin call'[p].doomed
        => rows'[x].updated <= rows'[y].updated
  BY <1>1, <1>2, <1>5 DEF TrimInv
<1>10. TrimInv(p)'
  BY <1>1, <1>2, <1>8, <1>9 DEF TrimInv
<1> QED BY <1>6, <1>10 DEF Holds

(* A sweep's own statements.                                               *)
LEMMA SweepHolds ==
    ASSUME Inv, Moves, NEW p \in Procs, SweepExpired(p) \/ Sweep(p), InSweep(p)'
    PROVE  Holds(p)'
<1>t. /\ call \in [Procs -> Call] /\ pc \in [Procs -> RestPc \cup SweepPc]
      /\ call[p].at \in Int /\ call[p].policy.days \in Int /\ now \in Int
  BY Types DEF Inv, Typed, TypeOK, Moves
<1>1. CASE SweepExpired(p)
  <2>1. /\ pc'[p] = "policy" /\ call'[p].at = now /\ now' = now
        /\ rows' = Remove(Expired(now))
    BY <1>1, <1>t DEF SweepExpired, NoCall
  <2>2. \A x \in Slots : Present(x)' => Present(x) /\ rows'[x] = rows[x] /\ x \notin Expired(now)
    BY <2>1 DEF Remove, Present
  <2>3. Expired(now)' = {}
    BY <2>1, <2>2 DEF Expired
  <2> QED BY <1>t, <2>1, <2>2 DEF Holds, ExpiredInv, AgedInv, TrimInv, Expired
<1>2. CASE SweepPolicy(p)
  <2> DEFINE pol == RetentionFor(Scope(p))
  <2>1. /\ call'[p] = [call[p] EXCEPT !.policy = pol] /\ rows' = rows /\ now' = now
        /\ pc[p] = "policy" /\ pc'[p] = IF pol.days > 0 THEN "age" ELSE "select"
    BY <1>2, <1>t DEF SweepPolicy
  <2>2. call'[p].at = call[p].at /\ call'[p].policy = pol
    BY <2>1, <1>t DEF Call
  <2>3. ExpiredInv(p)
    BY <2>1 DEF Inv, SweepInv, InSweep, SweepPc
  <2> HIDE DEF pol
  <2>4. ExpiredInv(p)'
    BY <2>1, <2>2, <2>3 DEF ExpiredInv, Expired, Present
  <2>5. AgedInv(p)' /\ TrimInv(p)'
    BY <2>1, <2>2 DEF AgedInv, TrimInv
  <2> QED BY <2>4, <2>5 DEF Holds
<1>3. CASE SweepAge(p)
  <2> DEFINE cutoff == call[p].at - call[p].policy.days
  <2>1. /\ rows' = Remove(Aged(Scope(p), cutoff)) /\ call' = call /\ now' = now
        /\ pc[p] = "age" /\ pc'[p] = "select"
    BY <1>3, <1>t DEF SweepAge
  <2>2. ExpiredInv(p) /\ ExpiredInv(p)'
    BY <2>1, ExpiredStays DEF Inv, SweepInv, InSweep, SweepPc
  <2>3. \A x \in Slots : Present(x)' => /\ Present(x) /\ rows'[x] = rows[x]
                                        /\ x \notin Aged(Scope(p), cutoff)
    BY <2>1 DEF Remove, Present
  <2>4. Scope(p)' = Scope(p)
    BY <2>1 DEF Scope
  <2> HIDE DEF cutoff
  <2>5. \A x \in SlotsOf(Scope(p)) : Present(x)' => ~(rows'[x].updated < cutoff)
    BY <2>3 DEF Aged, SlotsOf
  <2>6. AgedInv(p)'
    BY <2>1, <2>4, <2>5 DEF AgedInv, Aged, cutoff, SlotsOf
  <2>7. TrimInv(p)'
    BY <2>1 DEF TrimInv
  <2> QED BY <2>2, <2>6, <2>7 DEF Holds
<1>4. CASE SweepSelect(p)
  BY <1>4, SelectHolds
<1>5. CASE SweepTrim(p)
  BY <1>5, TrimHolds
<1>6. CASE SweepNext(p)
  <2>1. CASE call[p].left = {Scope(p)}
    BY <1>6, <1>t, <2>1 DEF SweepNext, InSweep, SweepPc
  <2>2. CASE call[p].left # {Scope(p)}
    <3>1. /\ pc[p] = "trim" /\ pc'[p] = "policy" /\ rows' = rows /\ now' = now
          /\ call'[p] = [call[p] EXCEPT !.left = call[p].left \ {Scope(p)}]
      BY <1>6, <1>t, <2>2 DEF SweepNext
    <3>2. call'[p].at = call[p].at
      BY <1>t, <3>1 DEF Call
    <3>3. ExpiredInv(p)
      BY <3>1 DEF Inv, SweepInv, InSweep, SweepPc
    <3>4. ExpiredInv(p)'
      BY <3>1, <3>2, <3>3 DEF ExpiredInv, Expired, Present
    <3> QED BY <3>1, <3>4 DEF Holds, AgedInv, TrimInv
  <2> QED BY <2>1, <2>2
<1> QED BY <1>1, <1>2, <1>3, <1>4, <1>5, <1>6 DEF Sweep

LEMMA NextInv == Inv /\ [Next]_vars => Inv'
<1> SUFFICES ASSUME Inv, [Next]_vars PROVE Inv'
  OBVIOUS
<1>1. Moves
  BY NextMoves DEF Inv
<1>2. Typed' /\ RowInv'
  BY <1>1, NextTyped, RowsKept DEF Inv
<1>3. ASSUME NEW q \in Procs, InSweep(q)' PROVE Holds(q)'
  <2>1. CASE call'[q] = call[q] /\ pc'[q] = pc[q]
    BY <1>1, <1>3, <2>1, OthersStay
  <2>2. CASE SweepExpired(q) \/ Sweep(q)
    BY <1>1, <1>3, <2>2, SweepHolds
  <2>3. CASE UNCHANGED <<pc, call>>
    BY <2>1, <2>3
  <2>4. ASSUME NEW p \in Procs, Step(p)
        PROVE  \/ UNCHANGED <<pc, call>>
               \/ p # q /\ call'[q] = call[q] /\ pc'[q] = pc[q]
               \/ p = q /\ pc'[q] \in RestPc
               \/ SweepExpired(q) \/ Sweep(q)
    <3>1. CASE \E x \in Slots : \E e \in Expiries(x[1].scope) : Set(p, x, e)
      BY <3>1 DEF Set, Inv, Typed, TypeOK, RestPc
    <3>2. CASE \/ \E x \in Slots : Delete(p, x)
               \/ \E r \in Refs : Purge(p, r)
               \/ \E s \in Scopes, d \in Days, b \in Budgets : RetentionSet(p, s, d, b)
      BY <3>2 DEF Delete, Purge, RetentionSet
    <3>3. CASE Boot(p) \/ Exit(p) \/ ReadBack(p) \/ ReportLost(p)
      BY <3>3 DEF Boot, Exit, ReadBack, ReportLost, Inv, Typed, TypeOK, RestPc
    <3>4. CASE SweepExpired(p) \/ Sweep(p)
      <4>1. CASE p = q
        BY <3>4, <4>1
      <4>2. CASE p # q
        BY <3>4, <4>2
           DEF SweepExpired, Sweep, SweepPolicy, SweepAge, SweepSelect, SweepTrim,
               SweepNext, Inv, Typed, TypeOK
      <4> QED BY <4>1, <4>2
    <3> QED BY <2>4, <3>1, <3>2, <3>3, <3>4 DEF Step, Command, MemoryWrite
  <2>5. CASE Tick \/ UNCHANGED vars
    BY <2>3, <2>5 DEF Tick, vars
  <2>6. pc'[q] \notin RestPc
    BY <1>3 DEF InSweep, SweepPc, RestPc
  <2>7. CASE \E p \in Procs : Step(p)
    BY <2>1, <2>2, <2>3, <2>4, <2>6, <2>7
  <2> QED BY <2>5, <2>7 DEF Next
<1> QED BY <1>2, <1>3 DEF Inv, SweepInv, Holds

LEMMA InitInv == Init => Inv
<1> SUFFICES ASSUME Init PROVE Inv
  OBVIOUS
<1>1. RowInv
  BY DEF Init, RowInv, Present
<1>2. SweepInv
  BY DEF Init, SweepInv, InSweep, SweepPc
<1> QED BY <1>1, <1>2, InitTyped DEF Inv

(* SweepSettles: a sweep has done a scope's work when it leaves it, of     *)
(* any number of scopes, entries and processes that write meanwhile.       *)
THEOREM SweepsSettle == Spec => []SweepSettles
<1>1. Inv => SweepSettles
  <2> SUFFICES ASSUME Inv, NEW p \in Procs, pc[p] = "trim", call[p].doomed = {}
               PROVE  /\ \A x \in Expired(call[p].at) : rows[x].updated >= call[p].at
                      /\ call[p].policy.days > 0 =>
                            Aged(Scope(p), call[p].at - call[p].policy.days) = {}
                      /\ Cardinality({x \in SlotsOf(Scope(p)) :
                            Present(x) /\ rows[x].updated < call[p].saw}) <= call[p].policy.max
    BY DEF SweepSettles
  <2>1. ExpiredInv(p) /\ AgedInv(p) /\ TrimInv(p)
    BY DEF Inv, SweepInv, InSweep, SweepPc
  <2>2. Untrimmed(p) = {x \in SlotsOf(Scope(p)) :
                            Present(x) /\ rows[x].updated < call[p].saw}
    BY DEF Untrimmed, There
  <2> QED BY <2>1, <2>2 DEF ExpiredInv, AgedInv, TrimInv
<1> QED BY <1>1, InitInv, NextInv, PTL DEF Spec

(* TrimsOldest: what the budget deletes is no newer than what it leaves.   *)
THEOREM TrimTakesOldest == Spec => TrimsOldest
<1>1. ASSUME Inv, NEW p \in Procs, pc[p] = "trim", SweepTrim(p),
             NEW x \in SlotsOf(Scope(p)), NEW y \in SlotsOf(Scope(p)),
             Present(x), rows'[x] = None, rows[x].updated < call[p].saw,
             Present(y), rows[y].id \notin call[p].doomed
      PROVE  rows[x].updated <= rows[y].updated
  <2>1. rows[x].id \in call[p].doomed
    BY <1>1 DEF SweepTrim, Remove, Present, SlotsOf
  <2>2. TrimInv(p)
    BY <1>1 DEF Inv, SweepInv, InSweep, SweepPc
  <2> QED BY <1>1, <2>1, <2>2 DEF TrimInv, There
<1> DEFINE Oldest ==
      \A p \in Procs : pc[p] = "trim" /\ SweepTrim(p) =>
         \A x, y \in SlotsOf(Scope(p)) :
            /\ Present(x) /\ rows'[x] = None /\ rows[x].updated < call[p].saw
            /\ Present(y) /\ rows[y].id \notin call[p].doomed
            => rows[x].updated <= rows[y].updated
<1>2. Inv /\ [Next]_vars => [Oldest]_vars
  BY <1>1
<1>3. TrimsOldest <=> [][Oldest]_vars
  BY DEF TrimsOldest
<1> HIDE DEF Oldest
<1> QED BY <1>2, <1>3, InitInv, NextInv, PTL DEF Spec
=============================================================================
