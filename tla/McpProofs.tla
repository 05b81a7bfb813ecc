------------------------------ MODULE McpProofs ------------------------------
(***************************************************************************)
(* Theorems about McpServer for any processes, tools, configurations,      *)
(* endpoints, flows and tokens, however the commands interleave.           *)
(***************************************************************************)
EXTENDS McpSafety, TLAPS

-----------------------------------------------------------------------------
(* Types: where a command is says which lane it is in and what it holds.   *)
LaneAt(pc) ==
    CASE pc = "idle" -> {None}
      [] pc \in {"pkce", "state"} -> {"authorize"}
      [] pc \in {"check", "verifier", "redeem"} -> {"exchange"}
      [] pc \in {"load", "renew", "hasAccess", "hasRefresh"} -> {"refresh"}
      [] pc \in {"access", "refresh"} -> {"exchange", "refresh"}
      [] pc = "drop" -> {"exchange", "revoke"}
      [] OTHER -> {"invoke"}

Todos ==
    {<<>>, <<"refresh">>, <<"access", "refresh">>, <<"state", "access", "refresh">>,
     AllRefs, <<"state">>, OneTime}

Fit(x) ==
    /\ x.lane \in LaneAt(x.pc)
    /\ x.todo \in Todos
    /\ x.pc \in {"state", "check", "verifier", "redeem"} => x.flow \in Flows
    /\ x.pc \in {"access", "hasAccess"} => x.access \in Tokens
    /\ x.pc \in {"refresh", "hasRefresh"} => x.refresh \in Tokens
    /\ x.pc = "renew" => x.old \in Tokens
    /\ x.pc \in {"load", "renew"} => x.refresh = None
    /\ x.old # None => x.lane = "refresh"
    /\ x.lane = "refresh" /\ x.refresh # None => x.old \in Tokens

SecretsFit ==
    /\ secrets["pkce"] \in Flows \cup {None} /\ secrets["state"] \in Flows \cup {None}
    /\ secrets["access"] \in Tokens \cup {None} /\ secrets["refresh"] \in Tokens \cup {None}

Typed ==
    /\ TypeOK
    /\ \A p \in Procs : Fit(proc[p])
    /\ SecretsFit
    /\ row.present => row.config \in Configs

LEMMA Ints == /\ Flows \subseteq Int /\ Tokens \subseteq Int /\ None \notin Flows /\ None \notin Tokens
  BY McpAssumption DEF Flows, Tokens

LEMMA TodoTypes ==
    /\ Todos \subseteq Seq(Refs)
    /\ OneTime \in Todos /\ AllRefs \in Todos /\ <<>> \in Todos
    /\ \A t \in Todos : t # <<>> => Head(t) \in Refs /\ Tail(t) \in Todos
  BY DEF Todos, Refs, OneTime, AllRefs

LEMMA IdleType == Idle \in Process /\ Fit(Idle)
  BY TodoTypes DEF Idle, Process, Pc, Fit, LaneAt

LEMMA InitTyped == Init => Typed
<1> SUFFICES ASSUME Init PROVE Typed
  OBVIOUS
<1>1. proc \in [Procs -> Process] /\ \A p \in Procs : Fit(proc[p])
  BY IdleType DEF Init
<1>2. SecretsFit
  BY DEF Init, SecretsFit, Refs
<1>3. 0 \in 0 .. MaxTokens /\ 0 \in 0 .. MaxFlows
  BY McpAssumption
<1> QED BY <1>1, <1>2, <1>3 DEF Init, Typed, TypeOK

ProcsTyped == proc \in [Procs -> Process] /\ \A p \in Procs : Fit(proc[p])

LEMMA ProcType ==
    ASSUME Typed, NEW p \in Procs, NEW x \in Process, Fit(x), proc' = [proc EXCEPT ![p] = x]
    PROVE  ProcsTyped'
  BY DEF Typed, TypeOK, ProcsTyped

LEMMA EndType ==
    ASSUME Typed, NEW p \in Procs, End(p)
    PROVE  ProcsTyped' /\ late' \in SUBSET Procs /\ cut' \in SUBSET Procs
  BY IdleType, ProcType DEF End, Typed, TypeOK

LEMMA AloneType ==
    ASSUME NEW x \in Process, Fit(x), NEW b \in BOOLEAN
    PROVE  [x EXCEPT !.alone = b] \in Process /\ Fit([x EXCEPT !.alone = b])
<1> DEFINE y == [x EXCEPT !.alone = b]
<1>1. y \in Process
  BY DEF Process
<1>2. /\ y.pc = x.pc /\ y.lane = x.lane /\ y.flow = x.flow /\ y.old = x.old
      /\ y.access = x.access /\ y.refresh = x.refresh /\ y.todo = x.todo
  BY DEF Process
<1> HIDE DEF y
<1>3. Fit(y)
  BY <1>2 DEF Fit
<1> QED BY <1>1, <1>3 DEF y

LEMMA BeginType ==
    ASSUME Typed, NEW p \in Procs, NEW x \in Process, Fit(x), Begin(p, x)
    PROVE  Typed'
<1> DEFINE y(q) == IF q = p THEN x
                   ELSE [proc[q] EXCEPT !.alone = proc[q].alone
                          /\ ~(proc[q].lane = "revoke" /\ x.lane \in TokenLanes)]
<1>1. ASSUME NEW q \in Procs PROVE y(q) \in Process /\ Fit(y(q))
  <2>1. proc[q] \in Process /\ Fit(proc[q]) /\ proc[q].alone \in BOOLEAN
    BY DEF Typed, TypeOK, Process
  <2> QED BY <2>1, AloneType
<1>2. proc' = [q \in Procs |-> y(q)]
  BY DEF Begin
<1> HIDE DEF y
<1>3. ProcsTyped'
  BY <1>1, <1>2 DEF ProcsTyped
<1> QED BY <1>3 DEF Begin, Typed, TypeOK, ProcsTyped, SecretsFit, external, history

LEMMA GotoType ==
    ASSUME Typed, NEW p \in Procs, NEW pc \in Pc, Goto(p, pc),
           Fit([proc[p] EXCEPT !.pc = pc])
    PROVE  ProcsTyped'
<1> DEFINE x == [proc[p] EXCEPT !.pc = pc]
<1>1. x \in Process /\ proc' = [proc EXCEPT ![p] = x]
  BY DEF Goto, Typed, TypeOK, Process
<1> HIDE DEF x
<1> QED BY <1>1, ProcType DEF x

Rest == row' = row /\ secrets' = secrets /\ UNCHANGED external

(* A step that leaves row, vault and authorization server alone.           *)
LEMMA RestType ==
    ASSUME Typed, Rest, ProcsTyped', late' \in SUBSET Procs, cut' \in SUBSET Procs,
           burnt' \in SUBSET Tokens, revoked' \in BOOLEAN
    PROVE  Typed'
  BY DEF Rest, Typed, TypeOK, ProcsTyped, SecretsFit, external

LEMMA LoseType == ASSUME Typed, NEW p \in Procs PROVE Lose(p) \in SUBSET Tokens
  BY DEF Typed, TypeOK, Fit, Lose

LEMMA RegistryType == Typed /\ Registry => Typed'
<1> SUFFICES ASSUME Typed, Registry PROVE Typed'
  OBVIOUS
<1>1. row'.present => row'.config \in Configs
  BY DEF Registry, Add, SetEnabled, RemoveServer, Typed, TypeOK
<1>2. row' \in [present : BOOLEAN, enabled : BOOLEAN, config : Configs \cup {None}]
  <2>1. ASSUME NEW c \in Configs, Add(c) PROVE row' \in [present : BOOLEAN, enabled : BOOLEAN, config : Configs \cup {None}]
    BY <2>1 DEF Add
  <2>2. ASSUME NEW on \in BOOLEAN, SetEnabled(on) PROVE row' \in [present : BOOLEAN, enabled : BOOLEAN, config : Configs \cup {None}]
    BY <2>2 DEF SetEnabled, Typed, TypeOK
  <2>3. CASE RemoveServer
    BY <2>3 DEF RemoveServer, Typed, TypeOK
  <2> QED BY <2>1, <2>2, <2>3 DEF Registry
<1>3. late' \in SUBSET Procs
  BY DEF Registry, Add, SetEnabled, RemoveServer, Calling, history, Typed, TypeOK
<1>4. UNCHANGED <<secrets, external, proc, cut, burnt, revoked>>
  BY DEF Registry, Add, SetEnabled, RemoveServer, history
<1> QED BY <1>1, <1>2, <1>3, <1>4 DEF Typed, TypeOK, SecretsFit, external

(* The oauth lanes up to the token endpoint.                               *)
LEMMA FlowType ==
    ASSUME Typed, NEW p \in Procs,
           \/ \E e \in Endpoints : Authorize(p, e) \/ LoadVerifier(p, e) \/ LoadRefresh(p, e)
           \/ StorePkce(p) \/ StoreState(p)
           \/ \E f \in Flows : Exchange(p, f)
           \/ CheckState(p) \/ Refresh(p) \/ Revoke(p)
    PROVE  Typed'
<1>t. /\ proc[p] \in Process /\ Fit(proc[p]) /\ proc \in [Procs -> Process] /\ SecretsFit
      /\ late \in SUBSET Procs /\ cut \in SUBSET Procs
      /\ burnt \in SUBSET Tokens /\ revoked \in BOOLEAN
  BY DEF Typed, TypeOK
<1>1. ASSUME NEW e \in Endpoints, Authorize(p, e) PROVE Typed'
  <2> DEFINE x == Enter("authorize", "pkce")
  <2>1. x \in Process /\ Fit(x)
    BY TodoTypes DEF Enter, Idle, Process, Pc, Lanes, Fit, LaneAt
  <2> QED BY <1>1, <2>1, BeginType DEF Authorize
<1>2. ASSUME NEW e \in Endpoints, LoadVerifier(p, e) PROVE Typed'
  <2>1. CASE secrets["pkce"] = None
    BY <1>2, <2>1, <1>t, EndType, RestType DEF LoadVerifier, Rest
  <2>2. CASE secrets["pkce"] # None
    <3> DEFINE x == [proc[p] EXCEPT !.verifier = secrets["pkce"], !.pc = "redeem"]
    <3>1. x \in Process /\ proc' = [proc EXCEPT ![p] = x]
      BY <1>2, <2>2, <1>t DEF LoadVerifier, Process, Pc, SecretsFit
    <3>2. Fit(x)
      BY <1>2, <1>t DEF LoadVerifier, At, Fit, LaneAt, Process
    <3>3. ProcsTyped'
      BY <3>1, <3>2, ProcType
    <3> QED BY <1>2, <2>2, <3>3, <1>t, RestType DEF LoadVerifier, Rest
  <2> QED BY <2>1, <2>2
<1>3. ASSUME NEW e \in Endpoints, LoadRefresh(p, e) PROVE Typed'
  <2>1. CASE secrets["refresh"] = None
    BY <1>3, <2>1, <1>t, EndType, RestType DEF LoadRefresh, Rest
  <2>2. CASE secrets["refresh"] # None
    <3> DEFINE x == [proc[p] EXCEPT !.old = secrets["refresh"], !.pc = "renew"]
    <3>1. x \in Process /\ proc' = [proc EXCEPT ![p] = x]
      BY <1>3, <2>2, <1>t DEF LoadRefresh, Process, Pc, SecretsFit
    <3>2. Fit(x)
      BY <1>3, <2>2, <1>t DEF LoadRefresh, At, Fit, LaneAt, Process, SecretsFit
    <3>3. ProcsTyped'
      BY <3>1, <3>2, ProcType
    <3> QED BY <1>3, <2>2, <3>3, <1>t, RestType DEF LoadRefresh, Rest
  <2> QED BY <2>1, <2>2
<1>4. CASE StorePkce(p)
  <2> DEFINE x == [proc[p] EXCEPT !.pc = "state", !.flow = begun + 1]
  <2>1. begun + 1 \in Flows /\ begun + 1 \in 0 .. MaxFlows
    BY <1>4, McpAssumption DEF StorePkce, Typed, TypeOK, Flows
  <2>2. x \in Process /\ proc' = [proc EXCEPT ![p] = x]
    BY <1>4, <2>1, <1>t DEF StorePkce, Process, Pc
  <2>3. Fit(x)
    BY <1>4, <2>1, <1>t DEF StorePkce, At, Fit, LaneAt, Process
  <2>4. ProcsTyped'
    BY <2>2, <2>3, ProcType
  <2>5. secrets' \in [Refs -> Flows \cup Tokens \cup {None}] /\ SecretsFit'
    BY <1>4, <2>1, <1>t DEF StorePkce, Hold, Typed, TypeOK, SecretsFit, Refs
  <2> QED BY <1>4, <2>1, <2>4, <2>5 DEF StorePkce, Typed, TypeOK, ProcsTyped, history
<1>5. CASE StoreState(p)
  <2>1. proc[p].flow \in Flows
    BY <1>5, <1>t DEF StoreState, At, Fit
  <2>2. secrets' \in [Refs -> Flows \cup Tokens \cup {None}] /\ SecretsFit'
    BY <1>5, <2>1, <1>t DEF StoreState, Hold, Typed, TypeOK, SecretsFit, Refs
  <2>3. ProcsTyped' /\ late' \in SUBSET Procs /\ cut' \in SUBSET Procs
    BY <1>5, EndType DEF StoreState
  <2> QED BY <1>5, <2>1, <2>2, <2>3 DEF StoreState, Typed, TypeOK, ProcsTyped
<1>6. ASSUME NEW f \in Flows, Exchange(p, f) PROVE Typed'
  <2> DEFINE x == [Enter("exchange", "check") EXCEPT !.flow = f]
  <2>1. x \in Process /\ Fit(x)
    BY TodoTypes DEF Enter, Idle, Process, Pc, Lanes, Fit, LaneAt
  <2> QED BY <1>6, <2>1, BeginType DEF Exchange
<1>7. CASE CheckState(p)
  <2>1. CASE secrets["state"] = proc[p].flow
    <3>1. Fit([proc[p] EXCEPT !.pc = "verifier"])
      BY <1>7, <1>t DEF CheckState, At, Fit, LaneAt, Process
    <3>2. ProcsTyped'
      BY <1>7, <2>1, <3>1, GotoType DEF CheckState, Pc
    <3> QED BY <1>7, <2>1, <3>2, <1>t, RestType DEF CheckState, Rest
  <2>2. CASE secrets["state"] # proc[p].flow
    BY <1>7, <2>2, <1>t, EndType, RestType DEF CheckState, Rest
  <2> QED BY <2>1, <2>2
<1>8. CASE Refresh(p)
  <2> DEFINE x == Enter("refresh", "load")
  <2>1. x \in Process /\ Fit(x)
    BY TodoTypes DEF Enter, Idle, Process, Pc, Lanes, Fit, LaneAt
  <2> QED BY <1>8, <2>1, BeginType DEF Refresh
<1>9. CASE Revoke(p)
  <2> DEFINE b == \A q \in Procs : proc[q].lane \notin TokenLanes
             x == [Enter("revoke", "drop") EXCEPT !.todo = AllRefs, !.alone = b]
  <2>1. b \in BOOLEAN
    OBVIOUS
  <2> HIDE DEF b
  <2>2. x \in Process /\ Fit(x)
    BY <2>1, TodoTypes DEF Enter, Idle, Process, Pc, Lanes, Fit, LaneAt
  <2> QED BY <1>9, <2>2, BeginType DEF Revoke, b
<1> QED BY <1>1, <1>2, <1>3, <1>4, <1>5, <1>6, <1>7, <1>8, <1>9

(* Tokens: what the endpoints answer, and how it is stored.                *)
LEMMA TokenType ==
    ASSUME Typed, NEW p \in Procs,
           \/ \E a, b \in BOOLEAN : Redeem(p, a, b) \/ Renew(p, a, b)
           \/ StoreAccess(p) \/ StoreRefresh(p)
           \/ Has(p, "access", "hasAccess") \/ Has(p, "refresh", "hasRefresh")
           \/ RotateAccess(p) \/ RotateRefresh(p)
    PROVE  Typed'
<1>t. /\ proc[p] \in Process /\ Fit(proc[p]) /\ proc \in [Procs -> Process] /\ SecretsFit
      /\ late \in SUBSET Procs /\ cut \in SUBSET Procs
      /\ burnt \in SUBSET Tokens /\ revoked \in BOOLEAN
      /\ secrets \in [Refs -> Flows \cup Tokens \cup {None}]
  BY DEF Typed, TypeOK
<1>n. issued < MaxTokens => issued + 1 \in Tokens /\ issued + 1 \in 0 .. MaxTokens
  BY McpAssumption DEF Typed, TypeOK, Tokens
<1>1. ASSUME NEW a \in BOOLEAN, NEW b \in BOOLEAN, Redeem(p, a, b) PROVE Typed'
  <2> DEFINE n == issued + 1
             x == [proc[p] EXCEPT !.pc = "access", !.access = n,
                     !.refresh = IF a THEN n ELSE None]
  <2>1. n \in Tokens /\ n \in 0 .. MaxTokens
    BY <1>1, <1>n DEF Redeem
  <2>2. proc[p].lane = "exchange" /\ proc[p].flow \in Flows
    BY <1>1, <1>t DEF Redeem, At, Fit, LaneAt
  <2> HIDE DEF n
  <2>3. x \in Process
    BY <2>1, <1>t DEF Process, Pc
  <2>4. Fit(x)
    BY <2>1, <2>2, <1>t DEF Fit, LaneAt, Process
  <2>5. ProcsTyped' /\ late' \in SUBSET Procs /\ cut' \in SUBSET Procs
    <3>1. CASE b
      <4>1. proc' = [proc EXCEPT ![p] = x] /\ late' = late /\ cut' = cut
        BY <1>1, <3>1 DEF Redeem, Receive, n
      <4> QED BY <4>1, <2>3, <2>4, <1>t, ProcType
    <3>2. CASE ~b
      <4>1. End(p)
        BY <1>1, <3>2 DEF Redeem, Receive
      <4> QED BY <4>1, EndType
    <3> QED BY <3>1, <3>2
  <2>6. issued' = n /\ spent' = spent \cup {proc[p].flow} /\ live' \subseteq live \cup {n}
    BY <1>1 DEF Redeem, n
  <2> QED BY <1>1, <2>1, <2>2, <2>5, <2>6 DEF Redeem, Typed, TypeOK, ProcsTyped, SecretsFit
<1>2. ASSUME NEW a \in BOOLEAN, NEW b \in BOOLEAN, Renew(p, a, b) PROVE Typed'
  <2> DEFINE n == issued + 1
             x == [proc[p] EXCEPT !.pc = "hasAccess", !.access = n,
                     !.refresh = IF a THEN n ELSE None]
  <2>1. n \in Tokens /\ n \in 0 .. MaxTokens
    BY <1>2, <1>n DEF Renew
  <2>2. proc[p].lane = "refresh" /\ proc[p].old \in Tokens
    BY <1>2, <1>t DEF Renew, At, Fit, LaneAt
  <2> HIDE DEF n
  <2>3. x \in Process
    BY <2>1, <1>t DEF Process, Pc
  <2>4. Fit(x)
    BY <2>1, <2>2, <1>t DEF Fit, LaneAt, Process
  <2>5. ProcsTyped' /\ late' \in SUBSET Procs /\ cut' \in SUBSET Procs
    <3>1. CASE b
      <4>1. proc' = [proc EXCEPT ![p] = x] /\ late' = late /\ cut' = cut
        BY <1>2, <3>1 DEF Renew, Receive, n
      <4> QED BY <4>1, <2>3, <2>4, <1>t, ProcType
    <3>2. CASE ~b
      <4>1. End(p)
        BY <1>2, <3>2 DEF Renew, Receive
      <4> QED BY <4>1, EndType
    <3> QED BY <3>1, <3>2
  <2>6. /\ issued' = n /\ live' \subseteq live \cup {n}
        /\ burnt' \subseteq burnt \cup {proc[p].old}
    BY <1>2 DEF Renew, n
  <2> QED BY <1>2, <2>1, <2>2, <2>5, <2>6 DEF Renew, Typed, TypeOK, ProcsTyped, SecretsFit
<1>3. CASE StoreAccess(p)
  <2> DEFINE pc == IF proc[p].refresh # None THEN "refresh" ELSE "drop"
             x == [proc[p] EXCEPT !.todo = OneTime, !.pc = pc]
  <2>1. proc[p].access \in Tokens /\ proc[p].lane = "exchange"
    BY <1>3, <1>t DEF StoreAccess, At, Fit
  <2>2. x \in Process
    <3>1. pc \in Pc /\ OneTime \in Seq(Refs)
      BY TodoTypes DEF Pc
    <3> HIDE DEF pc
    <3> QED BY <3>1, <1>t DEF Process
  <2>3. Fit(x)
    BY <2>1, <1>t, TodoTypes DEF Fit, LaneAt, Process
  <2>4. ProcsTyped'
    <3>1. proc' = [proc EXCEPT ![p] = x]
      BY <1>3 DEF StoreAccess
    <3> HIDE DEF x
    <3> QED BY <3>1, <2>2, <2>3, ProcType
  <2>5. secrets' \in [Refs -> Flows \cup Tokens \cup {None}] /\ SecretsFit'
    BY <1>3, <2>1, <1>t DEF StoreAccess, Hold, SecretsFit, Refs
  <2> QED BY <1>3, <2>4, <2>5 DEF StoreAccess, Typed, TypeOK, ProcsTyped, external
<1>4. CASE StoreRefresh(p)
  <2>1. proc[p].refresh \in Tokens /\ Fit([proc[p] EXCEPT !.pc = "drop"])
    BY <1>4, <1>t DEF StoreRefresh, At, Fit, LaneAt, Process
  <2>2. ProcsTyped'
    BY <1>4, <2>1, GotoType DEF StoreRefresh, Pc
  <2>3. secrets' \in [Refs -> Flows \cup Tokens \cup {None}] /\ SecretsFit'
    BY <1>4, <2>1, <1>t DEF StoreRefresh, Hold, SecretsFit, Refs
  <2> QED BY <1>4, <2>2, <2>3 DEF StoreRefresh, Typed, TypeOK, ProcsTyped, external, history
<1>5. ASSUME NEW ref \in {"access", "refresh"}, NEW pc \in {"hasAccess", "hasRefresh"},
             <<ref, pc>> \in {<<"access", "hasAccess">>, <<"refresh", "hasRefresh">>},
             Has(p, ref, pc)
      PROVE  Typed'
  <2>1. CASE secrets[ref] # None
    <3>1. Fit([proc[p] EXCEPT !.pc = ref])
      BY <1>5, <1>t DEF Has, At, Fit, LaneAt, Process
    <3>2. ProcsTyped'
      BY <1>5, <2>1, <3>1, GotoType DEF Has, Pc
    <3> QED BY <1>5, <2>1, <3>2, <1>t, RestType DEF Has, Rest
  <2>2. CASE secrets[ref] = None
    BY <1>5, <2>2, <1>t, EndType, LoseType, RestType DEF Has, Rest
  <2> QED BY <2>1, <2>2
<1>6. CASE RotateAccess(p)
  <2>1. proc[p].access \in Tokens
    BY <1>6, <1>t DEF RotateAccess, At, Fit
  <2>2. secrets' \in [Refs -> Flows \cup Tokens \cup {None}] /\ SecretsFit'
    BY <1>6, <2>1, <1>t DEF RotateAccess, Hold, SecretsFit, Refs
  <2>3. CASE proc[p].refresh = None
    BY <1>6, <2>2, <2>3, EndType DEF RotateAccess, Typed, TypeOK, ProcsTyped, external
  <2>4. CASE proc[p].refresh # None
    <3>1. proc[p].refresh \in Tokens
      BY <2>4, <1>t DEF Process
    <3>2. Fit([proc[p] EXCEPT !.pc = "hasRefresh"])
      BY <1>6, <3>1, <1>t DEF RotateAccess, At, Fit, LaneAt, Process
    <3>3. ProcsTyped'
      BY <1>6, <2>4, <3>2, GotoType DEF RotateAccess, Pc
    <3> QED BY <1>6, <2>2, <2>4, <3>3 DEF RotateAccess, Typed, TypeOK, ProcsTyped, external
  <2> QED BY <2>3, <2>4
<1>7. CASE RotateRefresh(p)
  <2>1. proc[p].refresh \in Tokens
    BY <1>7, <1>t DEF RotateRefresh, At, Fit
  <2>2. secrets' \in [Refs -> Flows \cup Tokens \cup {None}] /\ SecretsFit'
    BY <1>7, <2>1, <1>t DEF RotateRefresh, Hold, SecretsFit, Refs
  <2> QED BY <1>7, <2>2, EndType DEF RotateRefresh, Typed, TypeOK, ProcsTyped, external
<1> QED BY <1>1, <1>2, <1>3, <1>4, <1>5, <1>6, <1>7

(* The ends of lanes, and calls.                                           *)
LEMMA EndsType ==
    ASSUME Typed, NEW p \in Procs,
           \/ \E ok \in BOOLEAN : Drop(p, ok)
           \/ Dropped(p) \/ Quit(p)
           \/ \E t \in Tools : Invoke(p, t)
           \/ LoadBearer(p) \/ Send(p)
    PROVE  Typed'
<1>t. /\ proc[p] \in Process /\ Fit(proc[p]) /\ proc \in [Procs -> Process] /\ SecretsFit
      /\ late \in SUBSET Procs /\ cut \in SUBSET Procs
      /\ burnt \in SUBSET Tokens /\ revoked \in BOOLEAN
      /\ secrets \in [Refs -> Flows \cup Tokens \cup {None}]
  BY DEF Typed, TypeOK
<1>1. ASSUME NEW ok \in BOOLEAN, Drop(p, ok) PROVE Typed'
  <2> DEFINE b == proc[p].alone /\ (ok \/ proc[p].lane # "revoke")
             x == [proc[p] EXCEPT !.todo = Tail(proc[p].todo), !.alone = b]
  <2>1. Tail(proc[p].todo) \in Todos /\ Tail(proc[p].todo) \in Seq(Refs)
        /\ Head(proc[p].todo) \in Refs
    BY <1>1, <1>t, TodoTypes DEF Drop, Fit
  <2>2. b \in BOOLEAN /\ proc' = [proc EXCEPT ![p] = x]
    BY <1>1, <1>t DEF Drop, Process
  <2> HIDE DEF b
  <2>3. x \in Process
    BY <2>1, <2>2, <1>t DEF Process
  <2>4. Fit(x)
    BY <1>1, <2>1, <1>t DEF Drop, At, Fit, LaneAt, Process
  <2> HIDE DEF x
  <2>5. ProcsTyped'
    BY <2>2, <2>3, <2>4, ProcType
  <2>6. \/ secrets' = secrets
        \/ secrets' = [secrets EXCEPT ![Head(proc[p].todo)] = None]
    BY <1>1 DEF Drop, Hold
  <2>7. secrets' \in [Refs -> Flows \cup Tokens \cup {None}] /\ SecretsFit'
    BY <2>1, <2>6, <1>t DEF SecretsFit, Refs
  <2>8. cut' \in SUBSET Procs
    BY <1>1, <1>t DEF Drop
  <2> QED BY <1>1, <2>5, <2>7, <2>8 DEF Drop, Typed, TypeOK, ProcsTyped, external
<1>2. CASE Dropped(p)
  <2>1. revoked' \in BOOLEAN
    BY <1>2, <1>t DEF Dropped
  <2> QED BY <1>2, <2>1, <1>t, EndType, RestType DEF Dropped, Rest
<1>3. CASE Quit(p)
  BY <1>3, <1>t, EndType, LoseType, RestType DEF Quit, Rest
<1>4. ASSUME NEW t \in Tools, Invoke(p, t) PROVE Typed'
  <2> DEFINE x == [Enter("invoke", "send") EXCEPT
                     !.tool = t, !.pc = IF row.config.oauth THEN "bearer" ELSE "send"]
  <2>1. x \in Process /\ Fit(x)
    BY TodoTypes DEF Enter, Idle, Process, Pc, Lanes, Fit, LaneAt
  <2>2. proc' = [proc EXCEPT ![p] = x]
    BY <1>4 DEF Invoke
  <2> HIDE DEF x
  <2>3. ProcsTyped'
    BY <2>1, <2>2, ProcType
  <2> QED BY <1>4, <2>3, <1>t, RestType DEF Invoke, Rest, history
<1>5. CASE LoadBearer(p)
  <2>1. CASE secrets["access"] = None
    BY <1>5, <2>1, <1>t, EndType, RestType DEF LoadBearer, Rest
  <2>2. CASE secrets["access"] # None
    <3>1. Fit([proc[p] EXCEPT !.pc = "send"])
      BY <1>5, <1>t DEF LoadBearer, At, Fit, LaneAt, Process
    <3>2. ProcsTyped'
      BY <1>5, <2>2, <3>1, GotoType DEF LoadBearer, Pc
    <3> QED BY <1>5, <2>2, <3>2, <1>t, RestType DEF LoadBearer, Rest
  <2> QED BY <2>1, <2>2
<1>6. CASE Send(p)
  BY <1>6, <1>t, EndType, RestType DEF Send, Rest
<1> QED BY <1>1, <1>2, <1>3, <1>4, <1>5, <1>6

LEMMA NextTyped == Typed /\ [Next]_vars => Typed'
<1> SUFFICES ASSUME Typed, [Next]_vars PROVE Typed'
  OBVIOUS
<1>1. CASE UNCHANGED vars
  BY <1>1 DEF vars, Typed, TypeOK, SecretsFit
<1>2. CASE Registry
  BY <1>2, RegistryType
<1>3. ASSUME NEW p \in Procs, Step(p) PROVE Typed'
  BY <1>3, FlowType, TokenType, EndsType DEF Step, OAuth, Call
<1> QED BY <1>1, <1>2, <1>3 DEF Next

(* Every reachable state of the registry, the vault refs and the lanes is  *)
(* well typed.                                                             *)
THEOREM TypeCorrect == Spec => []TypeOK
<1>1. Typed => TypeOK
  BY DEF Typed
<1> QED BY <1>1, InitTyped, NextTyped, PTL DEF Spec

-----------------------------------------------------------------------------
(* What a command leaves of the others: everything but whether a revoke is *)
(* still alone.                                                            *)
Same(q) ==
    /\ proc'[q].pc = proc[q].pc /\ proc'[q].lane = proc[q].lane
    /\ proc'[q].tool = proc[q].tool /\ proc'[q].flow = proc[q].flow
    /\ proc'[q].old = proc[q].old /\ proc'[q].access = proc[q].access
    /\ proc'[q].refresh = proc[q].refresh /\ proc'[q].todo = proc[q].todo
    /\ proc'[q].alone => proc[q].alone

(* The one that deletes stays where it is, with one ref less to do.        *)
LEMMA DropRecord ==
    ASSUME Typed, NEW p \in Procs, NEW ok \in BOOLEAN, Drop(p, ok)
    PROVE  /\ proc[p].pc = "drop" /\ proc[p].todo # <<>>
           /\ proc'[p].pc = "drop" /\ proc'[p].lane = proc[p].lane
           /\ proc'[p].old = proc[p].old /\ proc'[p].refresh = proc[p].refresh
           /\ proc'[p].todo = Tail(proc[p].todo)
           /\ proc'[p].alone = (proc[p].alone /\ (ok \/ proc[p].lane # "revoke"))
           /\ \A q \in Procs \ {p} : proc'[q] = proc[q]
<1> DEFINE b == proc[p].alone /\ (ok \/ proc[p].lane # "revoke")
           t == Tail(proc[p].todo)
<1>1. /\ proc' = [proc EXCEPT ![p] = [proc[p] EXCEPT !.todo = t, !.alone = b]]
      /\ proc[p].pc = "drop" /\ proc[p].todo # <<>>
      /\ proc \in [Procs -> Process] /\ proc[p] \in Process
  BY DEF Drop, At, Typed, TypeOK
<1> HIDE DEF b, t
<1>2. /\ proc'[p].pc = proc[p].pc /\ proc'[p].lane = proc[p].lane
      /\ proc'[p].old = proc[p].old /\ proc'[p].refresh = proc[p].refresh
      /\ proc'[p].todo = t
      /\ \A q \in Procs \ {p} : proc'[q] = proc[q]
  BY <1>1 DEF Process
<1>3. proc'[p].alone = b
  BY <1>1 DEF Process
<1> QED BY <1>1, <1>2, <1>3 DEF b, t

(* What the answers and the stores of an exchange leave a command with.    *)
LEMMA RedeemRecord ==
    ASSUME Typed, NEW p \in Procs, NEW a \in BOOLEAN, NEW b \in BOOLEAN, Redeem(p, a, b)
    PROVE  \/ proc'[p] = Idle
           \/ /\ proc'[p].pc = "access" /\ proc'[p].lane = "exchange"
              /\ proc'[p].old = proc[p].old
              /\ proc'[p].refresh = IF a THEN issued + 1 ELSE None
<1>t. proc \in [Procs -> Process] /\ proc[p] \in Process /\ Fit(proc[p])
  BY DEF Typed, TypeOK
<1>1. proc[p].lane = "exchange"
  BY <1>t DEF Redeem, At, Fit, LaneAt
<1>2. CASE ~b
  BY <1>2, <1>t DEF Redeem, Receive, End
<1>3. CASE b
  <2> DEFINE r == IF a THEN issued + 1 ELSE None
             n == issued + 1
  <2>1. proc' = [proc EXCEPT ![p] =
                    [proc[p] EXCEPT !.pc = "access", !.access = n, !.refresh = r]]
    BY <1>3 DEF Redeem, Receive
  <2> HIDE DEF r, n
  <2>2. /\ proc'[p].pc = "access" /\ proc'[p].lane = proc[p].lane
        /\ proc'[p].old = proc[p].old /\ proc'[p].refresh = r
    BY <2>1, <1>t DEF Process
  <2> QED BY <2>2, <1>1 DEF r
<1> QED BY <1>2, <1>3

LEMMA RenewRecord ==
    ASSUME Typed, NEW p \in Procs, NEW a \in BOOLEAN, NEW b \in BOOLEAN, Renew(p, a, b)
    PROVE  IF b
           THEN /\ proc'[p].pc = "hasAccess" /\ proc'[p].lane = "refresh"
                /\ proc'[p].old = proc[p].old
                /\ proc'[p].refresh = IF a THEN issued + 1 ELSE None
           ELSE proc'[p] = Idle
<1>t. proc \in [Procs -> Process] /\ proc[p] \in Process /\ Fit(proc[p])
  BY DEF Typed, TypeOK
<1>1. proc[p].lane = "refresh"
  BY <1>t DEF Renew, At, Fit, LaneAt
<1>2. CASE ~b
  BY <1>2, <1>t DEF Renew, Receive, End
<1>3. CASE b
  <2> DEFINE r == IF a THEN issued + 1 ELSE None
             n == issued + 1
  <2>1. proc' = [proc EXCEPT ![p] =
                    [proc[p] EXCEPT !.pc = "hasAccess", !.access = n, !.refresh = r]]
    BY <1>3 DEF Renew, Receive
  <2> HIDE DEF r, n
  <2>2. /\ proc'[p].pc = "hasAccess" /\ proc'[p].lane = proc[p].lane
        /\ proc'[p].old = proc[p].old /\ proc'[p].refresh = r
    BY <2>1, <1>t DEF Process
  <2> QED BY <2>2, <1>1, <1>3 DEF r
<1> QED BY <1>2, <1>3

LEMMA StoreRecord ==
    ASSUME Typed, NEW p \in Procs, StoreAccess(p) \/ StoreRefresh(p)
    PROVE  /\ proc[p].lane = "exchange" /\ proc'[p].lane = "exchange"
           /\ proc'[p].old = proc[p].old /\ proc'[p].refresh = proc[p].refresh
           /\ StoreAccess(p) =>
                /\ proc[p].pc = "access"
                /\ proc'[p].pc = IF proc[p].refresh # None THEN "refresh" ELSE "drop"
           /\ StoreRefresh(p) => proc[p].pc = "refresh" /\ proc'[p].pc = "drop"
<1>t. proc \in [Procs -> Process] /\ proc[p] \in Process
  BY DEF Typed, TypeOK
<1> DEFINE to == IF proc[p].refresh # None THEN "refresh" ELSE "drop"
<1>1. CASE StoreAccess(p)
  <2>1. /\ proc' = [proc EXCEPT ![p] = [proc[p] EXCEPT !.todo = OneTime, !.pc = to]]
        /\ proc[p].lane = "exchange" /\ proc[p].pc = "access"
    BY <1>1 DEF StoreAccess, At
  <2> HIDE DEF to
  <2>2. /\ proc'[p].pc = to /\ proc'[p].lane = proc[p].lane
        /\ proc'[p].old = proc[p].old /\ proc'[p].refresh = proc[p].refresh
    BY <2>1, <1>t DEF Process
  <2>3. ~StoreRefresh(p)
    BY <2>1 DEF StoreRefresh, At
  <2> QED BY <2>1, <2>2, <2>3 DEF to
<1>2. CASE StoreRefresh(p)
  <2>1. /\ proc' = [proc EXCEPT ![p] = [proc[p] EXCEPT !.pc = "drop"]]
        /\ proc[p].lane = "exchange" /\ proc[p].pc = "refresh"
    BY <1>2, <1>t DEF StoreRefresh, At, Goto
  <2>2. /\ proc'[p].pc = "drop" /\ proc'[p].lane = proc[p].lane
        /\ proc'[p].old = proc[p].old /\ proc'[p].refresh = proc[p].refresh
    BY <2>1, <1>t DEF Process
  <2>3. ~StoreAccess(p)
    BY <2>1 DEF StoreAccess, At
  <2> QED BY <2>1, <2>2, <2>3
<1> QED BY <1>1, <1>2

(* Begin puts the command where its lane starts.                           *)
LEMMA BeginRecord ==
    ASSUME Typed, NEW p \in Procs, NEW x, Begin(p, x)
    PROVE  proc'[p] = x /\ proc[p].pc = "idle" /\ secrets' = secrets
  BY DEF Begin, At

LEMMA OthersSame ==
    ASSUME Typed, NEW p \in Procs, Step(p), NEW q \in Procs, q # p
    PROVE  Same(q)
<1>t. proc \in [Procs -> Process] /\ proc[q] \in Process
  BY DEF Typed, TypeOK
<1>s. CASE proc'[q] = proc[q]
  BY <1>s DEF Same
<1>1. ASSUME NEW x, Begin(p, x) PROVE Same(q)
  <2> DEFINE b == proc[q].alone /\ ~(proc[q].lane = "revoke" /\ x.lane \in TokenLanes)
  <2>1. proc'[q] = [proc[q] EXCEPT !.alone = b] /\ (b => proc[q].alone)
    BY <1>1 DEF Begin
  <2> HIDE DEF b
  <2> QED BY <2>1, <1>t DEF Same, Process
<1>2. CASE \/ \E e \in Endpoints : Authorize(p, e)
           \/ \E f \in Flows : Exchange(p, f)
           \/ Refresh(p) \/ Revoke(p)
  BY <1>1, <1>2 DEF Authorize, Exchange, Refresh, Revoke
<1>3. CASE \/ \E e \in Endpoints : LoadVerifier(p, e) \/ LoadRefresh(p, e)
           \/ StorePkce(p) \/ StoreState(p) \/ CheckState(p)
  BY <1>3, <1>s, <1>t DEF LoadVerifier, LoadRefresh, StorePkce, StoreState, CheckState, End, Goto
<1>4. CASE \/ \E a, b \in BOOLEAN : Redeem(p, a, b) \/ Renew(p, a, b)
           \/ StoreAccess(p) \/ StoreRefresh(p)
  BY <1>4, <1>s, <1>t DEF Redeem, Renew, Receive, StoreAccess, StoreRefresh, End, Goto
<1>5. CASE \/ Has(p, "access", "hasAccess") \/ Has(p, "refresh", "hasRefresh")
           \/ RotateAccess(p) \/ RotateRefresh(p)
  BY <1>5, <1>s, <1>t DEF Has, RotateAccess, RotateRefresh, End, Goto
<1>6. CASE \/ \E ok \in BOOLEAN : Drop(p, ok)
           \/ Dropped(p) \/ Quit(p)
  BY <1>6, <1>s, <1>t DEF Drop, Dropped, Quit, End
<1>7. CASE \/ \E t \in Tools : Invoke(p, t)
           \/ LoadBearer(p) \/ Send(p)
  BY <1>7, <1>s, <1>t DEF Invoke, LoadBearer, Send, End, Goto
<1> QED BY <1>2, <1>3, <1>4, <1>5, <1>6, <1>7 DEF Step, OAuth, Call

(* A command does not touch the registry row, nor what is remembered of    *)
(* the others; what it deletes under a renewal is remembered.              *)
LEMMA StepFrame ==
    ASSUME Typed, NEW p \in Procs, Step(p)
    PROVE  /\ row' = row
           /\ late \ {p} \subseteq late' /\ cut \ {p} \subseteq cut'
           /\ \A ref \in {"access", "refresh"}, q \in Procs :
                secrets[ref] # None /\ secrets'[ref] = None /\ At(q, ref) => q \in cut'
<1>t. SecretsFit /\ Fit(proc[p]) /\ secrets \in [Refs -> Flows \cup Tokens \cup {None}]
  BY DEF Typed, TypeOK
<1> DEFINE Frame == /\ row' = row /\ late \ {p} \subseteq late' /\ cut \ {p} \subseteq cut'
                    /\ \A ref \in {"access", "refresh"}, q \in Procs :
                        secrets[ref] # None /\ secrets'[ref] = None /\ At(q, ref) => q \in cut'
<1>2. CASE \/ \E e \in Endpoints : Authorize(p, e)
           \/ \E f \in Flows : Exchange(p, f)
           \/ Refresh(p) \/ Revoke(p)
  BY <1>2 DEF Authorize, Exchange, Refresh, Revoke, Begin, history
<1>3. CASE \/ \E e \in Endpoints : LoadVerifier(p, e) \/ LoadRefresh(p, e)
           \/ StorePkce(p) \/ StoreState(p) \/ CheckState(p)
  BY <1>3, <1>t
     DEF LoadVerifier, LoadRefresh, StorePkce, StoreState, CheckState, End, Goto, history,
         Hold, Refs
<1>4. CASE \/ \E a, b \in BOOLEAN : Redeem(p, a, b) \/ Renew(p, a, b)
           \/ StoreAccess(p) \/ StoreRefresh(p)
  <2>1. proc[p].pc = "access" => proc[p].access # None
    BY <1>t, Ints DEF Fit
  <2>2. proc[p].pc = "refresh" => proc[p].refresh # None
    BY <1>t, Ints DEF Fit
  <2> QED BY <1>4, <1>t, <2>1, <2>2
          DEF Redeem, Renew, Receive, StoreAccess, StoreRefresh, End, Goto, history,
              Hold, Refs, At
<1>5. CASE \/ Has(p, "access", "hasAccess") \/ Has(p, "refresh", "hasRefresh")
           \/ RotateAccess(p) \/ RotateRefresh(p)
  <2>1. proc[p].pc = "access" => proc[p].access # None
    BY <1>t, Ints DEF Fit
  <2>2. proc[p].pc = "refresh" => proc[p].refresh # None
    BY <1>t, Ints DEF Fit
  <2> QED BY <1>5, <1>t, <2>1, <2>2
          DEF Has, RotateAccess, RotateRefresh, End, Goto, Hold, Refs, At
<1>6. ASSUME NEW ok \in BOOLEAN, Drop(p, ok) PROVE Frame
  <2> DEFINE d == Head(proc[p].todo)
  <2>1. /\ row' = row /\ late' = late
        /\ cut' = cut \cup {q \in Procs : At(q, d) /\ d \in {"access", "refresh"}}
        /\ secrets' = secrets \/ secrets' = [secrets EXCEPT ![d] = None]
    BY <1>6 DEF Drop, Hold
  <2> HIDE DEF d
  <2>2. ASSUME NEW ref \in {"access", "refresh"}, NEW q \in Procs,
               secrets[ref] # None, secrets'[ref] = None, At(q, ref)
        PROVE  q \in cut'
    <3>1. ref = d
      BY <2>1, <2>2, <1>t DEF Refs
    <3> QED BY <2>1, <2>2, <3>1
  <2> QED BY <2>1, <2>2
<1>7. CASE Dropped(p) \/ Quit(p)
  BY <1>7 DEF Dropped, Quit, End
<1>8. CASE \/ \E t \in Tools : Invoke(p, t)
           \/ LoadBearer(p) \/ Send(p)
  BY <1>8 DEF Invoke, LoadBearer, Send, End, Goto, history
<1> QED BY <1>2, <1>3, <1>4, <1>5, <1>6, <1>7, <1>8 DEF Step, OAuth, Call

-----------------------------------------------------------------------------
(* Calls: what decided one still holds when it is sent, but for the switch *)
(* that was turned in between.                                             *)
CallInv ==
    \A p \in Procs : proc[p].pc \in {"bearer", "send"} =>
        /\ row.config # None
        /\ (row.present /\ row.enabled) \/ p \in late
        /\ proc[p].tool \in row.config.allow \ row.config.deny

LEMMA CallsKept == Typed /\ CallInv /\ [Next]_vars => CallInv'
<1> SUFFICES ASSUME Typed, CallInv, [Next]_vars PROVE CallInv'
  OBVIOUS
<1>1. CASE UNCHANGED vars
  BY <1>1 DEF vars, CallInv
<1>2. CASE Registry
  <2>1. ASSUME NEW c \in Configs, Add(c) PROVE CallInv'
    BY <2>1 DEF Add, CallInv
  <2>2. ASSUME NEW on \in BOOLEAN, SetEnabled(on) PROVE CallInv'
    BY <2>2 DEF SetEnabled, CallInv, Calling, Typed, TypeOK
  <2>3. CASE RemoveServer
    BY <2>3 DEF RemoveServer, CallInv, Calling, Typed, TypeOK
  <2> QED BY <1>2, <2>1, <2>2, <2>3 DEF Registry
<1>3. ASSUME NEW p \in Procs, Step(p) PROVE CallInv'
  <2> SUFFICES ASSUME NEW q \in Procs, proc'[q].pc \in {"bearer", "send"}
               PROVE  /\ row.config # None
                      /\ (row.present /\ row.enabled) \/ q \in late'
                      /\ proc'[q].tool \in row.config.allow \ row.config.deny
    BY <1>3, StepFrame DEF CallInv
  <2>1. CASE q # p
    BY <1>3, <2>1, OthersSame, StepFrame DEF Same, CallInv
  <2>2. CASE q = p
    <3>t. proc \in [Procs -> Process] /\ proc[p] \in Process
      BY DEF Typed, TypeOK
    <3>1. ASSUME NEW t \in Tools, Invoke(p, t)
          PROVE  /\ row.config # None /\ row.present /\ row.enabled
                 /\ proc'[p].tool \in row.config.allow \ row.config.deny
      <4>1. row.config # None
        BY <3>1, McpAssumption DEF Invoke, Typed
      <4>2. proc'[p].tool = t
        BY <3>1, <3>t DEF Invoke, Enter, Idle
      <4>3. row.enabled /\ t \in row.config.allow \ row.config.deny
        BY <3>1 DEF Invoke, Decide
      <4> QED BY <3>1, <4>1, <4>2, <4>3 DEF Invoke
    <3>2. CASE LoadBearer(p)
      BY <3>2, <3>t, <2>2 DEF LoadBearer, End, Goto, Idle, At, CallInv, Process
    <3>3. CASE \/ \E e \in Endpoints : Authorize(p, e) \/ LoadVerifier(p, e) \/ LoadRefresh(p, e)
               \/ StorePkce(p) \/ StoreState(p)
               \/ \E f \in Flows : Exchange(p, f)
               \/ CheckState(p) \/ Refresh(p) \/ Revoke(p)
      <4>1. CASE \/ \E e \in Endpoints : Authorize(p, e)
                 \/ \E f \in Flows : Exchange(p, f)
                 \/ Refresh(p) \/ Revoke(p)
        <5>1. ASSUME NEW x, Begin(p, x) PROVE proc'[p] = x
          BY <5>1 DEF Begin
        <5>2. proc'[p].pc \in {"pkce", "check", "load", "drop"}
          BY <4>1, <5>1 DEF Authorize, Exchange, Refresh, Revoke, Enter, Idle
        <5> QED BY <2>2, <5>2
      <4>2. CASE \/ \E e \in Endpoints : LoadVerifier(p, e) \/ LoadRefresh(p, e)
                 \/ StorePkce(p) \/ StoreState(p) \/ CheckState(p)
        BY <4>2, <3>t, <2>2
           DEF LoadVerifier, LoadRefresh, StorePkce, StoreState, CheckState, End, Goto, Idle,
               Process
      <4> QED BY <3>3, <4>1, <4>2
    <3>4. CASE \/ \E a, b \in BOOLEAN : Redeem(p, a, b) \/ Renew(p, a, b)
               \/ StoreAccess(p) \/ StoreRefresh(p)
      BY <3>4, <2>2, RedeemRecord, RenewRecord, StoreRecord DEF Idle
    <3>5. CASE \/ Has(p, "access", "hasAccess") \/ Has(p, "refresh", "hasRefresh")
               \/ RotateAccess(p) \/ RotateRefresh(p)
      BY <3>5, <3>t, <2>2 DEF Has, RotateAccess, RotateRefresh, End, Goto, Idle, Process
    <3>6. CASE Dropped(p) \/ Quit(p) \/ Send(p)
      BY <3>6, <3>t, <2>2 DEF Dropped, Quit, Send, End, Idle
    <3>7. CASE \E ok \in BOOLEAN : Drop(p, ok)
      <4> PICK ok \in BOOLEAN : Drop(p, ok)
        BY <3>7
      <4> QED BY <2>2, DropRecord
    <3>8. CASE \E t \in Tools : Invoke(p, t)
      BY <2>2, <3>1, <3>8
    <3> QED BY <1>3, <3>2, <3>3, <3>4, <3>5, <3>6, <3>7, <3>8 DEF Step, OAuth, Call
  <2> QED BY <2>1, <2>2
<1> QED BY <1>1, <1>2, <1>3 DEF Next

(* CallsPermitted: every call that leaves is one the gates and the kill    *)
(* switch allow, for any configurations and any interleaving.              *)
THEOREM CallsArePermitted == Spec => CallsPermitted
<1> DEFINE Permitted ==
      \A p \in Procs : At(p, "send") /\ Send(p) =>
         LET c == row.config IN
         /\ (row.present /\ row.enabled) \/ p \in late
         /\ proc[p].tool \in c.allow \ c.deny
         /\ c.transport = "stdio"
            \/ /\ c.listed
               /\ \/ c.url.scheme = "https" /\ c.url.host = "public"
                  \/ c.url.scheme = "http" /\ c.url.host = "loopback"
<1>1. CallInv => Permitted
  <2> SUFFICES ASSUME CallInv, NEW p \in Procs, At(p, "send"), Send(p)
               PROVE  LET c == row.config IN
                 /\ (row.present /\ row.enabled) \/ p \in late
                 /\ proc[p].tool \in c.allow \ c.deny
                 /\ c.transport = "stdio"
                    \/ /\ c.listed
                       /\ \/ c.url.scheme = "https" /\ c.url.host = "public"
                          \/ c.url.scheme = "http" /\ c.url.host = "loopback"
    OBVIOUS
  <2>1. EndpointOpen(row.config)
    BY DEF Send
  <2> QED BY <2>1 DEF CallInv, At, EndpointOpen, EndpointShape, SecureUrl, Egress
<1>2. Init => CallInv
  BY DEF Init, CallInv, Idle
<1>3. CallsPermitted <=> [][Permitted]_vars
  BY DEF CallsPermitted
<1> HIDE DEF Permitted
<1> QED BY <1>1, <1>2, <1>3, CallsKept, InitTyped, NextTyped, PTL DEF Spec

-----------------------------------------------------------------------------
(* The steps that leave the two tokens and the authorization server alone. *)
Flow(p) ==
    \/ \E e \in Endpoints : Authorize(p, e) \/ LoadVerifier(p, e)
    \/ StorePkce(p) \/ StoreState(p)
    \/ \E f \in Flows : Exchange(p, f)
    \/ CheckState(p) \/ Refresh(p) \/ Revoke(p)
    \/ Dropped(p) \/ Quit(p)
    \/ \E t \in Tools : Invoke(p, t)
    \/ LoadBearer(p) \/ Send(p)

Early == {"pkce", "state", "check", "verifier", "redeem", "load", "drop", "bearer", "send"}

LEMMA FlowRecord ==
    ASSUME Typed, NEW p \in Procs, Flow(p)
    PROVE  \/ proc'[p] = Idle
           \/ /\ proc'[p].pc \in Early /\ proc'[p].old = None
              /\ proc'[p].refresh \in {None, proc[p].refresh}
<1>t. proc \in [Procs -> Process] /\ proc[p] \in Process /\ Fit(proc[p])
  BY DEF Typed, TypeOK
<1>1. CASE \/ \E e \in Endpoints : Authorize(p, e)
           \/ \E f \in Flows : Exchange(p, f)
           \/ Refresh(p)
  <2>1. \A x : Begin(p, x) => proc'[p] = x
    BY BeginRecord
  <2>2. ASSUME NEW e \in Endpoints, Authorize(p, e)
        PROVE  proc'[p] = Enter("authorize", "pkce")
    BY <2>1, <2>2 DEF Authorize
  <2>3. ASSUME NEW f \in Flows, Exchange(p, f)
        PROVE  proc'[p] = [Enter("exchange", "check") EXCEPT !.flow = f]
    BY <2>1, <2>3 DEF Exchange
  <2>4. Refresh(p) => proc'[p] = Enter("refresh", "load")
    BY <2>1 DEF Refresh
  <2> QED BY <1>1, <2>2, <2>3, <2>4 DEF Enter, Idle, Early
<1>2. CASE Revoke(p)
  <2> DEFINE b == \A q \in Procs : proc[q].lane \notin TokenLanes
  <2>1. proc'[p] = [Enter("revoke", "drop") EXCEPT !.todo = AllRefs, !.alone = b]
    BY <1>2, BeginRecord DEF Revoke
  <2> HIDE DEF b
  <2> QED BY <2>1 DEF Enter, Idle, Early
<1>3. proc[p].lane # "refresh" => proc[p].old = None
  BY <1>t DEF Fit
<1>4. CASE \/ \E e \in Endpoints : LoadVerifier(p, e)
           \/ StorePkce(p) \/ StoreState(p) \/ CheckState(p) \/ LoadBearer(p)
  <2>1. proc[p].lane # "refresh"
    BY <1>4, <1>t
       DEF LoadVerifier, StorePkce, StoreState, CheckState, LoadBearer, At, Fit, LaneAt
  <2>2. CASE \E e \in Endpoints : LoadVerifier(p, e)
    BY <1>3, <1>t, <2>1, <2>2 DEF LoadVerifier, End, Early, Process
  <2>3. CASE StorePkce(p)
    BY <1>3, <1>t, <2>1, <2>3 DEF StorePkce, Early, Process
  <2>4. CASE StoreState(p) \/ CheckState(p) \/ LoadBearer(p)
    BY <1>3, <1>t, <2>1, <2>4
       DEF StoreState, CheckState, LoadBearer, End, Goto, Early, Process
  <2> QED BY <1>4, <2>2, <2>3, <2>4
<1>5. CASE Dropped(p) \/ Quit(p) \/ Send(p)
  BY <1>5, <1>t DEF Dropped, Quit, Send, End
<1>6. ASSUME NEW t \in Tools, Invoke(p, t) 
      PROVE  proc'[p].pc \in Early /\ proc'[p].old = None /\ proc'[p].refresh = None
  BY <1>6, <1>t DEF Invoke, Enter, Idle, Early
<1> QED BY <1>1, <1>2, <1>4, <1>5, <1>6 DEF Flow

LEMMA FlowFrame ==
    ASSUME Typed, NEW p \in Procs, Flow(p)
    PROVE  /\ secrets'["access"] = secrets["access"]
           /\ secrets'["refresh"] = secrets["refresh"]
           /\ live' = live /\ issued' = issued
           /\ burnt \subseteq burnt'
<1>t. secrets \in [Refs -> Flows \cup Tokens \cup {None}]
  BY DEF Typed, TypeOK
<1>1. CASE \/ \E e \in Endpoints : Authorize(p, e)
           \/ \E f \in Flows : Exchange(p, f)
           \/ Refresh(p) \/ Revoke(p)
  BY <1>1 DEF Authorize, Exchange, Refresh, Revoke, Begin, external, history
<1>2. CASE \/ \E e \in Endpoints : LoadVerifier(p, e)
           \/ StorePkce(p) \/ StoreState(p) \/ CheckState(p) \/ LoadBearer(p)
  BY <1>2, <1>t
     DEF LoadVerifier, StorePkce, StoreState, CheckState, LoadBearer, external, history,
         Hold, Refs
<1>3. CASE Dropped(p) \/ Quit(p) \/ Send(p) \/ \E t \in Tools : Invoke(p, t)
  BY <1>3 DEF Dropped, Quit, Send, Invoke, external, history, Lose
<1> QED BY <1>1, <1>2, <1>3 DEF Flow

(* The other steps of a command.                                           *)
LEMMA StepKinds ==
    ASSUME NEW p \in Procs, Step(p)
    PROVE  \/ Flow(p)
           \/ \E e \in Endpoints : LoadRefresh(p, e)
           \/ \E a, b \in BOOLEAN : Redeem(p, a, b) \/ Renew(p, a, b)
           \/ StoreAccess(p) \/ StoreRefresh(p)
           \/ Has(p, "access", "hasAccess") \/ Has(p, "refresh", "hasRefresh")
           \/ RotateAccess(p) \/ RotateRefresh(p)
           \/ \E ok \in BOOLEAN : Drop(p, ok)
  BY DEF Step, OAuth, Call, Flow

LEMMA LoadRecord ==
    ASSUME Typed, NEW p \in Procs, NEW e \in Endpoints, LoadRefresh(p, e)
    PROVE  /\ secrets' = secrets /\ live' = live /\ issued' = issued /\ burnt' = burnt
           /\ \/ secrets["refresh"] = None /\ proc'[p] = Idle
              \/ /\ secrets["refresh"] # None
                 /\ proc'[p].pc = "renew" /\ proc'[p].lane = "refresh"
                 /\ proc'[p].old = secrets["refresh"] /\ proc'[p].refresh = None
<1>t. proc \in [Procs -> Process] /\ proc[p] \in Process /\ Fit(proc[p])
  BY DEF Typed, TypeOK
<1>1. proc[p].lane = "refresh" /\ proc[p].refresh = None
  BY <1>t DEF LoadRefresh, At, Fit, LaneAt
<1> QED BY <1>1, <1>t DEF LoadRefresh, End, Process, external

LEMMA HasRecord ==
    ASSUME Typed, NEW p \in Procs,
           NEW ref \in {"access", "refresh"}, NEW pc \in {"hasAccess", "hasRefresh"},
           Has(p, ref, pc)
    PROVE  /\ secrets' = secrets /\ live' = live /\ issued' = issued
           /\ \/ /\ secrets[ref] = None /\ proc'[p] = Idle /\ burnt' = Lose(p)
              \/ /\ secrets[ref] # None
                 /\ proc'[p].pc = ref /\ proc'[p].lane = "refresh"
                 /\ proc'[p].old = proc[p].old /\ proc'[p].refresh = proc[p].refresh
                 /\ burnt' = burnt
<1>t. proc \in [Procs -> Process] /\ proc[p] \in Process /\ Fit(proc[p])
  BY DEF Typed, TypeOK
<1>1. proc[p].lane = "refresh"
  BY <1>t DEF Has, At, Fit, LaneAt
<1> QED BY <1>1, <1>t DEF Has, End, Goto, Process, external

LEMMA RotateRecord ==
    ASSUME Typed, NEW p \in Procs, RotateAccess(p) \/ RotateRefresh(p)
    PROVE  /\ proc[p].lane = "refresh" /\ live' = live /\ issued' = issued /\ burnt' = burnt
           /\ RotateAccess(p) =>
                /\ proc[p].pc = "access" /\ secrets'["refresh"] = secrets["refresh"]
                /\ IF proc[p].refresh = None THEN proc'[p] = Idle
                   ELSE /\ proc'[p].pc = "hasRefresh" /\ proc'[p].lane = "refresh"
                        /\ proc'[p].old = proc[p].old /\ proc'[p].refresh = proc[p].refresh
           /\ RotateRefresh(p) =>
                /\ proc[p].pc = "refresh" /\ proc'[p] = Idle
                /\ secrets'["refresh"] = proc[p].refresh
<1>t. /\ proc \in [Procs -> Process] /\ proc[p] \in Process
      /\ secrets \in [Refs -> Flows \cup Tokens \cup {None}]
  BY DEF Typed, TypeOK
<1>1. CASE RotateAccess(p)
  <2>1. ~RotateRefresh(p)
    BY <1>1 DEF RotateAccess, RotateRefresh, At
  <2>2. /\ proc[p].lane = "refresh" /\ live' = live /\ issued' = issued /\ burnt' = burnt
        /\ proc[p].pc = "access" /\ secrets'["refresh"] = secrets["refresh"]
    BY <1>1, <1>t DEF RotateAccess, At, Hold, Refs, external
  <2>3. IF proc[p].refresh = None THEN proc'[p] = Idle
        ELSE /\ proc'[p].pc = "hasRefresh" /\ proc'[p].lane = proc[p].lane
             /\ proc'[p].old = proc[p].old /\ proc'[p].refresh = proc[p].refresh
    BY <1>1, <1>t DEF RotateAccess, End, Goto, Process
  <2> QED BY <2>1, <2>2, <2>3
<1>2. CASE RotateRefresh(p)
  <2>1. ~RotateAccess(p)
    BY <1>2 DEF RotateAccess, RotateRefresh, At
  <2> QED BY <1>2, <1>t, <2>1 DEF RotateRefresh, At, Hold, Refs, End, external
<1> QED BY <1>1, <1>2

-----------------------------------------------------------------------------
(* Renewals: one about to store a token saw one in the vault, or knows     *)
(* that it was deleted since.                                              *)
ResurInv ==
    \A p \in Procs : proc[p].lane = "refresh" =>
        /\ proc[p].pc = "access" => secrets["access"] # None \/ p \in cut
        /\ proc[p].pc = "refresh" => secrets["refresh"] # None \/ p \in cut

LEMMA ResurKept == Typed /\ ResurInv /\ [Next]_vars => ResurInv'
<1> SUFFICES ASSUME Typed, ResurInv, [Next]_vars PROVE ResurInv'
  OBVIOUS
<1>1. CASE UNCHANGED <<proc, secrets, cut>>
  BY <1>1 DEF ResurInv
<1>2. ASSUME NEW p \in Procs, Step(p) PROVE ResurInv'
  <2> SUFFICES ASSUME NEW q \in Procs, proc'[q].lane = "refresh"
               PROVE  \A ref \in {"access", "refresh"} :
                        proc'[q].pc = ref => secrets'[ref] # None \/ q \in cut'
    BY DEF ResurInv
  <2>1. CASE q # p
    BY <1>2, <2>1, OthersSame, StepFrame DEF Same, ResurInv, At
  <2>2. CASE q = p
    <3>1. CASE Flow(p)
      BY <2>2, <3>1, FlowRecord DEF Early, Idle
    <3>2. CASE \E e \in Endpoints : LoadRefresh(p, e)
      BY <2>2, <3>2, LoadRecord DEF Idle
    <3>3. CASE \E a, b \in BOOLEAN : Redeem(p, a, b) \/ Renew(p, a, b)
      BY <2>2, <3>3, RedeemRecord, RenewRecord DEF Idle
    <3>4. CASE StoreAccess(p) \/ StoreRefresh(p)
      BY <2>2, <3>4, StoreRecord
    <3>5. CASE Has(p, "access", "hasAccess") \/ Has(p, "refresh", "hasRefresh")
      BY <2>2, <3>5, HasRecord DEF Idle
    <3>6. CASE RotateAccess(p) \/ RotateRefresh(p)
      BY <2>2, <3>6, RotateRecord DEF Idle
    <3>7. CASE \E ok \in BOOLEAN : Drop(p, ok)
      BY <2>2, <3>7, DropRecord
    <3> QED BY <1>2, <3>1, <3>2, <3>3, <3>4, <3>5, <3>6, <3>7, StepKinds
  <2> QED BY <2>1, <2>2
<1>3. CASE Registry
  BY <1>1, <1>3 DEF Registry, Add, SetEnabled, RemoveServer, history
<1> QED BY <1>1, <1>2, <1>3 DEF Next, vars

(* NoResurrection: no renewal, among any commands, brings back a token     *)
(* that was deleted before its last look.                                  *)
THEOREM DeletedStaysDeleted == Spec => NoResurrection
<1> DEFINE Stays ==
      \A p \in Procs :
         proc[p].lane = "refresh" /\ (RotateAccess(p) \/ RotateRefresh(p)) =>
            \A ref \in Refs : secrets[ref] = None /\ secrets'[ref] # None => p \in cut
<1>1. Typed /\ ResurInv => Stays
  BY DEF ResurInv, RotateAccess, RotateRefresh, Hold, At, Typed, TypeOK
<1>2. Init => ResurInv
  BY DEF Init, ResurInv, Idle
<1>3. NoResurrection <=> [][Stays]_vars
  BY DEF NoResurrection
<1> HIDE DEF Stays
<1> QED BY <1>1, <1>2, <1>3, ResurKept, InitTyped, NextTyped, PTL DEF Spec

-----------------------------------------------------------------------------
(* Revocations: one that is alone meets no token lane, and has deleted     *)
(* what is no longer on its list.  Afterwards, until the next exchange     *)
(* stores a token, no lane holds one it could store.                       *)
RevokeTodos ==
    {<<>>, <<"refresh">>, <<"access", "refresh">>, <<"state", "access", "refresh">>, AllRefs}

AloneInv ==
    \A p \in Procs : proc[p].lane = "revoke" /\ proc[p].alone =>
        /\ \A q \in Procs : proc[q].lane \notin TokenLanes
        /\ proc[p].todo \in RevokeTodos
        /\ proc[p].todo \in {<<>>, <<"refresh">>} => secrets["access"] = None
        /\ proc[p].todo = <<>> => secrets["refresh"] = None

RevokedInv ==
    revoked =>
        /\ secrets["access"] = None /\ secrets["refresh"] = None
        /\ \A p \in Procs :
            /\ proc[p].lane = "refresh" => proc[p].pc = "load"
            /\ proc[p].lane = "exchange" => proc[p].pc # "refresh"

(* The list of a revoke gets shorter from the front.                       *)
LEMMA RevokeList ==
    /\ AllRefs \in RevokeTodos /\ AllRefs # <<>> /\ AllRefs # <<"refresh">>
    /\ \A t \in RevokeTodos : t # <<>> =>
        /\ Tail(t) \in RevokeTodos
        /\ Tail(t) \in {<<>>, <<"refresh">>} => Head(t) = "access" \/ t = <<"refresh">>
        /\ Tail(t) = <<>> => Head(t) = "refresh"
<1>1. AllRefs \in RevokeTodos /\ AllRefs # <<>> /\ AllRefs # <<"refresh">>
  BY DEF RevokeTodos, AllRefs
<1>2. ASSUME NEW t \in RevokeTodos, t # <<>>
      PROVE  /\ Tail(t) \in RevokeTodos
             /\ Tail(t) \in {<<>>, <<"refresh">>} => Head(t) = "access" \/ t = <<"refresh">>
             /\ Tail(t) = <<>> => Head(t) = "refresh"
  <2>1. CASE t = <<"refresh">>
    BY <2>1 DEF RevokeTodos
  <2>2. CASE t = <<"access", "refresh">>
    BY <2>2 DEF RevokeTodos
  <2>3. CASE t = <<"state", "access", "refresh">>
    BY <2>3 DEF RevokeTodos
  <2>4. CASE t = AllRefs
    BY <2>4 DEF RevokeTodos, AllRefs
  <2> QED BY <1>2, <2>1, <2>2, <2>3, <2>4 DEF RevokeTodos
<1> QED BY <1>1, <1>2

(* Which lane a command is in after a step.                                *)
LEMMA LaneKept ==
    ASSUME Typed, NEW p \in Procs, Step(p)
    PROVE  \/ proc'[p] = Idle
           \/ proc'[p].lane = proc[p].lane
           \/ proc[p].pc = "idle"
<1>t. proc \in [Procs -> Process] /\ proc[p] \in Process /\ Fit(proc[p])
  BY DEF Typed, TypeOK
<1>1. CASE \/ \E e \in Endpoints : Authorize(p, e)
           \/ \E f \in Flows : Exchange(p, f)
           \/ Refresh(p) \/ Revoke(p) \/ \E t \in Tools : Invoke(p, t)
  BY <1>1 DEF Authorize, Exchange, Refresh, Revoke, Invoke, Begin, At
<1>2. CASE \/ \E e \in Endpoints : LoadVerifier(p, e)
           \/ StoreState(p) \/ CheckState(p) \/ LoadBearer(p)
           \/ Dropped(p) \/ Quit(p) \/ Send(p)
  BY <1>2, <1>t
     DEF LoadVerifier, StoreState, CheckState, LoadBearer, Dropped, Quit, Send, End, Goto,
         Process
<1>3. CASE StorePkce(p)
  BY <1>3, <1>t DEF StorePkce, Process
<1>4. CASE \/ \E a, b \in BOOLEAN : Redeem(p, a, b) \/ Renew(p, a, b)
           \/ \E e \in Endpoints : LoadRefresh(p, e)
           \/ Has(p, "access", "hasAccess") \/ Has(p, "refresh", "hasRefresh")
  BY <1>4, <1>t, RedeemRecord, RenewRecord, LoadRecord, HasRecord
     DEF Redeem, Renew, LoadRefresh, Has, At, Fit, LaneAt
<1>5. CASE \/ StoreAccess(p) \/ StoreRefresh(p) \/ RotateAccess(p) \/ RotateRefresh(p)
           \/ \E ok \in BOOLEAN : Drop(p, ok)
  BY <1>5, StoreRecord, RotateRecord, DropRecord
<1> QED BY <1>1, <1>2, <1>3, <1>4, <1>5 DEF Step, OAuth, Call

(* Only a store of a token puts one where there was none, and it is a      *)
(* token lane that stores.                                                 *)
Stores(p) == StoreAccess(p) \/ StoreRefresh(p) \/ RotateAccess(p) \/ RotateRefresh(p)

LEMMA OnlyStores ==
    ASSUME Typed, NEW p \in Procs, Step(p), ~Stores(p), NEW ref \in {"access", "refresh"},
           secrets[ref] = None
    PROVE  secrets'[ref] = None
<1>1. CASE Flow(p)
  BY <1>1, FlowFrame
<1>2. CASE \/ \E e \in Endpoints : LoadRefresh(p, e)
           \/ Has(p, "access", "hasAccess") \/ Has(p, "refresh", "hasRefresh")
  BY <1>2, LoadRecord, HasRecord
<1>3. CASE \E a, b \in BOOLEAN : Redeem(p, a, b) \/ Renew(p, a, b)
  BY <1>3 DEF Redeem, Renew
<1>4. ASSUME NEW ok \in BOOLEAN, Drop(p, ok) PROVE secrets'[ref] = None
  <2> DEFINE d == Head(proc[p].todo)
  <2>1. secrets' = secrets \/ secrets' = [secrets EXCEPT ![d] = None]
    BY <1>4 DEF Drop, Hold
  <2>2. ref \in DOMAIN secrets
    BY DEF Typed, TypeOK, Refs
  <2> HIDE DEF d
  <2> QED BY <2>1, <2>2
<1> QED BY <1>1, <1>2, <1>3, <1>4, StepKinds DEF Stores

LEMMA StoresLane ==
    ASSUME Typed, NEW p \in Procs, Stores(p)
    PROVE  proc[p].lane \in TokenLanes
  BY StoreRecord, RotateRecord DEF Stores, TokenLanes

(* A token lane that begins ends the solitude of a revoke.                 *)
LEMMA LaneBegun ==
    ASSUME Typed, NEW r \in Procs, Step(r), NEW p \in Procs, p # r, proc[p].lane = "revoke",
           proc[r].lane \notin TokenLanes, proc'[r].lane \in TokenLanes
    PROVE  ~proc'[p].alone
<1>t. proc \in [Procs -> Process] /\ proc[r] \in Process /\ proc[p] \in Process
  BY DEF Typed, TypeOK
<1>1. ASSUME NEW x, Begin(r, x) PROVE ~proc'[p].alone
  <2> DEFINE b == proc[p].alone /\ ~(proc[p].lane = "revoke" /\ x.lane \in TokenLanes)
  <2>1. proc'[p] = [proc[p] EXCEPT !.alone = b] /\ proc'[r] = x
    BY <1>1 DEF Begin
  <2>2. ~b
    BY <2>1
  <2> HIDE DEF b
  <2> QED BY <2>1, <2>2, <1>t DEF Process
<1>2. proc[r].pc = "idle"
  <2>1. proc'[r] # Idle /\ proc'[r].lane # proc[r].lane
    BY McpAssumption DEF Idle, TokenLanes, Lanes
  <2> QED BY <2>1, LaneKept
<1>3. CASE \/ \E e \in Endpoints : Authorize(r, e)
           \/ \E f \in Flows : Exchange(r, f)
           \/ Refresh(r) \/ Revoke(r)
  BY <1>1, <1>3 DEF Authorize, Exchange, Refresh, Revoke
<1>4. ASSUME NEW t \in Tools, Invoke(r, t) PROVE FALSE
  <2>1. proc'[r].lane = "invoke"
    BY <1>4, <1>t DEF Invoke, Enter, Idle
  <2> QED BY <2>1 DEF TokenLanes
<1>5. CASE \/ \E e \in Endpoints : LoadVerifier(r, e) \/ LoadRefresh(r, e)
           \/ StorePkce(r) \/ StoreState(r) \/ CheckState(r)
           \/ \E a, b \in BOOLEAN : Redeem(r, a, b) \/ Renew(r, a, b)
           \/ StoreAccess(r) \/ StoreRefresh(r)
  BY <1>2, <1>5
     DEF LoadVerifier, LoadRefresh, StorePkce, StoreState, CheckState, Redeem, Renew,
         StoreAccess, StoreRefresh, At
<1>6. CASE \/ Has(r, "access", "hasAccess") \/ Has(r, "refresh", "hasRefresh")
           \/ RotateAccess(r) \/ RotateRefresh(r)
           \/ \E ok \in BOOLEAN : Drop(r, ok)
           \/ Dropped(r) \/ Quit(r) \/ LoadBearer(r) \/ Send(r)
  BY <1>2, <1>6
     DEF Has, RotateAccess, RotateRefresh, Drop, Dropped, Quit, LoadBearer, Send, At
<1> QED BY <1>3, <1>4, <1>5, <1>6 DEF Step, OAuth, Call

(* A revoke begins, deletes or ends.                                       *)
LEMMA RevokeKinds ==
    ASSUME Typed, NEW p \in Procs, Step(p), proc'[p].lane = "revoke"
    PROVE  Revoke(p) \/ \E ok \in BOOLEAN : Drop(p, ok) /\ proc[p].lane = "revoke"
<1>t. proc \in [Procs -> Process] /\ proc[p] \in Process /\ Fit(proc[p])
  BY DEF Typed, TypeOK
<1>n. Idle.lane # "revoke"
  BY McpAssumption DEF Idle, Lanes
<1>1. CASE \/ \E e \in Endpoints : Authorize(p, e)
           \/ \E f \in Flows : Exchange(p, f)
           \/ Refresh(p) \/ \E t \in Tools : Invoke(p, t)
  <2>1. \A x : Begin(p, x) => proc'[p] = x
    BY BeginRecord
  <2>2. \/ \E e \in Endpoints : Authorize(p, e)
        \/ \E f \in Flows : Exchange(p, f)
        \/ Refresh(p)
        => proc'[p].lane \in {"authorize", "exchange", "refresh"}
    <3>1. ASSUME NEW e \in Endpoints, Authorize(p, e)
          PROVE  proc'[p] = Enter("authorize", "pkce")
      BY <2>1, <3>1 DEF Authorize
    <3>2. ASSUME NEW f \in Flows, Exchange(p, f)
          PROVE  proc'[p] = [Enter("exchange", "check") EXCEPT !.flow = f]
      BY <2>1, <3>2 DEF Exchange
    <3>3. Refresh(p) => proc'[p] = Enter("refresh", "load")
      BY <2>1 DEF Refresh
    <3> QED BY <3>1, <3>2, <3>3 DEF Enter, Idle
  <2>3. ASSUME NEW t \in Tools, Invoke(p, t) PROVE proc'[p].lane = "invoke"
    BY <2>3, <1>t DEF Invoke, Enter, Idle
  <2> QED BY <1>1, <2>2, <2>3
<1>2. CASE proc[p].pc = "idle" \/ proc[p].lane = "revoke"
  <2>1. proc[p].pc \in {"idle", "drop"}
    BY <1>2, <1>t DEF Fit, LaneAt, Process, Pc
  <2>2. CASE \/ \E e \in Endpoints : LoadVerifier(p, e) \/ LoadRefresh(p, e)
             \/ StorePkce(p) \/ StoreState(p) \/ CheckState(p)
             \/ \E a, b \in BOOLEAN : Redeem(p, a, b) \/ Renew(p, a, b)
             \/ StoreAccess(p) \/ StoreRefresh(p)
    BY <2>1, <2>2
       DEF LoadVerifier, LoadRefresh, StorePkce, StoreState, CheckState, Redeem, Renew,
           StoreAccess, StoreRefresh, At
  <2>3. CASE \/ Has(p, "access", "hasAccess") \/ Has(p, "refresh", "hasRefresh")
             \/ RotateAccess(p) \/ RotateRefresh(p) \/ LoadBearer(p) \/ Send(p)
    BY <2>1, <2>3 DEF Has, RotateAccess, RotateRefresh, LoadBearer, Send, At
  <2>4. CASE Dropped(p) \/ Quit(p)
    BY <1>n, <1>t, <2>4 DEF Dropped, Quit, End
  <2>5. ASSUME NEW ok \in BOOLEAN, Drop(p, ok) PROVE proc[p].lane = "revoke"
    BY <2>5, DropRecord
  <2> QED BY <1>1, <2>2, <2>3, <2>4, <2>5 DEF Step, OAuth, Call
<1> QED BY <1>2, <1>n, LaneKept

LEMMA AloneKept == Typed /\ AloneInv /\ [Next]_vars => AloneInv'
<1> SUFFICES ASSUME Typed, AloneInv, [Next]_vars PROVE AloneInv'
  OBVIOUS
<1>1. CASE UNCHANGED <<proc, secrets>>
  BY <1>1 DEF AloneInv
<1>2. ASSUME NEW r \in Procs, Step(r) PROVE AloneInv'
  <2> SUFFICES ASSUME NEW p \in Procs, proc'[p].lane = "revoke", proc'[p].alone
               PROVE  /\ \A q \in Procs : proc'[q].lane \notin TokenLanes
                      /\ proc'[p].todo \in RevokeTodos
                      /\ proc'[p].todo \in {<<>>, <<"refresh">>} => secrets'["access"] = None
                      /\ proc'[p].todo = <<>> => secrets'["refresh"] = None
    BY DEF AloneInv
  <2>1. CASE p # r
    <3>1. /\ proc[p].lane = "revoke" /\ proc[p].alone /\ proc'[p].todo = proc[p].todo
          /\ \A q \in Procs : proc[q].lane \notin TokenLanes
      BY <1>2, <2>1, OthersSame DEF Same, AloneInv
    <3>2. \A q \in Procs : proc'[q].lane \notin TokenLanes
      BY <1>2, <2>1, <3>1, OthersSame, LaneBegun DEF Same
    <3>3. ~Stores(r)
      BY <3>1, StoresLane
    <3> QED BY <1>2, <3>1, <3>2, <3>3, OnlyStores DEF AloneInv
  <2>2. CASE p = r /\ Revoke(r)
    <3> DEFINE b == \A q \in Procs : proc[q].lane \notin TokenLanes
               x == [Enter("revoke", "drop") EXCEPT !.todo = AllRefs, !.alone = b]
    <3>1. proc'[r] = x
      BY <2>2, BeginRecord DEF Revoke
    <3> HIDE DEF b
    <3>2. proc'[r].lane = "revoke" /\ proc'[r].alone = b /\ proc'[r].todo = AllRefs
      BY <3>1 DEF Enter, Idle
    <3>3. \A q \in Procs : proc'[q].lane \notin TokenLanes
      BY <1>2, <2>2, <3>2, OthersSame DEF b, Same, TokenLanes
    <3> QED BY <2>2, <3>2, <3>3, RevokeList
  <2>3. ASSUME p = r, NEW ok \in BOOLEAN, Drop(p, ok), proc[p].lane = "revoke"
        PROVE  /\ \A q \in Procs : proc'[q].lane \notin TokenLanes
               /\ proc'[p].todo \in RevokeTodos
               /\ proc'[p].todo \in {<<>>, <<"refresh">>} => secrets'["access"] = None
               /\ proc'[p].todo = <<>> => secrets'["refresh"] = None
    <3>1. /\ proc[p].todo # <<>> /\ proc'[p].todo = Tail(proc[p].todo)
          /\ proc[p].alone /\ ok
          /\ \A q \in Procs \ {p} : proc'[q] = proc[q]
      BY <2>3, DropRecord
    <3>2. /\ \A q \in Procs : proc[q].lane \notin TokenLanes
          /\ proc[p].todo \in RevokeTodos
          /\ proc[p].todo \in {<<>>, <<"refresh">>} => secrets["access"] = None
      BY <2>3, <3>1 DEF AloneInv
    <3>3. secrets' = [secrets EXCEPT ![Head(proc[p].todo)] = None]
      BY <2>3, <3>1 DEF Drop, Hold
    <3>4. \A q \in Procs : proc'[q].lane \notin TokenLanes
      BY <2>3, <3>1, <3>2 DEF TokenLanes
    <3> DEFINE t == proc[p].todo
    <3>5. /\ Tail(t) \in RevokeTodos
          /\ Tail(t) \in {<<>>, <<"refresh">>} => Head(t) = "access" \/ t = <<"refresh">>
          /\ Tail(t) = <<>> => Head(t) = "refresh"
      BY <3>1, <3>2, RevokeList
    <3>6. {"access", "refresh"} \subseteq DOMAIN secrets
      BY DEF Typed, TypeOK, Refs
    <3>7. ASSUME Tail(t) \in {<<>>, <<"refresh">>} PROVE secrets'["access"] = None
      BY <3>2, <3>3, <3>5, <3>6, <3>7
    <3>8. ASSUME Tail(t) = <<>> PROVE secrets'["refresh"] = None
      BY <3>3, <3>5, <3>6, <3>8
    <3> QED BY <3>1, <3>4, <3>5, <3>7, <3>8
  <2> QED BY <1>2, <2>1, <2>2, <2>3, RevokeKinds
<1>3. CASE Registry
  BY <1>1, <1>3 DEF Registry, Add, SetEnabled, RemoveServer, history
<1> QED BY <1>1, <1>2, <1>3 DEF Next, vars

LEMMA RevokedKept == Typed /\ AloneInv /\ RevokedInv /\ [Next]_vars => RevokedInv'
<1> SUFFICES ASSUME Typed, AloneInv, RevokedInv, [Next]_vars, revoked' PROVE RevokedInv'
  BY DEF RevokedInv
<1>t. Typed'
  BY NextTyped
<1>1. CASE UNCHANGED <<proc, secrets, revoked>>
  BY <1>1 DEF RevokedInv
<1>2. ASSUME NEW p \in Procs, Step(p) PROVE RevokedInv'
  <2>n. Idle.lane # "refresh" /\ Idle.lane # "exchange"
    BY McpAssumption DEF Idle, Lanes
  <2>1. CASE revoked
    <3>0. /\ secrets["access"] = None /\ secrets["refresh"] = None
          /\ \A q \in Procs : /\ proc[q].lane = "refresh" => proc[q].pc = "load"
                              /\ proc[q].lane = "exchange" => proc[q].pc # "refresh"
      BY <2>1 DEF RevokedInv
    <3>1. ~Stores(p)
      <4>1. ~StoreAccess(p)
        BY DEF StoreAccess
      <4>2. ~StoreRefresh(p) /\ ~RotateAccess(p) /\ ~RotateRefresh(p)
        BY <3>0 DEF StoreRefresh, RotateAccess, RotateRefresh, At
      <4> QED BY <4>1, <4>2 DEF Stores
    <3>2. secrets'["access"] = None /\ secrets'["refresh"] = None
      BY <1>2, <3>0, <3>1, OnlyStores
    <3>3. ASSUME NEW q \in Procs, q # p
          PROVE  /\ proc'[q].lane = "refresh" => proc'[q].pc = "load"
                 /\ proc'[q].lane = "exchange" => proc'[q].pc # "refresh"
      BY <1>2, <3>0, <3>3, OthersSame DEF Same
    <3>4. /\ proc'[p].lane = "refresh" => proc'[p].pc = "load"
          /\ proc'[p].lane = "exchange" => proc'[p].pc # "refresh"
      <4>t. Fit(proc[p]) /\ Fit(proc'[p])
        BY <1>t DEF Typed
      <4>1. CASE Flow(p)
        <5>1. CASE proc'[p] = Idle
          BY <2>n, <5>1
        <5>2. CASE proc'[p].pc \in Early
          BY <4>t, <5>2 DEF Early, Fit, LaneAt
        <5> QED BY <4>1, <5>1, <5>2, FlowRecord
      <4>2. CASE \E e \in Endpoints : LoadRefresh(p, e)
        BY <2>n, <3>0, <4>2, LoadRecord
      <4>3. CASE \E a, b \in BOOLEAN : Redeem(p, a, b)
        BY <2>n, <4>3, RedeemRecord
      <4>4. CASE \/ \E a, b \in BOOLEAN : Renew(p, a, b)
                 \/ Has(p, "access", "hasAccess") \/ Has(p, "refresh", "hasRefresh")
        <5>1. proc[p].pc \in {"renew", "hasAccess", "hasRefresh"}
          BY <4>4 DEF Renew, Has, At
        <5>2. proc[p].lane = "refresh"
          BY <4>t, <5>1 DEF Fit, LaneAt
        <5> QED BY <3>0, <5>1, <5>2
      <4>5. CASE \E ok \in BOOLEAN : Drop(p, ok)
        <5>1. proc'[p].pc = "drop"
          BY <4>5, DropRecord
        <5> QED BY <4>t, <5>1 DEF Fit, LaneAt
      <4> QED BY <1>2, <3>1, <4>1, <4>2, <4>3, <4>4, <4>5, StepKinds DEF Stores
    <3> QED BY <3>2, <3>3, <3>4 DEF RevokedInv
  <2>2. CASE ~revoked
    <3>1. Dropped(p) /\ proc[p].lane = "revoke" /\ proc[p].alone
      <4>1. CASE Dropped(p)
        BY <2>2, <4>1 DEF Dropped
      <4>2. CASE \/ \E e \in Endpoints : Authorize(p, e)
                 \/ \E f \in Flows : Exchange(p, f)
                 \/ Refresh(p) \/ Revoke(p)
        BY <2>2, <4>2 DEF Authorize, Exchange, Refresh, Revoke, Begin, history
      <4>3. CASE \/ \E e \in Endpoints : LoadVerifier(p, e) \/ LoadRefresh(p, e)
                 \/ StorePkce(p) \/ StoreState(p) \/ CheckState(p)
                 \/ \E a, b \in BOOLEAN : Redeem(p, a, b) \/ Renew(p, a, b)
                 \/ StoreAccess(p) \/ StoreRefresh(p)
        BY <2>2, <4>3
           DEF LoadVerifier, LoadRefresh, StorePkce, StoreState, CheckState, Redeem, Renew,
               StoreAccess, StoreRefresh, history
      <4>4. CASE \/ Has(p, "access", "hasAccess") \/ Has(p, "refresh", "hasRefresh")
                 \/ RotateAccess(p) \/ RotateRefresh(p)
                 \/ \E ok \in BOOLEAN : Drop(p, ok)
                 \/ Quit(p) \/ LoadBearer(p) \/ Send(p) \/ \E t \in Tools : Invoke(p, t)
        BY <2>2, <4>4
           DEF Has, RotateAccess, RotateRefresh, Drop, Quit, LoadBearer, Send, Invoke, history
      <4> QED BY <1>2, <4>1, <4>2, <4>3, <4>4 DEF Step, OAuth, Call
    <3>2. /\ \A q \in Procs : proc[q].lane \notin TokenLanes
          /\ secrets["access"] = None /\ secrets["refresh"] = None
      BY <3>1 DEF AloneInv, Dropped
    <3>3. secrets' = secrets /\ proc'[p] = Idle /\ \A q \in Procs \ {p} : proc'[q] = proc[q]
      BY <3>1 DEF Dropped, End, Typed, TypeOK
    <3> QED BY <2>n, <3>2, <3>3 DEF RevokedInv, TokenLanes
  <2> QED BY <2>1, <2>2
<1>3. CASE Registry
  BY <1>1, <1>3 DEF Registry, Add, SetEnabled, RemoveServer, history
<1> QED BY <1>1, <1>2, <1>3 DEF Next, vars

(* RevokeHolds: a revoke that no token lane crossed leaves no token, and   *)
(* none comes back before the next exchange, among any commands.           *)
THEOREM RevokeStands == Spec => []RevokeHolds
<1>1. Init => AloneInv /\ RevokedInv
  BY McpAssumption DEF Init, AloneInv, RevokedInv, Idle, Lanes
<1>2. RevokedInv => RevokeHolds
  BY DEF RevokedInv, RevokeHolds
<1> QED BY <1>1, <1>2, AloneKept, RevokedKept, InitTyped, NextTyped, PTL DEF Spec

-----------------------------------------------------------------------------
(* Refresh tokens: one that a command holds and has not stored is accepted *)
(* by the server, and nobody else holds, uses or has stored it.            *)
Holding(p) ==
    /\ proc[p].refresh # None
    /\ \/ proc[p].lane = "refresh"
       \/ proc[p].pc \in {"access", "refresh"}

Known ==
    /\ live \subseteq 1 .. issued
    /\ secrets["refresh"] # None => secrets["refresh"] \in 1 .. issued
    /\ \A p \in Procs :
        /\ proc[p].old # None => proc[p].old \in 1 .. issued
        /\ proc[p].refresh # None => proc[p].refresh \in 1 .. issued

HeldInv ==
    \A p \in Procs : Holding(p) =>
        /\ proc[p].refresh \in live
        /\ secrets["refresh"] # proc[p].refresh
        /\ \A q \in Procs :
            /\ proc[q].old # proc[p].refresh
            /\ q # p /\ Holding(q) => proc[q].refresh # proc[p].refresh

TokenInv == Known /\ HeldInv /\ RefreshLives

(* A step of p that stores no refresh token and takes none from the        *)
(* server: p holds no other one than before, and does not forget one.      *)
LEMMA TokensStay ==
    ASSUME Typed, TokenInv, NEW p \in Procs, \A q \in Procs \ {p} : Same(q),
           live' = live, issued' = issued, burnt \subseteq burnt',
           secrets'["refresh"] \in {None, secrets["refresh"]},
           proc'[p].old \in {None, proc[p].old, secrets["refresh"]},
           proc'[p].refresh \in {None, proc[p].refresh},
           Holding(p)' => Holding(p) /\ proc'[p].refresh = proc[p].refresh,
           proc[p].old # None /\ proc[p].refresh \in live =>
              \/ proc[p].old \in burnt'
              \/ proc'[p].old = proc[p].old /\ proc'[p].refresh = proc[p].refresh
    PROVE  TokenInv'
<1>1. \A q \in Procs \ {p} : /\ proc'[q].old = proc[q].old
                             /\ proc'[q].refresh = proc[q].refresh
                             /\ (Holding(q)' <=> Holding(q))
  BY DEF Same, Holding
<1>2. Known'
  BY <1>1 DEF TokenInv, Known
<1>3. \A q \in Procs : Holding(q)' => Holding(q) /\ proc'[q].refresh = proc[q].refresh
  BY <1>1
<1>4. \A q \in Procs : \/ proc'[q].old = None \/ proc'[q].old = proc[q].old
                       \/ proc'[q].old = secrets["refresh"]
  BY <1>1
<1>5. \A q \in Procs : Holding(q) => proc[q].refresh # None
  BY DEF Holding
<1>6. HeldInv'
  BY <1>3, <1>4, <1>5 DEF TokenInv, HeldInv
<1>7. RefreshLives'
  <2> SUFFICES ASSUME secrets'["refresh"] # None
               PROVE  \/ secrets["refresh"] \in live \cup burnt'
                      \/ \E q \in Procs : /\ proc'[q].old = secrets["refresh"]
                                          /\ proc'[q].refresh \in live
    BY DEF RefreshLives
  <2>1. secrets["refresh"] # None
    OBVIOUS
  <2>2. \/ secrets["refresh"] \in live \cup burnt
        \/ \E q \in Procs : proc[q].old = secrets["refresh"] /\ proc[q].refresh \in live
    BY <2>1 DEF TokenInv, RefreshLives
  <2>3. ASSUME NEW q \in Procs, proc[q].old = secrets["refresh"], proc[q].refresh \in live
        PROVE  \/ secrets["refresh"] \in burnt'
               \/ proc'[q].old = secrets["refresh"] /\ proc'[q].refresh \in live
    BY <1>1, <2>1, <2>3
  <2> QED BY <2>2, <2>3
<1> QED BY <1>2, <1>6, <1>7 DEF TokenInv

Elsewhere(p) ==
    \A q \in Procs \ {p} : /\ proc'[q].old = proc[q].old
                            /\ proc'[q].refresh = proc[q].refresh
                            /\ (Holding(q)' <=> Holding(q))

(* A token that is redeemed is new.                                        *)
LEMMA NewToken ==
    ASSUME Typed, TokenInv, NEW p \in Procs, Elsewhere(p),
           issued' = issued + 1, live \subseteq live', live' \subseteq live \cup {issued + 1},
           secrets' = secrets, burnt' = burnt, proc[p].old = None, proc'[p].old = None,
           proc'[p].refresh \in {None, issued + 1},
           proc'[p].refresh = issued + 1 => issued + 1 \in live'
    PROVE  TokenInv'
<1> DEFINE n == issued + 1
<1>n. /\ n \in Int /\ n # None /\ n \notin 1 .. issued
      /\ 1 .. issued \subseteq 1 .. n /\ n \in 1 .. n /\ None \notin 1 .. issued
  BY McpAssumption DEF Typed, TypeOK
<1>f. /\ issued' = n /\ live \subseteq live' /\ live' \subseteq live \cup {n}
      /\ proc'[p].refresh \in {None, n} /\ (proc'[p].refresh = n => n \in live')
  OBVIOUS
<1> HIDE DEF n
<1>q. \A q \in Procs \ {p} : /\ proc'[q].old = proc[q].old
                             /\ proc'[q].refresh = proc[q].refresh
                             /\ (Holding(q)' <=> Holding(q))
  BY DEF Elsewhere
<1>1. Known'
  BY <1>n, <1>f, <1>q DEF TokenInv, Known
<1>2. /\ secrets["refresh"] # n
      /\ \A q \in Procs : proc[q].old # n /\ proc[q].refresh # n
  BY <1>n DEF TokenInv, Known
<1>3. \A q \in Procs : proc'[q].old = proc[q].old
  BY <1>q
<1>4. HeldInv'
  <2> SUFFICES ASSUME NEW r \in Procs, Holding(r)'
               PROVE  /\ proc'[r].refresh \in live'
                      /\ secrets["refresh"] # proc'[r].refresh
                      /\ \A q \in Procs :
                          /\ proc'[q].old # proc'[r].refresh
                          /\ (q # r /\ Holding(q)' => proc'[q].refresh # proc'[r].refresh)
    BY DEF HeldInv
  <2>1. CASE r = p
    <3>1. proc'[p].refresh = n
      BY <1>f, <2>1 DEF Holding
    <3> QED BY <1>f, <1>q, <1>2, <1>3, <2>1, <3>1
  <2>2. CASE r # p
    <3>1. Holding(r) /\ proc'[r].refresh = proc[r].refresh /\ proc[r].refresh # None
      BY <1>q, <2>2 DEF Holding
    <3>2. /\ proc[r].refresh \in live
          /\ secrets["refresh"] # proc[r].refresh
          /\ \A q \in Procs :
              /\ proc[q].old # proc[r].refresh
              /\ (q # r /\ Holding(q) => proc[q].refresh # proc[r].refresh)
      BY <3>1 DEF TokenInv, HeldInv
    <3> QED BY <1>f, <1>q, <1>2, <1>3, <3>1, <3>2
  <2> QED BY <2>1, <2>2
<1>5. RefreshLives'
  <2> SUFFICES ASSUME secrets["refresh"] # None
               PROVE  \/ secrets["refresh"] \in live' \cup burnt
                      \/ \E q \in Procs : /\ proc'[q].old = secrets["refresh"]
                                          /\ proc'[q].refresh \in live'
    BY DEF RefreshLives
  <2>1. \/ secrets["refresh"] \in live \cup burnt
        \/ \E q \in Procs : proc[q].old = secrets["refresh"] /\ proc[q].refresh \in live
    BY DEF TokenInv, RefreshLives
  <2> QED BY <1>f, <1>q, <2>1
<1> QED BY <1>1, <1>4, <1>5 DEF TokenInv

(* A token that is renewed, with a successor or without, with an answer    *)
(* that arrives or not.                                                    *)
LEMMA RenewedToken ==
    ASSUME Typed, TokenInv, NEW p \in Procs, Elsewhere(p),
           NEW a \in BOOLEAN, NEW b \in BOOLEAN,
           proc[p].old \in live, proc[p].refresh = None,
           issued' = issued + 1, secrets' = secrets,
           live' = IF a THEN (live \ {proc[p].old}) \cup {issued + 1} ELSE live,
           burnt' = IF a /\ ~b THEN burnt \cup {proc[p].old} ELSE burnt,
           IF b THEN /\ proc'[p].old = proc[p].old
                     /\ proc'[p].refresh = IF a THEN issued + 1 ELSE None
                ELSE proc'[p].old = None /\ proc'[p].refresh = None
    PROVE  TokenInv'
<1> DEFINE n == issued + 1
           o == proc[p].old
<1>n. /\ n \in Int /\ n # None /\ n \notin 1 .. issued
      /\ 1 .. issued \subseteq 1 .. n /\ n \in 1 .. n /\ None \notin 1 .. issued
  BY McpAssumption DEF Typed, TypeOK
<1>f. /\ issued' = n /\ o \in live
      /\ live' = (IF a THEN (live \ {o}) \cup {n} ELSE live)
      /\ burnt' = (IF a /\ ~b THEN burnt \cup {o} ELSE burnt)
      /\ proc'[p].old \in {None, o} /\ proc'[p].refresh \in {None, n}
      /\ (proc'[p].refresh = n => a)
      /\ (a /\ b => proc'[p].old = o /\ proc'[p].refresh = n)
  BY <1>n
<1>o. o = proc[p].old
  OBVIOUS
<1>q. \A q \in Procs \ {p} : /\ proc'[q].old = proc[q].old
                             /\ proc'[q].refresh = proc[q].refresh
                             /\ (Holding(q)' <=> Holding(q))
  BY DEF Elsewhere
<1> HIDE DEF n, o
<1>1. Known'
  BY <1>n, <1>f, <1>q DEF TokenInv, Known
<1>2. /\ secrets["refresh"] # n
      /\ \A q \in Procs : proc[q].old # n /\ proc[q].refresh # n
  BY <1>n DEF TokenInv, Known
<1>3. \A q \in Procs : proc'[q].old \in {None, proc[q].old}
  BY <1>f, <1>o, <1>q
<1>4. HeldInv'
  <2> SUFFICES ASSUME NEW r \in Procs, Holding(r)'
               PROVE  /\ proc'[r].refresh \in live'
                      /\ secrets["refresh"] # proc'[r].refresh
                      /\ \A q \in Procs :
                          /\ proc'[q].old # proc'[r].refresh
                          /\ (q # r /\ Holding(q)' => proc'[q].refresh # proc'[r].refresh)
    BY DEF HeldInv
  <2>1. CASE r = p
    <3>1. proc'[p].refresh = n
      BY <1>f, <2>1 DEF Holding
    <3> QED BY <1>n, <1>f, <1>q, <1>2, <1>3, <2>1, <3>1
  <2>2. CASE r # p
    <3>1. Holding(r) /\ proc'[r].refresh = proc[r].refresh /\ proc[r].refresh # None
      BY <1>q, <2>2 DEF Holding
    <3>2. /\ proc[r].refresh \in live
          /\ secrets["refresh"] # proc[r].refresh
          /\ \A q \in Procs :
              /\ proc[q].old # proc[r].refresh
              /\ (q # r /\ Holding(q) => proc[q].refresh # proc[r].refresh)
      BY <3>1 DEF TokenInv, HeldInv
    <3>3. proc[r].refresh \in live'
      BY <1>f, <1>o, <3>2
    <3> QED BY <1>f, <1>q, <1>2, <1>3, <3>1, <3>2, <3>3
  <2> QED BY <2>1, <2>2
<1>5. RefreshLives'
  <2> DEFINE r == secrets["refresh"]
  <2>s. r' = r
    OBVIOUS
  <2>1. r # None => \/ r \in live \cup burnt
                    \/ \E q \in Procs : proc[q].old = r /\ proc[q].refresh \in live
    BY DEF TokenInv, RefreshLives
  <2>2. o \in live' \cup burnt' \/ (proc'[p].old = o /\ proc'[p].refresh \in live')
    BY <1>f
  <2>3. \A x \in live \cup burnt : x = o \/ x \in live' \cup burnt'
    BY <1>f
  <2>4. ASSUME NEW q \in Procs, proc[q].old = r, proc[q].refresh \in live, r # None
        PROVE  r \in live' \cup burnt' \/ \E x \in Procs : proc'[x].old = r /\ proc'[x].refresh \in live'
    <3>1. q # p
      BY <1>n, <2>4 DEF TokenInv, Known
    <3>2. proc[q].lane = "refresh" /\ proc[q].refresh # None
      <4>1. Fit(proc[q]) /\ proc[q] \in Process
        BY DEF Typed, TypeOK
      <4> QED BY <1>n, <2>4, <4>1 DEF Fit, TokenInv, Known
    <3>3. proc[q].refresh # o
      BY <1>o, <3>2 DEF Holding, TokenInv, HeldInv
    <3>4. proc[q].refresh \in live'
      BY <1>f, <2>4, <3>3
    <3> QED BY <1>q, <2>4, <3>1, <3>4
  <2>5. r # None => \/ r \in live' \cup burnt'
                    \/ \E x \in Procs : proc'[x].old = r /\ proc'[x].refresh \in live'
    BY <2>1, <2>2, <2>3, <2>4
  <2> QED BY <2>s, <2>5 DEF RefreshLives
<1> QED BY <1>1, <1>4, <1>5 DEF TokenInv

(* A token that is stored is one its holder got from the server.           *)
LEMMA StoredToken ==
    ASSUME Typed, TokenInv, NEW p \in Procs, Elsewhere(p),
           Holding(p), ~Holding(p)',
           live' = live, issued' = issued, burnt' = burnt,
           secrets'["refresh"] = proc[p].refresh,
           proc'[p].old \in {None, proc[p].old}, proc'[p].refresh \in {None, proc[p].refresh}
    PROVE  TokenInv'
<1>1. Known'
  BY DEF TokenInv, Known, Elsewhere, Holding
<1>2. \A q \in Procs : Holding(q)' => /\ q # p /\ Holding(q)
                                      /\ proc'[q].refresh = proc[q].refresh
  BY DEF Elsewhere
<1>3. \A q \in Procs : proc'[q].old = proc[q].old \/ proc'[q].old = None
  BY DEF Elsewhere
<1>4. \A q \in Procs : Holding(q) => proc[q].refresh # None
  BY DEF Holding
<1>5. HeldInv'
  BY <1>2, <1>3, <1>4 DEF TokenInv, HeldInv
<1>6. RefreshLives'
  BY DEF TokenInv, HeldInv, RefreshLives
<1> QED BY <1>1, <1>5, <1>6 DEF TokenInv

LEMMA TokensKept == Typed /\ TokenInv /\ [Next]_vars => TokenInv'
<1> SUFFICES ASSUME Typed, TokenInv, [Next]_vars PROVE TokenInv'
  OBVIOUS
<1>t. Typed'
  BY NextTyped
<1>1. CASE UNCHANGED <<proc, secrets, live, issued, burnt>>
  BY <1>1 DEF TokenInv, Known, HeldInv, Holding, RefreshLives
<1>2. ASSUME NEW p \in Procs, Step(p) PROVE TokenInv'
  <2>o. \A q \in Procs \ {p} : Same(q)
    BY <1>2, OthersSame
  <2>t. /\ Fit(proc[p]) /\ Fit(proc'[p]) /\ issued \in Nat /\ None \notin Int
        /\ secrets \in [Refs -> Flows \cup Tokens \cup {None}]
        /\ proc[p].pc \in Pc
    BY <1>t, McpAssumption DEF Typed, TypeOK, Process
  <2>h. Elsewhere(p)
    BY <2>o DEF Same, Holding, Elsewhere
  <2>k. live \subseteq 1 .. issued /\ None \notin live
    <3>1. live \subseteq 1 .. issued
      BY DEF TokenInv, Known
    <3>2. \A x \in 1 .. issued : x \in Int
      BY <2>t
    <3> QED BY <2>t, <3>1, <3>2
  <2>l. proc[p].pc \in {"load", "renew"} => proc[p].refresh = None
    BY <2>t DEF Fit
  <2>i. Idle.old = None /\ Idle.refresh = None /\ Idle.pc = "idle"
    BY DEF Idle
  <2>1. CASE Flow(p)
    <3>1. ~Holding(p)'
      <4>1. proc'[p].pc \in Early => proc'[p].lane # "refresh" \/ proc'[p].refresh = None
        BY <2>t DEF Early, Fit, LaneAt
      <4> QED BY <2>i, <2>1, <4>1, FlowRecord DEF Holding, Early
    <3>2. proc[p].old # None /\ proc[p].refresh \in live => proc[p].old \in burnt'
      <4> SUFFICES ASSUME proc[p].old # None, proc[p].refresh \in live
                   PROVE  proc[p].old \in burnt'
        OBVIOUS
      <4>1. proc[p].lane = "refresh" /\ proc[p].refresh # None
        BY <2>t, <2>k DEF Fit
      <4>2. proc[p].pc \in {"hasAccess", "hasRefresh", "access", "refresh"}
        <5>1. "refresh" \in LaneAt(proc[p].pc)
          BY <2>t, <4>1 DEF Fit
        <5>2. proc[p].pc \notin {"load", "renew"}
          BY <2>l, <4>1
        <5>3. "refresh" # None
          BY McpAssumption DEF Lanes
        <5> QED BY <2>t, <5>1, <5>2, <5>3 DEF LaneAt, Pc
      <4>3. /\ ~At(p, "idle") /\ ~At(p, "bearer") /\ ~At(p, "send") /\ ~At(p, "pkce")
            /\ ~At(p, "state") /\ ~At(p, "check") /\ ~At(p, "verifier") /\ ~At(p, "drop")
        BY <4>2 DEF At
      <4>4. /\ \A s : ~Begin(p, s)
            /\ ~LoadBearer(p) /\ ~Send(p) /\ ~StorePkce(p) /\ ~StoreState(p)
            /\ ~CheckState(p) /\ ~Dropped(p)
            /\ \A e \in Endpoints : ~LoadVerifier(p, e)
            /\ \A t \in Tools : ~Invoke(p, t)
        <5>1. \A s : ~Begin(p, s)
          BY <4>3, Zenon DEF Begin
        <5>2. ~LoadBearer(p) /\ ~Send(p)
          BY <4>3, Zenon DEF LoadBearer, Send
        <5>3. ~StorePkce(p) /\ ~StoreState(p)
          BY <4>3, Zenon DEF StorePkce, StoreState
        <5>4. ~CheckState(p) /\ ~Dropped(p)
          BY <4>3, Zenon DEF CheckState, Dropped
        <5>5. \A e \in Endpoints : ~LoadVerifier(p, e)
          BY <4>3, Zenon DEF LoadVerifier
        <5>6. \A t \in Tools : ~Invoke(p, t)
          BY <4>3, Zenon DEF Invoke
        <5> QED BY <5>1, <5>2, <5>3, <5>4, <5>5, <5>6
      <4>5. /\ \A e \in Endpoints : ~Authorize(p, e)
            /\ \A f \in Flows : ~Exchange(p, f)
            /\ ~Refresh(p) /\ ~Revoke(p)
        BY <4>4, Zenon DEF Authorize, Exchange, Refresh, Revoke
      <4>6. Quit(p)
        BY <2>1, <4>4, <4>5, Zenon DEF Flow
      <4> QED BY <4>1, <4>6 DEF Quit, Lose
    <3> QED BY <2>o, <2>i, <2>1, <3>1, <3>2, FlowRecord, FlowFrame, TokensStay
  <2>2. ASSUME NEW e \in Endpoints, LoadRefresh(p, e) PROVE TokenInv'
    <3>1. proc[p].refresh = None
      BY <2>l, <2>2 DEF LoadRefresh, At
    <3>2. ~Holding(p)'
      BY <2>i, <2>2, LoadRecord DEF Holding
    <3> QED BY <2>o, <2>i, <2>k, <2>2, <3>1, <3>2, LoadRecord, TokensStay
  <2>n. /\ issued + 1 \in Int /\ issued + 1 # None /\ issued + 1 \notin 1 .. issued
        /\ 1 .. issued \subseteq 1 .. issued + 1 /\ issued + 1 \in 1 .. issued + 1
    BY <2>t
  <2>3. ASSUME NEW a \in BOOLEAN, NEW b \in BOOLEAN, Redeem(p, a, b) PROVE TokenInv'
    <3> DEFINE n == issued + 1
    <3>1. /\ issued' = n /\ live' = (IF a THEN live \cup {n} ELSE live)
          /\ secrets' = secrets /\ burnt' = burnt
      BY <2>3 DEF Redeem
    <3>2. proc[p].lane = "exchange" /\ proc[p].old = None
      BY <2>3, <2>t DEF Redeem, At, Fit, LaneAt
    <3>3. proc'[p].old = None /\ proc'[p].refresh \in {None, n} /\ (proc'[p].refresh = n => n \in live')
      BY <2>3, <2>i, <2>n, <3>1, <3>2, RedeemRecord
    <3> QED BY <2>h, <2>n, <3>1, <3>2, <3>3, NewToken
  <2>4. ASSUME NEW a \in BOOLEAN, NEW b \in BOOLEAN, Renew(p, a, b) PROVE TokenInv'
    <3> DEFINE n == issued + 1
               o == proc[p].old
    <3>1. /\ issued' = n /\ o \in live /\ proc[p].refresh = None
          /\ live' = (IF a THEN (live \ {o}) \cup {n} ELSE live)
          /\ burnt' = (IF a /\ ~b THEN burnt \cup {o} ELSE burnt)
          /\ secrets' = secrets
      BY <2>4, <2>l DEF Renew, At
    <3>2. IF b THEN proc'[p].old = o /\ proc'[p].refresh = (IF a THEN n ELSE None)
               ELSE proc'[p].old = None /\ proc'[p].refresh = None
      BY <2>4, <2>i, RenewRecord
    <3> QED BY <2>h, <2>k, <2>n, <3>1, <3>2, RenewedToken
  <2>5. CASE StoreAccess(p)
    <3>1. /\ live' = live /\ issued' = issued /\ burnt' = burnt
          /\ secrets'["refresh"] = secrets["refresh"]
      BY <2>5, <2>t DEF StoreAccess, Hold, Refs, external
    <3>2. /\ proc'[p].old = proc[p].old /\ proc'[p].refresh = proc[p].refresh
          /\ Holding(p)' => Holding(p)
      BY <2>5, StoreRecord DEF Holding
    <3> QED BY <2>o, <3>1, <3>2, TokensStay
  <2>6. CASE StoreRefresh(p)
    <3>1. Holding(p) /\ ~Holding(p)' /\ proc'[p].old = proc[p].old
          /\ proc'[p].refresh = proc[p].refresh
      BY <2>6, <2>t, Ints, StoreRecord DEF Holding, Fit
    <3>2. /\ live' = live /\ issued' = issued /\ burnt' = burnt
          /\ secrets'["refresh"] = proc[p].refresh
      BY <2>6, <2>t DEF StoreRefresh, Hold, Refs, external, history
    <3> QED BY <2>h, <3>1, <3>2, StoredToken
  <2>7. ASSUME NEW ref \in {"access", "refresh"}, NEW pc \in {"hasAccess", "hasRefresh"},
               Has(p, ref, pc)
        PROVE  TokenInv'
    <3>1. proc[p].lane = "refresh" /\ proc[p].pc = pc
      BY <2>7, <2>t DEF Has, At, Fit, LaneAt
    <3>2. burnt \subseteq Lose(p) /\ (proc[p].refresh # None => proc[p].old \in Lose(p))
      BY <3>1 DEF Lose
    <3>3. Holding(p)' => Holding(p) /\ proc'[p].refresh = proc[p].refresh
      BY <2>7, <2>i, <3>1, HasRecord DEF Holding
    <3> QED BY <2>o, <2>i, <2>k, <2>7, <3>2, <3>3, HasRecord, TokensStay
  <2>8. CASE RotateAccess(p)
    <3>1. Holding(p)' => Holding(p) /\ proc'[p].refresh = proc[p].refresh
      BY <2>8, <2>i, RotateRecord DEF Holding
    <3> QED BY <2>o, <2>i, <2>k, <2>8, <3>1, RotateRecord, TokensStay
  <2>9. CASE RotateRefresh(p)
    <3>1. Holding(p) /\ ~Holding(p)' /\ proc'[p].old = None /\ proc'[p].refresh = None
      BY <2>9, <2>i, <2>t, Ints, RotateRecord DEF Holding, Fit
    <3> QED BY <2>h, <2>9, <3>1, RotateRecord, StoredToken
  <2>10. ASSUME NEW ok \in BOOLEAN, Drop(p, ok) PROVE TokenInv'
    <3> DEFINE d == Head(proc[p].todo)
    <3>1. /\ live' = live /\ issued' = issued /\ burnt' = burnt
          /\ secrets' = secrets \/ secrets' = [secrets EXCEPT ![d] = None]
      BY <2>10 DEF Drop, Hold, external
    <3> HIDE DEF d
    <3>2. secrets'["refresh"] \in {None, secrets["refresh"]}
      BY <2>t, <3>1 DEF Refs
    <3>3. Holding(p)' => Holding(p) /\ proc'[p].refresh = proc[p].refresh
      BY <2>10, DropRecord DEF Holding
    <3> QED BY <2>o, <2>10, <3>1, <3>2, <3>3, DropRecord, TokensStay
  <2> QED BY <1>2, <2>1, <2>2, <2>3, <2>4, <2>5, <2>6, <2>7, <2>8, <2>9, <2>10, StepKinds
<1>3. CASE Registry
  BY <1>1, <1>3 DEF Registry, Add, SetEnabled, RemoveServer, history, external
<1> QED BY <1>1, <1>2, <1>3 DEF Next, vars, external

(* The refresh token in the vault is one the server still accepts, unless  *)
(* its successor was lost or is on its way to the vault: the exchanges,    *)
(* renewals and revokes of any number of commands never put a dead one     *)
(* there.                                                                  *)
THEOREM RefreshTokensLive == Spec => []RefreshLives
<1>1. Init => TokenInv
  BY McpAssumption DEF Init, TokenInv, Known, HeldInv, Holding, RefreshLives, Idle, Refs
<1>2. TokenInv => RefreshLives
  BY DEF TokenInv
<1> QED BY <1>1, <1>2, TokensKept, InitTyped, NextTyped, PTL DEF Spec


=============================================================================
