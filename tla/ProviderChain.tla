--------------------------- MODULE ProviderChain ----------------------------
(***************************************************************************)
(* packages/providers: the failover router (router.ts) over the dispatcher *)
(* (dispatcher.ts) and the budget enforcer (budget.ts), and the capability *)
(* probes of the registry (registry.ts).  A caller is a process with a     *)
(* request in flight: it shares the SQLite ledger and the models table     *)
(* with the others and has its own router, whose health cache is its own.  *)
(* Everything between two awaits is synchronous; steps of two callers      *)
(* interleave at the awaits and between two SQL statements.                *)
(***************************************************************************)
EXTENDS ProviderAdapters, Sequences, FiniteSets

CONSTANTS
    Callers,            \* processes that send requests
    Inputs,             \* what they route: see Input
    Providers,          \* configured providers
    Names,              \* model names, as sent on the wire
    Models,             \* rows of the models table
    ProviderOf,         \* the provider of a row
    NameOf,             \* and its model's name
    Chain,              \* the ordered candidates of a routed request
    Endpoints,          \* providers whose base URL passes the egress policy
    Budgets,            \* limits: one stands for one limit of one budgets row
    Covers,             \* what a budget's scope covers: see Target
    Limit,              \* the limit
    HardBlock,          \* budgets with hard_block set
    UsdBudgets,         \* budgets whose limit is in USD
    Priced,             \* targets whose cost rates are known
    Config,             \* how each provider is called
    Replies,            \* what may come back of a call: see Reply
    MaxRequests,        \* bound: requests over all callers
    MaxWindows,         \* bound: windows that roll over
    MaxFaults           \* bound: statements that throw, processes that die

(* What one call asks a provider for: it need not be the model of the      *)
(* candidate, since the router hands the same request to every candidate.  *)
Target == Providers \X Names

(* What a routed request is called with: the model it names, the providers *)
(* cleared for its context, whether its messages match the secret patterns *)
(* and its hop budget.                                                     *)
Input ==
    [name : Names, cleared : SUBSET Providers, secret : BOOLEAN,
     maxHops : 0 .. Len(Chain)]

ASSUME ChainAssumption ==
    /\ IsFiniteSet(Callers) /\ Callers # {}
    /\ ProviderOf \in [Models -> Providers]
    /\ NameOf \in [Models -> Names]
    /\ Config \in [Providers -> ProviderConfig]
    /\ Replies \subseteq Reply
    /\ Chain \in Seq(Models) /\ Chain # <<>>
    /\ Inputs \subseteq Input
    /\ Endpoints \subseteq Providers
    /\ Covers \in [Budgets -> SUBSET Target]
    /\ Limit \in [Budgets -> Nat]
    /\ HardBlock \subseteq Budgets
    /\ UsdBudgets \subseteq Budgets
    /\ Priced \subseteq Target
    /\ MaxUsage \in Nat \ {0}
    /\ None \notin Models \cup Names \cup Code
    /\ MaxRequests \in Nat /\ MaxWindows \in Nat /\ MaxFaults \in Nat

VARIABLES
    spend,              \* budget_events: each budget's sum since windowStart
    status,             \* models.status
    verified,           \* models.verified
    healthCache,        \* each router's unexpired probe results
    pc,                 \* where each caller is
    call,               \* its request
    answered,           \* history: the targets that ever answered
    requests, windows, faults       \* so far

tables == <<spend, status, verified>>

bounds == <<requests, windows, faults>>

vars == <<tables, healthCache, pc, call, answered, bounds>>

-----------------------------------------------------------------------------
(* Types.                                                                  *)

ModelStatus == {"available", "degraded", "unavailable", "unverified"}

RequestScoped == {"CLASSIFICATION_DENIED", "SECRET_IN_REQUEST", "VALIDATION"}

(* A request of the router or of a probe: its input and how far it got.    *)
(* Its model is the row of the candidate at hand, or the row probed.       *)
Request ==
    [kind : {"none", "route", "probe"}, cleared : SUBSET Providers,
     secret : BOOLEAN, maxHops : Nat, pos : Nat, hops : Nat,
     name : Names \cup {None}, model : Models \cup {None}, usage : 0 .. MaxUsage,
     answers : Nat, pong : BOOLEAN]

NoRequest ==
    [kind |-> "none", cleared |-> {}, secret |-> FALSE, maxHops |-> 0, pos |-> 0,
     hops |-> 0, name |-> None, model |-> None, usage |-> 0,
     answers |-> 0, pong |-> FALSE]

(* The steps at which a request has a model, and those the router alone    *)
(* takes.                                                                  *)
ModelPc == {"health", "probing", "gate", "sent", "record", "reply", "status"}

RouterPc == {"next", "health", "probing"}

Pc == {"idle", "next"} \cup ModelPc

(* A request is as far as its step says.                                   *)
Consistent(step, request) ==
    /\ step \in RouterPc => request.kind = "route"
    /\ step # "idle" => request.name \in Names
    /\ step \in ModelPc => request.model \in Models
    /\ step \in ModelPc /\ request.kind = "probe" =>
         request.name = NameOf[request.model]
    /\ step \in ModelPc /\ request.kind = "route" => request.pos \in DOMAIN Chain
    /\ step = "next" => request.pos \in 1 .. Len(Chain) + 1

TypeOK ==
    /\ spend \in [Budgets -> Nat]
    /\ status \in [Models -> ModelStatus]
    /\ verified \subseteq Models
    /\ healthCache \in [Callers -> [Providers -> {"none", "ok", "bad"}]]
    /\ pc \in [Callers -> Pc]
    /\ call \in [Callers -> Request]
    /\ \A c \in Callers : Consistent(pc[c], call[c])
    /\ answered \subseteq Target
    /\ requests \in 0 .. MaxRequests
    /\ windows \in 0 .. MaxWindows
    /\ faults \in 0 .. MaxFaults

(* Discovered models, never probed, and an empty ledger.                   *)
Init ==
    /\ spend = [b \in Budgets |-> 0]
    /\ status = [m \in Models |-> "unverified"]
    /\ verified = {}
    /\ healthCache = [c \in Callers |-> [p \in Providers |-> "none"]]
    /\ pc = [c \in Callers |-> "idle"]
    /\ call = [c \in Callers |-> NoRequest]
    /\ answered = {}
    /\ requests = 0 /\ windows = 0 /\ faults = 0

-----------------------------------------------------------------------------
(* Helpers.                                                                *)

Goto(c, here, there) ==
    /\ pc[c] = here
    /\ pc' = [pc EXCEPT ![c] = there]

(* The call settles: with an answer, or with an error.                     *)
Return(c, here) ==
    /\ Goto(c, here, "idle")
    /\ call' = [call EXCEPT ![c] = NoRequest]

Provider(c) == ProviderOf[call[c].model]

(* The dispatcher prices, sends and records the model of the request.      *)
TargetOf(c) == <<Provider(c), call[c].name>>

(* FailoverRouter.mark and ModelsDao.setStatus.                            *)
Mark(c, s) == status' = [status EXCEPT ![call[c].model] = s]

(* On to the next candidate.                                               *)
Hop(c, here) ==
    /\ Goto(c, here, "next")
    /\ call' = [call EXCEPT ![c] = [call[c] EXCEPT !.pos = @ + 1,
                     !.model = None, !.usage = 0]]

(* The status a failed probe leaves.                                       *)
ProbeStatus(code) ==
    CASE code = "AUTH" -> "unavailable"
      [] code = "VALIDATION" -> "degraded"
      [] OTHER -> "unverified"

(* dispatcher.complete throws: a probe notes it and returns, the router    *)
(* rethrows what every candidate would answer and hops on anything else.   *)
Fail(c, here, code) ==
    \/ /\ call[c].kind = "probe"
       /\ Mark(c, ProbeStatus(code))
       /\ Return(c, here)
    \/ /\ call[c].kind = "route"
       /\ code \in RequestScoped
       /\ UNCHANGED status
       /\ Return(c, here)
    \/ /\ call[c].kind = "route"
       /\ code \notin RequestScoped
       /\ Mark(c, IF code = "AUTH" THEN "unavailable" ELSE "degraded")
       /\ Hop(c, here)

-----------------------------------------------------------------------------
(* FailoverRouter.complete.                                                *)

BeginRoute(c, input) ==
    /\ Goto(c, "idle", "next")
    /\ requests < MaxRequests
    /\ requests' = requests + 1
    /\ call' = [call EXCEPT ![c] =
                  [NoRequest EXCEPT !.kind = "route", !.name = input.name,
                     !.cleared = input.cleared, !.secret = input.secret,
                     !.maxHops = input.maxHops, !.pos = 1]]
    /\ UNCHANGED <<tables, healthCache, answered, windows, faults>>

More(c) == call[c].pos \in DOMAIN Chain /\ call[c].hops < call[c].maxHops

Candidate(c) == Chain[call[c].pos]

(* Mutant: a candidate that was never tried burns a hop.                   *)
SkipBurnsHop(c) ==
    /\ Goto(c, "next", "next")
    /\ More(c)
    /\ ProviderOf[Candidate(c)] \notin call[c].cleared
    /\ call' = [call EXCEPT ![c] = [call[c] EXCEPT !.pos = @ + 1,
                     !.hops = @ + 1]]
    /\ UNCHANGED <<tables, healthCache, answered, bounds>>

(* A provider that is not cleared for the context is passed over.          *)
SkipCandidate(c) ==
    /\ Goto(c, "next", "next")
    /\ More(c)
    /\ ProviderOf[Candidate(c)] \notin call[c].cleared
    /\ call' = [call EXCEPT ![c].pos = @ + 1]
    /\ UNCHANGED <<tables, healthCache, answered, bounds>>

TryCandidate(c) ==
    /\ Goto(c, "next", "health")
    /\ More(c)
    /\ ProviderOf[Candidate(c)] \in call[c].cleared
    /\ call' = [call EXCEPT ![c] = [call[c] EXCEPT !.hops = @ + 1,
                     !.model = Candidate(c)]]
    /\ UNCHANGED <<tables, healthCache, answered, bounds>>

Exhaust(c) ==
    /\ Return(c, "next")
    /\ ~More(c)
    /\ UNCHANGED <<tables, healthCache, answered, bounds>>

(* A cached result decides, or the probe of a cached miss.                 *)
UseHealth(c, here, ok) ==
    IF ok THEN Goto(c, here, "gate") /\ UNCHANGED <<status, call>>
          ELSE Mark(c, "degraded") /\ Hop(c, here)

CachedHealth(c) ==
    /\ pc[c] = "health"
    /\ healthCache[c][Provider(c)] # "none"
    /\ UseHealth(c, "health", healthCache[c][Provider(c)] = "ok")
    /\ UNCHANGED <<spend, verified, healthCache, answered, bounds>>

(* ProviderDispatcher.health: its gate is passed and there is an adapter,  *)
(* or it throws, and nothing in the router catches that.                   *)
Probeable(p) == p \in Endpoints /\ Config[p].protocol # "unsupported"

StartHealthProbe(c) ==
    /\ Goto(c, "health", "probing")
    /\ healthCache[c][Provider(c)] = "none"
    /\ Probeable(Provider(c))
    /\ UNCHANGED <<tables, healthCache, call, answered, bounds>>

HealthDenied(c) ==
    /\ Return(c, "health")
    /\ healthCache[c][Provider(c)] = "none"
    /\ ~Probeable(Provider(c))
    /\ UNCHANGED <<tables, healthCache, answered, bounds>>

(* Mutant: a passed health probe marks the model available.                *)
HealthMarksAvailable(c, ok) ==
    /\ pc[c] = "probing"
    /\ ok
    /\ healthCache' = [healthCache EXCEPT ![c][Provider(c)] = "ok"]
    /\ Goto(c, "probing", "gate")
    /\ Mark(c, "available")
    /\ UNCHANGED <<spend, verified, call, answered, bounds>>

(* The providers whose model list can be fetched.                          *)
Listing == {p \in Providers : \E reply \in Replies : Fetch(Config[p], reply) = None}

(* BaseAdapter.health: the model list within HEALTH_TIMEOUT_MS, or not ok. *)
HealthAnswers(c, ok) ==
    /\ pc[c] = "probing"
    /\ ok => Provider(c) \in Listing
    /\ healthCache' = [healthCache EXCEPT ![c][Provider(c)] =
                         IF ok THEN "ok" ELSE "bad"]
    /\ UseHealth(c, "probing", ok)
    /\ UNCHANGED <<spend, verified, answered, bounds>>

(* healthTtlMs passes.                                                     *)
HealthExpires(c, p) ==
    /\ healthCache[c][p] # "none"
    /\ healthCache' = [healthCache EXCEPT ![c][p] = "none"]
    /\ UNCHANGED <<tables, pc, call, answered, bounds>>

-----------------------------------------------------------------------------
(* ProviderDispatcher.complete and BudgetEnforcer.                         *)

(* Mutant: a request may still go out when the limit is just reached.      *)
ExceededStrictly(target) ==
    \E b \in HardBlock : target \in Covers[b] /\ spend[b] > Limit[b]

(* BudgetEnforcer.guard: a hard limit of the provider or the model is      *)
(* reached.                                                                *)
Exceeded(target) ==
    \E b \in HardBlock : target \in Covers[b] /\ spend[b] >= Limit[b]

(* Mutant: the messages are not scanned.                                   *)
VerdictUnscanned(c) ==
    IF Provider(c) \notin Endpoints THEN "EGRESS_DENIED"
    ELSE IF Provider(c) \notin call[c].cleared THEN "CLASSIFICATION_DENIED"
    ELSE IF Exceeded(TargetOf(c)) THEN "BUDGET_EXCEEDED"
    ELSE None

(* gate, gateOutbound and the budget guard, in this order.                 *)
Verdict(c) ==
    IF Provider(c) \notin Endpoints THEN "EGRESS_DENIED"
    ELSE IF Provider(c) \notin call[c].cleared THEN "CLASSIFICATION_DENIED"
    ELSE IF call[c].secret THEN "SECRET_IN_REQUEST"
    ELSE IF Exceeded(TargetOf(c)) THEN "BUDGET_EXCEEDED"
    ELSE None

Deny(c) ==
    /\ pc[c] = "gate"
    /\ Verdict(c) # None
    /\ Fail(c, "gate", Verdict(c))
    /\ UNCHANGED <<spend, verified, healthCache, answered, bounds>>

Send(c) ==
    /\ Goto(c, "gate", "sent")
    /\ Verdict(c) = None
    /\ UNCHANGED <<tables, healthCache, call, answered, bounds>>

(* The provider answers, with or without usage; a probe looks whether its  *)
(* word came back.                                                         *)
Answer(c, usage, pong) ==
    /\ Goto(c, "sent", IF usage = None THEN "reply" ELSE "record")
    /\ call' = [call EXCEPT ![c] =
                  [call[c] EXCEPT !.usage = IF usage = None THEN 0 ELSE usage,
                                  !.answers = @ + 1,
                                  !.pong = pong /\ call[c].kind = "probe"]]
    /\ answered' = answered \cup {TargetOf(c)}
    /\ UNCHANGED <<tables, healthCache, bounds>>

(* The adapter throws.                                                     *)
CallFails(c, code) ==
    /\ pc[c] = "sent"
    /\ Fail(c, "sent", code)
    /\ UNCHANGED <<spend, verified, healthCache, answered, bounds>>

(* What the provider's adapter makes of what may come back.                *)
Outcomes == [p \in Providers |-> {Complete(Config[p], reply) : reply \in Replies}]

CallReturns(c) ==
    /\ pc[c] = "sent"
    /\ \E r \in Outcomes[Provider(c)] :
        \/ r.code = None /\ Answer(c, r.usage, r.pong)
        \/ r.code # None /\ CallFails(c, r.code)

(* $0 when the cost rates are unknown.                                     *)
Charge(b, target, usage) ==
    IF target \notin Covers[b] \/ (b \in UsdBudgets /\ target \notin Priced)
    THEN 0 ELSE usage

RecordUsage(c) ==
    /\ Goto(c, "record", "reply")
    /\ spend' = [b \in Budgets |->
                   spend[b] + Charge(b, TargetOf(c), call[c].usage)]
    /\ UNCHANGED <<status, verified, healthCache, call, answered, bounds>>

(* A statement of the ledger throws.  In record, complete throws away the  *)
(* answer it has.                                                          *)
LedgerThrows(c) ==
    /\ pc[c] \in {"gate", "record"}
    /\ faults < MaxFaults
    /\ faults' = faults + 1
    /\ Fail(c, pc[c], "SERVER")
    /\ UNCHANGED <<spend, verified, healthCache, answered, requests, windows>>

(* Mutant: the loop is not left on an answer.                              *)
RouteGoesOn(c) ==
    /\ call[c].kind = "route"
    /\ Mark(c, "available")
    /\ Hop(c, "reply")
    /\ UNCHANGED <<spend, verified, healthCache, answered, bounds>>

(* The router marks the candidate's row, whichever model was asked for, and*)
(* returns the answer.                                                     *)
RouteAnswers(c) ==
    /\ Return(c, "reply")
    /\ call[c].kind = "route"
    /\ Mark(c, "available")
    /\ UNCHANGED <<spend, verified, healthCache, answered, bounds>>

-----------------------------------------------------------------------------
(* probeModel, of one model, with public context and no secret.            *)

BeginProbe(c, m) ==
    /\ Goto(c, "idle", "gate")
    /\ requests < MaxRequests
    /\ requests' = requests + 1
    /\ call' = [call EXCEPT ![c] =
                  [NoRequest EXCEPT !.kind = "probe", !.cleared = Providers,
                                    !.name = NameOf[m], !.model = m]]
    /\ UNCHANGED <<tables, healthCache, answered, windows, faults>>

ProbePasses(c) ==
    /\ Goto(c, "reply", "status")
    /\ call[c].kind = "probe" /\ call[c].pong
    /\ verified' = verified \cup {call[c].model}
    /\ UNCHANGED <<spend, status, healthCache, call, answered, bounds>>

ProbeAvailable(c) ==
    /\ Return(c, "status")
    /\ Mark(c, "available")
    /\ UNCHANGED <<spend, verified, healthCache, answered, bounds>>

ProbeGarbled(c) ==
    /\ Return(c, "reply")
    /\ call[c].kind = "probe" /\ ~call[c].pong
    /\ Mark(c, "degraded")
    /\ UNCHANGED <<spend, verified, healthCache, answered, bounds>>

-----------------------------------------------------------------------------
(* A budget's window rolls over: usage recorded from now on is summed from *)
(* the new start, that of requests in flight included.                     *)
Rollover(b) ==
    /\ windows < MaxWindows
    /\ windows' = windows + 1
    /\ spend' = [spend EXCEPT ![b] = 0]
    /\ UNCHANGED <<status, verified, healthCache, pc, call, answered, requests,
                   faults>>

(* The process dies; its router goes with it.                              *)
Crash(c) ==
    /\ pc[c] # "idle"
    /\ faults < MaxFaults
    /\ faults' = faults + 1
    /\ Return(c, pc[c])
    /\ healthCache' = [healthCache EXCEPT ![c] = [p \in Providers |-> "none"]]
    /\ UNCHANGED <<tables, answered, requests, windows>>

Begin(c) ==
    \/ \E input \in Inputs : BeginRoute(c, input)
    \/ \E m \in Models : BeginProbe(c, m)

Steps(c) ==
    \/ SkipCandidate(c) \/ TryCandidate(c) \/ Exhaust(c)
    \/ CachedHealth(c) \/ StartHealthProbe(c) \/ HealthDenied(c)
    \/ \E ok \in BOOLEAN : HealthAnswers(c, ok)
    \/ Deny(c) \/ Send(c)
    \/ CallReturns(c) \/ RecordUsage(c) \/ RouteAnswers(c)
    \/ ProbePasses(c) \/ ProbeAvailable(c) \/ ProbeGarbled(c)

Next ==
    \/ \E c \in Callers :
         \/ Begin(c) \/ Steps(c) \/ LedgerThrows(c) \/ Crash(c)
         \/ \E p \in Providers : HealthExpires(c, p)
    \/ \E b \in Budgets : Rollover(b)

Spec == Init /\ [][Next]_vars
=============================================================================
