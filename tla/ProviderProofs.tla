--------------------------- MODULE ProviderProofs ---------------------------
(***************************************************************************)
(* Theorems about ProviderChain for any callers, chain, budgets and limits,*)
(* any interleaving and any faults.                                        *)
(***************************************************************************)
EXTENDS ProviderSafety, FiniteSetTheorems, TLAPS

-----------------------------------------------------------------------------
(* How a step changes the request of one caller.                           *)

(* A caller that goes to a step its new request is fit for keeps pc and    *)
(* call well typed.                                                        *)
LEMMA CallType ==
    ASSUME TypeOK, NEW c \in Callers, NEW there \in Pc, NEW r \in Request,
           Consistent(there, r),
           pc' = [pc EXCEPT ![c] = there], call' = [call EXCEPT ![c] = r]
    PROVE  /\ pc' \in [Callers -> Pc]
           /\ call' \in [Callers -> Request]
           /\ \A d \in Callers : Consistent(pc'[d], call'[d])
<1>1. pc' \in [Callers -> Pc] /\ call' \in [Callers -> Request]
  BY DEF TypeOK
<1>2. ASSUME NEW d \in Callers PROVE Consistent(pc'[d], call'[d])
  BY DEF TypeOK
<1> QED BY <1>1, <1>2

LEMMA NoRequestType == NoRequest \in Request
  BY ChainAssumption DEF NoRequest, Request

LEMMA ReturnType ==
    ASSUME TypeOK, NEW c \in Callers, NEW here, Return(c, here)
    PROVE  /\ pc' \in [Callers -> Pc]
           /\ call' \in [Callers -> Request]
           /\ \A d \in Callers : Consistent(pc'[d], call'[d])
<1>1. Consistent("idle", NoRequest)
  BY DEF Consistent, ModelPc, RouterPc
<1> QED BY <1>1, NoRequestType, CallType DEF Return, Goto, Pc

LEMMA HopType ==
    ASSUME TypeOK, NEW c \in Callers, NEW here \in ModelPc, Hop(c, here),
           call[c].kind = "route"
    PROVE  /\ pc' \in [Callers -> Pc]
           /\ call' \in [Callers -> Request]
           /\ \A d \in Callers : Consistent(pc'[d], call'[d])
<1> DEFINE r == [call[c] EXCEPT !.pos = @ + 1, !.model = None, !.usage = 0]
<1>1. pc[c] = here /\ pc' = [pc EXCEPT ![c] = "next"]
      /\ call' = [call EXCEPT ![c] = r]
  BY DEF Hop, Goto
<1>2. call[c] \in Request /\ call[c].pos \in 1 .. Len(Chain) /\ Len(Chain) \in Nat
      /\ call[c].name \in Names
  BY <1>1, ChainAssumption DEF TypeOK, Consistent, ModelPc
<1>3. r \in Request /\ r.kind = "route" /\ r.pos = call[c].pos + 1
      /\ r.name = call[c].name
  <2>1. call[c].pos + 1 \in Nat /\ 0 \in 0 .. MaxUsage
    BY <1>2, ChainAssumption
  <2>2. r \in Request
    BY <1>2, <2>1 DEF Request
  <2> QED BY <1>2, <2>2 DEF Request
<1>4. Consistent("next", r)
  BY <1>2, <1>3 DEF Consistent, ModelPc, RouterPc
<1> HIDE DEF r
<1> QED BY <1>1, <1>3, <1>4, CallType DEF Pc

LEMMA MarkType ==
    ASSUME TypeOK, NEW c \in Callers, NEW s \in ModelStatus, Mark(c, s)
    PROVE  status' \in [Models -> ModelStatus]
  BY DEF TypeOK, Mark

LEMMA FailType ==
    ASSUME TypeOK, NEW c \in Callers, NEW here \in ModelPc, NEW code,
           Fail(c, here, code)
    PROVE  /\ pc' \in [Callers -> Pc]
           /\ call' \in [Callers -> Request]
           /\ \A d \in Callers : Consistent(pc'[d], call'[d])
           /\ status' \in [Models -> ModelStatus]
<1>1. CASE call[c].kind = "probe"
  <2>1. ProbeStatus(code) \in ModelStatus
    BY DEF ProbeStatus, ModelStatus
  <2> QED BY <1>1, <2>1, ReturnType, MarkType DEF Fail
<1>2. CASE call[c].kind = "route" /\ code \in RequestScoped
  BY <1>2, ReturnType DEF Fail, TypeOK
<1>3. CASE call[c].kind = "route" /\ code \notin RequestScoped
  <2>1. (IF code = "AUTH" THEN "unavailable" ELSE "degraded") \in ModelStatus
    BY DEF ModelStatus
  <2> QED BY <1>3, <2>1, HopType, MarkType DEF Fail
<1> QED BY <1>1, <1>2, <1>3 DEF Fail

LEMMA UseHealthType ==
    ASSUME TypeOK, NEW c \in Callers, NEW here \in {"health", "probing"},
           pc[c] = here, NEW ok, UseHealth(c, here, ok)
    PROVE  /\ pc' \in [Callers -> Pc]
           /\ call' \in [Callers -> Request]
           /\ \A d \in Callers : Consistent(pc'[d], call'[d])
           /\ status' \in [Models -> ModelStatus]
<1>1. Consistent(here, call[c]) /\ call[c] \in Request /\ here \in ModelPc
      /\ call[c].kind = "route"
  BY DEF TypeOK, Consistent, ModelPc, RouterPc
<1>2. CASE ok
  <2>1. Consistent("gate", call[c])
    BY <1>1 DEF Consistent, ModelPc, RouterPc
  <2>2. call' = [call EXCEPT ![c] = call[c]]
    BY <1>2 DEF UseHealth, TypeOK
  <2> QED BY <1>1, <1>2, <2>1, <2>2, CallType DEF UseHealth, Goto, Pc, ModelPc, TypeOK
<1>3. CASE ~ok
  <2>1. "degraded" \in ModelStatus
    BY DEF ModelStatus
  <2> QED BY <1>1, <1>3, <2>1, HopType, MarkType DEF UseHealth
<1> QED BY <1>2, <1>3

(* Whatever comes back, its adapter makes a code or an answer of it.       *)
LEMMA CompleteType ==
    ASSUME NEW config, NEW reply \in Reply
    PROVE  /\ Complete(config, reply).usage \in 0 .. MaxUsage \cup {None}
           /\ Complete(config, reply).pong \in BOOLEAN
<1> DEFINE Fits(r) == r.usage \in 0 .. MaxUsage \cup {None} /\ r.pong \in BOOLEAN
<1>1. \A code : Fits(Failure(code))
  BY DEF Failure
<1>2. \A finish : Fits(OkResponse(reply, finish))
  BY DEF OkResponse, Reply
<1>3. Fits(OpenAi(reply)) /\ Fits(Anthropic(reply)) /\ Fits(GenericRest(reply))
  <2> HIDE DEF Fits
  <2> QED BY <1>1, <1>2 DEF OpenAi, Anthropic, GenericRest
<1>4. Fits(Complete(config, reply))
  <2> HIDE DEF Fits
  <2> QED BY <1>1, <1>3 DEF Complete
<1> QED BY <1>4

LEMMA CallReturnsCases ==
    ASSUME TypeOK, NEW c \in Callers, CallReturns(c)
    PROVE  \/ \E usage \in 0 .. MaxUsage \cup {None}, pong \in BOOLEAN :
                Answer(c, usage, pong)
           \/ \E code : CallFails(c, code)
<1>a. Provider(c) \in Providers
  BY ChainAssumption DEF CallReturns, TypeOK, Consistent, ModelPc, Provider
<1>1. PICK r \in Outcomes[Provider(c)] :
         \/ r.code = None /\ Answer(c, r.usage, r.pong)
         \/ r.code # None /\ CallFails(c, r.code)
  BY DEF CallReturns
<1>2. r.usage \in 0 .. MaxUsage \cup {None} /\ r.pong \in BOOLEAN
  BY <1>a, CompleteType, ChainAssumption DEF Outcomes
<1> QED BY <1>1, <1>2

(* The caller goes on with the same request.                               *)
LEMMA GotoType ==
    ASSUME TypeOK, NEW c \in Callers, NEW here, NEW there \in Pc,
           Goto(c, here, there), call' = call, Consistent(there, call[c])
    PROVE  /\ pc' \in [Callers -> Pc]
           /\ call' \in [Callers -> Request]
           /\ \A d \in Callers : Consistent(pc'[d], call'[d])
<1>1. call[c] \in Request /\ call' = [call EXCEPT ![c] = call[c]]
  BY DEF TypeOK
<1> QED BY <1>1, CallType DEF Goto

-----------------------------------------------------------------------------
(* Type correctness.                                                       *)
LEMMA InitType == Init => TypeOK
<1> SUFFICES ASSUME Init PROVE TypeOK
  OBVIOUS
<1>1. \A c \in Callers : Consistent(pc[c], call[c])
  BY DEF Init, Consistent, ModelPc, RouterPc
<1>2. call \in [Callers -> Request]
  BY NoRequestType DEF Init
<1> QED BY <1>1, <1>2, ChainAssumption DEF Init, TypeOK, Pc, ModelStatus

LEMMA NextType == TypeOK /\ [Next]_vars => TypeOK'
<1> SUFFICES ASSUME TypeOK, [Next]_vars PROVE TypeOK'
  OBVIOUS
<1>a. \A c \in Callers : /\ Consistent(pc[c], call[c])
                         /\ call[c] \in Request
  BY DEF TypeOK
<1>1. ASSUME NEW c \in Callers, NEW input \in Inputs, BeginRoute(c, input)
      PROVE  TypeOK'
  <2> DEFINE r == [NoRequest EXCEPT !.kind = "route", !.name = input.name,
                     !.cleared = input.cleared, !.secret = input.secret,
                     !.maxHops = input.maxHops, !.pos = 1]
  <2>1. Len(Chain) \in Nat /\ 1 \in 1 .. Len(Chain) + 1
    BY ChainAssumption
  <2>2. input \in Input /\ input.maxHops \in Nat /\ input.name \in Names
    BY ChainAssumption DEF Input
  <2>3. r \in Request /\ r.kind = "route" /\ r.pos = 1 /\ r.name \in Names
    BY <2>2, NoRequestType DEF Input, NoRequest, Request
  <2>4. Consistent("next", r)
    BY <2>1, <2>3 DEF Consistent, ModelPc, RouterPc
  <2>5. pc' = [pc EXCEPT ![c] = "next"] /\ call' = [call EXCEPT ![c] = r]
    BY <1>1 DEF BeginRoute, Goto
  <2> HIDE DEF r
  <2>6. /\ pc' \in [Callers -> Pc]
        /\ call' \in [Callers -> Request]
        /\ \A d \in Callers : Consistent(pc'[d], call'[d])
    BY <2>3, <2>4, <2>5, CallType DEF Pc
  <2>7. requests' \in 0 .. MaxRequests
    BY <1>1, ChainAssumption DEF BeginRoute, TypeOK
  <2> QED BY <1>1, <2>6, <2>7 DEF BeginRoute, TypeOK, tables
<1>2. ASSUME NEW c \in Callers, SkipCandidate(c) PROVE TypeOK'
  <2> DEFINE r == [call[c] EXCEPT !.pos = @ + 1]
  <2>1. Consistent("next", call[c]) /\ call[c] \in Request
    BY <1>a, <1>2 DEF SkipCandidate, Goto
  <2>2. Len(Chain) \in Nat /\ call[c].pos \in 1 .. Len(Chain)
    BY <1>2, ChainAssumption DEF SkipCandidate, More
  <2>3. r \in Request /\ r.kind = call[c].kind /\ r.pos = call[c].pos + 1
        /\ r.name = call[c].name
    BY <2>1, <2>2 DEF Request
  <2>4. Consistent("next", r)
    BY <2>1, <2>2, <2>3 DEF Consistent, ModelPc, RouterPc
  <2>5. pc' = [pc EXCEPT ![c] = "next"] /\ call' = [call EXCEPT ![c] = r]
    BY <1>2 DEF SkipCandidate, Goto
  <2> HIDE DEF r
  <2>6. /\ pc' \in [Callers -> Pc]
        /\ call' \in [Callers -> Request]
        /\ \A d \in Callers : Consistent(pc'[d], call'[d])
    BY <2>3, <2>4, <2>5, CallType DEF Pc
  <2> QED BY <1>2, <2>6 DEF SkipCandidate, TypeOK, tables, bounds
<1>3. ASSUME NEW c \in Callers, TryCandidate(c) PROVE TypeOK'
  <2> DEFINE r == [call[c] EXCEPT !.hops = @ + 1, !.model = Candidate(c)]
  <2>1. Consistent("next", call[c]) /\ call[c] \in Request
    BY <1>a, <1>3 DEF TryCandidate, Goto
  <2>2. call[c].pos \in DOMAIN Chain /\ Candidate(c) \in Models
    BY <1>3, ChainAssumption DEF TryCandidate, More, Candidate
  <2>3. r \in Request /\ r.kind = call[c].kind /\ r.pos = call[c].pos
        /\ r.model = Candidate(c) /\ r.name = call[c].name
    <3>1. call[c].hops + 1 \in Nat
      BY <2>1 DEF Request
    <3>2. r \in Request
      BY <2>1, <2>2, <3>1 DEF Request
    <3> QED BY <2>1, <3>2 DEF Request
  <2>4. Consistent("health", r)
    BY <2>1, <2>2, <2>3 DEF Consistent, ModelPc, RouterPc
  <2>5. pc' = [pc EXCEPT ![c] = "health"] /\ call' = [call EXCEPT ![c] = r]
    BY <1>3 DEF TryCandidate, Goto
  <2> HIDE DEF r
  <2>6. /\ pc' \in [Callers -> Pc]
        /\ call' \in [Callers -> Request]
        /\ \A d \in Callers : Consistent(pc'[d], call'[d])
    BY <2>3, <2>4, <2>5, CallType DEF Pc, ModelPc
  <2> QED BY <1>3, <2>6 DEF TryCandidate, TypeOK, tables, bounds
<1>4. ASSUME NEW c \in Callers, Exhaust(c) PROVE TypeOK'
  BY <1>4, ReturnType DEF Exhaust, TypeOK, tables, bounds
<1>5. ASSUME NEW c \in Callers, CachedHealth(c) PROVE TypeOK'
  <2>1. UseHealth(c, "health", healthCache[c][Provider(c)] = "ok") /\ pc[c] = "health"
    BY <1>5 DEF CachedHealth
  <2>2. /\ pc' \in [Callers -> Pc]
        /\ call' \in [Callers -> Request]
        /\ \A d \in Callers : Consistent(pc'[d], call'[d])
        /\ status' \in [Models -> ModelStatus]
    BY <2>1, UseHealthType
  <2> QED BY <1>5, <2>2 DEF CachedHealth, TypeOK, bounds
<1>6. ASSUME NEW c \in Callers, StartHealthProbe(c) PROVE TypeOK'
  <2>1. Consistent("probing", call[c])
    BY <1>a, <1>6 DEF StartHealthProbe, Goto, Consistent, ModelPc, RouterPc
  <2> QED BY <1>6, <2>1, GotoType
       DEF StartHealthProbe, TypeOK, tables, bounds, Pc, ModelPc
<1>7. ASSUME NEW c \in Callers, HealthDenied(c) PROVE TypeOK'
  BY <1>7, ReturnType DEF HealthDenied, TypeOK, tables, bounds
<1>8. ASSUME NEW c \in Callers, NEW ok \in BOOLEAN, HealthAnswers(c, ok)
      PROVE  TypeOK'
  <2>1. /\ pc' \in [Callers -> Pc]
        /\ call' \in [Callers -> Request]
        /\ \A d \in Callers : Consistent(pc'[d], call'[d])
        /\ status' \in [Models -> ModelStatus]
    BY <1>8, UseHealthType DEF HealthAnswers
  <2>2. healthCache' \in [Callers -> [Providers -> {"none", "ok", "bad"}]]
    BY <1>8 DEF HealthAnswers, TypeOK
  <2> QED BY <1>8, <2>1, <2>2 DEF HealthAnswers, TypeOK, bounds
<1>9. ASSUME NEW c \in Callers, NEW p \in Providers, HealthExpires(c, p)
      PROVE  TypeOK'
  BY <1>9 DEF HealthExpires, TypeOK, tables, bounds
<1>10. ASSUME NEW c \in Callers, Deny(c) PROVE TypeOK'
  BY <1>10, FailType DEF Deny, TypeOK, bounds, ModelPc
<1>11. ASSUME NEW c \in Callers, Send(c) PROVE TypeOK'
  <2>1. Consistent("sent", call[c])
    BY <1>a, <1>11 DEF Send, Goto, Consistent, ModelPc, RouterPc
  <2> QED BY <1>11, <2>1, GotoType DEF Send, TypeOK, tables, bounds, Pc, ModelPc
<1>12. ASSUME NEW c \in Callers, NEW usage \in 0 .. MaxUsage \cup {None},
              NEW pong \in BOOLEAN, Answer(c, usage, pong)
       PROVE  TypeOK'
  <2> DEFINE u == IF usage = None THEN 0 ELSE usage
             there == IF usage = None THEN "reply" ELSE "record"
             r == [call[c] EXCEPT !.usage = u, !.answers = @ + 1,
                              !.pong = pong /\ call[c].kind = "probe"]
  <2>1. Consistent("sent", call[c]) /\ call[c] \in Request
    BY <1>a, <1>12 DEF Answer, Goto
  <2>2. u \in 0 .. MaxUsage
    BY ChainAssumption
  <2>3. r \in Request /\ r.kind = call[c].kind /\ r.pos = call[c].pos
        /\ r.model = call[c].model /\ r.name = call[c].name
    <3> HIDE DEF u
    <3>1. call[c].answers + 1 \in Nat
      BY <2>1 DEF Request
    <3>2. r \in Request
      BY <2>1, <2>2, <3>1 DEF Request
    <3> QED BY <2>1, <3>2 DEF Request
  <2>4. Consistent(there, r) /\ there \in Pc
    BY <2>1, <2>3 DEF Consistent, ModelPc, RouterPc, Pc
  <2>5. pc' = [pc EXCEPT ![c] = there] /\ call' = [call EXCEPT ![c] = r]
    BY <1>12 DEF Answer, Goto
  <2> HIDE DEF r, there
  <2>6. /\ pc' \in [Callers -> Pc]
        /\ call' \in [Callers -> Request]
        /\ \A d \in Callers : Consistent(pc'[d], call'[d])
    BY <2>3, <2>4, <2>5, CallType
  <2>7. answered' \subseteq Target
    <3>1. TargetOf(c) \in Target
      BY <2>1, ChainAssumption DEF TargetOf, Target, Provider, Consistent, ModelPc
    <3> QED BY <1>12, <3>1 DEF Answer, TypeOK
  <2> QED BY <1>12, <2>6, <2>7 DEF Answer, TypeOK, tables, bounds
<1>13. ASSUME NEW c \in Callers, NEW code, CallFails(c, code) PROVE TypeOK'
  BY <1>13, FailType DEF CallFails, TypeOK, bounds, ModelPc
<1>14. ASSUME NEW c \in Callers, RecordUsage(c) PROVE TypeOK'
  <2>1. Consistent("reply", call[c])
    BY <1>a, <1>14 DEF RecordUsage, Goto, Consistent, ModelPc, RouterPc
  <2>2. call[c].usage \in Nat
    BY <1>a, ChainAssumption DEF Request
  <2>3. spend' \in [Budgets -> Nat]
    BY <1>14, <2>2 DEF RecordUsage, Charge, TypeOK
  <2> QED BY <1>14, <2>1, <2>3, GotoType
       DEF RecordUsage, TypeOK, bounds, Pc, ModelPc
<1>15. ASSUME NEW c \in Callers, LedgerThrows(c) PROVE TypeOK'
  <2>1. faults' \in 0 .. MaxFaults
    BY <1>15, ChainAssumption DEF LedgerThrows, TypeOK
  <2> QED BY <1>15, <2>1, FailType DEF LedgerThrows, TypeOK, ModelPc
<1>16. ASSUME NEW c \in Callers, RouteAnswers(c) PROVE TypeOK'
  BY <1>16, ReturnType, MarkType DEF RouteAnswers, TypeOK, bounds, ModelStatus
<1>17. ASSUME NEW c \in Callers, NEW m \in Models, BeginProbe(c, m) PROVE TypeOK'
  <2> DEFINE r == [NoRequest EXCEPT !.kind = "probe", !.cleared = Providers,
                                    !.name = NameOf[m], !.model = m]
  <2>1. r \in Request /\ r.kind = "probe" /\ r.model = m /\ r.name = NameOf[m]
        /\ r.name \in Names
    BY NoRequestType, ChainAssumption DEF NoRequest, Request
  <2>2. Consistent("gate", r)
    BY <2>1 DEF Consistent, ModelPc, RouterPc
  <2>3. pc' = [pc EXCEPT ![c] = "gate"] /\ call' = [call EXCEPT ![c] = r]
    BY <1>17 DEF BeginProbe, Goto
  <2> HIDE DEF r
  <2>4. /\ pc' \in [Callers -> Pc]
        /\ call' \in [Callers -> Request]
        /\ \A d \in Callers : Consistent(pc'[d], call'[d])
    BY <2>1, <2>2, <2>3, CallType DEF Pc, ModelPc
  <2>5. requests' \in 0 .. MaxRequests
    BY <1>17, ChainAssumption DEF BeginProbe, TypeOK
  <2> QED BY <1>17, <2>4, <2>5 DEF BeginProbe, TypeOK, tables
<1>18. ASSUME NEW c \in Callers, ProbePasses(c) PROVE TypeOK'
  <2>1. Consistent("status", call[c]) /\ call[c].model \in Models
    BY <1>a, <1>18 DEF ProbePasses, Goto, Consistent, ModelPc, RouterPc
  <2> QED BY <1>18, <2>1, GotoType DEF ProbePasses, TypeOK, bounds, Pc, ModelPc
<1>19. ASSUME NEW c \in Callers, ProbeAvailable(c) PROVE TypeOK'
  BY <1>19, ReturnType, MarkType DEF ProbeAvailable, TypeOK, bounds, ModelStatus
<1>20. ASSUME NEW c \in Callers, ProbeGarbled(c) PROVE TypeOK'
  BY <1>20, ReturnType, MarkType DEF ProbeGarbled, TypeOK, bounds, ModelStatus
<1>21. ASSUME NEW b \in Budgets, Rollover(b) PROVE TypeOK'
  BY <1>21, ChainAssumption DEF Rollover, TypeOK
<1>22. ASSUME NEW c \in Callers, Crash(c) PROVE TypeOK'
  <2>1. faults' \in 0 .. MaxFaults
    BY <1>22, ChainAssumption DEF Crash, TypeOK
  <2> QED BY <1>22, <2>1, ReturnType DEF Crash, TypeOK, tables
<1>23. CASE UNCHANGED vars
  BY <1>23 DEF TypeOK, vars, tables, bounds
<1> QED
  BY <1>1, <1>2, <1>3, <1>4, <1>5, <1>6, <1>7, <1>8, <1>9, <1>10, <1>11, <1>12,
     <1>13, <1>14, <1>15, <1>16, <1>17, <1>18, <1>19, <1>20, <1>21, <1>22, <1>23,
     CallReturnsCases
  DEF Next, Begin, Steps

(* Every reachable state of the provider chain is well typed.              *)
THEOREM TypeCorrect == Spec => []TypeOK
  BY InitType, NextType, PTL DEF Spec

-----------------------------------------------------------------------------
(* What every step leaves alone.                                           *)

OnTheWay == {"sent", "record"}

(* A call that returns, hops or fails is no longer on the way, and the     *)
(* other callers are where they were.                                      *)
LEMMA ReturnShape ==
    ASSUME TypeOK, NEW c \in Callers, NEW here, Return(c, here)
    PROVE  /\ pc'[c] = "idle" /\ call'[c] = NoRequest /\ pc[c] = here
           /\ \A d \in Callers \ {c} : pc'[d] = pc[d] /\ call'[d] = call[d]
  BY DEF Return, Goto, TypeOK

LEMMA HopShape ==
    ASSUME TypeOK, NEW c \in Callers, NEW here, Hop(c, here)
    PROVE  /\ pc'[c] = "next" /\ pc[c] = here
           /\ call'[c].answers = call[c].answers
           /\ \A d \in Callers \ {c} : pc'[d] = pc[d] /\ call'[d] = call[d]
<1>1. call[c] \in Request
  BY DEF TypeOK
<1> QED BY <1>1 DEF Hop, Goto, TypeOK, Request

LEMMA FailShape ==
    ASSUME TypeOK, NEW c \in Callers, NEW here, NEW code, Fail(c, here, code)
    PROVE  /\ pc[c] = here
           /\ \/ pc'[c] = "idle" /\ call'[c] = NoRequest
              \/ pc'[c] = "next" /\ call'[c].answers = call[c].answers
           /\ \A d \in Callers \ {c} : pc'[d] = pc[d] /\ call'[d] = call[d]
           /\ \A m \in Models : status'[m] = "available" => status[m] = "available"
<1>1. \A s \in {"unavailable", "degraded", "unverified"} :
        Mark(c, s) => \A m \in Models :
                        status'[m] = "available" => status[m] = "available"
  BY DEF Mark, TypeOK
<1>2. CASE call[c].kind = "probe"
  <2>1. ProbeStatus(code) \in {"unavailable", "degraded", "unverified"}
    BY DEF ProbeStatus
  <2> QED BY <1>1, <1>2, <2>1, ReturnShape DEF Fail
<1>3. CASE call[c].kind = "route" /\ code \in RequestScoped
  BY <1>3, ReturnShape DEF Fail
<1>4. CASE call[c].kind = "route" /\ code \notin RequestScoped
  <2>1. (IF code = "AUTH" THEN "unavailable" ELSE "degraded")
           \in {"unavailable", "degraded", "unverified"}
    OBVIOUS
  <2> QED BY <1>1, <1>4, <2>1, HopShape DEF Fail
<1> QED BY <1>2, <1>3, <1>4 DEF Fail

LEMMA UseHealthShape ==
    ASSUME TypeOK, NEW c \in Callers, NEW here, NEW ok, UseHealth(c, here, ok)
    PROVE  /\ pc[c] = here
           /\ \/ pc'[c] = "gate" /\ call'[c] = call[c]
              \/ pc'[c] = "next" /\ call'[c].answers = call[c].answers
           /\ \A d \in Callers \ {c} : pc'[d] = pc[d] /\ call'[d] = call[d]
           /\ \A m \in Models : status'[m] = "available" => status[m] = "available"
<1>1. CASE ok
  BY <1>1 DEF UseHealth, Goto, TypeOK
<1>2. CASE ~ok
  <2>1. \A m \in Models : status'[m] = "available" => status[m] = "available"
    BY <1>2 DEF UseHealth, Mark, TypeOK
  <2> QED BY <1>2, <2>1, HopShape DEF UseHealth
<1> QED BY <1>1, <1>2

-----------------------------------------------------------------------------
(* Clean sends, one answer per request, available models.                  *)

(* Until a provider answers, a request has been answered only as often as  *)
(* an answer's usage could not be recorded.                                *)
PaidInv ==
    \A c \in Callers :
        /\ call[c].answers <= 1 + faults
        /\ pc[c] \in {"next", "health", "probing", "gate", "sent"} =>
             call[c].answers <= faults

(* A model about to be marked available has a provider that has just       *)
(* answered, for the model that was asked for.                             *)
AnsweredInv ==
    /\ AvailableHasAnswered
    /\ \A c \in Callers :
         pc[c] \in {"record", "reply", "status"} => TargetOf(c) \in answered

(* The provider of the model has answered.                                 *)
Proven(m, ever) == \E name \in Names : <<ProviderOf[m], name>> \in ever

(* It has answered for the model itself, for what a request asks.          *)
Itself(m, ever) == <<ProviderOf[m], NameOf[m]>> \in ever

Answers(r, ever) == <<ProviderOf[r.model], r.name>> \in ever

RequestInv == PaidInv /\ AnsweredInv /\ CleanSends

LEMMA InitRequests == Init => RequestInv
  BY ChainAssumption
  DEF Init, RequestInv, PaidInv, AnsweredInv, AvailableHasAnswered, CleanSends,
      NoRequest

(* What keeps RequestInv: one caller moves, and where it moves to it meets *)
(* the conditions of that step.                                            *)
LEMMA OneCaller ==
    ASSUME TypeOK, TypeOK', RequestInv, NEW c \in Callers,
           \A d \in Callers \ {c} : pc'[d] = pc[d] /\ call'[d] = call[d],
           faults' \in {faults, faults + 1},
           answered \subseteq answered',
           \A m \in Models : status'[m] = "available" =>
                               status[m] = "available" \/ Proven(m, answered'),
           \/ verified' = verified
           \/ /\ verified' = verified \cup {call[c].model}
              /\ Itself(call[c].model, answered),
           call'[c].answers <= 1 + faults',
           pc'[c] \in {"next", "health", "probing", "gate", "sent"} =>
               call'[c].answers <= faults',
           pc'[c] \in {"record", "reply", "status"} =>
               Answers(call'[c], answered'),
           pc'[c] = "sent" => /\ ProviderOf[call'[c].model]
                                   \in call'[c].cleared \cap Endpoints
                              /\ ~call'[c].secret
    PROVE  RequestInv'
<1>1. \A d \in Callers : call[d].answers \in Nat /\ call'[d].answers \in Nat
  BY DEF TypeOK, Request
<1>2. faults \in Nat /\ faults' \in Nat
  BY DEF TypeOK
<1>3. PaidInv'
  <2> SUFFICES ASSUME NEW d \in Callers
               PROVE  /\ call'[d].answers <= 1 + faults'
                      /\ pc'[d] \in {"next", "health", "probing", "gate", "sent"}
                           => call'[d].answers <= faults'
    BY DEF PaidInv
  <2>1. CASE d = c
    BY <2>1
  <2>2. CASE d # c
    BY <2>2, <1>1, <1>2 DEF RequestInv, PaidInv
  <2> QED BY <2>1, <2>2
<1>4. AnsweredInv'
  <2>1. AvailableHasAnswered'
    BY DEF RequestInv, AnsweredInv, AvailableHasAnswered, Proven, Itself
  <2>2. ASSUME NEW d \in Callers, pc'[d] \in {"record", "reply", "status"}
        PROVE  TargetOf(d)' \in answered'
    BY <2>2 DEF RequestInv, AnsweredInv, TargetOf, Provider, Answers
  <2> QED BY <2>1, <2>2 DEF AnsweredInv
<1>5. CleanSends'
  BY DEF RequestInv, CleanSends, Provider
<1> QED BY <1>3, <1>4, <1>5 DEF RequestInv

(* The same for a step that makes nobody answer and marks nothing.         *)
LEMMA UnansweredStep ==
    ASSUME TypeOK, TypeOK', RequestInv, NEW c \in Callers,
           \A d \in Callers \ {c} : pc'[d] = pc[d] /\ call'[d] = call[d],
           faults' = faults \/ faults' = faults + 1,
           answered' = answered, verified' = verified,
           \A m \in Models : status'[m] = "available" => status[m] = "available",
           call'[c].answers <= 1 + faults',
           pc'[c] \in {"next", "health", "probing", "gate", "sent"} =>
               call'[c].answers <= faults',
           pc'[c] \notin {"sent", "record", "reply", "status"}
    PROVE  RequestInv'
  BY OneCaller

(* What the gates and the guard let through.                               *)
LEMMA UnrefusedIsClean ==
    ASSUME NEW c, Verdict(c) = None
    PROVE  /\ Provider(c) \in Endpoints
           /\ Provider(c) \in call[c].cleared
           /\ ~call[c].secret
           /\ ~Exceeded(TargetOf(c))
<1> HIDE DEF Provider, Exceeded, TargetOf
<1>1. /\ None # "EGRESS_DENIED" /\ None # "CLASSIFICATION_DENIED"
      /\ None # "SECRET_IN_REQUEST" /\ None # "BUDGET_EXCEEDED"
  BY ChainAssumption DEF Code
<1> QED BY <1>1 DEF Verdict

LEMMA GotoShape ==
    ASSUME TypeOK, NEW c \in Callers, NEW here, NEW there, Goto(c, here, there),
           call' = call
    PROVE  /\ pc[c] = here /\ pc'[c] = there /\ call'[c] = call[c]
           /\ \A d \in Callers \ {c} : pc'[d] = pc[d] /\ call'[d] = call[d]
  BY DEF Goto, TypeOK

LEMMA NextRequests == TypeOK /\ TypeOK' /\ RequestInv /\ [Next]_vars => RequestInv'
<1> SUFFICES ASSUME TypeOK, TypeOK', RequestInv, [Next]_vars PROVE RequestInv'
  OBVIOUS
<1>a. /\ faults \in Nat
      /\ \A c \in Callers :
           /\ call[c] \in Request
           /\ call[c].answers \in Nat
           /\ call[c].answers <= 1 + faults
           /\ pc[c] \in {"next", "health", "probing", "gate", "sent"} =>
                call[c].answers <= faults
  BY DEF TypeOK, Request, RequestInv, PaidInv
<1>d. ASSUME NEW c \in Callers, pc[c] \in {"record", "reply", "status"}
      PROVE  /\ Answers(call[c], answered)
             /\ Proven(call[c].model, answered)
             /\ call[c].kind = "probe" => Itself(call[c].model, answered)
  BY <1>d DEF TypeOK, Consistent, ModelPc, RequestInv, AnsweredInv, TargetOf,
              Provider, Proven, Answers, Itself
<1>b. NoRequest.answers = 0
  BY DEF NoRequest
<1>1. ASSUME NEW c \in Callers, NEW input \in Inputs, BeginRoute(c, input)
      PROVE  RequestInv'
  <2>1. pc'[c] = "next" /\ call'[c].answers = 0
        /\ \A d \in Callers \ {c} : pc'[d] = pc[d] /\ call'[d] = call[d]
    BY <1>1, <1>a DEF BeginRoute, Goto, TypeOK, NoRequest
  <2> QED BY <1>1, <1>a, <2>1, UnansweredStep DEF BeginRoute, tables
<1>2. ASSUME NEW c \in Callers, SkipCandidate(c) PROVE RequestInv'
  <2>1. pc'[c] = "next" /\ call'[c].answers = call[c].answers /\ pc[c] = "next"
        /\ \A d \in Callers \ {c} : pc'[d] = pc[d] /\ call'[d] = call[d]
    BY <1>2, <1>a DEF SkipCandidate, Goto, TypeOK, Request
  <2> QED BY <1>2, <1>a, <2>1, UnansweredStep DEF SkipCandidate, tables, bounds
<1>3. ASSUME NEW c \in Callers, TryCandidate(c) PROVE RequestInv'
  <2>1. pc'[c] = "health" /\ call'[c].answers = call[c].answers /\ pc[c] = "next"
        /\ \A d \in Callers \ {c} : pc'[d] = pc[d] /\ call'[d] = call[d]
    BY <1>3, <1>a DEF TryCandidate, Goto, TypeOK, Request
  <2> QED BY <1>3, <1>a, <2>1, UnansweredStep DEF TryCandidate, tables, bounds
<1>4. ASSUME NEW c \in Callers, Exhaust(c) PROVE RequestInv'
  BY <1>4, <1>a, <1>b, ReturnShape, UnansweredStep DEF Exhaust, tables, bounds
<1>5. ASSUME NEW c \in Callers, CachedHealth(c) PROVE RequestInv'
  <2>1. UseHealth(c, "health", healthCache[c][Provider(c)] = "ok")
    BY <1>5 DEF CachedHealth
  <2> QED BY <1>5, <1>a, <2>1, UseHealthShape, UnansweredStep DEF CachedHealth, bounds
<1>6. ASSUME NEW c \in Callers, StartHealthProbe(c) PROVE RequestInv'
  BY <1>6, <1>a, GotoShape, UnansweredStep DEF StartHealthProbe, tables, bounds
<1>7. ASSUME NEW c \in Callers, HealthDenied(c) PROVE RequestInv'
  BY <1>7, <1>a, <1>b, ReturnShape, UnansweredStep DEF HealthDenied, tables, bounds
<1>8. ASSUME NEW c \in Callers, NEW ok \in BOOLEAN, HealthAnswers(c, ok)
      PROVE  RequestInv'
  BY <1>8, <1>a, UseHealthShape, UnansweredStep DEF HealthAnswers, bounds
<1>9. ASSUME NEW c \in Callers, NEW p \in Providers, HealthExpires(c, p)
      PROVE  RequestInv'
  BY <1>9 DEF HealthExpires, tables, bounds, RequestInv, PaidInv, AnsweredInv,
              AvailableHasAnswered, CleanSends, TargetOf, Provider
<1>10. ASSUME NEW c \in Callers, Deny(c) PROVE RequestInv'
  BY <1>10, <1>a, <1>b, FailShape, UnansweredStep DEF Deny, bounds
<1>11. ASSUME NEW c \in Callers, Send(c) PROVE RequestInv'
  <2>1. /\ Provider(c) \in Endpoints
        /\ Provider(c) \in call[c].cleared
        /\ ~call[c].secret
    BY <1>11, UnrefusedIsClean DEF Send
  <2> QED BY <1>11, <1>a, <2>1, GotoShape, OneCaller DEF Send, Provider, tables, bounds
<1>12. ASSUME NEW c \in Callers, NEW usage \in 0 .. MaxUsage \cup {None},
              NEW pong \in BOOLEAN, Answer(c, usage, pong)
       PROVE  RequestInv'
  <2>1. /\ pc[c] = "sent" /\ pc'[c] \in {"record", "reply"}
        /\ call'[c].answers = call[c].answers + 1
        /\ call'[c].model = call[c].model /\ call'[c].name = call[c].name
        /\ \A d \in Callers \ {c} : pc'[d] = pc[d] /\ call'[d] = call[d]
    BY <1>12, <1>a DEF Answer, Goto, TypeOK, Request
  <2>2. Answers(call'[c], answered')
    BY <1>12, <2>1 DEF Answer, TargetOf, Provider, Answers
  <2>3. /\ faults' = faults /\ status' = status /\ verified' = verified
        /\ answered \subseteq answered'
    BY <1>12 DEF Answer, tables, bounds
  <2>4. call'[c].answers <= 1 + faults'
    BY <1>a, <2>1, <2>3
  <2> QED BY <2>1, <2>2, <2>3, <2>4, OneCaller
<1>13. ASSUME NEW c \in Callers, NEW code, CallFails(c, code) PROVE RequestInv'
  BY <1>13, <1>a, <1>b, FailShape, UnansweredStep DEF CallFails, bounds
<1>14. ASSUME NEW c \in Callers, RecordUsage(c) PROVE RequestInv'
  <2>1. pc[c] = "record" /\ Answers(call[c], answered)
    BY <1>14, <1>d DEF RecordUsage, Goto
  <2> QED BY <1>14, <1>a, <2>1, GotoShape, OneCaller DEF RecordUsage, bounds
<1>15. ASSUME NEW c \in Callers, LedgerThrows(c) PROVE RequestInv'
  BY <1>15, <1>a, <1>b, FailShape, UnansweredStep DEF LedgerThrows
<1>c. ASSUME NEW c \in Callers, pc[c] \in {"reply", "status"}, NEW s, NEW here,
             Mark(c, s), Return(c, here), UNCHANGED <<verified, answered, bounds>>
      PROVE  RequestInv'
  <2>1. \A m \in Models : status'[m] = "available" =>
                            status[m] = "available" \/ Proven(m, answered')
    BY <1>c, <1>d DEF Mark, TypeOK
  <2> QED BY <1>c, <1>a, <1>b, <2>1, ReturnShape, OneCaller DEF bounds
<1>16. ASSUME NEW c \in Callers, RouteAnswers(c) PROVE RequestInv'
  BY <1>16, <1>c DEF RouteAnswers, Return, Goto
<1>17. ASSUME NEW c \in Callers, NEW m \in Models, BeginProbe(c, m)
       PROVE  RequestInv'
  <2>1. pc'[c] = "gate" /\ call'[c].answers = 0
        /\ \A d \in Callers \ {c} : pc'[d] = pc[d] /\ call'[d] = call[d]
    BY <1>17, <1>a DEF BeginProbe, Goto, TypeOK, NoRequest
  <2> QED BY <1>17, <1>a, <2>1, UnansweredStep DEF BeginProbe, tables
<1>18. ASSUME NEW c \in Callers, ProbePasses(c) PROVE RequestInv'
  <2>1. /\ pc[c] = "reply" /\ Answers(call[c], answered)
        /\ Itself(call[c].model, answered)
    BY <1>18, <1>d DEF ProbePasses, Goto
  <2> QED BY <1>18, <1>a, <2>1, GotoShape, OneCaller DEF ProbePasses, bounds
<1>19. ASSUME NEW c \in Callers, ProbeAvailable(c) PROVE RequestInv'
  BY <1>19, <1>c DEF ProbeAvailable, Return, Goto
<1>20. ASSUME NEW c \in Callers, ProbeGarbled(c) PROVE RequestInv'
  BY <1>20, <1>c DEF ProbeGarbled, Return, Goto
<1>21. ASSUME NEW b \in Budgets, Rollover(b) PROVE RequestInv'
  BY <1>21 DEF Rollover, RequestInv, PaidInv, AnsweredInv,
               AvailableHasAnswered, CleanSends, TargetOf, Provider
<1>22. ASSUME NEW c \in Callers, Crash(c) PROVE RequestInv'
  BY <1>22, <1>a, <1>b, ReturnShape, UnansweredStep DEF Crash, tables
<1>23. CASE UNCHANGED vars
  BY <1>23 DEF vars, tables, bounds, RequestInv, PaidInv, AnsweredInv,
               AvailableHasAnswered, CleanSends, TargetOf, Provider
<1> QED
  BY <1>1, <1>2, <1>3, <1>4, <1>5, <1>6, <1>7, <1>8, <1>9, <1>10, <1>11, <1>12,
     <1>13, <1>14, <1>15, <1>16, <1>17, <1>18, <1>19, <1>20, <1>21, <1>22, <1>23,
     CallReturnsCases
  DEF Next, Begin, Steps

LEMMA RequestsInvariant == Spec => []RequestInv
  BY TypeCorrect, InitRequests, NextRequests, PTL DEF Spec

(* Nothing leaves for an endpoint or a clearance that denies it, and no    *)
(* secret leaves at all.                                                   *)
THEOREM SendsAreClean == Spec => []CleanSends
  BY RequestsInvariant, PTL DEF RequestInv

(* A request is answered once, and once more per answer thrown away.       *)
THEOREM PaidOnce == Spec => []PaidOncePerFault
<1>1. RequestInv => PaidOncePerFault
  BY DEF RequestInv, PaidInv, PaidOncePerFault
<1> QED BY <1>1, RequestsInvariant, PTL

(* A verified model has answered itself, and a model is available only if  *)
(* its provider has answered, for the model some request named: router.ts  *)
(* marks the candidate's row whichever model was asked for.                *)
THEOREM AvailableAnswered == Spec => []AvailableHasAnswered
  BY RequestsInvariant, PTL DEF RequestInv, AnsweredInv

-----------------------------------------------------------------------------
(* The overdraft.                                                          *)

(* What is spent, plus what every answer on its way may add, stays below   *)
(* the bound: the bound counts every caller's answer, so no answer pushes  *)
(* the spend past it.  A limit of zero lets nothing out at all.            *)
LedgerInv ==
    \A b \in HardBlock :
        /\ spend[b] + MaxUsage * Cardinality(InFlight(b))
             < Limit[b] + MaxUsage * Cardinality(Callers)
        /\ Limit[b] = 0 => InFlight(b) = {}

LEMMA Scale ==
    ASSUME NEW u \in Nat, NEW m \in Nat, NEW n \in Nat, m <= n
    PROVE  /\ u * m \in Nat /\ u * n \in Nat
           /\ u * m <= u * n
<1>1. PICK k \in Nat : n = m + k
  <2>1. n - m \in Nat /\ n = m + (n - m)
    OBVIOUS
  <2> QED BY <2>1
<1>2. u * n = u * m + u * k /\ u * k \in Nat /\ u * m \in Nat
  BY <1>1
<1> QED BY <1>2

LEMMA InFlightFinite ==
    ASSUME NEW b
    PROVE  /\ IsFiniteSet(InFlight(b))
           /\ Cardinality(InFlight(b)) \in Nat
           /\ Cardinality(Callers) \in Nat
           /\ Cardinality(InFlight(b)) <= Cardinality(Callers)
  BY ChainAssumption, FS_Subset, FS_CardinalityType DEF InFlight

(* A step that puts no answer on its way and spends nothing keeps it.      *)
LEMMA QuietStep ==
    ASSUME TypeOK, LedgerInv, spend' = spend,
           \A c \in Callers : pc'[c] \in OnTheWay =>
               pc[c] \in OnTheWay
               /\ call'[c].model = call[c].model /\ call'[c].name = call[c].name
    PROVE  LedgerInv'
<1> SUFFICES ASSUME NEW b \in HardBlock
             PROVE  /\ spend'[b] + MaxUsage * Cardinality(InFlight(b)')
                         < Limit[b] + MaxUsage * Cardinality(Callers)
                    /\ Limit[b] = 0 => InFlight(b)' = {}
  BY DEF LedgerInv
<1>1. InFlight(b)' \subseteq InFlight(b)
  BY DEF InFlight, OnTheWay, TargetOf, Provider
<1>2. Cardinality(InFlight(b)') \in Nat
      /\ Cardinality(InFlight(b)') <= Cardinality(InFlight(b))
  BY <1>1, InFlightFinite, FS_Subset, FS_CardinalityType
<1>3. spend[b] \in Nat /\ Limit[b] \in Nat /\ MaxUsage \in Nat
  BY ChainAssumption DEF TypeOK
<1>4. MaxUsage * Cardinality(InFlight(b)')
         <= MaxUsage * Cardinality(InFlight(b))
      /\ MaxUsage * Cardinality(InFlight(b)) \in Nat
      /\ MaxUsage * Cardinality(InFlight(b)') \in Nat
  BY <1>2, <1>3, InFlightFinite, Scale
<1>5. MaxUsage * Cardinality(Callers) \in Nat
  BY <1>3, InFlightFinite, Scale
<1>6. spend[b] + MaxUsage * Cardinality(InFlight(b))
         < Limit[b] + MaxUsage * Cardinality(Callers)
  BY DEF LedgerInv
<1>7. Limit[b] = 0 => InFlight(b)' = {}
  BY <1>1 DEF LedgerInv
<1> HIDE DEF InFlight
<1> QED BY <1>3, <1>4, <1>5, <1>6, <1>7

LEMMA InitLedger == Init => LedgerInv
<1> SUFFICES ASSUME Init, NEW b \in HardBlock
             PROVE  /\ spend[b] + MaxUsage * Cardinality(InFlight(b))
                         < Limit[b] + MaxUsage * Cardinality(Callers)
                    /\ Limit[b] = 0 => InFlight(b) = {}
  BY DEF LedgerInv
<1>1. InFlight(b) = {}
  BY DEF Init, InFlight
<1>2. Cardinality(InFlight(b)) = 0
  BY <1>1, FS_EmptySet
<1>3. Cardinality(Callers) \in Nat /\ Cardinality(Callers) # 0
  BY ChainAssumption, FS_EmptySet, FS_CardinalityType
<1>4. MaxUsage * Cardinality(Callers) > 0
  <2>1. MaxUsage \in Nat /\ MaxUsage > 0
    BY ChainAssumption
  <2>2. MaxUsage * 1 <= MaxUsage * Cardinality(Callers)
        /\ MaxUsage * Cardinality(Callers) \in Nat
    BY <1>3, <2>1, Scale
  <2> QED BY <2>1, <2>2
<1>5. spend[b] = 0 /\ Limit[b] \in Nat /\ MaxUsage \in Nat
  BY ChainAssumption DEF Init
<1>6. MaxUsage * Cardinality(Callers) \in Nat
  BY <1>3, <1>5, Scale
<1>7. MaxUsage * 0 = 0
  BY <1>5
<1> QED BY <1>1, <1>2, <1>4, <1>5, <1>6, <1>7

LEMMA SendLedger ==
    ASSUME TypeOK, LedgerInv, NEW c \in Callers, Send(c)
    PROVE  LedgerInv'
<1> SUFFICES ASSUME NEW b \in HardBlock
             PROVE  /\ spend'[b] + MaxUsage * Cardinality(InFlight(b)')
                         < Limit[b] + MaxUsage * Cardinality(Callers)
                    /\ Limit[b] = 0 => InFlight(b)' = {}
  BY DEF LedgerInv
<1>1. spend' = spend /\ call' = call /\ pc[c] = "gate" /\ pc'[c] = "sent"
      /\ \A d \in Callers \ {c} : pc'[d] = pc[d]
  BY DEF Send, Goto, tables, TypeOK
<1>2. CASE TargetOf(c) \notin Covers[b]
  <2>1. InFlight(b)' = InFlight(b)
    BY <1>1, <1>2 DEF InFlight, TargetOf, Provider
  <2> QED BY <1>1, <2>1 DEF LedgerInv
<1>3. CASE TargetOf(c) \in Covers[b]
  <2>1. spend[b] < Limit[b]
    <3>1. ~Exceeded(TargetOf(c))
      BY UnrefusedIsClean DEF Send
    <3> QED BY <1>3, <3>1, ChainAssumption DEF Exceeded, TypeOK
  <2>2. Cardinality(InFlight(b)') \in Nat
        /\ Cardinality(InFlight(b)') <= Cardinality(Callers)
    <3>1. InFlight(b)' \subseteq Callers
      BY DEF InFlight
    <3> QED BY <3>1, ChainAssumption, FS_Subset, FS_CardinalityType
  <2>3. MaxUsage * Cardinality(InFlight(b)') <= MaxUsage * Cardinality(Callers)
        /\ MaxUsage * Cardinality(InFlight(b)') \in Nat
        /\ MaxUsage * Cardinality(Callers) \in Nat
    BY <2>2, InFlightFinite, ChainAssumption, Scale
  <2>4. spend[b] \in Nat /\ Limit[b] \in Nat
    BY ChainAssumption DEF TypeOK
  <2> HIDE DEF InFlight
  <2> QED BY <1>1, <2>1, <2>3, <2>4
<1> QED BY <1>2, <1>3

LEMMA RecordLedger ==
    ASSUME TypeOK, LedgerInv, NEW c \in Callers, RecordUsage(c)
    PROVE  LedgerInv'
<1> SUFFICES ASSUME NEW b \in HardBlock
             PROVE  /\ spend'[b] + MaxUsage * Cardinality(InFlight(b)')
                         < Limit[b] + MaxUsage * Cardinality(Callers)
                    /\ Limit[b] = 0 => InFlight(b)' = {}
  BY DEF LedgerInv
<1>1. /\ call' = call /\ pc[c] = "record" /\ pc'[c] = "reply"
      /\ \A d \in Callers \ {c} : pc'[d] = pc[d]
      /\ spend'[b] = spend[b] + Charge(b, TargetOf(c), call[c].usage)
  BY ChainAssumption DEF RecordUsage, Goto, TypeOK
<1>2. call[c].usage \in Nat /\ call[c].usage <= MaxUsage /\ MaxUsage \in Nat
  BY ChainAssumption DEF TypeOK, Request
<1>3. spend[b] \in Nat /\ Limit[b] \in Nat
  BY ChainAssumption DEF TypeOK
<1>4. CASE TargetOf(c) \notin Covers[b]
  <2>1. InFlight(b)' = InFlight(b)
    BY <1>1, <1>4 DEF InFlight, TargetOf, Provider
  <2>2. spend'[b] = spend[b]
    BY <1>1, <1>3, <1>4 DEF Charge
  <2> QED BY <2>1, <2>2 DEF LedgerInv
<1>5. CASE TargetOf(c) \in Covers[b]
  <2>1. c \in InFlight(b) /\ InFlight(b)' = InFlight(b) \ {c}
    BY <1>1, <1>5 DEF InFlight, TargetOf, Provider
  <2>2. Cardinality(InFlight(b)') = Cardinality(InFlight(b)) - 1
        /\ Cardinality(InFlight(b)') \in Nat
    BY <2>1, InFlightFinite, FS_RemoveElement, FS_CardinalityType
  <2>3. MaxUsage * Cardinality(InFlight(b))
           = MaxUsage * Cardinality(InFlight(b)') + MaxUsage
        /\ MaxUsage * Cardinality(InFlight(b)') \in Nat
    <3> DEFINE k == Cardinality(InFlight(b)')
    <3>1. Cardinality(InFlight(b)) = k + 1
      BY <2>2, InFlightFinite
    <3> HIDE DEF k
    <3>2. k \in Nat
      BY <2>2 DEF k
    <3>3. MaxUsage * (k + 1) = MaxUsage * k + MaxUsage /\ MaxUsage * k \in Nat
      BY <3>2, <1>2
    <3> QED BY <3>1, <3>3 DEF k
  <2>4. spend'[b] <= spend[b] + MaxUsage /\ spend'[b] \in Nat
    BY <1>1, <1>2, <1>3 DEF Charge
  <2>5. spend[b] + MaxUsage * Cardinality(InFlight(b))
           < Limit[b] + MaxUsage * Cardinality(Callers)
        /\ (Limit[b] = 0 => InFlight(b)' = {})
    BY <2>1 DEF LedgerInv
  <2>6. MaxUsage * Cardinality(Callers) \in Nat
    BY <1>2, InFlightFinite, Scale
  <2> HIDE DEF InFlight
  <2> QED BY <1>2, <1>3, <2>3, <2>4, <2>5, <2>6
<1> QED BY <1>4, <1>5

LEMMA RolloverLedger ==
    ASSUME TypeOK, LedgerInv, NEW a \in Budgets, Rollover(a)
    PROVE  LedgerInv'
<1> SUFFICES ASSUME NEW b \in HardBlock
             PROVE  /\ spend'[b] + MaxUsage * Cardinality(InFlight(b)')
                         < Limit[b] + MaxUsage * Cardinality(Callers)
                    /\ Limit[b] = 0 => InFlight(b)' = {}
  BY DEF LedgerInv
<1>1. InFlight(b)' = InFlight(b) /\ spend'[b] \in {0, spend[b]}
  BY ChainAssumption DEF Rollover, InFlight, TargetOf, Provider, TypeOK
<1>2. spend[b] \in Nat /\ spend'[b] <= spend[b] /\ spend'[b] \in Nat
  BY <1>1, ChainAssumption DEF TypeOK
<1>3. spend[b] + MaxUsage * Cardinality(InFlight(b))
         < Limit[b] + MaxUsage * Cardinality(Callers)
      /\ (Limit[b] = 0 => InFlight(b) = {})
  BY DEF LedgerInv
<1>4. /\ MaxUsage * Cardinality(InFlight(b)) \in Nat
      /\ MaxUsage * Cardinality(Callers) \in Nat
      /\ Limit[b] \in Nat
  BY InFlightFinite, Scale, ChainAssumption
<1> HIDE DEF InFlight
<1> QED BY <1>1, <1>2, <1>3, <1>4

LEMMA NextLedger == TypeOK /\ TypeOK' /\ LedgerInv /\ [Next]_vars => LedgerInv'
<1> SUFFICES ASSUME TypeOK, TypeOK', LedgerInv, [Next]_vars PROVE LedgerInv'
  OBVIOUS
<1> DEFINE Quiet ==
      /\ spend' = spend
      /\ \A c \in Callers : pc'[c] \in OnTheWay =>
           pc[c] \in OnTheWay
               /\ call'[c].model = call[c].model /\ call'[c].name = call[c].name
<1>a. Quiet => LedgerInv'
  BY QuietStep
<1>1. ASSUME NEW c \in Callers, NEW input \in Inputs, BeginRoute(c, input)
      PROVE  Quiet
  BY <1>1 DEF BeginRoute, Goto, TypeOK, tables, OnTheWay
<1>2. ASSUME NEW c \in Callers, SkipCandidate(c) \/ TryCandidate(c) PROVE Quiet
  BY <1>2 DEF SkipCandidate, TryCandidate, Goto, TypeOK, tables, OnTheWay
<1>3. ASSUME NEW c \in Callers, Exhaust(c) \/ HealthDenied(c) \/ Crash(c)
      PROVE  Quiet
  BY <1>3, ReturnShape DEF Exhaust, HealthDenied, Crash, tables, OnTheWay
<1>4. ASSUME NEW c \in Callers, CachedHealth(c) PROVE Quiet
  <2>1. UseHealth(c, "health", healthCache[c][Provider(c)] = "ok")
    BY <1>4 DEF CachedHealth
  <2> QED BY <1>4, <2>1, UseHealthShape DEF CachedHealth, OnTheWay
<1>5. ASSUME NEW c \in Callers, NEW ok \in BOOLEAN, HealthAnswers(c, ok) PROVE Quiet
  BY <1>5, UseHealthShape DEF HealthAnswers, OnTheWay
<1>6. ASSUME NEW c \in Callers, StartHealthProbe(c) \/ ProbePasses(c) PROVE Quiet
  BY <1>6, GotoShape DEF StartHealthProbe, ProbePasses, tables, OnTheWay
<1>7. ASSUME NEW c \in Callers, NEW p \in Providers, HealthExpires(c, p) PROVE Quiet
  BY <1>7 DEF HealthExpires, tables
<1>8. ASSUME NEW c \in Callers, Deny(c) \/ LedgerThrows(c) PROVE Quiet
  BY <1>8, FailShape DEF Deny, LedgerThrows, OnTheWay
<1>9. ASSUME NEW c \in Callers, NEW code, CallFails(c, code) PROVE Quiet
  BY <1>9, FailShape DEF CallFails, OnTheWay
<1>10. ASSUME NEW c \in Callers, NEW usage \in 0 .. MaxUsage \cup {None},
              NEW pong \in BOOLEAN, Answer(c, usage, pong)
       PROVE  Quiet
  <2>1. call[c] \in Request
    BY DEF TypeOK
  <2>2. pc[c] = "sent" /\ call'[c].model = call[c].model /\ spend' = spend
        /\ call'[c].name = call[c].name
        /\ \A d \in Callers \ {c} : pc'[d] = pc[d] /\ call'[d] = call[d]
    BY <1>10, <2>1 DEF Answer, Goto, TypeOK, Request, tables
  <2> QED BY <2>2 DEF OnTheWay
<1>11. ASSUME NEW c \in Callers,
              RouteAnswers(c) \/ ProbeAvailable(c) \/ ProbeGarbled(c)
       PROVE  Quiet
  BY <1>11, ReturnShape DEF RouteAnswers, ProbeAvailable, ProbeGarbled, OnTheWay
<1>12. ASSUME NEW c \in Callers, NEW m \in Models, BeginProbe(c, m) PROVE Quiet
  BY <1>12 DEF BeginProbe, Goto, TypeOK, tables, OnTheWay
<1>13. CASE UNCHANGED vars
  <2>1. spend' = spend /\ pc' = pc /\ call' = call
    BY <1>13 DEF vars, tables
  <2>2. Quiet
    BY <2>1
  <2> QED BY <1>a, <2>2
<1> HIDE DEF Quiet
<1> QED
  BY <1>a, <1>1, <1>2, <1>3, <1>4, <1>5, <1>6, <1>7, <1>8, <1>9, <1>10, <1>11,
     <1>12, <1>13, SendLedger, RecordLedger, RolloverLedger,
     CallReturnsCases
  DEF Next, Begin, Steps

(* However many requests are in flight, in however many processes, a hard  *)
(* limit is overdrawn by less than one answer's usage per caller.          *)
THEOREM OverdraftBounded == Spec => []OverdraftBound
<1>1. TypeOK /\ LedgerInv => OverdraftBound
  <2> SUFFICES ASSUME TypeOK, LedgerInv, NEW b \in HardBlock
               PROVE  spend[b] < Limit[b] + MaxUsage * Cardinality(Callers)
    BY DEF OverdraftBound
  <2>1. /\ MaxUsage * Cardinality(InFlight(b)) \in Nat
        /\ MaxUsage * Cardinality(Callers) \in Nat
        /\ spend[b] \in Nat /\ Limit[b] \in Nat
    BY InFlightFinite, Scale, ChainAssumption DEF TypeOK
  <2>2. spend[b] + MaxUsage * Cardinality(InFlight(b))
           < Limit[b] + MaxUsage * Cardinality(Callers)
    BY DEF LedgerInv
  <2> HIDE DEF InFlight
  <2> QED BY <2>1, <2>2
<1> QED BY <1>1, TypeCorrect, InitLedger, NextLedger, PTL DEF Spec

-----------------------------------------------------------------------------
(* Giving up last.                                                         *)

(* The cleared candidates a request has behind it.                         *)
Behind(r) == {i \in DOMAIN Chain : ProviderOf[Chain[i]] \in r.cleared /\ i < r.pos}

(* A request has hopped once for every cleared candidate behind it, and    *)
(* once for the one at hand, within its budget.                            *)
Counted(step, r) ==
    r.kind = "route" =>
        /\ r.hops = Cardinality(Behind(r)) + (IF step = "next" THEN 0 ELSE 1)
        /\ r.hops <= r.maxHops
        /\ step # "next" => ProviderOf[Chain[r.pos]] \in r.cleared

HopInv == \A c \in Callers : Counted(pc[c], call[c])

LEMMA BehindFinite ==
    ASSUME NEW r
    PROVE  IsFiniteSet(Behind(r)) /\ Cardinality(Behind(r)) \in Nat
<1>1. Len(Chain) \in Nat /\ DOMAIN Chain = 1 .. Len(Chain)
  BY ChainAssumption
<1>2. IsFiniteSet(1 .. Len(Chain))
  BY <1>1, FS_Interval
<1> QED BY <1>1, <1>2, FS_Subset, FS_CardinalityType DEF Behind

LEMMA NoRequestCounted == \A step : Counted(step, NoRequest)
BY DEF Counted, NoRequest

(* One caller moves.                                                       *)
LEMMA OneCounted ==
    ASSUME HopInv, NEW c \in Callers, Counted(pc'[c], call'[c]),
           \A d \in Callers \ {c} : pc'[d] = pc[d] /\ call'[d] = call[d]
    PROVE  HopInv'
BY DEF HopInv, Counted, Behind

LEMMA ReturnCounted ==
    ASSUME TypeOK, HopInv, NEW c \in Callers, NEW here, Return(c, here)
    PROVE  HopInv'
BY ReturnShape, NoRequestCounted, OneCounted

(* From one step with a model to the next, with the same candidate.        *)
LEMMA SameCandidate ==
    ASSUME HopInv, NEW c \in Callers, pc[c] \in ModelPc, NEW r,
           r.kind = call[c].kind, r.cleared = call[c].cleared,
           r.pos = call[c].pos, r.hops = call[c].hops,
           r.maxHops = call[c].maxHops, NEW there \in ModelPc
    PROVE  Counted(there, r)
BY DEF HopInv, Counted, Behind, ModelPc

LEMMA GotoCounted ==
    ASSUME TypeOK, HopInv, NEW c \in Callers, NEW here \in ModelPc,
           NEW there \in ModelPc, Goto(c, here, there), call' = call
    PROVE  HopInv'
BY GotoShape, SameCandidate, OneCounted

(* A hop leaves the candidate at hand behind.                              *)
LEMMA HopCounted ==
    ASSUME TypeOK, HopInv, NEW c \in Callers, NEW here \in ModelPc,
           call[c].kind = "route", Hop(c, here)
    PROVE  HopInv'
<1> DEFINE r == [call[c] EXCEPT !.pos = @ + 1, !.model = None, !.usage = 0]
<1>1. call[c] \in Request /\ Consistent(here, call[c]) /\ pc[c] = here
  BY DEF TypeOK, Hop, Goto
<1>2. call[c].pos \in DOMAIN Chain /\ call[c].pos \in Nat /\ here # "next"
  BY <1>1, ChainAssumption DEF Consistent, ModelPc
<1>3. /\ r.kind = "route" /\ r.cleared = call[c].cleared
      /\ r.pos = call[c].pos + 1 /\ r.hops = call[c].hops
      /\ r.maxHops = call[c].maxHops
  BY <1>1 DEF Request
<1>4. call' = [call EXCEPT ![c] = r] /\ pc' = [pc EXCEPT ![c] = "next"]
  BY DEF Hop, Goto
<1> HIDE DEF r
<1>5. /\ call'[c] = r /\ pc'[c] = "next"
      /\ \A d \in Callers \ {c} : pc'[d] = pc[d] /\ call'[d] = call[d]
  BY <1>4 DEF TypeOK
<1>6. /\ call[c].hops = Cardinality(Behind(call[c])) + 1
      /\ call[c].hops <= call[c].maxHops
      /\ ProviderOf[Chain[call[c].pos]] \in call[c].cleared
  BY <1>1, <1>2 DEF HopInv, Counted
<1>7. Behind(r) = Behind(call[c]) \cup {call[c].pos}
  <2>1. \A i \in DOMAIN Chain : i < call[c].pos + 1 <=> (i < call[c].pos \/ i = call[c].pos)
    BY <1>2, ChainAssumption
  <2> QED BY <1>2, <1>3, <1>6, <2>1 DEF Behind
<1>8. Cardinality(Behind(r)) = Cardinality(Behind(call[c])) + 1
  <2>1. call[c].pos \notin Behind(call[c])
    BY <1>2 DEF Behind
  <2> QED BY <1>7, <2>1, BehindFinite, FS_AddElement
<1>9. Counted("next", r)
  BY <1>3, <1>6, <1>8, BehindFinite DEF Counted
<1> QED BY <1>5, <1>9, OneCounted

LEMMA FailCounted ==
    ASSUME TypeOK, HopInv, NEW c \in Callers, NEW here \in ModelPc, NEW code,
           Fail(c, here, code)
    PROVE  HopInv'
BY ReturnCounted, HopCounted DEF Fail

LEMMA UseHealthCounted ==
    ASSUME TypeOK, HopInv, NEW c \in Callers, NEW here \in {"health", "probing"},
           NEW ok, UseHealth(c, here, ok)
    PROVE  HopInv'
<1>1. here \in ModelPc /\ "gate" \in ModelPc
  BY DEF ModelPc
<1>2. CASE ok
  BY <1>1, <1>2, GotoCounted DEF UseHealth
<1>3. CASE ~ok
  <2>1. call[c].kind = "route"
    BY <1>3 DEF UseHealth, Hop, Goto, TypeOK, Consistent, RouterPc
  <2> QED BY <1>1, <1>3, <2>1, HopCounted DEF UseHealth
<1> QED BY <1>2, <1>3

(* The loop passes an uncleared candidate over and tries a cleared one.    *)
LEMMA LoopCounted ==
    ASSUME TypeOK, HopInv, NEW c \in Callers, SkipCandidate(c) \/ TryCandidate(c)
    PROVE  HopInv'
<1>1. call[c] \in Request /\ Consistent("next", call[c]) /\ pc[c] = "next"
  BY DEF TypeOK, SkipCandidate, TryCandidate, Goto
<1>2. /\ call[c].kind = "route" /\ call[c].pos \in DOMAIN Chain
      /\ call[c].pos \in Nat /\ call[c].hops < call[c].maxHops
      /\ call[c].hops \in Nat /\ call[c].maxHops \in Nat
  BY <1>1, ChainAssumption
     DEF Consistent, RouterPc, SkipCandidate, TryCandidate, More, Request
<1>3. call[c].hops = Cardinality(Behind(call[c]))
  <2>1. Counted("next", call[c])
    BY <1>1 DEF HopInv
  <2> QED BY <1>2, <2>1, BehindFinite DEF Counted
<1>4. CASE SkipCandidate(c)
  <2> DEFINE r == [call[c] EXCEPT !.pos = @ + 1]
  <2>1. /\ r.kind = "route" /\ r.cleared = call[c].cleared
        /\ r.pos = call[c].pos + 1 /\ r.hops = call[c].hops
        /\ r.maxHops = call[c].maxHops
    BY <1>1, <1>2 DEF Request
  <2>2. call' = [call EXCEPT ![c] = r] /\ pc' = [pc EXCEPT ![c] = "next"]
    BY <1>4 DEF SkipCandidate, Goto
  <2> HIDE DEF r
  <2>3. /\ call'[c] = r /\ pc'[c] = "next"
        /\ \A d \in Callers \ {c} : pc'[d] = pc[d] /\ call'[d] = call[d]
    BY <2>2 DEF TypeOK
  <2>4. ProviderOf[Chain[call[c].pos]] \notin call[c].cleared
    BY <1>4 DEF SkipCandidate, Candidate
  <2>5. Behind(r) = Behind(call[c])
    <3>1. \A i \in DOMAIN Chain : i < call[c].pos + 1 <=> (i < call[c].pos \/ i = call[c].pos)
      BY <1>2, ChainAssumption
    <3> QED BY <2>1, <2>4, <3>1 DEF Behind
  <2>6. Counted("next", r)
    BY <1>2, <1>3, <2>1, <2>5, BehindFinite DEF Counted
  <2> QED BY <2>3, <2>6, OneCounted
<1>5. CASE TryCandidate(c)
  <2> DEFINE r == [call[c] EXCEPT !.hops = @ + 1, !.model = Candidate(c)]
  <2>1. /\ r.kind = "route" /\ r.cleared = call[c].cleared
        /\ r.pos = call[c].pos /\ r.hops = call[c].hops + 1
        /\ r.maxHops = call[c].maxHops
    BY <1>1, <1>2 DEF Request
  <2>2. call' = [call EXCEPT ![c] = r] /\ pc' = [pc EXCEPT ![c] = "health"]
    BY <1>5 DEF TryCandidate, Goto
  <2> HIDE DEF r
  <2>3. /\ call'[c] = r /\ pc'[c] = "health"
        /\ \A d \in Callers \ {c} : pc'[d] = pc[d] /\ call'[d] = call[d]
    BY <2>2 DEF TypeOK
  <2>4. ProviderOf[Chain[r.pos]] \in r.cleared
    BY <1>5, <2>1 DEF TryCandidate, Candidate
  <2>5. Behind(r) = Behind(call[c])
    BY <2>1 DEF Behind
  <2>6. Counted("health", r)
    BY <1>2, <1>3, <2>1, <2>4, <2>5, BehindFinite DEF Counted
  <2> QED BY <2>3, <2>6, OneCounted
<1> QED BY <1>4, <1>5

LEMMA NextHops == TypeOK /\ HopInv /\ [Next]_vars => HopInv'
<1> SUFFICES ASSUME TypeOK, HopInv, [Next]_vars PROVE HopInv'
  OBVIOUS
<1>a. {"health", "probing", "gate", "sent", "record", "reply", "status"} \subseteq ModelPc
  BY DEF ModelPc
<1>1. ASSUME NEW c \in Callers, NEW input \in Inputs, BeginRoute(c, input)
      PROVE  HopInv'
  <2> DEFINE r == [NoRequest EXCEPT !.kind = "route", !.name = input.name,
                     !.cleared = input.cleared, !.secret = input.secret,
                     !.maxHops = input.maxHops, !.pos = 1]
  <2>1. r.pos = 1 /\ r.hops = 0 /\ r.maxHops = input.maxHops /\ input.maxHops \in Nat
    BY ChainAssumption DEF NoRequest, Input
  <2>2. call' = [call EXCEPT ![c] = r] /\ pc' = [pc EXCEPT ![c] = "next"]
    BY <1>1 DEF BeginRoute, Goto
  <2> HIDE DEF r
  <2>3. /\ call'[c] = r /\ pc'[c] = "next"
        /\ \A d \in Callers \ {c} : pc'[d] = pc[d] /\ call'[d] = call[d]
    BY <2>2 DEF TypeOK
  <2>4. Behind(r) = {}
    BY <2>1, ChainAssumption DEF Behind
  <2>5. Counted("next", r)
    BY <2>1, <2>4, FS_EmptySet DEF Counted
  <2> QED BY <2>3, <2>5, OneCounted
<1>2. ASSUME NEW c \in Callers, NEW m \in Models, BeginProbe(c, m) PROVE HopInv'
  <2> DEFINE r == [NoRequest EXCEPT !.kind = "probe", !.cleared = Providers,
                                    !.name = NameOf[m], !.model = m]
  <2>1. r.kind = "probe"
    BY DEF NoRequest
  <2>2. call' = [call EXCEPT ![c] = r] /\ pc' = [pc EXCEPT ![c] = "gate"]
    BY <1>2 DEF BeginProbe, Goto
  <2> HIDE DEF r
  <2>3. /\ call'[c] = r /\ pc'[c] = "gate"
        /\ \A d \in Callers \ {c} : pc'[d] = pc[d] /\ call'[d] = call[d]
    BY <2>2 DEF TypeOK
  <2>4. Counted("gate", r)
    BY <2>1 DEF Counted
  <2> QED BY <2>3, <2>4, OneCounted
<1>3. ASSUME NEW c \in Callers, SkipCandidate(c) \/ TryCandidate(c) PROVE HopInv'
  BY <1>3, LoopCounted
<1>4. ASSUME NEW c \in Callers,
             \/ Exhaust(c) \/ HealthDenied(c) \/ Crash(c)
             \/ RouteAnswers(c) \/ ProbeAvailable(c) \/ ProbeGarbled(c)
      PROVE  HopInv'
  BY <1>4, ReturnCounted
     DEF Exhaust, HealthDenied, Crash, RouteAnswers, ProbeAvailable, ProbeGarbled
<1>5. ASSUME NEW c \in Callers, CachedHealth(c) PROVE HopInv'
  <2>1. UseHealth(c, "health", healthCache[c][Provider(c)] = "ok")
    BY <1>5 DEF CachedHealth
  <2> QED BY <2>1, UseHealthCounted
<1>6. ASSUME NEW c \in Callers, NEW ok \in BOOLEAN, HealthAnswers(c, ok) PROVE HopInv'
  BY <1>6, UseHealthCounted DEF HealthAnswers
<1>7. ASSUME NEW c \in Callers,
             StartHealthProbe(c) \/ Send(c) \/ RecordUsage(c) \/ ProbePasses(c)
      PROVE  HopInv'
  BY <1>7, <1>a, GotoCounted DEF StartHealthProbe, Send, RecordUsage, ProbePasses
<1>8. ASSUME NEW c \in Callers, Deny(c) \/ LedgerThrows(c) PROVE HopInv'
  BY <1>8, <1>a, FailCounted DEF Deny, LedgerThrows
<1>9. ASSUME NEW c \in Callers, NEW code, CallFails(c, code) PROVE HopInv'
  BY <1>9, <1>a, FailCounted DEF CallFails
<1>10. ASSUME NEW c \in Callers, NEW usage \in 0 .. MaxUsage \cup {None},
              NEW pong \in BOOLEAN, Answer(c, usage, pong)
       PROVE  HopInv'
  <2>1. call[c] \in Request
    BY DEF TypeOK
  <2>2. /\ pc[c] = "sent" /\ pc'[c] \in {"reply", "record"}
        /\ call'[c].kind = call[c].kind /\ call'[c].cleared = call[c].cleared
        /\ call'[c].pos = call[c].pos /\ call'[c].hops = call[c].hops
        /\ call'[c].maxHops = call[c].maxHops
        /\ \A d \in Callers \ {c} : pc'[d] = pc[d] /\ call'[d] = call[d]
    BY <1>10, <2>1 DEF Answer, Goto, TypeOK, Request
  <2>3. Counted(pc'[c], call'[c])
    BY <1>a, <2>2, SameCandidate
  <2> QED BY <2>2, <2>3, OneCounted
<1>11. ASSUME UNCHANGED <<pc, call>> PROVE HopInv'
  BY <1>11 DEF HopInv, Counted, Behind
<1>12. ASSUME NEW c \in Callers, NEW p \in Providers, HealthExpires(c, p) PROVE HopInv'
  BY <1>12, <1>11 DEF HealthExpires
<1>13. ASSUME NEW b \in Budgets, Rollover(b) PROVE HopInv'
  BY <1>13, <1>11 DEF Rollover
<1>14. CASE UNCHANGED vars
  BY <1>14, <1>11 DEF vars
<1> QED
  BY <1>1, <1>2, <1>3, <1>4, <1>5, <1>6, <1>7, <1>8, <1>9, <1>10, <1>12, <1>13,
     <1>14, CallReturnsCases
  DEF Next, Begin, Steps

(* Only the end of the loop, or a death, ends a request between two        *)
(* candidates.                                                             *)
LEMMA EndsByExhaustion ==
    ASSUME TypeOK, [Next]_vars, NEW c \in Callers, pc[c] = "next",
           pc'[c] = "idle", faults' = faults
    PROVE  Exhaust(c)
<1>1. ASSUME NEW d \in Callers, NEW here, NEW there, Goto(d, here, there),
             here # "next" \/ there # "idle"
      PROVE  FALSE
  BY <1>1 DEF Goto, TypeOK
<1>2. ASSUME NEW d \in Callers, NEW here, here # "next", Return(d, here) \/ Hop(d, here)
      PROVE  FALSE
  BY <1>1, <1>2 DEF Return, Hop
<1>3. ASSUME NEW d \in Callers, NEW here, here # "next", NEW code, Fail(d, here, code)
      PROVE  FALSE
  BY <1>2, <1>3 DEF Fail
<1>4. ASSUME NEW d \in Callers, Begin(d) PROVE FALSE
  BY <1>1, <1>4 DEF Begin, BeginRoute, BeginProbe
<1>5. ASSUME NEW d \in Callers, LedgerThrows(d) \/ Crash(d) PROVE FALSE
  BY <1>5 DEF LedgerThrows, Crash, TypeOK
<1>6. ASSUME NEW d \in Callers, Steps(d) PROVE Exhaust(d)
  <2>1. CASE CachedHealth(d) \/ \E ok \in BOOLEAN : HealthAnswers(d, ok)
    BY <1>1, <1>2, <2>1 DEF CachedHealth, HealthAnswers, UseHealth
  <2>2. CASE Deny(d)
    BY <1>3, <2>2 DEF Deny
  <2>3. CASE CallReturns(d)
    BY <1>1, <1>3, <2>3, CallReturnsCases DEF Answer, CallFails
  <2>4. CASE \/ SkipCandidate(d) \/ TryCandidate(d) \/ StartHealthProbe(d)
             \/ Send(d) \/ RecordUsage(d) \/ ProbePasses(d)
    BY <1>1, <2>4 DEF SkipCandidate, TryCandidate, StartHealthProbe, Send,
                      RecordUsage, ProbePasses
  <2>5. CASE HealthDenied(d) \/ RouteAnswers(d) \/ ProbeAvailable(d) \/ ProbeGarbled(d)
    BY <1>2, <2>5 DEF HealthDenied, RouteAnswers, ProbeAvailable, ProbeGarbled
  <2> QED BY <1>6, <2>1, <2>2, <2>3, <2>4, <2>5 DEF Steps
<1>7. ASSUME NEW d \in Callers, Exhaust(d) PROVE d = c
  BY <1>7 DEF Exhaust, Return, Goto, TypeOK
<1>8. ASSUME UNCHANGED pc PROVE FALSE
  BY <1>8
<1> QED BY <1>4, <1>5, <1>6, <1>7, <1>8 DEF Next, HealthExpires, Rollover, vars

(* A request whose loop ends without an answer has tried every candidate   *)
(* cleared for it, or as many as its hop budget allows, for any chain.     *)
THEOREM LastResort == Spec => GivesUpLast
<1>1. Init => HopInv
  BY NoRequestCounted DEF Init, HopInv
<1>2. ASSUME TypeOK, HopInv, [Next]_vars, NEW c \in Callers, pc[c] = "next",
             pc'[c] = "idle", faults' = faults
      PROVE  \/ Cardinality(Tried(c)) = call[c].maxHops
             \/ Tried(c) = Cleared(c)
  <2>1. /\ call[c] \in Request /\ call[c].kind = "route"
        /\ call[c].pos \in 1 .. Len(Chain) + 1 /\ Counted("next", call[c])
    BY <1>2 DEF TypeOK, Consistent, RouterPc, HopInv
  <2>2. Tried(c) = Behind(call[c])
    BY DEF Tried, Cleared, Behind
  <2>3. ~More(c)
    BY <1>2, EndsByExhaustion DEF Exhaust
  <2>4. Len(Chain) \in Nat /\ DOMAIN Chain = 1 .. Len(Chain)
    BY ChainAssumption
  <2>5. CASE call[c].pos \notin DOMAIN Chain
    <3>1. \A i \in DOMAIN Chain : i < call[c].pos
      BY <2>1, <2>4, <2>5
    <3> QED BY <3>1 DEF Tried, Cleared
  <2>6. CASE ~(call[c].hops < call[c].maxHops)
    <3>1. /\ call[c].hops = Cardinality(Behind(call[c]))
          /\ call[c].hops <= call[c].maxHops
      BY <2>1, BehindFinite DEF Counted
    <3>2. call[c].hops \in Nat /\ call[c].maxHops \in Nat
      BY <2>1 DEF Request
    <3> QED BY <2>2, <2>6, <3>1, <3>2
  <2> QED BY <2>3, <2>5, <2>6 DEF More
<1>3. TypeOK /\ HopInv /\ [Next]_vars =>
        [\A c \in Callers :
           pc[c] = "next" /\ pc'[c] = "idle" /\ faults' = faults
           => \/ Cardinality(Tried(c)) = call[c].maxHops
              \/ Tried(c) = Cleared(c)]_vars
  BY <1>2
<1> QED BY <1>1, <1>3, InitType, NextType, NextHops, PTL DEF Spec, GivesUpLast

-----------------------------------------------------------------------------
(* The descent of a request.                                               *)

(* The arithmetic of the measure.                                          *)
LEMMA CostRange ==
    ASSUME NEW n \in Nat, NEW p \in 1 .. n + 1, NEW s \in 1 .. 8
    PROVE  /\ s + 6 * (n + 1 - p) \in 0 .. 6 * n + 8
           /\ s + 6 * (n + 1 - p) >= 1
<1>1. PICK left \in 0 .. n : left = n + 1 - p
  OBVIOUS
<1>2. 6 * left \in 0 .. 6 * n
  OBVIOUS
<1> QED BY <1>1, <1>2

LEMMA CostOfHop ==
    ASSUME NEW n \in Nat, NEW p \in Nat, NEW s \in 3 .. 8
    PROVE  8 + 6 * (n + 1 - (p + 1)) < s + 6 * (n + 1 - p)
<1>1. PICK left \in Int : left = n + 1 - p
  OBVIOUS
<1>2. n + 1 - (p + 1) = left - 1
  BY <1>1
<1>3. 8 + 6 * (left - 1) < s + 6 * left
  BY <1>1
<1> QED BY <1>1, <1>2, <1>3

(* What a step costs, of a request that is fit for it.                     *)
LEMMA CostBounds ==
    ASSUME NEW step \in Pc, NEW r \in Request, Consistent(step, r)
    PROVE  /\ Cost(step, r) \in 0 .. 6 * Len(Chain) + 8
           /\ step # "idle" => Cost(step, r) >= 1
<1>1. Len(Chain) \in Nat /\ DOMAIN Chain = 1 .. Len(Chain)
  BY ChainAssumption
<1>2. r.pos \in Nat
  BY DEF Request
<1>3. CASE step = "idle"
  BY <1>1, <1>3 DEF Cost
<1>4. CASE step # "idle"
  <2>1. Stage[step] \in 1 .. 8
    BY <1>4 DEF Stage, Pc, ModelPc
  <2>2. CASE r.kind = "route"
    <3>1. r.pos \in 1 .. Len(Chain) + 1
      BY <1>1, <1>4, <2>2 DEF Consistent, Pc
    <3>2. Cost(step, r) = Stage[step] + 6 * (Len(Chain) + 1 - r.pos)
      BY <1>4, <2>2 DEF Cost
    <3> QED BY <1>1, <2>1, <3>1, <3>2, CostRange
  <2>3. CASE r.kind # "route"
    <3>1. Cost(step, r) = Stage[step] + 0
      BY <1>4, <2>3 DEF Cost
    <3> QED BY <1>1, <2>1, <3>1
  <2> QED BY <2>2, <2>3
<1> QED BY <1>3, <1>4

(* A request that settles has nothing left.                                *)
LEMMA ReturnFalls ==
    ASSUME TypeOK, NEW c \in Callers, pc[c] # "idle", pc'[c] = "idle"
    PROVE  Cost(pc'[c], call'[c]) < Cost(pc[c], call[c])
<1>1. pc[c] \in Pc /\ call[c] \in Request /\ Consistent(pc[c], call[c])
  BY DEF TypeOK
<1>2. Cost(pc'[c], call'[c]) = 0
  BY DEF Cost
<1>3. Cost(pc[c], call[c]) >= 1 /\ Cost(pc[c], call[c]) \in Nat
  BY <1>1, CostBounds, ChainAssumption
<1> QED BY <1>2, <1>3

(* A request that stays with its candidate is at a later stage.            *)
LEMMA StageFalls ==
    ASSUME TypeOK, NEW c \in Callers, pc'[c] \in Pc \ {"idle"},
           call'[c].kind = call[c].kind, call'[c].pos = call[c].pos,
           pc[c] # "idle", Stage[pc'[c]] < Stage[pc[c]]
    PROVE  Cost(pc'[c], call'[c]) < Cost(pc[c], call[c])
<1>1. Len(Chain) \in Nat /\ call[c].pos \in Nat
  BY ChainAssumption DEF TypeOK, Request
<1>2. Stage[pc[c]] \in Nat /\ Stage[pc'[c]] \in Nat
  BY DEF TypeOK, Stage, Pc, ModelPc
<1> DEFINE more == IF call[c].kind = "route" THEN 6 * (Len(Chain) + 1 - call[c].pos)
                   ELSE 0
<1>3. more \in Int
  BY <1>1
<1>4. Cost(pc[c], call[c]) = Stage[pc[c]] + more
      /\ Cost(pc'[c], call'[c]) = Stage[pc'[c]] + more
  BY DEF Cost
<1> HIDE DEF more
<1> QED BY <1>2, <1>3, <1>4

(* A request that goes on to the next candidate has one candidate less.    *)
LEMMA HopFalls ==
    ASSUME TypeOK, NEW c \in Callers, pc[c] \in Pc, pc'[c] = "next",
           pc[c] \notin {"idle", "reply", "status"},
           call[c].kind = "route", call'[c].kind = "route",
           call'[c].pos = call[c].pos + 1
    PROVE  Cost(pc'[c], call'[c]) < Cost(pc[c], call[c])
<1>1. Len(Chain) \in Nat /\ call[c].pos \in Nat
  BY ChainAssumption DEF TypeOK, Request
<1>2. Stage[pc[c]] \in 3 .. 8 /\ Stage[pc'[c]] = 8
  BY DEF Stage, Pc, ModelPc
<1>3. /\ Cost(pc[c], call[c]) = Stage[pc[c]] + 6 * (Len(Chain) + 1 - call[c].pos)
      /\ Cost(pc'[c], call'[c]) = Stage[pc'[c]] + 6 * (Len(Chain) + 1 - (call[c].pos + 1))
  BY DEF Cost
<1> QED BY <1>1, <1>2, <1>3, CostOfHop

(* Hop is such a step.                                                     *)
LEMMA HopDescends ==
    ASSUME TypeOK, NEW c \in Callers, NEW here, Hop(c, here),
           here \in {"health", "probing", "gate", "sent", "record"},
           call[c].kind = "route"
    PROVE  Cost(pc'[c], call'[c]) < Cost(pc[c], call[c])
<1>1. call[c] \in Request /\ pc[c] \in Pc
  BY DEF TypeOK
<1>2. /\ pc[c] = here /\ pc'[c] = "next"
      /\ call'[c].kind = "route" /\ call'[c].pos = call[c].pos + 1
  BY <1>1 DEF Hop, Goto, TypeOK, Request
<1> QED BY <1>1, <1>2, HopFalls

LEMMA FailDescends ==
    ASSUME TypeOK, NEW c \in Callers, NEW here, NEW code, Fail(c, here, code),
           here \in {"gate", "sent", "record"}
    PROVE  Cost(pc'[c], call'[c]) < Cost(pc[c], call[c])
  BY ReturnShape, ReturnFalls, HopDescends DEF Fail

LEMMA UseHealthDescends ==
    ASSUME TypeOK, NEW c \in Callers, NEW here, NEW ok, UseHealth(c, here, ok),
           here \in {"health", "probing"}
    PROVE  Cost(pc'[c], call'[c]) < Cost(pc[c], call[c])
<1>1. CASE ok
  <2>1. pc[c] = here /\ pc'[c] = "gate" /\ call'[c] = call[c]
    BY <1>1 DEF UseHealth, Goto, TypeOK
  <2>2. Stage[pc'[c]] < Stage[pc[c]]
    BY <2>1 DEF Stage
  <2> QED BY <2>1, <2>2, StageFalls DEF Pc, ModelPc
<1>2. CASE ~ok
  <2>1. Hop(c, here) /\ pc[c] = here
    BY <1>2 DEF UseHealth, Hop, Goto
  <2>2. call[c].kind = "route"
    BY <2>1 DEF TypeOK, Consistent, RouterPc
  <2> QED BY <2>1, <2>2, HopDescends
<1> QED BY <1>1, <1>2

LEMMA GotoDescends ==
    ASSUME TypeOK, NEW c \in Callers, NEW here, NEW there, Goto(c, here, there),
           call' = call, here \in Pc \ {"idle"}, there \in Pc \ {"idle"},
           Stage[there] < Stage[here]
    PROVE  Cost(pc'[c], call'[c]) < Cost(pc[c], call[c])
  BY GotoShape, StageFalls

(* Every step of a caller that has a request costs it something.           *)
LEMMA StepsDescend ==
    ASSUME TypeOK, NEW c \in Callers, Steps(c)
    PROVE  /\ Cost(pc'[c], call'[c]) < Cost(pc[c], call[c])
           /\ \A d \in Callers \ {c} : pc'[d] = pc[d] /\ call'[d] = call[d]
<1> DEFINE Descends ==
      /\ Cost(pc'[c], call'[c]) < Cost(pc[c], call[c])
      /\ \A d \in Callers \ {c} : pc'[d] = pc[d] /\ call'[d] = call[d]
<1>0. call[c] \in Request /\ pc[c] \in Pc
  BY DEF TypeOK
<1>1. ASSUME SkipCandidate(c) PROVE Descends
  <2>1. /\ pc[c] = "next" /\ pc'[c] = "next"
        /\ call'[c].kind = call[c].kind /\ call'[c].pos = call[c].pos + 1
        /\ \A d \in Callers \ {c} : pc'[d] = pc[d] /\ call'[d] = call[d]
    BY <1>0, <1>1 DEF SkipCandidate, Goto, TypeOK, Request
  <2>2. call[c].kind = "route"
    BY <2>1 DEF TypeOK, Consistent, RouterPc
  <2> QED BY <1>0, <2>1, <2>2, HopFalls
<1>2. ASSUME TryCandidate(c) PROVE Descends
  <2>1. /\ pc[c] = "next" /\ pc'[c] = "health"
        /\ call'[c].kind = call[c].kind /\ call'[c].pos = call[c].pos
        /\ \A d \in Callers \ {c} : pc'[d] = pc[d] /\ call'[d] = call[d]
    BY <1>0, <1>2 DEF TryCandidate, Goto, TypeOK, Request
  <2>2. Stage[pc'[c]] < Stage[pc[c]]
    BY <2>1 DEF Stage
  <2> QED BY <2>1, <2>2, StageFalls DEF Pc, ModelPc
<1>3. ASSUME NEW usage \in 0 .. MaxUsage \cup {None}, NEW pong \in BOOLEAN,
             Answer(c, usage, pong)
      PROVE  Descends
  <2>1. /\ pc[c] = "sent" /\ pc'[c] \in {"record", "reply"}
        /\ call'[c].kind = call[c].kind /\ call'[c].pos = call[c].pos
        /\ \A d \in Callers \ {c} : pc'[d] = pc[d] /\ call'[d] = call[d]
    BY <1>0, <1>3 DEF Answer, Goto, TypeOK, Request
  <2>2. Stage[pc'[c]] < Stage[pc[c]]
    BY <2>1 DEF Stage
  <2> QED BY <2>1, <2>2, StageFalls DEF Pc, ModelPc
<1>4. ASSUME NEW here \in Pc \ {"idle"}, Return(c, here) PROVE Descends
  BY <1>4, ReturnShape, ReturnFalls
<1>5. ASSUME Exhaust(c) \/ HealthDenied(c) \/ RouteAnswers(c)
             \/ ProbeAvailable(c) \/ ProbeGarbled(c)
      PROVE  Descends
  BY <1>4, <1>5
  DEF Exhaust, HealthDenied, RouteAnswers, ProbeAvailable, ProbeGarbled, Pc, ModelPc
<1>6. ASSUME StartHealthProbe(c) \/ Send(c) \/ RecordUsage(c) \/ ProbePasses(c)
      PROVE  Descends
  <2>1. /\ Stage["probing"] < Stage["health"] /\ Stage["sent"] < Stage["gate"]
        /\ Stage["reply"] < Stage["record"] /\ Stage["status"] < Stage["reply"]
    BY DEF Stage
  <2> QED
    BY <1>6, <2>1, GotoDescends, GotoShape
    DEF StartHealthProbe, Send, RecordUsage, ProbePasses, Pc, ModelPc
<1>7. ASSUME NEW ok, NEW here \in {"health", "probing"}, UseHealth(c, here, ok)
      PROVE  Descends
  BY <1>7, UseHealthShape, UseHealthDescends
<1>8. ASSUME CachedHealth(c) \/ \E ok \in BOOLEAN : HealthAnswers(c, ok)
      PROVE  Descends
  BY <1>7, <1>8 DEF CachedHealth, HealthAnswers
<1>9. ASSUME NEW here \in {"gate", "sent", "record"}, NEW code, Fail(c, here, code)
      PROVE  Descends
  BY <1>9, FailShape, FailDescends
<1>10. ASSUME Deny(c) \/ CallReturns(c) PROVE Descends
  <2>1. CASE Deny(c)
    BY <1>9, <2>1 DEF Deny
  <2>2. CASE CallReturns(c)
    BY <1>3, <1>9, <2>2, CallReturnsCases DEF CallFails
  <2> QED BY <1>10, <2>1, <2>2
<1> QED
  BY <1>1, <1>2, <1>5, <1>6, <1>8, <1>10 DEF Steps

(* A request starts with no more steps than its chain allows and every     *)
(* step of it lowers them, for any chain, any number of callers and any    *)
(* replies: no request fails over for ever.                                *)
THEOREM RequestsShrinkAlways == Spec => RequestsShrink
<1>1. ASSUME TypeOK, [Next]_vars, NEW c \in Callers, pc[c] # "idle",
             pc'[c] # pc[c] \/ call'[c] # call[c]
      PROVE  Cost(pc'[c], call'[c]) < Cost(pc[c], call[c])
  <2>1. ASSUME NEW d \in Callers, Begin(d) PROVE FALSE
    BY <1>1, <2>1 DEF Begin, BeginRoute, BeginProbe, Goto, TypeOK
  <2>2. ASSUME NEW d \in Callers, Steps(d)
        PROVE  Cost(pc'[c], call'[c]) < Cost(pc[c], call[c])
    BY <1>1, <2>2, StepsDescend
  <2>3. ASSUME NEW d \in Callers, LedgerThrows(d)
        PROVE  Cost(pc'[c], call'[c]) < Cost(pc[c], call[c])
    <3>1. pc[d] \in {"gate", "record"} /\ Fail(d, pc[d], "SERVER")
      BY <2>3 DEF LedgerThrows
    <3> QED BY <1>1, <3>1, FailShape, FailDescends
  <2>4. ASSUME NEW d \in Callers, Crash(d)
        PROVE  Cost(pc'[c], call'[c]) < Cost(pc[c], call[c])
    <3>1. Return(d, pc[d]) /\ pc[d] # "idle"
      BY <2>4 DEF Crash
    <3> QED BY <1>1, <3>1, ReturnShape, ReturnFalls
  <2>5. ASSUME UNCHANGED <<pc, call>> PROVE FALSE
    BY <1>1, <2>5
  <2> QED
    BY <1>1, <2>1, <2>2, <2>3, <2>4, <2>5 DEF Next, HealthExpires, Rollover, vars
<1>2. ASSUME TypeOK', NEW c \in Callers
      PROVE  Cost(pc'[c], call'[c]) \in 0 .. 6 * Len(Chain) + 8
  BY <1>2, CostBounds DEF TypeOK
<1>3. TypeOK /\ TypeOK' /\ [Next]_vars =>
        [\A c \in Callers :
           /\ StepsLeft(c)' \in 0 .. 6 * Len(Chain) + 8
           /\ pc[c] # "idle" /\ (pc'[c] # pc[c] \/ call'[c] # call[c])
              => StepsLeft(c)' < StepsLeft(c)]_vars
  BY <1>1, <1>2 DEF StepsLeft
<1> QED BY <1>3, TypeCorrect, PTL DEF Spec, RequestsShrink
=============================================================================
