---------------------------- MODULE AgentProofs ----------------------------
(***************************************************************************)
(* Theorems about the policy kernel, for every request, grant and context, *)
(* about agent runs, for any processes, messages and limits, and about     *)
(* what a run is given: the workspace's index and pack, the route to a     *)
(* model and the vote of a debate, for any tree, registry and answers.     *)
(***************************************************************************)
EXTENDS AgentSafety, ContextSafety, FiniteSetTheorems, TLAPS

-----------------------------------------------------------------------------
(* The policy kernel.                                                      *)

(* What is denied stays denied when a human approves, whatever the request *)
(* and the grant: an approval only turns "approval" into something else.   *)
THEOREM ApprovalLiftsOnlyGates ==
    ASSUME NEW request \in ToolRequest, NEW grant \in AgentGrant,
           NEW ctx \in PolicyContext
    PROVE  LET approved == [request EXCEPT !.approved = TRUE]
           IN  /\ Evaluate(request, grant, ctx) = "deny"
                    => Evaluate(approved, grant, ctx) = "deny"
               /\ Evaluate(request, grant, ctx) = "allow"
                    => Evaluate(approved, grant, ctx) = "allow"
               /\ Evaluate(approved, grant, ctx) # "approval"
<1> DEFINE approved == [request EXCEPT !.approved = TRUE]
<1>1. /\ approved.approved
      /\ approved.tool = request.tool /\ approved.risk = request.risk
      /\ approved.classification = request.classification
      /\ approved.neverAllow = request.neverAllow
      /\ approved.fsScope = request.fsScope
      /\ approved.fsReadScope = request.fsReadScope
      /\ approved.networkHost = request.networkHost
  BY DEF ToolRequest
<1> HIDE DEF approved
<1>2. HardDeny(approved, grant, ctx) <=> HardDeny(request, grant, ctx)
  BY <1>1 DEF HardDeny
<1>3. TerminalDeny(approved, grant) <=> TerminalDeny(request, grant)
  BY <1>1 DEF TerminalDeny
<1>4. ~NeedsApproval(approved, grant)
  BY <1>1 DEF NeedsApproval
<1>5. /\ Evaluate(request, grant, ctx) = "deny"
           => Evaluate(approved, grant, ctx) = "deny"
      /\ Evaluate(request, grant, ctx) = "allow"
           => Evaluate(approved, grant, ctx) = "allow"
      /\ Evaluate(approved, grant, ctx) # "approval"
  BY <1>2, <1>3, <1>4 DEF Evaluate
<1> QED BY <1>5 DEF approved

(* A wider grant and a higher clearance are only ever more permissive: a   *)
(* hard denial under a grant is one under every narrower grant.            *)
THEOREM NarrowerDeniesMore ==
    ASSUME NEW request \in ToolRequest, NEW wide \in AgentGrant,
           NEW narrow \in AgentGrant, NEW ctx \in PolicyContext,
           narrow.toolsAllow \subseteq wide.toolsAllow,
           wide.toolsDeny \subseteq narrow.toolsDeny,
           ScopeCovers(wide.fsWrite, narrow.fsWrite),
           ScopeCovers(wide.fsRead, narrow.fsRead),
           ClassificationAllowed(narrow.maxClassification, wide.maxClassification),
           narrow.networkAllow \subseteq wide.networkAllow,
           wide.networkDefault = "deny" => narrow.networkDefault = "deny"
    PROVE  HardDeny(request, wide, ctx) => HardDeny(request, narrow, ctx)
<1>1. \A a, b, c \in FsScope :
        ScopeCovers(a, b) /\ ScopeCovers(b, c) => ScopeCovers(a, c)
  BY DEF FsScope, ScopeCovers, ScopeOrder
<1>2. \A a, b, c \in Classification :
        ClassificationAllowed(a, b) /\ ClassificationAllowed(b, c)
          => ClassificationAllowed(a, c)
  BY DEF Classification, ClassificationAllowed, ClassificationOrder
<1>3. /\ {request.fsScope, request.fsReadScope} \subseteq FsScope
      /\ {wide.fsWrite, wide.fsRead, narrow.fsWrite, narrow.fsRead} \subseteq FsScope
      /\ {request.classification, wide.maxClassification,
          narrow.maxClassification} \subseteq Classification
  BY DEF ToolRequest, AgentGrant
<1>4. ~ClassificationAllowed(request.classification, wide.maxClassification)
        => ~ClassificationAllowed(request.classification, narrow.maxClassification)
  BY <1>2, <1>3
<1>5. ~ScopeCovers(wide.fsWrite, request.fsScope)
        => ~ScopeCovers(narrow.fsWrite, request.fsScope)
  BY <1>1, <1>3
<1>6. ~ScopeCovers(wide.fsRead, request.fsReadScope)
        => ~ScopeCovers(narrow.fsRead, request.fsReadScope)
  BY <1>1, <1>3
<1> QED BY <1>4, <1>5, <1>6 DEF HardDeny

-----------------------------------------------------------------------------
(* Type correctness.                                                       *)
LEMMA NoRunType == NoRun \in Run
  BY AgentAssumption DEF NoRun, Run, Phase, Status

(* A reply to the call at hand keeps the run well typed, and so does what  *)
(* is set besides.                                                         *)
LEMMA RepliedType ==
    ASSUME NEW r \in Run, r.todo # <<>>, NEW refused \in BOOLEAN
    PROVE  /\ Head(r.todo) \in Shape
           /\ Replied(r, refused) \in Run
           /\ Replied(r, refused).toolCalls = r.toolCalls + 1
           /\ Replied(r, refused).replies = r.replies + 1
           /\ Replied(r, refused).denials =
                IF refused THEN r.denials + 1 ELSE r.denials
           /\ Replied(r, refused).status = r.status
           /\ Replied(r, refused).ran = r.ran
           /\ Replied(r, refused).phase = r.phase
           /\ Replied(r, refused).approved = r.approved
<1> DEFINE s == Replied(r, refused)
<1>1. r.todo \in Seq(Shape) /\ Tail(r.todo) \in Seq(Shape)
      /\ Head(r.todo) \in Shape
  BY DEF Run
<1>2. /\ r.toolCalls + 1 \in Nat /\ r.replies + 1 \in Nat
      /\ (IF refused THEN r.denials + 1 ELSE r.denials) \in Nat
  BY DEF Run
<1>3. s \in Run
  BY <1>1, <1>2 DEF Replied, Run
<1> QED BY <1>1, <1>3 DEF Replied, Run

(* A step of one process to a run that is well typed.                      *)
LEMMA StepType ==
    ASSUME TypeOK, NEW p \in Procs, NEW there \in Pc, NEW r \in Run,
           there = "testing" => r.todo # <<>>,
           pc' = [pc EXCEPT ![p] = there], run' = [run EXCEPT ![p] = r]
    PROVE  /\ pc' \in [Procs -> Pc]
           /\ run' \in [Procs -> Run]
           /\ \A q \in Procs : pc'[q] = "testing" => run'[q].todo # <<>>
  BY DEF TypeOK

LEMMA SettleType ==
    ASSUME TypeOK, NEW p \in Procs, NEW here, NEW status \in Status,
           Settle(p, here, status), UNCHANGED <<shared, runs, faults>>
    PROVE  TypeOK'
<1>1. run[p] \in Run /\ [run[p] EXCEPT !.status = status] \in Run
  BY DEF TypeOK, Run
<1>2. run' = [run EXCEPT ![p] = [run[p] EXCEPT !.status = status]]
  BY DEF Settle
<1> QED BY <1>1, <1>2, StepType DEF Settle, Goto, TypeOK, shared, Pc

(* A table takes a row.                                                    *)
LEMMA TrailType ==
    ASSUME TypeOK, NEW store \in Store,
           trail' = [trail EXCEPT ![store] = trail[store] + 1]
    PROVE  trail' \in [Store -> Nat]
<1>1. trail \in [Store -> Nat] /\ trail[store] + 1 \in Nat
  BY DEF TypeOK
<1> QED BY <1>1

LEMMA InitType == Init => TypeOK
  BY AgentAssumption, NoRunType DEF Init, TypeOK, Pc, Workspace

LEMMA NextType == TypeOK /\ [Next]_vars => TypeOK'
<1> SUFFICES ASSUME TypeOK, [Next]_vars PROVE TypeOK'
  OBVIOUS
<1>1. ASSUME NEW p \in Procs, NEW phase \in Phase, NEW approved \in BOOLEAN,
             BeginRun(p, phase, approved)
      PROVE  TypeOK'
  <2>1. [NoRun EXCEPT !.phase = phase,
           !.approved = approved /\ phase # "investigate",
           !.jail = IF workspace.row \in {"active", "removing"}
                    THEN "worktree" ELSE "project"] \in Run
    BY NoRunType DEF Run
  <2>2. runs' \in 0 .. MaxRuns
    BY <1>1, AgentAssumption DEF BeginRun, TypeOK
  <2> QED BY <1>1, <2>1, <2>2, StepType DEF BeginRun, Goto, TypeOK, shared, Pc
<1>2. ASSUME NEW p \in Procs, NEW ok \in BOOLEAN, TestsFinish(p, ok)
      PROVE  TypeOK'
  <2>1. Replied(run[p], ~ok) \in Run
    BY <1>2, RepliedType DEF TestsFinish, Goto, TypeOK
  <2> QED BY <1>2, <2>1, StepType DEF TestsFinish, Goto, TypeOK, shared, Pc
<1>3. ASSUME NEW p \in Procs, Steps(p) PROVE TypeOK'
  <2>1. CASE ModelFails(p) \/ ModelConcludes(p) \/ Exhaust(p)
    BY <2>1, SettleType DEF ModelFails, ModelConcludes, Exhaust, Status
  <2>2. ASSUME NEW calls \in Messages, ModelCalls(p, calls) PROVE TypeOK'
    <3>1. [run[p] EXCEPT !.todo = calls] \in Run
      BY AgentAssumption DEF TypeOK, Run
    <3>2. run' = [run EXCEPT ![p] = [run[p] EXCEPT !.todo = calls]]
      BY <2>2 DEF ModelCalls
    <3> QED BY <2>2, <3>1, <3>2, StepType DEF ModelCalls, Goto, TypeOK, shared, Pc
  <2>3. CASE NextRound(p)
    <3>a. run[p].round \in 1 .. MaxIterations /\ MaxIterations \in Nat
      BY AgentAssumption DEF TypeOK, Run
    <3>1. run[p].round + 1 \in 1 .. MaxIterations
      BY <2>3, <3>a DEF NextRound
    <3>2. [run[p] EXCEPT !.round = run[p].round + 1] \in Run
      BY <3>1 DEF TypeOK, Run
    <3>3. run' = [run EXCEPT ![p] = [run[p] EXCEPT !.round = run[p].round + 1]]
      BY <2>3 DEF NextRound
    <3> QED BY <2>3, <3>2, <3>3, StepType DEF NextRound, Goto, TypeOK, shared, Pc
  <2>4. CASE RefuseCall(p)
    <3>1. Replied(run[p], TRUE) \in Run
      BY <2>4, RepliedType DEF RefuseCall, HasCall, TypeOK
    <3>2. pc' = [pc EXCEPT ![p] = "tools"]
      BY <2>4 DEF RefuseCall, HasCall, TypeOK
    <3> QED BY <2>4, <3>1, <3>2, StepType DEF RefuseCall, TypeOK, shared, Pc
  <2>5. CASE GateCall(p)
    <3>1. Replied(run[p], FALSE) \in Run
      BY <2>5, RepliedType DEF GateCall, HasCall, TypeOK
    <3>a. <<>> \in Seq(Shape) /\ "awaiting-approval" \in Status
      BY DEF Status
    <3>2. [Replied(run[p], FALSE) EXCEPT !.todo = <<>>,
             !.status = "awaiting-approval"] \in Run
      BY <3>1, <3>a DEF Run
    <3> QED BY <2>5, <3>2, StepType DEF GateCall, Goto, TypeOK, shared, Pc
  <2>6. ASSUME NEW ok \in BOOLEAN, RunTool(p, ok) PROVE TypeOK'
    <3>1. Replied(run[p], ~ok) \in Run /\ Call(p) \in Shape
      BY <2>6, RepliedType DEF RunTool, HasCall, TypeOK, Call
    <3>2. [Replied(run[p], ~ok) EXCEPT !.ran = Call(p)] \in Run
      BY <3>1 DEF Run
    <3>3. pc' = [pc EXCEPT ![p] = "tools"]
      BY <2>6 DEF RunTool, HasCall, TypeOK
    <3> QED BY <2>6, <3>2, <3>3, StepType DEF RunTool, TypeOK, shared, Pc
  <2>7. CASE StartTests(p)
    <3>1. Call(p) \in Shape
      BY <2>7, RepliedType DEF StartTests, HasCall, TypeOK, Call
    <3>2. [run[p] EXCEPT !.ran = Call(p)] \in Run
          /\ [run[p] EXCEPT !.ran = Call(p)].todo # <<>>
      BY <2>7, <3>1 DEF TypeOK, Run, StartTests, HasCall
    <3>3. run' = [run EXCEPT ![p] = [run[p] EXCEPT !.ran = Call(p)]]
      BY <2>7 DEF StartTests
    <3> QED BY <2>7, <3>2, <3>3, StepType DEF StartTests, Goto, TypeOK, shared, Pc
  <2>8. CASE TestsTimeOut(p)
    <3>1. Replied(run[p], TRUE) \in Run
      BY <2>8, RepliedType DEF TestsTimeOut, Goto, TypeOK
    <3>2. late' \in Nat
      BY <2>8 DEF TestsTimeOut, TypeOK
    <3> QED BY <2>8, <3>1, <3>2, StepType DEF TestsTimeOut, Goto, TypeOK, Pc
  <2>9. CASE SaveRun(p)
    <3>1. trail' \in [Store -> Nat]
      BY <2>9, TrailType DEF SaveRun, Store
    <3> QED BY <2>9, <3>1 DEF SaveRun, Goto, TypeOK, Pc
  <2>10. CASE WriteArtifacts(p)
    <3>1. workspace' \in Workspace
      BY <2>10 DEF WriteArtifacts, TypeOK, Workspace
    <3> QED BY <2>10, <3>1 DEF WriteArtifacts, Goto, TypeOK, Pc
  <2>11. CASE RecordRun(p)
    <3>1. trail' \in [Store -> Nat]
      BY <2>11, TrailType DEF RecordRun, Store
    <3> QED BY <2>11, <3>1 DEF RecordRun, Goto, TypeOK, Pc
  <2>12. CASE AppendAudit(p)
    <3>1. trail' \in [Store -> Nat]
      BY <2>12, TrailType DEF AppendAudit, Store
    <3> QED BY <2>12, <3>1, NoRunType, StepType DEF AppendAudit, Goto, TypeOK, Pc
  <2> QED BY <1>3, <2>1, <2>2, <2>3, <2>4, <2>5, <2>6, <2>7, <2>8, <2>9, <2>10,
             <2>11, <2>12 DEF Steps
<1>4. ASSUME NEW p \in Procs, Crash(p) PROVE TypeOK'
  <2>1. faults' \in 0 .. MaxFaults /\ late' \in Nat
    BY <1>4, AgentAssumption DEF Crash, TypeOK
  <2> QED BY <1>4, <2>1, NoRunType, StepType DEF Crash, Goto, TypeOK, Pc
<1>5. CASE PrepareWorkspace \/ RemoveTree \/ MarkRemoved
  <2>1. workspace \in Workspace
    BY DEF TypeOK
  <2>2. CASE PrepareWorkspace \/ RemoveTree
    <3>a. /\ [row |-> "active", directory |-> TRUE] \in Workspace
          /\ [row |-> "removing", directory |-> FALSE] \in Workspace
      BY DEF Workspace
    <3>1. workspace' \in Workspace
      BY <2>2, <3>a DEF PrepareWorkspace, RemoveTree
    <3> QED BY <2>2, <3>1 DEF PrepareWorkspace, RemoveTree, TypeOK
  <2>3. CASE MarkRemoved
    <3>1. workspace' \in Workspace
      BY <2>1, <2>3 DEF MarkRemoved, Workspace
    <3> QED BY <2>3, <3>1 DEF MarkRemoved, TypeOK
  <2> QED BY <1>5, <2>2, <2>3
<1>6. CASE LateTestsEnd
  BY <1>6 DEF LateTestsEnd, TypeOK
<1>7. CASE UNCHANGED vars
  BY <1>7 DEF vars, shared, TypeOK
<1> QED BY <1>1, <1>2, <1>3, <1>4, <1>5, <1>6, <1>7 DEF Next

(* Every reachable state is well typed; no run takes more rounds than it   *)
(* was given.                                                              *)
THEOREM TypeCorrect == Spec => []TypeOK
  BY InitType, NextType, PTL DEF Spec

-----------------------------------------------------------------------------
(* What was executed last was permitted.                                   *)

(* shape may be executed by a run of phase, approved or not, on a task of  *)
(* the classification level.                                               *)
Permitted(shape, phase, approved, level) ==
    /\ shape \in {"overwrite", "edit", "mutate"} => approved
    /\ shape \notin {"outside", "destroy", "untestable", "unknown", "malformed"}
    /\ phase = "investigate" => shape = "read"
    /\ shape = "tests" => phase = "implement"
    /\ ClassificationAllowed(Grant(phase).maxClassification, level)

PermittedInv ==
    \A p \in Procs :
        run[p].ran # None =>
            Permitted(run[p].ran, run[p].phase, run[p].approved, clearance)

(* The funnel lets only permitted calls through.                           *)
LEMMA FunnelPermits ==
    ASSUME NEW p \in Procs, run[p] \in Run, NEW shape \in Shape,
           Funnel(p, shape) = None
    PROVE  Permitted(shape, run[p].phase, run[p].approved, clearance)
<1> DEFINE request == Request(p, shape)
           grant == Grant(run[p].phase)
<1>a. /\ "TOOL_NOT_FOUND" # None /\ "VALIDATION_ERROR" # None
      /\ "JAIL_ESCAPE" # None /\ "POLICY_DENIED" # None
      /\ "APPROVAL_REQUIRED" # None
  BY AgentAssumption DEF FailureCode
<1>1. /\ ToolOf(shape) \in Registry(run[p].phase)
      /\ shape # "malformed"
      /\ Evaluate(request, grant, Context) \notin {"deny", "approval"}
  BY <1>a DEF Funnel, Evaluate
<1>2. /\ ~HardDeny(request, grant, Context)
      /\ ~NeedsApproval(request, grant)
  BY <1>1 DEF Evaluate
<1>3. /\ Dangerous(shape) => run[p].approved
      /\ ~NeverAllow(shape)
      /\ shape # "read" => ScopeCovers(grant.fsWrite, "workspace")
      /\ ClassificationAllowed(grant.maxClassification, clearance)
  BY <1>2 DEF HardDeny, NeedsApproval, Request, Context
<1>4. run[p].phase = "investigate" => ~ScopeCovers(grant.fsWrite, "workspace")
  BY DEF Grant, BaseGrant, ScopeCovers, ScopeOrder
<1>5. shape # "unknown"
  BY <1>1 DEF ToolOf, Registry
<1>6. shape = "tests" => run[p].phase = "implement"
  BY <1>1 DEF ToolOf, Registry
<1> QED BY <1>1, <1>3, <1>4, <1>5, <1>6 DEF Permitted, Dangerous, NeverAllow

(* A step of process p, to the run r.                                      *)
LEMMA StepPermitted ==
    ASSUME TypeOK, PermittedInv, clearance' = clearance, NEW p \in Procs, NEW r,
           run' = [run EXCEPT ![p] = r],
           \/ r.ran = None
           \/ Permitted(r.ran, r.phase, r.approved, clearance)
           \/ /\ r.ran = run[p].ran
              /\ r.phase = run[p].phase /\ r.approved = run[p].approved
    PROVE  PermittedInv'
<1> SUFFICES ASSUME NEW q \in Procs, run'[q].ran # None
             PROVE  Permitted(run'[q].ran, run'[q].phase, run'[q].approved,
                              clearance)
  BY DEF PermittedInv
<1>1. CASE q = p
  <2>1. run'[q] = r
    BY <1>1 DEF TypeOK
  <2> QED BY <1>1, <2>1 DEF PermittedInv
<1>2. CASE q # p
  <2>1. run'[q] = run[q]
    BY <1>2 DEF TypeOK
  <2> QED BY <1>2, <2>1 DEF PermittedInv
<1> QED BY <1>1, <1>2

LEMMA NextPermitted == TypeOK /\ PermittedInv /\ [Next]_vars => PermittedInv'
<1> SUFFICES ASSUME TypeOK, PermittedInv, [Next]_vars PROVE PermittedInv'
  OBVIOUS
<1>a. \A p \in Procs : run[p] \in Run
  BY DEF TypeOK
<1>b. NoRun.ran = None
  BY DEF NoRun
<1>1. ASSUME NEW p \in Procs, NEW phase \in Phase, NEW approved \in BOOLEAN,
             BeginRun(p, phase, approved)
      PROVE  PermittedInv'
  <2> DEFINE r == [NoRun EXCEPT !.phase = phase,
                     !.approved = approved /\ phase # "investigate",
                     !.jail = IF workspace.row \in {"active", "removing"}
                              THEN "worktree" ELSE "project"]
  <2>1. r.ran = None
    BY DEF NoRun
  <2>2. run' = [run EXCEPT ![p] = r] /\ clearance' = clearance
    BY <1>1 DEF BeginRun, shared
  <2> HIDE DEF r
  <2> QED BY <2>1, <2>2, StepPermitted
<1>2. ASSUME NEW p \in Procs, NEW ok \in BOOLEAN, TestsFinish(p, ok)
      PROVE  PermittedInv'
  <2>1. run[p].todo # <<>>
    BY <1>2 DEF TestsFinish, Goto, TypeOK
  <2> QED BY <1>2, <1>a, <2>1, RepliedType, StepPermitted DEF TestsFinish, shared
<1>3. ASSUME NEW p \in Procs, Steps(p) PROVE PermittedInv'
  <2>1. ASSUME NEW here, NEW status, Settle(p, here, status),
               clearance' = clearance
        PROVE  PermittedInv'
    <3>1. run' = [run EXCEPT ![p] = [run[p] EXCEPT !.status = status]]
      BY <2>1 DEF Settle
    <3>2. LET r == [run[p] EXCEPT !.status = status]
          IN  r.ran = run[p].ran /\ r.phase = run[p].phase
              /\ r.approved = run[p].approved
      BY <1>a DEF Run
    <3> QED BY <2>1, <3>1, <3>2, StepPermitted
  <2>2. CASE ModelFails(p) \/ ModelConcludes(p) \/ Exhaust(p)
    BY <2>1, <2>2 DEF ModelFails, ModelConcludes, Exhaust, shared
  <2>3. ASSUME NEW calls \in Messages, ModelCalls(p, calls) PROVE PermittedInv'
    <3>1. run' = [run EXCEPT ![p] = [run[p] EXCEPT !.todo = calls]]
      BY <2>3 DEF ModelCalls
    <3>2. LET r == [run[p] EXCEPT !.todo = calls]
          IN  r.ran = run[p].ran /\ r.phase = run[p].phase
              /\ r.approved = run[p].approved
      BY <1>a DEF Run
    <3> QED BY <2>3, <3>1, <3>2, StepPermitted DEF ModelCalls, shared
  <2>4. CASE NextRound(p)
    <3>1. run' = [run EXCEPT ![p] = [run[p] EXCEPT !.round = run[p].round + 1]]
      BY <2>4 DEF NextRound
    <3>2. LET r == [run[p] EXCEPT !.round = run[p].round + 1]
          IN  r.ran = run[p].ran /\ r.phase = run[p].phase
              /\ r.approved = run[p].approved
      BY <1>a DEF Run
    <3> QED BY <2>4, <3>1, <3>2, StepPermitted DEF NextRound, shared
  <2>5. CASE RefuseCall(p)
    BY <2>5, <1>a, RepliedType, StepPermitted DEF RefuseCall, HasCall, shared
  <2>6. CASE GateCall(p)
    <3> DEFINE r == [Replied(run[p], FALSE) EXCEPT !.todo = <<>>,
                       !.status = "awaiting-approval"]
    <3>1. r.ran = run[p].ran /\ r.phase = run[p].phase
          /\ r.approved = run[p].approved
      <4>1. LET s == Replied(run[p], FALSE)
            IN  s \in Run /\ s.ran = run[p].ran /\ s.phase = run[p].phase
                /\ s.approved = run[p].approved
        BY <2>6, <1>a, RepliedType DEF GateCall, HasCall
      <4> QED BY <4>1 DEF Run
    <3>2. run' = [run EXCEPT ![p] = r] /\ clearance' = clearance
      BY <2>6 DEF GateCall, shared
    <3> HIDE DEF r
    <3> QED BY <3>1, <3>2, StepPermitted
  <2>7. ASSUME NEW ok \in BOOLEAN, RunTool(p, ok) PROVE PermittedInv'
    <3> DEFINE r == [Replied(run[p], ~ok) EXCEPT !.ran = Call(p)]
    <3>1. r.ran = Call(p) /\ r.phase = run[p].phase
          /\ r.approved = run[p].approved /\ Call(p) \in Shape
      <4>1. LET s == Replied(run[p], ~ok)
            IN  s \in Run /\ s.phase = run[p].phase
                /\ s.approved = run[p].approved /\ Call(p) \in Shape
        BY <2>7, <1>a, RepliedType DEF RunTool, HasCall, Call
      <4> QED BY <4>1 DEF Run
    <3>2. run' = [run EXCEPT ![p] = r] /\ clearance' = clearance
      BY <2>7 DEF RunTool, shared
    <3>3. Permitted(Call(p), run[p].phase, run[p].approved, clearance)
      BY <2>7, <1>a, <3>1, FunnelPermits DEF RunTool
    <3> HIDE DEF r
    <3> QED BY <3>1, <3>2, <3>3, StepPermitted
  <2>8. CASE StartTests(p)
    <3> DEFINE r == [run[p] EXCEPT !.ran = Call(p)]
    <3>1. r.ran = Call(p) /\ r.phase = run[p].phase
          /\ r.approved = run[p].approved /\ Call(p) \in Shape
      BY <2>8, <1>a, RepliedType DEF StartTests, HasCall, Call, Run
    <3>2. run' = [run EXCEPT ![p] = r] /\ clearance' = clearance
      BY <2>8 DEF StartTests, shared
    <3>3. Permitted(Call(p), run[p].phase, run[p].approved, clearance)
      BY <2>8, <1>a, <3>1, FunnelPermits DEF StartTests
    <3> HIDE DEF r
    <3> QED BY <3>1, <3>2, <3>3, StepPermitted
  <2>9. CASE TestsTimeOut(p)
    <3>1. run[p].todo # <<>>
      BY <2>9 DEF TestsTimeOut, Goto, TypeOK
    <3> QED BY <2>9, <1>a, <3>1, RepliedType, StepPermitted DEF TestsTimeOut
  <2>10. CASE SaveRun(p) \/ WriteArtifacts(p) \/ RecordRun(p)
    BY <2>10 DEF SaveRun, WriteArtifacts, RecordRun, PermittedInv, Permitted
  <2>11. CASE AppendAudit(p)
    BY <2>11, <1>b, StepPermitted DEF AppendAudit
  <2> QED BY <1>3, <2>2, <2>3, <2>4, <2>5, <2>6, <2>7, <2>8, <2>9, <2>10, <2>11
          DEF Steps
<1>4. ASSUME NEW p \in Procs, Crash(p) PROVE PermittedInv'
  BY <1>4, <1>b, StepPermitted DEF Crash
<1>5. CASE PrepareWorkspace \/ RemoveTree \/ MarkRemoved \/ LateTestsEnd
  BY <1>5 DEF PrepareWorkspace, RemoveTree, MarkRemoved, LateTestsEnd,
              PermittedInv, Permitted
<1>6. CASE UNCHANGED vars
  BY <1>6 DEF vars, shared, PermittedInv, Permitted
<1> QED BY <1>1, <1>2, <1>3, <1>4, <1>5, <1>6 DEF Next

LEMMA AlwaysPermitted == Spec => [](TypeOK /\ PermittedInv)
<1>1. Init => PermittedInv
  BY DEF Init, PermittedInv, NoRun
<1> QED BY <1>1, InitType, NextType, NextPermitted, PTL DEF Spec

(* No interleaving of runs, removals and deaths executes a gated call in a *)
(* run that was not approved, or a forbidden call in any run.              *)
THEOREM GatesHold == Spec => []GatedNeedsApproval
<1>1. TypeOK /\ PermittedInv => GatedNeedsApproval
  <2> SUFFICES ASSUME TypeOK, PermittedInv, NEW p \in Procs, run[p].ran # None
               PROVE  run[p].ran \in Ungated \cup
                        IF run[p].approved THEN {"overwrite", "edit", "mutate"} ELSE {}
    BY DEF GatedNeedsApproval, Ungated
  <2>1. run[p].ran \in Shape
    BY DEF TypeOK, Run
  <2>2. Permitted(run[p].ran, run[p].phase, run[p].approved, clearance)
    BY DEF PermittedInv
  <2> QED BY <2>1, <2>2 DEF Shape, Permitted, Ungated
<1> QED BY <1>1, AlwaysPermitted, PTL

(* An investigation only reads, and only the implementer tests.            *)
THEOREM InvestigationReads == Spec => []ReadOnlyInvestigation
<1>a. None \notin Shape
  BY AgentAssumption
<1>1. PermittedInv => ReadOnlyInvestigation
  BY <1>a DEF Shape, PermittedInv, Permitted, ReadOnlyInvestigation
<1> QED BY <1>1, AlwaysPermitted, PTL

(* Nothing is executed under a clearance above the task's classification.  *)
THEOREM ClearanceHolds == Spec => []WithinClearance
<1>1. PermittedInv => WithinClearance
  BY DEF PermittedInv, Permitted, WithinClearance
<1> QED BY <1>1, AlwaysPermitted, PTL

-----------------------------------------------------------------------------
(* Every call is answered.                                                 *)

(* The counters of a run that is at step here.                             *)
Answered(here, r) ==
    /\ r.replies = r.toolCalls
    /\ r.denials <= r.toolCalls
    /\ r.status = "awaiting-approval" => r.denials < r.toolCalls
    /\ here \in {"model", "tools", "testing"} => r.status = "running"

AnsweredInv == \A p \in Procs : Answered(pc[p], run[p])

LEMMA StepAnswered ==
    ASSUME TypeOK, AnsweredInv, NEW p \in Procs, NEW there, NEW r,
           pc' = [pc EXCEPT ![p] = there], run' = [run EXCEPT ![p] = r],
           Answered(there, r)
    PROVE  AnsweredInv'
<1> SUFFICES ASSUME NEW q \in Procs PROVE Answered(pc'[q], run'[q])
  BY DEF AnsweredInv
<1>1. CASE q = p
  BY <1>1 DEF TypeOK
<1>2. CASE q # p
  BY <1>2 DEF TypeOK, AnsweredInv
<1> QED BY <1>1, <1>2

LEMMA NextAnswered == TypeOK /\ AnsweredInv /\ [Next]_vars => AnsweredInv'
<1> SUFFICES ASSUME TypeOK, AnsweredInv, [Next]_vars PROVE AnsweredInv'
  OBVIOUS
<1>a. \A p \in Procs : run[p] \in Run /\ Answered(pc[p], run[p])
  BY DEF TypeOK, AnsweredInv
<1>b. \A here : Answered(here, NoRun)
  BY DEF Answered, NoRun
(* A running call that is answered leaves the counters in step.            *)
<1>c. ASSUME NEW p \in Procs, NEW refused \in BOOLEAN, run[p].todo # <<>>,
             run[p].status = "running", NEW here
      PROVE  LET s == Replied(run[p], refused)
             IN  /\ s \in Run /\ Answered(here, s)
                 /\ ~refused => s.denials < s.toolCalls
  <2>1. /\ run[p].toolCalls \in Nat /\ run[p].denials \in Nat
        /\ run[p].replies = run[p].toolCalls
        /\ run[p].denials <= run[p].toolCalls
    BY <1>a DEF Run, Answered
  <2> QED BY <1>a, <1>c, <2>1, RepliedType DEF Answered
<1>d. ASSUME NEW p \in Procs, run[p].todo # <<>> \/ pc[p] = "testing",
             pc[p] \in {"tools", "testing"}
      PROVE  run[p].todo # <<>> /\ run[p].status = "running"
  BY <1>a, <1>d DEF TypeOK, Answered
<1>1. ASSUME NEW p \in Procs, NEW phase \in Phase, NEW approved \in BOOLEAN,
             BeginRun(p, phase, approved)
      PROVE  AnsweredInv'
  <2> DEFINE r == [NoRun EXCEPT !.phase = phase,
                     !.approved = approved /\ phase # "investigate",
                     !.jail = IF workspace.row \in {"active", "removing"}
                              THEN "worktree" ELSE "project"]
  <2>1. Answered("model", r)
    BY DEF NoRun, Answered
  <2>2. run' = [run EXCEPT ![p] = r] /\ pc' = [pc EXCEPT ![p] = "model"]
    BY <1>1 DEF BeginRun, Goto
  <2> HIDE DEF r
  <2> QED BY <2>1, <2>2, StepAnswered
<1>2. ASSUME NEW p \in Procs, NEW ok \in BOOLEAN, TestsFinish(p, ok)
      PROVE  AnsweredInv'
  BY <1>2, <1>c, <1>d, StepAnswered DEF TestsFinish, Goto
<1>3. ASSUME NEW p \in Procs, Steps(p) PROVE AnsweredInv'
  <2>1. ASSUME NEW here, NEW status \in Status \ {"awaiting-approval"},
               Settle(p, here, status)
        PROVE  AnsweredInv'
    <3>1. /\ run' = [run EXCEPT ![p] = [run[p] EXCEPT !.status = status]]
          /\ pc' = [pc EXCEPT ![p] = "save"]
      BY <2>1 DEF Settle, Goto
    <3>2. Answered("save", [run[p] EXCEPT !.status = status])
      BY <1>a DEF Run, Answered
    <3> QED BY <3>1, <3>2, StepAnswered
  <2>2. CASE ModelFails(p) \/ ModelConcludes(p) \/ Exhaust(p)
    BY <2>1, <2>2 DEF ModelFails, ModelConcludes, Exhaust, Status
  <2>3. ASSUME NEW calls \in Messages, ModelCalls(p, calls) PROVE AnsweredInv'
    <3>1. /\ run' = [run EXCEPT ![p] = [run[p] EXCEPT !.todo = calls]]
          /\ pc[p] = "model" /\ pc' = [pc EXCEPT ![p] = "tools"]
      BY <2>3 DEF ModelCalls, Goto
    <3>2. Answered("tools", [run[p] EXCEPT !.todo = calls])
      BY <1>a, <3>1 DEF Run, Answered
    <3> QED BY <3>1, <3>2, StepAnswered
  <2>4. CASE NextRound(p)
    <3>1. /\ run' = [run EXCEPT ![p] = [run[p] EXCEPT !.round = run[p].round + 1]]
          /\ pc[p] = "tools" /\ pc' = [pc EXCEPT ![p] = "model"]
      BY <2>4 DEF NextRound, Goto
    <3>2. Answered("model", [run[p] EXCEPT !.round = run[p].round + 1])
      BY <1>a, <3>1 DEF Run, Answered
    <3> QED BY <3>1, <3>2, StepAnswered
  <2>5. ASSUME HasCall(p), UNCHANGED pc, NEW s, Answered("tools", s),
               run' = [run EXCEPT ![p] = s]
        PROVE  AnsweredInv'
    <3>1. pc' = [pc EXCEPT ![p] = "tools"]
      BY <2>5 DEF HasCall, TypeOK
    <3> QED BY <2>5, <3>1, StepAnswered
  <2>6. CASE RefuseCall(p)
    <3>1. Answered("tools", Replied(run[p], TRUE))
      BY <2>6, <1>c, <1>d DEF RefuseCall, HasCall
    <3> QED BY <2>6, <3>1, <2>5 DEF RefuseCall
  <2>7. CASE GateCall(p)
    <3> DEFINE r == [Replied(run[p], FALSE) EXCEPT !.todo = <<>>,
                       !.status = "awaiting-approval"]
    <3>1. LET s == Replied(run[p], FALSE)
          IN  s \in Run /\ Answered("save", s) /\ s.denials < s.toolCalls
      BY <2>7, <1>c, <1>d DEF GateCall, HasCall
    <3>2. Answered("save", r)
      BY <3>1 DEF Run, Answered
    <3>3. run' = [run EXCEPT ![p] = r] /\ pc' = [pc EXCEPT ![p] = "save"]
      BY <2>7 DEF GateCall, Goto
    <3> HIDE DEF r
    <3> QED BY <3>2, <3>3, StepAnswered
  <2>8. ASSUME NEW ok \in BOOLEAN, RunTool(p, ok) PROVE AnsweredInv'
    <3> DEFINE r == [Replied(run[p], ~ok) EXCEPT !.ran = Call(p)]
    <3>1. LET s == Replied(run[p], ~ok) IN s \in Run /\ Answered("tools", s)
      BY <2>8, <1>c, <1>d DEF RunTool, HasCall
    <3>2. Answered("tools", r)
      BY <3>1 DEF Run, Answered
    <3>3. run' = [run EXCEPT ![p] = r] /\ HasCall(p) /\ UNCHANGED pc
      BY <2>8 DEF RunTool
    <3> HIDE DEF r
    <3> QED BY <3>2, <3>3, <2>5
  <2>9. CASE StartTests(p)
    <3>1. /\ run' = [run EXCEPT ![p] = [run[p] EXCEPT !.ran = Call(p)]]
          /\ pc[p] = "tools" /\ pc' = [pc EXCEPT ![p] = "testing"]
      BY <2>9 DEF StartTests, Goto
    <3>2. Answered("testing", [run[p] EXCEPT !.ran = Call(p)])
      BY <1>a, <3>1 DEF Run, Answered
    <3> QED BY <3>1, <3>2, StepAnswered
  <2>10. CASE TestsTimeOut(p)
    BY <2>10, <1>c, <1>d, StepAnswered DEF TestsTimeOut, Goto
  <2>11. ASSUME NEW here, NEW there, there \notin {"model", "tools", "testing"},
                Goto(p, here, there), UNCHANGED run
         PROVE  AnsweredInv'
    <3>1. Answered(there, run[p]) /\ run' = [run EXCEPT ![p] = run[p]]
      BY <2>11, <1>a DEF Answered, TypeOK
    <3> QED BY <2>11, <3>1, StepAnswered DEF Goto
  <2>12. CASE SaveRun(p) \/ WriteArtifacts(p) \/ RecordRun(p)
    BY <2>11, <2>12 DEF SaveRun, WriteArtifacts, RecordRun
  <2>13. CASE AppendAudit(p)
    BY <2>13, <1>b, StepAnswered DEF AppendAudit, Goto
  <2> QED BY <1>3, <2>2, <2>3, <2>4, <2>6, <2>7, <2>8, <2>9, <2>10, <2>12, <2>13
          DEF Steps
<1>4. ASSUME NEW p \in Procs, Crash(p) PROVE AnsweredInv'
  BY <1>4, <1>b, StepAnswered DEF Crash, Goto
<1>5. CASE PrepareWorkspace \/ RemoveTree \/ MarkRemoved \/ LateTestsEnd
  BY <1>5 DEF PrepareWorkspace, RemoveTree, MarkRemoved, LateTestsEnd, AnsweredInv
<1>6. CASE UNCHANGED vars
  BY <1>6 DEF vars, AnsweredInv
<1> QED BY <1>1, <1>2, <1>3, <1>4, <1>5, <1>6 DEF Next

(* Every call a model makes is answered once, and a run that waits for an  *)
(* approval made a call that is no denial.                                 *)
THEOREM CallsReplied == Spec => []EveryCallReplied
<1>1. Init => AnsweredInv
  BY DEF Init, AnsweredInv, Answered, NoRun
<1>2. AnsweredInv => EveryCallReplied
  BY DEF AnsweredInv, Answered, EveryCallReplied
<1> QED BY <1>1, <1>2, InitType, NextType, NextAnswered, PTL DEF Spec

-----------------------------------------------------------------------------
(* The rows a run leaves.                                                  *)

(* The processes at one of these steps.                                    *)
Among(steps) == {p \in Procs : pc[p] \in steps}

(* The rows of a kind are those of the kind behind it and of the runs that *)
(* have written the one and not yet the other; what a dead process left    *)
(* behind only adds to the difference.                                     *)
TrailInv ==
    /\ trail["agent_runs"] >= trail["runs"] + Cardinality(Among({"artifacts", "record"}))
    /\ trail["runs"] >= trail["audit"] + Cardinality(Among({"audit"}))
    /\ runs = trail["audit"] + Cardinality(Among(Pc \ {"idle"})) + faults

LEMMA AmongFinite ==
    ASSUME NEW steps
    PROVE  IsFiniteSet(Among(steps)) /\ Cardinality(Among(steps)) \in Nat
BY AgentAssumption, FS_Subset, FS_CardinalityType DEF Among

(* A process that goes from here to there changes a count by at most one.  *)
LEMMA StepCounts ==
    ASSUME TypeOK, NEW p \in Procs, NEW there, pc' = [pc EXCEPT ![p] = there],
           NEW steps
    PROVE  /\ Cardinality(Among(steps))' \in Nat
           /\ Cardinality(Among(steps))' =
                Cardinality(Among(steps)) + (IF there \in steps THEN 1 ELSE 0)
                                          - (IF pc[p] \in steps THEN 1 ELSE 0)
<1> DEFINE others == Among(steps) \ {p}
<1>1. /\ IsFiniteSet(others) /\ Cardinality(others) \in Nat
      /\ Cardinality(others) =
           IF pc[p] \in steps THEN Cardinality(Among(steps)) - 1
           ELSE Cardinality(Among(steps))
  <2>1. p \in Among(steps) <=> pc[p] \in steps
    BY DEF Among
  <2> QED BY <2>1, AmongFinite, FS_RemoveElement, FS_CardinalityType
<1>2. Among(steps)' = IF there \in steps THEN others \cup {p} ELSE others
  BY DEF TypeOK, Among
<1>3. Cardinality(others \cup {p}) = Cardinality(others) + 1
  BY <1>1, FS_AddElement
<1>4. Cardinality(Among(steps))' =
        IF there \in steps THEN Cardinality(others) + 1 ELSE Cardinality(others)
  BY <1>2, <1>3
<1> HIDE DEF others
<1> QED BY <1>1, <1>4, AmongFinite

LEMMA NextTrail == TypeOK /\ TrailInv /\ [Next]_vars => TrailInv'
<1> SUFFICES ASSUME TypeOK, TrailInv, [Next]_vars PROVE TrailInv'
  OBVIOUS
<1> DEFINE saved == Cardinality(Among({"artifacts", "record"}))
           recorded == Cardinality(Among({"audit"}))
           busy == Cardinality(Among(Pc \ {"idle"}))
<1>1. /\ trail["agent_runs"] \in Nat /\ trail["runs"] \in Nat
      /\ trail["audit"] \in Nat /\ runs \in Nat /\ faults \in Nat
      /\ saved \in Nat /\ recorded \in Nat /\ busy \in Nat
  BY AmongFinite, AgentAssumption DEF TypeOK, Store
<1>2. /\ trail["agent_runs"] >= trail["runs"] + saved
      /\ trail["runs"] >= trail["audit"] + recorded
      /\ runs = trail["audit"] + busy + faults
  BY DEF TrailInv
<1>3. ASSUME saved' \in Nat, recorded' \in Nat, busy' \in Nat,
             trail'["agent_runs"] >= trail'["runs"] + saved',
             trail'["runs"] >= trail'["audit"] + recorded',
             runs' = trail'["audit"] + busy' + faults'
      PROVE  TrailInv'
  BY <1>3 DEF TrailInv
<1>4. ASSUME UNCHANGED <<pc, trail, runs, faults>> PROVE TrailInv'
  BY <1>4 DEF TrailInv, Among
(* What a step from here to there does to the three counts.                *)
<1>5. ASSUME NEW p \in Procs, NEW here \in Pc, NEW there \in Pc,
             Goto(p, here, there)
      PROVE  /\ saved' = saved + (IF there \in {"artifacts", "record"} THEN 1 ELSE 0)
                               - (IF here \in {"artifacts", "record"} THEN 1 ELSE 0)
             /\ recorded' = recorded + (IF there = "audit" THEN 1 ELSE 0)
                                     - (IF here = "audit" THEN 1 ELSE 0)
             /\ busy' = busy + (IF there # "idle" THEN 1 ELSE 0)
                             - (IF here # "idle" THEN 1 ELSE 0)
             /\ saved' \in Nat /\ recorded' \in Nat /\ busy' \in Nat
  <2>1. pc[p] = here /\ pc' = [pc EXCEPT ![p] = there]
    BY <1>5 DEF Goto
  <2>2. saved' = saved + (IF there \in {"artifacts", "record"} THEN 1 ELSE 0)
                       - (IF here \in {"artifacts", "record"} THEN 1 ELSE 0)
    BY <2>1, StepCounts
  <2>3. recorded' = recorded + (IF there \in {"audit"} THEN 1 ELSE 0)
                             - (IF here \in {"audit"} THEN 1 ELSE 0)
    BY <2>1, StepCounts
  <2>4. busy' = busy + (IF there \in Pc \ {"idle"} THEN 1 ELSE 0)
                     - (IF here \in Pc \ {"idle"} THEN 1 ELSE 0)
    BY <2>1, StepCounts
  <2>5. saved' \in Nat /\ recorded' \in Nat /\ busy' \in Nat
    BY <2>1, StepCounts
  <2> HIDE DEF saved, recorded, busy
  <2> QED BY <1>5, <2>1, <2>2, <2>3, <2>4, <2>5
<1> HIDE DEF saved, recorded, busy
(* Between two steps of the loop, and into the first row.                  *)
<1> DEFINE Loop == {"model", "tools", "testing", "save"}
<1>6. ASSUME NEW p \in Procs, NEW here \in Loop, NEW there \in Loop,
             Goto(p, here, there), UNCHANGED <<trail, runs, faults>>
      PROVE  TrailInv'
  <2>1. /\ saved' = saved /\ recorded' = recorded /\ busy' = busy
    BY <1>6, <1>5, <1>1 DEF Pc
  <2> QED BY <2>1, <1>6, <1>1, <1>2, <1>3
<1>7. ASSUME NEW p \in Procs, NEW phase, NEW approved, BeginRun(p, phase, approved)
      PROVE  TrailInv'
  <2>1. /\ Goto(p, "idle", "model")
        /\ runs' = runs + 1 /\ UNCHANGED <<trail, faults>>
    BY <1>7 DEF BeginRun, shared
  <2>2. saved' = saved /\ recorded' = recorded /\ busy' = busy + 1
    BY <2>1, <1>5, <1>1 DEF Pc
  <2> QED BY <2>1, <2>2, <1>1, <1>2, <1>3
<1>8. ASSUME NEW p \in Procs, NEW ok, TestsFinish(p, ok) PROVE TrailInv'
  BY <1>8, <1>6 DEF TestsFinish, shared
<1>9. ASSUME NEW p \in Procs, Steps(p) PROVE TrailInv'
  <2>1. CASE ModelFails(p) \/ ModelConcludes(p) \/ Exhaust(p)
    BY <2>1, <1>6 DEF ModelFails, ModelConcludes, Exhaust, Settle, shared
  <2>2. CASE \E calls \in Messages : ModelCalls(p, calls)
    BY <2>2, <1>6 DEF ModelCalls, shared
  <2>3. CASE NextRound(p) \/ GateCall(p) \/ StartTests(p) \/ TestsTimeOut(p)
    BY <2>3, <1>6 DEF NextRound, GateCall, StartTests, TestsTimeOut, shared
  <2>4. CASE RefuseCall(p) \/ \E ok \in BOOLEAN : RunTool(p, ok)
    BY <2>4, <1>4 DEF RefuseCall, RunTool, shared
  <2>5. CASE SaveRun(p)
    <3>1. /\ Goto(p, "save", "artifacts")
          /\ trail' = [trail EXCEPT !["agent_runs"] = trail["agent_runs"] + 1]
          /\ UNCHANGED <<runs, faults>>
      BY <2>5 DEF SaveRun
    <3>2. /\ trail'["agent_runs"] = trail["agent_runs"] + 1
          /\ trail'["runs"] = trail["runs"] /\ trail'["audit"] = trail["audit"]
      BY <3>1 DEF TypeOK, Store
    <3>3. saved' = saved + 1 /\ recorded' = recorded /\ busy' = busy
      BY <3>1, <1>5, <1>1 DEF Pc
    <3> QED BY <3>1, <3>2, <3>3, <1>1, <1>2, <1>3
  <2>6. CASE WriteArtifacts(p)
    <3>1. /\ Goto(p, "artifacts", "record")
          /\ UNCHANGED <<trail, runs, faults>>
      BY <2>6 DEF WriteArtifacts
    <3>2. saved' = saved /\ recorded' = recorded /\ busy' = busy
      BY <3>1, <1>5, <1>1 DEF Pc
    <3> QED BY <3>1, <3>2, <1>1, <1>2, <1>3
  <2>7. CASE RecordRun(p)
    <3>1. /\ Goto(p, "record", "audit")
          /\ trail' = [trail EXCEPT !["runs"] = trail["runs"] + 1]
          /\ UNCHANGED <<runs, faults>>
      BY <2>7 DEF RecordRun
    <3>2. /\ trail'["runs"] = trail["runs"] + 1
          /\ trail'["agent_runs"] = trail["agent_runs"]
          /\ trail'["audit"] = trail["audit"]
      BY <3>1 DEF TypeOK, Store
    <3>3. /\ saved' = saved - 1 /\ recorded' = recorded + 1 /\ busy' = busy
          /\ saved' \in Nat
      BY <3>1, <1>5, <1>1 DEF Pc
    <3> QED BY <3>1, <3>2, <3>3, <1>1, <1>2, <1>3
  <2>8. CASE AppendAudit(p)
    <3>1. /\ Goto(p, "audit", "idle")
          /\ trail' = [trail EXCEPT !["audit"] = trail["audit"] + 1]
          /\ UNCHANGED <<runs, faults>>
      BY <2>8 DEF AppendAudit
    <3>2. /\ trail'["audit"] = trail["audit"] + 1
          /\ trail'["agent_runs"] = trail["agent_runs"]
          /\ trail'["runs"] = trail["runs"]
      BY <3>1 DEF TypeOK, Store
    <3>3. /\ saved' = saved /\ recorded' = recorded - 1 /\ busy' = busy - 1
          /\ recorded' \in Nat /\ busy' \in Nat
      BY <3>1, <1>5, <1>1 DEF Pc
    <3> QED BY <3>1, <3>2, <3>3, <1>1, <1>2, <1>3
  <2> QED BY <1>9, <2>1, <2>2, <2>3, <2>4, <2>5, <2>6, <2>7, <2>8 DEF Steps
(* A dead process leaves the rows it has written.                          *)
<1>10. ASSUME NEW p \in Procs, Crash(p) PROVE TrailInv'
  <2>1. /\ pc[p] \in Pc \ {"idle"} /\ Goto(p, pc[p], "idle")
        /\ faults' = faults + 1 /\ UNCHANGED <<trail, runs>>
    BY <1>10 DEF Crash, TypeOK
  <2>2. /\ saved' <= saved /\ recorded' <= recorded /\ busy' = busy - 1
        /\ saved' \in Nat /\ recorded' \in Nat /\ busy' \in Nat
    BY <2>1, <1>5, <1>1 DEF Pc
  <2> QED BY <2>1, <2>2, <1>1, <1>2, <1>3
<1>11. CASE PrepareWorkspace \/ RemoveTree \/ MarkRemoved \/ LateTestsEnd
  BY <1>11, <1>4 DEF PrepareWorkspace, RemoveTree, MarkRemoved, LateTestsEnd
<1>12. CASE UNCHANGED vars
  BY <1>12, <1>4 DEF vars, shared
<1> QED BY <1>7, <1>8, <1>9, <1>10, <1>11, <1>12 DEF Next

(* However many runs write their rows at once and wherever they die: the   *)
(* session rows are ahead of the run rows and these of the audit rows, and *)
(* every run that began is audited, under way or was ended by a fault.     *)
THEOREM RunsAccounted == Spec => []TrailComplete
<1>1. Init => TrailInv
  <2> SUFFICES ASSUME Init PROVE TrailInv
    OBVIOUS
  <2>1. \A steps : "idle" \notin steps => Among(steps) = {}
    BY DEF Init, Among
  <2>2. /\ Cardinality(Among({"artifacts", "record"})) = 0
        /\ Cardinality(Among({"audit"})) = 0
        /\ Cardinality(Among(Pc \ {"idle"})) = 0
    BY <2>1, FS_EmptySet
  <2>3. /\ trail["agent_runs"] = 0 /\ trail["runs"] = 0 /\ trail["audit"] = 0
        /\ runs = 0 /\ faults = 0
    BY DEF Init, Store
  <2> QED BY <2>2, <2>3 DEF TrailInv
<1>2. TypeOK /\ TrailInv => TrailComplete
  <2> SUFFICES ASSUME TypeOK, TrailInv PROVE TrailComplete
    OBVIOUS
  <2>1. {p \in Procs : pc[p] # "idle"} = Among(Pc \ {"idle"})
    BY DEF TypeOK, Among
  <2>2. /\ Cardinality(Among({"artifacts", "record"})) \in Nat
        /\ Cardinality(Among({"audit"})) \in Nat
    BY AmongFinite
  <2>3. /\ trail["agent_runs"] \in Nat /\ trail["runs"] \in Nat
        /\ trail["audit"] \in Nat
    BY DEF TypeOK, Store
  <2>4. /\ trail["agent_runs"] >= trail["runs"]
        /\ trail["runs"] >= trail["audit"]
    BY <2>2, <2>3 DEF TrailInv
  <2> QED BY <2>1, <2>4 DEF TrailInv, TrailComplete
<1> QED BY <1>1, <1>2, InitType, NextType, NextTrail, PTL DEF Spec

-----------------------------------------------------------------------------
(* Why a run ends.                                                         *)

(* A set of numbers that is not empty has a least one.                     *)
LEMMA LeastNumber ==
    ASSUME NEW S \in SUBSET Nat, S # {}
    PROVE  \E n \in S : \A m \in S : n <= m
<1>1. PICK n \in S : \A m \in S : <<m, n>> \notin OpToRel(<, Nat)
  BY NatLessThanWellFounded, WFMin
<1>2. \A m \in S : ~(m < n)
  BY <1>1 DEF OpToRel
<1> QED BY <1>2

(* What a run has left, by where it is.                                    *)
Left(at, r) ==
    <<IF at = "idle" THEN 0 ELSE MaxIterations - r.round,
      Stage[at],
      2 * Len(r.todo) + IF at = "tools" THEN 1 ELSE 0>>

LEMMA LeftType ==
    ASSUME NEW at \in Pc, NEW r \in Run
    PROVE  /\ Left(at, r) \in Nat \X Nat \X Nat
           /\ Stage[at] \in Nat /\ Len(r.todo) \in Nat
           /\ MaxIterations - r.round \in Nat
<1>1. MaxIterations \in Nat /\ r.round \in 1 .. MaxIterations
  BY AgentAssumption DEF Run
<1>2. MaxIterations - r.round \in Nat
  BY <1>1
<1>3. Len(r.todo) \in Nat
  BY DEF Run
<1>4. Stage[at] \in Nat
  BY DEF Stage, Pc
<1>5. 2 * Len(r.todo) + (IF at = "tools" THEN 1 ELSE 0) \in Nat
  <2> DEFINE n == Len(r.todo)
  <2>1. n \in Nat
    BY <1>3
  <2> HIDE DEF n
  <2>2. 2 * n + (IF at = "tools" THEN 1 ELSE 0) \in Nat
    BY <2>1
  <2> QED BY <2>2 DEF n
<1> QED BY <1>2, <1>3, <1>4, <1>5 DEF Left

(* The order in which it falls is well founded: no run takes steps for     *)
(* ever.                                                                   *)
LEMMA LessIsWellFounded ==
    ASSUME NEW S \in SUBSET (Nat \X Nat \X Nat), S # {}
    PROVE  \E a \in S : \A b \in S : ~Less(b, a)
<1>1. \A a \in S : a[1] \in Nat /\ a[2] \in Nat /\ a[3] \in Nat
  OBVIOUS
<1> DEFINE One == {a[1] : a \in S}
<1>2. PICK n \in One : \A m \in One : n <= m
  <2>1. One \in SUBSET Nat /\ One # {}
    BY <1>1
  <2> HIDE DEF One
  <2> QED BY <2>1, LeastNumber
<1> DEFINE Two == {a[2] : a \in {b \in S : b[1] = n}}
<1>3. PICK k \in Two : \A m \in Two : k <= m
  <2>1. Two \in SUBSET Nat /\ Two # {}
    BY <1>1, <1>2
  <2> HIDE DEF Two
  <2> QED BY <2>1, LeastNumber
<1> DEFINE Three == {a[3] : a \in {b \in S : b[1] = n /\ b[2] = k}}
<1>4. PICK l \in Three : \A m \in Three : l <= m
  <2>1. Three \in SUBSET Nat /\ Three # {}
    BY <1>1, <1>3
  <2> HIDE DEF Three
  <2> QED BY <2>1, LeastNumber
<1>5. PICK a \in S : a[1] = n /\ a[2] = k /\ a[3] = l
  BY <1>4
<1>6. ASSUME NEW b \in S, Less(b, a) PROVE FALSE
  <2>1. CASE b[1] < a[1]
    <3>1. n <= b[1]
      BY <1>2
    <3> QED BY <1>1, <1>5, <2>1, <3>1
  <2>2. CASE b[1] = a[1] /\ b[2] < a[2]
    <3>1. k <= b[2]
      BY <1>3, <1>5, <2>2
    <3> QED BY <1>1, <1>5, <2>2, <3>1
  <2>3. CASE b[1] = a[1] /\ b[2] = a[2] /\ b[3] < a[3]
    <3>1. l <= b[3]
      BY <1>4, <1>5, <2>3
    <3> QED BY <1>1, <1>5, <2>3, <3>1
  <2> QED BY <1>6, <2>1, <2>2, <2>3 DEF Less
<1> QED BY <1>6

(* A later stage of the round, or the end.                                 *)
LEMMA StageFalls ==
    ASSUME NEW at \in Pc \ {"idle"}, NEW there \in Pc, NEW r \in Run, NEW s \in Run,
           there = "idle" \/ s.round = r.round, Stage[there] < Stage[at]
    PROVE  Less(Left(there, s), Left(at, r))
<1>1. /\ Left(at, r)[1] = MaxIterations - r.round
      /\ Left(there, s)[1] = IF there = "idle" THEN 0 ELSE MaxIterations - s.round
      /\ Left(at, r)[2] = Stage[at] /\ Left(there, s)[2] = Stage[there]
  BY DEF Left
<1>2. MaxIterations - r.round \in Nat
  BY LeftType
<1>3. Left(there, s)[1] < Left(at, r)[1] \/ Left(there, s)[1] = Left(at, r)[1]
  BY <1>1, <1>2
<1> QED BY <1>1, <1>3 DEF Less

(* A call is answered, or its tests begin.                                 *)
LEMMA CallsFall ==
    ASSUME NEW at \in {"tools", "testing"}, NEW there \in {"tools", "testing"},
           NEW r \in Run, NEW s \in Run, s.round = r.round,
           \/ Len(s.todo) < Len(r.todo)
           \/ Len(s.todo) = Len(r.todo) /\ at = "tools" /\ there = "testing"
    PROVE  Less(Left(there, s), Left(at, r))
<1>1. Left(there, s)[1] = Left(at, r)[1] /\ Left(there, s)[2] = Left(at, r)[2]
  BY DEF Left, Stage
<1>2. Len(s.todo) \in Nat /\ Len(r.todo) \in Nat
  BY DEF Run
<1>3. /\ Left(at, r)[3] = 2 * Len(r.todo) + IF at = "tools" THEN 1 ELSE 0
      /\ Left(there, s)[3] = 2 * Len(s.todo) + IF there = "tools" THEN 1 ELSE 0
  BY DEF Left
<1>4. Left(there, s)[3] < Left(at, r)[3]
  <2> DEFINE n == Len(r.todo)
             m == Len(s.todo)
  <2>1. /\ m \in Nat /\ n \in Nat
        /\ m < n \/ (m = n /\ at = "tools" /\ there = "testing")
    BY <1>2
  <2> HIDE DEF n, m
  <2>2. 2 * m + (IF there = "tools" THEN 1 ELSE 0) < 2 * n + IF at = "tools" THEN 1 ELSE 0
    <3>1. CASE m < n
      <4>1. 2 * m + 1 < 2 * n /\ 2 * m \in Nat /\ 2 * n \in Nat
        BY <2>1, <3>1
      <4> QED BY <4>1
    <3>2. CASE m = n /\ at = "tools" /\ there = "testing"
      BY <2>1, <3>2
    <3> QED BY <2>1, <3>1, <3>2
  <2> QED BY <1>3, <2>2 DEF n, m
<1> QED BY <1>1, <1>4 DEF Less

LEMMA RoundFalls ==
    ASSUME NEW at \in Pc \ {"idle"}, NEW there \in Pc \ {"idle"},
           NEW r \in Run, NEW s \in Run, s.round = r.round + 1
    PROVE  Less(Left(there, s), Left(at, r))
<1>1. /\ Left(at, r)[1] = MaxIterations - r.round
      /\ Left(there, s)[1] = MaxIterations - s.round
  BY DEF Left
<1>2. r.round \in Nat /\ MaxIterations \in Nat
  BY AgentAssumption DEF Run
<1> QED BY <1>1, <1>2 DEF Less

(* What a reply leaves of a run.                                           *)
LEMMA RepliedLeft ==
    ASSUME NEW r \in Run, r.todo # <<>>, NEW refused \in BOOLEAN
    PROVE  /\ Replied(r, refused).round = r.round
           /\ Len(Replied(r, refused).todo) < Len(r.todo)
<1>1. Replied(r, refused).round = r.round /\ Replied(r, refused).todo = Tail(r.todo)
  BY DEF Replied, Run
<1>2. r.todo \in Seq(Shape)
  BY DEF Run
<1>3. Len(Tail(r.todo)) = Len(r.todo) - 1 /\ Len(r.todo) \in Nat
  BY <1>2
<1> QED BY <1>1, <1>3

(* Every step a run takes.                                                 *)
LEMMA OwnStepShrinks ==
    ASSUME TypeOK, TypeOK', NEW p \in Procs,
           Steps(p) \/ (\E ok \in BOOLEAN : TestsFinish(p, ok)) \/ Crash(p)
    PROVE  Less(Left(pc'[p], run'[p]), Left(pc[p], run[p]))
<1>1. /\ pc[p] \in Pc /\ pc'[p] \in Pc /\ run[p] \in Run /\ run'[p] \in Run
      /\ pc \in [Procs -> Pc] /\ run \in [Procs -> Run]
  BY DEF TypeOK
<1>2. CASE ModelFails(p) \/ ModelConcludes(p) \/ Exhaust(p)
  <2>1. pc[p] \in {"model", "tools"} /\ pc'[p] = "save" /\ run'[p].round = run[p].round
    BY <1>1, <1>2 DEF ModelFails, ModelConcludes, Exhaust, Settle, Goto, Run
  <2>2. Stage[pc'[p]] < Stage[pc[p]]
    BY <2>1 DEF Stage
  <2> QED BY <1>1, <2>1, <2>2, StageFalls
<1>3. ASSUME NEW calls \in Messages, ModelCalls(p, calls)
      PROVE  Less(Left(pc'[p], run'[p]), Left(pc[p], run[p]))
  <2>1. pc[p] = "model" /\ pc'[p] = "tools" /\ run'[p].round = run[p].round
    BY <1>1, <1>3 DEF ModelCalls, Goto, Run
  <2>2. Stage[pc'[p]] < Stage[pc[p]]
    BY <2>1 DEF Stage
  <2> QED BY <1>1, <2>1, <2>2, StageFalls
<1>4. CASE NextRound(p)
  <2>1. pc[p] = "tools" /\ pc'[p] = "model" /\ run'[p].round = run[p].round + 1
    BY <1>1, <1>4 DEF NextRound, Goto, Run
  <2> QED BY <1>1, <2>1, RoundFalls
<1>5. CASE RefuseCall(p) \/ \E ok \in BOOLEAN : RunTool(p, ok)
  <2>1. pc[p] = "tools" /\ pc'[p] = "tools" /\ run[p].todo # <<>>
    BY <1>5 DEF RefuseCall, RunTool, HasCall
  <2>2. PICK refused \in BOOLEAN :
          \/ run'[p] = Replied(run[p], refused)
          \/ run'[p] = [Replied(run[p], refused) EXCEPT !.ran = Call(p)]
    BY <1>1, <1>5 DEF RefuseCall, RunTool
  <2>3. Replied(run[p], refused) \in Run
    BY <1>1, <2>1, RepliedType
  <2>4. /\ run'[p].round = Replied(run[p], refused).round
        /\ run'[p].todo = Replied(run[p], refused).todo
    BY <2>2, <2>3 DEF Run
  <2>5. run'[p].round = run[p].round /\ Len(run'[p].todo) < Len(run[p].todo)
    BY <1>1, <2>1, <2>4, RepliedLeft
  <2> QED BY <1>1, <2>1, <2>5, CallsFall
<1>6. CASE GateCall(p)
  <2>1. pc[p] = "tools" /\ pc'[p] = "save" /\ run[p].todo # <<>>
    BY <1>1, <1>6 DEF GateCall, HasCall, Goto
  <2>2. Replied(run[p], FALSE) \in Run /\ Replied(run[p], FALSE).round = run[p].round
    BY <1>1, <2>1, RepliedType, RepliedLeft
  <2>3. run'[p].round = run[p].round
    BY <1>1, <1>6, <2>2 DEF GateCall, Run
  <2>4. Stage[pc'[p]] < Stage[pc[p]]
    BY <2>1 DEF Stage
  <2> QED BY <1>1, <2>1, <2>3, <2>4, StageFalls
<1>7. CASE StartTests(p)
  <2>1. pc[p] = "tools" /\ pc'[p] = "testing" /\ run'[p].round = run[p].round
        /\ run'[p].todo = run[p].todo
    BY <1>1, <1>7 DEF StartTests, Goto, Run
  <2> QED BY <1>1, <2>1, CallsFall
<1>8. CASE TestsTimeOut(p) \/ \E ok \in BOOLEAN : TestsFinish(p, ok)
  <2>1. pc[p] = "testing" /\ pc'[p] = "tools" /\ run[p].todo # <<>>
    BY <1>1, <1>8 DEF TestsTimeOut, TestsFinish, Goto, TypeOK
  <2>2. PICK refused \in BOOLEAN : run'[p] = Replied(run[p], refused)
    BY <1>1, <1>8 DEF TestsTimeOut, TestsFinish
  <2>3. run'[p].round = run[p].round /\ Len(run'[p].todo) < Len(run[p].todo)
    BY <1>1, <2>1, <2>2, RepliedLeft
  <2> QED BY <1>1, <2>1, <2>3, CallsFall
<1>9. CASE SaveRun(p) \/ WriteArtifacts(p) \/ RecordRun(p)
  <2>1. run'[p].round = run[p].round
    BY <1>9 DEF SaveRun, WriteArtifacts, RecordRun
  <2>2. pc[p] # "idle" /\ Stage[pc'[p]] < Stage[pc[p]]
    BY <1>1, <1>9 DEF SaveRun, WriteArtifacts, RecordRun, Goto, Stage
  <2> QED BY <1>1, <2>1, <2>2, StageFalls
<1>10. CASE AppendAudit(p) \/ Crash(p)
  <2>1. pc[p] # "idle" /\ pc'[p] = "idle"
    BY <1>1, <1>10 DEF AppendAudit, Crash, Goto
  <2>2. Stage[pc'[p]] < Stage[pc[p]]
    BY <1>1, <2>1 DEF Stage, Pc
  <2> QED BY <1>1, <2>1, <2>2, StageFalls
<1> QED BY <1>2, <1>3, <1>4, <1>5, <1>6, <1>7, <1>8, <1>9, <1>10 DEF Steps

(* Whatever models answer, with any number of runs beside it and whatever  *)
(* happens to its worktree, every step of a run leaves it less: fewer      *)
(* rounds, or the same and fewer stages or calls.                          *)
THEOREM RunsShrinkAlways == Spec => RunsShrink
<1>1. TypeOK /\ TypeOK' /\ [Next]_vars
        => [\A p \in Procs :
              pc[p] # "idle" /\ (pc'[p] # pc[p] \/ run'[p] # run[p])
              => Less(Remaining(p)', Remaining(p))]_vars
  <2> SUFFICES ASSUME TypeOK, TypeOK', [Next]_vars, NEW q \in Procs, pc[q] # "idle",
                      pc'[q] # pc[q] \/ run'[q] # run[q]
               PROVE  Less(Remaining(q)', Remaining(q))
    OBVIOUS
  <2>1. Remaining(q) = Left(pc[q], run[q]) /\ Remaining(q)' = Left(pc'[q], run'[q])
    BY DEF Remaining, Left
  <2>2. ~UNCHANGED vars /\ ~UNCHANGED <<pc, run>>
    BY DEF vars
  <2>3. PICK p \in Procs :
          \/ \E phase \in Phase, approved \in BOOLEAN : BeginRun(p, phase, approved)
          \/ \E ok \in BOOLEAN : TestsFinish(p, ok)
          \/ Steps(p) \/ Crash(p)
    BY <2>2 DEF Next, PrepareWorkspace, RemoveTree, MarkRemoved, LateTestsEnd
  <2>4. p = q
    <3> DEFINE Alike == \A o \in Procs \ {p} : pc'[o] = pc[o] /\ run'[o] = run[o]
    <3> USE DEF TypeOK, Goto
    <3>1. CASE \E phase \in Phase, approved \in BOOLEAN : BeginRun(p, phase, approved)
      BY <3>1 DEF BeginRun
    <3>2. CASE (\E ok \in BOOLEAN : TestsFinish(p, ok)) \/ Crash(p)
      BY <3>2 DEF TestsFinish, Crash
    <3>3. CASE Steps(p)
      <4>1. CASE ModelFails(p) \/ ModelConcludes(p) \/ Exhaust(p)
        BY <4>1 DEF ModelFails, ModelConcludes, Exhaust, Settle
      <4>2. CASE (\E calls \in Messages : ModelCalls(p, calls)) \/ NextRound(p)
        BY <4>2 DEF ModelCalls, NextRound
      <4>3. CASE RefuseCall(p) \/ GateCall(p) \/ \E ok \in BOOLEAN : RunTool(p, ok)
        BY <4>3 DEF RefuseCall, GateCall, RunTool
      <4>4. CASE StartTests(p) \/ TestsTimeOut(p)
        BY <4>4 DEF StartTests, TestsTimeOut
      <4>5. CASE SaveRun(p) \/ WriteArtifacts(p) \/ RecordRun(p) \/ AppendAudit(p)
        BY <4>5 DEF SaveRun, WriteArtifacts, RecordRun, AppendAudit
      <4> QED BY <3>3, <4>1, <4>2, <4>3, <4>4, <4>5 DEF Steps
    <3> QED BY <2>3, <3>1, <3>2, <3>3
  <2>5. \A phase \in Phase, approved \in BOOLEAN : ~BeginRun(p, phase, approved)
    BY <2>4 DEF BeginRun, Goto
  <2>6. Less(Left(pc'[p], run'[p]), Left(pc[p], run[p]))
    BY <2>3, <2>5, OwnStepShrinks
  <2> QED BY <2>1, <2>4, <2>6
<1> QED BY <1>1, TypeCorrect, PTL DEF Spec, RunsShrink

-----------------------------------------------------------------------------
(***************************************************************************)
(* Context: the lists a sort leaves, folds over sequences, and with them   *)
(* routes, votes, packs and the index.                                     *)
(***************************************************************************)

(* A strict total order of the elements of a set.                          *)
Orders(before, S) ==
    /\ \A x \in S : <<x, x>> \notin before
    /\ \A x, y \in S : x = y \/ <<x, y>> \in before \/ <<y, x>> \in before
    /\ \A x, y, z \in S :
        <<x, y>> \in before /\ <<y, z>> \in before => <<x, z>> \in before

(* A sequence has every element of a set once, in their order.             *)
Lists(s, S, before) ==
    /\ s \in [1 .. Cardinality(S) -> S]
    /\ \A x \in S : \E n \in 1 .. Cardinality(S) : s[n] = x
    /\ \A i, j \in 1 .. Cardinality(S) : i < j => <<s[i], s[j]>> \in before

(* InOrder lists a finite set, each element once and in order: the number  *)
(* of its predecessors gives each element a place of its own, and so takes *)
(* all the places.                                                         *)
LEMMA InOrderSorts ==
    ASSUME NEW S, IsFiniteSet(S), NEW before, Orders(before, S)
    PROVE  Lists(InOrder(S, before), S, before)
<1> DEFINE N == Cardinality(S)
           Preds(x) == {y \in S : <<y, x>> \in before}
           place == [x \in S |-> Cardinality(Preds(x)) + 1]
           s == InOrder(S, before)
<1>0. N \in Nat
  BY FS_CardinalityType
<1>1. ASSUME NEW x \in S
      PROVE  IsFiniteSet(Preds(x)) /\ Cardinality(Preds(x)) \in 0 .. N - 1
  <2>1. IsFiniteSet(Preds(x)) /\ Cardinality(Preds(x)) \in Nat
    BY FS_Subset, FS_CardinalityType
  <2>2. IsFiniteSet(S \ {x}) /\ Cardinality(S \ {x}) = N - 1
    BY FS_RemoveElement
  <2>3. Preds(x) \in SUBSET (S \ {x})
    BY DEF Orders
  <2>4. Cardinality(Preds(x)) <= Cardinality(S \ {x})
    <3> HIDE DEF Preds
    <3> QED BY <2>2, <2>3, FS_Subset
  <2> QED BY <1>0, <2>1, <2>2, <2>4
<1>2. ASSUME NEW x \in S, NEW y \in S, <<x, y>> \in before
      PROVE  Cardinality(Preds(x)) < Cardinality(Preds(y))
  <2>1. Preds(x) \cup {x} \in SUBSET Preds(y) /\ x \notin Preds(x)
    BY <1>2 DEF Orders
  <2>2. /\ Cardinality(Preds(x) \cup {x}) = Cardinality(Preds(x)) + 1
        /\ Cardinality(Preds(x) \cup {x}) <= Cardinality(Preds(y))
    <3> HIDE DEF Preds
    <3> QED BY <1>1, <2>1, FS_AddElement, FS_Subset
  <2> QED BY <1>1, <2>2
<1>3. place \in Injection(S, 1 .. N)
  <2>1. place \in [S -> 1 .. N]
    <3> HIDE DEF Preds
    <3> QED BY <1>0, <1>1
  <2>2. ASSUME NEW x \in S, NEW y \in S, place[x] = place[y] PROVE x = y
    <3>1. Cardinality(Preds(x)) = Cardinality(Preds(y))
      <4> HIDE DEF Preds
      <4> QED BY <1>1, <2>2
    <3>2. <<x, y>> \notin before /\ <<y, x>> \notin before
      <4> HIDE DEF Preds
      <4> QED BY <1>1, <1>2, <3>1
    <3> QED BY <3>2 DEF Orders
  <2> QED BY <2>1, <2>2 DEF Injection, IsInjective
<1>4. \A n \in 1 .. N : \E x \in S : Cardinality(Preds(x)) = n - 1
  <2>1. IsFiniteSet(1 .. N) /\ Cardinality(1 .. N) = N
    BY <1>0, FS_Interval
  <2>2. place \in Surjection(S, 1 .. N)
    <3> HIDE DEF place
    <3> QED BY <1>3, <2>1, FS_Injection
  <2>3. ASSUME NEW n \in 1 .. N PROVE \E x \in S : place[x] = n
    <3> HIDE DEF place
    <3> QED BY <2>2 DEF Surjection
  <2>4. \A x \in S : place[x] = Cardinality(Preds(x)) + 1
    OBVIOUS
  <2> HIDE DEF place, Preds
  <2> QED BY <1>0, <1>1, <2>3, <2>4
<1>5. \A n \in 1 .. N : s[n] \in S /\ Cardinality(Preds(s[n])) = n - 1
  <2>1. \A n \in 1 .. N :
            s[n] = CHOOSE x \in S : Cardinality(Preds(x)) = n - 1
    BY DEF InOrder
  <2> HIDE DEF s, Preds
  <2> QED BY <1>4, <2>1
<1>6. s \in [1 .. N -> S]
  <2>1. s = [n \in 1 .. N |-> CHOOSE x \in S : Cardinality(Preds(x)) = n - 1]
    BY DEF InOrder
  <2> HIDE DEF s, N, Preds
  <2> QED BY <1>5, <2>1
<1>7. ASSUME NEW x \in S PROVE \E n \in 1 .. N : s[n] = x
  <2>1. Cardinality(Preds(x)) + 1 \in 1 .. N
    <3> HIDE DEF N, Preds
    <3> QED BY <1>0, <1>1
  <2>2. PICK n \in 1 .. N : n = Cardinality(Preds(x)) + 1
    BY <2>1
  <2>3. s[n] \in S /\ Cardinality(Preds(s[n])) = Cardinality(Preds(x))
    <3> HIDE DEF s, Preds
    <3> QED BY <1>0, <1>1, <1>5, <2>2
  <2>4. <<s[n], x>> \notin before /\ <<x, s[n]>> \notin before
    <3> HIDE DEF s, Preds
    <3> QED BY <1>1, <1>2, <2>3
  <2>5. s[n] = x
    <3> HIDE DEF s, Preds
    <3> QED BY <2>3, <2>4 DEF Orders
  <2> QED BY <2>5
<1>8. ASSUME NEW i \in 1 .. N, NEW j \in 1 .. N, i < j
      PROVE  <<s[i], s[j]>> \in before
  <2> HIDE DEF s, Preds, N
  <2>1. Cardinality(Preds(s[i])) < Cardinality(Preds(s[j]))
    BY <1>0, <1>5, <1>8
  <2>2. s[i] # s[j] /\ <<s[j], s[i]>> \notin before
    BY <1>0, <1>2, <1>5, <2>1, <1>8
  <2> QED BY <1>5, <2>2 DEF Orders
<1> QED BY <1>6, <1>7, <1>8 DEF Lists

LEMMA BeforePair ==
    ASSUME NEW a \in Int \X Int, NEW b \in Int \X Int
    PROVE  Before(a, b) <=> (a[1] < b[1] \/ (a[1] = b[1] /\ a[2] < b[2]))
<1>1. DOMAIN a = {1, 2} /\ 1 .. 1 - 1 = {} /\ 1 .. 2 - 1 = {1}
  <2>1. a = <<a[1], a[2]>>
    OBVIOUS
  <2>2. DOMAIN <<a[1], a[2]>> = {1, 2}
    OBVIOUS
  <2> QED BY <2>1, <2>2
<1> QED BY <1>1 DEF Before

LEMMA BeforeTriple ==
    ASSUME NEW a \in Int \X Int \X Int, NEW b \in Int \X Int \X Int
    PROVE  Before(a, b) <=>
             \/ a[1] < b[1]
             \/ a[1] = b[1] /\ a[2] < b[2]
             \/ a[1] = b[1] /\ a[2] = b[2] /\ a[3] < b[3]
<1>1. DOMAIN a = {1, 2, 3}
  <2>1. a = <<a[1], a[2], a[3]>>
    OBVIOUS
  <2>2. DOMAIN <<a[1], a[2], a[3]>> = {1, 2, 3}
    OBVIOUS
  <2> QED BY <2>1, <2>2
<1>2. 1 .. 1 - 1 = {} /\ 1 .. 2 - 1 = {1} /\ 1 .. 3 - 1 = {1, 2}
  OBVIOUS
<1> QED BY <1>1, <1>2 DEF Before

(* The order of a set by keys of three parts.                              *)
KeyOrder(S, key) == {e \in S \X S : Before(key[e[1]], key[e[2]])}

(* Keys that differ in their last part order what they are the keys of.    *)
LEMMA PairsOrder ==
    ASSUME NEW S, NEW key, \A x \in S : key[x] \in Int \X Int,
           \A x, y \in S : key[x][2] = key[y][2] => x = y
    PROVE  Orders(KeyOrder(S, key), S)
<1>1. \A x, y \in S : <<x, y>> \in KeyOrder(S, key) <=>
        (key[x][1] < key[y][1]
          \/ (key[x][1] = key[y][1] /\ key[x][2] < key[y][2]))
  BY BeforePair DEF KeyOrder
<1>2. \A x \in S : key[x][1] \in Int /\ key[x][2] \in Int
  OBVIOUS
<1> QED BY <1>1, <1>2 DEF Orders

LEMMA TriplesOrder ==
    ASSUME NEW S, NEW key, \A x \in S : key[x] \in Int \X Int \X Int,
           \A x, y \in S : key[x][3] = key[y][3] => x = y
    PROVE  Orders(KeyOrder(S, key), S)
<1>1. \A x, y \in S : <<x, y>> \in KeyOrder(S, key) <=>
        (\/ key[x][1] < key[y][1]
         \/ key[x][1] = key[y][1] /\ key[x][2] < key[y][2]
         \/ key[x][1] = key[y][1] /\ key[x][2] = key[y][2] /\ key[x][3] < key[y][3])
  BY BeforeTriple DEF KeyOrder
<1>2. \A x \in S : key[x][1] \in Int /\ key[x][2] \in Int /\ key[x][3] \in Int
  OBVIOUS
<1> QED BY <1>1, <1>2 DEF Orders

LEMMA SortedLists ==
    ASSUME NEW S, IsFiniteSet(S), NEW key, Orders(KeyOrder(S, key), S)
    PROVE  Lists(Sorted(S, key), S, KeyOrder(S, key))
  BY InOrderSorts DEF Sorted, KeyOrder

-----------------------------------------------------------------------------
(* Routes.                                                                 *)

(* The first of a list is one of its set.                                  *)
LEMMA ListHead ==
    ASSUME NEW S, IsFiniteSet(S), S # {}, NEW s, NEW before, Lists(s, S, before)
    PROVE  s # <<>> /\ Head(s) \in S
<1>1. Cardinality(S) \in Nat /\ Cardinality(S) # 0
  BY FS_CardinalityType, FS_EmptySet
<1>2. 1 \in 1 .. Cardinality(S) /\ s[1] \in S /\ DOMAIN s = 1 .. Cardinality(S)
  BY <1>1 DEF Lists
<1>3. s # <<>>
  <2>1. DOMAIN << >> = {}
    OBVIOUS
  <2> QED BY <1>2, <2>1
<1> QED BY <1>2, <1>3

LEMMA PoolSorted ==
    ASSUME NEW i, IsRegistry(i), NEW S \in SUBSET i.models
    PROVE  /\ IsFiniteSet(S)
           /\ Lists(Sorted(S, LargestContext(S)), S, KeyOrder(S, LargestContext(S)))
           /\ Lists(Sorted(S, SmallestAdequate(S)), S, KeyOrder(S, SmallestAdequate(S)))
           /\ Lists(Sorted(S, Cheapest(S)), S, KeyOrder(S, Cheapest(S)))
<1>1. IsFiniteSet(S)
  BY FS_Subset DEF IsRegistry
<1>2. \A m \in S : /\ m.id \in Int /\ m.context \in Int /\ -m.context \in Int
                   /\ Cost(m) \in Int
                   /\ (IF m.verified THEN 0 ELSE 1) \in Int
  BY RoutingAssumption DEF IsRegistry, IsModel, Cost
<1>3. \A m, n \in S : m.id = n.id => m = n
  BY DEF IsRegistry
<1>4. Orders(KeyOrder(S, LargestContext(S)), S)
  BY <1>2, <1>3, PairsOrder DEF LargestContext
<1>5. Orders(KeyOrder(S, SmallestAdequate(S)), S)
  BY <1>2, <1>3, TriplesOrder DEF SmallestAdequate
<1>6. Orders(KeyOrder(S, Cheapest(S)), S)
  BY <1>2, <1>3, TriplesOrder DEF Cheapest
<1> QED BY <1>1, <1>4, <1>5, <1>6, SortedLists

(* The models a request may be routed to that are verified, those it       *)
(* trusts, and the largest of these.                                       *)
Verified(q) == {m \in Pool(q) : m.verified}

Trusted(q) == IF Verified(q) # {} THEN Verified(q) ELSE Pool(q)

Largest(q) == {m \in Trusted(q) : \A n \in Trusted(q) : n.context <= m.context}

(* A route goes to a trusted model, and in high risk to the largest.       *)
LEMMA RouteTrusted ==
    ASSUME NEW q, IsRegistry(q), NEW r, r = RouteTask(q)
    PROVE  /\ Pool(q) = {} => r.model = Nothing
           /\ Pool(q) # {} => r.model \in Trusted(q)
           /\ Pool(q) # {} /\ q.task.risk = "high" => r.model \in Largest(q)
<1> DEFINE pool == Pool(q)
           trusted == Trusted(q)
           coders == {m \in Verified(q) : m.codeNamed}
           largest == Largest(q)
<1>1. /\ pool \in SUBSET q.models /\ trusted \in SUBSET q.models
      /\ coders \in SUBSET q.models /\ Verified(q) \in SUBSET q.models
      /\ largest \in SUBSET q.models
  BY DEF Pool, Trusted, Verified, Largest
<1>2. pool # {} => trusted # {}
  BY DEF Trusted
<1>3. trusted # {} => largest # {}
  <2> SUFFICES ASSUME trusted # {} PROVE largest # {}
    OBVIOUS
  <2> DEFINE s == Sorted(trusted, LargestContext(trusted))
  <2>1. IsFiniteSet(trusted)
        /\ Lists(s, trusted, KeyOrder(trusted, LargestContext(trusted)))
    BY <1>1, PoolSorted
  <2>2. Cardinality(trusted) \in Nat /\ Cardinality(trusted) # 0
    BY <2>1, FS_CardinalityType, FS_EmptySet
  <2> HIDE DEF s, trusted
  <2>3. 1 \in 1 .. Cardinality(trusted) /\ s[1] \in trusted
    BY <2>1, <2>2 DEF Lists
  <2>4. ASSUME NEW n \in trusted PROVE n.context <= s[1].context
    <3>1. PICK k \in 1 .. Cardinality(trusted) : s[k] = n
      BY <2>1 DEF Lists
    <3>2. /\ n.context \in Nat /\ s[1].context \in Nat
          /\ n.id \in Nat /\ s[1].id \in Nat
      BY <1>1, <2>3 DEF IsRegistry, IsModel
    <3>3. CASE k = 1
      BY <3>1, <3>2, <3>3
    <3>4. CASE k # 1
      <4>1. 1 < k
        BY <2>2, <3>4
      <4>2. <<s[1], n>> \in KeyOrder(trusted, LargestContext(trusted))
        BY <2>1, <2>3, <3>1, <4>1 DEF Lists
      <4>3. Before(<<-s[1].context, s[1].id>>, <<-n.context, n.id>>)
        BY <2>3, <4>2 DEF KeyOrder, LargestContext
      <4>4. /\ <<-s[1].context, s[1].id>> \in Int \X Int
            /\ <<-n.context, n.id>> \in Int \X Int
        BY <3>2
      <4>5. -s[1].context < -n.context \/ -s[1].context = -n.context
        BY <4>3, <4>4, BeforePair
      <4> QED BY <3>2, <4>5
    <3> QED BY <3>3, <3>4
  <2> QED BY <2>3, <2>4 DEF Largest, trusted
<1>4. r.model = IF r.candidates = <<>> THEN Nothing ELSE Head(r.candidates)
  BY DEF RouteTask
<1>5. r.candidates = Ranking(q).candidates
  BY DEF RouteTask
<1>6. CASE pool = {}
  <2>1. r.candidates = <<>>
    BY <1>5, <1>6 DEF Ranking
  <2> QED BY <1>4, <1>6, <2>1
<1>7. ASSUME pool # {} PROVE r.model \in trusted /\ (q.task.risk = "high" => r.model \in largest)
  <2>1. \E S \in SUBSET trusted :
          /\ S # {}
          /\ q.task.risk = "high" => S = largest
          /\ \/ r.candidates = Sorted(S, LargestContext(S))
             \/ r.candidates = Sorted(S, SmallestAdequate(S))
             \/ r.candidates = Sorted(S, Cheapest(S))
    <3>1. CASE q.task.risk = "high"
      <4>1. r.candidates = Sorted(largest, LargestContext(largest))
        BY <1>5, <1>7, <3>1 DEF Ranking, Largest, Trusted, Verified
      <4>2. largest \in SUBSET trusted
        BY DEF Largest
      <4> QED BY <1>2, <1>3, <1>7, <4>1, <4>2
    <3>2. CASE q.task.risk # "high" /\ q.task.kind = "code" /\ coders # {}
      <4>1. r.candidates = Sorted(coders, LargestContext(coders))
        BY <1>5, <1>7, <3>2 DEF Ranking, Verified
      <4>2. coders \in SUBSET trusted
        BY DEF Trusted
      <4> QED BY <3>2, <4>1, <4>2
    <3>3. CASE q.task.risk # "high" /\ ~(q.task.kind = "code" /\ coders # {})
               /\ q.task.kind = "docs" /\ Verified(q) # {}
      <4>1. r.candidates = Sorted(Verified(q), SmallestAdequate(Verified(q)))
        BY <1>5, <1>7, <3>3 DEF Ranking, Verified
      <4>2. Verified(q) \in SUBSET trusted
        BY <3>3 DEF Trusted
      <4> QED BY <3>3, <4>1, <4>2
    <3>4. CASE q.task.risk # "high" /\ ~(q.task.kind = "code" /\ coders # {})
               /\ ~(q.task.kind = "docs" /\ Verified(q) # {})
      <4>1. r.candidates = Sorted(trusted, Cheapest(trusted))
        BY <1>5, <1>7, <3>4 DEF Ranking, Verified, Trusted
      <4> QED BY <1>2, <1>7, <3>4, <4>1
    <3> QED BY <3>1, <3>2, <3>3, <3>4
  <2>2. PICK S \in SUBSET trusted :
          /\ S # {}
          /\ q.task.risk = "high" => S = largest
          /\ \/ r.candidates = Sorted(S, LargestContext(S))
             \/ r.candidates = Sorted(S, SmallestAdequate(S))
             \/ r.candidates = Sorted(S, Cheapest(S))
    BY <2>1
  <2>3. S \in SUBSET q.models
    BY <1>1, <2>2
  <2>4. IsFiniteSet(S) /\ \E b : Lists(r.candidates, S, b)
    BY <2>2, <2>3, PoolSorted
  <2>5. r.candidates # <<>> /\ Head(r.candidates) \in S
    BY <2>2, <2>4, ListHead
  <2> HIDE DEF trusted, largest
  <2> QED BY <1>4, <2>2, <2>5
<1> QED BY <1>6, <1>7

(* The pool is what RightRoute calls eligible.                             *)
LEMMA PoolEligible ==
    ASSUME NEW i, IsRegistry(i), NEW m \in i.models
    PROVE  m \in Pool(i) <=>
             LET p == i.providers[m.provider] IN
             /\ m.status # "retired" /\ p.enabled
             /\ CASE i.classification = "public" -> TRUE
                  [] i.classification = "internal" -> p.clearance # "public"
                  [] i.classification = "confidential" ->
                       p.clearance \in {"confidential", "restricted"}
                  [] i.classification = "restricted" ->
                       p.clearance = "restricted" /\ p.local
<1> DEFINE p == i.providers[m.provider]
<1>1. DOMAIN ClassRank = {"public", "internal", "confidential", "restricted"}
  BY DEF ClassRank
<1>2. /\ ClassRank["public"] = 0 /\ ClassRank["internal"] = 1
      /\ ClassRank["confidential"] = 2 /\ ClassRank["restricted"] = 3
  BY DEF ClassRank
<1>3. /\ i.classification \in DOMAIN ClassRank /\ p.clearance \in DOMAIN ClassRank
      /\ m.status \in Usable <=> m.status # "retired"
  BY DEF IsRegistry, IsModel, IsProvider, Usable
<1>4. m \in Pool(i) <=>
        /\ m.status \in Usable /\ p.enabled
        /\ ClassRank[p.clearance] >= ClassRank[i.classification]
        /\ i.classification = "restricted" => p.local
  BY DEF Pool
<1> HIDE DEF p
<1>5. m \in Pool(i) <=>
             /\ m.status # "retired" /\ p.enabled
             /\ CASE i.classification = "public" -> TRUE
                  [] i.classification = "internal" -> p.clearance # "public"
                  [] i.classification = "confidential" ->
                       p.clearance \in {"confidential", "restricted"}
                  [] i.classification = "restricted" ->
                       p.clearance = "restricted" /\ p.local
  <2>1. CASE i.classification = "public"
    BY <1>1, <1>2, <1>3, <1>4, <2>1
  <2>2. CASE i.classification = "internal"
    BY <1>1, <1>2, <1>3, <1>4, <2>2
  <2>3. CASE i.classification = "confidential"
    BY <1>1, <1>2, <1>3, <1>4, <2>3
  <2>4. CASE i.classification = "restricted"
    BY <1>1, <1>2, <1>3, <1>4, <2>4
  <2> QED BY <1>1, <1>3, <2>1, <2>2, <2>3, <2>4
<1> QED BY <1>5 DEF p

LEMMA RouteIsRight ==
    ASSUME NEW input, IsInput(input), NEW a,
           NEW i, i = [input EXCEPT !.task = Classify(input.task)],
           a = [input |-> input, route |-> RouteTask(i),
                escalated |-> RouteTask(Escalate(Escalate(i)))]
    PROVE  RightRoute(a)
<1> DEFINE k == Escalate(Escalate(i))
           m == RouteTask(i).model
           n == RouteTask(k).model
<1>1. /\ i.models = input.models /\ i.providers = input.providers
      /\ i.classification = input.classification
      /\ i.task = Classify(input.task)
      /\ i = [task |-> Classify(input.task), classification |-> input.classification,
              models |-> input.models, providers |-> input.providers]
  BY DEF IsInput
<1>2. /\ i.task.risk \in Risk
      /\ input.task.high => i.task.risk = "high"
      /\ i.task = [kind |-> i.task.kind, risk |-> i.task.risk,
                   mutating |-> i.task.mutating,
                   codeIntensive |-> i.task.codeIntensive]
  BY <1>1 DEF Classify, Risk, IsInput, Signals
<1>3. /\ k.models = i.models /\ k.providers = i.providers
      /\ k.classification = i.classification
      /\ k.task.risk = "high"
  <2> DEFINE e == Escalate(i)
  <2> DEFINE risk == IF i.task.risk = "low" THEN "medium" ELSE "high"
  <2>1. e = [task |-> [i.task EXCEPT !.risk = risk],
             classification |-> i.classification,
             models |-> i.models, providers |-> i.providers]
    <3>1. i = [task |-> i.task, classification |-> i.classification,
               models |-> i.models, providers |-> i.providers]
      BY <1>1
    <3>2. e = [i EXCEPT !.task.risk = risk]
      BY DEF Escalate
    <3> HIDE DEF e, risk
    <3> QED BY <3>1, <3>2
  <2>2. e.task.risk \in {"medium", "high"}
        /\ e.task = [i.task EXCEPT !.risk = IF i.task.risk = "low" THEN "medium" ELSE "high"]
    BY <1>2, <2>1
  <2>3. k = [e EXCEPT !.task.risk = "high"]
    BY <2>2 DEF Escalate
  <2> HIDE DEF e, k
  <2> QED BY <1>2, <2>1, <2>2, <2>3
<1>4. IsRegistry(input) /\ IsRegistry(i) /\ IsRegistry(k)
  BY <1>1, <1>3 DEF IsInput, IsRegistry
<1>5. Pool(i) = Pool(input) /\ Pool(k) = Pool(input)
  BY <1>1, <1>3 DEF Pool
<1>6. Trusted(i) = Trusted(input) /\ Trusted(k) = Trusted(input) /\ Largest(k) = Largest(input)
      /\ Largest(i) = Largest(input)
  BY <1>5 DEF Trusted, Verified, Largest
<1>7. /\ a.input = input /\ a.route.model = m /\ a.escalated.model = n
  OBVIOUS
<1>8. /\ Pool(input) = {} => m = Nothing /\ n = Nothing
      /\ Pool(input) # {} => m \in Trusted(input) /\ n \in Largest(input)
      /\ Pool(input) # {} /\ input.task.high => m \in Largest(input)
  BY <1>2, <1>3, <1>4, <1>5, <1>6, RouteTrusted
<1> HIDE DEF m, n
<1> DEFINE Eligible(x) ==
             LET p == a.input.providers[x.provider] IN
             /\ x.status # "retired" /\ p.enabled
             /\ CASE a.input.classification = "public" -> TRUE
                  [] a.input.classification = "internal" -> p.clearance # "public"
                  [] a.input.classification = "confidential" ->
                       p.clearance \in {"confidential", "restricted"}
                  [] a.input.classification = "restricted" ->
                       p.clearance = "restricted" /\ p.local
           Outdone(x, y) ==
             Eligible(y) /\ (y.verified \/ ~x.verified) /\ y.context > x.context
           Fits(x) == Eligible(x) /\ (x.verified \/ \A y \in a.input.models : Eligible(y) => ~y.verified)
           Strong(x) == Fits(x) /\ \A y \in a.input.models : ~Outdone(x, y)
<1>9. \A x \in a.input.models : Eligible(x) <=> x \in Pool(input)
  BY <1>4, <1>7, PoolEligible
<1> HIDE DEF Eligible
<1>10. Pool(input) \subseteq a.input.models
  BY <1>7 DEF Pool
<1>11. ASSUME NEW x \in Trusted(input) PROVE x \in a.input.models /\ Fits(x)
  BY <1>9, <1>10 DEF Trusted, Verified
<1>12. ASSUME NEW x \in Largest(input) PROVE x \in a.input.models /\ Strong(x)
  <2>1. x \in Trusted(input) /\ \A y \in Trusted(input) : y.context <= x.context
    BY DEF Largest
  <2>2. \A y \in a.input.models : y.context \in Nat
    BY <1>4, <1>7 DEF IsRegistry, IsModel
  <2>3. \A y \in a.input.models : Eligible(y) /\ (y.verified \/ ~x.verified) => y \in Trusted(input)
    BY <1>9, <2>1 DEF Trusted, Verified
  <2> QED BY <1>11, <2>1, <2>2, <2>3
<1>13. CASE Pool(input) = {}
  <2>1. ~(\E x \in a.input.models : Eligible(x))
    BY <1>9, <1>13
  <2> QED BY <1>7, <1>8, <1>13, <2>1 DEF RightRoute, Eligible
<1>14. CASE Pool(input) # {}
  <2>1. \E x \in a.input.models : Eligible(x)
    BY <1>9, <1>10, <1>14
  <2>2. /\ m \in a.input.models /\ Fits(m) /\ (input.task.high => Strong(m))
        /\ n \in a.input.models /\ Strong(n)
    <3> HIDE DEF Fits, Strong
    <3> QED BY <1>8, <1>11, <1>12, <1>14 DEF Largest
  <2>3. n.context >= m.context
    BY <1>4, <1>7, <1>8, <1>10, <1>14, <2>2 DEF Largest, IsRegistry, IsModel
  <2>4. \E x, y \in a.input.models :
          /\ x = a.route.model /\ Fits(x)
          /\ a.input.task.high => Strong(x)
          /\ y = a.escalated.model /\ Strong(y) /\ y.context >= x.context
    <3> HIDE DEF Fits, Strong
    <3> QED BY <1>7, <2>2, <2>3
  <2> QED BY <2>1, <2>4, Zenon DEF RightRoute, Eligible
<1> QED BY <1>13, <1>14

-----------------------------------------------------------------------------
(* Debates.                                                                *)

LEMMA ChoiceType ==
    ASSUME NEW x \in Answer
    PROVE  ChoiceOf(x) \in Nat \cup {Nothing}
<1> DEFINE found == {i \in DOMAIN ChoiceKeywords : ChoiceKeywords[i] \in x.words}
           first == CHOOSE i \in found : \A j \in found : i <= j
<1>1. DOMAIN ChoiceKeywords = 1 .. 6 /\ \A i \in 1 .. 6 : ChoiceKeywords[i] \in Nat
  BY DEF ChoiceKeywords
<1>2. x.verdict \in Nat \cup {Nothing}
  BY DEF Answer
<1>3. CASE found = {}
  BY <1>2, <1>3 DEF ChoiceOf
<1>4. CASE found # {}
  <2>1. found \subseteq 1 .. 6
    BY <1>1
  <2> HIDE DEF found
  <2>2. \E i \in found : \A j \in found : i <= j
    BY <1>4, <2>1, LeastNumber
  <2>3. first \in found
    BY <2>2
  <2>4. ChoiceKeywords[first] \in Nat
    BY <1>1, <2>1, <2>3
  <2> QED BY <1>2, <1>4, <2>4 DEF ChoiceOf, found
<1> QED BY <1>3, <1>4

(* The choices of a debate are a finite set of numbers, each with a number *)
(* of votes.                                                               *)
LEMMA TallyType ==
    ASSUME NEW answers \in Seq(Answer)
    PROVE  /\ Chosen(answers) \subseteq Nat
           /\ IsFiniteSet(Chosen(answers))
           /\ \A c : Votes(answers, c) \in Nat
<1>1. /\ DOMAIN answers = 1 .. Len(answers) /\ Len(answers) \in Nat
      /\ \A i \in DOMAIN answers : answers[i] \in Answer
  OBVIOUS
<1>2. IsFiniteSet(DOMAIN answers)
  BY <1>1, FS_Interval
<1>3. Chosen(answers) \subseteq Nat
  BY <1>1, ChoiceType DEF Chosen
<1>4. IsFiniteSet(Chosen(answers))
  <2> DEFINE all == {ChoiceOf(answers[i]) : i \in DOMAIN answers}
             f == [i \in DOMAIN answers |-> ChoiceOf(answers[i])]
  <2>1. f \in Surjection(DOMAIN answers, all)
    BY DEF Surjection
  <2>2. IsFiniteSet(all)
    BY <1>2, <2>1, FS_Surjection
  <2>3. Chosen(answers) \subseteq all
    BY DEF Chosen
  <2> QED BY <2>2, <2>3, FS_Subset
<1>5. ASSUME NEW c PROVE Votes(answers, c) \in Nat
  <2>1. IsFiniteSet({i \in DOMAIN answers : ChoiceOf(answers[i]) = c})
    BY <1>2, FS_Subset
  <2> QED BY <2>1, FS_CardinalityType DEF Votes
<1> QED BY <1>3, <1>4, <1>5

(* The ranking lists every choice once, and no choice has more votes than  *)
(* one ranked before it.                                                   *)
LEMMA RankedVotes ==
    ASSUME NEW answers \in Seq(Answer), NEW r, r = Ranked(answers)
    PROVE  /\ r \in Seq(Chosen(answers))
           /\ \A c \in Chosen(answers) : \E i \in 1 .. Len(r) : r[i] = c
           /\ \A i, j \in 1 .. Len(r) : i < j =>
                r[i] # r[j] /\ Votes(answers, r[i]) >= Votes(answers, r[j])
<1> DEFINE C == Chosen(answers)
           key == [c \in C |-> <<-Votes(answers, c), c>>]
           before == KeyOrder(C, key)
<1>1. C \subseteq Nat /\ IsFiniteSet(C) /\ \A c : Votes(answers, c) \in Nat
  BY TallyType
<1>2. \A c \in C : key[c] = <<-Votes(answers, c), c>> /\ key[c] \in Int \X Int
  BY <1>1
<1>3. \A c, d \in C : <<c, d>> \in before =>
        c # d /\ Votes(answers, c) >= Votes(answers, d)
  <2> TAKE c, d \in C
  <2> HAVE <<c, d>> \in before
  <2>1. Before(key[c], key[d])
    BY DEF KeyOrder
  <2>2. key[c][1] < key[d][1] \/ (key[c][1] = key[d][1] /\ key[c][2] < key[d][2])
    BY <1>2, <2>1, BeforePair
  <2>3. /\ key[c][1] = -Votes(answers, c) /\ key[c][2] = c
        /\ key[d][1] = -Votes(answers, d) /\ key[d][2] = d
    BY <1>2
  <2>4. Votes(answers, c) \in Nat /\ Votes(answers, d) \in Nat /\ c \in Nat /\ d \in Nat
    BY <1>1
  <2> HIDE DEF key
  <2> QED BY <2>2, <2>3, <2>4
<1>4. Orders(before, C)
  <2>1. \A c, d \in C : key[c][2] = key[d][2] => c = d
    BY <1>2
  <2> HIDE DEF key, C
  <2> QED BY <1>2, <2>1, PairsOrder
<1>5. Lists(r, C, before)
  <2>1. r = Sorted(C, key)
    BY DEF Ranked
  <2> HIDE DEF key, C
  <2> QED BY <1>1, <1>4, <2>1, SortedLists
<1>6. Cardinality(C) \in Nat
  BY <1>1, FS_CardinalityType
<1> HIDE DEF key, C, before
<1>7. r \in Seq(C) /\ Len(r) = Cardinality(C)
  BY <1>5, <1>6 DEF Lists
<1>8. \A i \in 1 .. Len(r) : r[i] \in C
  BY <1>7
<1>9. \A c \in C : \E i \in 1 .. Len(r) : r[i] = c
  BY <1>5, <1>7 DEF Lists
<1>10. \A i, j \in 1 .. Len(r) : i < j => <<r[i], r[j]>> \in before
  BY <1>5, <1>7 DEF Lists
<1>11. \A i, j \in 1 .. Len(r) : i < j =>
          r[i] # r[j] /\ Votes(answers, r[i]) >= Votes(answers, r[j])
  BY <1>3, <1>8, <1>10
<1> QED BY <1>7, <1>9, <1>11 DEF C

LEMMA VoteIsFair ==
    ASSUME NEW answers \in Seq(Answer)
    PROVE  FairVote(answers, DebateVote(answers))
<1> DEFINE C == Chosen(answers)
           V(c) == Votes(answers, c)
           r == Ranked(answers)
           vote == DebateVote(answers)
<1>1. /\ r \in Seq(C)
      /\ \A c \in C : \E i \in 1 .. Len(r) : r[i] = c
      /\ \A i, j \in 1 .. Len(r) : i < j => r[i] # r[j] /\ V(r[i]) >= V(r[j])
  BY RankedVotes
<1>2. \A c : V(c) \in Nat
  BY TallyType
<1>3. TopTie(answers) <=> (r = <<>> \/ (Len(r) > 1 /\ V(r[1]) = V(r[2])))
  BY DEF TopTie
<1>4. /\ TopTie(answers) => vote.decidedBy = "tie"
      /\ ~TopTie(answers) => vote.decidedBy # "tie" /\ vote.winner = r[1]
  BY DEF DebateVote
<1> HIDE DEF r, V, C, vote
<1>5. Len(r) \in Nat /\ (r = <<>> <=> Len(r) = 0) /\ \A i \in 1 .. Len(r) : r[i] \in C
  BY <1>1
<1>6. CASE r = <<>>
  <2>1. C = {}
    BY <1>1, <1>5, <1>6
  <2> QED BY <1>3, <1>4, <1>6, <2>1 DEF FairVote, C, vote
<1>7. CASE Len(r) > 1 /\ V(r[1]) = V(r[2])
  <2>1. 1 \in 1 .. Len(r) /\ 2 \in 1 .. Len(r)
    BY <1>5, <1>7
  <2>2. r[1] \in C /\ r[2] \in C /\ r[1] # r[2]
    BY <1>1, <1>5, <2>1
  <2>3. ASSUME NEW c \in C PROVE \E d \in C \ {c} : ~(V(c) > V(d))
    <3>1. CASE c = r[1]
      BY <1>2, <1>7, <2>2, <3>1
    <3>2. CASE c # r[1]
      <4>1. PICK i \in 1 .. Len(r) : r[i] = c
        BY <1>1
      <4>2. 1 < i
        BY <1>5, <3>2, <4>1
      <4>3. V(r[1]) >= V(c)
        BY <1>1, <2>1, <4>1, <4>2
      <4> QED BY <1>2, <2>2, <3>2, <4>3
    <3> QED BY <3>1, <3>2
  <2> QED BY <1>3, <1>4, <1>7, <2>3 DEF FairVote, C, V, vote
<1>8. CASE r # <<>> /\ ~(Len(r) > 1 /\ V(r[1]) = V(r[2]))
  <2>1. 1 \in 1 .. Len(r) /\ r[1] \in C
    BY <1>5, <1>8
  <2>2. ASSUME NEW d \in C \ {r[1]} PROVE V(r[1]) > V(d)
    <3>1. PICK i \in 1 .. Len(r) : r[i] = d
      BY <1>1
    <3>2. 1 < i /\ 2 \in 1 .. Len(r)
      BY <1>5, <3>1
    <3>3. V(r[1]) >= V(r[2]) /\ V(r[1]) # V(r[2])
      BY <1>1, <1>5, <1>8, <2>1, <3>2
    <3>4. V(r[2]) >= V(d)
      <4>1. CASE i = 2
        BY <1>2, <3>1, <4>1
      <4>2. CASE i # 2
        <5>1. 2 < i
          BY <1>5, <3>2, <4>2
        <5> QED BY <1>1, <3>1, <3>2, <5>1
      <4> QED BY <4>1, <4>2
    <3> QED BY <1>2, <3>3, <3>4
  <2> QED BY <1>3, <1>4, <1>8, <2>1, <2>2 DEF FairVote, C, V, vote
<1> QED BY <1>6, <1>7, <1>8

-----------------------------------------------------------------------------

(* Whatever is asked and whatever the registry holds, routeTask gives a    *)
(* model the task may go to, a verified one if there is one, the largest   *)
(* of those when the risk is high, and so does a route escalated twice; it *)
(* gives none only when none is eligible.                                  *)
THEOREM RoutesAreRight == ContextSpec => []RouteRight
<1>1. ContextInit => RouteRight
  BY DEF ContextInit, RouteRight
<1>2. RouteRight /\ [ContextNext]_contextVars => RouteRight'
  <2> SUFFICES ASSUME RouteRight, [ContextNext]_contextVars PROVE RouteRight'
    OBVIOUS
  <2>1. CASE UNCHANGED answer
    BY <2>1 DEF RouteRight
  <2>2. ASSUME NEW input \in Inputs, Route(input) PROVE RouteRight'
    <3>1. IsInput(input)
      BY ContextAssumption
    <3>2. RightRoute(answer')
      BY <2>2, <3>1, RouteIsRight DEF Route
    <3> QED BY <3>2 DEF RouteRight
  <2>3. ASSUME NEW answers \in Debates, Debate(answers) PROVE RouteRight'
    <3>1. DOMAIN answer' = {"answers", "vote"}
      BY <2>3 DEF Debate
    <3> QED BY <3>1 DEF RouteRight
  <2>4. CASE Reply
    BY <2>4 DEF Reply, RouteRight
  <2>5. ContextBuild => UNCHANGED answer
    BY DEF ContextBuild, Start, NextDir, Visit, Read, Index, PackNext, Packed
  <2>6. \A p \in Paths, node \in Node : Change(p, node) => UNCHANGED answer
    BY DEF Change
  <2> QED BY <2>1, <2>2, <2>3, <2>4, <2>5, <2>6 DEF ContextNext, Ask, contextVars
<1> QED BY <1>1, <1>2, PTL DEF ContextSpec

(* Whatever answers a debate collects, debateVote gives a winner exactly   *)
(* when one choice has more votes than every other.                        *)
THEOREM DebatesAreFair == ContextSpec => []DebateFair
<1>1. ContextInit => DebateFair
  BY DEF ContextInit, DebateFair
<1>2. DebateFair /\ [ContextNext]_contextVars => DebateFair'
  <2> SUFFICES ASSUME DebateFair, [ContextNext]_contextVars PROVE DebateFair'
    OBVIOUS
  <2>1. CASE UNCHANGED answer
    BY <2>1 DEF DebateFair
  <2>2. ASSUME NEW input \in Inputs, Route(input) PROVE DebateFair'
    <3>1. DOMAIN answer' = {"input", "route", "escalated"}
      BY <2>2 DEF Route
    <3> QED BY <3>1 DEF DebateFair
  <2>3. ASSUME NEW answers \in Debates, Debate(answers) PROVE DebateFair'
    <3>1. answers \in Seq(Answer)
      BY ContextAssumption
    <3>2. FairVote(answer'.answers, answer'.vote)
      BY <2>3, <3>1, VoteIsFair DEF Debate
    <3> QED BY <3>2 DEF DebateFair
  <2>4. CASE Reply
    BY <2>4 DEF Reply, DebateFair
  <2>5. ContextBuild => UNCHANGED answer
    BY DEF ContextBuild, Start, NextDir, Visit, Read, Index, PackNext, Packed
  <2>6. \A p \in Paths, node \in Node : Change(p, node) => UNCHANGED answer
    BY DEF Change
  <2> QED BY <2>1, <2>2, <2>3, <2>4, <2>5, <2>6 DEF ContextNext, Ask, contextVars
<1> QED BY <1>1, <1>2, PTL DEF ContextSpec

-----------------------------------------------------------------------------
(* Folds.                                                                  *)

LEMMA MaxOf ==
    ASSUME NEW n \in Nat, NEW t \in SUBSET (1 .. n), t # {}
    PROVE  Max(t) \in t /\ \A x \in t : x <= Max(t)
<1> DEFINE bounds == {b \in Nat : \A x \in t : x <= b}
<1>1. n \in bounds
  OBVIOUS
<1>2. PICK b \in bounds : \A c \in bounds : b <= c
  <2> HIDE DEF bounds
  <2>1. bounds \in SUBSET Nat
    BY DEF bounds
  <2> QED BY <1>1, <2>1, LeastNumber
<1>3. b \in t
  <2> SUFFICES ASSUME b \notin t PROVE FALSE
    OBVIOUS
  <2>1. b # 0 /\ b \in Nat
    <3>1. PICK x \in t : TRUE
      OBVIOUS
    <3> QED BY <3>1
  <2>2. b - 1 \in bounds
    BY <2>1
  <2> QED BY <1>2, <2>1, <2>2
<1>4. b \in t /\ \A x \in t : b >= x
  BY <1>3
<1>5. Max(t) \in t /\ \A x \in t : Max(t) >= x
  BY <1>4 DEF Max
<1>6. \A x \in t : x \in Int
  OBVIOUS
<1> QED BY <1>5, <1>6

(* The equation a fold over a sequence is computed by: what it is for each *)
(* set of places.                                                          *)
Unfolds(h, s, n, base, op) ==
    h = [t \in SUBSET (1 .. n) |->
            IF t = {} THEN base ELSE op[<<h[t \ {Max(t)}], s[Max(t)]>>]]

(* The equation has a solution, whatever the number of places.             *)
LEMMA FoldsExist ==
    ASSUME NEW A, NEW E, NEW op \in [A \X E -> A], NEW base \in A,
           NEW s \in Seq(E)
    PROVE  \E h \in [SUBSET (1 .. Len(s)) -> A] : Unfolds(h, s, Len(s), base, op)
<1> DEFINE P(n) == \E h \in [SUBSET (1 .. n) -> A] : Unfolds(h, s, n, base, op)
           N == Len(s)
           bad == {n \in 0 .. N : ~P(n)}
<1>1. P(0)
  <2> DEFINE h == [t \in SUBSET (1 .. 0) |-> base]
  <2>1. 1 .. 0 = {}
    OBVIOUS
  <2>2. \A t \in SUBSET (1 .. 0) : t = {}
    BY <2>1
  <2>3. h = [t \in SUBSET (1 .. 0) |->
                IF t = {} THEN base ELSE op[<<h[t \ {Max(t)}], s[Max(t)]>>]]
    BY <2>2
  <2> QED BY <2>3 DEF Unfolds
<1>2. ASSUME NEW n \in 1 .. N, P(n - 1) PROVE P(n)
  <2>0. n \in Nat /\ n - 1 \in Nat /\ (1 .. n) \ {n} = 1 .. n - 1
    OBVIOUS
  <2>1. PICK h \in [SUBSET (1 .. n - 1) -> A] : Unfolds(h, s, n - 1, base, op)
    BY <1>2
  <2> DEFINE g == [t \in SUBSET (1 .. n) |->
                    IF n \in t THEN op[<<h[t \ {n}], s[n]>>] ELSE h[t]]
  <2>2. \A t \in SUBSET (1 .. n) : t \ {n} \in SUBSET (1 .. n - 1)
    BY <2>0
  <2>3. \A t \in SUBSET (1 .. n) : n \notin t => t \in SUBSET (1 .. n - 1)
    BY <2>0
  <2>4. \A t \in SUBSET (1 .. n - 1) : t \in SUBSET (1 .. n) /\ n \notin t /\ g[t] = h[t]
    BY <2>0
  <2>5. s[n] \in E /\ \A t \in SUBSET (1 .. n) : h[t \ {n}] \in A
    BY <2>2
  <2>6. g \in [SUBSET (1 .. n) -> A]
    BY <2>1, <2>2, <2>3, <2>5
  <2>7. ASSUME NEW t \in SUBSET (1 .. n)
        PROVE  g[t] = IF t = {} THEN base ELSE op[<<g[t \ {Max(t)}], s[Max(t)]>>]
    <3>1. CASE n \in t
      <4>1. Max(t) = n
        <5>1. t # {} /\ n \in Nat /\ t \in SUBSET (1 .. n)
          BY <2>0, <3>1
        <5>2. Max(t) \in t /\ \A x \in t : x <= Max(t)
          <6> HIDE DEF g
          <6> QED BY <5>1, MaxOf
        <5>3. n <= Max(t)
          BY <3>1, <5>2
        <5>4. Max(t) \in 1 .. n
          BY <5>2
        <5> HIDE DEF g, P, N
        <5> QED BY <2>0, <5>3, <5>4
      <4>2. g[t] = op[<<h[t \ {n}], s[n]>>]
        BY <3>1
      <4>3. g[t \ {n}] = h[t \ {n}]
        BY <2>2, <2>4
      <4> HIDE DEF g
      <4> QED BY <3>1, <4>1, <4>2, <4>3
    <3>2. CASE n \notin t
      <4>1. t \in SUBSET (1 .. n - 1) /\ g[t] = h[t]
        BY <2>3, <2>4, <3>2
      <4>2. h[t] = IF t = {} THEN base ELSE op[<<h[t \ {Max(t)}], s[Max(t)]>>]
        BY <2>1, <4>1 DEF Unfolds
      <4>3. g[t \ {Max(t)}] = h[t \ {Max(t)}]
        <5>1. t \ {Max(t)} \in SUBSET (1 .. n - 1)
          BY <4>1
        <5> QED BY <2>4, <5>1
      <4> HIDE DEF g
      <4> QED BY <4>1, <4>2, <4>3
    <3> QED BY <3>1, <3>2
  <2>8. Unfolds(g, s, n, base, op)
    <3> HIDE DEF g
    <3> QED BY <2>6, <2>7 DEF Unfolds
  <2> HIDE DEF g
  <2> QED BY <2>6, <2>8
<1>3. bad = {}
  <2> SUFFICES ASSUME bad # {} PROVE FALSE
    OBVIOUS
  <2>1. bad \in SUBSET Nat
    OBVIOUS
  <2> HIDE DEF P
  <2>2. PICK n \in bad : \A m \in bad : n <= m
    BY <2>1, LeastNumber
  <2>3. n # 0 /\ n \in 1 .. N
    BY <1>1, <2>2
  <2>4. n - 1 \notin bad /\ n - 1 \in 0 .. N
    BY <2>2, <2>3
  <2> QED BY <1>2, <2>2, <2>3, <2>4
<1>4. N \in 0 .. N
  OBVIOUS
<1> HIDE DEF P, N
<1>5. P(N)
  BY <1>3, <1>4
<1> QED BY <1>5 DEF P, N

(* Read along the prefixes a solution is the course of the fold.           *)
Prefixed(h, s, n, base, op) ==
    /\ h[{}] = base
    /\ \A k \in 1 .. n : h[1 .. k] = op[<<h[1 .. k - 1], s[k]>>]

LEMMA FoldsCourse ==
    ASSUME NEW s, NEW n \in Nat, NEW base, NEW op, NEW h, Unfolds(h, s, n, base, op)
    PROVE  Prefixed(h, s, n, base, op)
<1>1. \A t \in SUBSET (1 .. n) :
        h[t] = IF t = {} THEN base ELSE op[<<h[t \ {Max(t)}], s[Max(t)]>>]
  BY DEF Unfolds
<1>2. h[{}] = base
  BY <1>1
<1>3. ASSUME NEW k \in 1 .. n PROVE h[1 .. k] = op[<<h[1 .. k - 1], s[k]>>]
  <2>1. 1 .. k \in SUBSET (1 .. n) /\ k \in 1 .. k
    OBVIOUS
  <2>2. Max(1 .. k) = k
    <3>1. Max(1 .. k) \in 1 .. k /\ \A x \in 1 .. k : x <= Max(1 .. k)
      BY <2>1, MaxOf
    <3> QED BY <2>1, <3>1
  <2>3. (1 .. k) \ {k} = 1 .. k - 1
    OBVIOUS
  <2>4. 1 .. k # {}
    BY <2>1
  <2> QED BY <1>1, <2>1, <2>2, <2>3, <2>4
<1> QED BY <1>2, <1>3 DEF Prefixed

-----------------------------------------------------------------------------
(* The token budget.                                                       *)

ChunkOf == [path : Paths, tokens : Nat]

(* What a fold over the chunks returns is the end of its course.           *)
Course(g, s, A, base, op) ==
    /\ g \in [0 .. Len(s) -> A]
    /\ g[0] = base
    /\ \A k \in 1 .. Len(s) : g[k] = op[<<g[k - 1], s[k]>>]

(* A solution of the recursion and the course of the fold agree.           *)
Solved(h, g, s, A, base, op) ==
    /\ h \in [SUBSET (1 .. Len(s)) -> A]
    /\ Unfolds(h, s, Len(s), base, op)
    /\ Course(g, s, A, base, op)
    /\ \A k \in 0 .. Len(s) : g[k] = h[1 .. k]

LEMMA CourseExists ==
    ASSUME NEW A, NEW E, NEW op \in [A \X E -> A], NEW base \in A,
           NEW s \in Seq(E)
    PROVE  \E h, g : Solved(h, g, s, A, base, op)
<1> DEFINE N == Len(s)
<1>1. PICK h \in [SUBSET (1 .. N) -> A] : Unfolds(h, s, N, base, op)
  BY FoldsExist
<1> DEFINE g == [k \in 0 .. N |-> h[1 .. k]]
<1>2. N \in Nat /\ N = Len(s)
  OBVIOUS
<1> HIDE DEF N
<1>3. h[{}] = base /\ \A k \in 1 .. N : h[1 .. k] = op[<<h[1 .. k - 1], s[k]>>]
  <2>1. N \in Nat /\ Unfolds(h, s, N, base, op)
    BY <1>1, <1>2
  <2>2. Prefixed(h, s, N, base, op)
    BY <2>1, FoldsCourse
  <2> QED BY <2>2 DEF Prefixed
<1>4. g[0] = base
  <2>1. 1 .. 0 = {} /\ 0 \in 0 .. N
    BY <1>2
  <2> QED BY <1>3, <2>1
<1>5. \A k \in 1 .. N : g[k] = op[<<g[k - 1], s[k]>>]
  <2> TAKE k \in 1 .. N
  <2>1. k \in 0 .. N /\ k - 1 \in 0 .. N
    BY <1>2
  <2> QED BY <1>3, <2>1
<1>6. g \in [0 .. N -> A]
  <2>1. \A k \in 0 .. N : 1 .. k \in SUBSET (1 .. N)
    BY <1>2
  <2> QED BY <1>1, <2>1
<1>7. \A k \in 0 .. N : g[k] = h[1 .. k]
  OBVIOUS
<1> HIDE DEF g
<1>8. Course(g, s, A, base, op)
  BY <1>2, <1>4, <1>5, <1>6 DEF Course
<1>9. Solved(h, g, s, A, base, op)
  BY <1>1, <1>7, <1>8 DEF N, Solved
<1> QED BY <1>9

LEMMA PrefixMax ==
    ASSUME NEW n \in Nat, NEW k \in 1 .. n
    PROVE  /\ 1 .. k \in SUBSET (1 .. n) /\ 1 .. k # {}
           /\ Max(1 .. k) = k
           /\ (1 .. k) \ {k} = 1 .. k - 1
<1>1. 1 .. k \in SUBSET (1 .. n) /\ k \in 1 .. k
  OBVIOUS
<1>2. Max(1 .. k) \in 1 .. k /\ \A x \in 1 .. k : x <= Max(1 .. k)
  BY <1>1, MaxOf
<1>3. Max(1 .. k) = k
  BY <1>1, <1>2
<1>4. (1 .. k) \ {k} = 1 .. k - 1
  OBVIOUS
<1> QED BY <1>1, <1>3, <1>4

(* The step of the fold that adds up tokens, and what that fold chooses.   *)
Plus == [x \in Nat \X ChunkOf |-> x[1] + x[2].tokens]

TokensIter(s) ==
    CHOOSE h : h =
        [t \in SUBSET DOMAIN s |->
            IF t = {} THEN 0 ELSE h[t \ {Max(t)}] + s[Max(t)].tokens]

LEMMA TokensIterated ==
    ASSUME NEW s
    PROVE  TokensOf(s) = TokensIter(s)[DOMAIN s]
  BY DEF TokensOf, FoldLeft, MapThenFoldSet, TokensIter

LEMMA TokensCourse ==
    ASSUME NEW s \in Seq(ChunkOf)
    PROVE  \E g : Course(g, s, Nat, 0, Plus) /\ TokensOf(s) = g[Len(s)]
<1> DEFINE N == Len(s)
           Iter == TokensIter(s)
<1>1. TokensOf(s) = Iter[1 .. N] /\ DOMAIN s = 1 .. N /\ N \in Nat
  BY TokensIterated
<1>2. \A k \in 1 .. N : s[k] \in ChunkOf
  OBVIOUS
<1>3. Plus \in [Nat \X ChunkOf -> Nat]
  BY DEF Plus, ChunkOf
<1>4. PICK h, g : /\ h \in [SUBSET (1 .. N) -> Nat]
                  /\ Unfolds(h, s, N, 0, Plus)
                  /\ Course(g, s, Nat, 0, Plus)
                  /\ \A k \in 0 .. N : g[k] = h[1 .. k]
  <2>1. 0 \in Nat
    OBVIOUS
  <2>2. PICK h, g : Solved(h, g, s, Nat, 0, Plus)
    BY <1>3, <2>1, CourseExists
  <2> QED BY <2>2 DEF N, Solved
<1> HIDE DEF N
<1>5. ASSUME NEW t \in SUBSET (1 .. N), t # {}
      PROVE  Max(t) \in 1 .. N /\ t \ {Max(t)} \in SUBSET (1 .. N)
  <2>1. Max(t) \in t
    BY <1>1, <1>5, MaxOf
  <2> QED BY <2>1
<1>6. h = [t \in SUBSET DOMAIN s |->
                  IF t = {} THEN 0 ELSE h[t \ {Max(t)}] + s[Max(t)].tokens]
  <2>1. ASSUME NEW t \in SUBSET (1 .. N), t # {}
        PROVE Plus[<<h[t \ {Max(t)}], s[Max(t)]>>] = h[t \ {Max(t)}] + s[Max(t)].tokens
    <3>1. h[t \ {Max(t)}] \in Nat /\ s[Max(t)] \in ChunkOf
      BY <1>2, <1>4, <1>5, <2>1
    <3> QED BY <3>1 DEF Plus
  <2>2. h = [t \in SUBSET (1 .. N) |->
                  IF t = {} THEN 0 ELSE Plus[<<h[t \ {Max(t)}], s[Max(t)]>>]]
    BY <1>4 DEF Unfolds
  <2> QED BY <1>1, <2>1, <2>2
<1>7. Iter = [t \in SUBSET DOMAIN s |->
                  IF t = {} THEN 0 ELSE Iter[t \ {Max(t)}] + s[Max(t)].tokens]
  BY <1>6 DEF TokensIter
<1> HIDE DEF Iter
<1>8. Iter[{}] = 0 /\ \A k \in 1 .. N : Iter[1 .. k] = Iter[1 .. k - 1] + s[k].tokens
  <2>1. {} \in SUBSET DOMAIN s
    OBVIOUS
  <2>2. ASSUME NEW k \in 1 .. N PROVE Iter[1 .. k] = Iter[1 .. k - 1] + s[k].tokens
    <3>1. /\ 1 .. k \in SUBSET DOMAIN s /\ 1 .. k # {}
          /\ Max(1 .. k) = k /\ (1 .. k) \ {k} = 1 .. k - 1
      BY <1>1, PrefixMax
    <3> QED BY <1>7, <3>1
  <2> QED BY <1>7, <2>1, <2>2
<1>9. g[0] = 0 /\ \A k \in 1 .. N : g[k - 1] \in Nat /\ g[k] = g[k - 1] + s[k].tokens
  <2>1. \A k \in 1 .. N : g[k - 1] \in Nat
    BY <1>1, <1>4 DEF Course, N
  <2> QED BY <1>2, <1>4, <2>1 DEF Course, Plus, N
<1> DEFINE bad == {k \in 0 .. N : g[k] # Iter[1 .. k]}
<1>10. bad = {}
  <2> SUFFICES ASSUME bad # {} PROVE FALSE
    OBVIOUS
  <2>1. bad \in SUBSET Nat
    BY <1>1
  <2>2. PICK k \in bad : \A m \in bad : k <= m
    <3> HIDE DEF bad
    <3> QED BY <2>1, LeastNumber
  <2>3. k # 0
    <3>1. 1 .. 0 = {}
      OBVIOUS
    <3> QED BY <1>8, <1>9, <2>2, <3>1
  <2>4. k \in 1 .. N /\ k - 1 \in 0 .. N /\ ~(k <= k - 1)
    BY <1>1, <2>2, <2>3
  <2>5. g[k - 1] = Iter[1 .. k - 1]
    BY <2>2, <2>4
  <2> QED BY <1>8, <1>9, <2>2, <2>4, <2>5
<1>11. g[N] = Iter[1 .. N]
  BY <1>1, <1>10
<1> QED BY <1>1, <1>4, <1>11 DEF N

LEMMA TokensNone == TokensOf(<<>>) = 0
<1>1. << >> \in Seq(ChunkOf) /\ Len(<< >>) = 0
  OBVIOUS
<1> QED BY <1>1, TokensCourse DEF Course

(* The tokens of the chunks and of one more.                               *)
LEMMA TokensAppend ==
    ASSUME NEW s \in Seq(ChunkOf), NEW c \in ChunkOf
    PROVE  /\ TokensOf(s) \in Nat
           /\ TokensOf(Append(s, c)) = TokensOf(s) + c.tokens
<1> DEFINE a == Append(s, c)
<1>0. a \in Seq(ChunkOf) /\ Len(a) = Len(s) + 1
      /\ Len(s) \in Nat /\ (\A k \in 1 .. Len(s) : a[k] = s[k] /\ s[k] \in ChunkOf) /\ a[Len(a)] = c
  OBVIOUS
<1> HIDE DEF a
<1>2. PICK g : Course(g, s, Nat, 0, Plus) /\ TokensOf(s) = g[Len(s)]
  BY TokensCourse
<1>3. PICK f : Course(f, a, Nat, 0, Plus) /\ TokensOf(a) = f[Len(a)]
  BY <1>0, TokensCourse
<1>4. g[Len(s)] \in Nat
  BY <1>0, <1>2 DEF Course
<1> DEFINE bad == {k \in 0 .. Len(s) : g[k] # f[k]}
<1>5. bad = {}
  <2> SUFFICES ASSUME bad # {} PROVE FALSE
    OBVIOUS
  <2>1. bad \in SUBSET Nat
    BY <1>0
  <2>2. PICK k \in bad : \A m \in bad : k <= m
    <3> HIDE DEF bad
    <3> QED BY <2>1, LeastNumber
  <2>3. k # 0
    BY <1>2, <1>3, <2>2 DEF Course
  <2>4. k \in 1 .. Len(s) /\ k \in 1 .. Len(a) /\ k - 1 \in 0 .. Len(s) /\ ~(k <= k - 1)
    BY <1>0, <2>2, <2>3
  <2>5. g[k - 1] = f[k - 1] /\ a[k] = s[k]
    BY <1>0, <2>2, <2>4
  <2>6. g[k] = Plus[<<g[k - 1], s[k]>>] /\ f[k] = Plus[<<f[k - 1], a[k]>>]
    BY <1>2, <1>3, <2>4 DEF Course
  <2> QED BY <2>2, <2>5, <2>6
<1>6. f[Len(a)] = Plus[<<f[Len(s)], c>>] /\ f[Len(s)] = g[Len(s)]
  <2>1. Len(a) \in 1 .. Len(a) /\ Len(a) - 1 = Len(s) /\ Len(s) \in 0 .. Len(s)
    BY <1>0
  <2> QED BY <1>0, <1>3, <1>5, <2>1 DEF Course
<1>7. Plus[<<g[Len(s)], c>>] = g[Len(s)] + c.tokens
  BY <1>4 DEF Plus
<1> QED BY <1>2, <1>3, <1>4, <1>6, <1>7 DEF a

(* The packs, the step of the fold that fills one, and what that fold      *)
(* chooses.                                                                *)
Packs == [kept : Seq(ChunkOf), dropped : Seq(ChunkOf)]

Put(max) ==
    [x \in Packs \X ChunkOf |->
        IF TokensOf(x[1].kept) + x[2].tokens <= max
        THEN [x[1] EXCEPT !.kept = Append(x[1].kept, x[2])]
        ELSE [x[1] EXCEPT !.dropped = Append(x[1].dropped, x[2])]]

FitIter(s, max) ==
    CHOOSE h : h =
        [t \in SUBSET DOMAIN s |->
            IF t = {} THEN [kept |-> <<>>, dropped |-> <<>>]
            ELSE IF TokensOf(h[t \ {Max(t)}].kept) + s[Max(t)].tokens <= max
            THEN [h[t \ {Max(t)}] EXCEPT
                    !.kept = Append(h[t \ {Max(t)}].kept, s[Max(t)])]
            ELSE [h[t \ {Max(t)}] EXCEPT
                    !.dropped = Append(h[t \ {Max(t)}].dropped, s[Max(t)])]]

LEMMA FitIterated ==
    ASSUME NEW s, NEW max
    PROVE  FitBudget(s, max) = FitIter(s, max)[DOMAIN s]
  BY DEF FitBudget, FoldLeft, MapThenFoldSet, FitIter

LEMMA PutType ==
    ASSUME NEW max \in Nat
    PROVE  /\ Put(max) \in [Packs \X ChunkOf -> Packs]
           /\ NoPack \in Packs
<1>1. ASSUME NEW r \in Packs, NEW c \in ChunkOf
      PROVE  /\ [r EXCEPT !.kept = Append(r.kept, c)] \in Packs
             /\ [r EXCEPT !.dropped = Append(r.dropped, c)] \in Packs
  <2>1. Append(r.kept, c) \in Seq(ChunkOf) /\ Append(r.dropped, c) \in Seq(ChunkOf)
    BY DEF Packs
  <2> QED BY <2>1 DEF Packs
<1>2. \A x \in Packs \X ChunkOf : x[1] \in Packs /\ x[2] \in ChunkOf
  OBVIOUS
<1>3. Put(max) \in [Packs \X ChunkOf -> Packs]
  <2>1. \A x \in Packs \X ChunkOf :
          (IF TokensOf(x[1].kept) + x[2].tokens <= max
           THEN [x[1] EXCEPT !.kept = Append(x[1].kept, x[2])]
           ELSE [x[1] EXCEPT !.dropped = Append(x[1].dropped, x[2])]) \in Packs
    BY <1>1, <1>2
  <2> QED BY <2>1 DEF Put
<1>4. NoPack \in Packs
  <2>1. << >> \in Seq(ChunkOf)
    OBVIOUS
  <2> QED BY <2>1 DEF NoPack, Packs
<1> QED BY <1>3, <1>4

LEMMA FitCourse ==
    ASSUME NEW s \in Seq(ChunkOf), NEW max \in Nat
    PROVE  \E g : Course(g, s, Packs, NoPack, Put(max)) /\ FitBudget(s, max) = g[Len(s)]
<1> DEFINE N == Len(s)
           Iter == FitIter(s, max)
           Place(r, c) ==
                IF TokensOf(r.kept) + c.tokens <= max
                THEN [r EXCEPT !.kept = Append(r.kept, c)]
                ELSE [r EXCEPT !.dropped = Append(r.dropped, c)]
<1>1. FitBudget(s, max) = Iter[1 .. N] /\ DOMAIN s = 1 .. N /\ N \in Nat
  BY FitIterated
<1>2. \A k \in 1 .. N : s[k] \in ChunkOf
  OBVIOUS
<1>3. \A r \in Packs, c \in ChunkOf : Put(max)[<<r, c>>] = Place(r, c)
  BY DEF Put
<1>4. PICK h, g : Solved(h, g, s, Packs, NoPack, Put(max))
  BY PutType, CourseExists
<1>5. /\ h \in [SUBSET (1 .. N) -> Packs]
      /\ Unfolds(h, s, N, NoPack, Put(max))
      /\ Course(g, s, Packs, NoPack, Put(max))
      /\ \A k \in 0 .. N : g[k] = h[1 .. k]
  BY <1>4 DEF Solved
<1> HIDE DEF N, Place
<1>6. ASSUME NEW t \in SUBSET (1 .. N), t # {}
      PROVE  Max(t) \in 1 .. N /\ t \ {Max(t)} \in SUBSET (1 .. N)
  <2>1. Max(t) \in t
    BY <1>1, <1>6, MaxOf
  <2> QED BY <2>1
<1>7. h = [t \in SUBSET DOMAIN s |->
                  IF t = {} THEN NoPack ELSE Place(h[t \ {Max(t)}], s[Max(t)])]
  <2>1. ASSUME NEW t \in SUBSET (1 .. N), t # {}
        PROVE  Put(max)[<<h[t \ {Max(t)}], s[Max(t)]>>] = Place(h[t \ {Max(t)}], s[Max(t)])
    <3>1. h[t \ {Max(t)}] \in Packs /\ s[Max(t)] \in ChunkOf
      BY <1>2, <1>5, <1>6, <2>1
    <3> QED BY <1>3, <3>1
  <2>2. h = [t \in SUBSET (1 .. N) |->
                  IF t = {} THEN NoPack ELSE Put(max)[<<h[t \ {Max(t)}], s[Max(t)]>>]]
    BY <1>5 DEF Unfolds
  <2> QED BY <1>1, <2>1, <2>2
<1>8. Iter = CHOOSE f : f = [t \in SUBSET DOMAIN s |->
                  IF t = {} THEN NoPack ELSE Place(f[t \ {Max(t)}], s[Max(t)])]
  BY Zenon DEF FitIter, Place, NoPack
<1>9. Iter = [t \in SUBSET DOMAIN s |->
                  IF t = {} THEN NoPack ELSE Place(Iter[t \ {Max(t)}], s[Max(t)])]
  <2> HIDE DEF Iter
  <2> QED BY <1>7, <1>8
<1> HIDE DEF Iter
<1>10. Iter[{}] = NoPack /\ \A k \in 1 .. N : Iter[1 .. k] = Place(Iter[1 .. k - 1], s[k])
  <2>1. {} \in SUBSET DOMAIN s
    OBVIOUS
  <2>2. ASSUME NEW k \in 1 .. N PROVE Iter[1 .. k] = Place(Iter[1 .. k - 1], s[k])
    <3>1. /\ 1 .. k \in SUBSET DOMAIN s /\ 1 .. k # {}
          /\ Max(1 .. k) = k /\ (1 .. k) \ {k} = 1 .. k - 1
      BY <1>1, PrefixMax
    <3> QED BY <1>9, <3>1
  <2> QED BY <1>9, <2>1, <2>2
<1>11. g[0] = NoPack /\ \A k \in 1 .. N : g[k] = Place(g[k - 1], s[k])
  <2>1. \A k \in 1 .. N : g[k - 1] \in Packs
    BY <1>1, <1>5 DEF Course, N
  <2>2. g[0] = NoPack /\ \A k \in 1 .. N : g[k] = Put(max)[<<g[k - 1], s[k]>>]
    BY <1>5 DEF Course, N
  <2> QED BY <1>2, <1>3, <2>1, <2>2
<1> DEFINE bad == {k \in 0 .. N : g[k] # Iter[1 .. k]}
<1>12. bad = {}
  <2> SUFFICES ASSUME bad # {} PROVE FALSE
    OBVIOUS
  <2>1. bad \in SUBSET Nat
    BY <1>1
  <2>2. PICK k \in bad : \A m \in bad : k <= m
    <3> HIDE DEF bad
    <3> QED BY <2>1, LeastNumber
  <2>3. k # 0
    <3>1. 1 .. 0 = {}
      OBVIOUS
    <3> QED BY <1>10, <1>11, <2>2, <3>1
  <2>4. k \in 1 .. N /\ k - 1 \in 0 .. N /\ ~(k <= k - 1)
    BY <1>1, <2>2, <2>3
  <2>5. g[k - 1] = Iter[1 .. k - 1]
    BY <2>2, <2>4
  <2> QED BY <1>10, <1>11, <2>2, <2>4, <2>5
<1>13. g[N] = Iter[1 .. N]
  BY <1>1, <1>12
<1> QED BY <1>1, <1>5, <1>13 DEF N

-----------------------------------------------------------------------------

(* What was taken from the first k chunks, in their order.                 *)
Drawn(q, s, k) ==
    /\ \A i \in DOMAIN q : \E m \in 1 .. k : s[m] = q[i]
    /\ \A i, j \in DOMAIN q : i < j =>
        \E m, n \in 1 .. k : m < n /\ s[m] = q[i] /\ s[n] = q[j]

LEMMA DrawnMore ==
    ASSUME NEW s, NEW k \in Nat, NEW q \in Seq(ChunkOf), Drawn(q, s, k)
    PROVE  /\ Drawn(q, s, k + 1)
           /\ Drawn(Append(q, s[k + 1]), s, k + 1)
<1>1. 1 .. k \subseteq 1 .. k + 1 /\ k + 1 \in 1 .. k + 1 /\ \A m \in 1 .. k : m < k + 1
  OBVIOUS
<1>2. Drawn(q, s, k + 1)
  <2>1. ASSUME NEW i \in DOMAIN q PROVE \E m \in 1 .. k + 1 : s[m] = q[i]
    <3>1. PICK m \in 1 .. k : s[m] = q[i]
      BY DEF Drawn
    <3> QED BY <1>1, <3>1
  <2>2. ASSUME NEW i \in DOMAIN q, NEW j \in DOMAIN q, i < j
        PROVE  \E m, n \in 1 .. k + 1 : m < n /\ s[m] = q[i] /\ s[n] = q[j]
    <3>1. PICK m \in 1 .. k, n \in 1 .. k : m < n /\ s[m] = q[i] /\ s[n] = q[j]
      BY <2>2 DEF Drawn
    <3>2. m \in 1 .. k + 1 /\ n \in 1 .. k + 1
      BY <1>1
    <3> QED BY <3>1, <3>2
  <2> QED BY <2>1, <2>2 DEF Drawn
<1> DEFINE a == Append(q, s[k + 1])
<1>3. /\ DOMAIN a = DOMAIN q \cup {Len(q) + 1} /\ a[Len(q) + 1] = s[k + 1]
      /\ \A i \in DOMAIN q : a[i] = q[i] /\ i \in Nat /\ i <= Len(q)
      /\ Len(q) \in Nat
  OBVIOUS
<1> HIDE DEF a
<1>4. \A i \in DOMAIN a : \E m \in 1 .. k + 1 : s[m] = a[i]
  BY <1>1, <1>2, <1>3 DEF Drawn
<1>5. ASSUME NEW i \in DOMAIN a, NEW j \in DOMAIN a, i < j
      PROVE  \E m, n \in 1 .. k + 1 : m < n /\ s[m] = a[i] /\ s[n] = a[j]
  <2>1. i \in DOMAIN q
    BY <1>3, <1>5
  <2>2. CASE j \in DOMAIN q
    <3>1. PICK m \in 1 .. k + 1, n \in 1 .. k + 1 :
            m < n /\ s[m] = q[i] /\ s[n] = q[j]
      BY <1>2, <1>5, <2>1, <2>2 DEF Drawn
    <3>2. a[i] = q[i] /\ a[j] = q[j]
      BY <1>3, <2>1, <2>2
    <3> QED BY <3>1, <3>2
  <2>3. CASE j = Len(q) + 1
    <3>1. PICK m \in 1 .. k : s[m] = q[i]
      BY <2>1 DEF Drawn
    <3> QED BY <1>1, <1>3, <2>1, <2>3, <3>1
  <2> QED BY <1>3, <2>2, <2>3
<1> QED BY <1>2, <1>4, <1>5 DEF Drawn, a

(* What the budget has kept and dropped of the first k chunks.             *)
Fitted(r, s, k, max) ==
    /\ r \in Packs
    /\ Len(r.kept) + Len(r.dropped) = k
    /\ Drawn(r.kept, s, k) /\ Drawn(r.dropped, s, k)
    /\ TokensOf(r.kept) <= max
    /\ \A i \in DOMAIN r.dropped : TokensOf(r.kept) + r.dropped[i].tokens > max

LEMMA PutPacks ==
    ASSUME NEW s \in Seq(ChunkOf), NEW max \in Nat, NEW k \in 0 .. Len(s) - 1,
           NEW r, Fitted(r, s, k, max)
    PROVE  Fitted(Put(max)[<<r, s[k + 1]>>], s, k + 1, max)
<1> DEFINE c == s[k + 1]
           p == Put(max)[<<r, c>>]
<1>1. k \in Nat /\ c \in ChunkOf /\ c.tokens \in Nat
  <2>1. Len(s) \in Nat
    OBVIOUS
  <2>2. k \in Nat /\ k + 1 \in 1 .. Len(s)
    BY <2>1
  <2>3. c \in ChunkOf
    BY <2>2
  <2> QED BY <2>2, <2>3 DEF ChunkOf
<1> HIDE DEF c
<1>2. r \in Packs /\ r.kept \in Seq(ChunkOf) /\ r.dropped \in Seq(ChunkOf)
      /\ r = [kept |-> r.kept, dropped |-> r.dropped]
  BY DEF Fitted, Packs
<1>3. p \in Packs
  BY <1>1, <1>2, PutType
<1>4. /\ TokensOf(r.kept) \in Nat
      /\ TokensOf(Append(r.kept, c)) = TokensOf(r.kept) + c.tokens
  BY <1>1, <1>2, TokensAppend
<1>5. /\ Drawn(r.kept, s, k + 1) /\ Drawn(Append(r.kept, c), s, k + 1)
      /\ Drawn(r.dropped, s, k + 1) /\ Drawn(Append(r.dropped, c), s, k + 1)
  BY <1>1, <1>2, DrawnMore DEF Fitted, c
<1>6. p = IF TokensOf(r.kept) + c.tokens <= max
          THEN [r EXCEPT !.kept = Append(r.kept, c)]
          ELSE [r EXCEPT !.dropped = Append(r.dropped, c)]
  <2>1. <<r, c>> \in Packs \X ChunkOf /\ <<r, c>>[1] = r /\ <<r, c>>[2] = c
    BY <1>1, <1>2
  <2> QED BY <2>1 DEF Put
<1>7. \A i \in DOMAIN r.dropped : r.dropped[i].tokens \in Nat
  <2>1. \A i \in DOMAIN r.dropped : r.dropped[i] \in ChunkOf
    BY <1>2
  <2> QED BY <2>1 DEF ChunkOf
<1> HIDE DEF p
<1>70. Len(r.kept) + Len(r.dropped) = k
  BY DEF Fitted
<1>8. CASE TokensOf(r.kept) + c.tokens <= max
  <2>1. p.kept = Append(r.kept, c) /\ p.dropped = r.dropped
    BY <1>2, <1>6, <1>8
  <2>2. Len(p.kept) = Len(r.kept) + 1 /\ Len(p.dropped) = Len(r.dropped) /\ Len(r.kept) \in Nat /\ Len(r.dropped) \in Nat
    BY <1>2, <2>1
  <2>3. Len(p.kept) + Len(p.dropped) = k + 1
    <3> DEFINE q == r.kept
               d == r.dropped
               e == p.kept
               f == p.dropped
    <3>1. Len(q) + Len(d) = k /\ k \in Nat
      BY <1>1, <1>70
    <3>2. Len(e) = Len(q) + 1 /\ Len(f) = Len(d) /\ Len(q) \in Nat /\ Len(d) \in Nat
      BY <2>2
    <3> HIDE DEF q, d, e, f
    <3>3. Len(e) + Len(f) = k + 1
      BY <3>1, <3>2
    <3> QED BY <3>3 DEF e, f
  <2>4. TokensOf(p.kept) <= max
    BY <1>4, <1>8, <2>1
  <2>5. \A i \in DOMAIN p.dropped : TokensOf(p.kept) + p.dropped[i].tokens > max
    BY <1>1, <1>4, <1>7, <2>1 DEF Fitted, c
  <2> QED BY <1>3, <1>5, <2>1, <2>3, <2>4, <2>5 DEF Fitted, p, c
<1>9. CASE ~(TokensOf(r.kept) + c.tokens <= max)
  <2>1. p.kept = r.kept /\ p.dropped = Append(r.dropped, c)
    BY <1>2, <1>6, <1>9
  <2>2. /\ Len(p.dropped) = Len(r.dropped) + 1 /\ Len(p.kept) = Len(r.kept) /\ Len(r.kept) \in Nat /\ Len(r.dropped) \in Nat
        /\ DOMAIN p.dropped = DOMAIN r.dropped \cup {Len(r.dropped) + 1}
        /\ p.dropped[Len(r.dropped) + 1] = c
        /\ \A i \in DOMAIN r.dropped : p.dropped[i] = r.dropped[i]
    BY <1>2, <2>1
  <2>3. Len(p.kept) + Len(p.dropped) = k + 1
    <3> DEFINE q == r.kept
               d == r.dropped
               e == p.kept
               f == p.dropped
    <3>1. Len(q) + Len(d) = k /\ k \in Nat
      BY <1>1, <1>70
    <3>2. Len(e) = Len(q) /\ Len(f) = Len(d) + 1 /\ Len(q) \in Nat /\ Len(d) \in Nat
      BY <2>2
    <3> HIDE DEF q, d, e, f
    <3>3. Len(e) + Len(f) = k + 1
      BY <3>1, <3>2
    <3> QED BY <3>3 DEF e, f
  <2>4. TokensOf(p.kept) <= max
    BY <2>1 DEF Fitted
  <2>5. TokensOf(p.kept) + c.tokens > max
    BY <1>1, <1>4, <1>9, <2>1 DEF c
  <2>6. \A i \in DOMAIN p.dropped : TokensOf(p.kept) + p.dropped[i].tokens > max
    BY <2>1, <2>2, <2>5 DEF Fitted
  <2> QED BY <1>3, <1>5, <2>1, <2>3, <2>4, <2>6 DEF Fitted, p, c
<1> QED BY <1>8, <1>9

(* The budget wastes nothing: what PackMaximal says of a pack, for any     *)
(* chunks and any budget.                                                  *)
LEMMA FitBudgetPacks ==
    ASSUME NEW s \in Seq(ChunkOf), NEW max \in Nat
    PROVE  Fitted(FitBudget(s, max), s, Len(s), max)
<1>1. PICK g : Course(g, s, Packs, NoPack, Put(max)) /\ FitBudget(s, max) = g[Len(s)]
  BY FitCourse
<1> DEFINE bad == {k \in 0 .. Len(s) : ~Fitted(g[k], s, k, max)}
<1>2. Fitted(g[0], s, 0, max)
  <2>1. g[0] = NoPack
    BY <1>1 DEF Course
  <2>2. NoPack.kept = <<>> /\ NoPack.dropped = <<>> /\ DOMAIN <<>> = {} /\ Len(<<>>) = 0
    BY DEF NoPack
  <2>3. TokensOf(<<>>) = 0
    BY TokensNone
  <2>4. Drawn(<<>>, s, 0)
    BY <2>2 DEF Drawn
  <2> QED BY <2>1, <2>2, <2>3, <2>4, PutType DEF Fitted
<1>3. bad = {}
  <2> SUFFICES ASSUME bad # {} PROVE FALSE
    OBVIOUS
  <2>1. bad \in SUBSET Nat
    OBVIOUS
  <2>2. PICK k \in bad : \A m \in bad : k <= m
    <3> HIDE DEF bad
    <3> QED BY <2>1, LeastNumber
  <2>3. k # 0
    BY <1>2, <2>2
  <2>4. k \in 1 .. Len(s) /\ k - 1 \in 0 .. Len(s) - 1 /\ k - 1 \in 0 .. Len(s)
        /\ ~(k <= k - 1) /\ k - 1 + 1 = k
    BY <2>2, <2>3
  <2>5. Fitted(g[k - 1], s, k - 1, max)
    BY <2>2, <2>4
  <2>6. Fitted(Put(max)[<<g[k - 1], s[k - 1 + 1]>>], s, k - 1 + 1, max)
    BY <2>4, <2>5, PutPacks
  <2>7. g[k] = Put(max)[<<g[k - 1], s[k]>>]
    BY <1>1, <2>4 DEF Course
  <2> QED BY <2>2, <2>4, <2>6, <2>7
<1> QED BY <1>1, <1>3

-----------------------------------------------------------------------------
(* The tree.                                                               *)

(* What is above a path is a path before it, and above all that is above   *)
(* one of its directories.                                                 *)
LEMMA AbovePaths ==
    \A p \in Paths : \A d \in Above[p] :
        d \in Paths /\ d < p /\ Above[d] \subseteq Above[p]
<1> DEFINE Good(p) == \A d \in Above[p] : d \in Paths /\ d < p /\ Above[d] \subseteq Above[p]
           bad == {p \in Paths : ~Good(p)}
<1> SUFFICES ASSUME bad # {} PROVE FALSE
  OBVIOUS
<1>1. Paths \subseteq Nat /\ bad \in SUBSET Nat
  BY RetrievalAssumption
<1>2. PICK p \in bad : \A q \in bad : p <= q
  <2> HIDE DEF bad
  <2> QED BY <1>1, LeastNumber
<1>3. /\ Parent[p] \in Paths \cup {0} /\ Parent[p] < p
      /\ Above[p] = IF Parent[p] = 0 THEN {} ELSE {Parent[p]} \cup Above[Parent[p]]
  BY ContextAssumption
<1>4. Parent[p] # 0
  BY <1>3
<1>5. Parent[p] \in Paths /\ ~(p <= Parent[p]) /\ p \in Nat /\ Parent[p] \in Nat
  <2>1. Parent[p] \in Paths /\ p \in Paths
    BY <1>2, <1>3, <1>4
  <2>2. Parent[p] \in Nat /\ p \in Nat
    BY <1>1, <2>1
  <2> QED BY <1>3, <2>1, <2>2
<1>6. Good(Parent[p])
  BY <1>2, <1>5
<1>7. Above[p] = {Parent[p]} \cup Above[Parent[p]]
  BY <1>3, <1>4
<1>8. ASSUME NEW d \in Above[p] PROVE d \in Paths /\ d < p /\ Above[d] \subseteq Above[p]
  <2>1. CASE d = Parent[p]
    BY <1>3, <1>5, <1>7, <2>1
  <2>2. CASE d \in Above[Parent[p]]
    <3>1. d \in Paths /\ d < Parent[p] /\ Above[d] \subseteq Above[Parent[p]]
      BY <1>6, <2>2
    <3>2. d \in Nat /\ d < p
      BY <1>1, <1>3, <1>5, <3>1
    <3> QED BY <1>7, <3>1, <3>2
  <2> QED BY <1>7, <2>1, <2>2
<1>9. Good(p)
  BY <1>8
<1> HIDE DEF Good
<1> QED BY <1>2, <1>9

(* From every directory above a path, and from the root, one entry leads   *)
(* on to the path.                                                         *)
LEMMA Towards ==
    \A p \in Paths : \A d \in Above[p] \cup {0} :
        \E c \in Above[p] \cup {p} : c \in Paths /\ Parent[c] = d
<1> DEFINE Good(p) == \A d \in Above[p] \cup {0} :
                        \E c \in Above[p] \cup {p} : c \in Paths /\ Parent[c] = d
           bad == {p \in Paths : ~Good(p)}
<1> SUFFICES ASSUME bad # {} PROVE FALSE
  OBVIOUS
<1>1. Paths \subseteq Nat /\ bad \in SUBSET Nat
  BY RetrievalAssumption
<1>2. PICK p \in bad : \A q \in bad : p <= q
  <2> HIDE DEF bad
  <2> QED BY <1>1, LeastNumber
<1>3. /\ Parent[p] \in Paths \cup {0} /\ Parent[p] < p
      /\ Above[p] = IF Parent[p] = 0 THEN {} ELSE {Parent[p]} \cup Above[Parent[p]]
  BY ContextAssumption
<1>4. CASE Parent[p] = 0
  <2>1. Good(p)
    BY <1>3, <1>4
  <2> HIDE DEF Good
  <2> QED BY <1>2, <2>1
<1>5. CASE Parent[p] # 0
  <2>1. Parent[p] \in Paths /\ ~(p <= Parent[p])
    BY <1>1, <1>3, <1>5
  <2>2. Good(Parent[p])
    BY <1>2, <2>1
  <2>3. Above[p] = {Parent[p]} \cup Above[Parent[p]]
    BY <1>3, <1>5
  <2>4. ASSUME NEW d \in Above[p] \cup {0}
        PROVE  \E c \in Above[p] \cup {p} : c \in Paths /\ Parent[c] = d
    <3>1. CASE d = Parent[p]
      BY <3>1
    <3>2. CASE d \in Above[Parent[p]] \cup {0}
      BY <2>2, <2>3, <3>2
    <3> QED BY <2>3, <3>1, <3>2
  <2>5. Good(p)
    BY <2>4
  <2> HIDE DEF Good
  <2> QED BY <1>2, <2>5
<1> QED BY <1>4, <1>5

(* What is below a changed path has changed.                               *)
Rooted == \A p \in Paths : \A d \in Above[p] : d \in dirty => p \in dirty

-----------------------------------------------------------------------------
(* Lists of paths.                                                         *)

LEMMA ListSeq ==
    ASSUME NEW n \in Nat, NEW S, NEW s \in [1 .. n -> S]
    PROVE  s \in Seq(S) /\ Len(s) = n /\ Len(s) \in Nat /\ DOMAIN s = 1 .. n
  OBVIOUS

LEMMA ChildrenList ==
    ASSUME NEW d
    PROVE  /\ Children(d) \in Seq(Paths)
           /\ \A c \in Paths : Parent[c] = d /\ tree[c] # "absent" =>
                \E i \in DOMAIN Children(d) : Children(d)[i] = c
<1> DEFINE names == {p \in Paths : Parent[p] = d /\ tree[p] # "absent"}
           before == {e \in names \X names : e[1] < e[2]}
<1>1. names \in SUBSET Paths /\ IsFiniteSet(Paths) /\ Paths \subseteq Nat
  BY ContextAssumption, RetrievalAssumption
<1>2. IsFiniteSet(names)
  BY <1>1, FS_Subset
<1>3. Orders(before, names)
  <2>1. \A x, y \in names : <<x, y>> \in before <=> x < y
    OBVIOUS
  <2>2. \A x \in names : x \in Nat
    BY <1>1
  <2> HIDE DEF before, names
  <2> QED BY <2>1, <2>2 DEF Orders
<1>4. Children(d) = InOrder(names, before)
  BY DEF Children
<1> HIDE DEF before, names
<1>5. Lists(Children(d), names, before)
  BY <1>2, <1>3, <1>4, InOrderSorts
<1>6. Cardinality(names) \in Nat
  BY <1>2, FS_CardinalityType
<1>7. /\ Children(d) \in [1 .. Cardinality(names) -> names]
      /\ \A c \in names : \E i \in 1 .. Cardinality(names) : Children(d)[i] = c
  BY <1>5 DEF Lists
<1>8. Children(d) \in Seq(Paths) /\ DOMAIN Children(d) = 1 .. Cardinality(names)
  <2>1. Children(d) \in [1 .. Cardinality(names) -> Paths]
    BY <1>1, <1>7
  <2> QED BY <1>6, <2>1, ListSeq
<1> QED BY <1>7, <1>8 DEF names

LEMMA RankList ==
    ASSUME NEW f \in SUBSET Paths, NEW t, NEW m \in Nat
    PROVE  LET r == Rank(f, t) IN
           SubSeq(r, 1, IF Len(r) < m THEN Len(r) ELSE m) \in Seq(Paths)
<1> DEFINE found == {p \in f : Base(p, t) > 0}
           score == [p \in found |-> Score(p, f, t)]
           before == {e \in found \X found :
                        \/ score[e[1]] > score[e[2]]
                        \/ score[e[1]] = score[e[2]] /\ e[1] < e[2]}
           r == Rank(f, t)
<1>1. found \in SUBSET Paths /\ IsFiniteSet(Paths) /\ Paths \subseteq Nat
  BY ContextAssumption, RetrievalAssumption
<1>2. IsFiniteSet(found)
  BY <1>1, FS_Subset
<1>3. \A p \in found : score[p] \in Nat
  <2>1. \A p \in Paths : PathScore[p] \in Nat /\ SymbolScore[p] \in Nat
    BY RetrievalAssumption
  <2>2. \A p \in Paths : Base(p, t) \in Nat
    BY <2>1 DEF Base, Symbols
  <2>3. \A p \in Paths : Score(p, f, t) \in Nat
    BY <2>2 DEF Score
  <2> QED BY <1>1, <2>3
<1>4. r = InOrder(found, before)
  BY DEF Rank
<1>5. Orders(before, found)
  <2>1. \A x, y \in found : <<x, y>> \in before <=>
            (\/ score[x] > score[y]
             \/ score[x] = score[y] /\ x < y)
    OBVIOUS
  <2>2. \A x \in found : x \in Nat
    BY <1>1
  <2> HIDE DEF before, found, score
  <2> QED BY <1>3, <2>1, <2>2 DEF Orders
<1> HIDE DEF before, found, score, r
<1>6. Lists(r, found, before)
  BY <1>2, <1>4, <1>5, InOrderSorts
<1>7. Cardinality(found) \in Nat
  BY <1>2, FS_CardinalityType
<1>8. r \in [1 .. Cardinality(found) -> found]
  BY <1>6 DEF Lists
<1>9. r \in Seq(Paths) /\ Len(r) \in Nat
  <2>1. r \in [1 .. Cardinality(found) -> Paths]
    BY <1>1, <1>8
  <2> QED BY <1>7, <2>1, ListSeq
<1>10. SubSeq(r, 1, IF Len(r) < m THEN Len(r) ELSE m) \in Seq(Paths)
  <2> DEFINE n == IF Len(r) < m THEN Len(r) ELSE m
  <2>1. n \in 0 .. Len(r)
    BY <1>9
  <2> HIDE DEF n
  <2>2. SubSeq(r, 1, n) \in Seq(Paths)
    BY <1>9, <2>1
  <2> QED BY <2>2 DEF n
<1> QED BY <1>10 DEF r

-----------------------------------------------------------------------------
(* The invariant.                                                          *)

(* The sequences, which the type invariant leaves open.                    *)
ContextTyped ==
    /\ ContextTypeOK
    /\ queue \in Seq(Paths \cup {0}) /\ entries \in Seq(Paths)
    /\ ranked \in Seq(Paths) /\ chunks \in Seq(ChunkOf)

(* What each step of a build has at hand.                                  *)
Stepped ==
    /\ step = "read" => current \in Paths \ Secret
    /\ step # "read" => current = Nothing
    /\ step \in {"idle", "pack", "done"} => entries = <<>> /\ queue = <<>>
    /\ files \cap Secret = {}
    /\ step = "done" => pack = FitBudget(chunks, MaxTokens)

LEMMA SeqTail ==
    ASSUME NEW S, NEW s \in Seq(S), s # <<>>
    PROVE  /\ Head(s) \in S /\ Tail(s) \in Seq(S)
           /\ 1 \in DOMAIN s /\ s[1] = Head(s)
           /\ \A i \in DOMAIN s : s[i] = Head(s) \/ \E j \in DOMAIN Tail(s) : Tail(s)[j] = s[i]
<1>1. Len(s) \in Nat \ {0} /\ DOMAIN s = 1 .. Len(s) /\ Head(s) = s[1]
  OBVIOUS
<1>2. Head(s) \in S /\ Tail(s) \in Seq(S) /\ 1 \in DOMAIN s
  BY <1>1
<1>3. Len(Tail(s)) = Len(s) - 1 /\ DOMAIN Tail(s) = 1 .. Len(s) - 1
      /\ \A j \in 1 .. Len(s) - 1 : Tail(s)[j] = s[j + 1]
  OBVIOUS
<1>4. ASSUME NEW i \in DOMAIN s, i # 1 PROVE \E j \in DOMAIN Tail(s) : Tail(s)[j] = s[i]
  <2>1. i - 1 \in 1 .. Len(s) - 1 /\ i - 1 + 1 = i
    BY <1>1, <1>4
  <2> QED BY <1>3, <2>1
<1> QED BY <1>1, <1>2, <1>4

LEMMA SeqRange ==
    ASSUME NEW S, NEW s \in Seq(S)
    PROVE  \A i \in DOMAIN s : s[i] \in S
  OBVIOUS

(* What ContextTypeOK says of the three lists follows from their types.    *)
LEMMA TypedLists ==
    ASSUME NEW q \in Seq(Paths \cup {0}), NEW e \in Seq(Paths), NEW r \in Seq(Paths)
    PROVE  \A s \in {q, e, r} : \A i \in DOMAIN s : s[i] \in Paths \cup {0}
  BY SeqRange

LEMMA InitTyped == ContextInit => ContextTyped /\ Stepped
<1> SUFFICES ASSUME ContextInit PROVE ContextTyped /\ Stepped
  OBVIOUS
<1> USE DEF ContextInit, Idle
<1>1. << >> \in Seq(Paths) /\ << >> \in Seq(Paths \cup {0}) /\ << >> \in Seq(ChunkOf)
  OBVIOUS
<1>2. \A s \in {queue, entries, ranked} : \A i \in DOMAIN s : s[i] \in Paths \cup {0}
  BY <1>1, TypedLists
<1>3. tree \in [Paths -> Node] /\ 0 \in 0 .. MaxChanges
  <2>1. MaxChanges \in Nat
    BY ContextAssumption
  <2>2. tree \in [Paths -> Node]
    BY DEF Node, Regular, Directory
  <2> QED BY <2>1, <2>2
<1> QED BY <1>1, <1>2, <1>3 DEF ContextTyped, ContextTypeOK, Stepped

LEMMA TypedStartStep ==
    ASSUME ContextTyped, Stepped, Start
    PROVE  ContextTyped' /\ Stepped'
<1> USE DEF Start
<1>1. << >> \in Seq(Paths) /\ <<0>> \in Seq(Paths \cup {0}) /\ << >> \in Seq(ChunkOf)
  OBVIOUS
<1>2. \A s \in {queue', entries', ranked'} : \A i \in DOMAIN s : s[i] \in Paths \cup {0}
  BY <1>1, TypedLists
<1> QED BY <1>1, <1>2 DEF ContextTyped, ContextTypeOK, Stepped

LEMMA TypedNextDir ==
    ASSUME ContextTyped, Stepped, NextDir
    PROVE  ContextTyped' /\ Stepped'
<1> USE DEF NextDir
<1>1. << >> \in Seq(Paths) /\ \A d : Children(d) \in Seq(Paths)
  BY ChildrenList
<1>2. entries' \in Seq(Paths)
  BY <1>1
<1>3. queue' \in Seq(Paths \cup {0})
  BY SeqTail DEF ContextTyped
<1>4. ranked' \in Seq(Paths)
  BY DEF ContextTyped
<1>5. \A s \in {queue', entries', ranked'} : \A i \in DOMAIN s : s[i] \in Paths \cup {0}
  BY <1>2, <1>3, <1>4, TypedLists
<1> QED BY <1>2, <1>3, <1>4, <1>5 DEF ContextTyped, ContextTypeOK, Stepped

LEMMA TypedVisit ==
    ASSUME ContextTyped, Stepped, Visit
    PROVE  ContextTyped' /\ Stepped'
<1> DEFINE p == Head(entries)
<1> USE DEF Visit
<1>1. p \in Paths /\ Tail(entries) \in Seq(Paths)
  BY SeqTail DEF ContextTyped
<1>2. Append(queue, p) \in Seq(Paths \cup {0}) /\ queue \in Seq(Paths \cup {0})
      /\ << >> \in Seq(Paths) /\ << >> \in Seq(Paths \cup {0})
  BY <1>1 DEF ContextTyped
<1>3. entries' \in Seq(Paths) /\ queue' \in Seq(Paths \cup {0}) /\ ranked' \in Seq(Paths)
  BY <1>1, <1>2 DEF ContextTyped
<1>4. \A s \in {queue', entries', ranked'} : \A i \in DOMAIN s : s[i] \in Paths \cup {0}
  BY <1>3, TypedLists
<1>5. skipped' \subseteq Paths /\ count' \in Nat
  BY <1>1 DEF ContextTyped, ContextTypeOK
<1>6. /\ step' \in {"walk", "read"}
      /\ step' = "read" => current' \in Paths \ Secret
      /\ step' # "read" => current' = Nothing
  BY <1>1 DEF Stepped
<1>7. current' \in Paths \cup {Nothing}
  BY <1>6
<1> QED BY <1>3, <1>4, <1>5, <1>6, <1>7 DEF ContextTyped, ContextTypeOK, Stepped

LEMMA TypedRead ==
    ASSUME ContextTyped, Stepped, Read
    PROVE  ContextTyped' /\ Stepped'
<1> USE DEF Read
<1>1. current \in Paths \ Secret
  BY DEF Stepped
<1>2. /\ files' \subseteq Paths /\ skipped' \subseteq Paths /\ files' \cap Secret = {}
  BY <1>1 DEF ContextTyped, ContextTypeOK, Stepped
<1>3. texts' \subseteq files'
  BY DEF ContextTyped, ContextTypeOK
<1>4. \A s \in {queue', entries', ranked'} : \A i \in DOMAIN s : s[i] \in Paths \cup {0}
  BY DEF ContextTyped, ContextTypeOK
<1> QED BY <1>2, <1>3, <1>4 DEF ContextTyped, ContextTypeOK, Stepped

LEMMA TypedIndex ==
    ASSUME ContextTyped, Stepped, Index
    PROVE  ContextTyped' /\ Stepped'
<1> USE DEF Index
<1>1. ranked' \in Seq(Paths)
  <2>1. MaxFiles \in Nat /\ files \in SUBSET Paths
    BY ContextAssumption DEF ContextTyped, ContextTypeOK
  <2> QED BY <2>1, RankList
<1>2. queue' \in Seq(Paths \cup {0}) /\ entries' \in Seq(Paths)
  BY DEF ContextTyped
<1>3. \A s \in {queue', entries', ranked'} : \A i \in DOMAIN s : s[i] \in Paths \cup {0}
  BY <1>1, <1>2, TypedLists
<1> QED BY <1>1, <1>2, <1>3 DEF ContextTyped, ContextTypeOK, Stepped

LEMMA TypedPackNext ==
    ASSUME ContextTyped, Stepped, PackNext
    PROVE  ContextTyped' /\ Stepped'
<1> USE DEF PackNext
<1>1. Head(ranked) \in Paths /\ ranked' \in Seq(Paths)
  BY SeqTail DEF ContextTyped
<1>2. Chunk(Head(ranked)) \in ChunkOf
  BY <1>1, ContextAssumption DEF Chunk, ChunkOf
<1>3. chunks' \in Seq(ChunkOf)
  BY <1>2 DEF ContextTyped
<1>4. queue' \in Seq(Paths \cup {0}) /\ entries' \in Seq(Paths)
  BY DEF ContextTyped
<1>5. \A s \in {queue', entries', ranked'} : \A i \in DOMAIN s : s[i] \in Paths \cup {0}
  BY <1>1, <1>4, TypedLists
<1> QED BY <1>1, <1>3, <1>4, <1>5 DEF ContextTyped, ContextTypeOK, Stepped

LEMMA TypedPacked ==
    ASSUME ContextTyped, Stepped, Packed
    PROVE  ContextTyped' /\ Stepped'
<1>1. \A s \in {queue', entries', ranked'} : \A i \in DOMAIN s : s[i] \in Paths \cup {0}
  BY DEF ContextTyped, ContextTypeOK, Packed
<1> QED BY <1>1 DEF ContextTyped, ContextTypeOK, Stepped, Packed

LEMMA TypedChange ==
    ASSUME ContextTyped, Stepped, NEW p \in Paths, NEW node \in Node, Change(p, node)
    PROVE  ContextTyped' /\ Stepped'
<1> USE DEF Change
<1>1. tree' \in [Paths -> Node] /\ dirty' \subseteq Paths
  BY DEF ContextTyped, ContextTypeOK, Below, Node
<1>2. changes' \in 0 .. MaxChanges
  BY ContextAssumption DEF ContextTyped, ContextTypeOK
<1>3. \A s \in {queue', entries', ranked'} : \A i \in DOMAIN s : s[i] \in Paths \cup {0}
  BY DEF ContextTyped, ContextTypeOK
<1> QED BY <1>1, <1>2, <1>3 DEF ContextTyped, ContextTypeOK, Stepped

LEMMA TypedRest ==
    ASSUME ContextTyped, Stepped, UNCHANGED <<tree, changes, build>>
    PROVE  ContextTyped' /\ Stepped'
<1>1. \A s \in {queue', entries', ranked'} : \A i \in DOMAIN s : s[i] \in Paths \cup {0}
  BY DEF ContextTyped, ContextTypeOK, build
<1> QED BY <1>1 DEF ContextTyped, ContextTypeOK, Stepped, build

(* The steps of the context commands, for the proofs by cases.             *)
LEMMA ContextCases ==
    ASSUME [ContextNext]_contextVars
    PROVE  \/ Start \/ NextDir \/ Visit \/ Read \/ Index \/ PackNext \/ Packed
           \/ \E p \in Paths, node \in Node : Change(p, node)
           \/ UNCHANGED <<tree, changes, build>>
<1>1. Ask => UNCHANGED <<tree, changes, build>>
  BY DEF Ask, Route, Debate
<1>2. Reply => UNCHANGED <<tree, changes, build>>
  BY DEF Reply
<1>3. UNCHANGED contextVars => UNCHANGED <<tree, changes, build>>
  BY DEF contextVars, build
<1> QED BY <1>1, <1>2, <1>3, Zenon DEF ContextNext, ContextBuild

LEMMA ContextTypedInv == ContextSpec => [](ContextTyped /\ Stepped)
<1>1. ContextTyped /\ Stepped /\ [ContextNext]_contextVars => (ContextTyped /\ Stepped)'
  <2> SUFFICES ASSUME ContextTyped, Stepped, [ContextNext]_contextVars
               PROVE  ContextTyped' /\ Stepped'
    OBVIOUS
  <2> QED BY ContextCases, TypedStartStep, TypedNextDir, TypedVisit, TypedRead, TypedIndex,
             TypedPackNext, TypedPacked, TypedChange, TypedRest
<1> QED BY InitTyped, <1>1, PTL DEF ContextSpec

(* The variables of a context build and of the workspace it walks keep     *)
(* their types.                                                            *)
THEOREM ContextTypes == ContextSpec => []ContextTypeOK
<1>1. ContextTyped => ContextTypeOK
  BY DEF ContextTyped
<1> QED BY ContextTypedInv, <1>1, PTL

(* Whatever the chunks and the budget, fitBudget keeps or drops each chunk *)
(* in the order of their rank, stays within the budget, and drops nothing  *)
(* that would still fit.                                                   *)
THEOREM PacksAreMaximal == ContextSpec => []PackMaximal
<1>1. ContextTyped /\ Stepped => PackMaximal
  <2> SUFFICES ASSUME ContextTyped, Stepped, step = "done" PROVE PackMaximal
    BY Zenon DEF PackMaximal
  <2>1. chunks \in Seq(ChunkOf) /\ MaxTokens \in Nat /\ pack = FitBudget(chunks, MaxTokens)
    BY ContextAssumption DEF ContextTyped, Stepped
  <2>2. Fitted(pack, chunks, Len(chunks), MaxTokens)
    BY <2>1, FitBudgetPacks
  <2>3. DOMAIN chunks = 1 .. Len(chunks)
    BY <2>1
  <2>4. /\ \A i, j \in DOMAIN pack.kept : i < j =>
              \E k, l \in DOMAIN chunks : k < l /\ chunks[k] = pack.kept[i] /\ chunks[l] = pack.kept[j]
        /\ \A i, j \in DOMAIN pack.dropped : i < j =>
              \E k, l \in DOMAIN chunks :
                k < l /\ chunks[k] = pack.dropped[i] /\ chunks[l] = pack.dropped[j]
    <3>1. /\ Drawn(pack.kept, chunks, Len(chunks))
          /\ Drawn(pack.dropped, chunks, Len(chunks))
      BY <2>2 DEF Fitted
    <3>2. ASSUME NEW q, Drawn(q, chunks, Len(chunks)),
                 NEW i \in DOMAIN q, NEW j \in DOMAIN q, i < j
          PROVE  \E k, l \in DOMAIN chunks : k < l /\ chunks[k] = q[i] /\ chunks[l] = q[j]
      BY <2>3, <3>2 DEF Drawn
    <3> QED BY <3>1, <3>2
  <2>5. /\ Len(pack.kept) + Len(pack.dropped) = Len(chunks)
        /\ TokensOf(pack.kept) <= MaxTokens
        /\ \A i \in DOMAIN pack.dropped :
            TokensOf(pack.kept) + pack.dropped[i].tokens > MaxTokens
    BY <2>2, Zenon DEF Fitted
  <2> QED BY <2>4, <2>5, Zenon DEF PackMaximal
<1> QED BY ContextTypedInv, <1>1, PTL

-----------------------------------------------------------------------------
(* The index.                                                              *)

(* What the index promises of a path.                                      *)
Recorded(p) ==
    \/ p \in files /\ (tree[p] = "big" => p \in skipped)
    \/ p \in skipped /\ (p \in Secret \/ tree[p] = "unreadable")

(* The walk is on its way to a path: it is being read, or it or something  *)
(* above it is still listed.                                               *)
Ahead(p) ==
    \/ p = current
    \/ \E i \in DOMAIN entries : entries[i] \in {p} \cup Above[p]
    \/ \E i \in DOMAIN queue : queue[i] \in {0} \cup Above[p]

(* Nothing is lost: unless the cap stopped it, what the walk must find is  *)
(* recorded or the walk is still on its way to it.                         *)
Covered ==
    step # "idle" /\ count <= MaxIndexFiles =>
        \A p \in Paths \ dirty : Yields(p) /\ Walked(p) /\ Open(p) =>
            Recorded(p) \/ Ahead(p)

(* What the walk gave to the index, and its count: never above the cap,    *)
(* and beyond it the walk has stopped.                                     *)
Yielded == files \cup skipped \cup ({current} \ {Nothing})

Counted ==
    /\ Cardinality(Yielded) <= count
    /\ Cardinality(Yielded) <= MaxIndexFiles
    /\ count > MaxIndexFiles => entries = <<>> /\ queue = <<>> /\ step # "read"

LEMMA RootedChange ==
    ASSUME ContextTyped, Rooted, NEW p \in Paths, NEW node \in Node, Change(p, node)
    PROVE  Rooted'
<1>1. \A q \in Paths : q \in dirty' <=> q \in dirty \/ q = p \/ p \in Above[q]
  BY DEF Change, Below, ContextTyped, ContextTypeOK
<1>2. ASSUME NEW q \in Paths, NEW d \in Above[q], d \in dirty'
      PROVE  q \in dirty'
  <2>1. d \in Paths /\ Above[d] \subseteq Above[q]
    BY AbovePaths
  <2> QED BY <1>1, <1>2, <2>1 DEF Rooted
<1> QED BY <1>2 DEF Rooted

(* A path that is not dirty is as it was, and so is all that is above it.  *)
LEMMA CoveredChange ==
    ASSUME ContextTyped, Rooted, Covered, NEW p \in Paths, NEW node \in Node,
           Change(p, node)
    PROVE  Covered'
<1>1. \A q \in Paths \ dirty' : q \in Paths \ dirty /\ tree'[q] = tree[q]
  BY DEF Change, Below, ContextTyped, ContextTypeOK
<1>2. ASSUME NEW q \in Paths \ dirty'
      PROVE  /\ Yields(q)' <=> Yields(q)
             /\ Open(q)' <=> Open(q)
             /\ Recorded(q)' <=> Recorded(q)
             /\ Ahead(q)' <=> Ahead(q)
  <2>1. \A d \in Above[q] : d \in Paths /\ d \notin dirty'
    BY RootedChange, AbovePaths DEF Rooted
  <2>2. \A d \in Above[q] : tree'[d] = tree[d]
    BY <1>1, <2>1
  <2>3. Reachable(q)' <=> Reachable(q)
    BY <2>2 DEF Reachable
  <2>4. Open(q)' <=> Open(q)
    BY <2>2 DEF Open
  <2>5. Recorded(q)' <=> Recorded(q)
    BY <1>1 DEF Change, Recorded
  <2>6. Ahead(q)' <=> Ahead(q)
    BY DEF Change, Ahead
  <2> QED BY <1>1, <2>3, <2>4, <2>5, <2>6 DEF Yields
<1>3. step' = step /\ count' = count
  BY DEF Change
<1> QED BY <1>1, <1>2, <1>3 DEF Covered, Walked

LEMMA CoveredStart ==
    ASSUME Start
    PROVE  Covered'
<1>1. queue' = <<0>> /\ 1 \in DOMAIN <<0>> /\ <<0>>[1] = 0
  BY DEF Start
<1>2. \A q : Ahead(q)'
  BY <1>1 DEF Ahead
<1> QED BY <1>2 DEF Covered

(* The directory that is opened lists what leads on to the path.           *)
LEMMA CoveredNextDir ==
    ASSUME ContextTyped, Stepped, Rooted, Covered, NextDir
    PROVE  Covered'
<1> SUFFICES ASSUME count <= MaxIndexFiles, NEW p \in Paths \ dirty, Yields(p), Walked(p),
                    Open(p), ~Recorded(p)
             PROVE  Ahead(p)'
  <2>1. /\ count' = count /\ dirty' = dirty
        /\ \A q : (Yields(q)' <=> Yields(q)) /\ (Recorded(q)' <=> Recorded(q))
        /\ \A q : Open(q)' <=> Open(q)
    BY DEF NextDir, Yields, Reachable, Open, Recorded
  <2> QED BY <2>1 DEF Covered, Walked
<1>1. Ahead(p)
  BY DEF Covered, NextDir
<1> DEFINE d == Head(queue)
<1>2. /\ current' = current /\ entries = <<>> /\ DOMAIN entries = {}
      /\ queue' = Tail(queue)
      /\ entries' = IF Listed(d) THEN Children(d) ELSE <<>>
  BY DEF NextDir
<1>3. \A i \in DOMAIN queue : queue[i] = d \/ \E j \in DOMAIN queue' : queue'[j] = queue[i]
  <2>1. queue \in Seq(Paths \cup {0}) /\ queue # <<>>
    BY DEF NextDir, ContextTyped
  <2> QED BY <1>2, <2>1, SeqTail
<1>4. CASE d \in {0} \cup Above[p]
  <2>1. tree[p] # "absent"
    BY DEF Yields, Regular
  <2>2. \A c \in Above[p] : tree[c] = "dir" /\ Above[c] \subseteq Above[p]
    BY AbovePaths DEF Open
  <2>3. PICK c \in Above[p] \cup {p} : c \in Paths /\ Parent[c] = d
    BY <1>4, Towards
  <2>4. entries' = Children(d)
    BY <1>2, <1>4, <2>2 DEF Listed, Reachable
  <2>5. \E i \in DOMAIN Children(d) : Children(d)[i] = c
    BY <2>1, <2>2, <2>3, ChildrenList
  <2> QED BY <2>3, <2>4, <2>5 DEF Ahead
<1>5. CASE d \notin {0} \cup Above[p]
  BY <1>1, <1>2, <1>3, <1>5 DEF Ahead
<1> QED BY <1>4, <1>5

(* The entry that is looked at is the path, or leads on to it, or neither. *)
LEMMA CoveredVisit ==
    ASSUME ContextTyped, Stepped, Rooted, Covered, Visit
    PROVE  Covered'
<1> SUFFICES ASSUME count' <= MaxIndexFiles, NEW p \in Paths \ dirty, Yields(p), Walked(p),
                    Open(p)
             PROVE  Recorded(p)' \/ Ahead(p)'
  <2>1. /\ dirty' = dirty
        /\ \A q : (Yields(q)' <=> Yields(q)) /\ (Open(q)' <=> Open(q))
    BY DEF Visit, Yields, Reachable, Open
  <2> QED BY <2>1 DEF Covered, Walked
<1> DEFINE e == Head(entries)
<1>1. count \in Nat /\ MaxIndexFiles \in Nat
  BY ContextAssumption DEF ContextTyped, ContextTypeOK
<1>2. count <= MaxIndexFiles /\ (Yields(e) => ~Full)
  BY <1>1 DEF Visit, Full
<1>3. Recorded(p) \/ Ahead(p)
  BY <1>2 DEF Covered, Visit
<1>4. /\ entries' = Tail(entries)
      /\ queue' = queue \/ queue' = Append(queue, e)
      /\ ~Yields(e) /\ Enters(e) => queue' = Append(queue, e)
      /\ Yields(e) /\ e \in Secret => skipped' = skipped \cup {e}
      /\ Yields(e) /\ e \notin Secret => current' = e
      /\ files' = files /\ tree' = tree /\ skipped \subseteq skipped'
      /\ current = Nothing /\ entries # <<>>
  BY <1>2 DEF Visit, Stepped
<1> HIDE DEF e
<1>5. Recorded(p) => Recorded(p)'
  BY <1>4 DEF Recorded
<1>6. p # Nothing
  BY RetrievalAssumption, RoutingAssumption
<1>7. /\ \A i \in DOMAIN queue : i \in DOMAIN queue' /\ queue'[i] = queue[i]
      /\ queue' = Append(queue, e) =>
            Len(queue) + 1 \in DOMAIN queue' /\ queue'[Len(queue) + 1] = e
  <2>1. queue \in Seq(Paths \cup {0}) /\ Len(queue) \in Nat
    BY DEF ContextTyped
  <2>2. CASE queue' = queue
    <3>1. queue' # Append(queue, e)
      <4>1. Len(Append(queue, e)) = Len(queue) + 1
        BY <2>1
      <4> QED BY <2>1, <2>2, <4>1
    <3> QED BY <2>2, <3>1
  <2>3. CASE queue' = Append(queue, e)
    <3>1. DOMAIN Append(queue, e) = 1 .. Len(queue) + 1 /\ DOMAIN queue = 1 .. Len(queue)
          /\ Append(queue, e)[Len(queue) + 1] = e
          /\ \A i \in 1 .. Len(queue) : Append(queue, e)[i] = queue[i]
      BY <2>1
    <3>2. \A i \in 1 .. Len(queue) : i \in 1 .. Len(queue) + 1
      BY <2>1
    <3>3. Len(queue) + 1 \in 1 .. Len(queue) + 1
      BY <2>1
    <3> QED BY <2>3, <3>1, <3>2, <3>3
  <2> QED BY <1>4, <2>2, <2>3
<1>8. \A i \in DOMAIN entries : entries[i] = e \/ \E j \in DOMAIN entries' : entries'[j] = entries[i]
  <2>1. entries \in Seq(Paths) /\ entries # <<>>
    BY <1>4 DEF ContextTyped
  <2> QED BY <1>4, <2>1, SeqTail DEF e
<1>9. CASE e = p
  <2>1. p \in Secret => Recorded(p)'
    BY <1>4, <1>9 DEF Recorded
  <2>2. p \notin Secret => Ahead(p)'
    BY <1>4, <1>9 DEF Ahead
  <2> QED BY <2>1, <2>2
<1>10. CASE e \in Above[p]
  <2>1. tree[p] # "absent"
    BY DEF Yields, Regular
  <2>2. tree[e] = "dir" /\ e \notin Excluded /\ Above[e] \subseteq Above[p]
    BY <1>10, AbovePaths DEF Walked, Open
  <2>3. ~Yields(e)
    BY <2>2 DEF Yields, Regular
  <2>4. queue' = Append(queue, e)
    BY <1>4, <2>2, <2>3 DEF Enters, Reachable, Open, Directory
  <2> QED BY <1>7, <1>10, <2>4 DEF Ahead
<1>11. CASE e \notin {p} \cup Above[p]
  BY <1>3, <1>4, <1>5, <1>6, <1>7, <1>8, <1>11 DEF Ahead
<1> QED BY <1>9, <1>10, <1>11

(* What is read and was left alone is what the walk saw.                   *)
LEMMA CoveredRead ==
    ASSUME ContextTyped, Stepped, Covered, Read
    PROVE  Covered'
<1> SUFFICES ASSUME count <= MaxIndexFiles, NEW p \in Paths \ dirty, Yields(p), Walked(p),
                    Open(p)
             PROVE  Recorded(p)' \/ Ahead(p)'
  <2>1. /\ dirty' = dirty /\ count' = count
        /\ \A q : (Yields(q)' <=> Yields(q)) /\ (Open(q)' <=> Open(q))
    BY DEF Read, Yields, Reachable, Open
  <2> QED BY <2>1 DEF Covered, Walked
<1>1. Recorded(p) \/ Ahead(p)
  BY DEF Covered, Read
<1>2. /\ files \subseteq files' /\ skipped \subseteq skipped' /\ tree' = tree
      /\ queue' = queue /\ entries' = entries
  BY DEF Read
<1>3. CASE p = current
  <2>1. tree[p] \in Regular /\ Reachable(p)
    BY DEF Yields
  <2>2. CASE tree[p] = "unreadable"
    BY <1>2, <1>3, <2>2 DEF Read, Opens, Recorded
  <2>3. CASE tree[p] = "big"
    BY <1>2, <1>3, <2>1, <2>3 DEF Read, Opens, Recorded, Directory
  <2>4. CASE tree[p] \in {"text", "binary"}
    BY <1>2, <1>3, <2>1, <2>4 DEF Read, Opens, Recorded, Directory
  <2> QED BY <2>1, <2>2, <2>3, <2>4 DEF Regular
<1>4. CASE p # current
  <2>1. CASE Recorded(p)
    BY <1>2, <2>1 DEF Recorded
  <2>2. CASE Ahead(p)
    BY <1>2, <1>4, <2>2 DEF Ahead
  <2> QED BY <1>1, <2>1, <2>2
<1> QED BY <1>3, <1>4

(* The rest of a build, and what is not part of it, leaves the index alone.*)
LEMMA CoveredRest ==
    ASSUME Covered, \/ Index \/ PackNext \/ Packed
                    \/ UNCHANGED <<tree, changes, build>>
    PROVE  Covered'
<1>1. /\ UNCHANGED <<tree, dirty, queue, entries, current, count, files, skipped>>
      /\ step' # "idle" => step # "idle"
  BY DEF Index, PackNext, Packed, build
<1>2. \A q : /\ Yields(q)' <=> Yields(q)
             /\ Open(q)' <=> Open(q)
             /\ Recorded(q)' <=> Recorded(q)
             /\ Ahead(q)' <=> Ahead(q)
  BY <1>1 DEF Yields, Reachable, Open, Recorded, Ahead
<1> QED BY <1>1, <1>2 DEF Covered, Walked

LEMMA YieldedFinite ==
    ASSUME ContextTyped
    PROVE  IsFiniteSet(Yielded) /\ Cardinality(Yielded) \in Nat
<1>1. Yielded \in SUBSET Paths /\ IsFiniteSet(Paths)
  BY ContextAssumption DEF Yielded, ContextTyped, ContextTypeOK
<1> QED BY <1>1, FS_Subset, FS_CardinalityType

(* A step that yields nothing new.                                         *)
LEMMA CountedSame ==
    ASSUME ContextTyped, Counted, Yielded' \subseteq Yielded, count' = count,
           count > MaxIndexFiles => entries' = <<>> /\ queue' = <<>> /\ step' # "read"
    PROVE  Counted'
<1>1. IsFiniteSet(Yielded) /\ Cardinality(Yielded) \in Nat
  BY YieldedFinite
<1>2. Cardinality(Yielded') <= Cardinality(Yielded) /\ Cardinality(Yielded') \in Nat
  BY <1>1, FS_Subset, FS_CardinalityType
<1>3. count \in Nat /\ MaxIndexFiles \in Nat
  BY ContextAssumption DEF ContextTyped, ContextTypeOK
<1> QED BY <1>1, <1>2, <1>3 DEF Counted

LEMMA CountedVisit ==
    ASSUME ContextTyped, Stepped, Counted, Visit
    PROVE  Counted'
<1> DEFINE p == Head(entries)
<1>1. entries # <<>> /\ count \in Nat /\ MaxIndexFiles \in Nat
  BY ContextAssumption DEF Visit, ContextTyped, ContextTypeOK
<1>2. count <= MaxIndexFiles
  BY <1>1 DEF Counted
<1>3. current = Nothing /\ files' = files /\ step = "walk"
  BY DEF Visit, Stepped
<1>4. IsFiniteSet(Yielded) /\ Cardinality(Yielded) \in Nat
  BY YieldedFinite
<1>5. CASE ~Yields(p)
  <2>1. Yielded' = Yielded /\ count' = count
    BY <1>5 DEF Visit, Yielded
  <2> QED BY <1>1, <1>2, <2>1, CountedSame
<1>6. CASE Yields(p) /\ Full
  <2>1. Yielded' = Yielded /\ count' = count + 1
        /\ entries' = <<>> /\ queue' = <<>> /\ step' = "walk"
    BY <1>3, <1>6 DEF Visit, Yielded
  <2> QED BY <1>1, <1>4, <2>1 DEF Counted
<1>7. CASE Yields(p) /\ ~Full
  <2>1. Yielded' \subseteq Yielded \cup {p} /\ count' = count + 1
    BY <1>3, <1>7 DEF Visit, Yielded
  <2>2. IsFiniteSet(Yielded \cup {p}) /\ Cardinality(Yielded \cup {p}) <= Cardinality(Yielded) + 1
        /\ Cardinality(Yielded \cup {p}) \in Nat
    <3> HIDE DEF p
    <3> QED BY <1>4, FS_AddElement, FS_CardinalityType
  <2>3. Cardinality(Yielded') <= Cardinality(Yielded \cup {p}) /\ Cardinality(Yielded') \in Nat
    <3> HIDE DEF p
    <3> QED BY <2>1, <2>2, FS_Subset, FS_CardinalityType
  <2>4. count + 1 <= MaxIndexFiles
    BY <1>1, <1>7 DEF Full
  <2>5. Cardinality(Yielded') <= count + 1
    <3>1. Cardinality(Yielded) <= count
      BY DEF Counted
    <3> HIDE DEF p
    <3> QED BY <1>1, <1>4, <2>2, <2>3, <3>1
  <2> QED BY <1>1, <2>1, <2>3, <2>4, <2>5 DEF Counted
<1> QED BY <1>5, <1>6, <1>7

LEMMA CountedStep ==
    ASSUME ContextTyped, Stepped, Counted, [ContextNext]_contextVars
    PROVE  Counted'
<1>1. ASSUME Start PROVE Counted'
  <2>1. Yielded' = {} /\ count' = 0
    BY <1>1 DEF Start, Yielded
  <2>2. MaxIndexFiles \in Nat
    BY ContextAssumption
  <2> QED BY <2>1, <2>2, FS_EmptySet DEF Counted
<1>2. ASSUME NextDir PROVE Counted'
  <2>1. Yielded' = Yielded /\ count' = count /\ queue # <<>>
    BY <1>2 DEF NextDir, Yielded
  <2> QED BY <2>1, CountedSame DEF Counted
<1>3. ASSUME Read PROVE Counted'
  <2>1. Yielded' \subseteq Yielded /\ count' = count /\ step = "read"
    <3>1. /\ files' \subseteq files \cup {current} /\ skipped' \subseteq skipped \cup {current}
          /\ current' = Nothing /\ count' = count /\ step = "read"
      BY <1>3 DEF Read
    <3>2. current \in Paths /\ Nothing \notin Paths
      BY <3>1, RoutingAssumption, RetrievalAssumption DEF Stepped
    <3> QED BY <3>1, <3>2 DEF Yielded
  <2> QED BY <2>1, CountedSame DEF Counted
<1>4. ASSUME Index \/ PackNext \/ Packed PROVE Counted'
  <2>1. Yielded' = Yielded /\ count' = count /\ entries' = entries /\ queue' = queue
        /\ step' # "read"
    BY <1>4 DEF Index, PackNext, Packed, Yielded
  <2> QED BY <2>1, CountedSame DEF Counted
<1>5. ASSUME \/ \E p \in Paths, node \in Node : Change(p, node)
             \/ UNCHANGED <<tree, changes, build>>
      PROVE Counted'
  <2>1. Yielded' = Yielded /\ count' = count /\ entries' = entries /\ queue' = queue
        /\ step' = step
    BY <1>5 DEF Change, build, Yielded
  <2> QED BY <2>1, CountedSame DEF Counted
<1> QED BY <1>1, <1>2, <1>3, <1>4, <1>5, CountedVisit, ContextCases

(* The three together are inductive.                                       *)
IndexInv == Rooted /\ Covered /\ Counted

LEMMA IndexInit == ContextInit => IndexInv
<1> SUFFICES ASSUME ContextInit PROVE IndexInv
  OBVIOUS
<1>1. Rooted
  BY DEF Rooted, ContextInit
<1>2. Covered
  BY DEF ContextInit, Idle, Covered
<1>3. Yielded = {} /\ count = 0 /\ MaxIndexFiles \in Nat
  BY ContextAssumption DEF ContextInit, Idle, Yielded
<1> QED BY <1>1, <1>2, <1>3, FS_EmptySet DEF IndexInv, Counted

LEMMA IndexStep ==
    ASSUME ContextTyped, Stepped, IndexInv, [ContextNext]_contextVars
    PROVE  IndexInv'
<1>1. Rooted'
  <2>1. CASE \E p \in Paths, node \in Node : Change(p, node)
    BY <2>1, RootedChange DEF IndexInv
  <2>2. CASE Start
    BY <2>2 DEF IndexInv, Rooted, Start
  <2>3. CASE NextDir \/ Visit \/ Read \/ Index \/ PackNext \/ Packed
    <3>1. tree' = tree /\ dirty' = dirty
      BY <2>3 DEF NextDir, Visit, Read, Index, PackNext, Packed
    <3> QED BY <3>1 DEF IndexInv, Rooted
  <2>4. CASE UNCHANGED <<tree, changes, build>>
    BY <2>4 DEF IndexInv, Rooted, build
  <2> QED BY <2>1, <2>2, <2>3, <2>4, ContextCases
<1>2. Covered'
  BY ContextCases, CoveredChange, CoveredStart, CoveredNextDir, CoveredVisit, CoveredRead,
     CoveredRest DEF IndexInv
<1>3. Counted'
  BY CountedStep DEF IndexInv
<1> QED BY <1>1, <1>2, <1>3 DEF IndexInv

(* Whatever the tree and whatever changes while it is walked, a finished   *)
(* walk that the cap did not stop has indexed or recorded as skipped every *)
(* file that was left alone in directories that were, and that the walk    *)
(* can list and enter; the cap holds, and no key material is indexed.      *)
THEOREM IndexIsComplete == ContextSpec => []IndexComplete
<1>1. ContextTyped /\ Stepped /\ IndexInv => IndexComplete
  <2> SUFFICES ASSUME ContextTyped, Stepped, IndexInv PROVE IndexComplete
    OBVIOUS
  <2>1. Cardinality(files \cup skipped) <= MaxIndexFiles
    <3>1. IsFiniteSet(Yielded) /\ Cardinality(Yielded) \in Nat
      BY YieldedFinite
    <3>2. files \cup skipped \in SUBSET Yielded
      BY DEF Yielded
    <3>3. Cardinality(files \cup skipped) <= Cardinality(Yielded)
          /\ Cardinality(files \cup skipped) \in Nat
      BY <3>1, <3>2, FS_Subset, FS_CardinalityType
    <3>4. MaxIndexFiles \in Nat /\ Cardinality(Yielded) <= MaxIndexFiles
      BY ContextAssumption DEF IndexInv, Counted
    <3> QED BY <3>1, <3>3, <3>4
  <2>2. files \cap Secret = {}
    BY DEF Stepped
  <2>3. ASSUME step \in {"pack", "done"}, NEW p \in Paths \ dirty, Yields(p), Walked(p),
               Open(p), ~(count > MaxIndexFiles)
        PROVE  Recorded(p)
    <3>1. count <= MaxIndexFiles
      BY <2>3, ContextAssumption DEF ContextTyped, ContextTypeOK
    <3>2. Recorded(p) \/ Ahead(p)
      BY <2>3, <3>1 DEF IndexInv, Covered
    <3>3. entries = <<>> /\ queue = <<>> /\ current = Nothing /\ DOMAIN << >> = {}
      BY <2>3 DEF Stepped
    <3>4. ~Ahead(p)
      BY <3>3, RetrievalAssumption, RoutingAssumption DEF Ahead
    <3> QED BY <3>2, <3>4
  <2> QED BY <2>1, <2>2, <2>3 DEF IndexComplete, Recorded
<1>2. ContextTyped /\ Stepped /\ IndexInv /\ [ContextNext]_contextVars
        /\ (ContextTyped /\ Stepped)' => IndexInv'
  BY IndexStep
<1> QED BY ContextTypedInv, IndexInit, <1>1, <1>2, PTL DEF ContextSpec

=============================================================================
