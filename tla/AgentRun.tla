------------------------------ MODULE AgentRun ------------------------------
(***************************************************************************)
(* `agent run` (apps/cli/src/cli.ts) around the agent loop (packages/agents*)
(* /src/runtime.ts) and the tool funnel (packages/tools/src/runtime.ts),   *)
(* on one task.  A process awaits the model and the test tool; the other   *)
(* tools are synchronous.  Meanwhile the task's worktree may be removed by *)
(* another process.  What a model asks for is reduced to its shape: the    *)
(* tool, and what the tool's preflight finds.                              *)
(***************************************************************************)
EXTENDS PolicyKernel, Sequences, FiniteSets

CONSTANTS
    Procs,              \* CLI processes
    Clearances,         \* the classifications tasks are created with
    Messages,           \* sequences of shapes a model may answer with
    MaxIterations,      \* --rounds
    MaxRuns,            \* bound: runs over all processes
    MaxFaults           \* bound: processes that die

(* read: fs.read, fs.list, fs.search.  create, append, overwrite, outside: *)
(* fs.write of a new file, to the end of an existing one, over it or of a  *)
(* secret, out of the jail.  browse, branch, mutate, destroy: git.exec that*)
(* reads, that writes all the same but is taken for reading (a new branch, *)
(* `diff --output`), that is listed as mutating, that is blocked.  tests,  *)
(* untestable: test.exec with and without a known stack.  unknown: a tool  *)
(* that is not registered.  malformed: arguments against the schema.       *)
Shape ==
    {"read", "create", "append", "overwrite", "outside", "edit", "browse",
     "branch", "mutate", "destroy", "tests", "untestable", "unknown", "malformed"}

FailureCode ==
    {"TOOL_NOT_FOUND", "VALIDATION_ERROR", "JAIL_ESCAPE", "POLICY_DENIED",
     "APPROVAL_REQUIRED"}

ASSUME AgentAssumption ==
    /\ IsFiniteSet(Procs)
    /\ None \notin Shape \cup FailureCode
    /\ Clearances \subseteq Classification
    /\ Messages \subseteq Seq(Shape)
    /\ MaxIterations \in 1 .. 64
    /\ MaxRuns \in Nat /\ MaxFaults \in Nat

VARIABLES
    clearance,          \* the task's classification
    workspace,          \* its row and directory
    trail,              \* rows of agent_runs, runs and audit the runs left
    late,               \* test processes nobody waits for any more
    pc,                 \* where each process is
    run,                \* its run
    runs, faults        \* so far

shared == <<clearance, workspace, trail, late>>

vars == <<shared, pc, run, runs, faults>>

-----------------------------------------------------------------------------
Status ==
    {"running", "completed", "awaiting-approval", "max-iterations",
     "transport-error"}

(* replies counts the tool messages the calls got in the transcript; ran   *)
(* is a history: what was executed last.                                   *)
Run ==
    [phase : Phase, approved : BOOLEAN, jail : {"worktree", "project"},
     round : 1 .. MaxIterations, todo : Seq(Shape), toolCalls : Nat, denials : Nat,
     replies : Nat, status : Status, ran : Shape \cup {None}]

NoRun ==
    [phase |-> "investigate", approved |-> FALSE, jail |-> "project",
     round |-> 1, todo |-> <<>>, toolCalls |-> 0, denials |-> 0,
     replies |-> 0, status |-> "running", ran |-> None]

Pc == {"idle", "model", "tools", "testing", "save", "artifacts", "record",
       "audit"}

(* removing: the worktree is gone, the row still says active.              *)
Workspace ==
    [row : {"none", "active", "removing", "removed"}, directory : BOOLEAN]

Store == {"agent_runs", "runs", "audit"}

TypeOK ==
    /\ clearance \in Classification
    /\ workspace \in Workspace
    /\ trail \in [Store -> Nat]
    /\ late \in Nat
    /\ pc \in [Procs -> Pc]
    /\ run \in [Procs -> Run]
    /\ \A p \in Procs : pc[p] = "testing" => run[p].todo # <<>>
    /\ runs \in 0 .. MaxRuns
    /\ faults \in 0 .. MaxFaults

Init ==
    /\ clearance \in Clearances
    /\ workspace = [row |-> "none", directory |-> FALSE]
    /\ trail = [store \in Store |-> 0]
    /\ late = 0
    /\ pc = [p \in Procs |-> "idle"]
    /\ run = [p \in Procs |-> NoRun]
    /\ runs = 0 /\ faults = 0

Goto(p, here, there) ==
    /\ pc[p] = here
    /\ pc' = [pc EXCEPT ![p] = there]

(* The run ends with a status and is saved next.                           *)
Settle(p, here, status) ==
    /\ Goto(p, here, "save")
    /\ run' = [run EXCEPT ![p].status = status]

-----------------------------------------------------------------------------
(* The funnel, ToolRunner.call.                                            *)

ToolOf(shape) ==
    CASE shape \in {"read", "malformed"} -> "fs.read"
      [] shape \in {"create", "append", "overwrite", "outside"} -> "fs.write"
      [] shape = "edit" -> "fs.edit"
      [] shape \in {"browse", "branch", "mutate", "destroy"} -> "git.exec"
      [] shape \in {"tests", "untestable"} -> "test.exec"
      [] shape = "unknown" -> "mcp.call"

(* Mutant: an edit is not marked dangerous.                                *)
DangerousWithoutEdit(shape) ==
    shape \in {"overwrite", "outside", "mutate", "destroy", "untestable"}

(* What preflight finds: neither an append nor a new branch is dangerous.  *)
Dangerous(shape) ==
    shape \in {"overwrite", "outside", "edit", "mutate", "destroy", "untestable"}

NeverAllow(shape) == shape \in {"outside", "destroy", "untestable"}

RiskOverride(shape) ==
    CASE shape \in {"browse", "branch"} -> "low"
      [] shape \in {"mutate", "tests"} -> "medium"
      [] shape = "destroy" -> "high"
      [] OTHER -> None

(* Mutant: a call is classified as its task, not as its agent.             *)
TaskClassified(p, shape) ==
    [tool |-> ToolOf(shape),
     risk |-> IF RiskOverride(shape) = None THEN Grant(run[p].phase).maxRisk
              ELSE RiskOverride(shape),
     classification |-> clearance,
     dangerous |-> Dangerous(shape),
     neverAllow |-> NeverAllow(shape),
     fsScope |-> IF shape = "read" THEN "none" ELSE "workspace",
     fsReadScope |-> IF shape = "read" THEN "workspace" ELSE "none",
     networkHost |-> None,
     approved |-> run[p].approved]

Request(p, shape) ==
    LET grant == Grant(run[p].phase)
    IN  [tool |-> ToolOf(shape),
         risk |-> IF RiskOverride(shape) = None THEN grant.maxRisk
                  ELSE RiskOverride(shape),
         classification |-> grant.maxClassification,
         dangerous |-> Dangerous(shape),
         neverAllow |-> NeverAllow(shape),
         fsScope |-> IF shape = "read" THEN "none" ELSE "workspace",
         fsReadScope |-> IF shape = "read" THEN "workspace" ELSE "none",
         networkHost |-> None,
         approved |-> run[p].approved]

Context ==
    [workspaceLocked |-> FALSE, providerMaxClassification |-> clearance]

JailExists(p) == run[p].jail = "project" \/ workspace.directory

(* The code a call fails with before it is executed, or None.              *)
Funnel(p, shape) ==
    LET verdict == Evaluate(Request(p, shape), Grant(run[p].phase), Context)
    IN  IF ToolOf(shape) \notin Registry(run[p].phase) THEN "TOOL_NOT_FOUND"
        ELSE IF shape = "malformed" THEN "VALIDATION_ERROR"
        ELSE IF ~JailExists(p) THEN "JAIL_ESCAPE"
        ELSE IF verdict = "deny" THEN "POLICY_DENIED"
        ELSE IF verdict = "approval" THEN "APPROVAL_REQUIRED"
        ELSE None

Call(p) == Head(run[p].todo)

HasCall(p) == pc[p] = "tools" /\ run[p].todo # <<>>

(* Mutant: a refusal goes on to the next call before the reply is pushed.  *)
RefusalsUnanswered(r, refused) ==
    [r EXCEPT !.toolCalls = @ + 1, !.replies = IF refused THEN @ ELSE @ + 1,
              !.denials = IF refused THEN @ + 1 ELSE @, !.todo = Tail(@)]

(* The call at hand is answered by a tool message, refusals are counted.   *)
Replied(r, refused) ==
    [r EXCEPT !.toolCalls = @ + 1, !.replies = @ + 1,
              !.denials = IF refused THEN @ + 1 ELSE @, !.todo = Tail(@)]

-----------------------------------------------------------------------------
(* AgentRunner.run, from its start in `agent run`.                         *)

(* The jail is the active worktree of the task, else the project.  The     *)
(* investigator takes no approval.                                         *)
BeginRun(p, phase, approved) ==
    /\ Goto(p, "idle", "model")
    /\ runs < MaxRuns
    /\ runs' = runs + 1
    /\ run' = [run EXCEPT ![p] =
                 [NoRun EXCEPT !.phase = phase,
                    !.approved = approved /\ phase # "investigate",
                    !.jail = IF workspace.row \in {"active", "removing"}
                             THEN "worktree" ELSE "project"]]
    /\ UNCHANGED <<shared, faults>>

ModelFails(p) ==
    /\ Settle(p, "model", "transport-error")
    /\ UNCHANGED <<shared, runs, faults>>

(* A message without a tool block, well-formed or not, is the last one.    *)
ModelConcludes(p) ==
    /\ Settle(p, "model", "completed")
    /\ UNCHANGED <<shared, runs, faults>>

(* Blocks that do not parse are answered and not called.                   *)
ModelCalls(p, calls) ==
    /\ Goto(p, "model", "tools")
    /\ run' = [run EXCEPT ![p].todo = calls]
    /\ UNCHANGED <<shared, runs, faults>>

NextRound(p) ==
    /\ Goto(p, "tools", "model")
    /\ run[p].todo = <<>>
    /\ run[p].round < MaxIterations
    /\ run' = [run EXCEPT ![p].round = @ + 1]
    /\ UNCHANGED <<shared, runs, faults>>

Exhaust(p) ==
    /\ Settle(p, "tools", "max-iterations")
    /\ run[p].todo = <<>>
    /\ run[p].round = MaxIterations
    /\ UNCHANGED <<shared, runs, faults>>

RefuseCall(p) ==
    /\ HasCall(p)
    /\ Funnel(p, Call(p)) \notin {None, "APPROVAL_REQUIRED"}
    /\ run' = [run EXCEPT ![p] = Replied(run[p], TRUE)]
    /\ UNCHANGED <<shared, pc, runs, faults>>

(* The run stalls; the calls behind this one are dropped.                  *)
GateCall(p) ==
    /\ HasCall(p)
    /\ Goto(p, "tools", "save")
    /\ Funnel(p, Call(p)) = "APPROVAL_REQUIRED"
    /\ run' = [run EXCEPT ![p] = [Replied(run[p], FALSE) EXCEPT
                                    !.todo = <<>>,
                                    !.status = "awaiting-approval"]]
    /\ UNCHANGED <<shared, runs, faults>>

(* A synchronous tool, which may throw.                                    *)
RunTool(p, ok) ==
    /\ HasCall(p)
    /\ Funnel(p, Call(p)) = None
    /\ Call(p) # "tests"
    /\ run' = [run EXCEPT ![p] = [Replied(run[p], ~ok) EXCEPT !.ran = Call(p)]]
    /\ UNCHANGED <<shared, pc, runs, faults>>

StartTests(p) ==
    /\ HasCall(p)
    /\ Goto(p, "tools", "testing")
    /\ Funnel(p, Call(p)) = None
    /\ Call(p) = "tests"
    /\ run' = [run EXCEPT ![p].ran = Call(p)]
    /\ UNCHANGED <<shared, runs, faults>>

TestsFinish(p, ok) ==
    /\ Goto(p, "testing", "tools")
    /\ run' = [run EXCEPT ![p] = Replied(run[p], ~ok)]
    /\ UNCHANGED <<shared, runs, faults>>

(* Mutant: the tests are simply awaited.                                   *)
TestsNeverTimeOut(p) == FALSE /\ UNCHANGED vars

(* runWithTimeout: the tests go on, nobody waits for them.                 *)
TestsTimeOut(p) ==
    /\ Goto(p, "testing", "tools")
    /\ run' = [run EXCEPT ![p] = Replied(run[p], TRUE)]
    /\ late' = late + 1
    /\ UNCHANGED <<clearance, workspace, trail, runs, faults>>

-----------------------------------------------------------------------------
(* The rest of `agent run`: one statement, or one piece of file output, at *)
(* a time.  The artifacts go under the jail, which is made if it is gone.  *)
SaveRun(p) ==
    /\ Goto(p, "save", "artifacts")
    /\ trail' = [trail EXCEPT !["agent_runs"] = @ + 1]
    /\ UNCHANGED <<clearance, workspace, late, run, runs, faults>>

(* Mutant: the run is accounted for in the audit log only.                 *)
ArtifactsThenAudit(p) ==
    /\ Goto(p, "artifacts", "audit")
    /\ workspace' = [workspace EXCEPT !.directory = @ \/ run[p].jail = "worktree"]
    /\ UNCHANGED <<clearance, trail, late, run, runs, faults>>

WriteArtifacts(p) ==
    /\ Goto(p, "artifacts", "record")
    /\ workspace' = [workspace EXCEPT !.directory = @ \/ run[p].jail = "worktree"]
    /\ UNCHANGED <<clearance, trail, late, run, runs, faults>>

RecordRun(p) ==
    /\ Goto(p, "record", "audit")
    /\ trail' = [trail EXCEPT !["runs"] = @ + 1]
    /\ UNCHANGED <<clearance, workspace, late, run, runs, faults>>

AppendAudit(p) ==
    /\ Goto(p, "audit", "idle")
    /\ trail' = [trail EXCEPT !["audit"] = @ + 1]
    /\ run' = [run EXCEPT ![p] = NoRun]
    /\ UNCHANGED <<clearance, workspace, late, runs, faults>>

-----------------------------------------------------------------------------
(* Around it.                                                              *)

PrepareWorkspace ==
    /\ workspace.row = "none"
    /\ workspace' = [row |-> "active", directory |-> TRUE]
    /\ UNCHANGED <<clearance, trail, late, pc, run, runs, faults>>

RemoveTree ==
    /\ workspace.row = "active"
    /\ workspace' = [row |-> "removing", directory |-> FALSE]
    /\ UNCHANGED <<clearance, trail, late, pc, run, runs, faults>>

MarkRemoved ==
    /\ workspace.row = "removing"
    /\ workspace' = [workspace EXCEPT !.row = "removed"]
    /\ UNCHANGED <<clearance, trail, late, pc, run, runs, faults>>

(* The test process ends, or is killed by its own timer.                   *)
LateTestsEnd ==
    /\ late > 0
    /\ late' = late - 1
    /\ UNCHANGED <<clearance, workspace, trail, pc, run, runs, faults>>

(* The process dies, or a statement or a file operation throws.            *)
Crash(p) ==
    /\ pc[p] # "idle"
    /\ faults < MaxFaults
    /\ faults' = faults + 1
    /\ Goto(p, pc[p], "idle")
    /\ run' = [run EXCEPT ![p] = NoRun]
    /\ late' = IF pc[p] = "testing" THEN late + 1 ELSE late
    /\ UNCHANGED <<clearance, workspace, trail, runs>>

Steps(p) ==
    \/ ModelFails(p) \/ ModelConcludes(p)
    \/ \E calls \in Messages : ModelCalls(p, calls)
    \/ NextRound(p) \/ Exhaust(p)
    \/ RefuseCall(p) \/ GateCall(p)
    \/ \E ok \in BOOLEAN : RunTool(p, ok)
    \/ StartTests(p) \/ TestsTimeOut(p)
    \/ SaveRun(p) \/ WriteArtifacts(p) \/ RecordRun(p) \/ AppendAudit(p)

Next ==
    \/ \E p \in Procs :
         \/ \E phase \in Phase, approved \in BOOLEAN : BeginRun(p, phase, approved)
         \/ \E ok \in BOOLEAN : TestsFinish(p, ok)
         \/ Steps(p) \/ Crash(p)
    \/ PrepareWorkspace \/ RemoveTree \/ MarkRemoved \/ LateTestsEnd

Spec == Init /\ [][Next]_vars

(* The transport answers or throws, since its requests time out; the timer *)
(* of a test run goes off, the tests themselves may hang; everything else  *)
(* is synchronous.                                                         *)
FairSpec == Spec /\ \A p \in Procs : WF_vars(Steps(p))
=============================================================================
