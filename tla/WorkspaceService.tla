-------------------------- MODULE WorkspaceService --------------------------
(***************************************************************************)
(* packages/orchestrator/src/workspace-service.ts: isolated git worktrees  *)
(* for tasks, over the task engine, the workspaces table and a repository. *)
(* An action is one statement: a read or write of a table, also those of   *)
(* an engine call, or a git command.  The n-th call of prepare tries the   *)
(* n-th path, as the code makes a path from the clock.  Rows the code only *)
(* ever appends to the audit trail and no code reads back are left out.    *)
(***************************************************************************)
EXTENDS TaskStates

CONSTANTS
    Procs,              \* CLI processes
    Tasks,              \* task ids, all of one project
    Risks,              \* the risk tiers tasks are created with
    Targets,            \* explicit targets of `task advance` and `task fail`
    MaxPrepares,        \* bound: calls of prepare
    MaxFaults           \* bound: processes that die

Forward == "forward"    \* a transition request without `to`

ASSUME WorkspaceAssumption ==
    /\ Risks \subseteq Risk
    /\ Targets \subseteq State \cup {Forward}
    /\ None \notin Tasks
    /\ MaxPrepares \in Nat
    /\ MaxFaults \in Nat

Paths == 1 .. MaxPrepares

VARIABLES
    state,              \* tasks.state
    risk,               \* tasks.risk
    planApproved,       \* tasks with an approve.plan row
    fixRuns,            \* runs: COUNT(*) of FIXING -> IMPLEMENTING rows
    checkpointed,       \* tasks with a checkpoint row
    pathTask,           \* the task a path was made for
    tree,               \* the worktree at each path
    branches,           \* tasks whose branch agent/<task> exists
    rows,               \* workspaces: the row of each path
    pc,                 \* where each process is
    call,               \* the path its prepare or remove is about
    ask,                \* the locals of its call of TaskEngine.transition
    prepares,           \* calls of prepare so far
    faults              \* processes that died so far

engineVars == <<state, risk, planApproved, fixRuns>>
gitVars == <<tree, branches>>
bounds == <<prepares, faults>>
vars ==
    <<engineVars, checkpointed, pathTask, gitVars, rows, pc, call, ask, bounds>>

PreparePc ==
    {"look", "advance", "gate", "open", "project", "add", "branch", "insert",
     "block"}

RemovePc == {"removeTree", "mark"}

EnginePc == {"weigh", "move", "record"}

(* Who calls the engine: a command of its own, the loop of prepare, its    *)
(* approval gate, or block().                                              *)
Callers == {"command", "phase", "gate", "block"}

NoAsk == [task |-> None, from |-> "CREATED", to |-> "CREATED", why |-> "command"]

InPrepare(p) ==
    \/ pc[p] \in PreparePc
    \/ pc[p] \in EnginePc /\ ask[p].why # "command"

TypeOK ==
    /\ state \in [Tasks -> State]
    /\ risk \in [Tasks -> Risk]
    /\ planApproved \subseteq Tasks
    /\ fixRuns \in [Tasks -> Nat]
    /\ checkpointed \subseteq Tasks
    /\ pathTask \in [Paths -> Tasks \cup {None}]
    /\ tree \in [Paths -> {"none", "detached", "onBranch", "gone"}]
    /\ branches \subseteq Tasks
    /\ rows \in [Paths -> {"absent", "active", "removed"}]
    /\ pc \in [Procs -> {"idle"} \cup PreparePc \cup RemovePc \cup EnginePc]
    /\ call \in [Procs -> Paths \cup {0}]
    /\ ask \in [Procs -> [task : Tasks \cup {None}, from : State, to : State,
                          why : Callers]]
    /\ \A p \in Procs :
        /\ InPrepare(p) \/ pc[p] \in RemovePc
             => call[p] # 0 /\ pathTask[call[p]] # None
        /\ pc[p] \in EnginePc => ask[p].task # None
    /\ prepares \in 0 .. MaxPrepares
    /\ faults \in 0 .. MaxFaults

Init ==
    /\ state = [t \in Tasks |-> "CREATED"]
    /\ risk \in [Tasks -> Risks]
    /\ planApproved = {}
    /\ fixRuns = [t \in Tasks |-> 0]
    /\ checkpointed = {}
    /\ pathTask = [w \in Paths |-> None]
    /\ tree = [w \in Paths |-> "none"]
    /\ branches = {}
    /\ rows = [w \in Paths |-> "absent"]
    /\ pc = [p \in Procs |-> "idle"]
    /\ call = [p \in Procs |-> 0]
    /\ ask = [p \in Procs |-> NoAsk]
    /\ prepares = 0
    /\ faults = 0

-----------------------------------------------------------------------------
(* TaskEngine.transition, called from anywhere.                            *)

(* Nobody verifies, reviews or approves finally here, so the gates behind  *)
(* READY stay shut but for low risk.                                       *)
Context(t) ==
    [risk |-> risk[t], plan |-> t \in planApproved, final |-> FALSE,
     checkpoint |-> t \in checkpointed, tests |-> FALSE, scans |-> FALSE,
     reviewer |-> None, implementer |-> None, loops |-> fixRuns[t]]

TaskOf(p) == pathTask[call[p]]

Goto(p, here, there) ==
    /\ pc[p] = here
    /\ pc' = [pc EXCEPT ![p] = there]

(* A call of prepare or remove returns.                                    *)
Return(p, here) ==
    /\ Goto(p, here, "idle")
    /\ call' = [call EXCEPT ![p] = 0]

(* tasks.get: the state the whole call goes by.                            *)
Ask(p, here, t, to, why) ==
    /\ Goto(p, here, "weigh")
    /\ to # None
    /\ ask' = [ask EXCEPT ![p] =
                 [task |-> t, from |-> state[t], to |-> to, why |-> why]]
    /\ UNCHANGED <<engineVars, checkpointed, pathTask, gitVars, rows, call,
                   bounds>>

(* Mutant: the verdict of the approval gate is not looked at.              *)
DeniedIgnored ==
    [command |-> "idle", phase |-> "block", gate |-> "project", block |-> "idle"]

(* Where a caller goes on.  The gate's failure is returned without         *)
(* blocking the task, and block() returns whatever the engine says.        *)
Denied ==
    [command |-> "idle", phase |-> "block", gate |-> "idle", block |-> "idle"]

Allowed ==
    [command |-> "idle", phase |-> "look", gate |-> "project", block |-> "idle"]

Answer(p, here, there) ==
    /\ Goto(p, here, there)
    /\ ask' = [ask EXCEPT ![p] = NoAsk]
    /\ call' = IF there = "idle" THEN [call EXCEPT ![p] = 0] ELSE call
    /\ UNCHANGED <<risk, planApproved, checkpointed, pathTask, gitVars, rows,
                   bounds>>

(* countFixLoops and the newest rows of the trail are read and weighed.    *)
(* What they say only ever grows, and no gate weighs two of them that can  *)
(* still change, so one instant stands for the reads (see TaskEngine).     *)
Verdict(p) ==
    GuardTransition(ask[p].from, ask[p].to, Context(ask[p].task))

Weigh(p) ==
    /\ Goto(p, "weigh", "move")
    /\ Verdict(p)
    /\ UNCHANGED <<engineVars, checkpointed, pathTask, gitVars, rows, call, ask,
                   bounds>>

Refuse(p) ==
    /\ Answer(p, "weigh", Denied[ask[p].why])
    /\ ~Verdict(p)
    /\ UNCHANGED <<state, fixRuns>>

(* tasks.setState, which does not look at the state it replaces.           *)
SetState(p) ==
    /\ Goto(p, "move", "record")
    /\ state' = [state EXCEPT ![ask[p].task] = ask[p].to]
    /\ UNCHANGED <<risk, planApproved, fixRuns, checkpointed, pathTask, gitVars,
                   rows, call, ask, bounds>>

(* runs.record, the rows countFixLoops counts.                             *)
FixLoop(p) == ask[p].from = "FIXING" /\ ask[p].to = "IMPLEMENTING"

RecordRun(p) ==
    /\ Answer(p, "record", Allowed[ask[p].why])
    /\ fixRuns' = [fixRuns EXCEPT ![ask[p].task] =
                     IF FixLoop(p) THEN @ + 1 ELSE @]
    /\ UNCHANGED state

-----------------------------------------------------------------------------
(* The other commands: task advance, task fail, approve plan.              *)

Advance(p, t, target) ==
    Ask(p, "idle", t,
        IF target = Forward THEN NextHappyPath(state[t]) ELSE target, "command")

ApprovePlan(p, t) ==
    /\ pc[p] = "idle"
    /\ planApproved' = planApproved \cup {t}
    /\ UNCHANGED <<state, risk, fixRuns, checkpointed, pathTask, gitVars,
                   rows, pc, call, ask, bounds>>

-----------------------------------------------------------------------------
(* WorkspaceService.prepare.                                               *)

BeginPrepare(p, t) ==
    /\ Goto(p, "idle", "look")
    /\ prepares < MaxPrepares
    /\ prepares' = prepares + 1
    /\ pathTask' = [pathTask EXCEPT ![prepares'] = t]
    /\ call' = [call EXCEPT ![p] = prepares']
    /\ UNCHANGED <<engineVars, checkpointed, gitVars, rows, ask, faults>>

(* The head of the loop: the gate is reached, the task is still being      *)
(* investigated, or it is anywhere else, BLOCKED included.                 *)
InvestigationPhases == {"CREATED", "CLASSIFYING", "INVESTIGATING", "PLANNING"}

(* Mutant: the loop goes round again in a state it does not know.          *)
LookAgain(p) ==
    LET cur == state[TaskOf(p)]
    IN  /\ Goto(p, "look",
             CASE cur \in {"WAITING_APPROVAL", "PREPARING_WORKSPACE"} -> "gate"
               [] cur \in InvestigationPhases -> "advance"
               [] OTHER -> "look")
        /\ UNCHANGED <<engineVars, checkpointed, pathTask, gitVars, rows,
                       call, ask, bounds>>

Look(p) ==
    LET cur == state[TaskOf(p)]
    IN  /\ Goto(p, "look",
             CASE cur \in {"WAITING_APPROVAL", "PREPARING_WORKSPACE"} -> "gate"
               [] cur \in InvestigationPhases -> "advance"
               [] OTHER -> "block")
        /\ UNCHANGED <<engineVars, checkpointed, pathTask, gitVars, rows,
                       call, ask, bounds>>

AdvancePhase(p) ==
    Ask(p, "advance", TaskOf(p), NextHappyPath(state[TaskOf(p)]), "phase")

(* TERMINAL_STATE: another process has moved the task where no forward     *)
(* edge leads on.                                                          *)
NoWayForward(p) ==
    /\ Goto(p, "advance", "block")
    /\ NextHappyPath(state[TaskOf(p)]) = None
    /\ UNCHANGED <<engineVars, checkpointed, pathTask, gitVars, rows, call,
                   ask, bounds>>

Gate(p) ==
    /\ Goto(p, "gate",
         IF state[TaskOf(p)] = "PREPARING_WORKSPACE" THEN "project" ELSE "open")
    /\ UNCHANGED <<engineVars, checkpointed, pathTask, gitVars, rows, call,
                   ask, bounds>>

(* The plan approval gate.                                                 *)
AskGate(p) == Ask(p, "open", TaskOf(p), "PREPARING_WORKSPACE", "gate")

(* The project row, its root, git rev-parse and the checkpoint are read;   *)
(* any of them may fail.  If none does the checkpoint is recorded.         *)
RecordCheckpoint(p) ==
    /\ Goto(p, "project", "add")
    /\ checkpointed' = checkpointed \cup {TaskOf(p)}
    /\ UNCHANGED <<engineVars, pathTask, gitVars, rows, call, ask, bounds>>

(* git worktree add --detach <path> <sha>.                                 *)
AddWorktree(p) ==
    /\ Goto(p, "add", "branch")
    /\ tree' = [tree EXCEPT ![call[p]] = "detached"]
    /\ UNCHANGED <<engineVars, checkpointed, pathTask, branches, rows, call,
                   ask, bounds>>

(* Mutant: checkout -B, which takes an existing branch over.               *)
ForceBranch(p) ==
    /\ Goto(p, "branch", "insert")
    /\ branches' = branches \cup {TaskOf(p)}
    /\ tree' = [tree EXCEPT ![call[p]] = "onBranch"]
    /\ UNCHANGED <<engineVars, checkpointed, pathTask, rows, call, ask, bounds>>

(* git checkout -b agent/<task> in the new worktree: refused when the      *)
(* branch exists.                                                          *)
CreateBranch(p) ==
    /\ Goto(p, "branch", "insert")
    /\ TaskOf(p) \notin branches
    /\ branches' = branches \cup {TaskOf(p)}
    /\ tree' = [tree EXCEPT ![call[p]] = "onBranch"]
    /\ UNCHANGED <<engineVars, checkpointed, pathTask, rows, call, ask, bounds>>

(* A read or a git command fails.  What earlier commands made stays.       *)
PrepareFails(p) ==
    /\ \E here \in {"project", "add", "branch"} : Goto(p, here, "block")
    /\ UNCHANGED <<engineVars, checkpointed, pathTask, gitVars, rows, call,
                   ask, bounds>>

InsertWorkspace(p) ==
    /\ Return(p, "insert")
    /\ rows' = [rows EXCEPT ![call[p]] = "active"]
    /\ UNCHANGED <<engineVars, checkpointed, pathTask, gitVars, ask, bounds>>

(* Mutant: the failure is returned but the task is left where it was.      *)
ReturnUnblocked(p) ==
    /\ Return(p, "block")
    /\ UNCHANGED <<engineVars, checkpointed, pathTask, gitVars, rows, ask,
                   bounds>>

(* block(): a transition to BLOCKED.                                       *)
Block(p) == Ask(p, "block", TaskOf(p), "BLOCKED", "block")

-----------------------------------------------------------------------------
(* WorkspaceService.remove: of any row, whatever its state.                *)

BeginRemove(p, w) ==
    /\ Goto(p, "idle", "removeTree")
    /\ rows[w] # "absent"
    /\ call' = [call EXCEPT ![p] = w]
    /\ UNCHANGED <<engineVars, checkpointed, pathTask, gitVars, rows, ask,
                   bounds>>

(* git worktree remove --force: refused when nothing is registered there.  *)
(* The branch stays.                                                       *)
RemoveTree(p) ==
    /\ Goto(p, "removeTree", "mark")
    /\ tree[call[p]] \in {"detached", "onBranch"}
    /\ tree' = [tree EXCEPT ![call[p]] = "gone"]
    /\ UNCHANGED <<engineVars, checkpointed, pathTask, branches, rows, call,
                   ask, bounds>>

(* Mutant: a failed removal is marked all the same.                        *)
RemoveFailsMarked(p) ==
    /\ Goto(p, "removeTree", "mark")
    /\ UNCHANGED <<engineVars, checkpointed, pathTask, gitVars, rows, call,
                   ask, bounds>>

RemoveFails(p) ==
    /\ Return(p, "removeTree")
    /\ UNCHANGED <<engineVars, checkpointed, pathTask, gitVars, rows, ask,
                   bounds>>

MarkRemoved(p) ==
    /\ Return(p, "mark")
    /\ rows' = [rows EXCEPT ![call[p]] = "removed"]
    /\ UNCHANGED <<engineVars, checkpointed, pathTask, gitVars, ask, bounds>>

-----------------------------------------------------------------------------
(* The process dies, or a statement throws, between two steps.             *)
Fault(p) ==
    /\ pc[p] # "idle"
    /\ faults < MaxFaults
    /\ faults' = faults + 1
    /\ Return(p, pc[p])
    /\ ask' = [ask EXCEPT ![p] = NoAsk]
    /\ UNCHANGED <<engineVars, checkpointed, pathTask, gitVars, rows,
                   prepares>>

PrepareSteps(p) ==
    \/ Look(p) \/ AdvancePhase(p) \/ NoWayForward(p) \/ Gate(p) \/ AskGate(p)
    \/ RecordCheckpoint(p) \/ AddWorktree(p) \/ CreateBranch(p)
    \/ PrepareFails(p) \/ InsertWorkspace(p) \/ Block(p)

EngineSteps(p) == Weigh(p) \/ Refuse(p) \/ SetState(p) \/ RecordRun(p)

RemoveSteps(p) == RemoveTree(p) \/ RemoveFails(p) \/ MarkRemoved(p)

Command(p) ==
    \/ \E t \in Tasks, target \in Targets : Advance(p, t, target)
    \/ \E t \in Tasks : ApprovePlan(p, t) \/ BeginPrepare(p, t)
    \/ \E w \in Paths : BeginRemove(p, w)

Next ==
    \E p \in Procs :
        \/ Command(p) \/ PrepareSteps(p) \/ EngineSteps(p) \/ RemoveSteps(p)
        \/ Fault(p)

Spec == Init /\ [][Next]_vars

(* prepare, remove and the engine are synchronous: a process that has      *)
(* started a call does nothing else until it returns, so its steps are     *)
(* weakly fair.                                                            *)
FairSpec ==
    Spec /\ \A p \in Procs :
        WF_vars(PrepareSteps(p) \/ EngineSteps(p) \/ RemoveSteps(p))
=============================================================================
