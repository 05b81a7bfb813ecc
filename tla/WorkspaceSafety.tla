-------------------------- MODULE WorkspaceSafety ---------------------------
(* What WorkspaceService is for, and what its comments say it does.        *)
EXTENDS WorkspaceService

OnDisk(w) == tree[w] \in {"detached", "onBranch"}

AtRest == \A p \in Procs : pc[p] = "idle"

(* A worktree exists only for a task whose plan was approved, or whose     *)
(* risk is low, and whose base was checkpointed before: whatever is        *)
(* interleaved between the gate and the git commands.                      *)
TreesAfterApproval ==
    \A w \in Paths : OnDisk(w) =>
        /\ pathTask[w] \in planApproved \/ risk[pathTask[w]] = "low"
        /\ pathTask[w] \in checkpointed

(* However many processes prepare a task, and however often they fail, at  *)
(* most one of its worktrees is on the task's branch and at most one       *)
(* workspace row is ever written for it: git refuses a second branch of    *)
(* the same name, and the row is written after it.                         *)
OneWorkspacePerTask ==
    \A v, w \in Paths :
        /\ v # w
        /\ pathTask[v] = pathTask[w]
        => ~ (tree[v] = "onBranch" /\ tree[w] = "onBranch")
           /\ ~ (rows[v] # "absent" /\ rows[w] # "absent")

(* As long as no process dies, a row says active exactly from the moment   *)
(* its worktree is complete until remove has deleted it.                   *)
RowsMatchTrees ==
    faults = 0 => \A w \in Paths :
        /\ rows[w] = "active" =>
             \/ tree[w] = "onBranch"
             \/ \E p \in Procs : pc[p] = "mark" /\ call[p] = w
        /\ rows[w] = "removed" => tree[w] = "gone"

(* One process at a time: a prepare that returns without a workspace does  *)
(* not leave its task where the implementation could start.  Either the    *)
(* gate held it back, or it is blocked, or it was closed already.          *)
FailedPrepareStops ==
    [][\A p \in Procs :
         /\ InPrepare(p)
         /\ pc'[p] = "idle"
         /\ faults' = faults
         /\ rows' = rows
         => state'[TaskOf(p)]
              \in {"WAITING_APPROVAL", "BLOCKED"} \cup TerminalStates]_vars

(* How far a state is from the end of the forward edges.                   *)
ToGo ==
    [CREATED |-> 15, CLASSIFYING |-> 14, INVESTIGATING |-> 13, PLANNING |-> 12,
     WAITING_APPROVAL |-> 11, PREPARING_WORKSPACE |-> 10, FIXING |-> 9,
     IMPLEMENTING |-> 8, TESTING |-> 7, SECURITY_REVIEW |-> 6, AI_REVIEW |-> 5,
     VERIFYING |-> 4, READY |-> 3, APPROVED |-> 2, MERGED |-> 1,
     BLOCKED |-> 0, ROLLBACK_REQUIRED |-> 0, CANCELLED |-> 0, FAILED |-> 0]

(* What a call has left of its own statements, outside the engine and      *)
(* inside it.                                                              *)
Statements ==
    [look |-> 14, advance |-> 13, gate |-> 13, open |-> 12, project |-> 8,
     add |-> 7, branch |-> 6, insert |-> 5, block |-> 4, removeTree |-> 2,
     mark |-> 1, idle |-> 0]

InEngine == [weigh |-> 3, move |-> 2, record |-> 1]

(* The most steps left to a call that is at `here`, inside the engine for  *)
(* `why` and about to move its task to `to`, while the task is in `now`,   *)
(* if nobody else moves it.  A round of the loop is five.                  *)
Left(here, why, to, now) ==
    LET inLoop == here \in {"look", "advance"} \/ (here \in EnginePc /\ why = "phase")
        before == ToGo[IF here \in {"weigh", "move"} THEN to ELSE now]
    IN  (IF here \in EnginePc THEN InEngine[here] + Statements[Allowed[why]]
                              ELSE Statements[here])
          + IF inLoop THEN 5 * before ELSE 0

StepsLeft(p) == Left(pc[p], ask[p].why, ask[p].to, state[TaskOf(p)])

(* Why the loop of prepare, which has no bound of its own, ends: whatever  *)
(* the other processes do, every step of a call leaves it fewer, so that   *)
(* only another process moving the task back can keep it going.            *)
CallsShrink ==
    [][\A p \in Procs :
         pc[p] # "idle" /\ pc'[p] # pc[p] => StepsLeft(p)' < StepsLeft(p)]_vars

(* The loop that walks a task up to the gate ends: every prepare, every    *)
(* remove and every engine call returns or dies.                           *)
CallsReturn == \A p \in Procs : pc[p] # "idle" ~> pc[p] = "idle"

-----------------------------------------------------------------------------
(* The evidence the gates ahead of IMPLEMENTING weigh; nobody puts any     *)
(* other on record here.                                                   *)
OnRecord ==
    [t \in Tasks |->
        [plan |-> t \in planApproved, final |-> FALSE,
         checkpoint |-> t \in checkpointed, tests |-> FALSE, scans |-> FALSE,
         reviewer |-> None]]

(* A fix loop counts from the moment its state is written.                 *)
LoopsTaken ==
    [t \in Tasks |->
        IF \E p \in Procs : pc[p] = "record" /\ ask[p].task = t /\ FixLoop(p)
        THEN fixRuns[t] + 1 ELSE fixRuns[t]]

Machine == INSTANCE TaskMachine WITH evidence <- OnRecord, loops <- LoopsTaken

(* One process at a time that does not die: the statements of the service  *)
(* and of the engine move tasks as TaskMachine allows and in no other way, *)
(* and git commands and rows put nothing on record but checkpoints.        *)
MovesByTheMachine == Machine!MachineSpec

-----------------------------------------------------------------------------
(* Any number of processes: what they read may be stale when they write.   *)

Approved(t) == t \in planApproved \/ risk[t] = "low"

Cleared(t, s) ==
    /\ s \in BehindPlanApproval => Approved(t)
    /\ s \in BehindCheckpoint => t \in checkpointed
    /\ s \in BehindFinalApproval => risk[t] = "low"
    /\ s # "MERGED"

(* No interleaving of prepares and commands takes a task behind a gate     *)
(* without the evidence the gate asks for, though setState is              *)
(* unconditional; and none is merged, since nobody reviews.                *)
GatesKept == \A t \in Tasks : Cleared(t, state[t])
=============================================================================
