----------------------------- MODULE TaskStates -----------------------------
(***************************************************************************)
(* The pure kernel of the task lifecycle: the transition table of          *)
(* packages/core/src/states.ts and the guard packages/orchestrator wraps   *)
(* around it.  Nothing here has state; TaskEngine and TaskMachine share it.*)
(***************************************************************************)
EXTENDS Naturals

CONSTANTS
    MaxFixAttempts,     \* MAX_FIX_ATTEMPTS (3 in the code)
    Agents,             \* the agent ids a review may name
    None                \* an absent row or field (undefined)

ASSUME FixAttemptsAssumption == MaxFixAttempts \in Nat \ {0}

Risk == {"low", "medium", "high"}

FailureExits == {"BLOCKED", "CANCELLED", "FAILED"}

TerminalStates == {"MERGED", "CANCELLED", "FAILED"}

(* The states listed as `all`: every one of them has the failure exits.    *)
OpenStates ==
    {"CREATED", "CLASSIFYING", "INVESTIGATING", "PLANNING", "WAITING_APPROVAL",
     "PREPARING_WORKSPACE", "IMPLEMENTING", "TESTING", "SECURITY_REVIEW",
     "AI_REVIEW", "FIXING", "VERIFYING", "READY", "APPROVED", "BLOCKED",
     "ROLLBACK_REQUIRED"}

State == OpenStates \cup TerminalStates

ASSUME NoneAssumption == None \notin Agents \cup State

HappyPath ==
    {<<"CREATED", "CLASSIFYING">>, <<"CLASSIFYING", "INVESTIGATING">>,
     <<"INVESTIGATING", "PLANNING">>, <<"PLANNING", "WAITING_APPROVAL">>,
     <<"WAITING_APPROVAL", "PREPARING_WORKSPACE">>,
     <<"PREPARING_WORKSPACE", "IMPLEMENTING">>, <<"IMPLEMENTING", "TESTING">>,
     <<"TESTING", "SECURITY_REVIEW">>, <<"TESTING", "FIXING">>,
     <<"SECURITY_REVIEW", "AI_REVIEW">>, <<"SECURITY_REVIEW", "FIXING">>,
     <<"AI_REVIEW", "VERIFYING">>, <<"AI_REVIEW", "FIXING">>,
     <<"FIXING", "IMPLEMENTING">>, <<"VERIFYING", "READY">>,
     <<"VERIFYING", "FIXING">>, <<"READY", "APPROVED">>,
     <<"APPROVED", "MERGED">>}

(* Mutant: the failure exits are added to the closed states too.           *)
ExitEdgesOfAll == State \X FailureExits

(* Every state listed as `all` may be blocked, cancelled or failed.        *)
ExitEdges == OpenStates \X FailureExits

(* TRANSITIONS as a set of edges; canTransition is membership in it.       *)
Transitions ==
    HappyPath
      \cup ExitEdges
      \cup {<<"FAILED", "ROLLBACK_REQUIRED">>, <<"ROLLBACK_REQUIRED", "FAILED">>,
            <<"BLOCKED", "INVESTIGATING">>, <<"BLOCKED", "PLANNING">>}

CanTransition(from, to) == <<from, to>> \in Transitions

(* The single forward edge per state: every happy-path edge but the ones   *)
(* into FIXING.  A state without one (BLOCKED, ROLLBACK_REQUIRED and the   *)
(* terminal states) yields None.                                           *)
NextHappyPath(from) ==
    IF \E to \in State \ {"FIXING"} : <<from, to>> \in HappyPath
    THEN CHOOSE to \in State \ {"FIXING"} : <<from, to>> \in HappyPath
    ELSE None

(***************************************************************************)
(* guardTransition(from, to, ctx): ctx is the evidence read for the task,  *)
(*   risk, plan, final, checkpoint : the risk tier and whether the rows    *)
(*                                   exist,                                *)
(*   tests, scans                  : the claims of the newest verify row,  *)
(*   reviewer, implementer         : agent ids or None,                    *)
(*   loops                         : recorded FIXING -> IMPLEMENTING runs. *)
(* One operator per case of its switch.                                    *)
(***************************************************************************)

PlanGate(to, ctx) ==
    to = "PREPARING_WORKSPACE" => ctx.plan \/ ctx.risk = "low"

CheckpointGate(to, ctx) == to = "IMPLEMENTING" => ctx.checkpoint

(* Mutant: off by one.                                                     *)
RetryGateInclusive(from, to, ctx) ==
    from = "FIXING" /\ to = "IMPLEMENTING" => ctx.loops <= MaxFixAttempts

RetryGate(from, to, ctx) ==
    from = "FIXING" /\ to = "IMPLEMENTING" => ctx.loops < MaxFixAttempts

FinalGate(to, ctx) == to = "APPROVED" => ctx.final \/ ctx.risk = "low"

MergeGate(to, ctx) ==
    to = "MERGED" =>
      /\ ctx.tests
      /\ ctx.scans
      /\ ctx.reviewer # None
      /\ ctx.reviewer # ctx.implementer

GuardTransition(from, to, ctx) ==
    /\ CanTransition(from, to)
    /\ PlanGate(to, ctx)
    /\ CheckpointGate(to, ctx)
    /\ RetryGate(from, to, ctx)
    /\ FinalGate(to, ctx)
    /\ MergeGate(to, ctx)

(* The states behind each gate of the guard.                               *)
BehindFinalApproval == {"APPROVED", "MERGED"}

BehindCheckpoint ==
    {"IMPLEMENTING", "TESTING", "SECURITY_REVIEW", "AI_REVIEW", "FIXING",
     "VERIFYING", "READY"} \cup BehindFinalApproval

BehindPlanApproval == {"PREPARING_WORKSPACE"} \cup BehindCheckpoint

=============================================================================
