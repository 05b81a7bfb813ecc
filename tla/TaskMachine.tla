---------------------------- MODULE TaskMachine -----------------------------
(***************************************************************************)
(* What ADR-007 promises of the orchestrator, with no steps inside a call: *)
(* a task moves in one indivisible step, along an edge of the table, and   *)
(* only when the evidence on record at that instant passes the guard.  Fix *)
(* loops are counted in the step that takes them.  TaskEngine is shown to  *)
(* implement this when one process at a time uses the database.            *)
(***************************************************************************)
EXTENDS TaskStates

CONSTANT Tasks

VARIABLES
    state,              \* the lifecycle state of each task
    risk,               \* its risk tier
    evidence,           \* what has been put on record for it
    loops               \* how often it went FIXING -> IMPLEMENTING

machineVars == <<state, risk, evidence, loops>>

Evidence ==
    [plan : BOOLEAN, final : BOOLEAN, checkpoint : BOOLEAN, tests : BOOLEAN,
     scans : BOOLEAN, reviewer : Agents \cup {None}]

NoEvidence ==
    [plan |-> FALSE, final |-> FALSE, checkpoint |-> FALSE, tests |-> FALSE,
     scans |-> FALSE, reviewer |-> None]

Context(t) ==
    [plan |-> evidence[t].plan, final |-> evidence[t].final,
     checkpoint |-> evidence[t].checkpoint, tests |-> evidence[t].tests,
     scans |-> evidence[t].scans, reviewer |-> evidence[t].reviewer,
     risk |-> risk[t], implementer |-> None, loops |-> loops[t]]

MachineInit ==
    /\ state = [t \in Tasks |-> "CREATED"]
    /\ risk \in [Tasks -> Risk]
    /\ evidence = [t \in Tasks |-> NoEvidence]
    /\ loops = [t \in Tasks |-> 0]

Move(t, to) ==
    /\ GuardTransition(state[t], to, Context(t))
    /\ state' = [state EXCEPT ![t] = to]
    /\ loops' = [loops EXCEPT ![t] =
                   IF state[t] = "FIXING" /\ to = "IMPLEMENTING" THEN @ + 1 ELSE @]
    /\ UNCHANGED <<risk, evidence>>

(* Approvals, checkpoints and reviews are never withdrawn; a verify claim  *)
(* may be replaced by any other.                                           *)
PutOnRecord(t) ==
    /\ \E e \in Evidence :
         /\ evidence' = [evidence EXCEPT ![t] = e]
         /\ evidence[t].plan => e.plan
         /\ evidence[t].final => e.final
         /\ evidence[t].checkpoint => e.checkpoint
         /\ evidence[t].reviewer # None => e.reviewer # None
    /\ UNCHANGED <<state, risk, loops>>

MachineNext ==
    \E t \in Tasks : PutOnRecord(t) \/ \E to \in State : Move(t, to)

MachineSpec == MachineInit /\ [][MachineNext]_machineVars

MachineTypeOK ==
    /\ state \in [Tasks -> State]
    /\ risk \in [Tasks -> Risk]
    /\ evidence \in [Tasks -> Evidence]
    /\ loops \in [Tasks -> Nat]

(* What every implementation of the machine inherits: no task is behind a  *)
(* gate without its evidence, and none is fixed more often than allowed.   *)
Promised ==
    \A t \in Tasks :
        /\ state[t] \in BehindPlanApproval => evidence[t].plan \/ risk[t] = "low"
        /\ state[t] \in BehindCheckpoint => evidence[t].checkpoint
        /\ state[t] \in BehindFinalApproval => evidence[t].final \/ risk[t] = "low"
        /\ state[t] = "MERGED" => evidence[t].reviewer # None
        /\ loops[t] <= MaxFixAttempts
=============================================================================
