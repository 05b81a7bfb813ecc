----------------------------- MODULE TaskSafety -----------------------------
(***************************************************************************)
(* What TaskEngine is for.  The first part holds whatever the processes do *)
(* and wherever they fail; the second holds when one process at a time     *)
(* uses the database; the third states what the documents say and the code *)
(* does not do.                                                            *)
(***************************************************************************)
EXTENDS TaskEngine

-----------------------------------------------------------------------------
(* Under any interleaving and any fault.                                   *)

(* No task gets past a gate without the row the gate asks for: a medium or *)
(* high risk task is behind the plan gate only with a plan approval, edits *)
(* start only after a checkpoint, READY is left for APPROVED only with a   *)
(* final approval, and a merged task was reviewed.  The guard decides on   *)
(* what a process read several statements before its unconditional UPDATE, *)
(* so this says that stale reads never open a gate.                        *)
NoGateSkipped ==
    \A t \in Tasks :
        /\ state[t] \in BehindPlanApproval => audit[t].plan \/ risk[t] = "low"
        /\ state[t] \in BehindCheckpoint => audit[t].checkpoint
        /\ state[t] \in BehindFinalApproval => audit[t].final \/ risk[t] = "low"
        /\ state[t] = "MERGED" => audit[t].review # None

(* The fix budget is checked against runs rows that are written after the  *)
(* state.  With N processes racing it can be overdrawn, but by no more     *)
(* than the N - 1 calls that passed the check on the same count.           *)
FixLoopBound ==
    \A t \in Tasks :
        fixRuns[t] <= MaxFixAttempts + Cardinality(Procs) - 1

-----------------------------------------------------------------------------
(* One process at a time, no fault.                                        *)

AtRest == \A p \in Procs : pc[p] = "idle"

(* The state a lifecycle row leaves its task in: a denied attempt leaves   *)
(* it where it was.                                                        *)
RestsAt(row) == IF row.decision = "allow" THEN row.to ELSE row.from

(* Between calls the newest lifecycle row of the audit trail names the     *)
(* state the tasks table holds, for allowed and for denied attempts.       *)
TrailAgrees ==
    AtRest => \A t \in Tasks : RestsAt(audit[t].lifecycle) = state[t]

(* The audit trail is a path: every task.transition row starts where the   *)
(* row before it ended.                                                    *)
TrailContinuous ==
    [][\A t \in Tasks :
         /\ audit'[t].lifecycle # audit[t].lifecycle
         /\ audit'[t].lifecycle.decision = "allow"
         => audit'[t].lifecycle.from = RestsAt(audit[t].lifecycle)]_audit

(* A merged or cancelled task never moves again, whatever is requested.    *)
ClosedIsFinal ==
    [][\A t \in Tasks :
         state[t] \in {"MERGED", "CANCELLED"} => state'[t] = state[t]]_state

(* A verify row the engine records as evidence claims nothing the tables   *)
(* do not back at the instant it is appended.                              *)
RecordedClaimsBacked ==
    [][\A t \in Tasks :
         LET row == audit'[t].verify
         IN  row # audit[t].verify /\ row.decision = "recorded" =>
               /\ row.tests => LatestTestsGreen(t)
               /\ row.scans => ScansClean(t)]_audit

(* The calls in progress that moved a task FIXING -> IMPLEMENTING and have *)
(* yet to record the run.                                                  *)
UncountedLoops(t) ==
    Cardinality({p \in Procs :
        /\ pc[p] = "record"
        /\ call[p].task = t
        /\ call[p].from = "FIXING"
        /\ call[p].to = "IMPLEMENTING"})

(* The evidence of TaskMachine is what the guard reads of the trail, and   *)
(* a loop counts from the moment its state is written.                     *)
OnRecord ==
    [t \in Tasks |->
        [plan |-> audit[t].plan, final |-> audit[t].final,
         checkpoint |-> audit[t].checkpoint, tests |-> audit[t].verify.tests,
         scans |-> audit[t].verify.scans, reviewer |-> audit[t].review]]

LoopsTaken == [t \in Tasks |-> fixRuns[t] + UncountedLoops(t)]

Machine == INSTANCE TaskMachine WITH evidence <- OnRecord, loops <- LoopsTaken

(* The engine's statement-by-statement calls implement the indivisible,    *)
(* guarded moves of TaskMachine.                                           *)
ImplementsMachine == Machine!MachineSpec

-----------------------------------------------------------------------------
(* What the engine's comments say and the code does not do.                *)

(* recordVerify's comment: a green claim the tables do not back is denied, *)
(* fail closed.  So the row a task is merged on is never a denied one.     *)
DeniedClaimsOpenNoGate ==
    [][\A t \in Tasks :
         state[t] # "MERGED" /\ state'[t] = "MERGED"
         => audit[t].verify.decision # "deny"]_state
=============================================================================
