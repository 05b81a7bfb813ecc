---------------------------- MODULE AgentSafety ----------------------------
(* What an agent run promises.                                             *)
EXTENDS AgentRun

(* Every call a model makes is answered in the transcript by one tool      *)
(* message, refused, failed, gated and timed out calls included, and the   *)
(* counters the run is saved with add up: a run that waits for an approval *)
(* made a call that is no denial.                                          *)
EveryCallReplied ==
    \A p \in Procs :
        /\ run[p].replies = run[p].toolCalls
        /\ run[p].denials <= run[p].toolCalls
        /\ run[p].status = "awaiting-approval" =>
             run[p].denials < run[p].toolCalls

(* What may be executed in a run that nobody approved.  Not all of it      *)
(* reads: the gates let a new file, an append to an existing one, and the  *)
(* git calls that git-tools.ts:26-44 takes for reading pass as they are.   *)
Ungated == {None, "read", "create", "append", "browse", "branch", "tests"}

(* Whatever the phase, the task's classification and the approvals of      *)
(* other runs, a call that overwrites or edits a file and a git call       *)
(* listed as mutating are executed in approved runs only, and no call that *)
(* leaves the jail, is blocked by the classifier or has nothing to test is *)
(* executed in any run.  The calls of Ungated are all that is left, and    *)
(* three of them write.                                                    *)
GatedNeedsApproval ==
    \A p \in Procs :
        run[p].ran \in Ungated \cup
            IF run[p].approved THEN {"overwrite", "edit", "mutate"} ELSE {}

(* An investigation reads files and runs nothing that asks for the scope   *)
(* to write, although its registry holds the tools that write, and only    *)
(* the implementer tests.                                                  *)
ReadOnlyInvestigation ==
    \A p \in Procs :
        /\ run[p].phase = "investigate" => run[p].ran \in {None, "read"}
        /\ run[p].ran = "tests" => run[p].phase = "implement"

(* Nothing is executed under a clearance above the task's classification:  *)
(* an agent calls at its own clearance, and the provider of the run counts *)
(* as cleared for the task only.                                           *)
WithinClearance ==
    \A p \in Procs :
        run[p].ran # None =>
            ClassificationAllowed(Grant(run[p].phase).maxClassification, clearance)

(* A run leaves its session row first, then its run row, then its audit    *)
(* row, so that an audited run can be read back, and as many runs are      *)
(* short of a row as are under way or were ended by a fault.               *)
TrailComplete ==
    LET underWay == Cardinality({p \in Procs : pc[p] # "idle"})
    IN  /\ trail["agent_runs"] >= trail["runs"]
        /\ trail["runs"] >= trail["audit"]
        /\ runs = trail["audit"] + underWay + faults

(* What a run has left: rounds, what the round is at, calls.               *)
Stage ==
    [model |-> 6, tools |-> 5, testing |-> 5, save |-> 4, artifacts |-> 3,
     record |-> 2, audit |-> 1, idle |-> 0]

Remaining(p) ==
    <<IF pc[p] = "idle" THEN 0 ELSE MaxIterations - run[p].round,
      Stage[pc[p]],
      2 * Len(run[p].todo) + IF pc[p] = "tools" THEN 1 ELSE 0>>

Less(a, b) ==
    \/ a[1] < b[1]
    \/ a[1] = b[1] /\ a[2] < b[2]
    \/ a[1] = b[1] /\ a[2] = b[2] /\ a[3] < b[3]

(* Why a run ends, whatever the model answers: every step leaves it fewer  *)
(* rounds, or the same rounds and fewer stages or calls, and nothing else  *)
(* in the system adds to what it has left.                                 *)
RunsShrink ==
    [][\A p \in Procs :
         pc[p] # "idle" /\ (pc'[p] # pc[p] \/ run'[p] # run[p])
         => Less(Remaining(p)', Remaining(p))]_vars

(* A run ends whatever the model answers and however its calls end, a test *)
(* run that hangs included.                                                *)
RunEnds == \A p \in Procs : pc[p] # "idle" ~> pc[p] = "idle"
=============================================================================
