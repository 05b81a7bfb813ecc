----------------------------- MODULE TaskEngine -----------------------------
(***************************************************************************)
(* packages/orchestrator/src/engine.ts over the SQLite tables of           *)
(* packages/storage.  A process is one operating-system process that opens *)
(* the database: a run of the CLI, or the desktop server.  Inside a        *)
(* process an engine call is synchronous; between two processes the only   *)
(* atomic unit is one SQL statement, because every statement autocommits.  *)
(* So an action is one statement, or several whose merging no other        *)
(* process can notice, and a call in progress is a record of what it has   *)
(* read so far.                                                            *)
(***************************************************************************)
EXTENDS TaskStates, FiniteSets

CONSTANTS
    Procs,              \* processes with the database open
    Tasks,              \* task ids
    Risks,              \* the risk tiers tasks are created with
    Suites,             \* test suite names
    FindingIds,         \* security findings that may be recorded for a task
    Blockers,           \* the findings of severity high or critical
    Targets,            \* explicit `to` arguments the callers use
    Commands,           \* the other commands the callers use
    MaxFaults           \* bound: statements that throw, processes that die

Forward == "forward"    \* a transition request without `to`

AllCommands ==
    {"approve", "checkpoint", "review", "tests", "findings", "verify"}

ASSUME EngineAssumption ==
    /\ IsFiniteSet(Procs)
    /\ None \notin Tasks \cup Suites
    /\ Risks \subseteq Risk
    /\ Blockers \subseteq FindingIds
    /\ Targets \subseteq State \cup {Forward}
    /\ Commands \subseteq AllCommands
    /\ MaxFaults \in Nat

VARIABLES
    state,              \* tasks.state
    risk,               \* tasks.risk, written by INSERT only
    audit,              \* audit_events: the newest row of each action
    fixRuns,            \* runs: COUNT(*) of FIXING -> IMPLEMENTING rows
    testRow,            \* test_results: the newest row of each suite
    newestSuite,        \* test_results: the suite of the newest row
    findings,           \* security_findings: status of each row
    pc,                 \* where each process is in its engine call
    call,               \* what the call was given and has read so far
    faults              \* faults so far

tables == <<state, risk, audit, fixRuns, testRow, newestSuite, findings>>

vars == <<tables, pc, call, faults>>

-----------------------------------------------------------------------------
(* Types.                                                                  *)

VerifyRow ==
    [decision : {"absent", "recorded", "deny"}, tests : BOOLEAN, scans : BOOLEAN]

LifecycleRow ==
    [decision : {"absent", "allow", "deny"}, from : State, to : State]

(* The newest audit_events row per action the engine reads back, and the   *)
(* newest of the two lifecycle actions task.transition[.denied].           *)
AuditRows ==
    [plan : BOOLEAN, final : BOOLEAN, checkpoint : BOOLEAN, verify : VerifyRow,
     review : Agents \cup {None}, lifecycle : LifecycleRow]

NoVerify == [decision |-> "absent", tests |-> FALSE, scans |-> FALSE]

NoLifecycle == [decision |-> "absent", from |-> "CREATED", to |-> "CREATED"]

NoAudit ==
    [plan |-> FALSE, final |-> FALSE, checkpoint |-> FALSE, verify |-> NoVerify,
     review |-> None, lifecycle |-> NoLifecycle]

TestOutcome == {"green", "red"}

FindingStatus == {"absent", "open", "closed"}

(* The locals of transition() and recordVerify(); the fields GuardTransition *)
(* reads are the GuardContext.                                             *)
Call ==
    [task : Tasks \cup {None}, from : State, to : State, risk : Risk,
     plan : BOOLEAN, final : BOOLEAN, checkpoint : BOOLEAN, tests : BOOLEAN,
     scans : BOOLEAN, reviewer : Agents \cup {None}, implementer : {None},
     loops : Nat]

NoCall ==
    [task |-> None, from |-> "CREATED", to |-> "CREATED", risk |-> "medium",
     plan |-> FALSE, final |-> FALSE, checkpoint |-> FALSE, tests |-> FALSE,
     scans |-> FALSE, reviewer |-> None, implementer |-> None, loops |-> 0]

TransitionPc == {"ledger", "verifyRow", "reviewRow", "decide", "record", "trail"}

VerifyPc == {"checkTests", "checkFindings", "appendVerify", "denyVerify"}

Pc == {"idle"} \cup TransitionPc \cup VerifyPc

TypeOK ==
    /\ state \in [Tasks -> State]
    /\ risk \in [Tasks -> Risk]
    /\ audit \in [Tasks -> AuditRows]
    /\ fixRuns \in [Tasks -> Nat]
    /\ testRow \in [Tasks -> [Suites -> TestOutcome \cup {"absent"}]]
    /\ newestSuite \in [Tasks -> Suites \cup {None}]
    /\ findings \in [Tasks -> [FindingIds -> FindingStatus]]
    /\ pc \in [Procs -> Pc]
    /\ call \in [Procs -> Call]
    /\ \A p \in Procs : pc[p] # "idle" => call[p].task \in Tasks
    /\ faults \in 0 .. MaxFaults

(* Tasks as TasksDao.create leaves them: state defaults to CREATED, risk   *)
(* is given or medium, and no evidence exists.                             *)
Init ==
    /\ state = [t \in Tasks |-> "CREATED"]
    /\ risk \in [Tasks -> Risks]
    /\ audit = [t \in Tasks |-> NoAudit]
    /\ fixRuns = [t \in Tasks |-> 0]
    /\ testRow = [t \in Tasks |-> [s \in Suites |-> "absent"]]
    /\ newestSuite = [t \in Tasks |-> None]
    /\ findings = [t \in Tasks |-> [f \in FindingIds |-> "absent"]]
    /\ pc = [p \in Procs |-> "idle"]
    /\ call = [p \in Procs |-> NoCall]
    /\ faults = 0

-----------------------------------------------------------------------------
(* TaskEngine.transition.                                                  *)

Step(p, here, there) ==
    /\ pc[p] = here
    /\ pc' = [pc EXCEPT ![p] = there]

Return(p) == call' = [call EXCEPT ![p] = NoCall]

(* tasks.get: from is the state as of now, and to is the request's or the  *)
(* next happy-path state.  Without one the call returns TERMINAL_STATE     *)
(* before it writes anything.                                              *)
BeginTransition(p, t, target) ==
    LET to == IF target = Forward THEN NextHappyPath(state[t]) ELSE target
    IN  /\ Step(p, "idle", "ledger")
        /\ to # None
        /\ call' = [call EXCEPT ![p] =
                      [NoCall EXCEPT !.task = t, !.from = state[t],
                                     !.to = to, !.risk = risk[t]]]
        /\ UNCHANGED <<tables, faults>>

(* countFixLoops, then the newest approve.plan, approve.final and          *)
(* checkpoint rows.  Each only ever grows and no gate weighs two of them   *)
(* that can still change: the retry gate asks for a checkpoint as well,    *)
(* but a task in FIXING has one.  So one instant stands for the four.      *)
ReadLedger(p) ==
    LET t == call[p].task
    IN  /\ Step(p, "ledger", "verifyRow")
        /\ call' = [call EXCEPT ![p] =
                      [@ EXCEPT !.loops = fixRuns[t], !.plan = audit[t].plan,
                                !.final = audit[t].final,
                                !.checkpoint = audit[t].checkpoint]]
        /\ UNCHANGED <<tables, faults>>

(* The newest verify row, whatever its decision: only the claims in its    *)
(* detail are read.                                                        *)
ReadVerifyRow(p) ==
    LET row == audit[call[p].task].verify
    IN  /\ Step(p, "verifyRow", "reviewRow")
        /\ call' = [call EXCEPT ![p] =
                      [@ EXCEPT !.tests = row.tests, !.scans = row.scans]]
        /\ UNCHANGED <<tables, faults>>

(* The newest review row.  implementer is never filled in.                 *)
ReadReviewRow(p) ==
    /\ Step(p, "reviewRow", "decide")
    /\ call' = [call EXCEPT ![p].reviewer = audit[call[p].task].review]
    /\ UNCHANGED <<tables, faults>>

Verdict(p) == GuardTransition(call[p].from, call[p].to, call[p])

(* Mutant: the row is built after the update, from the state it wrote.     *)
AppendLifecycleLate(p, decision) ==
    audit' = [audit EXCEPT ![call[p].task].lifecycle =
                [decision |-> decision, from |-> state[call[p].task],
                 to |-> call[p].to]]

AppendLifecycle(p, decision) ==
    audit' = [audit EXCEPT ![call[p].task].lifecycle =
                [decision |-> decision, from |-> call[p].from, to |-> call[p].to]]

(* The guard fails: a task.transition.denied row, and the call returns.    *)
DenyTransition(p) ==
    /\ Step(p, "decide", "idle")
    /\ ~Verdict(p)
    /\ AppendLifecycle(p, "deny")
    /\ Return(p)
    /\ UNCHANGED <<state, risk, fixRuns, testRow, newestSuite, findings, faults>>

(* Mutant: the forward edge is taken from the state found on writing.      *)
SetStateForward(p) ==
    /\ Step(p, "decide", "record")
    /\ Verdict(p)
    /\ state' = [state EXCEPT ![call[p].task] =
                    IF call[p].to = NextHappyPath(call[p].from)
                    THEN NextHappyPath(@) ELSE call[p].to]
    /\ UNCHANGED <<risk, audit, fixRuns, testRow, newestSuite, findings, call, faults>>

(* The guard passes: tasks.setState, an UPDATE that does not look at the   *)
(* state it replaces.                                                      *)
SetState(p) ==
    /\ Step(p, "decide", "record")
    /\ Verdict(p)
    /\ state' = [state EXCEPT ![call[p].task] = call[p].to]
    /\ UNCHANGED <<risk, audit, fixRuns, testRow, newestSuite, findings, call, faults>>

(* Mutant: every entry into IMPLEMENTING counts.                           *)
RecordEveryRun(p) ==
    /\ Step(p, "record", "trail")
    /\ fixRuns' = IF call[p].to = "IMPLEMENTING"
                  THEN [fixRuns EXCEPT ![call[p].task] = @ + 1]
                  ELSE fixRuns
    /\ UNCHANGED <<state, risk, audit, testRow, newestSuite, findings, call, faults>>

(* runs.record.                                                            *)
RecordRun(p) ==
    /\ Step(p, "record", "trail")
    /\ fixRuns' = IF call[p].from = "FIXING" /\ call[p].to = "IMPLEMENTING"
                  THEN [fixRuns EXCEPT ![call[p].task] = @ + 1]
                  ELSE fixRuns
    /\ UNCHANGED <<state, risk, audit, testRow, newestSuite, findings, call, faults>>

(* Mutant: failure exits leave no row.                                     *)
AppendForwardOnly(p) ==
    /\ Step(p, "trail", "idle")
    /\ IF call[p].to \in FailureExits THEN UNCHANGED audit
                                      ELSE AppendLifecycle(p, "allow")
    /\ Return(p)
    /\ UNCHANGED <<state, risk, fixRuns, testRow, newestSuite, findings, faults>>

(* The task.transition row, and the call returns.                          *)
AppendTransition(p) ==
    /\ Step(p, "trail", "idle")
    /\ AppendLifecycle(p, "allow")
    /\ Return(p)
    /\ UNCHANGED <<state, risk, fixRuns, testRow, newestSuite, findings, faults>>

-----------------------------------------------------------------------------
(* The one-statement evidence commands.  Each is a tasks.get for existence *)
(* and one INSERT or UPDATE; a process issues one between engine calls.    *)

Issue(p, command) ==
    /\ pc[p] = "idle"
    /\ command \in Commands
    /\ UNCHANGED <<pc, call, faults>>

Approve(p, t, kind) ==
    /\ Issue(p, "approve")
    /\ audit' = [audit EXCEPT ![t] =
                   IF kind = "plan" THEN [@ EXCEPT !.plan = TRUE]
                                    ELSE [@ EXCEPT !.final = TRUE]]
    /\ UNCHANGED <<state, risk, fixRuns, testRow, newestSuite, findings>>

RecordCheckpoint(p, t) ==
    /\ Issue(p, "checkpoint")
    /\ audit' = [audit EXCEPT ![t].checkpoint = TRUE]
    /\ UNCHANGED <<state, risk, fixRuns, testRow, newestSuite, findings>>

RecordReview(p, t, agent) ==
    /\ Issue(p, "review")
    /\ audit' = [audit EXCEPT ![t].review = agent]
    /\ UNCHANGED <<state, risk, fixRuns, testRow, newestSuite, findings>>

RecordTests(p, t, suite, outcome) ==
    /\ Issue(p, "tests")
    /\ testRow' = [testRow EXCEPT ![t][suite] = outcome]
    /\ newestSuite' = [newestSuite EXCEPT ![t] = suite]
    /\ UNCHANGED <<state, risk, audit, fixRuns, findings>>

AddFinding(p, t, f) ==
    /\ Issue(p, "findings")
    /\ findings[t][f] = "absent"
    /\ findings' = [findings EXCEPT ![t][f] = "open"]
    /\ UNCHANGED <<state, risk, audit, fixRuns, testRow, newestSuite>>

(* updateStatus: any status may follow any other, open included; closed    *)
(* stands for acknowledged, fixed and wontfix.                             *)
ResolveFinding(p, t, f, status) ==
    /\ Issue(p, "findings")
    /\ findings[t][f] # "absent"
    /\ findings' = [findings EXCEPT ![t][f] = status]
    /\ UNCHANGED <<state, risk, audit, fixRuns, testRow, newestSuite>>

-----------------------------------------------------------------------------
(* TaskEngine.recordVerify: the claims are checked against the tables, one *)
(* query at a time, then a verify row carrying the claims is appended.     *)

BeginVerify(p, t, tests, scans) ==
    /\ Step(p, "idle", "checkTests")
    /\ "verify" \in Commands
    /\ call' = [call EXCEPT ![p] =
                  [NoCall EXCEPT !.task = t, !.tests = tests, !.scans = scans]]
    /\ UNCHANGED <<tables, faults>>

(* latestByTask: the newest row of all suites together.                    *)
LatestTestsGreen(t) ==
    newestSuite[t] # None /\ testRow[t][newestSuite[t]] = "green"

CheckTests(p) ==
    /\ pc[p] = "checkTests"
    /\ pc' = [pc EXCEPT ![p] =
                IF call[p].tests => LatestTestsGreen(call[p].task)
                THEN "checkFindings" ELSE "denyVerify"]
    /\ UNCHANGED <<tables, call, faults>>

(* countByTask and openBlockers.  Rows are never deleted, so one instant   *)
(* stands for the two queries.                                             *)
ScansClean(t) ==
    /\ \E f \in FindingIds : findings[t][f] # "absent"
    /\ \A f \in Blockers : findings[t][f] # "open"

(* Mutant: a scanner that never ran passes for a clean one.                *)
CheckBlockersOnly(p) ==
    /\ pc[p] = "checkFindings"
    /\ pc' = [pc EXCEPT ![p] =
                IF call[p].scans =>
                     \A f \in Blockers : findings[call[p].task][f] # "open"
                THEN "appendVerify" ELSE "denyVerify"]
    /\ UNCHANGED <<tables, call, faults>>

CheckFindings(p) ==
    /\ pc[p] = "checkFindings"
    /\ pc' = [pc EXCEPT ![p] =
                IF call[p].scans => ScansClean(call[p].task)
                THEN "appendVerify" ELSE "denyVerify"]
    /\ UNCHANGED <<tables, call, faults>>

AppendVerifyRow(p, decision) ==
    audit' = [audit EXCEPT ![call[p].task].verify =
                [decision |-> decision, tests |-> call[p].tests,
                 scans |-> call[p].scans]]

AppendVerify(p) ==
    /\ Step(p, "appendVerify", "idle")
    /\ AppendVerifyRow(p, "recorded")
    /\ Return(p)
    /\ UNCHANGED <<state, risk, fixRuns, testRow, newestSuite, findings, faults>>

(* deny(): the row is appended under the same action name, with the        *)
(* refused claims in its detail, before EngineEvidenceError is raised.     *)
DenyVerify(p) ==
    /\ Step(p, "denyVerify", "idle")
    /\ AppendVerifyRow(p, "deny")
    /\ Return(p)
    /\ UNCHANGED <<state, risk, fixRuns, testRow, newestSuite, findings, faults>>

-----------------------------------------------------------------------------
(* A statement throws (openDatabase sets no busy timeout, so a statement   *)
(* that meets another process's write lock raises at once) or the process  *)
(* dies.  Nothing undoes the statements already committed.                 *)
Fault(p) ==
    /\ pc[p] # "idle"
    /\ faults < MaxFaults
    /\ faults' = faults + 1
    /\ pc' = [pc EXCEPT ![p] = "idle"]
    /\ Return(p)
    /\ UNCHANGED tables

-----------------------------------------------------------------------------
TransitionSteps(p) ==
    \/ ReadLedger(p) \/ ReadVerifyRow(p) \/ ReadReviewRow(p)
    \/ DenyTransition(p) \/ SetState(p) \/ RecordRun(p) \/ AppendTransition(p)

VerifySteps(p) ==
    CheckTests(p) \/ CheckFindings(p) \/ AppendVerify(p) \/ DenyVerify(p)

Command(p, t) ==
    \/ \E target \in Targets : BeginTransition(p, t, target)
    \/ \E tests, scans \in BOOLEAN : BeginVerify(p, t, tests, scans)
    \/ \E kind \in {"plan", "final"} : Approve(p, t, kind)
    \/ RecordCheckpoint(p, t)
    \/ \E agent \in Agents : RecordReview(p, t, agent)
    \/ \E suite \in Suites, outcome \in TestOutcome :
         RecordTests(p, t, suite, outcome)
    \/ \E f \in FindingIds : AddFinding(p, t, f)
    \/ \E f \in FindingIds, status \in {"open", "closed"} :
         ResolveFinding(p, t, f, status)

Next ==
    \E p \in Procs :
        \/ \E t \in Tasks : Command(p, t)
        \/ TransitionSteps(p)
        \/ VerifySteps(p)
        \/ Fault(p)

(* No fairness is assumed: users issue commands when they like.            *)
Spec == Init /\ [][Next]_vars
=============================================================================
