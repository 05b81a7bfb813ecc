-------------------------- MODULE TaskEngineProofs --------------------------
(***************************************************************************)
(* Theorems about TaskEngine for any processes, tasks, suites, findings    *)
(* and retry limit, any interleaving and any number of faults; and, in the *)
(* second half, about one process at a time.                               *)
(***************************************************************************)
EXTENDS TaskSafety, FiniteSetTheorems, TLAPS

-----------------------------------------------------------------------------
(* The transition table.                                                   *)

(* The only edges into the states behind a gate are the gate's own and     *)
(* those from a state already behind it; nothing leaves MERGED.            *)
LEMMA OneWayThroughGates ==
    ASSUME NEW from, NEW to, CanTransition(from, to)
    PROVE  /\ to \in BehindPlanApproval /\ to # "PREPARING_WORKSPACE"
                => from \in BehindPlanApproval
           /\ to \in BehindCheckpoint /\ to # "IMPLEMENTING"
                => from \in BehindCheckpoint
           /\ to \in BehindFinalApproval /\ to # "APPROVED"
                => from \in BehindFinalApproval
  BY DEF CanTransition, Transitions, HappyPath, ExitEdges, OpenStates, FailureExits,
         BehindPlanApproval, BehindCheckpoint, BehindFinalApproval

(* nextHappyPath yields a state or nothing.                                *)
LEMMA ForwardType ==
    ASSUME NEW from
    PROVE  NextHappyPath(from) \in State \cup {None}
  BY DEF NextHappyPath

-----------------------------------------------------------------------------
(* Type correctness: every table and every call in progress keeps its      *)
(* shape, and a call in progress is about a task.                          *)
LEMMA InitType == Init => TypeOK
<1> SUFFICES ASSUME Init PROVE TypeOK
  OBVIOUS
<1>1. NoAudit \in AuditRows
  BY DEF NoAudit, AuditRows, NoVerify, VerifyRow, NoLifecycle, LifecycleRow,
         State, OpenStates
<1>2. NoCall \in Call
  BY DEF NoCall, Call, State, OpenStates, Risk
<1>3. state \in [Tasks -> State] /\ risk \in [Tasks -> Risk]
  BY EngineAssumption DEF Init, State, OpenStates
<1>4. audit \in [Tasks -> AuditRows] /\ call \in [Procs -> Call]
  BY <1>1, <1>2 DEF Init
<1>5. /\ testRow \in [Tasks -> [Suites -> TestOutcome \cup {"absent"}]]
      /\ findings \in [Tasks -> [FindingIds -> FindingStatus]]
      /\ newestSuite \in [Tasks -> Suites \cup {None}]
      /\ fixRuns \in [Tasks -> Nat]
  BY DEF Init, FindingStatus
<1>6. /\ pc \in [Procs -> Pc]
      /\ \A p \in Procs : pc[p] # "idle" => call[p].task \in Tasks
      /\ faults \in 0 .. MaxFaults
  BY EngineAssumption DEF Init, Pc
<1> QED BY <1>3, <1>4, <1>5, <1>6 DEF TypeOK

LEMMA NextType == TypeOK /\ [Next]_vars => TypeOK'
<1> SUFFICES ASSUME TypeOK, [Next]_vars PROVE TypeOK'
  OBVIOUS
<1> USE DEF TypeOK
<1>1. ASSUME NEW p \in Procs, NEW t \in Tasks, NEW target \in Targets,
             BeginTransition(p, t, target)
      PROVE  TypeOK'
  <2> DEFINE to == IF target = Forward THEN NextHappyPath(state[t]) ELSE target
  <2>1. to \in State
    BY <1>1, ForwardType, EngineAssumption DEF BeginTransition, Forward
  <2>2. [NoCall EXCEPT !.task = t, !.from = state[t], !.to = to,
                       !.risk = risk[t]] \in Call
    BY <2>1 DEF Call, NoCall
  <2>3. call' \in [Procs -> Call]
    BY <1>1, <2>2 DEF BeginTransition
  <2>4. \A q \in Procs : pc'[q] # "idle" => call'[q].task \in Tasks
    BY <1>1 DEF BeginTransition, Step, NoCall
  <2>5. pc' \in [Procs -> Pc]
    BY <1>1 DEF BeginTransition, Step, Pc, TransitionPc
  <2> QED BY <1>1, <2>3, <2>4, <2>5 DEF BeginTransition, tables
<1>2. ASSUME NEW p \in Procs, ReadLedger(p) PROVE TypeOK'
  <2>1. call[p].task \in Tasks
    BY <1>2 DEF ReadLedger, Step
  <2> DEFINE t == call[p].task
             c == [call[p] EXCEPT !.loops = fixRuns[t], !.plan = audit[t].plan,
                                  !.final = audit[t].final,
                                  !.checkpoint = audit[t].checkpoint]
  <2>5. /\ fixRuns[t] \in Nat
        /\ audit[t].plan \in BOOLEAN
        /\ audit[t].final \in BOOLEAN
        /\ audit[t].checkpoint \in BOOLEAN
    BY <2>1 DEF AuditRows
  <2>6. c \in Call
    <3> HIDE DEF t
    <3>1. call[p] \in Call
      OBVIOUS
    <3> QED BY <3>1, <2>5 DEF Call
  <2>2. call' \in [Procs -> Call]
    <3> HIDE DEF c
    <3>1. call' = [call EXCEPT ![p] = c]
      BY <1>2 DEF ReadLedger, c
    <3> QED BY <3>1, <2>6
  <2>3. \A q \in Procs : pc'[q] # "idle" => call'[q].task \in Tasks
    BY <1>2, <2>1 DEF ReadLedger, Step, Call
  <2>4. pc' \in [Procs -> Pc]
    BY <1>2 DEF ReadLedger, Step, Pc, TransitionPc
  <2> QED BY <1>2, <2>2, <2>3, <2>4 DEF ReadLedger, tables
<1>3. ASSUME NEW p \in Procs, ReadVerifyRow(p) PROVE TypeOK'
  <2>1. call[p].task \in Tasks
    BY <1>3 DEF ReadVerifyRow, Step
  <2> DEFINE row == audit[call[p].task].verify
             c == [call[p] EXCEPT !.tests = row.tests, !.scans = row.scans]
  <2>5. row.tests \in BOOLEAN /\ row.scans \in BOOLEAN
    BY <2>1 DEF AuditRows, VerifyRow
  <2>6. c \in Call
    <3> HIDE DEF row
    <3>1. call[p] \in Call
      OBVIOUS
    <3> QED BY <3>1, <2>5 DEF Call
  <2>2. call' \in [Procs -> Call]
    <3> HIDE DEF c
    <3>1. call' = [call EXCEPT ![p] = c]
      BY <1>3 DEF ReadVerifyRow, c
    <3> QED BY <3>1, <2>6
  <2>3. \A q \in Procs : pc'[q] # "idle" => call'[q].task \in Tasks
    BY <1>3, <2>1 DEF ReadVerifyRow, Step, Call
  <2>4. pc' \in [Procs -> Pc]
    BY <1>3 DEF ReadVerifyRow, Step, Pc, TransitionPc
  <2> QED BY <1>3, <2>2, <2>3, <2>4 DEF ReadVerifyRow, tables
<1>4. ASSUME NEW p \in Procs, ReadReviewRow(p) PROVE TypeOK'
  <2>1. call[p].task \in Tasks
    BY <1>4 DEF ReadReviewRow, Step
  <2> DEFINE reviewer == audit[call[p].task].review
             c == [call[p] EXCEPT !.reviewer = reviewer]
  <2>5. reviewer \in Agents \cup {None}
    BY <2>1 DEF AuditRows
  <2>6. c \in Call
    <3> HIDE DEF reviewer
    <3>1. call[p] \in Call
      OBVIOUS
    <3> QED BY <3>1, <2>5 DEF Call
  <2>2. call' \in [Procs -> Call]
    <3>1. call' = [call EXCEPT ![p] = c]
      BY <1>4 DEF ReadReviewRow
    <3> HIDE DEF c
    <3> QED BY <3>1, <2>6
  <2>3. \A q \in Procs : pc'[q] # "idle" => call'[q].task \in Tasks
    BY <1>4, <2>1 DEF ReadReviewRow, Step, Call
  <2>4. pc' \in [Procs -> Pc]
    BY <1>4 DEF ReadReviewRow, Step, Pc, TransitionPc
  <2> QED BY <1>4, <2>2, <2>3, <2>4 DEF ReadReviewRow, tables
<1>5. ASSUME NEW p \in Procs, NEW decision \in {"allow", "deny"},
             call[p].task \in Tasks, AppendLifecycle(p, decision)
      PROVE  audit' \in [Tasks -> AuditRows]
  <2>1. [decision |-> decision, from |-> call[p].from, to |-> call[p].to]
          \in LifecycleRow
    BY DEF Call, LifecycleRow
  <2> QED BY <1>5, <2>1 DEF AppendLifecycle, AuditRows
<1>6. ASSUME NEW p \in Procs, Return(p), Step(p, pc[p], "idle")
      PROVE  /\ call' \in [Procs -> Call]
             /\ pc' \in [Procs -> Pc]
             /\ \A q \in Procs : pc'[q] # "idle" => call'[q].task \in Tasks
  <2>1. NoCall \in Call
    BY DEF NoCall, Call, State, OpenStates, Risk
  <2>2. pc' \in [Procs -> Pc]
    BY <1>6 DEF Step, Pc
  <2> QED BY <1>6, <2>1, <2>2 DEF Return, Step
<1>7. ASSUME NEW p \in Procs, DenyTransition(p) PROVE TypeOK'
  <2>1. call[p].task \in Tasks
    BY <1>7 DEF DenyTransition, Step
  <2>2. audit' \in [Tasks -> AuditRows]
    BY <1>5, <1>7, <2>1 DEF DenyTransition
  <2> QED BY <1>6, <1>7, <2>2 DEF DenyTransition, Step
<1>8. ASSUME NEW p \in Procs, SetState(p) PROVE TypeOK'
  <2>1. call[p].task \in Tasks
    BY <1>8 DEF SetState, Step
  <2>2. state' \in [Tasks -> State]
    BY <1>8, <2>1 DEF SetState, Call
  <2>3. pc' \in [Procs -> Pc]
    BY <1>8 DEF SetState, Step, Pc, TransitionPc
  <2>4. \A q \in Procs : pc'[q] # "idle" => call'[q].task \in Tasks
    BY <1>8, <2>1 DEF SetState, Step
  <2> QED BY <1>8, <2>2, <2>3, <2>4 DEF SetState
<1>9. ASSUME NEW p \in Procs, RecordRun(p) PROVE TypeOK'
  <2>1. call[p].task \in Tasks
    BY <1>9 DEF RecordRun, Step
  <2>2. fixRuns' \in [Tasks -> Nat]
    BY <1>9, <2>1 DEF RecordRun
  <2>3. pc' \in [Procs -> Pc]
    BY <1>9 DEF RecordRun, Step, Pc, TransitionPc
  <2>4. \A q \in Procs : pc'[q] # "idle" => call'[q].task \in Tasks
    BY <1>9, <2>1 DEF RecordRun, Step
  <2> QED BY <1>9, <2>2, <2>3, <2>4 DEF RecordRun
<1>10. ASSUME NEW p \in Procs, AppendTransition(p) PROVE TypeOK'
  <2>1. call[p].task \in Tasks
    BY <1>10 DEF AppendTransition, Step
  <2>2. audit' \in [Tasks -> AuditRows]
    BY <1>5, <1>10, <2>1 DEF AppendTransition
  <2> QED BY <1>6, <1>10, <2>2 DEF AppendTransition, Step
<1>11. ASSUME NEW p \in Procs, NEW t \in Tasks, NEW kind, Approve(p, t, kind)
       PROVE  TypeOK'
  <2>1. audit' \in [Tasks -> AuditRows]
    <3>1. audit[t] \in AuditRows
      OBVIOUS
    <3>2. /\ [audit[t] EXCEPT !.plan = TRUE] \in AuditRows
          /\ [audit[t] EXCEPT !.final = TRUE] \in AuditRows
      BY <3>1 DEF AuditRows
    <3> QED BY <1>11, <3>2 DEF Approve
  <2> QED BY <1>11, <2>1 DEF Approve, Issue
<1>12. ASSUME NEW p \in Procs, NEW t \in Tasks, RecordCheckpoint(p, t)
       PROVE  TypeOK'
  <2>1. audit' \in [Tasks -> AuditRows]
    BY <1>12 DEF RecordCheckpoint, AuditRows
  <2> QED BY <1>12, <2>1 DEF RecordCheckpoint, Issue
<1>13. ASSUME NEW p \in Procs, NEW t \in Tasks, NEW agent \in Agents,
              RecordReview(p, t, agent)
       PROVE  TypeOK'
  <2>1. audit' \in [Tasks -> AuditRows]
    BY <1>13 DEF RecordReview, AuditRows
  <2> QED BY <1>13, <2>1 DEF RecordReview, Issue
<1>14. ASSUME NEW p \in Procs, NEW t \in Tasks, NEW suite \in Suites,
              NEW outcome \in TestOutcome, RecordTests(p, t, suite, outcome)
       PROVE  TypeOK'
  <2>1. testRow' \in [Tasks -> [Suites -> TestOutcome \cup {"absent"}]]
    BY <1>14 DEF RecordTests
  <2>2. newestSuite' \in [Tasks -> Suites \cup {None}]
    BY <1>14 DEF RecordTests
  <2> QED BY <1>14, <2>1, <2>2 DEF RecordTests, Issue
<1>15. ASSUME NEW p \in Procs, NEW t \in Tasks, NEW f \in FindingIds,
              AddFinding(p, t, f)
       PROVE  TypeOK'
  <2>1. findings' \in [Tasks -> [FindingIds -> FindingStatus]]
    BY <1>15 DEF AddFinding, FindingStatus
  <2> QED BY <1>15, <2>1 DEF AddFinding, Issue
<1>16. ASSUME NEW p \in Procs, NEW t \in Tasks, NEW f \in FindingIds,
              NEW status \in {"open", "closed"}, ResolveFinding(p, t, f, status)
       PROVE  TypeOK'
  <2>1. findings' \in [Tasks -> [FindingIds -> FindingStatus]]
    BY <1>16 DEF ResolveFinding, FindingStatus
  <2> QED BY <1>16, <2>1 DEF ResolveFinding, Issue
<1>17. ASSUME NEW p \in Procs, NEW t \in Tasks, NEW tests \in BOOLEAN,
              NEW scans \in BOOLEAN, BeginVerify(p, t, tests, scans)
       PROVE  TypeOK'
  <2>1. [NoCall EXCEPT !.task = t, !.tests = tests, !.scans = scans] \in Call
    BY DEF NoCall, Call, State, OpenStates, Risk
  <2>2. call' \in [Procs -> Call]
    BY <1>17, <2>1 DEF BeginVerify
  <2>3. \A q \in Procs : pc'[q] # "idle" => call'[q].task \in Tasks
    BY <1>17 DEF BeginVerify, Step, NoCall
  <2>4. pc' \in [Procs -> Pc]
    BY <1>17 DEF BeginVerify, Step, Pc, VerifyPc
  <2> QED BY <1>17, <2>2, <2>3, <2>4 DEF BeginVerify, tables
<1>18. ASSUME NEW p \in Procs, CheckTests(p) PROVE TypeOK'
  BY <1>18 DEF CheckTests, Pc, VerifyPc, tables
<1>19. ASSUME NEW p \in Procs, CheckFindings(p) PROVE TypeOK'
  BY <1>19 DEF CheckFindings, Pc, VerifyPc, tables
<1>20. ASSUME NEW p \in Procs, NEW decision \in {"recorded", "deny"},
              AppendVerifyRow(p, decision)
       PROVE  audit' \in [Tasks -> AuditRows]
  <2>1. [decision |-> decision, tests |-> call[p].tests, scans |-> call[p].scans]
          \in VerifyRow
    BY DEF Call, VerifyRow
  <2> QED BY <1>20, <2>1 DEF AppendVerifyRow, AuditRows
<1>21. ASSUME NEW p \in Procs, AppendVerify(p) PROVE TypeOK'
  <2>1. audit' \in [Tasks -> AuditRows]
    BY <1>20, <1>21 DEF AppendVerify
  <2> QED BY <1>6, <1>21, <2>1 DEF AppendVerify, Step
<1>22. ASSUME NEW p \in Procs, DenyVerify(p) PROVE TypeOK'
  <2>1. audit' \in [Tasks -> AuditRows]
    BY <1>20, <1>22 DEF DenyVerify
  <2> QED BY <1>6, <1>22, <2>1 DEF DenyVerify, Step
<1>23. ASSUME NEW p \in Procs, Fault(p) PROVE TypeOK'
  <2>1. faults' \in 0 .. MaxFaults
    BY <1>23, EngineAssumption DEF Fault
  <2> QED BY <1>6, <1>23, <2>1 DEF Fault, Step, tables
<1>24. CASE UNCHANGED vars
  BY <1>24 DEF vars, tables
<1> QED
  BY <1>1, <1>2, <1>3, <1>4, <1>7, <1>8, <1>9, <1>10, <1>11, <1>12, <1>13,
     <1>14, <1>15, <1>16, <1>17, <1>18, <1>19, <1>21, <1>22, <1>23, <1>24
     DEF Next, Command, TransitionSteps, VerifySteps

(* Type correctness: every table and every call in progress keeps its      *)
(* shape, and a call in progress is about a task.                          *)
THEOREM TypeCorrect == Spec => []TypeOK
  BY InitType, NextType, PTL DEF Spec

-----------------------------------------------------------------------------
(***************************************************************************)
(* No gate is skipped.  NoGateSkipped is not inductive: SetState writes    *)
(* what a process decided on rows it read earlier.  What carries it is     *)
(* that the rows the gates ask for are never withdrawn, so whatever a call *)
(* has read, the state it started from included, is still backed by the    *)
(* audit trail when the call writes.                                       *)
(***************************************************************************)
PlanBacked(t) == audit[t].plan \/ risk[t] = "low"

FinalBacked(t) == audit[t].final \/ risk[t] = "low"

CallBacked(p) ==
    LET c == call[p]
        t == c.task
    IN  /\ c.risk = risk[t]
        /\ c.from \in BehindPlanApproval => PlanBacked(t)
        /\ c.from \in BehindCheckpoint => audit[t].checkpoint
        /\ c.from \in BehindFinalApproval => FinalBacked(t)
        /\ c.plan => audit[t].plan
        /\ c.final => audit[t].final
        /\ c.checkpoint => audit[t].checkpoint
        /\ c.reviewer # None => audit[t].review # None

CallsBacked == \A p \in Procs : pc[p] \in TransitionPc => CallBacked(p)

GateInv == TypeOK /\ NoGateSkipped /\ CallsBacked

(* A step that leaves the states, the risks and the calls of every process *)
(* but p alone, and withdraws no row, keeps the calls of the others backed.*)
RowsKept ==
    \A t \in Tasks :
        /\ audit[t].plan => audit'[t].plan
        /\ audit[t].final => audit'[t].final
        /\ audit[t].checkpoint => audit'[t].checkpoint
        /\ audit[t].review # None => audit'[t].review # None

LEMMA CallStaysBacked ==
    ASSUME TypeOK, NEW p \in Procs, pc[p] \in TransitionPc, CallBacked(p),
           RowsKept, risk' = risk, call'[p] = call[p]
    PROVE  CallBacked(p)'
<1>1. call[p].task \in Tasks
  BY DEF TypeOK, TransitionPc
<1> QED BY <1>1 DEF CallBacked, RowsKept, PlanBacked, FinalBacked

(* Appending a row of any kind withdraws none.                             *)
LEMMA AppendingKeepsRows ==
    ASSUME TypeOK, NEW p \in Procs,
           \/ audit' = audit
           \/ \E decision : AppendLifecycle(p, decision)
           \/ \E decision : AppendVerifyRow(p, decision)
    PROVE  RowsKept
<1>1. CASE audit' = audit
  BY <1>1 DEF RowsKept
<1>2. ASSUME NEW decision, AppendLifecycle(p, decision)
      PROVE  RowsKept
  <2> DEFINE row == [decision |-> decision, from |-> call[p].from,
                     to |-> call[p].to]
  <2> SUFFICES ASSUME NEW t \in Tasks
               PROVE  /\ audit'[t].plan = audit[t].plan
                      /\ audit'[t].final = audit[t].final
                      /\ audit'[t].checkpoint = audit[t].checkpoint
                      /\ audit'[t].review = audit[t].review
    BY DEF RowsKept
  <2>1. audit' = [audit EXCEPT ![call[p].task].lifecycle = row]
    BY <1>2 DEF AppendLifecycle
  <2>2. audit[t] \in AuditRows /\ audit \in [Tasks -> AuditRows]
    BY DEF TypeOK
  <2> HIDE DEF row
  <2> QED BY <2>1, <2>2 DEF AuditRows
<1>3. ASSUME NEW decision, AppendVerifyRow(p, decision)
      PROVE  RowsKept
  <2> DEFINE row == [decision |-> decision, tests |-> call[p].tests,
                     scans |-> call[p].scans]
  <2> SUFFICES ASSUME NEW t \in Tasks
               PROVE  /\ audit'[t].plan = audit[t].plan
                      /\ audit'[t].final = audit[t].final
                      /\ audit'[t].checkpoint = audit[t].checkpoint
                      /\ audit'[t].review = audit[t].review
    BY DEF RowsKept
  <2>1. audit' = [audit EXCEPT ![call[p].task].verify = row]
    BY <1>3 DEF AppendVerifyRow
  <2>2. audit[t] \in AuditRows /\ audit \in [Tasks -> AuditRows]
    BY DEF TypeOK
  <2> HIDE DEF row
  <2> QED BY <2>1, <2>2 DEF AuditRows
<1> QED BY <1>1, <1>2, <1>3

(* With the states unchanged and no row withdrawn the gates stay closed.   *)
LEMMA GatesStayClosed ==
    ASSUME NoGateSkipped, RowsKept, state' = state, risk' = risk
    PROVE  NoGateSkipped'
  BY DEF NoGateSkipped, RowsKept

LEMMA InitGates == Init => NoGateSkipped /\ CallsBacked
  BY DEF Init, NoGateSkipped, CallsBacked, TransitionPc, BehindPlanApproval,
         BehindCheckpoint, BehindFinalApproval

LEMMA NextGates == GateInv /\ [Next]_vars => (NoGateSkipped /\ CallsBacked)'
<1> SUFFICES ASSUME TypeOK, NoGateSkipped, CallsBacked, [Next]_vars
             PROVE  (NoGateSkipped /\ CallsBacked)'
  BY DEF GateInv
<1>1. ASSUME NEW p \in Procs, NEW t \in Tasks, NEW target \in Targets,
             BeginTransition(p, t, target)
      PROVE  (NoGateSkipped /\ CallsBacked)'
  <2>1. RowsKept /\ state' = state /\ risk' = risk /\ audit' = audit
    BY <1>1, AppendingKeepsRows DEF BeginTransition, tables
  <2>2. CallBacked(p)'
    <3>1. /\ call'[p].task = t /\ call'[p].from = state[t]
          /\ call'[p].risk = risk[t] /\ ~call'[p].plan /\ ~call'[p].final
          /\ ~call'[p].checkpoint /\ call'[p].reviewer = None
      BY <1>1 DEF BeginTransition, NoCall, TypeOK
    <3> QED BY <2>1, <3>1 DEF CallBacked, NoGateSkipped, PlanBacked, FinalBacked
  <2>3. ASSUME NEW q \in Procs, pc'[q] \in TransitionPc, q # p
        PROVE  CallBacked(q)'
    <3>1. pc[q] \in TransitionPc /\ call'[q] = call[q]
      BY <1>1, <2>3 DEF BeginTransition, Step, TypeOK
    <3> QED BY <2>1, <3>1, CallStaysBacked DEF CallsBacked
  <2> QED BY <2>1, <2>2, <2>3, GatesStayClosed DEF CallsBacked
<1>2. ASSUME NEW p \in Procs, ReadLedger(p)
      PROVE  (NoGateSkipped /\ CallsBacked)'
  <2>1. RowsKept /\ state' = state /\ risk' = risk /\ audit' = audit
    BY <1>2, AppendingKeepsRows DEF ReadLedger, tables
  <2>2. CallBacked(p)'
    <3> DEFINE t == call[p].task
    <3>1. CallBacked(p)
      BY <1>2 DEF ReadLedger, Step, CallsBacked, TransitionPc
    <3>2. /\ call'[p].task = t /\ call'[p].from = call[p].from
          /\ call'[p].risk = call[p].risk /\ call'[p].plan = audit[t].plan
          /\ call'[p].final = audit[t].final
          /\ call'[p].checkpoint = audit[t].checkpoint
          /\ call'[p].reviewer = call[p].reviewer
      BY <1>2 DEF ReadLedger, TypeOK, Call
    <3> QED BY <2>1, <3>1, <3>2 DEF CallBacked, PlanBacked, FinalBacked
  <2>3. ASSUME NEW q \in Procs, pc'[q] \in TransitionPc, q # p
        PROVE  CallBacked(q)'
    <3>1. pc[q] \in TransitionPc /\ call'[q] = call[q]
      BY <1>2, <2>3 DEF ReadLedger, Step, TypeOK
    <3> QED BY <2>1, <3>1, CallStaysBacked DEF CallsBacked
  <2> QED BY <2>1, <2>2, <2>3, GatesStayClosed DEF CallsBacked
<1>3. ASSUME NEW p \in Procs, ReadVerifyRow(p)
      PROVE  (NoGateSkipped /\ CallsBacked)'
  <2>1. RowsKept /\ state' = state /\ risk' = risk /\ audit' = audit
    BY <1>3, AppendingKeepsRows DEF ReadVerifyRow, tables
  <2>2. CallBacked(p)'
    <3> DEFINE t == call[p].task
    <3>1. CallBacked(p)
      BY <1>3 DEF ReadVerifyRow, Step, CallsBacked, TransitionPc
    <3>2. /\ call'[p].task = t /\ call'[p].from = call[p].from
          /\ call'[p].risk = call[p].risk /\ call'[p].plan = call[p].plan
          /\ call'[p].final = call[p].final
          /\ call'[p].checkpoint = call[p].checkpoint
          /\ call'[p].reviewer = call[p].reviewer
      BY <1>3 DEF ReadVerifyRow, TypeOK, Call
    <3> QED BY <2>1, <3>1, <3>2 DEF CallBacked, PlanBacked, FinalBacked
  <2>3. ASSUME NEW q \in Procs, pc'[q] \in TransitionPc, q # p
        PROVE  CallBacked(q)'
    <3>1. pc[q] \in TransitionPc /\ call'[q] = call[q]
      BY <1>3, <2>3 DEF ReadVerifyRow, Step, TypeOK
    <3> QED BY <2>1, <3>1, CallStaysBacked DEF CallsBacked
  <2> QED BY <2>1, <2>2, <2>3, GatesStayClosed DEF CallsBacked
<1>4. ASSUME NEW p \in Procs, ReadReviewRow(p)
      PROVE  (NoGateSkipped /\ CallsBacked)'
  <2>1. RowsKept /\ state' = state /\ risk' = risk /\ audit' = audit
    BY <1>4, AppendingKeepsRows DEF ReadReviewRow, tables
  <2>2. CallBacked(p)'
    <3> DEFINE t == call[p].task
    <3>1. CallBacked(p)
      BY <1>4 DEF ReadReviewRow, Step, CallsBacked, TransitionPc
    <3>2. /\ call'[p].task = t /\ call'[p].from = call[p].from
          /\ call'[p].risk = call[p].risk /\ call'[p].plan = call[p].plan
          /\ call'[p].final = call[p].final
          /\ call'[p].checkpoint = call[p].checkpoint
          /\ call'[p].reviewer = audit[t].review
      BY <1>4 DEF ReadReviewRow, TypeOK, Call
    <3> QED BY <2>1, <3>1, <3>2 DEF CallBacked, PlanBacked, FinalBacked
  <2>3. ASSUME NEW q \in Procs, pc'[q] \in TransitionPc, q # p
        PROVE  CallBacked(q)'
    <3>1. pc[q] \in TransitionPc /\ call'[q] = call[q]
      BY <1>4, <2>3 DEF ReadReviewRow, Step, TypeOK
    <3> QED BY <2>1, <3>1, CallStaysBacked DEF CallsBacked
  <2> QED BY <2>1, <2>2, <2>3, GatesStayClosed DEF CallsBacked
<1>5. ASSUME NEW p \in Procs, SetState(p)
      PROVE  (NoGateSkipped /\ CallsBacked)'
  <2> DEFINE t == call[p].task
             from == call[p].from
             to == call[p].to
  <2>1. /\ RowsKept /\ risk' = risk /\ audit' = audit /\ call' = call
        /\ t \in Tasks /\ CallBacked(p)
        /\ state' = [state EXCEPT ![t] = to]
        /\ GuardTransition(from, to, call[p])
    BY <1>5, AppendingKeepsRows
       DEF SetState, Step, Verdict, TypeOK, CallsBacked, TransitionPc
  <2>2. CanTransition(from, to)
    BY <2>1 DEF GuardTransition
  <2>3. to \in BehindPlanApproval => PlanBacked(t)
    <3>1. CASE to = "PREPARING_WORKSPACE"
      BY <2>1, <3>1 DEF GuardTransition, PlanGate, CallBacked, PlanBacked
    <3>2. CASE to # "PREPARING_WORKSPACE"
      BY <2>1, <2>2, <3>2, OneWayThroughGates DEF CallBacked
    <3> QED BY <3>1, <3>2
  <2>4. to \in BehindCheckpoint => audit[t].checkpoint
    <3>1. CASE to = "IMPLEMENTING"
      BY <2>1, <3>1 DEF GuardTransition, CheckpointGate, CallBacked
    <3>2. CASE to # "IMPLEMENTING"
      BY <2>1, <2>2, <3>2, OneWayThroughGates DEF CallBacked
    <3> QED BY <3>1, <3>2
  <2>5. to \in BehindFinalApproval => FinalBacked(t)
    <3>1. CASE to = "APPROVED"
      BY <2>1, <3>1 DEF GuardTransition, FinalGate, CallBacked, FinalBacked
    <3>2. CASE to # "APPROVED"
      BY <2>1, <2>2, <3>2, OneWayThroughGates DEF CallBacked
    <3> QED BY <3>1, <3>2
  <2>6. to = "MERGED" => audit[t].review # None
    BY <2>1 DEF GuardTransition, MergeGate, CallBacked
  <2>7. NoGateSkipped'
    <3> SUFFICES ASSUME NEW u \in Tasks
                 PROVE  /\ state'[u] \in BehindPlanApproval => PlanBacked(u)
                        /\ state'[u] \in BehindCheckpoint => audit[u].checkpoint
                        /\ state'[u] \in BehindFinalApproval => FinalBacked(u)
                        /\ state'[u] = "MERGED" => audit[u].review # None
      BY <2>1 DEF NoGateSkipped, PlanBacked, FinalBacked
    <3>1. CASE u = t
      <4>1. state'[u] = to
        BY <2>1, <3>1 DEF TypeOK
      <4> QED BY <3>1, <4>1, <2>3, <2>4, <2>5, <2>6
    <3>2. CASE u # t
      <4>1. state'[u] = state[u]
        BY <2>1, <3>2 DEF TypeOK
      <4> QED BY <4>1 DEF NoGateSkipped, PlanBacked, FinalBacked
    <3> QED BY <3>1, <3>2
  <2>8. ASSUME NEW q \in Procs, pc'[q] \in TransitionPc
        PROVE  CallBacked(q)'
    <3>1. pc[q] \in TransitionPc /\ call'[q] = call[q]
      BY <1>5, <2>1, <2>8 DEF SetState, Step, TypeOK, TransitionPc
    <3> QED BY <2>1, <3>1, CallStaysBacked DEF CallsBacked
  <2> QED BY <2>7, <2>8 DEF CallsBacked
(* Every other action leaves the states alone, withdraws no row, and       *)
(* changes a call only by ending it or by starting one of recordVerify.    *)
<1>6. ASSUME RowsKept, state' = state, risk' = risk,
             \A q \in Procs : pc'[q] \in TransitionPc =>
                               pc[q] \in TransitionPc /\ call'[q] = call[q]
      PROVE  (NoGateSkipped /\ CallsBacked)'
  <2>1. ASSUME NEW q \in Procs, pc'[q] \in TransitionPc
        PROVE  CallBacked(q)'
    BY <1>6, <2>1, CallStaysBacked DEF CallsBacked
  <2> QED BY <1>6, <2>1, GatesStayClosed DEF CallsBacked
<1>7. ASSUME NEW p \in Procs,
             DenyTransition(p) \/ AppendTransition(p) \/ AppendVerify(p)
               \/ DenyVerify(p)
      PROVE  (NoGateSkipped /\ CallsBacked)'
  <2>1. RowsKept /\ state' = state /\ risk' = risk
    BY <1>7, AppendingKeepsRows
       DEF DenyTransition, AppendTransition, AppendVerify, DenyVerify
  <2>2. \A q \in Procs : pc'[q] \in TransitionPc =>
                          pc[q] \in TransitionPc /\ call'[q] = call[q]
    BY <1>7 DEF DenyTransition, AppendTransition, AppendVerify, DenyVerify,
                Step, Return, TypeOK, TransitionPc
  <2> QED BY <1>6, <2>1, <2>2
<1>8. ASSUME NEW p \in Procs, RecordRun(p)
      PROVE  (NoGateSkipped /\ CallsBacked)'
  <2>1. RowsKept /\ state' = state /\ risk' = risk
    BY <1>8, AppendingKeepsRows DEF RecordRun
  <2>2. \A q \in Procs : pc'[q] \in TransitionPc =>
                          pc[q] \in TransitionPc /\ call'[q] = call[q]
    BY <1>8 DEF RecordRun, Step, TypeOK, TransitionPc
  <2> QED BY <1>6, <2>1, <2>2
<1>9. ASSUME NEW p \in Procs, NEW t \in Tasks,
             \/ \E kind \in {"plan", "final"} : Approve(p, t, kind)
             \/ RecordCheckpoint(p, t)
             \/ \E agent \in Agents : RecordReview(p, t, agent)
      PROVE  (NoGateSkipped /\ CallsBacked)'
  <2>1. RowsKept
    <3>1. /\ audit \in [Tasks -> AuditRows]
          /\ audit[t] \in AuditRows
      BY DEF TypeOK
    <3>2. ASSUME NEW r,
                 audit' = [audit EXCEPT ![t] = r],
                 /\ audit[t].plan => r.plan
                 /\ audit[t].final => r.final
                 /\ audit[t].checkpoint => r.checkpoint
                 /\ audit[t].review # None => r.review # None
          PROVE  RowsKept
      BY <3>1, <3>2 DEF RowsKept
    <3>3. ASSUME NEW kind \in {"plan", "final"}, Approve(p, t, kind)
          PROVE  RowsKept
      <4>1. CASE kind = "plan"
        <5>1. audit' = [audit EXCEPT ![t] = [audit[t] EXCEPT !.plan = TRUE]]
          BY <3>3, <4>1 DEF Approve
        <5> QED BY <3>1, <3>2, <5>1 DEF AuditRows
      <4>2. CASE kind = "final"
        <5>1. audit' = [audit EXCEPT ![t] = [audit[t] EXCEPT !.final = TRUE]]
          BY <3>3, <4>2 DEF Approve
        <5> QED BY <3>1, <3>2, <5>1 DEF AuditRows
      <4> QED BY <3>3, <4>1, <4>2
    <3>4. ASSUME RecordCheckpoint(p, t) PROVE RowsKept
      <4>1. audit' = [audit EXCEPT ![t] = [audit[t] EXCEPT !.checkpoint = TRUE]]
        BY <3>4 DEF RecordCheckpoint
      <4> QED BY <3>1, <3>2, <4>1 DEF AuditRows
    <3>5. ASSUME NEW agent \in Agents, RecordReview(p, t, agent)
          PROVE  RowsKept
      <4>1. audit' = [audit EXCEPT ![t] = [audit[t] EXCEPT !.review = agent]]
        BY <3>5 DEF RecordReview
      <4> QED BY <3>1, <3>2, <4>1, NoneAssumption DEF AuditRows
    <3> QED BY <1>9, <3>3, <3>4, <3>5
  <2>2. state' = state /\ risk' = risk /\ pc' = pc /\ call' = call
    BY <1>9 DEF Approve, RecordCheckpoint, RecordReview, Issue
  <2> QED BY <1>6, <2>1, <2>2
<1>10. ASSUME NEW p \in Procs, NEW t \in Tasks,
              \/ \E suite \in Suites, outcome \in TestOutcome :
                   RecordTests(p, t, suite, outcome)
              \/ \E f \in FindingIds : AddFinding(p, t, f)
              \/ \E f \in FindingIds, status \in {"open", "closed"} :
                   ResolveFinding(p, t, f, status)
       PROVE  (NoGateSkipped /\ CallsBacked)'
  <2>1. /\ state' = state /\ risk' = risk /\ pc' = pc /\ call' = call
        /\ audit' = audit
    BY <1>10 DEF RecordTests, AddFinding, ResolveFinding, Issue
  <2>2. RowsKept
    BY <2>1, <1>10, AppendingKeepsRows
  <2> QED BY <1>6, <2>1, <2>2
<1>11. ASSUME NEW p \in Procs,
              \/ \E t \in Tasks : \E tests, scans \in BOOLEAN :
                   BeginVerify(p, t, tests, scans)
              \/ CheckTests(p) \/ CheckFindings(p) \/ Fault(p)
       PROVE  (NoGateSkipped /\ CallsBacked)'
  <2>1. RowsKept /\ state' = state /\ risk' = risk
    BY <1>11, AppendingKeepsRows
       DEF BeginVerify, CheckTests, CheckFindings, Fault, tables
  <2>2. \A q \in Procs : pc'[q] \in TransitionPc =>
                          pc[q] \in TransitionPc /\ call'[q] = call[q]
    BY <1>11 DEF BeginVerify, CheckTests, CheckFindings, Fault, Step, Return,
                 TypeOK, TransitionPc
  <2> QED BY <1>6, <2>1, <2>2
<1>12. CASE UNCHANGED vars
  BY <1>12, <1>6 DEF vars, tables, RowsKept
<1> QED
  BY <1>1, <1>2, <1>3, <1>4, <1>5, <1>7, <1>8, <1>9, <1>10, <1>11, <1>12
     DEF Next, Command, TransitionSteps, VerifySteps

(* Under any interleaving of any number of processes and any fault, no     *)
(* task is behind a gate without the audit row that gate asks for.         *)
THEOREM GatesHold == Spec => []NoGateSkipped
<1>1. Init => GateInv
  BY InitType, InitGates DEF GateInv
<1>2. GateInv /\ [Next]_vars => GateInv'
  BY NextType, NextGates DEF GateInv
<1>3. GateInv => NoGateSkipped
  BY DEF GateInv
<1> QED BY <1>1, <1>2, <1>3, PTL DEF Spec

-----------------------------------------------------------------------------
(***************************************************************************)
(* The fix budget.  Every call that has read a count below the limit holds *)
(* a ticket for one more loop until it records it or gives up.  The runs   *)
(* recorded and the tickets held together never pass the limit by more     *)
(* than the other processes: a ticket is only issued while the recorded    *)
(* runs are below the limit, and there is one per process.                 *)
(***************************************************************************)
Tickets(t) ==
    {p \in Procs :
        /\ pc[p] \in {"verifyRow", "reviewRow", "decide", "record"}
        /\ call[p].task = t
        /\ call[p].from = "FIXING"
        /\ call[p].to = "IMPLEMENTING"
        /\ call[p].loops < MaxFixAttempts}

TicketBound ==
    \A t \in Tasks :
        fixRuns[t] + Cardinality(Tickets(t)) <= MaxFixAttempts - 1 + Cardinality(Procs)

WritersPassed == \A p \in Procs : pc[p] = "record" => Verdict(p)

LoopInv == TypeOK /\ WritersPassed /\ TicketBound

LEMMA TicketsFinite ==
    ASSUME NEW t \in Tasks
    PROVE  /\ IsFiniteSet(Tickets(t))
           /\ Cardinality(Tickets(t)) \in Nat
           /\ Cardinality(Tickets(t)) <= Cardinality(Procs)
           /\ Cardinality(Procs) \in Nat
<1>1. Tickets(t) \subseteq Procs
  BY DEF Tickets
<1> QED BY <1>1, EngineAssumption, FS_Subset, FS_CardinalityType

(* A step that hands out no ticket and records no run keeps the bound.     *)
LEMMA NoNewTicket ==
    ASSUME TypeOK, TicketBound, NEW t \in Tasks,
           fixRuns'[t] = fixRuns[t], Tickets(t)' \subseteq Tickets(t)
    PROVE  fixRuns'[t] + Cardinality(Tickets(t)')
             <= MaxFixAttempts - 1 + Cardinality(Procs)
<1>1. /\ Cardinality(Tickets(t)') \in Nat
      /\ Cardinality(Tickets(t)') <= Cardinality(Tickets(t))
      /\ Cardinality(Tickets(t)) \in Nat
      /\ Cardinality(Procs) \in Nat
  BY TicketsFinite, FS_Subset, FS_CardinalityType
<1>2. fixRuns[t] + Cardinality(Tickets(t)) <= MaxFixAttempts - 1 + Cardinality(Procs)
  BY DEF TicketBound
<1>3. fixRuns[t] \in Nat
  BY DEF TypeOK
<1> QED BY <1>1, <1>2, <1>3, FixAttemptsAssumption

LEMMA InitLoops == Init => LoopInv
<1> SUFFICES ASSUME Init PROVE WritersPassed /\ TicketBound
  BY InitType DEF LoopInv
<1>1. WritersPassed
  BY DEF Init, WritersPassed
<1>2. ASSUME NEW t \in Tasks
      PROVE  fixRuns[t] + Cardinality(Tickets(t))
               <= MaxFixAttempts - 1 + Cardinality(Procs)
  <2>1. Tickets(t) = {} /\ fixRuns[t] = 0
    BY DEF Init, Tickets
  <2>2. Cardinality(Tickets(t)) = 0
    BY <2>1, FS_EmptySet
  <2> QED BY <2>1, <2>2, TicketsFinite, FixAttemptsAssumption
<1> QED BY <1>1, <1>2 DEF TicketBound

LEMMA NextLoops == LoopInv /\ [Next]_vars => (WritersPassed /\ TicketBound)'
<1> SUFFICES ASSUME TypeOK, WritersPassed, TicketBound, [Next]_vars
             PROVE  (WritersPassed /\ TicketBound)'
  BY DEF LoopInv
<1> DEFINE TicketPc == {"verifyRow", "reviewRow", "decide", "record"}
           Undisturbed(q) == pc'[q] = pc[q] /\ call'[q] = call[q]
(* A step of p that leaves the other calls alone and takes p to a place    *)
(* where it holds no ticket it did not hold.                               *)
<1>1. ASSUME NEW p \in Procs, fixRuns' = fixRuns,
             \A q \in Procs \ {p} : Undisturbed(q),
             \/ pc'[p] \notin TicketPc
             \/ /\ pc[p] \in TicketPc
                /\ call'[p].task = call[p].task
                /\ call'[p].from = call[p].from
                /\ call'[p].to = call[p].to
                /\ call'[p].loops = call[p].loops
      PROVE  TicketBound'
  <2>1. ASSUME NEW t \in Tasks PROVE Tickets(t)' \subseteq Tickets(t)
    BY <1>1 DEF Tickets
  <2> QED BY <1>1, <2>1, NoNewTicket DEF TicketBound
<1>2. ASSUME NEW p \in Procs, pc'[p] # "record",
             \A q \in Procs \ {p} : Undisturbed(q)
      PROVE  WritersPassed'
  BY <1>2 DEF WritersPassed, Verdict
<1>3. ASSUME NEW p \in Procs,
             (\E t \in Tasks : \E target \in Targets : BeginTransition(p, t, target))
               \/ (\E t \in Tasks : \E tests, scans \in BOOLEAN :
                     BeginVerify(p, t, tests, scans))
               \/ DenyTransition(p) \/ AppendTransition(p) \/ Fault(p)
               \/ CheckTests(p) \/ CheckFindings(p) \/ AppendVerify(p)
               \/ DenyVerify(p)
      PROVE  (WritersPassed /\ TicketBound)'
  <2>1. fixRuns' = fixRuns
    BY <1>3 DEF BeginTransition, BeginVerify, DenyTransition, AppendTransition,
                Fault, CheckTests, CheckFindings, AppendVerify, DenyVerify, tables
  <2>2. \A q \in Procs \ {p} : Undisturbed(q)
    BY <1>3 DEF BeginTransition, BeginVerify, DenyTransition, AppendTransition,
                Fault, CheckTests, CheckFindings, AppendVerify, DenyVerify,
                Step, Return, TypeOK
  <2>3. pc'[p] \notin TicketPc
    BY <1>3 DEF BeginTransition, BeginVerify, DenyTransition, AppendTransition,
                Fault, CheckTests, CheckFindings, AppendVerify, DenyVerify,
                Step, Return, TypeOK
  <2> QED BY <1>1, <1>2, <2>1, <2>2, <2>3
<1>4. ASSUME NEW p \in Procs, ReadLedger(p)
      PROVE  (WritersPassed /\ TicketBound)'
  <2>1. /\ \A q \in Procs \ {p} : Undisturbed(q)
        /\ fixRuns' = fixRuns
        /\ pc'[p] = "verifyRow"
        /\ call'[p].task = call[p].task
        /\ call'[p].loops = fixRuns[call[p].task]
    BY <1>4 DEF ReadLedger, Step, TypeOK, Call, tables
  <2>2. ASSUME NEW t \in Tasks
        PROVE  fixRuns'[t] + Cardinality(Tickets(t)')
                 <= MaxFixAttempts - 1 + Cardinality(Procs)
    <3>1. CASE t = call[p].task /\ fixRuns[t] < MaxFixAttempts
      <4>1. Tickets(t)' \subseteq Procs
        BY DEF Tickets
      <4>2. /\ Cardinality(Tickets(t)') \in Nat
            /\ Cardinality(Tickets(t)') <= Cardinality(Procs)
            /\ Cardinality(Procs) \in Nat
        BY <4>1, EngineAssumption, FS_Subset, FS_CardinalityType
      <4>3. fixRuns'[t] \in Nat /\ fixRuns'[t] < MaxFixAttempts
        BY <2>1, <3>1 DEF TypeOK
      <4> QED BY <4>2, <4>3, FixAttemptsAssumption
    <3>2. CASE t # call[p].task \/ ~(fixRuns[t] < MaxFixAttempts)
      <4>1. p \notin Tickets(t)'
        BY <2>1, <3>2 DEF Tickets
      <4>2. Tickets(t)' \subseteq Tickets(t)
        BY <2>1, <4>1 DEF Tickets
      <4> QED BY <2>1, <4>2, NoNewTicket
    <3> QED BY <3>1, <3>2
  <2> QED BY <1>2, <2>1, <2>2 DEF TicketBound
<1>5. ASSUME NEW p \in Procs, ReadVerifyRow(p) \/ ReadReviewRow(p)
      PROVE  (WritersPassed /\ TicketBound)'
  <2>1. /\ \A q \in Procs \ {p} : Undisturbed(q)
        /\ fixRuns' = fixRuns
        /\ pc[p] \in TicketPc
        /\ pc'[p] # "record"
        /\ call'[p].task = call[p].task
        /\ call'[p].from = call[p].from
        /\ call'[p].to = call[p].to
        /\ call'[p].loops = call[p].loops
    <3>1. CASE ReadVerifyRow(p)
      BY <3>1 DEF ReadVerifyRow, Step, TypeOK, Call, tables
    <3>2. CASE ReadReviewRow(p)
      BY <3>2 DEF ReadReviewRow, Step, TypeOK, Call, tables
    <3> QED BY <1>5, <3>1, <3>2
  <2> QED BY <1>1, <1>2, <2>1
<1>6. ASSUME NEW p \in Procs, SetState(p)
      PROVE  (WritersPassed /\ TicketBound)'
  <2>1. /\ \A q \in Procs \ {p} : Undisturbed(q)
        /\ fixRuns' = fixRuns
        /\ pc[p] = "decide"
        /\ call' = call
        /\ Verdict(p)
    BY <1>6 DEF SetState, Step, TypeOK
  <2>2. WritersPassed'
    BY <2>1 DEF WritersPassed, Verdict
  <2> QED BY <1>1, <2>1, <2>2
<1>7. ASSUME NEW p \in Procs, RecordRun(p)
      PROVE  (WritersPassed /\ TicketBound)'
  <2>1. /\ \A q \in Procs \ {p} : Undisturbed(q)
        /\ pc[p] = "record"
        /\ pc'[p] = "trail"
        /\ call[p].task \in Tasks
    BY <1>7 DEF RecordRun, Step, TypeOK
  <2>2. CASE ~(call[p].from = "FIXING" /\ call[p].to = "IMPLEMENTING")
    <3>1. fixRuns' = fixRuns
      BY <1>7, <2>2 DEF RecordRun
    <3> QED BY <1>1, <1>2, <2>1, <3>1
  <2>3. CASE call[p].from = "FIXING" /\ call[p].to = "IMPLEMENTING"
    <3>1. call[p].loops < MaxFixAttempts
      BY <2>1, <2>3 DEF WritersPassed, Verdict, GuardTransition, RetryGate
    <3>2. ASSUME NEW t \in Tasks
          PROVE  fixRuns'[t] + Cardinality(Tickets(t)')
                   <= MaxFixAttempts - 1 + Cardinality(Procs)
      <4>1. CASE t = call[p].task
        <5>1. p \in Tickets(t)
          BY <2>1, <2>3, <3>1, <4>1 DEF Tickets
        <5>2. Tickets(t)' = Tickets(t) \ {p}
          BY <2>1 DEF Tickets
        <5>3. /\ Cardinality(Tickets(t)') = Cardinality(Tickets(t)) - 1
              /\ Cardinality(Tickets(t)) \in Nat
              /\ Cardinality(Procs) \in Nat
          BY <5>1, <5>2, TicketsFinite, FS_RemoveElement
        <5>4. fixRuns'[t] = fixRuns[t] + 1 /\ fixRuns[t] \in Nat
          BY <1>7, <2>3, <4>1 DEF RecordRun, TypeOK
        <5>5. fixRuns[t] + Cardinality(Tickets(t))
                <= MaxFixAttempts - 1 + Cardinality(Procs)
          BY DEF TicketBound
        <5> QED BY <5>3, <5>4, <5>5, FixAttemptsAssumption
      <4>2. CASE t # call[p].task
        <5>1. Tickets(t)' \subseteq Tickets(t)
          BY <2>1 DEF Tickets
        <5>2. fixRuns'[t] = fixRuns[t]
          BY <1>7, <2>1, <4>2 DEF RecordRun, TypeOK
        <5> QED BY <5>1, <5>2, NoNewTicket
      <4> QED BY <4>1, <4>2
    <3> QED BY <1>2, <2>1, <3>2 DEF TicketBound
  <2> QED BY <2>2, <2>3
(* The evidence commands touch no call and no run.                         *)
<1>8. ASSUME fixRuns' = fixRuns, pc' = pc, call' = call
      PROVE  (WritersPassed /\ TicketBound)'
  <2>1. ASSUME NEW t \in Tasks PROVE Tickets(t)' \subseteq Tickets(t)
    BY <1>8 DEF Tickets
  <2>2. TicketBound'
    BY <1>8, <2>1, NoNewTicket DEF TicketBound
  <2> QED BY <1>8, <2>2 DEF WritersPassed, Verdict
<1>9. ASSUME NEW p \in Procs, NEW t \in Tasks,
             \/ \E kind \in {"plan", "final"} : Approve(p, t, kind)
             \/ RecordCheckpoint(p, t)
             \/ \E agent \in Agents : RecordReview(p, t, agent)
             \/ \E suite \in Suites, outcome \in TestOutcome :
                  RecordTests(p, t, suite, outcome)
             \/ \E f \in FindingIds : AddFinding(p, t, f)
             \/ \E f \in FindingIds, status \in {"open", "closed"} :
                  ResolveFinding(p, t, f, status)
      PROVE  (WritersPassed /\ TicketBound)'
  <2>1. fixRuns' = fixRuns /\ pc' = pc /\ call' = call
    BY <1>9 DEF Approve, RecordCheckpoint, RecordReview, RecordTests,
                AddFinding, ResolveFinding, Issue
  <2> QED BY <1>8, <2>1
<1>10. CASE UNCHANGED vars
  BY <1>8, <1>10 DEF vars, tables
<1> QED
  BY <1>3, <1>4, <1>5, <1>6, <1>7, <1>9, <1>10
     DEF Next, Command, TransitionSteps, VerifySteps

(* However many processes race, a task goes round the fix loop at most     *)
(* once per process more often than the limit allows.                      *)
THEOREM FixLoopsBounded == Spec => []FixLoopBound
<1>1. Init => LoopInv
  BY InitLoops
<1>2. LoopInv /\ [Next]_vars => LoopInv'
  BY NextType, NextLoops DEF LoopInv
<1>3. LoopInv => FixLoopBound
  <2> SUFFICES ASSUME LoopInv, NEW t \in Tasks
               PROVE  fixRuns[t] <= MaxFixAttempts + Cardinality(Procs) - 1
    BY DEF FixLoopBound
  <2>1. /\ fixRuns[t] \in Nat
        /\ fixRuns[t] + Cardinality(Tickets(t))
             <= MaxFixAttempts - 1 + Cardinality(Procs)
    BY DEF LoopInv, TypeOK, TicketBound
  <2> QED BY <2>1, TicketsFinite, FixAttemptsAssumption
<1> QED BY <1>1, <1>2, <1>3, PTL DEF Spec

-----------------------------------------------------------------------------
(***************************************************************************)
(* One process at a time.  Nothing changes between the statements of its   *)
(* call, so what the call has read is what the tables hold when it writes. *)
(***************************************************************************)
Alone == \A p, q \in Procs : p = q

ReadsState(p) ==
    LET c == call[p] IN c.from = state[c.task] /\ c.risk = risk[c.task]

ReadsLedger(p) ==
    LET c == call[p]
        row == audit[c.task]
    IN  /\ c.loops = fixRuns[c.task]
        /\ c.plan = row.plan
        /\ c.final = row.final
        /\ c.checkpoint = row.checkpoint

ReadsVerify(p) ==
    LET c == call[p]
        row == audit[c.task].verify
    IN  c.tests = row.tests /\ c.scans = row.scans

ReadsReview(p) == call[p].reviewer = audit[call[p].task].review

HasWritten(p) == call[p].to = state[call[p].task]

TestsBacked(p) == call[p].tests => LatestTestsGreen(call[p].task)

ScansBacked(p) == call[p].scans => ScansClean(call[p].task)

(* What each statement finds its call to be.                               *)
UpToDate(p) ==
    /\ pc[p] \in {"ledger", "verifyRow", "reviewRow", "decide"} => ReadsState(p)
    /\ pc[p] \in {"verifyRow", "reviewRow", "decide"} => ReadsLedger(p)
    /\ pc[p] \in {"reviewRow", "decide"} => ReadsVerify(p)
    /\ pc[p] = "decide" => ReadsReview(p)
    /\ pc[p] \in {"record", "trail"} => HasWritten(p)
    /\ pc[p] \in {"checkFindings", "appendVerify"} => TestsBacked(p)
    /\ pc[p] = "appendVerify" => ScansBacked(p)

Current == \A p \in Procs : UpToDate(p)

(* A command of one statement is issued between two calls.                 *)
Evidence(p, t) ==
    \/ \E kind \in {"plan", "final"} : Approve(p, t, kind)
    \/ RecordCheckpoint(p, t)
    \/ \E agent \in Agents : RecordReview(p, t, agent)
    \/ \E suite \in Suites, outcome \in TestOutcome : RecordTests(p, t, suite, outcome)
    \/ \E f \in FindingIds : AddFinding(p, t, f)
    \/ \E f \in FindingIds, status \in {"open", "closed"} : ResolveFinding(p, t, f, status)

LEMMA EvidenceBetweenCalls ==
    ASSUME NEW p \in Procs, NEW t \in Tasks, Evidence(p, t)
    PROVE  /\ pc[p] = "idle" /\ pc' = pc /\ call' = call
           /\ state' = state /\ risk' = risk /\ fixRuns' = fixRuns
  BY DEF Evidence, Approve, RecordCheckpoint, RecordReview, RecordTests, AddFinding,
         ResolveFinding, Issue

(* The statements that end a call.                                         *)
Ending(p) ==
    \/ DenyTransition(p) \/ AppendTransition(p) \/ AppendVerify(p) \/ DenyVerify(p) \/ Fault(p)

LEMMA EndingIsIdle ==
    ASSUME TypeOK, NEW p \in Procs, Ending(p)
    PROVE  pc'[p] = "idle"
  BY DEF TypeOK, Ending, DenyTransition, AppendTransition, AppendVerify, DenyVerify, Fault, Step

LEMMA IdleIsCurrent ==
    ASSUME Alone, NEW p \in Procs, pc'[p] = "idle"
    PROVE  Current'
  BY DEF Alone, Current, UpToDate

LEMMA NextCurrent == Alone /\ TypeOK /\ Current /\ [Next]_vars => Current'
<1> SUFFICES ASSUME Alone, TypeOK, Current, [Next]_vars PROVE Current'
  OBVIOUS
<1>t. /\ pc \in [Procs -> Pc] /\ call \in [Procs -> Call]
      /\ \A p \in Procs : pc[p] # "idle" => call[p].task \in Tasks
  BY DEF TypeOK
<1>q. ASSUME NEW p \in Procs, UpToDate(p)' PROVE Current'
  BY <1>q DEF Alone, Current
<1>1. ASSUME NEW p \in Procs, NEW t \in Tasks, NEW target \in Targets,
             BeginTransition(p, t, target)
      PROVE  Current'
  <2>1. pc'[p] = "ledger" /\ state' = state /\ risk' = risk
    BY <1>1, <1>t DEF BeginTransition, Step, tables
  <2>2. call'[p].task = t /\ call'[p].from = state[t] /\ call'[p].risk = risk[t]
    BY <1>1, <1>t DEF BeginTransition, NoCall
  <2>3. ReadsState(p)'
    BY <2>1, <2>2 DEF ReadsState
  <2> QED BY <1>q, <2>1, <2>3 DEF UpToDate
<1>2. ASSUME NEW p \in Procs, ReadLedger(p) PROVE Current'
  <2> DEFINE t == call[p].task
  <2>1. /\ pc[p] = "ledger" /\ pc'[p] = "verifyRow" /\ state' = state /\ risk' = risk
        /\ fixRuns' = fixRuns /\ audit' = audit
    BY <1>2, <1>t DEF ReadLedger, Step, tables
  <2>2. /\ call'[p].task = t /\ call'[p].from = call[p].from
        /\ call'[p].risk = call[p].risk /\ call'[p].plan = audit[t].plan
        /\ call'[p].final = audit[t].final /\ call'[p].loops = fixRuns[t]
        /\ call'[p].checkpoint = audit[t].checkpoint
    BY <1>2, <1>t DEF ReadLedger, Call
  <2>3. ReadsState(p)'
    BY <2>1, <2>2 DEF ReadsState, Current, UpToDate
  <2>4. ReadsLedger(p)'
    BY <2>1, <2>2 DEF ReadsLedger
  <2> QED BY <1>q, <2>1, <2>3, <2>4 DEF UpToDate
<1>3. ASSUME NEW p \in Procs, ReadVerifyRow(p) PROVE Current'
  <2> DEFINE row == audit[call[p].task].verify
  <2>1. /\ pc[p] = "verifyRow" /\ pc'[p] = "reviewRow" /\ state' = state /\ risk' = risk
        /\ fixRuns' = fixRuns /\ audit' = audit
    BY <1>3, <1>t DEF ReadVerifyRow, Step, tables
  <2>2. /\ call'[p].task = call[p].task /\ call'[p].from = call[p].from
        /\ call'[p].risk = call[p].risk /\ call'[p].loops = call[p].loops
        /\ call'[p].plan = call[p].plan /\ call'[p].final = call[p].final
        /\ call'[p].checkpoint = call[p].checkpoint
    BY <1>3, <1>t DEF ReadVerifyRow, Call
  <2>3. call'[p].tests = row.tests /\ call'[p].scans = row.scans
    BY <1>3, <1>t DEF ReadVerifyRow, Call
  <2>4. ReadsState(p)'
    BY <2>1, <2>2 DEF ReadsState, Current, UpToDate
  <2>5. ReadsLedger(p)'
    BY <2>1, <2>2 DEF ReadsLedger, Current, UpToDate
  <2>6. ReadsVerify(p)'
    BY <2>1, <2>2, <2>3 DEF ReadsVerify
  <2> QED BY <1>q, <2>1, <2>4, <2>5, <2>6 DEF UpToDate
<1>4. ASSUME NEW p \in Procs, ReadReviewRow(p) PROVE Current'
  <2>1. /\ pc[p] = "reviewRow" /\ pc'[p] = "decide" /\ state' = state /\ risk' = risk
        /\ fixRuns' = fixRuns /\ audit' = audit
    BY <1>4, <1>t DEF ReadReviewRow, Step, tables
  <2>2. /\ call'[p].task = call[p].task /\ call'[p].from = call[p].from
        /\ call'[p].risk = call[p].risk /\ call'[p].loops = call[p].loops
        /\ call'[p].plan = call[p].plan /\ call'[p].final = call[p].final
        /\ call'[p].checkpoint = call[p].checkpoint
        /\ call'[p].tests = call[p].tests /\ call'[p].scans = call[p].scans
    BY <1>4, <1>t DEF ReadReviewRow, Call
  <2>3. call'[p].reviewer = audit[call[p].task].review
    BY <1>4, <1>t DEF ReadReviewRow, Call
  <2>4. ReadsState(p)'
    BY <2>1, <2>2 DEF ReadsState, Current, UpToDate
  <2>5. ReadsLedger(p)'
    BY <2>1, <2>2 DEF ReadsLedger, Current, UpToDate
  <2>6. ReadsVerify(p)'
    BY <2>1, <2>2 DEF ReadsVerify, Current, UpToDate
  <2>7. ReadsReview(p)'
    BY <2>1, <2>2, <2>3 DEF ReadsReview
  <2> QED BY <1>q, <2>1, <2>4, <2>5, <2>6, <2>7 DEF UpToDate
<1>5. ASSUME NEW p \in Procs, SetState(p) PROVE Current'
  <2>1. pc[p] = "decide" /\ pc'[p] = "record" /\ call' = call
    BY <1>5, <1>t DEF SetState, Step
  <2>2. state'[call[p].task] = call[p].to
    BY <1>5, <1>t, <2>1 DEF SetState, TypeOK
  <2> QED BY <1>q, <2>1, <2>2 DEF UpToDate, HasWritten
<1>6. ASSUME NEW p \in Procs, RecordRun(p) PROVE Current'
  <2>1. pc[p] = "record" /\ pc'[p] = "trail" /\ call' = call /\ state' = state
    BY <1>6, <1>t DEF RecordRun, Step
  <2> QED BY <1>q, <2>1 DEF UpToDate, HasWritten, Current
<1>7. ASSUME NEW p \in Procs, CheckTests(p) PROVE Current'
  <2>1. /\ pc'[p] \in {"checkFindings", "denyVerify"}
        /\ pc'[p] = "checkFindings" => TestsBacked(p)
        /\ UNCHANGED <<call, testRow, newestSuite>>
    BY <1>7, <1>t DEF CheckTests, TestsBacked, tables
  <2>2. TestsBacked(p) => TestsBacked(p)'
    BY <2>1 DEF TestsBacked, LatestTestsGreen
  <2> QED BY <1>q, <2>1, <2>2 DEF UpToDate
<1>8. ASSUME NEW p \in Procs, CheckFindings(p) PROVE Current'
  <2>1. /\ pc[p] = "checkFindings" /\ pc'[p] \in {"appendVerify", "denyVerify"}
        /\ pc'[p] = "appendVerify" => ScansBacked(p)
        /\ UNCHANGED <<call, testRow, newestSuite, findings>>
    BY <1>8, <1>t DEF CheckFindings, ScansBacked, tables
  <2>2. TestsBacked(p)'
    BY <2>1 DEF TestsBacked, LatestTestsGreen, Current, UpToDate
  <2>3. ScansBacked(p) => ScansBacked(p)'
    BY <2>1 DEF ScansBacked, ScansClean
  <2> QED BY <1>q, <2>1, <2>2, <2>3 DEF UpToDate
<1>9. ASSUME NEW p \in Procs, NEW t \in Tasks, NEW tests, NEW scans,
             BeginVerify(p, t, tests, scans)
      PROVE  Current'
  <2>1. pc'[p] = "checkTests"
    BY <1>9, <1>t DEF BeginVerify, Step
  <2> QED BY <1>q, <2>1 DEF UpToDate
<1>10. ASSUME NEW p \in Procs, Ending(p) PROVE Current'
  BY <1>10, EndingIsIdle, IdleIsCurrent
<1>11. ASSUME NEW p \in Procs, NEW t \in Tasks, Evidence(p, t) PROVE Current'
  BY <1>11, EvidenceBetweenCalls, IdleIsCurrent
<1>12. CASE UNCHANGED vars
  BY <1>12 DEF vars, tables, Current, UpToDate, ReadsState, ReadsLedger, ReadsVerify,
               ReadsReview, HasWritten, TestsBacked, ScansBacked, LatestTestsGreen, ScansClean
<1> QED
  BY <1>1, <1>2, <1>3, <1>4, <1>5, <1>6, <1>7, <1>8, <1>9, <1>10, <1>11, <1>12
     DEF Next, Command, TransitionSteps, VerifySteps, Ending, Evidence

LEMMA AloneCurrent ==
    ASSUME Alone
    PROVE  Spec => [](TypeOK /\ Current)
<1>1. Init => Current
  BY DEF Init, Current, UpToDate
<1>2. TypeOK /\ Current /\ [Next]_vars => Current'
  BY NextCurrent
<1> QED BY <1>1, <1>2, InitType, NextType, PTL DEF Spec

-----------------------------------------------------------------------------
(* What the statements that append to the audit trail leave in it.         *)

LEMMA LifecycleAppended ==
    ASSUME TypeOK, NEW p \in Procs, call[p].task \in Tasks, NEW decision,
           AppendLifecycle(p, decision)
    PROVE  /\ audit'[call[p].task].lifecycle =
                 [decision |-> decision, from |-> call[p].from, to |-> call[p].to]
           /\ \A t \in Tasks : t # call[p].task => audit'[t] = audit[t]
           /\ \A t \in Tasks :
                /\ audit'[t].plan = audit[t].plan /\ audit'[t].final = audit[t].final
                /\ audit'[t].checkpoint = audit[t].checkpoint
                /\ audit'[t].verify = audit[t].verify /\ audit'[t].review = audit[t].review
<1> DEFINE row == [decision |-> decision, from |-> call[p].from, to |-> call[p].to]
<1>1. audit' = [audit EXCEPT ![call[p].task].lifecycle = row]
  BY DEF AppendLifecycle
<1>2. \A t \in Tasks : audit[t] \in AuditRows
  BY DEF TypeOK
<1>3. audit \in [Tasks -> AuditRows]
  BY DEF TypeOK
<1> HIDE DEF row
<1>4. audit'[call[p].task].lifecycle = row
  BY <1>1, <1>2, <1>3 DEF AuditRows
<1>5. \A t \in Tasks : t # call[p].task => audit'[t] = audit[t]
  BY <1>1, <1>3
<1>6. ASSUME NEW t \in Tasks
      PROVE  /\ audit'[t].plan = audit[t].plan /\ audit'[t].final = audit[t].final
             /\ audit'[t].checkpoint = audit[t].checkpoint
             /\ audit'[t].verify = audit[t].verify /\ audit'[t].review = audit[t].review
  BY <1>1, <1>2, <1>3 DEF AuditRows
<1> QED BY <1>4, <1>5, <1>6 DEF row

LEMMA VerifyAppended ==
    ASSUME TypeOK, NEW p \in Procs, call[p].task \in Tasks, NEW decision,
           AppendVerifyRow(p, decision)
    PROVE  /\ audit'[call[p].task].verify =
                 [decision |-> decision, tests |-> call[p].tests, scans |-> call[p].scans]
           /\ \A t \in Tasks : t # call[p].task => audit'[t] = audit[t]
           /\ \A t \in Tasks :
                /\ audit'[t].plan = audit[t].plan /\ audit'[t].final = audit[t].final
                /\ audit'[t].checkpoint = audit[t].checkpoint
                /\ audit'[t].lifecycle = audit[t].lifecycle
                /\ audit'[t].review = audit[t].review
<1> DEFINE row == [decision |-> decision, tests |-> call[p].tests, scans |-> call[p].scans]
<1>1. audit' = [audit EXCEPT ![call[p].task].verify = row]
  BY DEF AppendVerifyRow
<1>2. \A t \in Tasks : audit[t] \in AuditRows
  BY DEF TypeOK
<1>3. audit \in [Tasks -> AuditRows]
  BY DEF TypeOK
<1> HIDE DEF row
<1>4. audit'[call[p].task].verify = row
  BY <1>1, <1>2, <1>3 DEF AuditRows
<1>5. \A t \in Tasks : t # call[p].task => audit'[t] = audit[t]
  BY <1>1, <1>3
<1>6. ASSUME NEW t \in Tasks
      PROVE  /\ audit'[t].plan = audit[t].plan /\ audit'[t].final = audit[t].final
             /\ audit'[t].checkpoint = audit[t].checkpoint
             /\ audit'[t].lifecycle = audit[t].lifecycle
             /\ audit'[t].review = audit[t].review
  BY <1>1, <1>2, <1>3 DEF AuditRows
<1> QED BY <1>4, <1>5, <1>6 DEF row

(* Approvals, checkpoints and reviews are rows of their own.               *)
LEMMA EvidenceAppended ==
    ASSUME TypeOK, NEW p \in Procs, NEW u \in Tasks, Evidence(p, u), NEW t \in Tasks
    PROVE  audit'[t].lifecycle = audit[t].lifecycle /\ audit'[t].verify = audit[t].verify
<1>2. audit[t] \in AuditRows /\ audit \in [Tasks -> AuditRows] /\ audit[u] \in AuditRows
  BY DEF TypeOK
<1>1. ASSUME NEW kind, Approve(p, u, kind)
      PROVE  audit'[t].lifecycle = audit[t].lifecycle /\ audit'[t].verify = audit[t].verify
  <2>1. CASE kind = "plan"
    <3>1. audit' = [audit EXCEPT ![u] = [audit[u] EXCEPT !.plan = TRUE]]
      BY <1>1, <2>1 DEF Approve
    <3> QED BY <3>1, <1>2 DEF AuditRows
  <2>2. CASE kind # "plan"
    <3>1. audit' = [audit EXCEPT ![u] = [audit[u] EXCEPT !.final = TRUE]]
      BY <1>1, <2>2 DEF Approve
    <3> QED BY <3>1, <1>2 DEF AuditRows
  <2> QED BY <2>1, <2>2
<1>3. CASE RecordCheckpoint(p, u)
  BY <1>3, <1>2 DEF RecordCheckpoint, AuditRows
<1>4. ASSUME NEW agent, RecordReview(p, u, agent)
      PROVE  audit'[t].lifecycle = audit[t].lifecycle /\ audit'[t].verify = audit[t].verify
  BY <1>4, <1>2 DEF RecordReview, AuditRows
<1>5. CASE audit' = audit
  BY <1>5
<1> QED BY <1>1, <1>3, <1>4, <1>5 DEF Evidence, RecordTests, AddFinding, ResolveFinding

(* The steps of a call that read, and those that append nothing.           *)
Silent(p) ==
    \/ \E t \in Tasks :
        \/ \E target \in Targets : BeginTransition(p, t, target)
        \/ \E tests, scans \in BOOLEAN : BeginVerify(p, t, tests, scans)
    \/ ReadLedger(p) \/ ReadVerifyRow(p) \/ ReadReviewRow(p)
    \/ CheckTests(p) \/ CheckFindings(p) \/ Fault(p)

LEMMA SilentAppendsNothing ==
    ASSUME NEW p \in Procs, Silent(p)
    PROVE  state' = state /\ risk' = risk /\ audit' = audit /\ fixRuns' = fixRuns
  BY DEF Silent, BeginTransition, BeginVerify, ReadLedger, ReadVerifyRow, ReadReviewRow,
         CheckTests, CheckFindings, Fault, tables

(* Every step is one of these.                                             *)
LEMMA Steps ==
    ASSUME [Next]_vars
    PROVE  \/ UNCHANGED vars
           \/ \E p \in Procs :
                \/ Silent(p) \/ SetState(p) \/ RecordRun(p)
                \/ DenyTransition(p) \/ AppendTransition(p)
                \/ AppendVerify(p) \/ DenyVerify(p)
                \/ \E t \in Tasks : Evidence(p, t)
  BY DEF Next, Command, TransitionSteps, VerifySteps, Silent, Evidence

-----------------------------------------------------------------------------
(* A verify row recorded as evidence claims what the tables back.          *)
THEOREM ClaimsBacked ==
    ASSUME Alone
    PROVE  Spec => RecordedClaimsBacked
<1> DEFINE Backed ==
             \A t \in Tasks :
                 LET row == audit'[t].verify
                 IN  row # audit[t].verify /\ row.decision = "recorded" =>
                       /\ row.tests => LatestTestsGreen(t)
                       /\ row.scans => ScansClean(t)
<1>1. TypeOK /\ Current /\ [Next]_vars => [Backed]_audit
  <2> SUFFICES ASSUME TypeOK, Current, [Next]_vars, audit' # audit, NEW t \in Tasks,
                      audit'[t].verify # audit[t].verify,
                      audit'[t].verify.decision = "recorded"
               PROVE  /\ audit'[t].verify.tests => LatestTestsGreen(t)
                      /\ audit'[t].verify.scans => ScansClean(t)
    OBVIOUS
  <2>c. \A p \in Procs : pc[p] # "idle" => call[p].task \in Tasks
    BY DEF TypeOK
  <2>1. ASSUME NEW p \in Procs, DenyVerify(p) \/ AppendVerify(p)
        PROVE  /\ audit'[t].verify.tests => LatestTestsGreen(t)
               /\ audit'[t].verify.scans => ScansClean(t)
    <3>1. call[p].task \in Tasks
      BY <2>1, <2>c DEF DenyVerify, AppendVerify, Step
    <3>2. CASE DenyVerify(p)
      <4>1. AppendVerifyRow(p, "deny")
        BY <3>2 DEF DenyVerify
      <4>2. audit'[call[p].task].verify =
              [decision |-> "deny", tests |-> call[p].tests, scans |-> call[p].scans]
        BY <3>1, <4>1, VerifyAppended
      <4>3. t = call[p].task
        BY <3>1, <4>1, VerifyAppended
      <4> QED BY <4>2, <4>3
    <3>3. CASE AppendVerify(p)
      <4>3. AppendVerifyRow(p, "recorded")
        BY <3>3 DEF AppendVerify
      <4>4. audit'[call[p].task].verify =
              [decision |-> "recorded", tests |-> call[p].tests, scans |-> call[p].scans]
        BY <3>1, <4>3, VerifyAppended
      <4>5. t = call[p].task
        BY <3>1, <4>3, VerifyAppended
      <4>1. audit'[t].verify.tests = call[p].tests /\ audit'[t].verify.scans = call[p].scans
        BY <4>4, <4>5
      <4>2. TestsBacked(p) /\ ScansBacked(p)
        BY <3>3 DEF AppendVerify, Step, Current, UpToDate
      <4> QED BY <4>1, <4>2, <4>5 DEF TestsBacked, ScansBacked
    <3> QED BY <2>1, <3>2, <3>3
  <2>2. ASSUME NEW p \in Procs, DenyTransition(p) \/ AppendTransition(p)
        PROVE  FALSE
    <3>1. call[p].task \in Tasks
      BY <2>2, <2>c DEF DenyTransition, AppendTransition, Step
    <3> QED BY <2>2, <3>1, LifecycleAppended DEF DenyTransition, AppendTransition
  <2>3. \A p \in Procs : ~Silent(p) /\ ~SetState(p) /\ ~RecordRun(p)
    BY SilentAppendsNothing DEF SetState, RecordRun
  <2>4. \A p \in Procs, u \in Tasks : ~Evidence(p, u)
    BY EvidenceAppended
  <2>5. ~UNCHANGED vars
    BY DEF vars, tables
  <2> QED BY <2>1, <2>2, <2>3, <2>4, <2>5, Steps
<1> QED BY <1>1, AloneCurrent, PTL DEF RecordedClaimsBacked, Spec

(* No task leaves MERGED or CANCELLED: a guard that has read the state it  *)
(* replaces finds no edge.                                                 *)
THEOREM ClosedStaysClosed ==
    ASSUME Alone
    PROVE  Spec => ClosedIsFinal
<1> DEFINE Final == \A t \in Tasks :
                      state[t] \in {"MERGED", "CANCELLED"} => state'[t] = state[t]
<1>1. TypeOK /\ Current /\ [Next]_vars => [Final]_state
  <2> SUFFICES ASSUME TypeOK, Current, [Next]_vars, NEW t \in Tasks,
                      state[t] \in {"MERGED", "CANCELLED"}
               PROVE  state'[t] = state[t]
    OBVIOUS
  <2>1. ASSUME NEW p \in Procs, SetState(p) PROVE state'[t] = state[t]
    <3>1. call[p].from = state[call[p].task] /\ CanTransition(call[p].from, call[p].to)
      BY <2>1 DEF SetState, Step, Current, UpToDate, ReadsState, Verdict, GuardTransition
    <3>2. call[p].from \notin {"MERGED", "CANCELLED"}
      BY <3>1 DEF CanTransition, Transitions, HappyPath, ExitEdges, OpenStates
    <3>3. t # call[p].task
      BY <3>1, <3>2
    <3> QED BY <2>1, <3>3 DEF SetState, TypeOK
  <2>2. ASSUME NEW p \in Procs,
               \/ Silent(p) \/ RecordRun(p) \/ DenyTransition(p) \/ AppendTransition(p)
               \/ AppendVerify(p) \/ DenyVerify(p) \/ \E u \in Tasks : Evidence(p, u)
        PROVE  state' = state
    BY <2>2, SilentAppendsNothing, EvidenceBetweenCalls
       DEF RecordRun, DenyTransition, AppendTransition, AppendVerify, DenyVerify
  <2>3. CASE UNCHANGED vars
    BY <2>3 DEF vars, tables
  <2> QED BY <2>1, <2>2, <2>3, Steps
<1> QED BY <1>1, AloneCurrent, PTL DEF ClosedIsFinal, Spec

-----------------------------------------------------------------------------
(***************************************************************************)
(* The trail tells the story of the table.  Between the update of the      *)
(* state and the row of the trail, the trail still ends where the call     *)
(* found the task.                                                         *)
(***************************************************************************)
Unwritten(p, t) == pc[p] \in {"record", "trail"} /\ call[p].task = t

TrailInv ==
    \A t \in Tasks :
        /\ \A p \in Procs :
             Unwritten(p, t) => RestsAt(audit[t].lifecycle) = call[p].from
        /\ (\A p \in Procs : ~Unwritten(p, t)) => RestsAt(audit[t].lifecycle) = state[t]

LEMMA NoFault ==
    ASSUME MaxFaults = 0, TypeOK, NEW p \in Procs
    PROVE  ~Fault(p)
  BY DEF TypeOK, Fault

(* A step outside those two statements, on neither the states nor the trail.*)
LEMMA QuietKeepsTrail ==
    ASSUME Alone, TrailInv, NEW p \in Procs, state' = state,
           \A t \in Tasks : audit'[t].lifecycle = audit[t].lifecycle,
           pc[p] \notin {"record", "trail"}, pc'[p] \notin {"record", "trail"}
    PROVE  TrailInv'
<1>1. \A q \in Procs : q = p
  BY DEF Alone
<1> SUFFICES ASSUME NEW t \in Tasks
             PROVE  /\ \A q \in Procs : ~Unwritten(q, t)'
                    /\ RestsAt(audit'[t].lifecycle) = state'[t]
  BY DEF TrailInv
<1>2. \A q \in Procs : ~Unwritten(q, t)' /\ ~Unwritten(q, t)
  BY <1>1 DEF Unwritten
<1> QED BY <1>2 DEF TrailInv

LEMMA SilentIsQuiet ==
    ASSUME TypeOK, MaxFaults = 0, NEW p \in Procs, Silent(p)
    PROVE  pc[p] \notin {"record", "trail"} /\ pc'[p] \notin {"record", "trail"}
<1>t. pc \in [Procs -> Pc]
  BY DEF TypeOK
<1> QED BY <1>t, NoFault DEF Silent, BeginTransition, BeginVerify, ReadLedger, ReadVerifyRow,
           ReadReviewRow, CheckTests, CheckFindings, Step

LEMMA NextTrail ==
    Alone /\ MaxFaults = 0 /\ TypeOK /\ Current /\ TrailInv /\ [Next]_vars => TrailInv'
<1> SUFFICES ASSUME Alone, MaxFaults = 0, TypeOK, Current, TrailInv, [Next]_vars
             PROVE  TrailInv'
  OBVIOUS
<1>t. /\ pc \in [Procs -> Pc] /\ call \in [Procs -> Call] /\ state \in [Tasks -> State]
      /\ \A p \in Procs : pc[p] # "idle" => call[p].task \in Tasks
  BY DEF TypeOK
<1>a. \A p, q \in Procs : q = p
  BY DEF Alone
<1>1. ASSUME NEW p \in Procs, Silent(p) PROVE TrailInv'
  BY <1>1, SilentAppendsNothing, SilentIsQuiet, QuietKeepsTrail
<1>2. ASSUME NEW p \in Procs, NEW u \in Tasks, Evidence(p, u) PROVE TrailInv'
  <2>1. pc[p] \notin {"record", "trail"} /\ pc'[p] \notin {"record", "trail"} /\ state' = state
    BY <1>2, EvidenceBetweenCalls
  <2>2. \A t \in Tasks : audit'[t].lifecycle = audit[t].lifecycle
    BY <1>2, EvidenceAppended
  <2> QED BY <2>1, <2>2, QuietKeepsTrail
<1>3. ASSUME NEW p \in Procs, NEW here, NEW decision,
             Step(p, here, "idle"), here \notin {"idle", "record", "trail"},
             AppendVerifyRow(p, decision), state' = state
      PROVE  TrailInv'
  <2>1. pc[p] = here /\ pc'[p] = "idle" /\ call[p].task \in Tasks
    BY <1>3, <1>t DEF Step
  <2>2. \A t \in Tasks : audit'[t].lifecycle = audit[t].lifecycle
    BY <1>3, <2>1, VerifyAppended
  <2> QED BY <1>3, <2>1, <2>2, QuietKeepsTrail
<1>4. ASSUME NEW p \in Procs, SetState(p) PROVE TrailInv'
  <2>1. /\ pc[p] = "decide" /\ pc'[p] = "record" /\ call' = call /\ audit' = audit
        /\ call[p].task \in Tasks /\ call[p].from = state[call[p].task]
    BY <1>4, <1>t DEF SetState, Step, Current, UpToDate, ReadsState
  <2>2. \A t \in Tasks : t # call[p].task => state'[t] = state[t]
    BY <1>4, <1>t DEF SetState
  <2>3. \A t \in Tasks : RestsAt(audit[t].lifecycle) = state[t]
    BY <1>a, <2>1 DEF TrailInv, Unwritten
  <2>4. \A t \in Tasks, q \in Procs : Unwritten(q, t)' <=> t = call[p].task
    BY <1>a, <2>1 DEF Unwritten
  <2> SUFFICES ASSUME NEW t \in Tasks
               PROVE  /\ \A q \in Procs :
                           Unwritten(q, t)' => RestsAt(audit'[t].lifecycle) = call'[q].from
                      /\ (\A q \in Procs : ~Unwritten(q, t)')
                           => RestsAt(audit'[t].lifecycle) = state'[t]
    BY DEF TrailInv
  <2>5. ASSUME NEW q \in Procs, Unwritten(q, t)'
        PROVE  RestsAt(audit'[t].lifecycle) = call'[q].from
    BY <1>a, <2>1, <2>3, <2>4, <2>5
  <2>6. ASSUME \A q \in Procs : ~Unwritten(q, t)'
        PROVE  RestsAt(audit'[t].lifecycle) = state'[t]
    BY <2>1, <2>2, <2>3, <2>4, <2>6
  <2> QED BY <2>5, <2>6
<1>5. ASSUME NEW p \in Procs, RecordRun(p) PROVE TrailInv'
  <2>1. /\ pc[p] = "record" /\ pc'[p] = "trail" /\ call' = call /\ audit' = audit
        /\ state' = state
    BY <1>5, <1>t DEF RecordRun, Step
  <2>2. \A q \in Procs, t \in Tasks : Unwritten(q, t)' <=> Unwritten(q, t)
    BY <1>a, <2>1 DEF Unwritten
  <2> QED BY <2>1, <2>2 DEF TrailInv
<1>6. ASSUME NEW p \in Procs, NEW decision, AppendLifecycle(p, decision),
             pc[p] # "idle", pc'[p] = "idle", state' = state,
             state[call[p].task] = IF decision = "allow" THEN call[p].to ELSE call[p].from,
             \A t \in Tasks : t # call[p].task => ~Unwritten(p, t)
      PROVE  TrailInv'
  <2>1. call[p].task \in Tasks
    BY <1>6, <1>t
  <2> DEFINE row == [decision |-> decision, from |-> call[p].from, to |-> call[p].to]
  <2>2. audit'[call[p].task].lifecycle = row
    BY <1>6, <2>1, LifecycleAppended
  <2>3. RestsAt(audit'[call[p].task].lifecycle) = state'[call[p].task]
    BY <1>6, <2>2 DEF RestsAt
  <2>4. \A t \in Tasks : t # call[p].task => audit'[t] = audit[t]
    BY <1>6, <2>1, LifecycleAppended
  <2>5. \A t \in Tasks : t # call[p].task => RestsAt(audit'[t].lifecycle) = state'[t]
    BY <1>6, <1>a, <2>4 DEF TrailInv
  <2>6. \A q \in Procs, t \in Tasks : ~Unwritten(q, t)'
    BY <1>6, <1>a DEF Unwritten
  <2>7. \A t \in Tasks : RestsAt(audit'[t].lifecycle) = state'[t]
    BY <2>3, <2>5
  <2> QED BY <2>6, <2>7 DEF TrailInv
<1>7. ASSUME NEW p \in Procs, DenyTransition(p) PROVE TrailInv'
  <2>1. /\ pc[p] = "decide" /\ pc'[p] = "idle" /\ state' = state
        /\ call[p].from = state[call[p].task] /\ AppendLifecycle(p, "deny")
    BY <1>7, <1>t DEF DenyTransition, Step, Current, UpToDate, ReadsState
  <2>2. \A t \in Tasks : ~Unwritten(p, t)
    BY <2>1 DEF Unwritten
  <2> QED BY <1>6, <2>1, <2>2
<1>8. ASSUME NEW p \in Procs, AppendTransition(p) PROVE TrailInv'
  <2>1. /\ pc[p] = "trail" /\ pc'[p] = "idle" /\ state' = state
        /\ call[p].to = state[call[p].task] /\ AppendLifecycle(p, "allow")
    BY <1>8, <1>t DEF AppendTransition, Step, Current, UpToDate, HasWritten
  <2>2. \A t \in Tasks : t # call[p].task => ~Unwritten(p, t)
    BY DEF Unwritten
  <2> QED BY <1>6, <2>1, <2>2
<1>9. CASE UNCHANGED vars
  BY <1>9 DEF vars, tables, TrailInv, Unwritten
<1>10. ASSUME NEW p \in Procs, AppendVerify(p) \/ DenyVerify(p) PROVE TrailInv'
  BY <1>10, <1>3 DEF AppendVerify, DenyVerify
<1> QED BY <1>1, <1>2, <1>4, <1>5, <1>7, <1>8, <1>9, <1>10, Steps

LEMMA AloneTrail ==
    ASSUME Alone, MaxFaults = 0
    PROVE  Spec => [](TypeOK /\ Current /\ TrailInv)
<1>1. Init => TrailInv
  BY DEF Init, TrailInv, Unwritten, NoAudit, NoLifecycle, RestsAt
<1>2. TypeOK /\ Current /\ TrailInv /\ [Next]_vars => TrailInv'
  BY NextTrail
<1> QED BY <1>1, <1>2, AloneCurrent, PTL DEF Spec

(* Between the calls of the only process the audit trail ends where the    *)
(* tasks table is.                                                         *)
THEOREM TrailAgreesAlone ==
    ASSUME Alone, MaxFaults = 0
    PROVE  Spec => []TrailAgrees
<1>1. TrailInv => TrailAgrees
  <2> SUFFICES ASSUME TrailInv, AtRest, NEW t \in Tasks
               PROVE  RestsAt(audit[t].lifecycle) = state[t]
    BY DEF TrailAgrees
  <2>1. \A p \in Procs : ~Unwritten(p, t)
    BY DEF AtRest, Unwritten
  <2> QED BY <2>1 DEF TrailInv
<1> QED BY <1>1, AloneTrail, PTL

(* The rows of the audit trail chain: each starts where the one before it  *)
(* ended.                                                                  *)
THEOREM TrailChains ==
    ASSUME Alone, MaxFaults = 0
    PROVE  Spec => TrailContinuous
<1> DEFINE Chains ==
             \A t \in Tasks :
                 /\ audit'[t].lifecycle # audit[t].lifecycle
                 /\ audit'[t].lifecycle.decision = "allow"
                 => audit'[t].lifecycle.from = RestsAt(audit[t].lifecycle)
<1>1. TypeOK /\ Current /\ TrailInv /\ [Next]_vars => [Chains]_audit
  <2> SUFFICES ASSUME TypeOK, Current, TrailInv, [Next]_vars, NEW t \in Tasks,
                      audit'[t].lifecycle # audit[t].lifecycle,
                      audit'[t].lifecycle.decision = "allow"
               PROVE  audit'[t].lifecycle.from = RestsAt(audit[t].lifecycle)
    OBVIOUS
  <2>c. \A p \in Procs : pc[p] # "idle" => call[p].task \in Tasks
    BY DEF TypeOK
  <2>1. ASSUME NEW p \in Procs, NEW here, NEW decision, Step(p, here, "idle"),
               here # "idle", AppendLifecycle(p, decision)
        PROVE  /\ t = call[p].task /\ decision = "allow"
               /\ audit'[t].lifecycle.from = call[p].from
    <3>1. call[p].task \in Tasks
      BY <2>1, <2>c DEF Step
    <3>2. t = call[p].task
      BY <2>1, <3>1, LifecycleAppended
    <3>3. audit'[call[p].task].lifecycle =
            [decision |-> decision, from |-> call[p].from, to |-> call[p].to]
      BY <2>1, <3>1, LifecycleAppended
    <3> QED BY <3>2, <3>3
  <2>2. ASSUME NEW p \in Procs, AppendTransition(p)
        PROVE  audit'[t].lifecycle.from = RestsAt(audit[t].lifecycle)
    <3>1. Step(p, "trail", "idle") /\ AppendLifecycle(p, "allow")
      BY <2>2 DEF AppendTransition
    <3>2. t = call[p].task /\ audit'[t].lifecycle.from = call[p].from
      BY <2>1, <3>1
    <3>3. Unwritten(p, t)
      BY <3>1, <3>2 DEF Step, Unwritten
    <3> QED BY <3>2, <3>3 DEF TrailInv
  <2>3. \A p \in Procs : ~DenyTransition(p)
    BY <2>1 DEF DenyTransition
  <2>4. ASSUME NEW p \in Procs PROVE ~AppendVerify(p) /\ ~DenyVerify(p)
    <3>1. ASSUME NEW here, NEW decision, Step(p, here, "idle"), here # "idle",
                 AppendVerifyRow(p, decision)
          PROVE  FALSE
      <4>1. call[p].task \in Tasks
        BY <3>1, <2>c DEF Step
      <4> QED BY <3>1, <4>1, VerifyAppended
    <3> QED BY <3>1 DEF AppendVerify, DenyVerify
  <2>5. \A p \in Procs, u \in Tasks : ~Evidence(p, u)
    BY EvidenceAppended
  <2>6. \A p \in Procs : ~Silent(p) /\ ~SetState(p) /\ ~RecordRun(p)
    BY SilentAppendsNothing DEF SetState, RecordRun
  <2>7. ~UNCHANGED vars
    BY DEF vars, tables
  <2> QED BY <2>2, <2>3, <2>4, <2>5, <2>6, <2>7, Steps
<1> QED BY <1>1, AloneTrail, PTL DEF TrailContinuous, Spec

-----------------------------------------------------------------------------
(***************************************************************************)
(* The refinement.  A call's update of the state is the move of the        *)
(* machine, the rows of the evidence put it on record, and the rest of a   *)
(* call changes nothing the machine knows.                                 *)
(***************************************************************************)

LEMMA SameTable == Machine!Transitions = Transitions
  BY DEF Machine!Transitions, Transitions, Machine!HappyPath, HappyPath, Machine!ExitEdges,
         ExitEdges, Machine!OpenStates, OpenStates, Machine!FailureExits, FailureExits

(* The guard weighs nothing but these fields.                              *)
LEMMA SameGuard ==
    ASSUME NEW from, NEW to, NEW c, NEW d, GuardTransition(from, to, c),
           d.plan = c.plan, d.final = c.final, d.checkpoint = c.checkpoint,
           d.tests = c.tests, d.scans = c.scans, d.reviewer = c.reviewer,
           d.implementer = c.implementer, d.risk = c.risk, d.loops = c.loops
    PROVE  Machine!GuardTransition(from, to, d)
<1>1. Machine!CanTransition(from, to)
  BY SameTable DEF GuardTransition, CanTransition, Machine!CanTransition
<1>2. Machine!PlanGate(to, d)
  BY DEF GuardTransition, PlanGate, Machine!PlanGate
<1>3. Machine!CheckpointGate(to, d)
  BY DEF GuardTransition, CheckpointGate, Machine!CheckpointGate
<1>4. Machine!RetryGate(from, to, d)
  BY DEF GuardTransition, RetryGate, Machine!RetryGate
<1>5. Machine!FinalGate(to, d)
  BY DEF GuardTransition, FinalGate, Machine!FinalGate
<1>6. Machine!MergeGate(to, d)
  BY DEF GuardTransition, MergeGate, Machine!MergeGate
<1> QED BY <1>1, <1>2, <1>3, <1>4, <1>5, <1>6 DEF Machine!GuardTransition

(* At most one call is between its move and its run row.                   *)
Counting(p, t) ==
    /\ pc[p] = "record" /\ call[p].task = t
    /\ call[p].from = "FIXING" /\ call[p].to = "IMPLEMENTING"

LEMMA OneAtMost ==
    ASSUME Alone, NEW S \in SUBSET Procs
    PROVE  /\ S = {} => Cardinality(S) = 0
           /\ S # {} => Cardinality(S) = 1
<1>1. CASE S = {}
  BY <1>1, FS_EmptySet
<1>2. CASE S # {}
  <2>1. PICK p \in S : TRUE
    BY <1>2
  <2>2. S = {p}
    BY <2>1 DEF Alone
  <2> QED BY <1>2, <2>2, FS_Singleton
<1> QED BY <1>1, <1>2

LEMMA CountingOne ==
    ASSUME Alone, NEW p \in Procs, NEW t
    PROVE  /\ Counting(p, t) => UncountedLoops(t) = 1
           /\ ~Counting(p, t) => UncountedLoops(t) = 0
           /\ Counting(p, t)' => UncountedLoops(t)' = 1
           /\ ~Counting(p, t)' => UncountedLoops(t)' = 0
<1> DEFINE S == {q \in Procs : Counting(q, t)}
           T == {q \in Procs : Counting(q, t)'}
<1>1. UncountedLoops(t) = Cardinality(S) /\ UncountedLoops(t)' = Cardinality(T)
  BY DEF UncountedLoops, Counting
<1>2. /\ Counting(p, t) => S # {}
      /\ ~Counting(p, t) => S = {}
      /\ Counting(p, t)' => T # {}
      /\ ~Counting(p, t)' => T = {}
  BY DEF Alone
<1>3. S \in SUBSET Procs /\ T \in SUBSET Procs
  OBVIOUS
<1>4. (S = {} => Cardinality(S) = 0) /\ (S # {} => Cardinality(S) = 1)
  BY <1>3, OneAtMost
<1>5. (T = {} => Cardinality(T) = 0) /\ (T # {} => Cardinality(T) = 1)
  BY <1>3, OneAtMost
<1>6. /\ Counting(p, t) => UncountedLoops(t) = 1
      /\ ~Counting(p, t) => UncountedLoops(t) = 0
  <2>1. CASE Counting(p, t)
    <3>1. S # {}
      BY <1>2, <2>1
    <3>2. Cardinality(S) = 1
      BY <1>4, <3>1
    <3> QED BY <1>1, <2>1, <3>2
  <2>2. CASE ~Counting(p, t)
    <3>1. S = {}
      BY <2>2 DEF Alone
    <3>2. Cardinality(S) = 0
      <4> HIDE DEF S
      <4> QED BY <1>4, <3>1
    <3> QED BY <1>1, <2>2, <3>2
  <2> QED BY <2>1, <2>2
<1>7. /\ Counting(p, t)' => UncountedLoops(t)' = 1
      /\ ~Counting(p, t)' => UncountedLoops(t)' = 0
  <2>1. CASE Counting(p, t)'
    <3>1. T # {}
      BY <1>2, <2>1
    <3>2. Cardinality(T) = 1
      BY <1>5, <3>1
    <3> QED BY <1>1, <2>1, <3>2
  <2>2. CASE ~Counting(p, t)'
    <3>1. T = {}
      BY <2>2 DEF Alone
    <3>2. Cardinality(T) = 0
      <4> HIDE DEF T
      <4> QED BY <1>5, <3>1
    <3> QED BY <1>1, <2>2, <3>2
  <2> QED BY <2>1, <2>2
<1> QED BY <1>6, <1>7

(* A step at no call's run row leaves the count as it is.                  *)
LEMMA LoopsStay ==
    ASSUME Alone, NEW p \in Procs, fixRuns' = fixRuns,
           pc[p] # "record", pc'[p] # "record"
    PROVE  LoopsTaken' = LoopsTaken
<1>1. ASSUME NEW t PROVE UncountedLoops(t)' = UncountedLoops(t)
  <2>1. ~Counting(p, t) /\ ~Counting(p, t)'
    BY DEF Counting
  <2> QED BY <2>1, CountingOne
<1> QED BY <1>1 DEF LoopsTaken

(* What the machine does not know.                                         *)
LEMMA MachineStutters ==
    ASSUME state' = state, risk' = risk, LoopsTaken' = LoopsTaken,
           \A t \in Tasks :
             /\ audit'[t].plan = audit[t].plan /\ audit'[t].final = audit[t].final
             /\ audit'[t].checkpoint = audit[t].checkpoint
             /\ audit'[t].verify = audit[t].verify /\ audit'[t].review = audit[t].review
    PROVE  UNCHANGED Machine!machineVars
<1>1. OnRecord' = OnRecord
  BY DEF OnRecord
<1> QED BY <1>1 DEF Machine!machineVars

(* What a row of evidence is to the machine.                               *)
LEMMA MachineRecords ==
    ASSUME TypeOK, TypeOK', NEW t \in Tasks, state' = state, risk' = risk,
           LoopsTaken' = LoopsTaken, RowsKept,
           \A u \in Tasks : u # t => audit'[u] = audit[u]
    PROVE  Machine!PutOnRecord(t)
<1> DEFINE e == [plan |-> audit'[t].plan, final |-> audit'[t].final,
                 checkpoint |-> audit'[t].checkpoint, tests |-> audit'[t].verify.tests,
                 scans |-> audit'[t].verify.scans, reviewer |-> audit'[t].review]
<1>1. audit'[t] \in AuditRows
  BY DEF TypeOK
<1>2. e \in Machine!Evidence
  BY <1>1 DEF AuditRows, VerifyRow, Machine!Evidence
<1>3. OnRecord' = [OnRecord EXCEPT ![t] = e]
  BY DEF OnRecord
<1>4. /\ OnRecord[t].plan => e.plan
      /\ OnRecord[t].final => e.final
      /\ OnRecord[t].checkpoint => e.checkpoint
      /\ OnRecord[t].reviewer # None => e.reviewer # None
  BY DEF OnRecord, RowsKept
<1> HIDE DEF e
<1> QED BY <1>2, <1>3, <1>4 DEF Machine!PutOnRecord

LEMMA EvidenceKept ==
    ASSUME TypeOK, NEW p \in Procs, NEW t \in Tasks, Evidence(p, t)
    PROVE  RowsKept /\ \A u \in Tasks : u # t => audit'[u] = audit[u]
<1>1. \A u \in Tasks : audit[u] \in AuditRows
  BY DEF TypeOK
<1>2. audit \in [Tasks -> AuditRows]
  BY DEF TypeOK
<1>3. ASSUME NEW kind, Approve(p, t, kind)
      PROVE  RowsKept /\ \A u \in Tasks : u # t => audit'[u] = audit[u]
  <2>1. CASE kind = "plan"
    <3>1. audit' = [audit EXCEPT ![t] = [audit[t] EXCEPT !.plan = TRUE]]
      BY <1>3, <2>1 DEF Approve
    <3> QED BY <3>1, <1>1, <1>2 DEF AuditRows, RowsKept
  <2>2. CASE kind # "plan"
    <3>1. audit' = [audit EXCEPT ![t] = [audit[t] EXCEPT !.final = TRUE]]
      BY <1>3, <2>2 DEF Approve
    <3> QED BY <3>1, <1>1, <1>2 DEF AuditRows, RowsKept
  <2> QED BY <2>1, <2>2
<1>4. CASE RecordCheckpoint(p, t)
  BY <1>4, <1>1, <1>2 DEF RecordCheckpoint, AuditRows, RowsKept
<1>5. ASSUME NEW agent \in Agents, RecordReview(p, t, agent)
      PROVE  RowsKept /\ \A u \in Tasks : u # t => audit'[u] = audit[u]
  <2>1. agent # None
    BY NoneAssumption
  <2> QED BY <1>5, <1>1, <1>2, <2>1 DEF RecordReview, AuditRows, RowsKept
<1>6. CASE audit' = audit
  BY <1>6 DEF RowsKept
<1> QED BY <1>3, <1>4, <1>5, <1>6 DEF Evidence, RecordTests, AddFinding, ResolveFinding

(* The update of the state is a move of the machine: the guard passed on   *)
(* what is still on record.                                                *)
LEMMA MachineMoves ==
    ASSUME Alone, TypeOK, Current, NEW p \in Procs, SetState(p)
    PROVE  Machine!MachineNext
<1> DEFINE c == call[p]
           t == call[p].task
<1>1. /\ pc[p] = "decide" /\ pc'[p] = "record" /\ call' = call /\ audit' = audit
      /\ risk' = risk /\ fixRuns' = fixRuns /\ t \in Tasks
  BY DEF SetState, Step, TypeOK
<1>2. /\ c.from = state[t] /\ c.risk = risk[t] /\ c.loops = fixRuns[t]
      /\ c.plan = audit[t].plan /\ c.final = audit[t].final
      /\ c.checkpoint = audit[t].checkpoint /\ c.tests = audit[t].verify.tests
      /\ c.scans = audit[t].verify.scans /\ c.reviewer = audit[t].review
  BY <1>1 DEF Current, UpToDate, ReadsState, ReadsLedger, ReadsVerify, ReadsReview
<1>3. c.to \in State /\ c.implementer = None
  BY DEF TypeOK, Call
<1>4. \A u : UncountedLoops(u) = 0
  <2>1. \A u : ~Counting(p, u)
    BY <1>1 DEF Counting
  <2> QED BY <2>1, CountingOne
<1>5. \A u \in Tasks : LoopsTaken[u] = fixRuns[u] /\ fixRuns[u] \in Nat
  BY <1>4 DEF LoopsTaken, TypeOK
<1>6. Machine!GuardTransition(state[t], c.to, Machine!Context(t))
  <2>1. /\ Machine!Context(t).plan = c.plan /\ Machine!Context(t).final = c.final
        /\ Machine!Context(t).checkpoint = c.checkpoint
        /\ Machine!Context(t).tests = c.tests /\ Machine!Context(t).scans = c.scans
        /\ Machine!Context(t).reviewer = c.reviewer
        /\ Machine!Context(t).implementer = c.implementer
        /\ Machine!Context(t).risk = c.risk /\ Machine!Context(t).loops = c.loops
    BY <1>1, <1>2, <1>3, <1>5 DEF Machine!Context, OnRecord
  <2>2. GuardTransition(c.from, c.to, c)
    BY DEF SetState, Verdict
  <2> QED BY <2>1, <2>2, <1>2, SameGuard
<1>7. state' = [state EXCEPT ![t] = c.to]
  BY DEF SetState
<1>8. LoopsTaken' =
        [LoopsTaken EXCEPT ![t] =
           IF state[t] = "FIXING" /\ c.to = "IMPLEMENTING" THEN @ + 1 ELSE @]
  <2>1. ASSUME NEW u \in Tasks
        PROVE  UncountedLoops(u)' =
                 IF u = t /\ state[t] = "FIXING" /\ c.to = "IMPLEMENTING" THEN 1 ELSE 0
    <3>1. Counting(p, u)' <=> (u = t /\ state[t] = "FIXING" /\ c.to = "IMPLEMENTING")
      BY <1>1, <1>2 DEF Counting
    <3>2. (Counting(p, u)' => UncountedLoops(u)' = 1)
          /\ (~Counting(p, u)' => UncountedLoops(u)' = 0)
      BY CountingOne
    <3> QED BY <3>1, <3>2
  <2>2. LoopsTaken' = [u \in Tasks |-> fixRuns[u] + UncountedLoops(u)']
    BY <1>1 DEF LoopsTaken
  <2>3. LoopsTaken = [u \in Tasks |-> fixRuns[u]]
    BY <1>5 DEF LoopsTaken
  <2> HIDE DEF c, t
  <2> QED BY <1>5, <2>1, <2>2, <2>3
<1>9. OnRecord' = OnRecord
  BY <1>1 DEF OnRecord
<1>10. c.to \in Machine!State
  BY <1>3 DEF State, OpenStates, TerminalStates, Machine!State, Machine!OpenStates,
              Machine!TerminalStates
<1>11. Machine!Move(t, c.to)
  <2> HIDE DEF c, t
  <2> QED BY <1>1, <1>6, <1>7, <1>8, <1>9 DEF Machine!Move
<1> QED BY <1>1, <1>10, <1>11 DEF Machine!MachineNext

(* The run row replaces the call in the count.                             *)
LEMMA RunRowCounts ==
    ASSUME Alone, TypeOK, NEW p \in Procs, RecordRun(p)
    PROVE  LoopsTaken' = LoopsTaken
<1>1. pc[p] = "record" /\ pc'[p] = "trail" /\ call' = call /\ call[p].task \in Tasks
  BY DEF RecordRun, Step, TypeOK
<1>2. ASSUME NEW u \in Tasks
      PROVE  fixRuns'[u] + UncountedLoops(u)' = fixRuns[u] + UncountedLoops(u)
  <2>1. UncountedLoops(u)' = 0
    <3>1. ~Counting(p, u)'
      BY <1>1 DEF Counting
    <3> QED BY <3>1, CountingOne
  <2>2. CASE Counting(p, u)
    <3>1. UncountedLoops(u) = 1
      BY <2>2, CountingOne
    <3>2. fixRuns'[u] = fixRuns[u] + 1 /\ fixRuns[u] \in Nat
      BY <1>1, <2>2 DEF Counting, RecordRun, TypeOK
    <3> QED BY <2>1, <3>1, <3>2
  <2>3. CASE ~Counting(p, u)
    <3>1. UncountedLoops(u) = 0
      BY <2>3, CountingOne
    <3>2. fixRuns'[u] = fixRuns[u] /\ fixRuns[u] \in Nat
      BY <1>1, <2>3 DEF Counting, RecordRun, TypeOK
    <3> QED BY <2>1, <3>1, <3>2
  <2> QED BY <2>2, <2>3
<1> QED BY <1>2 DEF LoopsTaken

LEMMA NextRefines ==
    Alone /\ MaxFaults = 0 /\ TypeOK /\ Current /\ [Next]_vars
      => [Machine!MachineNext]_(Machine!machineVars)
<1> SUFFICES ASSUME Alone, MaxFaults = 0, TypeOK, Current, [Next]_vars
             PROVE  Machine!MachineNext \/ UNCHANGED Machine!machineVars
  OBVIOUS
<1>t. TypeOK' /\ \A p \in Procs : pc[p] # "idle" => call[p].task \in Tasks
  BY NextType DEF TypeOK
<1>1. ASSUME NEW p \in Procs, Silent(p) PROVE UNCHANGED Machine!machineVars
  <2>1. LoopsTaken' = LoopsTaken
    BY <1>1, SilentAppendsNothing, SilentIsQuiet, LoopsStay
  <2> QED BY <1>1, <2>1, SilentAppendsNothing, MachineStutters
<1>2. ASSUME NEW p \in Procs, SetState(p) PROVE Machine!MachineNext
  BY <1>2, MachineMoves
<1>3. ASSUME NEW p \in Procs, RecordRun(p) PROVE UNCHANGED Machine!machineVars
  <2>1. state' = state /\ risk' = risk /\ audit' = audit
    BY <1>3 DEF RecordRun
  <2> QED BY <1>3, <2>1, RunRowCounts, MachineStutters
<1>4. ASSUME NEW p \in Procs, DenyTransition(p) \/ AppendTransition(p)
      PROVE  UNCHANGED Machine!machineVars
  <2>1. /\ state' = state /\ risk' = risk /\ fixRuns' = fixRuns
        /\ pc[p] \in {"decide", "trail"} /\ pc'[p] = "idle" /\ call[p].task \in Tasks
        /\ \E decision : AppendLifecycle(p, decision)
    BY <1>4, <1>t DEF DenyTransition, AppendTransition, Step, TypeOK
  <2>2. LoopsTaken' = LoopsTaken
    BY <2>1, LoopsStay
  <2> QED BY <2>1, <2>2, LifecycleAppended, MachineStutters
<1>5. ASSUME NEW p \in Procs, AppendVerify(p) \/ DenyVerify(p)
      PROVE  Machine!MachineNext
  <2>1. /\ state' = state /\ risk' = risk /\ fixRuns' = fixRuns
        /\ pc[p] \in {"appendVerify", "denyVerify"} /\ pc'[p] = "idle"
        /\ call[p].task \in Tasks /\ \E decision : AppendVerifyRow(p, decision)
    BY <1>5, <1>t DEF AppendVerify, DenyVerify, Step, TypeOK
  <2>2. LoopsTaken' = LoopsTaken
    BY <2>1, LoopsStay
  <2>3. RowsKept
    BY <2>1, AppendingKeepsRows
  <2>4. \A u \in Tasks : u # call[p].task => audit'[u] = audit[u]
    BY <2>1, VerifyAppended
  <2>5. Machine!PutOnRecord(call[p].task)
    BY <1>t, <2>1, <2>2, <2>3, <2>4, MachineRecords
  <2> QED BY <2>1, <2>5 DEF Machine!MachineNext
<1>6. ASSUME NEW p \in Procs, NEW t \in Tasks, Evidence(p, t)
      PROVE  Machine!MachineNext
  <2>1. /\ state' = state /\ risk' = risk /\ fixRuns' = fixRuns
        /\ pc[p] # "record" /\ pc'[p] # "record"
    BY <1>6, EvidenceBetweenCalls
  <2>2. LoopsTaken' = LoopsTaken
    BY <2>1, LoopsStay
  <2>3. Machine!PutOnRecord(t)
    BY <1>6, <1>t, <2>1, <2>2, EvidenceKept, MachineRecords
  <2> QED BY <2>3 DEF Machine!MachineNext
<1>7. CASE UNCHANGED vars
  BY <1>7 DEF vars, tables, Machine!machineVars, OnRecord, LoopsTaken, UncountedLoops
<1> QED BY <1>1, <1>2, <1>3, <1>4, <1>5, <1>6, <1>7, Steps

LEMMA InitRefines == Alone /\ Init => Machine!MachineInit
<1> SUFFICES ASSUME Alone, Init PROVE Machine!MachineInit
  OBVIOUS
<1>1. risk \in [Tasks -> Machine!Risk]
  BY EngineAssumption DEF Init, Risk, Machine!Risk
<1>2. OnRecord = [t \in Tasks |-> Machine!NoEvidence]
  BY DEF Init, OnRecord, NoAudit, NoVerify, Machine!NoEvidence
<1>3. \A t : UncountedLoops(t) = 0
  <2>1. \A t : {p \in Procs : /\ pc[p] = "record" /\ call[p].task = t
                             /\ call[p].from = "FIXING"
                             /\ call[p].to = "IMPLEMENTING"} = {}
    BY DEF Init
  <2> QED BY <2>1, FS_EmptySet DEF UncountedLoops
<1>4. LoopsTaken = [t \in Tasks |-> 0]
  BY <1>3 DEF Init, LoopsTaken
<1> QED BY <1>1, <1>2, <1>4 DEF Init, Machine!MachineInit

(* With one process at a time, the engine's calls of many statements are   *)
(* the indivisible guarded moves of TaskMachine.                           *)
THEOREM EngineImplementsMachine ==
    ASSUME Alone, MaxFaults = 0
    PROVE  Spec => ImplementsMachine
<1>1. Init => Machine!MachineInit
  BY InitRefines
<1>2. TypeOK /\ Current /\ [Next]_vars => [Machine!MachineNext]_(Machine!machineVars)
  BY NextRefines
<1> QED BY <1>1, <1>2, AloneCurrent, PTL DEF ImplementsMachine, Machine!MachineSpec, Spec
=============================================================================
