--------------------------- MODULE WorkspaceProofs ---------------------------
(***************************************************************************)
(* Theorems about WorkspaceService for any processes, tasks and calls of   *)
(* prepare, whatever fails and whichever process dies, down to the single  *)
(* statements of an engine call.  Those that assume Alone are about one    *)
(* process at a time.                                                      *)
(***************************************************************************)
EXTENDS WorkspaceSafety, TLAPS

-----------------------------------------------------------------------------
(* Types.                                                                  *)

(* A forward edge, where there is one, leads to a state.                   *)
LEMMA NextHappyPathType ==
    ASSUME NEW from PROVE NextHappyPath(from) \in State \cup {None}
  BY Zenon DEF NextHappyPath

LEMMA InitType == Init => TypeOK
<1> SUFFICES ASSUME Init PROVE TypeOK
  OBVIOUS
<1>1. state \in [Tasks -> State]
  BY DEF Init, State, OpenStates
<1>2. risk \in [Tasks -> Risk]
  BY WorkspaceAssumption DEF Init
<1>3. prepares \in 0 .. MaxPrepares /\ faults \in 0 .. MaxFaults
  BY WorkspaceAssumption DEF Init
<1>4. ask \in [Procs -> [task : Tasks \cup {None}, from : State, to : State,
                        why : Callers]]
  BY DEF Init, NoAsk, State, OpenStates, Callers
<1> QED BY <1>1, <1>2, <1>3, <1>4
        DEF Init, TypeOK, InPrepare, PreparePc, RemovePc, EnginePc

(* A process that is in a call works on a path that was made for a task.   *)
LEMMA TaskOfType ==
    ASSUME TypeOK, NEW p \in Procs, InPrepare(p) \/ pc[p] \in RemovePc
    PROVE  call[p] \in Paths /\ TaskOf(p) \in Tasks
  BY DEF TypeOK, TaskOf

(* Where the engine's answer sends its caller.                             *)
LEMMA AnswerGoes ==
    ASSUME NEW why \in Callers
    PROVE  /\ Denied[why] \in {"idle", "block"}
           /\ Allowed[why] \in {"idle", "look", "project"}
           /\ why = "command" => Denied[why] = "idle" /\ Allowed[why] = "idle"
           /\ why # "phase" => Denied[why] = "idle"
           /\ Allowed[why] = "look" => why = "phase"
           /\ Allowed[why] = "project" => why = "gate"
  BY DEF Callers, Denied, Allowed

(* A denial ends the calls of the gate and of block(), a consent those of  *)
(* block().                                                                *)
LEMMA DenialBlocks ==
    ASSUME NEW why \in Callers, why # "command"
    PROVE  /\ Denied[why] = "idle" => why # "phase"
           /\ Allowed[why] = "idle" => why = "block"
  BY DEF Callers, Denied, Allowed

(* A row is only written for a path a prepare made.                        *)
RowsOwned == \A w \in Paths : rows[w] # "absent" => pathTask[w] # None

(* A call of the engine asks what its caller asks: for the next phase, the *)
(* gate's state or BLOCKED.                                                *)
AsksForCaller ==
    \A p \in Procs : pc[p] \in EnginePc =>
        /\ ask[p].why = "phase" => ask[p].to = NextHappyPath(ask[p].from)
        /\ ask[p].why = "gate" => ask[p].to = "PREPARING_WORKSPACE"
        /\ ask[p].why = "block" => ask[p].to = "BLOCKED"

Typed == TypeOK /\ RowsOwned /\ AsksForCaller

LEMMA AskTyped ==
    ASSUME Typed, NEW p \in Procs, NEW here, NEW t \in Tasks, NEW to,
           NEW why \in Callers, Ask(p, here, t, to, why), to \in State \cup {None},
           why # "command" => InPrepare(p),
           why = "phase" => to = NextHappyPath(state[t]),
           why = "gate" => to = "PREPARING_WORKSPACE",
           why = "block" => to = "BLOCKED"
    PROVE  Typed'
<1> DEFINE a == [task |-> t, from |-> state[t], to |-> to, why |-> why]
<1> USE DEF PreparePc, RemovePc, EnginePc, Typed
<1>1. /\ to # None /\ pc' = [pc EXCEPT ![p] = "weigh"] /\ ask' = [ask EXCEPT ![p] = a]
      /\ call' = call /\ pathTask' = pathTask
  BY DEF Ask, Goto
<1>2. a \in [task : Tasks \cup {None}, from : State, to : State, why : Callers]
  BY <1>1 DEF TypeOK
<1>3. a.task = t /\ a.from = state[t] /\ a.to = to /\ a.why = why
  OBVIOUS
<1> HIDE DEF a
<1>4. /\ pc' \in [Procs -> {"idle"} \cup PreparePc \cup RemovePc \cup EnginePc]
      /\ ask' \in [Procs -> [task : Tasks \cup {None}, from : State, to : State,
                             why : Callers]]
  BY <1>1, <1>2 DEF TypeOK
<1>5. \A q \in Procs \ {p} : pc'[q] = pc[q] /\ ask'[q] = ask[q]
  BY <1>1
<1>6. pc'[p] = "weigh" /\ ask'[p] = a
  BY <1>1 DEF TypeOK
<1>7. \A q \in Procs :
        /\ InPrepare(q)' \/ pc'[q] \in RemovePc
             => call'[q] # 0 /\ pathTask'[call'[q]] # None
        /\ pc'[q] \in EnginePc => ask'[q].task # None
  BY <1>1, <1>3, <1>5, <1>6, WorkspaceAssumption DEF TypeOK, InPrepare
<1>8. AsksForCaller'
  BY <1>3, <1>4, <1>5, <1>6 DEF AsksForCaller
<1> QED BY <1>1, <1>4, <1>7, <1>8
        DEF Ask, TypeOK, RowsOwned, engineVars, gitVars, bounds

LEMMA AnswerTyped ==
    ASSUME Typed, NEW p \in Procs, NEW here \in EnginePc,
           NEW there \in {"idle", "block", "look", "project"},
           Answer(p, here, there),
           ask[p].why = "command" => there = "idle",
           state' \in [Tasks -> State], fixRuns' \in [Tasks -> Nat]
    PROVE  Typed'
<1> USE DEF PreparePc, RemovePc, EnginePc, Typed
<1>1. /\ pc[p] = here /\ pc' = [pc EXCEPT ![p] = there]
      /\ ask' = [ask EXCEPT ![p] = NoAsk] /\ pathTask' = pathTask
      /\ call' = IF there = "idle" THEN [call EXCEPT ![p] = 0] ELSE call
  BY DEF Answer, Goto
<1>2. NoAsk \in [task : Tasks \cup {None}, from : State, to : State, why : Callers]
  BY DEF NoAsk, State, OpenStates, Callers
<1>3. /\ pc' \in [Procs -> {"idle"} \cup PreparePc \cup RemovePc \cup EnginePc]
      /\ ask' \in [Procs -> [task : Tasks \cup {None}, from : State, to : State,
                             why : Callers]]
      /\ call' \in [Procs -> Paths \cup {0}]
  BY <1>1, <1>2 DEF TypeOK
<1>4. \A q \in Procs \ {p} :
        pc'[q] = pc[q] /\ ask'[q] = ask[q] /\ call'[q] = call[q]
  BY <1>1 DEF TypeOK
<1>5. pc'[p] = there /\ (there # "idle" => InPrepare(p) /\ call'[p] = call[p])
  BY <1>1 DEF TypeOK, InPrepare
<1>6. \A q \in Procs :
        /\ InPrepare(q)' \/ pc'[q] \in RemovePc
             => call'[q] # 0 /\ pathTask'[call'[q]] # None
        /\ pc'[q] \in EnginePc => ask'[q].task # None
  BY <1>1, <1>4, <1>5 DEF TypeOK, InPrepare
<1>7. AsksForCaller'
  BY <1>4, <1>5 DEF AsksForCaller
<1> QED BY <1>3, <1>6, <1>7
        DEF Answer, TypeOK, RowsOwned, gitVars, bounds

LEMMA NextTyped == Typed /\ [Next]_vars => Typed'
<1> SUFFICES ASSUME Typed, [Next]_vars PROVE Typed'
  OBVIOUS
<1> USE DEF PreparePc, RemovePc, EnginePc, Typed
<1>0. CASE UNCHANGED vars
  BY <1>0 DEF TypeOK, RowsOwned, AsksForCaller, InPrepare, vars, engineVars,
              gitVars, bounds
<1> SUFFICES ASSUME NEW p \in Procs,
                    \/ Command(p) \/ PrepareSteps(p) \/ EngineSteps(p)
                    \/ RemoveSteps(p) \/ Fault(p)
             PROVE  Typed'
  BY <1>0 DEF Next
<1> USE DEF AsksForCaller, InPrepare
<1>1. ASSUME NEW t \in Tasks, NEW target \in Targets, Advance(p, t, target)
      PROVE  Typed'
  <2> DEFINE to == IF target = Forward THEN NextHappyPath(state[t]) ELSE target
  <2>1. to \in State \cup {None}
    BY WorkspaceAssumption, NextHappyPathType
  <2>2. Ask(p, "idle", t, to, "command")
    BY <1>1 DEF Advance
  <2> HIDE DEF to
  <2> QED BY <2>1, <2>2, AskTyped DEF Callers
<1>2. ASSUME NEW t \in Tasks, ApprovePlan(p, t) PROVE Typed'
  BY <1>2 DEF ApprovePlan, TypeOK, RowsOwned, gitVars, bounds
<1>3. ASSUME NEW t \in Tasks, BeginPrepare(p, t) PROVE Typed'
  <2>1. /\ prepares + 1 \in Paths /\ prepares' = prepares + 1
        /\ pathTask' = [pathTask EXCEPT ![prepares + 1] = t]
        /\ call' = [call EXCEPT ![p] = prepares + 1]
        /\ pc' = [pc EXCEPT ![p] = "look"]
        /\ ask' = ask
    BY <1>3, WorkspaceAssumption DEF BeginPrepare, Paths, TypeOK, Goto
  <2>3. pathTask' \in [Paths -> Tasks \cup {None}]
        /\ call' \in [Procs -> Paths \cup {0}]
        /\ pc' \in [Procs -> {"idle"} \cup PreparePc \cup RemovePc \cup EnginePc]
    BY <2>1 DEF TypeOK
  <2>4. \A q \in Procs :
          /\ InPrepare(q)' \/ pc'[q] \in RemovePc
               => call'[q] # 0 /\ pathTask'[call'[q]] # None
          /\ pc'[q] \in EnginePc => ask'[q].task # None
    BY <2>1, WorkspaceAssumption DEF TypeOK, Paths
  <2>5. AsksForCaller'
    BY <2>1 DEF TypeOK
  <2>6. prepares' \in 0 .. MaxPrepares
    BY <1>3, WorkspaceAssumption DEF BeginPrepare, TypeOK
  <2>7. RowsOwned'
    BY <1>3, <2>1, WorkspaceAssumption DEF BeginPrepare, RowsOwned, TypeOK
  <2> QED BY <1>3, <2>1, <2>3, <2>4, <2>5, <2>6, <2>7
          DEF BeginPrepare, TypeOK, engineVars, gitVars
<1>4. ASSUME NEW w \in Paths, BeginRemove(p, w) PROVE Typed'
  <2>1. /\ rows[w] # "absent" /\ call' = [call EXCEPT ![p] = w]
        /\ pc' = [pc EXCEPT ![p] = "removeTree"]
    BY <1>4 DEF BeginRemove, Goto
  <2>2. \A q \in Procs :
          InPrepare(q)' \/ pc'[q] \in RemovePc => call'[q] # 0 /\ pathTask'[call'[q]] # None
    BY <1>4, <2>1 DEF TypeOK, RowsOwned, Paths, BeginRemove
  <2> QED BY <1>4, <2>1, <2>2
          DEF BeginRemove, TypeOK, RowsOwned, engineVars, gitVars, bounds
<1>5. CASE Look(p)
  BY <1>5 DEF Look, Goto, TypeOK, RowsOwned, engineVars, gitVars, bounds
<1>6. CASE AdvancePhase(p)
  <2>1. TaskOf(p) \in Tasks /\ InPrepare(p)
    BY <1>6, TaskOfType DEF AdvancePhase, Ask, Goto
  <2> HIDE DEF InPrepare
  <2> QED BY <1>6, <2>1, AskTyped, NextHappyPathType DEF AdvancePhase, Callers
<1>7. CASE NoWayForward(p)
  BY <1>7 DEF NoWayForward, Goto, TypeOK, RowsOwned, engineVars, gitVars, bounds
<1>8. CASE Gate(p)
  BY <1>8 DEF Gate, Goto, TypeOK, RowsOwned, engineVars, gitVars, bounds
<1>9. CASE AskGate(p)
  <2>1. TaskOf(p) \in Tasks /\ InPrepare(p)
    BY <1>9, TaskOfType DEF AskGate, Ask, Goto
  <2> HIDE DEF InPrepare
  <2> QED BY <1>9, <2>1, AskTyped DEF AskGate, Callers, State, OpenStates
<1>10. CASE RecordCheckpoint(p)
  BY <1>10, TaskOfType
     DEF RecordCheckpoint, Goto, TypeOK, RowsOwned, engineVars, gitVars, bounds
<1>11. CASE AddWorktree(p)
  BY <1>11 DEF AddWorktree, Goto, TypeOK, RowsOwned, engineVars, bounds
<1>12. CASE CreateBranch(p)
  BY <1>12, TaskOfType DEF CreateBranch, Goto, TypeOK, RowsOwned, engineVars, bounds
<1>13. CASE PrepareFails(p)
  BY <1>13 DEF PrepareFails, Goto, TypeOK, RowsOwned, engineVars, gitVars, bounds
<1>14. CASE InsertWorkspace(p)
  <2>1. call[p] \in Paths /\ pathTask[call[p]] # None
    BY <1>14 DEF InsertWorkspace, Return, Goto, TypeOK
  <2> QED BY <1>14, <2>1
          DEF InsertWorkspace, Return, Goto, TypeOK, RowsOwned, engineVars, gitVars, bounds
<1>15. CASE Block(p)
  <2>1. TaskOf(p) \in Tasks /\ InPrepare(p)
    BY <1>15, TaskOfType DEF Block, Ask, Goto
  <2> HIDE DEF InPrepare
  <2> QED BY <1>15, <2>1, AskTyped DEF Block, Callers, State, OpenStates
<1>16. CASE Weigh(p)
  BY <1>16 DEF Weigh, Goto, TypeOK, RowsOwned, engineVars, gitVars, bounds
<1>17. CASE Refuse(p)
  <2>1. state' = state /\ fixRuns' = fixRuns /\ Answer(p, "weigh", Denied[ask[p].why])
    BY <1>17 DEF Refuse
  <2>2. ask[p].why \in Callers
    BY DEF TypeOK
  <2> QED BY <2>1, <2>2, AnswerTyped, AnswerGoes DEF TypeOK
<1>18. CASE SetState(p)
  <2>1. ask[p].to \in State /\ ask[p].task \in Tasks
    BY <1>18 DEF SetState, Goto, TypeOK
  <2> QED BY <1>18, <2>1 DEF SetState, Goto, TypeOK, RowsOwned, gitVars, bounds
<1>19. CASE RecordRun(p)
  <2>1. state' = state /\ Answer(p, "record", Allowed[ask[p].why])
    BY <1>19 DEF RecordRun
  <2>2. ask[p].why \in Callers
    BY DEF TypeOK
  <2>3. fixRuns' \in [Tasks -> Nat]
    <3>1. fixRuns \in [Tasks -> Nat]
      BY DEF TypeOK
    <3>2. \/ fixRuns' = [fixRuns EXCEPT ![ask[p].task] = fixRuns[ask[p].task] + 1]
          \/ fixRuns' = [fixRuns EXCEPT ![ask[p].task] = fixRuns[ask[p].task]]
      BY <1>19, Zenon DEF RecordRun
    <3> HIDE DEF Typed
    <3> QED BY <3>1, <3>2
  <2> QED BY <2>1, <2>2, <2>3, AnswerTyped, AnswerGoes DEF TypeOK
<1>20. CASE RemoveTree(p)
  BY <1>20 DEF RemoveTree, Goto, TypeOK, RowsOwned, engineVars, bounds
<1>21. CASE RemoveFails(p)
  BY <1>21 DEF RemoveFails, Return, Goto, TypeOK, RowsOwned, engineVars, gitVars, bounds
<1>22. CASE MarkRemoved(p)
  <2>1. call[p] \in Paths /\ pathTask[call[p]] # None
    BY <1>22 DEF MarkRemoved, Return, Goto, TypeOK
  <2> QED BY <1>22, <2>1
          DEF MarkRemoved, Return, Goto, TypeOK, RowsOwned, engineVars, gitVars, bounds
<1>23. CASE Fault(p)
  <2>1. NoAsk \in [task : Tasks \cup {None}, from : State, to : State, why : Callers]
    BY DEF NoAsk, State, OpenStates, Callers
  <2> QED BY <1>23, <2>1, WorkspaceAssumption
     DEF Fault, Return, Goto, TypeOK, RowsOwned, engineVars, gitVars
<1> QED BY <1>1, <1>2, <1>3, <1>4, <1>5, <1>6, <1>7, <1>8, <1>9, <1>10, <1>11,
           <1>12, <1>13, <1>14, <1>15, <1>16, <1>17, <1>18, <1>19, <1>20, <1>21,
           <1>22, <1>23
        DEF Command, PrepareSteps, EngineSteps, RemoveSteps

(* Every reachable state is well typed.                                    *)
THEOREM TypeCorrect == Spec => []TypeOK
<1>1. Init => Typed
  BY InitType DEF Init, Typed, RowsOwned, AsksForCaller, EnginePc
<1> QED BY <1>1, NextTyped, PTL DEF Spec, Typed

-----------------------------------------------------------------------------
(* Who works on a path: a prepare that has not written its row yet, alone, *)
(* or removals of a path whose row is written.                             *)
FreshPaths ==
    /\ \A p \in Procs : call[p] <= prepares
    /\ \A w \in Paths : w > prepares =>
        pathTask[w] = None /\ tree[w] = "none" /\ rows[w] = "absent"

OwnPaths ==
    /\ \A p \in Procs : InPrepare(p) => rows[call[p]] = "absent"
    /\ \A p \in Procs : pc[p] \in RemovePc => rows[call[p]] # "absent"
    /\ \A p, q \in Procs :
        InPrepare(p) /\ InPrepare(q) /\ call[p] = call[q] => p = q

PathInv == FreshPaths /\ OwnPaths

LEMMA NextPath == Typed /\ PathInv /\ [Next]_vars => PathInv'
<1> SUFFICES ASSUME Typed, PathInv, [Next]_vars PROVE PathInv'
  OBVIOUS
<1> USE DEF PathInv, FreshPaths, OwnPaths, PreparePc, RemovePc, EnginePc,
            InPrepare, Goto, Return, Typed, TypeOK, engineVars, gitVars, bounds
<1>0. CASE UNCHANGED vars
  BY <1>0 DEF vars
<1> SUFFICES ASSUME NEW p \in Procs,
                    \/ Command(p) \/ PrepareSteps(p) \/ EngineSteps(p)
                    \/ RemoveSteps(p) \/ Fault(p)
             PROVE  PathInv'
  BY <1>0 DEF Next
<1>1. ASSUME NEW t \in Tasks, NEW target \in Targets, Advance(p, t, target)
      PROVE  PathInv'
  BY <1>1 DEF Advance, Ask
<1>2. ASSUME NEW t \in Tasks, ApprovePlan(p, t) PROVE PathInv'
  BY <1>2 DEF ApprovePlan
<1>3. ASSUME NEW t \in Tasks, BeginPrepare(p, t) PROVE PathInv'
  <2>1. /\ prepares + 1 \in Paths /\ prepares' = prepares + 1 /\ prepares \in Nat
        /\ pathTask' = [pathTask EXCEPT ![prepares + 1] = t]
        /\ call' = [call EXCEPT ![p] = prepares + 1]
        /\ pc' = [pc EXCEPT ![p] = "look"]
        /\ rows' = rows /\ tree' = tree /\ ask' = ask
    BY <1>3, WorkspaceAssumption DEF BeginPrepare, Paths
  <2>2. \A q \in Procs : call[q] \in Nat /\ call[q] <= prepares
    BY WorkspaceAssumption DEF Paths
  <2>3. FreshPaths'
    BY <2>1, <2>2 DEF Paths
  <2>4. rows[prepares + 1] = "absent"
    BY <2>1
  <2>5. ASSUME NEW q \in Procs, NEW r \in Procs, q # r, InPrepare(q)',
               InPrepare(r)', call'[q] = call'[r]
        PROVE  FALSE
    <3>1. call[q] # prepares + 1 /\ call[r] # prepares + 1
      BY <2>1, <2>2
    <3> QED BY <2>1, <2>5, <3>1
  <2>6. \A q \in Procs : InPrepare(q)' => rows'[call'[q]] = "absent"
    BY <2>1, <2>4
  <2>7. \A q \in Procs : pc'[q] \in RemovePc => rows'[call'[q]] # "absent"
    BY <2>1
  <2> QED BY <2>3, <2>5, <2>6, <2>7
<1>4. ASSUME NEW w \in Paths, BeginRemove(p, w) PROVE PathInv'
  <2>1. w <= prepares
    BY <1>4, WorkspaceAssumption DEF BeginRemove, Paths
  <2> QED BY <1>4, <2>1 DEF BeginRemove
<1>5. CASE Look(p)
  BY <1>5 DEF Look
<1>6. CASE AdvancePhase(p) \/ AskGate(p) \/ Block(p)
  <2>1. /\ pc[p] \in {"advance", "open", "block"} /\ pc' = [pc EXCEPT ![p] = "weigh"]
        /\ \A q \in Procs \ {p} : ask'[q] = ask[q]
    BY <1>6 DEF AdvancePhase, AskGate, Block, Ask
  <2>2. \A q \in Procs : InPrepare(q)' => InPrepare(q)
    BY <2>1
  <2>3. \A q \in Procs : pc'[q] \in RemovePc => pc[q] \in RemovePc
    BY <2>1
  <2> HIDE DEF InPrepare, RemovePc
  <2> QED BY <1>6, <2>2, <2>3 DEF AdvancePhase, AskGate, Block, Ask
<1>7. CASE Gate(p)
  BY <1>7 DEF Gate
<1>8. CASE NoWayForward(p)
  BY <1>8 DEF NoWayForward
<1>9. CASE Weigh(p)
  BY <1>9 DEF Weigh
<1>10. CASE RecordCheckpoint(p)
  BY <1>10 DEF RecordCheckpoint
<1>11. CASE AddWorktree(p)
  BY <1>11 DEF AddWorktree
<1>12. CASE CreateBranch(p)
  BY <1>12 DEF CreateBranch
<1>13. CASE PrepareFails(p)
  BY <1>13 DEF PrepareFails
<1>14. CASE InsertWorkspace(p)
  BY <1>14 DEF InsertWorkspace
<1>15. CASE SetState(p)
  BY <1>15 DEF SetState
<1>16. CASE RemoveTree(p)
  BY <1>16 DEF RemoveTree
<1>17. CASE RemoveFails(p)
  BY <1>17 DEF RemoveFails
<1>18. CASE MarkRemoved(p)
  BY <1>18 DEF MarkRemoved
<1>19. CASE Fault(p)
  BY <1>19 DEF Fault
<1>20. CASE Refuse(p)
  <2>1. /\ Denied[ask[p].why] \in {"idle", "block"}
        /\ ask[p].why = "command" => Denied[ask[p].why] = "idle"
    BY AnswerGoes
  <2> QED BY <1>20, <2>1 DEF Refuse, Answer
<1>21. CASE RecordRun(p)
  <2>1. /\ Allowed[ask[p].why] \in {"idle", "look", "project"}
        /\ ask[p].why = "command" => Allowed[ask[p].why] = "idle"
    BY AnswerGoes
  <2> QED BY <1>21, <2>1 DEF RecordRun, Answer
<1> QED BY <1>1, <1>2, <1>3, <1>4, <1>5, <1>6, <1>7, <1>8, <1>9, <1>10, <1>11,
           <1>12, <1>13, <1>14, <1>15, <1>16, <1>17, <1>18, <1>19, <1>20, <1>21
        DEF Command, PrepareSteps, EngineSteps, RemoveSteps

(* A path has the task's branch once checkout -b has succeeded in it, and  *)
(* for good: at most one path of a task does.                              *)
HasBranch(w) ==
    \/ tree[w] = "onBranch"
    \/ rows[w] # "absent"
    \/ \E p \in Procs : pc[p] = "insert" /\ call[p] = w

BranchInv ==
    /\ \A w \in Paths : HasBranch(w) => pathTask[w] \in branches
    /\ \A v, w \in Paths :
        HasBranch(v) /\ HasBranch(w) /\ pathTask[v] = pathTask[w] => v = w

LEMMA NextBranch == Typed /\ PathInv /\ BranchInv /\ [Next]_vars => BranchInv'
<1> SUFFICES ASSUME Typed, PathInv, BranchInv, [Next]_vars PROVE BranchInv'
  OBVIOUS
<1> USE DEF BranchInv, HasBranch, PathInv, OwnPaths, TaskOf, PreparePc, RemovePc, EnginePc, InPrepare, Goto, Return, Typed,
            TypeOK, engineVars, gitVars, bounds
<1>0. CASE UNCHANGED vars
  BY <1>0 DEF vars
<1> SUFFICES ASSUME NEW p \in Procs,
                    \/ Command(p) \/ PrepareSteps(p) \/ EngineSteps(p)
                    \/ RemoveSteps(p) \/ Fault(p)
             PROVE  BranchInv'
  BY <1>0 DEF Next
<1>1. ASSUME NEW t \in Tasks, NEW target \in Targets, Advance(p, t, target)
      PROVE  BranchInv'
  BY <1>1 DEF Advance, Ask
<1>2. ASSUME NEW t \in Tasks, ApprovePlan(p, t) PROVE BranchInv'
  BY <1>2 DEF ApprovePlan
<1>3. ASSUME NEW t \in Tasks, BeginPrepare(p, t) PROVE BranchInv'
  <2>1. /\ prepares + 1 \in Paths /\ prepares + 1 > prepares
        /\ pathTask' = [pathTask EXCEPT ![prepares + 1] = t]
        /\ call' = [call EXCEPT ![p] = prepares + 1]
        /\ pc' = [pc EXCEPT ![p] = "look"]
        /\ rows' = rows /\ tree' = tree /\ branches' = branches
    BY <1>3, WorkspaceAssumption DEF BeginPrepare, Paths
  <2>2. \A q \in Procs : call[q] # prepares + 1
    BY WorkspaceAssumption DEF PathInv, FreshPaths, Paths
  <2>3. rows[prepares + 1] = "absent" /\ tree[prepares + 1] = "none"
    BY <2>1 DEF PathInv, FreshPaths
  <2>4. ~HasBranch(prepares + 1)
    BY <2>2, <2>3
  <2>5. \A w \in Paths : HasBranch(w)' => HasBranch(w) /\ pathTask'[w] = pathTask[w]
    BY <2>1, <2>2, <2>4
  <2> HIDE DEF HasBranch
  <2> QED BY <2>1, <2>5
<1>4. ASSUME NEW w \in Paths, BeginRemove(p, w) PROVE BranchInv'
  BY <1>4 DEF BeginRemove
<1>5. CASE Look(p)
  BY <1>5 DEF Look
<1>6. CASE AdvancePhase(p) \/ AskGate(p) \/ Block(p)
  BY <1>6 DEF AdvancePhase, AskGate, Block, Ask
<1>7. CASE Gate(p)
  BY <1>7 DEF Gate
<1>8. CASE NoWayForward(p)
  BY <1>8 DEF NoWayForward
<1>9. CASE Weigh(p)
  BY <1>9 DEF Weigh
<1>10. CASE RecordCheckpoint(p)
  BY <1>10 DEF RecordCheckpoint
<1>11. CASE AddWorktree(p)
  BY <1>11 DEF AddWorktree
<1>12. CASE CreateBranch(p)
  BY <1>12 DEF CreateBranch
<1>13. CASE PrepareFails(p)
  BY <1>13 DEF PrepareFails
<1>14. CASE InsertWorkspace(p)
  BY <1>14 DEF InsertWorkspace
<1>15. CASE SetState(p)
  BY <1>15 DEF SetState
<1>16. CASE RemoveTree(p)
  BY <1>16 DEF RemoveTree
<1>17. CASE RemoveFails(p)
  BY <1>17 DEF RemoveFails
<1>18. CASE MarkRemoved(p)
  BY <1>18 DEF MarkRemoved
<1>19. CASE Fault(p)
  BY <1>19 DEF Fault
<1>20. CASE Refuse(p)
  <2>1. /\ Denied[ask[p].why] \in {"idle", "block"}
        /\ ask[p].why = "command" => Denied[ask[p].why] = "idle"
    BY AnswerGoes
  <2> QED BY <1>20, <2>1 DEF Refuse, Answer
<1>21. CASE RecordRun(p)
  <2>1. /\ Allowed[ask[p].why] \in {"idle", "look", "project"}
        /\ ask[p].why = "command" => Allowed[ask[p].why] = "idle"
    BY AnswerGoes
  <2> QED BY <1>21, <2>1 DEF RecordRun, Answer
<1> QED BY <1>1, <1>2, <1>3, <1>4, <1>5, <1>6, <1>7, <1>8, <1>9, <1>10, <1>11,
           <1>12, <1>13, <1>14, <1>15, <1>16, <1>17, <1>18, <1>19, <1>20, <1>21
        DEF Command, PrepareSteps, EngineSteps, RemoveSteps

(* Without faults, a row is written on a complete worktree and marked when *)
(* the worktree is gone.                                                   *)
RowInv ==
    /\ RowsMatchTrees
    /\ faults = 0 => \A p \in Procs :
        /\ pc[p] = "insert" => tree[call[p]] = "onBranch"
        /\ pc[p] = "mark" => tree[call[p]] = "gone"

LEMMA NextRow == Typed /\ PathInv /\ RowInv /\ [Next]_vars => RowInv'
<1> SUFFICES ASSUME Typed, PathInv, RowInv, [Next]_vars PROVE RowInv'
  OBVIOUS
<1> USE DEF RowInv, RowsMatchTrees, PathInv, OwnPaths, PreparePc, RemovePc, EnginePc, InPrepare, Goto, Return, Typed,
            TypeOK, engineVars, gitVars, bounds
<1>0. CASE UNCHANGED vars
  BY <1>0 DEF vars
<1> SUFFICES ASSUME NEW p \in Procs,
                    \/ Command(p) \/ PrepareSteps(p) \/ EngineSteps(p)
                    \/ RemoveSteps(p) \/ Fault(p)
             PROVE  RowInv'
  BY <1>0 DEF Next
<1>1. ASSUME NEW t \in Tasks, NEW target \in Targets, Advance(p, t, target)
      PROVE  RowInv'
  BY <1>1 DEF Advance, Ask
<1>2. ASSUME NEW t \in Tasks, ApprovePlan(p, t) PROVE RowInv'
  BY <1>2 DEF ApprovePlan
<1>3. ASSUME NEW t \in Tasks, BeginPrepare(p, t) PROVE RowInv'
  <2>1. /\ prepares + 1 \in Paths /\ prepares + 1 > prepares
        /\ pathTask' = [pathTask EXCEPT ![prepares + 1] = t]
        /\ call' = [call EXCEPT ![p] = prepares + 1]
        /\ pc' = [pc EXCEPT ![p] = "look"]
        /\ rows' = rows /\ tree' = tree /\ branches' = branches
    BY <1>3, WorkspaceAssumption DEF BeginPrepare, Paths
  <2>2. \A q \in Procs : call[q] # prepares + 1
    BY WorkspaceAssumption DEF PathInv, FreshPaths, Paths
  <2>3. rows[prepares + 1] = "absent" /\ tree[prepares + 1] = "none"
    BY <2>1 DEF PathInv, FreshPaths
  <2> QED BY <1>3, <2>1 DEF BeginPrepare
<1>4. ASSUME NEW w \in Paths, BeginRemove(p, w) PROVE RowInv'
  BY <1>4 DEF BeginRemove
<1>5. CASE Look(p)
  BY <1>5 DEF Look
<1>6. CASE AdvancePhase(p) \/ AskGate(p) \/ Block(p)
  BY <1>6 DEF AdvancePhase, AskGate, Block, Ask
<1>7. CASE Gate(p)
  BY <1>7 DEF Gate
<1>8. CASE NoWayForward(p)
  BY <1>8 DEF NoWayForward
<1>9. CASE Weigh(p)
  BY <1>9 DEF Weigh
<1>10. CASE RecordCheckpoint(p)
  BY <1>10 DEF RecordCheckpoint
<1>11. CASE AddWorktree(p)
  BY <1>11 DEF AddWorktree
<1>12. CASE CreateBranch(p)
  BY <1>12 DEF CreateBranch
<1>13. CASE PrepareFails(p)
  BY <1>13 DEF PrepareFails
<1>14. CASE InsertWorkspace(p)
  BY <1>14 DEF InsertWorkspace
<1>15. CASE SetState(p)
  BY <1>15 DEF SetState
<1>16. CASE RemoveTree(p)
  BY <1>16 DEF RemoveTree
<1>17. CASE RemoveFails(p)
  BY <1>17 DEF RemoveFails
<1>18. CASE MarkRemoved(p)
  BY <1>18 DEF MarkRemoved
<1>19. CASE Fault(p)
  BY <1>19 DEF Fault
<1>20. CASE Refuse(p)
  <2>1. /\ Denied[ask[p].why] \in {"idle", "block"}
        /\ ask[p].why = "command" => Denied[ask[p].why] = "idle"
    BY AnswerGoes
  <2> QED BY <1>20, <2>1 DEF Refuse, Answer
<1>21. CASE RecordRun(p)
  <2>1. /\ Allowed[ask[p].why] \in {"idle", "look", "project"}
        /\ ask[p].why = "command" => Allowed[ask[p].why] = "idle"
    BY AnswerGoes
  <2> QED BY <1>21, <2>1 DEF RecordRun, Answer
<1> QED BY <1>1, <1>2, <1>3, <1>4, <1>5, <1>6, <1>7, <1>8, <1>9, <1>10, <1>11,
           <1>12, <1>13, <1>14, <1>15, <1>16, <1>17, <1>18, <1>19, <1>20, <1>21
        DEF Command, PrepareSteps, EngineSteps, RemoveSteps

-----------------------------------------------------------------------------
(* What a step leaves alone.                                               *)

Step(p) ==
    \/ Command(p) \/ PrepareSteps(p) \/ EngineSteps(p) \/ RemoveSteps(p)
    \/ Fault(p)

LEMMA OthersStay ==
    ASSUME Typed, NEW p \in Procs, Step(p), NEW q \in Procs, q # p
    PROVE  pc'[q] = pc[q] /\ call'[q] = call[q] /\ ask'[q] = ask[q]
<1> USE DEF Goto, Return, Ask, Answer
<1>1. /\ pc \in [Procs -> {"idle"} \cup PreparePc \cup RemovePc \cup EnginePc]
      /\ DOMAIN call = Procs /\ DOMAIN ask = Procs
  BY DEF Typed, TypeOK
<1>2. CASE Command(p)
  BY <1>1, <1>2 DEF Command, Advance, ApprovePlan, BeginPrepare, BeginRemove
<1>3. CASE PrepareSteps(p)
  BY <1>1, <1>3
     DEF PrepareSteps, Look, AdvancePhase, NoWayForward, Gate, AskGate,
         RecordCheckpoint, AddWorktree, CreateBranch, PrepareFails, InsertWorkspace,
         Block
<1>4. CASE EngineSteps(p)
  BY <1>1, <1>4 DEF EngineSteps, Weigh, Refuse, SetState, RecordRun
<1>5. CASE RemoveSteps(p)
  BY <1>1, <1>5 DEF RemoveSteps, RemoveTree, RemoveFails, MarkRemoved
<1>6. CASE Fault(p)
  BY <1>1, <1>6 DEF Fault
<1> QED BY <1>2, <1>3, <1>4, <1>5, <1>6 DEF Step

(* No approval, checkpoint or risk tier is ever taken back, and the task   *)
(* of a path that was handed out stays.                                    *)
LEMMA EvidenceGrows ==
    ASSUME Typed, PathInv, NEW p \in Procs, Step(p)
    PROVE  /\ risk' = risk
           /\ planApproved \subseteq planApproved'
           /\ checkpointed \subseteq checkpointed'
           /\ \A w \in Paths : pathTask[w] # None => pathTask'[w] = pathTask[w]
<1> USE DEF Goto, Return, Ask, Answer, engineVars
<1>1. CASE Command(p)
  <2>1. ASSUME NEW t \in Tasks, BeginPrepare(p, t)
        PROVE  \A w \in Paths : pathTask[w] # None => pathTask'[w] = pathTask[w]
    <3>1. prepares + 1 \in Paths /\ prepares + 1 > prepares
          /\ pathTask' = [pathTask EXCEPT ![prepares + 1] = t]
      BY <2>1, WorkspaceAssumption DEF BeginPrepare, Paths, Typed, TypeOK
    <3>2. pathTask[prepares + 1] = None
      BY <3>1 DEF PathInv, FreshPaths
    <3> QED BY <3>1, <3>2 DEF Typed, TypeOK
  <2> QED BY <1>1, <2>1 DEF Command, Advance, ApprovePlan, BeginPrepare, BeginRemove
<1>2. CASE PrepareSteps(p)
  BY <1>2
     DEF PrepareSteps, Look, AdvancePhase, NoWayForward, Gate, AskGate,
         RecordCheckpoint, AddWorktree, CreateBranch, PrepareFails, InsertWorkspace,
         Block
<1>3. CASE EngineSteps(p)
  BY <1>3 DEF EngineSteps, Weigh, Refuse, SetState, RecordRun
<1>4. CASE RemoveSteps(p)
  BY <1>4 DEF RemoveSteps, RemoveTree, RemoveFails, MarkRemoved
<1>5. CASE Fault(p)
  BY <1>5 DEF Fault
<1> QED BY <1>1, <1>2, <1>3, <1>4, <1>5 DEF Step

(* So the task of a prepare in progress stays, and is the one its engine   *)
(* calls are about.                                                        *)
OwnAsks ==
    \A p \in Procs :
        pc[p] \in EnginePc /\ ask[p].why # "command" => ask[p].task = TaskOf(p)

LEMMA TaskStays ==
    ASSUME Typed, PathInv, NEW p \in Procs, Step(p), NEW q \in Procs,
           InPrepare(q) \/ pc[q] \in RemovePc, call'[q] = call[q]
    PROVE  TaskOf(q)' = TaskOf(q)
  BY EvidenceGrows DEF TaskOf, Typed, TypeOK

LEMMA NextOwnAsks == Typed /\ PathInv /\ OwnAsks /\ [Next]_vars => OwnAsks'
<1> SUFFICES ASSUME Typed, PathInv, OwnAsks, [Next]_vars PROVE OwnAsks'
  OBVIOUS
<1>0. CASE UNCHANGED vars
  BY <1>0 DEF vars, OwnAsks, TaskOf
<1> SUFFICES ASSUME NEW p \in Procs, Step(p), NEW q \in Procs,
                    pc'[q] \in EnginePc, ask'[q].why # "command"
             PROVE  ask'[q].task = TaskOf(q)'
  BY <1>0 DEF Next, Step, OwnAsks
<1>1. CASE q # p
  <2>1. pc'[q] = pc[q] /\ call'[q] = call[q] /\ ask'[q] = ask[q]
    BY <1>1, OthersStay
  <2> QED BY <2>1, TaskStays DEF OwnAsks, InPrepare
<1>2. CASE q = p /\ (Weigh(p) \/ SetState(p))
  <2>1. call' = call /\ ask' = ask /\ pc[p] \in EnginePc
    BY <1>2 DEF Weigh, SetState, Goto, EnginePc
  <2> QED BY <1>2, <2>1, TaskStays DEF OwnAsks, InPrepare
<1>3. CASE q = p /\ (AdvancePhase(p) \/ AskGate(p) \/ Block(p))
  <2>1. call' = call /\ pathTask' = pathTask /\ ask'[p].task = TaskOf(p)
    BY <1>3 DEF AdvancePhase, AskGate, Block, Ask, Typed, TypeOK
  <2> QED BY <1>3, <2>1 DEF TaskOf
<1>4. CASE q = p /\ \E t \in Tasks, target \in Targets : Advance(p, t, target)
  BY <1>4 DEF Advance, Ask, Typed, TypeOK
<1>5. CASE /\ q = p /\ ~Weigh(p) /\ ~SetState(p)
           /\ ~AdvancePhase(p) /\ ~AskGate(p) /\ ~Block(p)
           /\ ~ \E t \in Tasks, target \in Targets : Advance(p, t, target)
  <2> USE DEF EnginePc, Goto, Return, Typed, TypeOK
  <2>1. CASE Command(p)
    BY <1>5, <2>1 DEF Command, ApprovePlan, BeginPrepare, BeginRemove
  <2>2. CASE PrepareSteps(p)
    BY <1>5, <2>2
       DEF PrepareSteps, Look, NoWayForward, Gate, RecordCheckpoint, AddWorktree,
           CreateBranch, PrepareFails, InsertWorkspace
  <2>3. CASE EngineSteps(p)
    BY <1>5, <2>3, AnswerGoes DEF EngineSteps, Refuse, RecordRun, Answer
  <2>4. CASE RemoveSteps(p)
    BY <1>5, <2>4 DEF RemoveSteps, RemoveTree, RemoveFails, MarkRemoved
  <2>5. CASE Fault(p)
    BY <1>5, <2>5 DEF Fault
  <2> QED BY <2>1, <2>2, <2>3, <2>4, <2>5 DEF Step
<1> QED BY <1>1, <1>2, <1>3, <1>4, <1>5

-----------------------------------------------------------------------------
(* Nothing is built and no gate is passed before its evidence: what was    *)
(* read still holds when git or setState runs, because it only ever grows. *)

LEMMA OneWayThrough ==
    ASSUME NEW from, NEW to, CanTransition(from, to)
    PROVE  /\ to \in BehindPlanApproval /\ to # "PREPARING_WORKSPACE"
                => from \in BehindPlanApproval
           /\ to \in BehindCheckpoint /\ to # "IMPLEMENTING"
                => from \in BehindCheckpoint
           /\ to \in BehindFinalApproval /\ to # "APPROVED"
                => from \in BehindFinalApproval
  BY DEF CanTransition, Transitions, HappyPath, ExitEdges, OpenStates, FailureExits,
         BehindPlanApproval, BehindCheckpoint, BehindFinalApproval

(* The guard lets a task only where its evidence clears it, if it was      *)
(* cleared for the state the guard was told of.                            *)
LEMMA GuardClears ==
    ASSUME NEW t \in Tasks, NEW from, NEW to, Cleared(t, from),
           GuardTransition(from, to, Context(t))
    PROVE  Cleared(t, to)
<1>1. /\ CanTransition(from, to)
      /\ to = "PREPARING_WORKSPACE" => Approved(t)
      /\ to = "IMPLEMENTING" => t \in checkpointed
      /\ to = "APPROVED" => risk[t] = "low"
      /\ to # "MERGED"
  BY DEF GuardTransition, PlanGate, CheckpointGate, FinalGate, MergeGate, Context,
         Approved
<1>2. to \in BehindPlanApproval => Approved(t)
  BY <1>1, OneWayThrough DEF Cleared
<1>3. to \in BehindCheckpoint => t \in checkpointed
  BY <1>1, OneWayThrough DEF Cleared
<1>4. to \in BehindFinalApproval => risk[t] = "low"
  BY <1>1, OneWayThrough DEF Cleared
<1> QED BY <1>1, <1>2, <1>3, <1>4 DEF Cleared

PastGate == {"project", "add", "branch", "insert"}

PastCheckpoint == {"add", "branch", "insert"}

(* A process beyond the gate or the checkpoint saw it for its task, and an *)
(* engine call was cleared for what it read and for what it will write.    *)
GateInv(p) ==
    /\ pc[p] \in PastGate => Approved(TaskOf(p))
    /\ pc[p] \in PastCheckpoint => TaskOf(p) \in checkpointed
    /\ pc[p] \in EnginePc => Cleared(ask[p].task, ask[p].from)
    /\ pc[p] \in {"move", "record"} => Cleared(ask[p].task, ask[p].to)

GatesInv == GatesKept /\ \A p \in Procs : GateInv(p)

LEMMA NextGatesKept ==
    ASSUME Typed, PathInv, GatesInv, NEW p \in Procs, Step(p) PROVE GatesKept'
<1> SUFFICES ASSUME NEW t \in Tasks PROVE Cleared(t, state[t])'
  BY DEF GatesKept
<1>1. CASE SetState(p)
  <2>1. state'[t] = state[t] \/ (t = ask[p].task /\ state'[t] = ask[p].to)
    BY <1>1 DEF SetState, Typed, TypeOK
  <2>2. Cleared(ask[p].task, ask[p].to)
    BY <1>1 DEF SetState, Goto, GatesInv, GateInv
  <2>3. Cleared(t, state'[t])
    BY <2>1, <2>2 DEF GatesInv, GatesKept
  <2>4. risk' = risk /\ planApproved' = planApproved /\ checkpointed' = checkpointed
    BY <1>1 DEF SetState
  <2> QED BY <2>3, <2>4 DEF Cleared, Approved
<1>2. CASE ~SetState(p)
  <2>1. state' = state
    BY <1>2
       DEF Step, Command, PrepareSteps, EngineSteps, RemoveSteps, Fault, engineVars,
           Advance, Ask, ApprovePlan, BeginPrepare, BeginRemove, Look, AdvancePhase,
           NoWayForward, Gate, AskGate, RecordCheckpoint, AddWorktree, CreateBranch,
           PrepareFails, InsertWorkspace, Block, Weigh, Refuse, RecordRun,
           RemoveTree, RemoveFails, MarkRemoved
  <2>2. Cleared(t, state[t])
    BY DEF GatesInv, GatesKept
  <2> QED BY <2>1, <2>2, EvidenceGrows DEF Cleared, Approved
<1> QED BY <1>1, <1>2

(* The step of the process itself.                                         *)
LEMMA OwnGateInv ==
    ASSUME Typed, PathInv, OwnAsks, GatesInv, NEW p \in Procs, Step(p)
    PROVE  GateInv(p)'
<1> USE DEF PastGate, PastCheckpoint, EnginePc, Goto, Return, Typed, TypeOK
<1>a. pc' \in [Procs -> {"idle"} \cup PreparePc \cup RemovePc \cup EnginePc]
  BY NextTyped DEF Next, Step
<1>b. \A t \in Tasks : Cleared(t, state[t])
  BY DEF GatesInv, GatesKept
<1>c. GateInv(p)
  BY DEF GatesInv
<1>d. /\ risk' = risk /\ planApproved \subseteq planApproved'
      /\ checkpointed \subseteq checkpointed'
  BY EvidenceGrows
<1>1. ASSUME NEW here, NEW t \in Tasks, NEW to, NEW why, Ask(p, here, t, to, why)
      PROVE  GateInv(p)'
  <2>1. pc'[p] = "weigh" /\ ask'[p].task = t /\ ask'[p].from = state[t]
    BY <1>1 DEF Ask
  <2>2. Cleared(t, state[t])'
    BY <1>1, <1>b DEF Ask, engineVars, Cleared, Approved
  <2>3. state' = state
    BY <1>1 DEF Ask, engineVars
  <2>4. Cleared(ask[p].task, ask[p].from)'
    BY <2>1, <2>2, <2>3 DEF Cleared, Approved
  <2> QED BY <2>1, <2>4 DEF GateInv
<1>2. CASE \/ \E t \in Tasks, target \in Targets : Advance(p, t, target)
           \/ AdvancePhase(p) \/ AskGate(p) \/ Block(p)
  <2>1. AdvancePhase(p) \/ AskGate(p) \/ Block(p) => TaskOf(p) \in Tasks
    BY TaskOfType DEF AdvancePhase, AskGate, Block, Ask, InPrepare, PreparePc
  <2> QED BY <1>1, <1>2, <2>1 DEF Advance, AdvancePhase, AskGate, Block
<1>3. CASE Weigh(p)
  <2>1. /\ ask' = ask /\ pc[p] = "weigh" /\ pc'[p] = "move" /\ Verdict(p)
        /\ ask[p].task \in Tasks
        /\ risk' = risk /\ planApproved' = planApproved /\ checkpointed' = checkpointed
    BY <1>3 DEF Weigh, engineVars
  <2>2. Cleared(ask[p].task, ask[p].from)
    BY <1>c, <2>1 DEF GateInv
  <2>3. Cleared(ask[p].task, ask[p].to)
    BY <2>1, <2>2, GuardClears DEF Verdict
  <2> QED BY <2>1, <2>2, <2>3 DEF GateInv, Cleared, Approved
<1>4. CASE SetState(p)
  <2>1. /\ ask' = ask /\ pc[p] = "move" /\ pc'[p] = "record"
        /\ risk' = risk /\ planApproved' = planApproved /\ checkpointed' = checkpointed
    BY <1>4 DEF SetState
  <2> QED BY <1>c, <2>1 DEF GateInv, Cleared, Approved
<1>5. CASE Refuse(p)
  <2>1. pc'[p] \in {"idle", "block"}
    BY <1>5, AnswerGoes DEF Refuse, Answer
  <2> QED BY <2>1 DEF GateInv
<1>6. CASE RecordRun(p)
  <2>1. /\ pc[p] = "record" /\ pc'[p] = Allowed[ask[p].why]
        /\ pc'[p] \in {"idle", "look", "project"}
        /\ pc'[p] = "project" => ask[p].why = "gate"
    BY <1>6, AnswerGoes DEF RecordRun, Answer
  <2>2. CASE pc'[p] # "project"
    BY <2>1, <2>2 DEF GateInv
  <2>3. CASE pc'[p] = "project"
    <3>1. ask[p].to = "PREPARING_WORKSPACE" /\ ask[p].task = TaskOf(p)
      BY <2>1, <2>3 DEF AsksForCaller, OwnAsks
    <3>2. Approved(TaskOf(p))
      BY <1>c, <2>1, <3>1 DEF GateInv, Cleared, BehindPlanApproval
    <3>3. TaskOf(p)' = TaskOf(p)
      BY <1>6, <2>1, <2>3 DEF RecordRun, Answer, TaskOf
    <3> QED BY <1>d, <2>3, <3>2, <3>3 DEF GateInv, Approved
  <2> QED BY <2>2, <2>3
<1>7. CASE Gate(p)
  <2>1. TaskOf(p) \in Tasks /\ pc[p] = "gate" /\ call' = call /\ pathTask' = pathTask
    BY <1>7, TaskOfType DEF Gate, InPrepare, PreparePc
  <2>2. pc'[p] \in {"project", "open"}
        /\ (pc'[p] = "project" => state[TaskOf(p)] = "PREPARING_WORKSPACE")
    BY <1>7 DEF Gate
  <2>3. pc'[p] = "project" => Approved(TaskOf(p))
    BY <1>b, <2>1, <2>2 DEF Cleared, BehindPlanApproval
  <2> QED BY <1>d, <2>1, <2>2, <2>3 DEF GateInv, Approved, TaskOf
<1>8. CASE RecordCheckpoint(p) \/ AddWorktree(p) \/ CreateBranch(p)
  <2>1. /\ pc[p] \in {"project", "add", "branch"} /\ pc'[p] \in {"add", "branch", "insert"}
        /\ call' = call /\ pathTask' = pathTask
        /\ pc[p] # "project" => TaskOf(p) \in checkpointed
        /\ pc[p] = "project" => checkpointed' = checkpointed \cup {TaskOf(p)}
    BY <1>8, <1>c DEF RecordCheckpoint, AddWorktree, CreateBranch, GateInv
  <2>2. Approved(TaskOf(p))
    BY <1>c, <2>1 DEF GateInv
  <2>3. TaskOf(p)' = TaskOf(p) /\ TaskOf(p) \in checkpointed'
    BY <1>d, <2>1 DEF TaskOf
  <2> QED BY <1>d, <2>1, <2>2, <2>3 DEF GateInv, Approved
(* Every other step leaves the process before the gate.                    *)
<1>9. CASE /\ ~ \E t \in Tasks, target \in Targets : Advance(p, t, target)
           /\ ~AdvancePhase(p) /\ ~AskGate(p) /\ ~Block(p)
           /\ ~Weigh(p) /\ ~SetState(p) /\ ~Refuse(p) /\ ~RecordRun(p)
           /\ ~Gate(p) /\ ~RecordCheckpoint(p) /\ ~AddWorktree(p) /\ ~CreateBranch(p)
  <2>1. CASE Command(p)
    <3>1. CASE \E t \in Tasks : ApprovePlan(p, t)
      BY <3>1 DEF ApprovePlan, GateInv
    <3>2. CASE ~ \E t \in Tasks : ApprovePlan(p, t)
      <4>1. pc'[p] \in {"look", "removeTree"}
        BY <1>9, <2>1, <3>2 DEF Command, BeginPrepare, BeginRemove
      <4> QED BY <4>1 DEF GateInv
    <3> QED BY <3>1, <3>2
  <2>2. CASE PrepareSteps(p)
    <3>1. pc'[p] \in {"gate", "advance", "block", "idle"}
      BY <1>9, <2>2 DEF PrepareSteps, Look, NoWayForward, PrepareFails, InsertWorkspace
    <3> QED BY <3>1 DEF GateInv
  <2>3. CASE EngineSteps(p)
    BY <1>9, <2>3 DEF EngineSteps
  <2>4. CASE RemoveSteps(p) \/ Fault(p)
    <3>1. pc'[p] \in {"mark", "idle"}
      BY <2>4 DEF RemoveSteps, RemoveTree, RemoveFails, MarkRemoved, Fault
    <3> QED BY <3>1 DEF GateInv
  <2> QED BY <2>1, <2>2, <2>3, <2>4 DEF Step
<1> QED BY <1>2, <1>3, <1>4, <1>5, <1>6, <1>7, <1>8, <1>9

LEMMA NextGates ==
    Typed /\ PathInv /\ OwnAsks /\ GatesInv /\ [Next]_vars => GatesInv'
<1> SUFFICES ASSUME Typed, PathInv, OwnAsks, GatesInv, [Next]_vars PROVE GatesInv'
  OBVIOUS
<1>0. CASE UNCHANGED vars
  BY <1>0 DEF vars, engineVars, GatesInv, GatesKept, GateInv, Cleared, Approved, TaskOf
<1> SUFFICES ASSUME NEW p \in Procs, Step(p), NEW q \in Procs PROVE GateInv(q)'
  BY <1>0, NextGatesKept DEF Next, Step, GatesInv
<1>1. CASE q = p
  BY <1>1, OwnGateInv
<1>2. CASE q # p
  <2>1. pc'[q] = pc[q] /\ call'[q] = call[q] /\ ask'[q] = ask[q]
    BY <1>2, OthersStay
  <2>2. GateInv(q)
    BY DEF GatesInv
  <2>3. pc[q] \in PastGate => TaskOf(q)' = TaskOf(q)
    BY <2>1, TaskStays DEF PastGate, InPrepare, PreparePc
  <2>4. PastCheckpoint \subseteq PastGate
    BY DEF PastCheckpoint, PastGate
  <2> QED BY <2>1, <2>2, <2>3, <2>4, EvidenceGrows DEF GateInv, Cleared, Approved
<1> QED BY <1>1, <1>2

(* A worktree is only ever added past the checkpoint.                      *)
LEMMA NextTree ==
    Typed /\ PathInv /\ GatesInv /\ TreesAfterApproval /\ [Next]_vars
      => TreesAfterApproval'
<1> SUFFICES ASSUME Typed, PathInv, GatesInv, TreesAfterApproval, [Next]_vars
             PROVE  TreesAfterApproval'
  OBVIOUS
<1>0. CASE UNCHANGED vars
  BY <1>0 DEF vars, engineVars, gitVars, TreesAfterApproval, OnDisk
<1> SUFFICES ASSUME NEW p \in Procs, Step(p), NEW w \in Paths, OnDisk(w)'
             PROVE  /\ pathTask'[w] \in planApproved' \/ risk'[pathTask'[w]] = "low"
                    /\ pathTask'[w] \in checkpointed'
  BY <1>0 DEF Next, Step, TreesAfterApproval
<1>1. OnDisk(w) \/ (w = call[p] /\ pc[p] \in PastCheckpoint)
  <2>1. CASE AddWorktree(p) \/ CreateBranch(p)
    BY <2>1 DEF AddWorktree, CreateBranch, Goto, PastCheckpoint, OnDisk, Typed, TypeOK
  <2>2. CASE RemoveTree(p)
    BY <2>2 DEF RemoveTree, OnDisk, Typed, TypeOK
  <2>3. CASE ~AddWorktree(p) /\ ~CreateBranch(p) /\ ~RemoveTree(p)
    <3>1. tree' = tree
      BY <2>3
         DEF Step, Command, PrepareSteps, EngineSteps, RemoveSteps, Fault, gitVars,
             Advance, Ask, Answer, ApprovePlan, BeginPrepare, BeginRemove, Look,
             AdvancePhase, NoWayForward, Gate, AskGate, RecordCheckpoint,
             PrepareFails, InsertWorkspace, Block, Weigh, Refuse, SetState,
             RecordRun, RemoveFails, MarkRemoved
    <3> QED BY <3>1 DEF OnDisk
  <2> QED BY <2>1, <2>2, <2>3
<1>2. CASE OnDisk(w)
  <2>1. pathTask[w] # None
    BY <1>2, WorkspaceAssumption DEF TreesAfterApproval, Typed, TypeOK
  <2> QED BY <1>2, <2>1, EvidenceGrows DEF TreesAfterApproval
<1>3. CASE w = call[p] /\ pc[p] \in PastCheckpoint
  <2>1. pathTask[w] # None /\ pathTask[w] = TaskOf(p)
    BY <1>3 DEF Typed, TypeOK, InPrepare, PastCheckpoint, PreparePc, TaskOf
  <2>2. Approved(TaskOf(p)) /\ TaskOf(p) \in checkpointed
    BY <1>3 DEF GatesInv, GateInv, PastCheckpoint, PastGate
  <2> QED BY <2>1, <2>2, EvidenceGrows DEF Approved
<1> QED BY <1>1, <1>2, <1>3

(* One workspace per task is the uniqueness of the branch: who has a row   *)
(* or is on the branch has it.                                             *)
LEMMA BranchUnique == BranchInv => OneWorkspacePerTask
  BY DEF BranchInv, HasBranch, OneWorkspacePerTask

WorkspaceInv ==
    /\ Typed /\ PathInv /\ BranchInv /\ RowInv
    /\ OwnAsks /\ GatesInv /\ TreesAfterApproval

LEMMA WorkspaceInvInductive == Spec => []WorkspaceInv
<1>1. Init => Typed
  BY InitType DEF Init, Typed, RowsOwned, AsksForCaller, EnginePc
<1>2. Init => PathInv
  BY WorkspaceAssumption
     DEF Init, PathInv, FreshPaths, OwnPaths, InPrepare, PreparePc, RemovePc, EnginePc,
         Paths
<1>3. Init => BranchInv /\ RowInv
  BY DEF Init, BranchInv, HasBranch, RowInv, RowsMatchTrees
<1>4. Init => OwnAsks /\ TreesAfterApproval
  BY DEF Init, OwnAsks, EnginePc, TreesAfterApproval, OnDisk
<1>5. Init => GatesInv
  BY DEF Init, GatesInv, GatesKept, GateInv, PastGate, PastCheckpoint, EnginePc, Cleared,
         BehindPlanApproval, BehindCheckpoint, BehindFinalApproval
<1> QED
  BY <1>1, <1>2, <1>3, <1>4, <1>5, NextTyped, NextPath, NextBranch, NextRow,
     NextOwnAsks, NextGates, NextTree, PTL
     DEF Spec, WorkspaceInv

(* However many processes prepare one task, whatever fails and whoever     *)
(* dies: git holds back all but one.                                       *)
THEOREM OneWorkspace == Spec => []OneWorkspacePerTask
<1>1. WorkspaceInv => OneWorkspacePerTask
  BY BranchUnique DEF WorkspaceInv
<1> QED BY <1>1, WorkspaceInvInductive, PTL

(* No interleaving builds a worktree for a task that was not approved and  *)
(* checkpointed.                                                           *)
THEOREM TreesApproved == Spec => []TreesAfterApproval
<1>1. WorkspaceInv => TreesAfterApproval
  BY DEF WorkspaceInv
<1> QED BY <1>1, WorkspaceInvInductive, PTL

(* As long as no process dies, rows and worktrees agree, for any number of *)
(* processes.                                                              *)
THEOREM RowsAgree == Spec => []RowsMatchTrees
<1>1. WorkspaceInv => RowsMatchTrees
  BY DEF WorkspaceInv, RowInv
<1> QED BY <1>1, WorkspaceInvInductive, PTL

(* However prepares, removes and commands of any number of processes       *)
(* cross, statement by statement, and whoever dies, no task is behind the  *)
(* plan gate unapproved, behind the checkpoint gate without a checkpoint   *)
(* or merged.                                                              *)
THEOREM ServiceKeepsGates == Spec => []GatesKept
<1>1. WorkspaceInv => GatesKept
  BY DEF WorkspaceInv, GatesInv
<1> QED BY <1>1, WorkspaceInvInductive, PTL

-----------------------------------------------------------------------------
(* One process at a time: what prepare and the engine have read of a       *)
(* task's state is still so when they act on it.                           *)

Alone == \A p, q \in Procs : p = q

AtGate(p) ==
    /\ pc[p] = "gate" =>
         state[TaskOf(p)] \in {"WAITING_APPROVAL", "PREPARING_WORKSPACE"}
    /\ pc[p] = "open" => state[TaskOf(p)] = "WAITING_APPROVAL"

UpToDate(p) ==
    /\ pc[p] \in {"weigh", "move"} => state[ask[p].task] = ask[p].from
    /\ pc[p] = "record" => state[ask[p].task] = ask[p].to
    /\ pc[p] = "move" => Verdict(p)
    /\ pc[p] \in EnginePc /\ ask[p].why = "gate" => ask[p].from = "WAITING_APPROVAL"

Current == \A p \in Procs : AtGate(p) /\ UpToDate(p)

LEMMA AskIsCurrent ==
    ASSUME Typed, NEW p \in Procs, NEW here, NEW t \in Tasks, NEW to, NEW why,
           Ask(p, here, t, to, why), why = "gate" => state[t] = "WAITING_APPROVAL"
    PROVE  AtGate(p)' /\ UpToDate(p)'
<1>1. /\ pc'[p] = "weigh" /\ state' = state
      /\ ask'[p].task = t /\ ask'[p].from = state[t] /\ ask'[p].why = why
  BY DEF Ask, Goto, engineVars, Typed, TypeOK
<1> QED BY <1>1 DEF AtGate, UpToDate

LEMMA OwnCurrent ==
    ASSUME Typed, Current, NEW p \in Procs, Step(p)
    PROVE  AtGate(p)' /\ UpToDate(p)'
<1> USE DEF EnginePc, Goto, Return, Typed, TypeOK, engineVars
<1>a. AtGate(p) /\ UpToDate(p)
  BY DEF Current
<1>1. CASE \/ \E t \in Tasks, target \in Targets : Advance(p, t, target)
           \/ AdvancePhase(p) \/ AskGate(p) \/ Block(p)
  <2>1. AdvancePhase(p) \/ AskGate(p) \/ Block(p) => TaskOf(p) \in Tasks
    BY TaskOfType DEF AdvancePhase, AskGate, Block, Ask, InPrepare, PreparePc
  <2>2. AskGate(p) => state[TaskOf(p)] = "WAITING_APPROVAL"
    BY <1>a DEF AskGate, Ask, AtGate
  <2> QED BY <1>1, <2>1, <2>2, AskIsCurrent DEF Advance, AdvancePhase, AskGate, Block
<1>2. CASE Weigh(p)
  <2>1. /\ pc[p] = "weigh" /\ pc'[p] = "move" /\ Verdict(p)
        /\ UNCHANGED <<state, risk, planApproved, checkpointed, fixRuns, ask>>
    BY <1>2 DEF Weigh
  <2>2. Verdict(p)'
    BY <2>1 DEF Verdict, Context
  <2> QED BY <1>a, <2>1, <2>2 DEF AtGate, UpToDate
<1>3. CASE SetState(p)
  <2>1. /\ pc[p] = "move" /\ pc'[p] = "record" /\ ask' = ask
        /\ ask[p].task \in Tasks /\ state'[ask[p].task] = ask[p].to
    BY <1>3 DEF SetState
  <2> QED BY <1>a, <2>1 DEF AtGate, UpToDate
<1>4. CASE Refuse(p) \/ RecordRun(p)
  <2>1. pc'[p] \in {"idle", "block", "look", "project"}
    BY <1>4, AnswerGoes DEF Refuse, RecordRun, Answer
  <2> QED BY <2>1 DEF AtGate, UpToDate
<1>5. CASE Look(p) \/ Gate(p)
  <2>1. /\ state' = state /\ TaskOf(p)' = TaskOf(p) /\ TaskOf(p) \in Tasks
        /\ pc'[p] \in {"gate", "advance", "block", "project", "open"}
        /\ pc'[p] = "gate" =>
             state[TaskOf(p)] \in {"WAITING_APPROVAL", "PREPARING_WORKSPACE"}
        /\ pc'[p] = "open" => pc[p] = "gate" /\ state[TaskOf(p)] # "PREPARING_WORKSPACE"
    BY <1>5, TaskOfType DEF Look, Gate, TaskOf, InPrepare, PreparePc
  <2> QED BY <1>a, <2>1 DEF AtGate, UpToDate
(* Every other step leaves the process where nothing has been read.        *)
<1>6. CASE /\ ~ \E t \in Tasks, target \in Targets : Advance(p, t, target)
           /\ ~AdvancePhase(p) /\ ~AskGate(p) /\ ~Block(p)
           /\ ~EngineSteps(p) /\ ~Look(p) /\ ~Gate(p)
  <2>1. pc'[p] \notin {"gate", "open"} \cup EnginePc
    BY <1>6
       DEF Step, Command, PrepareSteps, RemoveSteps, Fault, ApprovePlan, BeginPrepare,
           BeginRemove, NoWayForward, RecordCheckpoint, AddWorktree, CreateBranch,
           PrepareFails, InsertWorkspace, RemoveTree, RemoveFails, MarkRemoved
  <2> QED BY <2>1 DEF AtGate, UpToDate
<1> QED BY <1>1, <1>2, <1>3, <1>4, <1>5, <1>6 DEF EngineSteps

LEMMA NextCurrent ==
    ASSUME Alone PROVE Typed /\ Current /\ [Next]_vars => Current'
<1> SUFFICES ASSUME Typed, Current, [Next]_vars PROVE Current'
  OBVIOUS
<1>0. CASE UNCHANGED vars
  BY <1>0 DEF vars, engineVars, Current, AtGate, UpToDate, TaskOf, Verdict, Context
<1> SUFFICES ASSUME NEW p \in Procs, Step(p) PROVE Current'
  BY <1>0 DEF Next, Step
<1> QED BY OwnCurrent DEF Alone, Current

(* block() works on every task that is not closed.                         *)
LEMMA BlockWorks ==
    ASSUME NEW t \in Tasks, NEW from \in State,
           ~GuardTransition(from, "BLOCKED", Context(t))
    PROVE  from \in TerminalStates
<1>1. CASE from \in OpenStates
  <2>1. <<from, "BLOCKED">> \in Transitions
    BY <1>1 DEF Transitions, ExitEdges, FailureExits
  <2> QED BY <2>1 DEF GuardTransition, CanTransition, PlanGate, CheckpointGate, RetryGate,
                   FinalGate, MergeGate
<1> QED BY <1>1 DEF State

LEMMA StopStep ==
    ASSUME Typed, PathInv, OwnAsks, Current, NEW p \in Procs, Step(p),
           InPrepare(p), pc'[p] = "idle", faults' = faults, rows' = rows
    PROVE  state'[TaskOf(p)]
             \in {"WAITING_APPROVAL", "BLOCKED"} \cup TerminalStates
<1> USE DEF Goto, Return, PreparePc, RemovePc, EnginePc, InPrepare
<1>a. /\ pc \in [Procs -> {"idle"} \cup PreparePc \cup RemovePc \cup EnginePc]
      /\ faults \in Nat /\ ask[p].why \in Callers
  BY WorkspaceAssumption DEF Typed, TypeOK
<1>b. UpToDate(p)
  BY DEF Current
<1>1. CASE Refuse(p)
  <2>1. /\ pc[p] = "weigh" /\ ask[p].task = TaskOf(p) /\ ask[p].why # "command"
        /\ ask[p].why # "phase" /\ state' = state /\ ~Verdict(p)
    BY <1>1, <1>a, DenialBlocks DEF Refuse, Answer, OwnAsks
  <2>2. state[TaskOf(p)] = ask[p].from /\ ask[p].from \in State /\ ask[p].task \in Tasks
    BY <1>b, <2>1 DEF UpToDate, Typed, TypeOK
  <2>3. CASE ask[p].why = "gate"
    BY <1>b, <2>1, <2>2, <2>3 DEF UpToDate
  <2>4. CASE ask[p].why = "block"
    <3>1. ask[p].to = "BLOCKED"
      BY <2>1, <2>4 DEF Typed, AsksForCaller
    <3> QED BY <2>1, <2>2, <3>1, BlockWorks DEF Verdict
  <2> QED BY <1>a, <2>1, <2>3, <2>4 DEF Callers
<1>2. CASE RecordRun(p)
  <2>1. /\ pc[p] = "record" /\ ask[p].task = TaskOf(p) /\ ask[p].why = "block"
        /\ state' = state
    BY <1>2, <1>a, DenialBlocks DEF RecordRun, Answer, OwnAsks
  <2>2. state[TaskOf(p)] = "BLOCKED"
    BY <1>b, <2>1 DEF UpToDate, Typed, AsksForCaller
  <2> QED BY <2>1, <2>2
<1>3. CASE InsertWorkspace(p)
  BY <1>3 DEF InsertWorkspace, PathInv, OwnPaths, Typed, TypeOK
(* The other steps end no prepare, or are faults.                          *)
<1>4. CASE ~Refuse(p) /\ ~RecordRun(p) /\ ~InsertWorkspace(p)
  <2>1. CASE Command(p)
    BY <1>a, <2>1 DEF Command, Advance, Ask, ApprovePlan, BeginPrepare, BeginRemove
  <2>2. CASE PrepareSteps(p)
    BY <1>4, <1>a, <2>2
       DEF PrepareSteps, Look, AdvancePhase, NoWayForward, Gate, AskGate, Ask,
           RecordCheckpoint, AddWorktree, CreateBranch, PrepareFails, Block
  <2>3. CASE EngineSteps(p)
    BY <1>4, <1>a, <2>3 DEF EngineSteps, Weigh, SetState
  <2>4. CASE RemoveSteps(p)
    BY <1>a, <2>4 DEF RemoveSteps, RemoveTree, RemoveFails, MarkRemoved
  <2>5. CASE Fault(p)
    BY <1>a, <2>5 DEF Fault
  <2> QED BY <2>1, <2>2, <2>3, <2>4, <2>5 DEF Step
<1> QED BY <1>1, <1>2, <1>3, <1>4

(* With one process at a time a prepare that gives no workspace leaves its *)
(* task at the gate, blocked or closed, whichever read or command failed.  *)
THEOREM PrepareStops == ASSUME Alone PROVE Spec => FailedPrepareStops
<1>1. Init => Current
  BY DEF Init, Current, AtGate, UpToDate, EnginePc
<1>2. Typed /\ PathInv /\ OwnAsks /\ Current /\ [Next]_vars
        => [\A p \in Procs :
              /\ InPrepare(p)
              /\ pc'[p] = "idle"
              /\ faults' = faults
              /\ rows' = rows
              => state'[TaskOf(p)]
                   \in {"WAITING_APPROVAL", "BLOCKED"} \cup TerminalStates]_vars
  <2> SUFFICES ASSUME Typed, PathInv, OwnAsks, Current, NEW p \in Procs, Step(p),
                      NEW q \in Procs, InPrepare(q), pc'[q] = "idle",
                      faults' = faults, rows' = rows
               PROVE  state'[TaskOf(q)]
                        \in {"WAITING_APPROVAL", "BLOCKED"} \cup TerminalStates
    BY DEF Next, Step
  <2> QED BY StopStep DEF Alone
<1>3. Spec => [](Typed /\ PathInv /\ OwnAsks)
  BY WorkspaceInvInductive, PTL DEF WorkspaceInv
<1>4. Spec => []Current
  BY <1>1, <1>3, NextCurrent, PTL DEF Spec
<1> QED BY <1>2, <1>3, <1>4, PTL DEF Spec, FailedPrepareStops

-----------------------------------------------------------------------------
(* The loop of prepare: every forward edge leads nearer to the end.        *)

LEMMA ForwardIsNearer ==
    ASSUME NEW from \in State, NextHappyPath(from) # None
    PROVE  /\ NextHappyPath(from) \in State
           /\ ToGo[NextHappyPath(from)] < ToGo[from]
<1>1. PICK to \in State \ {"FIXING"} :
        <<from, to>> \in HappyPath /\ NextHappyPath(from) = to
  BY Zenon DEF NextHappyPath
<1>2. ToGo[to] < ToGo[from]
  BY <1>1 DEF HappyPath, ToGo
<1> QED BY <1>1, <1>2

LEMMA ToGoType == \A s \in State : ToGo[s] \in Nat
  BY DEF ToGo, State, OpenStates, TerminalStates

(* The measure, place by place.                                            *)
LEMMA LeftOutside ==
    ASSUME NEW here, NEW why, NEW to, NEW now
    PROVE  /\ here \in DOMAIN Statements \ {"look", "advance"}
                => Left(here, why, to, now) = Statements[here] + 0
           /\ here = "look" => Left(here, why, to, now) = 14 + 5 * ToGo[now]
           /\ here = "advance" => Left(here, why, to, now) = 13 + 5 * ToGo[now]
<1> USE DEF Statements, EnginePc
<1>1. CASE here \in DOMAIN Statements \ {"look", "advance"}
  <2>1. here \notin EnginePc /\ here \notin {"look", "advance"}
    BY <1>1
  <2> HIDE DEF Statements, EnginePc
  <2> QED BY <1>1, <2>1 DEF Left
<1>2. CASE here = "look"
  <2>1. Statements["look"] = 14
    OBVIOUS
  <2> QED BY <1>2, <2>1, Zenon DEF Left
<1>3. CASE here = "advance"
  <2>1. Statements["advance"] = 13
    OBVIOUS
  <2> QED BY <1>3, <2>1, Zenon DEF Left
<1> QED BY <1>1, <1>2, <1>3

LEMMA LeftInside ==
    ASSUME NEW here \in EnginePc, NEW why, NEW to, NEW now
    PROVE  /\ why # "phase"
                => Left(here, why, to, now) = InEngine[here] + Statements[Allowed[why]] + 0
           /\ why = "phase" /\ here = "weigh"
                => Left(here, why, to, now) = 3 + 14 + 5 * ToGo[to]
           /\ why = "phase" /\ here = "move"
                => Left(here, why, to, now) = 2 + 14 + 5 * ToGo[to]
           /\ why = "phase" /\ here = "record"
                => Left(here, why, to, now) = 1 + 14 + 5 * ToGo[now]
<1>1. CASE why # "phase"
  <2>1. here \notin {"look", "advance"}
    BY DEF EnginePc
  <2> QED BY <1>1, <2>1, Zenon DEF Left
<1>2. CASE why = "phase"
  <2>1. /\ Statements[Allowed[why]] = 14
        /\ InEngine["weigh"] = 3 /\ InEngine["move"] = 2 /\ InEngine["record"] = 1
    BY <1>2 DEF Allowed, Statements, InEngine
  <2>2. CASE here = "weigh"
    BY <1>2, <2>1, <2>2 DEF Left
  <2>3. CASE here = "move"
    BY <1>2, <2>1, <2>3 DEF Left
  <2>4. CASE here = "record"
    <3>1. here \notin {"weigh", "move"}
      BY <2>4
    <3> QED BY <1>2, <2>1, <2>4, <3>1 DEF Left
  <2> QED BY <1>2, <2>2, <2>3, <2>4 DEF EnginePc
<1> QED BY <1>1, <1>2

LEMMA CallersLeft ==
    /\ \A why \in Callers \ {"phase"} :
         /\ Statements[Allowed[why]] \in Nat /\ Allowed[why] \in {"idle", "project"}
         /\ Denied[why] = "idle"
    /\ Denied["phase"] = "block" /\ Allowed["phase"] = "look"
    /\ Statements["idle"] = 0 /\ Statements["block"] = 4 /\ Statements["gate"] = 13
    /\ Statements["open"] = 12
    /\ Statements[Allowed["gate"]] = 8 /\ Statements[Allowed["block"]] = 0
    /\ {"idle", "project", "block", "gate", "open"} \subseteq
         DOMAIN Statements \ {"look", "advance"}
    /\ InEngine["weigh"] = 3 /\ InEngine["move"] = 2 /\ InEngine["record"] = 1
    /\ \A here \in DOMAIN Statements \ {"idle"} : Statements[here] \in Nat \ {0}
  BY DEF Callers, Allowed, Denied, Statements, InEngine

LEMMA LeftPositive ==
    ASSUME NEW here \in PreparePc \cup RemovePc \cup EnginePc, NEW why \in Callers,
           NEW to \in State, NEW now,
           here \in PreparePc \/ (here \in EnginePc /\ why = "phase") => now \in State
    PROVE  Left(here, why, to, now) \in Nat /\ Left(here, why, to, now) > 0
<1>1. ToGo[to] \in Nat
  BY ToGoType
<1>2. CASE here \in EnginePc /\ why # "phase"
  <2>1. Left(here, why, to, now) = InEngine[here] + Statements[Allowed[why]] + 0
    BY <1>2, LeftInside
  <2>2. InEngine[here] \in Nat /\ InEngine[here] > 0 /\ Statements[Allowed[why]] \in Nat
    BY <1>2, CallersLeft DEF EnginePc
  <2> QED BY <2>1, <2>2
<1>3. CASE here \in EnginePc /\ why = "phase"
  <2>1. ToGo[now] \in Nat
    BY <1>3, ToGoType
  <2> QED BY <1>1, <1>3, <2>1, LeftInside DEF EnginePc
<1>4. CASE here \in {"look", "advance"}
  <2>1. ToGo[now] \in Nat
    BY <1>4, ToGoType DEF PreparePc
  <2> QED BY <1>4, <2>1, LeftOutside
<1>5. CASE here \notin EnginePc \cup {"look", "advance"}
  <2>1. here \in DOMAIN Statements \ {"look", "advance", "idle"}
    BY <1>5 DEF Statements, PreparePc, RemovePc
  <2>2. Left(here, why, to, now) = Statements[here] + 0
    BY <2>1, LeftOutside
  <2>3. Statements[here] \in Nat \ {0}
    BY <2>1, CallersLeft
  <2> QED BY <2>2, <2>3
<1> QED BY <1>2, <1>3, <1>4, <1>5

(* Of the steps of a call only the answer to AdvancePhase leads back to    *)
(* the head of the loop, and it does so nearer to the end.                 *)
LEMMA OwnStepShrinks ==
    ASSUME Typed, PathInv, OwnAsks, NEW p \in Procs,
           PrepareSteps(p) \/ EngineSteps(p) \/ RemoveSteps(p) \/ Fault(p)
    PROVE  StepsLeft(p)' < StepsLeft(p)
<1> DEFINE here == pc[p]
           why == ask[p].why
           to == ask[p].to
           now == state[TaskOf(p)]
<1> USE DEF Goto, Return
<1>a. /\ pc \in [Procs -> {"idle"} \cup PreparePc \cup RemovePc \cup EnginePc]
      /\ here # "idle" /\ Step(p)
      /\ state \in [Tasks -> State] /\ to \in State /\ why \in Callers
      /\ ask[p].from \in State /\ DOMAIN ask = Procs
  BY DEF Typed, TypeOK, Step, PrepareSteps, EngineSteps, RemoveSteps, Fault, Look,
         AdvancePhase, NoWayForward, Gate, AskGate, Ask, Answer, RecordCheckpoint,
         AddWorktree, CreateBranch, PrepareFails, InsertWorkspace, Block, Weigh, Refuse,
         SetState, RecordRun, RemoveTree, RemoveFails, MarkRemoved
<1>b. InPrepare(p) => TaskOf(p) \in Tasks /\ now \in State /\ ToGo[now] \in Nat
  BY <1>a, TaskOfType, ToGoType DEF Typed
<1>c. ToGo[to] \in Nat
  BY <1>a, ToGoType
<1>d. /\ StepsLeft(p) = Left(here, why, to, now)
      /\ StepsLeft(p)' = Left(pc'[p], ask'[p].why, ask'[p].to, state'[TaskOf(p)'])
  BY DEF StepsLeft
<1>e. here \in EnginePc /\ why = "phase" => InPrepare(p) /\ ask[p].task = TaskOf(p)
  BY DEF InPrepare, OwnAsks
<1>f. here \in PreparePc => InPrepare(p)
  BY DEF InPrepare
<1> HIDE DEF here, why, to, now
<1>1. CASE Look(p)
  <2>1. /\ here = "look" /\ pc'[p] \in {"gate", "advance", "block"}
        /\ TaskOf(p)' = TaskOf(p) /\ state'[TaskOf(p)'] = now
    BY <1>1, <1>a DEF Look, TaskOf, engineVars, here, now
  <2>2. ToGo[now] \in Nat
    BY <1>b, <1>f, <2>1 DEF PreparePc
  <2>3. StepsLeft(p) = 14 + 5 * ToGo[now]
    BY <1>d, <2>1, LeftOutside
  <2>4. StepsLeft(p)' \in {13, 13 + 5 * ToGo[now], 4}
    BY <1>d, <2>1, LeftOutside, CallersLeft
  <2> QED BY <2>2, <2>3, <2>4
<1>2. CASE AdvancePhase(p)
  <2>1. /\ here = "advance" /\ pc'[p] = "weigh" /\ ask'[p].why = "phase"
        /\ ask'[p].to = NextHappyPath(now) /\ NextHappyPath(now) # None
    BY <1>2, <1>a DEF AdvancePhase, Ask, here, now
  <2>2. now \in State /\ ToGo[now] \in Nat
    BY <1>b, <1>f, <2>1 DEF PreparePc
  <2>3. ToGo[NextHappyPath(now)] \in Nat /\ ToGo[NextHappyPath(now)] < ToGo[now]
    BY <2>1, <2>2, ForwardIsNearer, ToGoType
  <2>4. StepsLeft(p) = 13 + 5 * ToGo[now]
    BY <1>d, <2>1, LeftOutside
  <2>5. StepsLeft(p)' = 3 + 14 + 5 * ToGo[NextHappyPath(now)]
    BY <1>d, <2>1, LeftInside DEF EnginePc
  <2> HIDE DEF StepsLeft
  <2> QED BY <2>2, <2>3, <2>4, <2>5
<1>3. CASE AskGate(p) \/ Block(p)
  <2>1. /\ pc'[p] = "weigh"
        /\ \/ here = "open" /\ ask'[p].why = "gate"
           \/ here = "block" /\ ask'[p].why = "block"
    BY <1>3, <1>a DEF AskGate, Block, Ask, here
  <2>2. StepsLeft(p) = Statements[here] + 0
    BY <1>d, <2>1, LeftOutside, CallersLeft
  <2>3. StepsLeft(p)' = 3 + Statements[Allowed[ask'[p].why]] + 0
    BY <1>d, <2>1, LeftInside, CallersLeft DEF EnginePc
  <2> QED BY <2>1, <2>2, <2>3, CallersLeft
<1>4. CASE NoWayForward(p)
  <2>1. here = "advance" /\ pc'[p] = "block"
    BY <1>4, <1>a DEF NoWayForward, here
  <2>2. StepsLeft(p)' = 4 /\ StepsLeft(p) = 13 + 5 * ToGo[now]
    BY <1>d, <2>1, LeftOutside, CallersLeft
  <2>3. ToGo[now] \in Nat
    BY <1>b, <1>f, <2>1 DEF PreparePc
  <2> QED BY <2>2, <2>3
<1>5. CASE Weigh(p)
  <2>1. here = "weigh" /\ pc'[p] = "move" /\ ask'[p].why = why /\ ask'[p].to = to
    BY <1>5, <1>a DEF Weigh, here, why, to
  <2>2. CASE why = "phase"
    <3>1. StepsLeft(p) = 3 + 14 + 5 * ToGo[to] /\ StepsLeft(p)' = 2 + 14 + 5 * ToGo[to]
      BY <1>d, <2>1, <2>2, LeftInside DEF EnginePc
    <3> QED BY <1>c, <3>1
  <2>3. CASE why # "phase"
    <3>1. /\ StepsLeft(p) = 3 + Statements[Allowed[why]] + 0
          /\ StepsLeft(p)' = 2 + Statements[Allowed[why]] + 0
      BY <1>d, <2>1, <2>3, LeftInside, CallersLeft DEF EnginePc
    <3> QED BY <1>a, <2>3, <3>1, CallersLeft
  <2> QED BY <2>2, <2>3
<1>6. CASE SetState(p)
  <2>1. /\ here = "move" /\ pc'[p] = "record" /\ ask'[p].why = why /\ ask'[p].to = to
        /\ TaskOf(p)' = TaskOf(p) /\ state' = [state EXCEPT ![ask[p].task] = to]
    BY <1>6, <1>a DEF SetState, TaskOf, here, why, to
  <2>2. CASE why = "phase"
    <3>1. state'[TaskOf(p)'] = to
      BY <1>a, <1>b, <1>e, <2>1, <2>2 DEF EnginePc
    <3>2. StepsLeft(p) = 2 + 14 + 5 * ToGo[to] /\ StepsLeft(p)' = 1 + 14 + 5 * ToGo[to]
      BY <1>d, <2>1, <2>2, <3>1, LeftInside DEF EnginePc
    <3> QED BY <1>c, <3>2
  <2>3. CASE why # "phase"
    <3>1. /\ StepsLeft(p) = 2 + Statements[Allowed[why]] + 0
          /\ StepsLeft(p)' = 1 + Statements[Allowed[why]] + 0
      BY <1>d, <2>1, <2>3, LeftInside, CallersLeft DEF EnginePc
    <3> QED BY <1>a, <2>3, <3>1, CallersLeft
  <2> QED BY <2>2, <2>3
<1>7. CASE Refuse(p)
  <2>1. here = "weigh" /\ pc'[p] = Denied[why]
    BY <1>7, <1>a DEF Refuse, Answer, here, why
  <2>2. CASE why = "phase"
    <3>1. StepsLeft(p) = 3 + 14 + 5 * ToGo[to] /\ StepsLeft(p)' = 4
      BY <1>d, <2>1, <2>2, LeftInside, LeftOutside, CallersLeft DEF EnginePc
    <3> QED BY <1>c, <3>1
  <2>3. CASE why # "phase"
    <3>1. StepsLeft(p) = 3 + Statements[Allowed[why]] + 0 /\ StepsLeft(p)' = 0
      BY <1>a, <1>d, <2>1, <2>3, LeftInside, LeftOutside, CallersLeft DEF EnginePc
    <3> QED BY <1>a, <2>3, <3>1, CallersLeft
  <2> QED BY <2>2, <2>3
<1>8. CASE RecordRun(p)
  <2>1. here = "record" /\ pc'[p] = Allowed[why] /\ state' = state
    BY <1>8, <1>a DEF RecordRun, Answer, here, why
  <2>2. CASE why = "phase"
    <3>1. pc'[p] = "look" /\ call' = call /\ pathTask' = pathTask
      BY <1>8, <2>1, <2>2, CallersLeft DEF RecordRun, Answer, why
    <3>2. state'[TaskOf(p)'] = now
      BY <2>1, <3>1 DEF TaskOf, now
    <3>3. StepsLeft(p) = 1 + 14 + 5 * ToGo[now] /\ StepsLeft(p)' = 14 + 5 * ToGo[now]
      BY <1>d, <2>1, <2>2, <3>1, <3>2, LeftInside, LeftOutside DEF EnginePc
    <3>4. ToGo[now] \in Nat
      BY <1>b, <1>e, <2>1, <2>2 DEF EnginePc
    <3> QED BY <3>3, <3>4
  <2>3. CASE why # "phase"
    <3>1. /\ StepsLeft(p) = 1 + Statements[Allowed[why]] + 0
          /\ StepsLeft(p)' = Statements[Allowed[why]] + 0
      BY <1>a, <1>d, <2>1, <2>3, LeftInside, LeftOutside, CallersLeft DEF EnginePc
    <3> QED BY <1>a, <2>3, <3>1, CallersLeft
  <2> QED BY <2>2, <2>3
<1>9. CASE Fault(p)
  <2>1. pc'[p] = "idle"
    BY <1>9, <1>a DEF Fault
  <2>2. StepsLeft(p)' = 0
    BY <1>d, <2>1, LeftOutside, CallersLeft
  <2>3. here \in PreparePc \cup RemovePc \cup EnginePc
    BY <1>a DEF here
  <2>4. StepsLeft(p) \in Nat /\ StepsLeft(p) > 0
    BY <1>a, <1>b, <1>d, <1>e, <1>f, <2>3, LeftPositive
  <2> QED BY <2>2, <2>4
(* The rest of prepare and remove runs straight down the table.            *)
<1>10. CASE /\ ~Look(p) /\ ~AdvancePhase(p) /\ ~AskGate(p) /\ ~Block(p)
            /\ ~NoWayForward(p) /\ ~EngineSteps(p) /\ ~Fault(p)
  <2>1. PrepareSteps(p) \/ RemoveSteps(p)
    BY <1>10
  <2>2. /\ here \in DOMAIN Statements \ {"look", "advance"}
        /\ pc'[p] \in DOMAIN Statements \ {"look", "advance"}
        /\ Statements[pc'[p]] < Statements[here]
    BY <1>a, <1>10, <2>1
       DEF PrepareSteps, RemoveSteps, Gate, RecordCheckpoint, AddWorktree, CreateBranch,
           PrepareFails, InsertWorkspace, RemoveTree, RemoveFails, MarkRemoved,
           Statements, here
  <2>3. StepsLeft(p) = Statements[here] + 0 /\ StepsLeft(p)' = Statements[pc'[p]] + 0
    BY <1>d, <2>2, LeftOutside
  <2>4. Statements[here] \in Nat /\ Statements[pc'[p]] \in Nat
    BY <2>2, CallersLeft
  <2> QED BY <2>2, <2>3, <2>4
<1> QED BY <1>1, <1>2, <1>3, <1>4, <1>5, <1>6, <1>7, <1>8, <1>9, <1>10 DEF EngineSteps

(* For any number of processes and whatever they do to a task, every step  *)
(* of a prepare, a remove or an engine call leaves that call fewer steps   *)
(* to take: the loop ends unless another process keeps moving the task     *)
(* back.                                                                   *)
THEOREM CallsShrinkAlways == Spec => CallsShrink
<1>1. Typed /\ PathInv /\ OwnAsks /\ [Next]_vars
        => [\A p \in Procs :
              pc[p] # "idle" /\ pc'[p] # pc[p] => StepsLeft(p)' < StepsLeft(p)]_vars
  <2> SUFFICES ASSUME Typed, PathInv, OwnAsks, [Next]_vars, NEW q \in Procs,
                      pc[q] # "idle", pc'[q] # pc[q]
               PROVE  StepsLeft(q)' < StepsLeft(q)
    OBVIOUS
  <2>1. PICK p \in Procs : Step(p)
    BY DEF Next, Step, vars
  <2>2. p = q
    BY <2>1, OthersStay
  <2>3. ~Command(p)
    BY <2>2 DEF Command, Goto, Advance, Ask, ApprovePlan, BeginPrepare, BeginRemove
  <2> QED BY <2>1, <2>2, <2>3, OwnStepShrinks DEF Step
<1>2. Spec => [](Typed /\ PathInv /\ OwnAsks)
  BY WorkspaceInvInductive, PTL DEF WorkspaceInv
<1> QED BY <1>1, <1>2, PTL DEF Spec, CallsShrink

-----------------------------------------------------------------------------
(* The service as a client of the machine.                                 *)

LEMMA SameTable == Machine!Transitions = Transitions
  BY DEF Machine!Transitions, Transitions, Machine!HappyPath, HappyPath,
         Machine!ExitEdges, ExitEdges, Machine!OpenStates, OpenStates,
         Machine!FailureExits, FailureExits

LEMMA SameGuard ==
    ASSUME NEW t \in Tasks, NEW from, NEW to, GuardTransition(from, to, Context(t)),
           LoopsTaken[t] = fixRuns[t]
    PROVE  Machine!GuardTransition(from, to, Machine!Context(t))
<1> DEFINE c == Context(t)
           d == Machine!Context(t)
<1>1. /\ d.plan = c.plan /\ d.final = c.final /\ d.checkpoint = c.checkpoint
      /\ d.tests = c.tests /\ d.scans = c.scans /\ d.reviewer = c.reviewer
      /\ d.implementer = c.implementer /\ d.risk = c.risk /\ d.loops = c.loops
  BY DEF Context, Machine!Context, OnRecord
<1>2. GuardTransition(from, to, c)
  OBVIOUS
<1> HIDE DEF c, d
<1>3. Machine!CanTransition(from, to)
  BY <1>2, SameTable DEF GuardTransition, CanTransition, Machine!CanTransition
<1>4. Machine!PlanGate(to, d)
  BY <1>1, <1>2 DEF GuardTransition, PlanGate, Machine!PlanGate
<1>5. Machine!CheckpointGate(to, d)
  BY <1>1, <1>2 DEF GuardTransition, CheckpointGate, Machine!CheckpointGate
<1>6. Machine!RetryGate(from, to, d)
  BY <1>1, <1>2 DEF GuardTransition, RetryGate, Machine!RetryGate
<1>7. Machine!FinalGate(to, d)
  BY <1>1, <1>2 DEF GuardTransition, FinalGate, Machine!FinalGate
<1>8. Machine!MergeGate(to, d)
  BY <1>1, <1>2 DEF GuardTransition, MergeGate, Machine!MergeGate
<1> QED BY <1>3, <1>4, <1>5, <1>6, <1>7, <1>8 DEF d, Machine!GuardTransition

(* With one process the loops taken are the recorded ones and its own.     *)
Taken(p) ==
    [t \in Tasks |->
        IF pc[p] = "record" /\ ask[p].task = t /\ FixLoop(p)
        THEN fixRuns[t] + 1 ELSE fixRuns[t]]

LEMMA TakenAlone ==
    ASSUME Alone, NEW p \in Procs
    PROVE  LoopsTaken = Taken(p) /\ LoopsTaken' = Taken(p)'
<1>1. \A q \in Procs : q = p
  BY DEF Alone
<1>2. \A t \in Tasks :
        (\E q \in Procs : pc[q] = "record" /\ ask[q].task = t /\ FixLoop(q))
          <=> (pc[p] = "record" /\ ask[p].task = t /\ FixLoop(p))
  BY <1>1
<1>3. \A t \in Tasks :
        (\E q \in Procs : pc'[q] = "record" /\ ask'[q].task = t /\ FixLoop(q)')
          <=> (pc'[p] = "record" /\ ask'[p].task = t /\ FixLoop(p)')
  BY <1>1
<1> QED BY <1>2, <1>3, Zenon DEF LoopsTaken, Taken

(* The write of an engine call is one move of the machine.                 *)
LEMMA SetStateIsMove ==
    ASSUME Alone, Typed, Current, NEW p \in Procs, SetState(p)
    PROVE  Machine!MachineNext
<1> DEFINE t == ask[p].task
           to == ask[p].to
<1>1. /\ pc[p] = "move" /\ pc'[p] = "record" /\ ask' = ask /\ fixRuns' = fixRuns
      /\ state' = [state EXCEPT ![t] = to]
      /\ UNCHANGED <<risk, planApproved, checkpointed>>
      /\ t \in Tasks /\ to \in State /\ fixRuns \in [Tasks -> Nat]
  BY DEF SetState, Goto, Typed, TypeOK, EnginePc
<1>2. state[t] = ask[p].from /\ GuardTransition(state[t], to, Context(t))
  BY <1>1 DEF Current, UpToDate, Verdict
<1> HIDE DEF t, to
<1>3. LoopsTaken = fixRuns
  <2>1. LoopsTaken = [u \in Tasks |-> fixRuns[u]]
    BY <1>1, TakenAlone DEF Taken
  <2> QED BY <1>1, <2>1
<1>4. Machine!GuardTransition(state[t], to, Machine!Context(t))
  BY <1>1, <1>2, <1>3, SameGuard
<1>5. LoopsTaken' = [LoopsTaken EXCEPT ![t] =
                       IF state[t] = "FIXING" /\ to = "IMPLEMENTING" THEN @ + 1 ELSE @]
  <2>1. FixLoop(p)' <=> state[t] = "FIXING" /\ to = "IMPLEMENTING"
    BY <1>1, <1>2 DEF FixLoop, to
  <2>2. \A u \in Tasks : ask'[p].task = u <=> u = t
    BY <1>1 DEF t
  <2>3. LoopsTaken' =
          [u \in Tasks |-> IF u = t /\ state[t] = "FIXING" /\ to = "IMPLEMENTING"
                           THEN fixRuns[u] + 1 ELSE fixRuns[u]]
    BY <1>1, <2>1, <2>2, TakenAlone, Zenon DEF Taken
  <2> QED BY <1>1, <1>3, <2>3
<1>6. OnRecord' = OnRecord
  BY <1>1 DEF OnRecord
<1>7. Machine!Move(t, to)
  BY <1>1, <1>4, <1>5, <1>6 DEF Machine!Move
<1>8. to \in Machine!State
  BY <1>1 DEF State, OpenStates, TerminalStates, Machine!State, Machine!OpenStates,
              Machine!TerminalStates
<1> QED BY <1>1, <1>7, <1>8 DEF Machine!MachineNext

(* An approval or a checkpoint puts evidence on record and withdraws none. *)
LEMMA RowIsEvidence ==
    ASSUME Typed, NEW t \in Tasks, UNCHANGED <<state, risk, LoopsTaken>>,
           \/ planApproved' = planApproved \cup {t} /\ checkpointed' = checkpointed
           \/ planApproved' = planApproved /\ checkpointed' = checkpointed \cup {t}
    PROVE  Machine!MachineNext
<1> DEFINE e == [plan |-> t \in planApproved', final |-> FALSE,
                 checkpoint |-> t \in checkpointed', tests |-> FALSE, scans |-> FALSE,
                 reviewer |-> None]
<1>1. e \in Machine!Evidence
  BY DEF Machine!Evidence
<1>2. OnRecord' = [OnRecord EXCEPT ![t] = e]
  <2>1. \A u \in Tasks \ {t} :
          (u \in planApproved') = (u \in planApproved)
          /\ (u \in checkpointed') = (u \in checkpointed)
    OBVIOUS
  <2>2. \A u \in Tasks : OnRecord'[u] = IF u = t THEN e ELSE OnRecord[u]
    BY <2>1 DEF OnRecord
  <2>3. OnRecord' = [u \in Tasks |-> OnRecord'[u]] /\ DOMAIN OnRecord = Tasks
    BY DEF OnRecord
  <2> HIDE DEF e
  <2> QED BY <2>2, <2>3
<1>3. /\ OnRecord[t].plan => e.plan
      /\ OnRecord[t].final => e.final
      /\ OnRecord[t].checkpoint => e.checkpoint
      /\ ~(OnRecord[t].reviewer # None)
  BY DEF OnRecord
<1> HIDE DEF e
<1>4. Machine!PutOnRecord(t)
  BY <1>1, <1>2, <1>3 DEF Machine!PutOnRecord
<1> QED BY <1>4 DEF Machine!MachineNext

LEMMA StepIsMachineStep ==
    ASSUME Alone, MaxFaults = 0
    PROVE  Typed /\ Current /\ [Next]_vars
             => [Machine!MachineNext]_(Machine!machineVars)
<1> SUFFICES ASSUME Typed, Current, [Next]_vars
             PROVE  Machine!MachineNext \/ UNCHANGED Machine!machineVars
  OBVIOUS
<1>0. ASSUME UNCHANGED <<state, risk, planApproved, checkpointed>>, LoopsTaken' = LoopsTaken
      PROVE  UNCHANGED Machine!machineVars
  BY <1>0 DEF OnRecord, Machine!machineVars
<1>1. CASE UNCHANGED vars
  BY <1>0, <1>1 DEF vars, engineVars, LoopsTaken, FixLoop
<1> SUFFICES ASSUME NEW p \in Procs, Step(p)
             PROVE  Machine!MachineNext \/ UNCHANGED Machine!machineVars
  BY <1>1 DEF Next, Step
<1>2. CASE SetState(p)
  BY <1>2, SetStateIsMove
<1>3. CASE RecordRun(p)
  <2>1. /\ pc[p] = "record" /\ pc'[p] \in {"idle", "look", "project"}
        /\ UNCHANGED <<state, risk, planApproved, checkpointed>>
        /\ fixRuns \in [Tasks -> Nat] /\ ask[p].task \in Tasks
    BY <1>3, AnswerGoes DEF RecordRun, Answer, Goto, Typed, TypeOK, EnginePc
  <2>2. \/ FixLoop(p) /\ fixRuns' = [fixRuns EXCEPT ![ask[p].task] =
                                     fixRuns[ask[p].task] + 1]
        \/ ~FixLoop(p) /\ fixRuns' = [fixRuns EXCEPT ![ask[p].task] =
                                      fixRuns[ask[p].task]]
    BY <1>3, Zenon DEF RecordRun
  <2>3. \A t \in Tasks : fixRuns'[t] =
          IF ask[p].task = t /\ FixLoop(p) THEN fixRuns[t] + 1 ELSE fixRuns[t]
    BY <2>1, <2>2
  <2>4. Taken(p) = [t \in Tasks |-> fixRuns'[t]] /\ Taken(p)' = [t \in Tasks |-> fixRuns'[t]]
    BY <2>1, <2>3 DEF Taken
  <2> QED BY <1>0, <2>1, <2>4, TakenAlone
<1>4. ASSUME ~SetState(p), ~RecordRun(p)
      PROVE  state' = state /\ risk' = risk /\ LoopsTaken' = LoopsTaken
  <2>1. CASE Fault(p)
    BY <2>1 DEF Fault, Typed, TypeOK
  <2>2. CASE ~Fault(p)
    <3>1. UNCHANGED <<state, risk, fixRuns>> /\ pc[p] # "record" /\ pc'[p] # "record"
      <4> USE DEF Ask, Goto, Return, engineVars, Typed, TypeOK
      <4>1. CASE Command(p)
        BY <4>1 DEF Command, Advance, ApprovePlan, BeginPrepare, BeginRemove
      <4>2. CASE PrepareSteps(p)
        BY <4>2
           DEF PrepareSteps, Look, AdvancePhase, NoWayForward, Gate, AskGate,
               RecordCheckpoint, AddWorktree, CreateBranch, PrepareFails,
               InsertWorkspace, Block
      <4>3. CASE EngineSteps(p)
        BY <1>4, <4>3, AnswerGoes DEF EngineSteps, Weigh, Refuse, Answer
      <4>4. CASE RemoveSteps(p)
        BY <4>4 DEF RemoveSteps, RemoveTree, RemoveFails, MarkRemoved
      <4> QED BY <2>2, <4>1, <4>2, <4>3, <4>4 DEF Step
    <3>2. Taken(p) = [t \in Tasks |-> fixRuns[t]] /\ Taken(p)' = [t \in Tasks |-> fixRuns[t]]
      BY <3>1 DEF Taken
    <3> QED BY <3>1, <3>2, TakenAlone
  <2> QED BY <2>1, <2>2
<1>5. ASSUME NEW t \in Tasks, ApprovePlan(p, t) PROVE Machine!MachineNext
  <2>1. pc' = pc /\ state' = state /\ pc[p] = "idle"
    BY <1>5 DEF ApprovePlan
  <2>2. ~SetState(p) /\ ~RecordRun(p)
    BY <2>1 DEF SetState, RecordRun, Answer, Goto
  <2> QED BY <1>4, <1>5, <2>2, RowIsEvidence DEF ApprovePlan
<1>6. ASSUME RecordCheckpoint(p) PROVE Machine!MachineNext
  <2>1. TaskOf(p) \in Tasks
    BY <1>6, TaskOfType DEF RecordCheckpoint, Goto, Typed, InPrepare, PreparePc
  <2>2. ~SetState(p) /\ ~RecordRun(p)
    BY <1>6 DEF RecordCheckpoint, SetState, RecordRun, Answer, Goto
  <2> QED BY <1>4, <1>6, <2>1, <2>2, RowIsEvidence DEF RecordCheckpoint, engineVars
(* Everything else is between the service, git and its own table.          *)
<1>7. CASE /\ \A t \in Tasks : ~ApprovePlan(p, t)
           /\ ~RecordCheckpoint(p) /\ ~SetState(p) /\ ~RecordRun(p)
  <2>1. UNCHANGED <<planApproved, checkpointed>>
    BY <1>7 DEF Step, Command, PrepareSteps, EngineSteps, RemoveSteps, Fault, engineVars,
         Advance, Ask, Answer, BeginPrepare, BeginRemove, Look, AdvancePhase,
         NoWayForward, Gate, AskGate, AddWorktree, CreateBranch, PrepareFails,
         InsertWorkspace, Block, Weigh, Refuse, RemoveTree, RemoveFails, MarkRemoved
  <2> QED BY <1>0, <1>4, <1>7, <2>1
<1> QED BY <1>2, <1>3, <1>5, <1>6, <1>7

(* One process at a time that does not die: whatever its prepares, removes *)
(* and commands do, statement by statement, a task moves only as the       *)
(* abstract machine allows, on evidence the machine knows of.  With        *)
(* several processes this is false: a stale setState is no guarded move.   *)
THEOREM WorkspaceMovesByTheMachine ==
    ASSUME Alone, MaxFaults = 0 PROVE Spec => MovesByTheMachine
<1>1. Init => Machine!MachineInit
  <2> SUFFICES ASSUME Init PROVE Machine!MachineInit
    OBVIOUS
  <2>1. risk \in [Tasks -> Machine!Risk]
    BY WorkspaceAssumption DEF Init, Risk, Machine!Risk
  <2>2. OnRecord = [t \in Tasks |-> Machine!NoEvidence]
    <3>1. \A t \in Tasks : (t \in planApproved) = FALSE /\ (t \in checkpointed) = FALSE
      BY DEF Init
    <3> QED BY <3>1 DEF OnRecord, Machine!NoEvidence
  <2>3. LoopsTaken = [t \in Tasks |-> 0]
    BY DEF Init, LoopsTaken
  <2> QED BY <2>1, <2>2, <2>3 DEF Init, Machine!MachineInit
<1>2. Init => Current
  BY DEF Init, Current, AtGate, UpToDate, EnginePc
<1>3. Spec => []Typed
  BY WorkspaceInvInductive, PTL DEF WorkspaceInv
<1>4. Spec => []Current
  BY <1>2, <1>3, NextCurrent, PTL DEF Spec
<1> QED BY <1>1, <1>3, <1>4, StepIsMachineStep, PTL
        DEF Spec, MovesByTheMachine, Machine!MachineSpec

-----------------------------------------------------------------------------
(* What the machine promises, and so the service.                          *)

LEMMA OneWayThroughGates ==
    ASSUME NEW from, NEW to, Machine!CanTransition(from, to)
    PROVE  /\ to \in Machine!BehindPlanApproval /\ to # "PREPARING_WORKSPACE"
                => from \in Machine!BehindPlanApproval
           /\ to \in Machine!BehindCheckpoint /\ to # "IMPLEMENTING"
                => from \in Machine!BehindCheckpoint
           /\ to \in Machine!BehindFinalApproval /\ to # "APPROVED"
                => from \in Machine!BehindFinalApproval
  BY DEF Machine!CanTransition, Machine!Transitions, Machine!HappyPath,
         Machine!ExitEdges, Machine!OpenStates, Machine!FailureExits,
         Machine!BehindPlanApproval, Machine!BehindCheckpoint,
         Machine!BehindFinalApproval

PromiseInv == Machine!MachineTypeOK /\ Machine!Promised

LEMMA MovePromised ==
    ASSUME PromiseInv, NEW t \in Tasks, NEW to \in Machine!State, Machine!Move(t, to)
    PROVE  PromiseInv'
<1> DEFINE c == Machine!Context(t)
<1>1. /\ state \in [Tasks -> Machine!State] /\ LoopsTaken \in [Tasks -> Nat]
      /\ state' = [state EXCEPT ![t] = to]
      /\ risk' = risk /\ OnRecord' = OnRecord
      /\ Machine!GuardTransition(state[t], to, c)
  BY DEF PromiseInv, Machine!MachineTypeOK, Machine!Move
<1>2. /\ c.plan = OnRecord[t].plan /\ c.final = OnRecord[t].final
      /\ c.checkpoint = OnRecord[t].checkpoint /\ c.reviewer = OnRecord[t].reviewer
      /\ c.risk = risk[t] /\ c.loops = LoopsTaken[t]
  BY DEF Machine!Context
<1> HIDE DEF c
<1>3. Machine!CanTransition(state[t], to)
  BY <1>1 DEF Machine!GuardTransition
<1>4. to \in Machine!BehindPlanApproval => OnRecord[t].plan \/ risk[t] = "low"
  <2>1. CASE to = "PREPARING_WORKSPACE"
    BY <1>1, <1>2, <2>1 DEF Machine!GuardTransition, Machine!PlanGate
  <2>2. CASE to # "PREPARING_WORKSPACE"
    BY <1>3, <2>2, OneWayThroughGates DEF PromiseInv, Machine!Promised
  <2> QED BY <2>1, <2>2
<1>5. to \in Machine!BehindCheckpoint => OnRecord[t].checkpoint
  <2>1. CASE to = "IMPLEMENTING"
    BY <1>1, <1>2, <2>1 DEF Machine!GuardTransition, Machine!CheckpointGate
  <2>2. CASE to # "IMPLEMENTING"
    BY <1>3, <2>2, OneWayThroughGates DEF PromiseInv, Machine!Promised
  <2> QED BY <2>1, <2>2
<1>6. to \in Machine!BehindFinalApproval => OnRecord[t].final \/ risk[t] = "low"
  <2>1. CASE to = "APPROVED"
    BY <1>1, <1>2, <2>1 DEF Machine!GuardTransition, Machine!FinalGate
  <2>2. CASE to # "APPROVED"
    BY <1>3, <2>2, OneWayThroughGates DEF PromiseInv, Machine!Promised
  <2> QED BY <2>1, <2>2
<1>7. to = "MERGED" => OnRecord[t].reviewer # None
  BY <1>1, <1>2 DEF Machine!GuardTransition, Machine!MergeGate
<1>8. /\ LoopsTaken' \in [Tasks -> Nat]
      /\ \A u \in Tasks : LoopsTaken'[u] <= MaxFixAttempts
  <2>1. \A u \in Tasks : LoopsTaken[u] <= MaxFixAttempts
    BY DEF PromiseInv, Machine!Promised
  <2>2. CASE state[t] = "FIXING" /\ to = "IMPLEMENTING"
    <3>1. LoopsTaken[t] < MaxFixAttempts
      BY <1>1, <1>2, <2>2 DEF Machine!GuardTransition, Machine!RetryGate
    <3>2. LoopsTaken' = [LoopsTaken EXCEPT ![t] = LoopsTaken[t] + 1]
      BY <1>1, <2>2 DEF Machine!Move
    <3> QED BY <1>1, <2>1, <3>1, <3>2, FixAttemptsAssumption
  <2>3. CASE ~(state[t] = "FIXING" /\ to = "IMPLEMENTING")
    <3>1. LoopsTaken' = [LoopsTaken EXCEPT ![t] = LoopsTaken[t]]
      BY <1>1, <2>3 DEF Machine!Move
    <3> QED BY <1>1, <2>1, <3>1
  <2> QED BY <2>2, <2>3
<1>9. Machine!MachineTypeOK'
  BY <1>1, <1>8 DEF PromiseInv, Machine!MachineTypeOK
<1>10. Machine!Promised'
  <2> SUFFICES ASSUME NEW u \in Tasks
        PROVE /\ state'[u] \in Machine!BehindPlanApproval
                   => OnRecord[u].plan \/ risk[u] = "low"
              /\ state'[u] \in Machine!BehindCheckpoint => OnRecord[u].checkpoint
              /\ state'[u] \in Machine!BehindFinalApproval
                   => OnRecord[u].final \/ risk[u] = "low"
              /\ state'[u] = "MERGED" => OnRecord[u].reviewer # None
    BY <1>1, <1>8 DEF Machine!Promised
  <2>1. CASE u = t
    BY <1>1, <1>4, <1>5, <1>6, <1>7, <2>1
  <2>2. CASE u # t
    BY <1>1, <2>2 DEF PromiseInv, Machine!Promised
  <2> QED BY <2>1, <2>2
<1> QED BY <1>9, <1>10 DEF PromiseInv

LEMMA RecordPromised ==
    ASSUME PromiseInv, NEW t \in Tasks, Machine!PutOnRecord(t)
    PROVE  PromiseInv'
<1>1. PICK e \in Machine!Evidence :
        /\ OnRecord' = [OnRecord EXCEPT ![t] = e]
        /\ OnRecord[t].plan => e.plan
        /\ OnRecord[t].final => e.final
        /\ OnRecord[t].checkpoint => e.checkpoint
        /\ OnRecord[t].reviewer # None => e.reviewer # None
  BY DEF Machine!PutOnRecord
<1>2. UNCHANGED <<state, risk, LoopsTaken>> /\ OnRecord \in [Tasks -> Machine!Evidence]
  BY DEF Machine!PutOnRecord, PromiseInv, Machine!MachineTypeOK
<1>3. Machine!MachineTypeOK'
  BY <1>1, <1>2 DEF PromiseInv, Machine!MachineTypeOK
<1>4. \A u \in Tasks :
        /\ OnRecord[u].plan => OnRecord'[u].plan
        /\ OnRecord[u].final => OnRecord'[u].final
        /\ OnRecord[u].checkpoint => OnRecord'[u].checkpoint
        /\ OnRecord[u].reviewer # None => OnRecord'[u].reviewer # None
  BY <1>1, <1>2
<1>5. Machine!Promised'
  BY <1>2, <1>4 DEF PromiseInv, Machine!Promised
<1> QED BY <1>3, <1>5 DEF PromiseInv

(* The machine keeps its gates and its fix budget: what implements it      *)
(* inherits them.                                                          *)
THEOREM MachineKeepsPromises == Machine!MachineSpec => []Machine!Promised
<1>1. Machine!MachineInit => PromiseInv
  <2> SUFFICES ASSUME Machine!MachineInit PROVE PromiseInv
    OBVIOUS
  <2>1. Machine!NoEvidence \in Machine!Evidence
    BY DEF Machine!NoEvidence, Machine!Evidence
  <2>2. Machine!MachineTypeOK
    BY <2>1 DEF Machine!MachineInit, Machine!MachineTypeOK, Machine!State,
                Machine!OpenStates
  <2>3. Machine!Promised
    BY FixAttemptsAssumption
       DEF Machine!MachineInit, Machine!Promised, Machine!BehindPlanApproval,
           Machine!BehindCheckpoint, Machine!BehindFinalApproval
  <2> QED BY <2>2, <2>3 DEF PromiseInv
<1>2. PromiseInv /\ [Machine!MachineNext]_(Machine!machineVars) => PromiseInv'
  <2>1. CASE UNCHANGED Machine!machineVars
    BY <2>1 DEF Machine!machineVars, PromiseInv, Machine!MachineTypeOK, Machine!Promised
  <2>2. CASE Machine!MachineNext
    BY <2>2, MovePromised, RecordPromised DEF Machine!MachineNext
  <2> QED BY <2>1, <2>2
<1>3. PromiseInv => Machine!Promised
  BY DEF PromiseInv
<1> QED BY <1>1, <1>2, <1>3, PTL DEF Machine!MachineSpec

(* So with one process at a time that does not die the service keeps the  *)
(* gates and the exact fix budget.  For the gates alone see                *)
(* ServiceKeepsGates, which needs neither assumption; several processes    *)
(* can overdraw the budget (TaskSafety.FixLoopBound).                      *)
THEOREM ServiceKeepsPromises ==
    ASSUME Alone, MaxFaults = 0 PROVE Spec => []Machine!Promised
  BY WorkspaceMovesByTheMachine, MachineKeepsPromises, PTL DEF MovesByTheMachine
=============================================================================
