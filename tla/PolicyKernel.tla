---------------------------- MODULE PolicyKernel ----------------------------
(***************************************************************************)
(* packages/policy/src/index.ts: the decision on every tool call, with the *)
(* orders of packages/core it rests on and the permission manifests of     *)
(* packages/agents of the phases the command line runs.  No state.         *)
(***************************************************************************)
EXTENDS Naturals

CONSTANTS
    Hosts,              \* network hosts a call may name
    None

RiskOrder == [low |-> 0, medium |-> 1, high |-> 2]

ClassificationOrder ==
    [public |-> 0, internal |-> 1, confidential |-> 2, restricted |-> 3]

ScopeOrder == [none |-> 0, workspace |-> 1, project |-> 2]

RiskLevel == {"low", "medium", "high"}

ASSUME NoneAssumption == None \notin Hosts \cup RiskLevel

Classification == {"public", "internal", "confidential", "restricted"}

FsScope == {"none", "workspace", "project"}

Tools ==
    {"fs.read", "fs.write", "fs.list", "fs.search", "fs.edit", "terminal.exec",
     "git.exec", "test.exec", "scan.exec", "browser.fetch",
     "context.assemble", "memory.read", "memory.write", "search.semantic",
     "mcp.call"}

(* A scope that is not asked for is "none", a host None.                   *)
ToolRequest ==
    [tool : Tools, risk : RiskLevel, classification : Classification,
     dangerous : BOOLEAN, neverAllow : BOOLEAN, fsScope : FsScope,
     fsReadScope : FsScope, networkHost : Hosts \cup {None}, approved : BOOLEAN]

(* The wildcard grant is the set of all tools.                             *)
AgentGrant ==
    [toolsAllow : SUBSET Tools, toolsDeny : SUBSET Tools, fsRead : FsScope,
     fsWrite : FsScope, terminal : {"none", "approved_commands", "full"},
     networkDefault : {"deny", "allow"}, networkAllow : SUBSET Hosts,
     maxRisk : RiskLevel, maxClassification : Classification]

PolicyContext ==
    [workspaceLocked : BOOLEAN, providerMaxClassification : Classification]

-----------------------------------------------------------------------------
ClassificationAllowed(level, max) ==
    ClassificationOrder[level] <= ClassificationOrder[max]

RiskAtLeast(actual, minimum) == RiskOrder[actual] >= RiskOrder[minimum]

ScopeCovers(granted, needed) == ScopeOrder[granted] >= ScopeOrder[needed]

(* What no approval lifts.                                                 *)
HardDeny(request, grant, ctx) ==
    \/ ctx.workspaceLocked
    \/ request.neverAllow
    \/ request.tool \in grant.toolsDeny
    \/ request.tool \notin grant.toolsAllow
    \/ ~ClassificationAllowed(request.classification, grant.maxClassification)
    \/ ~ClassificationAllowed(request.classification, ctx.providerMaxClassification)
    \/ ~ScopeCovers(grant.fsWrite, request.fsScope)
    \/ ~ScopeCovers(grant.fsRead, request.fsReadScope)
    \/ /\ request.networkHost # None
       /\ grant.networkDefault = "deny"
       /\ request.networkHost \notin grant.networkAllow

(* What a human has to approve first.                                      *)
NeedsApproval(request, grant) ==
    /\ ~request.approved
    /\ \/ request.dangerous
       \/ request.risk = "high"
       \/ RiskAtLeast(request.risk, "medium") /\ grant.maxRisk = "low"

(* Denied too, but after the gates.                                        *)
TerminalDeny(request, grant) ==
    /\ request.risk = "medium"
    /\ grant.terminal = "none"
    /\ request.tool = "terminal.exec"

Evaluate(request, grant, ctx) ==
    IF HardDeny(request, grant, ctx) THEN "deny"
    ELSE IF NeedsApproval(request, grant) THEN "approval"
    ELSE IF TerminalDeny(request, grant) THEN "deny"
    ELSE "allow"

-----------------------------------------------------------------------------
(* The manifests of the three agents, on the defaults of grant.            *)
Phase == {"investigate", "plan", "implement"}

(* Mutant: the scope to write is granted unless a manifest narrows it.     *)
WritableByDefault ==
    [toolsAllow |-> {}, toolsDeny |-> {}, fsRead |-> "project",
     fsWrite |-> "workspace", terminal |-> "none", networkDefault |-> "deny",
     networkAllow |-> {}, maxRisk |-> "low", maxClassification |-> "confidential"]

BaseGrant ==
    [toolsAllow |-> {}, toolsDeny |-> {}, fsRead |-> "project",
     fsWrite |-> "none", terminal |-> "none", networkDefault |-> "deny",
     networkAllow |-> {}, maxRisk |-> "low", maxClassification |-> "confidential"]

Grant(phase) ==
    CASE phase = "investigate" ->
           [BaseGrant EXCEPT !.toolsAllow =
              {"fs.read", "fs.list", "fs.search", "git.exec",
               "context.assemble", "search.semantic"}]
      [] phase = "plan" ->
           [BaseGrant EXCEPT !.fsWrite = "workspace", !.toolsAllow =
              {"fs.read", "fs.list", "fs.search", "fs.write", "fs.edit",
               "git.exec"}]
      [] phase = "implement" ->
           [BaseGrant EXCEPT !.fsWrite = "workspace",
              !.terminal = "approved_commands", !.maxRisk = "medium",
              !.maxClassification = "internal", !.toolsAllow =
              {"fs.read", "fs.list", "fs.search", "fs.write", "fs.edit",
               "terminal.exec", "git.exec", "test.exec"}]

(* The tools the command line registers for each.                          *)
Registry(phase) ==
    {"fs.read", "fs.list", "fs.search", "fs.write", "fs.edit", "git.exec"}
    \cup IF phase = "implement" THEN {"test.exec"} ELSE {}
=============================================================================
