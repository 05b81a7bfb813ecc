SPECIFICATION Spec
CONSTANTS
    MaxFixAttempts = 1
    Agents = {reviewer}
    None = None
    Procs = {cli, cli2}
    Tasks = {task}
    Risks = {"low", "high"}
    Targets = {"forward", "BLOCKED", "PLANNING"}
    MaxPrepares = 2
    MaxFaults = 1
INVARIANTS
    TreesAfterApproval
    OneWorkspacePerTask
SYMMETRY ProcSymmetry
