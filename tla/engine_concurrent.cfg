SPECIFICATION Spec
CONSTANTS
    MaxFixAttempts = 1
    Agents = {reviewer}
    None = None
    Procs = {cli, desktop}
    Tasks = {task}
    Risks = {"high"}
    Suites = {unit}
    FindingIds = {leak}
    Blockers = {leak}
    Targets = {"forward", "FIXING"}
    Commands = {"approve", "checkpoint"}
    MaxFaults = 1
INVARIANTS
    NoGateSkipped
    FixLoopBound
SYMMETRY ProcSymmetry
