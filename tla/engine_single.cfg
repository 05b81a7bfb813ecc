SPECIFICATION Spec
CONSTANTS
    MaxFixAttempts = 1
    Agents = {reviewer}
    None = None
    Procs = {cli}
    Tasks = {task}
    Risks = {"high"}
    Suites = {unit}
    FindingIds = {leak}
    Blockers = {leak}
    Targets = {"forward", "FIXING", "BLOCKED", "PLANNING", "CANCELLED"}
    Commands = {"approve", "checkpoint", "review", "tests", "findings", "verify"}
    MaxFaults = 0
INVARIANTS
    TrailAgrees
PROPERTIES
    TrailContinuous
    ClosedIsFinal
    RecordedClaimsBacked
    ImplementsMachine
