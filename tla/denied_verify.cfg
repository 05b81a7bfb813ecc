SPECIFICATION Spec
CONSTANTS
    MaxFixAttempts = 1
    Agents = {reviewer}
    None = None
    Procs = {cli}
    Tasks = {task}
    Risks = {"medium"}
    Suites = {unit}
    FindingIds = {leak}
    Blockers = {leak}
    Targets = {"forward"}
    Commands = {"approve", "checkpoint", "review", "tests", "findings", "verify"}
    MaxFaults = 0
PROPERTY
    DeniedClaimsOpenNoGate
