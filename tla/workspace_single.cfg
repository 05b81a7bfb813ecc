SPECIFICATION FairSpec
CONSTANTS
    MaxFixAttempts = 1
    Agents = {reviewer}
    None = None
    Procs = {cli}
    Tasks = {task}
    Risks = {"low", "high"}
    Targets = {"forward", "BLOCKED", "PLANNING", "CANCELLED", "FIXING"}
    MaxPrepares = 3
    MaxFaults = 0
INVARIANTS
    RowsMatchTrees
PROPERTIES
    FailedPrepareStops
    CallsReturn
