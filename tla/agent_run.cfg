SPECIFICATION FairSpec
CONSTANTS
    None = None
    proxy = proxy
    Hosts = {proxy}
    Procs = {cli}
    Clearances = {"internal", "confidential"}
    Messages <- TheMessages
    MaxIterations = 2
    MaxRuns = 2
    MaxFaults = 1
INVARIANTS
    EveryCallReplied
    GatedNeedsApproval
    ReadOnlyInvestigation
    WithinClearance
    TrailComplete
PROPERTIES
    RunEnds
CHECK_DEADLOCK FALSE
