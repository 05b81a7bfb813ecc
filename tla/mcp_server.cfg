SPECIFICATION Spec
CONSTANTS
    Procs = {cli, ui}
    Tools = {"read", "write"}
    Configs <- McpConfigs
    Endpoints <- McpEndpoints
    None = None
    MaxFlows = 2
    MaxTokens = 3
INVARIANTS
    RefreshLives
    RevokeHolds
PROPERTIES
    CallsPermitted
    NoResurrection
SYMMETRY McpSymmetry
CHECK_DEADLOCK FALSE
