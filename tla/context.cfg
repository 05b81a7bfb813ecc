SPECIFICATION ContextSpec
CONSTANTS
    Nothing = Nothing
    MaxCost = 1
    Paths <- McPaths
    Parent <- McParent
    Above <- McAbove
    Specs <- McSpecs
    PathScore <- McPathScore
    SymbolScore <- McSymbolScore
    Hidden = {1}
    Secret = {1}
    Excluded = {3}
    Tokens <- McTokens
    ChunkTokens = 4
    Inputs <- McInputs
    Debates <- McDebates
    MaxIndexFiles = 3
    MaxFiles = 3
    MaxTokens = 4
    MaxChanges = 2
INVARIANTS
    IndexComplete
    PackMaximal
    RouteRight
    DebateFair
