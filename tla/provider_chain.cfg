SPECIFICATION Spec
CONSTANTS
    None = None
    anthropic = anthropic
    ollama = ollama
    claude = claude
    llama = llama
    lan = lan
    qwen = qwen
    sonnet = sonnet
    coder = coder
    tokens = tokens
    usd = usd
    Callers = {cli, cli2}
    Inputs <- TheInputs
    Providers = {anthropic, ollama, lan}
    Models = {claude, llama, qwen}
    Names = {sonnet, coder}
    ProviderOf <- TheProviderOf
    NameOf <- TheNameOf
    Chain <- TheChain
    Config <- TheConfig
    Replies <- TheReplies
    Endpoints = {anthropic, ollama}
    Budgets = {tokens, usd}
    Covers <- TheCovers
    Limit <- TheLimit
    HardBlock = {tokens, usd}
    UsdBudgets = {usd}
    Priced = {}
    MaxUsage = 1
    MaxRequests = 3
    MaxWindows = 1
    MaxFaults = 1
INVARIANTS
    OverdraftBound
    CleanSends
    PaidOncePerFault
    AvailableHasAnswered
PROPERTIES
    GivesUpLast
SYMMETRY CallerSymmetry
CHECK_DEADLOCK FALSE
