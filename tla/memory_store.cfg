SPECIFICATION Spec
CONSTANTS
    Procs = {cli, agent}
    Scopes = {"global", "scratchpad"}
    Projects = {}
    TaskIds = {t1}
    Models = {}
    Keys = {k1, k2}
    Blank = Blank
    None = None
    Ttls = {}
    Instants = {}
    ScratchTtl = 1
    DefaultDays = 1
    DefaultMax = 1
    Days = {0}
    Budgets = {2}
    MaxIds = 3
    MaxTime = 2
INVARIANTS
    SweepSettles
    OperatorPolicyStands
PROPERTIES
    TrimsOldest
SYMMETRY MemorySymmetry
