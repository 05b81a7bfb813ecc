SPECIFICATION Spec
CONSTANTS
    Procs = {cli, desktop}
    LastVersion = 2
    Altering = {2}
    MaxRows = 1
    MaxFiles = 2
    MaxCopies = 2
INVARIANTS
    LedgerHonest
    UpIsMigrated
    CopyHolds
PROPERTIES
    RestoreReplaces
SYMMETRY ProcSymmetry
