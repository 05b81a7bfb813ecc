SPECIFICATION Spec
CONSTANTS
    Procs = {cli, ui}
    Providers = {v1, v2}
    Secrets = {s1}
    MasterKeys = {k1, k2}
    Keyring = TRUE
    Empty = Empty
    None = None
INVARIANTS
    VaultOpens
    RowsBacked
SYMMETRY VaultSymmetry
