SPECIFICATION Spec
CONSTANTS
    j1 = j1
    j2 = j2
    a1 = a1
    a2 = a2
    None = None
    Jobs = {j1, j2}
    Ids = {1, 2}
    Admins = {a1, a2}
    NameAttempts = 2
    MaxFaults = 1
    MaxPasses = 2
    Scenarios <- MCScenarios
INVARIANTS
    OneCustody
    SparesSound
    ReportsTrue
    DeniedOnlyIfChanged
SYMMETRY AdminSymmetry
CHECK_DEADLOCK FALSE
