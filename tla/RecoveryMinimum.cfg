SPECIFICATION Spec
CONSTANTS
    Boot = 1
    Files0 <- SparseFiles
    Dirs0 <- SparseDirs
    Kind <- SparseKinds
    Fragile = {}
    Broken0 <- NoneBroken
    Mendable = {}
    Contested = {}
    Ready0 <- NoReady
    MaxOps = 2
    MaxReads = 5
    MaxStreamed = 2
    LedgerSize = 2
    Ttl = 0
    Retention = 0
    MaxClock = 0
    MaxFaults = 0
PROPERTIES ValidBudgetProgresses
