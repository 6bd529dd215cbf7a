SPECIFICATION Spec
CONSTANTS
    Boot = 1
    Files0 <- SomeFiles
    Dirs0 <- SomeDirs
    Kind <- SomeKinds
    Fragile <- SomeFragile
    Broken0 <- SomeBroken
    Mendable <- SomeMendable
    Contested <- SomeContested
    Ready0 <- SomeReady
    MaxOps = 2
    MaxReads = 7
    MaxStreamed = 2
    LedgerSize = 2
    Ttl = 0
    Retention = 0
    MaxClock = 1
    MaxFaults = 1
INVARIANTS PassSound
PROPERTIES RecoveryCatchesUp RetriesClear
