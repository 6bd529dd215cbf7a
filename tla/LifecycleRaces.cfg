SPECIFICATION Spec
CONSTANTS
    h1 = h1
    h2 = h2
    j1 = j1
    j2 = j2
    Jobs = {j1}
    Handles = {h1, h2}
    MaximumAttempts <- OneJobAttempts
    CorruptJobs = {}
    EnqueueKinds = {"enqueue"}
    LeaseDurations = {1}
    Faults = {}
    MaxGeneration = 4
    MaxToken = 2
    MaxTime = 2
    MaxWall = 0
    MaxBoot = 1
    RenewBound = 2
    JobBound = 1
INVARIANTS
    OneTokenPerAttempt
    LostLeaseMovesNothing
PROPERTIES
    UnexpiredMovedByHolder
    UnknownHasHappened
    ImplementsQueue
SYMMETRY HandleSymmetry
CHECK_DEADLOCK FALSE
