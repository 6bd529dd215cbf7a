SPECIFICATION Spec
CONSTANTS
    h1 = h1
    h2 = h2
    j1 = j1
    j2 = j2
    Jobs = {j1, j2}
    Handles = {h1, h2}
    MaximumAttempts <- TwoJobsAttempts
    CorruptJobs = {j2}
    EnqueueKinds = {"enqueue"}
    LeaseDurations = {1}
    Faults = {"io", "nospc"}
    MaxGeneration = 6
    MaxToken = 1
    MaxTime = 2
    MaxWall = 0
    MaxBoot = 1
    RenewBound = 2
    JobBound = 1
INVARIANTS
    TypeOK
    CommittedSurvives
    AckedIsFinal
    DurableInv
    CorruptNeverDelivered
    CallsFollowTable
SYMMETRY HandleSymmetry
CHECK_DEADLOCK FALSE
