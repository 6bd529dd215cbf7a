SPECIFICATION FairSpec
CONSTANTS
    h1 = h1
    h2 = h2
    j1 = j1
    j2 = j2
    Jobs = {j1}
    Handles = {h1, h2}
    MaximumAttempts <- OneJobAttempts
    CorruptJobs = {}
    EnqueueKinds = {"enqueueNamed"}
    LeaseDurations = {1}
    Faults = {}
    MaxGeneration = 6
    MaxToken = 1
    MaxTime = 1
    MaxWall = 1
    MaxBoot = 1
    RenewBound = 0
    JobBound = 1
INVARIANTS
    CallsFollowTable
PROPERTIES
    LeaseEnds
    DelayEnds
CHECK_DEADLOCK FALSE
