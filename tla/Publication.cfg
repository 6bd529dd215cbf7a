SPECIFICATION Spec
CONSTANTS
    Handles = {h1, h2}
    Jobs = {j1, j2}
    None = None
    Here = Here
    Modes = {"strict", "deferred", "batch"}
    Kinds = {"enqueue", "stream"}
    FileSystems = {"proc", "linkless"}
    MaxInode = 4
    MaxFaults = 1
    MaxUnlinkFaults = 1
    MaxStalled = 1
    MaxBatches = 1
INVARIANTS
    CommittedReachable
    NotCommittedInvisible
    NothingLeaks
SYMMETRY PublicationSymmetry
CHECK_DEADLOCK FALSE
