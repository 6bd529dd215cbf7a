SPECIFICATION Spec
CONSTANTS
    h1 = h1
    h2 = h2
    Handles = {h1, h2}
    None = None
    Width = 2
    ReadAttempts = 2
    MaxSequence = 2
    MaxClock = 6
    MaxBoot = 1
    Faults = {"io", "nospc"}
INVARIANTS
    FloorsSound
    SyncedSurvives
PROPERTIES
    MarkAdvances
SYMMETRY HandleSymmetry
