SPECIFICATION Spec
CONSTANTS
    None = None
    i1 = i1
    i2 = i2
    Inits = {i1, i2}
    Openers = {o1}
    Shards <- ShardCounts
    MaxIds = 5
    MaxClock = 1
    MaxFaults = 1
    MaxCrashes = 2
INVARIANTS FormatImpliesComplete HandleMatchesRoot
PROPERTIES EstablishedKept InitSucceeds
