SPECIFICATION Spec
CONSTANTS
    p1 = p1
    p2 = p2
    k1 = k1
    k2 = k2
    Parents <- MCParents
    Kids <- MCKids
    Stored <- MCStored
    FirstKey <- MCFirstKey
    FirstHome <- MCFirstHome
    Vals = {1, 2}
    Bulks <- MCBulks
    MaxSize = 2
    OrphanModes = {TRUE, FALSE}
    NestedModes = {TRUE, FALSE}
    Mixed = FALSE
    LateFaults = FALSE
    NoSnap = NoSnap
    NotLoaded = NotLoaded
    MaxKey = 6
    MaxOps = 4
    MaxFlushes = 2
    MaxFaults = 1
INVARIANTS
    CacheIsHonest
    KeysAreReal
    ForeignKeysHold
PROPERTIES
    FlushStores
    RetryKeepsWork
    EvictionKeepsEdits
\* The calls of an instance are bounded.
CHECK_DEADLOCK FALSE
