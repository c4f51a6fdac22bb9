SPECIFICATION FairSpec
CONSTANTS
    m = m
    a = a
    b = b
    r1 = r1
    None = None
    Master = m
    Configs <- MCConfigs
    Readers <- MCReaders
    FailureThreshold = 2
    RecoveryThreshold = 2
    MaxEpochs <- MCEpochs
    MaxMarks <- MCMarks
    Mortal <- MCMortal
    Hung = {}
INVARIANTS
    PoolsAreOwned
    RotationIsSound
PROPERTIES
    HealthFollows
    ReleasedPoolsClose
