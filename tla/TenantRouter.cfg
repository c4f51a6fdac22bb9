SPECIFICATION RouterFairSpec
CONSTANTS
    t1 = t1
    t2 = t2
    r1 = r1
    r2 = r2
    r3 = r3
    None = None
    Tenants <- MCTenants
    Mapped <- MCMapped
    Requests <- MCRequests
    Ttl = 2
    MaxReleases = 1
    CloseConnections = TRUE
INVARIANTS
    OneProvision
    NoOrphan
PROPERTIES
    GivenLivePool
    EvictedOnlyIdle
    RouterSettles
\* Every request ends, and then every pool is closed.
CHECK_DEADLOCK FALSE
