SPECIFICATION FairSpec
CONSTANTS
    c1 = c1
    c2 = c2
    c3 = c3
    k1 = k1
    k2 = k2
    None = None
    Callers <- MCCallers
    Decorated <- MCDecorated
    Outer <- MCOuter
    Conns <- MCConns
    MaxRetries <- MCRetries
    MaxEnds <- MCEnds
    AcquireFaults = TRUE
    SetFails = {c3}
    HookFaults <- MCHooks
    HookErrors = {"hook"}
    Catches = {c1}
    Postgres = TRUE
INVARIANTS
    PoolIsSound
    AllOrNothing
    EndsToldOnce
PROPERTIES
    CallsFinish
\* Every call ends: so does the instance.
CHECK_DEADLOCK FALSE
