SPECIFICATION MigrationsSpec
CONSTANTS
    m1 = m1
    m2 = m2
    m3 = m3
    rA = rA
    rB = rB
    runA = runA
    lastA = lastA
    runB = runB
    backB = backB
    Absent = Absent
    Migration <- MCMigration
    Runners <- MCRunners
    ListOf <- MCListOf
    Calls <- MCCalls
    RunnerOf <- MCRunnerOf
    Kind <- MCKind
    Given <- MCGiven
    Count <- MCCount
    OneConnection <- MCOneConnection
    Overlap = FALSE
    MaxFaults = 2
    MaxCrashes = 1
INVARIANTS
    OneAtATime
    DecisionsHold
    RecordsMatchSchema
PROPERTIES
    CallsFinish
\* Every call has ended.
CHECK_DEADLOCK FALSE
