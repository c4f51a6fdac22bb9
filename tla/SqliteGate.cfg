SPECIFICATION FairSpec
CONSTANTS
    f1 = f1
    f2 = f2
    f3 = f3
    s1 = s1
    s2 = s2
    s3 = s3
    None = None
    Flows <- MCFlows
    Stmts <- MCStmts
    Outer <- MCOuter
    FlowOf <- MCFlowOf
    TimeoutEnabled = TRUE
INVARIANTS
    TurnsAreSound
    NoForeignStatement
    NoSelfWait
PROPERTIES
    ImplementsSerial
    EveryWaiterServed
\* Every task runs once: the instance ends when all have.
CHECK_DEADLOCK FALSE
