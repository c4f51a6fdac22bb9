SPECIFICATION Spec
CONSTANTS
    m1 = m1
    m2 = m2
    main = main
    other = other
    None = None
    Managers <- MCManagers
    ConnOf <- MCConnOf
    Default = main
    Forms <- MCForms
    MaxCalls = 3
    MaxWorks = 1
INVARIANTS
    NestedUndoesItsOwn
    WorkLandsWhereAsked
\* The calls of an instance are bounded.
CHECK_DEADLOCK FALSE
