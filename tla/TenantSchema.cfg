SPECIFICATION FairSpec
CONSTANTS
    public = public
    acme = acme
    s1 = s1
    s2 = s2
    Unknown = Unknown
    Public = public
    Schemas <- MCSchemas
    Names <- MCNames
    Late = FALSE
    Reuse = FALSE
    MaxWork = 6
    MaxErrors = 1
INVARIANTS
    RunsInOwnSchema
    StaysInside
PROPERTIES
    WorkDrains
\* The transaction ends.
CHECK_DEADLOCK FALSE
