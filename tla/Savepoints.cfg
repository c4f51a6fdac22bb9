SPECIFICATION SavepointsSpec
CONSTANTS
    o1 = o1
    o2 = o2
    s1 = s1
    s2 = s2
    Objs <- MCObjs
    Names <- MCNames
    Servers = {"replace", "stack"}
    MaxValues = 4
    MaxPoints = 3
    Overlap = FALSE
SYMMETRY Symmetry
INVARIANTS
    SavepointsAgree
\* The transaction ends, and with it the instance.
CHECK_DEADLOCK FALSE
