SPECIFICATION Spec
CONSTANTS
    t1 = t1
    t2 = t2
    u1 = u1
    u2 = u2
    q1 = q1
    q2 = q2
    r1 = r1
    r2 = r2
    w1 = w1
    w2 = w2
    None = None
    Tables <- MCTables
    UserTags = {u1}
    Keys <- MCKeys
    TablesOf <- MCTablesOf
    Readers <- MCReaders
    KeyOf <- MCKeyOf
    TagOf <- MCTagOf
    Writers <- MCWriters
    Writes <- MCWrites
    RawWriters <- MCRaw
    MaxEntries = 1
    MaxInvalidations = 1
    Configured = TRUE
INVARIANTS
    StoreIsSound
    NoStaleEntry
    ReadsAreCurrent
