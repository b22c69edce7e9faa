SPECIFICATION FairSpec
CONSTANTS
    Conns = {c1, c2}
    TableNames = {t1}
    Keys = {k1}
    t1 = t1
    t2 = t2
    k1 = k1
    k2 = k2
    None = None
    IntMax = 1
    MaxStack = 1
    MissingKeyGets = TRUE
    Requests <- LiveRequests
    InitialTables <- EmptyTable
INVARIANT NoOrphanLock
INVARIANT CleanWhenReleased
PROPERTY LeavingReleasesLocks
PROPERTY LocksAreReleased
