SPECIFICATION ClientsSpec
CONSTANTS
    c1 = c1
    c2 = c2
    c3 = c3
    t1 = t1
    t2 = t2
    k1 = k1
    k2 = k2
    Conns = {c1, c2, c3}
    TableNames = {t1, t2}
    Keys = {k1, k2}
    None = None
    IntMax = 3
    MaxStack = 2
    MissingKeyGets = TRUE
    Requests <- SentRequests
    InitialTables <- TwoTables
    Programs <- AllPrograms
INVARIANT NoLostIncrement
PROPERTY NoDirtyFetch
PROPERTY ClientsFinish
