SPECIFICATION Spec
CONSTANTS
    Conns = {c1}
    TableNames = {t1}
    Keys = {k1}
    t1 = t1
    t2 = t2
    k1 = k1
    k2 = k2
    None = None
    IntMax = 3
    MaxStack = 2
    MissingKeyGets = FALSE
    Requests <- StackRequests
    InitialTables <- NoTables
INVARIANT NoRequestKillsServer
