SPECIFICATION Spec
CONSTANTS
    Conns = {c1}
    TableNames = {t1}
    Keys = {k1}
    t1 = t1
    t2 = t2
    k1 = k1
    k2 = k2
    None = None
    IntMax = 1
    MaxStack = 1
    MissingKeyGets = FALSE
    Requests <- LiveRequests
    InitialTables <- TxTables
PROPERTY ReadYourWrites
