SPECIFICATION Spec
CONSTANTS
    Conns = {c1, c2}
    TableNames = {t1, t2}
    Keys = {k1}
    t1 = t1
    t2 = t2
    k1 = k1
    k2 = k2
    None = None
    IntMax = 1
    MaxStack = 1
    MissingKeyGets = FALSE
    Requests <- TxRequests
    InitialTables <- TxTables
SYMMETRY ConnSymmetry
INVARIANT TypeOK
INVARIANT MutualExclusion
INVARIANT NoTableRace
INVARIANT CleanWhenUnlocked
INVARIANT NoWaitCycle
PROPERTY Isolation
PROPERTY CommittedKeysStay
PROPERTY ImplementsStore
