SPECIFICATION Spec
\* The server waits for clients that do not come.
CHECK_DEADLOCK FALSE
CONSTANTS
    Clients = {c1, c2}
    Families = {v4, v6}
    Descriptors = {3, 4, 5}
    Inheritable = {4, 5}
    MaxThreads = 2
    Objects = {1, 2, 3}
    LISTENQ = 2
    None = None
INVARIANTS
    OwnDescriptor
    OnlyLeakedAreLost
    FindsServer
PROPERTIES
    WaitingAreServed
    LeftAreClosed
