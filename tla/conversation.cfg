SPECIFICATION ConversationSpec
CONSTANTS
    RIO_BUFSIZE = 4
    SocketBuffer = 4
    maxlen <- ReadSizes
    MaxRequests = 3
    Lengths = {2, 3}
INVARIANTS
    InOrder
    NothingDropped
    AnswerArrives
PROPERTIES
    ImplementsExchange
    ProgramEnds
    ServerLetsGo
