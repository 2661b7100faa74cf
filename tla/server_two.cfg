SPECIFICATION Spec
CONSTANTS
    Fd = {f1, f2, f3}
    ListenFd = listen
    Requests <- SimpleRequests
    Parse <- SimpleParse
    ResponseSize = 1
    kMaxRequestsPerRound = 1
    kReadChunkSize = 2
    kMaxReadBytesPerEvent = 2
    kMaxWriteBytesPerEvent = 1
    kMaxHeaderBytes = 1
    kMaxBodyBytes = 0
    kMaxInflightBytes = 3
    kMaxConnections = 2
    MaxRequests = 2
    MaxAccepts = 4
SYMMETRY Symmetry
INVARIANTS
    ReadyQueueConsistent
    ReadyRoundIntact
    BatchIsCurrent
    ActiveCountExact
    InflightExact
    BufferedRequestsScheduled
    ReadsAreContinued
PROPERTY
    ServesConnections
    RoundsEnd
