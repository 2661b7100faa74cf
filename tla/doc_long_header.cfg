SPECIFICATION Spec
CONSTANTS
    Fd = {f1}
    ListenFd = listen
    Requests <- SimpleRequests
    Parse <- SimpleParse
    ResponseSize = 1
    kMaxRequestsPerRound = 1
    kReadChunkSize = 4
    kMaxReadBytesPerEvent = 8
    kMaxWriteBytesPerEvent = 1
    kMaxHeaderBytes = 4
    kMaxBodyBytes = 2
    kMaxInflightBytes = 10
    kMaxConnections = 1
    MaxRequests = 7
    MaxAccepts = 1
INVARIANT
    HeaderLimitHolds
