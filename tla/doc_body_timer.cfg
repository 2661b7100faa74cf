SPECIFICATION Spec
CONSTANTS
    Fd = {f1}
    ListenFd = listen
    Requests <- AllRequests
    Parse <- AllParse
    ResponseSize = 2
    kMaxRequestsPerRound = 2
    kReadChunkSize = 3
    kMaxReadBytesPerEvent = 4
    kMaxWriteBytesPerEvent = 3
    kMaxHeaderBytes = 3
    kMaxBodyBytes = 2
    kMaxInflightBytes = 6
    kMaxConnections = 1
    MaxRequests = 3
    MaxAccepts = 1
INVARIANT
    BodyUnderBodyTimer
