SPECIFICATION Spec
CONSTANTS
    Fd = {f1}
    ListenFd = listen
    Requests <- LastRequests
    Parse <- LastParse
    ResponseSize = 1
    kMaxRequestsPerRound = 1
    kReadChunkSize = 2
    kMaxReadBytesPerEvent = 2
    kMaxWriteBytesPerEvent = 1
    kMaxHeaderBytes = 1
    kMaxBodyBytes = 1
    kMaxInflightBytes = 3
    kMaxConnections = 1
    MaxRequests = 2
    MaxAccepts = 1
INVARIANT
    FinishedConnectionsClose
