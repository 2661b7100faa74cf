SPECIFICATION FairSpec
CONSTANTS
    Fd = {f1, f2}
    ListenFd = listen
    Requests <- LastRequests
    Parse <- LastParse
    ResponseSize = 1
    kMaxRequestsPerRound = 1
    kReadChunkSize = 2
    kMaxReadBytesPerEvent = 2
    kMaxWriteBytesPerEvent = 1
    kMaxHeaderBytes = 1
    kMaxBodyBytes = 1
    kMaxInflightBytes = 2
    kMaxConnections = 2
    MaxRequests = 2
    MaxAccepts = 2
PROPERTIES
    QueuedGetTheirTurn
    ClosedAreReleased
    
    
    ResponsesAreSent
