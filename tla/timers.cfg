SPECIFICATION Spec
CONSTANTS
    Fd = {f1}
    kMs = 2
    kHeaderTimeout = 3
    kIdleKeepAliveTimeout = 5
    kBodyTimeout = 6
    kBodyMinimum = 2
    BodyTicks = {0, 9}
    kMaxPollMs = 1
    kMetricsLogInterval = 2
    MaxWork = 1
    MaxTime = 7
    MaxAccepts = 2
    MaxGeneration = 2
INVARIANTS
    TypeOK
    ArmedHaveOneEntry
    
    StopsPromptly
PROPERTY
    FiresAsArmed
CHECK_DEADLOCK FALSE
