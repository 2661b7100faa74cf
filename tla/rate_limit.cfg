SPECIFICATION Spec
CONSTANTS
    Ip = {a, b, c}
    kIpBucketBurst = 3
    Cost = 2
    kIpBucketTtl = 3
    kIpBucketMaxEntries = 2
    MaxTime = 7
INVARIANTS
    TypeOK
    LruExact
    BurstsBounded
PROPERTY
    LimitsEachSource
CHECK_DEADLOCK FALSE
