SPECIFICATION FairSpec
CONSTANTS
    s1 = s1
    s2 = s2
    s3 = s3
    Stream <- MCStream
    Capacity = 2
    NULL = NULL
INVARIANTS
    TypeOK
    DequeueAsserted
    StoreMissesReader
PROPERTIES
    ImplementsBoundedQueue
    EveryStreamDelivered
CHECK_DEADLOCK TRUE
