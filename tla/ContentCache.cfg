CONSTANTS
    Readers = {r1, r2}
    ReadsPerRequest = 2
    MaxGeneration = 2
    MaxRequests = 3
SPECIFICATION FairSpec
INVARIANTS
    TypeOK
    StorageMatchesDirectory
    LockOwedToWaiter
    WaitersBounded
    ReadsMoveForward
    NoWaitAfterRead
PROPERTIES
    ImplementsPublishedContent
    RequestsEnd
    ContentRefreshed
CHECK_DEADLOCK FALSE
