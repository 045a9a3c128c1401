CONSTANTS
    Readers = {r1, r2}
    ReadsPerRequest = 1
    MaxGeneration = 2
    MaxRequests = 2
SPECIFICATION Spec
PROPERTY TimeoutMeansEmpty
CHECK_DEADLOCK FALSE
