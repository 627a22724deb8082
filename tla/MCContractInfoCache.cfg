\* Batches of two, a cache of two entries per generation.
CONSTANTS
    Request <- MCRequest
    Lookup <- MCLookup
    BatchCalls <- MCBatchCalls
    Address = {a, b, c}
    maxBatchSize = 2
    MaxResponses = 2
    maxSize = 2
SPECIFICATION Spec
INVARIANTS TypeOK OpenRequestsAreUnderWay  GenerationsAgree RecentlyUsedAreKept FailureNotKept
PROPERTIES EveryLookupEnds
CHECK_DEADLOCK FALSE
