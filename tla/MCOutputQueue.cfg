\* No limit, as by default, or two messages in the queue; a failed batch is sent
\* twice before it is repeated without a wait.
CONSTANTS
    event1 = event1
    event2 = event2
    nameless = nameless
    untyped = untyped
    Message <- MCMessage
    Unnamed <- MCUnnamed
    Untyped <- MCUntyped
    NoLimit <- MCNoLimit
    Configs <- MCConfigs
    maxQueueSize = 1
    maxRetries = 1
SPECIFICATION Spec
INVARIANTS TypeOK InOnePlace QueuedHasTimer
PROPERTIES  EveryMessageHandled
CHECK_DEADLOCK FALSE
