SPECIFICATION Spec
CONSTANTS
    Sizes = {1}
    MaxConnections = 1
    SendQueueCapacity = 2
    SendBufferLimit = 3
    TaskCapacity = 2
    CallbackCapacity = 2
    MaxId = 1
    MaxCalls = 2
INVARIANTS
    StopClosesEverySession
CHECK_DEADLOCK FALSE
