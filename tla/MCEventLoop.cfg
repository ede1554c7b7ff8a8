SPECIFICATION MCSpec
CONSTANTS
    Fds = {"fd5"}
    TaskCapacity = 2
    MaxEvents = 4
    Delays = {1, 2}
    MaxPosts = 3
    MaxTimers = 2
    MaxRegs = 1
    MaxStarts = 2
    MaxTime = 3
INVARIANTS
    NoLostWakeup
    StopIsFinal
    NoOversleep
PROPERTIES
    ImplementsLoopQueue
    LoopProgress
    CancelIsFinal
CHECK_DEADLOCK FALSE
