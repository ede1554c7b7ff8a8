SPECIFICATION Spec
CONSTANTS
    Fds = {"fd5"}
    TaskCapacity = 2
    MaxEvents = 4
    Delays = {1}
    MaxPosts = 0
    MaxTimers = 0
    MaxRegs = 3
    MaxStarts = 1
    MaxTime = 0
INVARIANTS
    NoStaleDelivery
CHECK_DEADLOCK FALSE
