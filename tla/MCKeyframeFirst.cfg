CONSTANTS
    Streams = {kMain}
    FrameSizes = {1, 3}
    MaxSharedFrames = 2
    MaxSharedBytes = 4
    MaxGopFrames = 2
    MaxGopBytes = 5
    MaxSubscriptions = 1
    MaxSequence = 5
    MaxId = 1
    MaxResets = 1
SPECIFICATION Spec
INVARIANT KeyframeFirst
CHECK_DEADLOCK FALSE
