CONSTANTS
    Package <- MCPackages
    Manifest <- MCManifest
    Requests <- MCRequests
    QueueCapacity = 1
    MaxJobs = 2
    MaxUploads = 2
    MaxBoots = 1
    None = None
    DeviceConfigs <- OneOrTwoStreams
    MaxImage = 3
    OverlayConfigs <- SomeOverlays
    StoredOverlay <- FirstOverlay
    FaultRegions <- SomeFaultRegions
    MaskFrames <- FrameEdges
    AiTaskNames <- TwoTasks
    AiConfigs <- SomeAiConfigs
    MaxAiWorkers = 3
    FrameSizes = {1, 2}
    MaxMotionFrames = 5
    RegionAreas = {0, 5, 12, 20}
    AreaThresholds = {0, 4}
    MaxRegions = 3
    kMaxResults = 2
    kAreaStep = 8
    kAreaMax = 64
    Boxes <- SomeBoxes
    Scores = {1, 2}
    MaxProposals = 3
    SsdClasses = {1, 2}
    kTopK = 2
    kKeepTopK = 2
    Pixels = {0, 3}
    kIntegSum = 32
SPECIFICATION MCSpec
INVARIANT CancelHonoured
CHECK_DEADLOCK FALSE
