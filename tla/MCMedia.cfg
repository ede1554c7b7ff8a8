CONSTANTS
    kMain = kMain
    kSub = kSub
    Streams = {kMain}
    FrameSizes = {1, 3}
    MaxSharedFrames = 2
    MaxSharedBytes = 4
    MaxGopFrames = 2
    MaxGopBytes = 5
    MaxSubscriptions = 1
    MaxSequence = 5
    MaxId = 1
    MaxResets = 1
    Tracks = {kMain}
    Codecs = {"h264", "mjpeg"}
    ParamSets = {p1, p2}
    NoParams = NoParams
    MaxFlvClients = 2
    MaxMjpegClients = 1
    MaxFlvCachedTags = 2
    MaxFlvCachedBytes = 2
    TagSizes = {1}
    MaxIds = 2
    MaxTrackResets = 2
    MaxConfigs = 2
    MaxSegmentBytes = 1600
    MaxSegments = 2
    MaxCachedBytes = 2500
    InitialSegmentBytes = 800
    CapacitySlack = 100
    SegmentDuration = 2
    ForceFinalizeFloor = 4
    DefaultFrameDuration = 1
    PlaylistDepth = 2
    NalReserve = 64
    MoofBytes = 100
    PayloadSizes = {0, 359}
    FrameGaps = {1, 3}
    HlsCodecs = {"h264", "h265"}
    MaxHlsFrames = 5
    MaxHlsResets = 1
    Handles = {h1, h2, h3}
    PoolSize = 2
    BlockBytes = 1
    MaxAcquires = 3
    RawTimes <- EncoderTimes
    UsPerMs = 2
    JumpLimit = 3
    SkewLimit = 2
    DefaultDelta = 2
    MsWrap = 4
    SliceCounts = {1, 3}
    BatchSlices = 2
    MaxDts = 8
    MaxTags = 3
SPECIFICATION MCSpec
INVARIANTS
    FrameQueuesExact
    GopDecodable
    SeamlessDelivery
    TrackClientsServed
    HlsPlayable
    BlocksAccounted
PROPERTIES
    CatchesUp
    TimelinePlayable
CHECK_DEADLOCK FALSE
