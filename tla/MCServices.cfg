CONSTANTS
    Scopes = {1, 2}
    Values = {v0, v1}
    Default = v0
    Absent = Absent
    MaxSets = 3
    MaxCrashes = 1
    AlarmSources = {"motion"}
    AlarmRules <- SomeAlarmRules
    MaxMono = 3
    SystemTimes = {1, 9}
    LoopCapacity = 2
    LoopDelays = {0, 2}
    MaxPosted = 3
    MaxTimerId = 2
    MaxLoopNow = 2
    MaxLoopStarts = 2
    ExWorkers = {w1, w2, w3}
    RingCapacity = 3
    MaxExPosted = 5
    MaxExStarts = 2
    EventTypes <- TwoEventTypes
    EventOwners = {o1, o2}
    Publishers = {p1, p2}
    MaxSubscriptions = 3
    MaxTokenId = 3
    NetConns = {n1}
    NetSamples <- QueueSamples
    NetOptions <- QueueOptions
    kQueueRecordExpire = 3
    kMaxSlowClients = 16
    MaxNetNow = 6
    MaxNetSessions = 2
    NetIfs <- TwoInterfaces
    NetAddresses = {1}
    MaxNetChanges = 2
    Zones = {1, 2}
    ClockTimes = {5, 7}
    MaxTimeCalls = 3
    MaxLines = 2
    MaxRotate = 2
    MaxAppends = 7
SPECIFICATION MCSpec
INVARIANTS
    StoreConsistent
    ControlLoopFaithful
    ExecutorDrains
    ListenersExact
    NetworkAsConfigured
    TimeAsConfigured
    LogKeepsRecent
PROPERTIES
    AlarmsSound
    NetReportsHonest
CHECK_DEADLOCK FALSE
