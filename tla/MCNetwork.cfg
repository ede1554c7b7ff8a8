SPECIFICATION NetSpec
CONSTANTS
    Sizes = {2}
    MaxConnections = 1
    SendQueueCapacity = 2
    SendBufferLimit = 3
    TaskCapacity = 2
    CallbackCapacity = 2
    MaxId = 2
    MaxCalls = 4
    Conns = {c1}
    MaxPipelined = 1
    MaxRequests = 3
    MaxRead = 3
    MaxPartial = 2
    k1 = k1
    k2 = k2
    AuthUsers = {u1}
    AuthCallers = {k1, k2}
    MaxSessions = 2
    UserConfigs <- UserConfigSet
    MaxClock = 2
    MaxPasswords = 1
    MaxLogins = 2
SYMMETRY WorkerSymmetry
INVARIANTS
    OutputExact
    ConnectionsAgree
    HttpConnectionsServed
    SessionsBoundToPassword
    ApiGuarded
CHECK_DEADLOCK FALSE
