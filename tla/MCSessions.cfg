SPECIFICATION SessionsSpec
CONSTANTS
    RtspConns = {"c1"}
    RtspMaxSessions = 1
    MaxRtspRequests = 3
    MaxRtspFrames = 2
    w1 = w1
    w2 = w2
    HttpWorkers = {w1, w2}
    WebrtcPeerIds = {1, 2}
    client1 = client1
    client2 = client2
    WebrtcClients = {client1, client2}
    WebrtcMaxPeers = 1
    MaxWebrtcCalls = 3
    Offers <- MCOffers
    StunRequests <- MCStun
    RtcpCompounds <- MCRtcp
    RemoteAddresses = {"r1", "r2"}
    Certificates = {"f1", "f2", ""}
    PortSpan = 3
    MaxTransportSteps = 5
    RtpRoom = 6
    MaxNalUnits = 4
    SequenceSpan = 5
    TimestampSpan = 8
    ConfigBytes = 16
    EncodedFrames <- MCEncodedFrames
    RtpTimes = {40, 44, 67, 100}
    MaxSendFrames = 2
SYMMETRY SessionSymmetry
INVARIANTS
    RtspSessionsServed
    PeerResourcesOwned
    PeerStateTruthful
    TransportBoundToOffer
PROPERTIES
    RtpReceivable
CHECK_DEADLOCK FALSE
