\* Does a file stay open after its session?
SPECIFICATION TftpSpec
CONSTANTS
    h1 = h1
    h2 = h2
    h3 = h3
    p1 = p1
    p2 = p2
    f1 = f1
    f2 = f2
    Hosts <- TwoHosts
    TftpHosts <- TwoHosts
    Sids <- OnePort
    Files <- OneFile
    Peers <- TwoHostOnePortPeers
    Services = {tftp}
    SERVICE_TFTP = tftp
    Unknown = Unknown
    AnyPeer = AnyPeer
    NoListener = NoListener
    NoSession = NoSession
    SessionMax = 2
    SessionTimeout = 0
    MaxFd = 5
    NullStoreOutcomes = {"survived"}
CHECK_DEADLOCK FALSE
INVARIANT
    FilesHeldBySessions
