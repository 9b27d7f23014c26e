\* Three clients compete for two sessions and for five descriptors.
SPECIFICATION TftpSpec
CONSTANTS
    h1 = h1
    h2 = h2
    h3 = h3
    p1 = p1
    p2 = p2
    f1 = f1
    f2 = f2
    Hosts <- ThreeHosts
    TftpHosts <- ThreeHosts
    Sids <- OnePort
    Files <- OneFile
    Peers <- ThreeHostPeers
    Services = {tftp}
    SERVICE_TFTP = tftp
    Unknown = Unknown
    AnyPeer = AnyPeer
    NoListener = NoListener
    NoSession = NoSession
    SessionMax = 2
    SessionTimeout = 0
    MaxFd = 5
    NullStoreOutcomes = {"survived", "killed"}
SYMMETRY ResourceSymmetry
\* The daemon stops when the store in listener_add kills it.
CHECK_DEADLOCK FALSE
INVARIANTS
    TftpTypeOK
    SessionFdsSafe
    ListenerFdsSafe
    NoDoubleCleanup
    BusyMeansFull
PROPERTIES
    TableRefinement
