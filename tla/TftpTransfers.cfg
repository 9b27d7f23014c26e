\* One session for two clients, so that each request evicts or is refused.
SPECIFICATION TftpSpec
CONSTANTS
    h1 = h1
    h2 = h2
    h3 = h3
    p1 = p1
    p2 = p2
    f1 = f1
    f2 = f2
    Hosts <- TwoHosts
    TftpHosts <- TwoHosts
    Sids <- TwoPorts
    Files <- TwoFiles
    Peers <- TwoHostPeers
    Services = {tftp}
    SERVICE_TFTP = tftp
    Unknown = Unknown
    AnyPeer = AnyPeer
    NoListener = NoListener
    NoSession = NoSession
    SessionMax = 1
    SessionTimeout = 1
    MaxFd = 5
    NullStoreOutcomes = {"survived", "killed"}
SYMMETRY TransferSymmetry
\* The daemon stops when the store in listener_add kills it.
CHECK_DEADLOCK FALSE
INVARIANTS
    DataListenerListed
PROPERTIES
    GrantRefinement
