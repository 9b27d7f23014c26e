\* The length of a RARP reply.
SPECIFICATION BootdSpec
CONSTANTS
    a = a
    u = u
    tEther = tEther
    aName = aName
    uName = uName
    tName = tName
    f1 = f1
    f2 = f2
    Names <- AllNames
    Ethers <- AllEthers
    Stations <- PoweredOn
    Services <- AllThree
    Files <- TwoFiles
    NoFile = NoFile
    Free = Free
    Configured <- Orders
    MachType <- Machine
    EtherNames <- Resolver
    Senders <- TftpSenders
    Ports = {2}
    ReadSizes = {44}
    SessionMax = 2
    SessionTimeout = 0
    WireModulus = 3
    MaxSid = 3
    MaxHosts = 4
\* The daemon may exit, hang or be killed.
CHECK_DEADLOCK FALSE
PROPERTY
    RarpAnswered
