\* Requests to the arrays' limits; descriptors to the end of the fd_set.
SPECIFICATION FairSpec
CONSTANTS
    Requests <- AllRequests
    Devices <- TwoDevices
    DeviceIps <- DeviceAddresses
    IpWords <- AddressWords
    NameIp <- HostsFile
    PortNames <- ServicesFile
    BindMax = 3
    MaxFd = 5
    NullStore = {"survived", "killed"}
    QMax <- Queues
    FdSetSize = 5
INVARIANTS
    TypeOK
    OneListenerForAll
    SelectStillHolds
PROPERTY
    DatagramServed
\* The daemon may exit, die, or wait in select.
CHECK_DEADLOCK FALSE
