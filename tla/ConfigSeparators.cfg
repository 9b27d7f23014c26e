\* A statement with a comma between blanks, and a ring of one token: TLC takes
\* long to evaluate ENABLED of steps that look further ahead.
SPECIFICATION FairSpec
CONSTANTS
    Texts <- Shortest
    Lookahead = 0
    ValuesMax = 4
    AliasesMax = 2
    Numbers <- NumberWords
    EtherWords <- EtherAddresses
    IpWords <- IpAddresses
    EtherOf <- EthersFile
    IpOf <- HostsFile
PROPERTY
    Terminates
