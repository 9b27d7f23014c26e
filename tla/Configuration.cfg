\* Short texts, and files of up to three statements.
SPECIFICATION Spec
CONSTANTS
    Texts <- AllTexts
    Lookahead = 2
    ValuesMax = 4
    AliasesMax = 2
    Numbers <- NumberWords
    EtherWords <- EtherAddresses
    IpWords <- IpAddresses
    EtherOf <- EthersFile
    IpOf <- HostsFile
INVARIANTS
    TypeOK
    TokensAsWritten
    ParsedAsWritten
    NothingIgnored
    FirstStatementWins
    BestMatch
    EndsInTime
