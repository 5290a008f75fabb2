CONSTANTS
    h1 = h1
    h2 = h2
    c1 = c1
    c2 = c2
    a = a
    b = b
    HostIds <- MCHostIds
    RawKeys <- MCRawKeys
    HexKeys <- MCRawKeys
    LowerCase <- MCLowerCase
    MaxWord = 7
    Requests <- MCRequests
    Clients <- MCClients
    Connections = {k1, k2}
    HostIdOf <- MCHostIdOf
    BlockSizeOf <- AgreedBlockSize
    Configured <- MCClients
    Config <- AgreedConfig
    Commands <- ReuseCommands
    NoRequest = NoRequest
    NoReply = NoReply
    NoConnection = NoConnection
    Null = Null
SYMMETRY Interchangeable
SPECIFICATION Spec
INVARIANT
    AccessSparesOtherKeys
