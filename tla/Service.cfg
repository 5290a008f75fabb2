CONSTANTS
    h1 = h1
    h2 = h2
    a = a
    upper_a = upper_a
    b = b
    c = c
    bad = bad
    HostIds <- MCHostIds
    RawKeys <- MCRawKeys
    HexKeys <- MCHexKeys
    LowerCase <- MCLowerCase
    NoThread = NoThread
    NoRequest = NoRequest
    NoReply = NoReply
    NoHost = NoHost
    Threads = {t1, t2}
    MaxWord = 8
    Requests <- MCRequests
SYMMETRY Workers
SPECIFICATION MCSpec
INVARIANTS
    TypeOK
    PoolPartition
    IndexMatchesPools
    ChecksStillHold
    FrontOfNonEmpty
    AvailableExact
PROPERTY
    ImplementsDirectory
