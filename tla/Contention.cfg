CONSTANTS
    h1 = h1
    h2 = h2
    a = a
    upper_a = upper_a
    b = b
    c = c
    bad = bad
    HostIds <- MCHostIds
    RawKeys <- MCRawKeys
    HexKeys <- MCHexKeys
    LowerCase <- MCLowerCase
    NoThread = NoThread
    NoRequest = NoRequest
    NoReply = NoReply
    NoHost = NoHost
    Threads = {t1, t2, t3}
    MaxWord = 3
    MaxFaults = 1
    Requests <- ContentionRequests
SPECIFICATION FairFaultSpec
PROPERTIES
    Answered
    HandlersAdvance
INVARIANTS
    LockDiscipline
    FaultsContained
