SPECIFICATION Spec
CONSTANTS
    me = me
    a = a
    b = b
    c = c
    mine = mine
    ea = ea
    eb1 = eb1
    eb2 = eb2
    ec = ec
    ex = ex
    Hosts <- MCHosts
    MyIpAddr = me
    MyEthAddr = mine
    Eths <- MCEths
    EthsOf <- MCEthsOf
    ImpostorEths <- MCImpostorEths
    ARP_MAX_PENDING = 2
    ARP_MAX_ENTRIES = 2
    ARP_RETRIES = 2
    MaxTime = 2
INVARIANTS
    PendingCounted
    OneEntryPerAddress
    CachedIsGenuine
    ConflictIsReal
PROPERTY PendingEnds
CHECK_DEADLOCK FALSE
