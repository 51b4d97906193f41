SPECIFICATION Spec
CONSTANTS
    Names <- MCNames
    Addrs <- MCAddrs
    NoAddr = NoAddr
    DNS_MAX_ENTRIES = 1
    DNS_RETRY_THRESHOLD = 1
    DNS_TIMEOUT = 2
    MaxIdent = 4
    UDP_MAX_CALLBACKS = 1
    DNS_HANDLER_PORT = "dns"
    PACKET_BUFFERS = 2
    NoSocket = NoSocket
    Host = "irc"
    BotHostAddr = "h"
    Canonical <- MCCanonical
    AddrsOf <- MCAddrsOf
    HostsFiles <- MCHostsFiles
    Replies <- MCReplies
INVARIANTS
    ConnectsToAnswered
    AsksOriginal
    ReceivesOnlyWhenReady
    UnhookedAtExit
    SocketsAccounted
    CleanAfterStart
PROPERTY QueryEnds
CHECK_DEADLOCK FALSE
