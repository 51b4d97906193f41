SPECIFICATION Spec
CONSTANTS
    Short = Short
    Full = Full
    Long = Long
    Datagrams <- MCDatagrams
    SizeOf <- MCSizeOf
    IP_MAX_FRAG_PACKETS = 2
    IP_MAX_FRAGS_PER_PACKET = 3
    IP_BIGPACKET_SIZE = 3
    IP_FRAG_REASSEMBLY_TIMEOUT = 1
    PACKET_BUFFERS = 4
    MaxHeld = 3
INVARIANTS
    BuffersConserved
    TablesSound
    ReassembledIsSent
    OnlyOverlappedWaits
PROPERTY ReassemblyEnds
