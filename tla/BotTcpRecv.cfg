SPECIFICATION Spec
CONSTANTS
    Pool = {b1, b2}
    connectPacket = connectPacket
    TCP_SOCKET_RING_SIZE = 2
    TCP_RETRANS_COUNT = 1
    CounterSize = 4
    NULL = NULL
    MaxSend = 1
    MaxPeer = 3
    MaxSeg = 2
    Windows = {1}
    SimultaneousOpen = TRUE
INVARIANTS
    StreamInOrder
    AcknowledgedIsStored
CHECK_DEADLOCK FALSE
