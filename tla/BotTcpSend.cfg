SPECIFICATION Spec
CONSTANTS
    Pool = {b1, b2}
    connectPacket = connectPacket
    TCP_SOCKET_RING_SIZE = 2
    TCP_RETRANS_COUNT = 1
    CounterSize = 4
    NULL = NULL
    MaxSend = 2
    MaxPeer = 1
    MaxSeg = 1
    Windows = {0, 1}
    SimultaneousOpen = TRUE
INVARIANTS
    TypeOK
    BufferInOnePlace
    DeliveredInOrder
    SequenceNumbersUsedOnce
    CountersCover
    AcceptedNotForgotten
PROPERTY CloseEnds
CHECK_DEADLOCK FALSE
