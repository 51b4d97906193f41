SPECIFICATION Spec
CONSTANTS
    PACKET_BUFFERS = 3
    MaxPackets = 6
    MaxDrops = 1
INVARIANTS OneOwner NoneLost InOrder HeldIntact
PROPERTIES NoneGivenAfterStop EventuallyProcessed
CHECK_DEADLOCK FALSE
