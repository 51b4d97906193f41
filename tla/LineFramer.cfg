SPECIFICATION Spec
CONSTANTS
    Bytes = {x, y, lf}
    LF = lf
    NUL = nul
    lineBufferLen = 3
    MaxStream = 8
    MaxPacket = 4
INVARIANTS LineIsSlice ShortLineDispatched PartOfOversized
PROPERTY EventuallyRead
CHECK_DEADLOCK FALSE
