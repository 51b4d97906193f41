SPECIFICATION Spec
CONSTANTS
    MaxLineLen = 512
    RoomPassed = 4096
INVARIANT ReplyFits
CHECK_DEADLOCK FALSE
