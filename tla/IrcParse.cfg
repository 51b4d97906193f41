SPECIFICATION Lines
CONSTANTS
    SP = SP
    CR = CR
    LF = LF
    COLON = COLON
    AT = AT
    Others = {x}
    parseBufferLenMax = 5
    paramsListMax = 4
    MaxLine = 8
INVARIANTS
    ParsesAsReference
    OnlyWholeLines
CHECK_DEADLOCK FALSE
