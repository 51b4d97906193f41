SPECIFICATION Spec
CONSTANTS
    Size = 4
    Data = {p1, p2}
    Ok = ok
    Refused = refused
    NULL = null
INVARIANT Inv
PROPERTY RefinesFifo
