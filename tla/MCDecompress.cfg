SPECIFICATION Spec
CONSTANTS
    W = 2
    P = 1
    d_code <- MC_d_code
    d_len <- MC_d_len
    Bytes = 2
    Blank = Blank
    THRESHOLD = 1
    LASIZE = 3
    SBSIZE = 8
    MAX_FREQ = 7
    MaxText = 7
CHECK_DEADLOCK FALSE
INVARIANTS
    UnreadBits
    TreeInv
PROPERTIES
    ImplementsLzss
