CONSTANTS
    FS_MAXUSERNAME = 1
    FS_MAXPATHNAME = 6
    FS_MAXFILENAME = 2
    FS_MAXFILEBLOCKS = 12
    UINT32_MAX = 15
    ULONG_MAX = 127
    MaxPath = 2
    MaxNumber = 2
    Digits = {"1"}
SPECIFICATION Spec
INVARIANTS OnlyNumbersAccepted
CHECK_DEADLOCK FALSE
