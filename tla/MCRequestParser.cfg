CONSTANTS
    FS_MAXUSERNAME = 1
    FS_MAXPATHNAME = 6
    FS_MAXFILENAME = 2
    FS_MAXFILEBLOCKS = 12
    UINT32_MAX = 15
    ULONG_MAX = 127
    MaxPath = 7
    MaxNumber = 4
    Digits = {"0", "1", "2", "6"}
SPECIFICATION Spec
INVARIANTS PathsExact PathSplit BlocksRead
CHECK_DEADLOCK FALSE
