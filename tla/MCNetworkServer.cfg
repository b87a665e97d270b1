CONSTANTS
    Connections = {k1, k2}
    Messages <- AllRequests
    Data = {b1}
    Trees <- SmallTrees
    Limits = {1, 2}
    MessageParts = 2
    FS_BLOCKSIZE = 2
    NoUser = NoUser
    NoData = NoData
    FS_MAXUSERNAME = 2
    FS_MAXPATHNAME = 4
    FS_MAXFILENAME = 2
    FS_MAXFILEBLOCKS = 2
    UINT32_MAX = 99
    ULONG_MAX = 999
SPECIFICATION FairSpec
INVARIANTS
    TypeOK
    WholeBlockWritten
    AnswerMeansDone
    HangsUpForAReason
CHECK_DEADLOCK FALSE
PROPERTIES ConnectionEnds
