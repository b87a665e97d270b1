SPECIFICATION FairSpec
CONSTANTS
    na = na
    nb = nb
    nc = nc
    nd = nd
    ne = ne
    owner1 = owner1
    owner2 = owner2
    Requests = {r1, r2, r3}
    Commands <- Waiting
    Names = {na, nb}
    Users = {owner1, owner2}
    Data = {0, 1}
    Images <- OnlyNested
    FS_DISKSIZE = 7
    FS_DIRENTRIES = 2
    FS_MAXFILEBLOCKS = 2
    MaxDepth = 2
    NoName = NoName
    NoUser = NoUser
    NoData = NoData
INVARIANTS LockMapExact
PROPERTIES Answered
CHECK_DEADLOCK FALSE
