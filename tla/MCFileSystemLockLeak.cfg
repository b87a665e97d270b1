SPECIFICATION Spec
CONSTANTS
    na = na
    nb = nb
    nc = nc
    nd = nd
    ne = ne
    owner1 = owner1
    owner2 = owner2
    Requests = {r1, r2}
    Commands <- Growing
    Names = {na, nb, nc, nd, ne}
    Users = {owner1, owner2}
    Data = {0, 1}
    Images <- OnlyPacked
    FS_DISKSIZE = 12
    FS_DIRENTRIES = 2
    FS_MAXFILEBLOCKS = 2
    MaxDepth = 2
    NoName = NoName
    NoUser = NoUser
    NoData = NoData
INVARIANTS LocksReleased
CHECK_DEADLOCK FALSE
