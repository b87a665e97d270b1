CONSTANTS
    Pids = {p1, p2}
    Data = {0, 1}
    FileBlocks = {0}
    Existing <- MCExisting
    num_virt_addr = 3
    memory_pages = 2
    swap_blocks = 2
    MaxBlocks = 8
    UINT_MAX = 7
    Leftovers = {0, 1}
    NoPid = NoPid
    NoName = NoName
    Private = Private
SPECIFICATION Spec
VIEW View
SYMMETRY Symmetry
INVARIANTS TypeOK FramesConserved PtesExact LoadsRight
PROPERTIES ImplementsVM OnlyStoresChangePages
