CONSTANTS
    Pids = {p1, p2, p3}
    Data = {0, 1}
    FileBlocks = {}
    Existing <- NoFiles
    num_virt_addr = 2
    memory_pages = 3
    swap_blocks = 4
    MaxBlocks = 9
    UINT_MAX = 7
    Leftovers = {0}
    NoPid = NoPid
    NoName = NoName
    Private = Private
SPECIFICATION Spec
VIEW View
SYMMETRY Symmetry
INVARIANTS SwapConserved MmuSound CleanOnDisk
PROPERTIES ImplementsVM
