CONSTANTS
    Pids = {p1, p2}
    Data = {0, 1}
    FileBlocks = {}
    Existing <- NoFiles
    num_virt_addr = 1
    memory_pages = 2
    swap_blocks = 1
    MaxBlocks = 4
    UINT_MAX = 7
    Leftovers = {0, 2}
    NoPid = NoPid
    NoName = NoName
    Private = Private
SPECIFICATION Spec
VIEW View
SYMMETRY Symmetry
PROPERTIES ForkReserves
