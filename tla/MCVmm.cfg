SPECIFICATION VmmSpec
CONSTANTS
    Levels = 4
    Entries = 3
    TableFrames = {1, 2, 3, 4, 5, 6, 7, 8, 9, 10, 11, 12, 13, 14, 15}
    BootTables <- MC_BootTables
    L1Blocks = {0, 1}
    Kernel = k
    Spaces = {k, s1}
    NoSpace = NoSpace
    Pages <- MC_Pages
    Phys = {100}
    Unmapped = Unmapped
    Block = Block
INVARIANTS
    TablesPrivate
    UserPathOpen
    TlbFresh
PROPERTY ImplementsSpaces
