SPECIFICATION Spec
CONSTANTS
    SECTOR = 2
    ENTRIES_PER_SECTOR = 2
    FileNames = {"a", "long"}
    AskNames = {"a", "lon", "long"}
    Trunc <- MC_Trunc
    MaxFiles = 3
    Sizes = {0, 3, 7}
    BufSizes = {2, 4}
    NoLba = NoLba
    U32 = 8
    Junk <- MC_Junk
    POLL_LIMIT = 2
    U16 = 4
INVARIANTS
    ReadRight
    MissMeansMissing
PROPERTIES
    ImplementsDisk
    FileReturns
