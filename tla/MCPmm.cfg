SPECIFICATION AllocSpec
CONSTANTS
    PMM_FRAME_SIZE = 4
    BITMAP_ALIGN = 2
    BITS = 2
    LOW_MEM_RESERVED = 8
    IDENTITY_MAP_LIMIT = 64
    MAX_REGIONS = 3
    RAM_BASE = 12
    RAM_SIZE = 52
    Counts = {0, 1, 2, 3}
    MemoryMaps <- MC_MemoryMaps
    KernelImages <- MC_KernelImages
INVARIANTS
    FreeCountExact
    NoSharedFrame
    HeldIsRam
    OnlyTailLost
    FirstRunFound
PROPERTY Returns
CONSTRAINT Intact
