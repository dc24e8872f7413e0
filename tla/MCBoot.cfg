SPECIFICATION Spec
CONSTANTS
    Elfs <- MC_Elfs
    PAGE_SIZE = 2
    STACK_PAGE = 8
    USER_STACK_PAGES = 2
    Frames = {1, 2, 3, 4, 5, 6}
    Codes = {0, 7}
    RAMFB_WIDTH = 3
    RAMFB_HEIGHT = 2
    RAMFB_BPP = 4
    PMM_FRAME_SIZE = 16
    BYTE = 8
    Dirs <- MC_Dirs
    Bufs = {528}
    SLOTS = 3
    Machines <- MC_Machines
    FrameCounts = {2, 7, 14}
INVARIANTS
    ImageLoaded
    CpuOnLive
    NoStrayIrq
    DisplayMatches
    ClaimsAttached
    ScanFinds
PROPERTIES
    IrqsServed
    BootGoesOn
CHECK_DEADLOCK FALSE
