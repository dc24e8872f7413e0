SPECIFICATION Spec
CONSTANTS
    PMM_FRAME_SIZE = 8
    HEAP_MIN_ARENA_FRAMES = 2
    HEAP_ALIGN = 2
    BLOCK_HDR = 2
    ARENA_HDR = 2
    TotalFrames = 6
    Sizes <- MC_Sizes
    MaxLive = 3
CONSTRAINT FewLive
INVARIANTS
    Tiling
    LiveIsPrivate
