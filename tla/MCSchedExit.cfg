SPECIFICATION ExitSpec
CONSTANTS
    t0 = t0
    t1 = t1
    t2 = t2
    None = None
    Threads = {t0, t1, t2}
    Main = t0
    MaxIrqDepth = 2
PROPERTY NeverPickedAgain
CHECK_DEADLOCK FALSE
