SPECIFICATION Spec
CONSTANTS
    t0 = t0
    t1 = t1
    t2 = t2
    t3 = t3
    None = None
    Threads = {t0, t1, t2, t3}
    Main = t0
    MaxIrqDepth = 2
INVARIANTS
    TypeOK
    ContextsOwn
    BodyPreemptible
    RingWhole
PROPERTY
    EveryThreadRuns
