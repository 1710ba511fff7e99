SPECIFICATION FairSpec
CONSTANTS
    t1 = t1
    t2 = t2
    t3 = t3
    t4 = t4
    None = None
    Thread = {t1, t2, t3}
    Failing = TRUE
INVARIANTS
    LifeInv
    LoopHasSocket
    PortReleased
PROPERTIES
    ThreadEndsFirst
    StopReturns
CHECK_DEADLOCK FALSE
