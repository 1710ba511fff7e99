SPECIFICATION FairSpec
CONSTANTS
    t1 = t1
    t2 = t2
    t3 = t3
    t4 = t4
    None = None
    Thread = {t1, t2, t3, t4}
    Action = {1}
    MaxQueue = 3
INVARIANTS
    CoreThreadInv
PROPERTIES
    ActionsTaken
    StopReturns
CHECK_DEADLOCK FALSE
