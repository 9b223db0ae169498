CONSTANTS
    t1 = t1
    t2 = t2
    t3 = t3
    Task <- MCTasks
    MaxConns = 3
    Limits <- MCLimits
    Runtime = TRUE
SPECIFICATION FairSpec
PROPERTIES
    HandsOutOpen
    AutoClosed
