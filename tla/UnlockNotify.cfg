SPECIFICATION NotifyFairSpec
CONSTANTS
    c1 = c1
    c2 = c2
    c3 = c3
    t1 = t1
    t2 = t2
    None = None
    Conns <- MCConns
    Tables <- MCTables
    MaxSteps = 2
INVARIANTS
    FiresTheWaiting
    OneWakeUp
PROPERTIES
    WokenUp
