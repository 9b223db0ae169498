SPECIFICATION FairSpec
CHECK_DEADLOCK FALSE
PROPERTIES ImplementsPipe RecvReturns
CONSTANTS
    HeaderLen = 2
    Sizes <- MCSizes
    MaxMsgs = 2
    MaxWrites = 3
    MaxDrops = 2
