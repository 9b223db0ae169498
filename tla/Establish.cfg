SPECIFICATION FairSpec
INVARIANTS
    TlsAsAsked
    StartsClean
    SequenceKept
PROPERTIES
    EstablishEnds
CHECK_DEADLOCK FALSE
