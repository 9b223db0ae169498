CONSTANTS
    Query = {q1, q2}
    NoQuery = none
    Capacity = 1
    CommandChannelSize = 1
    RowChannelSize = 1
    MaxOps = 3
    MaxStatements = 1
    MaxRows = 1
    Cancels = TRUE
    UseAfterClose = TRUE
SPECIFICATION FairSpec
INVARIANTS LockedOut OpenWhileUsed CloseThenDrop SizeSettled
PROPERTIES CommandResolves LockResolves DropCloses
CHECK_DEADLOCK FALSE
