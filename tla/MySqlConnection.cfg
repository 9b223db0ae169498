SPECIFICATION FairSpec
CHECK_DEADLOCK FALSE
INVARIANTS WaitingExact OwnReplies StatementsKnown
PROPERTY Resolves
CONSTANTS
    Sql = {q1, q2}
    Capacity = 1
    MaxCalls = 3
    MaxRows = 1
    MaxResults = 2
    DropAt <- Recoverable
