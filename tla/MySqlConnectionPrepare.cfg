SPECIFICATION Spec
CHECK_DEADLOCK FALSE
INVARIANT OwnReplies
CONSTANTS
    Sql = {q1, q2}
    Capacity = 1
    MaxCalls = 3
    MaxRows = 1
    MaxResults = 2
    DropAt <- MCPrepare
