CONSTANTS
    Sql = {q1}
    TypeSql = {t1}
    Capacity = 1
    IdSpace = 2
    MaxCalls = 3
    MaxRows = 1
    MaxNotes = 1
    Cancels = TRUE
    CopyIn = TRUE
    Crashes = TRUE
SPECIFICATION FairSpec
INVARIANTS ReadyAccounting OwnReplies StatementsKnown OkMeansReady
PROPERTY Resolves
CHECK_DEADLOCK FALSE
