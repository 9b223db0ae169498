CONSTANTS
    Sql = {q1}
    TypeSql = {t1}
    Capacity = 1
    IdSpace = 2
    MaxCalls = 2
    MaxRows = 1
    MaxNotes = 1
    Cancels = TRUE
    CopyIn = TRUE
    Crashes = TRUE
SPECIFICATION FairSpec
PROPERTY ResolvesAfterDrop
CHECK_DEADLOCK FALSE
