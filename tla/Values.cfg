SPECIFICATION Spec
CHECK_DEADLOCK FALSE
CONSTANT MaxGets = 3
INVARIANTS
    PgRoundTrip
    MyRoundTrip
    SqliteRoundTrip
    MsRoundTrip
    OptionsAsAsked
    PlaceholdersNumbered
    StreamInStep
