SPECIFICATION Spec
CONSTANTS
    None = None
    Requests = {1, 2, 3}
    Queries <- MCQueries
    Tenants <- MCTenants
    Settings <- MCSettings
    Configured = TRUE
    RowIds = {1, 4, 6}
    Recorded <- MCRecorded
    MaxTime = 2
INVARIANTS
    EveryAnswerIsOnRecord
    WalksMissNothing
CHECK_DEADLOCK FALSE
