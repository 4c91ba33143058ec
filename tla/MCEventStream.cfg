SPECIFICATION StreamSpec
CONSTANTS
    Absent = Absent
    Bodies <- MCBodies
    Statuses = {200, 422, 503}
    MaxEventBytes = 4
    MaxEvents = 2
    Kept = 1
    MaxCalls = 2
INVARIANTS
    StreamsAreJudgedWhole
    ObservedOnce
CHECK_DEADLOCK FALSE
