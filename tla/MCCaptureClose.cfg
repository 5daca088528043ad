\* close({flush: true}) while a pass is running.
CONSTANTS
    e1 = e1
    e2 = e2
    r1 = r1
    r2 = r2
    Ids = {e1, e2}
    Requests = {r1, r2}
    Weight <- Weights
    BodyLimit = 4
    UnloadLimit = 2
    BatchSize = 2
    MaxBuffer = 2
    MaxAttempts = 2
    MaxHung = 0
    Malformed = {}
    Ahead = {}
    MaxInflight = 1
    MaxCrashes = 0
SPECIFICATION Spec
CHECK_DEADLOCK FALSE
INVARIANTS
    CloseFlushes
