\* A getToken call that comes back after its request timed out.
CONSTANTS
    e1 = e1
    e2 = e2
    r1 = r1
    r2 = r2
    Ids = {e1}
    Requests = {r1, r2}
    Weight <- Weights
    BodyLimit = 4
    UnloadLimit = 2
    BatchSize = 1
    MaxBuffer = 1
    MaxAttempts = 4
    MaxHung = 1
    Malformed = {}
    Ahead = {}
    MaxInflight = 1
    MaxCrashes = 0
SPECIFICATION Spec
CHECK_DEADLOCK FALSE
INVARIANTS
    RefusalRefreshes
