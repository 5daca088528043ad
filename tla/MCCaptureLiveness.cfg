\* Every pass ends and every event is reported.
CONSTANTS
    e1 = e1
    e2 = e2
    r1 = r1
    r2 = r2
    Ids = {e1, e2}
    Requests = {r1, r2}
    Weight <- Weights
    BodyLimit = 4
    UnloadLimit = 2
    BatchSize = 2
    MaxBuffer = 2
    MaxAttempts = 2
    MaxHung = 1
    Malformed = {e2}
    Ahead = {}
    MaxInflight = 1
    MaxCrashes = 0
SPECIFICATION FairSpec
CHECK_DEADLOCK FALSE
PROPERTIES
    EveryEventIsReported
