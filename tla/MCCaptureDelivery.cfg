\* Two events, retries, lost and late requests, a gateway restart.
CONSTANTS
    e1 = e1
    e2 = e2
    r1 = r1
    r2 = r2
    Ids = {e1, e2}
    Requests = {r1, r2}
    Weight <- Weights
    BodyLimit = 4
    UnloadLimit = 2
    BatchSize = 2
    MaxBuffer = 2
    MaxAttempts = 2
    MaxHung = 0
    Malformed = {}
    Ahead = {e2}
    MaxInflight = 1
    MaxCrashes = 1
SPECIFICATION Spec
SYMMETRY Symmetry
CHECK_DEADLOCK FALSE
INVARIANTS
    TypeOK
    EachEventOnce
    AcceptedIsDelivered
PROPERTIES
    ReportedIsNotResent
