\* One customer's journey: deadlines, expiry, late and early events.
CONSTANTS
    u1 = u1
    u2 = u2
    k1 = k1
    k2 = k2
    o1 = o1
    o2 = o2
    Versions = {1}
    Window <- OneVersion
    AbandonDelay <- OneVersion
    Poll = 3
    Stale = 6
    MinViews = 2
    MinOrders = 2
    Users = {u1}
    Carts = {k1, k2}
    Orders = {o1, o2}
    Events <- JourneyEvents
    Processors = {"p"}
    Workers = {"w"}
    Readers = {}
    BatchSize = 1
    Skew = 1
    Horizon = 7
    MaxUpdates = 0
SPECIFICATION Spec
CHECK_DEADLOCK FALSE
INVARIANTS
    EvaluationStands
    NobodyIsMissed
