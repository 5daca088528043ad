\* Rule versions deployed back and forth, two customers compete for batches of one.
CONSTANTS
    u1 = u1
    u2 = u2
    k1 = k1
    k2 = k2
    o1 = o1
    o2 = o2
    Versions = {1, 2}
    Window <- TwoVersions
    AbandonDelay <- TwoVersions
    Poll = 1
    Stale = 2
    MinViews = 2
    MinOrders = 2
    Users = {u1, u2}
    Carts = {k1}
    Orders = {o1, o2}
    Events <- TwoCustomers
    Processors = {"p1", "p2"}
    Workers = {"w1"}
    Readers = {}
    BatchSize = 1
    Skew = 1
    Horizon = 3
    MaxUpdates = 0
SPECIFICATION FairSpec
CHECK_DEADLOCK FALSE
INVARIANTS
    EvaluationMatchesMemberships
PROPERTIES
    EvaluationsMoveForward
    DueIsEvaluated
