\* Consent, overdue evaluations and the two queries of a targeting read.
CONSTANTS
    u1 = u1
    u2 = u2
    k1 = k1
    k2 = k2
    o1 = o1
    o2 = o2
    Versions = {1}
    Window <- OneVersion
    AbandonDelay <- OneVersion
    Poll = 1
    Stale = 4
    MinViews = 2
    MinOrders = 2
    Users = {u1}
    Carts = {k1}
    Orders = {o1, o2}
    Events <- Browsing
    Processors = {"p"}
    Workers = {"w"}
    Readers = {"r"}
    BatchSize = 1
    Skew = 1
    Horizon = 6
    MaxUpdates = 3
SPECIFICATION Spec
CHECK_DEADLOCK FALSE
INVARIANTS
    EligibleIsTrue
    ResponseIsOneSnapshot
