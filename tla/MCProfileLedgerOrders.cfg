\* One partition, one customer: redelivery, restarts, refusals and order facts.
CONSTANTS
    p1 = p1
    p2 = p2
    u1 = u1
    u2 = u2
    s1 = s1
    s2 = s2
    s3 = s3
    o1 = o1
    k1 = k1
    k2 = k2
    Partitions = {p1}
    Users = {u1}
    PartitionOf <- KeyedPartition
    EventIds = {"a", "b"}
    Orders = {o1}
    Carts = {k1, k2}
    Times = {1, 2}
    Events <- OrderEvents
    Invalid = Invalid
    Sessions = {s1, s2}
    MaxLog = 3
    RestartAttempts = 1
    MaxLapses = 1
    MaxRecreations = 0
SPECIFICATION Spec
SYMMETRY Symmetry
CHECK_DEADLOCK FALSE
INVARIANTS
    TypeOK
    AppliedOncePerRetention
    TotalsMatchReceipts
    LatestAreMaxima
    CartsFollowFacts
