\* Two partitions, two customers: one event id races on both, topics are recreated.
CONSTANTS
    p1 = p1
    p2 = p2
    u1 = u1
    u2 = u2
    s1 = s1
    s2 = s2
    s3 = s3
    o1 = o1
    k1 = k1
    k2 = k2
    Partitions = {p1, p2}
    Users = {u1, u2}
    PartitionOf <- KeyedPartition
    EventIds = {"a"}
    Orders = {o1}
    Carts = {k1}
    Times = {1, 2}
    Events <- SharedEvents
    Invalid = Invalid
    Sessions = {s1, s2}
    MaxLog = 1
    RestartAttempts = 1
    MaxLapses = 0
    MaxRecreations = 1
SPECIFICATION FairSpec
CHECK_DEADLOCK FALSE
INVARIANTS
    NoRecordSkipped
PROPERTIES
    ImplementsExactlyOnce
    EffectsNeedAReceipt
    EveryRecordSettles
