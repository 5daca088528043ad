\* One partition: out-of-order, repeated and damaged records, failures, replays
\* and a reconciliation.
CONSTANTS
    e1 = e1
    e2 = e2
    e3 = e3
    Partitions = {"p"}
    Events = {e1, e2, e3}
    At <- Times
    Type <- Kinds
    Damaged = {e2}
    Size = 2
    Delay = 2
    MaxLog = 3
    RestartAttempts = 1
    MaxRepairs = 1
SPECIFICATION FairSpec
CHECK_DEADLOCK FALSE
INVARIANTS
    TypeOK
    CheckpointedIsRouted
    RowsCountDistinctEvents
    TimelyIsCounted
    RepairedIsComplete
PROPERTIES
    EveryRecordIsRouted
