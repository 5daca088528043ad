CONSTANTS
    analyst = analyst
    auditor = auditor
    late = late
    lost = lost
    first = first
    second = second
    id1 = id1
    id2 = id2
    good = good
    bad = bad
    None = None
    Nil = Nil
    Clients = {analyst, auditor}
    MaxSlots = 1
    Windows = {1, 2}
    Lengths = {1, 2}
    Asked = 1
    MaxCount = 2
    Causes = {late, lost}
    Runbooks = {"book"}
    SampleLimit = 1
    QualityLimit = 1
    RefLimit = 1
    MaxRows = 3
    Assessments <- Answers
    Contents <- Tabled
    MaxWrites = 2
    Deliveries <- Payments
    Sizes = {1, 2}
    TimeBound = 2
    Commands = {first, second}
    MaxArchive = 3
    Records = {1, 2, 3}
    Damaged = {3}
    Replays = {"r1"}
    MaxForeign = 1
    MaxHistory = 4
    MaxRecords = 2
    Retries = 1
    Outcomes = {"valid", "MALFORMED_JSON"}
    Span = 1
    Ahead = 1
    Behind = 1
    Horizon = 3
    MaxSent = 2
    MaxResults = 1
    MaxResets = 1
    Probe <- Fixtures
    Invalid = {bad}
    MaxTopic = 4
    MaxCheckpoints = 3
    MaxAccidents = 1

SPECIFICATION Spec
CHECK_DEADLOCK FALSE

INVARIANTS
    ReportIsOneInstant
    EveryRefResolves
    GroupsHoldTheirMerge
    CommittedIsMerged
    ManifestIsTrue
    CountsAreTheWindow
    NoGapIsClaimed
    PassShowsReplay

PROPERTIES
    SlotsComeBack
