CONSTANTS
    None = None
    alice = alice
    bob = bob
    en = en
    ms = ms
    older = older
    newer = newer
    checker = checker
    Nobody = Nobody
    Requests = {"q1", "q2"}
    Users = {alice, bob}
    Values = {en, ms}
    Bodies <- RequestBodies
    TTL = 1
    Horizon = 1
    MaxTokens = 1
    Callers = {"t1"}
    Sources = {"s1"}
    Limit = 2
    Span = 2
    LastTick = 5
    Creators = {older, newer}
    Checkers = {checker}
    Topics = {"t1", "t2"}
    Names = {"a", "b", "c"}
    Wanted <- Builds
    MaxFaults = 2

SPECIFICATION Spec
CHECK_DEADLOCK FALSE

INVARIANTS
    CustomersHoldTheirWrites
    BudgetHolds
    ReadyIsRegistered

PROPERTIES
    RerunCompletes
