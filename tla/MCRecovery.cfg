SPECIFICATION Spec
CONSTANTS
    Consumers = {c1, c2}
    p1 = p1
    p2 = p2
    g1 = g1
    g2 = g2
    e1 = e1
    e2 = e2
    e3 = e3
    Partitions = {p1}
    Gigs = {g1, g2}
    Live = {g2}
    Events = {e1, e2, e3}
    Logs <- MCLogs
    BatchSize = 2
    MaxFaults = 3
    NoConsumer = NoConsumer
INVARIANTS
    TypeOK
    OnlyOrphansAreLost
    CompletionMeansApplied
    OrderIsKept
PROPERTIES
    LedgerRespected
    EverythingIsCommitted
CHECK_DEADLOCK FALSE
