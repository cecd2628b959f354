SPECIFICATION Spec
CONSTANTS
    Consumers = {c1, c2}
    g1 = g1
    e1 = e1
    e2 = e2
    e3 = e3
    Gigs = {g1}
    Events = {e1, e2, e3}
    Logs <- MCLogs
    BatchSize = 2
    PoolSize = 2
    MaxFaults = 2
    NoConsumer = NoConsumer
INVARIANT AcknowledgedAfterSuccess
CHECK_DEADLOCK FALSE
