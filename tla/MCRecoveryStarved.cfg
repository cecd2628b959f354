SPECIFICATION Spec
CONSTANTS
    Consumers = {c1}
    p1 = p1
    p2 = p2
    g1 = g1
    g2 = g2
    e1 = e1
    e2 = e2
    e3 = e3
    Partitions = {p1, p2}
    Gigs = {g1, g2}
    Live = {g2}
    Events = {e1, e2, e3}
    Logs <- MCTwoPartitions
    BatchSize = 2
    MaxFaults = 1
    NoConsumer = NoConsumer
PROPERTY EverythingIsCommitted
CHECK_DEADLOCK FALSE
