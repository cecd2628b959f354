SPECIFICATION Spec
CONSTANTS
    Consumers = {c1, c2}
    o1 = o1
    o2 = o2
    Orders = {o1, o2}
    Logs <- MCLogs
    MaxAttempts = 2
    MaxOthers = 1
    MaxTrouble = 3
    Other = Other
    NoConsumer = NoConsumer
INVARIANTS
    TypeOK
    OnlyOrphansAreLost
    CountedTwiceOnlyWith
PROPERTIES
    LedgerRespected
    OnlyOverlapsLoseOrders
    SettledUnlessAllEnd
CHECK_DEADLOCK FALSE
