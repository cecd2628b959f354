SPECIFICATION Spec
CONSTANTS
    Workers = {w1, w2, w3}
    Sizes <- MCPackageSizes
    Last = 2
    MaxRequests = 3
    Nobody = Nobody
INVARIANT TypeOK
PROPERTIES
    ReplacesWhole
    EveryTransactionEnds
CHECK_DEADLOCK FALSE
