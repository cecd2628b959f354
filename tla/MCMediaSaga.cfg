SPECIFICATION Spec
CONSTANTS
    Workers = {w1, w2}
    MaxFiles = 3
    MaxRequests = 3
    NoFile = NoFile
SYMMETRY MCSymmetry
INVARIANTS
    TypeOK
    DanglingOnlyAfterError
    LeftoversExplained
    WholeGalleries
CHECK_DEADLOCK FALSE
