SPECIFICATION Spec
CONSTANTS
    g1 = g1
    f1 = f1
    f2 = f2
    w1 = w1
    w2 = w2
    NoOne = NoOne
    Gigs = {g1}
    Freelancers = {f1, f2}
    Workers = {w1, w2}
    PackageLists <- MCPackageLists
    MaxRequests = 3
SYMMETRY MCSymmetry
INVARIANTS
    TypeOK
    PublishedIsComplete
    PublishedMessageIsComplete
    LiveOnlyOnboarded
    AnswerMeansRequested
PROPERTIES
    ProgressIsKept
    OnlyOwnerWrites
CHECK_DEADLOCK FALSE
