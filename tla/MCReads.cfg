SPECIFICATION Spec
CONSTANTS
    Workers = {w1, w2}
    Gigs = {g1, g2, g3}
    WindowSize = 2
    MaxWindow = 1
    MaxJobs = 3
    Free = Free
    Lost = Lost
    Handlers = {h1, h2, h3}
    MaxVersion = 3
    MaxTasks = 4
    MaxChildren = 2
    Ids = {1, 2, 3}
    Statuses = {"", "draft", "published"}
    Sorts = {"", "published_at"}
    Limits = {0, 1}
    PageSize = 2
    MaxTime = 1
    MaxChanges = 1
    MaxSlips = 2
SYMMETRY Symmetry
INVARIANTS
    TypeOK
    WindowsHoldPublished
    OneLeaseHolder
    AppendKeepsWindow
    OwnerListLosesOnlyTailed
    DraftsComeFromProjections
    CopiesShowTheRow
    WalkIsTheList
    OneMissedPerSlip
PROPERTIES
    RegressionNeedsOverlap
CHECK_DEADLOCK FALSE
