SPECIFICATION MCSpec
CONSTANTS
    t1 = t1
    t2 = t2
    c1 = c1
    c2 = c2
    Task = {t1, t2}
    Connection = {c1, c2}
    Mailbox = 2
    MaxSubscriptions = 1
    MaxConnections = 2
    MaxWatches = 2
    Valid = {"r1", "r2"}
    Invalid = {"bad"}
    Enabled = {"r1"}
    MaxEdits = 2
    MaxRequests = 1
    MaxFailures = 2
INVARIANTS
    NothingLost
    PublishedTogether
PROPERTIES
    ShowsHistory
    UnwatchEnds
    CloseReturns
    ReportCatchesUp
    EditsAdoptedUnlessRaced
CHECK_DEADLOCK FALSE
