SPECIFICATION MCSpec
CONSTANTS
    c1 = c1
    c2 = c2
    c3 = c3
    Client = {c1, c2, c3}
    Ttl = 2
    IntervalMs = 2
    MaxTime = 4
    MaxFence = 3
    Node = {1, 2, 3}
    Key = {"a"}
    Quorum <- MCQuorum
    MaxTick = 4
    Partition <- MCPartition
    Task = {"a", "b"}
    MaxUpdates = 3
    MaxCounter = 4
    Machine = {1, 2}
    Submission <- MCSubmission
    Report <- MCReport
    Quota <- MCQuota
    Times = {0, 2}
    LeaseSeconds = {2}
    HeartbeatTimeout = 1
    MaxTerm = 2
    MaxJobs = 2
    MaxLog = 5
    FlowTask = {1, 2, 3, 4}
    Workflow <- MCWorkflow
    MaxParallel = {1, 2, 3}
    Duration = {0, 1, 3}
SYMMETRY Symmetry
INVARIANTS
    HolderIsAccepted
    OnlyHolderEndsLease
    HolderOwnsTheLock
    JobsAccounted
    VerdictsRight
    GreedyBound
    ReplicasAgree
PROPERTIES
    HolderKeepsItsValue
CHECK_DEADLOCK FALSE
