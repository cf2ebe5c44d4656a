SPECIFICATION MCSpec
CONSTANTS
    t1 = t1
    t2 = t2
    p1 = p1
    p2 = p2
    Task = {t1, t2}
    Pool = {p1, p2}
    Fingerprint = {"land:a.part", "land:b"}
    Flaky = {"land:a.part"}
    Failing = {"land:b"}
    MaxPending = 1
    MaxRetries = 1
    MaxEntries = 1
    MaxSubmissions = 3
    MaxLost = 1
    QueueWorkers = 2
    QueueLimit = 3
    ServiceTime = 2
    QueueMessages = 6
    QueueTime = 6
    Message = {"m1", "m2", "m3"}
    MaxAttempts = 3
    Threshold = 2
    RecoveryTimeout = 2
    HalfOpenSuccesses = 2
    TokensPerRetry = 2
    InitialTokens = 2
    MaxTokens = 3
    Delays <- MCDelays
    ConsumerTime = 4
    Timeout = 2
    WorkTime = 3
    MaxDeliveries = 2
    MaxPuts = 2
    ProcessWorkers = 2
    Deliveries <- MCDeliveries
    MaxKills = 2
    Client = {"c1", "c2"}
    Script <- MCScript
    ClientRetries = 2
    CallDelay = {0, 2}
    CallTime = 3
    Key = {"k1"}
    DefaultTtl = 3
    Ttl = {0, 2}
    MaxEtag = 5
    RepositoryTime = 5
    ServiceKey = {1}
    MaxVersion = 3
    OutboundLimit = 2
    IdleInterval = 2
    TokenLife = 3
    MaxEvents = 3
    StreamTime = 3
    Subscriber = {"s1"}
    Requester = {"c1"}
    RequestId = {1}
    HighWater = 1
    MaxSubmits = 2
    Applier = {1, 2}
    Attempts = 3
    ApplyTime = 4
    RetryAfter = {0, 2}
    Desired <- MCDesired
    MaxFaults = 2
    MaxDeletes = 1
    Name = {1, 2, 3}
    PageSize = 1
    MaxChanges = 2
SYMMETRY Alike
INVARIANTS
    RunsAlone
    LatencyBounded
    RetriesPaidFor
    ItemMatchesHistory
    WorkDoneOnce
    ClientsSeeOneStory
PROPERTIES
    DependencySpared
CHECK_DEADLOCK FALSE
