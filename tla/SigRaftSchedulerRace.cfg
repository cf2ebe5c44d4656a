SPECIFICATION MCSpec
CONSTANTS
    Thread = {h1, h2}
    Node = {1, 2}
    Request <- AnyRequest
    Report <- AnyReport
    Priority = {0, 9}
    MaxAttempts = {1, 2}
    Now = {0, 1, 2}
    Lease = {1}
    HeartbeatTimeout = 1
    MaxTasks = 2
    Scenario = {"threads"}
INVARIANTS
    DispatchesMatchJobs
