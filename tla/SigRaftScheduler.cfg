SPECIFICATION MCSpec
SYMMETRY Symmetry
CONSTANTS
    Thread = {h1, h2}
    Node = {1, 2}
    Request <- AnyRequest
    Report <- AnyReport
    Priority = {0, 9}
    MaxAttempts = {1, 2}
    Now = {0, 1, 2}
    Lease = {1}
    HeartbeatTimeout = 1
    MaxTasks = 2
    Scenario = {"serial", "threads"}
INVARIANTS
    TypeOK
    SerialDevicesNotShared
    SerialDispatchesMatchJobs
    SerialPassedOverOnlyWhenFull
PROPERTIES
    SerialPlacementsFit
