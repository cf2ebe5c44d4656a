SPECIFICATION MCSpec
CONSTANTS
    N = 3
    Worker = {1}
    Command <- Enqueues
    Cuts <- OneCutOff
    MaxTerm = 2
    MaxLog = 3
    MaxDown = 1
    Scenario = {"crashes"}
PROPERTIES
    RestartKeepsApplied
