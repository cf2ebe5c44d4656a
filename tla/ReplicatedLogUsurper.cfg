SPECIFICATION MCSpec
CONSTANTS
    N = 5
    Worker = {1}
    Command <- Enqueues
    Cuts <- TwoCuts
    MaxTerm = 2
    MaxLog = 2
    MaxDown = 0
    Scenario = {"elections"}
INVARIANTS
    LeaderKeepsCommitted
