SPECIFICATION MCSpec
CONSTANTS
    N = 3
    Worker = {1, 2}
    Command <- Claims
    Cuts <- OneCutOff
    MaxTerm = 3
    MaxLog = 3
    MaxDown = 1
    Scenario = {"elections", "crashes", "claims"}
INVARIANTS
    AppliedAgree
    LogMatching
    CommittedAreKept
    OneOwner
