SPECIFICATION Spec
CONSTANTS
    N = 3
    MaxTerm = 4
INVARIANTS
    TypeOK
    VotedLeaderUnique
PROPERTIES
    VoteOncePerTerm
    HealedTimeoutElects
