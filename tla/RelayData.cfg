SPECIFICATION MCSpec
CONSTANTS
    Node <- ThreeNodes
    Key = {"k1", "k2"}
    Preference <- MCPreference
    Quorum <- MCQuorum
    MaxVersions = 4
    Component = {"store", "pages", "frames", "azure", "structures",
                 "release", "plan", "runtime", "rollout"}
INVARIANTS
    ReadsSeeHeads
    SiblingsConcurrent
    ReadsWhole
    AnswersRight
    DeploymentsSafe
CHECK_DEADLOCK FALSE
