SPECIFICATION MCSpec
CONSTANTS
    Node <- ThreeNodes
    Key = {"k1", "k2"}
    Preference <- MCPreference
    Quorum <- MCQuorum
    MaxVersions = 4
    Component = {"rollout"}
INVARIANTS
    DoneIsRolledOut
CHECK_DEADLOCK FALSE
