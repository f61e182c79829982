CONSTANTS
    MaxSeq = 6
    Capacity = 1
    Datagrams <- MCDatagrams
    MaxJoinRetries = 1
    Deployments <- TrustedDeployments
SPECIFICATION FairSpec
INVARIANTS
    CleanIsTrustworthy
    NoDuplicateApplies
    NoUnexplainedJump
PROPERTIES
    NeverGivesUpOnReceived
    RecoveryEnds
CHECK_DEADLOCK FALSE
