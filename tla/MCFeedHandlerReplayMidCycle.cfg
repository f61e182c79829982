CONSTANTS
    MaxSeq = 6
    Capacity = 1
    Datagrams <- MCDatagrams
    MaxJoinRetries = 1
    Deployments <- OnlyReplayAndCycle
SPECIFICATION Spec
INVARIANT
    CleanIsTrustworthy
CHECK_DEADLOCK FALSE
