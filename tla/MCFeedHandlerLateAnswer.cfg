CONSTANTS
    MaxSeq = 6
    Capacity = 1
    Datagrams <- UnitDatagrams
    MaxJoinRetries = 1
    Deployments <- OnlyWithReplay
SPECIFICATION Spec
INVARIANT
    NeverAppliedAgain
CHECK_DEADLOCK FALSE
