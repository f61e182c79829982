CONSTANTS
    MaxSeq = 7
    Capacity = 2
    MaxResyncs = 1
    Copies = 2
    Datagrams <- MCDatagrams
SPECIFICATION Spec
INVARIANTS
    FrontierAccounted
    NothingSilentlyLost
    DeliveredExactlyOnce
    WindowAheadOfFrontier
    SpareSlotSuffices
CHECK_DEADLOCK FALSE
