CONSTANTS
    MaxSeq = 7
    Capacity = 2
    MaxResyncs = 1
    Copies = 2
    Datagrams <- MCDatagrams
SPECIFICATION Spec
INVARIANT
    GapLiesAhead
CHECK_DEADLOCK FALSE
