CONSTANTS
    MaxSeq = 6
    StoreCapacity = 2
    Stream <- MCStream
    QueueDepth = 1
    Ranges <- MCRanges
    MaxConns = 2
    MaxFaults = 2
    MaxEpochs = 2
SPECIFICATION Spec
INVARIANTS
    HistoryIsOneStream
