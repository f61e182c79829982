CONSTANTS
    Capacity = 2
    Messages = {m1, m2}
    Torn = Torn
    MaxIndex = 5
    MaxCrashes = 2
SPECIFICATION FairSpec
INVARIANTS
    PublishedIntact
PROPERTIES
    ImplementsFifo
    PublishedIsConsumed
