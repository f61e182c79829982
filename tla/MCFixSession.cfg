SPECIFICATION Spec
CONSTANTS
    ResendRing = 3
    MaxApps <- TwoAndOne
    MaxConnects = 2
    MaxEvents = 2
    FaultKinds = {"CannotWrite", "CannotSync", "KilledBefore", "KilledAfter"}
    Resets = {TRUE, FALSE}
INVARIANTS
    DeliveredInOrderOnce
    NothingVanishes
    NoReversal
    AgreeWhenQuiet
    OneGapCloses
CHECK_DEADLOCK FALSE
