SPECIFICATION Spec
CONSTANTS
    ResendRing = 3
    MaxApps <- OneEach
    MaxConnects = 2
    MaxEvents = 1
    FaultKinds = {"KilledBefore", "KilledAfter"}
    Resets = {FALSE}
INVARIANT
    CrossedRequestIsServed
CHECK_DEADLOCK FALSE
