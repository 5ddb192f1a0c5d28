\* One enqueue fails.
SPECIFICATION FairSpec
CONSTANTS
    r1 = r1
    k1 = k1
    MaxRows = 1
    MaxAttempts = 2
    Threshold = 0
    MaxFaults = 1
    MaxCommands = 0
    MaxEdits = 0
    FaultKinds = {"enqueue"}
    Endpoints = {"a"}
    Publishers = {"p"}
    Runners = {r1}
    Ticks = {k1}
PROPERTIES PendingPickedUp
CHECK_DEADLOCK FALSE
