\* One worker and one tick, nothing lost; an operator replays and sends tests.  Two linked
\* instances.
SPECIFICATION AllSpec
CONSTANTS
    r1 = r1
    k1 = k1
    MaxRows = 2
    MaxAttempts = 2
    Threshold = 2
    MaxFaults = 0
    MaxCommands = 1
    MaxEdits = 0
    FaultKinds = {}
    Endpoints = {"a", "b"}
    Publishers = {"p"}
    Runners = {r1}
    Ticks = {k1}
PROPERTIES  DeliverySettles ReceiptSettles
CHECK_DEADLOCK FALSE
