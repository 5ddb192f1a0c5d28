\* Two workers and two ticks race over two deliveries, with a fault; a log handler and its
\* writer, with a queue of two, two capture windows and a fault; two linked instances, paired
\* twice, with a rotation and a fault.
SPECIFICATION AllSpec
CONSTANTS
    run1 = run1
    run2 = run2
    tick1 = tick1
    tick2 = tick2
    MaxRows = 2
    MaxAttempts = 2
    Threshold = 2
    MaxFaults = 1
    MaxCommands = 0
    MaxEdits = 0
    FaultKinds = {"create", "enqueue", "body", "worker", "tick"}
    Endpoints = {"a"}
    Publishers = {"p"}
    Runners = {run1, run2}
    Ticks = {tick1, tick2}
    Baseline = 3
    CaptureLoggers = {"apps"}
    PinnedLoggers = {"db"}
    Original <- AsConfigured
    RootLevel = 3
    QueueSize = 2
    BatchSize = 1
    PageLimit = 1
    LogRows = 1
    MaxMinutes = 1
    MaxRecords = 3
    MaxWindows = 2
    LastTime = 2
    LogFaults = 1
    A = "A"
    B = "B"
    Inbound = {"A", "B"}
    Handlers <- AnyHandlers
    MaxWrites = 1
    MaxPairs = 2
    MaxRotations = 1
    LinkFaults = 1
    MaxDeliveries = 3
    LinkAttempts = 2
    RejectLimit = 1
INVARIANTS OneSender  LinkSound
PROPERTIES NeverPostedAfterAck
CHECK_DEADLOCK FALSE
SYMMETRY Interchangeable
