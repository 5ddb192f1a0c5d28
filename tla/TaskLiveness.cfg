\* Two workers, one of them steady, and two faults of the other.
SPECIFICATION FairSpec
CONSTANTS
    MaxRows = 2
    MaxRoots = 1
    MaxAged = 0
    MaxFaults = 2
    AttemptsAge = FALSE
    w1 = w1
    w2 = w2
    Workers <- TwoWorkers
    Steady = {w2}
    NoWorker = NoWorker
    Paths <- OnlyEmail
    Policy <- Declared2
    Pins = {0}
    Outcomes = {"none", "error"}
CHECK_DEADLOCK FALSE
PROPERTIES LostTaskReaped FailureRetried DoubleRunNoticed
