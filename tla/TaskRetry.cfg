\* Two workers, a task that opts into retries and one retried by a pinned budget, one fault.
SPECIFICATION Spec
CONSTANTS
    MaxRows = 3
    MaxRoots = 1
    MaxAged = 1
    MaxFaults = 1
    AttemptsAge = TRUE
    w1 = w1
    w2 = w2
    Workers <- TwoWorkers
    Steady = {}
    NoWorker = NoWorker
    Paths <- MCPaths
    Policy <- MCPolicy
    Pins = {2}
    Outcomes = {"none", "error", "fatal", "interrupt"}
SYMMETRY Symmetry
INVARIANTS ChainWithinBudget CancelledNeverRuns MarkersTruthful CancelledIsNotOutcome
PROPERTIES GroundTruthKept
CHECK_DEADLOCK FALSE
