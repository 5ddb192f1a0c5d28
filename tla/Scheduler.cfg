\* Two ticks and Run-now over three jobs, with a fault; one tick and an edit of a job that
\* may not overlap.
SPECIFICATION AllSpec
CONSTANTS
    k1 = k1
    k2 = k2
    op = op
    a = a
    b = b
    c = c
    NoJob = NoJob
    NoRow = NoRow
    MonthLen <- Week
    MaxMonths = 1
    MaxSteps = 8
    Ticks = {k1, k2}
    Operators = {op}
    Jobs = {a, b, c}
    MaxTime = 2
    MaxFaults = 1
    ErrorsAt = {"enqueue", "die"}
    MaxManual = 1
    MaxEdits = 0
    StaleAfter = 1
    Cadences <- ThreeCadences
    AllowOverlap = {a}
    SkipMissed = {a}
    Unresolvable = {b}
    Unevaluable = {c}
INVARIANTS FiresOnce OneTracePerFire NoBackfill
PROPERTIES  DueProcessed EveryRunSettles
CHECK_DEADLOCK FALSE
