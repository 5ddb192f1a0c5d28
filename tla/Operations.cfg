\* Schedule cursors, and one monitor of two days.
SPECIFICATION AllSpec
CONSTANTS
    MonthLen <- ShortYear
    MaxMonths = 60
    MaxSteps = 20
    MaxTime = 18
    Schedules <- AllSchedules
    Keys = {"site"}
    DayLen = 2
    Retention = 1
    StaleAfter = 1
    Target = 100
    Minimum = 50
    Recent = 2
    LastMinute = 4
    EditMinutes = {1, 2}
    MaxEdits = 2
INVARIANTS StrictlyAfter CursorExact PagesHonest
PROPERTIES PruneKeepsUptime
CHECK_DEADLOCK FALSE
