\* One approval filed, decided, cancelled and swept, with a crash and a leaver; boots of three
\* code-declared schedules.
SPECIFICATION AllSpec
CONSTANTS
    web1 = web1
    MaxRows = 1
    MaxFaults = 1
    MaxLeavers = 1
    Cap = 1
    SelfApprove = FALSE
    StaffOverride = TRUE
    Users = {"ann", "bob", "dan"}
    Staff = {"ann", "bob"}
    Hooked = {"ann", "bob", "dan"}
    Requesters = {"ann"}
    Routings <- ToNobodyOrDan
    Expiries = {TRUE}
    Nobody = Nobody
    Requests = {web1}
    Sweeper = sweep
    JobNames = {"x", "y", "z"}
    CodeCadences = {"hourly"}
    UICadences = {"mine"}
    MaxDeploys = 2
    MaxBroken = 1
    MaxEdits = 2
    Boots = {"p1"}
INVARIANTS SyncIsSafe EffectsAtMostOnce 
PROPERTIES OneDecisionWins OverdueExpires OutcomeAnnounced SpecReturns
CHECK_DEADLOCK FALSE
