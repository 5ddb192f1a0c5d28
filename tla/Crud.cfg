\* Writes through every transport, lists and their pages, a calendar, charts and their rows.
SPECIFICATION Spec
CONSTANTS
    r1 = r1
    r2 = r2
    RowKeys = {1, 2, 3}
    Born = {1, 2}
    Linked = {1}
    Users = {"ann", "stf"}
    Staff = {"stf"}
    Owner = "ann"
    Requests = {r1, r2}
    ProjectViews <- FourViews
    Ids = {1, 2}
    People = {"ann", "bob", "dan"}
    Admins = {"bob"}
    Filers = {"ann", "bob"}
    Routings <- TwoRoutings
    Kinds <- TwoKinds
    LazyLimits = {1}
    Cap = 1
    Minutes = 1
    MaxLeavers = 1
    Table <- FourRows
    Defs <- ThreeDefs
    Traffic <- SevenRequests
    KeptRows = 1
    MaxRequests = 2
    Hours = 3
    Views <- EightViews
    AppFiles = {"f1", "f2", "f3"}
    Broken = {"f3"}
    Late = {"f4", "f1"}
    Explored = {"m1", "m4"}
    Custom <- TwoPaths
    Testees = {1, 2}
    Managers = {2}
    Sites <- SixSites
    MaxTests = 2
    Endpoints <- ThreeEndpoints
    Receivers <- FourReceivers
SYMMETRY Interchangeable
INVARIANTS ShownIsServed DerivedAgrees
PROPERTIES TransportsAgree
CHECK_DEADLOCK FALSE
