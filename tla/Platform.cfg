\* Requests against runbooks, one document's versions, authorization codes, login codes,
\* users and tokens, and the search index.
SPECIFICATION AllSpec
CONSTANTS
    \* Credentials
    Codes = {1, 2}
    LoginCodes = {3, 4}
    Requests = {"q1", "q2", "q3"}
    MaxAttempts = 2
    HourlyCap = 2
    \* RunbookAccess: a signed-in user, the owner, a staff member; four operations
    Members = {"own", "usr", "stf"}
    Staff = {"stf"}
    Super = {"stf"}
    ReadOnly = {"usr"}
    Books = {"b1", "b2"}
    Sects = {"s1", "s2"}
    Docs = {"d1", "d2"}
    Keys = {"k1"}
    b1 = "b1"
    s1 = "s1"
    d1 = "d1"
    u1 = "own"
    k1 = "k1"
    MaxOps = 4
    \* RunbookVersions: three writes of a document that keeps one version, one request in flight
    Sessions = {"s1"}
    WebModes = {"overwrite", "new_version", "restore"}
    MaxVersions = 1
    AgeLimit = TRUE
    MaxSaves = 3
    MaxAgings = 1
    \* Accounts: a superuser and a user who comes and goes, two tokens, two requests
    People = {"a", "c"}
    Admins = {"a"}
    Tokens = {t1, t2}
    Levels = {"auth"}
    Serving = {r1, r2}
    \* SearchIndex: two rows, one writer, one rebuild, one fault, under each backend
    Objs = {1, 2}
    Words = {"x", "y"}
    Writers = {"w"}
    MaxWrites = 2
    MaxRebuilds = 1
    MaxFaults = 1
SYMMETRY Interchangeable
   
PROPERTIES OneTime RevokedStaysDead
CHECK_DEADLOCK FALSE
