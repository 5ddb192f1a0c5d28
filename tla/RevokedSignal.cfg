\* One worker: requests by a token and by a session, the token revoked at any time.
SPECIFICATION Spec
CONSTANTS
    Workers = {w}
    Users = {"ann", "bob"}
    Tokens = {"k"}
    Owner = "bob"
    Traffic <- ByToken
    MaxRows = 2
    AuthThreshold = 2
    BurstThreshold = 2
    PathThreshold = 2
    MissThreshold = 2
    Top = 1
    Profiles <- Plain
    Palettes = {"django", "blue"}
    LastPalette = "blue"
    MaxRequests = 3
    Horizon = 2
INVARIANTS RevokedMeansRetried
CHECK_DEADLOCK FALSE
