SPECIFICATION FairSpec
CONSTANTS
    Nobody = Nobody
    Workers = {w1, w2}
    Clients = {c1}
    Operations <- Interrupted
    Spaced = FALSE
    Codex = FALSE
    MaxAttempts = 2
    MaxTurns = 2
    MaxEdits = 0
    MaxApprovals = 1
    MaxCrashes = 1
    MaxRetries = 0
PROPERTIES
    BusyEnds
CHECK_DEADLOCK FALSE
