SPECIFICATION Spec
CONSTANTS
    Nobody = Nobody
    Workers = {w1, w2}
    Clients = {c1, c2}
    Operations <- Orderly
    Spaced = TRUE
    Codex = FALSE
    MaxAttempts = 2
    MaxTurns = 3
    MaxEdits = 1
    MaxApprovals = 0
    MaxCrashes = 0
    MaxRetries = 0
SYMMETRY RequestSymmetry
INVARIANTS
    OneTurnAtATime
    NoOrphanTurn
    RefusalIsEditors
CHECK_DEADLOCK FALSE
