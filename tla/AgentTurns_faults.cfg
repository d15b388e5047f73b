SPECIFICATION Spec
CONSTANTS
    Nobody = Nobody
    Workers = {w1, w2}
    Clients = {c1}
    Operations <- AllFaults
    Spaced = FALSE
    Codex = TRUE
    MaxAttempts = 2
    MaxTurns = 1
    MaxEdits = 1
    MaxApprovals = 0
    MaxCrashes = 1
    MaxRetries = 1
SYMMETRY WorkerSymmetry
INVARIANTS
    TypeOK
    LandsOnceOnItsBase
    AcceptedHasLanded
CHECK_DEADLOCK FALSE
