SPECIFICATION FairSpec
CONSTANTS
    j1 = j1
    j2 = j2
    devto = devto
    hashnode = hashnode
    provider = provider
    Nobody = Nobody
    Jobs = {j1, j2}
    Workers = {w1, w2}
    Clients = {}
    Effects = {devto}
    Releasable = {}
    Plan <- PushOne
    Rank <- InOrder
    Mortal = {j2}
    MaxAttempts = 2
    MaxRetries = 0
    Punctual = TRUE
INVARIANTS
    OneOpenAttempt
PROPERTIES
    LeaseIsRespected
    EveryJobSettles
CHECK_DEADLOCK FALSE
