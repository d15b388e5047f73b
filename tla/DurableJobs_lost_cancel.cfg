SPECIFICATION FairSpec
CONSTANTS
    j1 = j1
    j2 = j2
    devto = devto
    hashnode = hashnode
    provider = provider
    Nobody = Nobody
    Jobs = {j1}
    Workers = {w1}
    Clients = {c1}
    Effects = {devto}
    Releasable = {}
    Plan <- PushOne
    Rank <- InOrder
    Mortal = {}
    MaxAttempts = 2
    MaxRetries = 0
    Punctual = TRUE
PROPERTIES
    CancellationTakesEffect
CHECK_DEADLOCK FALSE
