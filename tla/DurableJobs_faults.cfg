SPECIFICATION Spec
CONSTANTS
    j1 = j1
    j2 = j2
    devto = devto
    hashnode = hashnode
    provider = provider
    Nobody = Nobody
    Jobs = {j1}
    Workers = {w1, w2}
    Clients = {c1}
    Effects = {provider, devto}
    Releasable = {provider}
    Plan <- Mixed
    Rank <- InOrder
    Mortal = {}
    MaxAttempts = 2
    MaxRetries = 1
    Punctual = FALSE
SYMMETRY WorkerSymmetry
INVARIANTS
    TypeOK
    AtMostOncePublication
    AttemptBudget
PROPERTIES
    KeepsPromise
CHECK_DEADLOCK FALSE
