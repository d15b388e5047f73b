SPECIFICATION FairSpec
CONSTANTS
    s1 = s1
    s2 = s2
    Syncs = {s1, s2}
    Scopes <- Protected
    MaxArticles = 3
    MaxRemotes = 2
    MaxEdits = 2
    MaxCalls = 1
    MaxFaults = 1
INVARIANTS
    TypeOK
    NoSilentOverwrite
    BaselineWasShared
    DeletedIsGone
    SyncImportsOnce
PROPERTIES
    RemoteEditsArrive
    ApprovedRunEnds
CHECK_DEADLOCK FALSE
