SPECIFICATION FairSpec
CONSTANTS
    Procs = {api, command}
    Articles = {a1, a2}
    Seed = a1
    Texts = {"draft", "final"}
    WorkScopes <- Protected
    Retain = 1
    Interval = 1
    MaxTime = 1
    MaxTrouble = 1
    Keys = {1, 2}
    Workers = {w1, w2}
    Requests = {r1, r2}
    Regenerations = {1, 2}
    Comments = {"c1", "c2"}
    ProducerScopes <- Producing
    Intervals = {1, 2}
    MinInterval = 2
    MaxNow = 4
    MaxCuts = 2
    MaxAttempts = 2
INVARIANTS
    TypesOK
    RowsMatchFiles
    BundlesAreWhole
    RestoreIsAtomic
    SecretsSurvive
    OneCatchUp
    AnswerNamesTheArticle
    PatchesAreOneAnswer
PROPERTIES
    OpensAgain
    ProducersEnd
\* A workspace may be left alone.
CHECK_DEADLOCK FALSE
