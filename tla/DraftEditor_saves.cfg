SPECIFICATION Spec
CONSTANTS
    Nobody = Nobody
    Requests = {r1, r2}
    Writers = {w1}
    Risks = {}
    MaxEdits = 2
    MaxRevisions = 3
    Tabs = {t1}
    Browsers = {t1}
    BrowserOf <- OwnBrowser
    MaxOpens = 2
    MaxFailures = 1
    MaxGenerations = 1
SYMMETRY RequestSymmetry
INVARIANTS
    TypeOK
    NoBlindOverwrite
    EditsSurvive
PROPERTIES
    KeepsHistory
CHECK_DEADLOCK FALSE
