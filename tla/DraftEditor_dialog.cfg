SPECIFICATION Spec
CONSTANTS
    Nobody = Nobody
    Requests = {r1, r2}
    Writers = {w1}
    Risks = {"trusting"}
    MaxEdits = 2
    MaxRevisions = 3
    Tabs = {t1}
    Browsers = {t1}
    BrowserOf <- OwnBrowser
    MaxOpens = 2
    MaxFailures = 0
    MaxGenerations = 0
SYMMETRY RequestSymmetry
INVARIANTS
    EditsSurvive
CHECK_DEADLOCK FALSE
