SPECIFICATION FairSpec
CONSTANTS
    LoginClients = {l1, l2}
    LoginScopes <- AgentScopes
    MaxLogins = 2
    MaxLoginFaults = 1
    BrowserClients = {b1, b2}
    BrowserScopes <- PlatformScopes
    MaxSessions = 3
    MaxBrowserFaults = 2
INVARIANTS
    TypesOK
    WaitingIsBacked
    ConnectedWorks
    NothingOrphaned
PROPERTIES
    LoginsEnd
\* A settings page may be closed and nothing more be asked.
CHECK_DEADLOCK FALSE
