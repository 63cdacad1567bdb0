\* One server, two tokens, two overlapping requests, two connections.
SPECIFICATION FairSpec
CONSTANTS
    Servers = {s1}
    MaxTokens = 2
    MaxCredentials = 2
    MaxConnections = 2
    Requests = {r1, r2}
INVARIANTS
    RevokedIsUnregistered
    RegisteredIsShown
    RowsAreClosed
PROPERTIES
    SilentIsOffline
