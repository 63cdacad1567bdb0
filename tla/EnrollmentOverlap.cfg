\* Two requests present the same token.
SPECIFICATION Spec
CONSTANTS
    Servers = {s1}
    MaxTokens = 1
    MaxCredentials = 2
    MaxConnections = 1
    Requests = {r1, r2}
INVARIANT
    TokenIsSingleUse
