\* docs/auth.md: a revoked refresh token revokes every session of its user.
SPECIFICATION Spec
CONSTANTS
    Users = {u1}
    MaxSessions = 3
    MaxShared = 3
    Requests = {r1, r2}
    RoleChoices <- Choices
    MaxChanges = 1
CHECK_DEADLOCK FALSE
PROPERTY ReuseRevokesAll
