\* Two accounts, two overlapping requests, a login and two successors.
SPECIFICATION Spec
CONSTANTS
    Users = {u1, u2}
    MaxSessions = 3
    MaxShared = 2
    Requests = {r1, r2}
    RoleChoices <- Choices
    MaxChanges = 1
SYMMETRY AccountSymmetry
\* Everyone may be signed out for good once the sessions are used up.
CHECK_DEADLOCK FALSE
INVARIANTS
    EveryoneHasARole
    SessionsKnowPassword
    OneTokenPerLogin
PROPERTIES
    AdministratorKept
