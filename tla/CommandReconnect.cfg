\* One reconnect, and a command submitted after it.
SPECIFICATION FairSpec
CONSTANTS
    Commands = {c1}
    MayExpire = {}
    MaxConns = 2
    MaxRuns = 2
    DiskFails = FALSE
    PlaneCrashes = FALSE
    AgentCrashes = FALSE
\* Every command is over once and the connections are used up.
CHECK_DEADLOCK FALSE
PROPERTY PendingIsDelivered
