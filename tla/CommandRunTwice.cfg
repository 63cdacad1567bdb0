\* A command delivered on two connections to one Agent process.
SPECIFICATION Spec
CONSTANTS
    Commands = {c1}
    MayExpire = {}
    MaxConns = 2
    MaxRuns = 2
    DiskFails = FALSE
    PlaneCrashes = FALSE
    AgentCrashes = FALSE
\* Every command is over once and the connections are used up.
CHECK_DEADLOCK FALSE
INVARIANT ExecutedOnce
