\* A sweep beside a late result.
SPECIFICATION Spec
CONSTANTS
    Commands = {c1}
    MayExpire = {c1}
    MaxConns = 1
    MaxRuns = 2
    DiskFails = FALSE
    PlaneCrashes = FALSE
    AgentCrashes = FALSE
\* Every command is over once and the connections are used up.
CHECK_DEADLOCK FALSE
PROPERTY TerminalIsFinal
