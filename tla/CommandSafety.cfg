\* One command, one reconnect, both processes may crash, journal writes may fail.
SPECIFICATION Spec
CONSTANTS
    Commands = {c1}
    MayExpire = {c1}
    MaxConns = 2
    MaxRuns = 2
    DiskFails = TRUE
    PlaneCrashes = TRUE
    AgentCrashes = TRUE
\* Every command is over once and the connections are used up.
CHECK_DEADLOCK FALSE
INVARIANTS
    OneJobPerCommand
    AcknowledgedIsJournaled
    ResultsAreReal
    NoLostSignal
