SPECIFICATION LockSpec
CONSTANTS
    Tasks = {scale, heal}
    Deploying = {scale}
    StaleAfter = 20
    StepTime = 3
    MaxSteps = 7
    MaxClock = 22
INVARIANT
    OneOperation
\* The clock stops at MaxClock and every task ends.
CHECK_DEADLOCK FALSE
