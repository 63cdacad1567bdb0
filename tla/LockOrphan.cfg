SPECIFICATION LockSpec
CONSTANTS
    Tasks = {deploy, scale}
    Deploying = {deploy, scale}
    StaleAfter = 2
    StepTime = 2
    MaxSteps = 2
    MaxClock = 5
PROPERTY
    RestartFreesLock
\* The clock stops at MaxClock and every task ends.
CHECK_DEADLOCK FALSE
