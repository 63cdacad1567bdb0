SPECIFICATION LockSpec
CONSTANTS
    Tasks = {deploy, scale, heal}
    Deploying = {deploy, scale}
    StaleAfter = 2
    StepTime = 2
    MaxSteps = 2
    MaxClock = 6
INVARIANTS
    FreshOwnerHoldsLock
    OneFreshOperation
    StuckDeploymentHoldsNoLock
PROPERTY
    LockNeverStolen
\* The clock stops at MaxClock and every task ends.
CHECK_DEADLOCK FALSE
