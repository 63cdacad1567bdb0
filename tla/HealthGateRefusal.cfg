SPECIFICATION HealthSpec
CONSTANTS
    MaxThreshold = 3
    MaxPolls = 9
INVARIANTS
    RefusalIsEarned
\* A refusal ends the wait, and MaxPolls the history.
CHECK_DEADLOCK FALSE
