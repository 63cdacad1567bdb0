SPECIFICATION HealthSpec
CONSTANTS
    MaxThreshold = 3
    MaxPolls = 9
PROPERTIES
    GateIsEarned
    HealsOnRun
\* A refusal ends the wait, and MaxPolls the history.
CHECK_DEADLOCK FALSE
