\* Whatever the agent, the health checks and the gateway answer.
SPECIFICATION FairSpec
CONSTANTS
    NPorts = 2
    MaxReplicas = 2
    MaxRestarts = 0
    Keep = 1
    MaxRows = 3
    MaxReleases = 2
    MaxLate = 1
    Faults = {"stop_fails", "late", "unhealthy", "gateway_rejects"}
PROPERTIES
    OperationsEnd
