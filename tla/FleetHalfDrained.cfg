SPECIFICATION Spec
CONSTANTS
    NPorts = 4
    MaxReplicas = 3
    MaxRestarts = 1
    Keep = 1
    MaxRows = 4
    MaxReleases = 2
    MaxLate = 1
    Faults = {"unhealthy"}
INVARIANTS
    RoutesAreUpstreams
