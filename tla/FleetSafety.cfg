SPECIFICATION Spec
CONSTANTS
    NPorts = 3
    MaxReplicas = 2
    MaxRestarts = 1
    Keep = 1
    MaxRows = 4
    MaxReleases = 2
    MaxLate = 1
    Faults = {"build_fails", "start_fails", "unhealthy", "agent_gone"}
INVARIANTS
    RoutesAreCurrent
    TrafficIsGated
    OwnProcess
PROPERTIES
    RowsFollowTable
    NeverStopRouted
    ScaleMeetsTarget
    FailedSwitchChangesNothing
