\* The control plane may be restarted at every await; syncs overtake each other.
SPECIFICATION Spec
CONSTANTS
    NPorts = 2
    MaxReplicas = 2
    MaxRestarts = 1
    Keep = 1
    MaxRows = 3
    MaxReleases = 2
    MaxLate = 1
    Faults = {"build_fails", "start_fails", "crash", "manual_sync", "gateway_late"}
INVARIANTS
    SettledUnlessPending
    ActiveIsBuilt
