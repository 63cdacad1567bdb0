\* Two applications, two threads, certificates that come and go, container
\* restarts at any point.
SPECIFICATION GatewayFairSpec
CONSTANTS
    Apps = {a, b}
    Workers = {w1, w2}
    DomainSets = {{}, {d1}, {d2}}
    Upstreams = {u1}
    CertsChange = TRUE
    DiskFails = TRUE
    Crashes = TRUE
INVARIANT InSyncUnlessDisturbed
PROPERTIES ImplementsTable LockIsReleased
