\* The container stops between the write and nginx -t.
SPECIFICATION GatewaySpec
CONSTANTS
    Apps = {a, b}
    Workers = {w1, w2}
    DomainSets = {{}, {d1}, {d2}}
    Upstreams = {u1}
    CertsChange = FALSE
    DiskFails = FALSE
    Crashes = TRUE
\* A container whose directory nginx rejects stays down.
CHECK_DEADLOCK FALSE
INVARIANT StoppedCanStart
