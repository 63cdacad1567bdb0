\* nginx acts on the signal after the command returned, when the next thread may
\* have written its file.
SPECIFICATION GatewaySpec
CONSTANTS
    Apps = {a, b}
    Workers = {w1, w2}
    DomainSets = {{}, {d1}, {d2}}
    Upstreams = {u1}
    CertsChange = FALSE
    DiskFails = FALSE
    Crashes = FALSE
PROPERTY UnvalidatedIsNotRead
