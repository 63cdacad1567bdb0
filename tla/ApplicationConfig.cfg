\* Two applications, two hostnames, two overlapping requests.
SPECIFICATION Spec
CONSTANTS
    Days = {0, 1, 2}
    Today = 1
    Window = 1
    h1 = h1
    h2 = h2
    k1 = k1
    Apps = {a1, a2}
    Hostnames = {h1, h2}
    Keys = {k1}
    GlobalKeys = {k2}
    k2 = k2
    Configs <- SmallConfigs
    Targets = {1, 2, 3}
    Requests = {r1, r2}
    MaxWrites = 5
SYMMETRY ConfigSymmetry
INVARIANTS
    BoundsFollowConfig
    OneDomainRow
    HostnameIsOwn
    UnsoundPairBlocks
