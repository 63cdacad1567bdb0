\* A log of six bytes, chunks of three bytes and one line.
SPECIFICATION LogFairSpec
CONSTANTS
    Adapters = {"windows-waitress-service", "linux-docker"}
    MaxLog = 6
    RotateAt = 2
    MaxResponse = 3
    InitialBytes = 2
    InitialLines = 1
    PollBytes = 3
    PollLines = 1
    DefaultBytes = 2
    DefaultLines = 1
    HardBytes = 3
    HardLines = 2
INVARIANTS
    ShownInOrder
    NothingSkipped
PROPERTY
    CatchesUp
