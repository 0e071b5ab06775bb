SPECIFICATION FairSpec
CONSTANTS
    Clients = {c1, c2}
    Attempts = 2
    Period = 2
    PingTimeout = 1
    Pool = 1
    MaxRows = 1
    MaxFaults = 2
INVARIANTS
    TypeOK
    DetectedInTime
    FailsBackInTime
PROPERTIES
    NoRewind
    ToldRight
    KeepsWatching
