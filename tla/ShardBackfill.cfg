SPECIFICATION FairSpec
CONSTANTS
    Tenants = {1, 2}
    ShardCount = 2
    Runners = {r1, r2}
    BatchSize = 2
    MaxRows = 3
    MaxFaults = 1
INVARIANTS
    TypeOK
    NothingSkipped
PROPERTIES
    CompleteIsComplete
    CopySpec
    EventuallyCopied
