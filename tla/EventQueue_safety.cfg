SPECIFICATION Spec
CONSTANTS
    Events = {e1, e2}
    HeaderEvents = {e1}
    Unstorable = {}
    Workers = {w1, w2}
    MaxRetries = 2
    BatchSize = 2
    MaxLen = 1
    MaxLog = 2
    Outages = 1
    Kills = 1
    LostReplies = 1
    Losses = 1
    MaxFaults <- MCMaxFaults
SYMMETRY Symmetry
INVARIANTS
    TypeOK
    OneRowPerKey
    AckedIsStored
    ExclusiveDelivery
PROPERTIES
    SinkSpec
