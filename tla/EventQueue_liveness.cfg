SPECIFICATION FairSpec
CONSTANTS
    Events = {e1, e2}
    HeaderEvents = {e1}
    Unstorable = {e2}
    Workers = {w1, w2}
    MaxRetries = 2
    BatchSize = 2
    MaxLen = 2
    MaxLog = 2
    Outages = 1
    Kills = 1
    LostReplies = 1
    Losses = 0
    MaxFaults <- MCMaxFaults
PROPERTIES BatchEnds EventuallyDelivered AcceptedIsStored
