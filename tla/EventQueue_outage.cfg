SPECIFICATION FairSpec
CONSTANTS
    Events = {e1}
    HeaderEvents = {e1}
    Unstorable = {}
    Workers = {w1}
    MaxRetries = 3
    BatchSize = 1
    MaxLen = 2
    MaxLog = 2
    Outages = 1
    Kills = 0
    LostReplies = 0
    Losses = 0
    MaxFaults <- MCMaxFaults
PROPERTY ProcessedAfterRecovery
