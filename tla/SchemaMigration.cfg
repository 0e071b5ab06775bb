SPECIFICATION FairSpec
CONSTANTS
    a = a
    b = b
    c3 = c3
    Letters = {a, b, c3}
    Space = Space
    Tab = Tab
    OldNames <- MCOldNames
    Names <- MCNames
    Null = Null
    Ids = {1, 2}
    OldUsers = {1}
    Requests = {q1}
    Runners = {r1, r2}
    BatchSize = 1
    MaxWrites = 2
    MaxFaults = 1
INVARIANTS
    TypeOK
    VersionsAgree
    InformedNeverFails
    ProgressNotOverstated
PROPERTIES
    MigrationUnseen
    EventuallyMigrated
